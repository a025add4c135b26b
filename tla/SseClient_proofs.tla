-------------------------- MODULE SseClient_proofs --------------------------
(***************************************************************************)
(* Proofs about the watchdog and the live ingestion it supervises.         *)
(*                                                                         *)
(* First Watchdog, for any number of writers, any timeout and poll period, *)
(* and any delay that does not exceed the timeout: the type invariant,     *)
(* that resets come in time, that they are justified by a real silence,    *)
(* and that they keep their distance.  Then SseClient: the client, the raw *)
(* channel and the parsers drive the watchdog as Watchdog says it is       *)
(* driven, so all of this holds of the composed system; and a Network      *)
(* Reset costs at most one connection.                                     *)
(***************************************************************************)
EXTENDS SseClient, TLAPS

\* Ages grow by one per tick up to AgeCap, and Never stays Never.
LEMMA Ages ==
  /\ Timeout \in Nat /\ PollPeriod \in Nat \ {0} /\ MaxDelay \in Nat
  /\ MaxDelay <= Timeout /\ MaxResets \in Nat \ {0}
  /\ AgeCap \in Nat /\ AgeCap = Timeout + PollPeriod + 2 * MaxDelay + 1
  /\ Never \notin Int
  BY TimeAssumption DEF AgeCap, Slack

LEMMA OlderFacts ==
  ASSUME NEW a \in Age \cup {Never}
  PROVE  /\ Older(a) \in Age \cup {Never}
         /\ Older(a) = Never <=> a = Never
         /\ a # Never => /\ a \in Nat /\ Older(a) \in Nat
                         /\ Older(a) <= a + 1 /\ a <= Older(a)
                         /\ Older(a) = a + 1 \/ Older(a) = AgeCap
                         /\ Older(a) <= AgeCap
  BY Ages DEF Older, Age

LEMMA StampFacts ==
  ASSUME TypeOK, NEW w \in Writers
  PROVE  /\ stamp[w] \in Age \cup {Never}
         /\ stamp[w] # Never => stamp[w] \in Nat /\ stamp[w] <= MaxDelay
         /\ stamp[w] # Never /\ stamp[w] < MaxDelay => Older(stamp[w]) = stamp[w] + 1
  BY Ages DEF TypeOK, Older, Age

LEMMA SilenceFacts ==
  ASSUME TypeOK
  PROVE  /\ Silence \in Age /\ Silence \in Nat
         /\ Tick => \/ heard = Never
                    \/ Silence' = Silence + 1 \/ Silence' = AgeCap
<1>1. Silence \in Age /\ Silence \in Nat  BY Ages DEF Silence, TypeOK, Age
<1>2. ASSUME Tick, heard # Never PROVE Silence' = Silence + 1 \/ Silence' = AgeCap
  <2>1. /\ heard' = Older(heard) /\ since_reset' = Older(since_reset)
        /\ heard \in Nat /\ heard <= AgeCap
        /\ since_reset # Never => since_reset \in Nat /\ since_reset <= AgeCap
    BY <1>2, Ages DEF Tick, TypeOK, Age
  <2>. QED  BY <1>2, <2>1, Ages DEF Silence, Older
<1>. QED  BY <1>1, <1>2

---------------------------------------------------------------------------
(* Types.                                                                  *)

LEMMA InitType == Init => TypeOK
<1>. SUFFICES ASSUME Init PROVE TypeOK
  OBVIOUS
<1>1. stamp \in [Writers -> 0..MaxDelay \cup {Never}]  BY DEF Init
<1>2. longest \in Age  BY Ages DEF Init, Age
<1>3. wd_time \in 0..(PollPeriod + MaxDelay)  BY Ages DEF Init
<1>4. reset_count \in 0..MaxResets /\ watchdog_resets \in 0..reset_count
  BY Ages DEF Init
<1>. QED  BY <1>1, <1>2, <1>3, <1>4 DEF Init, TypeOK

LEMMA WriterType ==
  ASSUME TypeOK, NEW w \in Writers, ReadClock(w) \/ Store(w)
  PROVE  TypeOK'
<1>. USE Ages DEF TypeOK, wd_vars, out_vars, hist_vars
<1>1. CASE ReadClock(w)
  <2>1. stamp' \in [Writers -> 0..MaxDelay \cup {Never}]  BY <1>1 DEF ReadClock
  <2>2. heard' \in Age  BY <1>1 DEF ReadClock, Age
  <2>. QED  BY <1>1, <2>1, <2>2 DEF ReadClock
<1>2. CASE Store(w)
  <2>1. stamp' \in [Writers -> 0..MaxDelay \cup {Never}]  BY <1>2 DEF Store
  <2>2. last_event' \in Age  BY <1>2 DEF Store, Age
  <2>. QED  BY <1>2, <2>1, <2>2 DEF Store
<1>. QED  BY <1>1, <1>2

LEMMA PollType == TypeOK /\ Poll => TypeOK'
<1>. SUFFICES ASSUME TypeOK, Poll PROVE TypeOK'
  OBVIOUS
<1>. USE Ages DEF TypeOK, out_vars, hist_vars
<1>1. CASE WdLoop
  <2>1. longest' \in Age  BY <1>1, SilenceFacts DEF WdLoop
  <2>. QED  BY <1>1, <2>1 DEF WdLoop
<1>2. CASE WdLoad  BY <1>2 DEF WdLoad
<1>3. CASE WdClock  BY <1>3 DEF WdClock
<1>4. CASE WdReport
  <2>1. reset_count' \in 0..MaxResets /\ watchdog_resets' \in 0..reset_count'
    BY <1>4 DEF WdReport
  <2>2. since_reset' \in Age  BY <1>4 DEF WdReport, Age
  <2>. QED  BY <1>4, <2>1, <2>2 DEF WdReport
<1>5. CASE WdFlag  BY <1>5 DEF WdFlag
<1>6. CASE WdRearm  BY <1>6 DEF WdRearm, Age
<1>. QED  BY <1>1, <1>2, <1>3, <1>4, <1>5, <1>6 DEF Poll

\* The reading of the polling thread ages with its round.
NowInv ==
  /\ wd_pc \in {"loop", "clock", "report", "flag", "rearm"} => wd_time >= PollPeriod
  /\ wd_now # Never => wd_now <= wd_time - PollPeriod

LEMMA TickType ==
  ASSUME TypeOK, NowInv, Tick
  PROVE  TypeOK'
<1>1. stamp' \in [Writers -> 0..MaxDelay \cup {Never}]
  <2>. SUFFICES ASSUME NEW w \in Writers PROVE Older(stamp[w]) \in 0..MaxDelay \cup {Never}
    BY DEF Tick
  <2>1. CASE stamp[w] = Never  BY <2>1 DEF Older
  <2>2. CASE stamp[w] # Never  BY <2>2, StampFacts, Ages DEF Tick
  <2>. QED  BY <2>1, <2>2
<1>2. wd_time' \in 0..(PollPeriod + MaxDelay)  BY Ages DEF Tick, TypeOK
<1>3. /\ last_event' \in Age \cup {Never} /\ heard' \in Age \cup {Never}
      /\ since_reset' \in Age \cup {Never}
  BY OlderFacts DEF Tick, TypeOK
<1>4. wd_last' \in Age \cup {Never} /\ (wd_last' = Never <=> wd_last = Never)
  BY OlderFacts DEF Tick, TypeOK
<1>5. wd_now' \in 0..MaxDelay \cup {Never} /\ (wd_now' = Never <=> wd_now = Never)
  <2>1. CASE wd_now = Never  BY <2>1 DEF Tick, Older
  <2>2. CASE wd_now # Never
    <3>1. wd_now \in Nat /\ wd_now <= wd_time - PollPeriod /\ wd_time \in Nat
      BY <2>2, Ages DEF TypeOK, NowInv
    <3>2. wd_pc # "done" /\ wd_time < PollPeriod + MaxDelay
      BY <2>2 DEF TypeOK, Tick
    <3>3. wd_now' = wd_now + 1
      BY <2>2, <3>1, <3>2, Ages DEF Tick, Older
    <3>. QED  BY <2>2, <3>1, <3>2, <3>3, Ages
  <2>. QED  BY <2>1, <2>2
<1>6. longest' \in Age
  <2>1. Silence' \in Age  BY <1>3, Ages DEF Silence, Age
  <2>. QED  BY <2>1 DEF Tick, TypeOK
<1>. QED
  BY <1>1, <1>2, <1>3, <1>4, <1>5, <1>6 DEF Tick, TypeOK, out_vars

LEMMA NowStep ==
  ASSUME TypeOK, NowInv, [Next]_wvars
  PROVE  NowInv'
<1>. USE Ages DEF NowInv, TypeOK
<1>1. CASE \E w \in Writers : ReadClock(w) \/ Store(w)
  BY <1>1 DEF ReadClock, Store, wd_vars
<1>2. CASE Poll
  BY <1>2 DEF Poll, WdLoop, WdLoad, WdClock, WdReport, WdFlag, WdRearm
<1>3. CASE Tick
  <2>1. wd_now # Never => wd_now \in Age /\ wd_now \in Nat
    BY DEF Age
  <2>2. wd_now' # Never => wd_now # Never /\ wd_now' <= wd_now + 1 /\ wd_now' \in Nat
    BY <1>3, <2>1, OlderFacts DEF Tick, Older
  <2>. QED  BY <1>3, <2>1, <2>2 DEF Tick
<1>4. CASE TakeFlag \/ SetStop \/ UNCHANGED wvars
  BY <1>4 DEF TakeFlag, SetStop, wvars, wd_vars
<1>. QED  BY <1>1, <1>2, <1>3, <1>4 DEF Next

TypeInv == TypeOK /\ NowInv

LEMMA InitTypeInv == Init => TypeInv
  BY InitType, Ages DEF Init, TypeInv, NowInv

LEMMA TypeStep == TypeInv /\ [Next]_wvars => TypeInv'
<1>. SUFFICES ASSUME TypeInv, [Next]_wvars PROVE TypeInv'
  OBVIOUS
<1>1. TypeOK'
  <2>1. CASE TakeFlag \/ SetStop \/ UNCHANGED wvars
    BY <2>1 DEF TypeInv, TypeOK, TakeFlag, SetStop, wvars, wd_vars, out_vars, hist_vars
  <2>. QED  BY <2>1, WriterType, PollType, TickType DEF Next, TypeInv
<1>. QED  BY <1>1, NowStep DEF TypeInv

\* Every reachable state is well typed; in particular the count the metrics
\* publish never exceeds the number of resets.
THEOREM TypeCorrect == Spec => []TypeOK
<1>1. TypeInv => TypeOK  BY DEF TypeInv
<1>. QED  BY <1>1, InitTypeInv, TypeStep, PTL DEF Spec

---------------------------------------------------------------------------
(* Resets in time.  The bound on the silence grows with the polling round; *)
(* a heartbeat stored after WdLoad is at most MaxDelay old when stored.    *)

SilenceInv ==
  /\ wd_pc = "loop" /\ last_event # Never
       => last_event <= Timeout + (wd_time - PollPeriod)
  /\ wd_pc \in {"sleep", "clock", "report", "flag", "rearm"} /\ last_event # Never
       => last_event <= Timeout + MaxDelay + wd_time
  /\ wd_pc = "clock"
       => /\ last_event # Never
          /\ \/ last_event <= wd_last
             \/ last_event <= MaxDelay + (wd_time - PollPeriod)

LEMMA SilenceStep ==
  ASSUME TypeInv, SilenceInv, [Next]_wvars
  PROVE  SilenceInv'
<1>0. /\ wd_time \in Nat /\ wd_time <= PollPeriod + MaxDelay
      /\ last_event # Never => last_event \in Nat
      /\ wd_last # Never => wd_last \in Nat
      /\ wd_now # Never => wd_now \in Nat
      /\ wd_last = Never <=> wd_pc \in {"loop", "sleep", "done"}
      /\ wd_now = Never <=> wd_pc \in {"loop", "sleep", "clock", "done"}
      /\ NowInv
  BY Ages DEF TypeInv, TypeOK, Age
<1>. USE <1>0, Ages DEF SilenceInv
<1>1. ASSUME NEW w \in Writers, ReadClock(w) PROVE SilenceInv'
  BY <1>1 DEF ReadClock, wd_vars
<1>2. ASSUME NEW w \in Writers, Store(w) PROVE SilenceInv'
  <2>1. last_event' \in Nat /\ last_event' <= MaxDelay
    BY <1>2, StampFacts DEF TypeInv, Store
  <2>. QED  BY <1>2, <2>1 DEF Store, wd_vars, NowInv
<1>3. CASE WdLoop  BY <1>3 DEF WdLoop
<1>4. CASE WdLoad  BY <1>4 DEF WdLoad
<1>5. CASE WdClock  BY <1>5 DEF WdClock, NowInv
<1>6. CASE WdReport \/ WdFlag  BY <1>6 DEF WdReport, WdFlag
<1>7. CASE WdRearm  BY <1>7 DEF WdRearm, NowInv
<1>8. CASE Tick
  <2>1. /\ last_event' = Never <=> last_event = Never
        /\ last_event # Never => last_event' \in Nat /\ last_event' <= last_event + 1
    BY <1>8, OlderFacts DEF Tick, TypeInv, TypeOK
  <2>2. wd_pc # "done" => wd_time' = wd_time + 1 /\ wd_pc' = wd_pc  BY <1>8 DEF Tick
  <2>3. wd_pc = "clock" /\ last_event <= wd_last => last_event' <= wd_last'
    BY <1>8 DEF Tick, Older, TypeInv, TypeOK, Age
  <2>. QED  BY <1>8, <2>1, <2>2, <2>3 DEF Tick
<1>9. CASE TakeFlag \/ SetStop \/ UNCHANGED wvars  BY <1>9 DEF TakeFlag, SetStop, wvars, wd_vars
<1>. QED
  BY <1>1, <1>2, <1>3, <1>4, <1>5, <1>6, <1>7, <1>8, <1>9 DEF Next, Poll

\* Silence never outlasts the timeout, one poll and the delays of a round
\* without a Network Reset.
THEOREM ResetsAreInTime == Spec => []ResetInTime
<1>1. Init => TypeInv /\ SilenceInv  BY InitTypeInv DEF Init, SilenceInv
<1>2. TypeInv /\ SilenceInv /\ [Next]_wvars => (TypeInv /\ SilenceInv)'
  BY TypeStep, SilenceStep
<1>3. TypeInv /\ SilenceInv => ResetInTime
  <2>. SUFFICES ASSUME TypeInv, SilenceInv, wd_pc # "done", last_event # Never
                PROVE  last_event <= Timeout + Slack
    BY DEF ResetInTime
  <2>1. last_event \in Nat /\ wd_time \in Nat /\ wd_time <= PollPeriod + MaxDelay
    BY Ages DEF TypeInv, TypeOK, Age
  <2>2. last_event <= Timeout + MaxDelay + (PollPeriod + MaxDelay)
    BY <2>1, Ages DEF TypeInv, TypeOK, SilenceInv
  <2>. QED  BY <2>1, <2>2, Ages DEF Slack
<1>. QED  BY <1>1, <1>2, <1>3, PTL DEF Spec

---------------------------------------------------------------------------
(* Distance between resets.                                                *)

SpacingInv ==
  /\ since_reset # Never /\ wd_pc \notin {"flag", "rearm"}
       => last_event # Never /\ last_event <= since_reset + MaxDelay
  /\ since_reset # Never /\ wd_pc \in {"clock", "report"}
       => wd_last <= since_reset + MaxDelay
  /\ wd_pc = "report" => wd_last > Timeout

LEMMA SpacingStep ==
  ASSUME TypeInv, SpacingInv, [Next]_wvars
  PROVE  /\ SpacingInv'
         /\ reset_count' # reset_count /\ since_reset # Never
              => since_reset > Timeout - MaxDelay
<1>0. /\ last_event # Never => last_event \in Age /\ last_event \in Nat
      /\ since_reset # Never => since_reset \in Age /\ since_reset \in Nat
      /\ wd_last # Never => wd_last \in Age /\ wd_last \in Nat
      /\ wd_now # Never => wd_now \in Nat /\ wd_now <= MaxDelay
      /\ wd_last = Never <=> wd_pc \in {"loop", "sleep", "done"}
      /\ wd_now = Never <=> wd_pc \in {"loop", "sleep", "clock", "done"}
  BY Ages DEF TypeInv, TypeOK, Age
<1>. USE <1>0, Ages DEF SpacingInv
<1>1. ASSUME NEW w \in Writers, ReadClock(w) PROVE SpacingInv' /\ UNCHANGED reset_count
  BY <1>1 DEF ReadClock, wd_vars, out_vars
<1>2. ASSUME NEW w \in Writers, Store(w) PROVE SpacingInv' /\ UNCHANGED reset_count
  <2>1. last_event' \in Nat /\ last_event' <= MaxDelay
    BY <1>2, StampFacts DEF TypeInv, Store
  <2>. QED  BY <1>2, <2>1 DEF Store, wd_vars, hist_vars, out_vars
<1>3. CASE WdLoop  BY <1>3 DEF WdLoop, out_vars, hist_vars
<1>4. CASE WdLoad  BY <1>4 DEF WdLoad, out_vars, hist_vars
<1>5. CASE WdClock  BY <1>5 DEF WdClock, out_vars, hist_vars
<1>6. CASE WdReport  BY <1>6 DEF WdReport
<1>7. CASE WdFlag  BY <1>7 DEF WdFlag, hist_vars
<1>8. CASE WdRearm  BY <1>8 DEF WdRearm, out_vars, hist_vars
<1>9. CASE Tick
  <2>1. /\ last_event' = Never <=> last_event = Never
        /\ since_reset' = Never <=> since_reset = Never
        /\ wd_last' = Never <=> wd_last = Never
    BY <1>9, OlderFacts DEF Tick
  <2>2. last_event # Never /\ since_reset # Never /\ last_event <= since_reset + MaxDelay
          => last_event' <= since_reset' + MaxDelay
    BY <1>9 DEF Tick, Older, Age
  <2>3. wd_last # Never /\ since_reset # Never /\ wd_last <= since_reset + MaxDelay
          => wd_last' <= since_reset' + MaxDelay
    BY <1>9 DEF Tick, Older, Age
  <2>4. wd_last # Never /\ wd_last > Timeout => wd_last' > Timeout
    BY <1>9 DEF Tick, Older, Age
  <2>5. UNCHANGED <<wd_pc, reset_count>>  BY <1>9 DEF Tick, out_vars
  <2>. QED  BY <2>1, <2>2, <2>3, <2>4, <2>5
<1>10. CASE TakeFlag \/ SetStop \/ UNCHANGED wvars
  BY <1>10 DEF TakeFlag, SetStop, wvars, wd_vars, out_vars, hist_vars
<1>. QED
  BY <1>1, <1>2, <1>3, <1>4, <1>5, <1>6, <1>7, <1>8, <1>9, <1>10 DEF Next, Poll

\* Two Network Resets are at least the timeout, less one scheduling delay,
\* apart: a late store cannot undo the rearming by more than that.
THEOREM ResetsAreSpaced == Spec => ResetsSpaced
<1>1. Init => TypeInv /\ SpacingInv  BY InitTypeInv DEF Init, SpacingInv
<1>2. TypeInv /\ SpacingInv /\ [Next]_wvars => (TypeInv /\ SpacingInv)'
  BY TypeStep, SpacingStep
<1>3. TypeInv /\ SpacingInv /\ [Next]_wvars
        => [reset_count' # reset_count /\ since_reset # Never
              => since_reset > Timeout - MaxDelay]_wvars
  BY SpacingStep
<1>. QED  BY <1>1, <1>2, <1>3, PTL DEF Spec, ResetsSpaced

---------------------------------------------------------------------------
(* No false alarm.  Outside a reset, a stored heartbeat is not much older   *)
(* than the silence, unless a newer reading is still on its way.  While the *)
(* polling thread sleeps, such a reading is from before this round, and    *)
(* arrives before the sleep is over, or the silence it ends is in longest. *)

Fresh == last_event <= Silence + MaxDelay
Held(w) == stamp[w] # Never
Covered ==
  \/ Fresh
  \/ \E w \in Writers :
       /\ Held(w)
       /\ stamp[w] >= wd_time \/ last_event <= stamp[w] + longest + MaxDelay

AlarmInv ==
  /\ last_event # Never => heard # Never
  /\ \A w \in Writers : Held(w) => heard # Never
  /\ wd_pc \in {"clock", "report", "flag", "rearm"} => heard # Never
  /\ wd_pc = "loop" /\ last_event # Never => Fresh \/ \E w \in Writers : Held(w)
  /\ wd_pc = "sleep" => Silence <= longest
  /\ wd_pc = "sleep" /\ last_event # Never => Covered
  /\ wd_pc = "clock" /\ last_event # Never => Fresh \/ \E w \in Writers : Held(w)
  /\ wd_pc = "clock" /\ MaxDelay < PollPeriod
       => wd_last <= longest + 2 * MaxDelay + (wd_time - PollPeriod)
  /\ wd_pc = "report" /\ MaxDelay < PollPeriod => longest > Timeout - 3 * MaxDelay

\* At the end of the sleep the heartbeat is recent compared with the silence.
LEMMA CoveredBound ==
  ASSUME TypeOK, AlarmInv, wd_pc = "sleep", last_event # Never,
         wd_time >= PollPeriod, MaxDelay < PollPeriod
  PROVE  last_event <= longest + 2 * MaxDelay
<1>1. /\ last_event \in Nat /\ longest \in Nat /\ wd_time \in Nat
      /\ Silence \in Nat /\ Silence <= longest
  BY Ages, SilenceFacts DEF TypeOK, AlarmInv, Age
<1>2. CASE Fresh  BY <1>1, <1>2, Ages DEF Fresh
<1>3. ASSUME NEW w \in Writers, Held(w),
             stamp[w] >= wd_time \/ last_event <= stamp[w] + longest + MaxDelay
      PROVE  last_event <= longest + 2 * MaxDelay
  BY <1>1, <1>3, StampFacts, Ages DEF Held
<1>. QED  BY <1>2, <1>3 DEF AlarmInv, Covered

LEMMA AlarmStep ==
  ASSUME TypeInv, AlarmInv, [Next]_wvars
  PROVE  AlarmInv'
<1>0. /\ last_event # Never => last_event \in Nat /\ last_event <= AgeCap
      /\ heard # Never => heard \in Nat /\ heard <= AgeCap
      /\ wd_last # Never => wd_last \in Nat /\ wd_last <= AgeCap
      /\ wd_last = Never <=> wd_pc \in {"loop", "sleep", "done"}
      /\ longest \in Nat /\ longest <= AgeCap
      /\ wd_time \in Nat /\ wd_time <= PollPeriod + MaxDelay
      /\ Silence \in Nat
      /\ NowInv /\ TypeOK
  BY Ages, SilenceFacts DEF TypeInv, TypeOK, Age
<1>. USE <1>0, Ages
<1>1. ASSUME NEW w \in Writers, ReadClock(w) PROVE AlarmInv'
  <2>1. /\ heard' = 0 /\ stamp'[w] = 0 /\ stamp[w] = Never
        /\ \A v \in Writers \ {w} : stamp'[v] = stamp[v]
        /\ UNCHANGED <<last_event, longest, since_reset, wd_pc, wd_last, wd_time>>
    BY <1>1 DEF ReadClock, TypeOK, wd_vars, out_vars
  <2>2. Held(w)' /\ heard' # Never  BY <2>1 DEF Held
  <2>3. Silence' = 0
    <3>1. since_reset # Never => since_reset \in Nat  BY DEF TypeOK, Age
    <3>. QED  BY <2>1, <3>1 DEF Silence
  <2>4. ASSUME wd_pc = "sleep", last_event # Never PROVE Covered'
    <3>1. CASE Fresh
      <4>1. last_event <= stamp'[w] + longest + MaxDelay
        BY <2>1, <2>4, <3>1 DEF AlarmInv, Fresh
      <4>. QED  BY <2>1, <2>2, <4>1 DEF Covered
    <3>2. ASSUME NEW v \in Writers, Held(v),
                 stamp[v] >= wd_time \/ last_event <= stamp[v] + longest + MaxDelay
          PROVE  Covered'
      <4>1. stamp'[v] = stamp[v]  BY <2>1, <3>2 DEF Held
      <4>. QED  BY <2>1, <3>2, <4>1 DEF Covered, Held
    <3>. QED  BY <2>4, <3>1, <3>2 DEF AlarmInv, Covered
  <2>. QED  BY <2>1, <2>2, <2>3, <2>4 DEF AlarmInv
<1>2. ASSUME NEW w \in Writers, Store(w) PROVE AlarmInv'
  <2>1. /\ last_event' \in Nat /\ last_event' <= MaxDelay
        /\ \A v \in Writers : Held(v)' => Held(v)
        /\ Held(w)
        /\ UNCHANGED <<heard, longest, since_reset, wd_pc, wd_last, wd_time>>
    BY <1>2, StampFacts DEF Store, TypeOK, wd_vars, out_vars, hist_vars, Held
  <2>2. heard # Never  BY <2>1 DEF AlarmInv
  <2>3. Silence' = Silence  BY <2>1 DEF Silence
  <2>4. Fresh'  BY <2>1, <2>3 DEF Fresh
  <2>. QED  BY <2>1, <2>2, <2>3, <2>4 DEF AlarmInv, Covered
<1>3. CASE WdLoop
  <2>1. /\ UNCHANGED <<last_event, stamp, heard, since_reset>>
        /\ wd_pc = "loop" /\ wd_pc' \in {"done", "sleep"}
        /\ wd_time' = 0 /\ longest' = Silence
    BY <1>3 DEF WdLoop, out_vars
  <2>2. Silence' = Silence /\ Fresh' = Fresh  BY <2>1 DEF Silence, Fresh
  <2>3. \A w \in Writers : Held(w)' = Held(w)  BY <2>1 DEF Held
  <2>4. ASSUME last_event # Never PROVE Covered'
    <3>1. CASE Fresh  BY <2>2, <3>1 DEF Covered
    <3>2. ASSUME NEW w \in Writers, Held(w) PROVE Covered'
      <4>1. stamp[w] >= 0  BY <3>2, StampFacts DEF Held
      <4>. QED  BY <2>1, <2>3, <3>2, <4>1 DEF Covered
    <3>. QED  BY <2>1, <2>4, <3>1, <3>2 DEF AlarmInv
  <2>. QED  BY <2>1, <2>2, <2>3, <2>4 DEF AlarmInv
<1>4. CASE WdLoad
  <2>1. /\ UNCHANGED <<last_event, stamp, heard, since_reset, longest, wd_time>>
        /\ wd_pc = "sleep" /\ wd_time >= PollPeriod
        /\ \/ last_event = Never /\ wd_pc' = "loop"
           \/ last_event # Never /\ wd_pc' = "clock" /\ wd_last' = last_event
    BY <1>4 DEF WdLoad, out_vars, hist_vars
  <2>2. Silence' = Silence /\ Fresh' = Fresh  BY <2>1 DEF Silence, Fresh
  <2>3. \A w \in Writers : Held(w)' = Held(w)  BY <2>1 DEF Held
  <2>4. last_event # Never => Fresh \/ \E w \in Writers : Held(w)
    BY <2>1 DEF AlarmInv, Covered
  <2>5. wd_pc' = "clock" /\ MaxDelay < PollPeriod
          => wd_last' <= longest + 2 * MaxDelay + (wd_time' - PollPeriod)
    BY <2>1, CoveredBound
  <2>6. wd_pc' = "clock" => heard # Never  BY <2>1 DEF AlarmInv
  <2>. QED  BY <2>1, <2>2, <2>3, <2>4, <2>5, <2>6 DEF AlarmInv
<1>5. CASE WdClock
  <2>1. /\ UNCHANGED <<last_event, stamp, heard, since_reset, longest>>
        /\ wd_pc = "clock" /\ wd_pc' \in {"loop", "report"}
        /\ wd_pc' = "report" => wd_last > Timeout
    BY <1>5 DEF WdClock, out_vars, hist_vars
  <2>2. Silence' = Silence /\ Fresh' = Fresh  BY <2>1 DEF Silence, Fresh
  <2>3. \A w \in Writers : Held(w)' = Held(w)  BY <2>1 DEF Held
  <2>4. wd_pc' = "report" /\ MaxDelay < PollPeriod => longest > Timeout - 3 * MaxDelay
    BY <2>1 DEF AlarmInv
  <2>. QED  BY <2>1, <2>2, <2>3, <2>4 DEF AlarmInv
<1>6. CASE WdReport \/ WdFlag
  <2>1. /\ wd_pc \in {"report", "flag"} /\ wd_pc' \in {"flag", "rearm"}
        /\ UNCHANGED <<last_event, stamp, heard>>
    BY <1>6 DEF WdReport, WdFlag, hist_vars
  <2>2. \A w \in Writers : Held(w)' = Held(w)  BY <2>1 DEF Held
  <2>. QED  BY <2>1, <2>2 DEF AlarmInv
<1>7. CASE WdRearm
  <2>1. /\ wd_pc = "rearm" /\ wd_pc' = "loop"
        /\ UNCHANGED <<stamp, heard, since_reset>>
        /\ last_event' \in Nat /\ last_event' <= MaxDelay
    BY <1>7 DEF WdRearm, out_vars, hist_vars, TypeOK
  <2>2. heard # Never  BY <2>1 DEF AlarmInv
  <2>3. Silence' = Silence  BY <2>1 DEF Silence
  <2>4. Fresh'  BY <2>1, <2>3 DEF Fresh
  <2>5. \A w \in Writers : Held(w)' = Held(w)  BY <2>1 DEF Held
  <2>. QED  BY <2>1, <2>2, <2>4, <2>5 DEF AlarmInv
<1>8. CASE Tick
  <2>1. /\ last_event' = Never <=> last_event = Never
        /\ heard' = Never <=> heard = Never
        /\ last_event # Never => last_event' \in Nat /\ last_event' <= last_event + 1
                                 /\ last_event' <= AgeCap
        /\ wd_last # Never => wd_last' \in Nat /\ wd_last' <= wd_last + 1
    BY <1>8, OlderFacts DEF Tick, TypeOK
  <2>2. /\ UNCHANGED wd_pc
        /\ wd_pc # "done" => wd_time' = wd_time + 1
    BY <1>8 DEF Tick
  <2>3. Silence' \in Nat /\ (heard # Never => Silence' = Silence + 1 \/ Silence' = AgeCap)
    <3>1. heard = Never => Silence' = 0  BY <2>1 DEF Silence
    <3>. QED  BY <1>8, <3>1, SilenceFacts
  <2>4. longest' \in Nat /\ longest <= longest' /\ Silence' <= longest'
    BY <1>8, <2>3 DEF Tick
  <2>5. \A w \in Writers : /\ Held(w)' = Held(w)
                           /\ Held(w) => stamp'[w] = stamp[w] + 1 /\ stamp[w] \in Nat
    BY <1>8, StampFacts, OlderFacts DEF Tick, Held
  <2>6. last_event # Never /\ Fresh => Fresh'
    <3>. SUFFICES ASSUME last_event # Never, Fresh PROVE Fresh'
      OBVIOUS
    <3>1. heard # Never  BY DEF AlarmInv
    <3>. QED  BY <2>1, <2>3, <3>1 DEF Fresh
  <2>7. ASSUME wd_pc = "sleep", last_event # Never PROVE Covered'
    <3>1. CASE Fresh  BY <2>6, <2>7, <3>1 DEF Covered
    <3>2. ASSUME NEW v \in Writers, Held(v),
                 stamp[v] >= wd_time \/ last_event <= stamp[v] + longest + MaxDelay
          PROVE  Covered'
      <4>1. stamp'[v] = stamp[v] + 1 /\ Held(v)' /\ stamp[v] \in Nat
        BY <2>5, <3>2
      <4>2. stamp'[v] >= wd_time' \/ last_event' <= stamp'[v] + longest' + MaxDelay
        BY <2>1, <2>2, <2>4, <2>7, <3>2, <4>1
      <4>. QED  BY <4>1, <4>2 DEF Covered
    <3>. QED  BY <2>7, <3>1, <3>2 DEF AlarmInv, Covered
  <2>8. wd_pc = "clock" /\ MaxDelay < PollPeriod
          => wd_last' <= longest' + 2 * MaxDelay + (wd_time' - PollPeriod)
    BY <2>1, <2>2, <2>4 DEF AlarmInv
  <2>9. wd_pc = "report" /\ MaxDelay < PollPeriod => longest' > Timeout - 3 * MaxDelay
    BY <2>4 DEF AlarmInv
  <2>10. wd_pc \in {"loop", "clock"} /\ last_event # Never
           => Fresh' \/ \E w \in Writers : Held(w)'
    BY <2>5, <2>6 DEF AlarmInv
  <2>. QED  BY <2>1, <2>2, <2>4, <2>5, <2>7, <2>8, <2>9, <2>10 DEF AlarmInv
<1>9. CASE TakeFlag \/ SetStop \/ UNCHANGED wvars
  <2>1. UNCHANGED <<last_event, stamp, heard, since_reset, longest, wd_pc, wd_last, wd_time>>
    BY <1>9 DEF TakeFlag, SetStop, wvars, wd_vars, out_vars, hist_vars
  <2>2. Silence' = Silence  BY <2>1 DEF Silence
  <2>. QED  BY <2>1, <2>2 DEF AlarmInv, Covered, Fresh, Held
<1>. QED
  BY <1>1, <1>2, <1>3, <1>4, <1>5, <1>6, <1>7, <1>8, <1>9 DEF Next, Poll

\* Each Network Reset is justified by a silence of the heartbeat's writers since
\* the previous one that lasted into the round that reports it.
THEOREM AlarmsAreReal == Spec => []NoFalseAlarm
<1>1. Init => TypeInv /\ AlarmInv
  BY InitTypeInv, Ages DEF Init, AlarmInv, Held
<1>2. TypeInv /\ AlarmInv /\ [Next]_wvars => (TypeInv /\ AlarmInv)'
  BY TypeStep, AlarmStep
<1>3. AlarmInv => NoFalseAlarm  BY DEF AlarmInv, NoFalseAlarm
<1>. QED  BY <1>1, <1>2, <1>3, PTL DEF Spec

---------------------------------------------------------------------------
(* SseClient.                                                              *)

\* What the client adds to the types.
ClientTypes ==
  /\ conn \in {"loop", "request", "stream", "stopped?", "flagged?", "event",
               "store", "send", "ended", "pause", "backoff", "done"}
  /\ chunk \in {"data", "error", "none"}
  /\ chunk # "none" <=> conn \in {"stopped?", "flagged?", "event", "store", "send"}
  /\ conn \in {"event", "store", "send"} => chunk = "data"
  /\ stamp["sse"] # Never <=> conn = "store"
  /\ req_time \in 0..RequestTimeout
  /\ wait \in 0..(RetryWait + PauseWait)
  /\ raw \in 0..RawCapacity
  /\ breaks \in 0..MaxResets
  /\ unheard \in Age \cup {Never}

SInv == TypeInv /\ ClientTypes

LEMMA SseFacts ==
  /\ "sse" \in Writers /\ "async" \in Writers /\ "threaded" \in Writers
  /\ RawCapacity \in Nat \ {0} /\ RequestTimeout \in Nat
  /\ RetryWait \in Nat /\ PauseWait \in Nat
  /\ 0 \in Age /\ Never \notin Int
BY SseAssumption, Ages DEF Age

\* Every step is one of the watchdog's world, or none there.
LEMMA StepOfWatchdog == SInv /\ [SNext]_svars => [Next]_wvars
<1>. SUFFICES ASSUME SInv, [SNext]_svars PROVE [Next]_wvars
  OBVIOUS
<1>. USE SseFacts
<1>1. CASE SwapFlag
  BY <1>1 DEF SwapFlag, Next
<1>2. CASE SseReadClock \/ SseStore
  BY <1>2 DEF SseReadClock, SseStore, Next
<1>3. CASE Client /\ ~SwapFlag /\ ~SseReadClock /\ ~SseStore
  BY <1>3 DEF Client, SseLoop, Connected, ConnectError, NextChunk, ChunkWhenStopped,
       TrySend, StreamEnded, WaitOver
<1>4. CASE AsyncReceive \/ Heartbeat
  BY <1>4 DEF AsyncReceive, Heartbeat, Next
<1>5. CASE SPoll \/ STick \/ SSetStop \/ UNCHANGED svars
  BY <1>5 DEF SPoll, STick, SSetStop, svars, Next
<1>. QED  BY <1>1, <1>2, <1>3, <1>4, <1>5 DEF SNext

\* Writers other than the client leave its stamp alone.
LEMMA StampOfSse ==
  ASSUME SInv, NEW w \in Writers, w # "sse", ReadClock(w) \/ Store(w)
  PROVE  stamp'["sse"] = stamp["sse"]
BY SseFacts DEF ReadClock, Store, SInv, TypeInv, TypeOK

LEMMA ClientStep == SInv /\ Client => ClientTypes'
<1>. SUFFICES ASSUME SInv, Client PROVE ClientTypes'
  OBVIOUS
<1>. USE SseFacts DEF SInv, ClientTypes, Become, conn_vars
<1>0. MaxResets \in Nat /\ stamp \in [Writers -> 0..MaxDelay \cup {Never}]
  BY Ages DEF TypeInv, TypeOK
<1>1. CASE SwapFlag
  <2>1. breaks' \in 0..MaxResets
    BY <1>0, <1>1 DEF SwapFlag
  <2>. QED  BY <1>1, <2>1 DEF SwapFlag, TakeFlag
<1>2. CASE SseReadClock
  BY <1>0, <1>2 DEF SseReadClock, ReadClock
<1>3. CASE SseStore
  BY <1>0, <1>3 DEF SseStore, Store
<1>4. CASE TrySend
  <2>1. raw' \in 0..RawCapacity
    BY <1>4 DEF TrySend
  <2>. QED  BY <1>4, <2>1 DEF TrySend, wvars
<1>5. CASE ConnectError \/ StreamEnded
  <2>1. wait' \in 0..(RetryWait + PauseWait)
    BY <1>5 DEF ConnectError, StreamEnded
  <2>. QED  BY <1>5, <2>1 DEF ConnectError, StreamEnded, wvars
<1>6. CASE SseLoop \/ Connected \/ NextChunk \/ ChunkWhenStopped \/ WaitOver
  BY <1>6 DEF SseLoop, Connected, NextChunk, ChunkWhenStopped, WaitOver, wvars
<1>. QED  BY <1>1, <1>2, <1>3, <1>4, <1>5, <1>6 DEF Client

LEMMA ClientTypesStep == SInv /\ [SNext]_svars => ClientTypes'
<1>. SUFFICES ASSUME SInv, [SNext]_svars PROVE ClientTypes'
  OBVIOUS
<1>. USE SseFacts DEF conn_vars
<1>1. CASE AsyncReceive
  <2>1. raw' \in 0..RawCapacity
    BY <1>1 DEF AsyncReceive, SInv, ClientTypes
  <2>2. stamp'["sse"] = stamp["sse"]
    BY <1>1, StampOfSse DEF AsyncReceive, wvars
  <2>. QED  BY <1>1, <2>1, <2>2 DEF AsyncReceive, SInv, ClientTypes
<1>2. CASE Heartbeat
  <2>1. stamp'["sse"] = stamp["sse"]
    BY <1>2, StampOfSse DEF Heartbeat
  <2>. QED  BY <1>2, <2>1 DEF Heartbeat, SInv, ClientTypes
<1>3. CASE SPoll
  <2>1. stamp' = stamp
    BY <1>3 DEF SPoll, Poll, WdLoop, WdLoad, WdClock, WdReport, WdFlag, WdRearm
  <2>2. unheard' \in Age \cup {Never}
    BY <1>3 DEF SPoll, SInv, ClientTypes
  <2>. QED  BY <1>3, <2>1, <2>2 DEF SPoll, SInv, ClientTypes
<1>4. CASE STick
  <2>1. unheard' \in Age \cup {Never}
    BY <1>4, OlderFacts DEF STick, SInv, ClientTypes
  <2>2. stamp'["sse"] = Older(stamp["sse"]) /\ stamp["sse"] \in Age \cup {Never}
    BY <1>4, StampFacts DEF STick, Tick, SInv, TypeInv
  <2>3. stamp'["sse"] # Never <=> stamp["sse"] # Never
    BY <2>2, OlderFacts
  <2>4. req_time' \in 0..RequestTimeout /\ wait' \in 0..(RetryWait + PauseWait)
    BY <1>4 DEF STick, SInv, ClientTypes
  <2>. QED  BY <1>4, <2>1, <2>3, <2>4 DEF STick, SInv, ClientTypes
<1>5. CASE SSetStop \/ UNCHANGED svars
  BY <1>5 DEF SSetStop, SetStop, svars, wvars, SInv, ClientTypes
<1>. QED  BY <1>1, <1>2, <1>3, <1>4, <1>5, ClientStep DEF SNext

LEMMA SInvInit == SInit => SInv
<1>1. SInit => TypeInv
  BY InitTypeInv DEF SInit
<1>2. SInit => ClientTypes
  BY SseFacts, Ages DEF SInit, Init, ClientTypes
<1>. QED  BY <1>1, <1>2 DEF SInv

LEMMA SInvStep == SInv /\ [SNext]_svars => SInv'
BY StepOfWatchdog, ClientTypesStep, TypeStep DEF SInv

\* Types, for any timing constants and capacity; the client holds a clock
\* reading exactly between now() and store.
THEOREM STypeCorrect == SSpec => []STypeOK
<1>1. SInv => STypeOK
  BY DEF SInv, TypeInv, ClientTypes, STypeOK
<1>. QED  BY SInvInit, SInvStep, <1>1, PTL DEF SSpec

\* The client, the channel and the parsers drive the watchdog as Watchdog
\* says: its theorems hold of the composed system.
THEOREM DrivesWatchdog == SSpec => Spec
<1>1. SInit => Init
  BY DEF SInit
<1>. QED  BY <1>1, SInvInit, SInvStep, StepOfWatchdog, PTL DEF SSpec, Spec

---------------------------------------------------------------------------
(* Resets and connections.                                                 *)

\* Resets that may still break a connection: the flag is set, or about to be.
Pending == (IF reconnect_flag THEN 1 ELSE 0) + (IF wd_pc = "flag" THEN 1 ELSE 0)

BreakInv ==
  /\ breaks \in 0..MaxResets /\ reset_count \in 0..MaxResets
  /\ reset_count < MaxResets => breaks + Pending <= reset_count

LEMMA BreakStep == BreakInv /\ [SNext]_svars => BreakInv'
<1>. SUFFICES ASSUME BreakInv, [SNext]_svars PROVE BreakInv'
  OBVIOUS
<1>0. MaxResets \in Nat \ {0}  BY TimeAssumption
<1>. USE <1>0 DEF BreakInv, Pending
<1>1. CASE SwapFlag  BY <1>1 DEF SwapFlag, TakeFlag, wd_vars
<1>2. CASE Client /\ ~SwapFlag
  <2>1. UNCHANGED <<breaks, reset_count, reconnect_flag, wd_pc>>
    BY <1>2 DEF Client, SseLoop, Connected, ConnectError, NextChunk, ChunkWhenStopped,
         SseReadClock, ReadClock, SseStore, Store, TrySend, StreamEnded, WaitOver,
         wvars, wd_vars, out_vars
  <2>. QED  BY <2>1
<1>3. CASE AsyncReceive \/ Heartbeat
  <2>1. UNCHANGED <<breaks, reset_count, reconnect_flag, wd_pc>>
    BY <1>3 DEF AsyncReceive, Heartbeat, ReadClock, Store, wvars, wd_vars, out_vars
  <2>. QED  BY <2>1
<1>4. CASE SPoll
  <2>. UNCHANGED breaks  BY <1>4 DEF SPoll
  <2>1. CASE WdLoop \/ WdLoad \/ WdClock \/ WdRearm
    <3>1. UNCHANGED <<reset_count, reconnect_flag>> /\ wd_pc # "flag" /\ wd_pc' # "flag"
      BY <2>1 DEF WdLoop, WdLoad, WdClock, WdRearm, out_vars
    <3>. QED  BY <3>1
  <2>2. CASE WdReport  BY <2>2 DEF WdReport
  <2>3. CASE WdFlag  BY <2>3 DEF WdFlag
  <2>. QED  BY <1>4, <2>1, <2>2, <2>3 DEF SPoll, Poll
<1>5. CASE STick \/ SSetStop \/ UNCHANGED svars
  <2>1. UNCHANGED <<breaks, reset_count, reconnect_flag, wd_pc>>
    BY <1>5 DEF STick, Tick, SSetStop, SetStop, svars, wvars, wd_vars, out_vars
  <2>. QED  BY <2>1
<1>. QED  BY <1>1, <1>2, <1>3, <1>4, <1>5 DEF SNext

\* Every connection that is abandoned because of reconnect_flag is accounted
\* for by a Network Reset of its own.
THEOREM BreaksHaveACause == SSpec => []BreaksAreCaused
<1>1. SInit => BreakInv
  BY TimeAssumption DEF SInit, Init, BreakInv, Pending
<1>2. BreakInv => BreaksAreCaused
  BY TimeAssumption DEF BreakInv, Pending, BreaksAreCaused
<1>. QED  BY <1>1, <1>2, BreakStep, PTL DEF SSpec
=============================================================================
