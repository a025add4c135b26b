----------------------------- MODULE Watchdog -----------------------------
(***************************************************************************)
(* Component E, the network watchdog: the shared heartbeat last_event_ms,   *)
(* the threads that write it, and the thread that polls it.                *)
(*                                                                         *)
(* Time is discrete.  A timestamp is represented by its age, in ticks, so  *)
(* a clock reading held by a thread grows older while the thread is        *)
(* delayed, and a store may put an old reading over a newer one.  Ages     *)
(* beyond AgeCap are alike.  MaxDelay bounds what the scheduler may insert *)
(* between a clock reading and its store, and into one round of the        *)
(* polling thread; in one tick a thread may take any number of steps.      *)
(***************************************************************************)
EXTENDS Integers

CONSTANTS
  Writers,      \* the tasks that store a heartbeat: sse_client and the parsers
  Never,        \* last_event_ms = 0: no event so far; also "holds no reading"
  Timeout,      \* WATCHDOG_TIMEOUT_MS
  PollPeriod,   \* the sleep of the polling loop
  MaxDelay,     \* bound on scheduling delays
  MaxResets     \* the reset counters saturate here in the model

ASSUME TimeAssumption ==
  /\ Never \notin Int
  /\ Timeout \in Nat /\ PollPeriod \in Nat \ {0} /\ MaxDelay \in Nat
  /\ MaxDelay <= Timeout
  /\ MaxResets \in Nat \ {0}

VARIABLES
  last_event,       \* age of the heartbeat, or Never
  stamp,            \* per writer: age of the clock reading it holds, or Never
  wd_pc,            \* the polling thread: next step
  wd_time,          \* ticks since its sleep began
  wd_last, wd_now,  \* its locals last and now_ms, as ages, or Never
  reconnect_flag, reset_count,
  watchdog_resets,  \* SharedMetrics.watchdog_resets
  stop,
  heard,            \* history: age of the latest heartbeat reading, or Never
  longest,          \* history: longest silence heard in this polling round
  since_reset       \* history: age of the latest Network Reset, or Never

wd_vars   == <<wd_pc, wd_time, wd_last, wd_now>>
out_vars  == <<reconnect_flag, reset_count, watchdog_resets>>
hist_vars == <<heard, longest, since_reset>>
wvars == <<last_event, stamp, wd_vars, out_vars, stop, hist_vars>>

Slack  == PollPeriod + 2 * MaxDelay
AgeCap == Timeout + Slack + 1
Age    == 0..AgeCap
Older(a) == IF a = Never THEN Never ELSE IF a < AgeCap THEN a + 1 ELSE a

\* How long no heartbeat has been read since the latest Network Reset.
Silence == IF heard = Never THEN 0
             ELSE IF since_reset # Never /\ since_reset < heard THEN since_reset
             ELSE heard

TypeOK ==
  /\ last_event \in Age \cup {Never}
  /\ stamp \in [Writers -> 0..MaxDelay \cup {Never}]
  /\ wd_pc \in {"loop", "sleep", "clock", "report", "flag", "rearm", "done"}
  /\ wd_time \in 0..(PollPeriod + MaxDelay)
  /\ wd_last \in Age \cup {Never}
  /\ wd_last = Never <=> wd_pc \in {"loop", "sleep", "done"}
  /\ wd_now \in 0..MaxDelay \cup {Never}
  /\ wd_now = Never <=> wd_pc \in {"loop", "sleep", "clock", "done"}
  /\ reconnect_flag \in BOOLEAN
  /\ reset_count \in 0..MaxResets /\ watchdog_resets \in 0..reset_count
  /\ stop \in BOOLEAN
  /\ heard \in Age \cup {Never} /\ longest \in Age
  /\ since_reset \in Age \cup {Never}

Init ==
  /\ last_event = Never
  /\ stamp = [w \in Writers |-> Never]
  /\ wd_pc = "loop" /\ wd_time = PollPeriod
  /\ wd_last = Never /\ wd_now = Never
  /\ reconnect_flag = FALSE
  /\ reset_count = 0 /\ watchdog_resets = 0
  /\ stop = FALSE
  /\ heard = Never /\ longest = 0 /\ since_reset = Never

---------------------------------------------------------------------------
(* The writers: SystemTime::now(), then last_event.store(now_ms).  They look *)
(* at stop before they wait for the event, so a reading may follow it.     *)

ReadClock(w) ==
  /\ stamp[w] = Never
  /\ stamp' = [stamp EXCEPT ![w] = 0]
  /\ heard' = 0
  /\ UNCHANGED <<last_event, wd_vars, out_vars, stop, longest, since_reset>>

Store(w) ==
  /\ stamp[w] # Never
  /\ last_event' = stamp[w]
  /\ stamp' = [stamp EXCEPT ![w] = Never]
  /\ UNCHANGED <<wd_vars, out_vars, stop, hist_vars>>

---------------------------------------------------------------------------
(* Watchdog::run.                                                          *)

\* Head of the loop, and the start of the sleep.
WdLoop ==
  /\ wd_pc = "loop"
  /\ wd_time' = 0
  /\ wd_pc' = IF stop THEN "done" ELSE "sleep"
  /\ longest' = Silence
  /\ UNCHANGED <<last_event, stamp, wd_last, wd_now, out_vars, stop, heard, since_reset>>

\* Faulty variant of WdLoad: no look at the heartbeat while the flag is set.
Faulty_WaitForReconnect ==
  /\ wd_pc = "sleep" /\ wd_time >= PollPeriod
  /\ IF last_event = Never \/ reconnect_flag
       THEN wd_pc' = "loop" /\ UNCHANGED wd_last
       ELSE wd_pc' = "clock" /\ wd_last' = last_event
  /\ UNCHANGED <<last_event, stamp, wd_time, wd_now, out_vars, stop, hist_vars>>

WdLoad ==
  /\ wd_pc = "sleep" /\ wd_time >= PollPeriod
  /\ IF last_event = Never
       THEN wd_pc' = "loop" /\ UNCHANGED wd_last
       ELSE wd_pc' = "clock" /\ wd_last' = last_event
  /\ UNCHANGED <<last_event, stamp, wd_time, wd_now, out_vars, stop, hist_vars>>

\* Faulty variant of WdClock: the silence still fits into one poll period less.
Faulty_OnePeriodEarly ==
  /\ wd_pc = "clock"
  /\ IF wd_last + PollPeriod > Timeout
       THEN wd_pc' = "report" /\ wd_now' = 0 /\ UNCHANGED wd_last
       ELSE wd_pc' = "loop" /\ wd_last' = Never /\ UNCHANGED wd_now
  /\ UNCHANGED <<last_event, stamp, wd_time, out_vars, stop, hist_vars>>

\* The clock is read now, so silence_ms is the age of the loaded value.
WdClock ==
  /\ wd_pc = "clock"
  /\ IF wd_last > Timeout
       THEN wd_pc' = "report" /\ wd_now' = 0 /\ UNCHANGED wd_last
       ELSE wd_pc' = "loop" /\ wd_last' = Never /\ UNCHANGED wd_now
  /\ UNCHANGED <<last_event, stamp, wd_time, out_vars, stop, hist_vars>>

\* The metrics keep an old count when another thread holds their lock.
WdReport ==
  /\ wd_pc = "report"
  /\ wd_pc' = "flag"
  /\ reset_count' = IF reset_count < MaxResets THEN reset_count + 1 ELSE reset_count
  /\ watchdog_resets' \in {reset_count', watchdog_resets}
  /\ since_reset' = 0
  /\ UNCHANGED <<last_event, stamp, wd_time, wd_last, wd_now, reconnect_flag,
                 stop, heard, longest>>

WdFlag ==
  /\ wd_pc = "flag"
  /\ wd_pc' = "rearm"
  /\ reconnect_flag' = TRUE
  /\ UNCHANGED <<last_event, stamp, wd_time, wd_last, wd_now, reset_count,
                 watchdog_resets, stop, hist_vars>>

\* Faulty variant of WdRearm: the timer is not reset.
Faulty_NoRearm ==
  /\ wd_pc = "rearm"
  /\ wd_pc' = "loop"
  /\ wd_last' = Never /\ wd_now' = Never
  /\ UNCHANGED <<last_event, stamp, wd_time, out_vars, stop, hist_vars>>

\* A heartbeat stored since WdLoad is overwritten.
WdRearm ==
  /\ wd_pc = "rearm"
  /\ wd_pc' = "loop"
  /\ last_event' = wd_now
  /\ wd_last' = Never /\ wd_now' = Never
  /\ UNCHANGED <<stamp, wd_time, out_vars, stop, hist_vars>>

Poll == WdLoop \/ WdLoad \/ WdClock \/ WdReport \/ WdFlag \/ WdRearm

---------------------------------------------------------------------------

\* One tick of time. No thread is delayed beyond its bound.
Tick ==
  /\ \A w \in Writers : stamp[w] # Never => stamp[w] < MaxDelay
  /\ wd_pc # "done" => wd_time < PollPeriod + MaxDelay
  /\ stamp' = [w \in Writers |-> Older(stamp[w])]
  /\ last_event' = Older(last_event)
  /\ wd_time' = IF wd_pc = "done" THEN wd_time ELSE wd_time + 1
  /\ wd_last' = Older(wd_last) /\ wd_now' = Older(wd_now)
  /\ heard' = Older(heard) /\ since_reset' = Older(since_reset)
  /\ longest' = IF Silence' > longest THEN Silence' ELSE longest
  /\ UNCHANGED <<wd_pc, out_vars, stop>>

SetStop ==
  /\ ~stop /\ stop' = TRUE
  /\ UNCHANGED <<last_event, stamp, wd_vars, out_vars, hist_vars>>

\* The client's reconnect_flag.swap(false).
TakeFlag ==
  /\ reconnect_flag' = FALSE
  /\ UNCHANGED <<last_event, stamp, wd_vars, reset_count, watchdog_resets, stop,
                 hist_vars>>

Next ==
  \/ \E w \in Writers : ReadClock(w) \/ Store(w)
  \/ Poll \/ TakeFlag \/ Tick \/ SetStop

Spec == Init /\ [][Next]_wvars

---------------------------------------------------------------------------
(* Properties.                                                             *)

\* Silence never lasts longer than the timeout and one poll without a Network
\* Reset, although readings are stored late and out of order.
ResetInTime ==
  wd_pc # "done" /\ last_event # Never => last_event <= Timeout + Slack

\* No false alarm: each Network Reset follows a silence of the threads that
\* write the heartbeat, about as long as the timeout, that lasted into this
\* round of polling and began after the previous reset, even though silence_ms
\* is computed from a loaded value that may be stale (watchdog.rs:59-65), and
\* a late store may have put an older reading back. (Delays shorter than the
\* sleep; a writer held up for a whole round could hide any healthy stretch.)
NoFalseAlarm ==
  wd_pc = "report" /\ MaxDelay < PollPeriod => longest > Timeout - 3 * MaxDelay

\* Rearming works: two resets are about one timeout apart, although rearming
\* races with the late stores of the writers.
ResetsSpaced ==
  [][reset_count' # reset_count /\ since_reset # Never
       => since_reset > Timeout - MaxDelay]_wvars
=============================================================================
