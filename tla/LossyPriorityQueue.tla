------------------------- MODULE LossyPriorityQueue -------------------------
(***************************************************************************)
(* What Component C promises, without its threads: one bounded FIFO per    *)
(* priority class.  A packet that is offered is always accepted.  When its *)
(* class is full the offer may cost the oldest packet of that class, and   *)
(* only that one.  Human packets go first, except that one bot may be      *)
(* taken past a human packet that has not been overtaken yet.              *)
(***************************************************************************)
EXTENDS Integers, Sequences

CONSTANTS HumanPacket, BotPacket, NoPacket, Capacity

VARIABLES
  waiting,   \* per class, the packets waiting, oldest first
  pending,   \* the packet being offered, or NoPacket
  pressure,  \* "none", "full" (seen full), "dropped" (its oldest was dropped)
  passed     \* human packets overtaken by a bot since they were accepted

vars == <<waiting, pending, pressure, passed>>

Class(pkt) == IF pkt \in HumanPacket THEN "High" ELSE "Low"
Waiting(p) == {waiting[p][i] : i \in 1..Len(waiting[p])}

Init ==
  /\ waiting = [p \in {"High", "Low"} |-> <<>>]
  /\ pending = NoPacket
  /\ pressure = "none"
  /\ passed = {}

Offer ==
  /\ pending = NoPacket
  /\ pending' \in (HumanPacket \cup BotPacket)
                    \ (Waiting("High") \cup Waiting("Low"))
  /\ UNCHANGED <<waiting, pressure, passed>>

Overflow ==
  /\ pending # NoPacket /\ pressure = "none"
  /\ Len(waiting[Class(pending)]) >= Capacity
  /\ pressure' = "full"
  /\ UNCHANGED <<waiting, pending, passed>>

\* The queue may have been emptied since it was seen full.
Drop ==
  /\ pressure = "full"
  /\ waiting' = IF waiting[Class(pending)] = <<>> THEN waiting
                ELSE [waiting EXCEPT ![Class(pending)] = Tail(@)]
  /\ pressure' = "dropped"
  /\ UNCHANGED <<pending, passed>>

Accept ==
  /\ pending # NoPacket /\ pressure # "full"
  /\ Len(waiting[Class(pending)]) < Capacity
  /\ waiting' = [waiting EXCEPT ![Class(pending)] = Append(@, pending)]
  /\ passed' = passed \ {pending}
  /\ pending' = NoPacket /\ pressure' = "none"

TakeHuman ==
  /\ waiting["High"] # <<>>
  /\ waiting' = [waiting EXCEPT !["High"] = Tail(@)]
  /\ UNCHANGED <<pending, pressure, passed>>

TakeBot ==
  /\ waiting["Low"] # <<>>
  /\ Waiting("High") \cap passed = {}
  /\ waiting' = [waiting EXCEPT !["Low"] = Tail(@)]
  /\ passed' = passed \cup Waiting("High")
  /\ UNCHANGED <<pending, pressure>>

Next == Offer \/ Overflow \/ Drop \/ Accept \/ TakeHuman \/ TakeBot

Spec == Init /\ [][Next]_vars
=============================================================================
