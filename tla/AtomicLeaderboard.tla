------------------------- MODULE AtomicLeaderboard -------------------------
(***************************************************************************)
(* What Component D promises, without its locks: an increment is one step. *)
(* A query is one step too when the counts are behind a lock; otherwise    *)
(* each count in its answer is one the domain had while it was answered.   *)
(***************************************************************************)
EXTENDS Integers, Sequences

CONSTANTS Readers, TopSize

VARIABLES
  exact,     \* is a query one step?
  counted,   \* the domains that are counted
  counts,    \* the edits of each
  phase,     \* per reader: "idle", "asked" or "answered"
  since,     \* per reader: the counts when it asked
  answer     \* per reader: domains with their counts, the first ones first

vars == <<exact, counted, counts, phase, since, answer>>

Listed(a) == {a[i].domain : i \in 1..Len(a)}

\* The answer is the head of the counts, sorted, when each count listed may lie
\* between the two given, and each left out is taken at the lower one.
IsTop(a, low, high) ==
  /\ Len(a) <= TopSize
  /\ \A i \in 1..Len(a) :
       LET d == a[i].domain IN
       /\ d \in counted /\ a[i].count > 0
       /\ low[d] <= a[i].count /\ a[i].count <= high[d]
  /\ \A i, j \in 1..Len(a) :
       i < j => a[i].domain # a[j].domain /\ a[i].count >= a[j].count
  /\ \A d \in counted \ Listed(a) :
       \/ low[d] = 0
       \/ Len(a) = TopSize /\ \A i \in 1..Len(a) : low[d] <= a[i].count

Init ==
  /\ exact \in BOOLEAN
  /\ \A d \in counted : counts[d] = 0
  /\ phase = [r \in Readers |-> "idle"]
  /\ answer = [r \in Readers |-> <<>>]

Count ==
  /\ \E d \in counted : counts' = [counts EXCEPT ![d] = @ + 1]
  /\ UNCHANGED <<exact, counted, phase, since, answer>>

Ask(r) ==
  /\ phase[r] = "idle"
  /\ phase' = [phase EXCEPT ![r] = "asked"]
  /\ since' = [since EXCEPT ![r] = counts]
  /\ UNCHANGED <<exact, counted, counts, answer>>

Answer(r) ==
  /\ phase[r] = "asked"
  /\ phase' = [phase EXCEPT ![r] = "answered"]
  /\ answer' = [answer EXCEPT ![r] = answer'[r]]
  /\ IsTop(answer'[r], IF exact THEN counts ELSE since[r], counts)
  /\ UNCHANGED <<exact, counted, counts, since>>

Next == Count \/ \E r \in Readers : Ask(r) \/ Answer(r)

Spec == Init /\ [][Next]_vars
=============================================================================
