---------------------------- MODULE Leaderboard ----------------------------
(***************************************************************************)
(* Component D: the edit counts per domain that both hot paths increment   *)
(* and main queries, under each of the three strategies.                   *)
(*                                                                         *)
(*   Mutex, RwLock   a HashMap behind a parking_lot lock: an increment     *)
(*                   loads the entry and stores it back while it holds the *)
(*                   lock exclusively; a query copies entry after entry,   *)
(*                   in the map's order, under the mutex or a read lock.   *)
(*   Atomic          a counter per known domain: an increment is one       *)
(*                   fetch_add, a query loads one counter after the other; *)
(*                   a domain without a counter is not counted.            *)
(*                                                                         *)
(* Every increment ends with a try_lock on the metrics, which the writers  *)
(* share with the rest of the program.  An entry that is 0 is one the map  *)
(* does not have.                                                          *)
(***************************************************************************)
EXTENDS Integers, Sequences, FiniteSets

CONSTANTS
  Writers,       \* threads that call increment
  Readers,       \* threads that call top_n
  KnownDomain,   \* KNOWN_DOMAINS, a sequence
  OtherDomain,   \* the domains it does not list
  NoOne,         \* a lock's owner when it is free
  Strangers,     \* the rest of the program, as owner of the metrics
  MaxCalls,      \* bound on the increments of one writer
  TopSize        \* the n of top_n

Strategy == {"Mutex", "RwLock", "Atomic"}
Known    == {KnownDomain[i] : i \in 1..Len(KnownDomain)}
Domain   == Known \cup OtherDomain
Thread   == Writers \cup Readers

ASSUME LeaderboardAssumption ==
  /\ IsFiniteSet(Writers) /\ Writers \cap Readers = {}
  /\ NoOne \notin Thread /\ Strangers \notin Thread \cup {NoOne}
  /\ KnownDomain \in Seq(Known) /\ KnownDomain # <<>>
  /\ Known \cap OtherDomain = {}
  /\ \A i, j \in 1..Len(KnownDomain) : KnownDomain[i] = KnownDomain[j] => i = j
  /\ MaxCalls \in Nat /\ TopSize \in Nat

VARIABLES
  strategy,    \* chosen when the leaderboard is made
  counts,      \* the map, or the counters
  owner,       \* thread that holds the map exclusively
  sharing,     \* threads that hold it for reading
  metrics,     \* thread that holds SharedMetrics
  write_ops,   \* {mutex,rwlock,atomic}_write_ops
  busy,        \* does the rest of the program use the metrics?
  w_pc, w_domain, w_old,  \* per writer: next step, its domain, the count it loaded
  calls,       \* per writer: increments begun
  r_pc,        \* per reader: next step
  seen,        \* per reader: the domains its iterator has passed
  entries,     \* per reader: what top_n has collected
  edits,       \* history: increments whose counting is over, per domain
  all_edits,   \* history: and their number
  before       \* history: per reader, the counts when its query began

map_vars == <<counts, owner, sharing>>
met_vars == <<metrics, write_ops>>
w_vars   == <<w_pc, w_domain, w_old, calls>>
r_vars   == <<r_pc, seen, entries, before>>
e_vars   == <<edits, all_edits>>
lvars == <<strategy, busy, map_vars, met_vars, w_vars, r_vars, e_vars>>

Entry == [domain : Domain, count : Nat]
Counted == IF strategy = "Atomic" THEN Known ELSE Domain

LTypeOK ==
  /\ strategy \in Strategy /\ busy \in BOOLEAN
  /\ counts \in [Domain -> Nat] /\ edits \in [Domain -> Nat]
  /\ all_edits \in Nat
  /\ owner \in Thread \cup {NoOne} /\ sharing \subseteq Readers
  /\ metrics \in Writers \cup {NoOne, Strangers}
  /\ write_ops \in Nat
  /\ w_pc \in [Writers -> {"idle", "lock", "load", "store", "ops", "bump", "unlock"}]
  /\ w_domain \in [Writers -> Domain] /\ w_old \in [Writers -> Nat]
  /\ calls \in [Writers -> 0..MaxCalls]
  /\ r_pc \in [Readers -> {"idle", "lock", "copy", "sort", "done"}]
  /\ seen \in [Readers -> SUBSET Counted] /\ entries \in [Readers -> Seq(Entry)]
  /\ before \in [Readers -> [Domain -> Nat]]
  /\ owner # NoOne => sharing = {}

LInit ==
  /\ strategy \in Strategy /\ busy \in BOOLEAN
  /\ counts = [d \in Domain |-> 0] /\ edits = counts /\ all_edits = 0
  /\ owner = NoOne /\ sharing = {}
  /\ metrics = NoOne /\ write_ops = 0
  /\ w_pc = [w \in Writers |-> "idle"]
  /\ w_domain = [w \in Writers |-> CHOOSE d \in Domain : TRUE]
  /\ w_old = [w \in Writers |-> 0]
  /\ calls = [w \in Writers |-> 0]
  /\ r_pc = [r \in Readers |-> "idle"]
  /\ seen = [r \in Readers |-> {}] /\ entries = [r \in Readers |-> <<>>]
  /\ before = [r \in Readers |-> counts]

---------------------------------------------------------------------------
(* increment                                                               *)

Goto(w, next) == w_pc' = [w_pc EXCEPT ![w] = next]

Call(w) ==
  /\ w_pc[w] = "idle" /\ calls[w] < MaxCalls
  /\ calls' = [calls EXCEPT ![w] = @ + 1]
  /\ \E d \in Domain : w_domain' = [w_domain EXCEPT ![w] = d]
  /\ Goto(w, IF strategy = "Atomic" THEN "store" ELSE "lock")
  /\ UNCHANGED <<strategy, busy, map_vars, met_vars, w_old, r_vars, e_vars>>

\* Faulty variant of LockForWriting: readers are not waited for.
Faulty_LockPastReaders(w) ==
  /\ w_pc[w] = "lock" /\ owner = NoOne
  /\ owner' = w
  /\ Goto(w, "load")
  /\ UNCHANGED <<strategy, busy, counts, sharing, met_vars, w_domain, w_old,
                 calls, r_vars, e_vars>>

\* Faulty variant of LockForWriting: a read lock is taken by mistake.
Faulty_LockForReading(w) ==
  /\ w_pc[w] = "lock"
  /\ Goto(w, "load")
  /\ UNCHANGED <<strategy, busy, map_vars, met_vars, w_domain, w_old, calls,
                 r_vars, e_vars>>

\* mutex_map.lock(), rwlock_map.write().
LockForWriting(w) ==
  /\ w_pc[w] = "lock" /\ owner = NoOne /\ sharing = {}
  /\ owner' = w
  /\ Goto(w, "load")
  /\ UNCHANGED <<strategy, busy, counts, sharing, met_vars, w_domain, w_old,
                 calls, r_vars, e_vars>>

LoadEntry(w) ==
  /\ w_pc[w] = "load"
  /\ w_old' = [w_old EXCEPT ![w] = counts[w_domain[w]]]
  /\ Goto(w, "store")
  /\ UNCHANGED <<strategy, busy, map_vars, met_vars, w_domain, calls, r_vars, e_vars>>

\* The entry is written back, or the counter is fetch_add'ed if there is one.
StoreEntry(w) ==
  LET d == w_domain[w] IN
  /\ w_pc[w] = "store"
  /\ counts' = CASE strategy # "Atomic" -> [counts EXCEPT ![d] = w_old[w] + 1]
                 [] strategy = "Atomic" /\ d \in Known -> [counts EXCEPT ![d] = @ + 1]
                 [] OTHER -> counts
  /\ edits' = [edits EXCEPT ![d] = @ + 1] /\ all_edits' = all_edits + 1
  /\ Goto(w, "ops")
  /\ UNCHANGED <<strategy, busy, owner, sharing, met_vars, w_domain, w_old,
                 calls, r_vars>>

AfterOps == IF strategy = "Atomic" THEN "idle" ELSE "unlock"

\* metrics.try_lock(): if it fails the operation goes uncounted.
TryMetrics(w) ==
  /\ w_pc[w] = "ops"
  /\ \/ metrics = NoOne /\ metrics' = w /\ Goto(w, "bump")
     \/ metrics # NoOne /\ UNCHANGED metrics /\ Goto(w, AfterOps)
  /\ UNCHANGED <<strategy, busy, map_vars, write_ops, w_domain, w_old, calls,
                 r_vars, e_vars>>

\* Faulty variant of BumpOps: every lookup counts as an operation as well.
Faulty_BumpTwice(w) ==
  /\ w_pc[w] = "bump"
  /\ write_ops' = write_ops + 2 /\ metrics' = NoOne
  /\ Goto(w, AfterOps)
  /\ UNCHANGED <<strategy, busy, map_vars, w_domain, w_old, calls, r_vars, e_vars>>

BumpOps(w) ==
  /\ w_pc[w] = "bump"
  /\ write_ops' = write_ops + 1 /\ metrics' = NoOne
  /\ Goto(w, AfterOps)
  /\ UNCHANGED <<strategy, busy, map_vars, w_domain, w_old, calls, r_vars, e_vars>>

Unlock(w) ==
  /\ w_pc[w] = "unlock"
  /\ owner' = NoOne
  /\ Goto(w, "idle")
  /\ UNCHANGED <<strategy, busy, counts, sharing, met_vars, w_domain, w_old,
                 calls, r_vars, e_vars>>

Increment(w) ==
  \/ Call(w) \/ LockForWriting(w) \/ LoadEntry(w) \/ StoreEntry(w)
  \/ TryMetrics(w) \/ BumpOps(w) \/ Unlock(w)

---------------------------------------------------------------------------
(* top_n                                                                   *)

Move(r, next) == r_pc' = [r_pc EXCEPT ![r] = next]

Query(r) ==
  /\ r_pc[r] = "idle"
  /\ before' = [before EXCEPT ![r] = counts]
  /\ Move(r, IF strategy = "Atomic" THEN "copy" ELSE "lock")
  /\ UNCHANGED <<strategy, busy, map_vars, met_vars, w_vars, seen, entries, e_vars>>

\* Faulty variant of LockForCopying: a reader of the RwLock takes no lock.
Faulty_CopyUnlocked(r) ==
  /\ r_pc[r] = "lock" /\ (strategy = "Mutex" => owner = NoOne)
  /\ owner' = IF strategy = "Mutex" THEN r ELSE owner
  /\ Move(r, "copy")
  /\ UNCHANGED <<strategy, busy, counts, sharing, met_vars, w_vars, seen, entries,
                 before, e_vars>>

\* mutex_map.lock(), rwlock_map.read().
LockForCopying(r) ==
  /\ r_pc[r] = "lock" /\ owner = NoOne
  /\ IF strategy = "Mutex" THEN owner' = r /\ UNCHANGED sharing
                           ELSE sharing' = sharing \cup {r} /\ UNCHANGED owner
  /\ Move(r, "copy")
  /\ UNCHANGED <<strategy, busy, counts, met_vars, w_vars, seen, entries, before,
                 e_vars>>

\* The next entry: any of the map's, the first one left of the counters.
NextEntry(r) ==
  LET left == Counted \ seen[r]
  IN  IF strategy # "Atomic" THEN left
      ELSE {KnownDomain[i] : i \in {j \in 1..Len(KnownDomain) :
              /\ KnownDomain[j] \in left
              /\ \A k \in 1..(j - 1) : KnownDomain[k] \notin left}}

\* An entry that is not there, or a counter that is 0, is not collected.
CopyEntry(r) ==
  /\ r_pc[r] = "copy"
  /\ \E d \in NextEntry(r) :
       /\ seen' = [seen EXCEPT ![r] = @ \cup {d}]
       /\ entries' = IF counts[d] = 0 THEN entries
                     ELSE [entries EXCEPT ![r] =
                             Append(@, [domain |-> d, count |-> counts[d]])]
  /\ UNCHANGED <<strategy, busy, map_vars, met_vars, w_vars, r_pc, before, e_vars>>

\* The iterator is at its end: the lock goes.
FinishCopy(r) ==
  /\ r_pc[r] = "copy" /\ seen[r] = Counted
  /\ owner' = IF owner = r THEN NoOne ELSE owner
  /\ sharing' = sharing \ {r}
  /\ Move(r, "sort")
  /\ UNCHANGED <<strategy, busy, counts, met_vars, w_vars, seen, entries, before,
                 e_vars>>

\* Where a stable sort by descending count puts the i-th entry.
Place(s, i) ==
  Cardinality({j \in 1..Len(s) : \/ s[j].count > s[i].count
                                 \/ s[j].count = s[i].count /\ j <= i})
Sorted(s) ==
  [k \in 1..Len(s) |-> s[CHOOSE i \in 1..Len(s) : Place(s, i) = k]]

Top(s) == SubSeq(Sorted(s), 1, IF Len(s) < TopSize THEN Len(s) ELSE TopSize)

SortAndTruncate(r) ==
  /\ r_pc[r] = "sort"
  /\ entries' = [entries EXCEPT ![r] = Top(@)]
  /\ Move(r, "done")
  /\ UNCHANGED <<strategy, busy, map_vars, met_vars, w_vars, seen, before, e_vars>>

TopN(r) ==
  \/ Query(r) \/ LockForCopying(r) \/ CopyEntry(r) \/ FinishCopy(r)
  \/ SortAndTruncate(r)

---------------------------------------------------------------------------

\* Any other thread of the program holds the metrics for a while.
OthersUseMetrics ==
  /\ busy
  /\ \/ metrics = NoOne /\ metrics' = Strangers
     \/ metrics = Strangers /\ metrics' = NoOne
  /\ UNCHANGED <<strategy, busy, map_vars, write_ops, w_vars, r_vars, e_vars>>

LDone ==
  /\ \A w \in Writers : w_pc[w] = "idle" /\ calls[w] = MaxCalls
  /\ \A r \in Readers : r_pc[r] = "done"
  /\ UNCHANGED lvars

LNext ==
  \/ \E w \in Writers : Increment(w)
  \/ \E r \in Readers : TopN(r)
  \/ OthersUseMetrics
  \/ LDone

LSpec == LInit /\ [][LNext]_lvars

---------------------------------------------------------------------------
(* Properties.                                                             *)

\* Both hot paths increment the same entry, and under the locks an increment
\* is a load and a store: no edit of a counted domain is lost.
NoEditLost == \A d \in Counted : counts[d] = edits[d]

\* The write_ops counter never runs ahead of the edits although it is kept
\* under another lock; and if nobody else uses the metrics it counts every
\* one, because the writers' try_locks are serialised by the map's lock.
OpsFollowEdits ==
  LET uncounted == Cardinality({w \in Writers : w_pc[w] \in {"ops", "bump"}})
  IN  /\ write_ops + uncounted <= all_edits
      /\ ~busy /\ strategy # "Atomic" => write_ops + uncounted = all_edits

\* What a query looks like from outside: it has its answer when the lock goes.
Phase(r) == CASE r_pc[r] = "idle" -> "idle"
              [] r_pc[r] \in {"lock", "copy"} -> "asked"
              [] OTHER -> "answered"
AnswerOf(r) == CASE r_pc[r] = "sort" -> Top(entries[r])
                 [] r_pc[r] = "done" -> entries[r]
                 [] OTHER -> <<>>

Promised == INSTANCE AtomicLeaderboard WITH
  exact   <- strategy # "Atomic",
  counted <- Counted,
  phase   <- [r \in Readers |-> Phase(r)],
  since   <- before,
  answer  <- [r \in Readers |-> AnswerOf(r)]

\* Whatever its strategy, component D keeps its promise: an increment takes effect
\* at once, when it is stored, and so does a query under a lock, when the lock
\* is given back with all entries copied; without one each count in its answer
\* is one the domain had meanwhile.
KeepsPromise == Promised!Spec
=============================================================================
