------------------------- MODULE Leaderboard_proofs -------------------------
(***************************************************************************)
(* Theorems about Leaderboard and SyncBenchmark, for any writers, readers, *)
(* domains and numbers of calls: what the three strategies count, what     *)
(* top_n returns of it, and what the benchmark's statistics stand for.     *)
(*                                                                         *)
(* First, what a stable sort by an integer key does: the rank of an index, *)
(* the number of indices not behind it, is a permutation.                  *)
(***************************************************************************)
EXTENDS SyncBenchmark, FiniteSetTheorems, TLAPS

\* Is the index j before i in the order of f, or i itself?
NotBehind(f, j, i) ==
  \/ f[j] < f[i]
  \/ f[j] = f[i] /\ j <= i
Upto(f, n, i) == {j \in 1..n : NotBehind(f, j, i)}
Rank(f, n, i) == Cardinality(Upto(f, n, i))

\* An index has a rank, and one further on a greater one.
LEMMA RankGrows ==
  ASSUME NEW n \in Nat, NEW f \in [1..n -> Int], NEW i \in 1..n, NEW j \in 1..n
  PROVE  /\ IsFiniteSet(Upto(f, n, i)) /\ Rank(f, n, i) \in 1..n
         /\ i # j /\ NotBehind(f, i, j) => Rank(f, n, i) < Rank(f, n, j)
<1>1. IsFiniteSet(1..n) /\ Cardinality(1..n) = n
  BY FS_Interval
<1>2. \A k \in 1..n : /\ Upto(f, n, k) \subseteq 1..n /\ IsFiniteSet(Upto(f, n, k))
                      /\ Rank(f, n, k) \in Nat /\ Rank(f, n, k) <= n
  BY <1>1, FS_Subset, FS_CardinalityType DEF Upto, Rank
<1>3. i \in Upto(f, n, i) /\ j \in Upto(f, n, j)
  BY DEF Upto, NotBehind
<1>4. Rank(f, n, i) # 0
  BY <1>2, <1>3, FS_EmptySet DEF Rank
<1>5. ASSUME i # j, NotBehind(f, i, j) PROVE Rank(f, n, i) < Rank(f, n, j)
  <2>1. Upto(f, n, i) \subseteq Upto(f, n, j)
    <3>. SUFFICES ASSUME NEW k \in 1..n, NotBehind(f, k, i) PROVE NotBehind(f, k, j)
      BY DEF Upto
    <3>1. f[k] \in Int /\ f[i] \in Int /\ f[j] \in Int
      OBVIOUS
    <3>. QED  BY <1>5, <3>1 DEF NotBehind
  <2>2. j \notin Upto(f, n, i)
    <3>1. f[i] \in Int /\ f[j] \in Int
      OBVIOUS
    <3>. QED  BY <1>5, <3>1 DEF Upto, NotBehind
  <2>3. Upto(f, n, i) # Upto(f, n, j)
    BY <1>3, <2>2
  <2>4. Upto(f, n, i) \in SUBSET Upto(f, n, j) /\ IsFiniteSet(Upto(f, n, j))
    BY <1>2, <2>1
  <2>5. Rank(f, n, i) <= Rank(f, n, j) /\ Rank(f, n, i) # Rank(f, n, j)
    BY <2>3, <2>4, FS_Subset DEF Rank
  <2>. QED  BY <1>2, <2>5
<1>. QED  BY <1>2, <1>4, <1>5

\* Every rank is taken, once; the keys ascend with the ranks.
LEMMA RankIsPermutation ==
  ASSUME NEW n \in Nat, NEW f \in [1..n -> Int]
  PROVE  /\ \A k \in 1..n : \E i \in 1..n : Rank(f, n, i) = k
         /\ \A i, j \in 1..n : Rank(f, n, i) = Rank(f, n, j) => i = j
         /\ \A i, j \in 1..n : Rank(f, n, i) <= Rank(f, n, j) => f[i] <= f[j]
<1>1. \A i, j \in 1..n : NotBehind(f, i, j) \/ NotBehind(f, j, i)
  <2>. SUFFICES ASSUME NEW i \in 1..n, NEW j \in 1..n
               PROVE  NotBehind(f, i, j) \/ NotBehind(f, j, i)
    OBVIOUS
  <2>1. f[i] \in Int /\ f[j] \in Int
    OBVIOUS
  <2>. QED  BY <2>1 DEF NotBehind
<1>2. \A i \in 1..n : Rank(f, n, i) \in 1..n
  BY RankGrows
<1>3. \A i, j \in 1..n : i # j /\ NotBehind(f, i, j) => Rank(f, n, i) < Rank(f, n, j)
  BY RankGrows
<1>4. \A i, j \in 1..n : Rank(f, n, i) = Rank(f, n, j) => i = j
  BY <1>1, <1>2, <1>3
<1>5. ASSUME NEW i \in 1..n, NEW j \in 1..n, Rank(f, n, i) <= Rank(f, n, j)
      PROVE  f[i] <= f[j]
  <2>1. f[i] \in Int /\ f[j] \in Int
    OBVIOUS
  <2>2. NotBehind(f, i, j) \/ i = j
    BY <1>1, <1>2, <1>3, <1>5
  <2>. QED  BY <2>1, <2>2 DEF NotBehind
<1>6. \A k \in 1..n : \E i \in 1..n : Rank(f, n, i) = k
  <2>. DEFINE g == [i \in 1..n |-> Rank(f, n, i)]
  <2>1. g \in Injection(1..n, 1..n)
    BY <1>2, <1>4 DEF Injection, IsInjective
  <2>2. g \in Surjection(1..n, 1..n)
    BY <2>1, FS_Injection, FS_Interval
  <2>3. \A k \in 1..n : \E i \in 1..n : g[i] = k
    BY <2>2 DEF Surjection
  <2>. QED  BY <2>3
<1>. QED  BY <1>4, <1>5, <1>6

\* Fewer than k keys are smaller than the one with rank k, at least k not greater.
LEMMA RankCounts ==
  ASSUME NEW n \in Nat, NEW f \in [1..n -> Int], NEW i \in 1..n
  PROVE  /\ Cardinality({j \in 1..n : f[j] < f[i]}) < Rank(f, n, i)
         /\ Rank(f, n, i) <= Cardinality({j \in 1..n : f[j] <= f[i]})
<1>. DEFINE smaller == {j \in 1..n : f[j] < f[i]}
            upto    == {j \in 1..n : f[j] <= f[i]}
<1>1. IsFiniteSet(1..n)
  BY FS_Interval
<1>2. \A j \in 1..n : f[j] \in Int
  OBVIOUS
<1>3. /\ smaller \subseteq Upto(f, n, i) /\ i \in Upto(f, n, i) /\ i \notin smaller
      /\ Upto(f, n, i) \subseteq upto
  BY <1>2 DEF Upto, NotBehind
<1>4. IsFiniteSet(upto) /\ IsFiniteSet(Upto(f, n, i)) /\ IsFiniteSet(smaller)
  BY <1>1, FS_Subset DEF Upto
<1>5. Cardinality(Upto(f, n, i)) <= Cardinality(upto)
  BY <1>3, <1>4, FS_Subset
<1>6. /\ Cardinality(smaller) <= Cardinality(Upto(f, n, i))
      /\ Cardinality(smaller) # Cardinality(Upto(f, n, i))
  BY <1>3, <1>4, FS_Subset
<1>7. Cardinality(smaller) \in Nat /\ Cardinality(Upto(f, n, i)) \in Nat
  BY <1>4, FS_CardinalityType
<1>. QED  BY <1>5, <1>6, <1>7 DEF Rank
---------------------------------------------------------------------------
(* What the leaderboard and the statistics make of it.                     *)

Key(s) == [i \in 1..Len(s) |-> -s[i].count]

LEMMA PlaceIsRank ==
  ASSUME NEW s \in Seq(Entry)
  PROVE  /\ Len(s) \in Nat /\ Key(s) \in [1..Len(s) -> Int]
         /\ \A i \in 1..Len(s) : /\ s[i].count \in Nat /\ Key(s)[i] = -s[i].count
                                 /\ Place(s, i) = Rank(Key(s), Len(s), i)
<1>1. \A i \in 1..Len(s) : s[i] \in Entry
  OBVIOUS
<1>2. \A i \in 1..Len(s) : s[i].count \in Nat
  BY <1>1 DEF Entry
<1>3. ASSUME NEW i \in 1..Len(s)
      PROVE  Place(s, i) = Rank(Key(s), Len(s), i)
  <2>1. \A j \in 1..Len(s) :
          NotBehind(Key(s), j, i) <=> \/ s[j].count > s[i].count
                                      \/ s[j].count = s[i].count /\ j <= i
    <3>. SUFFICES ASSUME NEW j \in 1..Len(s)
                 PROVE  NotBehind(Key(s), j, i) <=>
                          \/ s[j].count > s[i].count
                          \/ s[j].count = s[i].count /\ j <= i
      OBVIOUS
    <3>1. Key(s)[j] = -s[j].count /\ Key(s)[i] = -s[i].count
      BY DEF Key
    <3>2. s[j].count \in Nat /\ s[i].count \in Nat
      BY <1>2
    <3>. QED  BY <3>1, <3>2 DEF NotBehind
  <2>2. Upto(Key(s), Len(s), i) =
          {j \in 1..Len(s) : \/ s[j].count > s[i].count
                             \/ s[j].count = s[i].count /\ j <= i}
    BY <2>1 DEF Upto
  <2>. QED  BY <2>2 DEF Place, Rank
<1>. QED  BY <1>2, <1>3 DEF Key

\* sort_by is a permutation, and what it returns descends.
LEMMA SortedDescends ==
  ASSUME NEW s \in Seq(Entry)
  PROVE  /\ Sorted(s) \in Seq(Entry) /\ Len(Sorted(s)) = Len(s)
         /\ \A k \in 1..Len(s) : \E i \in 1..Len(s) : Sorted(s)[k] = s[i]
         /\ \A i \in 1..Len(s) : \E k \in 1..Len(s) : Sorted(s)[k] = s[i]
         /\ \A k, l \in 1..Len(s) : k <= l => Sorted(s)[k].count >= Sorted(s)[l].count
         /\ (\A i, j \in 1..Len(s) : s[i].domain = s[j].domain => i = j) =>
              \A k, l \in 1..Len(s) : Sorted(s)[k].domain = Sorted(s)[l].domain => k = l
<1>. DEFINE n == Len(s)
            at(k) == CHOOSE i \in 1..n : Place(s, i) = k
<1>1. /\ n \in Nat /\ Key(s) \in [1..n -> Int]
      /\ \A i \in 1..n : /\ s[i].count \in Nat /\ Key(s)[i] = -s[i].count
                         /\ Place(s, i) = Rank(Key(s), n, i)
  BY PlaceIsRank
<1>2. /\ \A k \in 1..n : \E i \in 1..n : Place(s, i) = k
      /\ \A i, j \in 1..n : Place(s, i) = Place(s, j) => i = j
      /\ \A i, j \in 1..n : Place(s, i) <= Place(s, j) => Key(s)[i] <= Key(s)[j]
      /\ \A i \in 1..n : Place(s, i) \in 1..n
  <2>. HIDE DEF n
  <2>1. /\ \A k \in 1..n : \E i \in 1..n : Rank(Key(s), n, i) = k
        /\ \A i, j \in 1..n : Rank(Key(s), n, i) = Rank(Key(s), n, j) => i = j
        /\ \A i, j \in 1..n : Rank(Key(s), n, i) <= Rank(Key(s), n, j)
                              => Key(s)[i] <= Key(s)[j]
    BY <1>1, RankIsPermutation
  <2>2. \A i \in 1..n : Rank(Key(s), n, i) \in 1..n
    BY <1>1, RankGrows
  <2>. QED  BY <1>1, <2>1, <2>2
<1>3. \A k \in 1..n : at(k) \in 1..n /\ Place(s, at(k)) = k
  BY <1>2
<1>4. \A i \in 1..n : at(Place(s, i)) = i
  BY <1>2, <1>3
<1>5. \A k \in 1..n : Sorted(s)[k] = s[at(k)]
  BY DEF Sorted
<1>. HIDE DEF at
<1>6. Sorted(s) \in [1..n -> Entry]
  <2>1. Sorted(s) = [k \in 1..n |-> s[at(k)]]
    BY DEF Sorted, at
  <2>2. \A k \in 1..n : s[at(k)] \in Entry
    BY <1>3
  <2>. QED  BY <2>1, <2>2
<1>7. Sorted(s) \in Seq(Entry) /\ Len(Sorted(s)) = n
  BY <1>1, <1>6
<1>8. ASSUME NEW k \in 1..n, NEW l \in 1..n, k <= l
      PROVE  Sorted(s)[k].count >= Sorted(s)[l].count
  <2>1. at(k) \in 1..n /\ at(l) \in 1..n /\ Key(s)[at(k)] <= Key(s)[at(l)]
    BY <1>2, <1>3, <1>8
  <2>2. s[at(k)].count >= s[at(l)].count
    BY <1>1, <2>1
  <2>. QED  BY <1>5, <2>2
<1>9. ASSUME \A i, j \in 1..n : s[i].domain = s[j].domain => i = j,
             NEW k \in 1..n, NEW l \in 1..n, Sorted(s)[k].domain = Sorted(s)[l].domain
      PROVE  k = l
  <2>1. at(k) = at(l)
    BY <1>3, <1>5, <1>9
  <2>. QED  BY <1>3, <2>1
<1>. QED  BY <1>2, <1>3, <1>4, <1>5, <1>7, <1>8, <1>9

\* The sample with a given index is there, and a greater index gives no smaller one.
LEMMA NthSmallestIs ==
  ASSUME NEW s \in Seq(Nat), NEW k \in 0..(Len(s) - 1)
  PROVE  LET v == NthSmallest(s, k)
         IN  /\ v \in Nat
             /\ Cardinality({i \in 1..Len(s) : s[i] < v}) <= k
             /\ Cardinality({i \in 1..Len(s) : s[i] <= v}) > k
<1>1. Len(s) \in Nat /\ s \in [1..Len(s) -> Int] /\ \A i \in 1..Len(s) : s[i] \in Nat
  OBVIOUS
<1>2. PICK i \in 1..Len(s) : Rank(s, Len(s), i) = k + 1
  <2>1. \A m \in 1..Len(s) : \E i \in 1..Len(s) : Rank(s, Len(s), i) = m
    BY <1>1, RankIsPermutation
  <2>2. k + 1 \in 1..Len(s)
    BY <1>1
  <2>. QED  BY <2>1, <2>2
<1>3. /\ Cardinality({j \in 1..Len(s) : s[j] < s[i]}) < k + 1
      /\ k + 1 <= Cardinality({j \in 1..Len(s) : s[j] <= s[i]})
  BY <1>1, <1>2, RankCounts
<1>4. /\ Cardinality({j \in 1..Len(s) : s[j] < s[i]}) \in Nat
      /\ Cardinality({j \in 1..Len(s) : s[j] <= s[i]}) \in Nat
  <2>1. IsFiniteSet(1..Len(s))
    BY <1>1, FS_Interval
  <2>2. /\ IsFiniteSet({j \in 1..Len(s) : s[j] < s[i]})
        /\ IsFiniteSet({j \in 1..Len(s) : s[j] <= s[i]})
    BY <2>1, FS_Subset
  <2>. QED  BY <2>2, FS_CardinalityType
<1>5. /\ Cardinality({j \in 1..Len(s) : s[j] < s[i]}) <= k
      /\ Cardinality({j \in 1..Len(s) : s[j] <= s[i]}) > k
  BY <1>3, <1>4
<1>6. \E v \in {s[j] : j \in 1..Len(s)} :
        /\ Cardinality({j \in 1..Len(s) : s[j] < v}) <= k
        /\ Cardinality({j \in 1..Len(s) : s[j] <= v}) > k
  BY <1>5
<1>7. NthSmallest(s, k) \in {s[j] : j \in 1..Len(s)}
      /\ Cardinality({j \in 1..Len(s) : s[j] < NthSmallest(s, k)}) <= k
      /\ Cardinality({j \in 1..Len(s) : s[j] <= NthSmallest(s, k)}) > k
  BY <1>6 DEF NthSmallest
<1>. QED  BY <1>1, <1>7

LEMMA NthSmallestAscends ==
  ASSUME NEW s \in Seq(Nat), NEW k \in 0..(Len(s) - 1), NEW l \in k..(Len(s) - 1)
  PROVE  NthSmallest(s, k) <= NthSmallest(s, l)
<1>. DEFINE v == NthSmallest(s, k)
            u == NthSmallest(s, l)
            below == {i \in 1..Len(s) : s[i] < v}
            upto  == {i \in 1..Len(s) : s[i] <= u}
<1>1. /\ v \in Nat /\ u \in Nat /\ Cardinality(below) <= k /\ Cardinality(upto) > l
  <2>1. l \in 0..(Len(s) - 1)
    OBVIOUS
  <2>2. v \in Nat /\ Cardinality(below) <= k
    BY NthSmallestIs
  <2>3. u \in Nat /\ Cardinality(upto) > l
    BY <2>1, NthSmallestIs
  <2>. QED  BY <2>2, <2>3
<1>2. \A i \in 1..Len(s) : s[i] \in Nat
  OBVIOUS
<1>3. IsFiniteSet(below) /\ Cardinality(below) \in Nat /\ Cardinality(upto) \in Nat
  <2>1. Len(s) \in Nat
    OBVIOUS
  <2>2. IsFiniteSet(1..Len(s))
    BY <2>1, FS_Interval
  <2>3. IsFiniteSet(below) /\ IsFiniteSet(upto)
    BY <2>2, FS_Subset
  <2>. QED  BY <2>3, FS_CardinalityType
<1>. HIDE DEF v, u
<1>4. SUFFICES ASSUME u < v PROVE FALSE
  BY <1>1 DEF v, u
<1>5. upto \subseteq below
  BY <1>1, <1>2, <1>4
<1>6. Cardinality(upto) <= Cardinality(below)
  BY <1>3, <1>5, FS_Subset
<1>. QED  BY <1>1, <1>3, <1>6

\* Every percentile of the program is of the right rank, and the benchmarks'
\* index is the rounded one or the next.
Rounded(p, n, k) ==
  /\ k \in 0..(n - 1)
  /\ 100 * k <= p * (n - 1) + 50
  /\ 100 * (k + 1) > p * (n - 1) + 50

LEMMA IndexIsRounded ==
  ASSUME NEW n \in Nat \ {0}
  PROVE  /\ \A p \in {50, 90, 99} : Rounded(p, n, PercentileIndex(p, n))
         /\ BenchIndex(n) \in 0..(n - 1)
         /\ BenchIndex(n) - PercentileIndex(99, n) \in {0, 1}
<1>1. ASSUME NEW p \in {50, 90, 99}
      PROVE  Rounded(p, n, PercentileIndex(p, n))
  <2>1. CASE p = 50
    BY <2>1 DEF PercentileIndex, Rounded
  <2>2. CASE p = 90
    BY <2>2 DEF PercentileIndex, Rounded
  <2>3. CASE p = 99
    BY <2>3 DEF PercentileIndex, Rounded
  <2>. QED  BY <2>1, <2>2, <2>3
<1>2. BenchIndex(n) \in 0..(n - 1) /\ 100 * BenchIndex(n) <= 99 * n
      /\ 99 * n < 100 * BenchIndex(n) + 100
  BY DEF BenchIndex
<1>. QED
  <2>1. BenchIndex(n) - PercentileIndex(99, n) \in {0, 1}
    <3>. DEFINE k == PercentileIndex(99, n)
    <3>1. k \in 0..(n - 1) /\ 100 * k <= 99 * (n - 1) + 50
          /\ 100 * (k + 1) > 99 * (n - 1) + 50
      BY <1>1 DEF Rounded
    <3>. HIDE DEF k
    <3>2. BenchIndex(n) - k = 0 \/ BenchIndex(n) - k = 1
      BY <1>2, <3>1
    <3>. QED  BY <3>2 DEF k
  <2>. QED  BY <1>1, <1>2, <2>1
---------------------------------------------------------------------------
(* The inductive invariant of the leaderboard.                             *)

Holding == {"load", "store", "ops", "bump", "unlock"}

\* Under a lock a writer between lock and unlock is the owner, a reader that
\* copies the owner or one of those that share; Atomic takes no lock.
Locks ==
  /\ strategy # "RwLock" => sharing = {}
  /\ \A w \in Writers :
       IF strategy = "Atomic" THEN w_pc[w] \in {"idle", "store", "ops", "bump"}
       ELSE w_pc[w] \in Holding => owner = w
  /\ \A r \in Readers :
       /\ r_pc[r] = "copy" /\ strategy = "Mutex" => owner = r
       /\ r_pc[r] = "copy" /\ strategy = "RwLock" => r \in sharing
       /\ r_pc[r] = "lock" => strategy # "Atomic"

\* What a writer has loaded is still there when it stores.
Loaded == \A w \in Writers :
  w_pc[w] = "store" /\ strategy # "Atomic" => w_old[w] = counts[w_domain[w]]

\* The metrics are held by a writer that bumps, or by the rest of the program.
Metrics ==
  /\ metrics \in Writers => w_pc[metrics] = "bump"
  /\ metrics = Strangers => busy

\* Every entry has a count the domain had since the query began.
Current(r) ==
  \A i \in 1..Len(entries[r]) :
    /\ before[r][entries[r][i].domain] <= entries[r][i].count
    /\ entries[r][i].count <= counts[entries[r][i].domain]

\* Under a lock every entry still has the count it was copied with.
Exact(r) ==
  \A i \in 1..Len(entries[r]) : entries[r][i].count = counts[entries[r][i].domain]

\* The domains a reader has collected.
Collected(r) == {entries[r][i].domain : i \in 1..Len(entries[r])}

\* What a reader has at each step of its query.
Reads(r) ==
  /\ \A d \in Domain : before[r][d] <= counts[d]
  /\ r_pc[r] \in {"idle", "lock"} => entries[r] = <<>> /\ seen[r] = {}
  /\ r_pc[r] \in {"copy", "sort"} =>
       /\ Current(r)
       /\ \A d \in seen[r] : before[r][d] = 0 \/ d \in Collected(r)
  /\ r_pc[r] = "copy" /\ strategy # "Atomic" => Exact(r)
  /\ r_pc[r] = "sort" => seen[r] = Counted

WriteInv == LTypeOK /\ Locks /\ Loaded /\ Metrics /\ NoEditLost /\ OpsFollowEdits
LInv     == WriteInv /\ \A r \in Readers : Reads(r)

LEMMA TypeInit == LInit => LTypeOK
<1>. SUFFICES ASSUME LInit PROVE LTypeOK
  OBVIOUS
<1>. USE DEF LInit
<1>1. (CHOOSE d \in Domain : TRUE) \in Domain
  <2>1. KnownDomain[1] \in Known
    BY LeaderboardAssumption DEF Known
  <2>. QED  BY <2>1 DEF Domain
<1>2. 0 \in 0..MaxCalls
  BY LeaderboardAssumption
<1>3. <<>> \in Seq(Entry)
  OBVIOUS
<1>. QED  BY <1>1, <1>2, <1>3 DEF LTypeOK

LEMMA TypeWriter ==
  ASSUME LTypeOK, NEW w \in Writers, Increment(w) \/ SkipOps(w)
  PROVE  LTypeOK'
<1>. USE DEF LTypeOK, map_vars, met_vars, w_vars, r_vars, e_vars, Goto, Counted
<1>1. CASE Call(w)
  <2>1. calls[w] + 1 \in 0..MaxCalls
    BY <1>1, LeaderboardAssumption DEF Call
  <2>. QED  BY <1>1, <2>1 DEF Call
<1>2. CASE LockForWriting(w)
  BY <1>2 DEF LockForWriting, Thread
<1>3. CASE LoadEntry(w)
  BY <1>3 DEF LoadEntry
<1>4. CASE StoreEntry(w)
  <2>0. w_domain[w] \in Domain /\ w_old[w] + 1 \in Nat /\ counts[w_domain[w]] + 1 \in Nat
        /\ edits[w_domain[w]] + 1 \in Nat /\ all_edits + 1 \in Nat
    OBVIOUS
  <2>1. counts' \in [Domain -> Nat]
    <3>1. \/ counts' = [counts EXCEPT ![w_domain[w]] = w_old[w] + 1]
          \/ counts' = [counts EXCEPT ![w_domain[w]] = @ + 1]
          \/ counts' = counts
      BY <1>4 DEF StoreEntry
    <3>. QED  BY <2>0, <3>1
  <2>2. edits' = [edits EXCEPT ![w_domain[w]] = @ + 1] /\ all_edits' = all_edits + 1
        /\ w_pc' = [w_pc EXCEPT ![w] = "ops"]
        /\ UNCHANGED <<strategy, busy, owner, sharing, met_vars, w_domain, w_old, calls,
                       r_vars>>
    BY <1>4 DEF StoreEntry
  <2>3. edits' \in [Domain -> Nat] /\ all_edits' \in Nat
    BY <2>0, <2>2
  <2>. QED  BY <2>1, <2>2, <2>3
<1>5. CASE TryMetrics(w)
  BY <1>5 DEF TryMetrics, AfterOps
<1>6. CASE BumpOps(w)
  BY <1>6 DEF BumpOps, AfterOps
<1>7. CASE Unlock(w)
  BY <1>7 DEF Unlock
<1>8. CASE SkipOps(w)
  BY <1>8 DEF SkipOps, AfterOps
<1>. QED  BY <1>1, <1>2, <1>3, <1>4, <1>5, <1>6, <1>7, <1>8 DEF Increment

LEMMA NextIsCounted ==
  ASSUME LTypeOK, NEW r \in Readers
  PROVE  NextEntry(r) \subseteq Counted \ seen[r] /\ Counted \subseteq Domain
BY DEF NextEntry, Counted, Domain

LEMMA TypeReader ==
  ASSUME LTypeOK, Locks, NEW r \in Readers, TopN(r)
  PROVE  LTypeOK'
<1>. USE DEF LTypeOK, map_vars, met_vars, w_vars, r_vars, e_vars, Move
<1>0. Counted' = Counted
  BY DEF TopN, Query, LockForCopying, CopyEntry, FinishCopy, SortAndTruncate, Counted
<1>1. CASE Query(r)
  BY <1>0, <1>1 DEF Query
<1>2. CASE LockForCopying(r)
  <2>1. owner = NoOne /\ r \in Thread
    BY <1>2 DEF LockForCopying, Thread
  <2>2. CASE strategy = "Mutex"
    BY <1>0, <1>2, <2>1, <2>2 DEF LockForCopying, Locks
  <2>3. CASE strategy # "Mutex"
    BY <1>0, <1>2, <2>1, <2>3 DEF LockForCopying
  <2>. QED  BY <2>2, <2>3
<1>3. CASE CopyEntry(r)
  <2>1. PICK d \in NextEntry(r) :
          /\ seen' = [seen EXCEPT ![r] = @ \cup {d}]
          /\ entries' = IF counts[d] = 0 THEN entries
                        ELSE [entries EXCEPT ![r] =
                                Append(@, [domain |-> d, count |-> counts[d]])]
    BY <1>3 DEF CopyEntry
  <2>2. d \in Counted /\ d \in Domain
    BY NextIsCounted
  <2>3. [domain |-> d, count |-> counts[d]] \in Entry
    BY <2>2 DEF Entry
  <2>4. Append(entries[r], [domain |-> d, count |-> counts[d]]) \in Seq(Entry)
    BY <2>3
  <2>5. entries' \in [Readers -> Seq(Entry)]
    BY <2>1, <2>4
  <2>6. seen' \in [Readers -> SUBSET Counted]
    BY <2>1, <2>2
  <2>. QED  BY <1>0, <1>3, <2>5, <2>6 DEF CopyEntry
<1>4. CASE FinishCopy(r)
  BY <1>0, <1>4 DEF FinishCopy
<1>5. CASE SortAndTruncate(r)
  <2>. DEFINE s == entries[r]
              m == IF Len(s) < TopSize THEN Len(s) ELSE TopSize
  <2>1. Sorted(s) \in Seq(Entry) /\ Len(Sorted(s)) = Len(s) /\ Len(s) \in Nat
    BY SortedDescends
  <2>2. m \in 0..Len(s)
    BY <2>1, LeaderboardAssumption
  <2>3. SubSeq(Sorted(s), 1, m) \in Seq(Entry)
    <3>. HIDE DEF m
    <3>. QED  BY <2>1, <2>2
  <2>4. entries' = [entries EXCEPT ![r] = SubSeq(Sorted(s), 1, m)]
    BY <1>5 DEF SortAndTruncate, Top
  <2>5. entries' \in [Readers -> Seq(Entry)]
    BY <2>3, <2>4
  <2>. QED  BY <1>0, <1>5, <2>5 DEF SortAndTruncate
<1>. QED  BY <1>1, <1>2, <1>3, <1>4, <1>5 DEF TopN

LEMMA TypeOthers ==
  ASSUME LTypeOK, OthersUseMetrics \/ UNCHANGED lvars
  PROVE  LTypeOK'
BY DEF LTypeOK, OthersUseMetrics, lvars, map_vars, met_vars, w_vars, r_vars, e_vars, Counted
---------------------------------------------------------------------------
(* Who writes, and what is counted.                                        *)

Uncounted == {w \in Writers : w_pc[w] \in {"ops", "bump"}}
One(pc) == IF pc \in {"ops", "bump"} THEN 1 ELSE 0

LEMMA UncountedAfter ==
  ASSUME LTypeOK, NEW w \in Writers, NEW next, Goto(w, next)
  PROVE  /\ Cardinality(Uncounted) \in Nat
         /\ Cardinality(Uncounted') = Cardinality(Uncounted) - One(w_pc[w]) + One(next)
<1>1. \A v \in Writers : w_pc'[v] = IF v = w THEN next ELSE w_pc[v]
  BY DEF LTypeOK, Goto
<1>2. IsFiniteSet(Uncounted) /\ Cardinality(Uncounted) \in Nat
  BY LeaderboardAssumption, FS_Subset, FS_CardinalityType DEF Uncounted
<1>3. Uncounted' = IF next \in {"ops", "bump"} THEN Uncounted \cup {w} ELSE Uncounted \ {w}
  BY <1>1 DEF Uncounted
<1>4. w \in Uncounted <=> w_pc[w] \in {"ops", "bump"}
  BY DEF Uncounted
<1>5. /\ Cardinality(Uncounted \cup {w}) =
           IF w \in Uncounted THEN Cardinality(Uncounted) ELSE Cardinality(Uncounted) + 1
      /\ Cardinality(Uncounted \ {w}) =
           IF w \in Uncounted THEN Cardinality(Uncounted) - 1 ELSE Cardinality(Uncounted)
  BY <1>2, FS_AddElement, FS_RemoveElement
<1>6. CASE next \in {"ops", "bump"}
  BY <1>2, <1>3, <1>4, <1>5, <1>6 DEF One
<1>7. CASE next \notin {"ops", "bump"}
  BY <1>2, <1>3, <1>4, <1>5, <1>7 DEF One
<1>. QED  BY <1>6, <1>7

\* OpsFollowEdits with its counters named.
LEMMA OpsAre ==
  OpsFollowEdits <=>
    /\ write_ops + Cardinality(Uncounted) <= all_edits
    /\ ~busy /\ strategy # "Atomic" => write_ops + Cardinality(Uncounted) = all_edits
BY DEF OpsFollowEdits, Uncounted

LEMMA WriteInit == LInit => WriteInv
<1>. SUFFICES ASSUME LInit PROVE WriteInv
  OBVIOUS
<1>1. LTypeOK
  BY TypeInit
<1>2. Locks /\ Loaded /\ Metrics /\ NoEditLost
  BY LeaderboardAssumption DEF LInit, Locks, Loaded, Metrics, NoEditLost, Holding, Thread
<1>3. OpsFollowEdits
  <2>1. Uncounted = {}
    BY DEF LInit, Uncounted
  <2>2. Cardinality(Uncounted) = 0
    BY <2>1, FS_EmptySet
  <2>. QED  BY <2>2, OpsAre DEF LInit
<1>. QED  BY <1>1, <1>2, <1>3 DEF WriteInv

\* Under a lock no two writers are between lock and unlock.
LEMMA OneWriter ==
  ASSUME Locks, strategy # "Atomic", NEW v \in Writers, NEW w \in Writers,
         w_pc[v] \in Holding, w_pc[w] \in Holding
  PROVE  v = w /\ owner = w
BY DEF Locks

LEMMA OpsWriter ==
  ASSUME WriteInv, NEW w \in Writers, Increment(w) \/ (busy /\ SkipOps(w))
  PROVE  OpsFollowEdits'
<1>. DEFINE U == Cardinality(Uncounted)
<1>0. /\ LTypeOK /\ write_ops \in Nat /\ all_edits \in Nat /\ U \in Nat
      /\ write_ops + U <= all_edits
      /\ ~busy /\ strategy # "Atomic" => write_ops + U = all_edits
  <2>1. IsFiniteSet(Uncounted)
    BY LeaderboardAssumption, FS_Subset DEF Uncounted
  <2>. QED  BY <2>1, OpsAre, FS_CardinalityType DEF WriteInv, LTypeOK
<1>1. \A next : Goto(w, next) => U' = U - One(w_pc[w]) + One(next)
  BY <1>0, UncountedAfter
<1>. HIDE DEF U
<1>. SUFFICES /\ write_ops' + U' <= all_edits'
              /\ ~busy' /\ strategy' # "Atomic" => write_ops' + U' = all_edits'
  BY DEF OpsFollowEdits, Uncounted, U
<1>2. CASE StoreEntry(w)
  <2>1. Goto(w, "ops") /\ w_pc[w] = "store" /\ all_edits' = all_edits + 1
        /\ UNCHANGED <<write_ops, busy, strategy>>
    BY <1>2 DEF StoreEntry, met_vars
  <2>2. U' = U + 1
    BY <1>0, <1>1, <2>1 DEF One
  <2>. QED  BY <1>0, <2>1, <2>2
<1>3. CASE BumpOps(w)
  <2>1. Goto(w, AfterOps) /\ w_pc[w] = "bump" /\ write_ops' = write_ops + 1
        /\ UNCHANGED <<all_edits, busy, strategy>>
    BY <1>3 DEF BumpOps, e_vars
  <2>2. U' = U - 1
    BY <1>0, <1>1, <2>1 DEF One, AfterOps
  <2>. QED  BY <1>0, <2>1, <2>2
<1>4. CASE TryMetrics(w)
  <2>1. w_pc[w] = "ops" /\ UNCHANGED <<write_ops, all_edits, busy, strategy>>
    BY <1>4 DEF TryMetrics, e_vars
  <2>2. CASE Goto(w, "bump")
    <3>1. U' = U
      BY <1>0, <1>1, <2>1, <2>2 DEF One
    <3>. QED  BY <1>0, <2>1, <3>1
  <2>3. CASE metrics # NoOne /\ Goto(w, AfterOps)
    <3>1. U' = U - 1
      BY <1>0, <1>1, <2>1, <2>3 DEF One, AfterOps
    <3>2. ~(~busy /\ strategy # "Atomic")
      <4>. SUFFICES ASSUME ~busy, strategy # "Atomic" PROVE FALSE
        OBVIOUS
      <4>1. metrics \in Writers /\ w_pc[metrics] = "bump"
        BY <1>0, <2>3 DEF WriteInv, LTypeOK, Metrics
      <4>2. metrics = w
        BY <2>1, <4>1, OneWriter DEF WriteInv, Holding
      <4>. QED  BY <2>1, <4>1, <4>2
    <3>. QED  BY <1>0, <2>1, <3>1, <3>2
  <2>. QED  BY <1>4, <2>2, <2>3 DEF TryMetrics
<1>5. CASE busy /\ SkipOps(w)
  <2>1. Goto(w, AfterOps) /\ w_pc[w] = "ops" /\ busy
        /\ UNCHANGED <<write_ops, all_edits, busy, strategy>>
    BY <1>5 DEF SkipOps, e_vars, met_vars
  <2>2. U' = U - 1
    BY <1>0, <1>1, <2>1 DEF One, AfterOps
  <2>. QED  BY <1>0, <2>1, <2>2
<1>6. CASE Call(w) \/ LockForWriting(w) \/ LoadEntry(w) \/ Unlock(w)
  <2>1. UNCHANGED <<write_ops, all_edits, busy, strategy>>
    BY <1>6 DEF Call, LockForWriting, LoadEntry, Unlock, met_vars, e_vars
  <2>2. w_pc[w] \notin {"ops", "bump"}
        /\ \E next : next \notin {"ops", "bump"} /\ Goto(w, next)
    BY <1>6 DEF Call, LockForWriting, LoadEntry, Unlock
  <2>3. U' = U
    BY <1>0, <1>1, <2>2 DEF One
  <2>. QED  BY <1>0, <2>1, <2>3
<1>. QED  BY <1>2, <1>3, <1>4, <1>5, <1>6 DEF Increment

\* The locks, the metrics and the counts after a step of a writer.
LEMMA LocksWriter ==
  ASSUME WriteInv, NEW w \in Writers, Increment(w) \/ SkipOps(w)
  PROVE  Locks' /\ Loaded' /\ Metrics'
<1>0. LTypeOK /\ Locks /\ Loaded /\ Metrics /\ w \notin Readers /\ w # NoOne
      /\ w # Strangers /\ NoOne \notin Writers /\ NoOne \notin Readers /\ Strangers \notin Writers
      /\ Strangers # NoOne
  BY LeaderboardAssumption DEF WriteInv, Thread
<1>1. ASSUME NEW next, Goto(w, next)
      PROVE  \A v \in Writers : w_pc'[v] = IF v = w THEN next ELSE w_pc[v]
  BY <1>0, <1>1 DEF LTypeOK, Goto
<1>. USE DEF map_vars, met_vars, w_vars, r_vars, e_vars, Holding
<1>2. CASE Call(w)
  <2>1. Goto(w, IF strategy = "Atomic" THEN "store" ELSE "lock") /\ w_pc[w] = "idle"
        /\ UNCHANGED <<strategy, busy, map_vars, met_vars, w_old, r_vars>>
        /\ \A v \in Writers : v # w => w_domain'[v] = w_domain[v]
    BY <1>0, <1>2 DEF Call, LTypeOK
  <2>2. Locks' /\ Metrics'
    BY <1>0, <1>1, <2>1 DEF Locks, Metrics
  <2>. QED  BY <1>0, <1>1, <2>1, <2>2 DEF Loaded
<1>3. CASE LockForWriting(w)
  <2>1. Goto(w, "load") /\ w_pc[w] = "lock" /\ owner = NoOne /\ sharing = {} /\ owner' = w
        /\ UNCHANGED <<strategy, busy, counts, sharing, met_vars, w_old, w_domain, r_vars>>
    BY <1>3 DEF LockForWriting
  <2>2. Locks'
    BY <1>0, <1>1, <2>1 DEF Locks
  <2>. QED  BY <1>0, <1>1, <2>1, <2>2 DEF Loaded, Metrics
<1>4. CASE LoadEntry(w)
  <2>1. Goto(w, "store") /\ w_pc[w] = "load" /\ w_old'[w] = counts[w_domain[w]]
        /\ (\A v \in Writers : v # w => w_old'[v] = w_old[v])
        /\ UNCHANGED <<strategy, busy, map_vars, met_vars, w_domain, r_vars>>
    BY <1>0, <1>4 DEF LoadEntry, LTypeOK
  <2>2. Locks' /\ Metrics'
    BY <1>0, <1>1, <2>1 DEF Locks, Metrics
  <2>. QED  BY <1>0, <1>1, <2>1, <2>2 DEF Loaded
<1>5. CASE StoreEntry(w)
  <2>1. Goto(w, "ops") /\ w_pc[w] = "store"
        /\ UNCHANGED <<strategy, busy, owner, sharing, met_vars, w_domain, w_old, r_vars>>
    BY <1>5 DEF StoreEntry
  <2>2. Locks' /\ Metrics'
    BY <1>0, <1>1, <2>1 DEF Locks, Metrics
  <2>3. \A v \in Writers : v # w /\ strategy # "Atomic" => w_pc[v] # "store"
    BY <1>0, <2>1, OneWriter
  <2>. QED  BY <1>0, <1>1, <2>1, <2>2, <2>3 DEF Loaded
<1>6. CASE TryMetrics(w)
  <2>1. w_pc[w] = "ops" /\ UNCHANGED <<strategy, busy, map_vars, w_domain, w_old, r_vars>>
    BY <1>6 DEF TryMetrics
  <2>2. \/ metrics = NoOne /\ metrics' = w /\ Goto(w, "bump")
        \/ metrics # NoOne /\ metrics' = metrics /\ Goto(w, AfterOps)
    BY <1>6 DEF TryMetrics
  <2>3. Locks' /\ Loaded'
    BY <1>0, <1>1, <2>1, <2>2 DEF Locks, Loaded, AfterOps
  <2>. QED  BY <1>0, <1>1, <2>1, <2>2, <2>3 DEF Metrics
<1>7. CASE BumpOps(w)
  <2>1. Goto(w, AfterOps) /\ w_pc[w] = "bump" /\ metrics' = NoOne
        /\ UNCHANGED <<strategy, busy, map_vars, w_domain, w_old, r_vars>>
    BY <1>7 DEF BumpOps
  <2>2. Locks' /\ Loaded'
    BY <1>0, <1>1, <2>1 DEF Locks, Loaded, AfterOps
  <2>. QED  BY <1>0, <2>1, <2>2 DEF Metrics
<1>8. CASE Unlock(w)
  <2>1. Goto(w, "idle") /\ w_pc[w] = "unlock" /\ owner' = NoOne
        /\ UNCHANGED <<strategy, busy, counts, sharing, met_vars, w_domain, w_old, r_vars>>
    BY <1>8 DEF Unlock
  <2>2. strategy # "Atomic" /\ owner = w
    BY <1>0, <2>1 DEF Locks
  <2>3. Locks'
    <3>1. \A r \in Readers : owner # r
      BY <1>0, <2>2
    <3>2. \A v \in Writers : v # w => w_pc[v] \notin Holding
      BY <1>0, <2>1, <2>2, OneWriter
    <3>. QED  BY <1>0, <1>1, <2>1, <2>2, <3>1, <3>2 DEF Locks
  <2>. QED  BY <1>0, <1>1, <2>1, <2>3 DEF Loaded, Metrics
<1>9. CASE SkipOps(w)
  <2>1. Goto(w, AfterOps) /\ w_pc[w] = "ops"
        /\ UNCHANGED <<strategy, busy, map_vars, met_vars, w_domain, w_old, r_vars>>
    BY <1>9 DEF SkipOps
  <2>2. Locks' /\ Loaded'
    BY <1>0, <1>1, <2>1 DEF Locks, Loaded, AfterOps
  <2>. QED  BY <1>0, <1>1, <2>1, <2>2 DEF Metrics
<1>. QED  BY <1>2, <1>3, <1>4, <1>5, <1>6, <1>7, <1>8, <1>9 DEF Increment

\* The entry of a counted domain goes up by one with each edit of it.
LEMMA CountsWriter ==
  ASSUME WriteInv, NEW w \in Writers, Increment(w) \/ SkipOps(w)
  PROVE  /\ NoEditLost'
         /\ \A d \in Domain : counts[d] <= counts'[d]
         /\ counts' # counts => w_pc[w] = "store"
         /\ \/ counts' = counts
            \/ \E d \in Counted : counts' = [counts EXCEPT ![d] = @ + 1]
<1>0. LTypeOK /\ Loaded /\ NoEditLost
  BY DEF WriteInv
<1>1. CASE StoreEntry(w)
  <2>. DEFINE d == w_domain[w]
  <2>1. d \in Domain /\ w_pc[w] = "store" /\ strategy' = strategy
        /\ edits' = [edits EXCEPT ![d] = @ + 1]
    BY <1>0, <1>1 DEF StoreEntry, LTypeOK
  <2>2. \A e \in Domain : counts[e] \in Nat /\ edits[e] \in Nat
    BY <1>0 DEF LTypeOK
  <2>3. IF d \in Counted THEN counts' = [counts EXCEPT ![d] = @ + 1] ELSE counts' = counts
    <3>1. CASE strategy # "Atomic"
      <4>1. d \in Counted /\ w_old[w] = counts[d]
        BY <1>0, <2>1, <3>1 DEF Counted, Loaded
      <4>2. counts' = [counts EXCEPT ![d] = w_old[w] + 1]
        BY <1>1, <3>1 DEF StoreEntry
      <4>. QED  BY <4>1, <4>2
    <3>2. CASE strategy = "Atomic"
      BY <1>1, <3>2 DEF StoreEntry, Counted
    <3>. QED  BY <3>1, <3>2
  <2>. HIDE DEF d
  <2>4. \A e \in Domain : /\ edits'[e] = IF e = d THEN edits[e] + 1 ELSE edits[e]
                          /\ counts'[e] = IF e = d /\ d \in Counted THEN counts[e] + 1
                                                                    ELSE counts[e]
    BY <1>0, <2>1, <2>3 DEF LTypeOK
  <2>5. \A e \in Domain : counts[e] <= counts'[e]
    BY <2>2, <2>4
  <2>6. \A e \in Counted : e \in Domain
    BY DEF Counted, Domain
  <2>7. Counted' = Counted
    BY <2>1 DEF Counted
  <2>8. \A e \in Counted : counts'[e] = edits'[e]
    BY <1>0, <2>2, <2>4, <2>6 DEF NoEditLost
  <2>9. NoEditLost'
    BY <2>7, <2>8 DEF NoEditLost
  <2>. QED  BY <2>1, <2>3, <2>5, <2>9
<1>2. CASE ~StoreEntry(w)
  <2>1. UNCHANGED <<strategy, counts, edits>>
    BY <1>2 DEF Increment, Call, LockForWriting, LoadEntry, TryMetrics, BumpOps, Unlock,
         SkipOps, map_vars, e_vars
  <2>2. Counted' = Counted /\ \A d \in Domain : counts[d] \in Nat
    BY <1>0, <2>1 DEF Counted, LTypeOK
  <2>. QED  BY <1>0, <2>1, <2>2 DEF NoEditLost
<1>. QED  BY <1>1, <1>2

LEMMA WriteWriter ==
  ASSUME WriteInv, NEW w \in Writers, Increment(w) \/ (busy /\ SkipOps(w))
  PROVE  WriteInv'
<1>1. LTypeOK'
  BY TypeWriter DEF WriteInv
<1>2. Increment(w) \/ SkipOps(w)
  OBVIOUS
<1>. QED  BY <1>1, <1>2, OpsWriter, LocksWriter, CountsWriter DEF WriteInv
---------------------------------------------------------------------------
(* A reader's step, and a step of the rest of the program.                 *)

LEMMA WriteReader ==
  ASSUME WriteInv, NEW r \in Readers, TopN(r)
  PROVE  WriteInv'
<1>0. /\ LTypeOK /\ Locks /\ r \notin Writers /\ NoOne \notin Writers
      /\ NoOne \notin Readers /\ r # NoOne
  BY LeaderboardAssumption DEF WriteInv, Thread
<1>1. LTypeOK'
  BY <1>0, TypeReader
<1>2. UNCHANGED <<strategy, busy, counts, met_vars, w_vars, e_vars>>
  BY DEF TopN, Query, LockForCopying, CopyEntry, FinishCopy, SortAndTruncate, map_vars
<1>3. Loaded' /\ Metrics' /\ NoEditLost' /\ OpsFollowEdits'
  <2>. USE <1>2 DEF WriteInv, met_vars, w_vars, e_vars
  <2>1. Counted' = Counted
    BY DEF Counted
  <2>2. Loaded' /\ Metrics'
    BY DEF Loaded, Metrics
  <2>3. NoEditLost'
    BY <2>1 DEF NoEditLost
  <2>4. OpsFollowEdits'
    BY DEF OpsFollowEdits
  <2>. QED  BY <2>2, <2>3, <2>4
<1>4. ASSUME NEW next, Move(r, next)
      PROVE  \A q \in Readers : r_pc'[q] = IF q = r THEN next ELSE r_pc[q]
  BY <1>0, <1>4 DEF LTypeOK, Move
<1>5. w_pc' = w_pc /\ strategy' = strategy
  BY <1>2 DEF w_vars
<1>6. Locks'
  <2>. USE DEF map_vars, Holding
  <2>1. CASE Query(r)
    <3>1. Move(r, IF strategy = "Atomic" THEN "copy" ELSE "lock") /\ UNCHANGED map_vars
      BY <2>1 DEF Query
    <3>. QED  BY <1>0, <1>4, <1>5, <3>1 DEF Locks
  <2>2. CASE LockForCopying(r)
    <3>1. owner = NoOne /\ Move(r, "copy")
      BY <2>2 DEF LockForCopying
    <3>2. \A w \in Writers : strategy # "Atomic" => w_pc[w] \notin Holding
      BY <1>0, <3>1 DEF Locks
    <3>3. CASE strategy = "Mutex"
      <4>1. owner' = r /\ sharing' = sharing
        BY <2>2, <3>3 DEF LockForCopying
      <4>2. \A q \in Readers : r_pc[q] # "copy"
        BY <1>0, <3>1, <3>3 DEF Locks
      <4>. QED  BY <1>0, <1>4, <1>5, <3>1, <3>2, <3>3, <4>1, <4>2 DEF Locks
    <3>4. CASE strategy = "RwLock"
      <4>1. sharing' = sharing \cup {r} /\ owner' = owner
        BY <2>2, <3>4 DEF LockForCopying
      <4>. QED  BY <1>0, <1>4, <1>5, <3>1, <3>2, <3>4, <4>1 DEF Locks
    <3>5. CASE strategy = "Atomic"
      BY <1>0, <2>2, <3>5 DEF LockForCopying, Locks
    <3>. QED  BY <1>0, <3>3, <3>4, <3>5 DEF LTypeOK, Strategy
  <2>3. CASE CopyEntry(r)
    <3>1. UNCHANGED <<map_vars, r_pc>>
      BY <2>3 DEF CopyEntry
    <3>. QED  BY <1>0, <1>5, <3>1 DEF Locks
  <2>4. CASE FinishCopy(r)
    <3>1. /\ Move(r, "sort") /\ sharing' = sharing \ {r}
          /\ owner' = IF owner = r THEN NoOne ELSE owner
      BY <2>4 DEF FinishCopy
    <3>2. \A q \in Readers : q # r => (owner = q => owner' = q)
                                      /\ (q \in sharing => q \in sharing')
      BY <3>1
    <3>3. \A w \in Writers : owner = w => owner' = w
      BY <1>0, <3>1
    <3>. QED  BY <1>0, <1>4, <1>5, <3>1, <3>2, <3>3 DEF Locks
  <2>5. CASE SortAndTruncate(r)
    <3>1. Move(r, "done") /\ UNCHANGED map_vars
      BY <2>5 DEF SortAndTruncate
    <3>. QED  BY <1>0, <1>4, <1>5, <3>1 DEF Locks
  <2>. QED  BY <2>1, <2>2, <2>3, <2>4, <2>5 DEF TopN
<1>. QED  BY <1>1, <1>3, <1>6 DEF WriteInv

LEMMA WriteOthers ==
  ASSUME WriteInv, OthersUseMetrics \/ UNCHANGED lvars
  PROVE  WriteInv' /\ UNCHANGED <<strategy, counts, r_vars>>
<1>1. LTypeOK'
  BY TypeOthers DEF WriteInv
<1>2. /\ UNCHANGED <<strategy, busy, map_vars, write_ops, w_vars, r_vars, e_vars>>
      /\ metrics' # metrics => (metrics' = NoOne \/ (metrics' = Strangers /\ busy))
  BY DEF OthersUseMetrics, lvars, met_vars
<1>3. Locks' /\ Loaded'
  BY <1>2 DEF WriteInv, Locks, Loaded, map_vars, w_vars, r_vars
<1>4. Metrics'
  <2>1. NoOne \notin Writers /\ Strangers \notin Writers /\ Strangers # NoOne
    BY LeaderboardAssumption DEF Thread
  <2>. QED  BY <1>2, <2>1 DEF WriteInv, Metrics, w_vars
<1>5. NoEditLost' /\ OpsFollowEdits'
  <2>1. Counted' = Counted
    BY <1>2 DEF Counted
  <2>2. NoEditLost'
    BY <1>2, <2>1 DEF WriteInv, NoEditLost, map_vars, e_vars
  <2>3. OpsFollowEdits'
    BY <1>2 DEF WriteInv, OpsFollowEdits, w_vars, e_vars
  <2>. QED  BY <2>2, <2>3
<1>. QED  BY <1>1, <1>2, <1>3, <1>4, <1>5 DEF WriteInv, map_vars
---------------------------------------------------------------------------
(* What a query returns.                                                   *)

LEMMA EntryTypes ==
  ASSUME LTypeOK, NEW r \in Readers
  PROVE  /\ entries[r] \in Seq(Entry) /\ Len(entries[r]) \in Nat
         /\ \A i \in 1..Len(entries[r]) : /\ entries[r][i] \in Entry
                                          /\ entries[r][i].domain \in Domain
                                          /\ entries[r][i].count \in Nat
         /\ \A d \in Domain : before[r][d] \in Nat /\ counts[d] \in Nat
<1>1. entries[r] \in Seq(Entry)
  BY DEF LTypeOK
<1>2. \A i \in 1..Len(entries[r]) : entries[r][i] \in Entry
  BY <1>1
<1>3. \A e \in Entry : e.domain \in Domain /\ e.count \in Nat
  BY DEF Entry
<1>4. \A d \in Domain : before[r][d] \in Nat /\ counts[d] \in Nat
  BY DEF LTypeOK
<1>. QED  BY <1>1, <1>2, <1>3, <1>4

\* A reader that does not move: the counts may grow, under a lock they do not
\* while it copies.
LEMMA ReadsStay ==
  ASSUME LTypeOK, LTypeOK', NEW r \in Readers, Reads(r),
         \A d \in Domain : counts[d] <= counts'[d],
         r_pc[r] = "copy" /\ strategy # "Atomic" => counts' = counts,
         strategy' = strategy, r_pc'[r] = r_pc[r], seen'[r] = seen[r],
         entries'[r] = entries[r], before'[r] = before[r]
  PROVE  Reads(r)'
<1>0. \A d \in Domain : before[r][d] \in Nat /\ counts[d] \in Nat /\ counts'[d] \in Nat
  BY EntryTypes DEF LTypeOK
<1>1. \A i \in 1..Len(entries[r]) : entries[r][i].domain \in Domain
                                    /\ entries[r][i].count \in Nat
  BY EntryTypes
<1>2. Current(r) => Current(r)'
  BY <1>0, <1>1 DEF Current
<1>3. Counted' = Counted /\ Collected(r)' = Collected(r)
  BY DEF Counted, Collected
<1>4. \A d \in Domain : before'[r][d] <= counts'[d]
  BY <1>0 DEF Reads
<1>5. r_pc[r] = "copy" /\ strategy # "Atomic" => Exact(r)'
  BY DEF Reads, Exact
<1>. QED  BY <1>2, <1>3, <1>4, <1>5 DEF Reads

\* Under a lock the counts stand still while a reader copies them.
LEMMA HeldStill ==
  ASSUME WriteInv, NEW r \in Readers, r_pc[r] = "copy", strategy # "Atomic",
         NEW w \in Writers, Increment(w) \/ SkipOps(w)
  PROVE  counts' = counts
<1>0. LTypeOK /\ Locks /\ r # w /\ w # NoOne
  BY LeaderboardAssumption DEF WriteInv, Thread
<1>1. counts' # counts => w_pc[w] = "store"
  BY CountsWriter
<1>. SUFFICES ASSUME w_pc[w] = "store" PROVE FALSE
  BY <1>1
<1>2. owner = w
  BY <1>0 DEF Locks, Holding
<1>3. sharing = {}
  BY <1>0, <1>2 DEF LTypeOK
<1>. QED  BY <1>0, <1>2, <1>3 DEF Locks, LTypeOK, Strategy

LEMMA ReadsWriter ==
  ASSUME LInv, LTypeOK', NEW r \in Readers,
         NEW w \in Writers, Increment(w) \/ SkipOps(w)
  PROVE  Reads(r)'
<1>0. WriteInv /\ LTypeOK /\ Reads(r)
  BY DEF LInv, WriteInv
<1>1. UNCHANGED <<strategy, r_vars>>
  BY DEF Increment, Call, LockForWriting, LoadEntry, StoreEntry, TryMetrics, BumpOps,
         Unlock, SkipOps
<1>2. \A d \in Domain : counts[d] <= counts'[d]
  BY <1>0, CountsWriter
<1>3. r_pc[r] = "copy" /\ strategy # "Atomic" => counts' = counts
  BY <1>0, HeldStill
<1>. QED  BY <1>0, <1>1, <1>2, <1>3, ReadsStay DEF r_vars

\* The next entry is copied.
LEMMA ReadsCopy ==
  ASSUME LTypeOK, LTypeOK', NEW r \in Readers, Reads(r), CopyEntry(r)
  PROVE  Reads(r)'
<1>1. PICK d \in NextEntry(r) :
        /\ seen' = [seen EXCEPT ![r] = @ \cup {d}]
        /\ entries' = IF counts[d] = 0 THEN entries
                      ELSE [entries EXCEPT ![r] =
                              Append(@, [domain |-> d, count |-> counts[d]])]
  BY DEF CopyEntry
<1>2. /\ r_pc[r] = "copy" /\ r_pc' = r_pc /\ before' = before /\ counts' = counts
      /\ strategy' = strategy
  BY DEF CopyEntry, map_vars
<1>3. d \in Domain /\ seen'[r] = seen[r] \cup {d} /\ counts[d] \in Nat
      /\ before[r][d] \in Nat
  BY <1>1, NextIsCounted, EntryTypes DEF LTypeOK
<1>4. /\ Current(r) /\ (strategy # "Atomic" => Exact(r))
      /\ \A e \in Domain : before[r][e] <= counts[e]
      /\ \A e \in seen[r] : before[r][e] = 0 \/ e \in Collected(r)
  BY <1>2 DEF Reads
<1>5. CASE counts[d] = 0
  <2>1. entries' = entries
    BY <1>1, <1>5
  <2>2. before[r][d] = 0
    BY <1>3, <1>4, <1>5
  <2>3. Current(r)' /\ (strategy' # "Atomic" => Exact(r)') /\ Collected(r)' = Collected(r)
    BY <1>2, <1>4, <2>1 DEF Current, Exact, Collected
  <2>. QED  BY <1>2, <1>3, <1>4, <2>2, <2>3 DEF Reads
<1>6. CASE counts[d] # 0
  <2>. DEFINE s == entries[r]
              e == [domain |-> d, count |-> counts[d]]
  <2>1. s \in Seq(Entry) /\ Len(s) \in Nat
    BY EntryTypes
  <2>2. entries'[r] = Append(s, e)
    BY <1>1, <1>6 DEF LTypeOK
  <2>3. /\ Len(entries'[r]) = Len(s) + 1 /\ entries'[r][Len(s) + 1] = e
        /\ \A i \in 1..Len(s) : entries'[r][i] = s[i]
    BY <2>1, <2>2
  <2>4. e.domain = d /\ e.count = counts[d]
    OBVIOUS
  <2>5. \A i \in 1..(Len(s) + 1) : i \in 1..Len(s) \/ i = Len(s) + 1
    BY <2>1
  <2>. HIDE DEF e, s
  <2>6. Current(r)'
    <3>1. before[r][d] <= counts[d]
      BY <1>3, <1>4
    <3>2. ASSUME NEW i \in 1..(Len(s) + 1)
          PROVE  /\ before'[r][entries'[r][i].domain] <= entries'[r][i].count
                 /\ entries'[r][i].count <= counts'[entries'[r][i].domain]
      <4>1. CASE i = Len(s) + 1
        <5>1. entries'[r][i].domain = d /\ entries'[r][i].count = counts[d]
          BY <2>3, <2>4, <4>1
        <5>. QED  BY <1>2, <1>3, <3>1, <5>1
      <4>2. CASE i \in 1..Len(s)
        <5>1. entries'[r][i] = s[i]
          BY <2>3, <4>2
        <5>. QED  BY <1>2, <1>4, <4>2, <5>1 DEF Current, s
      <4>. QED  BY <2>5, <4>1, <4>2
    <3>. QED  BY <2>3, <3>2 DEF Current
  <2>7. strategy # "Atomic" => Exact(r)'
    BY <1>2, <1>4, <2>3, <2>4, <2>5 DEF Exact, s
  <2>8. Collected(r)' = Collected(r) \cup {d}
    <3>1. \A i \in 1..Len(s) : entries'[r][i].domain = s[i].domain
      BY <2>3
    <3>2. entries'[r][Len(s) + 1].domain = d /\ Len(s) + 1 \in 1..(Len(s) + 1)
      BY <2>1, <2>3, <2>4
    <3>3. 1..Len(s) \subseteq 1..(Len(s) + 1)
      BY <2>1
    <3>. QED  BY <2>3, <2>5, <3>1, <3>2, <3>3 DEF Collected, s
  <2>. QED  BY <1>2, <1>3, <1>4, <2>6, <2>7, <2>8 DEF Reads
<1>. QED  BY <1>5, <1>6

LEMMA ReadsReader ==
  ASSUME LInv, LTypeOK', NEW q \in Readers, NEW r \in Readers, TopN(r)
  PROVE  Reads(q)'
<1>0. LTypeOK /\ Reads(q) /\ Reads(r)
  BY DEF LInv, WriteInv
<1>1. UNCHANGED <<strategy, counts>>
  BY DEF TopN, Query, LockForCopying, CopyEntry, FinishCopy, SortAndTruncate, map_vars
<1>2. \A d \in Domain : counts[d] \in Nat /\ counts'[d] = counts[d]
  BY <1>0, <1>1 DEF LTypeOK
<1>3. CASE q # r
  <2>1. r_pc'[q] = r_pc[q] /\ seen'[q] = seen[q] /\ entries'[q] = entries[q]
        /\ before'[q] = before[q]
    BY <1>0, <1>3 DEF TopN, Query, LockForCopying, CopyEntry, FinishCopy,
       SortAndTruncate, Move, LTypeOK
  <2>. QED  BY <1>0, <1>1, <1>2, <2>1, ReadsStay
<1>4. CASE q = r
  <2>1. CASE Query(r)
    <3>1. /\ r_pc[r] = "idle" /\ r_pc'[r] \in {"copy", "lock"} /\ before'[r] = counts
          /\ UNCHANGED <<seen, entries>>
      BY <1>0, <2>1 DEF Query, Move, LTypeOK
    <3>2. entries'[r] = <<>> /\ seen'[r] = {}
      BY <1>0, <3>1 DEF Reads
    <3>3. Current(r)' /\ Exact(r)'
      BY <3>2 DEF Current, Exact
    <3>. QED  BY <1>1, <1>2, <1>4, <3>1, <3>2, <3>3 DEF Reads
  <2>2. CASE LockForCopying(r)
    <3>1. /\ r_pc[r] = "lock" /\ r_pc'[r] = "copy" /\ UNCHANGED <<seen, entries, before>>
      BY <1>0, <2>2 DEF LockForCopying, Move, LTypeOK
    <3>2. entries'[r] = <<>> /\ seen'[r] = {}
      BY <1>0, <3>1 DEF Reads
    <3>3. Current(r)' /\ Exact(r)'
      BY <3>2 DEF Current, Exact
    <3>. QED  BY <1>0, <1>1, <1>4, <3>1, <3>2, <3>3 DEF Reads
  <2>3. CASE CopyEntry(r)
    BY <1>0, <1>4, <2>3, ReadsCopy
  <2>4. CASE FinishCopy(r)
    <3>1. /\ r_pc[r] = "copy" /\ r_pc'[r] = "sort" /\ seen[r] = Counted
          /\ UNCHANGED <<seen, entries, before>>
      BY <1>0, <2>4 DEF FinishCopy, Move, LTypeOK
    <3>2. Current(r)' /\ Collected(r)' = Collected(r) /\ Counted' = Counted
      BY <1>0, <1>1, <3>1 DEF Reads, Current, Collected, Counted
    <3>. QED  BY <1>0, <1>1, <1>4, <3>1, <3>2 DEF Reads
  <2>5. CASE SortAndTruncate(r)
    <3>1. r_pc'[r] = "done" /\ UNCHANGED <<seen, before>>
      BY <1>0, <2>5 DEF SortAndTruncate, Move, LTypeOK
    <3>. QED  BY <1>0, <1>1, <1>4, <3>1 DEF Reads
  <2>. QED  BY <2>1, <2>2, <2>3, <2>4, <2>5 DEF TopN
<1>. QED  BY <1>3, <1>4

---------------------------------------------------------------------------
(* The steps of the leaderboard.                                           *)

LEMMA LInvInit == LInit => LInv
<1>. SUFFICES ASSUME LInit PROVE LInv
  OBVIOUS
<1>1. WriteInv
  BY WriteInit
<1>2. ASSUME NEW r \in Readers PROVE Reads(r)
  BY DEF LInit, Reads
<1>. QED  BY <1>1, <1>2 DEF LInv

LEMMA LInvWriter ==
  ASSUME LInv, NEW w \in Writers, Increment(w) \/ (busy /\ SkipOps(w))
  PROVE  LInv'
<1>1. WriteInv'
  BY WriteWriter DEF LInv
<1>2. Increment(w) \/ SkipOps(w)
  OBVIOUS
<1>3. \A r \in Readers : Reads(r)'
  BY <1>1, <1>2, ReadsWriter DEF WriteInv
<1>. QED  BY <1>1, <1>3 DEF LInv

LEMMA LInvReader ==
  ASSUME LInv, NEW r \in Readers, TopN(r) PROVE LInv'
<1>1. WriteInv'
  BY WriteReader DEF LInv
<1>2. \A q \in Readers : Reads(q)'
  BY <1>1, ReadsReader DEF WriteInv
<1>. QED  BY <1>1, <1>2 DEF LInv

LEMMA LInvOthers ==
  ASSUME LInv, OthersUseMetrics \/ UNCHANGED lvars PROVE LInv'
<1>1. WriteInv' /\ UNCHANGED <<strategy, counts, r_vars>>
  BY WriteOthers DEF LInv
<1>2. \A d \in Domain : counts[d] \in Nat /\ counts'[d] = counts[d]
  BY <1>1 DEF LInv, WriteInv, LTypeOK
<1>3. \A r \in Readers : Reads(r)'
  BY <1>1, <1>2, ReadsStay DEF LInv, WriteInv, r_vars
<1>. QED  BY <1>1, <1>3 DEF LInv

LEMMA LInvStep == LInv /\ [LNext]_lvars => LInv'
BY LInvWriter, LInvReader, LInvOthers DEF LNext, LDone
---------------------------------------------------------------------------
(* The benchmark: whose increments are done, whose times are kept.         *)

\* Increments of w that are in the counter, and those that are timed.
Counting == {"lock", "load", "store"}
DoneBy(w)  == calls[w] - (IF w_pc[w] \in Counting THEN 1 ELSE 0)
TimedBy(w) == calls[w] - (IF w_pc[w] = "idle" THEN 0 ELSE 1)

\* The increments that are in the counter, each with its writer and number.
DoneOps == {op \in Writers \X (1..MaxCalls) : op[2] <= DoneBy(op[1])}

BenchInv ==
  role = "benchmark" =>
    /\ busy
    /\ \A w \in Writers : /\ w_pc[w] # "idle" => calls[w] > 0 /\ w_domain[w] = key
                          /\ Len(lats[w]) = TimedBy(w)
    /\ edits[key] = Cardinality(DoneOps)
    /\ \A k \in 1..joined : Exited(JoinOrder[k])
    /\ Len(latencies) = joined * MaxCalls

BTypes ==
  /\ role \in {"leaderboard", "benchmark"}
  /\ lats \in [Writers -> Seq(Latency)]
  /\ joined \in 0..Cardinality(Writers)
  /\ latencies \in Seq(Latency)
  /\ role = "benchmark" => /\ write_ops = 0 /\ sharing = {}

BInv == LInv /\ BTypes /\ BenchInv

LEMMA KeyIsCounted == key \in Domain /\ key \in Counted
<1>1. KnownDomain[1] \in Known
  BY LeaderboardAssumption DEF Known
<1>. QED  BY <1>1 DEF key, Domain, Counted

LEMMA BInvInit == BInit => BInv
<1>. SUFFICES ASSUME BInit PROVE BInv
  OBVIOUS
<1>1. LInv
  BY LInvInit DEF BInit
<1>2. Cardinality(Writers) \in Nat /\ <<>> \in Seq(Latency) /\ Len(<<>>) = 0
  BY LeaderboardAssumption, FS_CardinalityType
<1>3. BTypes
  BY <1>2 DEF BTypes, BInit, LInit
<1>4. \A w \in Writers : DoneBy(w) = 0 /\ TimedBy(w) = 0
  BY DEF BInit, LInit, DoneBy, TimedBy, Counting
<1>5. DoneOps = {}
  BY <1>4, LeaderboardAssumption DEF DoneOps
<1>6. Cardinality(DoneOps) = 0 /\ edits[key] = 0
  BY <1>5, FS_EmptySet, KeyIsCounted DEF BInit, LInit
<1>7. BenchInv
  <2>1. joined = 0 /\ latencies = <<>> /\ 0 * MaxCalls = 0 /\ 1..joined = {}
    BY LeaderboardAssumption DEF BInit
  <2>2. \A w \in Writers : w_pc[w] = "idle" /\ lats[w] = <<>>
    BY DEF BInit, LInit
  <2>. QED  BY <1>2, <1>4, <1>6, <2>1, <2>2 DEF BenchInv, BInit
<1>. QED  BY <1>1, <1>3, <1>7 DEF BInv

\* An increment is added to those that are done when it is stored, no other step
\* changes which are.
LEMMA DoneAfter ==
  ASSUME BInv, role = "benchmark", NEW w \in Writers, BenchStep(w)
  PROVE  edits'[key] = Cardinality(DoneOps')
<1>0. /\ LTypeOK /\ edits[key] = Cardinality(DoneOps) /\ calls[w] \in 0..MaxCalls
      /\ w_pc[w] # "idle" => calls[w] > 0 /\ w_domain[w] = key
      /\ MaxCalls \in Nat /\ key \in Domain
  BY LeaderboardAssumption, KeyIsCounted DEF BInv, LInv, WriteInv, LTypeOK, BenchInv
<1>1. IsFiniteSet(DoneOps) /\ Cardinality(DoneOps) \in Nat
  <2>1. IsFiniteSet(Writers) /\ IsFiniteSet(1..MaxCalls)
    BY <1>0, LeaderboardAssumption, FS_Interval
  <2>2. IsFiniteSet(Writers \X (1..MaxCalls))
    BY <2>1, FS_Product
  <2>. QED  BY <2>2, FS_Subset, FS_CardinalityType DEF DoneOps
<1>2. CASE StoreEntry(w)
  <2>1. w_pc[w] = "store" /\ Goto(w, "ops") /\ edits' = [edits EXCEPT ![key] = @ + 1]
        /\ calls' = calls
    BY <1>0, <1>2 DEF StoreEntry
  <2>2. edits'[key] = edits[key] + 1
    BY <1>0, <2>1 DEF LTypeOK
  <2>3. DoneBy(w) = calls[w] - 1 /\ DoneBy(w)' = calls[w]
    BY <1>0, <2>1 DEF DoneBy, Counting, Goto, LTypeOK
  <2>4. \A v \in Writers : v # w => DoneBy(v)' = DoneBy(v)
    BY <1>0, <2>1 DEF DoneBy, Goto, LTypeOK
  <2>5. <<w, calls[w]>> \in Writers \X (1..MaxCalls) /\ <<w, calls[w]>> \notin DoneOps
    BY <1>0, <2>1, <2>3 DEF DoneOps
  <2>6. DoneOps' = DoneOps \cup {<<w, calls[w]>>}
    <3>1. \A v \in Writers : \A i \in 1..MaxCalls :
            i <= DoneBy(v)' <=> (i <= DoneBy(v) \/ (v = w /\ i = calls[w]))
      BY <1>0, <2>3, <2>4
    <3>2. DoneOps' = {op \in Writers \X (1..MaxCalls) : op[2] <= DoneBy(op[1])'}
      BY DEF DoneOps
    <3>3. \A op \in Writers \X (1..MaxCalls) :
            op \in DoneOps' <=> (op \in DoneOps \/ op = <<w, calls[w]>>)
      BY <3>1, <3>2 DEF DoneOps
    <3>4. DoneOps' \subseteq Writers \X (1..MaxCalls)
          /\ DoneOps \subseteq Writers \X (1..MaxCalls)
      BY <3>2 DEF DoneOps
    <3>. QED  BY <2>5, <3>3, <3>4
  <2>7. Cardinality(DoneOps') = Cardinality(DoneOps) + 1
    BY <1>1, <2>5, <2>6, FS_AddElement
  <2>. QED  BY <1>0, <2>2, <2>7
<1>3. CASE ~StoreEntry(w)
  <2>1. edits' = edits
    BY <1>3 DEF BenchStep, Call, LockForWriting, LoadEntry, Finish, SkipOps, Unlock, e_vars
  <2>2. \A v \in Writers : v # w => calls'[v] = calls[v] /\ w_pc'[v] = w_pc[v]
    BY <1>0, <1>3 DEF BenchStep, Call, LockForWriting, LoadEntry, Finish, SkipOps, Unlock,
       Goto, LTypeOK
  <2>3. DoneBy(w)' = DoneBy(w)
    <3>1. CASE Call(w)
      BY <1>0, <3>1 DEF Call, DoneBy, Counting, Goto, LTypeOK
    <3>2. CASE LockForWriting(w) \/ LoadEntry(w) \/ SkipOps(w) \/ Unlock(w)
      BY <1>0, <3>2 DEF LockForWriting, LoadEntry, SkipOps, Unlock, DoneBy, Counting, Goto,
         LTypeOK, AfterOps
    <3>. QED  BY <1>3, <3>1, <3>2 DEF BenchStep, Finish
  <2>4. \A v \in Writers : DoneBy(v)' = DoneBy(v)
    BY <2>2, <2>3 DEF DoneBy
  <2>5. DoneOps' = DoneOps
    BY <2>4 DEF DoneOps
  <2>. QED  BY <1>0, <2>1, <2>5
<1>. QED  BY <1>2, <1>3

\* A thread of the benchmark takes a step.
LEMMA BenchWriter ==
  ASSUME BInv, role = "benchmark", NEW w \in Writers, BenchStep(w)
  PROVE  BInv'
<1>0. /\ LInv /\ LTypeOK /\ BTypes /\ BenchInv /\ busy /\ calls[w] \in 0..MaxCalls
      /\ w_pc[w] # "idle" => calls[w] > 0 /\ w_domain[w] = key
      /\ MaxCalls \in Nat /\ Len(lats[w]) = TimedBy(w) /\ lats[w] \in Seq(Latency)
      /\ \A k \in 1..joined : Exited(JoinOrder[k])
  BY LeaderboardAssumption DEF BInv, LInv, WriteInv, LTypeOK, BTypes, BenchInv
<1>1. Increment(w) \/ (busy /\ SkipOps(w))
  BY <1>0 DEF BenchStep, Finish, Increment
<1>2. LInv'
  BY <1>0, <1>1, LInvWriter
<1>3. /\ UNCHANGED <<role, joined, latencies, busy, write_ops, sharing>>
  BY DEF BenchStep, Finish, Call, LockForWriting, LoadEntry, StoreEntry, SkipOps, Unlock,
       map_vars, met_vars
<1>4. /\ \A v \in Writers : v # w => /\ w_pc'[v] = w_pc[v] /\ calls'[v] = calls[v]
                                     /\ w_domain'[v] = w_domain[v] /\ lats'[v] = lats[v]
      /\ lats' \in [Writers -> Seq(Latency)]
  <2>1. lats' = lats \/ \E t \in Latency : lats' = [lats EXCEPT ![w] = Append(@, t)]
    BY DEF BenchStep, Finish
  <2>2. \A v \in Writers : v # w => lats'[v] = lats[v]
    BY <1>0, <2>1 DEF BTypes
  <2>3. lats' \in [Writers -> Seq(Latency)]
    <3>1. ASSUME NEW t \in Latency, lats' = [lats EXCEPT ![w] = Append(@, t)]
          PROVE  lats' \in [Writers -> Seq(Latency)]
      <4>1. Append(lats[w], t) \in Seq(Latency)
        BY <1>0
      <4>. QED  BY <1>0, <3>1, <4>1 DEF BTypes
    <3>. QED  BY <1>0, <2>1, <3>1 DEF BTypes
  <2>4. \A v \in Writers : v # w => /\ w_pc'[v] = w_pc[v] /\ calls'[v] = calls[v]
                                    /\ w_domain'[v] = w_domain[v]
    BY <1>0 DEF BenchStep, Finish, Call, LockForWriting, LoadEntry, StoreEntry, SkipOps,
       Unlock, Goto, LTypeOK
  <2>. QED  BY <2>2, <2>3, <2>4
<1>5. /\ ~Exited(w)
      /\ w_pc'[w] # "idle" => calls'[w] > 0 /\ w_domain'[w] = key
      /\ Len(lats'[w]) = TimedBy(w)'
  <2>1. CASE Call(w) /\ w_domain'[w] = key /\ UNCHANGED lats
    <3>1. /\ w_pc[w] = "idle" /\ calls[w] < MaxCalls /\ calls'[w] = calls[w] + 1
          /\ w_pc'[w] # "idle"
      BY <1>0, <2>1 DEF Call, Goto, LTypeOK
    <3>. QED  BY <1>0, <2>1, <3>1 DEF TimedBy, Exited
  <2>2. CASE \/ LockForWriting(w) \/ LoadEntry(w) \/ StoreEntry(w)
             \/ strategy # "Atomic" /\ SkipOps(w)
    <3>1. /\ w_pc[w] # "idle" /\ w_pc'[w] # "idle" /\ calls' = calls
          /\ w_domain' = w_domain
      BY <1>0, <2>2 DEF LockForWriting, LoadEntry, StoreEntry, SkipOps, AfterOps, Goto,
         LTypeOK
    <3>2. CASE UNCHANGED lats
      BY <1>0, <3>1, <3>2 DEF TimedBy, Exited
    <3>3. CASE Finish(w)
      <4>1. FALSE
        BY <1>0, <2>2, <3>1, <3>3 DEF Finish, SkipOps, Unlock, LockForWriting, LoadEntry,
           StoreEntry, AfterOps, Goto, LTypeOK
      <4>. QED  BY <4>1
    <3>. QED  BY <2>2, <3>2, <3>3 DEF BenchStep
  <2>3. CASE Finish(w)
    <3>1. PICK t \in Latency : lats' = [lats EXCEPT ![w] = Append(@, t)]
      BY <2>3 DEF Finish
    <3>2. Len(lats'[w]) = Len(lats[w]) + 1
      BY <1>0, <3>1 DEF BTypes
    <3>3. w_pc[w] # "idle" /\ w_pc'[w] = "idle" /\ calls' = calls
      BY <1>0, <2>3 DEF Finish, SkipOps, Unlock, AfterOps, Goto, LTypeOK
    <3>. QED  BY <1>0, <3>2, <3>3 DEF TimedBy, Exited
  <2>. QED  BY <2>1, <2>2, <2>3 DEF BenchStep
<1>6. BTypes'
  BY <1>0, <1>3, <1>4 DEF BTypes
<1>7. \A k \in 1..joined : Exited(JoinOrder[k])'
  <2>. SUFFICES ASSUME NEW k \in 1..joined PROVE Exited(JoinOrder[k])'
    OBVIOUS
  <2>1. Exited(JoinOrder[k]) /\ JoinOrder[k] \in Writers
    <3>1. Cardinality(Writers) \in Nat
      BY LeaderboardAssumption, FS_CardinalityType
    <3>2. k \in 1..Cardinality(Writers)
      BY <1>0, <3>1 DEF BTypes
    <3>. QED  BY <1>0, <3>2, BenchAssumption
  <2>2. JoinOrder[k] # w
    BY <1>5, <2>1
  <2>. QED  BY <1>4, <2>1, <2>2 DEF Exited
<1>8. \A v \in Writers : /\ w_pc'[v] # "idle" => calls'[v] > 0 /\ w_domain'[v] = key
                         /\ Len(lats'[v]) = TimedBy(v)'
  <2>. SUFFICES ASSUME NEW v \in Writers, v # w
               PROVE  /\ w_pc'[v] # "idle" => calls'[v] > 0 /\ w_domain'[v] = key
                      /\ Len(lats'[v]) = TimedBy(v)'
    BY <1>5
  <2>1. TimedBy(v)' = TimedBy(v)
    BY <1>4 DEF TimedBy
  <2>. QED  BY <1>0, <1>4, <2>1, role = "benchmark" DEF BenchInv
<1>9. BenchInv'
  BY <1>0, <1>3, <1>7, <1>8, DoneAfter DEF BenchInv
<1>. QED  BY <1>2, <1>6, <1>9 DEF BInv

\* The next thread is joined.
LEMMA BenchJoin ==
  ASSUME BInv, role = "benchmark", Join
  PROVE  BInv'
<1>. DEFINE v == JoinOrder[joined + 1]
<1>0. LInv /\ BTypes /\ BenchInv /\ Cardinality(Writers) \in Nat /\ MaxCalls \in Nat
  BY LeaderboardAssumption, FS_CardinalityType DEF BInv
<1>1. /\ joined < Cardinality(Writers) /\ Exited(v) /\ joined' = joined + 1
      /\ latencies' = latencies \o lats[v] /\ UNCHANGED <<lvars, role, lats>>
  BY DEF Join
<1>2. joined \in Nat /\ v \in Writers
  <2>1. joined \in 0..Cardinality(Writers)
    BY <1>0 DEF BTypes
  <2>2. joined \in Nat /\ joined + 1 \in 1..Cardinality(Writers)
    BY <2>1, <1>0, <1>1
  <2>. QED  BY <2>2, BenchAssumption
<1>3. LInv'
  BY <1>0, <1>1, LInvOthers
<1>4. BTypes'
  <2>1. latencies' \in Seq(Latency) /\ joined' \in 0..Cardinality(Writers)
    BY <1>0, <1>1, <1>2 DEF BTypes
  <2>. QED  BY <1>0, <1>1, <2>1 DEF BTypes, lvars, met_vars, map_vars
<1>5. UNCHANGED <<busy, w_pc, calls, w_domain, edits>>
  BY <1>1 DEF lvars, w_vars, e_vars
<1>6. Len(latencies') = joined' * MaxCalls
  <2>1. Len(lats[v]) = MaxCalls
    BY <1>0, <1>1, <1>2, role = "benchmark" DEF BenchInv, TimedBy, Exited
  <2>2. Len(latencies') = Len(latencies) + Len(lats[v])
    BY <1>0, <1>1, <1>2 DEF BTypes
  <2>3. Len(latencies) = joined * MaxCalls
    BY <1>0, role = "benchmark" DEF BenchInv
  <2>4. (joined + 1) * MaxCalls = joined * MaxCalls + MaxCalls
    BY <1>0, <1>2
  <2>. QED  BY <1>1, <2>1, <2>2, <2>3, <2>4
<1>7. \A k \in 1..joined' : Exited(JoinOrder[k])'
  <2>. SUFFICES ASSUME NEW k \in 1..(joined + 1) PROVE Exited(JoinOrder[k])'
    BY <1>1
  <2>1. k \in 1..joined \/ k = joined + 1
    BY <1>2
  <2>2. Exited(JoinOrder[k])
    BY <1>0, <1>1, <2>1, role = "benchmark" DEF BenchInv
  <2>. QED  BY <1>5, <2>2 DEF Exited
<1>8. /\ \A w \in Writers : TimedBy(w)' = TimedBy(w)
      /\ DoneOps' = DoneOps
  BY <1>5 DEF TimedBy, DoneOps, DoneBy
<1>9. BenchInv'
  BY <1>0, <1>1, <1>5, <1>6, <1>7, <1>8 DEF BenchInv
<1>. QED  BY <1>3, <1>4, <1>9 DEF BInv

LEMMA BInvStep == BInv /\ [BNext]_bvars => BInv'
<1>. SUFFICES ASSUME BInv, [BNext]_bvars PROVE BInv'
  OBVIOUS
<1>1. CASE role = "leaderboard" /\ [LNext]_lvars /\ UNCHANGED <<role, bench_vars>>
  <2>1. LInv'
    BY <1>1, LInvStep DEF BInv
  <2>2. BTypes' /\ BenchInv'
    BY <1>1 DEF BInv, BTypes, BenchInv, bench_vars
  <2>. QED  BY <2>1, <2>2 DEF BInv
<1>2. CASE role = "benchmark" /\ \E w \in Writers : BenchStep(w)
  BY <1>2, BenchWriter
<1>3. CASE role = "benchmark" /\ Join
  BY <1>3, BenchJoin
<1>4. CASE UNCHANGED bvars
  <2>1. UNCHANGED <<lvars, role, bench_vars>>
    BY <1>4 DEF bvars
  <2>2. LInv'
    BY <2>1, LInvOthers DEF BInv
  <2>3. BTypes' /\ BenchInv'
    BY <2>1 DEF BInv, BTypes, BenchInv, bench_vars, lvars, map_vars, met_vars, w_vars, e_vars,
       TimedBy, DoneOps, DoneBy, Exited
  <2>. QED  BY <2>2, <2>3 DEF BInv
<1>. QED  BY <1>1, <1>2, <1>3, <1>4 DEF BNext, BDone, BTypes, BInv
---------------------------------------------------------------------------
(* The theorems.                                                           *)

LEMMA Invariant == BSpec => []BInv
BY BInvInit, BInvStep, PTL DEF BSpec

\* Types; and a writer and a reader never hold the map at once.
THEOREM BenchTypes == BSpec => []BTypeOK
<1>1. BInv => BTypeOK
  BY DEF BInv, LInv, WriteInv, BTypes, BTypeOK
<1>. QED  BY Invariant, <1>1, PTL

\* However many writers increment, no edit of a counted domain is lost.
THEOREM EveryEditCounts == BSpec => []NoEditLost
<1>1. BInv => NoEditLost
  BY DEF BInv, LInv, WriteInv
<1>. QED  BY Invariant, <1>1, PTL

\* write_ops is never ahead of the edits, and counts them all if nobody else
\* uses the metrics.
THEOREM OpsAreEdits == BSpec => []OpsFollowEdits
<1>1. BInv => OpsFollowEdits
  BY DEF BInv, LInv, WriteInv
<1>. QED  BY Invariant, <1>1, PTL

\* When all threads are joined every increment is in the counter, and timed.
THEOREM BenchIsComplete == BSpec => []BenchCountsEveryOp
<1>1. BInv => BenchCountsEveryOp
  <2>. SUFFICES ASSUME BInv, role = "benchmark", joined = Cardinality(Writers)
               PROVE  Len(latencies) = Total /\ counts[key] = Total
    BY DEF BenchCountsEveryOp
  <2>. DEFINE N == Cardinality(Writers)
  <2>1. IsFiniteSet(Writers) /\ N \in Nat /\ MaxCalls \in Nat
    BY LeaderboardAssumption, FS_CardinalityType
  <2>2. IsFiniteSet(1..N) /\ Cardinality(1..N) = N
    BY <2>1, FS_Interval
  <2>3. JoinOrder \in Injection(1..N, Writers)
    BY BenchAssumption DEF Injection, IsInjective
  <2>4. JoinOrder \in Surjection(1..N, Writers)
    BY <2>1, <2>2, <2>3, FS_Injection
  <2>5. \A w \in Writers : Exited(w)
    BY <2>4 DEF Surjection, BInv, BenchInv
  <2>6. DoneOps = Writers \X (1..MaxCalls)
    <3>1. \A w \in Writers : DoneBy(w) = MaxCalls
      BY <2>1, <2>5 DEF DoneBy, Exited, Counting
    <3>. QED  BY <2>1, <3>1 DEF DoneOps
  <2>7. IsFiniteSet(1..MaxCalls) /\ Cardinality(1..MaxCalls) = MaxCalls
    BY <2>1, FS_Interval
  <2>8. Cardinality(DoneOps) = N * MaxCalls
    BY <2>1, <2>6, <2>7, FS_Product
  <2>9. counts[key] = edits[key] /\ edits[key] = Cardinality(DoneOps)
    BY KeyIsCounted DEF BInv, LInv, WriteInv, NoEditLost, BenchInv
  <2>. QED  BY <2>8, <2>9 DEF BInv, BenchInv, Total
<1>. QED  BY Invariant, <1>1, PTL

\* The percentiles are samples of the right rank, for a window of any size.
THEOREM RanksAreRight == BSpec => []PercentileHasRank
<1>1. BInv => PercentileHasRank
  <2>. SUFFICES ASSUME BInv, latencies # <<>> PROVE PercentileHasRank
    BY DEF PercentileHasRank
  <2>. DEFINE n == Len(latencies)
              below(v) == {i \in 1..n : latencies[i] < v}
              upto(v)  == {i \in 1..n : latencies[i] <= v}
  <2>1. latencies \in Seq(Nat) /\ n \in Nat \ {0}
    <3>1. latencies \in Seq(Latency)
      BY DEF BInv, BTypes
    <3>2. \A i \in 1..n : latencies[i] \in Nat
      <4>1. \A i \in 1..n : latencies[i] \in Latency
        BY <3>1
      <4>2. Latency \subseteq Nat
        BY BenchAssumption
      <4>. QED  BY <4>1, <4>2
    <3>3. n \in Nat /\ latencies \in [1..n -> Nat]
      BY <3>1, <3>2
    <3>. QED  BY <3>1, <3>3
  <2>2. IsFiniteSet(1..n)
    BY <2>1, FS_Interval
  <2>3. \A v : Cardinality(below(v)) \in Nat /\ Cardinality(upto(v)) \in Nat
    <3>. SUFFICES ASSUME NEW v
                 PROVE  Cardinality(below(v)) \in Nat /\ Cardinality(upto(v)) \in Nat
      OBVIOUS
    <3>1. IsFiniteSet(below(v)) /\ IsFiniteSet(upto(v))
      BY <2>2, FS_Subset
    <3>. QED  BY <3>1, FS_CardinalityType
  <2>4. ASSUME NEW p \in {50, 90, 99}
        PROVE  LET v == Percentile(latencies, p)
               IN  /\ 100 * Cardinality(below(v)) <= p * (n - 1) + 50
                   /\ 100 * Cardinality(upto(v)) > p * (n - 1) + 50
    <3>. DEFINE k == PercentileIndex(p, n)
                v == NthSmallest(latencies, k)
                a == Cardinality(below(v))
                b == Cardinality(upto(v))
                x == p * (n - 1) + 50
    <3>1. k \in 0..(n - 1) /\ 100 * k <= x /\ 100 * (k + 1) > x
      <4>1. n \in Nat \ {0}
        BY <2>1
      <4>. HIDE DEF n
      <4>2. Rounded(p, n, PercentileIndex(p, n))
        BY <4>1, IndexIsRounded
      <4>. QED  BY <4>2 DEF Rounded
    <3>2. a <= k /\ b > k
      BY <2>1, <3>1, NthSmallestIs
    <3>3. a \in Nat /\ b \in Nat /\ x \in Int
      <4>1. a \in Nat /\ b \in Nat
        BY <2>3
      <4>2. p \in Nat /\ n - 1 \in Nat
        BY <2>1
      <4>. HIDE DEF n
      <4>3. p * (n - 1) \in Nat
        BY <4>2
      <4>. QED  BY <4>1, <4>3
    <3>4. Percentile(latencies, p) = v
      BY DEF Percentile
    <3>. HIDE DEF k, a, b, x
    <3>5. 100 * a <= x /\ 100 * b > x
      BY <3>1, <3>2, <3>3
    <3>. QED  BY <3>4, <3>5 DEF a, b, x
  <2>5. BenchIndex(n) - PercentileIndex(99, n) \in {0, 1}
    BY <2>1, IndexIsRounded
  <2>6. BenchP99(latencies) >= Percentile(latencies, 99)
    <3>. DEFINE k == PercentileIndex(99, n)
                l == BenchIndex(n)
    <3>1. k \in 0..(n - 1) /\ l \in 0..(n - 1) /\ l - k \in {0, 1}
      BY <2>1, IndexIsRounded DEF Rounded
    <3>. HIDE DEF k, l
    <3>2. l \in k..(n - 1) /\ l < n
      BY <2>1, <3>1
    <3>3. NthSmallest(latencies, k) <= NthSmallest(latencies, l)
      BY <2>1, <3>1, <3>2, NthSmallestAscends
    <3>4. NthSmallest(latencies, k) \in Nat /\ NthSmallest(latencies, l) \in Nat
      BY <2>1, <3>1, NthSmallestIs
    <3>5. Percentile(latencies, 99) = NthSmallest(latencies, k)
      BY DEF Percentile, k
    <3>6. BenchP99(latencies) = NthSmallest(latencies, l)
      BY <3>2 DEF BenchP99, l
    <3>. QED  BY <3>3, <3>4, <3>5, <3>6
  <2>. QED  BY <2>4, <2>5, <2>6 DEF PercentileHasRank
<1>. QED  BY Invariant, <1>1, PTL
---------------------------------------------------------------------------
(* The promise.                                                            *)

\* What a query has copied: it has passed the domains it has collected, each
\* once, and under a lock those it has left out still have no edits.
Copies(r) ==
  r_pc[r] = "copy" =>
    /\ Collected(r) \subseteq seen[r]
    /\ \A i, j \in 1..Len(entries[r]) :
         entries[r][i].domain = entries[r][j].domain => i = j
    /\ \A i \in 1..Len(entries[r]) : entries[r][i].count > 0
    /\ strategy # "Atomic" => \A d \in seen[r] \ Collected(r) : counts[d] = 0
Copying == \A r \in Readers : Copies(r)

\* The next entry is of a domain not yet passed.
LEMMA CopiesCopy ==
  ASSUME LTypeOK, LTypeOK', NEW r \in Readers, Copies(r), CopyEntry(r)
  PROVE  Copies(r)'
<1>1. PICK d \in NextEntry(r) :
        /\ seen' = [seen EXCEPT ![r] = @ \cup {d}]
        /\ entries' = IF counts[d] = 0 THEN entries
                      ELSE [entries EXCEPT ![r] =
                              Append(@, [domain |-> d, count |-> counts[d]])]
  BY DEF CopyEntry
<1>2. r_pc[r] = "copy" /\ r_pc' = r_pc /\ counts' = counts /\ strategy' = strategy
  BY DEF CopyEntry, map_vars
<1>3. d \in Domain /\ d \notin seen[r] /\ seen'[r] = seen[r] \cup {d} /\ counts[d] \in Nat
  BY <1>1, NextIsCounted, EntryTypes DEF LTypeOK
<1>. DEFINE s == entries[r]
            e == [domain |-> d, count |-> counts[d]]
<1>4. /\ Collected(r) \subseteq seen[r]
      /\ \A i, j \in 1..Len(s) : s[i].domain = s[j].domain => i = j
      /\ \A i \in 1..Len(s) : s[i].count > 0
      /\ strategy # "Atomic" => \A c \in seen[r] \ Collected(r) : counts[c] = 0
  BY <1>2 DEF Copies
<1>5. CASE counts[d] = 0
  <2>1. entries' = entries /\ Collected(r)' = Collected(r)
    BY <1>1, <1>5 DEF Collected
  <2>. QED  BY <1>2, <1>3, <1>4, <1>5, <2>1 DEF Copies
<1>6. CASE counts[d] # 0
  <2>1. s \in Seq(Entry) /\ Len(s) \in Nat
    BY EntryTypes
  <2>2. entries'[r] = Append(s, e)
    BY <1>1, <1>6 DEF LTypeOK
  <2>3. /\ Len(entries'[r]) = Len(s) + 1 /\ entries'[r][Len(s) + 1] = e
        /\ \A i \in 1..Len(s) : entries'[r][i] = s[i]
    BY <2>1, <2>2
  <2>4. e.domain = d /\ e.count = counts[d]
    OBVIOUS
  <2>5. \A i \in 1..(Len(s) + 1) : i \in 1..Len(s) \/ i = Len(s) + 1
    BY <2>1
  <2>. HIDE DEF e
  <2>6. \A i \in 1..Len(s) : s[i].domain \in seen[r]
    BY <1>4 DEF Collected
  <2>. HIDE DEF s
  <2>7. Collected(r)' = Collected(r) \cup {d}
    <3>1. \A i \in 1..Len(s) : entries'[r][i].domain = s[i].domain
      BY <2>3
    <3>2. entries'[r][Len(s) + 1].domain = d /\ Len(s) + 1 \in 1..(Len(s) + 1)
      BY <2>1, <2>3, <2>4
    <3>3. 1..Len(s) \subseteq 1..(Len(s) + 1)
      BY <2>1
    <3>. QED  BY <2>3, <2>5, <3>1, <3>2, <3>3 DEF Collected, s
  <2>8. \A i, j \in 1..(Len(s) + 1) :
          entries'[r][i].domain = entries'[r][j].domain => i = j
    BY <1>3, <1>4, <2>3, <2>4, <2>5, <2>6
  <2>9. \A i \in 1..(Len(s) + 1) : entries'[r][i].count > 0
    BY <1>3, <1>4, <1>6, <2>3, <2>4, <2>5
  <2>. QED  BY <1>2, <1>3, <1>4, <2>3, <2>7, <2>8, <2>9 DEF Copies
<1>. QED  BY <1>5, <1>6

\* A reader that does not move.
LEMMA CopiesStay ==
  ASSUME NEW r \in Readers, Copies(r), strategy' = strategy, r_pc'[r] = r_pc[r],
         seen'[r] = seen[r], entries'[r] = entries[r],
         r_pc[r] = "copy" /\ strategy # "Atomic" => counts' = counts
  PROVE  Copies(r)'
BY DEF Copies, Collected

LEMMA CopiesReader ==
  ASSUME LInv, LInv', NEW q \in Readers, Copies(q), NEW r \in Readers, TopN(r)
  PROVE  Copies(q)'
<1>0. LTypeOK /\ LTypeOK' /\ Reads(r)
  BY DEF LInv, WriteInv
<1>1. UNCHANGED <<strategy, counts>>
  BY DEF TopN, Query, LockForCopying, CopyEntry, FinishCopy, SortAndTruncate, map_vars
<1>2. CASE q # r
  <2>1. r_pc'[q] = r_pc[q] /\ seen'[q] = seen[q] /\ entries'[q] = entries[q]
    BY <1>0, <1>2 DEF TopN, Query, LockForCopying, CopyEntry, FinishCopy,
       SortAndTruncate, Move, LTypeOK
  <2>. QED  BY <1>1, <2>1, CopiesStay
<1>3. CASE q = r /\ CopyEntry(r)
  BY <1>0, <1>3, CopiesCopy
<1>4. CASE q = r /\ (Query(r) \/ LockForCopying(r))
  <2>1. r_pc[r] \in {"idle", "lock"} /\ UNCHANGED <<seen, entries>>
    BY <1>4 DEF Query, LockForCopying
  <2>2. entries'[r] = <<>> /\ seen'[r] = {}
    BY <1>0, <2>1 DEF Reads
  <2>3. Len(entries'[r]) = 0 /\ Collected(r)' = {}
    BY <2>2 DEF Collected
  <2>. QED  BY <1>4, <2>2, <2>3 DEF Copies
<1>5. CASE q = r /\ (FinishCopy(r) \/ SortAndTruncate(r))
  BY <1>0, <1>5 DEF FinishCopy, SortAndTruncate, Move, LTypeOK, Copies
<1>. QED  BY <1>2, <1>3, <1>4, <1>5 DEF TopN

LEMMA CopiesWriter ==
  ASSUME LInv, NEW r \in Readers, Copies(r), NEW w \in Writers, Increment(w) \/ SkipOps(w)
  PROVE  Copies(r)'
<1>1. UNCHANGED <<strategy, r_vars>>
  BY DEF Increment, Call, LockForWriting, LoadEntry, StoreEntry, TryMetrics, BumpOps,
         Unlock, SkipOps
<1>2. r_pc[r] = "copy" /\ strategy # "Atomic" => counts' = counts
  BY HeldStill DEF LInv
<1>. QED  BY <1>1, <1>2, CopiesStay DEF r_vars

LEMMA CopiesOthers ==
  ASSUME LInv, NEW r \in Readers, Copies(r), OthersUseMetrics \/ UNCHANGED lvars
  PROVE  Copies(r)'
<1>1. UNCHANGED <<strategy, counts, r_vars>>
  BY WriteOthers DEF LInv
<1>. QED  BY <1>1, CopiesStay DEF r_vars

\* A step of the benchmark or of the leaderboard is one of these.
LEMMA StepsAre ==
  ASSUME BInv, [BNext]_bvars
  PROVE  \/ \E w \in Writers : Increment(w) \/ SkipOps(w)
         \/ \E r \in Readers : TopN(r)
         \/ OthersUseMetrics \/ UNCHANGED lvars
BY DEF BNext, BDone, LNext, LDone, BenchStep, Finish, Join, Increment, bvars

LEMMA CopyingStep == BInv /\ BInv' /\ Copying /\ [BNext]_bvars => Copying'
<1>. SUFFICES ASSUME BInv, BInv', Copying, [BNext]_bvars, NEW r \in Readers
             PROVE  Copies(r)'
  BY DEF Copying
<1>1. LInv /\ LInv' /\ Copies(r)
  BY DEF BInv, Copying
<1>. QED  BY <1>1, StepsAre, CopiesWriter, CopiesReader, CopiesOthers

LEMMA CopyInvariant == BSpec => [](BInv /\ Copying)
<1>1. BInit => Copying
  BY DEF BInit, LInit, Copying, Copies
<1>. QED  BY <1>1, BInvInit, BInvStep, CopyingStep, PTL DEF BSpec

\* Sorted and cut off, what was copied is the head of the counts.
LEMMA TopIsTop ==
  ASSUME NEW s \in Seq(Entry), NEW low \in [Domain -> Nat], NEW high,
         \A i, j \in 1..Len(s) : s[i].domain = s[j].domain => i = j,
         \A i \in 1..Len(s) :
           /\ s[i].domain \in Counted /\ s[i].count > 0
           /\ low[s[i].domain] <= s[i].count /\ s[i].count <= high[s[i].domain],
         \A d \in Counted : low[d] = 0 \/ \E i \in 1..Len(s) : s[i].domain = d
  PROVE  Promised!IsTop(Top(s), low, high)
<1>. DEFINE n == Len(s)
            t == Sorted(s)
            m == IF n < TopSize THEN n ELSE TopSize
            a == Top(s)
<1>1. n \in Nat /\ \A i \in 1..n : s[i].domain \in Domain /\ s[i].count \in Nat
  <2>1. n \in Nat /\ \A i \in 1..n : s[i] \in Entry
    OBVIOUS
  <2>2. \A e \in Entry : e.domain \in Domain /\ e.count \in Nat
    BY DEF Entry
  <2>. QED  BY <2>1, <2>2
<1>2. /\ t \in Seq(Entry) /\ Len(t) = n
      /\ \A k \in 1..n : \E i \in 1..n : t[k] = s[i]
      /\ \A i \in 1..n : \E k \in 1..n : t[k] = s[i]
      /\ \A k, l \in 1..n : k <= l => t[k].count >= t[l].count
      /\ \A k, l \in 1..n : t[k].domain = t[l].domain => k = l
  BY SortedDescends
<1>3. m \in 0..n /\ (m < TopSize => m = n) /\ TopSize \in Nat /\ m <= TopSize
  BY <1>1, LeaderboardAssumption
<1>4. a = SubSeq(t, 1, m)
  BY DEF Top
<1>. HIDE DEF a, t, m
<1>5. Len(a) = m /\ \A k \in 1..m : a[k] = t[k] /\ k \in 1..n
  BY <1>1, <1>2, <1>3, <1>4
<1>6. ASSUME NEW k \in 1..m PROVE \E i \in 1..n : a[k] = s[i]
  <2>1. a[k] = t[k] /\ k \in 1..n
    BY <1>5
  <2>2. \E i \in 1..n : t[k] = s[i]
    BY <1>2, <2>1
  <2>. QED  BY <2>1, <2>2
<1>7. \A k \in 1..m : /\ a[k].domain \in Counted /\ a[k].count > 0 /\ a[k].count \in Nat
                      /\ low[a[k].domain] <= a[k].count
                      /\ a[k].count <= high[a[k].domain]
  BY <1>1, <1>6
<1>8. \A i, j \in 1..m : i < j => a[i].domain # a[j].domain /\ a[i].count >= a[j].count
  <2>. SUFFICES ASSUME NEW i \in 1..m, NEW j \in 1..m, i < j
               PROVE  a[i].domain # a[j].domain /\ a[i].count >= a[j].count
    OBVIOUS
  <2>1. i \in 1..n /\ j \in 1..n /\ a[i] = t[i] /\ a[j] = t[j] /\ i # j /\ i <= j
    BY <1>3, <1>5
  <2>. QED  BY <1>2, <2>1
<1>9. ASSUME NEW d \in Counted, \A k \in 1..m : a[k].domain # d, low[d] # 0
      PROVE  m = TopSize /\ \A i \in 1..m : low[d] <= a[i].count
  <2>1. PICK i \in 1..n : s[i].domain = d
    BY <1>9
  <2>2. PICK k \in 1..n : t[k] = s[i]
    BY <1>2
  <2>3. k \notin 1..m
    BY <1>5, <1>9, <2>1, <2>2
  <2>4. m < k /\ ~(m < TopSize)
    BY <1>1, <1>3, <2>3
  <2>5. m = TopSize
    BY <1>1, <1>3, <2>4
  <2>6. ASSUME NEW j \in 1..m PROVE low[d] <= a[j].count
    <3>1. j \in 1..n /\ j <= k /\ a[j] = t[j]
      BY <1>3, <1>5, <2>4
    <3>2. a[j].count >= s[i].count
      BY <1>2, <2>2, <3>1
    <3>3. low[d] <= s[i].count /\ d \in Domain
      BY <1>1, <2>1
    <3>4. low[d] \in Nat /\ s[i].count \in Nat /\ a[j].count \in Nat
      BY <1>1, <1>7, <3>3
    <3>. QED  BY <3>2, <3>3, <3>4
  <2>. QED  BY <2>5, <2>6
<1>10. \A d \in Counted \ Promised!Listed(a) :
         \/ low[d] = 0
         \/ m = TopSize /\ \A i \in 1..m : low[d] <= a[i].count
  <2>. SUFFICES ASSUME NEW d \in Counted, d \notin Promised!Listed(a), low[d] # 0
               PROVE  m = TopSize /\ \A i \in 1..m : low[d] <= a[i].count
    OBVIOUS
  <2>1. \A k \in 1..m : a[k].domain # d
    BY <1>5 DEF Promised!Listed
  <2>. QED  BY <1>9, <2>1
<1>11. Promised!IsTop(a, low, high)
  BY <1>3, <1>5, <1>7, <1>8, <1>10 DEF Promised!IsTop
<1>. QED  BY <1>11 DEF a

\* What the promise sees of a step that moves no reader, and of one that does.
LEMMA PromisedStill ==
  ASSUME UNCHANGED <<strategy, r_vars>>
  PROVE  /\ Counted' = Counted /\ (strategy # "Atomic")' = (strategy # "Atomic")
         /\ [r \in Readers |-> Phase(r)]' = [r \in Readers |-> Phase(r)]
         /\ [r \in Readers |-> AnswerOf(r)]' = [r \in Readers |-> AnswerOf(r)]
         /\ before' = before
<1>1. UNCHANGED <<strategy, r_pc, entries, before>>
  BY DEF r_vars
<1>2. \A r \in Readers : Phase(r)' = Phase(r) /\ AnswerOf(r)' = AnswerOf(r)
  BY <1>1 DEF Phase, AnswerOf
<1>. QED  BY <1>1, <1>2 DEF Counted

LEMMA PromisedMoves ==
  ASSUME LTypeOK, NEW r \in Readers, TopN(r)
  PROVE  /\ Counted' = Counted /\ (strategy # "Atomic")' = (strategy # "Atomic")
         /\ counts' = counts
         /\ [q \in Readers |-> Phase(q)]' =
              [[q \in Readers |-> Phase(q)] EXCEPT ![r] = Phase(r)']
         /\ [q \in Readers |-> AnswerOf(q)]' =
              [[q \in Readers |-> AnswerOf(q)] EXCEPT ![r] = AnswerOf(r)']
<1>1. UNCHANGED <<strategy, counts>>
  BY DEF TopN, Query, LockForCopying, CopyEntry, FinishCopy, SortAndTruncate, map_vars
<1>2. \A q \in Readers : q # r => r_pc'[q] = r_pc[q] /\ entries'[q] = entries[q]
  BY DEF TopN, Query, LockForCopying, CopyEntry, FinishCopy, SortAndTruncate, Move, LTypeOK
<1>3. \A q \in Readers : q # r => Phase(q)' = Phase(q) /\ AnswerOf(q)' = AnswerOf(q)
  BY <1>2 DEF Phase, AnswerOf
<1>. QED  BY <1>1, <1>3 DEF Counted

LEMMA WriterSimulates ==
  ASSUME LInv, NEW w \in Writers, Increment(w) \/ SkipOps(w)
  PROVE  [Promised!Next]_Promised!vars
<1>1. UNCHANGED <<strategy, r_vars>>
  BY DEF Increment, Call, LockForWriting, LoadEntry, StoreEntry, TryMetrics, BumpOps,
         Unlock, SkipOps
<1>2. \/ counts' = counts
      \/ \E d \in Counted : counts' = [counts EXCEPT ![d] = @ + 1]
  BY CountsWriter DEF LInv
<1>3. CASE counts' = counts
  BY <1>1, <1>3, PromisedStill DEF Promised!vars
<1>4. CASE \E d \in Counted : counts' = [counts EXCEPT ![d] = @ + 1]
  <2>1. Promised!Count
    BY <1>1, <1>4, PromisedStill DEF Promised!Count
  <2>. QED  BY <2>1 DEF Promised!Next
<1>. QED  BY <1>2, <1>3, <1>4

\* What has been copied when the lock goes is the answer.
LEMMA AnswerIsTop ==
  ASSUME LInv, NEW r \in Readers, Copies(r), r_pc[r] = "copy", seen[r] = Counted
  PROVE  Promised!IsTop(Top(entries[r]),
                        IF strategy # "Atomic" THEN counts ELSE before[r], counts)
<1>. DEFINE s == entries[r]
            low == IF strategy # "Atomic" THEN counts ELSE before[r]
<1>1. /\ LTypeOK /\ Current(r) /\ (strategy # "Atomic" => Exact(r))
      /\ \A d \in seen[r] : before[r][d] = 0 \/ d \in Collected(r)
  BY DEF LInv, WriteInv, Reads
<1>2. /\ Collected(r) \subseteq Counted
      /\ \A i, j \in 1..Len(s) : s[i].domain = s[j].domain => i = j
      /\ \A i \in 1..Len(s) : s[i].count > 0
      /\ strategy # "Atomic" => \A d \in Counted \ Collected(r) : counts[d] = 0
  BY DEF Copies
<1>3. /\ s \in Seq(Entry)
      /\ \A i \in 1..Len(s) : s[i].domain \in Domain /\ s[i].count \in Nat
      /\ \A d \in Domain : before[r][d] \in Nat /\ counts[d] \in Nat
  BY <1>1, EntryTypes
<1>4. low \in [Domain -> Nat]
  BY <1>1 DEF LTypeOK
<1>5. \A d \in Counted : low[d] = 0 \/ \E i \in 1..Len(s) : s[i].domain = d
  BY <1>1, <1>2 DEF Collected
<1>6. ASSUME NEW i \in 1..Len(s)
      PROVE  /\ s[i].domain \in Counted /\ s[i].count > 0
             /\ low[s[i].domain] <= s[i].count /\ s[i].count <= counts[s[i].domain]
  <2>1. s[i].domain \in Counted
    BY <1>2 DEF Collected
  <2>2. before[r][s[i].domain] <= s[i].count /\ s[i].count <= counts[s[i].domain]
    BY <1>1 DEF Current
  <2>3. strategy # "Atomic" => s[i].count = counts[s[i].domain]
    BY <1>1 DEF Exact
  <2>4. s[i].count \in Nat /\ counts[s[i].domain] \in Nat
    BY <1>3
  <2>. QED  BY <1>2, <2>1, <2>2, <2>3, <2>4
<1>. HIDE DEF s, low
<1>7. Promised!IsTop(Top(s), low, counts)
  BY <1>2, <1>3, <1>4, <1>5, <1>6, TopIsTop
<1>. QED  BY <1>7 DEF s, low

LEMMA ReaderSimulates ==
  ASSUME LInv, NEW r \in Readers, Copies(r), TopN(r)
  PROVE  [Promised!Next]_Promised!vars
<1>. DEFINE phase == [q \in Readers |-> Phase(q)]
            answer == [q \in Readers |-> AnswerOf(q)]
<1>0. LTypeOK
  BY DEF LInv, WriteInv
<1>1. /\ Counted' = Counted /\ (strategy # "Atomic")' = (strategy # "Atomic")
      /\ counts' = counts
      /\ phase' = [phase EXCEPT ![r] = Phase(r)']
      /\ answer' = [answer EXCEPT ![r] = AnswerOf(r)']
  BY <1>0, PromisedMoves
<1>2. /\ phase[r] = Phase(r) /\ answer[r] = AnswerOf(r) /\ answer'[r] = AnswerOf(r)'
      /\ (Phase(r)' = Phase(r) => phase' = phase)
      /\ (AnswerOf(r)' = AnswerOf(r) => answer' = answer)
  BY <1>1
<1>3. CASE Query(r)
  <2>1. /\ r_pc[r] = "idle" /\ r_pc'[r] \in {"copy", "lock"}
        /\ before' = [before EXCEPT ![r] = counts]
    BY <1>0, <1>3 DEF Query, Move, LTypeOK
  <2>2. Phase(r) = "idle" /\ Phase(r)' = "asked" /\ AnswerOf(r)' = AnswerOf(r)
    BY <2>1 DEF Phase, AnswerOf
  <2>3. Promised!Ask(r)
    BY <1>1, <1>2, <2>1, <2>2 DEF Promised!Ask
  <2>. QED  BY <2>3 DEF Promised!Next
<1>4. CASE LockForCopying(r) \/ CopyEntry(r)
  <2>1. r_pc[r] \in {"lock", "copy"} /\ r_pc'[r] = "copy" /\ before' = before
    BY <1>0, <1>4 DEF LockForCopying, CopyEntry, Move, LTypeOK
  <2>2. Phase(r)' = Phase(r) /\ AnswerOf(r)' = AnswerOf(r)
    BY <2>1 DEF Phase, AnswerOf
  <2>. QED  BY <1>1, <1>2, <2>1, <2>2 DEF Promised!vars
<1>5. CASE FinishCopy(r)
  <2>1. /\ r_pc[r] = "copy" /\ r_pc'[r] = "sort" /\ seen[r] = Counted
        /\ UNCHANGED <<entries, before>>
    BY <1>0, <1>5 DEF FinishCopy, Move, LTypeOK
  <2>2. Phase(r) = "asked" /\ Phase(r)' = "answered" /\ AnswerOf(r)' = Top(entries[r])
    BY <2>1 DEF Phase, AnswerOf
  <2>3. Promised!IsTop(Top(entries[r]),
                       IF strategy # "Atomic" THEN counts ELSE before[r], counts)
    BY <2>1, AnswerIsTop
  <2>4. Promised!Answer(r)
    BY <1>1, <1>2, <2>1, <2>2, <2>3 DEF Promised!Answer
  <2>. QED  BY <2>4 DEF Promised!Next
<1>6. CASE SortAndTruncate(r)
  <2>1. /\ r_pc[r] = "sort" /\ r_pc'[r] = "done" /\ before' = before
        /\ entries'[r] = Top(entries[r])
    BY <1>0, <1>6 DEF SortAndTruncate, Move, LTypeOK
  <2>2. Phase(r)' = Phase(r) /\ AnswerOf(r)' = AnswerOf(r)
    BY <2>1 DEF Phase, AnswerOf
  <2>. QED  BY <1>1, <1>2, <2>1, <2>2 DEF Promised!vars
<1>. QED  BY <1>3, <1>4, <1>5, <1>6 DEF TopN

LEMMA PromisedInit == BInit => Promised!Init
<1>. SUFFICES ASSUME BInit PROVE Promised!Init
  OBVIOUS
<1>1. \A r \in Readers : Phase(r) = "idle" /\ AnswerOf(r) = <<>>
  BY DEF BInit, LInit, Phase, AnswerOf
<1>2. \A d \in Counted : counts[d] = 0
  BY DEF BInit, LInit, Counted, Domain
<1>. QED  BY <1>1, <1>2 DEF Promised!Init

\* The leaderboard, its lock or its ten loads, its copying and its sorting, does
\* what the abstract one does: an increment is one step, a query under a lock too.
THEOREM LeaderboardKeepsPromise == BSpec => KeepsPromise
<1>1. BInv /\ Copying /\ [BNext]_bvars => [Promised!Next]_Promised!vars
  <2>. SUFFICES ASSUME BInv, Copying, [BNext]_bvars PROVE [Promised!Next]_Promised!vars
    OBVIOUS
  <2>1. LInv
    BY DEF BInv
  <2>2. CASE OthersUseMetrics \/ UNCHANGED lvars
    <3>1. UNCHANGED <<strategy, counts, r_vars>>
      BY <2>1, <2>2, WriteOthers DEF LInv
    <3>. QED  BY <3>1, PromisedStill DEF Promised!vars
  <2>. QED  BY <2>1, <2>2, StepsAre, WriterSimulates, ReaderSimulates DEF Copying
<1>. QED  BY CopyInvariant, PromisedInit, <1>1, PTL DEF BSpec, KeepsPromise, Promised!Spec
=============================================================================
