------------------------- MODULE SseFraming_proofs -------------------------
(***************************************************************************)
(* Theorems about SseFraming, for any set of events and any number of      *)
(* blocks: whatever the chunks, the events of the blocks that have arrived *)
(* are delivered, once and in order, the buffer stays short, and the       *)
(* three parsers agree on every one of them.                               *)
(***************************************************************************)
EXTENDS SseFraming, FiniteSetTheorems, TLAPS

\* A finite set of numbers that is not empty has a first element: counting the
\* elements up to each one is a permutation, so one is alone up to itself.
LEMMA FirstIs ==
  ASSUME NEW S, S \subseteq Nat, IsFiniteSet(S), S # {}
  PROVE  First(S) \in S /\ \A j \in S : First(S) <= j
<1>. DEFINE Upto(x) == {y \in S : y <= x}
            N == Cardinality(S)
            rank == [x \in S |-> Cardinality(Upto(x))]
<1>1. N \in Nat /\ N # 0 /\ IsFiniteSet(1..N) /\ Cardinality(1..N) = N
  <2>1. N \in Nat /\ N # 0
    BY FS_CardinalityType, FS_EmptySet
  <2>. QED  BY <2>1, FS_Interval
<1>2. \A x \in S : IsFiniteSet(Upto(x)) /\ rank[x] \in 1..N /\ x \in Upto(x)
  <2>. SUFFICES ASSUME NEW x \in S
               PROVE  IsFiniteSet(Upto(x)) /\ rank[x] \in 1..N /\ x \in Upto(x)
    OBVIOUS
  <2>1. IsFiniteSet(Upto(x)) /\ Cardinality(Upto(x)) <= N
    BY FS_Subset
  <2>2. x \in Upto(x)
    OBVIOUS
  <2>3. Cardinality(Upto(x)) \in Nat /\ Cardinality(Upto(x)) # 0
    BY <2>1, <2>2, FS_CardinalityType, FS_EmptySet
  <2>. QED  BY <1>1, <2>1, <2>2, <2>3
<1>3. ASSUME NEW x \in S, NEW y \in S, x < y PROVE rank[x] # rank[y]
  <2>1. Upto(x) \in SUBSET Upto(y) /\ y \in Upto(y) /\ y \notin Upto(x)
    <3>1. \A z \in S : z \in Nat
      OBVIOUS
    <3>2. \A z \in S : z <= x => z <= y
      BY <1>3, <3>1
    <3>3. ~(y <= x) /\ y <= y
      BY <1>3, <3>1
    <3>. QED  BY <3>2, <3>3
  <2>2. IsFiniteSet(Upto(y))
    BY <1>2
  <2>3. Cardinality(Upto(x)) # Cardinality(Upto(y))
    <3>. HIDE DEF Upto
    <3>. QED  BY <2>1, <2>2, FS_Subset
  <2>. QED  BY <2>3
<1>4. rank \in Injection(S, 1..N)
  <2>1. \A x, y \in S : x = y \/ x < y \/ y < x
    OBVIOUS
  <2>2. rank \in [S -> 1..N]
    BY <1>2
  <2>. HIDE DEF rank
  <2>. QED  BY <1>3, <2>1, <2>2 DEF Injection, IsInjective
<1>5. rank \in Surjection(S, 1..N)
  <2>. HIDE DEF rank
  <2>. QED  BY <1>1, <1>4, FS_Injection
<1>6. PICK x \in S : rank[x] = 1
  <2>1. 1 \in 1..N
    BY <1>1
  <2>. HIDE DEF rank
  <2>. QED  BY <1>5, <2>1 DEF Surjection
<1>7. Upto(x) = {x}
  <2>1. IsFiniteSet(Upto(x)) /\ x \in Upto(x) /\ Cardinality(Upto(x)) = 1
    BY <1>2, <1>6
  <2>. HIDE DEF Upto
  <2>. QED  BY <2>1, FS_Singleton
<1>8. \A y \in S : x <= y
  BY <1>7
<1>. QED  BY <1>8 DEF First

\* A concatenation is the one, then the other.
LEMMA Joined ==
  ASSUME NEW S, NEW s \in Seq(S), NEW t \in Seq(S)
  PROVE  /\ s \o t \in Seq(S) /\ Len(s \o t) = Len(s) + Len(t)
         /\ Len(s) \in Nat /\ Len(t) \in Nat
         /\ \A i \in 1..Len(s) : (s \o t)[i] = s[i]
         /\ \A i \in 1..Len(t) : (s \o t)[Len(s) + i] = t[i]
OBVIOUS

\* So is a part of a sequence.
LEMMA PartIs ==
  ASSUME NEW S, NEW s \in Seq(S), NEW m \in Nat, NEW n \in m..Len(s)
  PROVE  /\ SubSeq(s, m + 1, n) \in Seq(S) /\ Len(SubSeq(s, m + 1, n)) = n - m
         /\ \A i \in 1..(n - m) : SubSeq(s, m + 1, n)[i] = s[m + i]
OBVIOUS

\* The first two newlines in a row.
LEMMA FirstDouble ==
  ASSUME NEW s \in Seq(Symbol), DoubleNewline(s) # {}
  PROVE  /\ First(DoubleNewline(s)) \in DoubleNewline(s)
         /\ \A i \in DoubleNewline(s) : First(DoubleNewline(s)) <= i
<1>1. Len(s) \in Nat /\ IsFiniteSet(1..(Len(s) - 1))
  BY FS_Interval
<1>2. DoubleNewline(s) \subseteq 1..(Len(s) - 1)
  BY DEF DoubleNewline
<1>3. IsFiniteSet(DoubleNewline(s)) /\ DoubleNewline(s) \subseteq Nat
  BY <1>1, <1>2, FS_Subset
<1>. QED  BY <1>3, FirstIs
---------------------------------------------------------------------------
(* The inductive invariant.                                                *)

Boundary == {0} \cup ends

\* The block that ends at y is an event's: its data line is the last before
\* the empty one, and no other block ends inside it.
Carried(y, e) ==
  /\ y - 6 \in Nat
  /\ stream[y - 4] = NL /\ stream[y - 3] = Data /\ stream[y - 2] = e
  /\ stream[y - 1] = NL /\ stream[y] = NL
  /\ \A z \in Boundary : z < y => z <= y - 6

\* What the server sends: two newlines in a row are the end of a block, an
\* object is in a block of its own, and the next block is never far.
StreamInv ==
  /\ Len(stream) \in Boundary
  /\ \A i \in 1..(Len(stream) - 1) : stream[i] = NL /\ stream[i + 1] = NL => i + 1 \in ends
  /\ \A z \in Boundary : z < Len(stream) =>
       \E y \in ends : /\ z < y /\ y <= z + LongestBlock /\ stream[y] = NL
                       /\ y = z + 1 \/ stream[y - 1] = NL
  /\ \A i \in 1..Len(stream) :
       stream[i] \in Event => \E k \in 1..Len(carriers) : carriers[k].end = i + 2
  /\ \A k \in 1..Len(carriers) : Carried(carriers[k].end, carriers[k].event)
  /\ \A k, l \in 1..Len(carriers) : k < l => carriers[k].end < carriers[l].end

\* The symbols the client has cut off.
Cut == received - Len(buf)

\* The events of the blocks up to n are delivered, no others.
DeliveredUpTo(n) ==
  /\ Len(delivered) <= Len(carriers)
  /\ \A i \in 1..Len(carriers) :
       IF carriers[i].end <= n THEN i <= Len(delivered) /\ delivered[i] = carriers[i].event
                               ELSE i > Len(delivered)

\* The buffer is what has arrived since the end of some block.
ClientInv ==
  /\ Cut \in Boundary
  /\ \A i \in 1..Len(buf) : buf[i] = stream[Cut + i]
  /\ DeliveredUpTo(Cut)
  /\ pc = "read" => DoubleNewline(buf) = {}

FInv == FTypeOK /\ StreamInv /\ ClientInv

LEMMA SymbolsAre ==
  /\ NL \in Symbol /\ Data \in Symbol /\ Text \in Symbol /\ Event \subseteq Symbol
  /\ NL \notin Event /\ Data \notin Event /\ Text \notin Event /\ NoEvent \notin Event
  /\ NL # Data /\ NL # Text /\ Data # Text
BY FramingAssumption DEF Symbol

\* A block: a few symbols, the last of them NL, two in a row only at the end of
\* it; an object only in an event's block, where its line is.
BlockShape(b) ==
  LET s == b.symbols
      n == Len(s)
  IN  /\ s \in Seq(Symbol) /\ n \in 1..LongestBlock
      /\ s[n] = NL /\ (n # 1 => s[n - 1] = NL)
      /\ s[1] = NL => n = 1
      /\ \A i \in 1..(n - 1) : s[i] = NL /\ s[i + 1] = NL => i + 1 = n
      /\ IF b.event = NoEvent THEN \A i \in 1..n : s[i] \notin Event
         ELSE /\ b.event \in Event /\ n = 6
              /\ s[2] = NL /\ s[3] = Data /\ s[4] = b.event /\ s[5] = NL /\ s[6] = NL
              /\ \A i \in 1..n : s[i] \in Event => i = 4

LEMMA ShapeOfBlocks == \A b \in Block : BlockShape(b)
<1>. SUFFICES ASSUME NEW b \in Block PROVE BlockShape(b)
  OBVIOUS
<1>. USE SymbolsAre
<1>1. CASE \E e \in Event : b = EventBlock(e)
  <2>1. PICK e \in Event : b = EventBlock(e)
    BY <1>1
  <2>. DEFINE s == <<Text, NL, Data, e, NL, NL>>
  <2>2. b.symbols = s /\ b.event = e /\ e # NoEvent
    BY <2>1 DEF EventBlock
  <2>3. s \in Seq(Symbol)
    OBVIOUS
  <2>4. Len(s) = 6
    OBVIOUS
  <2>5. s[1] = Text /\ s[2] = NL /\ s[3] = Data /\ s[4] = e /\ s[5] = NL /\ s[6] = NL
    OBVIOUS
  <2>. HIDE DEF s
  <2>. QED  BY <2>2, <2>3, <2>4, <2>5 DEF BlockShape, LongestBlock
<1>2. CASE b = Comment
  <2>. DEFINE s == <<Text, NL, NL>>
  <2>1. b.symbols = s /\ b.event = NoEvent
    BY <1>2 DEF Comment
  <2>2. s \in Seq(Symbol)
    OBVIOUS
  <2>3. Len(s) = 3 /\ s[1] = Text /\ s[2] = NL /\ s[3] = NL
    OBVIOUS
  <2>. HIDE DEF s
  <2>. QED  BY <2>1, <2>2, <2>3 DEF BlockShape, LongestBlock
<1>3. CASE b = Notice
  <2>. DEFINE s == <<Data, Text, NL, NL>>
  <2>1. b.symbols = s /\ b.event = NoEvent
    BY <1>3 DEF Notice
  <2>2. s \in Seq(Symbol)
    OBVIOUS
  <2>3. Len(s) = 4 /\ s[1] = Data /\ s[2] = Text /\ s[3] = NL /\ s[4] = NL
    OBVIOUS
  <2>. HIDE DEF s
  <2>. QED  BY <2>1, <2>2, <2>3 DEF BlockShape, LongestBlock
<1>4. CASE b = EmptyLine
  <2>. DEFINE s == <<NL>>
  <2>1. b.symbols = s /\ b.event = NoEvent
    BY <1>4 DEF EmptyLine
  <2>2. s \in Seq(Symbol)
    OBVIOUS
  <2>3. Len(s) = 1 /\ s[1] = NL
    OBVIOUS
  <2>. HIDE DEF s
  <2>. QED  BY <2>1, <2>2, <2>3 DEF BlockShape, LongestBlock
<1>. QED  BY <1>1, <1>2, <1>3, <1>4 DEF Block
---------------------------------------------------------------------------
(* The steps.                                                              *)

LEMMA InitFraming == FInit => FInv
<1>. SUFFICES ASSUME FInit PROVE FInv
  OBVIOUS
<1>1. Cardinality({}) = 0
  BY FS_EmptySet
<1>2. FTypeOK
  BY <1>1, FramingAssumption DEF FInit, FTypeOK
<1>3. StreamInv
  BY DEF FInit, StreamInv, Boundary
<1>4. ClientInv
  <2>1. Len(carriers) = 0 /\ Len(buf) = 0 /\ Len(delivered) = 0 /\ Cut = 0
    <3>1. received = 0 /\ carriers = <<>> /\ buf = <<>> /\ delivered = <<>>
      BY DEF FInit
    <3>2. Len(carriers) = 0 /\ Len(buf) = 0 /\ Len(delivered) = 0
      BY <3>1
    <3>3. received = 0 /\ Len(buf) = 0
      BY <3>1, <3>2
    <3>4. Cut = 0
      BY <3>3 DEF Cut
    <3>. QED  BY <3>2, <3>4
  <2>2. DoubleNewline(buf) = {}
    BY <2>1 DEF DoubleNewline
  <2>. QED  BY <2>1, <2>2 DEF ClientInv, Boundary, DeliveredUpTo
<1>. QED  BY <1>2, <1>3, <1>4 DEF FInv

\* Where carriers end, and where the client has cut.
LEMMA CarriersAre ==
  ASSUME FTypeOK
  PROVE  /\ Len(carriers) \in Nat /\ Len(stream) \in Nat
         /\ \A k \in 1..Len(carriers) :
              /\ carriers[k].event \in Event /\ carriers[k].end \in ends
              /\ carriers[k].end \in 1..Len(stream)
<1>. DEFINE B == [event : Event, end : ends]
<1>1. carriers \in Seq(B) /\ ends \subseteq 1..Len(stream) /\ stream \in Seq(Symbol)
  BY DEF FTypeOK
<1>2. \A c \in B : c.event \in Event /\ c.end \in ends
  OBVIOUS
<1>. HIDE DEF B
<1>3. Len(carriers) \in Nat /\ \A k \in 1..Len(carriers) : carriers[k] \in B
  BY <1>1
<1>4. Len(stream) \in Nat
  BY <1>1
<1>5. \A k \in 1..Len(carriers) : carriers[k].event \in Event /\ carriers[k].end \in ends
  BY <1>2, <1>3
<1>. QED  BY <1>1, <1>3, <1>4, <1>5

\* The server adds a block: the stream keeps its shape.
LEMMA SendKeepsStream ==
  ASSUME FTypeOK, StreamInv, ServerSends
  PROVE  /\ FTypeOK' /\ StreamInv'
         /\ ends \subseteq ends'
         /\ \A i \in 1..Len(stream) : stream'[i] = stream[i]
         /\ Len(carriers) <= Len(carriers')
         /\ \A k \in 1..Len(carriers) : carriers'[k] = carriers[k]
         /\ \A k \in 1..Len(carriers') : k > Len(carriers) =>
              carriers'[k].end \in Nat /\ carriers'[k].end > Len(stream)
<1>. DEFINE L == Len(stream)
            K == Len(carriers)
<1>1. PICK b \in Block :
        /\ stream' = stream \o b.symbols
        /\ ends' = ends \cup {L + Len(b.symbols)}
        /\ carriers' = IF b.event = NoEvent THEN carriers
                       ELSE Append(carriers, [event |-> b.event, end |-> L + Len(b.symbols)])
  BY DEF ServerSends
<1>. DEFINE s == b.symbols
            n == Len(s)
            E == L + n
            B == [event : Event, end : ends']
            c == [event |-> b.event, end |-> E]
<1>2. Cardinality(ends) < MaxBlocks /\ UNCHANGED <<received, buf, pc, delivered>>
  BY DEF ServerSends
<1>3. /\ s \in Seq(Symbol) /\ n \in 1..6 /\ s[n] = NL /\ (n # 1 => s[n - 1] = NL)
      /\ s[1] = NL => n = 1
      /\ \A i \in 1..(n - 1) : s[i] = NL /\ s[i + 1] = NL => i + 1 = n
  BY ShapeOfBlocks DEF BlockShape, LongestBlock
<1>4. b.event = NoEvent => \A i \in 1..n : s[i] \notin Event
  BY ShapeOfBlocks DEF BlockShape
<1>5. b.event # NoEvent =>
        /\ b.event \in Event /\ n = 6
        /\ s[2] = NL /\ s[3] = Data /\ s[4] = b.event /\ s[5] = NL /\ s[6] = NL
        /\ \A i \in 1..n : s[i] \in Event => i = 4
  BY ShapeOfBlocks DEF BlockShape
<1>6. /\ L \in Nat /\ K \in Nat /\ stream \in Seq(Symbol)
      /\ carriers \in Seq([event : Event, end : ends])
      /\ ends \subseteq 1..L /\ Cardinality(ends) <= MaxBlocks
  BY DEF FTypeOK
<1>7. /\ stream' \in Seq(Symbol) /\ Len(stream') = E
      /\ \A i \in 1..L : stream'[i] = stream[i]
      /\ \A i \in 1..n : stream'[L + i] = s[i]
  <2>. HIDE DEF s
  <2>1. stream' = stream \o s
    BY <1>1 DEF s
  <2>. QED  BY <2>1, <1>3, <1>6, Joined
<1>8. E \in Nat /\ L < E /\ E <= L + 6 /\ ends' = ends \cup {E} /\ E \notin ends /\ ends' \subseteq 1..E
  <2>1. ends' = ends \cup {E}
    BY <1>1
  <2>2. E \in Nat /\ L < E /\ E <= L + 6
    <3>. HIDE DEF s, n
    <3>. QED  BY <1>3, <1>6
  <2>. HIDE DEF E
  <2>. QED  BY <2>1, <2>2, <1>6
<1>9. Cardinality(ends') <= MaxBlocks
  <2>1. IsFiniteSet(ends)
    <3>1. IsFiniteSet(1..L)
      BY <1>6, FS_Interval
    <3>. QED  BY <3>1, <1>6, FS_Subset
  <2>2. Cardinality(ends') = Cardinality(ends) + 1 /\ Cardinality(ends) \in Nat
    BY <2>1, <1>8, FS_AddElement, FS_CardinalityType
  <2>. QED  BY <2>2, <1>2, FramingAssumption
<1>10. carriers' = IF b.event = NoEvent THEN carriers ELSE Append(carriers, c)
  BY <1>1
<1>11. carriers \in Seq(B)
  <2>1. [event : Event, end : ends] \subseteq B
    BY <1>8
  <2>. DEFINE A == [event : Event, end : ends]
  <2>2. carriers \in Seq(A) /\ A \subseteq B
    BY <2>1, <1>6
  <2>. HIDE DEF A, B
  <2>. QED  BY <2>2
<1>12. b.event # NoEvent => c \in B /\ c.event = b.event /\ c.end = E
  BY <1>5, <1>8
<1>13. /\ carriers' \in Seq(B) /\ K <= Len(carriers')
       /\ \A k \in 1..K : carriers'[k] = carriers[k]
       /\ b.event = NoEvent => Len(carriers') = K
       /\ b.event # NoEvent => Len(carriers') = K + 1 /\ carriers'[K + 1] = c
  <2>. HIDE DEF B, c
  <2>. QED  BY <1>6, <1>10, <1>11, <1>12
<1>14. \A k \in 1..K : carriers[k].end \in ends /\ carriers[k].end \in 1..L
  BY CarriersAre
<1>15. FTypeOK'
  <2>1. received \in 0..L /\ buf \in Seq(Symbol) /\ pc \in {"read", "split"} /\ delivered \in Seq(Event)
    BY DEF FTypeOK
  <2>2. received \in 0..E
    BY <2>1, <1>8, <1>6
  <2>. QED  BY <2>1, <2>2, <1>2, <1>7, <1>8, <1>9, <1>13 DEF FTypeOK
<1>. HIDE DEF c, B, s, n, E
<1>16. Boundary' = Boundary \cup {E} /\ L \in Boundary /\ (\A z \in Boundary : z \in 0..L)
  BY <1>6, <1>8 DEF Boundary, StreamInv
<1>17. E = L + n /\ n \in 1..6
  BY <1>3 DEF E, n
<1>18. \A i \in 1..(E - 1) : stream'[i] = NL /\ stream'[i + 1] = NL => i + 1 \in ends'
  <2>. SUFFICES ASSUME NEW i \in 1..(E - 1), stream'[i] = NL, stream'[i + 1] = NL
               PROVE  i + 1 \in ends'
    OBVIOUS
  <2>1. CASE i + 1 <= L
    <3>1. i \in 1..(L - 1) /\ i \in 1..L /\ i + 1 \in 1..L
      BY <2>1, <1>6
    <3>2. stream[i] = NL /\ stream[i + 1] = NL
      BY <3>1, <1>7
    <3>. QED  BY <3>1, <3>2, <1>8 DEF StreamInv
  <2>2. CASE i = L
    <3>1. stream'[L + 1] = s[1]
      BY <1>7, <1>17
    <3>2. n = 1
      BY <3>1, <2>2, <1>3
    <3>. QED  BY <3>2, <2>2, <1>8, <1>17
  <2>3. CASE i > L
    <3>. DEFINE j == i - L
    <3>1. j \in 1..(n - 1) /\ j \in 1..n /\ j + 1 \in 1..n /\ L + j = i /\ L + (j + 1) = i + 1
      BY <2>3, <1>6, <1>17
    <3>. HIDE DEF j
    <3>2. s[j] = NL /\ s[j + 1] = NL
      BY <3>1, <1>7
    <3>3. j + 1 = n
      BY <3>1, <3>2, <1>3
    <3>. QED  BY <3>1, <3>3, <1>8, <1>17
  <2>. QED  BY <2>1, <2>2, <2>3, <1>6
<1>19. \A z \in Boundary' : z < E =>
         \E y \in ends' : /\ z < y /\ y <= z + LongestBlock /\ stream'[y] = NL
                          /\ y = z + 1 \/ stream'[y - 1] = NL
  <2>. SUFFICES ASSUME NEW z \in Boundary, z < E
               PROVE  \E y \in ends' : /\ z < y /\ y <= z + LongestBlock /\ stream'[y] = NL
                                       /\ y = z + 1 \/ stream'[y - 1] = NL
    BY <1>8, <1>16
  <2>1. CASE z < L
    <3>1. PICK y \in ends : /\ z < y /\ y <= z + LongestBlock /\ stream[y] = NL
                            /\ y = z + 1 \/ stream[y - 1] = NL
      BY <2>1 DEF StreamInv
    <3>2. y \in 1..L /\ (y = z + 1 \/ y - 1 \in 1..L)
      BY <3>1, <1>6, <1>16
    <3>3. stream'[y] = NL /\ (y = z + 1 \/ stream'[y - 1] = NL)
      BY <3>1, <3>2, <1>7
    <3>. QED  BY <3>1, <3>3, <1>8
  <2>2. CASE z = L
    <3>1. stream'[L + n] = NL
      <4>1. n \in 1..n
        BY <1>17
      <4>. QED  BY <4>1, <1>3, <1>7
    <3>2. n # 1 => stream'[L + (n - 1)] = NL
      <4>1. n # 1 => n - 1 \in 1..n
        BY <1>17
      <4>. QED  BY <4>1, <1>3, <1>7
    <3>3. L + (n - 1) = E - 1 /\ (n = 1 => E = z + 1)
      BY <1>6, <1>17, <2>2
    <3>. QED  BY <3>1, <3>2, <3>3, <2>2, <1>8, <1>17 DEF LongestBlock
  <2>. QED  BY <2>1, <2>2, <1>6, <1>16
<1>20. \A i \in 1..E :
         stream'[i] \in Event => \E k \in 1..Len(carriers') : carriers'[k].end = i + 2
  <2>. SUFFICES ASSUME NEW i \in 1..E, stream'[i] \in Event
               PROVE  \E k \in 1..Len(carriers') : carriers'[k].end = i + 2
    OBVIOUS
  <2>0. Len(carriers') \in Nat
    BY <1>13
  <2>1. CASE i <= L
    <3>1. i \in 1..L /\ stream[i] \in Event
      BY <2>1, <1>6, <1>7
    <3>2. PICK k \in 1..K : carriers[k].end = i + 2
      BY <3>1 DEF StreamInv
    <3>. QED  BY <3>2, <2>0, <1>6, <1>13
  <2>2. CASE i > L
    <3>1. i - L \in 1..n /\ L + (i - L) = i
      BY <2>2, <1>6, <1>17
    <3>2. s[i - L] \in Event
      BY <3>1, <1>7
    <3>3. b.event # NoEvent /\ i - L = 4 /\ n = 6
      BY <3>1, <3>2, <1>4, <1>5
    <3>4. Len(carriers') = K + 1 /\ carriers'[K + 1].end = E
      BY <3>3, <1>12, <1>13
    <3>5. E = i + 2
      BY <3>3, <1>6, <1>17
    <3>. QED  BY <3>4, <3>5, <1>6
  <2>. QED  BY <2>1, <2>2, <1>6
<1>21. ASSUME NEW k \in 1..Len(carriers') PROVE Carried(carriers[k].end, carriers[k].event)'
  <2>0. Len(carriers') \in Nat
    BY <1>13
  <2>1. CASE k <= K
    <3>1. k \in 1..K /\ carriers'[k] = carriers[k]
      BY <2>1, <2>0, <1>6, <1>13
    <3>. DEFINE y == carriers[k].end
                e == carriers[k].event
    <3>2. y \in 1..L
      BY <3>1, <1>14
    <3>. HIDE DEF y, e
    <3>3. Carried(y, e)
      BY <3>1 DEF StreamInv, y, e
    <3>4. y - 4 \in 1..L /\ y - 3 \in 1..L /\ y - 2 \in 1..L /\ y - 1 \in 1..L
      BY <3>2, <3>3, <1>6 DEF Carried
    <3>5. /\ y - 6 \in Nat /\ stream'[y - 4] = NL /\ stream'[y - 3] = Data /\ stream'[y - 2] = e
          /\ stream'[y - 1] = NL /\ stream'[y] = NL
      BY <3>2, <3>3, <3>4, <1>7 DEF Carried
    <3>6. \A z \in Boundary' : z < y => z <= y - 6
      BY <3>2, <3>3, <1>8, <1>16, <1>6 DEF Carried
    <3>7. carriers'[k].end = y /\ carriers'[k].event = e
      BY <3>1 DEF y, e
    <3>. QED  BY <3>5, <3>6, <3>7 DEF Carried
  <2>2. CASE k > K
    <3>1. b.event # NoEvent /\ k = K + 1
      BY <2>2, <2>0, <1>6, <1>13
    <3>2. carriers'[k].end = E /\ carriers'[k].event = b.event
      BY <3>1, <1>12, <1>13
    <3>3. n = 6 /\ E = L + 6
      BY <3>1, <1>5, <1>17
    <3>4. /\ E - 4 = L + 2 /\ E - 3 = L + 3 /\ E - 2 = L + 4 /\ E - 1 = L + 5 /\ E - 6 = L
          /\ 2 \in 1..n /\ 3 \in 1..n /\ 4 \in 1..n /\ 5 \in 1..n /\ 6 \in 1..n
      BY <3>3, <1>6
    <3>5. /\ stream'[E - 4] = NL /\ stream'[E - 3] = Data /\ stream'[E - 2] = b.event
          /\ stream'[E - 1] = NL /\ stream'[E] = NL
      BY <3>1, <3>3, <3>4, <1>5, <1>7
    <3>6. \A z \in Boundary' : z < E => z <= E - 6
      BY <3>4, <1>6, <1>8, <1>16
    <3>. QED  BY <3>2, <3>4, <3>5, <3>6, <1>6 DEF Carried
  <2>. QED  BY <2>1, <2>2, <2>0, <1>6
<1>22. ASSUME NEW k \in 1..Len(carriers'), NEW l \in 1..Len(carriers'), k < l
       PROVE  carriers'[k].end < carriers'[l].end
  <2>0. Len(carriers') \in Nat
    BY <1>13
  <2>1. CASE l <= K
    <3>1. k \in 1..K /\ l \in 1..K
      BY <2>1, <2>0, <1>6, <1>22
    <3>. QED  BY <3>1, <1>13, <1>22 DEF StreamInv
  <2>2. CASE l > K
    <3>1. b.event # NoEvent /\ l = K + 1
      BY <2>2, <2>0, <1>6, <1>13
    <3>2. k \in 1..K
      BY <3>1, <2>0, <1>6, <1>22
    <3>3. carriers'[l].end = E /\ carriers'[k].end \in 1..L
      BY <3>1, <3>2, <1>12, <1>13, <1>14
    <3>. QED  BY <3>3, <1>6, <1>8
  <2>. QED  BY <2>1, <2>2, <2>0, <1>6
<1>23. StreamInv'
  <2>1. Len(stream') \in Boundary'
    BY <1>7, <1>16
  <2>. QED  BY <2>1, <1>7, <1>18, <1>19, <1>20, <1>21, <1>22 DEF StreamInv
<1>24. \A k \in 1..Len(carriers') : k > K => carriers'[k].end \in Nat /\ carriers'[k].end > L
  <2>. SUFFICES ASSUME NEW k \in 1..Len(carriers'), k > K
               PROVE  carriers'[k].end \in Nat /\ carriers'[k].end > L
    OBVIOUS
  <2>1. Len(carriers') \in Nat
    BY <1>13
  <2>2. b.event # NoEvent /\ k = K + 1
    BY <2>1, <1>6, <1>13
  <2>. QED  BY <2>2, <1>8, <1>12, <1>13
<1>. QED  BY <1>7, <1>8, <1>13, <1>15, <1>23, <1>24

\* The buffer is the last of what has arrived.
LEMMA CutIs ==
  ASSUME FTypeOK, ClientInv
  PROVE  /\ Cut \in Nat /\ Len(buf) \in Nat /\ received \in Nat
         /\ Cut + Len(buf) = received /\ received <= Len(stream) /\ Cut = received - Len(buf)
<1>1. Len(stream) \in Nat /\ Len(buf) \in Nat /\ received \in 0..Len(stream)
  BY DEF FTypeOK
<1>2. Cut = received - Len(buf) /\ Cut \in Boundary /\ ends \subseteq 1..Len(stream)
  BY DEF Cut, ClientInv, FTypeOK
<1>3. Cut \in Nat
  BY <1>1, <1>2 DEF Boundary
<1>. QED  BY <1>1, <1>2, <1>3

LEMMA SendKeeps == ASSUME FInv, ServerSends PROVE FInv'
<1>. USE DEF FInv
<1>1. /\ FTypeOK' /\ StreamInv' /\ ends \subseteq ends'
      /\ \A i \in 1..Len(stream) : stream'[i] = stream[i]
      /\ Len(carriers) <= Len(carriers')
      /\ \A k \in 1..Len(carriers) : carriers'[k] = carriers[k]
      /\ \A k \in 1..Len(carriers') : k > Len(carriers) =>
              carriers'[k].end \in Nat /\ carriers'[k].end > Len(stream)
  BY SendKeepsStream
<1>2. UNCHANGED <<received, buf, pc, delivered>>
  BY DEF ServerSends
<1>3. Cut' = Cut /\ Cut \in Boundary' /\ (pc' = "read" => DoubleNewline(buf)' = {})
  BY <1>1, <1>2 DEF Cut, ClientInv, Boundary, DoubleNewline
<1>4. \A i \in 1..Len(buf) : buf[i] = stream'[Cut + i]
  <2>1. \A i \in 1..Len(buf) : Cut + i \in 1..Len(stream)
    BY CutIs, CarriersAre
  <2>. QED  BY <1>1, <2>1 DEF ClientInv
<1>5. DeliveredUpTo(Cut)'
  <2>1. Len(carriers) \in Nat /\ Len(carriers') \in Nat /\ Len(delivered) \in Nat /\ Len(stream) \in Nat
    BY <1>1 DEF FTypeOK
  <2>2. Len(delivered) <= Len(carriers)
    BY DEF ClientInv, DeliveredUpTo
  <2>3. ASSUME NEW i \in 1..Len(carriers')
        PROVE  IF carriers'[i].end <= Cut
                 THEN i <= Len(delivered) /\ delivered[i] = carriers'[i].event
                 ELSE i > Len(delivered)
    <3>1. CASE i <= Len(carriers)
      <4>1. i \in 1..Len(carriers) /\ carriers'[i] = carriers[i]
        BY <3>1, <1>1, <2>1
      <4>. QED  BY <4>1 DEF ClientInv, DeliveredUpTo
    <3>2. CASE i > Len(carriers)
      <4>1. carriers'[i].end > Len(stream)
        BY <3>2, <1>1
      <4>2. carriers'[i].end \in Nat
        BY <3>2, <1>1
      <4>3. ~(carriers'[i].end <= Cut)
        BY <4>1, <4>2, <2>1, CutIs
      <4>. QED  BY <3>2, <4>3, <2>1, <2>2
    <3>. QED  BY <3>1, <3>2, <2>1
  <2>. QED  BY <1>1, <1>2, <1>3, <2>1, <2>2, <2>3 DEF DeliveredUpTo
<1>6. ClientInv'
  BY <1>2, <1>3, <1>4, <1>5 DEF ClientInv
<1>. QED  BY <1>1, <1>6

LEMMA ChunkKeeps == ASSUME FInv, Chunk PROVE FInv'
<1>. USE DEF FInv
<1>1. PICK n \in (received + 1)..Len(stream) :
        /\ received' = n /\ buf' = buf \o SubSeq(stream, received + 1, n)
        /\ pc' = "split" /\ UNCHANGED <<server_vars, delivered>>
  BY DEF Chunk
<1>. DEFINE p == SubSeq(stream, received + 1, n)
<1>2. /\ received \in Nat /\ received <= Len(stream) /\ Cut \in Nat /\ Len(buf) \in Nat
      /\ stream \in Seq(Symbol) /\ buf \in Seq(Symbol) /\ Len(stream) \in Nat
      /\ Cut + Len(buf) = received
  BY CutIs DEF FTypeOK
<1>3. n \in Nat /\ n \in received..Len(stream) /\ n \in 0..Len(stream)
  BY <1>2
<1>4. /\ p \in Seq(Symbol) /\ Len(p) = n - received
      /\ \A i \in 1..(n - received) : p[i] = stream[received + i]
  BY <1>2, <1>3, PartIs
<1>. HIDE DEF p
<1>5. buf' = buf \o p
  BY <1>1 DEF p
<1>6. /\ buf' \in Seq(Symbol) /\ Len(buf') = Len(buf) + (n - received)
      /\ \A i \in 1..Len(buf) : buf'[i] = buf[i]
      /\ \A i \in 1..(n - received) : buf'[Len(buf) + i] = p[i]
  <2>1. /\ buf \o p \in Seq(Symbol) /\ Len(buf \o p) = Len(buf) + Len(p)
        /\ \A i \in 1..Len(buf) : (buf \o p)[i] = buf[i]
        /\ \A i \in 1..Len(p) : (buf \o p)[Len(buf) + i] = p[i]
    <3>1. buf \in Seq(Symbol) /\ p \in Seq(Symbol)
      BY <1>2, <1>4
    <3>. QED  BY <3>1, Joined
  <2>. QED  BY <2>1, <1>4, <1>5
<1>7. stream' = stream /\ ends' = ends /\ carriers' = carriers /\ delivered' = delivered
  BY <1>1 DEF server_vars
<1>8. FTypeOK'
  BY <1>1, <1>3, <1>6, <1>7 DEF FTypeOK
<1>9. StreamInv'
  BY <1>7 DEF StreamInv, Boundary, Carried
<1>10. Cut' = Cut
  <2>1. Cut' = n - Len(buf')
    BY <1>1 DEF Cut
  <2>2. n - (Len(buf) + (n - received)) = Cut
    BY <1>2, <1>3
  <2>. QED  BY <2>1, <2>2, <1>6
<1>11. ASSUME NEW i \in 1..Len(buf') PROVE buf'[i] = stream[Cut + i]
  <2>1. CASE i <= Len(buf)
    <3>1. i \in 1..Len(buf)
      BY <2>1, <1>2
    <3>. QED  BY <3>1, <1>6 DEF ClientInv
  <2>2. CASE i > Len(buf)
    <3>1. i - Len(buf) \in 1..(n - received) /\ Len(buf) + (i - Len(buf)) = i
      BY <2>2, <1>2, <1>3, <1>6
    <3>2. received + (i - Len(buf)) = Cut + i
      BY <2>2, <1>2
    <3>. QED  BY <3>1, <3>2, <1>4, <1>6
  <2>. QED  BY <2>1, <2>2, <1>2, <1>3, <1>6
<1>12. ClientInv'
  BY <1>1, <1>7, <1>10, <1>11 DEF ClientInv, Boundary, DeliveredUpTo
<1>. QED  BY <1>8, <1>9, <1>12

LEMMA ReconnectKeeps == ASSUME FInv, Reconnect PROVE FInv'
<1>1. /\ stream' = <<>> /\ ends' = {} /\ carriers' = <<>>
      /\ received' = 0 /\ buf' = <<>> /\ pc' = "read" /\ delivered' = <<>>
  BY DEF Reconnect
<1>2. FInit'
  BY <1>1 DEF FInit
<1>. QED  BY <1>2, InitFraming, PTL

\* Two newlines that have arrived and are not cut off are in the buffer.
LEMMA DoubleIs ==
  ASSUME FTypeOK, ClientInv, NEW y \in Nat, Cut + 1 < y, y <= received,
         stream[y - 1] = NL, stream[y] = NL
  PROVE  y - 1 - Cut \in DoubleNewline(buf)
<1>. DEFINE i == y - 1 - Cut
<1>1. /\ i \in 1..(Len(buf) - 1) /\ i \in 1..Len(buf) /\ i + 1 \in 1..Len(buf)
      /\ Cut + i = y - 1 /\ Cut + (i + 1) = y
  <2>1. Cut \in Nat /\ Len(buf) \in Nat /\ Cut + Len(buf) = received
    BY CutIs
  <2>. QED  BY <2>1
<1>. HIDE DEF i
<1>2. buf[i] = NL /\ buf[i + 1] = NL
  BY <1>1 DEF ClientInv
<1>3. i \in DoubleNewline(buf)
  BY <1>1, <1>2 DEF DoubleNewline
<1>. QED  BY <1>3 DEF i

\* The lines of a block that are the prefix and an object.
DataLines(block) ==
  {i \in 1..(Len(block) - 1) :
     /\ i = 1 \/ block[i - 1] = NL
     /\ block[i] = Data /\ block[i + 1] \in Event}

LEMMA ExtractIs ==
  ASSUME NEW block
  PROVE  /\ DataLines(block) = {} => ExtractDataLine(block) = NoEvent
         /\ \A i : DataLines(block) = {i} => ExtractDataLine(block) = block[i + 1]
<1>1. DataLines(block) = {} => ExtractDataLine(block) = NoEvent
  BY DEF ExtractDataLine, DataLines
<1>2. ASSUME NEW i, DataLines(block) = {i} PROVE ExtractDataLine(block) = block[i + 1]
  <2>1. i \in 1..(Len(block) - 1)
    BY <1>2 DEF DataLines
  <2>2. i <= i
    BY <2>1
  <2>3. First({i}) = i
    BY <2>2 DEF First
  <2>4. ExtractDataLine(block) =
          IF DataLines(block) = {} THEN NoEvent ELSE block[First(DataLines(block)) + 1]
    BY DEF ExtractDataLine, DataLines
  <2>. QED  BY <1>2, <2>3, <2>4
<1>. QED  BY <1>1, <1>2

\* A round of the loop: the block that is cut off is exactly one of the server's,
\* with at most an empty line before it, and its event, if it has one, is next.
LEMMA RoundKeeps ==
  ASSUME FInv, SplitBlock, DoubleNewline(buf) # {}
  PROVE  FInv'
<1>. DEFINE pos == First(DoubleNewline(buf))
            C == Cut
            x == C + (pos + 1)
            block == SubSeq(buf, 1, pos + 1)
            e == ExtractDataLine(block)
            K == Len(carriers)
            m == Len(delivered)
<1>1. FTypeOK /\ StreamInv /\ ClientInv
  BY DEF FInv
<1>2. /\ buf' = SubSeq(buf, pos + 2, Len(buf))
      /\ delivered' = IF e = NoEvent THEN delivered ELSE Append(delivered, e)
      /\ pc = "split" /\ pc' = pc
      /\ stream' = stream /\ ends' = ends /\ carriers' = carriers /\ received' = received
  BY DEF SplitBlock, server_vars
<1>3. /\ C \in Nat /\ Len(buf) \in Nat /\ C + Len(buf) = received /\ received <= Len(stream)
      /\ Len(stream) \in Nat /\ K \in Nat /\ m \in Nat /\ buf \in Seq(Symbol)
      /\ delivered \in Seq(Event) /\ C \in Boundary /\ received \in Nat
  BY <1>1, CutIs DEF FTypeOK, ClientInv
<1>4. /\ pos \in 1..(Len(buf) - 1) /\ buf[pos] = NL /\ buf[pos + 1] = NL
      /\ \A i \in DoubleNewline(buf) : pos <= i
  <2>1. pos \in DoubleNewline(buf) /\ \A i \in DoubleNewline(buf) : pos <= i
    BY <1>3, FirstDouble
  <2>. HIDE DEF pos
  <2>. QED  BY <2>1 DEF DoubleNewline
<1>. HIDE DEF pos
<1>5. /\ block \in Seq(Symbol) /\ Len(block) = pos + 1
      /\ \A i \in 1..(pos + 1) : block[i] = buf[i]
  <2>1. pos + 1 \in 0..Len(buf) /\ 0 \in Nat /\ (pos + 1) - 0 = pos + 1 /\ 0 + 1 = 1
    BY <1>3, <1>4
  <2>2. \A i \in 1..(pos + 1) : 0 + i = i
    BY <1>4
  <2>3. pos + 1 \in Nat /\ buf \in Seq(Symbol)
    BY <1>3, <1>4
  <2>4. /\ SubSeq(buf, 0 + 1, pos + 1) \in Seq(Symbol)
        /\ Len(SubSeq(buf, 0 + 1, pos + 1)) = (pos + 1) - 0
        /\ \A i \in 1..((pos + 1) - 0) : SubSeq(buf, 0 + 1, pos + 1)[i] = buf[0 + i]
    BY <2>1, <2>3, PartIs
  <2>. QED  BY <2>1, <2>2, <2>4
<1>6. /\ buf' \in Seq(Symbol) /\ Len(buf') = Len(buf) - (pos + 1)
      /\ \A i \in 1..(Len(buf) - (pos + 1)) : buf'[i] = buf[(pos + 1) + i]
  <2>1. pos + 1 \in Nat /\ Len(buf) \in (pos + 1)..Len(buf) /\ (pos + 1) + 1 = pos + 2
    BY <1>3, <1>4
  <2>2. buf \in Seq(Symbol)
    BY <1>3
  <2>3. /\ SubSeq(buf, (pos + 1) + 1, Len(buf)) \in Seq(Symbol)
        /\ Len(SubSeq(buf, (pos + 1) + 1, Len(buf))) = Len(buf) - (pos + 1)
        /\ \A i \in 1..(Len(buf) - (pos + 1)) :
             SubSeq(buf, (pos + 1) + 1, Len(buf))[i] = buf[(pos + 1) + i]
    BY <2>1, <2>2, PartIs
  <2>. QED  BY <1>2, <2>1, <2>3
<1>. HIDE DEF block, e, C, K, m
<1>7. \A i \in 1..Len(buf) : buf[i] = stream[C + i]
  BY <1>1 DEF ClientInv, C
<1>8. x \in Nat /\ x <= received /\ C + 1 < x /\ x \in ends /\ x = C + (pos + 1)
  <2>1. /\ pos \in 1..Len(buf) /\ pos + 1 \in 1..Len(buf) /\ C + pos \in 1..(Len(stream) - 1)
        /\ (C + pos) + 1 = C + (pos + 1)
    BY <1>3, <1>4
  <2>2. stream[C + pos] = NL /\ stream[(C + pos) + 1] = NL
    BY <2>1, <1>4, <1>7
  <2>3. (C + pos) + 1 \in ends
    BY <1>1, <2>1, <2>2 DEF StreamInv
  <2>. QED  BY <2>1, <2>3, <1>3, <1>4
<1>. HIDE DEF x
<1>9. Cut' = x
  <2>1. Cut' = received - Len(buf')
    BY <1>2 DEF Cut
  <2>2. received - (Len(buf) - (pos + 1)) = x
    BY <1>3, <1>4, <1>8
  <2>. QED  BY <2>1, <2>2, <1>6
<1>10. \A k \in 1..K : /\ carriers[k].event \in Event /\ carriers[k].end \in Nat
                       /\ Carried(carriers[k].end, carriers[k].event)
  BY <1>1, CarriersAre DEF StreamInv, K
<1>11. ASSUME NEW k \in 1..K, carriers[k].end > C, carriers[k].end <= x
       PROVE  carriers[k].end = x
  <2>. DEFINE y == carriers[k].end
  <2>1. y \in Nat /\ stream[y - 1] = NL /\ stream[y] = NL /\ C <= y - 6
    BY <1>3, <1>10, <1>11 DEF Carried
  <2>. HIDE DEF y
  <2>2. y <= x
    BY <1>11 DEF y
  <2>3. y - 1 - C \in DoubleNewline(buf)
    <3>1. C + 1 < y /\ y <= received
      BY <2>1, <2>2, <1>3, <1>8
    <3>. QED  BY <2>1, <3>1, <1>1, DoubleIs DEF C
  <2>4. pos <= y - 1 - C
    BY <2>3, <1>4
  <2>5. y = x
    BY <2>1, <2>2, <2>4, <1>3, <1>4, <1>8
  <2>. QED  BY <2>5 DEF y
\* An object in the block is that of a carrier that ends with it.
<1>12. ASSUME NEW i \in DataLines(block)
       PROVE  i \in 1..pos /\ \E k \in 1..K : carriers[k].end = x /\ i = pos - 2
  <2>1. i \in 1..pos /\ i + 1 \in 1..(pos + 1) /\ block[i + 1] \in Event
    BY <1>4, <1>5 DEF DataLines
  <2>2. i + 1 \in 1..Len(buf) /\ C + (i + 1) \in 1..Len(stream)
    BY <2>1, <1>3, <1>4
  <2>3. stream[C + (i + 1)] \in Event
    BY <2>1, <2>2, <1>5, <1>7
  <2>4. PICK k \in 1..K : carriers[k].end = (C + (i + 1)) + 2
    BY <2>2, <2>3, <1>1 DEF StreamInv, K
  <2>5. carriers[k].end > C /\ carriers[k].end <= x + 2
    <3>1. (C + (i + 1)) + 2 > C /\ (C + (i + 1)) + 2 <= (C + (pos + 1)) + 2
      BY <2>1, <1>3, <1>4
    <3>. QED  BY <3>1, <2>4, <1>8
  <2>6. carriers[k].end <= x
    <3>1. x < carriers[k].end => x <= carriers[k].end - 6
      BY <1>8, <1>10 DEF Carried, Boundary
    <3>. QED  BY <3>1, <2>5, <1>8, <1>10
  <2>7. carriers[k].end = x
    BY <2>5, <2>6, <1>11
  <2>8. i = pos - 2
    <3>1. (C + (i + 1)) + 2 = C + (pos + 1)
      BY <2>4, <2>7, <1>8
    <3>. QED  BY <2>1, <3>1, <1>3, <1>4
  <2>. QED  BY <2>1, <2>7, <2>8
<1>13. ASSUME NEW k \in 1..K, carriers[k].end = x
       PROVE  e = carriers[k].event /\ e \in Event /\ e # NoEvent
  <2>1. /\ x - 6 \in Nat /\ stream[x - 4] = NL /\ stream[x - 3] = Data
        /\ stream[x - 2] = carriers[k].event /\ C <= x - 6
    <3>1. Carried(x, carriers[k].event)
      BY <1>10, <1>13
    <3>. QED  BY <3>1, <1>3, <1>8 DEF Carried
  <2>2. /\ pos - 3 \in 1..(pos + 1) /\ pos - 2 \in 1..(pos + 1) /\ pos - 1 \in 1..(pos + 1)
        /\ pos - 3 \in 1..Len(buf) /\ pos - 2 \in 1..Len(buf) /\ pos - 1 \in 1..Len(buf)
        /\ C + (pos - 3) = x - 4 /\ C + (pos - 2) = x - 3 /\ C + (pos - 1) = x - 2
        /\ (pos - 2) - 1 = pos - 3 /\ (pos - 2) + 1 = pos - 1 /\ pos - 2 \in 1..((pos + 1) - 1)
    BY <2>1, <1>3, <1>4, <1>8
  <2>3. block[pos - 3] = NL /\ block[pos - 2] = Data /\ block[pos - 1] = carriers[k].event
    BY <2>1, <2>2, <1>5, <1>7
  <2>4. pos - 2 \in DataLines(block)
    BY <2>2, <2>3, <1>5, <1>10 DEF DataLines
  <2>5. DataLines(block) = {pos - 2}
    BY <2>4, <1>12
  <2>6. e = block[(pos - 2) + 1]
    BY <2>5, ExtractIs DEF e
  <2>. QED  BY <2>2, <2>3, <2>6, <1>10, SymbolsAre
<1>14. (\A k \in 1..K : carriers[k].end # x) => e = NoEvent
  <2>. SUFFICES ASSUME \A k \in 1..K : carriers[k].end # x PROVE e = NoEvent
    OBVIOUS
  <2>1. DataLines(block) = {}
    BY <1>12
  <2>. QED  BY <2>1, ExtractIs DEF e
<1>15. /\ m <= K
       /\ \A i \in 1..K : IF carriers[i].end <= C
                            THEN i <= m /\ delivered[i] = carriers[i].event
                            ELSE i > m
  BY <1>1 DEF ClientInv, DeliveredUpTo, C, K, m
<1>16. delivered' \in Seq(Event) /\ DeliveredUpTo(Cut)'
  <2>1. CASE \A k \in 1..K : carriers[k].end # x
    <3>1. delivered' = delivered
      BY <2>1, <1>2, <1>14
    <3>2. \A k \in 1..K : carriers[k].end <= x <=> carriers[k].end <= C
      BY <2>1, <1>3, <1>8, <1>10, <1>11
    <3>3. \A i \in 1..K : IF carriers[i].end <= x
                            THEN i <= m /\ delivered[i] = carriers[i].event
                            ELSE i > m
      BY <3>2, <1>15
    <3>4. DeliveredUpTo(Cut)'
      BY <3>1, <3>3, <1>2, <1>9, <1>15 DEF DeliveredUpTo, K, m
    <3>. QED  BY <3>1, <3>4, <1>3
  <2>2. CASE \E k \in 1..K : carriers[k].end = x
    <3>1. PICK k \in 1..K : carriers[k].end = x
      BY <2>2
    <3>2. e = carriers[k].event /\ e \in Event /\ delivered' = Append(delivered, e)
      BY <3>1, <1>2, <1>13
    <3>3. \A i, j \in 1..K : i < j => carriers[i].end < carriers[j].end
      BY <1>1 DEF StreamInv, K
    <3>4. k > m
      BY <3>1, <1>3, <1>8, <1>15
    <3>5. k = m + 1
      <4>. SUFFICES ASSUME k > m + 1 PROVE FALSE
        BY <3>4, <1>3
      <4>1. m + 1 \in 1..K
        BY <1>3
      <4>2. carriers[m + 1].end < x
        BY <3>1, <3>3, <4>1
      <4>3. ~(carriers[m + 1].end <= C)
        BY <4>1, <1>3, <1>15
      <4>4. carriers[m + 1].end > C /\ carriers[m + 1].end <= x /\ carriers[m + 1].end # x
        BY <4>1, <4>2, <4>3, <1>3, <1>8, <1>10
      <4>. QED  BY <4>1, <4>4, <1>11
    <3>6. /\ delivered' \in Seq(Event) /\ Len(delivered') = m + 1 /\ delivered'[m + 1] = e
          /\ \A i \in 1..m : delivered'[i] = delivered[i]
      BY <3>2, <1>3 DEF m
    <3>7. ASSUME NEW i \in 1..K
          PROVE  IF carriers[i].end <= x
                   THEN i <= m + 1 /\ delivered'[i] = carriers[i].event
                   ELSE i > m + 1
      <4>1. CASE carriers[i].end <= C
        <5>1. i \in 1..m /\ delivered[i] = carriers[i].event
          BY <4>1, <1>3, <1>15
        <5>. QED  BY <5>1, <4>1, <3>6, <1>3, <1>8, <1>10
      <4>2. CASE i = k
        BY <4>2, <3>1, <3>2, <3>5, <3>6, <1>3, <1>8
      <4>3. CASE ~(carriers[i].end <= C) /\ i # k
        <5>1. i > m + 1
          BY <4>3, <3>5, <1>3, <1>15
        <5>2. carriers[i].end > x
          BY <5>1, <3>1, <3>3, <3>5, <1>8, <1>10
        <5>. QED  BY <5>1, <5>2, <1>8, <1>10
      <4>. QED  BY <4>1, <4>2, <4>3
    <3>8. m + 1 <= K
      BY <3>5, <1>3
    <3>9. DeliveredUpTo(Cut)'
      BY <3>6, <3>7, <3>8, <1>2, <1>9 DEF DeliveredUpTo, K
    <3>. QED  BY <3>6, <3>9
  <2>. QED  BY <2>1, <2>2
<1>17. FTypeOK'
  BY <1>1, <1>2, <1>6, <1>16 DEF FTypeOK
<1>18. StreamInv'
  BY <1>1, <1>2 DEF StreamInv, Boundary, Carried
<1>19. \A i \in 1..Len(buf') : buf'[i] = stream[x + i]
  <2>. SUFFICES ASSUME NEW i \in 1..Len(buf') PROVE buf'[i] = stream[x + i]
    OBVIOUS
  <2>1. i \in 1..(Len(buf) - (pos + 1)) /\ (pos + 1) + i \in 1..Len(buf)
        /\ C + ((pos + 1) + i) = x + i
    BY <1>3, <1>4, <1>6, <1>8
  <2>. QED  BY <2>1, <1>6, <1>7
<1>20. ClientInv'
  BY <1>2, <1>8, <1>9, <1>16, <1>19 DEF ClientInv, Boundary
<1>. QED  BY <1>17, <1>18, <1>20 DEF FInv

LEMMA SplitKeeps == ASSUME FInv, SplitBlock PROVE FInv'
<1>1. CASE DoubleNewline(buf) # {}
  BY <1>1, RoundKeeps
<1>2. CASE DoubleNewline(buf) = {}
  <2>1. /\ pc' = "read" /\ buf' = buf /\ delivered' = delivered
        /\ stream' = stream /\ ends' = ends /\ carriers' = carriers /\ received' = received
    BY <1>2 DEF SplitBlock, server_vars
  <2>2. FTypeOK' /\ StreamInv'
    BY <2>1 DEF FInv, FTypeOK, StreamInv, Boundary, Carried
  <2>3. DoubleNewline(buf)' = {}
    BY <2>1, <1>2 DEF DoubleNewline
  <2>4. ClientInv'
    BY <2>1, <2>3 DEF FInv, ClientInv, Boundary, Cut, DeliveredUpTo
  <2>. QED  BY <2>2, <2>4 DEF FInv
<1>. QED  BY <1>1, <1>2

LEMMA StepKeeps == FInv /\ [FNext]_fvars => FInv'
<1>. SUFFICES ASSUME FInv, [FNext]_fvars PROVE FInv'
  OBVIOUS
<1>1. CASE ServerSends
  BY <1>1, SendKeeps
<1>2. CASE Chunk
  BY <1>2, ChunkKeeps
<1>3. CASE SplitBlock
  BY <1>3, SplitKeeps
<1>4. CASE Reconnect
  BY <1>4, ReconnectKeeps
<1>5. CASE UNCHANGED fvars
  BY <1>5 DEF FInv, FTypeOK, StreamInv, ClientInv, Boundary, Carried, Cut, DeliveredUpTo,
              DoubleNewline, fvars, server_vars
<1>. QED  BY <1>1, <1>2, <1>3, <1>4, <1>5 DEF FNext

LEMMA FramingInvariant == FSpec => []FInv
BY InitFraming, StepKeeps, PTL DEF FSpec
---------------------------------------------------------------------------
(* The theorems.                                                           *)

\* Types of the stream, the buffer and the events delivered.
THEOREM FramingTypes == FSpec => []FTypeOK
<1>1. FInv => FTypeOK
  BY DEF FInv
<1>. QED  BY <1>1, FramingInvariant, PTL

\* Between chunks no event's block that has arrived lies behind the cut.
LEMMA AllIsDelivered == FInv => DeliversCompleteBlocks
<1>. SUFFICES ASSUME FInv, pc = "read" PROVE DeliveredUpTo(received)
  BY DEF DeliversCompleteBlocks, DeliveredUpTo
<1>1. FTypeOK /\ StreamInv /\ ClientInv
  BY DEF FInv
<1>2. Cut \in Nat /\ Len(buf) \in Nat /\ received \in Nat /\ Cut + Len(buf) = received
  BY <1>1, CutIs
<1>3. ASSUME NEW i \in 1..Len(carriers), carriers[i].end <= received
      PROVE  carriers[i].end <= Cut
  <2>. DEFINE y == carriers[i].end
  <2>1. y \in Nat /\ Carried(y, carriers[i].event) /\ Cut \in Boundary
    BY <1>1, CarriersAre DEF StreamInv, ClientInv
  <2>2. y <= received
    BY <1>3
  <2>. HIDE DEF y
  <2>. SUFFICES ASSUME Cut < y PROVE FALSE
    BY <1>2, <2>1 DEF y
  <2>3. stream[y - 1] = NL /\ stream[y] = NL /\ Cut <= y - 6
    BY <2>1 DEF Carried
  <2>4. Cut + 1 < y
    BY <2>1, <2>3, <1>2
  <2>5. DoubleNewline(buf) # {}
    BY <2>1, <2>2, <2>3, <2>4, <1>1, DoubleIs
  <2>. QED  BY <2>5, <1>1 DEF ClientInv
<1>4. \A i \in 1..Len(carriers) : carriers[i].end <= received <=> carriers[i].end <= Cut
  BY <1>1, <1>2, <1>3, CarriersAre
<1>. QED  BY <1>1, <1>4 DEF ClientInv, DeliveredUpTo

\* Whatever the chunks and wherever a connection broke off: between chunks the
\* events of the blocks that have arrived are delivered, once, in order, and no
\* others (the loop over find_double_newline and extract_data_line).
THEOREM BlocksAreDelivered == FSpec => []DeliversCompleteBlocks
BY AllIsDelivered, FramingInvariant, PTL

\* Were the buffer longer than a block, the next two ends would be in it.
LEMMA BufferIsShort == FInv => BufferIsPartOfBlock
<1>. SUFFICES ASSUME FInv, pc = "read"
             PROVE  DoubleNewline(buf) = {} /\ Len(buf) <= LongestBlock
  BY DEF BufferIsPartOfBlock
<1>1. FTypeOK /\ StreamInv /\ ClientInv /\ DoubleNewline(buf) = {} /\ Cut \in Boundary
  BY DEF FInv, ClientInv
<1>2. /\ Cut \in Nat /\ Len(buf) \in Nat /\ received \in Nat /\ Len(stream) \in Nat
      /\ Cut + Len(buf) = received /\ received <= Len(stream) /\ ends \subseteq 1..Len(stream)
  BY <1>1, CutIs, CarriersAre DEF FTypeOK
<1>3. \A y \in Nat : Cut + 1 < y /\ y <= received => ~(stream[y - 1] = NL /\ stream[y] = NL)
  BY <1>1, DoubleIs
<1>4. ASSUME Len(buf) > 6 PROVE FALSE
  <2>1. Cut < Len(stream) /\ Cut + 7 <= received
    BY <1>2, <1>4
  <2>2. PICK y \in ends : /\ Cut < y /\ y <= Cut + LongestBlock /\ stream[y] = NL
                          /\ y = Cut + 1 \/ stream[y - 1] = NL
    BY <1>1, <2>1 DEF StreamInv
  <2>3. y \in Nat /\ y <= Cut + 6
    BY <1>2, <2>2 DEF LongestBlock
  <2>4. y = Cut + 1
    BY <1>2, <1>3, <2>1, <2>2, <2>3
  <2>5. y \in Boundary /\ y < Len(stream)
    BY <2>1, <2>2, <2>4, <1>2 DEF Boundary
  <2>6. PICK z \in ends : /\ y < z /\ z <= y + LongestBlock /\ stream[z] = NL
                          /\ z = y + 1 \/ stream[z - 1] = NL
    BY <1>1, <2>5 DEF StreamInv
  <2>7. z \in Nat /\ z <= Cut + 7
    BY <1>2, <2>4, <2>6 DEF LongestBlock
  <2>8. stream[z - 1] = NL
    <3>1. z = y + 1 => z - 1 = y
      BY <2>3
    <3>. QED  BY <2>2, <2>6, <3>1
  <2>9. Cut + 1 < z /\ z <= received
    BY <1>2, <2>1, <2>4, <2>6, <2>7
  <2>. QED  BY <1>3, <2>6, <2>7, <2>8, <2>9
<1>. QED  BY <1>1, <1>2, <1>4 DEF LongestBlock

\* The buffer of sse_client.rs holds less than a block between chunks, so it is
\* bounded however much the server sends.
THEOREM BufferStaysShort == FSpec => []BufferIsPartOfBlock
BY BufferIsShort, FramingInvariant, PTL

\* What the three parsers make of an object.
LEMMA ParsersOf ==
  ASSUME NEW e \in Event
  PROVE  /\ ParsePacket(e) # ParseZeroCopy(e) =>
              ParseZeroCopy(e) = NoEvent /\ ParsePacket(e).server_name = "unknown"
         /\ ParseHotFields(e) = NoEvent <=> ParseZeroCopy(e) = NoEvent
         /\ ParseZeroCopy(e) # NoEvent =>
              /\ ParseZeroCopy(e).server_name = ParseHotFields(e)[1]
              /\ ParseZeroCopy(e).priority = PriorityOf(ParseHotFields(e)[2])
<1>. DEFINE c == FromSlice(e)
<1>1. c = NoEvent \/ c \in Change
  <2>1. e \in JsonObject
    BY FramingAssumption
  <2>2. e.user \in Field /\ e.server_name \in Field /\ (e.bot = "true") \in BOOLEAN
    BY <2>1 DEF JsonObject
  <2>. QED  BY <2>2 DEF FromSlice, Change
<1>2. /\ ParsePacket(e) = IF c = NoEvent THEN NoEvent ELSE FromChange(c)
      /\ ParseZeroCopy(e) = IF c = NoEvent THEN NoEvent
                            ELSE IF c.server_name = "absent" THEN NoEvent ELSE FromChange(c)
      /\ ParseHotFields(e) = IF c = NoEvent THEN NoEvent
                             ELSE IF c.server_name = "absent" THEN NoEvent
                             ELSE <<c.server_name, c.bot>>
  BY DEF ParsePacket, ParseZeroCopy, ParseHotFields
<1>. HIDE DEF c
<1>3. CASE c = NoEvent
  BY <1>2, <1>3
<1>4. CASE c # NoEvent
  <2>1. c \in Change /\ c.server_name \in Field /\ c.user \in Field /\ c.bot \in BOOLEAN
    BY <1>1, <1>4 DEF Change
  <2>2. /\ FromChange(c).server_name = OrUnknown(c.server_name)
        /\ FromChange(c).priority = PriorityOf(c.bot)
    BY DEF FromChange
  <2>3. FromChange(c) \in Packet
    BY <2>1 DEF FromChange, Packet, OrUnknown, PriorityOf, Name
  <2>4. <<c.server_name, c.bot>> \in HotFields
    BY <2>1 DEF HotFields
  <2>5. FromChange(c) # NoEvent /\ <<c.server_name, c.bot>> # NoEvent
    BY <2>3, <2>4, FramingAssumption
  <2>6. CASE c.server_name = "absent"
    BY <1>2, <1>4, <2>2, <2>6 DEF OrUnknown
  <2>7. CASE c.server_name # "absent"
    BY <1>2, <1>4, <2>2, <2>5, <2>7 DEF OrUnknown
  <2>. QED  BY <2>6, <2>7
<1>. QED  BY <1>3, <1>4

\* drain_and_parse, parse_zero_copy and parse_hot_fields make the same of every
\* event delivered, except that the first takes one without a server_name.
THEOREM AllParsersAgree == FSpec => []ParsersAgree
<1>1. FInv => ParsersAgree
  <2>. SUFFICES ASSUME FInv PROVE ParsersAgree
    OBVIOUS
  <2>1. \A i \in 1..Len(delivered) : delivered[i] \in Event
    BY DEF FInv, FTypeOK
  <2>. QED  BY <2>1, ParsersOf DEF ParsersAgree
<1>. QED  BY <1>1, FramingInvariant, PTL
=============================================================================
