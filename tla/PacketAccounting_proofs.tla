---------------------- MODULE PacketAccounting_proofs ----------------------
(***************************************************************************)
(* Proofs about PacketAccounting, for any packets and queue depth.  The    *)
(* invariant AccInv says in which one place every packet is and that the   *)
(* places keep the order of arrival: what waits is sorted by age, younger  *)
(* than all of its class that has left, and the parser's packet is the     *)
(* youngest of all.  A step moves at most one packet, from one place to    *)
(* another; there is one lemma for each kind of move.                      *)
(***************************************************************************)
EXTENDS PacketAccounting, PriorityScheduler_proofs, FiniteSetTheorems

Distinct(s) == \A i, j \in 1..Len(s) : s[i] = s[j] => i = j
AgeIn(s, x) == CHOOSE i \in 1..Len(s) : s[i] = x

LEMMA DistinctTail ==
  ASSUME NEW S, NEW s \in Seq(S), s # <<>>, Distinct(s)
  PROVE  /\ Distinct(Tail(s))
         /\ Elems(Tail(s)) = Elems(s) \ {Head(s)}
         /\ Head(s) \in Elems(s)
         /\ \A i \in 1..Len(Tail(s)) : i + 1 \in 1..Len(s) /\ Tail(s)[i] = s[i + 1]
<1>1. /\ Len(s) \in Nat \ {0} /\ Len(Tail(s)) = Len(s) - 1 /\ Head(s) = s[1]
      /\ \A i \in 1..Len(Tail(s)) : i + 1 \in 1..Len(s) /\ Tail(s)[i] = s[i + 1]
  OBVIOUS
<1>2. Distinct(Tail(s))
  BY <1>1 DEF Distinct
<1>3. ASSUME NEW x \in Elems(s), x # Head(s) PROVE x \in Elems(Tail(s))
  <2>1. PICK j \in 1..Len(s) : s[j] = x
    BY DEF Elems
  <2>2. j - 1 \in 1..Len(Tail(s)) /\ Tail(s)[j - 1] = x
    BY <1>1, <1>3, <2>1
  <2>. QED  BY <2>2 DEF Elems
<1>4. Head(s) \notin Elems(Tail(s)) /\ Elems(Tail(s)) \subseteq Elems(s)
  BY <1>1 DEF Distinct, Elems
<1>. QED  BY <1>1, <1>2, <1>3, <1>4 DEF Elems

LEMMA DistinctAppend ==
  ASSUME NEW S, NEW s \in Seq(S), NEW x \in S, Distinct(s), x \notin Elems(s)
  PROVE  Distinct(Append(s, x))
<1>1. /\ Len(Append(s, x)) = Len(s) + 1 /\ Append(s, x)[Len(s) + 1] = x
      /\ Len(s) \in Nat
      /\ \A i \in 1..Len(s) : Append(s, x)[i] = s[i]
  OBVIOUS
<1>. QED  BY <1>1 DEF Distinct, Elems

LEMMA AgeIsIndex ==
  ASSUME NEW S, NEW s \in Seq(S), Distinct(s), NEW i \in 1..Len(s)
  PROVE  AgeIn(s, s[i]) = i
BY DEF AgeIn, Distinct

\* Ages are numbers, they tell packets apart, and an arrival changes none.
LEMMA AgesKept ==
  ASSUME NEW S, NEW s \in Seq(S), Distinct(s), NEW x \in S, x \notin Elems(s)
  PROVE  /\ \A y \in Elems(s) : /\ AgeIn(s, y) \in 1..Len(s)
                                /\ AgeIn(Append(s, x), y) = AgeIn(s, y)
         /\ AgeIn(Append(s, x), x) = Len(s) + 1
<1>1. /\ Len(Append(s, x)) = Len(s) + 1 /\ Append(s, x)[Len(s) + 1] = x
      /\ Len(s) \in Nat /\ Append(s, x) \in Seq(S)
      /\ \A i \in 1..Len(s) : Append(s, x)[i] = s[i]
  OBVIOUS
<1>2. Distinct(Append(s, x))
  BY DistinctAppend
<1>3. AgeIn(Append(s, x), x) = Len(s) + 1
  <2>1. Len(s) + 1 \in 1..Len(Append(s, x))
    BY <1>1
  <2>2. AgeIn(Append(s, x), Append(s, x)[Len(s) + 1]) = Len(s) + 1
    BY <1>1, <1>2, <2>1, AgeIsIndex
  <2>. QED  BY <1>1, <2>2
<1>4. ASSUME NEW y \in Elems(s)
      PROVE  AgeIn(s, y) \in 1..Len(s) /\ AgeIn(Append(s, x), y) = AgeIn(s, y)
  <2>1. PICK i \in 1..Len(s) : s[i] = y
    BY DEF Elems
  <2>2. i \in 1..Len(Append(s, x)) /\ Append(s, x)[i] = y
    BY <1>1, <2>1
  <2>3. AgeIn(s, s[i]) = i
    BY AgeIsIndex
  <2>4. AgeIn(Append(s, x), Append(s, x)[i]) = i
    BY <1>1, <1>2, <2>2, AgeIsIndex
  <2>. QED  BY <2>1, <2>2, <2>3, <2>4
<1>. QED  BY <1>3, <1>4

LEMMA AgeInRange ==
  ASSUME NEW S, NEW s \in Seq(S), Distinct(s)
  PROVE  \A y \in Elems(s) : AgeIn(s, y) \in 1..Len(s) /\ s[AgeIn(s, y)] = y
BY AgeIsIndex DEF Elems

LEMMA AgeUnfolds == \A pkt : Age(pkt) = AgeIn(arrived, pkt)
BY DEF Age, AgeIn
---------------------------------------------------------------------------
(* The invariant.                                                          *)

Place == {"parser", "high", "low", "dispatcher", "sent", "refused", "evicted",
          "rejected"}
QueueOf(p) == IF p = "High" THEN "high" ELSE "low"
Only(pkt, place) == \A other \in Place : pkt \in Fate[other] <=> other = place

Histories ==
  /\ arrived \in Seq(Packet) /\ Distinct(arrived)
  /\ sent \in Seq(Packet)
  /\ refused \subseteq Packet /\ evicted \subseteq Packet /\ rejected = {}

OnePlace == \A pkt \in Packet :
  /\ pkt \in Elems(arrived) => \E place \in Place : Only(pkt, place)
  /\ pkt \notin Elems(arrived) => \A place \in Place : pkt \notin Fate[place]

Classes == \A p \in Priority :
  /\ Distinct(queue[p])
  /\ \A i \in 1..Len(queue[p]) : PriorityOf(queue[p][i]) = p

\* What has left a queue.
Gone == Elems(sent) \cup refused \cup evicted \cup ({disp_pkt} \ {NoPacket})

Youngest == parse_pkt # NoPacket => Len(arrived) > 0 /\ parse_pkt = arrived[Len(arrived)]
QueuesByAge == \A p \in Priority :
  /\ \A i, j \in 1..Len(queue[p]) : i < j => Age(queue[p][i]) < Age(queue[p][j])
  /\ \A old \in OfClass(p, Gone) : \A i \in 1..Len(queue[p]) : Age(old) < Age(queue[p][i])
SentByAge ==
  /\ \A i, j \in 1..Len(sent) :
       i < j /\ PriorityOf(sent[i]) = PriorityOf(sent[j]) => Age(sent[i]) < Age(sent[j])
  /\ disp_pkt # NoPacket =>
       \A i \in 1..Len(sent) :
         PriorityOf(sent[i]) = PriorityOf(disp_pkt) => Age(sent[i]) < Age(disp_pkt)

AccInv ==
  /\ SafeInv /\ Histories /\ OnePlace /\ Classes
  /\ Youngest /\ QueuesByAge /\ SentByAge

---------------------------------------------------------------------------

LEMMA FateIs ==
  /\ DOMAIN Fate = Place
  /\ Fate["parser"] = {parse_pkt} /\ Fate["dispatcher"] = {disp_pkt}
  /\ \A p \in Priority : Fate[QueueOf(p)] = Elems(queue[p]) /\ QueueOf(p) \in Place
  /\ Fate["sent"] = Elems(sent) /\ Fate["refused"] = refused
  /\ Fate["evicted"] = evicted /\ Fate["rejected"] = rejected
  /\ Fate["high"] = Elems(queue["High"]) /\ Fate["low"] = Elems(queue["Low"])
BY DEF Fate, Place, QueueOf, Priority

LEMMA FateIsNext ==
  /\ Fate'["parser"] = {parse_pkt'} /\ Fate'["dispatcher"] = {disp_pkt'}
  /\ \A p \in Priority : Fate'[QueueOf(p)] = Elems(queue'[p])
  /\ Fate'["sent"] = Elems(sent') /\ Fate'["refused"] = refused'
  /\ Fate'["evicted"] = evicted' /\ Fate'["rejected"] = rejected'
  /\ Fate'["high"] = Elems(queue'["High"]) /\ Fate'["low"] = Elems(queue'["Low"])
BY DEF Fate, QueueOf, Priority, Elems

\* A packet that moves from one place to another is in one place afterwards.
LEMMA MoveKeepsOnePlace ==
  ASSUME OnePlace, NEW m \in Packet, NEW b \in Place,
         Elems(arrived') = Elems(arrived) \cup {m},
         \A place \in Place : m \in Fate'[place] <=> place = b,
         \A place \in Place : \A pkt \in Packet :
           pkt # m => (pkt \in Fate'[place] <=> pkt \in Fate[place])
  PROVE  OnePlace'
<1>. SUFFICES ASSUME NEW pkt \in Packet
              PROVE  /\ pkt \in Elems(arrived') =>
                          \E place \in Place : \A other \in Place :
                            pkt \in Fate'[other] <=> other = place
                     /\ pkt \notin Elems(arrived') =>
                          \A place \in Place : pkt \notin Fate'[place]
  BY DEF OnePlace, Only, Elems
<1>1. CASE pkt = m
  BY <1>1
<1>2. CASE pkt # m
  BY <1>2 DEF OnePlace, Only
<1>. QED  BY <1>1, <1>2

\* Where a packet is excludes the other places.
LEMMA PlaceExcludes ==
  ASSUME AccInv, NEW a \in Place, NEW pkt \in Packet, pkt \in Fate[a]
  PROVE  /\ pkt \in Elems(arrived)
         /\ \A other \in Place : pkt \in Fate[other] <=> other = a
BY DEF AccInv, OnePlace, Only

\* The queues and all that has left them hold packets that have arrived; the
\* one in the parser's hand is younger than they are.
LEMMA ParserIsYoungest ==
  ASSUME AccInv, parse_pkt # NoPacket
  PROVE  /\ parse_pkt \in Packet /\ parse_pkt \in Elems(arrived)
         /\ \A pkt \in Elems(arrived) : pkt # parse_pkt => Age(pkt) < Age(parse_pkt)
<1>. DEFINE n == Len(arrived)
<1>1. /\ arrived \in Seq(Packet) /\ Distinct(arrived) /\ n \in Nat
      /\ n > 0 /\ parse_pkt = arrived[n] /\ n \in 1..n
  BY DEF AccInv, Histories, Youngest
<1>2. parse_pkt \in Packet /\ parse_pkt \in Elems(arrived)
  BY <1>1 DEF Elems
<1>3. AgeIn(arrived, parse_pkt) = n
  BY <1>1, AgeIsIndex
<1>4. ASSUME NEW pkt \in Elems(arrived), pkt # parse_pkt
      PROVE  AgeIn(arrived, pkt) < AgeIn(arrived, parse_pkt)
  <2>1. AgeIn(arrived, pkt) \in 1..n /\ arrived[AgeIn(arrived, pkt)] = pkt
    BY <1>1, AgeInRange
  <2>. QED  BY <1>1, <1>3, <1>4, <2>1
<1>. QED  BY <1>2, <1>4, AgeUnfolds

LEMMA WaitingHaveArrived ==
  ASSUME AccInv, NEW p \in Priority
  PROVE  Elems(queue[p]) \subseteq Packet \cap Elems(arrived)
<1>1. Elems(queue[p]) \subseteq Packet
  BY WaitingArePackets DEF AccInv, SafeInv
<1>. QED  BY <1>1, PlaceExcludes, FateIs

LEMMA GoneHaveArrived ==
  ASSUME AccInv PROVE Gone \subseteq Packet \cap Elems(arrived)
<1>1. Gone \subseteq Packet
  <2>1. disp_pkt \in Packet \cup {NoPacket}
    BY DEF AccInv, SafeInv, TypeOK
  <2>2. Elems(sent) \subseteq Packet /\ refused \subseteq Packet /\ evicted \subseteq Packet
    BY DEF AccInv, Histories, Elems
  <2>. QED  BY <2>1, <2>2 DEF Gone
<1>2. \A pkt \in Gone : \E a \in Place : pkt \in Fate[a]
  BY FateIs DEF Gone, Place
<1>. QED  BY <1>1, <1>2, PlaceExcludes
---------------------------------------------------------------------------
(* The steps.                                                              *)

LEMMA AgeUnfoldsNext == \A pkt : Age(pkt)' = AgeIn(arrived', pkt)
BY DEF Age, AgeIn

\* Nothing moves.
LEMMA StayStep ==
  ASSUME AccInv, SafeInv', UNCHANGED <<queue, parse_pkt, disp_pkt, fate_vars>>
  PROVE  AccInv'
<1>. USE DEF fate_vars
<1>1. \A pkt : Age(pkt)' = Age(pkt)
  BY AgeUnfolds, AgeUnfoldsNext
<1>2. Histories' /\ Classes' /\ Youngest'
  BY DEF AccInv, Histories, Classes, Youngest, Distinct
<1>3. QueuesByAge' /\ SentByAge'
  BY <1>1 DEF AccInv, QueuesByAge, SentByAge, Gone, OfClass, Elems
<1>4. OnePlace'
  <2>1. \A place \in Place : Fate'[place] = Fate[place]
    BY FateIs, FateIsNext DEF Place
  <2>. QED  BY <2>1 DEF AccInv, OnePlace, Only, Elems
<1>. QED  BY <1>2, <1>3, <1>4 DEF AccInv

\* nowhere -> parser
LEMMA ArriveStep ==
  ASSUME AccInv, SafeInv', NEW pkt \in Packet, pkt \notin Elems(arrived),
         parse_pkt = NoPacket, parse_pkt' = pkt, arrived' = Append(arrived, pkt),
         UNCHANGED <<queue, disp_pkt, sent, refused, evicted, rejected>>
  PROVE  AccInv'
<1>0. arrived \in Seq(Packet) /\ Distinct(arrived) /\ NoPacket \notin Packet
  BY PacketAssumption DEF AccInv, Histories, Packet
<1>1. /\ arrived' \in Seq(Packet) /\ Distinct(arrived')
      /\ Elems(arrived') = Elems(arrived) \cup {pkt}
      /\ Len(arrived') = Len(arrived) + 1 /\ arrived'[Len(arrived) + 1] = pkt
  BY <1>0, DistinctAppend, ElemsAppend
<1>2. Histories'
  BY <1>1 DEF AccInv, Histories, Distinct
<1>3. Classes' /\ Youngest'
  BY <1>0, <1>1 DEF AccInv, Classes, Youngest, Distinct
<1>4. OnePlace'
  <2>1. \A place \in Place : pkt \notin Fate[place]
    BY DEF AccInv, OnePlace
  <2>2. \A place \in Place : place # "parser" => Fate'[place] = Fate[place]
    BY FateIs, FateIsNext DEF Place
  <2>3. Fate'["parser"] = {pkt} /\ Fate["parser"] = {NoPacket} /\ "parser" \in Place
    BY DEF Fate, Place
  <2>. QED
    BY <1>0, <1>1, <2>1, <2>2, <2>3, MoveKeepsOnePlace DEF AccInv
<1>5. \A y \in Elems(arrived) : Age(y)' = Age(y)
  BY <1>0, AgesKept, AgeUnfolds, AgeUnfoldsNext
<1>6. \A p \in Priority : \A i \in 1..Len(queue[p]) : queue[p][i] \in Elems(arrived)
  BY WaitingHaveArrived DEF Elems
<1>7. /\ Gone \subseteq Elems(arrived) /\ Gone' = Gone
      /\ \A i \in 1..Len(sent) : sent[i] \in Elems(arrived)
      /\ disp_pkt # NoPacket => disp_pkt \in Elems(arrived)
  BY GoneHaveArrived DEF Gone, Elems
<1>8. QueuesByAge' /\ SentByAge'
  BY <1>5, <1>6, <1>7 DEF AccInv, QueuesByAge, SentByAge, OfClass
<1>. QED  BY <1>2, <1>3, <1>4, <1>8 DEF AccInv

\* parser -> queue
LEMMA AcceptStep ==
  ASSUME AccInv, SafeInv', NEW pkt \in Packet, parse_pkt = pkt, parse_pkt' = NoPacket,
         queue' = [queue EXCEPT ![PriorityOf(pkt)] = Append(@, pkt)],
         UNCHANGED <<disp_pkt, fate_vars>>
  PROVE  AccInv'
<1>. DEFINE p == PriorityOf(pkt)
<1>0. /\ p \in Priority /\ NoPacket \notin Packet
      /\ queue \in [Priority -> Seq(Packet)]
  BY ClassOf, PacketAssumption DEF Packet, AccInv, SafeInv, TypeOK
<1>1. /\ queue'[p] = Append(queue[p], pkt)
      /\ \A q \in Priority : q # p => queue'[q] = queue[q]
      /\ UNCHANGED <<arrived, sent, refused, evicted, rejected>>
  BY <1>0 DEF fate_vars
<1>2. pkt \notin Elems(queue[p])
  <2>1. "parser" \in Place /\ QueueOf(p) # "parser"
    BY DEF Place, QueueOf
  <2>. QED  BY <1>0, <2>1, FateIs, PlaceExcludes
<1>3. /\ queue[p] \in Seq(Packet) /\ Distinct(queue'[p])
      /\ Elems(queue'[p]) = Elems(queue[p]) \cup {pkt}
      /\ Len(queue'[p]) = Len(queue[p]) + 1 /\ Len(queue[p]) \in Nat
      /\ queue'[p][Len(queue[p]) + 1] = pkt
      /\ \A i \in 1..Len(queue[p]) : queue'[p][i] = queue[p][i]
  BY <1>0, <1>1, <1>2, DistinctAppend, ElemsAppend DEF AccInv, Classes
<1>4. Histories' /\ Youngest'
  BY <1>1 DEF AccInv, Histories, Youngest, Distinct
<1>5. Classes'
  <2>1. ASSUME NEW q \in Priority
        PROVE  Distinct(queue'[q]) /\ \A i \in 1..Len(queue'[q]) : PriorityOf(queue'[q][i]) = q
    BY <1>1, <1>3 DEF AccInv, Classes
  <2>. QED  BY <2>1 DEF Classes, Distinct
<1>6. OnePlace'
  <2>0. QueueOf(p) \in Place /\ "parser" \in Place /\ QueueOf(p) # "parser"
    BY <1>0, FateIs DEF Place, QueueOf
  <2>1. pkt \in Fate["parser"]
    BY FateIs
  <2>2. Fate[QueueOf(p)] = Elems(queue[p]) /\ Fate'[QueueOf(p)] = Elems(queue'[p])
    BY <1>0, FateIs, FateIsNext
  <2>3. Fate'["parser"] = {NoPacket} /\ Fate["parser"] = {pkt}
    BY FateIs, FateIsNext
  <2>4. \A place \in Place : place \notin {"parser", QueueOf(p)} => Fate'[place] = Fate[place]
    BY <1>0, <1>1, FateIs, FateIsNext DEF Place, QueueOf, Priority
  <2>5. \A place \in Place : pkt \in Fate[place] <=> place = "parser"
    BY <2>0, <2>1, PlaceExcludes
  <2>6. Elems(arrived') = Elems(arrived) \cup {pkt}
    BY <1>1, <2>0, <2>1, PlaceExcludes
  <2>7. \A place \in Place : pkt \in Fate'[place] <=> place = QueueOf(p)
    BY <1>0, <1>3, <2>0, <2>2, <2>3, <2>4, <2>5
  <2>8. \A place \in Place : \A other \in Packet :
          other # pkt => (other \in Fate'[place] <=> other \in Fate[place])
    BY <1>0, <1>3, <2>0, <2>2, <2>3, <2>4
  <2>. QED
    BY <2>0, <2>6, <2>7, <2>8, MoveKeepsOnePlace DEF AccInv
<1>7. \A y : Age(y)' = Age(y)
  BY <1>1, AgeUnfolds, AgeUnfoldsNext
<1>8. Gone' = Gone
  BY <1>1 DEF Gone, Elems
<1>9. /\ \A y \in Elems(queue[p]) : Age(y) < Age(pkt)
      /\ \A y \in Gone : Age(y) < Age(pkt)
  <2>1. pkt \notin Gone
    BY <1>0, FateIs, PlaceExcludes DEF Gone, Place
  <2>2. parse_pkt # NoPacket
    BY <1>0
  <2>. QED
    BY <1>0, <1>2, <2>1, <2>2, ParserIsYoungest, WaitingHaveArrived, GoneHaveArrived
<1>10. QueuesByAge'
  <2>1. ASSUME NEW q \in Priority, q # p
        PROVE  /\ \A i, j \in 1..Len(queue'[q]) :
                    i < j => Age(queue'[q][i]) < Age(queue'[q][j])
               /\ \A old \in OfClass(q, Gone) : \A i \in 1..Len(queue'[q]) :
                    Age(old) < Age(queue'[q][i])
    BY <1>1, <2>1 DEF AccInv, QueuesByAge
  <2>2. ASSUME NEW i \in 1..Len(queue'[p]), NEW j \in 1..Len(queue'[p]), i < j
        PROVE  Age(queue'[p][i]) < Age(queue'[p][j])
    <3>1. i \in 1..Len(queue[p]) /\ queue'[p][i] \in Elems(queue[p])
      BY <1>3, <2>2 DEF Elems
    <3>2. CASE j = Len(queue[p]) + 1
      BY <1>3, <1>9, <3>1, <3>2
    <3>3. CASE j \in 1..Len(queue[p])
      BY <1>0, <1>3, <2>2, <3>1, <3>3 DEF AccInv, QueuesByAge
    <3>. QED  BY <1>3, <3>2, <3>3
  <2>3. ASSUME NEW old \in OfClass(p, Gone), NEW i \in 1..Len(queue'[p])
        PROVE  Age(old) < Age(queue'[p][i])
    <3>1. CASE i = Len(queue[p]) + 1
      BY <1>3, <1>9, <3>1 DEF OfClass
    <3>2. CASE i \in 1..Len(queue[p])
      BY <1>0, <1>3, <3>2 DEF AccInv, QueuesByAge
    <3>. QED  BY <1>3, <3>1, <3>2
  <2>. QED  BY <1>7, <1>8, <2>1, <2>2, <2>3 DEF QueuesByAge, OfClass
<1>11. SentByAge'
  BY <1>1, <1>7 DEF AccInv, SentByAge
<1>. QED  BY <1>4, <1>5, <1>6, <1>10, <1>11 DEF AccInv
\* The head of a queue leaves it: it is older than all that stay.
LEMMA HeadLeaves ==
  ASSUME AccInv, NEW p \in Priority, queue[p] # <<>>, arrived' = arrived,
         queue' = [queue EXCEPT ![p] = Tail(@)],
         Gone' = Gone \cup {Head(queue[p])}
  PROVE  /\ Head(queue[p]) \in Packet /\ PriorityOf(Head(queue[p])) = p
         /\ Head(queue[p]) \in Elems(queue[p])
         /\ Elems(queue'[p]) = Elems(queue[p]) \ {Head(queue[p])}
         /\ \A q \in Priority : q # p => queue'[q] = queue[q]
         /\ \A old \in OfClass(p, Gone) : Age(old) < Age(Head(queue[p]))
         /\ \A y : Age(y)' = Age(y)
         /\ Classes' /\ QueuesByAge'
<1>. DEFINE h == Head(queue[p])
<1>0. queue \in [Priority -> Seq(Packet)] /\ Distinct(queue[p])
  BY DEF AccInv, SafeInv, TypeOK, Classes
<1>1. queue'[p] = Tail(queue[p]) /\ \A q \in Priority : q # p => queue'[q] = queue[q]
  BY <1>0
<1>2. /\ h \in Packet /\ h = queue[p][1] /\ 1 \in 1..Len(queue[p])
      /\ Len(queue[p]) \in Nat /\ Len(queue'[p]) = Len(queue[p]) - 1
  BY <1>0, <1>1
<1>3. /\ Distinct(queue'[p]) /\ Elems(queue'[p]) = Elems(queue[p]) \ {h}
      /\ h \in Elems(queue[p])
      /\ \A i \in 1..Len(queue'[p]) :
           i + 1 \in 1..Len(queue[p]) /\ queue'[p][i] = queue[p][i + 1]
  BY <1>0, <1>1, DistinctTail
<1>4. PriorityOf(h) = p
  BY <1>2 DEF AccInv, Classes
<1>5. Classes'
  <2>1. ASSUME NEW q \in Priority
        PROVE  Distinct(queue'[q]) /\ \A i \in 1..Len(queue'[q]) : PriorityOf(queue'[q][i]) = q
    BY <1>1, <1>3 DEF AccInv, Classes
  <2>. QED  BY <2>1 DEF Classes, Distinct
<1>6. \A y : Age(y)' = Age(y)
  BY AgeUnfolds, AgeUnfoldsNext
<1>7. \A old \in OfClass(p, Gone) : Age(old) < Age(h)
  BY <1>2 DEF AccInv, QueuesByAge
<1>8. ASSUME NEW q \in Priority, q # p
      PROVE  /\ \A i, j \in 1..Len(queue'[q]) :
                  i < j => Age(queue'[q][i]) < Age(queue'[q][j])
             /\ \A old \in OfClass(q, Gone') : \A i \in 1..Len(queue'[q]) :
                  Age(old) < Age(queue'[q][i])
  BY <1>1, <1>4, <1>8 DEF AccInv, QueuesByAge, OfClass
<1>9. ASSUME NEW i \in 1..Len(queue'[p]), NEW j \in 1..Len(queue'[p]), i < j
      PROVE  Age(queue'[p][i]) < Age(queue'[p][j])
  <2>1. /\ i + 1 \in 1..Len(queue[p]) /\ j + 1 \in 1..Len(queue[p]) /\ i + 1 < j + 1
        /\ queue'[p][i] = queue[p][i + 1] /\ queue'[p][j] = queue[p][j + 1]
    BY <1>2, <1>3, <1>9
  <2>. QED  BY <2>1 DEF AccInv, QueuesByAge
<1>10. ASSUME NEW old \in OfClass(p, Gone'), NEW i \in 1..Len(queue'[p])
       PROVE  Age(old) < Age(queue'[p][i])
  <2>1. i + 1 \in 1..Len(queue[p]) /\ 1 < i + 1 /\ queue'[p][i] = queue[p][i + 1]
    BY <1>2, <1>3
  <2>2. CASE old = h
    BY <1>2, <2>1, <2>2 DEF AccInv, QueuesByAge
  <2>3. CASE old \in OfClass(p, Gone)
    BY <2>1, <2>3 DEF AccInv, QueuesByAge
  <2>. QED  BY <2>2, <2>3 DEF OfClass
<1>11. QueuesByAge'
  BY <1>6, <1>8, <1>9, <1>10 DEF QueuesByAge, OfClass
<1>. QED  BY <1>1, <1>2, <1>3, <1>4, <1>5, <1>6, <1>7, <1>11

\* queue -> dispatcher
LEMMA TakeStep ==
  ASSUME AccInv, SafeInv', NEW p \in Priority, queue[p] # <<>>, disp_pkt = NoPacket,
         queue' = [queue EXCEPT ![p] = Tail(@)], disp_pkt' = Head(queue[p]),
         UNCHANGED <<parse_pkt, fate_vars>>
  PROVE  AccInv'
<1>. DEFINE h == Head(queue[p])
<1>0. /\ NoPacket \notin Packet
      /\ UNCHANGED <<arrived, sent, refused, evicted, rejected>>
  BY PacketAssumption DEF Packet, fate_vars
<1>1. h \in Packet
  BY DEF AccInv, SafeInv, TypeOK
<1>2. Gone' = Gone \cup {h}
  BY <1>0, <1>1 DEF Gone, Elems
<1>3. /\ h \in Packet /\ PriorityOf(h) = p /\ h \in Elems(queue[p])
      /\ Elems(queue'[p]) = Elems(queue[p]) \ {h}
      /\ \A q \in Priority : q # p => queue'[q] = queue[q]
      /\ \A old \in OfClass(p, Gone) : Age(old) < Age(h)
      /\ \A y : Age(y)' = Age(y)
      /\ Classes' /\ QueuesByAge'
  BY <1>0, <1>2, HeadLeaves
<1>4. Histories' /\ Youngest'
  BY <1>0 DEF AccInv, Histories, Youngest, Distinct
<1>5. SentByAge'
  <2>1. \A i \in 1..Len(sent) : PriorityOf(sent[i]) = p => sent[i] \in OfClass(p, Gone)
    BY DEF OfClass, Gone, Elems
  <2>. QED  BY <1>0, <1>3, <2>1 DEF AccInv, SentByAge
<1>6. OnePlace'
  <2>0. QueueOf(p) \in Place /\ "dispatcher" \in Place /\ QueueOf(p) # "dispatcher"
    BY FateIs DEF Place, QueueOf
  <2>1. Fate[QueueOf(p)] = Elems(queue[p]) /\ Fate'[QueueOf(p)] = Elems(queue'[p])
    BY FateIs, FateIsNext
  <2>2. Fate'["dispatcher"] = {h} /\ Fate["dispatcher"] = {NoPacket}
    BY FateIs, FateIsNext
  <2>3. \A place \in Place : place \notin {"dispatcher", QueueOf(p)} => Fate'[place] = Fate[place]
    BY <1>0, <1>3, FateIs, FateIsNext DEF Place, QueueOf, Priority
  <2>4. h \in Elems(arrived) /\ \A place \in Place : h \in Fate[place] <=> place = QueueOf(p)
    BY <1>3, <2>0, <2>1, PlaceExcludes
  <2>5. \A place \in Place : h \in Fate'[place] <=> place = "dispatcher"
    BY <1>3, <2>0, <2>1, <2>2, <2>3, <2>4
  <2>6. \A place \in Place : \A other \in Packet :
          other # h => (other \in Fate'[place] <=> other \in Fate[place])
    BY <1>0, <1>3, <2>0, <2>1, <2>2, <2>3
  <2>7. Elems(arrived') = Elems(arrived) \cup {h}
    BY <1>0, <2>4
  <2>. QED  BY <1>1, <2>0, <2>5, <2>6, <2>7, MoveKeepsOnePlace DEF AccInv
<1>. QED  BY <1>3, <1>4, <1>5, <1>6 DEF AccInv

\* queue -> evicted
LEMMA EvictStep ==
  ASSUME AccInv, SafeInv', NEW p \in Priority, queue[p] # <<>>,
         queue' = [queue EXCEPT ![p] = Tail(@)],
         evicted' = evicted \cup UNION {Elems(queue[q]) \ Elems(queue'[q]) : q \in Priority},
         UNCHANGED <<parse_pkt, disp_pkt, arrived, sent, refused, rejected>>
  PROVE  AccInv'
<1>. DEFINE h == Head(queue[p])
<1>0. queue[p] \in Seq(Packet) /\ Distinct(queue[p]) /\ h \in Packet
      /\ queue'[p] = Tail(queue[p]) /\ \A q \in Priority : q # p => queue'[q] = queue[q]
  BY DEF AccInv, SafeInv, TypeOK, Classes
<1>1. h \in Elems(queue[p]) /\ Elems(queue'[p]) = Elems(queue[p]) \ {h}
  BY <1>0, DistinctTail
<1>2. evicted' = evicted \cup {h}
  BY <1>0, <1>1
<1>3. Gone' = Gone \cup {h}
  BY <1>2 DEF Gone, Elems
<1>4. /\ PriorityOf(h) = p
      /\ \A old \in OfClass(p, Gone) : Age(old) < Age(h)
      /\ \A y : Age(y)' = Age(y)
      /\ Classes' /\ QueuesByAge'
  BY <1>3, HeadLeaves
<1>5. Histories' /\ Youngest'
  BY <1>0, <1>2 DEF AccInv, Histories, Youngest, Distinct
<1>6. SentByAge'
  BY <1>4 DEF AccInv, SentByAge
<1>7. OnePlace'
  <2>0. QueueOf(p) \in Place /\ "evicted" \in Place /\ QueueOf(p) # "evicted"
    BY FateIs DEF Place, QueueOf
  <2>1. Fate[QueueOf(p)] = Elems(queue[p]) /\ Fate'[QueueOf(p)] = Elems(queue'[p])
    BY FateIs, FateIsNext
  <2>2. Fate'["evicted"] = evicted \cup {h} /\ Fate["evicted"] = evicted
    BY <1>2, FateIs, FateIsNext
  <2>3. \A place \in Place : place \notin {"evicted", QueueOf(p)} => Fate'[place] = Fate[place]
    BY <1>0, FateIs, FateIsNext DEF Place, QueueOf, Priority
  <2>4. h \in Elems(arrived) /\ \A place \in Place : h \in Fate[place] <=> place = QueueOf(p)
    BY <1>0, <1>1, <2>0, <2>1, PlaceExcludes
  <2>5. \A place \in Place : h \in Fate'[place] <=> place = "evicted"
    BY <1>1, <2>0, <2>1, <2>2, <2>3, <2>4
  <2>6. \A place \in Place : \A other \in Packet :
          other # h => (other \in Fate'[place] <=> other \in Fate[place])
    BY <1>1, <2>0, <2>1, <2>2, <2>3
  <2>7. Elems(arrived') = Elems(arrived) \cup {h}
    BY <2>4
  <2>. QED  BY <1>0, <2>0, <2>5, <2>6, <2>7, MoveKeepsOnePlace DEF AccInv
<1>. QED  BY <1>4, <1>5, <1>6, <1>7 DEF AccInv

\* dispatcher -> sent or refused
LEMMA ForwardStep ==
  ASSUME AccInv, SafeInv', disp_pkt # NoPacket, disp_pkt' = NoPacket,
         UNCHANGED <<queue, parse_pkt, arrived, evicted, rejected>>,
         \/ sent' = Append(sent, disp_pkt) /\ refused' = refused
         \/ refused' = refused \cup {disp_pkt} /\ sent' = sent
  PROVE  AccInv'
<1>0. disp_pkt \in Packet /\ NoPacket \notin Packet /\ sent \in Seq(Packet)
  BY PacketAssumption DEF Packet, AccInv, SafeInv, TypeOK, Histories
<1>1. \A y : Age(y)' = Age(y)
  BY AgeUnfolds, AgeUnfoldsNext
<1>2. sent' = Append(sent, disp_pkt) => Elems(sent') = Elems(sent) \cup {disp_pkt}
  BY <1>0, ElemsAppend
<1>3. Gone' = Gone
  <2>1. CASE sent' = Append(sent, disp_pkt) /\ refused' = refused
    BY <1>2, <2>1 DEF Gone, Elems
  <2>2. CASE refused' = refused \cup {disp_pkt} /\ sent' = sent
    BY <2>2 DEF Gone, Elems
  <2>. QED  BY <2>1, <2>2
<1>4. Histories' /\ Youngest' /\ Classes'
  <2>1. sent' \in Seq(Packet) /\ refused' \subseteq Packet
    <3>1. refused \subseteq Packet /\ Append(sent, disp_pkt) \in Seq(Packet)
      BY <1>0 DEF AccInv, Histories
    <3>. QED  BY <1>0, <3>1
  <2>2. Histories'
    BY <2>1 DEF AccInv, Histories, Distinct
  <2>3. Youngest'
    BY DEF AccInv, Youngest
  <2>4. Classes'
    BY DEF AccInv, Classes, Distinct
  <2>. QED  BY <2>2, <2>3, <2>4
<1>5. QueuesByAge'
  BY <1>1, <1>3 DEF AccInv, QueuesByAge, OfClass
<1>6. SentByAge'
  <2>1. CASE sent' = sent
    BY <1>1, <2>1 DEF AccInv, SentByAge
  <2>2. CASE sent' = Append(sent, disp_pkt)
    <3>1. /\ Len(sent) \in Nat /\ Len(sent') = Len(sent) + 1
          /\ sent'[Len(sent) + 1] = disp_pkt
          /\ \A i \in 1..Len(sent) : sent'[i] = sent[i]
      BY <1>0, <2>2
    <3>2. ASSUME NEW i \in 1..Len(sent'), NEW j \in 1..Len(sent'), i < j,
                 PriorityOf(sent'[i]) = PriorityOf(sent'[j])
          PROVE  Age(sent'[i]) < Age(sent'[j])
      <4>1. i \in 1..Len(sent)
        BY <3>1, <3>2
      <4>2. CASE j = Len(sent) + 1
        BY <3>1, <3>2, <4>1, <4>2 DEF AccInv, SentByAge
      <4>3. CASE j \in 1..Len(sent)
        BY <3>1, <3>2, <4>1, <4>3 DEF AccInv, SentByAge
      <4>. QED  BY <3>1, <4>2, <4>3
    <3>. QED  BY <1>1, <3>2 DEF SentByAge
  <2>. QED  BY <2>1, <2>2
<1>7. OnePlace'
  <2>. DEFINE b == IF sent' = sent THEN "refused" ELSE "sent"
  <2>0. b \in Place /\ "dispatcher" \in Place /\ b # "dispatcher"
    BY DEF Place
  <2>1. sent' = sent => refused' = refused \cup {disp_pkt}
    BY <1>0
  <2>2. Fate'[b] = Fate[b] \cup {disp_pkt}
    BY <1>2, <2>1, FateIs, FateIsNext
  <2>3. Fate'["dispatcher"] = {NoPacket} /\ Fate["dispatcher"] = {disp_pkt}
    BY FateIs, FateIsNext
  <2>4. \A place \in Place : place \notin {"dispatcher", b} => Fate'[place] = Fate[place]
    BY <2>1, FateIs, FateIsNext DEF Place
  <2>5. disp_pkt \in Elems(arrived)
        /\ \A place \in Place : disp_pkt \in Fate[place] <=> place = "dispatcher"
    BY <1>0, <2>0, <2>3, PlaceExcludes
  <2>6. \A place \in Place : disp_pkt \in Fate'[place] <=> place = b
    BY <1>0, <2>0, <2>2, <2>3, <2>4, <2>5
  <2>7. \A place \in Place : \A other \in Packet :
          other # disp_pkt => (other \in Fate'[place] <=> other \in Fate[place])
    BY <1>0, <2>0, <2>2, <2>3, <2>4
  <2>8. Elems(arrived') = Elems(arrived) \cup {disp_pkt}
    BY <2>5
  <2>. QED  BY <1>0, <2>0, <2>6, <2>7, <2>8, MoveKeepsOnePlace DEF AccInv
<1>. QED  BY <1>4, <1>5, <1>6, <1>7 DEF AccInv
---------------------------------------------------------------------------
(* Every action is one of these steps.                                     *)

LEMMA AccInit == AInit => AccInv
<1>. SUFFICES ASSUME AInit PROVE AccInv
  OBVIOUS
<1>. USE DEF AInit
<1>1. SafeInv
  BY InitSafe
<1>2. /\ queue = [p \in Priority |-> <<>>] /\ parse_pkt = NoPacket /\ disp_pkt = NoPacket
      /\ NoPacket \notin Packet
  BY PacketAssumption DEF Init, Packet
<1>3. Elems(<<>>) = {} /\ Len(<<>>) = 0
  BY DEF Elems
<1>4. \A p \in Priority : Len(queue[p]) = 0 /\ Elems(queue[p]) = {}
  BY <1>2, <1>3
<1>5. Histories /\ Classes /\ Youngest /\ QueuesByAge /\ SentByAge
  BY <1>2, <1>3, <1>4 DEF Histories, Classes, Youngest, QueuesByAge, SentByAge, Distinct
<1>6. OnePlace
  <2>1. \A place \in Place : \A pkt \in Packet : pkt \notin Fate[place]
    BY <1>2, <1>3, <1>4, FateIs DEF Place, Priority
  <2>. QED  BY <1>3, <2>1 DEF OnePlace
<1>. QED  BY <1>1, <1>5, <1>6 DEF AccInv

LEMMA ParserAcc ==
  ASSUME AccInv, SafeInv', AReceive \/ AEvictOldest \/ ARetry
  PROVE  AccInv'
<1>0. TypeOK /\ RetryHasRoom
  BY DEF AccInv, SafeInv
<1>1. CASE AReceive
  <2>1. parse_pkt = NoPacket /\ parse_pkt' \in Packet
    BY <1>0, <1>1 DEF AReceive, Receive, TypeOK
  <2>2. /\ parse_pkt' \notin Elems(arrived) /\ arrived' = Append(arrived, parse_pkt')
        /\ UNCHANGED <<queue, disp_pkt, sent, refused, evicted, rejected>>
    BY <1>1 DEF AReceive, Receive, disp_vars
  <2>. QED  BY <2>1, <2>2, ArriveStep
<1>2. CASE AEvictOldest
  <2>. DEFINE p == PriorityOf(parse_pkt)
  <2>1. parse_pkt \in Packet /\ p \in Priority
    BY <1>0, <1>2, ClassOf DEF AEvictOldest, EvictOldest, TypeOK
  <2>2. /\ DropHead(p)
        /\ evicted' = evicted \cup UNION {Elems(queue[q]) \ Elems(queue'[q]) : q \in Priority}
        /\ UNCHANGED <<parse_pkt, disp_pkt, arrived, sent, refused, rejected>>
    BY <1>2 DEF AEvictOldest, EvictOldest, disp_vars
  <2>3. CASE queue[p] = <<>>
    <3>1. queue' = queue
      BY <2>2, <2>3 DEF DropHead
    <3>2. evicted' = evicted
      BY <2>2, <3>1
    <3>. QED  BY <2>2, <3>1, <3>2, StayStep DEF fate_vars
  <2>4. CASE queue[p] # <<>>
    <3>1. queue' = [queue EXCEPT ![p] = Tail(@)]
      BY <2>2, <2>4 DEF DropHead
    <3>. HIDE DEF p
    <3>. QED  BY <2>1, <2>2, <2>4, <3>1, EvictStep
  <2>. QED  BY <2>3, <2>4
<1>3. CASE ARetry
  <2>1. parse_pkt \in Packet /\ PriorityOf(parse_pkt) \in Priority /\ HasRoom(parse_pkt)
    BY <1>0, <1>3, ClassOf DEF ARetry, Retry, TypeOK, RetryHasRoom
  <2>2. /\ Accept(parse_pkt) /\ parse_pkt' = NoPacket
        /\ UNCHANGED <<disp_pkt, arrived, sent, refused, evicted>>
        /\ rejected' = rejected \cup ({parse_pkt} \ Elems(queue'[PriorityOf(parse_pkt)]))
    BY <1>3, <2>1 DEF ARetry, Retry, disp_vars
  <2>3. queue' = [queue EXCEPT ![PriorityOf(parse_pkt)] = Append(@, parse_pkt)]
    BY <2>2 DEF Accept
  <2>4. parse_pkt \in Elems(queue'[PriorityOf(parse_pkt)])
    <3>1. queue \in [Priority -> Seq(Packet)]
      BY <1>0 DEF TypeOK
    <3>2. queue'[PriorityOf(parse_pkt)] = Append(queue[PriorityOf(parse_pkt)], parse_pkt)
      BY <2>1, <2>3, <3>1
    <3>. QED  BY <2>1, <3>1, <3>2, ElemsAppend
  <2>5. UNCHANGED <<disp_pkt, fate_vars>>
    BY <2>2, <2>4 DEF fate_vars
  <2>. QED  BY <2>1, <2>2, <2>3, <2>5, AcceptStep
<1>. QED  BY <1>1, <1>2, <1>3

LEMMA ForwardAcc ==
  ASSUME AccInv, SafeInv', AForward PROVE AccInv'
<1>1. disp_pkt # NoPacket
  BY DEF AForward, Forward, AccInv, SafeInv, TypeOK
<1>2. /\ disp_pkt' = NoPacket
      /\ UNCHANGED <<queue, parse_pkt, arrived, evicted, rejected>>
      /\ \/ sent' = Append(sent, disp_pkt) /\ refused' = refused
         \/ refused' = refused \cup {disp_pkt} /\ sent' = sent
  BY DEF AForward, Forward, parser_vars
<1>. QED  BY <1>1, <1>2, ForwardStep

LEMMA ElsewhereAcc ==
  ASSUME AccInv, SafeInv', Elsewhere PROVE AccInv'
<1>0. TypeOK /\ UNCHANGED fate_vars
  BY DEF AccInv, SafeInv, Elsewhere
<1>1. ASSUME NEW p \in Priority, TakeHead(p), disp_pc \in {"high", "low"},
             UNCHANGED parse_pkt
      PROVE  AccInv'
  <2>1. /\ disp_pkt = NoPacket /\ queue[p] # <<>>
        /\ queue' = [queue EXCEPT ![p] = Tail(@)] /\ disp_pkt' = Head(queue[p])
    BY <1>0, <1>1 DEF TakeHead, TypeOK
  <2>. QED  BY <1>0, <1>1, <2>1, TakeStep
<1>2. CASE Enqueue
  <2>1. parse_pkt \in Packet /\ disp_pkt' = disp_pkt
    BY <1>0, <1>2 DEF Enqueue, TypeOK, disp_vars
  <2>2. CASE Accept(parse_pkt) /\ parse_pkt' = NoPacket
    <3>1. queue' = [queue EXCEPT ![PriorityOf(parse_pkt)] = Append(@, parse_pkt)]
      BY <2>2 DEF Accept
    <3>. QED  BY <1>0, <2>1, <2>2, <3>1, AcceptStep
  <2>3. CASE UNCHANGED <<queue, parse_pkt>>
    BY <1>0, <2>1, <2>3, StayStep
  <2>. QED  BY <1>2, <2>2, <2>3 DEF Enqueue
<1>3. CASE TryRecvHigh
  <2>1. "High" \in Priority /\ parse_pkt' = parse_pkt /\ disp_pc = "high"
    BY <1>3 DEF Priority, TryRecvHigh, parser_vars
  <2>2. CASE TakeHead("High")
    BY <1>1, <2>1, <2>2
  <2>3. CASE UNCHANGED <<queue, disp_pkt>>
    BY <1>0, <2>1, <2>3, StayStep
  <2>. QED  BY <1>3, <2>2, <2>3 DEF TryRecvHigh
<1>4. CASE TryRecvLow
  <2>1. "Low" \in Priority /\ parse_pkt' = parse_pkt /\ disp_pc = "low"
    BY <1>4 DEF Priority, TryRecvLow, parser_vars
  <2>2. CASE TakeHead("Low")
    BY <1>1, <2>1, <2>2
  <2>3. CASE UNCHANGED <<queue, disp_pkt>>
    BY <1>0, <2>1, <2>3, StayStep
  <2>. QED  BY <1>4, <2>2, <2>3 DEF TryRecvLow
<1>5. CASE \/ ParserExits \/ LogOverflow \/ DispatchLoop
           \/ SetStop \/ OtherPipeline \/ Terminated
  <2>1. UNCHANGED <<queue, parse_pkt, disp_pkt>>
    BY <1>5 DEF ParserExits, LogOverflow, DispatchLoop, SetStop, OtherPipeline,
                Terminated, disp_vars, parser_vars, vars
  <2>. QED  BY <1>0, <2>1, StayStep
<1>. QED  BY <1>2, <1>3, <1>4, <1>5 DEF Elsewhere

LEMMA StepOfScheduler == [ANext]_all_vars => [Next]_vars
BY DEF ANext, AReceive, AEvictOldest, ARetry, AForward, Elsewhere, Next, Parser,
       Dispatcher, all_vars

LEMMA AccStep == AccInv /\ [ANext]_all_vars => AccInv'
<1>. SUFFICES ASSUME AccInv, [ANext]_all_vars PROVE AccInv'
  OBVIOUS
<1>1. SafeInv'
  BY StepOfScheduler, SafeStep DEF AccInv
<1>2. CASE UNCHANGED all_vars
  <2>1. UNCHANGED <<queue, parse_pkt, disp_pkt, fate_vars>>
    BY <1>2 DEF all_vars, vars, parser_vars, disp_vars
  <2>. QED  BY <1>1, <2>1, StayStep
<1>. QED  BY <1>1, <1>2, ParserAcc, ForwardAcc, ElsewhereAcc DEF ANext
---------------------------------------------------------------------------
(* The theorems.                                                           *)

\* Within a class packets reach the hot path in the order they were parsed.
THEOREM ClassesStayInOrder == ASpec => []FifoPerClass
<1>1. AccInv => FifoPerClass
  <2>. SUFFICES ASSUME AccInv PROVE FifoPerClass
    OBVIOUS
  <2>1. \A p \in Priority : OfClass(p, Dispatched) \subseteq OfClass(p, Gone)
    BY DEF OfClass, Dispatched, Gone
  <2>. QED  BY <2>1 DEF AccInv, SentByAge, QueuesByAge, FifoPerClass
<1>. QED  BY AccInit, AccStep, <1>1, PTL DEF ASpec

\* What was evicted is older than everything of its class still waiting.
THEOREM OldestGoFirst == ASpec => []DropsOldest
<1>1. AccInv => DropsOldest
  <2>. SUFFICES ASSUME AccInv, NEW old \in evicted PROVE
         \A new \in Elems(queue[PriorityOf(old)])
                     \cup OfClass(PriorityOf(old), {parse_pkt} \ {NoPacket}) :
           Age(old) < Age(new)
    BY DEF DropsOldest
  <2>. DEFINE p == PriorityOf(old)
  <2>1. old \in Packet \cap Elems(arrived) /\ p \in Priority /\ old \in OfClass(p, Gone)
    BY GoneHaveArrived, ClassOf DEF Gone, OfClass
  <2>2. \A new \in Elems(queue[p]) : Age(old) < Age(new)
    BY <2>1 DEF AccInv, QueuesByAge, Elems
  <2>3. parse_pkt # NoPacket => Age(old) < Age(parse_pkt)
    <3>1. old \in Fate["evicted"] /\ "evicted" \in Place /\ "parser" \in Place
      BY FateIs DEF Place
    <3>2. old # parse_pkt
      BY <2>1, <3>1, FateIs, PlaceExcludes
    <3>. QED  BY <2>1, <3>2, ParserIsYoungest
  <2>. QED  BY <2>2, <2>3 DEF OfClass
<1>. QED  BY AccInit, AccStep, <1>1, PTL DEF ASpec

\* A sequence without repetitions has as many elements as positions.
LEMMA DistinctCount ==
  ASSUME NEW S, NEW s \in Seq(S), Distinct(s)
  PROVE  Cardinality(Elems(s)) = Len(s)
<1>. DEFINE f == [i \in 1..Len(s) |-> s[i]]
<1>1. Len(s) \in Nat
  OBVIOUS
<1>2. f \in Bijection(1..Len(s), Elems(s))
  <2>1. f \in [1..Len(s) -> Elems(s)]
    BY DEF Elems
  <2>2. \A a, b \in 1..Len(s) : f[a] = f[b] => a = b
    BY DEF Distinct
  <2>3. \A t \in Elems(s) : \E i \in 1..Len(s) : f[i] = t
    BY DEF Elems
  <2>. QED  BY <2>1, <2>2, <2>3 DEF Bijection, Injection, Surjection, IsInjective
<1>3. IsFiniteSet(1..Len(s)) /\ Cardinality(1..Len(s)) = Len(s)
  BY <1>1, FS_Interval
<1>. QED  BY <1>2, <1>3, FS_Bijection DEF ExistsBijection

\* Every packet the parser produced is in exactly one place, and each waits
\* in the channel of its own class.
THEOREM NothingVanishes == ASpec => []Conservation
<1>1. AccInv => Conservation
  <2>. SUFFICES ASSUME AccInv PROVE Conservation
    OBVIOUS
  <2>1. ASSUME NEW pkt \in Elems(arrived)
        PROVE  Cardinality({place \in DOMAIN Fate : pkt \in Fate[place]}) = 1
    <3>1. pkt \in Packet
      BY DEF AccInv, Histories, Elems
    <3>2. PICK place \in Place : Only(pkt, place)
      BY <2>1, <3>1 DEF AccInv, OnePlace
    <3>3. {other \in DOMAIN Fate : pkt \in Fate[other]} = {place}
      BY <3>2, FateIs DEF Only
    <3>. QED  BY <3>3, FS_Singleton
  <2>2. ASSUME NEW p \in Priority
        PROVE  /\ OfClass(p, Elems(queue[p])) = Elems(queue[p])
               /\ Cardinality(Elems(queue[p])) = Len(queue[p])
    <3>1. queue[p] \in Seq(Packet) /\ Distinct(queue[p])
      BY DEF AccInv, SafeInv, TypeOK, Classes
    <3>2. OfClass(p, Elems(queue[p])) = Elems(queue[p])
      BY DEF AccInv, Classes, OfClass, Elems
    <3>. QED  BY <3>1, <3>2, DistinctCount
  <2>. QED  BY <2>1, <2>2 DEF Conservation, AccInv, Histories
<1>. QED  BY AccInit, AccStep, <1>1, PTL DEF ASpec
---------------------------------------------------------------------------
(* The counter against the losses.                                         *)

\* Places that came free in the queue that was full when the parser counted,
\* or is about to count, an overflow: each was freed by the dispatcher.
Freed == IF parse_pc \in {"overflow", "evict"}
           THEN QueueDepth - Len(queue[PriorityOf(parse_pkt)]) ELSE 0

Balance == overflows < MaxOverflows =>
             /\ Overcount >= 0
             /\ Overcount * QueueDepth + Freed <= Cardinality(Dispatched)

LossInv == /\ AccInv /\ Balance
           /\ IsFiniteSet(evicted) /\ IsFiniteSet(Dispatched)

LEMMA LossTypes ==
  ASSUME LossInv
  PROVE  /\ TypeOK /\ overflows \in Nat /\ MaxOverflows \in Nat
         /\ QueueDepth \in Nat /\ Cardinality(evicted) \in Nat
         /\ Cardinality(Dispatched) \in Nat
         /\ Pending \in {0, 1} /\ Overcount \in Int /\ Freed \in Nat
<1>1. /\ TypeOK /\ overflows \in Nat /\ MaxOverflows \in Nat /\ QueueDepth \in Nat
      /\ Cardinality(evicted) \in Nat /\ Cardinality(Dispatched) \in Nat
  BY FS_CardinalityType, BoundAssumption DEF LossInv, AccInv, SafeInv, TypeOK
<1>2. Pending \in {0, 1}
  BY DEF Pending
<1>3. Overcount \in Int
  BY <1>1, <1>2 DEF Overcount
<1>4. Freed \in Nat
  <2>1. CASE parse_pc \in {"overflow", "evict"}
    <3>1. PriorityOf(parse_pkt) \in Priority
      BY <1>1, <2>1, ClassOf DEF TypeOK
    <3>2. Len(queue[PriorityOf(parse_pkt)]) \in Nat
          /\ Len(queue[PriorityOf(parse_pkt)]) <= QueueDepth
      BY <1>1, <3>1 DEF TypeOK
    <3>. QED  BY <1>1, <2>1, <3>2 DEF Freed
  <2>2. CASE parse_pc \notin {"overflow", "evict"}
    BY <2>2 DEF Freed
  <2>. QED  BY <2>1, <2>2
<1>. QED  BY <1>1, <1>2, <1>3, <1>4

\* Who waits is nowhere else.
LEMMA OnlyWaiting ==
  ASSUME AccInv, NEW p \in Priority, NEW h \in Elems(queue[p])
  PROVE  h \notin evicted /\ h \notin refused /\ h \notin Elems(sent)
<1>1. h \in Packet
  BY WaitingHaveArrived
<1>2. h \in Fate[QueueOf(p)] /\ QueueOf(p) \in Place
  BY FateIs
<1>3. \A other \in {"evicted", "refused", "sent"} : other \in Place /\ other # QueueOf(p)
  BY DEF Place, QueueOf
<1>. QED  BY <1>1, <1>2, <1>3, FateIs, PlaceExcludes

\* evict_oldest discards one packet, unless the queue has been emptied.
LEMMA OneIsEvicted ==
  ASSUME AccInv, AEvictOldest
  PROVE  \/ queue[PriorityOf(parse_pkt)] = <<>> /\ evicted' = evicted
         \/ \E h : h \notin evicted /\ evicted' = evicted \cup {h}
<1>. DEFINE p == PriorityOf(parse_pkt)
<1>1. p \in Priority /\ queue \in [Priority -> Seq(Packet)]
  BY ClassOf DEF AEvictOldest, EvictOldest, AccInv, SafeInv, TypeOK
<1>2. /\ DropHead(p)
      /\ evicted' = evicted \cup UNION {Elems(queue[q]) \ Elems(queue'[q]) : q \in Priority}
  BY DEF AEvictOldest, EvictOldest
<1>3. CASE queue[p] = <<>>
  <2>1. queue' = queue
    BY <1>2, <1>3 DEF DropHead
  <2>. QED  BY <1>2, <1>3, <2>1
<1>4. CASE queue[p] # <<>>
  <2>. DEFINE h == Head(queue[p])
  <2>1. queue'[p] = Tail(queue[p]) /\ \A q \in Priority : q # p => queue'[q] = queue[q]
    BY <1>1, <1>2, <1>4 DEF DropHead
  <2>2. h \in Elems(queue[p]) /\ Elems(queue'[p]) = Elems(queue[p]) \ {h}
    BY <1>1, <1>4, <2>1, DistinctTail DEF AccInv, Classes
  <2>3. \A q \in Priority : q # p => Elems(queue'[q]) = Elems(queue[q])
    BY <2>1
  <2>4. h \notin evicted
    BY <1>1, <2>2, OnlyWaiting
  <2>. HIDE DEF p, h
  <2>5. UNION {Elems(queue[q]) \ Elems(queue'[q]) : q \in Priority} = {h}
    <3>1. \A q \in Priority : q # p => Elems(queue[q]) \ Elems(queue'[q]) = {}
      BY <2>3
    <3>2. Elems(queue[p]) \ Elems(queue'[p]) = {h}
      BY <2>2
    <3>. QED  BY <1>1, <3>1, <3>2
  <2>. QED  BY <1>2, <2>4, <2>5
<1>. QED  BY <1>3, <1>4

\* A step that touches neither the counter nor the evictions keeps the balance
\* if every place it frees is a packet more dispatched.
LEMMA BalanceKept ==
  ASSUME LossInv, AccInv', UNCHANGED <<overflows, evicted>>, Pending' = Pending,
         IsFiniteSet(Dispatched'), Freed' \in Nat,
         \/ Cardinality(Dispatched') = Cardinality(Dispatched) /\ Freed' <= Freed
         \/ Cardinality(Dispatched') = Cardinality(Dispatched) + 1 /\ Freed' <= Freed + 1
  PROVE  LossInv'
<1>1. /\ Cardinality(Dispatched) \in Nat /\ Overcount \in Int /\ Freed \in Nat
      /\ QueueDepth \in Nat
  BY LossTypes
<1>2. Overcount' = Overcount
  BY DEF Overcount
<1>3. ASSUME NEW m \in Int, m + Freed <= Cardinality(Dispatched)
      PROVE  m + Freed' <= Cardinality(Dispatched')
  BY <1>1, <1>3
<1>4. Overcount * QueueDepth \in Int
  BY <1>1
<1>5. Balance'
  BY <1>2, <1>3, <1>4 DEF LossInv, Balance
<1>. QED  BY <1>5 DEF LossInv

LEMMA EvictBalance ==
  ASSUME LossInv, AccInv', AEvictOldest PROVE LossInv'
<1>0. /\ TypeOK /\ overflows \in Nat /\ QueueDepth \in Nat /\ Cardinality(evicted) \in Nat
      /\ Cardinality(Dispatched) \in Nat /\ Overcount \in Int /\ Freed \in Nat
  BY LossTypes
<1>1. /\ overflows' = overflows /\ parse_pc = "evict" /\ parse_pc' = "retry"
      /\ Dispatched' = Dispatched
  BY DEF AEvictOldest, EvictOldest, log_vars, disp_vars, Dispatched, Elems
<1>2. Freed' = 0 /\ Pending = 1 /\ Pending' = 0
  BY <1>1 DEF Freed, Pending
<1>3. CASE queue[PriorityOf(parse_pkt)] = <<>> /\ evicted' = evicted
  <2>1. Freed = QueueDepth
    BY <1>0, <1>1, <1>3 DEF Freed
  <2>2. Overcount' = Overcount + 1
    BY <1>0, <1>1, <1>2, <1>3 DEF Overcount
  <2>3. (Overcount + 1) * QueueDepth = Overcount * QueueDepth + QueueDepth
    BY <1>0
  <2>4. Overcount * QueueDepth \in Int
    BY <1>0
  <2>5. Overcount' * QueueDepth + Freed' = Overcount * QueueDepth + Freed
    BY <1>0, <1>2, <2>1, <2>2, <2>3, <2>4
  <2>6. Balance'
    BY <1>0, <1>1, <2>2, <2>5 DEF LossInv, Balance
  <2>. QED  BY <1>1, <1>3, <2>6 DEF LossInv
<1>4. ASSUME NEW h, h \notin evicted, evicted' = evicted \cup {h} PROVE LossInv'
  <2>1. IsFiniteSet(evicted') /\ Cardinality(evicted') = Cardinality(evicted) + 1
    BY <1>4, FS_AddElement DEF LossInv
  <2>2. Overcount' = Overcount
    BY <1>0, <1>1, <1>2, <2>1 DEF Overcount
  <2>3. Overcount * QueueDepth \in Int
    BY <1>0
  <2>4. Overcount * QueueDepth + Freed <= Cardinality(Dispatched)
          => Overcount * QueueDepth + Freed' <= Cardinality(Dispatched)
    BY <1>0, <1>2, <2>3
  <2>5. Balance'
    BY <1>1, <2>2, <2>4 DEF LossInv, Balance
  <2>. QED  BY <1>1, <2>1, <2>5 DEF LossInv
<1>. QED  BY <1>3, <1>4, OneIsEvicted DEF LossInv

LEMMA LogBalance ==
  ASSUME LossInv, AccInv', LogOverflow, UNCHANGED fate_vars PROVE LossInv'
<1>0. /\ overflows \in Nat /\ MaxOverflows \in Nat /\ Cardinality(evicted) \in Nat
  BY LossTypes
<1>1. /\ parse_pc = "overflow" /\ parse_pc' = "evict"
      /\ UNCHANGED <<queue, parse_pkt, disp_pkt, evicted>>
      /\ overflows' = IF overflows < MaxOverflows THEN overflows + 1 ELSE overflows
  BY DEF LogOverflow, disp_vars, fate_vars
<1>2. Dispatched' = Dispatched
  BY <1>1 DEF fate_vars, Dispatched, Elems
<1>3. Freed' = Freed /\ Pending = 0 /\ Pending' = 1
  BY <1>1 DEF Freed, Pending, PriorityOf
<1>4. CASE overflows < MaxOverflows
  <2>1. Overcount' = Overcount
    BY <1>0, <1>1, <1>3, <1>4 DEF Overcount
  <2>. QED  BY <1>1, <1>2, <1>3, <1>4, <2>1 DEF LossInv, Balance
<1>5. CASE ~(overflows < MaxOverflows)
  BY <1>1, <1>2, <1>5 DEF LossInv, Balance
<1>. QED  BY <1>4, <1>5

\* A packet dispatched frees one place at most in the queue that was full.
LEMMA TakeBalance ==
  ASSUME LossInv, AccInv', NEW p \in Priority, TakeHead(p), disp_pkt = NoPacket,
         UNCHANGED <<parser_vars, overflows, fate_vars>>
  PROVE  LossInv'
<1>. DEFINE h == Head(queue[p])
<1>0. /\ TypeOK /\ QueueDepth \in Nat /\ AccInv
      /\ UNCHANGED <<parse_pc, parse_pkt, sent, refused, evicted>>
  BY LossTypes DEF parser_vars, fate_vars, LossInv
<1>1. /\ queue[p] \in Seq(Packet) /\ queue[p] # <<>> /\ Distinct(queue[p])
      /\ queue' = [queue EXCEPT ![p] = Tail(@)] /\ disp_pkt' = h
  BY <1>0 DEF TakeHead, TypeOK, AccInv, Classes
<1>2. h \in Elems(queue[p]) /\ h \in Packet /\ h # NoPacket
  <2>1. h \in Elems(queue[p]) /\ h \in Packet
    BY <1>1, DistinctTail
  <2>. QED  BY <2>1, PacketAssumption DEF Packet
<1>3. h \notin Dispatched
  <2>1. h \notin Elems(sent) /\ h \notin refused
    BY <1>0, <1>2, OnlyWaiting
  <2>. QED  BY <2>1 DEF Dispatched
<1>4. Dispatched' = Dispatched \cup {h}
  BY <1>0, <1>1, <1>2 DEF Dispatched, Elems
<1>5. IsFiniteSet(Dispatched') /\ Cardinality(Dispatched') = Cardinality(Dispatched) + 1
  BY <1>3, <1>4, FS_AddElement DEF LossInv
<1>6. \A q \in Priority : /\ Len(queue[q]) \in Nat /\ Len(queue'[q]) \in Nat
                          /\ Len(queue'[q]) <= QueueDepth
                          /\ Len(queue'[q]) >= Len(queue[q]) - 1
  <2>1. queue'[p] = Tail(queue[p]) /\ \A q \in Priority : q # p => queue'[q] = queue[q]
    BY <1>0, <1>1 DEF TypeOK
  <2>2. Len(queue'[p]) = Len(queue[p]) - 1 /\ Len(queue[p]) \in Nat \ {0}
    <3>1. Len(Tail(queue[p])) = Len(queue[p]) - 1 /\ Len(queue[p]) \in Nat \ {0}
      BY <1>1, TailProperties
    <3>. QED  BY <2>1, <3>1
  <2>3. \A q \in Priority : Len(queue[q]) \in Nat /\ Len(queue[q]) <= QueueDepth
    BY <1>0 DEF TypeOK
  <2>. SUFFICES ASSUME NEW q \in Priority
       PROVE  /\ Len(queue[q]) \in Nat /\ Len(queue'[q]) \in Nat
              /\ Len(queue'[q]) <= QueueDepth
              /\ Len(queue'[q]) >= Len(queue[q]) - 1
    OBVIOUS
  <2>4. CASE q = p
    <3>. DEFINE n == Len(queue[p])
    <3>1. Len(queue'[p]) = n - 1 /\ n \in Nat \ {0} /\ n <= QueueDepth
      BY <2>2, <2>3
    <3>. HIDE DEF n
    <3>2. n - 1 \in Nat /\ n - 1 <= QueueDepth /\ n - 1 >= n - 1 /\ n \in Nat
      BY <1>0, <3>1
    <3>. QED  BY <2>4, <3>1, <3>2 DEF n
  <2>5. CASE q # p
    <3>. DEFINE n == Len(queue[q])
    <3>1. Len(queue'[q]) = n /\ n \in Nat /\ n <= QueueDepth
      BY <2>1, <2>3, <2>5
    <3>. HIDE DEF n
    <3>2. n >= n - 1
      BY <3>1
    <3>. QED  BY <3>1, <3>2 DEF n
  <2>. QED  BY <2>4, <2>5
<1>7. Freed' \in Nat /\ Freed' <= Freed + 1
  <2>1. CASE parse_pc \in {"overflow", "evict"}
    <3>1. PriorityOf(parse_pkt) \in Priority
      BY <1>0, <2>1, ClassOf DEF TypeOK
    <3>. DEFINE n == Len(queue[PriorityOf(parse_pkt)])
                m == Len(queue'[PriorityOf(parse_pkt)])
    <3>2. Freed = QueueDepth - n /\ Freed' = QueueDepth - m
      BY <1>0, <2>1 DEF Freed, PriorityOf
    <3>3. n \in Nat /\ m \in Nat /\ m <= QueueDepth /\ m >= n - 1
      BY <1>6, <3>1
    <3>. HIDE DEF n, m
    <3>. QED  BY <1>0, <3>2, <3>3
  <2>2. CASE parse_pc \notin {"overflow", "evict"}
    BY <1>0, <2>2 DEF Freed
  <2>. QED  BY <2>1, <2>2
<1>8. Pending' = Pending
  BY <1>0 DEF Pending
<1>. QED  BY <1>0, <1>5, <1>7, <1>8, BalanceKept

\* Every other step frees no place and dispatches no packet.
LEMMA QuietBalance ==
  ASSUME LossInv, AccInv', UNCHANGED <<overflows, evicted>>, Dispatched' = Dispatched,
         \/ UNCHANGED <<queue, parse_pc, parse_pkt>>
         \/ parse_pc # "evict" /\ parse_pc' \notin {"overflow", "evict"}
         \/ parse_pc = "enqueue" /\ parse_pc' = "overflow" /\ Freed' = 0
  PROVE  LossInv'
<1>0. Freed \in Nat
  BY LossTypes
<1>1. Pending' = Pending
  BY DEF Pending
<1>2. Freed' = Freed \/ Freed' = 0
  BY DEF Freed, PriorityOf
<1>3. Freed' \in Nat /\ Freed' <= Freed
  BY <1>0, <1>2
<1>. QED  BY <1>1, <1>3, BalanceKept DEF LossInv

LEMMA ElsewhereBalance ==
  ASSUME LossInv, AccInv', Elsewhere, ~LogOverflow PROVE LossInv'
<1>0. TypeOK /\ UNCHANGED fate_vars
  BY LossTypes DEF Elsewhere
<1>1. evicted' = evicted /\ sent' = sent /\ refused' = refused
  BY <1>0 DEF fate_vars
<1>2. disp_pkt' = disp_pkt => Dispatched' = Dispatched
  BY <1>1 DEF Dispatched, Elems
<1>3. CASE Enqueue
  <2>1. overflows' = overflows /\ disp_pkt' = disp_pkt /\ parse_pc = "enqueue"
    BY <1>3 DEF Enqueue, log_vars, disp_vars
  <2>2. CASE parse_pc' = "recv"
    BY <1>1, <1>2, <2>1, <2>2, QuietBalance
  <2>3. CASE /\ ~HasRoom(parse_pkt)
             /\ parse_pc' = "overflow"
             /\ UNCHANGED <<queue, parse_pkt>>
    <3>1. PriorityOf(parse_pkt) \in Priority
      BY <1>0, <2>1, ClassOf DEF TypeOK
    <3>2. /\ Len(queue[PriorityOf(parse_pkt)]) \in Nat
          /\ Len(queue[PriorityOf(parse_pkt)]) <= QueueDepth
          /\ QueueDepth \in Nat
      BY <1>0, <3>1, BoundAssumption DEF TypeOK
    <3>3. Len(queue[PriorityOf(parse_pkt)]) = QueueDepth
      BY <2>3, <3>2 DEF HasRoom
    <3>4. Freed' = 0
      BY <2>3, <3>2, <3>3 DEF Freed, PriorityOf
    <3>. QED  BY <1>1, <1>2, <2>1, <2>3, <3>4, QuietBalance
  <2>. QED  BY <1>3, <2>2, <2>3 DEF Enqueue
<1>4. ASSUME NEW p \in Priority, TakeHead(p), disp_pc \in {"high", "low"},
             UNCHANGED <<parser_vars, overflows>>
      PROVE  LossInv'
  <2>1. disp_pkt = NoPacket
    BY <1>0, <1>4 DEF TypeOK
  <2>. QED  BY <1>0, <1>4, <2>1, TakeBalance
<1>5. CASE TryRecvHigh
  <2>1. /\ "High" \in Priority /\ UNCHANGED <<parser_vars, overflows>>
        /\ disp_pc = "high" /\ UNCHANGED <<parse_pc, parse_pkt>>
    BY <1>5 DEF Priority, TryRecvHigh, log_vars, parser_vars
  <2>2. CASE TakeHead("High")
    BY <1>4, <2>1, <2>2
  <2>3. CASE UNCHANGED <<queue, disp_pkt>>
    BY <1>1, <1>2, <2>1, <2>3, QuietBalance
  <2>. QED  BY <1>5, <2>2, <2>3 DEF TryRecvHigh
<1>6. CASE TryRecvLow
  <2>1. /\ "Low" \in Priority /\ UNCHANGED <<parser_vars, overflows>>
        /\ disp_pc = "low" /\ UNCHANGED <<parse_pc, parse_pkt>>
    BY <1>6 DEF Priority, TryRecvLow, log_vars, parser_vars
  <2>2. CASE TakeHead("Low")
    BY <1>4, <2>1, <2>2
  <2>3. CASE UNCHANGED <<queue, disp_pkt>>
    BY <1>1, <1>2, <2>1, <2>3, QuietBalance
  <2>. QED  BY <1>6, <2>2, <2>3 DEF TryRecvLow
<1>7. CASE ParserExits
  <2>1. /\ parse_pc = "recv" /\ parse_pc' = "done"
        /\ overflows' = overflows /\ disp_pkt' = disp_pkt
    BY <1>7 DEF ParserExits, log_vars, disp_vars
  <2>. QED  BY <1>1, <1>2, <2>1, QuietBalance
<1>8. CASE DispatchLoop \/ SetStop \/ OtherPipeline \/ Terminated
  <2>1. UNCHANGED <<queue, parse_pc, parse_pkt, disp_pkt, overflows>>
    BY <1>8 DEF DispatchLoop, SetStop, OtherPipeline, Terminated, vars,
                parser_vars, disp_vars, log_vars
  <2>. QED  BY <1>1, <1>2, <2>1, QuietBalance
<1>. QED  BY <1>3, <1>5, <1>6, <1>7, <1>8 DEF Elsewhere

LEMMA ForwardBalance ==
  ASSUME LossInv, AccInv', AForward PROVE LossInv'
<1>1. /\ disp_pkt \in Packet /\ disp_pkt # NoPacket /\ disp_pkt' = NoPacket
      /\ UNCHANGED <<queue, parse_pc, parse_pkt, overflows, evicted>>
  BY LossTypes DEF AForward, Forward, TypeOK, parser_vars, log_vars
<1>2. sent \in Seq(Packet)
  BY DEF LossInv, AccInv, Histories
<1>3. CASE sent' = Append(sent, disp_pkt) /\ refused' = refused
  <2>1. Elems(sent') = Elems(sent) \cup {disp_pkt}
    BY <1>1, <1>2, <1>3, ElemsAppend
  <2>2. Dispatched' = Dispatched
    BY <1>1, <1>3, <2>1 DEF Dispatched, Elems
  <2>. QED  BY <1>1, <2>2, QuietBalance
<1>4. CASE refused' = refused \cup {disp_pkt} /\ sent' = sent
  <2>1. Dispatched' = Dispatched
    BY <1>1, <1>4 DEF Dispatched, Elems
  <2>. QED  BY <1>1, <2>1, QuietBalance
<1>. QED  BY <1>3, <1>4 DEF AForward

LEMMA LossStep == LossInv /\ [ANext]_all_vars => LossInv'
<1>. SUFFICES ASSUME LossInv, [ANext]_all_vars PROVE LossInv'
  OBVIOUS
<1>0. AccInv'
  BY AccStep DEF LossInv
<1>1. CASE AReceive \/ ARetry
  <2>1. /\ parse_pc \in {"recv", "retry"} /\ parse_pc' \in {"enqueue", "recv"}
        /\ UNCHANGED <<overflows, evicted, disp_pkt, sent, refused>>
    BY <1>1 DEF AReceive, Receive, ARetry, Retry, log_vars, disp_vars
  <2>2. Dispatched' = Dispatched
    BY <2>1 DEF Dispatched, Elems
  <2>. QED  BY <1>0, <2>1, <2>2, QuietBalance
<1>2. CASE UNCHANGED all_vars
  <2>1. UNCHANGED <<queue, parse_pc, parse_pkt, disp_pkt, overflows, evicted, sent, refused>>
    BY <1>2 DEF all_vars, vars, fate_vars, parser_vars, disp_vars, log_vars
  <2>2. Dispatched' = Dispatched
    BY <2>1 DEF Dispatched, Elems
  <2>. QED  BY <1>0, <2>1, <2>2, QuietBalance
<1>3. CASE Elsewhere /\ LogOverflow
  BY <1>0, <1>3, LogBalance DEF Elsewhere
<1>. QED
  BY <1>0, <1>1, <1>2, <1>3, EvictBalance, ForwardBalance, ElsewhereBalance DEF ANext

\* The overflow counter never falls behind the evictions, and every overflow it
\* counts without an eviction stands for a whole queue of packets dispatched.
THEOREM LossesAreCounted == ASpec => []LossIsCounted
<1>1. AInit => LossInv
  <2>. SUFFICES ASSUME AInit PROVE LossInv
    OBVIOUS
  <2>1. Dispatched = {} /\ evicted = {} /\ overflows = 0 /\ parse_pc = "recv"
    BY DEF AInit, Init, Dispatched, Elems
  <2>2. Cardinality({}) = 0 /\ IsFiniteSet({})
    BY FS_EmptySet
  <2>3. Freed = 0 /\ Overcount = 0
    BY <2>1, <2>2 DEF Freed, Overcount, Pending
  <2>4. Balance
    BY <2>1, <2>2, <2>3, BoundAssumption DEF Balance
  <2>. QED  BY AccInit, <2>1, <2>2, <2>4 DEF LossInv
<1>2. LossInv => LossIsCounted
  <2>. SUFFICES ASSUME LossInv PROVE LossIsCounted
    OBVIOUS
  <2>1. /\ QueueDepth \in Nat /\ Cardinality(Dispatched) \in Nat
        /\ Overcount \in Int /\ Freed \in Nat
    BY LossTypes
  <2>2. Overcount * QueueDepth \in Int
    BY <2>1
  <2>. QED  BY <2>1, <2>2 DEF LossInv, Balance, LossIsCounted
<1>. QED  BY <1>1, <1>2, LossStep, PTL DEF ASpec
=============================================================================
