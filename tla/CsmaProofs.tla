----------------------------- MODULE CsmaProofs -----------------------------
(***************************************************************************)
(* Proofs about Csma, for any number of nodes, any lists of ranges and any *)
(* length of a simulation: what OneSender needs of the heap (HeapInv: it   *)
(* is ordered, and nodes set aside in a collision come back), and what     *)
(* TimeAccounted needs of the clock (TimeInv: what each part of an         *)
(* iteration still has to count).                                          *)
(***************************************************************************)
EXTENDS Csma, Least, SequenceTheorems

Elements(h) == {h[i] : i \in DOMAIN h}

(* No node of the heap comes after its children *)
Ordered(h, c) == \A i \in 2 .. Len(h) : c[h[i \div 2]] <= c[h[i]]

HeapInv ==
    /\ heap \in Seq(Ids) /\ again \in Seq(Ids) /\ cnt \in [Ids -> Nat]
    /\ Cardinality(Members) = Len(heap)
    /\ Ordered(heap, cnt)
    /\ pc \in {"loop", "decide"} => Len(heap) >= 3
    /\ pc = "collide" => Cardinality(Members \cup Elements(again)) >= 3

(* The nodes are counting down to the turn of the first *)
IdleInv ==
    pc = "loop" /\ ~ occupied /\ nextIdle > 0 => nextIdle = cnt[Candidate]

(* What the time so far is made up of *)
Spent == sendingTime + idleTime + collTime

TimeInv ==
    /\ time \in Nat /\ nextIdle \in Nat /\ packetLen \in Nat \ {0} /\ occupied \in BOOLEAN
    /\ sendingTime \in Int /\ idleTime \in Int /\ collTime \in Int
    /\ pc = "loop" =>
          /\ time = Spent + (IF occupied THEN packetLen ELSE nextIdle)
          /\ ~ occupied /\ nextIdle = 0 => time <= TolTime
    /\ pc = "decide" => ~ occupied /\ time = Spent /\ time < TolTime
    /\ pc = "collide" => ~ occupied /\ nextIdle = 0 /\ time = Spent /\ time <= TolTime
    /\ pc = "done" /\ runs > 0 => Spent = TolTime
    /\ runs \in Nat

(* What heapq leaves is a sequence of all the nodes, in order *)
LEMMA HeapsOf ==
    ASSUME NEW S \in SUBSET Ids, NEW c \in [Ids -> Nat], NEW h \in Heaps(S, c)
    PROVE  /\ h \in Seq(Ids) /\ Len(h) = Cardinality(S) /\ Elements(h) = S
           /\ Cardinality(Elements(h)) = Len(h)
           /\ Ordered(h, c)
  <1> DEFINE n == Cardinality(S)
  <1>1. IsFiniteSet(S) /\ n \in Nat
    BY CsmaAssumption, FS_Subset, FS_CardinalityType
  <1>2. /\ h \in [1 .. n -> S]
        /\ \A i, j \in 1 .. n : h[i] = h[j] => i = j
        /\ \A i \in 2 .. n : Before(c, h[i \div 2], h[i])
    BY DEF Heaps
  <1> HIDE DEF n
  <1>3. h \in Seq(S) /\ Len(h) = n /\ DOMAIN h = 1 .. n
    BY <1>1, <1>2
  <1>4. h \in Seq(Ids)
    BY <1>1, <1>2
  <1>5. Elements(h) = S
    <2>1. IsFiniteSet(1 .. n) /\ Cardinality(1 .. n) = n
      BY <1>1, FS_Interval
    <2>2. h \in Injection(1 .. n, S)
      BY <1>2 DEF Injection, IsInjective
    <2>3. h \in Surjection(1 .. n, S)
      BY <1>1, <2>1, <2>2, FS_Injection DEF n
    <2> QED
      BY <1>2, <2>3 DEF Elements, Surjection
  <1>6. Ordered(h, c)
    <2> SUFFICES ASSUME NEW i \in 2 .. n PROVE c[h[i \div 2]] <= c[h[i]]
      BY <1>3 DEF Ordered
    <2>1. i \div 2 \in 1 .. n /\ i \in 1 .. n
      BY <1>1
    <2>2. h[i \div 2] \in Ids /\ h[i] \in Ids
      BY <1>2, <2>1
    <2>3. Before(c, h[i \div 2], h[i]) /\ c[h[i \div 2]] \in Int /\ c[h[i]] \in Int
      BY <1>2, <2>2
    <2> QED
      BY <2>3 DEF Before
  <1> QED
    BY <1>3, <1>4, <1>5, <1>6 DEF n

(* In an ordered heap the second or the third node has the least count     *)
(* after the first                                                         *)
LEMMA SecondOrThird ==
    ASSUME NEW h \in Seq(Ids), NEW c \in [Ids -> Nat], Ordered(h, c), Len(h) >= 3,
           c[h[2]] > 0, c[h[3]] > 0
    PROVE  \A i \in 2 .. Len(h) : c[h[i]] > 0
  <1> DEFINE S == {i \in 2 .. Len(h) : ~ (c[h[i]] > 0)}
  <1> SUFFICES ASSUME S # {} PROVE FALSE
    OBVIOUS
  <1>1. PICK i \in S : \A j \in S : i <= j
    <2>1. S \in SUBSET Nat
      OBVIOUS
    <2> HIDE DEF S
    <2> QED
      BY <2>1, LeastNatural
  <1>2. i \in Nat /\ i <= Len(h) /\ Len(h) \in Nat /\ i >= 4
    <2>1. i # 2 /\ i # 3
      OBVIOUS
    <2> QED
      BY <2>1
  <1>3. i \div 2 \in Nat /\ i \div 2 >= 2 /\ i \div 2 < i
    BY <1>2
  <1>4. i \div 2 \in 2 .. Len(h) /\ i \div 2 \notin S
    BY <1>1, <1>2, <1>3
  <1>5. c[h[i \div 2]] > 0 /\ c[h[i \div 2]] <= c[h[i]]
    BY <1>2, <1>4 DEF Ordered
  <1>6. c[h[i]] \in Int /\ c[h[i \div 2]] \in Int
    <2>1. i \in 1 .. Len(h) /\ i \div 2 \in 1 .. Len(h)
      BY <1>2, <1>4
    <2>2. h[i] \in Ids /\ h[i \div 2] \in Ids
      BY <2>1
    <2> QED
      BY <2>2
  <1>7. ~ (c[h[i]] > 0)
    OBVIOUS
  <1> QED
    BY ONLY <1>5, <1>6, <1>7

(* The first node has the least count of all *)
LEMMA RootIsLeast ==
    ASSUME NEW h \in Seq(Ids), NEW c \in [Ids -> Nat], Ordered(h, c)
    PROVE  \A i \in 1 .. Len(h) : c[h[1]] <= c[h[i]]
  <1> DEFINE S == {i \in 1 .. Len(h) : ~ (c[h[1]] <= c[h[i]])}
  <1> SUFFICES ASSUME S # {} PROVE FALSE
    OBVIOUS
  <1>1. PICK i \in S : \A j \in S : i <= j
    <2>1. S \in SUBSET Nat
      OBVIOUS
    <2> HIDE DEF S
    <2> QED
      BY <2>1, LeastNatural
  <1>2. i \in Nat /\ i <= Len(h) /\ Len(h) \in Nat /\ i >= 1
    OBVIOUS
  <1>3. \A j \in 1 .. Len(h) : c[h[j]] \in Nat
    <2>1. \A j \in 1 .. Len(h) : h[j] \in Ids
      OBVIOUS
    <2> QED
      BY <2>1
  <1>4. 1 \in 1 .. Len(h) /\ i \in 1 .. Len(h)
    BY <1>2
  <1>5. i # 1
    <2>1. c[h[1]] <= c[h[1]]
      BY <1>3, <1>4
    <2> QED
      BY <2>1
  <1>6. i \div 2 \in 1 .. Len(h) /\ i \div 2 < i /\ i \in 2 .. Len(h)
    BY <1>2, <1>5
  <1>7. i \div 2 \notin S
    BY <1>1, <1>2, <1>6
  <1>8. c[h[1]] <= c[h[i \div 2]] /\ c[h[i \div 2]] <= c[h[i]]
    BY <1>6, <1>7 DEF Ordered
  <1>9. ~ (c[h[1]] <= c[h[i]])
    OBVIOUS
  <1>10. c[h[1]] \in Nat /\ c[h[i \div 2]] \in Nat /\ c[h[i]] \in Nat
    BY <1>3, <1>4, <1>6
  <1> QED
    BY ONLY <1>8, <1>9, <1>10

(* The same of the program's heap *)
LEMMA CandidateIsLeast ==
    ASSUME HeapInv, NEW n \in Members
    PROVE  cnt[Candidate] <= cnt[n] /\ cnt[Candidate] \in Nat /\ cnt[n] \in Nat /\ n \in Ids
  <1>1. heap \in Seq(Ids) /\ cnt \in [Ids -> Nat] /\ Ordered(heap, cnt)
    BY DEF HeapInv
  <1>2. PICK i \in 1 .. Len(heap) : n = heap[i]
    BY <1>1 DEF Members
  <1>3. cnt[heap[1]] <= cnt[n]
    BY <1>1, <1>2, RootIsLeast
  <1>4. n \in Ids /\ heap[1] \in Ids
    BY <1>1, <1>2
  <1> QED
    BY <1>1, <1>3, <1>4 DEF Candidate

(* A model is made without nodes *)
LEMMA HeapInit == Init => HeapInv
  <1> SUFFICES ASSUME Init PROVE HeapInv
    OBVIOUS
  <1> USE DEF Init
  <1>1. heap \in Seq(Ids) /\ again \in Seq(Ids) /\ Len(heap) = 0
    OBVIOUS
  <1>2. Members = {}
    BY DEF Members
  <1>3. Cardinality(Members) = 0
    BY <1>2, FS_EmptySet
  <1>4. cnt \in [Ids -> Nat] /\ Ordered(heap, cnt)
    BY <1>1 DEF Ordered
  <1> QED
    BY <1>1, <1>3, <1>4 DEF HeapInv

(* The first of the heap is a node *)
LEMMA CandidateOf ==
    ASSUME heap \in Seq(Ids), heap # << >>
    PROVE  Candidate \in Ids /\ Candidate \in Members
  BY DEF Candidate, Members

(* simulate starts with as many nodes as asked for, in order *)
LEMMA HeapStart == HeapInv /\ Simulate => HeapInv'
  <1> SUFFICES ASSUME HeapInv, Simulate PROVE HeapInv'
    OBVIOUS
  <1>1. PICK N \in Sizes, L \in PacketLens, R \in RLists : Reinitialize(N, L, R)
    BY DEF Simulate
  <1>2. N \in Nat /\ N >= 3 /\ N <= Cardinality(Ids) /\ Cardinality(Ids) \in Nat
    BY CsmaAssumption, FS_CardinalityType
  <1>3. heap \in Seq(Ids) /\ DOMAIN heap = 1 .. Len(heap) /\ Len(heap) \in Nat
    BY DEF HeapInv
  <1>4. Nodes(N) \in SUBSET Ids
    <2>1. CASE N <= Len(heap)
      <3>1. \A i \in 1 .. N : heap[i] \in Ids
        BY <1>2, <1>3, <2>1
      <3> QED
        BY <2>1, <3>1 DEF Nodes
    <2>2. CASE ~ (N <= Len(heap))
      <3>1. (Len(heap) .. N - 1) \subseteq 0 .. Cardinality(Ids) - 1
        BY <1>2, <1>3
      <3>2. (Len(heap) .. N - 1) \subseteq Ids
        BY <3>1, CsmaAssumption
      <3>3. Members \subseteq Ids
        BY <1>3 DEF Members
      <3> QED
        BY <2>2, <3>2, <3>3 DEF Nodes
    <2> QED
      BY <2>1, <2>2
  <1>5. /\ Cardinality(Nodes(N)) = N /\ heap' \in Heaps(Nodes(N), cnt')
        /\ cnt' \in [Ids -> Nat]
    BY <1>1 DEF Reinitialize
  <1>6. /\ heap' \in Seq(Ids) /\ Len(heap') = N /\ Cardinality(Elements(heap')) = Len(heap')
        /\ Ordered(heap', cnt')
    BY <1>4, <1>5, HeapsOf
  <1>7. Members' = Elements(heap')
    BY DEF Members, Elements
  <1>8. pc' = "loop" /\ again' \in Seq(Ids)
    BY DEF Simulate
  <1> QED
    BY <1>2, <1>5, <1>6, <1>7, <1>8 DEF HeapInv

(* The sender draws a new count and finds its place again *)
LEMMA HeapSent == HeapInv /\ SentPacket => HeapInv'
  <1> SUFFICES ASSUME HeapInv, SentPacket PROVE HeapInv'
    OBVIOUS
  <1> USE DEF HeapInv
  <1>1. Len(heap) >= 3 /\ again' = again /\ pc' = "decide"
    BY DEF SentPacket, InLoop
  <1>2. cnt' \in [Ids -> Nat]
    BY DEF SentPacket, BackOff
  <1>3. Members \in SUBSET Ids
    BY DEF Members
  <1>4. heap' \in Heaps(Members, cnt')
    BY DEF SentPacket
  <1>5. /\ heap' \in Seq(Ids) /\ Len(heap') = Cardinality(Members)
        /\ Cardinality(Elements(heap')) = Len(heap') /\ Ordered(heap', cnt')
    BY <1>2, <1>3, <1>4, HeapsOf
  <1>6. Members' = Elements(heap')
    BY DEF Members, Elements
  <1> QED
    BY <1>1, <1>2, <1>5, <1>6

(* Counting down all nodes of the heap alike keeps its order *)
LEMMA HeapCountedDown ==
    ASSUME HeapInv, IdleInv, CountedDown, nextIdle \in Nat
    PROVE  HeapInv'
  <1> USE DEF HeapInv
  <1>1. /\ pc' = "decide" /\ pc = "loop" /\ heap' = heap /\ again' = again
        /\ cnt' = [n \in Ids |-> IF n \in Members THEN cnt[n] - nextIdle ELSE cnt[n]]
    BY DEF CountedDown, InLoop
  <1>2. cnt' \in [Ids -> Nat]
    <2>1. nextIdle = cnt[Candidate]
      BY DEF CountedDown, InLoop, IdleInv
    <2>2. ASSUME NEW n \in Ids PROVE cnt'[n] \in Nat
      <3>1. CASE n \in Members
        <4>1. nextIdle <= cnt[n] /\ cnt[n] \in Nat
          BY <2>1, <3>1, CandidateIsLeast
        <4>2. cnt'[n] = cnt[n] - nextIdle
          BY <1>1, <3>1
        <4> QED
          BY <4>1, <4>2
      <3>2. CASE n \notin Members
        BY <1>1, <3>2
      <3> QED
        BY <3>1, <3>2
    <2> QED
      BY <1>1, <2>2
  <1>3. ASSUME NEW i \in 2 .. Len(heap) PROVE cnt'[heap[i \div 2]] <= cnt'[heap[i]]
    <2>1. i \in 1 .. Len(heap) /\ i \div 2 \in 1 .. Len(heap)
      OBVIOUS
    <2>2. heap[i] \in Members /\ heap[i \div 2] \in Members /\ Members \subseteq Ids
      BY <2>1 DEF Members
    <2>3. cnt[heap[i \div 2]] <= cnt[heap[i]]
      BY DEF Ordered
    <2>4. cnt[heap[i]] \in Int /\ cnt[heap[i \div 2]] \in Int
      BY <2>2
    <2>5. /\ cnt'[heap[i]] = cnt[heap[i]] - nextIdle
          /\ cnt'[heap[i \div 2]] = cnt[heap[i \div 2]] - nextIdle
      BY <1>1, <2>2
    <2> QED
      BY <2>3, <2>4, <2>5
  <1>4. Ordered(heap', cnt')
    BY <1>1, <1>3 DEF Ordered
  <1>5. Members' = Members
    BY <1>1 DEF Members
  <1> QED
    BY <1>1, <1>2, <1>4, <1>5

(* A node that backs off stays in the heap or is set aside *)
LEMMA HeapBacksOff == HeapInv /\ BacksOff => HeapInv'
  <1> SUFFICES ASSUME HeapInv, BacksOff PROVE HeapInv'
    OBVIOUS
  <1> USE DEF HeapInv
  <1> DEFINE n == Candidate
  <1>1. pc = "collide" /\ pc' = pc /\ heap # << >>
    BY DEF BacksOff
  <1>2. n \in Ids /\ n \in Members /\ Members \in SUBSET Ids
    BY <1>1, CandidateOf DEF Members
  <1>3. cnt' \in [Ids -> Nat]
    <2>1. PICK v \in 0 .. rList[rid'[n] + 1] : cnt' = [cnt EXCEPT ![n] = v]
      BY DEF BacksOff, BackOff
    <2>2. v \in Nat
      OBVIOUS
    <2> QED
      BY <1>2, <2>1, <2>2
  <1>4. SetAside(n, cnt')
    BY DEF BacksOff
  <1> HIDE DEF n
  <1>5. Members' = Elements(heap')
    BY DEF Members, Elements
  <1>6. CASE cnt'[n] < 1
    <2>1. heap' \in Heaps(Members \ {n}, cnt') /\ again' = Append(again, n)
      BY <1>4, <1>6 DEF SetAside
    <2>2. Members \ {n} \in SUBSET Ids
      BY <1>2
    <2>3. /\ heap' \in Seq(Ids) /\ Elements(heap') = Members \ {n}
          /\ Cardinality(Elements(heap')) = Len(heap') /\ Ordered(heap', cnt')
      BY <1>3, <2>1, <2>2, HeapsOf
    <2>4. again' \in Seq(Ids) /\ Elements(again') = Elements(again) \cup {n}
      <3>1. again' \in Seq(Ids) /\ Len(again') = Len(again) + 1 /\ Len(again) \in Nat
        BY <1>2, <2>1, AppendProperties
      <3>2. /\ again'[Len(again) + 1] = n
            /\ \A i \in 1 .. Len(again) : again'[i] = again[i]
        BY <1>2, <2>1, AppendProperties
      <3>3. DOMAIN again = 1 .. Len(again) /\ DOMAIN again' = 1 .. Len(again) + 1
        BY <3>1
      <3>4. \A i \in 1 .. Len(again) + 1 : i \in 1 .. Len(again) \/ i = Len(again) + 1
        BY <3>1
      <3>5. Len(again) + 1 \in 1 .. Len(again) + 1 /\ 1 .. Len(again) \subseteq 1 .. Len(again) + 1
        BY <3>1
      <3> QED
        BY <3>1, <3>2, <3>3, <3>4, <3>5 DEF Elements
    <2>5. Members' \cup Elements(again') = Members \cup Elements(again)
      BY <1>2, <1>5, <2>3, <2>4
    <2> QED
      BY <1>1, <1>3, <1>5, <2>3, <2>4, <2>5
  <1>7. CASE ~ (cnt'[n] < 1)
    <2>1. heap' \in Heaps(Members, cnt') /\ again' = again
      BY <1>4, <1>7 DEF SetAside
    <2>2. /\ heap' \in Seq(Ids) /\ Elements(heap') = Members
          /\ Cardinality(Elements(heap')) = Len(heap') /\ Ordered(heap', cnt')
      BY <1>2, <1>3, <2>1, HeapsOf
    <2> QED
      BY <1>1, <1>3, <1>5, <2>1, <2>2
  <1> QED
    BY <1>6, <1>7

(* All nodes that collided are back *)
LEMMA HeapEndCollision == HeapInv /\ EndCollision => HeapInv'
  <1> SUFFICES ASSUME HeapInv, EndCollision PROVE HeapInv'
    OBVIOUS
  <1> USE DEF HeapInv
  <1> DEFINE S == Members \cup Elements(again)
  <1>1. /\ pc = "collide" /\ pc' = "loop" /\ again' = << >> /\ cnt' = cnt
        /\ heap' \in Heaps(S, cnt)
    BY DEF EndCollision, Elements, nodeVars
  <1>2. S \in SUBSET Ids
    <2>1. Members \subseteq Ids
      BY DEF Members
    <2>2. Elements(again) \subseteq Ids
      BY DEF Elements
    <2> QED
      BY <2>1, <2>2
  <1>3. Cardinality(S) >= 3
    BY <1>1
  <1> HIDE DEF S
  <1>4. /\ heap' \in Seq(Ids) /\ Len(heap') = Cardinality(S)
        /\ Cardinality(Elements(heap')) = Len(heap') /\ Ordered(heap', cnt)
    BY <1>1, <1>2, HeapsOf
  <1>5. Members' = Elements(heap')
    BY DEF Members, Elements
  <1>6. again' \in Seq(Ids)
    BY <1>1
  <1> QED
    BY <1>1, <1>3, <1>4, <1>5, <1>6

(* A collision starts with all nodes in the heap *)
LEMMA HeapCollide == HeapInv /\ Collide => HeapInv'
  <1> SUFFICES ASSUME HeapInv, Collide PROVE HeapInv'
    OBVIOUS
  <1> USE DEF HeapInv
  <1>1. /\ pc = "decide" /\ pc' = "collide" /\ again' = << >> /\ cnt' = cnt /\ heap' = heap
    BY DEF Collide, nodeVars
  <1>2. Members' = Members /\ Elements(again') = {} /\ again' \in Seq(Ids)
    BY <1>1 DEF Members, Elements
  <1>3. Members' \cup Elements(again') = Members
    BY <1>2
  <1>4. /\ heap' \in Seq(Ids) /\ cnt' \in [Ids -> Nat]
        /\ Cardinality(Members') = Len(heap') /\ Ordered(heap', cnt')
    BY <1>1, <1>2
  <1>5. Cardinality(Members' \cup Elements(again')) >= 3
    BY <1>1, <1>3
  <1> QED
    BY ONLY <1>1, <1>2, <1>4, <1>5 DEF HeapInv

(* Every step preserves what is known of the heap *)
LEMMA HeapNext == HeapInv /\ TimeInv /\ IdleInv /\ [Next]_vars => HeapInv'
  <1> SUFFICES ASSUME HeapInv, TimeInv, IdleInv, [Next]_vars PROVE HeapInv'
    OBVIOUS
  <1>1. ASSUME heap' = heap, again' = again, cnt' = cnt,
               pc' \in {"loop", "decide"} => pc \in {"loop", "decide"},
               pc' = "collide" => pc = "collide"
        PROVE  HeapInv'
    <2>1. Members' = Members
      BY <1>1 DEF Members
    <2> QED
      BY <1>1, <2>1 DEF HeapInv
  <1>2. CASE Simulate
    BY <1>2, HeapStart
  <1>3. CASE SentPacket
    BY <1>3, HeapSent
  <1>4. CASE CountedDown
    BY <1>4, HeapCountedDown DEF TimeInv
  <1>5. CASE NothingEnded
    BY <1>1, <1>5 DEF NothingEnded, InLoop, nodeVars
  <1>6. CASE CountDown
    BY <1>1, <1>6 DEF CountDown, nodeVars
  <1>7. CASE Collide
    BY <1>7, HeapCollide
  <1>8. CASE Transmit
    BY <1>1, <1>8 DEF Transmit, nodeVars
  <1>9. CASE BacksOff
    BY <1>9, HeapBacksOff
  <1>10. CASE EndCollision
    BY <1>10, HeapEndCollision
  <1>11. CASE Crash
    BY <1>1, <1>11 DEF Crash, nodeVars
  <1>12. CASE Finish
    BY <1>1, <1>12 DEF Finish, nodeVars
  <1>13. CASE UNCHANGED vars
    BY <1>1, <1>13 DEF vars, nodeVars
  <1> QED
    BY <1>2, <1>3, <1>4, <1>5, <1>6, <1>7, <1>8, <1>9, <1>10, <1>11, <1>12, <1>13
       DEF Next, Iteration, Stop

-----------------------------------------------------------------------------
(* Nothing has been simulated *)
LEMMA TimeInit == Init => TimeInv
  <1> SUFFICES ASSUME Init PROVE TimeInv
    OBVIOUS
  <1>1. packetLen \in Nat \ {0}
    BY CsmaAssumption DEF Init
  <1>2. /\ time = 0 /\ nextIdle = 0 /\ occupied = FALSE /\ runs = 0 /\ pc = "done"
        /\ sendingTime = 0 /\ idleTime = 0 /\ collTime = 0
    BY DEF Init
  <1>3. occupied \in BOOLEAN
    BY <1>2
  <1>4. /\ time \in Nat /\ nextIdle \in Nat /\ runs \in Nat /\ ~ (runs > 0)
        /\ sendingTime \in Int /\ idleTime \in Int /\ collTime \in Int
        /\ pc # "loop" /\ pc # "decide" /\ pc # "collide"
    BY <1>2
  <1> QED
    BY ONLY <1>1, <1>3, <1>4 DEF TimeInv

(* Every step preserves what is known of the clock *)
LEMMA TimeNext == HeapInv /\ TimeInv /\ [Next]_vars => TimeInv'
  <1> SUFFICES ASSUME HeapInv, TimeInv, [Next]_vars PROVE TimeInv'
    OBVIOUS
  <1> USE DEF TimeInv, Spent
  <1>0. TolTime \in Nat
    BY CsmaAssumption
  <1>1. CASE Simulate
    <2>1. packetLen' \in Nat \ {0}
      BY <1>1, CsmaAssumption DEF Simulate, Reinitialize
    <2>2. sendingTime' = 0 /\ idleTime' = 0 /\ collTime' = 0
      BY <1>1 DEF Simulate, Reinitialize
    <2>3. /\ time' = 0 /\ nextIdle' = 0 /\ occupied' = FALSE /\ pc' = "loop"
          /\ runs' = runs + 1 /\ runs \in Nat
      BY <1>1 DEF Simulate
    <2>4. occupied' \in BOOLEAN /\ ~ occupied'
      BY <2>3
    <2>5. /\ time' \in Nat /\ nextIdle' \in Nat /\ runs' \in Nat
          /\ sendingTime' \in Int /\ idleTime' \in Int /\ collTime' \in Int
          /\ Spent' = 0 /\ time' = Spent' + nextIdle' /\ time' <= TolTime
          /\ pc' = "loop"
      BY <1>0, <2>2, <2>3
    <2> QED
      BY ONLY <2>1, <2>4, <2>5 DEF TimeInv
  <1>2. CASE SentPacket
    <2>1. /\ pc = "loop" /\ time < TolTime /\ occupied /\ pc' = "decide"
          /\ sendingTime' = sendingTime + packetLen
          /\ UNCHANGED <<packetLen, runs, time, nextIdle, idleTime, collTime>>
      BY <1>2 DEF SentPacket, InLoop, config
    <2>2. occupied' \in BOOLEAN /\ ~ occupied'
      BY <1>2 DEF SentPacket
    <2>3. /\ Spent' = time' /\ time' \in Nat /\ nextIdle' \in Nat /\ packetLen' \in Nat \ {0}
          /\ runs' \in Nat /\ time' < TolTime
          /\ sendingTime' \in Int /\ idleTime' \in Int /\ collTime' \in Int
      BY <2>1
    <2> QED
      BY ONLY <2>1, <2>2, <2>3 DEF TimeInv
  <1>3. CASE CountedDown
    BY <1>0, <1>3 DEF CountedDown, InLoop, config
  <1>4. CASE NothingEnded
    BY <1>0, <1>4 DEF NothingEnded, InLoop, config, sums
  <1>5. CASE CountDown
    <2>1. pc = "decide" /\ heap \in Seq(Ids) /\ heap # << >> /\ cnt \in [Ids -> Nat]
      BY <1>5 DEF CountDown, HeapInv
    <2>2. nextIdle' \in Nat /\ nextIdle' > 0
      BY <1>5, <2>1, CandidateOf DEF CountDown
    <2> QED
      BY <1>0, <1>5, <2>2 DEF CountDown, config, sums
  <1>6. CASE Collide
    <2>1. pc = "decide" /\ heap \in Seq(Ids) /\ heap # << >> /\ cnt \in [Ids -> Nat]
      BY <1>6 DEF Collide, HeapInv
    <2>2. nextIdle' = 0
      BY <1>6, <2>1, CandidateOf DEF Collide
    <2> QED
      BY <1>0, <1>6, <2>2 DEF Collide, config
  <1>7. CASE Transmit
    <2>1. pc = "decide" /\ heap \in Seq(Ids) /\ heap # << >> /\ cnt \in [Ids -> Nat]
      BY <1>7 DEF Transmit, HeapInv
    <2>2. nextIdle' = 0
      BY <1>7, <2>1, CandidateOf DEF Transmit
    <2> QED
      BY <1>0, <1>7, <2>2 DEF Transmit, config, sums
  <1>8. CASE BacksOff
    BY <1>0, <1>8 DEF BacksOff, config, sums
  <1>9. CASE EndCollision
    BY <1>0, <1>9 DEF EndCollision, config, sums
  <1>10. CASE Crash
    BY <1>0, <1>10 DEF Crash, config, sums
  <1>11. CASE Finish
    <2>1. /\ pc = "loop" /\ pc' = "done" /\ time >= TolTime
          /\ sendingTime' = sendingTime + (IF occupied THEN CutOff(packetLen) ELSE 0)
          /\ idleTime' = idleTime +
                 (IF ~ occupied /\ nextIdle > 0 THEN CutOff(nextIdle) ELSE 0)
          /\ collTime' = collTime
          /\ UNCHANGED <<time, occupied, nextIdle, packetLen, runs>>
      BY <1>11 DEF Finish, config
    <2>2. Spent' = TolTime /\ sendingTime' \in Int /\ idleTime' \in Int
      <3>1. CASE occupied
        BY <1>0, <2>1, <3>1 DEF CutOff
      <3>2. CASE ~ occupied /\ nextIdle > 0
        BY <1>0, <2>1, <3>2 DEF CutOff
      <3>3. CASE ~ occupied /\ ~ (nextIdle > 0)
        BY <1>0, <2>1, <3>3
      <3> QED
        BY <3>1, <3>2, <3>3
    <2> QED
      BY <2>1, <2>2
  <1>12. CASE UNCHANGED vars
    BY <1>12 DEF vars, config, sums
  <1> QED
    BY <1>1, <1>2, <1>3, <1>4, <1>5, <1>6, <1>7, <1>8, <1>9, <1>10, <1>11, <1>12
       DEF Next, Iteration, Stop

(* Only CountDown starts to count down, and by the count of the candidate *)
LEMMA IdleNext == TimeInv /\ IdleInv /\ [Next]_vars => IdleInv'
  <1> SUFFICES ASSUME TimeInv, IdleInv, [Next]_vars,
                      pc' = "loop", ~ occupied', nextIdle' > 0
               PROVE  nextIdle' = cnt'[Candidate']
    BY DEF IdleInv
  <1>1. CASE CountDown
    BY <1>1 DEF CountDown, Candidate, nodeVars
  <1>2. CASE EndCollision
    BY <1>2 DEF EndCollision, TimeInv
  <1>3. CASE UNCHANGED vars
    BY <1>3 DEF vars, nodeVars, IdleInv, Candidate
  <1> QED
    BY <1>1, <1>2, <1>3 DEF Next, Iteration, Stop, Simulate, SentPacket, CountedDown,
       NothingEnded, Collide, Transmit, BacksOff, Crash, Finish

(* The invariants hold throughout *)
LEMMA CInvHolds == Spec => [](HeapInv /\ TimeInv /\ IdleInv)
  <1>1. Init => IdleInv
    BY DEF Init, IdleInv
  <1> QED
    BY <1>1, HeapInit, TimeInit, HeapNext, TimeNext, IdleNext, PTL DEF Spec

(* No node counts below 0 (count_down_val -= next_idle_time is for all     *)
(* nodes what the first of the heap has left), so that no node's turn is   *)
(* passed over.                                                            *)
THEOREM CountsStayNatural == Spec => [](\A n \in Ids : cnt[n] \in Nat)
  <1>1. HeapInv => \A n \in Ids : cnt[n] \in Nat
    BY DEF HeapInv
  <1> QED
    BY <1>1, CInvHolds, PTL

(* Every unit of simulated time is counted once, also of the event that is *)
(* cut off at the end and in a simulation that follows another (simulate), *)
(* for any number of nodes and any configuration.                          *)
THEOREM TimeIsAccounted == Spec => []TimeAccounted
  <1>1. TimeInv => TimeAccounted
    BY DEF TimeInv, Spent, TimeAccounted
  <1> QED
    BY <1>1, CInvHolds, PTL

(* Only Transmit gives the channel to a node, and nothing else changes     *)
(* counts until it is over                                                 *)
LEMMA OneSenderNext == HeapInv /\ TimeInv /\ OneSender /\ [Next]_vars => OneSender'
  <1> SUFFICES ASSUME HeapInv, TimeInv, OneSender, [Next]_vars, occupied'
               PROVE  \A n \in Members' \ {Candidate'} : cnt'[n] > 0
    BY DEF OneSender
  <1>1. CASE Transmit
    <2>1. /\ heap' = heap /\ cnt' = cnt /\ pc = "decide"
          /\ ~ (cnt[heap[2]] < 1) /\ ~ (cnt[heap[3]] < 1)
      BY <1>1 DEF Transmit, nodeVars, OthersTimeout, HasTimeout
    <2>2. /\ heap \in Seq(Ids) /\ cnt \in [Ids -> Nat] /\ Ordered(heap, cnt)
          /\ Len(heap) >= 3 /\ Len(heap) \in Nat
      BY <2>1 DEF HeapInv
    <2>3. cnt[heap[2]] > 0 /\ cnt[heap[3]] > 0
      BY <2>1, <2>2
    <2>4. \A i \in 2 .. Len(heap) : cnt[heap[i]] > 0
      BY <2>2, <2>3, SecondOrThird
    <2>5. \A n \in Members \ {heap[1]} : \E i \in 2 .. Len(heap) : n = heap[i]
      BY <2>2 DEF Members
    <2> QED
      BY <2>1, <2>4, <2>5 DEF Members, Candidate
  <1>2. ASSUME occupied, heap' = heap, cnt' = cnt
        PROVE  \A n \in Members' \ {Candidate'} : cnt'[n] > 0
    BY <1>2 DEF OneSender, Members, Candidate
  <1>3. CASE Finish
    BY <1>2, <1>3 DEF Finish, nodeVars
  <1>4. CASE UNCHANGED vars
    BY <1>2, <1>4 DEF vars, nodeVars
  <1>5. CASE Crash
    BY <1>2, <1>5 DEF Crash, nodeVars
  <1>6. ~ Simulate /\ ~ SentPacket /\ ~ CountedDown /\ ~ NothingEnded
    BY DEF Simulate, SentPacket, CountedDown, NothingEnded
  <1>7. ~ CountDown /\ ~ Collide
    BY DEF CountDown, Collide, TimeInv
  <1>8. ~ BacksOff /\ ~ EndCollision
    BY DEF BacksOff, EndCollision, TimeInv
  <1> QED
    BY <1>1, <1>3, <1>4, <1>5, <1>6, <1>7, <1>8 DEF Next, Iteration, Stop

(* While a node transmits, it is nobody else's turn: looking at two places *)
(* of the heap (the second if-elif of simulate) finds every collision, for *)
(* any number of nodes.                                                    *)
THEOREM OneSenderHolds == Spec => []OneSender
  <1>1. Init => OneSender
    BY DEF Init, OneSender
  <1> QED
    BY <1>1, CInvHolds, OneSenderNext, PTL DEF Spec

-----------------------------------------------------------------------------
(* One more, counted by one node *)
LEMMA CountedMore ==
    ASSUME NEW f \in [Ids -> Nat], NEW n \in Ids, IsFiniteSet(Counted(f))
    PROVE  LET g == [f EXCEPT ![n] = @ + 1]
           IN  /\ IsFiniteSet(Counted(g))
               /\ Cardinality(Counted(g)) = Cardinality(Counted(f)) + 1
  <1> DEFINE g == [f EXCEPT ![n] = @ + 1]
             one == <<n, f[n] + 1>>
  <1>1. \A m \in Ids : \A k : <<m, k>> \in Counted(f) <=> k \in 1 .. f[m]
    BY DEF Counted
  <1>2. \A m \in Ids : \A k : <<m, k>> \in Counted(g) <=> k \in 1 .. g[m]
    BY DEF Counted
  <1>3. one \notin Counted(f)
    <2>1. f[n] + 1 \notin 1 .. f[n]
      OBVIOUS
    <2> QED
      BY <1>1, <2>1
  <1>4. /\ g[n] = f[n] + 1 /\ \A m \in Ids : m # n => g[m] = f[m]
        /\ f[n] \in Nat
    OBVIOUS
  <1>5. \A k : k \in 1 .. g[n] <=> (k \in 1 .. f[n] \/ k = f[n] + 1)
    BY <1>4
  <1>6. \A m \in Ids : \A k : <<m, k>> \in Counted(g) <=> (<<m, k>> \in Counted(f) \/ <<m, k>> = one)
    <2> SUFFICES ASSUME NEW m \in Ids, NEW k
                 PROVE  <<m, k>> \in Counted(g) <=> (<<m, k>> \in Counted(f) \/ <<m, k>> = one)
      OBVIOUS
    <2> HIDE DEF g
    <2>1. CASE m = n
      BY <1>1, <1>2, <1>5, <2>1
    <2>2. CASE m # n
      BY <1>1, <1>2, <1>4, <2>2
    <2> QED
      BY <2>1, <2>2
  <1>7. /\ \A c \in Counted(g) : \E m \in Ids, k \in Nat : c = <<m, k>>
        /\ \A c \in Counted(f) : \E m \in Ids, k \in Nat : c = <<m, k>>
    BY DEF Counted
  <1> HIDE DEF g
  <1>8. Counted(g) = Counted(f) \cup {one}
    BY <1>6, <1>7
  <1>9. /\ IsFiniteSet(Counted(f) \cup {one})
        /\ Cardinality(Counted(f) \cup {one}) = Cardinality(Counted(f)) + 1
    BY <1>3, FS_AddElement
  <1> QED
    BY <1>8, <1>9 DEF g

(* Nothing counted *)
LEMMA CountedNone ==
    LET z == [n \in Ids |-> 0]
    IN  z \in [Ids -> Nat] /\ IsFiniteSet(Counted(z)) /\ Cardinality(Counted(z)) = 0
  <1> DEFINE z == [n \in Ids |-> 0]
  <1>1. Counted(z) = {}
    <2>1. \A n \in Ids : {n} \X (1 .. z[n]) = {}
      OBVIOUS
    <2> QED
      BY <2>1 DEF Counted
  <1> QED
    BY <1>1, FS_EmptySet

-----------------------------------------------------------------------------
(***************************************************************************)
(* Collisions: what is still to be counted in one is as many nodes as are  *)
(* ready, each of which has not counted it.                                *)
(***************************************************************************)
CountInv ==
    /\ colls \in [Ids -> Nat] /\ IsFiniteSet(Counted(colls)) /\ collTime \in Nat
    /\ \A n \in Ids : colls[n] <= collTime
    /\ pc \in {"loop", "decide", "done"} => Cardinality(Counted(colls)) >= 2 * collTime
    /\ pc = "collide" =>
          /\ \A n \in Ready : colls[n] < collTime
          /\ Cardinality(Counted(colls)) + Cardinality(Ready) >= 2 * collTime

(* The nodes that are ready are some of the nodes *)
LEMMA ReadyFinite ==
    ASSUME HeapInv
    PROVE  Ready \in SUBSET Ids /\ IsFiniteSet(Ready) /\ Cardinality(Ready) \in Nat
           /\ Cardinality(Ready) <= Cardinality(Ids)
  <1>1. Members \subseteq Ids
    BY DEF HeapInv, Members
  <1>2. Ready \in SUBSET Ids /\ IsFiniteSet(Ids)
    BY <1>1, CsmaAssumption DEF Ready
  <1> QED
    BY <1>2, FS_Subset, FS_CardinalityType

(* No node is in the heap twice *)
LEMMA HeapDistinct ==
    ASSUME HeapInv
    PROVE  \A i, j \in 1 .. Len(heap) : heap[i] = heap[j] => i = j
  <1>1. heap \in Seq(Ids) /\ Len(heap) \in Nat /\ DOMAIN heap = 1 .. Len(heap)
    BY DEF HeapInv
  <1> DEFINE D == 1 .. Len(heap)
  <1>2. IsFiniteSet(D) /\ Cardinality(D) = Cardinality(Members)
    <2>1. IsFiniteSet(D) /\ Cardinality(D) = IF 1 > Len(heap) THEN 0 ELSE Len(heap) - 1 + 1
      BY <1>1, FS_Interval
    <2>2. Cardinality(D) = Len(heap)
      BY ONLY <1>1, <2>1
    <2> QED
      BY <2>1, <2>2 DEF HeapInv
  <1>3. heap \in Surjection(D, Members)
    BY <1>1 DEF Surjection, Members
  <1> HIDE DEF D
  <1>4. heap \in Injection(D, Members)
    BY <1>2, <1>3, FS_SurjSameCardinalityImpliesInj
  <1> QED
    BY <1>4 DEF Injection, IsInjective, D

(* A collision is one of two nodes at least *)
LEMMA TwoReady ==
    ASSUME HeapInv, pc = "decide", cnt[Candidate] <= 0, OthersTimeout
    PROVE  Cardinality(Ready) >= 2
  <1>1. heap \in Seq(Ids) /\ Len(heap) >= 3 /\ Len(heap) \in Nat
    BY DEF HeapInv
  <1>2. cnt[heap[1]] < 1
    <2>1. 1 \in 1 .. Len(heap)
      BY <1>1
    <2>2. heap[1] \in Ids
      BY <1>1, <2>1
    <2> QED
      BY <2>2 DEF Candidate, HeapInv
  <1>3. PICK i \in {2, 3} : cnt[heap[i]] < 1
    BY DEF OthersTimeout, HasTimeout
  <1>4. 1 \in 1 .. Len(heap) /\ i \in 1 .. Len(heap) /\ i # 1
    BY <1>1
  <1>5. heap[1] # heap[i]
    BY <1>4, HeapDistinct
  <1>6. heap[1] \in Ready /\ heap[i] \in Ready
    BY <1>1, <1>2, <1>3, <1>4 DEF Ready, Members, HasTimeout
  <1> DEFINE one == {heap[1]}
             two == {heap[1]} \cup {heap[i]}
  <1>7. IsFiniteSet(one) /\ Cardinality(one) = 1 /\ heap[i] \notin one
    BY <1>5, FS_Singleton
  <1> HIDE DEF one
  <1>8. Cardinality(two) = 2
    <2>1. two = one \cup {heap[i]}
      BY DEF one
    <2>2. Cardinality(one \cup {heap[i]}) = Cardinality(one) + 1
      BY <1>7, FS_AddElement
    <2> QED
      BY <1>7, <2>1, <2>2
  <1>9. two \in SUBSET Ready
    BY <1>6
  <1> HIDE DEF two
  <1>10. Cardinality(two) <= Cardinality(Ready)
    BY <1>9, ReadyFinite, FS_Subset
  <1> QED
    BY <1>8, <1>10, ReadyFinite

(* Whether it draws 0 or more, a node that backs off is no longer ready *)
LEMMA BacksOffReady ==
    ASSUME HeapInv, BacksOff
    PROVE  Candidate \in Ready /\ Ready' = Ready \ {Candidate}
  <1> DEFINE n == Candidate
  <1>1. /\ pc = "collide" /\ heap # << >> /\ cnt[n] < 1 /\ heap \in Seq(Ids)
        /\ cnt \in [Ids -> Nat]
    BY DEF BacksOff, HasTimeout, HeapInv
  <1>2. n \in Ids /\ n \in Members /\ Members \in SUBSET Ids
    BY <1>1, CandidateOf DEF Members
  <1>3. PICK v \in 0 .. rList[rid'[n] + 1] : cnt' = [cnt EXCEPT ![n] = v]
    BY DEF BacksOff, BackOff
  <1>4. v \in Nat /\ cnt' \in [Ids -> Nat] /\ cnt'[n] = v
        /\ \A m \in Ids : m # n => cnt'[m] = cnt[m]
    BY <1>1, <1>2, <1>3
  <1>5. SetAside(n, cnt')
    BY DEF BacksOff
  <1>6. n \in Ready
    BY <1>1, <1>2 DEF Ready, HasTimeout
  <1> HIDE DEF n
  <1>7. Members' = Elements(heap')
    BY DEF Members, Elements
  <1>8. CASE v < 1
    <2>1. heap' \in Heaps(Members \ {n}, cnt')
      BY <1>4, <1>5, <1>8 DEF SetAside
    <2>2. Members \ {n} \in SUBSET Ids
      BY <1>2
    <2>3. Members' = Members \ {n}
      BY <1>4, <1>7, <2>1, <2>2, HeapsOf
    <2>4. Ready' = Ready \ {n}
      BY <1>2, <1>4, <2>3 DEF Ready, HasTimeout
    <2> QED
      BY <1>6, <2>4 DEF n
  <1>9. CASE ~ (v < 1)
    <2>1. heap' \in Heaps(Members, cnt')
      BY <1>4, <1>5, <1>9 DEF SetAside
    <2>2. Members' = Members
      BY <1>2, <1>4, <1>7, <2>1, HeapsOf
    <2>3. Ready' = Ready \ {n}
      BY <1>2, <1>4, <1>9, <2>2 DEF Ready, HasTimeout
    <2> QED
      BY <1>6, <2>3 DEF n
  <1> QED
    BY <1>8, <1>9

(* When the first of the heap is not ready none is *)
LEMMA NoneReady ==
    ASSUME HeapInv, ~ HasTimeout(Candidate)
    PROVE  Ready = {} /\ Cardinality(Ready) = 0
  <1>1. ASSUME NEW n \in Members PROVE ~ HasTimeout(n)
    BY CandidateIsLeast DEF HasTimeout
  <1> QED
    BY <1>1, FS_EmptySet DEF Ready

(* Every step preserves what is known of the collisions *)
LEMMA CountNext == HeapInv /\ TimeInv /\ CountInv /\ [Next]_vars => CountInv'
  <1> SUFFICES ASSUME HeapInv, TimeInv, CountInv, [Next]_vars PROVE CountInv'
    OBVIOUS
  <1>1. ASSUME colls' = colls, collTime' = collTime, pc' # "collide",
               pc' \in {"loop", "decide", "done"} => pc \in {"loop", "decide", "done"}
        PROVE  CountInv'
    BY <1>1 DEF CountInv
  <1>2. CASE Simulate
    <2>1. colls' = [n \in Ids |-> 0] /\ collTime' = 0 /\ pc' = "loop"
      BY <1>2 DEF Simulate, Reinitialize
    <2>2. colls' \in [Ids -> Nat] /\ IsFiniteSet(Counted(colls')) /\ Cardinality(Counted(colls')) = 0
      BY <2>1, CountedNone
    <2>3. Counted(colls)' = Counted(colls')
      BY DEF Counted
    <2>4. \A n \in Ids : colls'[n] <= collTime'
      BY <2>1
    <2> QED
      BY <2>1, <2>2, <2>3, <2>4 DEF CountInv
  <1>3. CASE SentPacket
    BY <1>1, <1>3 DEF SentPacket, InLoop
  <1>4. CASE CountedDown
    BY <1>1, <1>4 DEF CountedDown, InLoop
  <1>5. CASE NothingEnded
    BY <1>1, <1>5 DEF NothingEnded, InLoop, nodeVars, sums
  <1>6. CASE CountDown
    BY <1>1, <1>6 DEF CountDown, nodeVars, sums
  <1>7. CASE Collide
    <2>1. /\ pc = "decide" /\ cnt[Candidate] <= 0 /\ OthersTimeout
          /\ pc' = "collide" /\ collTime' = collTime + 1
          /\ colls' = colls /\ heap' = heap /\ cnt' = cnt
      BY <1>7 DEF Collide, nodeVars
    <2>2. Ready' = Ready /\ Ready \subseteq Ids
      BY <2>1, ReadyFinite DEF Ready, Members, HasTimeout
    <2>3. Cardinality(Ready) >= 2 /\ Cardinality(Ready) \in Nat
      BY <2>1, TwoReady, ReadyFinite
    <2>4. /\ Cardinality(Counted(colls)) >= 2 * collTime /\ collTime \in Nat
          /\ Cardinality(Counted(colls)) \in Nat
      BY <2>1, FS_CardinalityType DEF CountInv
    <2>5. Cardinality(Counted(colls)) + Cardinality(Ready) >= 2 * (collTime + 1)
      BY <2>3, <2>4
    <2>6. \A n \in Ids : colls[n] \in Nat /\ colls[n] <= collTime
      BY DEF CountInv
    <2>7. \A n \in Ids : colls[n] < collTime + 1 /\ colls[n] <= collTime + 1
      BY <2>4, <2>6
    <2> QED
      BY <2>1, <2>2, <2>4, <2>5, <2>7 DEF CountInv
  <1>8. CASE Transmit
    BY <1>1, <1>8 DEF Transmit, nodeVars, sums
  <1>9. CASE BacksOff
    <2> DEFINE n == Candidate
    <2>1. /\ pc = "collide" /\ pc' = "collide" /\ collTime' = collTime
          /\ colls' = [colls EXCEPT ![n] = @ + 1]
      BY <1>9 DEF BacksOff, sums
    <2>2. n \in Ready /\ Ready' = Ready \ {n}
      BY <1>9, BacksOffReady
    <2>3. n \in Ids /\ Ready \subseteq Ids /\ IsFiniteSet(Ready) /\ Cardinality(Ready) \in Nat
      BY <2>2, ReadyFinite
    <2>4. Cardinality(Ready') = Cardinality(Ready) - 1
      BY <2>2, <2>3, FS_RemoveElement
    <2>5. colls \in [Ids -> Nat] /\ IsFiniteSet(Counted(colls)) /\ collTime \in Nat
      BY DEF CountInv
    <2> HIDE DEF n
    <2>6. /\ IsFiniteSet(Counted(colls'))
          /\ Cardinality(Counted(colls')) = Cardinality(Counted(colls)) + 1
      BY <2>1, <2>3, <2>5, CountedMore
    <2>7. Cardinality(Counted(colls)) \in Nat
      BY <2>5, FS_CardinalityType
    <2>8. /\ \A m \in Ready : colls[m] < collTime
          /\ Cardinality(Counted(colls)) + Cardinality(Ready) >= 2 * collTime
      BY <2>1 DEF CountInv
    <2>9. Cardinality(Counted(colls')) + Cardinality(Ready') >= 2 * collTime
      BY <2>3, <2>4, <2>6, <2>7, <2>8
    <2>10. colls' \in [Ids -> Nat] /\ colls'[n] = colls[n] + 1
           /\ \A m \in Ids : m # n => colls'[m] = colls[m]
      BY <2>1, <2>3, <2>5
    <2>11. \A m \in Ids : colls[m] \in Nat /\ colls[m] <= collTime
      BY DEF CountInv
    <2>12. \A m \in Ids : colls'[m] <= collTime
      <3>1. colls[n] < collTime /\ colls[n] \in Nat
        BY <2>2, <2>3, <2>8, <2>11
      <3>2. colls'[n] <= collTime
        BY <2>5, <2>10, <3>1
      <3> QED
        BY <2>10, <2>11, <3>2
    <2>13. \A m \in Ready' : colls'[m] < collTime
      BY <2>2, <2>3, <2>8, <2>10
    <2>14. Counted(colls)' = Counted(colls')
      BY DEF Counted
    <2> QED
      BY <2>1, <2>5, <2>6, <2>9, <2>10, <2>12, <2>13, <2>14 DEF CountInv
  <1>10. CASE EndCollision
    <2>1. /\ pc = "collide" /\ pc' = "loop" /\ ~ HasTimeout(Candidate)
          /\ colls' = colls /\ collTime' = collTime
      BY <1>10 DEF EndCollision, nodeVars, sums
    <2>2. Cardinality(Ready) = 0
      BY <2>1, NoneReady
    <2>3. Cardinality(Counted(colls)) >= 2 * collTime
      <3>1. Cardinality(Counted(colls)) \in Nat /\ collTime \in Nat
        BY FS_CardinalityType DEF CountInv
      <3>2. Cardinality(Counted(colls)) + Cardinality(Ready) >= 2 * collTime
        BY <2>1 DEF CountInv
      <3> QED
        BY <2>2, <3>1, <3>2
    <2> QED
      BY <2>1, <2>3 DEF CountInv
  <1>11. CASE Crash
    BY <1>1, <1>11 DEF Crash, nodeVars, sums
  <1>12. CASE Finish
    BY <1>1, <1>12 DEF Finish, nodeVars
  <1>13. CASE UNCHANGED vars
    <2>1. Ready' = Ready
      BY <1>13 DEF vars, nodeVars, Ready, Members, HasTimeout
    <2> QED
      BY <1>13, <2>1 DEF vars, nodeVars, sums, CountInv
  <1> QED
    BY <1>2, <1>3, <1>4, <1>5, <1>6, <1>7, <1>8, <1>9, <1>10, <1>11, <1>12, <1>13
       DEF Next, Iteration, Stop

(* In every collision at least two nodes collide, each of them once, also  *)
(* a node that draws 0 (the loop of simulate over colliding nodes), for    *)
(* any number of nodes and any lists of ranges.                            *)
THEOREM CollisionsAreCounted == Spec => []CollisionsCounted
  <1>1. Init => CountInv
    <2> SUFFICES ASSUME Init PROVE CountInv
      OBVIOUS
    <2>1. colls = [n \in Ids |-> 0] /\ collTime = 0 /\ pc = "done"
      BY DEF Init
    <2>2. colls \in [Ids -> Nat] /\ IsFiniteSet(Counted(colls)) /\ Cardinality(Counted(colls)) = 0
      BY <2>1, CountedNone
    <2>3. \A n \in Ids : colls[n] <= collTime
      BY <2>1
    <2> QED
      BY <2>1, <2>2, <2>3 DEF CountInv
  <1>2. CountInv => CollisionsCounted
    BY DEF CountInv, CollisionsCounted
  <1> QED
    BY <1>1, <1>2, CInvHolds, CountNext, PTL DEF Spec

-----------------------------------------------------------------------------
(***************************************************************************)
(* Transmissions: the node that has the channel has not counted its own.   *)
(***************************************************************************)
PacketInv ==
    /\ trans \in [Ids -> Nat] /\ IsFiniteSet(Counted(trans))
    /\ pc = "loop" /\ occupied => time - packetLen < TolTime
    /\ PacketsCounted

(* Every step preserves what is known of the transmissions *)
LEMMA PacketNext == HeapInv /\ TimeInv /\ PacketInv /\ [Next]_vars => PacketInv'
  <1> SUFFICES ASSUME HeapInv, TimeInv, PacketInv, [Next]_vars PROVE PacketInv'
    OBVIOUS
  <1> DEFINE count == Cardinality(Counted(trans))
             over == sendingTime - (packetLen * count)
  <1>1. /\ count \in Nat /\ packetLen \in Nat /\ sendingTime \in Int /\ time \in Nat
        /\ TolTime \in Nat /\ packetLen * count \in Nat
    BY FS_CardinalityType, CsmaAssumption DEF PacketInv, TimeInv
  <1>2. IF pc = "done" /\ occupied THEN over \in 1 .. packetLen ELSE over = 0
    BY DEF PacketInv, PacketsCounted
  <1>3. Counted(trans)' = Counted(trans')
    BY DEF Counted
  <1>4. ASSUME trans' = trans, sendingTime' = sendingTime, packetLen' = packetLen,
               pc' # "done", pc # "done",
               pc' = "loop" /\ occupied' => time' - packetLen < TolTime
        PROVE  PacketInv'
    <2>1. over = 0
      BY <1>2, <1>4
    <2> QED
      BY <1>1, <1>3, <1>4, <2>1 DEF PacketInv, PacketsCounted
  <1>5. CASE Simulate
    <2>1. /\ trans' = [n \in Ids |-> 0] /\ sendingTime' = 0 /\ pc' = "loop" /\ ~ occupied'
          /\ packetLen' \in Nat \ {0}
      BY <1>5, CsmaAssumption DEF Simulate, Reinitialize
    <2>2. trans' \in [Ids -> Nat] /\ IsFiniteSet(Counted(trans')) /\ Cardinality(Counted(trans')) = 0
      BY <2>1, CountedNone
    <2>3. 0 - (packetLen' * 0) = 0
      <3>1. \A l \in Nat : 0 - (l * 0) = 0
        OBVIOUS
      <3> QED
        BY <2>1, <3>1
    <2> QED
      BY <1>3, <2>1, <2>2, <2>3 DEF PacketInv, PacketsCounted
  <1>6. CASE SentPacket
    <2>1. /\ pc = "loop" /\ pc' = "decide" /\ sendingTime' = sendingTime + packetLen
          /\ packetLen' = packetLen
          /\ trans' = [trans EXCEPT ![Candidate] = @ + 1]
      BY <1>6 DEF SentPacket, InLoop, config
    <2>2. Candidate \in Ids
      <3>1. heap \in Seq(Ids) /\ heap # << >>
        BY <2>1 DEF HeapInv
      <3> QED
        BY <3>1, CandidateOf
    <2>3. trans \in [Ids -> Nat] /\ IsFiniteSet(Counted(trans))
      BY DEF PacketInv
    <2>4. /\ IsFiniteSet(Counted(trans'))
          /\ Cardinality(Counted(trans')) = count + 1
      BY <2>1, <2>2, <2>3, CountedMore
    <2>5. trans' \in [Ids -> Nat]
      BY <2>1, <2>2, <2>3
    <2>6. over = 0
      BY <1>2, <2>1
    <2>7. packetLen * (count + 1) = (packetLen * count) + packetLen
      BY <1>1
    <2> HIDE DEF count
    <2>8. (sendingTime + packetLen) - (packetLen * (count + 1)) = 0
      BY <1>1, <2>6, <2>7
    <2>9. PacketsCounted'
      BY <1>3, <2>1, <2>4, <2>8 DEF PacketsCounted
    <2> QED
      BY <1>3, <2>1, <2>4, <2>5, <2>9 DEF PacketInv
  <1>7. CASE CountedDown
    BY <1>4, <1>7 DEF CountedDown, InLoop, config
  <1>8. CASE NothingEnded
    BY <1>4, <1>8 DEF NothingEnded, InLoop, nodeVars, config, sums
  <1>9. CASE CountDown
    <2>1. ~ occupied
      BY <1>9 DEF CountDown, TimeInv
    <2> QED
      BY <1>4, <1>9, <2>1 DEF CountDown, nodeVars, config, sums
  <1>10. CASE Collide
    BY <1>4, <1>10 DEF Collide, nodeVars, config
  <1>11. CASE Transmit
    <2>1. time' = time + packetLen /\ time < TolTime
      BY <1>11 DEF Transmit, TimeInv
    <2>2. time' - packetLen < TolTime
      BY <1>1, <2>1
    <2> QED
      BY <1>4, <1>11, <2>2 DEF Transmit, nodeVars, config, sums
  <1>12. CASE BacksOff
    BY <1>4, <1>12 DEF BacksOff, config, sums
  <1>13. CASE EndCollision
    <2>1. ~ occupied
      BY <1>13 DEF EndCollision, TimeInv
    <2> QED
      BY <1>4, <1>13, <2>1 DEF EndCollision, nodeVars, config, sums
  <1>14. CASE Crash
    BY <1>4, <1>14 DEF Crash, nodeVars, config, sums
  <1>15. CASE Finish
    <2>1. /\ pc = "loop" /\ pc' = "done" /\ time >= TolTime /\ trans' = trans
          /\ sendingTime' = sendingTime + (IF occupied THEN CutOff(packetLen) ELSE 0)
          /\ packetLen' = packetLen /\ occupied' = occupied
      BY <1>15 DEF Finish, nodeVars, config
    <2>2. over = 0
      BY <1>2, <2>1
    <2>3. CASE occupied
      <3>1. CutOff(packetLen) \in 1 .. packetLen
        <4>1. time - packetLen < TolTime
          BY <2>1, <2>3 DEF PacketInv
        <4> QED
          BY <1>1, <2>1, <4>1 DEF CutOff
      <3> HIDE DEF count
      <3>2. sendingTime' - (packetLen * count) \in 1 .. packetLen
        BY <1>1, <2>1, <2>2, <2>3, <3>1
      <3>3. PacketsCounted'
        BY <1>3, <2>1, <2>3, <3>2 DEF PacketsCounted, count
      <3> QED
        BY <1>3, <2>1, <3>3 DEF PacketInv
    <2>4. CASE ~ occupied
      <3>1. sendingTime' = sendingTime
        BY <1>1, <2>1, <2>4
      <3>2. PacketsCounted'
        BY <1>3, <2>1, <2>2, <2>4, <3>1 DEF PacketsCounted
      <3> QED
        BY <1>3, <2>1, <3>2 DEF PacketInv
    <2> QED
      BY <2>3, <2>4
  <1>16. CASE UNCHANGED vars
    BY <1>3, <1>16 DEF vars, nodeVars, config, sums, PacketInv, PacketsCounted
  <1> QED
    BY <1>5, <1>6, <1>7, <1>8, <1>9, <1>10, <1>11, <1>12, <1>13, <1>14, <1>15, <1>16
       DEF Next, Iteration, Stop

(* The transmissions that nodes count (num_trans) take the time spent on   *)
(* sending, but for what was cut off of the last, for any number of nodes, *)
(* any packet length and one simulation after another.                     *)
THEOREM PacketsAreCounted == Spec => []PacketsCounted
  <1>1. Init => PacketInv
    <2> SUFFICES ASSUME Init PROVE PacketInv
      OBVIOUS
    <2>1. /\ trans = [n \in Ids |-> 0] /\ sendingTime = 0 /\ pc = "done" /\ ~ occupied
          /\ packetLen \in Nat \ {0}
      BY CsmaAssumption DEF Init
    <2>2. trans \in [Ids -> Nat] /\ IsFiniteSet(Counted(trans)) /\ Cardinality(Counted(trans)) = 0
      BY <2>1, CountedNone
    <2>3. 0 - (packetLen * 0) = 0
      BY <2>1
    <2> QED
      BY <2>1, <2>2, <2>3 DEF PacketInv, PacketsCounted
  <1>2. PacketInv => PacketsCounted
    BY DEF PacketInv
  <1> QED
    BY <1>1, <1>2, CInvHolds, PacketNext, PTL DEF Spec

-----------------------------------------------------------------------------
(* The time that is left *)
Left == IF time < TolTime THEN TolTime - time ELSE 0

(* The part of an iteration, and the nodes that have to back off in it *)
Rank ==
    CASE pc = "loop" -> 2
      [] pc = "decide" -> 1
      [] pc = "collide" -> Cardinality(Ready) + 3
      [] OTHER -> 0

(* What remains is a number, of two digits *)
RemainingOK ==
    /\ Remaining = (Cardinality(Ids) + 4) * Left + Rank
    /\ Left \in Nat /\ Rank \in Nat /\ Rank <= Cardinality(Ids) + 3
    /\ Cardinality(Ids) \in Nat

LEMMA RemainingType == HeapInv /\ TimeInv => RemainingOK
  <1> SUFFICES ASSUME HeapInv, TimeInv PROVE RemainingOK
    OBVIOUS
  <1>1. Cardinality(Ids) \in Nat /\ Cardinality(Ready) \in Nat
        /\ Cardinality(Ready) <= Cardinality(Ids)
    BY ReadyFinite, CsmaAssumption, FS_CardinalityType
  <1>2. Left \in Nat
    BY CsmaAssumption DEF Left, TimeInv
  <1>3. Rank \in Nat /\ Rank <= Cardinality(Ids) + 3
    BY <1>1 DEF Rank
  <1> QED
    BY <1>1, <1>2, <1>3 DEF RemainingOK, Remaining, Left, Rank

(* Less time, or the same time and a lower rank, is less *)
LEMMA Lexicographic ==
    ASSUME NEW k \in Nat, NEW a \in Nat, NEW b \in Nat, NEW p \in Nat, NEW q \in Nat,
           q <= k + 3,
           b < a \/ (b = a /\ q < p)
    PROVE  ((k + 4) * b) + q < ((k + 4) * a) + p
  <1>1. CASE b < a
    <2>1. PICK d \in Nat : a = b + 1 + d
      <3>1. a - (b + 1) \in Nat /\ a = b + 1 + (a - (b + 1))
        BY <1>1
      <3> QED
        BY <3>1
    <2>2. (k + 4) * (b + 1 + d) = ((k + 4) * b) + (k + 4) + ((k + 4) * d)
      OBVIOUS
    <2>3. (k + 4) * d \in Nat /\ (k + 4) * b \in Nat
      OBVIOUS
    <2> QED
      BY <2>1, <2>2, <2>3
  <1>2. CASE b = a /\ q < p
    <2>1. (k + 4) * a \in Nat
      OBVIOUS
    <2> QED
      BY <1>2, <2>1
  <1> QED
    BY <1>1, <1>2

(* Each step of a simulation lets time pass or leads on in its iteration *)
LEMMA Nearer ==
    ASSUME HeapInv, TimeInv, Iteration
    PROVE  Left' < Left \/ (Left' = Left /\ Rank' < Rank)
  <1>1. TolTime \in Nat /\ time \in Nat
    BY CsmaAssumption DEF TimeInv
  <1>2. ASSUME time' = time, Rank' < Rank PROVE Left' = Left /\ Rank' < Rank
    BY <1>2 DEF Left
  <1>3. ASSUME time < TolTime, NEW d \in Nat \ {0}, time' = time + d PROVE Left' < Left
    BY <1>1, <1>3 DEF Left
  <1>4. CASE SentPacket \/ CountedDown \/ NothingEnded
    <2>1. time' = time /\ pc = "loop" /\ pc' = "decide"
      BY <1>4 DEF SentPacket, CountedDown, NothingEnded, InLoop
    <2>2. Rank = 2 /\ Rank' = 1
      BY <2>1 DEF Rank
    <2> QED
      BY <1>2, <2>1, <2>2
  <1>5. CASE CountDown
    <2>1. time < TolTime /\ time' = time + nextIdle' /\ nextIdle' = cnt[Candidate] /\ nextIdle' > 0
          /\ heap \in Seq(Ids) /\ heap # << >>
      BY <1>5 DEF CountDown, TimeInv, HeapInv
    <2>2. nextIdle' \in Nat \ {0}
      BY <2>1, CandidateOf DEF HeapInv
    <2> QED
      BY <1>3, <2>1, <2>2
  <1>6. CASE Collide
    <2>1. time < TolTime /\ time' = time + 1 /\ 1 \in Nat \ {0}
      BY <1>6 DEF Collide, TimeInv
    <2> QED
      BY <1>3, <2>1
  <1>7. CASE Transmit
    <2>1. time < TolTime /\ time' = time + packetLen
      BY <1>7 DEF Transmit, TimeInv
    <2>2. packetLen \in Nat \ {0}
      BY DEF TimeInv
    <2> QED
      BY <1>3, <2>1, <2>2
  <1>8. CASE BacksOff
    <2>1. time' = time /\ pc = "collide" /\ pc' = "collide"
      BY <1>8 DEF BacksOff
    <2>2. Cardinality(Ready') = Cardinality(Ready) - 1 /\ Cardinality(Ready) \in Nat
      BY <1>8, BacksOffReady, ReadyFinite, FS_RemoveElement
    <2>3. Rank = Cardinality(Ready) + 3 /\ Rank' = Cardinality(Ready') + 3
      BY <2>1 DEF Rank
    <2> QED
      BY <1>2, <2>1, <2>2, <2>3
  <1>9. CASE EndCollision
    <2>1. time' = time /\ pc = "collide" /\ pc' = "loop"
      BY <1>9 DEF EndCollision
    <2>2. Rank = Cardinality(Ready) + 3 /\ Rank' = 2 /\ Cardinality(Ready) \in Nat
      BY <2>1, ReadyFinite DEF Rank
    <2> QED
      BY <1>2, <2>1, <2>2
  <1>10. CASE Crash
    <2>1. time' = time /\ pc = "collide" /\ pc' = "crashed"
      BY <1>10 DEF Crash
    <2>2. Rank = Cardinality(Ready) + 3 /\ Rank' = 0 /\ Cardinality(Ready) \in Nat
      BY <2>1, ReadyFinite DEF Rank
    <2> QED
      BY <1>2, <2>1, <2>2
  <1>11. CASE Finish
    <2>1. time' = time /\ pc = "loop" /\ pc' = "done"
      BY <1>11 DEF Finish
    <2>2. Rank = 2 /\ Rank' = 0
      BY <2>1 DEF Rank
    <2> QED
      BY <1>2, <2>1, <2>2
  <1> QED
    BY <1>4, <1>5, <1>6, <1>7, <1>8, <1>9, <1>10, <1>11 DEF Iteration

(* Whatever randint returns, each step of simulate leaves less to do, for  *)
(* any number of nodes and any configuration: no loop of it is endless,    *)
(* as what remains is a natural number.                                    *)
THEOREM EachStepProgresses == Spec => [](Remaining \in Nat) /\ Progress
  <1>1. HeapInv /\ TimeInv => Remaining \in Nat
    <2> SUFFICES ASSUME HeapInv, TimeInv PROVE Remaining \in Nat
      OBVIOUS
    <2>1. RemainingOK
      BY RemainingType
    <2>2. (Cardinality(Ids) + 4) * Left \in Nat
      BY <2>1 DEF RemainingOK
    <2> QED
      BY <2>1, <2>2 DEF RemainingOK
  <1>2. HeapInv' /\ TimeInv' => RemainingOK'
    BY RemainingType, PTL
  <1>3. ASSUME HeapInv, TimeInv, HeapInv', TimeInv', Iteration
        PROVE  Remaining' < Remaining
    <2>1. RemainingOK /\ RemainingOK'
      BY <1>2, <1>3, RemainingType
    <2>2. Left' < Left \/ (Left' = Left /\ Rank' < Rank)
      BY <1>3, Nearer
    <2> QED
      BY <2>1, <2>2, Lexicographic DEF RemainingOK
  <1>4. HeapInv /\ TimeInv /\ (HeapInv /\ TimeInv)' => [Iteration => Remaining' < Remaining]_vars
    BY <1>3
  <1> QED
    BY <1>1, <1>4, CInvHolds, PTL DEF Progress
=============================================================================
