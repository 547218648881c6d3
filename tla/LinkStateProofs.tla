-------------------------- MODULE LinkStateProofs ---------------------------
(***************************************************************************)
(* Proofs about LinkState, for any set of ids, any costs of links and any  *)
(* number of lines. LInv is the inductive invariant; its core is Tree,     *)
(* what Dijkstra's algorithm keeps of one root: the visited nodes are the  *)
(* nearest, links from them are relaxed, and every predecessor is the      *)
(* smallest among the equally good visited ones. When all nodes are        *)
(* visited the tree determines the table (Table). From the tables of all   *)
(* roots together follows what no single run of the algorithm shows:       *)
(* distances of different roots fit together (Triangle), the ties are      *)
(* broken alike (SamePred), and the hops that next_hops collects from the  *)
(* source's own predecessors are those the tables on the way take. So      *)
(* linkstate implements Routing.                                           *)
(***************************************************************************)
EXTENDS LinkState, Least, SequenceTheorems

(* The first of a set of nodes, and what comes after a node *)
LEMMA FirstOf ==
    ASSUME NEW S \in SUBSET Ids, S # {}
    PROVE  First(S) \in S /\ \A m \in S : First(S) <= m
  <1>1. S \in SUBSET Nat
    BY TopologyAssumption
  <1> QED
    BY <1>1, LeastNatural DEF First

(* A loop by ascending id goes from a node to the least id above it *)
LEMMA AfterOf ==
    ASSUME NEW S \in SUBSET Ids, NEW n \in Ids, After(S, n) # {}
    PROVE  /\ First(After(S, n)) \in S /\ First(After(S, n)) > n
           /\ \A m \in S : m > n => First(After(S, n)) <= m
  <1>1. After(S, n) \in SUBSET Ids
    BY DEF After
  <1> QED
    BY <1>1, FirstOf DEF After

(* The links of a graph are symmetric and between nodes *)
IsGraph(nds, eds) ==
    /\ nds \subseteq Ids
    /\ eds \in [Ids -> [Ids -> Costs \cup {0}]]
    /\ \A n, m \in Ids :
          /\ eds[n][m] = eds[m][n]
          /\ eds[n][m] > 0 => n \in nds /\ m \in nds /\ n # m

(* What a line names and links is a graph *)
LEMMA LinkedGraph ==
    ASSUME NEW l \in Lines, NEW nds, NEW eds, IsGraph(nds, eds)
    PROVE  /\ IsGraph(Named(nds, l), Linked(eds, l))
           /\ nds \subseteq Named(nds, l) /\ Named(nds, l) # {}
  <1> USE TopologyAssumption
  <1> DEFINE nds2 == Named(nds, l)
             eds2 == Linked(eds, l)
  <1>1. l.n1 \in Ids /\ l.n2 \in Ids /\ l.n1 # l.n2 /\ l.dist \in Costs \cup {Removed}
    <2>1. l.n1 \in Ids /\ l.n2 \in Ids /\ l.n1 < l.n2 /\ l.dist \in Costs \cup {Removed}
      BY DEF Lines
    <2>2. l.n1 \in Nat
      BY <2>1
    <2> QED
      BY <2>1, <2>2
  <1>2. nds2 \subseteq Ids /\ nds \subseteq nds2 /\ l.n1 \in nds2 /\ l.n2 \in nds2
    BY <1>1 DEF Named, IsGraph
  <1>3. NewCost(l) \in Costs \cup {0}
    BY <1>1 DEF NewCost, Removed
  <1>4. \A n, m \in Ids : eds2[n][m] = IF {n, m} = {l.n1, l.n2} THEN NewCost(l)
                                       ELSE eds[n][m]
    BY DEF Linked
  <1>5. eds2 \in [Ids -> [Ids -> Costs \cup {0}]]
    BY <1>3 DEF Linked, IsGraph
  <1> HIDE DEF nds2, eds2
  <1>6. ASSUME NEW n \in Ids, NEW m \in Ids
        PROVE  /\ eds2[n][m] = eds2[m][n]
               /\ eds2[n][m] > 0 => n \in nds2 /\ m \in nds2 /\ n # m
    <2>1. CASE {n, m} = {l.n1, l.n2}
      <3>1. {m, n} = {l.n1, l.n2}
        BY <2>1
      <3>2. n \in {l.n1, l.n2} /\ m \in {l.n1, l.n2} /\ n # m
        BY <1>1, <2>1
      <3> QED
        BY <2>1, <3>1, <3>2, <1>2, <1>4
    <2>2. CASE {n, m} # {l.n1, l.n2}
      <3>1. {m, n} # {l.n1, l.n2}
        BY <2>2
      <3> QED
        BY <2>2, <3>1, <1>2, <1>4 DEF IsGraph
    <2> QED
      BY <2>1, <2>2
  <1> QED
    BY <1>2, <1>5, <1>6 DEF IsGraph, nds2, eds2

(* The tables of root r while the nodes of V are visited: d its distances, *)
(* p its predecessors                                                      *)
Tree(nds, eds, r, V, d, p) ==
    /\ d \in [Ids -> 0 .. IntMax] /\ p \in [Ids -> Ids \cup {Unreachable}]
    /\ r \in nds /\ V \subseteq nds /\ d[r] = 0
    /\ \A v \in V, u \in nds \ V : d[v] <= d[u]
    /\ \A v \in V : d[v] < IntMax =>
          \A h \in Neighbours(eds, v) : d[h] <= d[v] + eds[v][h]
    /\ \A n \in nds : IF n = r \/ d[n] = IntMax THEN p[n] = Unreachable
                      ELSE /\ p[n] \in V /\ p[n] \in Neighbours(eds, n)
                           /\ d[n] = d[p[n]] + eds[p[n]][n]
                           /\ \A h \in V : eds[h][n] > 0 /\ d[h] + eds[h][n] = d[n]
                                 => p[n] <= h

(* What a graph says of its links *)
LEMMA TypesOf ==
    ASSUME NEW nds, NEW eds, IsGraph(nds, eds)
    PROVE  /\ \A n \in Ids : n \in Nat
           /\ \A n, m \in Ids : eds[n][m] \in Nat
           /\ \A n \in Ids : \A h \in Neighbours(eds, n) :
                 h \in Ids /\ h \in nds /\ n \in nds /\ n # h /\ eds[n][h] > 0
                 /\ n \in Neighbours(eds, h) /\ eds[n][h] = eds[h][n]
           /\ IntMax \in Nat /\ IntMax > 0
           /\ \A d \in [Ids -> 0 .. IntMax] : \A n \in Ids : d[n] \in Nat /\ d[n] <= IntMax
           /\ \A p \in [Ids -> Ids \cup {Unreachable}] : \A n \in Ids : p[n] \in Int
           /\ Unreachable \in Int /\ \A n \in Ids : n > Unreachable /\ n # Unreachable
  <1> USE TopologyAssumption
  <1>0. (\A c \in Costs \cup {0} : c \in Nat) /\ \A n \in Ids : n \in Nat /\ n \in Int
    OBVIOUS
  <1>1. \A n, m \in Ids : eds[n][m] \in Nat
    <2> TAKE n, m \in Ids
    <2>1. eds[n][m] \in Costs \cup {0}
      BY DEF IsGraph
    <2> QED
      BY <1>0, <2>1
  <1>2. ASSUME NEW n \in Ids, NEW h \in Neighbours(eds, n)
        PROVE  /\ h \in Ids /\ h \in nds /\ n \in nds /\ n # h /\ eds[n][h] > 0
               /\ n \in Neighbours(eds, h) /\ eds[n][h] = eds[h][n]
    <2>1. h \in Ids /\ eds[n][h] > 0
      BY DEF Neighbours
    <2>2. eds[n][h] = eds[h][n] /\ n \in nds /\ h \in nds /\ n # h
      BY <2>1 DEF IsGraph
    <2> QED
      BY <2>1, <2>2 DEF Neighbours
  <1>3. IntMax \in Nat /\ IntMax > 0
    OBVIOUS
  <1>4. ASSUME NEW d \in [Ids -> 0 .. IntMax], NEW n \in Ids
        PROVE  d[n] \in Nat /\ d[n] <= IntMax
    <2>1. d[n] \in 0 .. IntMax
      OBVIOUS
    <2> QED
      BY <2>1, <1>3
  <1>5. Unreachable \in Int /\ \A n \in Ids : n > Unreachable /\ n # Unreachable
    BY <1>0 DEF Unreachable
  <1>6. ASSUME NEW p \in [Ids -> Ids \cup {Unreachable}], NEW n \in Ids
        PROVE  p[n] \in Int
    <2>1. p[n] \in Ids \cup {Unreachable}
      OBVIOUS
    <2> QED
      BY <2>1, <1>0, <1>5
  <1> QED
    BY <1>0, <1>1, <1>2, <1>3, <1>4, <1>5, <1>6

(* The first visits: none yet *)
LEMMA StartTree ==
    ASSUME NEW nds, NEW eds, IsGraph(nds, eds), NEW r \in nds
    PROVE  Tree(nds, eds, r, {}, [n \in Ids |-> IF n = r THEN 0 ELSE IntMax], NoTable)
  <1> USE TopologyAssumption
  <1> DEFINE d == [n \in Ids |-> IF n = r THEN 0 ELSE IntMax]
  <1>1. IntMax \in Nat
    OBVIOUS
  <1>2. d \in [Ids -> 0 .. IntMax] /\ \A n \in Ids : n # r => d[n] = IntMax
    BY <1>1
  <1>3. r \in Ids /\ nds \subseteq Ids
    BY DEF IsGraph
  <1>4. d[r] = 0
    BY <1>3
  <1>5. NoTable \in [Ids -> Ids \cup {Unreachable}] /\ \A n \in Ids : NoTable[n] = Unreachable
    BY DEF NoTable
  <1> HIDE DEF d
  <1>6. Tree(nds, eds, r, {}, d, NoTable)
    BY <1>2, <1>3, <1>4, <1>5 DEF Tree
  <1> QED
    BY <1>6 DEF d

(* The visit of the nearest node, in reach *)
LEMMA VisitTree ==
    ASSUME NEW nds, NEW eds, IsGraph(nds, eds),
           NEW r, NEW V, NEW d, NEW p, Tree(nds, eds, r, V, d, p),
           NEW cur \in nds \ V, \A m \in nds \ V : d[cur] <= d[m], d[cur] < IntMax,
           NEW R, NEW d2, NEW p2,
           R = {m \in Neighbours(eds, cur) \ (V \cup {cur}) :
                   \/ d[cur] + eds[cur][m] < d[m]
                   \/ d[cur] + eds[cur][m] = d[m] /\ cur < p[m]},
           d2 = [m \in Ids |-> IF m \in R THEN d[cur] + eds[cur][m] ELSE d[m]],
           p2 = [m \in Ids |-> IF m \in R THEN cur ELSE p[m]]
    PROVE  Tree(nds, eds, r, V \cup {cur}, d2, p2)
  <1> DEFINE new(m) == d[cur] + eds[cur][m]
             V2 == V \cup {cur}
  <1>1. /\ \A n \in Ids : d[n] \in Nat /\ d[n] <= IntMax /\ n \in Nat /\ p[n] \in Int
        /\ \A n, m \in Ids : eds[n][m] \in Nat
        /\ \A n \in nds : n \in Ids
        /\ cur \in Ids /\ cur \in nds /\ cur \notin V /\ cur \in Nat
        /\ IntMax \in Nat
    <2>1. d \in [Ids -> 0 .. IntMax] /\ p \in [Ids -> Ids \cup {Unreachable}]
      BY DEF Tree
    <2>2. /\ \A n \in Ids : n \in Nat
          /\ \A n, m \in Ids : eds[n][m] \in Nat
          /\ IntMax \in Nat
      BY TypesOf
    <2>3. \A n \in Ids : d[n] \in Nat /\ d[n] <= IntMax /\ p[n] \in Int
      BY <2>1, TypesOf
    <2>4. \A n \in nds : n \in Ids
      BY DEF IsGraph
    <2> QED
      BY <2>2, <2>3, <2>4
  <1>2. \A n \in Ids : \A h \in Neighbours(eds, n) :
           h \in Ids /\ h \in nds /\ n \in nds /\ n # h /\ eds[n][h] > 0
           /\ n \in Neighbours(eds, h) /\ eds[n][h] = eds[h][n]
    BY TypesOf
  <1>3. /\ r \in nds /\ V \subseteq nds /\ d[r] = 0
        /\ \A v \in V, u \in nds \ V : d[v] <= d[u]
        /\ \A v \in V : d[v] < IntMax =>
              \A h \in Neighbours(eds, v) : d[h] <= d[v] + eds[v][h]
    BY DEF Tree
  <1>4. \A n \in nds : IF n = r \/ d[n] = IntMax THEN p[n] = Unreachable
                       ELSE /\ p[n] \in V /\ p[n] \in Neighbours(eds, n)
                            /\ d[n] = d[p[n]] + eds[p[n]][n]
                            /\ \A h \in V : eds[h][n] > 0 /\ d[h] + eds[h][n] = d[n]
                                  => p[n] <= h
    BY DEF Tree
  <1>5. \A m \in Ids : new(m) \in Nat /\ (m \in Neighbours(eds, cur) => new(m) > d[cur])
    <2> TAKE m \in Ids
    <2>1. d[cur] \in Nat /\ eds[cur][m] \in Nat
      BY <1>1
    <2>2. m \in Neighbours(eds, cur) => eds[cur][m] > 0
      BY <1>1, <1>2
    <2> QED
      BY <2>1, <2>2
  <1>6. ASSUME NEW m \in R
        PROVE  /\ m \in nds \ V /\ m \in Ids /\ m # cur /\ m # r /\ m \in Neighbours(eds, cur)
               /\ new(m) <= d[m] /\ new(m) < IntMax /\ (new(m) = d[m] => cur < p[m])
    <2>1. m \in Neighbours(eds, cur) /\ m \notin V /\ m # cur
      OBVIOUS
    <2>2. m \in nds /\ m \in Ids /\ d[m] \in Nat /\ d[m] <= IntMax /\ new(m) \in Nat
          /\ new(m) > d[cur] /\ d[cur] \in Nat
      BY <2>1, <1>1, <1>2, <1>5
    <2>3. new(m) < d[m] \/ (new(m) = d[m] /\ cur < p[m])
      OBVIOUS
    <2> HIDE DEF new
    <2>4. m # r
      BY <2>2, <2>3, <1>3
    <2>5. d[m] = IntMax => ~ (cur < p[m])
      <3>1. d[m] = IntMax => p[m] = Unreachable
        BY <2>2, <1>4
      <3>2. cur > Unreachable /\ Unreachable \in Int
        BY <1>1, TypesOf
      <3> QED
        BY <3>1, <3>2, <1>1
    <2>6. new(m) < IntMax
      BY <2>2, <2>3, <2>5, <1>1
    <2> QED
      BY <2>1, <2>2, <2>3, <2>4, <2>6
  <1>7. \A m \in Ids : m \notin R /\ m \in Neighbours(eds, cur) /\ m \notin V =>
           /\ d[m] <= new(m)
           /\ new(m) = d[m] => p[m] <= cur
    <2> TAKE m \in Ids
    <2> HAVE m \notin R /\ m \in Neighbours(eds, cur) /\ m \notin V
    <2>1. m # cur
      BY <1>1, <1>2
    <2>2. ~ (new(m) < d[m]) /\ ~ (new(m) = d[m] /\ cur < p[m])
      BY <2>1
    <2> HIDE DEF new
    <2> QED
      BY <2>2, <1>1, <1>5
  <1>8. \A m \in Ids : /\ d2[m] = IF m \in R THEN new(m) ELSE d[m]
                       /\ p2[m] = IF m \in R THEN cur ELSE p[m]
    OBVIOUS
  <1>9. d2 \in [Ids -> 0 .. IntMax] /\ p2 \in [Ids -> Ids \cup {Unreachable}]
    <2>1. ASSUME NEW m \in R PROVE new(m) \in 0 .. IntMax
      <3>1. m \in Ids /\ new(m) < IntMax
        BY <1>6
      <3>2. new(m) \in Nat
        BY <3>1, <1>5
      <3> HIDE DEF new
      <3> QED
        BY <3>1, <3>2, <1>1
    <2>2. d \in [Ids -> 0 .. IntMax] /\ p \in [Ids -> Ids \cup {Unreachable}]
      BY DEF Tree
    <2> HIDE DEF new
    <2>3. d2 = [m \in Ids |-> IF m \in R THEN new(m) ELSE d[m]]
      BY DEF new
    <2> QED
      BY <2>1, <2>2, <2>3, <1>1
  <1> HIDE DEF new, V2
  <1>10. V2 \subseteq nds /\ V2 = V \cup {cur} /\ r \notin R /\ d2[r] = 0 /\ r \in Ids
    BY <1>1, <1>3, <1>6, <1>8 DEF V2
  <1>11. \A v \in V2 : v \in Ids /\ v \notin R /\ d2[v] = d[v] /\ p2[v] = p[v]
    <2>1. \A v \in V2 : v \in Ids /\ v \notin R
      BY <1>1, <1>6, <1>10
    <2> QED
      BY <2>1, <1>8
  <1>12. \A v \in V2 : d[v] <= d[cur] /\ d[v] \in Nat
    BY <1>1, <1>3, <1>10
  <1>13. ASSUME NEW v \in V2, NEW u \in nds \ V2 PROVE d2[v] <= d2[u]
    <2>1. u \in Ids /\ u \in nds \ V /\ d[cur] <= d[u] /\ d[u] \in Nat /\ d[cur] \in Nat
      BY <1>1, <1>10
    <2>2. d[v] <= d[cur] /\ d[v] \in Nat /\ d2[v] = d[v]
      BY <1>11, <1>12
    <2>3. CASE u \in R
      <3>1. d2[u] = new(u) /\ new(u) > d[cur] /\ new(u) \in Nat
        BY <2>1, <2>3, <1>5, <1>6, <1>8
      <3> QED
        BY <3>1, <2>1, <2>2
    <2>4. CASE u \notin R
      <3>1. d2[u] = d[u]
        BY <2>1, <2>4, <1>8
      <3> QED
        BY <3>1, <2>1, <2>2
    <2> QED
      BY <2>3, <2>4
  <1>14. \A m \in Ids : d2[m] <= d[m] /\ d2[m] \in Nat
    <2> TAKE m \in Ids
    <2>1. CASE m \in R
      BY <2>1, <1>5, <1>6, <1>8
    <2>2. CASE m \notin R
      BY <2>2, <1>1, <1>8
    <2> QED
      BY <2>1, <2>2
  <1>15. ASSUME NEW v \in V2, d2[v] < IntMax, NEW h \in Neighbours(eds, v)
         PROVE  d2[h] <= d2[v] + eds[v][h]
    <2>1. /\ d2[v] = d[v] /\ v \in Ids /\ h \in Ids /\ h \in nds
          /\ d2[h] <= d[h] /\ d2[h] \in Nat /\ d[h] \in Nat
          /\ eds[v][h] \in Nat /\ d[v] \in Nat
      BY <1>1, <1>2, <1>11, <1>14
    <2>2. CASE v \in V
      <3>1. d[h] <= d[v] + eds[v][h]
        BY <2>1, <2>2, <1>3, <1>15
      <3> QED
        BY <3>1, <2>1
    <2>3. CASE v = cur
      <3>0. d[v] + eds[v][h] = new(h)
        BY <2>3 DEF new
      <3>1. CASE h \in R
        BY <3>0, <3>1, <2>1, <1>8, <1>5
      <3>2. CASE h \in V
        <4>1. d[h] <= d[v]
          BY <3>2, <2>3, <1>12, <1>10
        <4> QED
          BY <4>1, <2>1
      <3>3. CASE h \notin R /\ h \notin V
        <4>1. d[h] <= new(h)
          BY <3>3, <2>1, <2>3, <1>7
        <4>2. d2[h] = d[h]
          BY <3>3, <2>1, <1>8
        <4> QED
          BY <4>1, <4>2, <3>0, <2>1
      <3> QED
        BY <3>1, <3>2, <3>3
    <2> QED
      BY <2>2, <2>3, <1>10
  <1>16. ASSUME NEW n \in nds
         PROVE  IF n = r \/ d2[n] = IntMax THEN p2[n] = Unreachable
                ELSE /\ p2[n] \in V2 /\ p2[n] \in Neighbours(eds, n)
                     /\ d2[n] = d2[p2[n]] + eds[p2[n]][n]
                     /\ \A h \in V2 : eds[h][n] > 0 /\ d2[h] + eds[h][n] = d2[n]
                           => p2[n] <= h
    <2>0. n \in Ids /\ d[n] \in Nat
      BY <1>1
    <2>1. CASE n \in R
      <3>1. /\ d2[n] = new(n) /\ p2[n] = cur /\ n # r /\ d2[n] < IntMax
            /\ n \in Neighbours(eds, cur) /\ new(n) <= d[n] /\ new(n) \in Nat
            /\ new(n) = d[n] => cur < p[n]
        BY <2>0, <2>1, <1>5, <1>6, <1>8
      <3>2. cur \in Neighbours(eds, n) /\ cur \in V2
        BY <3>1, <1>1, <1>2, <1>10
      <3>3. d2[n] = d2[cur] + eds[cur][n]
        BY <3>1, <1>10, <1>11 DEF new
      <3>4. ASSUME NEW h \in V2, eds[h][n] > 0, d2[h] + eds[h][n] = d2[n]
            PROVE  cur <= h
        <4>1. h \in Ids /\ d2[h] = d[h] /\ n \in Neighbours(eds, h) /\ eds[h][n] \in Nat
              /\ d[h] \in Nat /\ h \in Nat
          BY <3>4, <2>0, <1>1, <1>11 DEF Neighbours
        <4>2. CASE h \in V
          <5>1. d[h] + eds[h][n] = new(n)
            BY <3>1, <3>4, <4>1
          <5>2. d[h] < IntMax
            BY <5>1, <4>1, <3>1, <1>1
          <5>3. d[n] <= d[h] + eds[h][n]
            BY <5>2, <4>1, <4>2, <1>3
          <5>4. new(n) = d[n]
            BY <5>1, <5>3, <3>1, <2>0
          <5>5. d[n] # IntMax
            BY <5>4, <3>1, <1>1
          <5>6. p[n] <= h
            BY <5>1, <5>4, <5>5, <4>2, <3>1, <3>4, <1>4
          <5>7. cur < p[n]
            BY <5>4, <3>1
          <5>8. cur \in Int /\ p[n] \in Int /\ h \in Int
            BY <4>1, <2>0, <1>1
          <5> QED
            BY <5>6, <5>7, <5>8
        <4>3. CASE h = cur
          BY <4>3, <1>1
        <4> QED
          BY <4>2, <4>3, <1>10
      <3>5. ~ (n = r \/ d2[n] = IntMax) /\ p2[n] = cur
        BY <3>1, <1>1
      <3>6. \A h \in V2 : eds[h][n] > 0 /\ d2[h] + eds[h][n] = d2[n] => cur <= h
        BY <3>4
      <3> QED
        BY <3>2, <3>3, <3>5, <3>6
    <2>2. CASE n \notin R
      <3>1. d2[n] = d[n] /\ p2[n] = p[n]
        BY <2>0, <2>2, <1>8
      <3>2. CASE n = r \/ d[n] = IntMax
        BY <3>1, <3>2, <1>4
      <3>3. CASE n # r /\ d[n] # IntMax
        <4>1. /\ p[n] \in V /\ p[n] \in Neighbours(eds, n)
              /\ d[n] = d[p[n]] + eds[p[n]][n]
              /\ \A h \in V : eds[h][n] > 0 /\ d[h] + eds[h][n] = d[n] => p[n] <= h
          BY <3>3, <1>4
        <4>2. d2[p[n]] = d[p[n]] /\ p[n] \in V2
          BY <4>1, <1>10, <1>11
        <4>3. ASSUME NEW h \in V2, eds[h][n] > 0, d2[h] + eds[h][n] = d2[n]
              PROVE  p[n] <= h
          <5>1. h \in Ids /\ d2[h] = d[h] /\ n \in Neighbours(eds, h)
            BY <4>3, <2>0, <1>11 DEF Neighbours
          <5>2. CASE h \in V
            BY <5>1, <5>2, <4>1, <4>3, <3>1
          <5>3. CASE h = cur
            <6>1. new(n) = d[n]
              BY <5>1, <5>3, <4>3, <3>1 DEF new
            <6>2. n \notin V
              <7>1. new(n) > d[cur] /\ new(n) \in Nat /\ d[cur] \in Nat
                BY <5>1, <5>3, <2>0, <1>1, <1>5
              <7>2. n \in V => d[n] <= d[cur]
                BY <1>10, <1>12
              <7> QED
                BY <6>1, <7>1, <7>2
            <6> QED
              BY <6>1, <6>2, <5>1, <5>3, <2>0, <2>2, <1>7
          <5> QED
            BY <5>2, <5>3, <1>10
        <4> QED
          BY <4>1, <4>2, <4>3, <3>1, <3>3
      <3> QED
        BY <3>2, <3>3
    <2> QED
      BY <2>1, <2>2
  <1>17. Tree(nds, eds, r, V2, d2, p2)
    BY <1>3, <1>9, <1>10, <1>13, <1>15, <1>16 DEF Tree
  <1> QED
    BY <1>17 DEF V2

(* A visit of a node out of reach adds nothing *)
LEMMA VisitFarTree ==
    ASSUME NEW nds, NEW eds, IsGraph(nds, eds),
           NEW r, NEW V, NEW d, NEW p, Tree(nds, eds, r, V, d, p),
           NEW cur \in nds \ V, \A m \in nds \ V : d[cur] <= d[m], d[cur] = IntMax
    PROVE  Tree(nds, eds, r, V \cup {cur}, d, p) /\ p[cur] = Unreachable /\ cur # r
  <1> DEFINE V2 == V \cup {cur}
  <1>1. \A n \in nds : n \in Ids /\ d[n] \in Nat /\ d[n] <= IntMax
    BY TypesOf DEF Tree, IsGraph
  <1>2. IntMax > 0
    BY TypesOf
  <1>3. \A u \in nds \ V2 : d[u] = IntMax
    BY <1>1
  <1>4. \A v \in V2, u \in nds \ V2 : d[v] <= d[u]
    BY <1>1, <1>3 DEF Tree
  <1>5. \A v \in V2 : d[v] < IntMax =>
              v \in V /\ \A h \in Neighbours(eds, v) : d[h] <= d[v] + eds[v][h]
    <2> TAKE v \in V2
    <2> HAVE d[v] < IntMax
    <2>1. v # cur
      BY <1>1
    <2> QED
      BY <2>1 DEF Tree
  <1>6. ASSUME NEW n \in nds, n # r, d[n] # IntMax, NEW h \in V2,
               eds[h][n] > 0, d[h] + eds[h][n] = d[n]
        PROVE  h \in V
    <2>1. h # cur
      <3> SUFFICES ASSUME h = cur PROVE FALSE
        OBVIOUS
      <3>1. eds[cur][n] \in Nat /\ d[n] \in Nat /\ d[n] <= IntMax /\ d[n] = IntMax + eds[cur][n]
        BY <1>1, <1>6, TypesOf
      <3>2. eds[cur][n] > 0 /\ IntMax \in Nat
        BY <1>6, TypesOf
      <3> QED
        BY <3>1, <3>2
    <2> QED
      BY <2>1
  <1>7. ASSUME NEW n \in nds
        PROVE  IF n = r \/ d[n] = IntMax THEN p[n] = Unreachable
               ELSE /\ p[n] \in V2 /\ p[n] \in Neighbours(eds, n)
                    /\ d[n] = d[p[n]] + eds[p[n]][n]
                    /\ \A h \in V2 : eds[h][n] > 0 /\ d[h] + eds[h][n] = d[n]
                          => p[n] <= h
    BY <1>6 DEF Tree
  <1>8. p[cur] = Unreachable /\ cur # r
    BY <1>2 DEF Tree
  <1>9. d \in [Ids -> 0 .. IntMax] /\ p \in [Ids -> Ids \cup {Unreachable}]
        /\ r \in nds /\ V2 \subseteq nds /\ d[r] = 0
    BY DEF Tree
  <1> HIDE DEF V2
  <1>10. Tree(nds, eds, r, V2, d, p)
    BY <1>4, <1>5, <1>7, <1>9 DEF Tree
  <1> QED
    BY <1>8, <1>10 DEF V2

(* The table a node has when its tree is complete: of d and p alone, and   *)
(* the first hops f                                                        *)
Table(nds, eds, r, d, p, f) ==
    /\ Tree(nds, eds, r, nds, d, p)
    /\ f[r] = r
    /\ \A n \in nds \ {r} :
          f[n] = IF d[n] = IntMax THEN Unreachable
                 ELSE IF p[n] = r THEN n ELSE f[p[n]]

(* What a complete tree says of its nodes *)
LEMMA TreeOf ==
    ASSUME NEW nds, NEW eds, IsGraph(nds, eds), NEW r, NEW d, NEW p,
           Tree(nds, eds, r, nds, d, p)
    PROVE  /\ r \in nds /\ d[r] = 0
           /\ \A n \in nds : n \in Ids /\ n \in Nat /\ d[n] \in Nat /\ d[n] <= IntMax
           /\ \A v \in nds : d[v] < IntMax =>
                 \A h \in Neighbours(eds, v) : d[h] <= d[v] + eds[v][h]
           /\ \A n \in nds : p[n] = Unreachable <=> n = r \/ d[n] = IntMax
           /\ \A n \in nds : p[n] # Unreachable <=> n # r /\ d[n] < IntMax
           /\ \A n \in nds : n # r /\ d[n] < IntMax =>
                 /\ p[n] \in nds /\ p[n] \in Neighbours(eds, n) /\ n \in Neighbours(eds, p[n])
                 /\ eds[p[n]][n] \in Nat /\ eds[p[n]][n] > 0
                 /\ d[n] = d[p[n]] + eds[p[n]][n]
                 /\ d[p[n]] < d[n] /\ d[p[n]] < IntMax /\ d[p[n]] \in Nat
                 /\ \A h \in Neighbours(eds, n) :
                       d[h] + eds[h][n] = d[n] => p[n] <= h
  <1>1. /\ \A n \in nds : n \in Ids /\ n \in Nat /\ d[n] \in Nat /\ d[n] <= IntMax
        /\ r \in nds /\ d[r] = 0 /\ IntMax \in Nat
    BY TypesOf DEF Tree, IsGraph
  <1>2. \A v \in nds : d[v] < IntMax =>
              \A h \in Neighbours(eds, v) : d[h] <= d[v] + eds[v][h]
    BY DEF Tree
  <1>3. ASSUME NEW n \in nds, n # r, d[n] < IntMax
        PROVE  /\ p[n] \in nds /\ p[n] \in Neighbours(eds, n) /\ n \in Neighbours(eds, p[n])
               /\ eds[p[n]][n] \in Nat /\ eds[p[n]][n] > 0
               /\ d[n] = d[p[n]] + eds[p[n]][n]
               /\ d[p[n]] < d[n] /\ d[p[n]] < IntMax /\ d[p[n]] \in Nat
               /\ \A h \in Neighbours(eds, n) :
                     d[h] + eds[h][n] = d[n] => p[n] <= h
               /\ p[n] # Unreachable
    <2>0. d[n] # IntMax
      BY <1>1, <1>3
    <2>1. /\ p[n] \in nds /\ p[n] \in Neighbours(eds, n)
          /\ d[n] = d[p[n]] + eds[p[n]][n]
          /\ \A h \in nds : eds[h][n] > 0 /\ d[h] + eds[h][n] = d[n] => p[n] <= h
      BY <2>0, <1>3 DEF Tree
    <2> DEFINE k == p[n]
    <2>2. k \in nds /\ k \in Neighbours(eds, n) /\ d[n] = d[k] + eds[k][n]
      BY <2>1
    <2> HIDE DEF k
    <2>3. k \in Ids /\ n \in Ids /\ d[k] \in Nat /\ d[n] \in Nat
      BY <2>2, <1>1
    <2>4. n \in Neighbours(eds, k) /\ eds[k][n] \in Nat /\ eds[k][n] > 0 /\ k # Unreachable
      BY <2>2, <2>3, TypesOf
    <2>5. d[k] < d[n]
      BY <2>2, <2>3, <2>4
    <2>6. d[k] < IntMax
      BY <2>3, <2>5, <1>1, <1>3
    <2>7. \A h \in Neighbours(eds, n) : h \in nds /\ eds[h][n] > 0
      BY <2>3, TypesOf
    <2> QED
      BY <2>1, <2>2, <2>3, <2>4, <2>5, <2>6, <2>7 DEF k
  <1>4. \A n \in nds : p[n] = Unreachable <=> n = r \/ d[n] = IntMax
    <2> TAKE n \in nds
    <2>1. CASE n = r \/ d[n] = IntMax
      BY <2>1 DEF Tree
    <2>2. CASE n # r /\ d[n] # IntMax
      BY <2>2, <1>1, <1>3
    <2> QED
      BY <2>1, <2>2
  <1>5. \A n \in nds : d[n] # IntMax <=> d[n] < IntMax
    BY <1>1
  <1> QED
    BY <1>1, <1>2, <1>3, <1>4, <1>5

(* Walking back along the predecessors ends: there is a function as        *)
(* FirstHop computes it, and its values are neighbours of the root         *)
Hop(r, p, hop, n) == IF p[n] = r THEN n ELSE hop[p[n]]

(* The function FirstHop is defined for every node in reach *)
LEMMA FirstHopExists ==
    ASSUME NEW nds, NEW eds, IsGraph(nds, eds), NEW r, NEW d, NEW p,
           Tree(nds, eds, r, nds, d, p),
           NEW reach, reach = {n \in nds \ {r} : p[n] # Unreachable}
    PROVE  \E hop : hop = [n \in reach |-> Hop(r, p, hop, n)]
  <1> DEFINE Near(k) == {n \in reach : d[n] <= k}
             Defined(k) == \E hop : hop = [n \in Near(k) |-> Hop(r, p, hop, n)]
             S == {k \in Nat : ~ Defined(k)}
  <1>1. \A n \in reach : /\ d[n] \in Nat /\ d[n] > 0 /\ d[n] <= IntMax
                         /\ p[n] # r => /\ p[n] \in reach /\ d[p[n]] \in Nat
                                       /\ d[p[n]] < d[n]
    <2> TAKE n \in reach
    <2>1. n \in nds /\ n # r /\ d[n] \in Nat /\ d[n] < IntMax /\ d[n] <= IntMax
      BY TreeOf
    <2> DEFINE k == p[n]
    <2>2. k \in nds /\ d[k] \in Nat /\ d[k] < d[n] /\ d[k] < IntMax
      BY <2>1, TreeOf
    <2> HIDE DEF k
    <2>3. IntMax \in Nat
      BY TypesOf
    <2>4. k # r => k \in reach
      <3>1. k # r => p[k] # Unreachable
        BY <2>2, <2>3, TreeOf
      <3> QED
        BY <3>1, <2>2
    <2>5. d[n] > 0
      BY <2>1, <2>2
    <2> QED
      BY <2>1, <2>2, <2>4, <2>5 DEF k
  <1>2. Defined(0)
    <2>1. Near(0) = {}
      BY <1>1
    <2> DEFINE g == [n \in {} |-> n]
    <2>2. g = [n \in {} |-> Hop(r, p, g, n)]
      OBVIOUS
    <2> HIDE DEF g, Near
    <2> QED
      BY <2>1, <2>2
  <1>3. ASSUME NEW k \in Nat, k > 0, Defined(k - 1) PROVE Defined(k)
    <2>1. PICK h : h = [n \in Near(k - 1) |-> Hop(r, p, h, n)]
      BY <1>3
    <2> DEFINE g == [n \in Near(k) |-> Hop(r, p, h, n)]
    <2>2. \A n \in Near(k) : p[n] # r => g[p[n]] = h[p[n]]
      <3> TAKE n \in Near(k)
      <3> HAVE p[n] # r
      <3> DEFINE j == p[n]
      <3>1. n \in reach /\ d[n] <= k
        OBVIOUS
      <3>2. j \in reach /\ d[j] \in Nat /\ d[n] \in Nat /\ d[j] < d[n]
        BY <3>1, <1>1
      <3> HIDE DEF j
      <3>3. d[j] <= k - 1 /\ d[j] <= k
        BY <3>1, <3>2
      <3>4. j \in Near(k - 1) /\ j \in Near(k)
        BY <3>2, <3>3
      <3> HIDE DEF Near
      <3>5. g[j] = Hop(r, p, h, j)
        BY <3>4
      <3>6. h[j] = Hop(r, p, h, j)
        BY <3>4, <2>1
      <3> QED
        BY <3>5, <3>6 DEF j
    <2> HIDE DEF Near
    <2>3. \A n \in Near(k) : Hop(r, p, h, n) = Hop(r, p, g, n)
      BY <2>2 DEF Hop
    <2>4. g = [n \in Near(k) |-> Hop(r, p, g, n)]
      <3> DEFINE g2 == [n \in Near(k) |-> Hop(r, p, g, n)]
      <3>1. g = g2
        BY <2>3
      <3> QED
        BY <3>1
    <2> QED
      BY <2>4
  <1>4. S = {}
    <2> SUFFICES ASSUME S # {} PROVE FALSE
      OBVIOUS
    <2> HIDE DEF Defined
    <2>1. PICK k \in S : \A j \in S : k <= j
      <3>1. S \in SUBSET Nat
        OBVIOUS
      <3> HIDE DEF S
      <3> QED
        BY <3>1, LeastNatural
    <2>2. k \in Nat /\ ~ Defined(k)
      OBVIOUS
    <2>3. k > 0
      BY <2>2, <1>2
    <2>4. k - 1 \in Nat /\ ~ (k <= k - 1)
      BY <2>2, <2>3
    <2>5. Defined(k - 1)
      BY <2>1, <2>4
    <2> QED
      BY <2>2, <2>3, <2>5, <1>3
  <1>5. Near(IntMax) = reach
    BY <1>1
  <1>6. Defined(IntMax)
    <2>1. IntMax \in Nat
      BY TypesOf
    <2> HIDE DEF Defined
    <2> QED
      BY <2>1, <1>4
  <1> HIDE DEF Near
  <1> QED
    BY <1>5, <1>6

(* The first hop is a neighbour of the root *)
LEMMA FirstHopIsNeighbour ==
    ASSUME NEW nds, NEW eds, IsGraph(nds, eds), NEW r, NEW d, NEW p,
           Tree(nds, eds, r, nds, d, p),
           NEW reach, reach = {n \in nds \ {r} : p[n] # Unreachable},
           NEW hop, \A n \in reach : hop[n] = Hop(r, p, hop, n)
    PROVE  \A n \in reach : hop[n] \in Neighbours(eds, r)
  <1> DEFINE S == {n \in reach : hop[n] \notin Neighbours(eds, r)}
  <1> SUFFICES ASSUME S # {} PROVE FALSE
    OBVIOUS
  <1>0. \A n \in reach : n \in nds /\ n # r /\ d[n] \in Nat /\ d[n] < IntMax
    BY TreeOf
  <1>1. PICK n \in S : \A k \in S : d[n] <= d[k]
    <2>1. \A k \in S : d[k] \in Nat
      BY <1>0
    <2> HIDE DEF S
    <2> QED
      BY <2>1, LeastValue
  <1> DEFINE k == p[n]
  <1>2. /\ n \in reach /\ n \in nds /\ n # r /\ d[n] \in Nat
        /\ hop[n] = IF k = r THEN n ELSE hop[k]
    BY <1>0 DEF Hop
  <1>3. /\ k \in nds /\ n \in Neighbours(eds, k) /\ d[k] \in Nat /\ d[k] < d[n] /\ d[k] < IntMax
    BY <1>0, <1>2, TreeOf
  <1> HIDE DEF k
  <1>4. k # r
    BY <1>2, <1>3
  <1>5. k \in reach
    <2>1. IntMax \in Nat
      BY TypesOf
    <2>2. p[k] # Unreachable
      BY <2>1, <1>3, <1>4, TreeOf
    <2> QED
      BY <2>2, <1>3, <1>4
  <1>6. k \notin S
    BY <1>1, <1>2, <1>3
  <1> QED
    BY <1>2, <1>4, <1>5, <1>6

(* Tables of nodes the network does not have, and of a node for itself *)
FwdInv ==
    \A r, n \in Ids : fwd[r][n] = IF r = n THEN r
                                  ELSE IF {r, n} \subseteq nodes THEN fwd[r][n]
                                  ELSE Unreachable

IsTable(r) == Table(nodes, edges, r, dist[r], prevs[r], fwd[r])

(* While the tables are built: the nodes before root have theirs, and root *)
(* has a tree of the nodes visited                                         *)
RunInv ==
    pc = "dijkstra" =>
        /\ Tree(nodes, edges, root, visited, dist[root], prevs[root])
        /\ \A n \in visited : dist[root][n] = IntMax => fwd[root][n] = Unreachable
        /\ \A r \in nodes : r < root => IsTable(r)

ReadyInv == pc = "ready" => \A r \in nodes : IsTable(r)

LInv == TypeOK /\ IsGraph(nodes, edges) /\ FwdInv /\ RunInv /\ ReadyInv

(* The tables before the first line *)
LEMMA LInvInit == Init => LInv
  <1> SUFFICES ASSUME Init PROVE LInv
    OBVIOUS
  <1> USE TopologyAssumption DEF Init
  <1>1. root \in Ids
    BY FirstOf
  <1>2. NoTable \in [Ids -> Ids \cup {Unreachable}] /\ \A n \in Ids : NoTable[n] = Unreachable
    BY DEF NoTable
  <1>3. fwd \in [Ids -> [Ids -> Ids \cup {Unreachable}]]
        /\ \A r, n \in Ids : fwd[r][n] = IF r = n THEN r ELSE Unreachable
    BY <1>2
  <1>4. dist \in [Ids -> [Ids -> 0 .. IntMax]] /\ prevs \in [Ids -> [Ids -> Ids \cup {Unreachable}]]
    BY <1>2
  <1>5. edges \in [Ids -> [Ids -> Costs \cup {0}]] /\ \A n, m \in Ids : edges[n][m] = 0
    BY DEF NoLinks
  <1>6. TypeOK
    BY <1>1, <1>3, <1>4, <1>5 DEF TypeOK
  <1>7. IsGraph(nodes, edges)
    BY <1>5 DEF IsGraph
  <1> QED
    BY <1>3, <1>6, <1>7 DEF LInv, FwdInv, RunInv, ReadyInv

(* The start of the run of node r *)
LEMMA StartRootOf ==
    ASSUME TypeOK, NEW nds, NEW eds, IsGraph(nds, eds), NEW r \in nds, StartRoot(r)
    PROVE  /\ pc' = "dijkstra" /\ root' = r /\ visited' = {} /\ r \in Ids
           /\ dist' \in [Ids -> [Ids -> 0 .. IntMax]]
           /\ prevs' \in [Ids -> [Ids -> Ids \cup {Unreachable}]]
           /\ Tree(nds, eds, r, {}, dist'[r], prevs'[r])
           /\ \A k \in Ids \ {r} : dist'[k] = dist[k] /\ prevs'[k] = prevs[k]
  <1>1. r \in Ids
    BY DEF IsGraph
  <1> DEFINE d == [n \in Ids |-> IF n = r THEN 0 ELSE IntMax]
  <1>2. Tree(nds, eds, r, {}, d, NoTable)
    BY StartTree
  <1>3. d \in [Ids -> 0 .. IntMax] /\ NoTable \in [Ids -> Ids \cup {Unreachable}]
    BY <1>2 DEF Tree
  <1>4. dist' = [dist EXCEPT ![r] = d] /\ prevs' = [prevs EXCEPT ![r] = NoTable]
        /\ pc' = "dijkstra" /\ root' = r /\ visited' = {}
    BY DEF StartRoot
  <1> HIDE DEF d
  <1>5. dist \in [Ids -> [Ids -> 0 .. IntMax]]
        /\ prevs \in [Ids -> [Ids -> Ids \cup {Unreachable}]]
    BY DEF TypeOK
  <1>6. dist'[r] = d /\ prevs'[r] = NoTable
        /\ \A k \in Ids \ {r} : dist'[k] = dist[k] /\ prevs'[k] = prevs[k]
    BY <1>1, <1>4, <1>5
  <1>7. dist' \in [Ids -> [Ids -> 0 .. IntMax]]
    BY <1>1, <1>3, <1>4, <1>5
  <1>8. prevs' \in [Ids -> [Ids -> Ids \cup {Unreachable}]]
    BY <1>1, <1>3, <1>4, <1>5
  <1> QED
    BY <1>1, <1>2, <1>4, <1>6, <1>7, <1>8

(* A line of the topology file, before any tables are built *)
LEMMA LInvReadTopology == LInv /\ ReadTopology => LInv'
  <1> SUFFICES ASSUME LInv, ReadTopology PROVE LInv'
    OBVIOUS
  <1>1. PICK l \in Lines : ReadLine(l)
    BY DEF ReadTopology
  <1>2. UNCHANGED <<pc, root, visited, dist, prevs, fwd>> /\ pc = "topo"
    BY DEF ReadTopology
  <1>3. IsGraph(nodes', edges') /\ nodes \subseteq nodes'
    BY <1>1, LinkedGraph DEF LInv, ReadLine
  <1>4. TypeOK'
    <2>1. nodes' \subseteq Ids /\ edges' \in [Ids -> [Ids -> Costs \cup {0}]]
      BY <1>3 DEF IsGraph
    <2>2. lines' \in 0 .. MaxLines
      BY <1>1, TopologyAssumption DEF ReadLine, LInv, TypeOK
    <2> QED
      BY <2>1, <2>2, <1>2, <1>3 DEF LInv, TypeOK
  <1>5. FwdInv'
    BY <1>2, <1>3 DEF LInv, FwdInv
  <1> QED
    BY <1>2, <1>3, <1>4, <1>5 DEF LInv, RunInv, ReadyInv, IsGraph

(* A line of the changes starts with the first root again; the tables of   *)
(* the last run are still there                                            *)
LEMMA LInvReadChange == LInv /\ ReadChange => LInv'
  <1> SUFFICES ASSUME LInv, ReadChange PROVE LInv'
    OBVIOUS
  <1>1. PICK l \in Lines : ReadLine(l) /\ StartRoot(First(Named(nodes, l)))
    BY DEF ReadChange
  <1>3. IsGraph(nodes', edges') /\ nodes \subseteq nodes' /\ nodes' # {}
        /\ nodes' = Named(nodes, l)
    BY <1>1, LinkedGraph DEF LInv, ReadLine
  <1>4. /\ First(nodes') \in nodes' /\ \A m \in nodes' : First(nodes') <= m /\ m \in Nat
    <2>1. nodes' \in SUBSET Ids
      BY <1>3 DEF IsGraph
    <2> QED
      BY <2>1, <1>3, FirstOf, TopologyAssumption
  <1>5. /\ pc' = "dijkstra" /\ root' = First(nodes') /\ visited' = {} /\ root' \in Ids
        /\ dist' \in [Ids -> [Ids -> 0 .. IntMax]]
        /\ prevs' \in [Ids -> [Ids -> Ids \cup {Unreachable}]]
        /\ Tree(nodes', edges', root', {}, dist'[root'], prevs'[root'])
    BY <1>1, <1>3, <1>4, StartRootOf DEF LInv
  <1>6. TypeOK'
    <2>1. nodes' \subseteq Ids /\ edges' \in [Ids -> [Ids -> Costs \cup {0}]]
      BY <1>3 DEF IsGraph
    <2>2. lines' \in 0 .. MaxLines
      BY <1>1, TopologyAssumption DEF ReadLine, LInv, TypeOK
    <2>3. fwd' \in [Ids -> [Ids -> Ids \cup {Unreachable}]]
      BY DEF ReadChange, LInv, TypeOK
    <2> QED
      BY <2>1, <2>2, <2>3, <1>5 DEF TypeOK
  <1>7. FwdInv'
    BY <1>3 DEF LInv, FwdInv, ReadChange
  <1>8. \A r \in nodes' : ~ (r < root')
    BY <1>4, <1>5
  <1>9. RunInv'
    BY <1>5, <1>8 DEF RunInv
  <1> QED
    BY <1>3, <1>5, <1>6, <1>7, <1>9 DEF LInv, ReadyInv, IsGraph

(* The end of the topology file starts with the first root *)
LEMMA LInvEndTopology == LInv /\ EndTopology => LInv'
  <1> SUFFICES ASSUME LInv, EndTopology PROVE LInv'
    OBVIOUS
  <1>t. TypeOK /\ IsGraph(nodes, edges) /\ FwdInv
    BY DEF LInv
  <1>1. UNCHANGED <<nodes, edges, fwd, lines>>
    BY DEF EndTopology
  <1>2. CASE nodes = {} /\ pc' = "ready" /\ UNCHANGED <<root, visited, dist, prevs>>
    <2>1. TypeOK'
      BY <1>1, <1>2, <1>t DEF TypeOK
    <2> QED
      BY <2>1, <1>1, <1>2, <1>t DEF LInv, FwdInv, RunInv, ReadyInv, IsGraph
  <1>3. CASE nodes # {} /\ StartRoot(First(nodes))
    <2>1. First(nodes) \in nodes /\ \A m \in nodes : First(nodes) <= m /\ m \in Nat
      <3>1. nodes \in SUBSET Ids
        BY <1>t DEF IsGraph
      <3> QED
        BY <3>1, <1>3, FirstOf, TopologyAssumption
    <2>2. /\ pc' = "dijkstra" /\ root' = First(nodes) /\ visited' = {} /\ root' \in Ids
          /\ dist' \in [Ids -> [Ids -> 0 .. IntMax]]
          /\ prevs' \in [Ids -> [Ids -> Ids \cup {Unreachable}]]
          /\ Tree(nodes, edges, root', {}, dist'[root'], prevs'[root'])
      BY <1>3, <1>t, <2>1, StartRootOf
    <2>3. TypeOK'
      BY <1>1, <2>2, <1>t DEF TypeOK
    <2>4. \A r \in nodes : ~ (r < root')
      BY <2>1, <2>2
    <2>5. RunInv'
      BY <2>2, <2>4, <1>1 DEF RunInv
    <2> QED
      BY <2>2, <2>3, <2>5, <1>1, <1>t DEF LInv, FwdInv, ReadyInv, IsGraph
  <1> QED
    BY <1>2, <1>3 DEF EndTopology

(* The nearest of the nodes not visited *)
LEMMA NearestOf ==
    ASSUME LInv, visited # nodes
    PROVE  /\ Nearest \in nodes \ visited
           /\ \A m \in nodes \ visited : dist[root][Nearest] <= dist[root][m]
  <1> DEFINE Open == nodes \ visited
             d == dist[root]
  <1>1. Open # {} /\ Open \subseteq Ids /\ root \in Ids
    BY DEF LInv, TypeOK
  <1>2. \A n \in Open : d[n] \in Nat /\ n \in Nat
    <2>1. d \in [Ids -> 0 .. IntMax]
      BY <1>1 DEF LInv, TypeOK
    <2> HIDE DEF d
    <2> QED
      BY <1>1, <2>1, TypesOf DEF LInv
  <1> HIDE DEF Open, d
  <1>3. PICK k \in Open : \A m \in Open : d[k] <= d[m]
    BY <1>1, <1>2, LeastValue
  <1> DEFINE Equal == {n \in Open : d[n] = d[k]}
  <1>4. PICK n \in Equal : \A m \in Equal : n <= m
    <2>1. Equal \in SUBSET Nat /\ Equal # {}
      BY <1>2
    <2> HIDE DEF Equal
    <2> QED
      BY <2>1, LeastNatural
  <1>5. n \in Open /\ \A m \in Open : d[n] < d[m] \/ (d[n] = d[m] /\ n <= m)
    <2>1. n \in Open /\ d[n] = d[k]
      OBVIOUS
    <2>2. ASSUME NEW m \in Open PROVE d[n] < d[m] \/ (d[n] = d[m] /\ n <= m)
      <3>1. CASE d[m] = d[k]
        BY <3>1, <2>1, <1>4
      <3>2. CASE d[m] # d[k]
        BY <3>2, <2>1, <1>2, <1>3
      <3> QED
        BY <3>1, <3>2
    <2> QED
      BY <2>1, <2>2
  <1> HIDE DEF Equal
  <1>6. /\ Nearest \in Open
        /\ \A m \in Open : d[Nearest] < d[m] \/ (d[Nearest] = d[m] /\ Nearest <= m)
    BY <1>5 DEF Nearest, Open, d
  <1>7. \A m \in Open : d[Nearest] <= d[m]
    BY <1>2, <1>6
  <1> QED
    BY <1>6, <1>7 DEF Open, d

(* A round for a node within reach *)
LEMMA LInvVisit == LInv /\ Visit => LInv'
  <1> SUFFICES ASSUME LInv, Visit PROVE LInv'
    OBVIOUS
  <1>t. TypeOK /\ IsGraph(nodes, edges) /\ FwdInv /\ RunInv
    BY DEF LInv
  <1> DEFINE cur == Nearest
             d == dist[root]
             p == prevs[root]
             R == {m \in Neighbours(edges, cur) \ (visited \cup {cur}) : Better(cur, m)}
             d2 == [m \in Ids |-> IF m \in R THEN d[cur] + edges[cur][m] ELSE d[m]]
             p2 == [m \in Ids |-> IF m \in R THEN cur ELSE p[m]]
  <1>1. /\ pc = "dijkstra" /\ UNCHANGED <<nodes, edges, pc, root, fwd, lines>>
        /\ visited # nodes /\ d[cur] < IntMax
        /\ visited' = visited \cup {cur}
        /\ dist' = [dist EXCEPT ![root] = d2]
        /\ prevs' = [prevs EXCEPT ![root] = p2]
    BY DEF Visit
  <1>2. cur \in nodes \ visited /\ \A m \in nodes \ visited : d[cur] <= d[m]
    BY <1>1, NearestOf
  <1>3. Tree(nodes, edges, root, visited, d, p)
    BY <1>1, <1>t DEF RunInv
  <1>4. R = {m \in Neighbours(edges, cur) \ (visited \cup {cur}) :
                \/ d[cur] + edges[cur][m] < d[m]
                \/ d[cur] + edges[cur][m] = d[m] /\ cur < p[m]}
    BY DEF Better
  <1> HIDE DEF cur, d, p, R
  <1>d. /\ d2 = [m \in Ids |-> IF m \in R THEN d[cur] + edges[cur][m] ELSE d[m]]
        /\ p2 = [m \in Ids |-> IF m \in R THEN cur ELSE p[m]]
    OBVIOUS
  <1> HIDE DEF d2, p2
  <1>5. Tree(nodes, edges, root, visited \cup {cur}, d2, p2)
    BY <1>1, <1>2, <1>3, <1>4, <1>d, <1>t, VisitTree, SMTT(30)
  <1>6. root \in Ids /\ d2 \in [Ids -> 0 .. IntMax] /\ p2 \in [Ids -> Ids \cup {Unreachable}]
    BY <1>5, <1>t DEF Tree, TypeOK
  <1>7. /\ dist'[root] = d2 /\ prevs'[root] = p2
        /\ dist' \in [Ids -> [Ids -> 0 .. IntMax]]
        /\ prevs' \in [Ids -> [Ids -> Ids \cup {Unreachable}]]
        /\ \A r \in Ids \ {root} : dist'[r] = dist[r] /\ prevs'[r] = prevs[r]
    <2>1. dist \in [Ids -> [Ids -> 0 .. IntMax]]
          /\ prevs \in [Ids -> [Ids -> Ids \cup {Unreachable}]]
      BY <1>t DEF TypeOK
    <2> QED
      BY <2>1, <1>1, <1>6
  <1>8. TypeOK'
    BY <1>1, <1>2, <1>7, <1>t DEF TypeOK
  <1>9. \A n \in visited' : dist'[root][n] = IntMax => fwd'[root][n] = Unreachable
    <2>1. \A n \in visited : n \notin R /\ n \in Ids
      BY <1>4, <1>t DEF TypeOK
    <2>2. \A n \in visited : d2[n] = d[n]
      BY <2>1 DEF d2
    <2>3. cur \notin R /\ cur \in Ids
      BY <1>2, <1>4, <1>t DEF TypeOK
    <2>4. d2[cur] = d[cur] /\ d[cur] # IntMax
      <3>1. d[cur] \in Nat /\ IntMax \in Nat
        BY <2>3, <1>3, <1>t, TypesOf DEF Tree
      <3> QED
        BY <2>3, <3>1, <1>1 DEF d2
    <2> QED
      BY <2>2, <2>4, <1>1, <1>7, <1>t DEF RunInv, d
  <1>10. \A r \in nodes' : r < root' => IsTable(r)'
    <2> SUFFICES ASSUME NEW r \in nodes, r < root PROVE IsTable(r)'
      BY <1>1
    <2>1. r \in Ids /\ r # root
      BY <1>6, <1>t, TypesOf DEF TypeOK
    <2>2. IsTable(r)
      BY <1>1, <1>t DEF RunInv
    <2> QED
      BY <2>1, <2>2, <1>1, <1>7 DEF IsTable
  <1>11. RunInv'
    BY <1>1, <1>5, <1>7, <1>9, <1>10 DEF RunInv
  <1> QED
    BY <1>1, <1>8, <1>11, <1>t DEF LInv, FwdInv, ReadyInv

(* A round for a node out of reach *)
LEMMA LInvVisitUnreachable == LInv /\ VisitUnreachable => LInv'
  <1> SUFFICES ASSUME LInv, VisitUnreachable PROVE LInv'
    OBVIOUS
  <1>t. TypeOK /\ IsGraph(nodes, edges) /\ FwdInv /\ RunInv
    BY DEF LInv
  <1> DEFINE cur == Nearest
             d == dist[root]
             p == prevs[root]
  <1>1. /\ pc = "dijkstra" /\ UNCHANGED <<nodes, edges, pc, root, dist, lines>>
        /\ visited # nodes /\ d[cur] = IntMax
        /\ visited' = visited \cup {cur}
        /\ fwd' = [fwd EXCEPT ![root][cur] = Unreachable]
        /\ prevs' = [prevs EXCEPT ![root][cur] = Unreachable]
    BY DEF VisitUnreachable
  <1>2. cur \in nodes \ visited /\ \A m \in nodes \ visited : d[cur] <= d[m]
    BY <1>1, NearestOf
  <1>3. Tree(nodes, edges, root, visited, d, p)
    BY <1>1, <1>t DEF RunInv
  <1> HIDE DEF cur
  <1>5. /\ Tree(nodes, edges, root, visited \cup {cur}, d, p)
        /\ p[cur] = Unreachable /\ cur # root
    BY <1>1, <1>2, <1>3, <1>t, VisitFarTree
  <1>6. root \in Ids /\ cur \in Ids
    BY <1>2, <1>t DEF TypeOK
  <1>7. prevs' = prevs
    <2>1. prevs \in [Ids -> [Ids -> Ids \cup {Unreachable}]]
      BY <1>t DEF TypeOK
    <2> QED
      BY <2>1, <1>1, <1>5, <1>6
  <1>8. /\ fwd' \in [Ids -> [Ids -> Ids \cup {Unreachable}]]
        /\ \A r, n \in Ids : fwd'[r][n] = IF r = root /\ n = cur THEN Unreachable ELSE fwd[r][n]
        /\ \A r \in Ids \ {root} : fwd'[r] = fwd[r]
    <2>1. fwd \in [Ids -> [Ids -> Ids \cup {Unreachable}]]
      BY <1>t DEF TypeOK
    <2> QED
      BY <2>1, <1>1, <1>6
  <1>9. TypeOK'
    BY <1>1, <1>2, <1>7, <1>8, <1>t DEF TypeOK
  <1>10. FwdInv'
    <2> SUFFICES ASSUME NEW r \in Ids, NEW n \in Ids
                 PROVE  fwd'[r][n] = IF r = n THEN r
                                     ELSE IF {r, n} \subseteq nodes THEN fwd'[r][n]
                                     ELSE Unreachable
      BY <1>1 DEF FwdInv
    <2>1. CASE r = root /\ n = cur
      BY <2>1, <1>5, <1>8
    <2>2. CASE ~ (r = root /\ n = cur)
      BY <2>2, <1>8, <1>t DEF FwdInv
    <2> QED
      BY <2>1, <2>2
  <1>11. \A n \in visited' : dist'[root][n] = IntMax => fwd'[root][n] = Unreachable
    <2> SUFFICES ASSUME NEW n \in visited', dist[root][n] = IntMax
                 PROVE  fwd'[root][n] = Unreachable
      BY <1>1
    <2>1. n \in Ids
      BY <1>1, <1>6, <1>t DEF TypeOK
    <2>2. CASE n = cur
      BY <2>1, <2>2, <1>6, <1>8
    <2>3. CASE n \in visited
      BY <2>1, <2>3, <1>1, <1>6, <1>8, <1>t DEF RunInv
    <2> QED
      BY <2>2, <2>3, <1>1
  <1>12. \A r \in nodes' : r < root' => IsTable(r)'
    <2> SUFFICES ASSUME NEW r \in nodes, r < root PROVE IsTable(r)'
      BY <1>1
    <2>1. r \in Ids /\ r # root
      BY <1>6, <1>t, TypesOf DEF TypeOK
    <2>2. IsTable(r)
      BY <1>1, <1>t DEF RunInv
    <2> QED
      BY <2>1, <2>2, <1>1, <1>7, <1>8 DEF IsTable
  <1>13. RunInv'
    BY <1>1, <1>5, <1>7, <1>11, <1>12 DEF RunInv
  <1> QED
    BY <1>1, <1>9, <1>10, <1>13, <1>t DEF LInv, ReadyInv

(* All nodes visited: the hops are collected, and root has its table *)
LEMMA TableAtEnd ==
    ASSUME LInv, pc = "dijkstra", visited = nodes,
           fwd' = [fwd EXCEPT ![root] = [n \in Ids |->
                      IF n \in DOMAIN FirstHop THEN FirstHop[n] ELSE fwd[root][n]]]
    PROVE  /\ fwd' \in [Ids -> [Ids -> Ids \cup {Unreachable}]]
           /\ Table(nodes, edges, root, dist[root], prevs[root], fwd'[root])
           /\ \A r \in Ids \ {root} : fwd'[r] = fwd[r]
           /\ \A n \in Ids : n \notin nodes \/ n = root => fwd'[root][n] = fwd[root][n]
  <1>t. TypeOK /\ IsGraph(nodes, edges) /\ FwdInv /\ RunInv
    BY DEF LInv
  <1> DEFINE d == dist[root]
             p == prevs[root]
             f == fwd'[root]
             reach == {n \in nodes \ {root} : p[n] # Unreachable}
  <1>1. Tree(nodes, edges, root, nodes, d, p)
    BY <1>t DEF RunInv
  <1>2. FirstHop = [n \in reach |-> Hop(root, p, FirstHop, n)]
    <2>1. \E hop : hop = [n \in reach |-> Hop(root, p, hop, n)]
      <3>1. reach = {n \in nodes \ {root} : p[n] # Unreachable}
        OBVIOUS
      <3> HIDE DEF reach, p, d
      <3> QED
        BY <3>1, <1>1, <1>t, FirstHopExists
    <2> QED
      BY <2>1 DEF FirstHop, Hop
  <1>3. root \in Ids /\ fwd \in [Ids -> [Ids -> Ids \cup {Unreachable}]] /\ nodes \subseteq Ids
    BY <1>t DEF TypeOK
  <1>4. DOMAIN FirstHop = reach /\ \A n \in reach : FirstHop[n] = Hop(root, p, FirstHop, n)
    <2> DEFINE h == FirstHop
    <2>1. h = [n \in reach |-> Hop(root, p, h, n)]
      BY <1>2
    <2> HIDE DEF h
    <2>2. DOMAIN h = reach /\ \A n \in reach : h[n] = Hop(root, p, h, n)
      BY <2>1
    <2> QED
      BY <2>2 DEF h
  <1> DEFINE hop == FirstHop
  <1> HIDE DEF hop, p, d
  <1>5. \A n \in reach : hop[n] = Hop(root, p, hop, n)
    BY <1>4 DEF hop
  <1>6. \A n \in reach : hop[n] \in Neighbours(edges, root)
    BY <1>1, <1>5, <1>t, FirstHopIsNeighbour
  <1>7. \A n \in reach : hop[n] \in Ids
    BY <1>3, <1>6, <1>t, TypesOf
  <1> HIDE DEF reach
  <1>8. fwd' = [fwd EXCEPT ![root] = [n \in Ids |->
                   IF n \in reach THEN hop[n] ELSE fwd[root][n]]]
    BY <1>4 DEF hop
  <1>9. /\ fwd' \in [Ids -> [Ids -> Ids \cup {Unreachable}]]
        /\ \A n \in Ids : f[n] = IF n \in reach THEN hop[n] ELSE fwd[root][n]
        /\ \A r \in Ids \ {root} : fwd'[r] = fwd[r]
    BY <1>3, <1>7, <1>8
  <1> HIDE DEF f
  <1>10. \A n \in nodes : n \in reach <=> n # root /\ d[n] # IntMax
    BY <1>1, <1>t, TreeOf DEF reach
  <1>11. f[root] = root
    <2>1. root \in nodes
      BY <1>1 DEF Tree
    <2>2. fwd[root][root] = root
      BY <1>3, <1>t DEF FwdInv
    <2> QED
      BY <2>1, <2>2, <1>3, <1>9, <1>10
  <1>12. ASSUME NEW n \in nodes \ {root}
         PROVE  f[n] = IF d[n] = IntMax THEN Unreachable
                       ELSE IF p[n] = root THEN n ELSE f[p[n]]
    <2>0. n \in Ids
      BY <1>3
    <2>1. CASE d[n] = IntMax
      <3>1. fwd[root][n] = Unreachable
        BY <2>1, <1>t DEF RunInv, d
      <3> QED
        BY <2>0, <2>1, <3>1, <1>9, <1>10
    <2>2. CASE d[n] # IntMax
      <3>1. n \in reach /\ f[n] = IF p[n] = root THEN n ELSE hop[p[n]]
        BY <2>0, <2>2, <1>5, <1>9, <1>10 DEF Hop
      <3> DEFINE k == p[n]
      <3>2. CASE k # root
        <4>1. d[n] < IntMax
          BY <2>2, <1>1, <1>t, TreeOf
        <4>2. k \in nodes /\ d[k] < IntMax
          BY <4>1, <1>1, <1>t, TreeOf
        <4> HIDE DEF k
        <4>3. d[k] # IntMax
          BY <4>2, <1>1, <1>t, TreeOf, TypesOf
        <4>4. k \in reach /\ k \in Ids
          BY <4>2, <4>3, <3>2, <1>3, <1>10
        <4>5. f[k] = hop[k]
          BY <4>4, <1>9
        <4> QED
          BY <4>5, <3>1, <3>2, <2>2 DEF k
      <3>3. CASE k = root
        BY <3>1, <3>3, <2>2
      <3> QED
        BY <3>2, <3>3
    <2> QED
      BY <2>1, <2>2
  <1>13. Table(nodes, edges, root, d, p, f)
    BY <1>1, <1>11, <1>12 DEF Table
  <1>14. \A n \in Ids : n \notin nodes \/ n = root => f[n] = fwd[root][n]
    BY <1>9 DEF reach
  <1> QED
    BY <1>9, <1>13, <1>14 DEF d, p, f

(* The table of a root is complete, and the next root starts *)
LEMMA LInvEndRoot == LInv /\ EndRoot => LInv'
  <1> SUFFICES ASSUME LInv, EndRoot PROVE LInv'
    OBVIOUS
  <1>t. TypeOK /\ IsGraph(nodes, edges) /\ FwdInv /\ RunInv
    BY DEF LInv
  <1>1. UNCHANGED <<nodes, edges, lines>> /\ pc = "dijkstra" /\ visited = nodes
    BY DEF EndRoot
  <1>2. /\ fwd' \in [Ids -> [Ids -> Ids \cup {Unreachable}]]
        /\ Table(nodes, edges, root, dist[root], prevs[root], fwd'[root])
        /\ \A r \in Ids \ {root} : fwd'[r] = fwd[r]
        /\ \A n \in Ids : n \notin nodes \/ n = root => fwd'[root][n] = fwd[root][n]
    BY TableAtEnd DEF EndRoot
  <1>3. FwdInv'
    <2> SUFFICES ASSUME NEW r \in Ids, NEW n \in Ids
                 PROVE  fwd'[r][n] = IF r = n THEN r
                                     ELSE IF {r, n} \subseteq nodes THEN fwd'[r][n]
                                     ELSE Unreachable
      BY <1>1 DEF FwdInv
    <2>0. root \in nodes
      BY <1>1, <1>t DEF RunInv, Tree
    <2>1. fwd[r][n] = IF r = n THEN r ELSE IF {r, n} \subseteq nodes THEN fwd[r][n]
                                           ELSE Unreachable
      BY <1>t DEF FwdInv
    <2>2. CASE r # root
      BY <2>1, <2>2, <1>2
    <2>3. CASE r = root /\ (n \notin nodes \/ n = root)
      BY <2>1, <2>3, <1>2
    <2>4. CASE r = root /\ n \in nodes /\ n # root
      BY <2>0, <2>4
    <2> QED
      BY <2>2, <2>3, <2>4
  <1>4. root \in Ids /\ \A r \in nodes : r \in Ids /\ r \in Nat /\ root \in Nat
    BY <1>t, TypesOf DEF TypeOK
  <1>5. \A r \in nodes : r <= root =>
           Table(nodes, edges, r, dist[r], prevs[r], fwd'[r])
    <2> TAKE r \in nodes
    <2> HAVE r <= root
    <2>1. CASE r = root
      BY <2>1, <1>2
    <2>2. CASE r # root
      <3>1. r < root
        BY <2>2, <1>4
      <3>2. Table(nodes, edges, r, dist[r], prevs[r], fwd[r])
        BY <3>1, <1>1, <1>t DEF RunInv, IsTable
      <3> QED
        BY <3>2, <2>2, <1>2, <1>4
    <2> QED
      BY <2>1, <2>2
  <1>6. CASE After(nodes, root) # {} /\ StartRoot(First(After(nodes, root)))
    <2> DEFINE next == First(After(nodes, root))
    <2>1. next \in nodes /\ next > root /\ \A m \in nodes : m > root => next <= m
      BY <1>4, <1>6, <1>t, AfterOf DEF TypeOK
    <2>2. /\ pc' = "dijkstra" /\ root' = next /\ visited' = {} /\ next \in Ids
          /\ dist' \in [Ids -> [Ids -> 0 .. IntMax]]
          /\ prevs' \in [Ids -> [Ids -> Ids \cup {Unreachable}]]
          /\ Tree(nodes, edges, next, {}, dist'[next], prevs'[next])
          /\ \A k \in Ids \ {next} : dist'[k] = dist[k] /\ prevs'[k] = prevs[k]
      BY <2>1, <1>6, <1>t, StartRootOf
    <2> HIDE DEF next
    <2>3. TypeOK'
      BY <2>2, <1>1, <1>2, <1>t DEF TypeOK
    <2>4. ASSUME NEW r \in nodes, r < next
          PROVE  Table(nodes, edges, r, dist'[r], prevs'[r], fwd'[r])
      <3>1. r <= root /\ r # next /\ r \in Ids
        BY <2>1, <2>4, <1>4
      <3> QED
        BY <3>1, <2>2, <1>5
    <2>5. RunInv'
      BY <2>2, <2>4, <1>1 DEF RunInv, IsTable
    <2> QED
      BY <2>2, <2>3, <2>5, <1>1, <1>3, <1>t DEF LInv, ReadyInv
  <1>7. CASE After(nodes, root) = {} /\ pc' = "ready" /\ UNCHANGED <<root, visited, dist, prevs>>
    <2>1. \A r \in nodes : r <= root
      BY <1>4, <1>7 DEF After
    <2>2. ReadyInv'
      BY <2>1, <1>1, <1>5, <1>7 DEF ReadyInv, IsTable
    <2>3. TypeOK'
      BY <1>1, <1>2, <1>7, <1>t DEF TypeOK
    <2> QED
      BY <2>2, <2>3, <1>1, <1>3, <1>7, <1>t DEF LInv, RunInv
  <1> QED
    BY <1>6, <1>7 DEF EndRoot

(* Every step preserves the invariant *)
LEMMA LInvNext == LInv /\ [Next]_vars => LInv'
  <1> SUFFICES ASSUME LInv, [Next]_vars PROVE LInv'
    OBVIOUS
  <1>1. CASE UNCHANGED vars
    <2> USE <1>1 DEF vars, LInv
    <2>1. TypeOK' /\ FwdInv'
      BY DEF TypeOK, FwdInv
    <2>2. IsGraph(nodes', edges') /\ RunInv' /\ ReadyInv'
      BY DEF RunInv, ReadyInv, IsTable
    <2> QED
      BY <2>1, <2>2
  <1> QED
    BY <1>1, LInvReadTopology, LInvEndTopology, LInvReadChange, LInvVisit,
       LInvVisitUnreachable, LInvEndRoot DEF Next, Stop

(* The inductive invariant holds in every behaviour of linkstate. *)
THEOREM LInvHolds == Spec => []LInv
  <1> QED
    BY LInvInit, LInvNext, PTL DEF Spec

(* Every variable keeps its range, for any network. *)
THEOREM TypeCorrect == Spec => []TypeOK
  <1>1. LInv => TypeOK
    BY DEF LInv
  <1> QED
    BY <1>1, LInvHolds, PTL

(* A visited node is never relaxed again: the distances to and around      *)
(* visited nodes satisfy every link (build_forwarding_table), for any      *)
(* network.                                                                *)
THEOREM VisitedStaySettled == Spec => []VisitedSettled
  <1>1. LInv => VisitedSettled
    BY DEF LInv, RunInv, Tree, VisitedSettled
  <1> QED
    BY <1>1, LInvHolds, PTL

(* A printed table, with the distances of the row d and the predecessors p *)
LEMMA ReadyTable ==
    ASSUME LInv, pc = "ready", NEW r \in nodes
    PROVE  /\ IsGraph(nodes, edges)
           /\ Table(nodes, edges, r, dist[r], prevs[r], fwd[r])
           /\ Tree(nodes, edges, r, nodes, dist[r], prevs[r])
  BY DEF LInv, ReadyInv, IsTable, Table

(* Among equally short paths every printed table takes the predecessor     *)
(* with the smallest id, whatever the order of visits.                     *)
THEOREM SmallestPredTaken == Spec => []SmallestPred
  <1>1. ASSUME LInv PROVE SmallestPred
    <2> SUFFICES ASSUME pc = "ready", NEW r \in nodes, NEW n \in nodes \ {r}, dist[r][n] < IntMax
                 PROVE  /\ prevs[r][n] \in Neighbours(edges, n)
                        /\ dist[r][prevs[r][n]] + edges[prevs[r][n]][n] = dist[r][n]
                        /\ \A h \in Neighbours(edges, n) :
                              dist[r][h] + edges[h][n] = dist[r][n] => prevs[r][n] <= h
      BY DEF SmallestPred
    <2> DEFINE d == dist[r]
               p == prevs[r]
    <2>1. IsGraph(nodes, edges) /\ Tree(nodes, edges, r, nodes, d, p)
      BY <1>1, ReadyTable
    <2>2. d[n] < IntMax /\ n # r
      OBVIOUS
    <2> HIDE DEF d, p
    <2>3. /\ p[n] \in Neighbours(edges, n) /\ d[n] = d[p[n]] + edges[p[n]][n]
          /\ \A h \in Neighbours(edges, n) : d[h] + edges[h][n] = d[n] => p[n] <= h
      BY <2>1, <2>2, TreeOf
    <2> QED
      BY <2>3 DEF d, p
  <1> QED
    BY <1>1, LInvHolds, PTL

(* What every printed table says *)
LEMMA ReadyOf ==
    ASSUME LInv, pc = "ready"
    PROVE  /\ IsGraph(nodes, edges) /\ IntMax \in Nat
           /\ \A r \in nodes : dist[r][r] = 0 /\ fwd[r][r] = r
           /\ \A r, n \in nodes : /\ dist[r][n] \in Nat /\ dist[r][n] <= IntMax
                                  /\ n \in Ids /\ n \in Nat /\ edges[r][n] \in Nat
           /\ \A r, v \in nodes : dist[r][v] < IntMax =>
                 \A h \in Neighbours(edges, v) :
                    h \in nodes /\ dist[r][h] <= dist[r][v] + edges[v][h]
           /\ \A r, n \in nodes : n # r /\ dist[r][n] < IntMax =>
                 /\ prevs[r][n] \in nodes /\ prevs[r][n] \in Neighbours(edges, n)
                 /\ n \in Neighbours(edges, prevs[r][n])
                 /\ edges[prevs[r][n]][n] \in Nat /\ edges[prevs[r][n]][n] > 0
                 /\ dist[r][n] = dist[r][prevs[r][n]] + edges[prevs[r][n]][n]
                 /\ dist[r][prevs[r][n]] < dist[r][n] /\ dist[r][prevs[r][n]] < IntMax
                 /\ dist[r][prevs[r][n]] \in Nat
                 /\ \A h \in Neighbours(edges, n) :
                       dist[r][h] + edges[h][n] = dist[r][n] => prevs[r][n] <= h
                 /\ fwd[r][n] = IF prevs[r][n] = r THEN n ELSE fwd[r][prevs[r][n]]
           /\ \A r, n \in nodes : n # r /\ dist[r][n] = IntMax => fwd[r][n] = Unreachable
  <1>1. IsGraph(nodes, edges)
    BY DEF LInv
  <1>2. \A n \in nodes : n \in Ids
    BY <1>1 DEF IsGraph
  <1>3. IntMax \in Nat /\ \A r, n \in nodes : edges[r][n] \in Nat
    BY <1>1, <1>2, TypesOf
  <1>4. ASSUME NEW r \in nodes
        PROVE  /\ dist[r][r] = 0 /\ fwd[r][r] = r
               /\ \A n \in nodes : /\ dist[r][n] \in Nat /\ dist[r][n] <= IntMax
                                   /\ n \in Ids /\ n \in Nat
               /\ \A v \in nodes : dist[r][v] < IntMax =>
                     \A h \in Neighbours(edges, v) : dist[r][h] <= dist[r][v] + edges[v][h]
               /\ \A n \in nodes : n # r /\ dist[r][n] < IntMax =>
                     /\ prevs[r][n] \in nodes /\ prevs[r][n] \in Neighbours(edges, n)
                     /\ n \in Neighbours(edges, prevs[r][n])
                     /\ edges[prevs[r][n]][n] \in Nat /\ edges[prevs[r][n]][n] > 0
                     /\ dist[r][n] = dist[r][prevs[r][n]] + edges[prevs[r][n]][n]
                     /\ dist[r][prevs[r][n]] < dist[r][n] /\ dist[r][prevs[r][n]] < IntMax
                     /\ dist[r][prevs[r][n]] \in Nat
                     /\ \A h \in Neighbours(edges, n) :
                           dist[r][h] + edges[h][n] = dist[r][n] => prevs[r][n] <= h
                     /\ fwd[r][n] = IF prevs[r][n] = r THEN n ELSE fwd[r][prevs[r][n]]
               /\ \A n \in nodes : n # r /\ dist[r][n] = IntMax => fwd[r][n] = Unreachable
    <2> DEFINE d == dist[r]
               p == prevs[r]
               f == fwd[r]
    <2>1. Table(nodes, edges, r, d, p, f) /\ Tree(nodes, edges, r, nodes, d, p)
      BY ReadyTable
    <2> HIDE DEF d, p, f
    <2>2. /\ d[r] = 0
          /\ \A n \in nodes : n \in Ids /\ n \in Nat /\ d[n] \in Nat /\ d[n] <= IntMax
          /\ \A v \in nodes : d[v] < IntMax =>
                \A h \in Neighbours(edges, v) : d[h] <= d[v] + edges[v][h]
          /\ \A n \in nodes : n # r /\ d[n] < IntMax =>
                /\ p[n] \in nodes /\ p[n] \in Neighbours(edges, n)
                /\ n \in Neighbours(edges, p[n])
                /\ edges[p[n]][n] \in Nat /\ edges[p[n]][n] > 0
                /\ d[n] = d[p[n]] + edges[p[n]][n]
                /\ d[p[n]] < d[n] /\ d[p[n]] < IntMax /\ d[p[n]] \in Nat
                /\ \A h \in Neighbours(edges, n) :
                      d[h] + edges[h][n] = d[n] => p[n] <= h
      BY <1>1, <2>1, TreeOf
    <2>3. \A n \in nodes : d[n] < IntMax => d[n] # IntMax
      BY <2>2, <1>3
    <2>4. /\ f[r] = r
          /\ \A n \in nodes : n # r /\ d[n] < IntMax =>
                f[n] = IF p[n] = r THEN n ELSE f[p[n]]
          /\ \A n \in nodes : n # r /\ d[n] = IntMax => f[n] = Unreachable
      BY <2>1, <2>3 DEF Table
    <2> QED
      BY <2>2, <2>4 DEF d, p, f
  <1>5. \A v \in nodes : \A h \in Neighbours(edges, v) : h \in nodes
    BY <1>1, <1>2, TypesOf
  <1> QED
    BY <1>1, <1>2, <1>3, <1>4, <1>5

(* Distances of different roots fit together *)
LEMMA Triangle ==
    ASSUME LInv, pc = "ready", NEW a \in nodes, NEW h \in nodes, NEW b \in nodes
    PROVE  dist[a][b] <= dist[a][h] + dist[h][b]
  <1> DEFINE S == {n \in nodes : ~ (dist[a][n] <= dist[a][h] + dist[h][n])}
             e == dist[h]
  <1> SUFFICES ASSUME S # {} PROVE FALSE
    OBVIOUS
  <1>0. /\ \A r, n \in nodes : dist[r][n] \in Nat /\ dist[r][n] <= IntMax
        /\ IntMax \in Nat
    BY ReadyOf
  <1>1. PICK n \in S : \A k \in S : e[n] <= e[k]
    <2>1. \A k \in S : e[k] \in Nat
      BY <1>0
    <2> HIDE DEF S, e
    <2> QED
      BY <2>1, LeastValue
  <1>2. n \in nodes /\ ~ (dist[a][n] <= dist[a][h] + dist[h][n])
    OBVIOUS
  <1>3. dist[a][n] \in Nat /\ dist[a][h] \in Nat /\ dist[h][n] \in Nat /\ dist[a][n] <= IntMax
    BY <1>0, <1>2
  <1>4. dist[h][n] < IntMax
    BY <1>0, <1>2, <1>3
  <1>5. n # h
    <2>1. dist[h][h] = 0
      BY ReadyOf
    <2> QED
      BY <2>1, <1>2, <1>3
  <1> DEFINE k == prevs[h][n]
  <1>6. /\ k \in nodes /\ n \in Neighbours(edges, k) /\ edges[k][n] \in Nat
        /\ dist[h][n] = dist[h][k] + edges[k][n]
        /\ dist[h][k] < dist[h][n] /\ dist[h][k] \in Nat
    BY <1>2, <1>4, <1>5, ReadyOf
  <1> HIDE DEF k
  <1>7. dist[a][k] <= dist[a][h] + dist[h][k]
    <2>1. k \notin S
      BY <1>1, <1>3, <1>6
    <2> QED
      BY <2>1, <1>6
  <1>8. dist[a][k] \in Nat
    BY <1>0, <1>6
  <1>9. CASE dist[a][k] < IntMax
    <2>1. dist[a][n] <= dist[a][k] + edges[k][n]
      BY <1>6, <1>9, ReadyOf
    <2> QED
      BY <2>1, <1>2, <1>3, <1>6, <1>7, <1>8
  <1>10. CASE ~ (dist[a][k] < IntMax)
    BY <1>0, <1>2, <1>3, <1>6, <1>7, <1>8, <1>10
  <1> QED
    BY <1>9, <1>10

(* The first hop starts a best path *)
LEMMA FirstHopIsBest ==
    ASSUME LInv, pc = "ready", NEW a \in nodes, NEW b \in nodes \ {a}, dist[a][b] < IntMax
    PROVE  /\ fwd[a][b] \in nodes /\ fwd[a][b] \in Neighbours(edges, a)
           /\ dist[fwd[a][b]][b] < IntMax
           /\ dist[a][b] = edges[a][fwd[a][b]] + dist[fwd[a][b]][b]
  <1> DEFINE Ok(n) == /\ fwd[a][n] \in nodes /\ fwd[a][n] \in Neighbours(edges, a)
                      /\ dist[fwd[a][n]][n] < IntMax
                      /\ dist[a][n] = edges[a][fwd[a][n]] + dist[fwd[a][n]][n]
             S == {n \in nodes \ {a} : dist[a][n] < IntMax /\ ~ Ok(n)}
             d == dist[a]
  <1> SUFFICES ASSUME S # {} PROVE FALSE
    OBVIOUS
  <1>0. /\ \A r, n \in nodes : /\ dist[r][n] \in Nat /\ dist[r][n] <= IntMax
                               /\ edges[r][n] \in Nat
        /\ IntMax \in Nat /\ \A r \in nodes : dist[r][r] = 0
    BY ReadyOf
  <1>1. PICK n \in S : \A k \in S : d[n] <= d[k]
    <2>1. \A k \in S : d[k] \in Nat
      BY <1>0
    <2> HIDE DEF S, d
    <2> QED
      BY <2>1, LeastValue
  <1>2. n \in nodes /\ n # a /\ dist[a][n] < IntMax /\ ~ Ok(n)
    OBVIOUS
  <1> DEFINE k == prevs[a][n]
             h == fwd[a][n]
  <1>3. /\ k \in nodes /\ n \in Neighbours(edges, k) /\ edges[k][n] \in Nat
        /\ dist[a][n] = dist[a][k] + edges[k][n]
        /\ dist[a][k] < dist[a][n] /\ dist[a][k] \in Nat /\ dist[a][k] < IntMax
        /\ h = IF k = a THEN n ELSE fwd[a][k]
    BY <1>2, ReadyOf
  <1> HIDE DEF k
  <1>4. CASE k = a
    <2>1. h = n /\ dist[a][a] = 0 /\ dist[n][n] = 0 /\ n \in Neighbours(edges, a)
      BY <1>0, <1>2, <1>3, <1>4
    <2>2. 0 < IntMax
      BY <1>0, <1>2
    <2>3. dist[a][n] = edges[a][n] + dist[n][n]
      BY <2>1, <1>3, <1>4
    <2>4. n \in nodes /\ dist[n][n] < IntMax
      BY <2>1, <2>2, <1>2
    <2>5. Ok(n)
      <3>1. fwd[a][n] = n /\ n \in Neighbours(edges, a)
        BY <2>1
      <3> QED
        BY ONLY <3>1, <2>3, <2>4
    <2> QED
      BY <2>5, <1>2
  <1>5. CASE k # a
    <2>1. k \notin S
      <3>1. d[k] < d[n] /\ d[k] \in Nat /\ d[n] \in Nat
        BY <1>0, <1>2, <1>3
      <3>2. k \in S => d[n] <= d[k]
        BY <1>1
      <3> HIDE DEF S, d
      <3> QED
        BY ONLY <3>1, <3>2
    <2>2. Ok(k)
      BY <2>1, <1>3, <1>5
    <2>3. h = fwd[a][k]
      BY <1>3, <1>5
    <2>4. /\ h \in nodes /\ h \in Neighbours(edges, a) /\ dist[h][k] < IntMax
          /\ dist[a][k] = edges[a][h] + dist[h][k]
      BY <2>2, <2>3
    <2> HIDE DEF h
    <2>5. dist[h][n] <= dist[h][k] + edges[k][n]
      BY <2>4, <1>3, ReadyOf
    <2>6. dist[a][h] <= dist[a][a] + edges[a][h]
      <3>1. dist[a][a] \in Nat /\ dist[a][a] = 0 /\ dist[a][n] \in Nat
        BY <1>0, <1>2
      <3>2. dist[a][a] < IntMax
        BY <3>1, <1>0, <1>2
      <3>3. h \in Neighbours(edges, a)
        BY <2>4
      <3> QED
        BY <3>2, <3>3, ReadyOf
    <2>7. dist[a][n] <= dist[a][h] + dist[h][n]
      BY <2>4, <1>2, Triangle
    <2>8. /\ dist[a][h] \in Nat /\ dist[h][n] \in Nat /\ dist[h][k] \in Nat
          /\ edges[a][h] \in Nat /\ dist[a][n] \in Nat /\ dist[a][a] = 0
      BY <2>4, <1>0, <1>2, <1>3
    <2>9. dist[a][n] = edges[a][h] + dist[h][n] /\ dist[h][n] <= dist[a][n]
      <3>1. /\ dist[a][n] = dist[a][k] + edges[k][n] /\ edges[k][n] \in Nat
            /\ dist[a][k] = edges[a][h] + dist[h][k]
        BY <2>4, <1>3
      <3> QED
        BY <3>1, <2>5, <2>6, <2>7, <2>8
    <2>10. dist[h][n] < IntMax
      BY <2>8, <2>9, <1>0, <1>2
    <2> QED
      BY <2>4, <2>9, <2>10, <1>2 DEF h
  <1> QED
    BY <1>4, <1>5

(* On a best path from n over x to m, x and n see the same last node: the  *)
(* ties are broken the same way                                            *)
LEMMA SamePred ==
    ASSUME LInv, pc = "ready", NEW n \in nodes, NEW m \in nodes \ {n}, dist[n][m] < IntMax,
           NEW x \in nodes, dist[n][x] < IntMax, dist[x][prevs[n][m]] < IntMax,
           dist[n][prevs[n][m]] = dist[n][x] + dist[x][prevs[n][m]]
    PROVE  /\ prevs[x][m] = prevs[n][m] /\ x # m /\ dist[x][m] < IntMax
           /\ dist[n][m] = dist[n][x] + dist[x][m]
  <1> DEFINE p == prevs[n][m]
             q == prevs[x][m]
  <1>0. /\ \A r, s \in nodes : /\ dist[r][s] \in Nat /\ dist[r][s] <= IntMax
                               /\ edges[r][s] \in Nat /\ s \in Nat
        /\ IntMax \in Nat /\ \A r \in nodes : dist[r][r] = 0
    BY ReadyOf
  <1>1. /\ p \in nodes /\ p \in Neighbours(edges, m) /\ m \in Neighbours(edges, p)
        /\ edges[p][m] > 0 /\ dist[n][m] = dist[n][p] + edges[p][m]
        /\ dist[n][p] < dist[n][m]
        /\ \A h \in Neighbours(edges, m) :
              dist[n][h] + edges[h][m] = dist[n][m] => p <= h
    BY ReadyOf
  <1>h. dist[x][p] < IntMax /\ dist[n][p] = dist[n][x] + dist[x][p]
    OBVIOUS
  <1> HIDE DEF p
  <1>2. dist[x][m] <= dist[x][p] + edges[p][m]
    BY <1>1, <1>h, ReadyOf
  <1>3. dist[n][m] <= dist[n][x] + dist[x][m]
    BY Triangle
  <1>4. /\ dist[x][m] \in Nat /\ dist[x][p] \in Nat /\ edges[p][m] \in Nat
        /\ dist[n][m] \in Nat /\ dist[n][x] \in Nat /\ dist[n][p] \in Nat
    BY <1>0, <1>1
  <1>5. dist[x][m] = dist[x][p] + edges[p][m] /\ dist[n][m] = dist[n][x] + dist[x][m]
    BY <1>1, <1>2, <1>3, <1>4, <1>h
  <1>6. dist[x][m] < IntMax
    BY <1>0, <1>4, <1>5
  <1>7. x # m
    <2>1. dist[n][x] # dist[n][m]
      BY <1>1, <1>4, <1>5
    <2> QED
      BY <2>1
  <1>8. /\ q \in nodes /\ q \in Neighbours(edges, m) /\ m \in Neighbours(edges, q)
        /\ dist[x][m] = dist[x][q] + edges[q][m]
        /\ \A h \in Neighbours(edges, m) :
              dist[x][h] + edges[h][m] = dist[x][m] => q <= h
    BY <1>6, <1>7, ReadyOf
  <1> HIDE DEF q
  <1>9. q <= p
    BY <1>1, <1>5, <1>8
  <1>10. dist[n][q] + edges[q][m] = dist[n][m]
    <2>1. dist[n][q] <= dist[n][x] + dist[x][q]
      BY <1>8, Triangle
    <2>2. dist[n][q] \in Nat /\ dist[x][q] \in Nat /\ edges[q][m] \in Nat
      BY <1>0, <1>8
    <2>3. dist[n][q] + edges[q][m] <= dist[n][m]
      BY <2>1, <2>2, <1>4, <1>5, <1>8
    <2>4. dist[n][q] < IntMax
      BY <2>2, <2>3, <1>0, <1>4
    <2>5. dist[n][m] <= dist[n][q] + edges[q][m]
      BY <2>4, <1>8, ReadyOf
    <2> QED
      BY <2>2, <2>3, <2>5, <1>4
  <1>11. p <= q
    BY <1>1, <1>8, <1>10
  <1>12. p = q
    BY <1>0, <1>1, <1>8, <1>9, <1>11
  <1> QED
    BY <1>5, <1>6, <1>7, <1>12 DEF p, q

-----------------------------------------------------------------------------
(* The nodes in reach of r, and the hops to them as next_hops collects     *)
(* them                                                                    *)
InReach(r) == {n \in nodes : dist[r][n] < IntMax}

HopsOf(hops, r, n) ==
    IF n = r THEN << >> ELSE Append(hops[prevs[r][n]], prevs[r][n])

(* Walking back along the predecessors ends: there is a function as        *)
(* next_hops computes it                                                   *)
LEMMA HopsExist ==
    ASSUME LInv, pc = "ready", NEW r \in nodes
    PROVE  \E hops : hops = [n \in InReach(r) |-> HopsOf(hops, r, n)]
  <1> DEFINE reach == InReach(r)
             d == dist[r]
             p == prevs[r]
             Near(k) == {n \in reach : d[n] <= k}
             Defined(k) == \E hops : hops = [n \in Near(k) |-> HopsOf(hops, r, n)]
             S == {k \in Nat : ~ Defined(k)}
  <1>1. \A n \in reach : /\ d[n] \in Nat /\ d[n] <= IntMax
                         /\ n # r => /\ p[n] \in reach /\ d[p[n]] \in Nat
                                     /\ d[p[n]] < d[n]
    <2> TAKE n \in reach
    <2>1. n \in nodes /\ d[n] \in Nat /\ d[n] < IntMax /\ d[n] <= IntMax
      BY ReadyOf DEF InReach
    <2>2. n # r => p[n] \in nodes /\ d[p[n]] \in Nat /\ d[p[n]] < d[n] /\ d[p[n]] < IntMax
      BY <2>1, ReadyOf
    <2> QED
      BY <2>1, <2>2 DEF InReach
  <1> HIDE DEF reach, d
  <1>2. Defined(0)
    <2>1. \A n \in Near(0) : n = r
      BY <1>1
    <2> DEFINE g == [n \in Near(0) |-> << >>]
    <2>2. g = [n \in Near(0) |-> HopsOf(g, r, n)]
      BY <2>1 DEF HopsOf
    <2> QED
      BY <2>2
  <1>3. ASSUME NEW k \in Nat, k > 0, Defined(k - 1) PROVE Defined(k)
    <2>1. PICK h : h = [n \in Near(k - 1) |-> HopsOf(h, r, n)]
      BY <1>3
    <2> DEFINE g == [n \in Near(k) |-> HopsOf(h, r, n)]
    <2>2. \A n \in Near(k) : n # r => g[p[n]] = h[p[n]]
      <3> TAKE n \in Near(k)
      <3> HAVE n # r
      <3> DEFINE j == p[n]
      <3>1. n \in reach /\ d[n] <= k
        OBVIOUS
      <3>2. j \in reach /\ d[j] \in Nat /\ d[n] \in Nat /\ d[j] < d[n]
        BY <3>1, <1>1
      <3> HIDE DEF j
      <3>3. d[j] <= k - 1 /\ d[j] <= k
        BY <3>1, <3>2
      <3>4. j \in Near(k - 1) /\ j \in Near(k)
        BY <3>2, <3>3
      <3> HIDE DEF Near
      <3>5. g[j] = HopsOf(h, r, j)
        BY <3>4
      <3>6. h[j] = HopsOf(h, r, j)
        BY <3>4, <2>1
      <3> QED
        BY <3>5, <3>6 DEF j
    <2> HIDE DEF Near
    <2>3. \A n \in Near(k) : HopsOf(h, r, n) = HopsOf(g, r, n)
      BY <2>2 DEF HopsOf
    <2>4. g = [n \in Near(k) |-> HopsOf(g, r, n)]
      <3> DEFINE g2 == [n \in Near(k) |-> HopsOf(g, r, n)]
      <3>1. g = g2
        BY <2>3
      <3> QED
        BY <3>1
    <2> QED
      BY <2>4
  <1>4. S = {}
    <2> SUFFICES ASSUME S # {} PROVE FALSE
      OBVIOUS
    <2> HIDE DEF Defined
    <2>1. PICK k \in S : \A j \in S : k <= j
      <3>1. S \in SUBSET Nat
        OBVIOUS
      <3> HIDE DEF S
      <3> QED
        BY <3>1, LeastNatural
    <2>2. k \in Nat /\ ~ Defined(k)
      OBVIOUS
    <2>3. k > 0
      BY <2>2, <1>2
    <2>4. k - 1 \in Nat /\ ~ (k <= k - 1)
      BY <2>2, <2>3
    <2>5. Defined(k - 1)
      BY <2>1, <2>4
    <2> QED
      BY <2>2, <2>3, <2>5, <1>3
  <1>5. Near(IntMax) = reach
    BY <1>1
  <1>6. Defined(IntMax)
    <2>1. IntMax \in Nat
      BY ReadyOf
    <2> HIDE DEF Defined
    <2> QED
      BY <2>1, <1>4
  <1> HIDE DEF Near
  <1> QED
    BY <1>5, <1>6 DEF reach

(* The hops of a message from n to m: all on one best path, and each node  *)
(* hands it on by its own table                                            *)
Way(hops, n, m) ==
    /\ hops \in Seq(nodes)
    /\ IF n = m THEN hops = << >> ELSE Len(hops) > 0 /\ hops[1] = n
    /\ \A i \in 1 .. Len(hops) :
          /\ dist[n][hops[i]] < IntMax /\ dist[hops[i]][m] < IntMax
          /\ dist[n][m] = dist[n][hops[i]] + dist[hops[i]][m]
          /\ hops[i] # m
          /\ fwd[hops[i]][m] = IF i = Len(hops) THEN m ELSE hops[i + 1]

(* A way to the predecessor of m, and the predecessor, is a way to m: the  *)
(* nodes of the way all have this predecessor for m                        *)
LEMMA LongerWay ==
    ASSUME LInv, pc = "ready", NEW n \in nodes, NEW m \in nodes \ {n}, dist[n][m] < IntMax,
           NEW h, Way(h, n, prevs[n][m])
    PROVE  Way(Append(h, prevs[n][m]), n, m)
  <1> DEFINE p == prevs[n][m]
             hops == Append(h, p)
             L == Len(h)
  <1>0. p \in nodes /\ dist[n][p] < IntMax /\ dist[n][p] \in Nat /\ dist[p][p] = 0 /\ 0 < IntMax
    <2>1. p \in nodes /\ dist[n][p] < IntMax /\ dist[n][p] \in Nat
      BY ReadyOf
    <2>2. IntMax \in Nat /\ dist[p][p] = 0
      BY <2>1, ReadyOf
    <2> QED
      BY <2>1, <2>2
  <1>1. h \in Seq(nodes) /\ L \in Nat
    BY DEF Way
  <1>2. /\ IF n = p THEN h = << >> ELSE L > 0 /\ h[1] = n
        /\ \A i \in 1 .. L :
              /\ h[i] \in nodes /\ dist[n][h[i]] < IntMax /\ dist[h[i]][p] < IntMax
              /\ dist[n][p] = dist[n][h[i]] + dist[h[i]][p]
              /\ h[i] # p
              /\ fwd[h[i]][p] = IF i = L THEN p ELSE h[i + 1]
    BY <1>1 DEF Way
  <1>3. /\ hops \in Seq(nodes) /\ Len(hops) = L + 1 /\ hops[L + 1] = p
        /\ \A i \in 1 .. L : hops[i] = h[i]
    BY <1>0, <1>1, AppendProperties
  <1>4. ASSUME NEW x \in nodes, dist[n][x] < IntMax, dist[x][p] < IntMax,
               dist[n][p] = dist[n][x] + dist[x][p]
        PROVE  /\ x # m /\ dist[x][m] < IntMax /\ dist[n][m] = dist[n][x] + dist[x][m]
               /\ fwd[x][m] = IF p = x THEN m ELSE fwd[x][p]
    <2>1. /\ prevs[x][m] = p /\ x # m /\ dist[x][m] < IntMax
          /\ dist[n][m] = dist[n][x] + dist[x][m]
      BY <1>4, SamePred
    <2> HIDE DEF p
    <2>2. fwd[x][m] = IF prevs[x][m] = x THEN m ELSE fwd[x][prevs[x][m]]
      BY <2>1, ReadyOf
    <2> QED
      BY <2>1, <2>2
  <1> HIDE DEF p, hops, L
  <1>5. ASSUME NEW i \in 1 .. L + 1
        PROVE  /\ dist[n][hops[i]] < IntMax /\ dist[hops[i]][m] < IntMax
               /\ dist[n][m] = dist[n][hops[i]] + dist[hops[i]][m]
               /\ hops[i] # m
               /\ fwd[hops[i]][m] = IF i = L + 1 THEN m ELSE hops[i + 1]
    <2>1. CASE i = L + 1
      <3>1. hops[i] = p /\ dist[n][p] = dist[n][p] + dist[p][p]
        BY <2>1, <1>0, <1>3
      <3>2. dist[p][p] < IntMax
        BY <1>0
      <3> QED
        BY <2>1, <3>1, <3>2, <1>0, <1>4
    <2>2. CASE i # L + 1
      <3>1. i \in 1 .. L
        BY <2>2, <1>1
      <3>2. /\ hops[i] = h[i] /\ h[i] \in nodes
            /\ dist[n][h[i]] < IntMax /\ dist[h[i]][p] < IntMax
            /\ dist[n][p] = dist[n][h[i]] + dist[h[i]][p] /\ h[i] # p
            /\ fwd[h[i]][p] = IF i = L THEN p ELSE h[i + 1]
        BY <3>1, <1>2, <1>3
      <3>3. hops[i + 1] = IF i = L THEN p ELSE h[i + 1]
        BY <3>1, <1>1, <1>3
      <3>4. /\ h[i] # m /\ dist[h[i]][m] < IntMax /\ dist[n][m] = dist[n][h[i]] + dist[h[i]][m]
            /\ fwd[h[i]][m] = fwd[h[i]][p]
        BY <3>2, <1>4
      <3> QED
        BY <2>2, <3>2, <3>3, <3>4
    <2> QED
      BY <2>1, <2>2
  <1>6. Len(hops) > 0 /\ hops[1] = n
    <2>1. CASE n = p
      <3>1. L = 0
        BY <2>1, <1>2 DEF L
      <3> QED
        BY <2>1, <3>1, <1>3
    <2>2. CASE n # p
      <3>1. L > 0 /\ h[1] = n
        BY <2>2, <1>2
      <3> QED
        BY <3>1, <1>1, <1>3
    <2> QED
      BY <2>1, <2>2
  <1>7. Way(hops, n, m)
    BY <1>3, <1>5, <1>6 DEF Way
  <1> QED
    BY <1>7 DEF hops, p

(* What next_hops collects is the way of the message *)
LEMMA HopsAreWays ==
    ASSUME LInv, pc = "ready", NEW n \in nodes, NEW hops,
           hops = [m \in InReach(n) |-> HopsOf(hops, n, m)]
    PROVE  \A m \in InReach(n) : Way(hops[m], n, m)
  <1> DEFINE S == {m \in InReach(n) : ~ Way(hops[m], n, m)}
             d == dist[n]
  <1> SUFFICES ASSUME S # {} PROVE FALSE
    OBVIOUS
  <1>0. \A m \in InReach(n) : m \in nodes /\ dist[n][m] < IntMax /\ dist[n][m] \in Nat
    BY ReadyOf DEF InReach
  <1>1. PICK m \in S : \A k \in S : d[m] <= d[k]
    <2>1. \A k \in S : d[k] \in Nat
      BY <1>0
    <2> HIDE DEF S, d
    <2> QED
      BY <2>1, LeastValue
  <1>2. m \in InReach(n) /\ m \in nodes /\ dist[n][m] < IntMax /\ ~ Way(hops[m], n, m)
    BY <1>0
  <1>3. hops[m] = HopsOf(hops, n, m)
    BY <1>2
  <1>4. CASE m = n
    <2>1. hops[m] = << >>
      BY <1>3, <1>4 DEF HopsOf
    <2>2. Way(<< >>, n, n)
      <3>1. << >> \in Seq(nodes) /\ Len(<< >>) = 0 /\ 1 .. 0 = {}
        OBVIOUS
      <3> QED
        BY <3>1 DEF Way
    <2> QED
      BY <2>1, <2>2, <1>2, <1>4
  <1>5. CASE m # n
    <2> DEFINE p == prevs[n][m]
    <2>1. hops[m] = Append(hops[p], p)
      BY <1>3, <1>5 DEF HopsOf
    <2>2. /\ p \in nodes /\ dist[n][p] < dist[n][m] /\ dist[n][p] < IntMax
          /\ dist[n][p] \in Nat /\ dist[n][m] \in Nat
      BY <1>0, <1>2, <1>5, ReadyOf
    <2> HIDE DEF p
    <2>3. p \in InReach(n) /\ ~ (dist[n][m] <= dist[n][p])
      BY <2>2 DEF InReach
    <2>4. Way(hops[p], n, p)
      BY <2>3, <1>1
    <2>5. Way(Append(hops[p], p), n, m)
      BY <2>4, <1>2, <1>5, LongerWay DEF p
    <2> QED
      BY <2>1, <2>5, <1>2
  <1> QED
    BY <1>4, <1>5

-----------------------------------------------------------------------------
(* What is printed, and what the network promises of it, by their          *)
(* variables                                                               *)
Rows(nds, d, f) ==
    [r \in nds |-> [n \in {m \in nds : f[r][m] # Unreachable} |->
                       [next |-> f[r][n], cost |-> d[r][n]]]]

CostOf(nds, rows) ==
    [n \in nds |-> [m \in nds |->
        IF m \in DOMAIN rows[n] THEN rows[n][m].cost ELSE IntMax]]

IsTableOf(nds, eds, rows) ==
    /\ DOMAIN rows = nds
    /\ IsOptimal(eds, nds, CostOf(nds, rows))
    /\ \A n \in nds : \A m \in DOMAIN rows[n] \ {n} :
          /\ CostOf(nds, rows)[n][m] < IntMax
          /\ rows[n][m].next \in Neighbours(eds, n)
          /\ CostOf(nds, rows)[n][m] =
                eds[n][rows[n][m].next] + CostOf(nds, rows)[rows[n][m].next][m]

AreWaysOf(nds, rows, ways) ==
    \A n \in nds : \A m \in DOMAIN rows[n] \ {n} :
        Abstract!FollowsTables(rows, n, m, ways[n][m])

(* A row is printed for the nodes in reach, and only for them *)
LEMMA RowsOfReach ==
    ASSUME LInv, pc = "ready", NEW n \in nodes, NEW m \in nodes
    PROVE  fwd[n][m] # Unreachable <=> dist[n][m] < IntMax
  <1>1. \A k \in nodes : k # Unreachable
    BY ReadyOf DEF Unreachable
  <1>2. dist[n][m] \in Nat /\ dist[n][m] <= IntMax /\ IntMax \in Nat
    BY ReadyOf
  <1>3. CASE n = m
    <2>1. dist[n][n] = 0 /\ fwd[n][n] = n
      BY ReadyOf
    <2>2. IntMax > 0
      BY TopologyAssumption
    <2> QED
      BY <1>1, <1>3, <2>1, <2>2
  <1>4. CASE n # m /\ dist[n][m] < IntMax
    BY <1>1, <1>4, FirstHopIsBest
  <1>5. CASE n # m /\ ~ (dist[n][m] < IntMax)
    <2>1. dist[n][m] = IntMax
      BY <1>2, <1>5
    <2> QED
      BY <2>1, <1>5, ReadyOf
  <1> QED
    BY <1>3, <1>4, <1>5

(* The distances of all roots are those of the best paths *)
LEMMA BestDistances ==
    ASSUME LInv, pc = "ready"
    PROVE  IsOptimal(edges, nodes, dist)
  <1> SUFFICES ASSUME NEW n \in nodes, NEW m \in nodes
               PROVE  /\ dist[n][m] \in 0 .. IntMax
                      /\ n = m => dist[n][m] = 0
                      /\ \A h \in Neighbours(edges, n) :
                            dist[h][m] < IntMax => dist[n][m] <= edges[n][h] + dist[h][m]
                      /\ n # m /\ dist[n][m] < IntMax =>
                            \E h \in Neighbours(edges, n) :
                                dist[n][m] = edges[n][h] + dist[h][m]
    BY DEF IsOptimal
  <1>1. /\ dist[n][m] \in Nat /\ dist[n][m] <= IntMax /\ IntMax \in Nat
        /\ dist[n][n] = 0
    BY ReadyOf
  <1>2. ASSUME NEW h \in Neighbours(edges, n)
        PROVE  dist[n][m] <= edges[n][h] + dist[h][m]
    <2>1. 0 < IntMax
      BY TopologyAssumption
    <2>2. h \in nodes /\ dist[n][h] <= dist[n][n] + edges[n][h]
      BY <1>1, <2>1, ReadyOf
    <2>3. dist[n][m] <= dist[n][h] + dist[h][m]
      BY <2>2, Triangle
    <2>4. dist[n][h] \in Nat /\ dist[h][m] \in Nat /\ edges[n][h] \in Nat
      BY <2>2, ReadyOf
    <2> QED
      BY <2>2, <2>3, <2>4, <1>1
  <1>3. ASSUME n # m, dist[n][m] < IntMax
        PROVE  \E h \in Neighbours(edges, n) : dist[n][m] = edges[n][h] + dist[h][m]
    BY <1>3, FirstHopIsBest
  <1> QED
    BY <1>1, <1>2, <1>3

(* Of two tables of best paths none has a lower cost than the other *)
LEMMA NoLowerCost ==
    ASSUME NEW nds \in SUBSET Ids, NEW eds \in [Ids -> [Ids -> Costs \cup {0}]],
           \A n \in nds : Neighbours(eds, n) \subseteq nds,
           NEW a, IsOptimal(eds, nds, a), NEW b, IsOptimal(eds, nds, b)
    PROVE  \A n, m \in nds : a[n][m] <= b[n][m]
  <1> SUFFICES ASSUME NEW m \in nds PROVE \A n \in nds : a[n][m] <= b[n][m]
    OBVIOUS
  <1> DEFINE near == [n \in nds |-> Neighbours(eds, n)]
             am == [n \in nds |-> a[n][m]]
             bm == [n \in nds |-> b[n][m]]
  <1>1. \A n \in nds : near[n] \subseteq nds /\ \A h \in near[n] : eds[n][h] \in Nat \ {0}
    <2>1. ASSUME NEW n \in nds, NEW h \in Neighbours(eds, n)
          PROVE  eds[n][h] \in Nat \ {0}
      <3>1. n \in Ids /\ h \in Ids /\ eds[n][h] > 0
        BY DEF Neighbours
      <3>2. eds[n][h] \in Costs \cup {0} /\ \A c \in Costs \cup {0} : c \in Nat
        BY <3>1, TopologyAssumption
      <3> QED
        BY <3>1, <3>2
    <2> QED
      BY <2>1
  <1>2. \A n \in nds : am[n] \in 0 .. IntMax /\ bm[n] \in 0 .. IntMax
    BY DEF IsOptimal
  <1>3. am[m] = 0
    BY DEF IsOptimal
  <1>4. \A n \in nds : \A h \in near[n] : am[h] < IntMax => am[n] <= eds[n][h] + am[h]
    BY <1>1 DEF IsOptimal
  <1>5. \A n \in nds \ {m} : bm[n] < IntMax => \E h \in near[n] : bm[n] = eds[n][h] + bm[h]
    BY <1>1 DEF IsOptimal
  <1> HIDE DEF near, am, bm
  <1>6. \A n \in nds : am[n] <= bm[n]
    BY <1>1, <1>2, <1>3, <1>4, <1>5, LeastCosts, TopologyAssumption
  <1> QED
    BY <1>6 DEF am, bm

(* The network alone determines the costs that linkstate prints, which are *)
(* therefore those that distvec prints.                                    *)
THEOREM CostsAreDetermined ==
    Spec => [](pc = "ready" =>
                  \A cost : IsOptimal(edges, nodes, cost) =>
                      \A n, m \in nodes : dist[n][m] = cost[n][m])
  <1>1. LInv => (pc = "ready" =>
                  \A cost : IsOptimal(edges, nodes, cost) =>
                      \A n, m \in nodes : dist[n][m] = cost[n][m])
    <2> SUFFICES ASSUME LInv, pc = "ready", NEW cost, IsOptimal(edges, nodes, cost),
                        NEW n \in nodes, NEW m \in nodes
                 PROVE  dist[n][m] = cost[n][m]
      OBVIOUS
    <2>1. /\ nodes \in SUBSET Ids /\ edges \in [Ids -> [Ids -> Costs \cup {0}]]
          /\ \A k \in nodes : Neighbours(edges, k) \subseteq nodes
      <3>1. nodes \in SUBSET Ids /\ edges \in [Ids -> [Ids -> Costs \cup {0}]]
        BY DEF LInv, TypeOK
      <3>2. IsGraph(nodes, edges)
        BY ReadyOf
      <3> QED
        BY <3>1, <3>2, TypesOf
    <2>2. IsOptimal(edges, nodes, dist)
      BY BestDistances
    <2>3. dist[n][m] <= cost[n][m] /\ cost[n][m] <= dist[n][m]
      BY <2>1, <2>2, NoLowerCost
    <2>4. dist[n][m] \in Int /\ cost[n][m] \in Int
      BY <2>2 DEF IsOptimal
    <2> QED
      BY <2>3, <2>4
  <1> QED
    BY <1>1, LInvHolds, PTL

(* The rows that print_results prints are the tables of the best paths *)
LEMMA RowsAreTables ==
    ASSUME LInv, pc = "ready"
    PROVE  IsTableOf(nodes, edges, PrintResults.rows)
  <1> DEFINE rows == Rows(nodes, dist, fwd)
             cost == CostOf(nodes, rows)
  <1>0. PrintResults.rows = rows
    BY DEF PrintResults, Rows
  <1>1. /\ DOMAIN rows = nodes
        /\ \A n \in nodes : DOMAIN rows[n] = {m \in nodes : fwd[n][m] # Unreachable}
        /\ \A n \in nodes : \A m \in DOMAIN rows[n] :
              rows[n][m].next = fwd[n][m] /\ rows[n][m].cost = dist[n][m]
    BY DEF Rows
  <1>2. \A n, m \in nodes : dist[n][m] \in Nat /\ dist[n][m] <= IntMax /\ IntMax \in Nat
    BY ReadyOf
  <1>3. \A n, m \in nodes : m \in DOMAIN rows[n] <=> dist[n][m] < IntMax
    <2> HIDE DEF rows
    <2> QED
      BY <1>1, RowsOfReach
  <1> HIDE DEF rows
  <1>4. \A n, m \in nodes : cost[n][m] = dist[n][m]
    <2> TAKE n, m \in nodes
    <2>1. cost[n][m] = IF dist[n][m] < IntMax THEN dist[n][m] ELSE IntMax
      BY <1>1, <1>3 DEF CostOf
    <2> QED
      BY <2>1, <1>2
  <1> HIDE DEF cost
  <1>5. \A n \in nodes : \A h \in Neighbours(edges, n) : h \in nodes
    <2> TAKE n \in nodes
    <2>1. IsGraph(nodes, edges) /\ n \in Ids
      BY ReadyOf
    <2> QED
      BY <2>1, TypesOf
  <1>6. IsOptimal(edges, nodes, cost)
    <2> SUFFICES ASSUME NEW n \in nodes, NEW m \in nodes
                 PROVE  /\ cost[n][m] \in 0 .. IntMax
                        /\ n = m => cost[n][m] = 0
                        /\ \A h \in Neighbours(edges, n) :
                              cost[h][m] < IntMax => cost[n][m] <= edges[n][h] + cost[h][m]
                        /\ n # m /\ cost[n][m] < IntMax =>
                              \E h \in Neighbours(edges, n) :
                                  cost[n][m] = edges[n][h] + cost[h][m]
      BY DEF IsOptimal
    <2>1. /\ dist[n][m] \in 0 .. IntMax
          /\ n = m => dist[n][m] = 0
          /\ \A h \in Neighbours(edges, n) :
                dist[h][m] < IntMax => dist[n][m] <= edges[n][h] + dist[h][m]
          /\ n # m /\ dist[n][m] < IntMax =>
                \E h \in Neighbours(edges, n) :
                    dist[n][m] = edges[n][h] + dist[h][m]
      BY BestDistances DEF IsOptimal
    <2>2. cost[n][m] = dist[n][m] /\ \A h \in Neighbours(edges, n) : cost[h][m] = dist[h][m]
      BY <1>4, <1>5
    <2> QED
      BY <2>1, <2>2
  <1>7. ASSUME NEW n \in nodes, NEW m \in DOMAIN rows[n] \ {n}
        PROVE  /\ cost[n][m] < IntMax
               /\ rows[n][m].next \in Neighbours(edges, n)
               /\ cost[n][m] = edges[n][rows[n][m].next] + cost[rows[n][m].next][m]
    <2>1. m \in nodes /\ n # m /\ dist[n][m] < IntMax /\ rows[n][m].next = fwd[n][m]
      BY <1>1, <1>3
    <2>2. /\ fwd[n][m] \in nodes /\ fwd[n][m] \in Neighbours(edges, n)
          /\ dist[n][m] = edges[n][fwd[n][m]] + dist[fwd[n][m]][m]
      BY <2>1, FirstHopIsBest
    <2> QED
      BY <2>1, <2>2, <1>4
  <1> QED
    BY <1>0, <1>1, <1>6, <1>7 DEF IsTableOf, cost

(* The hops that print_messages prints are those of the tables *)
LEMMA WaysAreRight ==
    ASSUME LInv, pc = "ready"
    PROVE  AreWaysOf(nodes, PrintResults.rows, PrintResults.ways)
  <1> DEFINE rows == Rows(nodes, dist, fwd)
             ways == [n \in nodes |-> NextHops(n)]
  <1>0. PrintResults.rows = rows /\ PrintResults.ways = ways
    BY DEF PrintResults, Rows
  <1>1. /\ \A n \in nodes : DOMAIN rows[n] = {m \in nodes : fwd[n][m] # Unreachable}
        /\ \A n \in nodes : \A m \in DOMAIN rows[n] : rows[n][m].next = fwd[n][m]
    BY DEF Rows
  <1> HIDE DEF rows
  <1>2. \A n \in nodes : DOMAIN rows[n] = InReach(n)
    BY <1>1, RowsOfReach DEF InReach
  <1>3. ASSUME NEW n \in nodes, NEW m \in InReach(n) \ {n}
        PROVE  Abstract!FollowsTables(rows, n, m, ways[n][m])
    <2> DEFINE all == NextHops(n)
               hops == all[m]
               way == Append(hops, m)
               L == Len(hops)
    <2>1. m \in nodes /\ m # n
      BY DEF InReach
    <2>2. all = [k \in InReach(n) |-> HopsOf(all, n, k)]
      BY HopsExist DEF NextHops, InReach, HopsOf
    <2>3. Way(hops, n, m)
      <3> HIDE DEF all
      <3> QED
        BY <2>2, HopsAreWays
    <2>4. ways[n][m] = hops
      OBVIOUS
    <2> HIDE DEF hops, ways
    <2>5. /\ hops \in Seq(nodes) /\ L \in Nat /\ L > 0 /\ hops[1] = n
          /\ \A i \in 1 .. L : /\ dist[hops[i]][m] < IntMax
                               /\ fwd[hops[i]][m] = IF i = L THEN m ELSE hops[i + 1]
      BY <2>1, <2>3 DEF Way
    <2>6. \A i \in 1 .. L : hops[i] \in nodes
      BY <2>5
    <2>7. way[L + 1] = m /\ \A i \in 1 .. L : way[i] = hops[i]
      BY <2>1, <2>5, AppendProperties
    <2> HIDE DEF L, way
    <2>8. way[1] = n
      BY <2>5, <2>7
    <2>9. ASSUME NEW i \in 1 .. L PROVE rows[way[i]][m].next = way[i + 1]
      <3>1. /\ way[i] = hops[i] /\ way[i] \in nodes /\ dist[way[i]][m] < IntMax
            /\ fwd[way[i]][m] = IF i = L THEN m ELSE hops[i + 1]
        BY <2>5, <2>6, <2>7
      <3>2. i # L => way[i + 1] = hops[i + 1]
        BY <2>5, <2>7
      <3>3. m \in DOMAIN rows[way[i]]
        BY <3>1, <2>1, <1>2 DEF InReach
      <3>4. rows[way[i]][m].next = fwd[way[i]][m]
        BY <3>1, <3>3, <1>1
      <3> QED
        BY <3>1, <3>2, <3>4, <2>7
    <2> QED
      BY <2>4, <2>8, <2>9 DEF Abstract!FollowsTables, L, way
  <1> HIDE DEF ways
  <1> QED
    BY <1>0, <1>2, <1>3 DEF AreWaysOf

-----------------------------------------------------------------------------
(* What the refinement says of the printed tables *)
PrintedRight ==
    /\ pc = "ready" =>
          /\ IsTableOf(nodes, edges, PrintResults.rows)
          /\ AreWaysOf(nodes, PrintResults.rows, PrintResults.ways)
    /\ nodes = {} => PrintResults = [rows |-> << >>, ways |-> << >>]

(* The invariant makes all that is printed right *)
LEMMA PrintedRightHolds == LInv => PrintedRight
  <1> SUFFICES ASSUME LInv PROVE PrintedRight
    OBVIOUS
  <1>1. ASSUME nodes = {} PROVE PrintResults = [rows |-> << >>, ways |-> << >>]
    BY <1>1 DEF PrintResults
  <1>2. ASSUME pc = "ready" PROVE /\ IsTableOf(nodes, edges, PrintResults.rows)
                                  /\ AreWaysOf(nodes, PrintResults.rows, PrintResults.ways)
    BY <1>2, RowsAreTables, WaysAreRight
  <1> QED
    BY <1>1, <1>2 DEF PrintedRight

PrintOf(p, results) == IF p = "ready" THEN results ELSE [rows |-> << >>, ways |-> << >>]

ResultsOf(nds, d, p, f) ==
    [rows |-> [r \in nds |-> [n \in {m \in nds : f[r][m] # Unreachable} |->
                  [next |-> f[r][n], cost |-> d[r][n]]]],
     ways |-> [r \in nds |->
                  LET reach == {n \in nds : d[r][n] < IntMax}
                      hops[n \in reach] ==
                          IF n = r THEN << >> ELSE Append(hops[p[r][n]], p[r][n])
                  IN  hops]]

absVars == <<nodes, edges, pc # "topo", pc = "ready", PrintOf(pc, PrintResults)>>

(* What is printed is a function of the nodes and their tables *)
LEMMA SameResults ==
    ASSUME UNCHANGED <<nodes, dist, prevs, fwd>>
    PROVE  UNCHANGED PrintResults
  <1>1. PrintResults = ResultsOf(nodes, dist, prevs, fwd)
    BY DEF PrintResults, NextHops, ResultsOf
  <1>2. PrintResults' = ResultsOf(nodes', dist', prevs', fwd')
    BY DEF PrintResults, NextHops, ResultsOf
  <1> QED
    BY <1>1, <1>2

(* A step of linkstate is a step of the network or none *)
LEMMA StepImplements ==
    ASSUME LInv, PrintedRight', [Next]_vars
    PROVE  Abstract!Next \/ UNCHANGED absVars
  <1> USE DEF absVars, PrintOf
  <1>t. TypeOK
    BY DEF LInv
  <1>1. ASSUME NEW l \in Lines, ReadLine(l), pc' # "ready", pc' # "topo" <=> pc # "topo",
               pc # "topo" => pc = "ready"
        PROVE  Abstract!Next
    <2>1. l \in Abstract!Lines
      BY DEF Lines, Abstract!Lines, Removed, Abstract!Removed
    <2>2. nodes' = Abstract!Named(nodes, l) /\ edges' = Abstract!Linked(edges, l)
      BY <1>1 DEF ReadLine, Named, Linked, NewCost, Abstract!Named, Abstract!Linked,
                  Abstract!NewCost
    <2> QED
      BY <1>1, <2>1, <2>2 DEF Abstract!Next, Abstract!Line, Abstract!NothingPrinted
  <1>2. CASE ReadTopology
    BY <1>1, <1>2 DEF ReadTopology
  <1>3. CASE EndTopology
    BY <1>3 DEF EndTopology, StartRoot, Abstract!Next, Abstract!EndOfTopology, PrintedRight
  <1>4. CASE ReadChange
    BY <1>1, <1>4 DEF ReadChange, StartRoot
  <1>5. ASSUME pc = "dijkstra", pc' \in {"dijkstra", "ready"}, UNCHANGED <<nodes, edges>>
        PROVE  Abstract!Next \/ UNCHANGED absVars
    <2>1. CASE pc' # "ready"
      BY <1>5, <2>1
    <2>2. CASE pc' = "ready"
      <3>1. IsTableOf(nodes, edges, PrintResults'.rows)
        BY <1>5, <2>2 DEF PrintedRight
      <3>2. AreWaysOf(nodes, PrintResults'.rows, PrintResults'.ways)
        BY <1>5, <2>2 DEF PrintedRight
      <3> DEFINE p == PrintResults'
      <3> HIDE DEF p
      <3>3. Abstract!IsTable(p.rows)
        BY <3>1 DEF IsTableOf, Abstract!IsTable, IsOptimal, Abstract!IsOptimal, CostOf,
                    Neighbours, Abstract!Neighbours, p
      <3>4. \A n \in nodes : \A m \in DOMAIN p.rows[n] \ {n} :
                Abstract!FollowsTables(p.rows, n, m, p.ways[n][m])
        BY <3>2 DEF AreWaysOf, p
      <3> QED
        BY <1>5, <2>2, <3>3, <3>4 DEF Abstract!Next, Abstract!PrintResults, p
    <2> QED
      BY <2>1, <2>2
  <1>6. CASE Visit
    BY <1>5, <1>6 DEF Visit
  <1>7. CASE VisitUnreachable
    BY <1>5, <1>7 DEF VisitUnreachable
  <1>8. CASE EndRoot
    BY <1>5, <1>8 DEF EndRoot, StartRoot
  <1>9. CASE UNCHANGED vars
    BY <1>9, SameResults DEF vars
  <1> QED
    BY <1>2, <1>3, <1>4, <1>6, <1>7, <1>8, <1>9 DEF Next, Stop

(* Whatever lines linkstate reads, it prints what Routing promises: tables *)
(* of the best paths in the network as it is, no row for a node out of     *)
(* reach, and the hops each node's own table takes.                        *)
THEOREM Implements == Spec => ImplementsRouting
  <1>1. Init => Abstract!Init
    BY DEF Init, Abstract!Init, NoLinks, Abstract!NoLinks, Abstract!NothingPrinted
  <1>2. LInv /\ PrintedRight' /\ [Next]_vars => [Abstract!Next]_absVars
    BY StepImplements
  <1>3. Spec => Abstract!Init /\ [][Abstract!Next]_absVars
    BY <1>1, <1>2, LInvHolds, PrintedRightHolds, PTL DEF Spec
  <1> QED
    BY <1>3 DEF ImplementsRouting, Abstract!Spec, absVars, PrintOf
=============================================================================
