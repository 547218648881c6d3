--------------------------- MODULE DistVecProofs ----------------------------
(***************************************************************************)
(* Proofs about DistVec, for any set of ids, any costs of links and any    *)
(* number of lines. DInv is the inductive invariant: what the phases allow *)
(* on its way (PhaseInv, InboxInv), that a distance is settled between two *)
(* neighbours or the better one is still awaited (SettledInv), and that    *)
(* the tables are free of loops at every moment (LoopFree), which the      *)
(* other parts rest on. From it follow the properties of the runs, and     *)
(* that distvec implements Routing: with nothing on its way every distance *)
(* is settled, so the tables hold the best paths, and next_hops ends       *)
(* because each hop is nearer.                                             *)
(***************************************************************************)
EXTENDS DistVec, Least, SequenceTheorems

(* The first of a set of nodes, and what comes after a node *)
LEMMA FirstOf ==
    ASSUME NEW S \in SUBSET Ids, S # {}
    PROVE  First(S) \in S /\ \A m \in S : First(S) <= m
  <1>1. S \in SUBSET Nat
    BY TopologyAssumption
  <1>2. \E n \in S : \A m \in S : n <= m
    BY <1>1, LeastNatural
  <1> QED
    BY <1>2 DEF First

(* A loop by ascending id goes from a node to the least id above it *)
LEMMA AfterOf ==
    ASSUME NEW S \in SUBSET Ids, NEW n \in Ids, After(S, n) # {}
    PROVE  /\ First(After(S, n)) \in S /\ First(After(S, n)) > n
           /\ \A m \in S : m > n => First(After(S, n)) <= m
  <1>1. After(S, n) \in SUBSET Ids
    BY DEF After
  <1> QED
    BY <1>1, FirstOf DEF After

(* The links of a graph are symmetric and between nodes *)
GraphInv ==
    \A n, m \in Ids :
        /\ edges[n][m] = edges[m][n]
        /\ edges[n][m] > 0 => n \in nodes /\ m \in nodes /\ n # m

(* A line of the topology or of the changes leaves the network a graph *)
LEMMA LinkedOf ==
    ASSUME NEW l \in Lines, TypeOK, GraphInv,
           nodes' = Named(nodes, l), edges' = Linked(edges, l)
    PROVE  /\ nodes' \subseteq Ids /\ nodes \subseteq nodes' /\ nodes' # {}
           /\ edges' \in [Ids -> [Ids -> Costs \cup {0}]]
           /\ GraphInv'
  <1> USE TopologyAssumption
  <1>1. l.n1 \in Ids /\ l.n2 \in Ids /\ l.n1 < l.n2 /\ l.dist \in Costs \cup {Removed}
    BY DEF Lines
  <1>2. nodes' \subseteq Ids /\ nodes \subseteq nodes' /\ l.n1 \in nodes' /\ l.n2 \in nodes'
    BY <1>1 DEF Named, TypeOK
  <1>3. NewCost(l) \in Costs \cup {0}
    BY <1>1 DEF NewCost, Removed
  <1>4. \A n, m \in Ids : edges'[n][m] = IF {n, m} = {l.n1, l.n2} THEN NewCost(l)
                                         ELSE edges[n][m]
    BY DEF Linked
  <1>5. edges' \in [Ids -> [Ids -> Costs \cup {0}]]
    BY <1>3 DEF Linked, TypeOK
  <1>6. GraphInv'
    <2> SUFFICES ASSUME NEW n \in Ids, NEW m \in Ids
                 PROVE  /\ edges'[n][m] = edges'[m][n]
                        /\ edges'[n][m] > 0 => n \in nodes' /\ m \in nodes' /\ n # m
      BY DEF GraphInv
    <2>1. CASE {n, m} = {l.n1, l.n2}
      <3>1. {m, n} = {l.n1, l.n2}
        BY <2>1
      <3>2. n \in {l.n1, l.n2} /\ m \in {l.n1, l.n2} /\ n # m
        BY <1>1, <2>1
      <3> QED
        BY <2>1, <3>1, <3>2, <1>2, <1>4
    <2>2. CASE {n, m} # {l.n1, l.n2}
      <3>1. {m, n} # {l.n1, l.n2}
        BY <2>2
      <3> QED
        BY <2>2, <3>1, <1>2, <1>4 DEF GraphInv
    <2> QED
      BY <2>1, <2>2
  <1> QED
    BY <1>2, <1>5, <1>6

DistInv ==
    /\ \A n \in Ids : dist[n][n] = 0 /\ fwd[n][n] = n
    /\ \A n, m \in Ids : n # m /\ ~ ({n, m} \subseteq nodes) => dist[n][m] = IntMax

(* Where messages and unreported changes may be in each phase *)
PhaseInv ==
    /\ pc \in {"send", "update"} => turn \in nodes
    /\ \A n \in Ids : inbox[n] # << >> =>
          /\ n \in nodes
          /\ (pc = "send" /\ count) \/ (pc = "update" /\ n >= turn)
    /\ pc = "update" /\ ~ count => \A h \in nodes : h < turn => ~ updated[h]
    /\ pc = "topo" => \A n \in Ids : updated[n]

(* A message comes from a neighbour, whose distances may only have become  *)
(* shorter since                                                           *)
InboxInv ==
    \A n \in Ids : \A i \in 1 .. Len(inbox[n]) :
        /\ inbox[n][i].from \in Neighbours(edges, n)
        /\ \A m \in Ids : dist[inbox[n][i].from][m] <= inbox[n][i].dist[m]

(* What h has for m is on its way to its neighbour n, or will be sent *)
Awaited(n, h, m) ==
    \/ \E i \in 1 .. Len(inbox[n]) :
          inbox[n][i].from = h /\ inbox[n][i].dist[m] <= dist[h][m]
    \/ updated[h] /\ ((pc = "send" /\ h >= turn) \/ (pc = "update" /\ h < turn))
    \/ pc = "update" /\ h = turn /\ changed

(* n has taken what h has for m into account *)
Settled(n, h, m) ==
    \/ dist[h][m] = IntMax
    \/ dist[n][m] < edges[n][h] + dist[h][m]
    \/ dist[n][m] = edges[n][h] + dist[h][m] /\ fwd[n][m] <= h

SettledInv ==
    pc # "topo" =>
        \A n \in nodes : \A h \in Neighbours(edges, n), m \in nodes :
            Settled(n, h, m) \/ Awaited(n, h, m)

DInv == /\ TypeOK /\ GraphInv /\ DistInv /\ LoopFree
        /\ PhaseInv /\ InboxInv /\ SettledInv

(* The tables before the first line *)
LEMMA DInvInit == Init => DInv
  <1> SUFFICES ASSUME Init PROVE DInv
    OBVIOUS
  <1> USE TopologyAssumption DEF Init
  <1>1. First(Ids) \in Ids
    BY FirstOf
  <1>2. TypeOK
    <2>1. dist \in [Ids -> Vectors]
      BY DEF Vectors
    <2>2. inbox \in [Ids -> Seq([from : Ids, dist : Vectors])]
      BY EmptySeq
    <2>3. edges \in [Ids -> [Ids -> Costs \cup {0}]] /\ nodes \subseteq Ids
      BY DEF NoLinks
    <2>4. fwd \in [Ids -> [Ids -> Ids \cup {Unreachable}]]
      OBVIOUS
    <2>5. updated \in [Ids -> BOOLEAN] /\ lines \in 0 .. MaxLines
      OBVIOUS
    <2>6. turn \in Ids
      BY <1>1
    <2> QED
      BY <2>1, <2>2, <2>3, <2>4, <2>5, <2>6 DEF TypeOK
  <1>3. GraphInv
    BY DEF GraphInv, NoLinks
  <1>4. DistInv /\ LoopFree
    BY DEF DistInv, LoopFree
  <1>5. PhaseInv /\ InboxInv /\ SettledInv
    BY DEF PhaseInv, InboxInv, SettledInv
  <1> QED
    BY <1>2, <1>3, <1>4, <1>5 DEF DInv

(* A line starts everything afresh but the tables and the inboxes, which   *)
(* are empty                                                               *)
LEMMA DInvLine ==
    ASSUME NEW l \in Lines, DInv, ReadLine(l), UNCHANGED <<fwd, inbox>>,
           \/ pc = "topo" /\ pc' = "topo" /\ UNCHANGED <<turn, count, changed>>
           \/ pc = "ready" /\ StartLoop("send", Named(nodes, l))
    PROVE  DInv'
  <1> USE TopologyAssumption
  <1>t. TypeOK /\ GraphInv /\ DistInv /\ PhaseInv
    BY DEF DInv
  <1>1. /\ nodes' \subseteq Ids /\ nodes \subseteq nodes' /\ nodes' # {}
        /\ edges' \in [Ids -> [Ids -> Costs \cup {0}]]
        /\ GraphInv'
    BY <1>t, LinkedOf DEF ReadLine
  <1>2. \A n \in Ids : inbox[n] = << >> /\ inbox'[n] = << >>
    BY <1>t DEF PhaseInv
  <1>3. \A n, m \in Ids : dist'[n][m] = IF n = m THEN 0 ELSE IntMax
    BY <1>t, <1>1 DEF ReadLine, InitialAllDist, DistInv
  <1>4. dist' \in [Ids -> Vectors]
    BY <1>t DEF ReadLine, InitialAllDist, TypeOK, Vectors
  <1>5. pc' = "send" => turn' \in nodes' /\ \A m \in nodes' : turn' <= m
    BY <1>1, FirstOf DEF StartLoop, ReadLine
  <1>6. updated' \in [Ids -> BOOLEAN] /\ lines' \in 0 .. MaxLines
    BY <1>t DEF ReadLine, TypeOK
  <1>7. \A n \in nodes' : updated'[n]
    BY <1>1 DEF ReadLine
  <1>8. TypeOK'
    BY <1>t, <1>1, <1>4, <1>5, <1>6 DEF TypeOK, StartLoop
  <1>9. DistInv' /\ LoopFree'
    <2>1. \A n \in Ids : fwd'[n][n] = n
      BY <1>t DEF DistInv
    <2>3. LoopFree'
      <3> SUFFICES ASSUME NEW n \in Ids, NEW m \in Ids \ {n}, dist'[n][m] < IntMax
                   PROVE  FALSE
        BY DEF LoopFree
      <3> QED
        BY <1>3
    <2> QED
      BY <1>3, <2>1, <2>3 DEF DistInv
  <1>10. PhaseInv'
    BY <1>t, <1>2, <1>5 DEF PhaseInv, StartLoop, ReadLine
  <1>11. InboxInv'
    BY <1>2 DEF InboxInv
  <1>12. SettledInv'
    <2>1. pc' # "topo" => \A h \in nodes' : updated'[h] /\ pc' = "send" /\ h >= turn'
      <3>1. \A h \in nodes' : h \in Nat
        BY <1>1
      <3>2. pc' # "topo" => pc' = "send"
        BY DEF StartLoop
      <3> QED
        BY <1>1, <1>5, <1>7, <3>1, <3>2
    <2>2. \A n \in nodes' : \A h \in Neighbours(edges', n) : h \in nodes'
      BY <1>1 DEF GraphInv, Neighbours
    <2> QED
      BY <2>1, <2>2 DEF SettledInv, Awaited
  <1> QED
    BY <1>1, <1>8, <1>9, <1>10, <1>11, <1>12 DEF DInv

(* The next node, the next loop, or the end *)
LEMMA NextNodeOf ==
    ASSUME TypeOK, turn \in nodes, NEW some \in BOOLEAN, NEW phase,
           NextNode(some, phase)
    PROVE  \/ /\ pc' = pc /\ turn' \in nodes /\ turn' > turn
              /\ \A m \in nodes : m > turn => m >= turn'
              /\ count' = some /\ changed' = FALSE
           \/ /\ pc' = phase /\ some /\ turn' \in nodes
              /\ \A m \in nodes : m <= turn /\ m >= turn'
              /\ count' = FALSE /\ changed' = FALSE
           \/ /\ pc' = "ready" /\ ~ some /\ turn' = turn
              /\ \A m \in nodes : m <= turn
              /\ count' = count /\ changed' = changed
  <1> USE TopologyAssumption
  <1>1. nodes \in SUBSET Ids /\ nodes # {} /\ turn \in Ids
    BY DEF TypeOK
  <1>2. /\ First(nodes) \in nodes
        /\ \A m \in nodes : m >= First(nodes)
    BY <1>1, FirstOf
  <1>3. After(nodes, turn) # {} =>
           /\ First(After(nodes, turn)) \in nodes
           /\ First(After(nodes, turn)) > turn
           /\ \A m \in nodes : m > turn => m >= First(After(nodes, turn))
    BY <1>1, AfterOf
  <1>4. After(nodes, turn) = {} => \A m \in nodes : m <= turn
    BY <1>1 DEF After
  <1> QED
    BY <1>2, <1>3, <1>4 DEF NextNode, StartLoop

(* The end of the topology file starts the rounds, or there is nothing to  *)
(* do                                                                      *)
LEMMA DInvEndTopology == DInv /\ EndTopology => DInv'
  <1> SUFFICES ASSUME DInv, EndTopology PROVE DInv'
    OBVIOUS
  <1> USE TopologyAssumption DEF EndTopology
  <1>t. TypeOK /\ GraphInv /\ DistInv /\ LoopFree /\ PhaseInv /\ InboxInv
    BY DEF DInv
  <1>1. nodes \in SUBSET Ids
    BY <1>t DEF TypeOK
  <1>2. nodes # {} => /\ pc' = "send" /\ turn' \in nodes
                     /\ count' = FALSE /\ changed' = FALSE
                     /\ \A m \in nodes : m >= turn'
    <2>1. nodes # {} => First(nodes) \in nodes /\ \A m \in nodes : m >= First(nodes)
      BY <1>1, FirstOf
    <2> QED
      BY <2>1 DEF StartLoop
  <1>3. TypeOK'
    BY <1>1, <1>2, <1>t DEF TypeOK
  <1>4. GraphInv' /\ InboxInv'
    BY <1>t DEF GraphInv, InboxInv
  <1>5. DistInv' /\ LoopFree'
    BY <1>t DEF DistInv, LoopFree
  <1>6. PhaseInv'
    BY <1>t, <1>2 DEF PhaseInv
  <1>7. SettledInv'
    <2>1. \A n \in nodes : \A h \in Neighbours(edges, n) : h \in nodes
      BY <1>1, <1>t DEF GraphInv, Neighbours
    <2>2. \A h \in nodes : updated'[h] /\ pc' = "send" /\ h >= turn'
      BY <1>1, <1>2, <1>t DEF PhaseInv
    <2> QED
      BY <2>1, <2>2 DEF SettledInv, Awaited
  <1> QED
    BY <1>3, <1>4, <1>5, <1>6, <1>7 DEF DInv

(* A node that has reported a change sends its vector to all neighbours:   *)
(* from then on what it had for them is on its way                         *)
LEMMA DInvSendUpdate == DInv /\ SendUpdate => DInv'
  <1> SUFFICES ASSUME DInv, SendUpdate PROVE DInv'
    OBVIOUS
  <1> USE TopologyAssumption
  <1>t. TypeOK /\ GraphInv /\ DistInv /\ LoopFree /\ PhaseInv /\ InboxInv /\ SettledInv
    BY DEF DInv
  <1> DEFINE to == {n \in Ids : updated[turn] /\ n \in Neighbours(edges, turn)}
             msg == [from |-> turn, dist |-> dist[turn]]
             sends == updated[turn] /\ Neighbours(edges, turn) # {}
  <1>1. /\ pc = "send" /\ UNCHANGED <<nodes, edges, dist, fwd, updated, lines>>
        /\ \A n \in Ids : inbox'[n] = IF n \in to THEN Append(inbox[n], msg) ELSE inbox[n]
        /\ DOMAIN inbox' = Ids
        /\ NextNode(count \/ sends, "update")
    BY DEF SendUpdate
  <1>2. turn \in nodes /\ turn \in Ids /\ count \in BOOLEAN
    BY <1>t, <1>1 DEF PhaseInv, TypeOK
  <1>3. (count \/ sends) \in BOOLEAN
    OBVIOUS
  <1>4. \A n \in to : n \in nodes /\ n # turn /\ turn \in Neighbours(edges, n) /\ sends
    BY <1>t, <1>2 DEF GraphInv, Neighbours
  <1> DEFINE Msgs == [from : Ids, dist : Vectors]
  <1>5. msg \in Msgs
    BY <1>t, <1>2 DEF TypeOK
  <1>i. inbox \in [Ids -> Seq(Msgs)] /\ \A n \in to : n \in Ids
    BY <1>t DEF TypeOK
  <1> HIDE DEF to, msg, sends, Msgs
  <1>6. \A n \in Ids :
           /\ inbox[n] \in Seq(Msgs) /\ Len(inbox[n]) \in Nat
           /\ inbox'[n] \in Seq(Msgs)
           /\ n \notin to => inbox'[n] = inbox[n]
           /\ n \in to => /\ Len(inbox'[n]) = Len(inbox[n]) + 1
                         /\ inbox'[n][Len(inbox[n]) + 1] = msg
                         /\ \A i \in 1 .. Len(inbox[n]) : inbox'[n][i] = inbox[n][i]
    <2> TAKE n \in Ids
    <2>1. inbox[n] \in Seq(Msgs)
      BY <1>i
    <2>2. inbox'[n] = IF n \in to THEN Append(inbox[n], msg) ELSE inbox[n]
      BY <1>1
    <2> QED
      BY <2>1, <2>2, <1>5, AppendProperties
  <1>7. \A n \in Ids : \A i \in 1 .. Len(inbox'[n]) :
           \/ i \in 1 .. Len(inbox[n]) /\ inbox'[n][i] = inbox[n][i]
           \/ n \in to /\ inbox'[n][i] = msg
    BY <1>6
  <1>8. \A n \in Ids : Len(inbox[n]) \in Nat /\ \A i \in 1 .. Len(inbox[n]) :
           i \in 1 .. Len(inbox'[n]) /\ inbox'[n][i] = inbox[n][i]
    BY <1>6
  <1>9. \A n \in to : \E i \in 1 .. Len(inbox'[n]) : inbox'[n][i] = msg
    <2> TAKE n \in to
    <2>1. n \in Ids
      BY <1>i
    <2>2. /\ Len(inbox[n]) \in Nat /\ Len(inbox'[n]) = Len(inbox[n]) + 1
          /\ inbox'[n][Len(inbox[n]) + 1] = msg
      BY <1>6, <2>1
    <2>3. Len(inbox[n]) + 1 \in 1 .. Len(inbox'[n])
      BY <2>2
    <2> QED
      BY <2>2, <2>3
  <1>10. \/ /\ pc' = pc /\ turn' \in nodes /\ turn' > turn
            /\ \A m \in nodes : m > turn => m >= turn'
            /\ count' = (count \/ sends) /\ changed' = FALSE
         \/ /\ pc' = "update" /\ (count \/ sends) /\ turn' \in nodes
            /\ \A m \in nodes : m <= turn /\ m >= turn'
            /\ count' = FALSE /\ changed' = FALSE
         \/ /\ pc' = "ready" /\ ~ (count \/ sends) /\ turn' = turn
            /\ \A m \in nodes : m <= turn
            /\ count' = count /\ changed' = changed
    BY <1>1, <1>2, <1>3, <1>t, NextNodeOf
  <1>11. TypeOK'
    <2>1. inbox' \in [Ids -> Seq([from : Ids, dist : Vectors])]
      BY <1>6, <1>1 DEF SendUpdate, Msgs
    <2>2. turn' \in Ids /\ count' \in BOOLEAN /\ changed' \in BOOLEAN
      BY <1>10, <1>3, <1>t DEF TypeOK
    <2>3. pc' \in {"topo", "send", "update", "ready"}
      BY <1>10, <1>t DEF TypeOK
    <2> QED
      BY <2>1, <2>2, <2>3, <1>1, <1>t DEF TypeOK
  <1>12. GraphInv' /\ DistInv' /\ LoopFree'
    BY <1>t, <1>1 DEF GraphInv, DistInv, LoopFree
  <1>13. PhaseInv'
    <2>1. pc' \in {"send", "update"} => turn' \in nodes'
      BY <1>1, <1>10
    <2>2. \A n \in Ids : inbox'[n] # << >> => n \in nodes /\ (count \/ sends)
      BY <1>1, <1>4, <1>t DEF PhaseInv
    <2>3. \A n \in Ids : inbox'[n] # << >> =>
             n \in nodes' /\ ((pc' = "send" /\ count') \/ (pc' = "update" /\ n >= turn'))
      BY <1>1, <1>10, <2>2
    <2>4. pc' = "update" => \A h \in nodes' : ~ (h < turn')
      <3>1. nodes \subseteq Nat /\ turn' \in Nat
        BY <1>10, <1>t, <1>2 DEF TypeOK
      <3> QED
        BY <1>1, <1>10, <3>1
    <2>5. pc' # "topo"
      BY <1>1, <1>10
    <2> QED
      BY <2>1, <2>3, <2>4, <2>5 DEF PhaseInv
  <1>14. InboxInv'
    <2> SUFFICES ASSUME NEW n \in Ids, NEW i \in 1 .. Len(inbox'[n])
                 PROVE  /\ inbox'[n][i].from \in Neighbours(edges', n)
                        /\ \A m \in Ids : dist'[inbox'[n][i].from][m] <= inbox'[n][i].dist[m]
      BY DEF InboxInv
    <2>1. CASE i \in 1 .. Len(inbox[n]) /\ inbox'[n][i] = inbox[n][i]
      BY <2>1, <1>1, <1>t DEF InboxInv
    <2>2. CASE n \in to /\ inbox'[n][i] = msg
      <3>1. \A m \in Ids : dist[turn][m] \in Nat
        BY <1>2, <1>t DEF TypeOK, Vectors
      <3>2. \A m \in Ids : dist[turn][m] <= dist[turn][m]
        BY <3>1
      <3>3. inbox'[n][i].from = turn /\ inbox'[n][i].dist = dist[turn]
        BY <2>2 DEF msg
      <3>4. turn \in Neighbours(edges, n)
        BY <2>2, <1>4
      <3> QED
        BY <1>1, <3>2, <3>3, <3>4
    <2> QED
      BY <2>1, <2>2, <1>7
  <1>15. SettledInv'
    <2> SUFFICES ASSUME NEW n \in nodes, NEW h \in Neighbours(edges, n), NEW m \in nodes
                 PROVE  Settled(n, h, m)' \/ Awaited(n, h, m)'
      BY <1>1 DEF SettledInv
    <2>1. h \in nodes /\ h \in Ids /\ n \in Ids /\ m \in Ids /\ n \in Neighbours(edges, h)
      BY <1>t DEF GraphInv, Neighbours, TypeOK
    <2>2. CASE Settled(n, h, m)
      BY <2>2, <1>1 DEF Settled
    <2>3. CASE \E i \in 1 .. Len(inbox[n]) :
                  inbox[n][i].from = h /\ inbox[n][i].dist[m] <= dist[h][m]
      BY <2>3, <2>1, <1>1, <1>8 DEF Awaited
    <2>4. CASE updated[h] /\ h >= turn
      <3>1. CASE h = turn
        <4>1. n \in to
          BY <3>1, <2>1, <2>4 DEF to
        <4>2. PICK i \in 1 .. Len(inbox'[n]) : inbox'[n][i] = msg
          BY <4>1, <1>9
        <4>3. inbox'[n][i].from = h /\ inbox'[n][i].dist[m] = dist'[h][m]
          BY <4>2, <3>1, <1>1 DEF msg
        <4>4. dist'[h][m] \in Nat
          BY <2>1, <1>t, <1>1 DEF TypeOK, Vectors
        <4> QED
          BY <4>3, <4>4 DEF Awaited
      <3>2. CASE h > turn
        <4>1. pc' = "send" /\ h >= turn'
          BY <3>2, <2>1, <1>1, <1>2, <1>10
        <4> QED
          BY <4>1, <2>4, <1>1 DEF Awaited
      <3> QED
        BY <3>1, <3>2, <2>4, <2>1, <1>2
    <2> QED
      BY <2>2, <2>3, <2>4, <1>1, <1>t DEF SettledInv, Awaited
  <1> QED
    BY <1>11, <1>12, <1>13, <1>14, <1>15 DEF DInv

(* The ranges as they are used *)
LEMMA TypesOf ==
    ASSUME TypeOK
    PROVE  /\ \A n \in Ids : n \in Nat
           /\ \A n, m \in Ids : edges[n][m] \in Nat
           /\ \A n, m \in Ids : dist[n][m] \in Nat /\ dist[n][m] <= IntMax
           /\ \A n, m \in Ids : fwd[n][m] \in Int
           /\ \A n \in Ids : \A h \in Neighbours(edges, n) : h \in Ids
           /\ IntMax \in Nat
  <1> USE TopologyAssumption
  <1>0. \A c \in Costs \cup {0} : c \in Nat
    OBVIOUS
  <1>1. \A n, m \in Ids : edges[n][m] \in Nat
    <2> TAKE n, m \in Ids
    <2>1. edges[n][m] \in Costs \cup {0}
      BY DEF TypeOK
    <2> QED
      BY <1>0, <2>1
  <1>2. \A n, m \in Ids : fwd[n][m] \in Int
    <2> TAKE n, m \in Ids
    <2>1. fwd[n][m] \in Ids \cup {Unreachable}
      BY DEF TypeOK
    <2>2. Unreachable \in Int
      BY DEF Unreachable
    <2>3. \A k \in Ids : k \in Int
      OBVIOUS
    <2> QED
      BY <2>1, <2>2, <2>3
  <1>3. \A n, m \in Ids : dist[n][m] \in 0 .. IntMax
    <2>1. dist \in [Ids -> [Ids -> 0 .. IntMax]]
      BY DEF TypeOK, Vectors
    <2> QED
      BY <2>1
  <1>4. \A n \in Ids : \A h \in Neighbours(edges, n) : h \in Ids
    BY DEF Neighbours
  <1>5. IntMax \in Nat /\ \A n \in Ids : n \in Nat
    OBVIOUS
  <1>6. \A d \in 0 .. IntMax : d \in Nat /\ d <= IntMax
    BY <1>5
  <1>7. \A n, m \in Ids : dist[n][m] \in Nat /\ dist[n][m] <= IntMax
    BY <1>3, <1>6
  <1> QED
    BY <1>1, <1>2, <1>4, <1>5, <1>7

(* A nearer neighbour keeps the distance of the node within its bound *)
LEMMA NoFarther ==
    \A e, a, b, c \in Nat : b <= a /\ e + a <= c => e + b <= c
  OBVIOUS

(* What the node takes from a message with the vector v of its neighbour f *)
LEMMA TakenOf ==
    ASSUME NEW msg \in [from : Ids, dist : Vectors], TypeOK, turn \in nodes,
           edges[turn][msg.from] \in Nat, edges[turn][msg.from] > 0,
           dist[turn][turn] = 0,
           NEW m \in nodes
    PROVE  LET offer == edges[turn][msg.from] + msg.dist[m]
           IN  /\ offer \in Nat /\ msg.dist[m] \in 0 .. IntMax
               /\ Shorter(msg, m) <=> msg.dist[m] # IntMax /\ offer < dist[turn][m]
               /\ SmallerHop(msg, m) => msg.dist[m] # IntMax /\ offer = dist[turn][m]
                                        /\ msg.from < fwd[turn][m]
               /\ msg.dist[m] # IntMax =>
                     \/ Shorter(msg, m)
                     \/ SmallerHop(msg, m)
                     \/ dist[turn][m] < offer
                     \/ dist[turn][m] = offer /\ fwd[turn][m] <= msg.from
               /\ m = turn => ~ Shorter(msg, m) /\ ~ SmallerHop(msg, m)
  <1> USE TopologyAssumption
  <1>1. m \in Ids /\ turn \in Ids /\ m \in Nat /\ msg.from \in Ids /\ msg.from \in Nat
    BY DEF TypeOK
  <1>2. msg.dist[m] \in 0 .. IntMax /\ dist[turn][m] \in 0 .. IntMax
    BY <1>1 DEF TypeOK, Vectors
  <1>3. fwd[turn][m] \in Int
    BY <1>1, TypesOf
  <1> DEFINE e == edges[turn][msg.from]
             v == msg.dist[m]
             d == dist[turn][m]
             w == fwd[turn][m]
             f == msg.from
  <1>4. e \in Nat /\ e > 0 /\ v \in 0 .. IntMax /\ d \in 0 .. IntMax /\ w \in Int /\ f \in Nat
    BY <1>1, <1>2, <1>3
  <1>5. Shorter(msg, m) <=> v # IntMax /\ d > e + v
    BY DEF Shorter, Offer
  <1>6. SmallerHop(msg, m) <=> v # IntMax /\ d = e + v /\ w > f
    BY DEF SmallerHop, Offer
  <1>7. m = turn => d = 0
    OBVIOUS
  <1> HIDE DEF e, v, d, w, f
  <1>8. /\ e + v \in Nat
        /\ Shorter(msg, m) <=> v # IntMax /\ e + v < d
        /\ SmallerHop(msg, m) => v # IntMax /\ e + v = d /\ f < w
        /\ v # IntMax => Shorter(msg, m) \/ SmallerHop(msg, m) \/ d < e + v
                         \/ (d = e + v /\ w <= f)
        /\ m = turn => ~ Shorter(msg, m) /\ ~ SmallerHop(msg, m)
    BY <1>4, <1>5, <1>6, <1>7
  <1> QED
    BY <1>4, <1>8 DEF e, v, d, w, f

(* A node takes a message from its inbox: what it takes is awaited by its  *)
(* neighbours, what it does not take was settled before                    *)
LEMMA DInvReadUpdate == DInv /\ ReadUpdate => DInv'
  <1> SUFFICES ASSUME DInv, ReadUpdate PROVE DInv'
    OBVIOUS
  <1> USE TopologyAssumption
  <1>t. TypeOK /\ GraphInv /\ DistInv /\ LoopFree /\ PhaseInv /\ InboxInv /\ SettledInv
    BY DEF DInv
  <1> DEFINE msg == Head(inbox[turn])
             f == msg.from
             Msgs == [from : Ids, dist : Vectors]
             offer(m) == edges[turn][f] + msg.dist[m]
             shorter == {m \in nodes : Shorter(msg, m)}
             taken == shorter \cup {m \in nodes : SmallerHop(msg, m)}
  <1>1. /\ pc = "update" /\ UNCHANGED <<nodes, edges, pc, turn, updated, count, lines>>
        /\ inbox[turn] # << >>
        /\ turn \in nodes /\ turn \in Ids
        /\ inbox' = [inbox EXCEPT ![turn] = Tail(@)]
        /\ changed' = (changed \/ taken # {})
    BY <1>t DEF ReadUpdate, PhaseInv, TypeOK
  <1>d. /\ dist' = [dist EXCEPT ![turn] = [m \in Ids |->
               IF m \in shorter THEN offer(m) ELSE dist[turn][m]]]
        /\ fwd' = [fwd EXCEPT ![turn] = [m \in Ids |->
               IF m \in taken THEN f ELSE fwd[turn][m]]]
    BY DEF ReadUpdate, Offer
  <1>i. inbox \in [Ids -> Seq(Msgs)]
    BY <1>t DEF TypeOK
  <1>m. /\ dist \in [Ids -> [Ids -> 0 .. IntMax]]
        /\ fwd \in [Ids -> [Ids -> Ids \cup {Unreachable}]]
        /\ edges \in [Ids -> [Ids -> Costs \cup {0}]]
        /\ nodes \subseteq Ids
    BY <1>t DEF TypeOK, Vectors
  <1>n. \A n, m \in Ids : edges[n][m] \in Nat
    BY <1>t, TypesOf
  <1>o. \A n, m \in Ids : fwd[n][m] \in Int /\ n \in Nat
    BY <1>t, TypesOf
  <1>4. \A n, m \in Ids : dist[n][m] \in Nat /\ dist[n][m] <= IntMax
    BY <1>t, TypesOf
  <1>p. msg = inbox[turn][1]
    OBVIOUS
  <1>q. msg \in Msgs => f \in Ids /\ \A m \in Ids : msg.dist[m] \in 0 .. IntMax
    BY DEF Vectors
  <1>r. \A m \in nodes : /\ m \in shorter <=> Shorter(msg, m)
                         /\ m \in taken <=> Shorter(msg, m) \/ SmallerHop(msg, m)
    OBVIOUS
  <1>s. shorter \subseteq taken /\ taken \subseteq nodes
    OBVIOUS
  <1>u. \A n \in Ids : \A i \in 1 .. Len(inbox[n]) :
           /\ inbox[n][i].from \in Neighbours(edges, n)
           /\ \A m \in Ids : dist[inbox[n][i].from][m] <= inbox[n][i].dist[m]
    BY <1>t DEF InboxInv
  <1>w. \A x \in Msgs : x.from \in Ids /\ \A m \in Ids : x.dist[m] \in 0 .. IntMax
    BY DEF Vectors
  <1> HIDE DEF Msgs
  <1>2. /\ inbox[turn] \in Seq(Msgs) /\ msg \in Msgs
        /\ Len(inbox[turn]) \in Nat /\ Len(inbox[turn]) >= 1
        /\ Tail(inbox[turn]) \in Seq(Msgs)
        /\ Len(Tail(inbox[turn])) = Len(inbox[turn]) - 1
        /\ \A i \in 1 .. Len(Tail(inbox[turn])) : Tail(inbox[turn])[i] = inbox[turn][i + 1]
    <2>1. inbox[turn] \in Seq(Msgs)
      BY <1>1, <1>i
    <2>2. Len(inbox[turn]) \in Nat /\ Len(inbox[turn]) # 0
      BY <2>1, <1>1, EmptySeq, LenProperties
    <2> HIDE DEF msg
    <2>3. Head(inbox[turn]) \in Msgs /\ Tail(inbox[turn]) \in Seq(Msgs)
          /\ Len(Tail(inbox[turn])) = Len(inbox[turn]) - 1
          /\ \A i \in 1 .. Len(Tail(inbox[turn])) : Tail(inbox[turn])[i] = inbox[turn][i + 1]
      BY <2>1, <1>1, HeadTailProperties
    <2> QED
      BY <2>1, <2>2, <2>3 DEF msg
  <1>h. msg \in [from : Ids, dist : Vectors]
    BY <1>2 DEF Msgs
  <1> HIDE DEF msg, f, shorter, taken
  <1>3. /\ f \in Neighbours(edges, turn) /\ f \in nodes /\ f \in Ids /\ f # turn
        /\ edges[turn][f] \in Nat /\ edges[turn][f] > 0
        /\ \A m \in Ids : dist[f][m] <= msg.dist[m] /\ msg.dist[m] \in 0 .. IntMax
    <2>1. 1 \in 1 .. Len(inbox[turn])
      BY <1>2
    <2>2. f \in Neighbours(edges, turn) /\ \A m \in Ids : dist[f][m] <= msg.dist[m]
      BY <2>1, <1>1, <1>p, <1>u DEF f
    <2>3. f \in Ids /\ \A m \in Ids : msg.dist[m] \in 0 .. IntMax
      BY <1>2, <1>q
    <2>4. edges[turn][f] \in Nat
      BY <2>3, <1>1, <1>n
    <2>5. edges[turn][f] > 0
      BY <2>2 DEF Neighbours
    <2>6. f \in nodes /\ f # turn
      BY <2>3, <2>5, <1>1, <1>t DEF GraphInv
    <2> QED
      BY <2>2, <2>3, <2>4, <2>5, <2>6
  <1>5. \A m \in nodes :
           /\ m \in shorter <=> msg.dist[m] # IntMax /\ offer(m) < dist[turn][m]
           /\ m \in taken => msg.dist[m] # IntMax /\ offer(m) <= dist[turn][m] /\ m # turn
           /\ m \in taken \ shorter => offer(m) = dist[turn][m] /\ f < fwd[turn][m]
           /\ m \notin taken /\ msg.dist[m] # IntMax =>
                 \/ dist[turn][m] < offer(m)
                 \/ dist[turn][m] = offer(m) /\ fwd[turn][m] <= f
           /\ offer(m) \in Nat
    <2> TAKE m \in nodes
    <2>1. edges[turn][msg.from] \in Nat /\ edges[turn][msg.from] > 0
      BY <1>3 DEF f
    <2>2. dist[turn][turn] = 0
      BY <1>1, <1>t DEF DistInv
    <2>3. /\ offer(m) \in Nat
          /\ Shorter(msg, m) <=> msg.dist[m] # IntMax /\ offer(m) < dist[turn][m]
          /\ SmallerHop(msg, m) => msg.dist[m] # IntMax /\ offer(m) = dist[turn][m]
                                   /\ f < fwd[turn][m]
          /\ msg.dist[m] # IntMax =>
                \/ Shorter(msg, m)
                \/ SmallerHop(msg, m)
                \/ dist[turn][m] < offer(m)
                \/ dist[turn][m] = offer(m) /\ fwd[turn][m] <= f
          /\ m = turn => ~ Shorter(msg, m) /\ ~ SmallerHop(msg, m)
      BY <2>1, <2>2, <1>h, <1>1, <1>t, TakenOf DEF f
    <2>4. dist[turn][m] \in Nat
      BY <1>1, <1>4, <1>m
    <2>5. /\ m \in shorter <=> Shorter(msg, m)
          /\ m \in taken <=> Shorter(msg, m) \/ SmallerHop(msg, m)
      BY <1>r
    <2> HIDE DEF offer
    <2> QED
      BY <2>3, <2>4, <2>5
  <1> HIDE DEF offer
  <1>6. \A n, m \in Ids :
           /\ dist'[n][m] = IF n = turn /\ m \in shorter THEN offer(m) ELSE dist[n][m]
           /\ fwd'[n][m] = IF n = turn /\ m \in taken THEN f ELSE fwd[n][m]
    BY <1>m, <1>d, <1>1
  <1>7. \A n, m \in Ids : dist'[n][m] <= dist[n][m] /\ dist'[n][m] \in 0 .. IntMax
    <2> TAKE n, m \in Ids
    <2>1. CASE n = turn /\ m \in shorter
      <3>1. m \in nodes
        BY <2>1, <1>s
      <3>2. offer(m) \in Nat /\ offer(m) < dist[turn][m]
        BY <2>1, <3>1, <1>5
      <3> QED
        BY <2>1, <3>2, <1>4, <1>6
    <2>2. CASE ~ (n = turn /\ m \in shorter)
      BY <2>2, <1>4, <1>6
    <2> QED
      BY <2>1, <2>2
  <1>x. \A n, m \in Ids : dist'[n][m] <= dist[n][m] /\ dist'[n][m] \in Nat
    BY <1>7
  <1>8. TypeOK'
    <2>1. dist' \in [Ids -> Vectors]
      <3>1. /\ DOMAIN dist' = Ids /\ dist' = [n \in Ids |-> dist'[n]]
        BY <1>m, <1>d
      <3>2. \A n \in Ids : dist'[n] = [m \in Ids |-> dist'[n][m]]
        BY <1>m, <1>d, <1>1
      <3>3. \A n \in Ids : dist'[n] \in Vectors
        BY <3>2, <1>7 DEF Vectors
      <3> QED
        BY <3>1, <3>3
    <2>2. fwd' \in [Ids -> [Ids -> Ids \cup {Unreachable}]]
      BY <1>m, <1>d, <1>1, <1>3
    <2>3. inbox' \in [Ids -> Seq(Msgs)]
      BY <1>i, <1>1, <1>2
    <2>4. changed' \in BOOLEAN
      BY <1>1, <1>t DEF TypeOK
    <2> QED
      BY <2>1, <2>2, <2>3, <2>4, <1>1, <1>t DEF TypeOK, Msgs
  <1>9. GraphInv' /\ DistInv'
    <2>1. \A n \in Ids : dist'[n][n] = 0 /\ fwd'[n][n] = n
      <3> TAKE n \in Ids
      <3>1. ~ (n = turn /\ n \in taken)
        BY <1>5, <1>1
      <3> QED
        <4>1. ~ (n = turn /\ n \in shorter)
          BY <3>1, <1>s
        <4>2. dist'[n][n] = dist[n][n] /\ fwd'[n][n] = fwd[n][n]
          BY <3>1, <4>1, <1>6
        <4> QED
          BY <4>2, <1>t DEF DistInv
    <2>2. \A n, m \in Ids : n # m /\ ~ ({n, m} \subseteq nodes') => dist'[n][m] = IntMax
      <3> SUFFICES ASSUME NEW n \in Ids, NEW m \in Ids, n # m, ~ ({n, m} \subseteq nodes)
                   PROVE  dist'[n][m] = IntMax
        BY <1>1
      <3>1. ~ (n = turn /\ m \in shorter)
        BY <1>s, <1>1
      <3> QED
        BY <3>1, <1>6, <1>t DEF DistInv
    <2> QED
      BY <2>1, <2>2, <1>1, <1>t DEF DistInv, GraphInv
  <1>10. \A n \in Ids : \A i \in 1 .. Len(inbox'[n]) :
            IF n = turn THEN i + 1 \in 1 .. Len(inbox[n]) /\ inbox'[n][i] = inbox[n][i + 1]
            ELSE i \in 1 .. Len(inbox[n]) /\ inbox'[n][i] = inbox[n][i]
    BY <1>i, <1>1, <1>2
  <1>11. LoopFree'
    <2> SUFFICES ASSUME NEW n \in Ids, NEW m \in Ids \ {n}, dist'[n][m] < IntMax
                 PROVE  /\ fwd'[n][m] \in Neighbours(edges, n)
                        /\ edges[n][fwd'[n][m]] + dist'[fwd'[n][m]][m] <= dist'[n][m]
      BY <1>1 DEF LoopFree
    <2>1. CASE n = turn /\ m \in taken
      <3>0. m \in nodes
        BY <2>1, <1>s
      <3>1. fwd'[n][m] = f /\ offer(m) <= dist'[n][m] /\ offer(m) = edges[n][f] + msg.dist[m]
        <4>1. offer(m) \in Nat /\ offer(m) <= dist[turn][m]
          BY <3>0, <2>1, <1>5
        <4>2. dist'[n][m] = IF m \in shorter THEN offer(m) ELSE dist[n][m]
          BY <2>1, <1>6
        <4>3. offer(m) <= dist'[n][m]
          BY <4>1, <4>2, <2>1
        <4>4. fwd'[n][m] = f
          BY <2>1, <1>6
        <4> QED
          BY <4>3, <4>4, <2>1 DEF offer
      <3>2. dist'[f][m] = dist[f][m] /\ dist[f][m] <= msg.dist[m]
        BY <1>3, <1>6
      <3>3. /\ edges[n][f] \in Nat /\ msg.dist[m] \in Nat /\ dist[f][m] \in Nat
            /\ dist'[n][m] \in Nat
        BY <2>1, <1>3, <1>4, <1>7
      <3>4. edges[n][f] + dist[f][m] <= dist'[n][m]
        BY <3>1, <3>2, <3>3, NoFarther
      <3> QED
        BY <3>1, <3>2, <3>4, <2>1, <1>3
    <2>2. CASE ~ (n = turn /\ m \in taken)
      <3>1. fwd'[n][m] = fwd[n][m] /\ dist'[n][m] = dist[n][m]
        BY <2>2, <1>s, <1>6
      <3>2. fwd[n][m] \in Neighbours(edges, n) /\ edges[n][fwd[n][m]] + dist[fwd[n][m]][m] <= dist[n][m]
        BY <3>1, <1>t DEF LoopFree
      <3>3. fwd[n][m] \in Ids /\ edges[n][fwd[n][m]] \in Nat
        BY <3>2, <1>n, <1>t, TypesOf
      <3>4. dist'[fwd[n][m]][m] <= dist[fwd[n][m]][m] /\ dist'[fwd[n][m]][m] \in Nat
        <4>1. m \in Ids
          OBVIOUS
        <4> DEFINE k == fwd[n][m]
        <4>2. k \in Ids
          BY <3>3
        <4> HIDE DEF k
        <4>3. dist'[k][m] <= dist[k][m] /\ dist'[k][m] \in Nat
          BY <4>1, <4>2, <1>x
        <4> QED
          BY <4>3 DEF k
      <3>5. dist[fwd[n][m]][m] \in Nat /\ dist[n][m] \in Nat
        BY <3>3, <1>4
      <3>6. edges[n][fwd[n][m]] + dist'[fwd[n][m]][m] <= dist[n][m]
        BY <3>2, <3>3, <3>4, <3>5, NoFarther
      <3> QED
        BY <3>1, <3>2, <3>6
    <2> QED
      BY <2>1, <2>2
  <1>12. PhaseInv'
    <2>1. \A n \in Ids : inbox'[n] # << >> => inbox[n] # << >>
      BY <1>1, <1>i
    <2> QED
      BY <2>1, <1>1, <1>t DEF PhaseInv
  <1>13. InboxInv'
    <2> SUFFICES ASSUME NEW n \in Ids, NEW i \in 1 .. Len(inbox'[n])
                 PROVE  /\ inbox'[n][i].from \in Neighbours(edges, n)
                        /\ \A m \in Ids : dist'[inbox'[n][i].from][m] <= inbox'[n][i].dist[m]
      BY <1>1 DEF InboxInv
    <2>1. PICK j \in 1 .. Len(inbox[n]) : inbox'[n][i] = inbox[n][j]
      BY <1>10
    <2>2. /\ inbox[n][j].from \in Neighbours(edges, n)
          /\ \A m \in Ids : dist[inbox[n][j].from][m] <= inbox[n][j].dist[m]
      BY <1>u
    <2>3. inbox[n][j] \in Msgs
      <3>1. inbox[n] \in Seq(Msgs)
        BY <1>i
      <3> QED
        BY <3>1
    <2>4. inbox[n][j].from \in Ids /\ \A m \in Ids : inbox[n][j].dist[m] \in 0 .. IntMax
      BY <2>3, <1>w
    <2>5. \A m \in Ids : dist'[inbox[n][j].from][m] <= inbox[n][j].dist[m]
      <3> TAKE m \in Ids
      <3> DEFINE a == dist'[inbox[n][j].from][m]
                 b == dist[inbox[n][j].from][m]
                 c == inbox[n][j].dist[m]
      <3>1. b <= c /\ c \in Nat
        BY <2>2, <2>4
      <3> DEFINE k == inbox[n][j].from
      <3>3. k \in Ids
        BY <2>4
      <3> HIDE DEF k
      <3>4. dist'[k][m] <= dist[k][m] /\ dist'[k][m] \in Nat /\ dist[k][m] \in Nat
        BY <3>3, <1>4, <1>x
      <3>5. a <= b /\ a \in Nat /\ b \in Nat
        BY <3>4 DEF k
      <3> HIDE DEF a, b, c
      <3>2. a <= c
        BY <3>1, <3>5
      <3> QED
        BY <3>2 DEF a, c
    <2> QED
      BY <2>1, <2>2, <2>5
  <1>14. SettledInv'
    <2> SUFFICES ASSUME NEW n \in nodes, NEW h \in Neighbours(edges, n), NEW m \in nodes
                 PROVE  Settled(n, h, m)' \/ Awaited(n, h, m)'
      BY <1>1 DEF SettledInv
    <2>1. /\ h \in nodes /\ h \in Ids /\ n \in Ids /\ m \in Ids /\ n # h
          /\ edges[n][h] \in Nat /\ edges[n][h] > 0
      <3>1. n \in Ids /\ m \in Ids /\ h \in Ids /\ edges[n][h] > 0
        BY <1>m DEF Neighbours
      <3> QED
        BY <3>1, <1>n, <1>t DEF GraphInv
    <2>2. fwd[n][m] \in Int /\ h \in Nat /\ n \in Nat /\ turn \in Nat
      BY <2>1, <1>o, <1>1
    <2>d. /\ dist'[n][m] = IF n = turn /\ m \in shorter THEN offer(m) ELSE dist[n][m]
          /\ dist'[h][m] = IF h = turn /\ m \in shorter THEN offer(m) ELSE dist[h][m]
          /\ fwd'[n][m] = IF n = turn /\ m \in taken THEN f ELSE fwd[n][m]
          /\ m \in shorter => m \in taken
      BY <2>1, <1>6, <1>s
    <2>3. CASE h = turn
      <3>1. CASE m \in taken
        BY <2>3, <3>1, <1>1 DEF Awaited
      <3>2. CASE m \notin taken
        <4>1. /\ dist'[h][m] = dist[h][m] /\ dist'[n][m] = dist[n][m]
              /\ fwd'[n][m] = fwd[n][m] /\ inbox'[n] = inbox[n]
          BY <2>1, <2>3, <2>d, <3>2, <1>1, <1>i
        <4>2. Settled(n, h, m) \/ Awaited(n, h, m)
          BY <1>1, <1>t DEF SettledInv
        <4>3. Settled(n, h, m) => Settled(n, h, m)'
          BY <4>1, <1>1 DEF Settled
        <4>4. Awaited(n, h, m) => Awaited(n, h, m)'
          BY <4>1, <1>1 DEF Awaited
        <4> QED
          BY <4>2, <4>3, <4>4
      <3> QED
        BY <3>1, <3>2
    <2>4. CASE h # turn
      <3>1. dist'[h][m] = dist[h][m] /\ dist[h][m] \in Nat
        BY <2>1, <2>4, <1>4, <1>6
      <3>2. CASE dist[h][m] = IntMax
        BY <3>1, <3>2 DEF Settled
      <3>3. CASE updated[h] /\ h < turn
        BY <3>3, <1>1 DEF Awaited
      <3>4. CASE dist[h][m] # IntMax /\ Settled(n, h, m)
        <4>1. /\ dist[n][m] <= edges[n][h] + dist[h][m]
              /\ dist[n][m] = edges[n][h] + dist[h][m] => fwd[n][m] <= h
          BY <3>4, <3>1, <2>1, <1>4 DEF Settled
        <4>2. CASE n = turn /\ m \in shorter
          <5>1. dist'[n][m] < dist[n][m]
            BY <4>2, <2>1, <1>5, <1>6
          <5>2. dist'[n][m] < edges[n][h] + dist'[h][m]
            BY <5>1, <4>1, <3>1, <2>1, <1>4, <1>7
          <5> QED
            BY <5>2, <1>1 DEF Settled
        <4>3. CASE n = turn /\ m \in taken \ shorter
          <5>1. dist'[n][m] = dist[n][m] /\ fwd'[n][m] = f /\ f < fwd[n][m]
            BY <4>3, <2>1, <1>5, <1>6
          <5>2. /\ f \in Nat /\ h \in Nat
                /\ fwd[n][m] \in Int
            BY <1>3, <1>o, <2>1, <2>2
          <5>3. dist[n][m] = edges[n][h] + dist[h][m] => f <= h
            BY <5>1, <5>2, <4>1
          <5>4. \/ dist'[n][m] < edges[n][h] + dist'[h][m]
                \/ dist'[n][m] = edges[n][h] + dist'[h][m] /\ fwd'[n][m] <= h
            BY <5>1, <5>3, <4>1, <3>1, <2>1, <1>4
          <5> QED
            BY <5>4, <1>1 DEF Settled
        <4>4. CASE ~ (n = turn /\ m \in taken)
          <5>1. dist'[n][m] = dist[n][m] /\ fwd'[n][m] = fwd[n][m]
            BY <4>4, <2>d
          <5> QED
            BY <5>1, <3>1, <3>4, <1>1 DEF Settled
        <4> QED
          BY <4>2, <4>3, <4>4, <1>5
      <3>5. CASE \E i \in 1 .. Len(inbox[n]) :
                    inbox[n][i].from = h /\ inbox[n][i].dist[m] <= dist[h][m]
        <4>1. PICK i \in 1 .. Len(inbox[n]) :
                    inbox[n][i].from = h /\ inbox[n][i].dist[m] <= dist[h][m]
          BY <3>5
        <4>2. CASE n = turn /\ i = 1
          <5>1. f = h /\ msg.dist[m] = dist[h][m]
            <6>1. inbox[n][i] = msg
              BY <4>2, <1>p
            <6> QED
              BY <6>1, <4>1, <2>1, <1>3, <1>4 DEF f
          <5>2. CASE m \in shorter
            <6>1. dist'[n][m] = edges[n][h] + dist'[h][m] /\ fwd'[n][m] = h
              <7>1. dist'[n][m] = offer(m) /\ fwd'[n][m] = f
                BY <5>2, <4>2, <2>d
              <7> QED
                BY <7>1, <5>1, <4>2, <3>1 DEF offer
            <6>2. h <= h
              BY <2>1
            <6> QED
              BY <6>1, <6>2, <1>1 DEF Settled
          <5>3. CASE m \in taken \ shorter
            <6>1. dist'[n][m] = edges[n][h] + dist'[h][m] /\ fwd'[n][m] = h
              <7>1. dist'[n][m] = dist[n][m] /\ fwd'[n][m] = f /\ offer(m) = dist[n][m]
                BY <5>3, <4>2, <2>d, <1>5
              <7> QED
                BY <7>1, <5>1, <4>2, <3>1 DEF offer
            <6>2. h <= h
              BY <2>1
            <6> QED
              BY <6>1, <6>2, <1>1 DEF Settled
          <5>4. CASE m \notin taken
            <6>1. dist'[n][m] = dist[n][m] /\ fwd'[n][m] = fwd[n][m]
              BY <5>4, <2>d
            <6>2. CASE dist[h][m] # IntMax
              <7>1. \/ dist[turn][m] < offer(m)
                    \/ dist[turn][m] = offer(m) /\ fwd[turn][m] <= f
                BY <6>2, <5>1, <5>4, <1>5
              <7>2. \/ dist[n][m] < edges[n][h] + dist[h][m]
                    \/ dist[n][m] = edges[n][h] + dist[h][m] /\ fwd[n][m] <= h
                BY <7>1, <5>1, <4>2 DEF offer
              <7> QED
                BY <7>2, <6>1, <3>1, <1>1 DEF Settled
            <6> QED
              BY <6>2, <3>2
          <5> QED
            BY <5>2, <5>3, <5>4
        <4>3. CASE ~ (n = turn /\ i = 1)
          <5>1. \E j \in 1 .. Len(inbox'[n]) : inbox'[n][j] = inbox[n][i]
            <6>1. CASE n # turn
              <7>1. inbox'[n] = inbox[n]
                BY <6>1, <2>1, <1>1, <1>t DEF TypeOK
              <7> QED
                BY <7>1
            <6>2. CASE n = turn
              <7>1. inbox'[n] = Tail(inbox[turn])
                BY <6>2, <2>1, <1>1, <1>t DEF TypeOK
              <7>2. i - 1 \in 1 .. Len(inbox'[n]) /\ inbox'[n][i - 1] = inbox[n][i]
                BY <6>2, <7>1, <4>3, <1>2
              <7> QED
                BY <7>2
            <6> QED
              BY <6>1, <6>2
          <5> QED
            BY <5>1, <4>1, <3>1 DEF Awaited
        <4> QED
          BY <4>2, <4>3
      <3>6. Settled(n, h, m) \/ Awaited(n, h, m)
        BY <1>1, <1>t DEF SettledInv
      <3> QED
        BY <3>2, <3>3, <3>4, <3>5, <3>6, <2>4, <1>1 DEF Awaited
    <2> QED
      BY <2>3, <2>4
  <1> QED
    BY <1>8, <1>9, <1>11, <1>12, <1>13, <1>14 DEF DInv

(* A node that has read its inbox reports whether it has changed *)
LEMMA DInvEndUpdate == DInv /\ EndUpdate => DInv'
  <1> SUFFICES ASSUME DInv, EndUpdate PROVE DInv'
    OBVIOUS
  <1> USE TopologyAssumption
  <1>t. TypeOK /\ GraphInv /\ DistInv /\ LoopFree /\ PhaseInv /\ InboxInv /\ SettledInv
    BY DEF DInv
  <1>1. /\ pc = "update" /\ UNCHANGED <<nodes, edges, dist, fwd, inbox, lines>>
        /\ inbox[turn] = << >>
        /\ turn \in nodes /\ turn \in Ids
        /\ updated' = [updated EXCEPT ![turn] = changed]
        /\ NextNode(count \/ changed, "send")
    BY <1>t DEF EndUpdate, PhaseInv, TypeOK
  <1>2. count \in BOOLEAN /\ changed \in BOOLEAN /\ (count \/ changed) \in BOOLEAN
    BY <1>t DEF TypeOK
  <1>3. \A h \in Ids : updated'[h] = IF h = turn THEN changed ELSE updated[h]
    BY <1>1, <1>t DEF TypeOK
  <1>4. \A h \in nodes : h \in Nat /\ h \in Ids
    BY <1>t DEF TypeOK
  <1>5. \/ /\ pc' = pc /\ turn' \in nodes /\ turn' > turn
           /\ \A m \in nodes : m > turn => m >= turn'
           /\ count' = (count \/ changed) /\ changed' = FALSE
        \/ /\ pc' = "send" /\ (count \/ changed) /\ turn' \in nodes
           /\ \A m \in nodes : m <= turn /\ m >= turn'
           /\ count' = FALSE /\ changed' = FALSE
        \/ /\ pc' = "ready" /\ ~ (count \/ changed) /\ turn' = turn
           /\ \A m \in nodes : m <= turn
           /\ count' = count /\ changed' = changed
    BY <1>1, <1>2, <1>t, NextNodeOf
  <1>6. TypeOK'
    <2>1. turn' \in Ids /\ count' \in BOOLEAN /\ changed' \in BOOLEAN
      BY <1>2, <1>4, <1>5, <1>1
    <2>2. pc' \in {"topo", "send", "update", "ready"}
      BY <1>1, <1>5
    <2>3. updated' \in [Ids -> BOOLEAN]
      BY <1>1, <1>2, <1>t DEF TypeOK
    <2> QED
      BY <2>1, <2>2, <2>3, <1>1, <1>t DEF TypeOK
  <1>7. GraphInv' /\ DistInv' /\ LoopFree' /\ InboxInv'
    BY <1>t, <1>1 DEF GraphInv, DistInv, LoopFree, InboxInv
  <1>8. \A n \in Ids : inbox[n] # << >> => n \in nodes /\ n > turn
    <2> TAKE n \in Ids
    <2> HAVE inbox[n] # << >>
    <2>1. n \in nodes /\ n >= turn /\ n # turn
      BY <1>1, <1>t DEF PhaseInv
    <2> QED
      BY <2>1, <1>1, <1>4
  <1>9. PhaseInv'
    <2>1. pc' \in {"send", "update"} => turn' \in nodes'
      BY <1>1, <1>5
    <2>2. pc' # "topo"
      BY <1>1, <1>5
    <2>3. pc' # "update" => \A n \in Ids : inbox[n] = << >>
      <3> SUFFICES ASSUME pc' # "update", NEW n \in Ids, inbox[n] # << >> PROVE FALSE
        OBVIOUS
      <3>1. n \in nodes /\ n > turn
        BY <1>8
      <3>2. n <= turn
        BY <3>1, <1>1, <1>5
      <3> QED
        BY <3>1, <3>2, <1>1, <1>4
    <2>4. \A n \in Ids : inbox'[n] # << >> => n \in nodes' /\ pc' = "update" /\ n >= turn'
      BY <2>3, <1>1, <1>5, <1>8
    <2>5. pc' = "update" /\ ~ count' => \A h \in nodes' : h < turn' => ~ updated'[h]
      <3> SUFFICES ASSUME pc' = "update", ~ count', NEW h \in nodes, h < turn'
                   PROVE  ~ updated'[h]
        BY <1>1
      <3>1. /\ ~ count /\ ~ changed /\ turn' \in nodes
            /\ \A m \in nodes : m > turn => m >= turn'
        BY <1>5
      <3>2. ~ (h > turn)
        BY <3>1, <1>4
      <3>3. h < turn \/ h = turn
        BY <3>2, <1>1, <1>4
      <3> QED
        BY <3>1, <3>3, <1>1, <1>3, <1>4, <1>t DEF PhaseInv
    <2> QED
      BY <2>1, <2>2, <2>4, <2>5 DEF PhaseInv
  <1>10. SettledInv'
    <2> SUFFICES ASSUME NEW n \in nodes, NEW h \in Neighbours(edges, n), NEW m \in nodes
                 PROVE  Settled(n, h, m)' \/ Awaited(n, h, m)'
      BY <1>1 DEF SettledInv
    <2>1. h \in nodes /\ h \in Ids
      BY <1>4, <1>t DEF GraphInv, Neighbours
    <2>2. CASE Settled(n, h, m)
      BY <2>2, <1>1 DEF Settled
    <2>3. CASE \E i \in 1 .. Len(inbox[n]) :
                  inbox[n][i].from = h /\ inbox[n][i].dist[m] <= dist[h][m]
      BY <2>3, <1>1 DEF Awaited
    <2>4. CASE h = turn /\ changed
      <3>1. updated'[h]
        BY <2>1, <2>4, <1>3
      <3>2. (pc' = "send" /\ h >= turn') \/ (pc' = "update" /\ h < turn')
        BY <2>4, <1>1, <1>4, <1>5
      <3> QED
        BY <3>1, <3>2 DEF Awaited
    <2>5. CASE updated[h] /\ h < turn
      <3>0. h # turn
        BY <2>1, <2>5, <1>1, <1>4
      <3>1. updated'[h]
        BY <3>0, <2>1, <2>5, <1>3
      <3>2. count
        BY <2>1, <2>5, <1>1, <1>t DEF PhaseInv
      <3>3. (pc' = "send" /\ h >= turn') \/ (pc' = "update" /\ h < turn')
        <4>1. CASE pc' = pc /\ turn' \in nodes /\ turn' > turn
          BY <4>1, <2>1, <2>5, <1>1, <1>4
        <4>2. CASE pc' = "send" /\ \A k \in nodes : k >= turn'
          BY <4>2, <2>1
        <4> QED
          BY <3>2, <4>1, <4>2, <1>5
      <3> QED
        BY <3>1, <3>3 DEF Awaited
    <2> QED
      BY <2>2, <2>3, <2>4, <2>5, <1>1, <1>t DEF SettledInv, Awaited
  <1> QED
    BY <1>6, <1>7, <1>9, <1>10 DEF DInv

(* Every step preserves the invariant *)
LEMMA DInvNext == DInv /\ [Next]_vars => DInv'
  <1> SUFFICES ASSUME DInv, [Next]_vars PROVE DInv'
    OBVIOUS
  <1>1. CASE ReadTopology
    <2>1. PICK l \in Lines : ReadLine(l)
      BY <1>1 DEF ReadTopology
    <2> QED
      BY <1>1, <2>1, DInvLine DEF ReadTopology
  <1>2. CASE EndTopology
    BY <1>2, DInvEndTopology
  <1>3. CASE ReadChange
    <2>1. PICK l \in Lines : ReadLine(l) /\ StartLoop("send", Named(nodes, l))
      BY <1>3 DEF ReadChange
    <2> QED
      BY <1>3, <2>1, DInvLine DEF ReadChange
  <1>4. CASE SendUpdate
    BY <1>4, DInvSendUpdate
  <1>5. CASE ReadUpdate
    BY <1>5, DInvReadUpdate
  <1>6. CASE EndUpdate
    BY <1>6, DInvEndUpdate
  <1>7. CASE UNCHANGED vars
    <2> USE <1>7 DEF vars, DInv
    <2>1. TypeOK'
      BY DEF TypeOK
    <2>5. GraphInv' /\ DistInv'
      BY DEF GraphInv, DistInv
    <2>4. LoopFree'
      BY DEF LoopFree
    <2>2. PhaseInv' /\ InboxInv'
      BY DEF PhaseInv, InboxInv
    <2>3. SettledInv'
      BY DEF SettledInv, Settled, Awaited
    <2> QED
      BY <2>1, <2>2, <2>3, <2>4, <2>5
  <1> QED
    BY <1>1, <1>2, <1>3, <1>4, <1>5, <1>6, <1>7 DEF Next, Stop

(* The inductive invariant holds in every behaviour of distvec. *)
THEOREM DInvHolds == Spec => []DInv
  <1> QED
    BY DInvInit, DInvNext, PTL DEF Spec

(* Every variable keeps its range, for any network. *)
THEOREM TypeCorrect == Spec => []TypeOK
  <1>1. DInv => TypeOK
    BY DEF DInv
  <1> QED
    BY <1>1, DInvHolds, PTL

(* The tables of distvec are free of loops at every moment, in the middle  *)
(* of a round and after any change (update_distance_and_forwarding_table), *)
(* for any network.                                                        *)
THEOREM NoLoops == Spec => []LoopFree
  <1>1. DInv => LoopFree
    BY DEF DInv
  <1> QED
    BY <1>1, DInvHolds, PTL

(* At the end of the rounds nothing is on its way any more *)
LEMMA SettledAtLast ==
    ASSUME DInv, pc = "ready", NEW n \in nodes, NEW h \in Neighbours(edges, n),
           NEW m \in nodes
    PROVE  Settled(n, h, m)
  <1>1. inbox[n] = << >>
    BY DEF DInv, PhaseInv, TypeOK
  <1> QED
    BY <1>1 DEF DInv, SettledInv, Awaited

(* A better distance of a neighbour is taken, to be sent or on its way, at *)
(* every moment of the rounds (send_update, the flag updated), for any     *)
(* network.                                                                *)
THEOREM NothingIsForgotten == Spec => []NothingForgotten
  <1>1. ASSUME DInv PROVE NothingForgotten
    <2> USE TopologyAssumption
    <2>t. TypeOK /\ GraphInv /\ SettledInv
      BY <1>1 DEF DInv
    <2> SUFFICES ASSUME NEW n \in nodes, NEW h \in Neighbours(edges, n), NEW m \in nodes,
                        pc # "topo"
                 PROVE  \/ dist[h][m] = IntMax
                        \/ dist[n][m] <= edges[n][h] + dist[h][m]
                        \/ \E i \in 1 .. Len(inbox[n]) :
                              inbox[n][i].from = h /\ inbox[n][i].dist[m] <= dist[h][m]
                        \/ updated[h] /\ ~ (pc = "send" /\ h < turn)
                        \/ pc = "update" /\ h = turn /\ changed
      BY DEF NothingForgotten
    <2>1. n \in Ids /\ h \in Ids /\ m \in Ids /\ turn \in Ids
      BY <2>t, TypesOf DEF TypeOK
    <2>2. /\ edges[n][h] \in Nat /\ dist[h][m] \in Nat /\ dist[n][m] \in Nat
          /\ h \in Nat /\ turn \in Nat
      BY <2>1, <2>t, TypesOf
    <2>3. CASE Settled(n, h, m)
      BY <2>2, <2>3 DEF Settled
    <2>4. CASE Awaited(n, h, m)
      BY <2>2, <2>4 DEF Awaited
    <2> QED
      BY <2>3, <2>4, <2>t DEF SettledInv
  <1> QED
    BY <1>1, DInvHolds, PTL

(* Among equally short ways every printed table takes the neighbour with   *)
(* the smallest id, in whatever order the vectors came.                    *)
THEOREM SmallestIdTaken == Spec => []SmallestHop
  <1>1. ASSUME DInv PROVE SmallestHop
    <2> USE TopologyAssumption
    <2>t. TypeOK
      BY <1>1 DEF DInv
    <2> SUFFICES ASSUME pc = "ready", NEW n \in nodes, NEW m \in nodes \ {n},
                        dist[n][m] < IntMax, NEW h \in Neighbours(edges, n),
                        edges[n][h] + dist[h][m] = dist[n][m]
                 PROVE  fwd[n][m] <= h
      BY DEF SmallestHop
    <2>1. n \in Ids /\ h \in Ids /\ m \in Ids
      BY <2>t, TypesOf DEF TypeOK
    <2>2. edges[n][h] \in Nat /\ dist[h][m] \in Nat /\ dist[n][m] \in Nat /\ IntMax \in Nat
      BY <2>1, <2>t, TypesOf
    <2>3. dist[h][m] # IntMax
      BY <2>2
    <2>4. Settled(n, h, m)
      BY <1>1, SettledAtLast
    <2>5. ~ (dist[n][m] < edges[n][h] + dist[h][m])
      BY <2>2
    <2> QED
      BY <2>3, <2>4, <2>5 DEF Settled
  <1> QED
    BY <1>1, DInvHolds, PTL

(* The next hop of a known distance is nearer *)
LEMMA NearerHop ==
    ASSUME DInv, NEW n \in nodes, NEW m \in nodes, n # m, dist[n][m] < IntMax
    PROVE  /\ fwd[n][m] \in nodes /\ fwd[n][m] \in Neighbours(edges, n)
           /\ dist[fwd[n][m]][m] \in Nat /\ dist[n][m] \in Nat
           /\ edges[n][fwd[n][m]] \in Nat
           /\ dist[fwd[n][m]][m] < dist[n][m]
           /\ edges[n][fwd[n][m]] + dist[fwd[n][m]][m] <= dist[n][m]
  <1>t. TypeOK /\ GraphInv /\ LoopFree
    BY DEF DInv
  <1>1. n \in Ids /\ m \in Ids
    BY <1>t DEF TypeOK
  <1>2. /\ fwd[n][m] \in Neighbours(edges, n)
        /\ edges[n][fwd[n][m]] + dist[fwd[n][m]][m] <= dist[n][m]
    BY <1>1, <1>t DEF LoopFree
  <1>3. fwd[n][m] \in Ids /\ edges[n][fwd[n][m]] > 0
    BY <1>2 DEF Neighbours
  <1>4. fwd[n][m] \in nodes
    BY <1>1, <1>3, <1>t DEF GraphInv
  <1>5. /\ dist[fwd[n][m]][m] \in Nat /\ dist[n][m] \in Nat
        /\ edges[n][fwd[n][m]] \in Nat
    BY <1>1, <1>3, <1>t, TypesOf
  <1>6. \A e, a, b \in Nat : e > 0 /\ e + a <= b => a < b
    OBVIOUS
  <1>7. dist[fwd[n][m]][m] < dist[n][m]
    BY <1>2, <1>3, <1>5, <1>6
  <1> QED
    BY <1>2, <1>4, <1>5, <1>7

(* Once the rounds are over the distances are those of the best paths *)
LEMMA BestDistances ==
    ASSUME DInv, pc = "ready"
    PROVE  /\ IsOptimal(edges, nodes, dist)
           /\ \A n \in nodes : \A m \in nodes \ {n} : dist[n][m] < IntMax =>
                 dist[n][m] = edges[n][fwd[n][m]] + dist[fwd[n][m]][m]
  <1>t. TypeOK /\ GraphInv /\ DistInv
    BY DEF DInv
  <1>1. ASSUME NEW n \in nodes, NEW m \in nodes, NEW h \in Neighbours(edges, n),
               dist[h][m] < IntMax
        PROVE  dist[n][m] <= edges[n][h] + dist[h][m]
    <2>1. n \in Ids /\ h \in Ids /\ m \in Ids
      BY <1>t, TypesOf DEF TypeOK
    <2>2. /\ edges[n][h] \in Nat /\ dist[h][m] \in Nat /\ dist[n][m] \in Nat
          /\ IntMax \in Nat
      BY <2>1, <1>t, TypesOf
    <2>3. Settled(n, h, m) /\ dist[h][m] # IntMax
      BY <1>1, <2>2, SettledAtLast
    <2> QED
      BY <2>2, <2>3 DEF Settled
  <1>2. ASSUME NEW n \in nodes, NEW m \in nodes \ {n}, dist[n][m] < IntMax
        PROVE  /\ fwd[n][m] \in Neighbours(edges, n)
               /\ dist[n][m] = edges[n][fwd[n][m]] + dist[fwd[n][m]][m]
    <2> DEFINE h == fwd[n][m]
    <2>1. /\ h \in nodes /\ h \in Neighbours(edges, n)
          /\ dist[h][m] \in Nat /\ dist[n][m] \in Nat /\ edges[n][h] \in Nat
          /\ dist[h][m] < dist[n][m] /\ edges[n][h] + dist[h][m] <= dist[n][m]
      BY <1>2, NearerHop
    <2>2. IntMax \in Nat
      BY <1>t, TypesOf
    <2> HIDE DEF h
    <2>3. dist[h][m] < IntMax
      BY <1>2, <2>1, <2>2
    <2>4. dist[n][m] <= edges[n][h] + dist[h][m]
      BY <1>1, <2>1, <2>3
    <2>5. dist[n][m] = edges[n][h] + dist[h][m]
      BY <2>1, <2>4
    <2> QED
      BY <2>1, <2>5 DEF h
  <1>3. \A n \in nodes, m \in nodes : dist[n][m] \in 0 .. IntMax
    BY <1>t DEF TypeOK, Vectors
  <1>4. \A n \in nodes : dist[n][n] = 0
    BY <1>t DEF TypeOK, DistInv
  <1>5. IsOptimal(edges, nodes, dist)
    BY <1>1, <1>2, <1>3, <1>4 DEF IsOptimal
  <1> QED
    BY <1>2, <1>5

(* Of two tables of best paths none has a lower cost than the other *)
LEMMA NoLowerCost ==
    ASSUME NEW nds \in SUBSET Ids, NEW eds \in [Ids -> [Ids -> Costs \cup {0}]],
           \A n \in nds : Neighbours(eds, n) \subseteq nds,
           NEW a, IsOptimal(eds, nds, a), NEW b, IsOptimal(eds, nds, b)
    PROVE  \A n, m \in nds : a[n][m] <= b[n][m]
  <1> SUFFICES ASSUME NEW m \in nds PROVE \A n \in nds : a[n][m] <= b[n][m]
    OBVIOUS
  <1> DEFINE near == [n \in nds |-> Neighbours(eds, n)]
             am == [n \in nds |-> a[n][m]]
             bm == [n \in nds |-> b[n][m]]
  <1>1. \A n \in nds : near[n] \subseteq nds /\ \A h \in near[n] : eds[n][h] \in Nat \ {0}
    <2>1. ASSUME NEW n \in nds, NEW h \in Neighbours(eds, n)
          PROVE  eds[n][h] \in Nat \ {0}
      <3>1. n \in Ids /\ h \in Ids /\ eds[n][h] > 0
        BY DEF Neighbours
      <3>2. eds[n][h] \in Costs \cup {0} /\ \A c \in Costs \cup {0} : c \in Nat
        BY <3>1, TopologyAssumption
      <3> QED
        BY <3>1, <3>2
    <2> QED
      BY <2>1
  <1>2. \A n \in nds : am[n] \in 0 .. IntMax /\ bm[n] \in 0 .. IntMax
    BY DEF IsOptimal
  <1>3. am[m] = 0
    BY DEF IsOptimal
  <1>4. \A n \in nds : \A h \in near[n] : am[h] < IntMax => am[n] <= eds[n][h] + am[h]
    BY <1>1 DEF IsOptimal
  <1>5. \A n \in nds \ {m} : bm[n] < IntMax => \E h \in near[n] : bm[n] = eds[n][h] + bm[h]
    BY <1>1 DEF IsOptimal
  <1> HIDE DEF near, am, bm
  <1>6. \A n \in nds : am[n] <= bm[n]
    BY <1>1, <1>2, <1>3, <1>4, <1>5, LeastCosts, TopologyAssumption
  <1> QED
    BY <1>6 DEF am, bm

(* The network alone determines the costs that distvec prints: whatever    *)
(* came before, no other table satisfies the equations of the best paths.  *)
THEOREM CostsAreDetermined ==
    Spec => [](pc = "ready" =>
                  \A cost : IsOptimal(edges, nodes, cost) =>
                      \A n, m \in nodes : dist[n][m] = cost[n][m])
  <1>1. DInv => (pc = "ready" =>
                  \A cost : IsOptimal(edges, nodes, cost) =>
                      \A n, m \in nodes : dist[n][m] = cost[n][m])
    <2> SUFFICES ASSUME DInv, pc = "ready", NEW cost, IsOptimal(edges, nodes, cost),
                        NEW n \in nodes, NEW m \in nodes
                 PROVE  dist[n][m] = cost[n][m]
      OBVIOUS
    <2>1. /\ nodes \in SUBSET Ids /\ edges \in [Ids -> [Ids -> Costs \cup {0}]]
          /\ \A k \in nodes : Neighbours(edges, k) \subseteq nodes
      BY DEF DInv, TypeOK, GraphInv, Neighbours
    <2>2. IsOptimal(edges, nodes, dist)
      BY BestDistances
    <2>3. dist[n][m] <= cost[n][m] /\ cost[n][m] <= dist[n][m]
      BY <2>1, <2>2, NoLowerCost
    <2>4. dist[n][m] \in Int /\ cost[n][m] \in Int
      BY <2>2 DEF IsOptimal
    <2> QED
      BY <2>3, <2>4
  <1> QED
    BY <1>1, DInvHolds, PTL

(* The hops of a message as next_hops collects them *)
Reach(m) == {n \in nodes : dist[n][m] < IntMax}

HopsOf(hops, n, m) == IF fwd[n][m] = m THEN << n >> ELSE << n >> \o hops[fwd[n][m]]

(* Following the tables ends: there is a function as next_hops computes it *)
LEMMA HopsExist ==
    ASSUME DInv, NEW m \in nodes
    PROVE  \E hops : hops = [n \in Reach(m) |-> HopsOf(hops, n, m)]
  <1> DEFINE Near(k) == {n \in Reach(m) : dist[n][m] <= k}
             Defined(k) == \E hops : hops = [n \in Near(k) |-> HopsOf(hops, n, m)]
             S == {k \in Nat : ~ Defined(k)}
  <1>t. TypeOK /\ DistInv /\ IntMax \in Nat
    BY TypesOf DEF DInv
  <1>1. \A n \in Reach(m) :
           /\ n \in nodes /\ dist[n][m] \in Nat /\ dist[n][m] < IntMax
           /\ n # m => /\ fwd[n][m] \in Reach(m)
                       /\ dist[fwd[n][m]][m] \in Nat
                       /\ dist[fwd[n][m]][m] < dist[n][m]
           /\ n = m => fwd[n][m] = m
    <2> TAKE n \in Reach(m)
    <2>1. n \in nodes /\ dist[n][m] < IntMax
      BY DEF Reach
    <2>2. n \in Ids /\ m \in Ids
      BY <2>1, <1>t DEF TypeOK
    <2>3. dist[n][m] \in Nat
      BY <2>2, <1>t, TypesOf
    <2>4. n = m => fwd[n][m] = m
      BY <2>2, <1>t DEF DistInv
    <2>5. CASE n # m
      <3> DEFINE h == fwd[n][m]
      <3>1. h \in nodes /\ dist[h][m] \in Nat /\ dist[h][m] < dist[n][m]
        BY <2>1, <2>5, NearerHop
      <3> HIDE DEF h
      <3>2. h \in Reach(m)
        BY <3>1, <2>1, <2>3, <1>t DEF Reach
      <3> QED
        BY <3>1, <3>2, <2>1, <2>3, <2>4 DEF h
    <2> QED
      BY <2>1, <2>3, <2>4, <2>5
  <1>2. Defined(0)
    <2>1. \A n \in Near(0) : n = m /\ fwd[n][m] = m
      BY <1>1
    <2> DEFINE g == [n \in Near(0) |-> << n >>]
    <2>2. g = [n \in Near(0) |-> HopsOf(g, n, m)]
      BY <2>1 DEF HopsOf
    <2> QED
      BY <2>2
  <1>3. ASSUME NEW k \in Nat, k > 0, Defined(k - 1) PROVE Defined(k)
    <2>1. PICK h : h = [n \in Near(k - 1) |-> HopsOf(h, n, m)]
      BY <1>3
    <2> DEFINE g == [n \in Near(k) |-> HopsOf(h, n, m)]
    <2>2. \A n \in Near(k) : fwd[n][m] # m => g[fwd[n][m]] = h[fwd[n][m]]
      <3> TAKE n \in Near(k)
      <3> HAVE fwd[n][m] # m
      <3> DEFINE j == fwd[n][m]
      <3>1. n \in Reach(m) /\ n # m
        BY <1>1
      <3>2. j \in Reach(m) /\ dist[j][m] \in Nat /\ dist[n][m] \in Nat
            /\ dist[j][m] < dist[n][m] /\ dist[n][m] <= k
        BY <3>1, <1>1
      <3> HIDE DEF j
      <3>3. dist[j][m] <= k - 1 /\ dist[j][m] <= k
        BY <3>2
      <3>4. j \in Near(k - 1) /\ j \in Near(k)
        BY <3>2, <3>3
      <3> HIDE DEF Near
      <3>5. g[j] = HopsOf(h, j, m)
        BY <3>4
      <3>6. h[j] = HopsOf(h, j, m)
        BY <3>4, <2>1
      <3> QED
        BY <3>5, <3>6 DEF j
    <2> HIDE DEF Near
    <2>3. \A n \in Near(k) : HopsOf(h, n, m) = HopsOf(g, n, m)
      BY <2>2 DEF HopsOf
    <2>4. g = [n \in Near(k) |-> HopsOf(g, n, m)]
      <3> DEFINE g2 == [n \in Near(k) |-> HopsOf(g, n, m)]
      <3>1. g = g2
        BY <2>3
      <3> QED
        BY <3>1
    <2> QED
      BY <2>4
  <1>4. S = {}
    <2> SUFFICES ASSUME S # {} PROVE FALSE
      OBVIOUS
    <2> HIDE DEF Defined
    <2>1. PICK k \in S : \A j \in S : k <= j
      <3>1. S \in SUBSET Nat
        OBVIOUS
      <3> HIDE DEF S
      <3> QED
        BY <3>1, LeastNatural
    <2>2. k \in Nat /\ ~ Defined(k)
      OBVIOUS
    <2>3. k > 0
      BY <2>2, <1>2
    <2>4. k - 1 \in Nat /\ ~ (k <= k - 1)
      BY <2>2, <2>3
    <2>5. Defined(k - 1)
      BY <2>1, <2>4
    <2> QED
      BY <2>2, <2>3, <2>5, <1>3
  <1>5. Near(IntMax) = Reach(m)
    <2>1. \A n \in Reach(m) : dist[n][m] <= IntMax
      BY <1>1, <1>t
    <2> QED
      BY <2>1
  <1>6. Defined(IntMax)
    <2> HIDE DEF Defined
    <2> QED
      BY <1>4, <1>t
  <1> QED
    BY <1>5, <1>6

(* The way of a message over the hops: every node hands it on by its table *)
Way(hops, n, m) ==
    /\ hops \in Seq(nodes)
    /\ Len(hops) \in Nat /\ Len(hops) > 0
    /\ hops[1] = n
    /\ \A i \in 1 .. Len(hops) :
          /\ dist[hops[i]][m] < IntMax
          /\ fwd[hops[i]][m] = IF i = Len(hops) THEN m ELSE hops[i + 1]

(* One hop before a way is a way *)
LEMMA LongerWay ==
    ASSUME NEW n \in nodes, NEW m \in nodes, NEW hops,
           dist[n][m] < IntMax, Way(hops, fwd[n][m], m)
    PROVE  Way(<< n >> \o hops, n, m)
  <1> DEFINE way == << n >> \o hops
             L == Len(hops)
  <1>1. hops \in Seq(nodes) /\ L \in Nat /\ L > 0 /\ hops[1] = fwd[n][m]
    BY DEF Way
  <1>2. << n >> \in Seq(nodes) /\ Len(<< n >>) = 1 /\ << n >>[1] = n
    OBVIOUS
  <1>3. /\ way \in Seq(nodes) /\ Len(way) = L + 1
        /\ \A i \in 1 .. L + 1 : way[i] = IF i <= 1 THEN << n >>[i] ELSE hops[i - 1]
    BY <1>1, <1>2, ConcatProperties
  <1>4. way[1] = n
    BY <1>1, <1>2, <1>3
  <1>5. \A i \in 1 .. L : way[i + 1] = hops[i]
    BY <1>1, <1>3
  <1>6. \A i \in 1 .. L :
           /\ dist[hops[i]][m] < IntMax
           /\ fwd[hops[i]][m] = IF i = L THEN m ELSE hops[i + 1]
    BY DEF Way
  <1> HIDE DEF way, L
  <1>7. ASSUME NEW i \in 1 .. L + 1
        PROVE  /\ dist[way[i]][m] < IntMax
               /\ fwd[way[i]][m] = IF i = L + 1 THEN m ELSE way[i + 1]
    <2>1. CASE i = 1
      <3>1. way[i + 1] = hops[1]
        BY <2>1, <1>1, <1>5
      <3> QED
        BY <2>1, <3>1, <1>1, <1>4
    <2>2. CASE i > 1
      <3>1. i - 1 \in 1 .. L /\ (i - 1) + 1 = i
        BY <2>2, <1>1
      <3>2. way[i] = hops[i - 1]
        BY <3>1, <1>5
      <3>3. /\ dist[hops[i - 1]][m] < IntMax
            /\ fwd[hops[i - 1]][m] = IF i - 1 = L THEN m ELSE hops[i]
        BY <3>1, <1>6
      <3>4. i - 1 = L <=> i = L + 1
        BY <1>1
      <3>5. i # L + 1 => way[i + 1] = hops[i]
        BY <1>1, <1>5
      <3> QED
        BY <3>2, <3>3, <3>4, <3>5
    <2> QED
      BY <1>1, <2>1, <2>2
  <1> QED
    BY <1>1, <1>3, <1>4, <1>7 DEF Way, way, L

(* What next_hops collects is the way of the message *)
LEMMA HopsAreWays ==
    ASSUME DInv, NEW m \in nodes, NEW hops,
           hops = [n \in Reach(m) |-> HopsOf(hops, n, m)]
    PROVE  \A n \in Reach(m) : Way(hops[n], n, m)
  <1> DEFINE Astray == {n \in Reach(m) : ~ Way(hops[n], n, m)}
             S == {dist[n][m] : n \in Astray}
  <1> SUFFICES ASSUME Astray # {} PROVE FALSE
    OBVIOUS
  <1>t. TypeOK /\ DistInv
    BY DEF DInv
  <1>1. \A n \in Reach(m) : n \in nodes /\ dist[n][m] < IntMax /\ dist[n][m] \in Nat
    <2>1. \A n \in nodes : n \in Ids
      BY <1>t DEF TypeOK
    <2> QED
      BY <2>1, <1>t, TypesOf DEF Reach
  <1>2. PICK n \in Astray : \A k \in Astray : dist[n][m] <= dist[k][m]
    <2>1. S \in SUBSET Nat /\ S # {}
      BY <1>1
    <2> HIDE DEF S
    <2>2. PICK d \in S : \A e \in S : d <= e
      BY <2>1, LeastNatural
    <2> QED
      BY <2>2 DEF S
  <1>3. n \in Reach(m) /\ ~ Way(hops[n], n, m)
    OBVIOUS
  <1>4. hops[n] = HopsOf(hops, n, m)
    BY <1>3
  <1>5. CASE fwd[n][m] = m
    <2>1. hops[n] = << n >>
      BY <1>4, <1>5 DEF HopsOf
    <2>2. Way(<< n >>, n, m)
      <3>1. << n >> \in Seq(nodes) /\ Len(<< n >>) = 1 /\ << n >>[1] = n
        BY <1>1, <1>3
      <3>2. \A i \in 1 .. Len(<< n >>) : i = 1
        BY <3>1
      <3> HIDE DEF Astray
      <3> QED
        BY <3>1, <3>2, <1>1, <1>3, <1>5 DEF Way
    <2> QED
      BY <2>1, <2>2, <1>3
  <1>6. CASE fwd[n][m] # m
    <2> DEFINE h == fwd[n][m]
    <2>1. hops[n] = << n >> \o hops[h]
      BY <1>4, <1>6 DEF HopsOf
    <2>2. n # m
      BY <1>6, <1>t DEF DistInv, TypeOK
    <2>3. /\ h \in nodes /\ dist[h][m] \in Nat /\ dist[n][m] \in Nat
          /\ dist[h][m] < dist[n][m] /\ dist[n][m] < IntMax
      BY <2>2, <1>1, <1>3, NearerHop
    <2> HIDE DEF h
    <2>4. h \in Reach(m) /\ ~ (dist[n][m] <= dist[h][m])
      BY <2>3, <1>t, TypesOf DEF Reach
    <2>5. Way(hops[h], h, m)
      BY <2>4, <1>2
    <2>6. Way(<< n >> \o hops[h], n, m)
      BY <2>5, <1>1, <1>3, LongerWay DEF h
    <2> QED
      BY <2>1, <2>6, <1>3
  <1> QED
    BY <1>5, <1>6

(* What is printed, and what the network promises of it, by their          *)
(* variables                                                               *)
Rows(nds, d, f) ==
    [n \in nds |-> [m \in {h \in nds : d[n][h] < IntMax} |->
                       [next |-> f[n][m], cost |-> d[n][m]]]]

CostOf(nds, rows) ==
    [n \in nds |-> [m \in nds |->
        IF m \in DOMAIN rows[n] THEN rows[n][m].cost ELSE IntMax]]

IsTableOf(nds, eds, rows) ==
    /\ DOMAIN rows = nds
    /\ IsOptimal(eds, nds, CostOf(nds, rows))
    /\ \A n \in nds : \A m \in DOMAIN rows[n] \ {n} :
          /\ CostOf(nds, rows)[n][m] < IntMax
          /\ rows[n][m].next \in Neighbours(eds, n)
          /\ CostOf(nds, rows)[n][m] =
                eds[n][rows[n][m].next] + CostOf(nds, rows)[rows[n][m].next][m]

AreWaysOf(nds, rows, ways) ==
    \/ ways = << >>
    \/ \A n \in nds : \A m \in DOMAIN rows[n] \ {n} :
          Abstract!FollowsTables(rows, n, m, ways[n][m])

InReach(n) == {h \in nodes : dist[n][h] < IntMax}

(* The rows that print_results prints are the tables of the best paths *)
LEMMA RowsAreTables ==
    ASSUME DInv, pc = "ready"
    PROVE  IsTableOf(nodes, edges, PrintResults.rows)
  <1> DEFINE rows == Rows(nodes, dist, fwd)
             cost == CostOf(nodes, rows)
  <1>t. TypeOK /\ GraphInv
    BY DEF DInv
  <1>0. PrintResults.rows = rows
    BY DEF PrintResults, Rows
  <1>1. /\ DOMAIN rows = nodes
        /\ \A n \in nodes : DOMAIN rows[n] = {h \in nodes : dist[n][h] < IntMax}
        /\ \A n \in nodes : \A m \in DOMAIN rows[n] :
              rows[n][m].next = fwd[n][m] /\ rows[n][m].cost = dist[n][m]
    BY DEF Rows
  <1>2. \A n, m \in nodes : dist[n][m] \in Nat /\ dist[n][m] <= IntMax /\ IntMax \in Nat
    <2>1. \A n \in nodes : n \in Ids
      BY <1>t DEF TypeOK
    <2> QED
      BY <2>1, <1>t, TypesOf
  <1> HIDE DEF rows
  <1>3. \A n, m \in nodes : cost[n][m] = dist[n][m]
    <2> TAKE n, m \in nodes
    <2>1. cost[n][m] = IF dist[n][m] < IntMax THEN dist[n][m] ELSE IntMax
      BY <1>1 DEF CostOf
    <2> QED
      BY <2>1, <1>2
  <1> HIDE DEF cost
  <1>4. \A n \in nodes : \A h \in Neighbours(edges, n) : h \in nodes
    BY <1>t DEF GraphInv, Neighbours, TypeOK
  <1>5. IsOptimal(edges, nodes, dist)
    BY BestDistances
  <1>6. IsOptimal(edges, nodes, cost)
    <2> SUFFICES ASSUME NEW n \in nodes, NEW m \in nodes
                 PROVE  /\ cost[n][m] \in 0 .. IntMax
                        /\ n = m => cost[n][m] = 0
                        /\ \A h \in Neighbours(edges, n) :
                              cost[h][m] < IntMax => cost[n][m] <= edges[n][h] + cost[h][m]
                        /\ n # m /\ cost[n][m] < IntMax =>
                              \E h \in Neighbours(edges, n) :
                                  cost[n][m] = edges[n][h] + cost[h][m]
      BY DEF IsOptimal
    <2>1. /\ dist[n][m] \in 0 .. IntMax
          /\ n = m => dist[n][m] = 0
          /\ \A h \in Neighbours(edges, n) :
                dist[h][m] < IntMax => dist[n][m] <= edges[n][h] + dist[h][m]
          /\ n # m /\ dist[n][m] < IntMax =>
                \E h \in Neighbours(edges, n) :
                    dist[n][m] = edges[n][h] + dist[h][m]
      BY <1>5 DEF IsOptimal
    <2>2. cost[n][m] = dist[n][m] /\ \A h \in Neighbours(edges, n) : cost[h][m] = dist[h][m]
      BY <1>3, <1>4
    <2> QED
      BY <2>1, <2>2
  <1>7. ASSUME NEW n \in nodes, NEW m \in DOMAIN rows[n] \ {n}
        PROVE  /\ cost[n][m] < IntMax
               /\ rows[n][m].next \in Neighbours(edges, n)
               /\ cost[n][m] = edges[n][rows[n][m].next] + cost[rows[n][m].next][m]
    <2>1. m \in nodes /\ n # m /\ dist[n][m] < IntMax /\ rows[n][m].next = fwd[n][m]
      BY <1>1
    <2>2. fwd[n][m] \in nodes /\ fwd[n][m] \in Neighbours(edges, n)
      BY <2>1, NearerHop
    <2>3. dist[n][m] = edges[n][fwd[n][m]] + dist[fwd[n][m]][m]
      BY <2>1, BestDistances
    <2> QED
      BY <2>1, <2>2, <2>3, <1>3
  <1> QED
    BY <1>0, <1>1, <1>6, <1>7 DEF IsTableOf, cost

(* The hops that print_messages prints are those of the tables *)
LEMMA WaysAreRight ==
    ASSUME DInv, pc = "ready"
    PROVE  AreWaysOf(nodes, PrintResults.rows, PrintResults.ways)
  <1> DEFINE rows == Rows(nodes, dist, fwd)
             ways == [n \in nodes |-> [m \in InReach(n) |-> NextHops(m)[n]]]
  <1>0. PrintResults.rows = rows /\ (PrintResults.ways = << >> \/ PrintResults.ways = ways)
    BY DEF PrintResults, Rows, InReach
  <1>1. /\ \A n \in nodes : DOMAIN rows[n] = InReach(n)
        /\ \A n \in nodes : \A m \in InReach(n) : rows[n][m].next = fwd[n][m]
    BY DEF Rows, InReach
  <1>2. \A n \in nodes : \A m \in InReach(n) :
           m \in nodes /\ n \in Reach(m) /\ ways[n][m] = NextHops(m)[n]
    BY DEF Reach, InReach
  <1>3. ASSUME NEW n \in nodes, NEW m \in InReach(n) \ {n}
        PROVE  Abstract!FollowsTables(rows, n, m, ways[n][m])
    <2> DEFINE hops == NextHops(m)
               way == Append(hops[n], m)
               L == Len(hops[n])
    <2>1. m \in nodes /\ n \in Reach(m)
      BY <1>2
    <2>2. hops = [k \in Reach(m) |-> HopsOf(hops, k, m)]
      BY <2>1, HopsExist DEF NextHops, Reach, HopsOf
    <2>3. Way(hops[n], n, m)
      BY <2>1, <2>2, HopsAreWays
    <2> HIDE DEF hops
    <2>4. /\ hops[n] \in Seq(nodes) /\ L \in Nat /\ L > 0 /\ hops[n][1] = n
          /\ \A i \in 1 .. L : /\ dist[hops[n][i]][m] < IntMax
                               /\ fwd[hops[n][i]][m] = IF i = L THEN m ELSE hops[n][i + 1]
      BY <2>3 DEF Way
    <2>5. \A i \in 1 .. L : hops[n][i] \in nodes
      BY <2>4
    <2>6. way[L + 1] = m /\ \A i \in 1 .. L : way[i] = hops[n][i]
      BY <2>1, <2>4, AppendProperties
    <2> HIDE DEF L, way, rows
    <2>7. way[1] = n
      BY <2>4, <2>6
    <2>8. ASSUME NEW i \in 1 .. L PROVE rows[way[i]][m].next = way[i + 1]
      <3>1. /\ way[i] = hops[n][i] /\ way[i] \in nodes /\ dist[way[i]][m] < IntMax
            /\ fwd[way[i]][m] = IF i = L THEN m ELSE hops[n][i + 1]
        BY <2>4, <2>5, <2>6
      <3>2. i # L => way[i + 1] = hops[n][i + 1]
        BY <2>4, <2>6
      <3>3. m \in InReach(way[i])
        BY <3>1, <2>1 DEF InReach
      <3>4. rows[way[i]][m].next = fwd[way[i]][m]
        BY <3>1, <3>3, <1>1
      <3> QED
        BY <3>1, <3>2, <3>4, <2>6
    <2>9. ways[n][m] = hops[n]
      BY <1>2 DEF hops
    <2> HIDE DEF ways
    <2> QED
      BY <2>7, <2>8, <2>9 DEF Abstract!FollowsTables, L, way
  <1> HIDE DEF rows, ways
  <1> QED
    BY <1>0, <1>1, <1>3 DEF AreWaysOf

(* What the refinement says of the printed tables *)
PrintedRight ==
    /\ pc = "ready" =>
          /\ IsTableOf(nodes, edges, PrintResults.rows)
          /\ AreWaysOf(nodes, PrintResults.rows, PrintResults.ways)
    /\ nodes = {} => PrintResults = [rows |-> << >>, ways |-> << >>]

(* The invariant makes all that is printed right *)
LEMMA PrintedRightHolds == DInv => PrintedRight
  <1> SUFFICES ASSUME DInv PROVE PrintedRight
    OBVIOUS
  <1>1. ASSUME nodes = {} PROVE PrintResults = [rows |-> << >>, ways |-> << >>]
    BY <1>1 DEF PrintResults
  <1>2. ASSUME pc = "ready" PROVE /\ IsTableOf(nodes, edges, PrintResults.rows)
                                  /\ AreWaysOf(nodes, PrintResults.rows, PrintResults.ways)
    BY <1>2, RowsAreTables, WaysAreRight
  <1> QED
    BY <1>1, <1>2 DEF PrintedRight

PrintOf(p, results) == IF p = "ready" THEN results ELSE [rows |-> << >>, ways |-> << >>]

ResultsOf(nds, d, f) ==
    [rows |-> [n \in nds |-> [m \in {h \in nds : d[n][h] < IntMax} |->
                  [next |-> f[n][m], cost |-> d[n][m]]]],
     ways |-> IF Cardinality(nds) < MinGraph THEN << >>
              ELSE [n \in nds |-> [m \in {h \in nds : d[n][h] < IntMax} |->
                       LET reach == {k \in nds : d[k][m] < IntMax}
                           hops[k \in reach] ==
                               IF f[k][m] = m THEN <<k>> ELSE <<k>> \o hops[f[k][m]]
                       IN  hops[n]]]]

absVars == <<nodes, edges, pc # "topo", pc = "ready", PrintOf(pc, PrintResults)>>

(* What is printed is a function of the nodes and their tables *)
LEMMA SameResults ==
    ASSUME UNCHANGED <<nodes, dist, fwd>>
    PROVE  UNCHANGED PrintResults
  <1>1. PrintResults = ResultsOf(nodes, dist, fwd)
    BY DEF PrintResults, NextHops, ResultsOf
  <1>2. PrintResults' = ResultsOf(nodes', dist', fwd')
    BY DEF PrintResults, NextHops, ResultsOf
  <1> QED
    BY <1>1, <1>2

(* A step of distvec is a step of the network or none *)
LEMMA StepImplements ==
    ASSUME DInv, PrintedRight', [Next]_vars
    PROVE  Abstract!Next \/ UNCHANGED absVars
  <1> USE DEF absVars, PrintOf
  <1>t. TypeOK
    BY DEF DInv
  <1>1. ASSUME NEW l \in Lines, ReadLine(l), pc' # "ready", pc' # "topo" <=> pc # "topo",
               pc # "topo" => pc = "ready"
        PROVE  Abstract!Next
    <2>1. l \in Abstract!Lines
      BY DEF Lines, Abstract!Lines, Removed, Abstract!Removed
    <2>2. nodes' = Abstract!Named(nodes, l) /\ edges' = Abstract!Linked(edges, l)
      BY <1>1 DEF ReadLine, Named, Linked, NewCost, Abstract!Named, Abstract!Linked,
                  Abstract!NewCost
    <2> QED
      BY <1>1, <2>1, <2>2 DEF Abstract!Next, Abstract!Line, Abstract!NothingPrinted
  <1>2. CASE ReadTopology
    BY <1>1, <1>2 DEF ReadTopology
  <1>3. CASE EndTopology
    BY <1>3 DEF EndTopology, StartLoop, Abstract!Next, Abstract!EndOfTopology, PrintedRight
  <1>4. CASE ReadChange
    BY <1>1, <1>4 DEF ReadChange, StartLoop
  <1>5. ASSUME pc \in {"send", "update"}, pc' \in {"send", "update", "ready"},
               UNCHANGED <<nodes, edges>>
        PROVE  Abstract!Next \/ UNCHANGED absVars
    <2>1. CASE pc' # "ready"
      BY <1>5, <2>1
    <2>2. CASE pc' = "ready"
      <3>1. IsTableOf(nodes, edges, PrintResults'.rows)
        BY <1>5, <2>2 DEF PrintedRight
      <3>2. AreWaysOf(nodes, PrintResults'.rows, PrintResults'.ways)
        BY <1>5, <2>2 DEF PrintedRight
      <3> DEFINE p == PrintResults'
      <3> HIDE DEF p
      <3>3. Abstract!IsTable(p.rows)
        BY <3>1 DEF IsTableOf, Abstract!IsTable, IsOptimal, Abstract!IsOptimal, CostOf,
                    Neighbours, Abstract!Neighbours, p
      <3>4. \/ p.ways = << >>
            \/ \A n \in nodes : \A m \in DOMAIN p.rows[n] \ {n} :
                  Abstract!FollowsTables(p.rows, n, m, p.ways[n][m])
        BY <3>2 DEF AreWaysOf, p
      <3> QED
        BY <1>5, <2>2, <3>3, <3>4 DEF Abstract!Next, Abstract!PrintResults, p
    <2> QED
      BY <2>1, <2>2
  <1>6. CASE SendUpdate
    BY <1>5, <1>6 DEF SendUpdate, NextNode, StartLoop
  <1>7. CASE ReadUpdate
    BY <1>5, <1>7 DEF ReadUpdate
  <1>8. CASE EndUpdate
    BY <1>5, <1>8 DEF EndUpdate, NextNode, StartLoop
  <1>9. CASE UNCHANGED vars
    BY <1>9, SameResults DEF vars
  <1> QED
    BY <1>2, <1>3, <1>4, <1>6, <1>7, <1>8, <1>9 DEF Next, Stop

(* Whatever lines distvec reads, it prints what Routing promises: tables   *)
(* of the best paths in the network as it is, and messages that follow     *)
(* them.                                                                   *)
THEOREM Implements == Spec => ImplementsRouting
  <1>1. Init => Abstract!Init
    BY DEF Init, Abstract!Init, NoLinks, Abstract!NoLinks, Abstract!NothingPrinted
  <1>2. DInv /\ PrintedRight' /\ [Next]_vars => [Abstract!Next]_absVars
    BY StepImplements
  <1>3. Spec => Abstract!Init /\ [][Abstract!Next]_absVars
    BY <1>1, <1>2, DInvHolds, PrintedRightHolds, PTL DEF Spec
  <1> QED
    BY <1>3 DEF ImplementsRouting, Abstract!Spec, absVars, PrintOf

-----------------------------------------------------------------------------
(***************************************************************************)
(* The rounds end: what every step of them lowers                          *)
(***************************************************************************)
Entries == (Ids \X Ids) \X ((0 .. IntMax) \X Ids)

(* There are finitely many entries that a table may hold *)
LEMMA EntriesFinite == IsFiniteSet(Entries)
  <1>1. IsFiniteSet(Ids) /\ IsFiniteSet(0 .. IntMax)
    BY TopologyAssumption, FS_Interval
  <1>2. IsFiniteSet(Ids \X Ids) /\ IsFiniteSet((0 .. IntMax) \X Ids)
    BY <1>1, FS_Product
  <1> QED
    BY <1>2, FS_Product DEF Entries

(* Which of them are better than those of the tables *)
BetterMeans ==
    /\ Better \subseteq Entries
    /\ \A n, m, h \in Ids : \A d \in 0 .. IntMax :
          << <<n, m>>, <<d, h>> >> \in Better <=>
             d < dist[n][m] \/ (d = dist[n][m] /\ h < fwd[n][m])

LEMMA BetterOf == TypeOK => BetterMeans
  <1> SUFFICES ASSUME TypeOK PROVE BetterMeans
    OBVIOUS
  <1>1. IntMax \in Nat /\ \A n, m \in Ids : dist[n][m] \in Nat /\ dist[n][m] <= IntMax
    BY TypesOf
  <1>2. \A n, m \in Ids : \A e \in BetterEntries(n, m) : e \in (0 .. IntMax) \X Ids
    <2> SUFFICES ASSUME NEW n \in Ids, NEW m \in Ids, NEW e \in BetterEntries(n, m)
                 PROVE  e \in (0 .. IntMax) \X Ids
      OBVIOUS
    <2>1. dist[n][m] \in 0 .. IntMax /\ 0 .. dist[n][m] - 1 \subseteq 0 .. IntMax
      BY <1>1
    <2> QED
      BY <2>1 DEF BetterEntries
  <1>3. Better \subseteq Entries
    BY <1>2 DEF Better, Entries
  <1>4. ASSUME NEW n \in Ids, NEW m \in Ids, NEW h \in Ids, NEW d \in 0 .. IntMax
        PROVE  << <<n, m>>, <<d, h>> >> \in Better <=>
                  d < dist[n][m] \/ (d = dist[n][m] /\ h < fwd[n][m])
    <2>1. << <<n, m>>, <<d, h>> >> \in Better <=> <<d, h>> \in BetterEntries(n, m)
      BY DEF Better
    <2>2. d \in 0 .. dist[n][m] - 1 <=> d < dist[n][m]
      BY <1>1
    <2> QED
      BY <2>1, <2>2 DEF BetterEntries
  <1> QED
    BY <1>3, <1>4 DEF BetterMeans

(* What an entry consists of *)
LEMMA EntryOf ==
    ASSUME NEW x \in Entries
    PROVE  \E n, m \in Ids : \E d \in 0 .. IntMax : \E h \in Ids :
              x = << <<n, m>>, <<d, h>> >>
  <1>1. x = <<x[1], x[2]>> /\ x[1] \in Ids \X Ids /\ x[2] \in (0 .. IntMax) \X Ids
    BY DEF Entries
  <1>2. x[1] = <<x[1][1], x[1][2]>> /\ x[1][1] \in Ids /\ x[1][2] \in Ids
    BY <1>1
  <1>3. x[2] = <<x[2][1], x[2][2]>> /\ x[2][1] \in 0 .. IntMax /\ x[2][2] \in Ids
    BY <1>1
  <1> QED
    BY <1>1, <1>2, <1>3

(* What a node takes from a message makes its table better, and nothing    *)
(* worse                                                                   *)
LEMMA TakenIsBetter ==
    ASSUME DInv, DInv', ReadUpdate
    PROVE  \/ Better' = Better /\ changed' = changed
           \/ Cardinality(Better') < Cardinality(Better)
  <1> USE TopologyAssumption
  <1>t. TypeOK /\ TypeOK' /\ GraphInv /\ DistInv /\ PhaseInv /\ InboxInv
    BY DEF DInv
  <1>b. BetterMeans /\ BetterMeans'
    BY <1>t, BetterOf, PTL
  <1> DEFINE msg == Head(inbox[turn])
             f == msg.from
             offer(m) == edges[turn][f] + msg.dist[m]
             shorter == {m \in nodes : Shorter(msg, m)}
             taken == shorter \cup {m \in nodes : SmallerHop(msg, m)}
  <1>1. /\ turn \in nodes /\ turn \in Ids /\ inbox[turn] # << >> /\ nodes \subseteq Ids
        /\ changed' = (changed \/ taken # {})
    BY <1>t DEF ReadUpdate, PhaseInv, TypeOK
  <1>2. /\ dist' = [dist EXCEPT ![turn] = [m \in Ids |->
               IF m \in shorter THEN offer(m) ELSE dist[turn][m]]]
        /\ fwd' = [fwd EXCEPT ![turn] = [m \in Ids |->
               IF m \in taken THEN f ELSE fwd[turn][m]]]
    BY DEF ReadUpdate, Offer
  <1>3. /\ dist \in [Ids -> [Ids -> 0 .. IntMax]]
        /\ fwd \in [Ids -> [Ids -> Ids \cup {Unreachable}]]
        /\ inbox \in [Ids -> Seq([from : Ids, dist : Vectors])]
    BY <1>t DEF TypeOK, Vectors
  <1>4. msg \in [from : Ids, dist : Vectors] /\ msg = inbox[turn][1] /\ 1 \in 1 .. Len(inbox[turn])
    <2>1. inbox[turn] \in Seq([from : Ids, dist : Vectors])
      BY <1>1, <1>3
    <2>2. Len(inbox[turn]) \in Nat /\ Len(inbox[turn]) # 0
      BY <2>1, <1>1, EmptySeq, LenProperties
    <2> HIDE DEF msg
    <2>3. Head(inbox[turn]) \in [from : Ids, dist : Vectors]
      BY <2>1, <1>1, HeadTailProperties
    <2>4. Head(inbox[turn]) = inbox[turn][1]
      OBVIOUS
    <2> QED
      BY <2>2, <2>3, <2>4 DEF msg
  <1>5. f \in Ids /\ f \in Neighbours(edges, turn)
    BY <1>1, <1>4, <1>t DEF InboxInv
  <1>6. edges[turn][f] \in Nat /\ edges[turn][f] > 0 /\ dist[turn][turn] = 0
    BY <1>1, <1>5, <1>t, TypesOf DEF Neighbours, DistInv
  <1>7. \A m \in nodes : /\ m \in shorter => offer(m) < dist[turn][m]
                         /\ m \in taken /\ m \notin shorter =>
                               offer(m) = dist[turn][m] /\ f < fwd[turn][m]
                         /\ offer(m) \in Nat
    BY <1>1, <1>4, <1>6, <1>t, TakenOf
  <1>8. shorter \subseteq taken /\ taken \subseteq nodes
    OBVIOUS
  <1> HIDE DEF msg, f, shorter, taken, offer
  <1>9. /\ \A n, m \in Ids : dist[n][m] \in Nat /\ dist[n][m] <= IntMax /\ fwd[n][m] \in Int
        /\ \A n \in Ids : n \in Nat
    BY <1>t, TypesOf
  <1>10. \A m \in Ids :
           /\ m \in shorter => dist'[turn][m] = offer(m)
           /\ m \notin shorter => dist'[turn][m] = dist[turn][m]
           /\ m \in taken => fwd'[turn][m] = f
           /\ m \notin taken => fwd'[turn][m] = fwd[turn][m]
    BY <1>1, <1>2, <1>3
  <1>11. \A n, m \in Ids : n # turn => dist'[n][m] = dist[n][m] /\ fwd'[n][m] = fwd[n][m]
    BY <1>1, <1>2, <1>3
  <1>12. CASE taken = {}
    <2>1. shorter = {}
      BY <1>8, <1>12
    <2>2. dist' = dist
      BY <2>1, <1>1, <1>2, <1>3
    <2>3. fwd' = fwd
      BY <1>12, <1>1, <1>2, <1>3
    <2>4. Better' = Better
      BY <2>2, <2>3 DEF Better, BetterEntries
    <2>5. changed \in BOOLEAN /\ (changed' <=> changed) /\ changed' \in BOOLEAN
      BY <1>1, <1>12, <1>t DEF TypeOK
    <2> QED
      BY <2>4, <2>5
  <1>13. CASE taken # {}
    <2>1. PICK m \in taken : m \in nodes /\ m \in Ids
      BY <1>13, <1>8, <1>1
    <2> DEFINE e == << <<turn, m>>, <<offer(m), f>> >>
    <2>2. /\ offer(m) \in 0 .. IntMax
          /\ offer(m) < dist[turn][m] \/ (offer(m) = dist[turn][m] /\ f < fwd[turn][m])
          /\ dist'[turn][m] = offer(m) /\ fwd'[turn][m] = f
      BY <2>1, <1>1, <1>7, <1>8, <1>9, <1>10
    <2>3. e \in Better
      BY <2>1, <2>2, <1>1, <1>5, <1>b DEF BetterMeans
    <2>4. e \notin Better'
      <3>1. ~ (offer(m) < dist'[turn][m])
        BY <2>2
      <3>2. ~ (f < fwd'[turn][m])
        BY <2>2, <1>5, <1>9
      <3> QED
        BY <3>1, <3>2, <2>1, <2>2, <1>1, <1>5, <1>b DEF BetterMeans
    <2>5. Better' \subseteq Better
      <3>2. ASSUME NEW n \in Ids, NEW k \in Ids, NEW h \in Ids, NEW d \in 0 .. IntMax,
                   d < dist'[n][k] \/ (d = dist'[n][k] /\ h < fwd'[n][k])
            PROVE  d < dist[n][k] \/ (d = dist[n][k] /\ h < fwd[n][k])
        <4>1. CASE n # turn
          BY <4>1, <3>2, <1>11
        <4>2. CASE n = turn /\ k \in shorter
          <5>1. offer(k) < dist[turn][k] /\ dist'[n][k] = offer(k) /\ offer(k) \in Nat
            BY <4>2, <1>7, <1>8, <1>10
          <5> QED
            BY <5>1, <4>2, <3>2, <1>1, <1>9
        <4>3. CASE n = turn /\ k \in taken /\ k \notin shorter
          <5>1. dist'[n][k] = dist[n][k] /\ fwd'[n][k] = f /\ f < fwd[n][k]
            BY <4>3, <1>7, <1>8, <1>10
          <5> QED
            BY <5>1, <3>2, <1>5, <1>9
        <4>4. CASE n = turn /\ k \notin taken
          BY <4>4, <3>2, <1>8, <1>10
        <4> QED
          BY <4>1, <4>2, <4>3, <4>4
      <3>3. ASSUME NEW x \in Better' PROVE x \in Better
        <4>1. x \in Entries
          BY <3>3, <1>b DEF BetterMeans, Entries
        <4>2. PICK n, k \in Ids : \E d \in 0 .. IntMax : \E h \in Ids :
                 x = << <<n, k>>, <<d, h>> >>
          BY <4>1, EntryOf
        <4>3. PICK d \in 0 .. IntMax, h \in Ids : x = << <<n, k>>, <<d, h>> >>
          BY <4>2
        <4>4. d < dist'[n][k] \/ (d = dist'[n][k] /\ h < fwd'[n][k])
          BY <3>3, <4>3, <1>b DEF BetterMeans
        <4>5. d < dist[n][k] \/ (d = dist[n][k] /\ h < fwd[n][k])
          BY <3>2, <4>4
        <4> QED
          BY <4>3, <4>5, <1>b DEF BetterMeans
      <3> QED
        BY <3>3
    <2>6. IsFiniteSet(Better)
      BY <1>b, EntriesFinite, FS_Subset DEF BetterMeans
    <2> QED
      BY <2>3, <2>4, <2>5, <2>6, FS_Subset, FS_CardinalityType
  <1> QED
    BY <1>12, <1>13

(* The next node leaves fewer nodes, the next loop or the end fewer loops *)
LEMMA NextNodeLess ==
    ASSUME TypeOK, turn \in nodes, UNCHANGED nodes,
           NEW some \in BOOLEAN, NEW phase, NextNode(some, phase)
    PROVE  \/ /\ pc' = pc /\ count' = some /\ changed' = FALSE
              /\ Cardinality(After(nodes, turn)') < Cardinality(After(nodes, turn))
           \/ pc' = phase /\ some /\ count' = FALSE /\ changed' = FALSE
           \/ pc' = "ready" /\ ~ some
  <1>1. IsFiniteSet(nodes) /\ nodes \in SUBSET Ids
    BY TopologyAssumption, FS_Subset DEF TypeOK
  <1>2. CASE /\ pc' = pc /\ turn' \in nodes /\ turn' > turn
             /\ count' = some /\ changed' = FALSE
    <2>1. /\ \A m \in nodes : m \in Nat
          /\ turn \in nodes /\ turn' \in nodes
      BY <1>1, <1>2, TopologyAssumption
    <2> DEFINE A == After(nodes, turn)
               B == After(nodes, turn')
    <2>2. B \in SUBSET A /\ turn' \in A /\ turn' \notin B
      BY <1>2, <2>1 DEF After
    <2>3. IsFiniteSet(A)
      BY <1>1, FS_Subset DEF After
    <2> HIDE DEF A, B
    <2>4. Cardinality(B) < Cardinality(A)
      BY <2>2, <2>3, FS_Subset, FS_CardinalityType
    <2>5. After(nodes, turn)' = B
      BY DEF After, B
    <2> QED
      BY <1>2, <2>4, <2>5 DEF A
  <1> QED
    BY <1>2, NextNodeOf

(* What remains is four numbers *)
LEMMA RemainingType == TypeOK => Remaining \in Nat \X Nat \X Nat \X Nat
  <1> SUFFICES ASSUME TypeOK PROVE Remaining \in Nat \X Nat \X Nat \X Nat
    OBVIOUS
  <1>1. Cardinality(Better) \in Nat
    BY BetterOf, EntriesFinite, FS_Subset, FS_CardinalityType DEF BetterMeans
  <1>2. Loops \in Nat
    BY DEF Loops
  <1>3. Cardinality(After(nodes, turn)) \in Nat
    <2>1. After(nodes, turn) \in SUBSET Ids
      BY DEF TypeOK, After
    <2> QED
      BY <2>1, TopologyAssumption, FS_Subset, FS_CardinalityType
  <1>4. Len(inbox[turn]) \in Nat
    <2>1. inbox[turn] \in Seq([from : Ids, dist : Vectors])
      BY DEF TypeOK
    <2> QED
      BY <2>1, LenProperties
  <1> QED
    BY <1>1, <1>2, <1>3, <1>4 DEF Remaining

(* To be less is to be less at one of the four places *)
LEMMA LessOf ==
    ASSUME NEW a1, NEW a2, NEW a3, NEW a4, NEW b1, NEW b2, NEW b3, NEW b4,
           \/ b1 < a1
           \/ b1 = a1 /\ b2 < a2
           \/ b1 = a1 /\ b2 = a2 /\ b3 < a3
           \/ b1 = a1 /\ b2 = a2 /\ b3 = a3 /\ b4 < a4
    PROVE  Less(<<b1, b2, b3, b4>>, <<a1, a2, a3, a4>>)
  <1> DEFINE a == <<a1, a2, a3, a4>>
             b == <<b1, b2, b3, b4>>
  <1>1. DOMAIN b = 1 .. 4
    OBVIOUS
  <1>2. SUFFICES \E i \in 1 .. 4 : b[i] < a[i] /\ \A j \in 1 .. i - 1 : b[j] = a[j]
    BY <1>1 DEF Less
  <1>3. CASE b1 < a1
    BY <1>3
  <1>4. CASE b1 = a1 /\ b2 < a2
    BY <1>4
  <1>5. CASE b1 = a1 /\ b2 = a2 /\ b3 < a3
    BY <1>5
  <1>6. CASE b1 = a1 /\ b2 = a2 /\ b3 = a3 /\ b4 < a4
    BY <1>6
  <1> QED
    BY <1>3, <1>4, <1>5, <1>6

(* A step of the rounds lowers one of the four numbers, and none before it *)
LEMMA RoundsLower ==
    ASSUME DInv, DInv', Rounds
    PROVE  Less(Remaining', Remaining)
  <1>t. TypeOK /\ PhaseInv /\ TypeOK'
    BY DEF DInv
  <1> DEFINE better == Cardinality(Better)
             after  == Cardinality(After(nodes, turn))
             left   == Len(inbox[turn])
  <1>1. ASSUME \/ better' < better
               \/ better' = better /\ Loops' < Loops
               \/ better' = better /\ Loops' = Loops /\ after' < after
               \/ better' = better /\ Loops' = Loops /\ after' = after /\ left' < left
        PROVE  Less(Remaining', Remaining)
    BY <1>1, LessOf DEF Remaining
  <1>2. ASSUME UNCHANGED <<dist, fwd>> PROVE better' = better
    BY <1>2 DEF Better, BetterEntries
  <1>3. count \in BOOLEAN /\ changed \in BOOLEAN /\ updated[turn] \in BOOLEAN
    BY <1>t DEF TypeOK
  <1> HIDE DEF better, after, left
  <1>4. CASE SendUpdate
    <2> DEFINE some == count \/ (updated[turn] /\ Neighbours(edges, turn) # {})
    <2>1. /\ pc = "send" /\ UNCHANGED <<nodes, dist, fwd>> /\ turn \in nodes
          /\ NextNode(some, "update") /\ some \in BOOLEAN
      BY <1>3, <1>4, <1>t DEF SendUpdate, PhaseInv
    <2> HIDE DEF some
    <2>2. better' = better /\ Loops = 2
      BY <1>2, <2>1 DEF Loops
    <2>3. \/ pc' = "send" /\ after' < after
          \/ pc' = "update" /\ count' = FALSE /\ changed' = FALSE
          \/ pc' = "ready"
      BY <1>t, <2>1, NextNodeLess DEF after
    <2>4. (Loops' = 2 /\ after' < after) \/ Loops' = 1 \/ Loops' = 0
      BY <2>3 DEF Loops
    <2> QED
      BY <1>1, <2>2, <2>4
  <1>5. CASE ReadUpdate
    <2>1. UNCHANGED <<nodes, pc, turn, count>> /\ inbox[turn] # << >>
          /\ inbox' = [inbox EXCEPT ![turn] = Tail(@)]
      BY <1>5 DEF ReadUpdate
    <2>2. after' = after
      BY <2>1 DEF after
    <2>3. left' < left
      <3>1. /\ turn \in Ids /\ inbox[turn] \in Seq([from : Ids, dist : Vectors])
            /\ inbox'[turn] = Tail(inbox[turn])
        BY <1>t, <2>1 DEF TypeOK
      <3>2. Len(Tail(inbox[turn])) = Len(inbox[turn]) - 1 /\ Len(inbox[turn]) \in Nat
        BY <2>1, <3>1, HeadTailProperties, LenProperties
      <3>3. left' = Len(Tail(inbox[turn])) /\ left = Len(inbox[turn])
        BY <2>1, <3>1 DEF left
      <3> QED
        BY ONLY <3>2, <3>3
    <2>4. CASE Better' = Better /\ changed' = changed
      <3>1. Loops' = Loops /\ better' = better
        BY <2>1, <2>4 DEF Loops, better
      <3> QED
        BY <1>1, <2>2, <2>3, <3>1
    <2>5. CASE Cardinality(Better') < Cardinality(Better)
      BY <1>1, <2>5 DEF better
    <2> QED
      BY <1>5, <2>4, <2>5, TakenIsBetter
  <1>6. CASE EndUpdate
    <2>1. /\ pc = "update" /\ UNCHANGED <<nodes, dist, fwd>> /\ turn \in nodes
          /\ NextNode(count \/ changed, "send") /\ (count \/ changed) \in BOOLEAN
      BY <1>3, <1>6, <1>t DEF EndUpdate, PhaseInv
    <2>2. better' = better /\ Loops = (IF count \/ changed THEN 3 ELSE 1)
      BY <1>2, <1>3, <2>1 DEF Loops
    <2>3. \/ /\ pc' = "update" /\ count' = (count \/ changed) /\ changed' = FALSE
             /\ after' < after
          \/ pc' = "send" /\ (count \/ changed)
          \/ pc' = "ready" /\ ~ (count \/ changed)
      BY <1>t, <2>1, NextNodeLess DEF after
    <2>4. \/ Loops' = Loops /\ after' < after
          \/ Loops' = 2 /\ Loops = 3
          \/ Loops' = 0 /\ Loops = 1
      BY <1>3, <2>1, <2>2, <2>3 DEF Loops
    <2> QED
      BY <1>1, <2>2, <2>4
  <1> QED
    BY <1>4, <1>5, <1>6 DEF Rounds

(* Every step of the rounds (build_nodes_forwarding_tables) leaves less to *)
(* do, for any network.  What is left being four natural numbers, the      *)
(* rounds cannot go on for ever.                                           *)
THEOREM EachStepProgresses ==
    Spec => [](Remaining \in Nat \X Nat \X Nat \X Nat) /\ Progress
  <1>1. DInv => Remaining \in Nat \X Nat \X Nat \X Nat
    BY RemainingType DEF DInv
  <1>2. DInv /\ DInv' => [Rounds => Less(Remaining', Remaining)]_vars
    BY RoundsLower
  <1> QED
    BY <1>1, <1>2, DInvHolds, PTL DEF Progress
=============================================================================
