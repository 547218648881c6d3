----------------------------- MODULE LinkState ------------------------------
(***************************************************************************)
(* linkstate of mp3 (mp3/src/linkstate.cpp): it reads the topology, then   *)
(* runs Dijkstra's algorithm once per node and prints the tables, and does *)
(* so again after every line of changes.  The tables of a node live on     *)
(* from one run to the next.                                               *)
(*   pc = "topo"      reading the topology file;                           *)
(*   pc = "dijkstra"  in build_forwarding_table of the node root;          *)
(*   pc = "ready"     the tables are printed.                              *)
(***************************************************************************)
EXTENDS Topology, Sequences

VARIABLES
    nodes, edges,   \* graph
    pc,
    root,           \* the node whose tables are being built
    visited,        \* nodes whose distance to root is final
    dist,           \* dist[r]: distanceToRoot and recordDist of root r
    prevs,          \* prevs[r]: the node before each on the path from r
    fwd,            \* forwarding_table of each node
    lines           \* lines read

vars == <<nodes, edges, pc, root, visited, dist, prevs, fwd, lines>>

NoTable == [n \in Ids |-> Unreachable]

Init ==
    /\ nodes = {}
    /\ edges = NoLinks
    /\ pc = "topo"
    /\ root = First(Ids)
    /\ visited = {}
    /\ dist = [r \in Ids |-> [n \in Ids |-> IntMax]]
    /\ prevs = [r \in Ids |-> NoTable]
    /\ fwd = [r \in Ids |-> [NoTable EXCEPT ![r] = r]]
    /\ lines = 0

(* Start of build_forwarding_table of node r: every distance is INT_MAX,   *)
(* but its own                                                             *)
StartRoot(r) ==
    /\ pc' = "dijkstra"
    /\ root' = r
    /\ visited' = {}
    /\ dist' = [dist EXCEPT ![r] = [n \in Ids |-> IF n = r THEN 0 ELSE IntMax]]
    /\ prevs' = [prevs EXCEPT ![r] = NoTable]

ReadLine(l) ==
    /\ lines < MaxLines
    /\ lines' = lines + 1
    /\ nodes' = Named(nodes, l)
    /\ edges' = Linked(edges, l)

(* A line of the topology file *)
ReadTopology ==
    /\ pc = "topo"
    /\ \E l \in Lines : ReadLine(l)
    /\ UNCHANGED <<pc, root, visited, dist, prevs, fwd>>

(* The end of the topology file; an empty one needs no tables *)
EndTopology ==
    /\ pc = "topo"
    /\ \/ /\ nodes = {}
          /\ pc' = "ready"
          /\ UNCHANGED <<root, visited, dist, prevs>>
       \/ /\ nodes # {}
          /\ StartRoot(First(nodes))
    /\ UNCHANGED <<nodes, edges, fwd, lines>>

(* A line of the changes file *)
ReadChange ==
    /\ pc = "ready"
    /\ \E l \in Lines :
          /\ ReadLine(l)
          /\ StartRoot(First(Named(nodes, l)))
    /\ UNCHANGED fwd

(* mutant: any node not visited *)
NearestById == First(nodes \ visited)

(* get_idx_of_min_cost: the nearest node not visited, by id among equals *)
Nearest ==
    CHOOSE n \in nodes \ visited : \A m \in nodes \ visited :
        \/ dist[root][n] < dist[root][m]
        \/ dist[root][n] = dist[root][m] /\ n <= m

(* mutant: a tie keeps the predecessor *)
BetterStrict(cur, m) == dist[root][cur] + edges[cur][m] < dist[root][m]

(* Going through cur is a shorter way to m, or an equal one with a smaller *)
(* predecessor                                                             *)
Better(cur, m) ==
    LET new == dist[root][cur] + edges[cur][m]
    IN  \/ new < dist[root][m]
        \/ new = dist[root][m] /\ cur < prevs[root][m]

(* One round of the loop, for a node within reach *)
Visit ==
    LET cur     == Nearest
        relaxed == {m \in Neighbours(edges, cur) \ (visited \cup {cur}) :
                        Better(cur, m)}
    IN  /\ pc = "dijkstra"
        /\ visited # nodes
        /\ dist[root][cur] < IntMax
        /\ visited' = visited \cup {cur}
        /\ dist' = [dist EXCEPT ![root] = [m \in Ids |->
                       IF m \in relaxed THEN dist[root][cur] + edges[cur][m]
                       ELSE dist[root][m]]]
        /\ prevs' = [prevs EXCEPT ![root] = [m \in Ids |->
                       IF m \in relaxed THEN cur ELSE prevs[root][m]]]
        /\ UNCHANGED <<nodes, edges, pc, root, fwd, lines>>

(* mutant: the hop to a node that has gone out of reach is kept *)
VisitUnreachableKeeps ==
    /\ pc = "dijkstra"
    /\ visited # nodes
    /\ dist[root][Nearest] = IntMax
    /\ visited' = visited \cup {Nearest}
    /\ UNCHANGED <<nodes, edges, pc, root, dist, prevs, fwd, lines>>

(* One round of the loop, for a node out of reach *)
VisitUnreachable ==
    LET cur == Nearest
    IN  /\ pc = "dijkstra"
        /\ visited # nodes
        /\ dist[root][cur] = IntMax
        /\ visited' = visited \cup {cur}
        /\ fwd' = [fwd EXCEPT ![root][cur] = Unreachable]
        /\ prevs' = [prevs EXCEPT ![root][cur] = Unreachable]
        /\ UNCHANGED <<nodes, edges, pc, root, dist, lines>>

(* The first hop from root to each node, walking back along prevs *)
FirstHop ==
    LET reach == {n \in nodes \ {root} : prevs[root][n] # Unreachable}
        hop[n \in reach] ==
            IF prevs[root][n] = root THEN n ELSE hop[prevs[root][n]]
    IN  hop

(* The end of build_forwarding_table: the next node's turn, or printing *)
EndRoot ==
    /\ pc = "dijkstra"
    /\ visited = nodes
    /\ fwd' = [fwd EXCEPT ![root] = [n \in Ids |->
                  IF n \in DOMAIN FirstHop THEN FirstHop[n] ELSE fwd[root][n]]]
    /\ \/ /\ After(nodes, root) # {}
          /\ StartRoot(First(After(nodes, root)))
       \/ /\ After(nodes, root) = {}
          /\ pc' = "ready"
          /\ UNCHANGED <<root, visited, dist, prevs>>
    /\ UNCHANGED <<nodes, edges, lines>>

(* next_hops, for every node in reach of r: the predecessors from r on *)
NextHops(r) ==
    LET reach == {n \in nodes : dist[r][n] < IntMax}
        hops[n \in reach] ==
            IF n = r THEN << >> ELSE Append(hops[prevs[r][n]], prevs[r][n])
    IN  hops

(* print_results and print_messages, for any file of messages between the  *)
(* nodes: the rows that have a hop, and the hops of every message          *)
PrintResults ==
    [rows |-> [r \in nodes |-> [n \in {m \in nodes : fwd[r][m] # Unreachable} |->
                  [next |-> fwd[r][n], cost |-> dist[r][n]]]],
     ways |-> [r \in nodes |-> NextHops(r)]]

(* The changes are read *)
Stop == pc = "ready" /\ UNCHANGED vars

Next ==
    \/ ReadTopology \/ EndTopology \/ ReadChange
    \/ Visit \/ VisitUnreachable \/ EndRoot
    \/ Stop

Spec == Init /\ [][Next]_vars

-----------------------------------------------------------------------------
(***************************************************************************)
(* Properties                                                              *)
(***************************************************************************)

(* The range of every variable. *)
TypeOK ==
    /\ nodes \subseteq Ids
    /\ edges \in [Ids -> [Ids -> Costs \cup {0}]]
    /\ pc \in {"topo", "dijkstra", "ready"}
    /\ root \in Ids
    /\ visited \subseteq nodes
    /\ dist \in [Ids -> [Ids -> 0 .. IntMax]]
    /\ prevs \in [Ids -> [Ids -> Ids \cup {Unreachable}]]
    /\ fwd \in [Ids -> [Ids -> Ids \cup {Unreachable}]]
    /\ lines \in 0 .. MaxLines

(* Between nodes already visited the distances satisfy every link: what    *)
(* is left to relax are links to open nodes only.                          *)
VisitedSettled ==
    pc = "dijkstra" =>
        \A v \in visited : \A h \in Neighbours(edges, v) :
            dist[root][v] < IntMax =>
                dist[root][h] <= dist[root][v] + edges[v][h]

(* Among the equally short paths the tables take, at each node, the        *)
(* predecessor with the smallest id, whatever the order of visits.         *)
SmallestPred ==
    pc = "ready" =>
        \A r \in nodes : \A n \in nodes \ {r} : dist[r][n] < IntMax =>
            LET best == {h \in Neighbours(edges, n) :
                            dist[r][h] + edges[h][n] = dist[r][n]}
            IN  prevs[r][n] \in best /\ \A h \in best : prevs[r][n] <= h

(* For the network as the lines read so far describe it, the tables hold   *)
(* the best paths; a node out of reach has no row, also after it once had  *)
(* one; and although each node breaks ties for itself, the hops of a       *)
(* message, walked back along the source's predecessors, are those of the  *)
(* tables on the way.                                                      *)
Abstract == INSTANCE Routing WITH
                changing <- pc # "topo",
                answered <- pc = "ready",
                printed <- IF pc = "ready" THEN PrintResults
                           ELSE [rows |-> << >>, ways |-> << >>]

ImplementsRouting == Abstract!Spec
=============================================================================
