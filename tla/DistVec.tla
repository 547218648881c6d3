------------------------------ MODULE DistVec -------------------------------
(***************************************************************************)
(* distvec of mp3 (mp3/src/distvec.cpp): it reads the topology, then lets  *)
(* the nodes exchange distance vectors in rounds until nothing changes,    *)
(* and does so again after every line of changes.  A round goes through    *)
(* the nodes by ascending id twice: send_update for all of them, then      *)
(* update_distance_and_forwarding_table for all of them.                   *)
(*   pc = "topo"    reading the topology file;                             *)
(*   pc = "send"    at the send_update of the node turn;                   *)
(*   pc = "update"  in the update of the node turn, one message per step;  *)
(*   pc = "ready"   the tables are printed.                                *)
(***************************************************************************)
EXTENDS Topology, Sequences

CONSTANT MinGraph   \* 8: messages are printed for this many nodes or more

ASSUME DistVecAssumption == MinGraph \in Nat

VARIABLES
    nodes, edges,   \* graph
    pc, turn,
    dist,           \* distanceToThatNode of each node
    fwd,            \* forwarding_table of each node
    updated,        \* be_updated of each node
    inbox,          \* updates_from_nei of each node
    count,          \* count # 0 in the loop at hand
    changed,        \* is_changed of the update at hand
    lines           \* lines read

vars == <<nodes, edges, pc, turn, dist, fwd, updated, inbox, count, changed,
          lines>>

Init ==
    /\ nodes = {}
    /\ edges = NoLinks
    /\ pc = "topo"
    /\ turn = First(Ids)
    /\ dist = [n \in Ids |-> [m \in Ids |-> IF n = m THEN 0 ELSE IntMax]]
    /\ fwd = [n \in Ids |-> [m \in Ids |-> IF n = m THEN n ELSE Unreachable]]
    /\ updated = [n \in Ids |-> TRUE]
    /\ inbox = [n \in Ids |-> << >>]
    /\ count = FALSE
    /\ changed = FALSE
    /\ lines = 0

(* mutant: the distances live on *)
InitialAllDistNot(all) == dist

(* initial_all_dist: all distances between different nodes are forgotten,  *)
(* the forwarding tables are not                                           *)
InitialAllDist(all) ==
    [n \in Ids |-> [m \in Ids |->
        IF {n, m} \subseteq all /\ n # m THEN IntMax ELSE dist[n][m]]]

(* build_graph *)
ReadLine(l) ==
    /\ lines < MaxLines
    /\ lines' = lines + 1
    /\ nodes' = Named(nodes, l)
    /\ edges' = Linked(edges, l)
    /\ dist' = InitialAllDist(Named(nodes, l))
    /\ updated' = [n \in Ids |-> n \in Named(nodes, l) \/ updated[n]]

(* The loop over all nodes for send_update or for the update *)
StartLoop(phase, all) ==
    /\ pc' = phase
    /\ turn' = First(all)
    /\ count' = FALSE
    /\ changed' = FALSE

ReadTopology ==
    /\ pc = "topo"
    /\ \E l \in Lines : ReadLine(l)
    /\ UNCHANGED <<pc, turn, fwd, inbox, count, changed>>

EndTopology ==
    /\ pc = "topo"
    /\ \/ /\ nodes = {}
          /\ pc' = "ready"
          /\ UNCHANGED <<turn, count, changed>>
       \/ /\ nodes # {}
          /\ StartLoop("send", nodes)
    /\ UNCHANGED <<nodes, edges, dist, fwd, updated, inbox, lines>>

ReadChange ==
    /\ pc = "ready"
    /\ \E l \in Lines :
          /\ ReadLine(l)
          /\ StartLoop("send", Named(nodes, l))
    /\ UNCHANGED <<fwd, inbox>>

(* mutant: the loop ends at the first node that has nothing to report *)
NextNodeEarly(some, nextPhase) ==
    \/ /\ some
       /\ After(nodes, turn) # {}
       /\ turn' = First(After(nodes, turn))
       /\ count' = some
       /\ changed' = FALSE
       /\ pc' = pc
    \/ /\ some
       /\ After(nodes, turn) = {}
       /\ StartLoop(nextPhase, nodes)
    \/ /\ ~ some
       /\ pc' = "ready"
       /\ UNCHANGED <<turn, count, changed>>

(* The loop's next node; after the last one the next loop, or the end when *)
(* no node sent or changed anything                                        *)
NextNode(some, nextPhase) ==
    \/ /\ After(nodes, turn) # {}
       /\ turn' = First(After(nodes, turn))
       /\ count' = some
       /\ changed' = FALSE
       /\ pc' = pc
    \/ /\ After(nodes, turn) = {}
       /\ some
       /\ StartLoop(nextPhase, nodes)
    \/ /\ After(nodes, turn) = {}
       /\ ~ some
       /\ pc' = "ready"
       /\ UNCHANGED <<turn, count, changed>>

(* send_update: a copy of the distances to every neighbour *)
SendUpdate ==
    LET sends == updated[turn] /\ Neighbours(edges, turn) # {}
    IN  /\ pc = "send"
        /\ inbox' = [n \in Ids |->
               IF updated[turn] /\ n \in Neighbours(edges, turn)
               THEN Append(inbox[n], [from |-> turn, dist |-> dist[turn]])
               ELSE inbox[n]]
        /\ NextNode(count \/ sends, "update")
        /\ UNCHANGED <<nodes, edges, dist, fwd, updated, lines>>

(* What a neighbour offers for node m, and whether the node turn takes it: *)
(* a shorter way, or an equal one over a neighbour with a smaller id       *)
Offer(msg, m) == edges[turn][msg.from] + msg.dist[m]

(* mutant: only the first way heard of is taken *)
ShorterFirst(msg, m) == msg.dist[m] # IntMax /\ dist[turn][m] = IntMax

Shorter(msg, m) ==
    msg.dist[m] # IntMax /\ dist[turn][m] > Offer(msg, m)

(* mutants: no tie-break; the neighbour in use counts as a change *)
SmallerHopNever(msg, m) == FALSE

SmallerHopAgain(msg, m) ==
    /\ msg.dist[m] # IntMax
    /\ dist[turn][m] = Offer(msg, m)
    /\ fwd[turn][m] >= msg.from

SmallerHop(msg, m) ==
    /\ msg.dist[m] # IntMax
    /\ dist[turn][m] = Offer(msg, m)
    /\ fwd[turn][m] > msg.from

(* One message in update_distance_and_forwarding_table *)
ReadUpdate ==
    LET msg     == Head(inbox[turn])
        shorter == {m \in nodes : Shorter(msg, m)}
        taken   == shorter \cup {m \in nodes : SmallerHop(msg, m)}
    IN  /\ pc = "update"
        /\ inbox[turn] # << >>
        /\ dist' = [dist EXCEPT ![turn] = [m \in Ids |->
               IF m \in shorter THEN Offer(msg, m) ELSE dist[turn][m]]]
        /\ fwd' = [fwd EXCEPT ![turn] = [m \in Ids |->
               IF m \in taken THEN msg.from ELSE fwd[turn][m]]]
        /\ changed' = (changed \/ taken # {})
        /\ inbox' = [inbox EXCEPT ![turn] = Tail(@)]
        /\ UNCHANGED <<nodes, edges, pc, turn, updated, count, lines>>

(* The end of update_distance_and_forwarding_table *)
EndUpdate ==
    /\ pc = "update"
    /\ inbox[turn] = << >>
    /\ updated' = [updated EXCEPT ![turn] = changed]
    /\ NextNode(count \/ changed, "send")
    /\ UNCHANGED <<nodes, edges, dist, fwd, inbox, lines>>

(* next_hops, for every node from which m is in reach: the tables are      *)
(* followed with no bound                                                  *)
NextHops(m) ==
    LET reach == {n \in nodes : dist[n][m] < IntMax}
        hops[n \in reach] ==
            IF fwd[n][m] = m THEN <<n>> ELSE <<n>> \o hops[fwd[n][m]]
    IN  hops

(* print_results and print_messages, for any file of messages between the  *)
(* nodes: a row for every node in reach, and the hops of every message     *)
PrintResults ==
    [rows |-> [n \in nodes |-> [m \in {h \in nodes : dist[n][h] < IntMax} |->
                  [next |-> fwd[n][m], cost |-> dist[n][m]]]],
     ways |-> IF Cardinality(nodes) < MinGraph THEN << >>
              ELSE [n \in nodes |-> [m \in {h \in nodes : dist[n][h] < IntMax} |->
                       NextHops(m)[n]]]]

Stop == pc = "ready" /\ UNCHANGED vars

Next ==
    \/ ReadTopology \/ EndTopology \/ ReadChange
    \/ SendUpdate \/ ReadUpdate \/ EndUpdate
    \/ Stop

Spec == Init /\ [][Next]_vars

(* A program that runs on *)
FairSpec ==
    Spec /\ WF_vars(SendUpdate) /\ WF_vars(ReadUpdate) /\ WF_vars(EndUpdate)

-----------------------------------------------------------------------------
(***************************************************************************)
(* Properties                                                              *)
(***************************************************************************)
Vectors == [Ids -> 0 .. IntMax]

(* The range of every variable. *)
TypeOK ==
    /\ nodes \subseteq Ids
    /\ edges \in [Ids -> [Ids -> Costs \cup {0}]]
    /\ pc \in {"topo", "send", "update", "ready"}
    /\ turn \in Ids
    /\ dist \in [Ids -> Vectors]
    /\ fwd \in [Ids -> [Ids -> Ids \cup {Unreachable}]]
    /\ updated \in [Ids -> BOOLEAN]
    /\ inbox \in [Ids -> Seq([from : Ids, dist : Vectors])]
    /\ count \in BOOLEAN
    /\ changed \in BOOLEAN
    /\ lines \in 0 .. MaxLines

(* The tables are free of loops at every moment, in the middle of a round  *)
(* and after any change: the next hop of a known distance is a neighbour   *)
(* that is nearer to the node by at least the link to it.  next_hops,      *)
(* which follows the tables with no bound, would not end on a loop.        *)
LoopFree ==
    \A n \in Ids : \A m \in Ids \ {n} : dist[n][m] < IntMax =>
        /\ fwd[n][m] \in Neighbours(edges, n)
        /\ edges[n][fwd[n][m]] + dist[fwd[n][m]][m] <= dist[n][m]

(* A distance is settled between any two neighbours unless the better one  *)
(* is still to be sent or is on its way: no improvement is lost because a  *)
(* node reported no change, or because its vector was copied before.       *)
NothingForgotten ==
    \A n \in nodes : \A h \in Neighbours(edges, n), m \in nodes :
        \/ pc = "topo"
        \/ dist[h][m] = IntMax
        \/ dist[n][m] <= edges[n][h] + dist[h][m]
        \/ \E i \in 1 .. Len(inbox[n]) :
              inbox[n][i].from = h /\ inbox[n][i].dist[m] <= dist[h][m]
        \/ updated[h] /\ ~ (pc = "send" /\ h < turn)
        \/ pc = "update" /\ h = turn /\ changed

(* Among the equally short ways the tables take the neighbour with the     *)
(* smallest id, whatever round it was heard of in.                         *)
SmallestHop ==
    pc = "ready" =>
        \A n \in nodes : \A m \in nodes \ {n} : dist[n][m] < IntMax =>
            \A h \in Neighbours(edges, n) :
                edges[n][h] + dist[h][m] = dist[n][m] => fwd[n][m] <= h

(* For the network as the lines read so far describe it, the tables hold   *)
(* the best paths, and messages take them.                                 *)
Abstract == INSTANCE Routing WITH
                changing <- pc # "topo",
                answered <- pc = "ready",
                printed <- IF pc = "ready" THEN PrintResults
                           ELSE [rows |-> << >>, ways |-> << >>]

ImplementsRouting == Abstract!Spec

(* The entries that are better than those of the tables: nearer, or as     *)
(* near over a neighbour with a smaller id                                 *)
BetterEntries(n, m) ==
    ((0 .. dist[n][m] - 1) \X Ids)
        \cup ({dist[n][m]} \X {h \in Ids : h < fwd[n][m]})

Better == UNION {{p} \X BetterEntries(p[1], p[2]) : p \in Ids \X Ids}

(* The loops over the nodes that are left if nothing changes any more      *)
Loops ==
    CASE pc = "ready" -> 0
      [] pc = "update" /\ ~ count /\ ~ changed -> 1
      [] pc = "send" -> 2
      [] OTHER -> 3

(* What is left of the rounds, the most significant first                  *)
Remaining ==
    <<Cardinality(Better), Loops, Cardinality(After(nodes, turn)), Len(inbox[turn])>>

Less(a, b) == \E i \in DOMAIN a : a[i] < b[i] /\ \A j \in 1 .. i - 1 : a[j] = b[j]

Rounds == SendUpdate \/ ReadUpdate \/ EndUpdate

(* Every step of the rounds leaves less to do: be_updated is set, and one  *)
(* more round done, only for a table that became better in it.             *)
Progress == [][Rounds => Less(Remaining', Remaining)]_vars

(* The rounds come to an end. *)
Converges == pc = "send" ~> pc = "ready"
=============================================================================
