------------------------------ MODULE Routing -------------------------------
(***************************************************************************)
(* What both programs of mp3 promise: they read the lines of a topology    *)
(* file, print the forwarding tables of all nodes and the hops of the      *)
(* messages, and print them again after every line of a file of changes.   *)
(* Only the network as it is decides what is printed.                      *)
(***************************************************************************)
EXTENDS Topology, Sequences

VARIABLES
    nodes, edges,
    changing,       \* past the topology file
    answered,       \* the tables are printed for this network
    printed         \* rows[n][m]: the next hop and the cost from n to m, for
                    \* the nodes m in reach; ways[n][m]: the hops of a message

NothingPrinted == [rows |-> << >>, ways |-> << >>]

Init ==
    /\ nodes = {}
    /\ edges = NoLinks
    /\ changing = FALSE
    /\ answered = FALSE
    /\ printed = NothingPrinted

(* A line of the topology, or of the changes once the last is answered *)
Line ==
    /\ changing => answered
    /\ \E l \in Lines :
          /\ nodes' = Named(nodes, l)
          /\ edges' = Linked(edges, l)
    /\ answered' = FALSE
    /\ printed' = NothingPrinted
    /\ UNCHANGED changing

(* There is nothing to print for an empty network *)
EndOfTopology ==
    /\ ~ changing
    /\ changing' = TRUE
    /\ answered' = (nodes = {})
    /\ UNCHANGED <<nodes, edges, printed>>

(* The rows hold the costs of the best paths, and hops that start one *)
IsTable(rows) ==
    LET cost == [n \in nodes |-> [m \in nodes |->
                    IF m \in DOMAIN rows[n] THEN rows[n][m].cost ELSE IntMax]]
    IN  /\ DOMAIN rows = nodes
        /\ IsOptimal(edges, nodes, cost)
        /\ \A n \in nodes : \A m \in DOMAIN rows[n] \ {n} :
              LET next == rows[n][m].next
              IN  /\ cost[n][m] < IntMax
                  /\ next \in Neighbours(edges, n)
                  /\ cost[n][m] = edges[n][next] + cost[next][m]

(* The hops of a message from n to m are those it takes when every node    *)
(* forwards it by its own table                                            *)
FollowsTables(rows, n, m, hops) ==
    LET way == Append(hops, m)
    IN  /\ way[1] = n
        /\ \A i \in 1 .. Len(hops) : rows[way[i]][m].next = way[i + 1]

(* Messages may be left out, as distvec does for small networks *)
PrintResults ==
    /\ changing
    /\ ~ answered
    /\ answered' = TRUE
    /\ IsTable(printed'.rows)
    /\ \/ printed'.ways = << >>
       \/ \A n \in nodes : \A m \in DOMAIN printed'.rows[n] \ {n} :
             FollowsTables(printed'.rows, n, m, printed'.ways[n][m])
    /\ UNCHANGED <<nodes, edges, changing>>

Next == Line \/ EndOfTopology \/ PrintResults

Spec == Init /\ [][Next]_<<nodes, edges, changing, answered, printed>>
=============================================================================
