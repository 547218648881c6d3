------------------------------ MODULE Topology ------------------------------
(***************************************************************************)
(* The network of mp3 as both programs keep it (build_graph of             *)
(* linkstate.cpp and of distvec.cpp): the nodes named so far, and for each *)
(* node the cost of its link to each neighbour, 0 where there is none.     *)
(* The order of the vector of neighbours does not matter to any result and *)
(* is left out.  IsOptimal says what the tables should hold: the reference *)
(* both programs are checked against.                                      *)
(***************************************************************************)
EXTENDS Integers, FiniteSets

CONSTANTS
    Ids,            \* the ids a line may name
    Costs,          \* the costs of links
    IntMax,         \* INT_MAX: no path
    MaxLines        \* bound of the model: lines of the two input files

ASSUME TopologyAssumption ==
    /\ Ids \subseteq Nat
    /\ IsFiniteSet(Ids)
    /\ Ids # {}
    /\ Costs \subseteq Nat \ {0}
    /\ IntMax \in Nat \ {0}
    /\ \A c \in Costs : c < IntMax
    /\ MaxLines \in Nat

Removed == -999     \* the cost in a line that removes a link
Unreachable == -1

(* A line names two different nodes *)
Lines == {l \in [n1 : Ids, n2 : Ids, dist : Costs \cup {Removed}] :
              l.n1 < l.n2}

NoLinks == [n \in Ids |-> [m \in Ids |-> 0]]

(* build_graph: add_or_updateNei or remove_nei on both ends; unknown nodes *)
(* are created even by a line that removes a link                          *)
NewCost(l) == IF l.dist > 0 THEN l.dist ELSE 0

Named(nodes, l) == nodes \cup {l.n1, l.n2}

Linked(edges, l) ==
    [n \in Ids |-> [m \in Ids |->
        IF {n, m} = {l.n1, l.n2} THEN NewCost(l) ELSE edges[n][m]]]

Neighbours(edges, n) == {m \in Ids : edges[n][m] > 0}

(* The costs of the best paths between the nodes: 0 to a node itself, and  *)
(* to another one the least sum of a link and the best path of the         *)
(* neighbour at its end.  Costs of links being positive, no other table    *)
(* satisfies these equations.                                              *)
IsOptimal(edges, nodes, cost) ==
    \A n \in nodes, m \in nodes :
        /\ cost[n][m] \in 0 .. IntMax
        /\ n = m => cost[n][m] = 0
        /\ \A h \in Neighbours(edges, n) :
              cost[h][m] < IntMax => cost[n][m] <= edges[n][h] + cost[h][m]
        /\ n # m /\ cost[n][m] < IntMax =>
              \E h \in Neighbours(edges, n) :
                  cost[n][m] = edges[n][h] + cost[h][m]

(* A loop over a map goes by ascending id *)
First(nodes) == CHOOSE n \in nodes : \A m \in nodes : n <= m
After(nodes, n) == {m \in nodes : m > n}
=============================================================================
