-------------------------------- MODULE Csma --------------------------------
(***************************************************************************)
(* The CSMA simulator of mp4 (mp4/csma.py): N nodes count down to their    *)
(* turn on a shared channel, and back off when they collide.  One step     *)
(* stands for one part of an iteration of CSMA.simulate:                   *)
(*   pc = "loop"     at the loop's test and the first if-elif;             *)
(*   pc = "decide"   at next_idle_time = ... and the second one;           *)
(*   pc = "collide"  in the loop over the colliding nodes;                 *)
(*   pc = "done"     simulate has returned;                                *)
(*   pc = "crashed"  IndexError: the heap was empty.                       *)
(*                                                                         *)
(* The heap is the library's: after each call it is any arrangement of its *)
(* nodes in which each comes before its children, which is all that heapq  *)
(* promises.                                                               *)
(***************************************************************************)
EXTENDS Integers, Sequences, FiniteSets

CONSTANTS
    Ids,            \* ids of the nodes
    Sizes,          \* numbers of nodes simulated (N)
    PacketLens,     \* packet lengths simulated (L)
    RLists,         \* lists of back-off ranges simulated (R)
    CollCeil,       \* M
    TolTime,        \* T
    MaxRuns         \* bound on calls of simulate

ASSUME CsmaAssumption ==
    /\ IsFiniteSet(Ids)
    /\ Ids = 0 .. Cardinality(Ids) - 1
    /\ Sizes \subseteq 3 .. Cardinality(Ids)
    /\ PacketLens \subseteq Nat \ {0}
    /\ \A R \in RLists :
          /\ Len(R) > CollCeil
          /\ \A i \in 1 .. Len(R) : R[i] \in Nat \ {0}
    /\ {CollCeil, TolTime, MaxRuns} \subseteq Nat

VARIABLES
    heap,           \* nodes: a sequence of ids
    cnt,            \* count_down_val of each node
    rid,            \* _r_id of each node
    colls,          \* num_colls of each node
    trans,          \* num_trans of each node
    packetLen, rList,
    time, occupied, nextIdle,
    again,          \* timeout_again
    sendingTime, idleTime, collTime,
    pc,
    runs            \* calls of simulate so far

nodeVars == <<cnt, rid, colls, trans>>
config == <<packetLen, rList, runs>>
sums == <<sendingTime, idleTime, collTime>>
vars == <<heap, nodeVars, config, time, occupied, nextIdle, again, sums, pc>>

Members == {heap[i] : i \in DOMAIN heap}

(* Node.__lt__ *)
Before(c, a, b) == c[a] < c[b] \/ (c[a] = c[b] /\ a < b)

(* The arrangements heapq may leave a set of nodes in, under counts c *)
Heaps(S, c) ==
    LET n == Cardinality(S)
    IN  {h \in [1 .. n -> S] :
            /\ \A i, j \in 1 .. n : h[i] = h[j] => i = j
            /\ \A i \in 2 .. n : Before(c, h[i \div 2], h[i])}

Candidate == heap[1]
HasTimeout(n) == cnt[n] < 1

(* The counts _rand_back_off may leave, and _permute_r *)
BackOff(n, r) == {[cnt EXCEPT ![n] = v] : v \in 0 .. rList[r + 1]}
Permuted(r) == IF r + 1 > CollCeil THEN 0 ELSE r + 1

(***************************************************************************)
(* CSMA(config) and simulate                                               *)
(***************************************************************************)

(* A model without nodes, as csma-report.py makes it                       *)
Init ==
    /\ heap = << >>
    /\ cnt = [n \in Ids |-> 0]
    /\ rid = [n \in Ids |-> 0]
    /\ colls = [n \in Ids |-> 0]
    /\ trans = [n \in Ids |-> 0]
    /\ packetLen \in PacketLens
    /\ rList \in RLists
    /\ time = 0
    /\ occupied = FALSE
    /\ nextIdle = 0
    /\ again = << >>
    /\ sendingTime = 0 /\ idleTime = 0 /\ collTime = 0
    /\ pc = "done"
    /\ runs = 0

(* The nodes _reinitialize(N) keeps and adds: the first N of the heap, or  *)
(* all of them and new ones with the ids from num_nodes on                 *)
Nodes(N) ==
    IF N <= Len(heap) THEN {heap[i] : i \in 1 .. N}
    ELSE Members \cup (Len(heap) .. N - 1)

(* mutant: nodes keep their transmissions *)
ReinitializeKeeps(N, L, R) ==
    /\ Cardinality(Nodes(N)) = N
    /\ packetLen' = L
    /\ rList' = R
    /\ rid' = [n \in Ids |-> 0]
    /\ colls' = [n \in Ids |-> 0]
    /\ trans' = trans
    /\ cnt' \in {c \in [Ids -> 0 .. R[1]] : \A n \in Ids \ Nodes(N) : c[n] = 0}
    /\ heap' \in Heaps(Nodes(N), cnt')
    /\ sendingTime' = 0 /\ idleTime' = 0 /\ collTime' = 0

(* _reinitialize(N, L, R): nodes are reset or made, with random counts.    *)
(* The guard keeps ids unique: it leaves out growing again after the nodes *)
(* kept were not the first ones.                                           *)
Reinitialize(N, L, R) ==
    /\ Cardinality(Nodes(N)) = N
    /\ packetLen' = L
    /\ rList' = R
    /\ rid' = [n \in Ids |-> 0]
    /\ colls' = [n \in Ids |-> 0]
    /\ trans' = [n \in Ids |-> 0]
    /\ cnt' \in {c \in [Ids -> 0 .. R[1]] : \A n \in Ids \ Nodes(N) : c[n] = 0}
    /\ heap' \in Heaps(Nodes(N), cnt')
    /\ sendingTime' = 0 /\ idleTime' = 0 /\ collTime' = 0

(* simulate(N, L, R) up to the loop *)
Simulate ==
    /\ pc = "done"
    /\ runs < MaxRuns
    /\ runs' = runs + 1
    /\ \E N \in Sizes, L \in PacketLens, R \in RLists : Reinitialize(N, L, R)
    /\ time' = 0
    /\ occupied' = FALSE
    /\ nextIdle' = 0
    /\ again' = << >>
    /\ pc' = "loop"

(***************************************************************************)
(* An iteration, first part: what the last one started is over             *)
(***************************************************************************)
InLoop == pc = "loop" /\ time < TolTime

(* A transmission has ended *)
SentPacket ==
    /\ InLoop
    /\ occupied
    /\ occupied' = FALSE
    /\ sendingTime' = sendingTime + packetLen
    /\ trans' = [trans EXCEPT ![Candidate] = @ + 1]
    /\ cnt' \in BackOff(Candidate, rid[Candidate])
    /\ heap' \in Heaps(Members, cnt')
    /\ pc' = "decide"
    /\ UNCHANGED <<rid, colls, config, time, nextIdle, again, idleTime, collTime>>

(* The nodes have counted down *)
CountedDown ==
    /\ InLoop
    /\ ~ occupied
    /\ nextIdle > 0
    /\ idleTime' = idleTime + nextIdle
    /\ cnt' = [n \in Ids |-> IF n \in Members THEN cnt[n] - nextIdle ELSE cnt[n]]
    /\ pc' = "decide"
    /\ UNCHANGED <<heap, rid, colls, trans, config, time, occupied, nextIdle,
                   again, sendingTime, collTime>>

(* After a collision, or in the first iteration *)
NothingEnded ==
    /\ InLoop
    /\ ~ occupied
    /\ nextIdle <= 0
    /\ pc' = "decide"
    /\ UNCHANGED <<heap, nodeVars, config, time, occupied, nextIdle, again, sums>>

(***************************************************************************)
(* Second part: what the channel does next                                 *)
(***************************************************************************)

(* mutant: only one child of the root is looked at *)
OthersTimeoutOne == HasTimeout(heap[2])

(* In a heap the second smallest is one of the root's children *)
OthersTimeout == HasTimeout(heap[2]) \/ HasTimeout(heap[3])

(* mutant: a count of 0 is counted down, too *)
CountDownZero ==
    /\ pc = "decide"
    /\ nextIdle' = cnt[Candidate]
    /\ time' = time + nextIdle'
    /\ pc' = "loop"
    /\ UNCHANGED <<heap, nodeVars, config, occupied, again, sums>>

(* Nobody's turn: count down until it is the candidate's *)
CountDown ==
    /\ pc = "decide"
    /\ nextIdle' = cnt[Candidate]
    /\ nextIdle' > 0
    /\ time' = time + nextIdle'
    /\ pc' = "loop"
    /\ UNCHANGED <<heap, nodeVars, config, occupied, again, sums>>

(* A collision takes one unit of time *)
Collide ==
    /\ pc = "decide"
    /\ nextIdle' = cnt[Candidate]
    /\ nextIdle' <= 0
    /\ OthersTimeout
    /\ time' = time + 1
    /\ collTime' = collTime + 1
    /\ again' = << >>
    /\ pc' = "collide"
    /\ UNCHANGED <<heap, nodeVars, config, occupied, sendingTime, idleTime>>

(* The candidate has the channel for itself *)
Transmit ==
    /\ pc = "decide"
    /\ nextIdle' = cnt[Candidate]
    /\ nextIdle' <= 0
    /\ ~ OthersTimeout
    /\ time' = time + packetLen
    /\ occupied' = TRUE
    /\ pc' = "loop"
    /\ UNCHANGED <<heap, nodeVars, config, again, sums>>

(* mutant: a node that draws 0 stays in the heap *)
SetAsideNever(n, c) ==
    /\ heap' \in Heaps(Members, c)
    /\ again' = again

(* A node that draws 0 is taken off the heap until the collision is over *)
SetAside(n, c) ==
    IF c[n] < 1
    THEN heap' \in Heaps(Members \ {n}, c) /\ again' = Append(again, n)
    ELSE heap' \in Heaps(Members, c) /\ again' = again

(* One colliding node backs off *)
BacksOff ==
    LET n == Candidate
    IN  /\ pc = "collide"
        /\ heap # << >>
        /\ HasTimeout(n)
        /\ colls' = [colls EXCEPT ![n] = @ + 1]
        /\ rid' = [rid EXCEPT ![n] = Permuted(@)]
        /\ cnt' \in BackOff(n, rid'[n])
        /\ SetAside(n, cnt')
        /\ UNCHANGED <<trans, config, time, occupied, nextIdle, sums, pc>>

(* All have backed off: those set aside return *)
EndCollision ==
    /\ pc = "collide"
    /\ heap # << >>
    /\ ~ HasTimeout(Candidate)
    /\ heap' \in Heaps(Members \cup {again[i] : i \in DOMAIN again}, cnt)
    /\ again' = << >>
    /\ pc' = "loop"
    /\ UNCHANGED <<nodeVars, config, time, occupied, nextIdle, sums>>

(* All nodes collided and drew 0: self.nodes[0] of an empty list *)
Crash ==
    /\ pc = "collide"
    /\ heap = << >>
    /\ pc' = "crashed"
    /\ UNCHANGED <<heap, nodeVars, config, time, occupied, nextIdle, again, sums>>

(* mutant: what is cut off at the end counts in full *)
CutOffFull(len) == len

(* The part, before the end, of what takes len and ends after it *)
CutOff(len) == TolTime - (time - len)

(* After the loop: the transmission or count-down that was cut off *)
Finish ==
    /\ pc = "loop"
    /\ time >= TolTime
    /\ sendingTime' = sendingTime + (IF occupied THEN CutOff(packetLen) ELSE 0)
    /\ idleTime' = idleTime +
           (IF ~ occupied /\ nextIdle > 0 THEN CutOff(nextIdle) ELSE 0)
    /\ pc' = "done"
    /\ UNCHANGED <<heap, nodeVars, config, time, occupied, nextIdle, again, collTime>>

Stop == pc \in {"done", "crashed"} /\ UNCHANGED vars

Iteration ==
    \/ SentPacket \/ CountedDown \/ NothingEnded
    \/ CountDown \/ Collide \/ Transmit
    \/ BacksOff \/ EndCollision \/ Crash
    \/ Finish

Next == Simulate \/ Iteration \/ Stop

Spec == Init /\ [][Next]_vars

(* simulate runs on, whatever randint returns *)
FairSpec == Spec /\ WF_vars(Iteration)

-----------------------------------------------------------------------------
(***************************************************************************)
(* Properties                                                              *)
(***************************************************************************)

(* Every unit of time is counted once: the three sums and what has begun   *)
(* make up the time of the simulation, and once it is over they make up    *)
(* its length, although the last event was cut off.  A simulation that     *)
(* follows another starts from 0.                                          *)
TimeAccounted ==
    /\ pc = "loop" =>
          time = sendingTime + idleTime + collTime
                 + (IF occupied THEN packetLen ELSE nextIdle)
    /\ pc = "decide" => time = sendingTime + idleTime + collTime
    /\ pc = "done" /\ runs > 0 => sendingTime + idleTime + collTime = TolTime

(* While a node transmits it is the only one whose turn it is: looking at  *)
(* two places of the heap finds every collision.                           *)
OneSender ==
    occupied =>
        \A n \in Members \ {Candidate} : cnt[n] > 0

(* What the nodes have counted, one by one: as many as get_total_collisions *)
(* adds up                                                                 *)
Counted(f) == UNION {{n} \X (1 .. f[n]) : n \in Ids}

(* In every collision at least two nodes collide, each of them once.       *)
CollisionsCounted ==
    /\ \A n \in Ids : colls[n] <= collTime
    /\ pc \in {"loop", "decide", "done"} => Cardinality(Counted(colls)) >= 2 * collTime

(* The transmissions that the nodes count take the time that was spent on  *)
(* sending, but for the part of one that was cut off, which no node counts. *)
(* Counts of an earlier simulation do not live on.                         *)
PacketsCounted ==
    LET over == sendingTime - (packetLen * Cardinality(Counted(trans)))
    IN  IF pc = "done" /\ occupied THEN over \in 1 .. packetLen ELSE over = 0

(* How many nodes of the heap want to send *)
Ready == {n \in Members : HasTimeout(n)}

(* What a simulation still has to do at most: time that is left, nodes that *)
(* have to back off, the parts of an iteration                             *)
Remaining ==
    (Cardinality(Ids) + 4) * (IF time < TolTime THEN TolTime - time ELSE 0)
    + CASE pc = "loop" -> 2
        [] pc = "decide" -> 1
        [] pc = "collide" -> Cardinality(Ready) + 3
        [] OTHER -> 0

(* Whatever is drawn, each step brings a simulation nearer to its end:     *)
(* whatever the channel does takes time, and a node backs off once in a    *)
(* collision.                                                              *)
Progress == [][Iteration => Remaining' < Remaining]_vars

(* Every simulation returns, or dies of the empty heap: no draw of back-   *)
(* offs keeps it in the loop over the colliding nodes or stops its clock.  *)
Ends == pc = "loop" ~> pc \in {"done", "crashed"}
=============================================================================
