-------------------------------- MODULE Rdt ---------------------------------
(***************************************************************************)
(* What mp2's sender and receiver share (mp2/src/adt.h, constants.h): the  *)
(* file is cut into N chunks, a data packet is its sequence number and     *)
(* stands for the chunk it carries.  After the transfer the sender sends   *)
(* an empty packet with sequence number 0, LastPkt.  An ack is its         *)
(* ack_num; copy tells the final acks of the receiver apart (0 for every   *)
(* other ack), because how many of them survive matters.                   *)
(***************************************************************************)
EXTENDS Integers

CONSTANTS
    N,              \* totalSeq: the number of chunks of the file
    FinalAcks       \* the number of final acks of the receiver: 45

ASSUME RdtAssumption ==
    /\ N \in Nat \ {0}
    /\ FinalAcks \in Nat \ {0}

Chunks == 0 .. N - 1
LastPkt == N

Acks == [num : 1 .. N, copy : {0}] \cup [num : {N}, copy : 1 .. FinalAcks]
=============================================================================
