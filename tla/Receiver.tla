------------------------------ MODULE Receiver ------------------------------
(***************************************************************************)
(* The mp2 receiver (mp2/src/receiver_main.c): a loop that takes one       *)
(* packet at a time, writes the one it expects, keeps later ones in a ring *)
(* of Window slots and acknowledges the contiguous prefix it holds.        *)
(*   rpc = "recv"    blocked in recvPacket;                                *)
(*   rpc = "flush"   in check_and_sent_buffer, after the ack, writing the  *)
(*                   buffered chunks one per step;                         *)
(*   rpc = "linger"  in wait_for_break, after the last chunk;              *)
(*   rpc = "closed"  returned;                                             *)
(*   rpc = "spin"    in the loop that counts full slots, all being full.   *)
(* recvPacket learns the sender's address from a packet numbered 0, so it  *)
(* is known exactly when wrote > 0.                                        *)
(***************************************************************************)
EXTENDS Rdt, Sequences

CONSTANTS
    Window,         \* WINDOW: the slots of the ring
    Lead            \* packets sent lie below the acknowledged base + Lead

ASSUME ReceiverAssumption ==
    /\ Window \in Nat \ {0}
    /\ Lead \in Nat

Empty == -1
Slots == 0 .. Window - 1

VARIABLES
    wrote,          \* last_ack_num of the loop: the chunk expected next
    ackNum,         \* the highest ack_num decided on so far
    file,           \* the chunks written to the file
    ring,           \* the buffered packets; buflen is 0 where Empty
    fin,            \* a flushed packet had its fin_byte set
    rpc,
    acks,           \* acks handed to the network
    lingered        \* final acks sent

receiverState == <<wrote, ackNum, file, ring, fin, rpc, lingered>>
receiverVars == <<wrote, ackNum, file, ring, fin, rpc, acks, lingered>>

(* mutant: acknowledges one chunk more *)
AckNext(num) == [num |-> num + 1, copy |-> 0]

Ack(num) == [num |-> num, copy |-> 0]

InitReceiver ==
    /\ wrote = 0
    /\ ackNum = 0
    /\ file = << >>
    /\ ring = [s \in Slots |-> Empty]
    /\ fin = FALSE
    /\ rpc = "recv"
    /\ acks = {}
    /\ lingered = 0

SeqNum(p) == IF p = LastPkt THEN 0 ELSE p
FinByte(p) == p = N - 1
Payload(p) == IF p = LastPkt THEN << >> ELSE <<p>>

Slot(seq) == seq % Window
Full(seq) == ring[Slot(seq)] # Empty

(* mutant: the loop does not stop at the first free slot *)
CountsPastHoles(first, last) == first <= last /\ ~ Full(last)

(* The first loop of check_and_sent_buffer ends at last: slots from first  *)
(* on are full, and the slot of last is the first one that is not.         *)
CountsTo(first, last) ==
    /\ first <= last
    /\ \A k \in first .. last - 1 : Full(k)
    /\ ~ Full(last)

AllFull == \A s \in Slots : ring[s] # Empty

(* recvPacket fails, on a packet of the wrong size or from another address *)
(* (before the sender is known: any packet not numbered 0): dropped while  *)
(* nothing was received, a duplicate ack after that                        *)
RcvFail ==
    /\ rpc = "recv"
    /\ wrote > 0
    /\ acks' = acks \cup {Ack(wrote)}
    /\ UNCHANGED <<wrote, ackNum, file, ring, fin, rpc, lingered>>

RcvUnknown(p) ==
    /\ rpc = "recv"
    /\ wrote = 0
    /\ SeqNum(p) # 0
    /\ UNCHANGED receiverVars

(* The expected packet is written.  The last chunk ends the transfer;      *)
(* otherwise check_and_sent_buffer counts the buffered packets that        *)
(* follow, acknowledges them with it, and goes on to write them.           *)
RcvExpected(p) ==
    /\ rpc = "recv"
    /\ SeqNum(p) = wrote
    /\ file' = file \o Payload(p)
    /\ wrote' = wrote + 1
    /\ \/ /\ FinByte(p)
          /\ ackNum' = wrote + 1
          /\ rpc' = "linger"
          /\ UNCHANGED acks
       \/ /\ ~ FinByte(p)
          /\ \E last \in wrote + 1 .. wrote + Window :
                /\ CountsTo(wrote + 1, last)
                /\ ackNum' = last
                /\ acks' = acks \cup {Ack(last)}
                /\ rpc' = IF last > wrote + 1 THEN "flush" ELSE "recv"
       \/ /\ ~ FinByte(p)
          /\ AllFull
          /\ rpc' = "spin"
          /\ UNCHANGED <<ackNum, acks>>
    /\ UNCHANGED <<ring, fin, lingered>>

(* mutant: old packets are kept, too *)
RcvAheadOrOld(p) ==
    /\ rpc = "recv"
    /\ wrote > 0
    /\ SeqNum(p) # wrote
    /\ ring' = [ring EXCEPT ![Slot(SeqNum(p))] = p]
    /\ acks' = acks \cup {Ack(wrote)}
    /\ UNCHANGED <<wrote, ackNum, file, fin, rpc, lingered>>

(* A later packet goes to its slot, whatever the slot holds *)
RcvAhead(p) ==
    /\ rpc = "recv"
    /\ wrote > 0
    /\ SeqNum(p) > wrote
    /\ ring' = [ring EXCEPT ![Slot(SeqNum(p))] = p]
    /\ acks' = acks \cup {Ack(wrote)}
    /\ UNCHANGED <<wrote, ackNum, file, fin, rpc, lingered>>

(* An old packet is acknowledged again *)
RcvOld(p) ==
    /\ rpc = "recv"
    /\ SeqNum(p) < wrote
    /\ acks' = acks \cup {Ack(wrote)}
    /\ UNCHANGED <<wrote, ackNum, file, ring, fin, rpc, lingered>>

(* mutant: the written slot stays full *)
ClearedNot == ring

(* The ring without the chunk being written: buflen = 0 *)
Cleared == [ring EXCEPT ![Slot(wrote)] = Empty]

(* One round of the second loop of check_and_sent_buffer *)
WriteSlot ==
    LET p     == ring[Slot(wrote)]
        last  == FinByte(p)
        slots == Cleared
    IN  /\ rpc = "flush"
        /\ file' = file \o Payload(p)
        /\ ring' = slots
        /\ wrote' = wrote + 1
        /\ fin' = (fin \/ last)
        /\ rpc' = IF slots[Slot(wrote + 1)] # Empty THEN "flush"
                  ELSE IF fin \/ last THEN "linger" ELSE "recv"
        /\ UNCHANGED <<ackNum, acks, lingered>>

(* mutant: one final ack more *)
LingerAckOnceMore ==
    /\ rpc = "linger"
    /\ lingered <= FinalAcks
    /\ lingered' = lingered + 1
    /\ acks' = acks \cup {[num |-> wrote, copy |-> lingered + 1]}
    /\ UNCHANGED <<wrote, ackNum, file, ring, fin, rpc>>

(* wait_for_break: FinalAcks acks of the whole file, never reading *)
LingerAck ==
    /\ rpc = "linger"
    /\ lingered < FinalAcks
    /\ lingered' = lingered + 1
    /\ acks' = acks \cup {[num |-> wrote, copy |-> lingered + 1]}
    /\ UNCHANGED <<wrote, ackNum, file, ring, fin, rpc>>

CloseFile ==
    /\ rpc = "linger"
    /\ lingered = FinalAcks
    /\ rpc' = "closed"
    /\ UNCHANGED <<wrote, ackNum, file, ring, fin, acks, lingered>>

Rcv(p) ==
    \/ RcvUnknown(p)
    \/ RcvExpected(p)
    \/ RcvAhead(p)
    \/ RcvOld(p)

(* The counting loop goes round the full ring for ever *)
Spin == rpc = "spin" /\ UNCHANGED receiverVars

ReceiverStep == WriteSlot \/ LingerAck \/ CloseFile

(* The receiver alone: any packet of a sender that runs at most Lead ahead *)
(* of the acknowledged base, in any order and any number of times.         *)
Deliverable == {q \in Chunks : q < ackNum + Lead}

Returned == rpc = "closed" /\ UNCHANGED receiverVars

ReceiverNext ==
    \/ \E p \in Deliverable : Rcv(p)
    \/ RcvFail
    \/ ReceiverStep
    \/ Spin
    \/ Returned

ReceiverSpec == InitReceiver /\ [][ReceiverNext]_receiverVars

-----------------------------------------------------------------------------
(***************************************************************************)
(* Properties                                                              *)
(***************************************************************************)

(* The range of every variable. *)
ReceiverTypeOK ==
    /\ wrote \in 0 .. N
    /\ ackNum \in 0 .. N
    /\ file \in Seq(Chunks)
    /\ ring \in [Slots -> Chunks \cup {Empty}]
    /\ fin \in BOOLEAN
    /\ rpc \in {"recv", "flush", "linger", "closed", "spin"}
    /\ acks \subseteq Acks
    /\ lingered \in 0 .. FinalAcks

(* The file is always a prefix of the source, chunk by chunk: whatever     *)
(* order packets arrive in, however often, the ring never hands out a      *)
(* chunk under another chunk's number.                                     *)
FilePrefix == file = [i \in 1 .. wrote |-> i - 1]

(* The ring holds only packets still to be written, in the slot of their   *)
(* number and less than a full turn ahead: two chunks never compete for a  *)
(* slot, and the slot of the expected chunk is empty between packets.      *)
RingHolds ==
    \A s \in Slots : ring[s] # Empty =>
        /\ Slot(ring[s]) = s
        /\ ring[s] < wrote + Window
        /\ ring[s] >= wrote
        /\ rpc # "flush" => ring[s] # wrote

(* An ack is a promise: every ack sent is for chunks that are in the file  *)
(* or, while they are being flushed, in the ring.                          *)
AcksHeld ==
    \A a \in acks : \A q \in 0 .. a.num - 1 : q < wrote \/ ring[Slot(q)] = q

(* buflen says "whether there is a packet" in a slot, and the loop of       *)
(* check_and_sent_buffer is to "write that packet to the file": the one    *)
(* with the number that is next.                                           *)
WritesThatPacket == rpc = "flush" => ring[Slot(wrote)] = wrote

(* The loop that counts full slots always finds an empty one. *)
NoSpin == rpc # "spin"

(* The receiver leaves its loop only with the whole file on disk. *)
LeavesComplete == rpc \in {"linger", "closed"} => wrote = N /\ ackNum = N
=============================================================================
