----------------------------- MODULE RdtProofs ------------------------------
(***************************************************************************)
(* Theorems about the mp2 receiver and the mp2 sender, each on its own,    *)
(* for every ring size, file length, window and threshold.  The receiver:  *)
(* as long as packets run less than one turn of the ring ahead, no chunk   *)
(* takes the slot of another; up to one packet more, the file is still a   *)
(* prefix of the source and every ack is kept.  The sender: first what the *)
(* functions of adt.c do to a window record, then its inductive invariant. *)
(***************************************************************************)
EXTENDS Sender, Receiver, SequenceTheorems, TLAPS

-----------------------------------------------------------------------------
(***************************************************************************)
(* Slots of the ring                                                       *)
(***************************************************************************)

(* Every sequence number has a slot. *)
LEMMA SlotType ==
  ASSUME NEW a \in Nat
  PROVE  Slot(a) \in Slots
  BY ReceiverAssumption DEF Slot, Slots

(* Division with remainder by the ring size. *)
LEMMA Division ==
  ASSUME NEW a \in Nat
  PROVE  a \div Window \in Nat /\ a = (Window * (a \div Window)) + Slot(a)
  BY ReceiverAssumption DEF Slot

(* Whole turns of the ring differ by at least one turn. *)
LEMMA Turns ==
  ASSUME NEW i \in Nat, NEW j \in Nat, i < j
  PROVE  Window * j >= (Window * i) + Window
  BY ReceiverAssumption

(* Within one turn of the ring, a slot determines the sequence number. *)
LEMMA SlotUnique ==
  ASSUME NEW m \in Nat, NEW a \in Nat, NEW b \in Nat,
         m <= a, a < m + Window, m <= b, b < m + Window, Slot(a) = Slot(b)
  PROVE  a = b
  <1> DEFINE i == a \div Window
             j == b \div Window
             r == Slot(a)
  <1>1. a = (Window * i) + r /\ b = (Window * j) + r
    BY Division
  <1>2. i \in Nat /\ j \in Nat /\ r \in Nat /\ Window \in Nat
    <2>1. i \in Nat /\ j \in Nat
      BY Division
    <2>2. r \in Slots
      BY SlotType
    <2> QED
      BY <2>1, <2>2, ReceiverAssumption DEF Slots
  <1>3. Window * i \in Nat /\ Window * j \in Nat
    BY <1>2
  <1>4. i < j => Window * j >= (Window * i) + Window
    BY <1>2, Turns
  <1>5. j < i => Window * i >= (Window * j) + Window
    BY <1>2, Turns
  <1> HIDE DEF i, j, r
  <1> QED
    BY <1>1, <1>2, <1>3, <1>4, <1>5

-----------------------------------------------------------------------------
(***************************************************************************)
(* The file                                                                *)
(***************************************************************************)
Prefix(n) == [i \in 1 .. n |-> i - 1]

(* The prefix of n chunks is a sequence of chunks. *)
LEMMA PrefixType ==
  ASSUME NEW n \in 0 .. N
  PROVE  Prefix(n) \in Seq(Chunks) /\ Len(Prefix(n)) = n
  <1>1. n \in Nat /\ \A i \in 1 .. n : i - 1 \in Chunks
    BY RdtAssumption DEF Chunks
  <1>2. Prefix(n) \in [1 .. n -> Chunks]
    BY <1>1 DEF Prefix
  <1> QED
    BY <1>1, <1>2, LenProperties, SeqDef DEF Prefix

(* Writing chunk n after the first n chunks gives the first n + 1. *)
LEMMA PrefixGrows ==
  ASSUME NEW n \in Chunks
  PROVE  Prefix(n) \o <<n>> = Prefix(n + 1)
  <1>1. n \in Nat /\ n \in 0 .. N /\ n + 1 \in 0 .. N
    BY RdtAssumption DEF Chunks
  <1>2. /\ Prefix(n) \in Seq(Chunks) /\ Len(Prefix(n)) = n
        /\ Prefix(n + 1) \in Seq(Chunks) /\ Len(Prefix(n + 1)) = n + 1
    BY <1>1, PrefixType
  <1>3. <<n>> \in Seq(Chunks) /\ Len(<<n>>) = 1 /\ <<n>>[1] = n
    OBVIOUS
  <1>4. /\ Prefix(n) \o <<n>> \in Seq(Chunks)
        /\ Len(Prefix(n) \o <<n>>) = n + 1
        /\ \A i \in 1 .. n + 1 : (Prefix(n) \o <<n>>)[i] =
              IF i <= n THEN Prefix(n)[i] ELSE <<n>>[i - n]
    BY <1>2, <1>3, ConcatProperties
  <1>5. \A i \in 1 .. n + 1 : (Prefix(n) \o <<n>>)[i] = Prefix(n + 1)[i]
    <2> SUFFICES ASSUME NEW i \in 1 .. n + 1
                 PROVE  (Prefix(n) \o <<n>>)[i] = Prefix(n + 1)[i]
      OBVIOUS
    <2>1. CASE i <= n
      BY <1>1, <1>4, <2>1 DEF Prefix
    <2>2. CASE i = n + 1
      BY <1>1, <1>3, <1>4, <2>2 DEF Prefix
    <2>3. i <= n \/ i = n + 1
      BY <1>1
    <2> QED
      BY <2>1, <2>2, <2>3
  <1> QED
    BY <1>2, <1>4, <1>5, SeqEqual

-----------------------------------------------------------------------------
(***************************************************************************)
(* The inductive invariant                                                 *)
(***************************************************************************)

(* What holds in each place of the program.  During a flush the chunks     *)
(* between wrote and ackNum wait in the ring, and the slot after them is   *)
(* free, which is what stops the writing loop there.                       *)
PlaceInv ==
    /\ rpc # "spin"
    /\ rpc \in {"recv", "flush"} => ~ fin /\ wrote < N
    /\ rpc = "recv" => ackNum = wrote
    /\ rpc = "flush" => /\ wrote < ackNum
                        /\ \A q \in wrote .. ackNum - 1 : ring[Slot(q)] = q
                        /\ ring[Slot(ackNum)] = Empty
    /\ rpc \in {"linger", "closed"} => wrote = N /\ ackNum = N
    /\ wrote <= ackNum
    /\ \A a \in acks : a.num <= ackNum

RInv ==
    /\ ReceiverTypeOK
    /\ FilePrefix
    /\ RingHolds
    /\ PlaceInv

(* Acks are for a positive number of chunks, up to N. *)
LEMMA AckType ==
  /\ \A n \in 1 .. N : Ack(n) \in Acks /\ Ack(n).num = n
  /\ \A c \in 1 .. FinalAcks : [num |-> N, copy |-> c] \in Acks
  /\ \A a \in Acks : a.num \in 1 .. N
  BY RdtAssumption DEF Ack, Acks

(* The initial state satisfies the invariant. *)
LEMMA RInvInit == InitReceiver => RInv
  <1> SUFFICES ASSUME InitReceiver PROVE RInv
    OBVIOUS
  <1>1. N \in Nat \ {0} /\ FinalAcks \in Nat \ {0}
    BY RdtAssumption
  <1>2. ring = [s \in Slots |-> Empty]
    BY DEF InitReceiver
  <1>3. ReceiverTypeOK
    <2>1. 0 \in 0 .. N /\ 0 \in 0 .. FinalAcks
      BY <1>1
    <2>2. file \in Seq(Chunks)
      BY EmptySeq DEF InitReceiver
    <2>3. ring \in [Slots -> Chunks \cup {Empty}]
      BY <1>2
    <2> QED
      BY <2>1, <2>2, <2>3, Zenon DEF InitReceiver, ReceiverTypeOK
  <1>4. FilePrefix
    <2>1. file = << >> /\ wrote = 0
      BY DEF InitReceiver
    <2>2. Prefix(0) \in Seq(Chunks) /\ Len(Prefix(0)) = 0
      BY <1>1, PrefixType
    <2>3. Prefix(0) = << >>
      BY <2>2, EmptySeq
    <2> QED
      BY <2>1, <2>3 DEF FilePrefix, Prefix
  <1>5. RingHolds
    BY <1>2 DEF RingHolds
  <1>6. PlaceInv
    BY <1>1 DEF InitReceiver, PlaceInv
  <1> QED
    BY <1>3, <1>4, <1>5, <1>6 DEF RInv

(* While a packet is awaited, the slot of the expected chunk is free, and  *)
(* a full slot less than a turn ahead holds the chunk of that number.      *)
LEMMA RecvSlots ==
  ASSUME RInv, rpc = "recv"
  PROVE  /\ wrote \in Nat
         /\ \A k \in Nat : wrote <= k /\ k < wrote + Window /\ Full(k) =>
               ring[Slot(k)] = k /\ k # wrote
         /\ ~ Full(wrote)
         /\ ~ Full(wrote + Window)
  <1>1. wrote \in Nat /\ Window \in Nat \ {0}
    BY ReceiverAssumption, RdtAssumption DEF RInv, ReceiverTypeOK
  <1>2. ASSUME NEW k \in Nat, wrote <= k, k < wrote + Window, Full(k)
        PROVE  ring[Slot(k)] = k /\ k # wrote
    <2>1. Slot(k) \in Slots /\ ring[Slot(k)] # Empty
      BY <1>2, SlotType DEF Full
    <2>2. /\ ring[Slot(k)] \in Nat /\ Slot(ring[Slot(k)]) = Slot(k)
          /\ wrote <= ring[Slot(k)] /\ ring[Slot(k)] < wrote + Window
          /\ ring[Slot(k)] # wrote
      BY <2>1 DEF RInv, RingHolds, ReceiverTypeOK, Chunks, Empty
    <2> QED
      BY <1>1, <1>2, <2>2, SlotUnique
  <1>3. ~ Full(wrote)
    BY <1>1, <1>2
  <1>4. Slot(wrote + Window) = Slot(wrote)
    <2> DEFINE i == wrote \div Window
               j == (wrote + Window) \div Window
               r == Slot(wrote)
               s == Slot(wrote + Window)
    <2>0. wrote + Window \in Nat
      BY <1>1
    <2>1. wrote = (Window * i) + r /\ wrote + Window = (Window * j) + s
      BY <1>1, <2>0, Division
    <2>2. i \in Nat /\ j \in Nat /\ r \in 0 .. Window - 1 /\ s \in 0 .. Window - 1
      <3>1. i \in Nat /\ j \in Nat
        BY <1>1, <2>0, Division
      <3>2. r \in Slots /\ s \in Slots
        BY <1>1, <2>0, SlotType
      <3> QED
        BY <3>1, <3>2 DEF Slots
    <2>3. Window * i \in Nat /\ Window * j \in Nat
      BY <1>1, <2>2
    <2>4. j < i + 1 => Window * (i + 1) >= (Window * j) + Window
      BY <2>2, Turns
    <2>5. i + 1 < j => Window * j >= (Window * (i + 1)) + Window
      BY <2>2, Turns
    <2>6. Window * (i + 1) = (Window * i) + Window
      BY <1>1, <2>2
    <2> HIDE DEF i, j, r, s
    <2>7. s = r
      BY <1>1, <2>1, <2>2, <2>3, <2>4, <2>5, <2>6
    <2> QED
      BY <2>7 DEF r, s
  <1> QED
    BY <1>1, <1>2, <1>3, <1>4 DEF Full

(* The expected chunk, less than a turn ahead: it is written, and the      *)
(* chunks acknowledged with it wait in the ring.                           *)
LEMMA RcvExpectedInv ==
  ASSUME RInv, NEW p \in Chunks, RcvExpected(p)
  PROVE  RInv'
  <1>1. /\ rpc = "recv" /\ p = wrote /\ SeqNum(p) = p /\ Payload(p) = <<p>>
        /\ N \in Nat /\ p \in Nat /\ p < N
    BY RdtAssumption DEF RcvExpected, SeqNum, Payload, Chunks, LastPkt
  <1>2. /\ wrote' = wrote + 1 /\ ring' = ring /\ fin' = fin
        /\ lingered' = lingered /\ file' = file \o <<wrote>>
    BY <1>1 DEF RcvExpected
  <1>3. file' = Prefix(wrote + 1) /\ file' \in Seq(Chunks) /\ wrote' \in 0 .. N
    <2>1. file = Prefix(wrote) /\ wrote + 1 \in 0 .. N
      BY <1>1 DEF RInv, FilePrefix, Prefix
    <2> QED
      BY <1>1, <1>2, <2>1, PrefixGrows, PrefixType
  <1>4. FilePrefix'
    BY <1>2, <1>3 DEF FilePrefix, Prefix
  <1>5. /\ ring \in [Slots -> Chunks \cup {Empty}] /\ fin \in BOOLEAN
        /\ lingered \in 0 .. FinalAcks /\ acks \subseteq Acks
        /\ ackNum = wrote /\ ~ fin /\ \A a \in acks : a.num <= wrote
    BY <1>1 DEF RInv, ReceiverTypeOK, PlaceInv
  <1>6. \A s \in Slots : ring[s] # Empty =>
           /\ ring[s] \in Nat /\ Slot(ring[s]) = s
           /\ wrote + 1 <= ring[s] /\ ring[s] < wrote + Window
    BY <1>1, <1>5 DEF RInv, RingHolds, Chunks, Empty
  <1>7. CASE FinByte(p)
    <2>1. ackNum' = wrote + 1 /\ rpc' = "linger" /\ acks' = acks /\ wrote + 1 = N
      BY <1>1, <1>7 DEF RcvExpected, FinByte
    <2>2. RingHolds'
      <3>1. \A s \in Slots : ring[s] # N
        BY <1>1, <1>5 DEF Chunks, Empty
      <3> QED
        BY <1>1, <1>2, <1>6, <2>1, <3>1, ReceiverAssumption DEF RingHolds
    <2>3. PlaceInv'
      BY <1>1, <1>2, <1>5, <2>1, AckType DEF PlaceInv
    <2> QED
      BY <1>2, <1>3, <1>4, <1>5, <2>1, <2>2, <2>3
      DEF RInv, ReceiverTypeOK
  <1>8. ~ AllFull
    <2>1. Slot(wrote) \in Slots /\ ring[Slot(wrote)] = Empty
      BY <1>1, RecvSlots, SlotType DEF Full
    <2> QED
      BY <2>1 DEF AllFull
  <1>9. CASE ~ FinByte(p)
    <2>1. PICK last \in wrote + 1 .. wrote + Window :
             /\ CountsTo(wrote + 1, last)
             /\ ackNum' = last
             /\ acks' = acks \cup {Ack(last)}
             /\ rpc' = IF last > wrote + 1 THEN "flush" ELSE "recv"
      BY <1>8, <1>9 DEF RcvExpected
    <2>2. /\ last \in Nat /\ wrote + 1 <= last /\ last <= wrote + Window
          /\ Window \in Nat \ {0} /\ wrote + 1 < N
      BY <1>1, <1>9, <2>1, ReceiverAssumption DEF FinByte
    <2>3. \A k \in wrote + 1 .. last - 1 : ring[Slot(k)] = k
      BY <1>1, <2>1, <2>2, RecvSlots DEF CountsTo
    <2>4. ring[Slot(last)] = Empty
      BY <2>1 DEF CountsTo, Full
    <2>5. last <= N
      <3>1. CASE last = wrote + 1
        BY <1>1, <2>2, <3>1
      <3>2. CASE last > wrote + 1
        <4>1. last - 1 \in wrote + 1 .. last - 1 /\ last - 1 \in Nat
          BY <1>1, <2>2, <3>2
        <4>2. ring[Slot(last - 1)] = last - 1 /\ Slot(last - 1) \in Slots
          BY <2>3, <4>1, SlotType
        <4>3. last - 1 \in Chunks
          BY <1>5, <4>1, <4>2 DEF Empty
        <4> QED
          BY <1>1, <2>2, <4>3 DEF Chunks
      <3> QED
        BY <1>1, <2>2, <3>1, <3>2
    <2>6. RingHolds'
      <3>1. CASE last = wrote + 1
        <4>1. \A s \in Slots : ring[s] # wrote + 1
          BY <1>6, <2>4, <3>1, <1>1 DEF Empty
        <4> QED
          BY <1>1, <1>2, <1>6, <2>2, <4>1 DEF RingHolds
      <3>2. CASE last > wrote + 1
        BY <1>1, <1>2, <1>6, <2>1, <2>2, <3>2 DEF RingHolds
      <3> QED
        BY <1>1, <2>2, <3>1, <3>2
    <2>7. Ack(last) \in Acks /\ Ack(last).num = last
      <3>1. last \in 1 .. N
        BY <1>1, <2>2, <2>5
      <3> QED
        BY <3>1, AckType
    <2>8. \A a \in acks' : a.num <= last
      <3>1. \A a \in acks : a.num \in 1 .. N /\ a.num <= wrote
        BY <1>5, AckType
      <3> QED
        BY <1>1, <2>1, <2>2, <2>7, <3>1
    <2>9. PlaceInv'
      BY <1>1, <1>2, <1>5, <2>1, <2>2, <2>3, <2>4, <2>8 DEF PlaceInv
    <2>10. ReceiverTypeOK'
      <3>1. rpc' \in {"recv", "flush"} /\ acks' \subseteq Acks
        BY <1>5, <2>1, <2>7
      <3>2. ackNum' \in 0 .. N
        BY <1>1, <2>1, <2>2, <2>5
      <3> QED
        BY <1>2, <1>3, <1>5, <3>1, <3>2, Zenon DEF ReceiverTypeOK
    <2> QED
      BY <1>4, <2>6, <2>9, <2>10 DEF RInv
  <1> QED
    BY <1>7, <1>9

(* A later packet, less than a turn ahead, takes a slot of its own. *)
LEMMA RcvAheadInv ==
  ASSUME RInv, NEW p \in Chunks, p < wrote + Window, RcvAhead(p)
  PROVE  RInv'
  <1>1. /\ rpc = "recv" /\ SeqNum(p) = p /\ p > wrote /\ p \in Nat /\ wrote > 0
        /\ N \in Nat /\ wrote \in 0 .. N /\ ackNum = wrote
    BY RdtAssumption
    DEF RcvAhead, SeqNum, Chunks, LastPkt, RInv, ReceiverTypeOK, PlaceInv
  <1>2. /\ ring' = [ring EXCEPT ![Slot(p)] = p]
        /\ acks' = acks \cup {Ack(wrote)}
        /\ UNCHANGED <<wrote, ackNum, file, fin, rpc, lingered>>
    BY <1>1 DEF RcvAhead
  <1>3. Slot(p) \in Slots /\ ring \in [Slots -> Chunks \cup {Empty}]
    BY <1>1, SlotType DEF RInv, ReceiverTypeOK
  <1>4. \A s \in Slots : ring'[s] = IF s = Slot(p) THEN p ELSE ring[s]
    BY <1>2, <1>3
  <1>5. Ack(wrote) \in Acks /\ Ack(wrote).num = wrote
    <2>1. wrote \in 1 .. N
      BY <1>1
    <2> QED
      BY <2>1, AckType
  <1>6. ReceiverTypeOK'
    <2>1. ring' \in [Slots -> Chunks \cup {Empty}] /\ acks' \subseteq Acks
      BY <1>2, <1>3, <1>5 DEF RInv, ReceiverTypeOK
    <2> QED
      BY <1>2, <2>1 DEF RInv, ReceiverTypeOK
  <1>7. FilePrefix'
    BY <1>2 DEF RInv, FilePrefix
  <1>8. RingHolds'
    BY <1>1, <1>2, <1>4 DEF RInv, RingHolds
  <1>9. PlaceInv'
    BY <1>1, <1>2, <1>5 DEF RInv, PlaceInv
  <1> QED
    BY <1>6, <1>7, <1>8, <1>9 DEF RInv

(* Acknowledging again what is there changes nothing else. *)
LEMMA ReAckInv ==
  ASSUME RInv, rpc = "recv", wrote > 0, acks' = acks \cup {Ack(wrote)},
         UNCHANGED receiverState
  PROVE  RInv'
  <1>1. N \in Nat /\ wrote \in 0 .. N /\ ackNum = wrote
    BY RdtAssumption DEF RInv, ReceiverTypeOK, PlaceInv
  <1>2. Ack(wrote) \in Acks /\ Ack(wrote).num = wrote
    BY <1>1, AckType
  <1>3. acks' \subseteq Acks /\ \A a \in acks' : a.num <= ackNum
    BY <1>1, <1>2 DEF RInv, ReceiverTypeOK, PlaceInv
  <1>4. ReceiverTypeOK'
    BY <1>3 DEF receiverState, RInv, ReceiverTypeOK
  <1>5. FilePrefix' /\ RingHolds' /\ PlaceInv'
    BY <1>3 DEF receiverState, RInv, FilePrefix, RingHolds, PlaceInv
  <1> QED
    BY <1>4, <1>5 DEF RInv

(* Any packet less than a turn ahead keeps the invariant. *)
LEMMA RcvInv ==
  ASSUME RInv, NEW p \in Chunks, p < wrote + Window, Rcv(p)
  PROVE  RInv'
  <1>1. CASE RcvUnknown(p)
    BY <1>1 DEF RcvUnknown, receiverVars, RInv, ReceiverTypeOK, FilePrefix,
                RingHolds, PlaceInv
  <1>2. CASE RcvExpected(p)
    BY <1>2, RcvExpectedInv
  <1>3. CASE RcvAhead(p)
    BY <1>3, RcvAheadInv
  <1>4. CASE RcvOld(p)
    <2>1. SeqNum(p) = p /\ p \in Nat /\ p < wrote
      BY <1>4, RdtAssumption DEF RcvOld, SeqNum, Chunks, LastPkt
    <2>2. wrote > 0
      BY <2>1, RdtAssumption DEF RInv, ReceiverTypeOK
    <2> QED
      BY <1>4, <2>2, ReAckInv DEF RcvOld, receiverState
  <1> QED
    BY <1>1, <1>2, <1>3, <1>4 DEF Rcv

(* Receiving a packet never takes anything back. *)
LEMMA RcvProgress ==
  ASSUME RInv, NEW p, Rcv(p)
  PROVE  ackNum' >= ackNum /\ wrote' >= wrote
  <1>1. wrote \in Nat /\ ackNum \in Nat /\ (rpc = "recv" => ackNum = wrote)
    BY RdtAssumption DEF RInv, ReceiverTypeOK, PlaceInv
  <1>2. CASE RcvExpected(p)
    <2>1. rpc = "recv" /\ wrote' = wrote + 1
      BY <1>2 DEF RcvExpected
    <2>2. ackNum' = wrote + 1 \/ ackNum' = ackNum
          \/ \E last \in wrote + 1 .. wrote + Window : ackNum' = last
      BY <1>2 DEF RcvExpected
    <2> QED
      BY <1>1, <2>1, <2>2, ReceiverAssumption
  <1>3. CASE RcvUnknown(p) \/ RcvAhead(p) \/ RcvOld(p)
    BY <1>1, <1>3 DEF RcvUnknown, RcvAhead, RcvOld, receiverVars
  <1> QED
    BY <1>2, <1>3 DEF Rcv

(* So does a packet that recvPacket rejects. *)
LEMMA RcvFailInv == RInv /\ RcvFail => RInv'
  BY ReAckInv DEF RcvFail, receiverState

(* One buffered chunk goes to the file; the flush ends where the ring has  *)
(* a free slot, which is at ackNum, and never in the middle.               *)
LEMMA WriteSlotInv == RInv /\ WriteSlot => RInv'
  <1> SUFFICES ASSUME RInv, WriteSlot PROVE RInv'
    OBVIOUS
  <1> DEFINE p     == ring[Slot(wrote)]
             slots == [ring EXCEPT ![Slot(wrote)] = Empty]
  <1>1. /\ rpc = "flush" /\ wrote \in Nat /\ ackNum \in Nat /\ wrote < ackNum
        /\ ackNum <= N /\ wrote < N /\ N \in Nat /\ ~ fin
        /\ Window \in Nat \ {0}
        /\ \A q \in wrote .. ackNum - 1 : ring[Slot(q)] = q
        /\ ring[Slot(ackNum)] = Empty
        /\ ring \in [Slots -> Chunks \cup {Empty}]
    BY RdtAssumption, ReceiverAssumption
    DEF WriteSlot, RInv, ReceiverTypeOK, PlaceInv
  <1>2. p = wrote /\ Slot(wrote) \in Slots /\ Slot(ackNum) \in Slots
        /\ wrote \in Chunks
    BY <1>1, SlotType DEF Chunks
  <1>3. Payload(p) = <<wrote>> /\ (FinByte(p) <=> wrote = N - 1)
    BY <1>1, <1>2 DEF Payload, FinByte, LastPkt
  <1>4. /\ file' = file \o <<wrote>> /\ ring' = slots /\ wrote' = wrote + 1
        /\ (fin' <=> wrote = N - 1) /\ fin' \in BOOLEAN
        /\ rpc' = IF slots[Slot(wrote + 1)] # Empty THEN "flush"
                  ELSE IF wrote = N - 1 THEN "linger" ELSE "recv"
        /\ ackNum' = ackNum /\ acks' = acks /\ lingered' = lingered
    BY <1>1, <1>3 DEF WriteSlot, Cleared
  <1>5. \A s \in Slots : slots[s] = IF s = Slot(wrote) THEN Empty ELSE ring[s]
    BY <1>1, <1>2
  <1>6. \A s \in Slots : slots[s] # Empty =>
           /\ slots[s] \in Chunks /\ slots[s] \in Nat /\ Slot(slots[s]) = s
           /\ wrote + 1 <= slots[s] /\ slots[s] < wrote + Window
    BY <1>1, <1>2, <1>5 DEF RInv, RingHolds, Chunks, Empty
  <1>7. FilePrefix' /\ file' \in Seq(Chunks) /\ wrote' \in 0 .. N
    <2>1. file = Prefix(wrote) /\ wrote + 1 \in 0 .. N
      BY <1>1 DEF RInv, FilePrefix, Prefix
    <2>2. file' = Prefix(wrote + 1)
      BY <1>2, <1>4, <2>1, PrefixGrows
    <2> QED
      BY <1>4, <2>1, <2>2, PrefixType DEF FilePrefix, Prefix
  <1>8. ring' \in [Slots -> Chunks \cup {Empty}]
    BY <1>1, <1>2, <1>4
  <1> HIDE DEF slots
  <1>9. CASE wrote + 1 < ackNum
    <2>1. \A q \in wrote + 1 .. ackNum - 1 : slots[Slot(q)] = q
      <3> SUFFICES ASSUME NEW q \in wrote + 1 .. ackNum - 1
                   PROVE  slots[Slot(q)] = q
        OBVIOUS
      <3>1. q \in Nat /\ q # wrote /\ q \in wrote .. ackNum - 1
        BY <1>1
      <3>2. Slot(q) \in Slots /\ ring[Slot(q)] = q
        BY <1>1, <3>1, SlotType
      <3>3. Slot(q) # Slot(wrote)
        BY <1>2, <3>1, <3>2
      <3> QED
        BY <1>5, <3>2, <3>3
    <2>2. slots[Slot(ackNum)] = Empty
      BY <1>1, <1>2, <1>5
    <2>3. slots[Slot(wrote + 1)] = wrote + 1 /\ wrote + 1 # Empty
      BY <1>1, <1>9, <2>1 DEF Empty
    <2>4. rpc' = "flush" /\ ~ fin' /\ wrote' < N
      BY <1>1, <1>4, <1>9, <2>3
    <2>5. RingHolds'
      BY <1>1, <1>4, <1>6, <2>4 DEF RingHolds
    <2>6. PlaceInv'
      BY <1>1, <1>4, <1>9, <2>1, <2>2, <2>4 DEF RInv, PlaceInv
    <2>7. ReceiverTypeOK'
      BY <1>4, <1>7, <1>8, <2>4 DEF RInv, ReceiverTypeOK
    <2> QED
      BY <1>7, <2>5, <2>6, <2>7 DEF RInv
  <1>10. CASE wrote + 1 = ackNum
    <2>1. slots[Slot(wrote + 1)] = Empty
      BY <1>1, <1>2, <1>5, <1>10
    <2>2. rpc' = IF wrote = N - 1 THEN "linger" ELSE "recv"
      BY <1>4, <2>1
    <2>3. RingHolds'
      <3>1. \A s \in Slots : slots[s] # wrote + 1
        BY <1>1, <1>6, <2>1 DEF Empty
      <3> QED
        BY <1>1, <1>4, <1>6, <3>1 DEF RingHolds
    <2>4. PlaceInv'
      BY <1>1, <1>4, <1>10, <2>2 DEF RInv, PlaceInv
    <2>5. ReceiverTypeOK'
      BY <1>4, <1>7, <1>8, <2>2 DEF RInv, ReceiverTypeOK
    <2> QED
      BY <1>7, <2>3, <2>4, <2>5 DEF RInv
  <1> QED
    BY <1>1, <1>9, <1>10

(* Lingering sends acks for the whole file, and closing changes nothing. *)
LEMMA LingerAckInv == RInv /\ LingerAck => RInv'
  <1> SUFFICES ASSUME RInv, LingerAck PROVE RInv'
    OBVIOUS
  <1>1. /\ rpc = "linger" /\ wrote = N /\ ackNum = N /\ N \in Nat
        /\ lingered + 1 \in 1 .. FinalAcks /\ lingered' = lingered + 1
        /\ acks' = acks \cup {[num |-> wrote, copy |-> lingered + 1]}
        /\ UNCHANGED <<wrote, ackNum, file, ring, fin, rpc>>
    BY RdtAssumption DEF LingerAck, RInv, ReceiverTypeOK, PlaceInv
  <1>2. acks' \subseteq Acks /\ \A a \in acks' : a.num <= ackNum
    BY <1>1, AckType DEF RInv, ReceiverTypeOK, PlaceInv
  <1>3. ReceiverTypeOK'
    BY <1>1, <1>2, RdtAssumption DEF RInv, ReceiverTypeOK
  <1>4. FilePrefix' /\ RingHolds' /\ PlaceInv'
    BY <1>1, <1>2 DEF RInv, FilePrefix, RingHolds, PlaceInv
  <1> QED
    BY <1>3, <1>4 DEF RInv

LEMMA CloseFileInv == RInv /\ CloseFile => RInv'
  BY DEF CloseFile, RInv, ReceiverTypeOK, FilePrefix, RingHolds, PlaceInv

LEMMA ReceiverStutter == RInv /\ UNCHANGED receiverVars => RInv'
  BY DEF receiverVars, RInv, ReceiverTypeOK, FilePrefix, RingHolds, PlaceInv

(* Every step of the receiver program on its own keeps the invariant. *)
LEMMA ReceiverStepInv == RInv /\ ReceiverStep => RInv'
  BY WriteSlotInv, LingerAckInv, CloseFileInv DEF ReceiverStep

-----------------------------------------------------------------------------
(***************************************************************************)
(* Theorems of the receiver, against a sender that runs less than a turn   *)
(* of the ring ahead                                                       *)
(***************************************************************************)

(* Every step keeps the invariant. *)
LEMMA ReceiverInductive ==
  ASSUME Lead <= Window, RInv, [ReceiverNext]_receiverVars
  PROVE  RInv'
  <1>1. ASSUME NEW p \in Deliverable, Rcv(p) PROVE RInv'
    <2>1. rpc = "recv" /\ p \in Chunks /\ p < ackNum + Lead
      BY <1>1 DEF Deliverable, Rcv, RcvUnknown, RcvExpected, RcvAhead, RcvOld
    <2>2. p < wrote + Window
      BY <2>1, ReceiverAssumption, RdtAssumption
      DEF RInv, PlaceInv, ReceiverTypeOK, Chunks
    <2> QED
      BY <1>1, <2>1, <2>2, RcvInv
  <1>2. CASE RcvFail
    BY <1>2, RcvFailInv
  <1>3. CASE ReceiverStep
    BY <1>3, ReceiverStepInv
  <1>4. CASE UNCHANGED receiverVars
    BY <1>4, ReceiverStutter
  <1> QED
    BY <1>1, <1>2, <1>3, <1>4 DEF ReceiverNext, Spin, Returned

(* The ring never mixes two chunks, and the counting loop ends. *)
THEOREM RingCorrect ==
  ASSUME Lead <= Window
  PROVE  ReceiverSpec => [](ReceiverTypeOK /\ RingHolds /\ NoSpin)
  <1>1. RInv => ReceiverTypeOK /\ RingHolds /\ NoSpin
    BY DEF RInv, PlaceInv, NoSpin
  <1>2. RInv /\ [ReceiverNext]_receiverVars => RInv'
    BY ReceiverInductive
  <1> QED
    BY <1>1, <1>2, RInvInit, PTL DEF ReceiverSpec

-----------------------------------------------------------------------------
(***************************************************************************)
(* One packet further ahead: a whole turn of the ring                      *)
(***************************************************************************)

(* While a packet is awaited, the slot of the expected chunk may hold the  *)
(* one a turn after it.  The two never meet: the expected chunk goes to    *)
(* the file at once, and the other is then less than a turn ahead.  If by  *)
(* then every slot is full, the counting loop never ends.                  *)
AheadInv ==
    /\ ReceiverTypeOK
    /\ FilePrefix
    /\ \A s \in Slots : ring[s] # Empty =>
          /\ Slot(ring[s]) = s
          /\ wrote <= ring[s]
          /\ rpc = "recv" => ring[s] # wrote /\ ring[s] <= wrote + Window
          /\ rpc = "flush" => ring[s] < wrote + Window
    /\ IF rpc = "spin" THEN ackNum <= wrote /\ \A a \in acks : a.num <= ackNum
       ELSE PlaceInv

(* The invariant of the narrower window is a case of it. *)
LEMMA RInvAhead == RInv => AheadInv
  <1> SUFFICES ASSUME RInv PROVE AheadInv
    OBVIOUS
  <1>1. \A s \in Slots : ring[s] # Empty => ring[s] \in Nat
    BY RdtAssumption DEF RInv, ReceiverTypeOK, Chunks, Empty
  <1>2. wrote \in Nat /\ Window \in Nat
    BY RdtAssumption, ReceiverAssumption DEF RInv, ReceiverTypeOK
  <1> QED
    BY <1>1, <1>2 DEF RInv, AheadInv, RingHolds, PlaceInv

(* They differ only where a packet is awaited or the receiver spins. *)
LEMMA AheadRInv == AheadInv /\ rpc \in {"flush", "linger", "closed"} => RInv
  <1> SUFFICES ASSUME AheadInv, rpc \in {"flush", "linger", "closed"} PROVE RInv
    OBVIOUS
  <1>1. PlaceInv
    BY DEF AheadInv
  <1>2. RingHolds
    <2>1. CASE rpc = "flush"
      BY <2>1 DEF AheadInv, RingHolds
    <2>2. CASE rpc # "flush"
      <3>1. wrote = N /\ N \in Nat
        BY <1>1, <2>2, RdtAssumption DEF PlaceInv
      <3>2. \A s \in Slots : ring[s] = Empty
        BY <3>1 DEF AheadInv, ReceiverTypeOK, Chunks
      <3> QED
        BY <3>2 DEF RingHolds
    <2> QED
      BY <2>1, <2>2
  <1> QED
    BY <1>1, <1>2 DEF AheadInv, RInv

(* The expected chunk frees no slot, but the turn ends one chunk later. *)
LEMMA AheadExpected ==
  ASSUME AheadInv, NEW p \in Chunks, RcvExpected(p)
  PROVE  AheadInv'
  <1>1. /\ rpc = "recv" /\ p = wrote /\ Payload(p) = <<p>>
        /\ N \in Nat /\ p \in Nat /\ p < N /\ Window \in Nat \ {0}
    BY RdtAssumption, ReceiverAssumption
    DEF RcvExpected, SeqNum, Payload, Chunks, LastPkt
  <1>2. /\ wrote' = wrote + 1 /\ ring' = ring /\ fin' = fin
        /\ lingered' = lingered /\ file' = file \o <<wrote>>
    BY <1>1 DEF RcvExpected
  <1>3. file' = Prefix(wrote + 1) /\ file' \in Seq(Chunks) /\ wrote' \in 0 .. N
    <2>1. file = Prefix(wrote) /\ wrote + 1 \in 0 .. N
      BY <1>1 DEF AheadInv, FilePrefix, Prefix
    <2> QED
      BY <1>1, <1>2, <2>1, PrefixGrows, PrefixType
  <1>4. FilePrefix'
    BY <1>2, <1>3 DEF FilePrefix, Prefix
  <1>5. /\ ring \in [Slots -> Chunks \cup {Empty}] /\ fin \in BOOLEAN
        /\ lingered \in 0 .. FinalAcks /\ acks \subseteq Acks
        /\ ackNum = wrote /\ ackNum \in 0 .. N /\ ~ fin /\ \A a \in acks : a.num <= wrote
    BY <1>1 DEF AheadInv, ReceiverTypeOK, PlaceInv
  <1>6. \A s \in Slots : ring[s] # Empty =>
           /\ ring[s] \in Nat /\ ring[s] < N /\ Slot(ring[s]) = s
           /\ wrote + 1 <= ring[s] /\ ring[s] < wrote + 1 + Window
    BY <1>1, <1>5 DEF AheadInv, Chunks, Empty
  <1>7. CASE FinByte(p)
    <2>1. ackNum' = wrote + 1 /\ rpc' = "linger" /\ acks' = acks /\ wrote + 1 = N
      BY <1>1, <1>7 DEF RcvExpected, FinByte
    <2>2. PlaceInv'
      BY <1>1, <1>2, <1>5, <2>1, AckType DEF PlaceInv
    <2> QED
      BY <1>1, <1>2, <1>3, <1>4, <1>5, <1>6, <2>1, <2>2
      DEF AheadInv, ReceiverTypeOK
  <1>8. CASE ~ FinByte(p) /\ rpc' = "spin" /\ UNCHANGED <<ackNum, acks>>
    <2>1. ReceiverTypeOK'
      BY <1>2, <1>3, <1>5, <1>8 DEF ReceiverTypeOK
    <2> QED
      BY <1>1, <1>2, <1>4, <1>5, <1>6, <1>8, <2>1 DEF AheadInv
  <1>9. CASE /\ ~ FinByte(p)
             /\ \E last \in wrote + 1 .. wrote + Window :
                   /\ CountsTo(wrote + 1, last)
                   /\ ackNum' = last
                   /\ acks' = acks \cup {Ack(last)}
                   /\ rpc' = IF last > wrote + 1 THEN "flush" ELSE "recv"
    <2>1. PICK last \in wrote + 1 .. wrote + Window :
             /\ CountsTo(wrote + 1, last)
             /\ ackNum' = last
             /\ acks' = acks \cup {Ack(last)}
             /\ rpc' = IF last > wrote + 1 THEN "flush" ELSE "recv"
      BY <1>9
    <2>2. /\ last \in Nat /\ wrote + 1 <= last /\ last <= wrote + Window
          /\ wrote + 1 < N /\ wrote + 1 \in Nat
      BY <1>1, <1>9, <2>1 DEF FinByte
    <2>3. \A k \in wrote + 1 .. last - 1 : ring[Slot(k)] = k
      <3> SUFFICES ASSUME NEW k \in wrote + 1 .. last - 1
                   PROVE  ring[Slot(k)] = k
        OBVIOUS
      <3>1. k \in Nat /\ wrote + 1 <= k /\ k < wrote + 1 + Window
        BY <1>1, <2>2
      <3>2. Slot(k) \in Slots /\ ring[Slot(k)] # Empty
        BY <2>1, <3>1, SlotType DEF CountsTo, Full
      <3> QED
        BY <1>6, <2>2, <3>1, <3>2, SlotUnique
    <2>4. ring[Slot(last)] = Empty /\ Slot(last) \in Slots
      BY <2>1, <2>2, SlotType DEF CountsTo, Full
    <2>5. last <= N
      <3>1. CASE last = wrote + 1
        BY <1>1, <2>2, <3>1
      <3>2. CASE last > wrote + 1
        <4>1. last - 1 \in wrote + 1 .. last - 1 /\ last - 1 \in Nat
          BY <1>1, <2>2, <3>2
        <4>2. ring[Slot(last - 1)] = last - 1 /\ Slot(last - 1) \in Slots
          BY <2>3, <4>1, SlotType
        <4>3. last - 1 < N
          BY <1>6, <4>1, <4>2 DEF Empty
        <4> QED
          BY <1>1, <2>2, <4>3
      <3> QED
        BY <1>1, <2>2, <3>1, <3>2
    <2>6. \A s \in Slots : ring'[s] # Empty =>
             /\ Slot(ring'[s]) = s
             /\ wrote' <= ring'[s]
             /\ rpc' = "recv" => ring'[s] # wrote' /\ ring'[s] <= wrote' + Window
             /\ rpc' = "flush" => ring'[s] < wrote' + Window
      <3>1. rpc' = "recv" => last = wrote + 1
        BY <1>1, <2>1, <2>2
      <3>2. rpc' = "recv" => \A s \in Slots : ring[s] # wrote + 1
        BY <1>6, <2>2, <2>4, <3>1 DEF Empty
      <3> QED
        BY <1>1, <1>2, <1>6, <3>2
    <2>7. Ack(last) \in Acks /\ Ack(last).num = last
      <3>1. last \in 1 .. N
        BY <1>1, <2>2, <2>5
      <3> QED
        BY <3>1, AckType
    <2>8. \A a \in acks' : a.num <= last
      <3>1. \A a \in acks : a.num \in 1 .. N /\ a.num <= wrote
        BY <1>5, AckType
      <3> QED
        BY <1>1, <2>1, <2>2, <2>7, <3>1
    <2>9. PlaceInv' /\ rpc' # "spin"
      BY <1>1, <1>2, <1>5, <2>1, <2>2, <2>3, <2>4, <2>8 DEF PlaceInv
    <2>10. ReceiverTypeOK'
      <3>1. rpc' \in {"recv", "flush"} /\ acks' \subseteq Acks
        BY <1>5, <2>1, <2>7
      <3>2. ackNum' \in 0 .. N
        BY <1>1, <2>1, <2>2, <2>5
      <3> QED
        BY <1>2, <1>3, <1>5, <3>1, <3>2, Zenon DEF ReceiverTypeOK
    <2> QED
      BY <1>4, <2>6, <2>9, <2>10 DEF AheadInv
  <1> QED
    BY <1>7, <1>8, <1>9 DEF RcvExpected

(* A packet up to a whole turn ahead takes a slot in which there is no     *)
(* other one.                                                              *)
LEMMA AheadKept ==
  ASSUME AheadInv, NEW p \in Chunks, p <= wrote + Window, RcvAhead(p)
  PROVE  AheadInv'
  <1>1. /\ rpc = "recv" /\ SeqNum(p) = p /\ p > wrote /\ p \in Nat /\ wrote > 0
        /\ N \in Nat /\ wrote \in 0 .. N /\ ackNum = wrote
    BY RdtAssumption
    DEF RcvAhead, SeqNum, Chunks, LastPkt, AheadInv, ReceiverTypeOK, PlaceInv
  <1>2. /\ ring' = [ring EXCEPT ![Slot(p)] = p]
        /\ acks' = acks \cup {Ack(wrote)}
        /\ UNCHANGED <<wrote, ackNum, file, fin, rpc, lingered>>
    BY <1>1 DEF RcvAhead
  <1>3. Slot(p) \in Slots /\ ring \in [Slots -> Chunks \cup {Empty}]
    BY <1>1, SlotType DEF AheadInv, ReceiverTypeOK
  <1>4. \A s \in Slots : ring'[s] = IF s = Slot(p) THEN p ELSE ring[s]
    BY <1>2, <1>3
  <1>5. Ack(wrote) \in Acks /\ Ack(wrote).num = wrote
    <2>1. wrote \in 1 .. N
      BY <1>1
    <2> QED
      BY <2>1, AckType
  <1>6. ReceiverTypeOK'
    <2>1. ring' \in [Slots -> Chunks \cup {Empty}] /\ acks' \subseteq Acks
      BY <1>2, <1>3, <1>5 DEF AheadInv, ReceiverTypeOK
    <2> QED
      BY <1>2, <2>1 DEF AheadInv, ReceiverTypeOK
  <1>7. FilePrefix' /\ PlaceInv' /\ rpc' # "spin"
    BY <1>1, <1>2, <1>5 DEF AheadInv, FilePrefix, PlaceInv
  <1> QED
    BY <1>1, <1>2, <1>4, <1>6, <1>7 DEF AheadInv

(* Acknowledging again changes nothing else. *)
LEMMA AheadReAck ==
  ASSUME AheadInv, rpc = "recv", wrote > 0, acks' = acks \cup {Ack(wrote)},
         UNCHANGED receiverState
  PROVE  AheadInv'
  <1>1. N \in Nat /\ wrote \in 0 .. N /\ ackNum = wrote
    BY RdtAssumption DEF AheadInv, ReceiverTypeOK, PlaceInv
  <1>2. Ack(wrote) \in Acks /\ Ack(wrote).num = wrote
    BY <1>1, AckType
  <1>3. acks' \subseteq Acks /\ \A a \in acks' : a.num <= ackNum
    BY <1>1, <1>2 DEF AheadInv, ReceiverTypeOK, PlaceInv
  <1>4. ReceiverTypeOK'
    BY <1>3 DEF receiverState, AheadInv, ReceiverTypeOK
  <1> QED
    BY <1>3, <1>4 DEF receiverState, AheadInv, FilePrefix, PlaceInv

(* Every step of the receiver, up to a whole turn ahead, keeps it. *)
LEMMA AheadInductive ==
  ASSUME Lead <= Window + 1, AheadInv, [ReceiverNext]_receiverVars
  PROVE  AheadInv'
  <1>1. ASSUME NEW p \in Deliverable, Rcv(p) PROVE AheadInv'
    <2>1. rpc = "recv" /\ p \in Chunks /\ p < ackNum + Lead
      BY <1>1 DEF Deliverable, Rcv, RcvUnknown, RcvExpected, RcvAhead, RcvOld
    <2>2. p <= wrote + Window
      BY <2>1, ReceiverAssumption, RdtAssumption
      DEF AheadInv, PlaceInv, ReceiverTypeOK, Chunks
    <2>3. CASE RcvUnknown(p)
      BY <2>3 DEF RcvUnknown, receiverVars, AheadInv, ReceiverTypeOK, FilePrefix,
                  PlaceInv
    <2>4. CASE RcvOld(p)
      <3>1. SeqNum(p) = p /\ p \in Nat /\ p < wrote
        BY <2>1, <2>4, RdtAssumption DEF RcvOld, SeqNum, Chunks, LastPkt
      <3>2. wrote > 0
        BY <3>1, RdtAssumption DEF AheadInv, ReceiverTypeOK
      <3> QED
        BY <2>4, <3>2, AheadReAck DEF RcvOld, receiverState
    <2> QED
      BY <1>1, <2>1, <2>2, <2>3, <2>4, AheadExpected, AheadKept DEF Rcv
  <1>2. CASE RcvFail
    BY <1>2, AheadReAck DEF RcvFail, receiverState
  <1>3. CASE ReceiverStep
    <2>1. rpc \in {"flush", "linger", "closed"}
      BY <1>3 DEF ReceiverStep, WriteSlot, LingerAck, CloseFile
    <2>2. RInv'
      BY <1>3, <2>1, AheadRInv, ReceiverStepInv
    <2>3. (RInv => AheadInv)'
      BY RInvAhead, PTL
    <2> QED
      BY <2>2, <2>3
  <1>4. CASE UNCHANGED receiverVars
    BY <1>4 DEF receiverVars, AheadInv, ReceiverTypeOK, FilePrefix, PlaceInv
  <1> QED
    BY <1>1, <1>2, <1>3, <1>4 DEF ReceiverNext, Spin, Returned

(* The initial state is one of the narrower window. *)
LEMMA AheadInit == InitReceiver => AheadInv
  BY RInvInit, RInvAhead

(* The file on disk is always a prefix of the source, even of a sender     *)
(* that runs a whole turn of the ring ahead.                               *)
THEOREM FilePrefixHolds ==
  ASSUME Lead <= Window + 1
  PROVE  ReceiverSpec => []FilePrefix
  <1>1. AheadInv => FilePrefix
    BY DEF AheadInv
  <1>2. AheadInv /\ [ReceiverNext]_receiverVars => AheadInv'
    BY AheadInductive
  <1> QED
    BY <1>1, <1>2, AheadInit, PTL DEF ReceiverSpec

(* Every acknowledged chunk is in the file or in the ring. *)
LEMMA AcksAreHeld == AheadInv => AcksHeld
  <1> SUFFICES ASSUME AheadInv, NEW a \in acks, NEW q \in 0 .. a.num - 1,
                      ~ (q < wrote)
               PROVE  ring[Slot(q)] = q
    BY DEF AcksHeld
  <1>0. a \in Acks
    BY DEF AheadInv, ReceiverTypeOK
  <1>1. a.num <= ackNum /\ a.num \in Nat /\ wrote \in Nat /\ ackNum \in Nat
        /\ q \in Nat
    <2>1. a.num \in 1 .. N
      BY <1>0, AckType
    <2> QED
      BY <2>1, RdtAssumption DEF AheadInv, PlaceInv, ReceiverTypeOK
  <1>2. rpc = "flush"
    BY <1>1 DEF AheadInv, PlaceInv, ReceiverTypeOK
  <1> QED
    BY <1>1, <1>2 DEF AheadInv, PlaceInv

(* Acks are promises kept, and the receiver leaves with the whole file,    *)
(* even of a sender that runs a whole turn of the ring ahead.              *)
THEOREM AcksHeldHolds ==
  ASSUME Lead <= Window + 1
  PROVE  ReceiverSpec => [](AcksHeld /\ LeavesComplete)
  <1>1. AheadInv => AcksHeld /\ LeavesComplete
    BY AcksAreHeld DEF AheadInv, PlaceInv, LeavesComplete
  <1>2. AheadInv /\ [ReceiverNext]_receiverVars => AheadInv'
    BY AheadInductive
  <1> QED
    BY <1>1, <1>2, AheadInit, PTL DEF ReceiverSpec

-----------------------------------------------------------------------------
(***************************************************************************)
(* The congestion window                                                   *)
(***************************************************************************)

(* The part of the invariant that is about the window record alone *)
CwndOK(c) ==
    /\ c \in CwndType
    /\ c.dupAck >= DupThresh <=> c.state \in {"FR", "FRR"}
    /\ c.state = "CA" => c.ackThisRound < c.window
    /\ c.state = "SS" => c.window <= c.ssthresh

(* The initial window satisfies it. *)
LEMMA InitCwndOK == CwndOK(InitCwnd)
  BY CwndAssumption, SMT
  DEF CwndOK, CwndType, InitCwnd, States, Seqs, NoSeq

(* A field of the window record has its type. *)
LEMMA CwndFields ==
  ASSUME NEW c \in CwndType
  PROVE  /\ c.window \in Nat \ {0}
         /\ c.ackThisRound \in Nat
         /\ c.ssthresh \in Nat \ {0}
         /\ c.timeoutAck \in Seqs
         /\ c.lastAck \in Seqs
         /\ c.dupAck \in Nat
         /\ c.state \in States
  BY DEF CwndType

(* halveWindow yields a positive threshold and changes nothing else. *)
LEMMA HalveWindowType ==
  ASSUME NEW c \in CwndType
  PROVE  /\ HalveWindow(c) \in CwndType
         /\ HalveWindow(c) = [c EXCEPT !.ssthresh = HalveWindow(c).ssthresh]
  <1>1. c.window \in Nat \ {0}
    BY DEF CwndType
  <1>2. c.window > 2 => c.window \div 2 \in Nat \ {0}
    BY <1>1, SMT
  <1>3. (IF c.window > 2 THEN c.window \div 2 ELSE 2) \in Nat \ {0}
    BY <1>2, SMT
  <1> QED
    BY <1>3 DEF HalveWindow, CwndType

(* A duplicate ack keeps the invariant and the last ack. *)
LEMMA OnDupAckOK ==
  ASSUME NEW c, CwndOK(c)
  PROVE  CwndOK(OnDupAck(c)) /\ OnDupAck(c).lastAck = c.lastAck
  <1> USE CwndAssumption DEF CwndOK
  <1>1. CASE c.state \in {"SS", "CA"} /\ c.dupAck + 1 >= DupThresh
    <2> DEFINE counted == [c EXCEPT !.dupAck = c.dupAck + 1]
               halved  == HalveWindow(counted)
    <2>1. counted \in CwndType
      BY DEF CwndType
    <2>2. halved \in CwndType /\ halved = [counted EXCEPT !.ssthresh = halved.ssthresh]
      BY <2>1, HalveWindowType
    <2>3. counted.dupAck = c.dupAck + 1
      BY DEF CwndType
    <2>4. OnDupAck(c) = [halved EXCEPT !.window = halved.ssthresh + DupThresh,
                                       !.state = "FRR"]
      BY <1>1, <2>2, <2>3, Zenon DEF OnDupAck, DupAck, ToFastRecovRetrans, CwndType
    <2> QED
      <3>1. halved.lastAck = c.lastAck /\ halved.dupAck = c.dupAck + 1
        BY <2>1, <2>2 DEF CwndType
      <3>2. halved.ssthresh \in Nat \ {0}
        BY <2>2, CwndFields
      <3> QED
        <4>1. halved.ssthresh + DupThresh \in Nat \ {0}
          BY <3>2
        <4>2. OnDupAck(c) \in CwndType
          BY <2>2, <2>4, <4>1 DEF CwndType, States
        <4>3. /\ OnDupAck(c).dupAck = c.dupAck + 1
              /\ OnDupAck(c).state = "FRR"
              /\ OnDupAck(c).lastAck = c.lastAck
          BY <2>2, <2>4, <3>1 DEF CwndType
        <4> QED
          BY <1>1, <4>2, <4>3
  <1>2. CASE c.state \in {"SS", "CA"} /\ ~ (c.dupAck + 1 >= DupThresh)
    BY <1>2 DEF OnDupAck, DupAck, CwndType, States
  <1>3. CASE c.state \notin {"SS", "CA"}
    BY <1>3 DEF OnDupAck, DupAckFastRecov, CwndType, States
  <1> QED
    BY <1>1, <1>2, <1>3

(* uint32_t subtraction of sequence numbers stays a natural number. *)
LEMMA MinusNat ==
  ASSUME NEW a \in Seqs, NEW b \in Seqs
  PROVE  Minus(a, b) \in Nat /\ (b <= a => Minus(a, b) = a - b)
  BY CwndAssumption DEF Seqs, Minus

(* A new ack keeps the invariant. *)
LEMMA OnNewAckOK ==
  ASSUME NEW c, CwndOK(c), NEW ack \in Seqs
  PROVE  CwndOK(OnNewAck(c, ack))
  <1> USE CwndAssumption DEF CwndOK
  <1>0. /\ c.window \in Nat \ {0} /\ c.ssthresh \in Nat \ {0}
        /\ c.window + 1 \in Nat \ {0}
    BY CwndFields
  <1>1. CASE c.state = "SS"
    <2> DEFINE grown == [c EXCEPT !.dupAck = 0, !.window = c.window + 1]
    <2>1. OnNewAck(c, ack) = AckSlowStart(c)
      BY <1>1 DEF OnNewAck
    <2>2. grown \in CwndType /\ grown.window = c.window + 1
                            /\ grown.ssthresh = c.ssthresh
                            /\ grown.dupAck = 0 /\ grown.state = "SS"
      BY <1>0, <1>1 DEF CwndType
    <2>3. AckSlowStart(c) = IF grown.window >= grown.ssthresh
                            THEN ToCongAvoid(grown) ELSE grown
      BY <2>2 DEF AckSlowStart, ClearDup, CwndType
    <2>4. CASE grown.window >= grown.ssthresh
      <3>1. ToCongAvoid(grown) \in CwndType
        BY <2>2 DEF ToCongAvoid, CwndType, States
      <3>2. /\ ToCongAvoid(grown).window = c.window + 1
            /\ ToCongAvoid(grown).dupAck = 0
            /\ ToCongAvoid(grown).state = "CA"
            /\ ToCongAvoid(grown).ackThisRound = 0
        BY <2>2 DEF ToCongAvoid, CwndType
      <3> QED
        BY <1>0, <2>1, <2>3, <2>4, <3>1, <3>2
    <2>5. CASE ~ (grown.window >= grown.ssthresh)
      BY <2>1, <2>2, <2>3, <2>5 DEF CwndType, States
    <2> QED
      BY <2>4, <2>5
  <1>2. CASE c.state = "CA"
    <2> DEFINE credit == c.ackThisRound + Minus(ack, c.lastAck)
               full == [c EXCEPT !.dupAck = 0, !.window = c.window + 1,
                                 !.ackThisRound = 0]
               part == [c EXCEPT !.dupAck = 0, !.ackThisRound = credit]
    <2>1. OnNewAck(c, ack) = AckCongAvoid(c, ack)
      BY <1>2 DEF OnNewAck
    <2>2. credit \in Nat
      BY MinusNat, CwndFields
    <2>3. AckCongAvoid(c, ack) = IF credit >= c.window THEN full ELSE part
      BY DEF AckCongAvoid, ClearDup, CwndType
    <2>4. CwndOK(full)
      <3>1. full \in CwndType /\ full.window = c.window + 1
        BY <1>0 DEF CwndType
      <3> QED
        BY <1>0, <1>2, <3>1 DEF CwndType, States
    <2>5. ~ (credit >= c.window) => CwndOK(part)
      <3>1. part \in CwndType /\ part.ackThisRound = credit
        BY <2>2 DEF CwndType
      <3> QED
        BY <1>0, <1>2, <2>2, <3>1 DEF CwndType, States
    <2> QED
      BY <2>1, <2>3, <2>4, <2>5
  <1>3. CASE c.state \in {"FR", "FRR"}
    <2> DEFINE left == [c EXCEPT !.window = c.ssthresh, !.dupAck = 0,
                                 !.state = "CA", !.ackThisRound = 0]
    <2>1. OnNewAck(c, ack) = AckFastRecov(c)
      BY <1>3 DEF OnNewAck
    <2>2. AckFastRecov(c) = left
      BY DEF AckFastRecov, ClearDup, ToCongAvoid, CwndType
    <2>3. left \in CwndType
      BY <1>0 DEF CwndType, States
    <2>4. left.window = c.ssthresh /\ left.dupAck = 0 /\ left.state = "CA"
                                  /\ left.ackThisRound = 0
      BY DEF CwndType
    <2> QED
      BY <1>0, <2>1, <2>2, <2>3, <2>4
  <1>4. c.state \in States
    BY CwndFields
  <1> QED
    BY <1>1, <1>2, <1>3, <1>4 DEF States

(* ackCwnd keeps the invariant, and remembers the ack. *)
LEMMA AckCwndOK ==
  ASSUME NEW c, CwndOK(c), NEW ack \in Seqs
  PROVE  CwndOK(AckCwnd(c, ack)) /\ AckCwnd(c, ack).lastAck = ack
  <1>1. CASE ack = c.lastAck
    BY <1>1, OnDupAckOK DEF AckCwnd
  <1>2. CASE ack # c.lastAck
    BY <1>2, OnNewAckOK DEF AckCwnd, CwndOK, CwndType
  <1> QED
    BY <1>1, <1>2

(* confirmThreeDups keeps the invariant and leaves FAST_RECOV_RETRANS. *)
LEMMA ConfirmOK ==
  ASSUME NEW c, CwndOK(c)
  PROVE  /\ CwndOK(ConfirmThreeDups(c))
         /\ ConfirmThreeDups(c).lastAck = c.lastAck
         /\ ConfirmThreeDups(c).window = c.window
         /\ ConfirmThreeDups(c).state # "FRR"
  BY DEF CwndOK, ConfirmThreeDups, ThreeDups, ToFastRecov, CwndType, States

(* A timeout keeps the invariant and restarts with a window of one. *)
LEMMA TimeoutOK ==
  ASSUME NEW c, CwndOK(c), NEW ack \in Seqs
  PROVE  /\ CwndOK(TimeoutCwnd(c, ack))
         /\ TimeoutCwnd(c, ack).lastAck = c.lastAck
         /\ TimeoutCwnd(c, ack).window = 1
         /\ TimeoutCwnd(c, ack).state # "FRR"
  <1> DEFINE marked == [c EXCEPT !.timeoutAck = ack]
             halved == IF ack # c.timeoutAck THEN HalveWindow(marked) ELSE c
  <1>1. c \in CwndType /\ marked \in CwndType /\ marked.lastAck = c.lastAck
    BY DEF CwndOK, CwndType
  <1>2. halved \in CwndType /\ halved.lastAck = c.lastAck
    BY <1>1, HalveWindowType DEF CwndType
  <1>3. TimeoutCwnd(c, ack) =
          [halved EXCEPT !.dupAck = 0, !.window = 1, !.state = "SS"]
    BY <1>2 DEF TimeoutCwnd, ClearDup, ToSlowStart, CwndType
  <1> QED
    <2>1. halved.ssthresh \in Nat \ {0}
      BY <1>2, CwndFields
    <2> HIDE DEF halved
    <2> DEFINE d == [halved EXCEPT !.dupAck = 0, !.window = 1, !.state = "SS"]
    <2>2. d \in CwndType
      <3>1. 1 \in Nat \ {0} /\ 0 \in Nat /\ "SS" \in States
        BY DEF States
      <3> QED
        BY <1>2, <3>1, Zenon DEF CwndType
    <2>3. /\ d.dupAck = 0 /\ d.window = 1 /\ d.state = "SS"
          /\ d.lastAck = c.lastAck /\ d.ssthresh = halved.ssthresh
      BY <1>2 DEF CwndType
    <2>4. TimeoutCwnd(c, ack) = d
      BY <1>3
    <2> HIDE DEF d
    <2> QED
      BY <2>1, <2>2, <2>3, <2>4, CwndAssumption DEF CwndOK

-----------------------------------------------------------------------------
(***************************************************************************)
(* The inductive invariant of the sender                                   *)
(***************************************************************************)

(* Unless a batch of acks is being processed, the pending base is the base *)
(* and fast retransmit was confirmed; the loop runs exactly below the last     *)
(* chunk; nothing is acknowledged before something was sent.               *)
LoopInv ==
    /\ sendBase <= pend
    /\ got => pc = "drain"
    /\ ~ got => pend = sendBase /\ cwnd.state # "FRR"
    /\ pc \in {"poll", "drain"} => sendBase < N
    /\ pc \in {"closing", "done"} => sendBase = N
    /\ lastSent = NoSeq => pend = 0

SInv ==
    /\ SenderTypeOK
    /\ CwndOK(cwnd)
    /\ cwnd.window <= MaxWindow
    /\ RunningIffArmed
    /\ RetransTimerOff
    /\ LastAckIsBase
    /\ LoopInv

(* The initial state satisfies it. *)
LEMMA SInvInit == InitSender => SInv
  <1> SUFFICES ASSUME InitSender PROVE SInv
    OBVIOUS
  <1>1. CwndOK(cwnd) /\ cwnd = InitCwnd
    BY InitCwndOK DEF InitSender
  <1>2. cwnd.window = InitWindow /\ cwnd.lastAck = NoSeq /\ cwnd.state = "SS"
    BY <1>1 DEF InitCwnd
  <1>3. SenderTypeOK
    <2>1. 0 \in 0 .. N
      BY RdtAssumption
    <2>2. /\ retrans \in BOOLEAN /\ running \in BOOLEAN /\ got \in BOOLEAN
          /\ sockWritable \in BOOLEAN /\ hasTimeout \in BOOLEAN
      BY Zenon DEF InitSender
    <2> QED
      BY <1>1, <2>1, <2>2, Zenon DEF InitSender, SenderTypeOK, CwndOK
  <1>4. cwnd.window <= MaxWindow
    BY <1>2, SenderAssumption
  <1>5. RunningIffArmed /\ RetransTimerOff /\ LastAckIsBase
    BY <1>2 DEF InitSender, RunningIffArmed, RetransTimerOff, LastAckIsBase
  <1>6. LoopInv
    BY <1>2, RdtAssumption DEF InitSender, LoopInv
  <1> QED
    BY <1>1, <1>3, <1>4, <1>5, <1>6 DEF SInv

(* What the invariant says of the sequence number sent next: it is at or   *)
(* above the base, and in the window unless it is the base.                *)
LEMMA NextSeqFacts ==
  ASSUME SInv, pc # "drain"
  PROVE  /\ GetNextSeq \in Nat
         /\ sendBase <= GetNextSeq
         /\ retrans => GetNextSeq = sendBase
         /\ AllowSend(GetNextSeq) => GetNextSeq \in Chunks
                                  /\ GetNextSeq < sendBase + cwnd.window
  <1>1. sendBase \in 0 .. N /\ lastSent \in Chunks \cup {NoSeq}
    BY DEF SInv, SenderTypeOK
  <1>2. N \in Nat /\ NoSeq \in Nat /\ N < NoSeq /\ SeqSpace = NoSeq + 1
    BY RdtAssumption, SenderAssumption, CwndAssumption DEF NoSeq
  <1>3. lastSent = NoSeq => sendBase = 0
    BY DEF SInv, LoopInv
  <1>4. GetNextSeq \in Nat /\ sendBase <= GetNextSeq
                          /\ (retrans => GetNextSeq = sendBase)
    BY <1>1, <1>2, <1>3 DEF GetNextSeq, NextSeq, Inc, Chunks
  <1>5. cwnd.window \in Nat \ {0}
    BY CwndFields DEF SInv, CwndOK
  <1> QED
    BY <1>1, <1>2, <1>4, <1>5 DEF AllowSend, InWindow, Minus, Chunks

(* A step that leaves the window and the bases alone keeps what they say. *)
LEMMA SendPktInv == SInv /\ SendPkt => SInv'
  <1> SUFFICES ASSUME SInv, SendPkt PROVE SInv'
    OBVIOUS
  <1> USE DEF SInv, SendPkt
  <1>1. GetNextSeq \in Chunks /\ (retrans => GetNextSeq = sendBase)
    BY NextSeqFacts DEF CanSend
  <1>2. N \in Nat /\ NoSeq \in Nat /\ N < NoSeq
    BY RdtAssumption, SenderAssumption, CwndAssumption DEF NoSeq
  <1>3. SenderTypeOK'
    BY <1>1, <1>2 DEF SenderTypeOK, Chunks, StartTimerIfNotRunning
  <1>4. CwndOK(cwnd)' /\ (cwnd.window <= MaxWindow)'
    BY DEF CwndOK
  <1>5. RunningIffArmed' /\ RetransTimerOff'
    BY <1>1 DEF RunningIffArmed, RetransTimerOff, StartTimerIfNotRunning
  <1>6. LastAckIsBase' /\ LoopInv'
    BY <1>1, <1>2 DEF LastAckIsBase, LoopInv, Chunks
  <1> QED
    BY <1>3, <1>4, <1>5, <1>6

(* Leaving sendpkts, with or without EAGAIN, keeps the invariant. *)
LEMMA SendEndsInv == SInv /\ (SendBlocked \/ SendStop) => SInv'
  <1> SUFFICES ASSUME SInv, SendBlocked \/ SendStop PROVE SInv'
    OBVIOUS
  <1>1. /\ sockWritable' \in BOOLEAN /\ LoopTest /\ pc = "send"
        /\ UNCHANGED <<sendBase, lastSent, retrans, cwnd, running, fd, pend,
                       got, hasTimeout, data>>
    BY DEF SendBlocked, SendStop, SInv, SenderTypeOK
  <1> QED
    BY <1>1, RdtAssumption
    DEF SInv, LoopTest, SenderTypeOK, CwndOK, RunningIffArmed,
        RetransTimerOff, LastAckIsBase, LoopInv

(* So does the timer running out. *)
LEMMA TimerExpiresInv == SInv /\ TimerExpires => SInv'
  BY DEF SInv, TimerExpires, SenderTypeOK, CwndOK, RunningIffArmed,
         RetransTimerOff, LastAckIsBase, LoopInv

(* An ack processed by ackAll, from a pending base that satisfies the      *)
(* invariant, leaves a window and a pending base that do.                  *)
LEMMA AckOneInv ==
  ASSUME NEW base \in 0 .. N, NEW ack \in 1 .. N, SInv, AckOne(ack, base),
         base = pend
  PROVE  /\ CwndOK(cwnd)' /\ (cwnd.window <= MaxWindow)' /\ LastAckIsBase'
         /\ pend' \in 0 .. N /\ base <= pend' /\ got' = TRUE
  <1>1. N \in Nat /\ N < NoSeq /\ NoSeq \in Nat /\ ack \in Seqs
    BY RdtAssumption, SenderAssumption, CwndAssumption DEF NoSeq, Seqs
  <1>2. CASE ack >= base
    <2>1. pend' = ack /\ cwnd' = AckCwnd(cwnd, ack) /\ cwnd'.window <= MaxWindow
      BY <1>2 DEF AckOne
    <2>2. CwndOK(cwnd') /\ cwnd'.lastAck = ack
      BY <1>1, <2>1, AckCwndOK DEF SInv
    <2> QED
      BY <1>1, <1>2, <2>1, <2>2 DEF LastAckIsBase, CwndOK, AckOne
  <1>3. CASE ~ (ack >= base)
    BY <1>1, <1>3 DEF AckOne, SInv, LastAckIsBase, CwndOK
  <1> QED
    BY <1>2, <1>3

(* Reading an ack keeps the invariant, when something was sent before. *)
LEMMA ReadAckInv ==
  ASSUME SInv, NEW ack \in 1 .. N, ReadAck(ack), lastSent # NoSeq
  PROVE  SInv'
  <1>1. pend \in 0 .. N /\ sendBase \in 0 .. N
    BY DEF SInv, SenderTypeOK
  <1>2. CASE RecvAck(ack)
    <2>1. AckOne(ack, pend)
      BY <1>2 DEF RecvAck
    <2>2. /\ CwndOK(cwnd)' /\ (cwnd.window <= MaxWindow)' /\ LastAckIsBase'
          /\ pend' \in 0 .. N /\ pend <= pend' /\ got' = TRUE
      BY <1>1, <2>1, AckOneInv
    <2> QED
      BY <1>1, <1>2, <2>2, RdtAssumption
      DEF RecvAck, SInv, SenderTypeOK, RunningIffArmed, RetransTimerOff,
          LoopInv, CwndOK
  <1>3. CASE \E out \in BOOLEAN : WakeAck(ack, out)
    <2>1. PICK out \in BOOLEAN : WakeAck(ack, out)
      BY <1>3
    <2>2. AckOne(ack, sendBase) /\ sendBase = pend
      BY <2>1 DEF WakeAck, SInv, LoopInv
    <2>3. /\ CwndOK(cwnd)' /\ (cwnd.window <= MaxWindow)' /\ LastAckIsBase'
          /\ pend' \in 0 .. N /\ sendBase <= pend' /\ got' = TRUE
      BY <1>1, <2>2, AckOneInv
    <2>4. RunningIffArmed' /\ RetransTimerOff' /\ hasTimeout' \in BOOLEAN
          /\ running' \in BOOLEAN /\ fd' \in {"off", "armed", "expired"}
      BY <2>1 DEF WakeAck, TimerEvent, SInv, RunningIffArmed,
                  RetransTimerOff, SenderTypeOK
    <2>5. sockWritable' \in BOOLEAN
      BY <2>1 DEF WakeAck, SInv, SenderTypeOK
    <2> QED
      BY <1>1, <2>1, <2>3, <2>4, <2>5, RdtAssumption
      DEF WakeAck, SInv, SenderTypeOK, LoopInv, CwndOK
  <1> QED
    BY <1>2, <1>3 DEF ReadAck

(* Waking up without an ack, or with nothing to do, keeps the invariant. *)
LEMMA WakeIdleInv ==
  ASSUME SInv, NEW out \in BOOLEAN, WakeIdle(out)
  PROVE  SInv'
  <1>1. RunningIffArmed' /\ RetransTimerOff' /\ hasTimeout' \in BOOLEAN
        /\ running' \in BOOLEAN /\ fd' \in {"off", "armed", "expired"}
    BY DEF WakeIdle, TimerEvent, SInv, RunningIffArmed, RetransTimerOff,
           SenderTypeOK
  <1>2. sockWritable' \in BOOLEAN /\ got' = FALSE /\ pend' = pend
    BY DEF WakeIdle, SInv, SenderTypeOK, LoopInv
  <1> QED
    BY <1>1, <1>2 DEF WakeIdle, SInv, SenderTypeOK, CwndOK, LastAckIsBase, LoopInv

(* merge: the pending base becomes the base, confirmThreeDups and a        *)
(* timeout keep the window in order, and the timer is off for a            *)
(* retransmission.                                                         *)
LEMMA MergeInv == SInv /\ Merge => SInv'
  <1> SUFFICES ASSUME SInv, Merge PROVE SInv'
    OBVIOUS
  <1> DEFINE advanced  == sendBase < pend
             threeDups == ThreeDups(cwnd)
             timedOut  == ~ advanced /\ ~ threeDups /\ hasTimeout
             confirmed == ConfirmThreeDups(cwnd)
  <1>1. pc = "drain" /\ sendBase < N /\ sendBase <= pend
        /\ sendBase \in 0 .. N /\ pend \in 0 .. N /\ N \in Nat
    BY RdtAssumption DEF Merge, SInv, LoopInv, SenderTypeOK
  <1>2. /\ CwndOK(confirmed) /\ confirmed.lastAck = cwnd.lastAck
        /\ confirmed.window = cwnd.window /\ confirmed.state # "FRR"
    BY ConfirmOK DEF SInv
  <1>3. sendBase \in Seqs
    BY <1>1, SenderAssumption, CwndAssumption DEF Seqs, NoSeq
  <1>4. /\ CwndOK(TimeoutCwnd(confirmed, sendBase))
        /\ TimeoutCwnd(confirmed, sendBase).lastAck = confirmed.lastAck
        /\ TimeoutCwnd(confirmed, sendBase).window = 1
        /\ TimeoutCwnd(confirmed, sendBase).state # "FRR"
    BY <1>2, <1>3, TimeoutOK
  <1>5. cwnd' = IF timedOut THEN TimeoutCwnd(confirmed, sendBase) ELSE confirmed
    BY DEF Merge
  <1>6. 1 <= MaxWindow /\ cwnd.window <= MaxWindow
    BY SenderAssumption, CwndAssumption DEF SInv
  <1>7. CwndOK(cwnd') /\ cwnd'.lastAck = cwnd.lastAck
        /\ cwnd'.window <= MaxWindow /\ cwnd'.state # "FRR"
    BY <1>2, <1>4, <1>5, <1>6
  <1>8. sendBase' = pend /\ pend' = pend /\ pc' = "send" /\ lastSent' = lastSent
    BY <1>1 DEF Merge
  <1>9. retrans' \in BOOLEAN /\ (retrans' => StopTimer)
    BY DEF Merge, MergeTimer
  <1>10. StopTimer \/ StartTimer \/ UNCHANGED timerVars
    BY DEF Merge, MergeTimer
  <1>11. ~ retrans' \/ ~ running'
    BY <1>9 DEF StopTimer
  <1>12. running' \in BOOLEAN /\ fd' \in {"off", "armed", "expired"}
         /\ RunningIffArmed'
    <2>1. running \in BOOLEAN /\ fd \in {"off", "armed", "expired"}
          /\ (running <=> fd # "off")
      BY DEF SInv, SenderTypeOK, RunningIffArmed
    <2>2. CASE StopTimer
      BY <2>1, <2>2 DEF StopTimer, RunningIffArmed
    <2>3. CASE StartTimer
      BY <2>3 DEF StartTimer, RunningIffArmed
    <2>4. CASE UNCHANGED timerVars
      BY <2>1, <2>4 DEF timerVars, RunningIffArmed
    <2> QED
      BY <1>10, <2>2, <2>3, <2>4
  <1>13. got' = FALSE /\ hasTimeout' = FALSE /\ data' = data
         /\ sockWritable' = sockWritable /\ sockWritable \in BOOLEAN
    BY DEF Merge, SInv, SenderTypeOK
  <1>14. SenderTypeOK'
    <2>1. /\ got' \in BOOLEAN /\ hasTimeout' \in BOOLEAN
          /\ sockWritable' \in BOOLEAN /\ retrans' \in BOOLEAN
      BY <1>9, <1>13
    <2>2. cwnd' \in CwndType /\ sendBase' \in 0 .. N /\ pend' \in 0 .. N
          /\ lastSent' \in Chunks \cup {NoSeq} /\ data' \subseteq 0 .. N
          /\ pc' \in {"send", "poll", "drain", "closing", "done"}
      BY <1>1, <1>7, <1>8, <1>13 DEF SInv, SenderTypeOK, CwndOK
    <2> QED
      BY <1>12, <2>1, <2>2, Zenon DEF SenderTypeOK
  <1>15. LastAckIsBase' /\ LoopInv' /\ RetransTimerOff'
    BY <1>1, <1>7, <1>8, <1>11, <1>13
    DEF SInv, LastAckIsBase, LoopInv, RetransTimerOff
  <1> QED
    BY <1>7, <1>12, <1>14, <1>15 DEF SInv, CwndOK

(* Going on without an event, and closing, keep the invariant. *)
LEMMA NoEventInv == SInv /\ NoEvent => SInv'
  <1> SUFFICES ASSUME SInv, NoEvent PROVE SInv'
    OBVIOUS
  <1>1. pend = sendBase /\ cwnd.state # "FRR"
    BY DEF SInv, LoopInv, NoEvent
  <1> QED
    BY <1>1 DEF SInv, NoEvent, SenderTypeOK, CwndOK, RunningIffArmed,
                RetransTimerOff, LastAckIsBase, LoopInv

LEMMA CloseInv == SInv /\ Close => SInv'
  BY RdtAssumption
  DEF SInv, Close, SenderTypeOK, CwndOK, RunningIffArmed, RetransTimerOff,
      LastAckIsBase, LoopInv, LastPkt

(* Every step of the sender program, and every ack, keeps the invariant;   *)
(* stated for the steps, so that the transfer can use it as well.          *)
LEMMA SenderStepInv == SInv /\ SenderStep => SInv'
  BY SendPktInv, SendEndsInv, WakeIdleInv, MergeInv, NoEventInv, CloseInv
  DEF SenderStep

(* A step that changes no variable of the sender keeps it as well. *)
LEMMA SenderStutter == SInv /\ UNCHANGED senderVars => SInv'
  BY DEF senderVars, SInv, SenderTypeOK, CwndOK, RunningIffArmed,
         RetransTimerOff, LastAckIsBase, LoopInv

(***************************************************************************)
(* What was sent, with the sender's own environment: acknowledged chunks   *)
(* and everything up to lastSent were sent.                                *)
(***************************************************************************)
SentInv ==
    /\ NoGap
    /\ \A q \in Chunks : q < pend => q \in data
    /\ \A q \in Chunks : lastSent # NoSeq /\ q <= lastSent => q \in data
    /\ lastSent = NoSeq => data \cap Chunks = {}

(* Nothing is sent at first. *)
LEMMA SentInvInit == InitSender => SentInv
  BY RdtAssumption DEF InitSender, SentInv, NoGap, Chunks

(* Sending the next chunk leaves no gap. *)
LEMMA SendPktSent == SInv /\ SentInv /\ SendPkt => SentInv'
  <1> SUFFICES ASSUME SInv, SentInv, SendPkt PROVE SentInv'
    OBVIOUS
  <1>1. GetNextSeq \in Chunks /\ data' = data \cup {GetNextSeq}
        /\ lastSent' = GetNextSeq /\ pend' = pend
    BY NextSeqFacts DEF SendPkt, CanSend
  <1>2. sendBase = pend /\ sendBase \in 0 .. N /\ N \in Nat /\ N < NoSeq
        /\ NoSeq \in Nat /\ lastSent \in Chunks \cup {NoSeq}
    BY RdtAssumption, SenderAssumption, CwndAssumption
    DEF SInv, LoopInv, SenderTypeOK, SendPkt, NoSeq
  <1>3. \A q \in Chunks : q < GetNextSeq => q \in data
    BY <1>1, <1>2
    DEF SentInv, GetNextSeq, NextSeq, Inc, Chunks, SInv, LoopInv
  <1>4. NoGap'
    BY <1>1, <1>2, <1>3 DEF SentInv, NoGap, Chunks, LastPkt
  <1> QED
    BY <1>1, <1>2, <1>3, <1>4 DEF SentInv, Chunks

(* The other steps send no chunk, and acknowledge only what was sent. *)
LEMMA OtherSent ==
  ASSUME SInv, SentInv, lastSent' = lastSent,
         data' = data \/ data' = data \cup {LastPkt},
         pend' = pend \/ pend' = sendBase
                      \/ \E ack \in Acknowledgeable : pend' = ack
  PROVE  SentInv'
  <1>1. N \in Nat /\ pend \in 0 .. N /\ sendBase \in 0 .. N /\ sendBase <= pend
    BY RdtAssumption DEF SInv, SenderTypeOK, LoopInv
  <1>2. \A q \in Chunks : q \in data' <=> q \in data
    BY <1>1 DEF Chunks, LastPkt
  <1>3. NoGap'
    BY <1>1, <1>2 DEF SentInv, NoGap, Chunks, LastPkt
  <1>4. \A q \in Chunks : q < pend' => q \in data
    <2>1. CASE \E ack \in Acknowledgeable : pend' = ack
      BY <1>1, <2>1 DEF Acknowledgeable, SentInv, NoGap, Chunks, LastPkt
    <2> QED
      BY <1>1, <2>1 DEF SentInv, Chunks
  <1> QED
    BY <1>2, <1>3, <1>4 DEF SentInv, Chunks

-----------------------------------------------------------------------------
(***************************************************************************)
(* Theorems of the sender                                                  *)
(***************************************************************************)

(* Every step of the sender and its environment keeps both invariants. *)
LEMMA SenderInductive ==
  SInv /\ SentInv /\ [SenderNext]_senderVars => SInv' /\ SentInv'
  <1> SUFFICES ASSUME SInv, SentInv, [SenderNext]_senderVars
               PROVE  SInv' /\ SentInv'
    OBVIOUS
  <1>1. CASE SendPkt
    BY <1>1, SendPktInv, SendPktSent
  <1>2. CASE SendBlocked \/ SendStop
    BY <1>2, SendEndsInv, OtherSent DEF SendBlocked, SendStop
  <1>3. ASSUME NEW out \in BOOLEAN, WakeIdle(out)
        PROVE  SInv' /\ SentInv'
    BY <1>3, WakeIdleInv, OtherSent DEF WakeIdle
  <1>4. CASE Merge
    BY <1>4, MergeInv, OtherSent DEF Merge
  <1>5. CASE NoEvent
    BY <1>5, NoEventInv, OtherSent DEF NoEvent
  <1>6. CASE Close
    BY <1>6, CloseInv, OtherSent DEF Close
  <1>7. CASE TimerExpires
    BY <1>7, TimerExpiresInv, OtherSent DEF TimerExpires
  <1>8. ASSUME NEW ack \in Acknowledgeable, ReadAck(ack)
        PROVE  SInv' /\ SentInv'
    <2>1. ack \in 1 .. N /\ ack - 1 \in data /\ ack - 1 \in Chunks
      BY RdtAssumption DEF Acknowledgeable, Chunks
    <2>2. lastSent # NoSeq
      BY <2>1 DEF SentInv
    <2>3. data' = data /\ lastSent' = lastSent
          /\ (pend' = ack \/ pend' = pend \/ pend' = sendBase)
      BY <1>8 DEF ReadAck, RecvAck, WakeAck, AckOne
    <2>4. SInv'
      BY <1>8, <2>1, <2>2, ReadAckInv
    <2>5. SentInv'
      BY <2>3, OtherSent
    <2> QED
      BY <2>4, <2>5
  <1>9. CASE UNCHANGED senderVars
    BY <1>9, SenderStutter, OtherSent DEF senderVars
  <1> QED
    BY <1>1, <1>2, <1>3, <1>4, <1>5, <1>6, <1>7, <1>8, <1>9
    DEF SenderNext, SenderStep, Terminated

(* The sender's variables keep their types: no window of 0, no sequence    *)
(* number beyond the file, for every file length and window.               *)
THEOREM SenderTypeCorrect == SenderSpec => []SenderTypeOK
  <1>1. SInv => SenderTypeOK
    BY DEF SInv
  <1> QED
    BY <1>1, SInvInit, SentInvInit, SenderInductive, PTL DEF SenderSpec

(* The flag timer.running is TRUE exactly when the kernel timer is armed   *)
(* or its expiry unread (Timer in sender_main.c).                          *)
THEOREM TimerCorrect == SenderSpec => []RunningIffArmed
  <1>1. SInv => RunningIffArmed
    BY DEF SInv
  <1> QED
    BY <1>1, SInvInit, SentInvInit, SenderInductive, PTL DEF SenderSpec

(* A retransmission that is due has the timer off, so that sending it      *)
(* starts the timer anew.                                                  *)
THEOREM RetransTimerCorrect == SenderSpec => []RetransTimerOff
  <1>1. SInv => RetransTimerOff
    BY DEF SInv
  <1> QED
    BY <1>1, SInvInit, SentInvInit, SenderInductive, PTL DEF SenderSpec

(* The ack that duplicates are compared with is the pending base.          *)
THEOREM LastAckCorrect == SenderSpec => []LastAckIsBase
  <1>1. SInv => LastAckIsBase
    BY DEF SInv
  <1> QED
    BY <1>1, SInvInit, SentInvInit, SenderInductive, PTL DEF SenderSpec

(* The congestion window: fast recovery goes with three duplicates, the    *)
(* round's credit stays below the window, slow start below the threshold.  *)
THEOREM WindowCorrect ==
  SenderSpec => [](DupCountMatchesState /\ WindowDiscipline)
  <1>1. SInv => DupCountMatchesState /\ WindowDiscipline
    BY DEF SInv, CwndOK, DupCountMatchesState, WindowDiscipline
  <1> QED
    BY <1>1, SInvInit, SentInvInit, SenderInductive, PTL DEF SenderSpec

(* Chunks are first sent in order, without a gap. *)
THEOREM SentWithoutGap == SenderSpec => []NoGap
  <1>1. SentInv => NoGap
    BY DEF SentInv
  <1> QED
    BY <1>1, SInvInit, SentInvInit, SenderInductive, PTL DEF SenderSpec

(***************************************************************************)
(* Steps of the sender: what is sent, and when it closes                   *)
(***************************************************************************)

(* A chunk is sent only inside the window above the base. *)
THEOREM SendsInWindowHolds == SenderSpec => SendsInWindow
  <1> DEFINE A == lastSent' # lastSent =>
                     sendBase <= lastSent' /\ lastSent' < sendBase + cwnd.window
  <1>1. SInv /\ [SenderNext]_senderVars => [A]_senderVars
    <2> SUFFICES ASSUME SInv, SenderNext, lastSent' # lastSent
                 PROVE  sendBase <= lastSent' /\ lastSent' < sendBase + cwnd.window
      OBVIOUS
    <2>1. SendPkt
      BY DEF SenderNext, SenderStep, SendBlocked, SendStop, WakeIdle, Merge,
             NoEvent, Close, TimerExpires, ReadAck, RecvAck, WakeAck,
             Terminated, senderVars
    <2> QED
      BY <2>1, NextSeqFacts DEF SendPkt, CanSend
  <1> QED
    BY <1>1, SInvInit, SentInvInit, SenderInductive, PTL
    DEF SenderSpec, SendsInWindow

(* The base never moves back, and the sender closes only at the end. *)
THEOREM BaseMonotoneHolds == SenderSpec => BaseMonotone
  <1> DEFINE B == sendBase <= sendBase' /\ (pc' = "closing" => sendBase = N)
  <1>1. SInv /\ [SenderNext]_senderVars => [B]_senderVars
    <2> SUFFICES ASSUME SInv, SenderNext PROVE B
      OBVIOUS
    <2>1. sendBase \in 0 .. N /\ pend \in 0 .. N /\ sendBase <= pend
          /\ N \in Nat /\ (pc = "closing" => sendBase = N)
      BY RdtAssumption DEF SInv, SenderTypeOK, LoopInv
    <2>2. sendBase' = sendBase \/ (sendBase' = pend /\ pc' = "send")
      BY DEF SenderNext, SenderStep, SendPkt, SendBlocked, SendStop, WakeIdle,
             Merge, NoEvent, Close, TimerExpires, ReadAck, RecvAck, WakeAck,
             Terminated, senderVars
    <2>3. pc' = "closing" => pc = "closing" \/ ~ (sendBase < N)
      BY DEF SenderNext, SenderStep, SendPkt, SendBlocked, SendStop, WakeIdle,
             Merge, NoEvent, Close, TimerExpires, ReadAck, RecvAck, WakeAck,
             Terminated, senderVars, LoopTest
    <2> QED
      BY <2>1, <2>2, <2>3
  <1> QED
    BY <1>1, SInvInit, SentInvInit, SenderInductive, PTL
    DEF SenderSpec, BaseMonotone

(***************************************************************************)
(* The sender never sleeps unguarded, when its socket never blocks.  While *)
(* it handles events, either the timer runs or its expiry was taken; when  *)
(* it starts sending with the timer off, nothing is outstanding, so that   *)
(* the base goes out and starts the timer.                                 *)
(***************************************************************************)
GuardInv ==
    /\ sockWritable
    /\ pc = "poll" => running
    /\ pc = "drain" => running \/ hasTimeout
    /\ pc = "send" => running \/ sendBase = N \/ GetNextSeq = sendBase

(* The window always lets the base out. *)
LEMMA BaseCanGo ==
  ASSUME SInv, pc # "drain", sockWritable, sendBase # N, GetNextSeq = sendBase
  PROVE  CanSend
  <1>1. sendBase \in 0 .. N /\ N \in Nat /\ cwnd.window \in Nat \ {0}
    BY RdtAssumption, CwndFields DEF SInv, SenderTypeOK, CwndOK
  <1> QED
    BY <1>1 DEF CanSend, AllowSend, InWindow, Minus

(* After merge the timer runs, or the base is next. *)
LEMMA MergeGuard ==
  ASSUME SInv, GuardInv, Merge
  PROVE  running' \/ GetNextSeq' = sendBase'
  <1>1. /\ sendBase \in 0 .. N /\ pend \in 0 .. N /\ sendBase <= pend
        /\ lastSent \in Chunks \cup {NoSeq} /\ N \in Nat /\ N < NoSeq
        /\ NoSeq \in Nat /\ (lastSent = NoSeq => pend = 0)
        /\ (running \/ hasTimeout)
    BY RdtAssumption, SenderAssumption, CwndAssumption
    DEF SInv, SenderTypeOK, LoopInv, GuardInv, NoSeq, Merge
  <1>2. sendBase' = pend /\ lastSent' = lastSent
    BY <1>1 DEF Merge
  <1>3. CASE retrans'
    BY <1>3 DEF GetNextSeq, NextSeq
  <1>4. CASE ~ retrans' /\ sendBase < pend
    <2>1. CASE pend < NextSeq(FALSE, pend, lastSent)
      BY <1>4, <2>1 DEF Merge, MergeTimer, StartTimer
    <2>2. CASE ~ (pend < NextSeq(FALSE, pend, lastSent))
      <3> DEFINE next == NextSeq(FALSE, pend, lastSent)
      <3>1. next \in Nat /\ pend <= next
        BY <1>1 DEF NextSeq, Inc, Chunks
      <3>2. GetNextSeq' = next
        BY <1>2, <1>4 DEF GetNextSeq, NextSeq
      <3>3. ~ (pend < next)
        BY <2>2
      <3> HIDE DEF next
      <3>4. next = pend
        BY <1>1, <3>1, <3>3
      <3> QED
        BY <1>2, <3>2, <3>4
    <2> QED
      BY <2>1, <2>2
  <1>5. CASE ~ retrans' /\ ~ (sendBase < pend)
    <2>1. ~ ThreeDups(cwnd) /\ ~ hasTimeout
      BY <1>5 DEF Merge
    <2>2. UNCHANGED timerVars
      BY <1>5, <2>1 DEF Merge, MergeTimer
    <2> QED
      BY <1>1, <2>1, <2>2 DEF timerVars
  <1> QED
    BY <1>3, <1>4, <1>5

(* Every step keeps the guard. *)
LEMMA GuardInductive ==
  ASSUME MayBlock = FALSE, SInv, GuardInv, [SenderNext]_senderVars
  PROVE  GuardInv'
  <1>1. CASE SendPkt
    BY <1>1 DEF SendPkt, GuardInv, StartTimerIfNotRunning
  <1>2. CASE SendBlocked
    BY <1>2 DEF SendBlocked
  <1>3. CASE SendStop
    <2>1. running \/ sendBase = N
      BY <1>3, BaseCanGo DEF SendStop, GuardInv
    <2>2. sendBase \in 0 .. N /\ N \in Nat
      BY RdtAssumption DEF SInv, SenderTypeOK
    <2> QED
      BY <1>3, <2>1, <2>2 DEF SendStop, GuardInv, LoopTest
  <1>4. ASSUME NEW out \in BOOLEAN, WakeIdle(out) PROVE GuardInv'
    BY <1>4 DEF WakeIdle, TimerEvent, GuardInv
  <1>5. CASE Merge
    BY <1>5, MergeGuard DEF Merge, GuardInv
  <1>6. CASE NoEvent
    BY <1>6 DEF NoEvent, GuardInv
  <1>7. CASE Close
    BY <1>7 DEF Close, GuardInv
  <1>8. CASE TimerExpires
    BY <1>8 DEF TimerExpires, GuardInv, GetNextSeq
  <1>9. ASSUME NEW ack \in Acknowledgeable, ReadAck(ack) PROVE GuardInv'
    BY <1>9 DEF ReadAck, RecvAck, WakeAck, TimerEvent, GuardInv
  <1>10. CASE UNCHANGED senderVars
    BY <1>10 DEF senderVars, GuardInv, GetNextSeq
  <1> QED
    BY <1>1, <1>2, <1>3, <1>4, <1>5, <1>6, <1>7, <1>8, <1>9, <1>10
    DEF SenderNext, SenderStep, Terminated

(* With a socket that never blocks, the sender never waits in epoll_wait   *)
(* without its timer: every lost chunk or ack is noticed.                  *)
THEOREM GuardedHolds ==
  ASSUME MayBlock = FALSE
  PROVE  SenderSpec => []Guarded
  <1>1. InitSender => GuardInv
    BY CwndAssumption DEF InitSender, GuardInv, GetNextSeq, NextSeq, Inc
  <1>2. SInv /\ GuardInv /\ [SenderNext]_senderVars => GuardInv'
    BY GuardInductive
  <1>3. GuardInv => Guarded
    BY DEF GuardInv, Guarded
  <1> QED
    BY <1>1, <1>2, <1>3, SInvInit, SentInvInit, SenderInductive, PTL
    DEF SenderSpec
=============================================================================
