--------------------------- MODULE TransferProofs ---------------------------
(***************************************************************************)
(* Theorems about the whole transfer, over a network that may lose,        *)
(* duplicate and reorder datagrams, for every file length and every window *)
(* no larger than the receiver's ring.                                     *)
(***************************************************************************)
EXTENDS Transfer, RdtProofs

(***************************************************************************)
(* The invariant that joins the two programs: nothing is acknowledged that *)
(* the receiver has not taken over, nothing is sent beyond the window, the *)
(* last packet only after the end, and before the first packet the         *)
(* receiver knows of nothing.                                              *)
(***************************************************************************)
NetInv ==
    /\ lost \in 0 .. MaxLoss
    /\ pend <= ackNum
    /\ \A q \in data \ {LastPkt} : q < sendBase + MaxWindow
    /\ LastPkt \in data => pc = "done"
    /\ lastSent = NoSeq => /\ data = {} /\ acks = {}
                           /\ rpc = "recv" /\ wrote = 0

TInv == SInv /\ RInv /\ NetInv

(* The initial state satisfies it. *)
LEMMA TInvInit == Init => TInv
  <1> SUFFICES ASSUME Init PROVE TInv
    OBVIOUS
  <1>1. SInv /\ RInv
    BY SInvInit, RInvInit DEF Init
  <1>2. NetInv
    BY TransferAssumption DEF Init, InitSender, InitReceiver, NetInv
  <1> QED
    BY <1>1, <1>2 DEF TInv

(* The numbers the invariant relates. *)
LEMMA Numbers ==
  ASSUME TInv
  PROVE  /\ N \in Nat \ {0} /\ sendBase \in 0 .. N /\ pend \in 0 .. N
         /\ ackNum \in 0 .. N /\ wrote \in 0 .. N /\ data \subseteq 0 .. N
         /\ MaxWindow \in Nat /\ Window \in Nat \ {0} /\ NoSeq \in Nat
         /\ N < NoSeq /\ sendBase <= pend /\ pend <= ackNum
         /\ cwnd.window \in Nat \ {0} /\ cwnd.window <= MaxWindow
  <1>1. cwnd.window \in Nat \ {0}
    BY CwndFields DEF TInv, SInv, CwndOK
  <1> QED
    BY <1>1, RdtAssumption, SenderAssumption, CwndAssumption, ReceiverAssumption
    DEF TInv, SInv, SenderTypeOK, LoopInv, RInv, ReceiverTypeOK, NetInv, NoSeq

(* Once the sender has left its loop, the receiver has left its own, or is *)
(* writing the last chunks.                                                *)
LEMMA ReceiverIsThrough ==
  ASSUME TInv, pc \in {"closing", "done"}
  PROVE  ackNum = N /\ rpc \in {"flush", "linger", "closed"}
  <1>1. sendBase = N
    BY DEF TInv, SInv, LoopInv
  <1>2. ackNum = N
    BY <1>1, Numbers
  <1>3. rpc # "recv" /\ rpc # "spin"
    BY <1>2, Numbers DEF TInv, RInv, PlaceInv
  <1> QED
    BY <1>2, <1>3 DEF TInv, RInv, ReceiverTypeOK

(* A step of the sender program keeps the invariant. *)
LEMMA SenderActInv == TInv /\ SenderAct => TInv'
  <1> SUFFICES ASSUME TInv, SenderAct PROVE TInv'
    OBVIOUS
  <1>1. SInv' /\ RInv'
    BY SenderStepInv, ReceiverStutter DEF TInv, SenderAct
  <1>2. /\ lost' = lost /\ ackNum' = ackNum /\ acks' = acks /\ rpc' = rpc
        /\ wrote' = wrote
    BY DEF SenderAct, receiverVars
  <1>3. CASE SendPkt
    <2>1. /\ GetNextSeq \in Chunks /\ GetNextSeq < sendBase + cwnd.window
      BY <1>3, NextSeqFacts DEF TInv, SendPkt, CanSend
    <2>2. /\ data' = data \cup {GetNextSeq} /\ lastSent' = GetNextSeq
          /\ sendBase' = sendBase /\ pend' = pend /\ pc' = pc /\ pc = "send"
      BY <1>3 DEF SendPkt
    <2>3. GetNextSeq # NoSeq /\ GetNextSeq # LastPkt
          /\ GetNextSeq < sendBase + MaxWindow
      BY <2>1, Numbers DEF Chunks, LastPkt
    <2> QED
      BY <1>1, <1>2, <2>2, <2>3 DEF TInv, NetInv
  <1>4. CASE Close
    <2>1. /\ data' = data \cup {LastPkt} /\ pc' = "done" /\ pc = "closing"
          /\ UNCHANGED <<sendBase, lastSent, pend>>
      BY <1>4 DEF Close
    <2>2. lastSent # NoSeq
      BY <2>1, ReceiverIsThrough DEF TInv, NetInv
    <2>3. data' \ {LastPkt} = data \ {LastPkt}
      BY <2>1
    <2> QED
      BY <1>2, <1>1, <2>1, <2>2, <2>3 DEF TInv, NetInv
  <1>5. CASE Merge
    <2>1. /\ data' = data /\ pend' = pend /\ sendBase' = pend
          /\ lastSent' = lastSent /\ pc = "drain"
      BY <1>5, Numbers DEF Merge
    <2> QED
      BY <1>1, <1>2, <2>1, Numbers DEF TInv, NetInv
  <1>6. CASE \E out \in BOOLEAN : WakeIdle(out)
    <2>1. /\ data' = data /\ pend' = sendBase /\ sendBase' = sendBase
          /\ lastSent' = lastSent /\ pc = "poll"
      BY <1>6 DEF WakeIdle
    <2> QED
      BY <1>1, <1>2, <2>1, Numbers DEF TInv, NetInv
  <1>7. CASE SendBlocked \/ SendStop \/ NoEvent
    <2>1. /\ data' = data /\ pend' = pend /\ sendBase' = sendBase
          /\ lastSent' = lastSent /\ pc # "done"
      BY <1>7 DEF SendBlocked, SendStop, NoEvent
    <2> QED
      BY <1>1, <1>2, <2>1 DEF TInv, NetInv
  <1> QED
    BY <1>3, <1>4, <1>5, <1>6, <1>7 DEF SenderAct, SenderStep

(* So does the timer. *)
LEMMA TimerActInv == TInv /\ TimerAct => TInv'
  <1> SUFFICES ASSUME TInv, TimerAct PROVE TInv'
    OBVIOUS
  <1>1. SInv' /\ RInv'
    BY TimerExpiresInv, ReceiverStutter DEF TInv, TimerAct
  <1> QED
    BY <1>1 DEF TInv, TimerAct, TimerExpires, receiverVars, NetInv

(* Reading an ack moves the pending base no further than the receiver. *)
LEMMA SenderReadsInv ==
  ASSUME TInv, NEW a \in acks, SenderReads(a)
  PROVE  TInv'
  <1>1. a \in Acks /\ a.num \in 1 .. N /\ a.num <= ackNum
    BY AckType DEF TInv, RInv, ReceiverTypeOK, PlaceInv
  <1>2. lastSent # NoSeq
    BY DEF TInv, NetInv
  <1>3. SInv'
    BY <1>1, <1>2, ReadAckInv DEF TInv, SenderReads
  <1>4. /\ acks' \subseteq acks /\ lost' = lost
        /\ UNCHANGED <<wrote, ackNum, file, ring, fin, rpc, lingered>>
    BY DEF SenderReads, Remaining, receiverState
  <1>5. RInv'
    BY <1>4 DEF TInv, RInv, ReceiverTypeOK, FilePrefix, RingHolds, PlaceInv
  <1>6. /\ data' = data /\ sendBase' = sendBase /\ lastSent' = lastSent
        /\ (pend' = a.num \/ pend' = pend \/ pend' = sendBase)
        /\ pc # "done"
    BY DEF SenderReads, ReadAck, RecvAck, WakeAck, AckOne
  <1> QED
    BY <1>1, <1>2, <1>3, <1>4, <1>5, <1>6, Numbers DEF TInv, NetInv

(* The receiver working on its own. *)
LEMMA ReceiverActInv == TInv /\ ReceiverAct => TInv'
  <1> SUFFICES ASSUME TInv, ReceiverAct PROVE TInv'
    OBVIOUS
  <1>1. SInv' /\ RInv'
    BY SenderStutter, ReceiverStepInv DEF TInv, ReceiverAct
  <1>2. UNCHANGED senderVars /\ lost' = lost /\ rpc # "recv" /\ ackNum' = ackNum
    BY DEF ReceiverAct, ReceiverStep, WriteSlot, LingerAck, CloseFile
  <1>3. NetInv'
    BY <1>2 DEF TInv, NetInv, senderVars
  <1> QED
    BY <1>1, <1>3 DEF TInv

(* A packet from elsewhere makes the receiver repeat its last ack. *)
LEMMA StrayInv == TInv /\ Stray => TInv'
  <1> SUFFICES ASSUME TInv, Stray PROVE TInv'
    OBVIOUS
  <1>1. SInv' /\ RInv'
    BY SenderStutter, RcvFailInv DEF TInv, Stray
  <1>2. /\ UNCHANGED senderVars /\ lost' = lost /\ ackNum' = ackNum
        /\ wrote > 0 /\ wrote' = wrote /\ rpc' = rpc
    BY DEF Stray, RcvFail
  <1>3. NetInv'
    BY <1>2, Numbers DEF TInv, NetInv, senderVars
  <1> QED
    BY <1>1, <1>3 DEF TInv

(* A packet the receiver reads is a chunk that fits its ring: the last     *)
(* packet is sent when the receiver no longer reads, and the window of the *)
(* sender starts at a base the receiver has passed.                        *)
LEMMA PacketFits ==
  ASSUME MaxWindow <= Window, TInv, rpc = "recv", NEW p \in data
  PROVE  p \in Chunks /\ p < wrote + Window
  <1>1. p # LastPkt
    BY ReceiverIsThrough DEF TInv, NetInv
  <1>2. p \in Chunks
    BY <1>1, Numbers DEF Chunks, LastPkt
  <1>3. p < sendBase + MaxWindow /\ wrote = ackNum
    BY <1>1 DEF TInv, NetInv, RInv, PlaceInv
  <1> QED
    BY <1>2, <1>3, Numbers DEF Chunks

(* Reading it keeps the invariant. *)
LEMMA ReceiverReadsInv ==
  ASSUME MaxWindow <= Window, TInv, NEW p \in data, ReceiverReads(p)
  PROVE  TInv'
  <1>1. rpc = "recv" /\ Rcv(p)
    BY DEF ReceiverReads, Rcv, RcvUnknown, RcvExpected, RcvAhead, RcvOld
  <1>2. p \in Chunks /\ p < wrote + Window
    BY <1>1, PacketFits
  <1>3. RInv'
    BY <1>1, <1>2, RcvInv DEF TInv
  <1>4. /\ data' \subseteq data /\ lost' = lost
        /\ UNCHANGED <<sendBase, lastSent, retrans, cwnd, running, fd,
                       sockWritable, pend, got, hasTimeout, pc>>
    BY DEF ReceiverReads, Remaining, senderState
  <1>5. SInv'
    BY <1>4 DEF TInv, SInv, SenderTypeOK, CwndOK, RunningIffArmed,
                RetransTimerOff, LastAckIsBase, LoopInv
  <1>6. ackNum' >= ackNum
    BY <1>1, RcvProgress DEF TInv
  <1>7. ackNum' \in 0 .. N
    BY <1>3 DEF RInv, ReceiverTypeOK
  <1>8. lastSent # NoSeq
    BY DEF TInv, NetInv
  <1>9. pend <= ackNum'
    BY <1>6, <1>7, Numbers
  <1>10. NetInv'
    BY <1>4, <1>8, <1>9 DEF TInv, NetInv
  <1> QED
    BY <1>3, <1>5, <1>10 DEF TInv

(* Losing datagrams loses nothing the invariant needs. *)
LEMMA LossInv ==
  ASSUME TInv,
         (\E p \in data : LoseData(p)) \/ (\E a \in acks : LoseAck(a))
  PROVE  TInv'
  <1>1. /\ data' \subseteq data /\ acks' \subseteq acks /\ lost' \in 0 .. MaxLoss
        /\ UNCHANGED senderState /\ UNCHANGED receiverState
    <2>1. lost \in 0 .. MaxLoss /\ MaxLoss \in Nat
      BY TransferAssumption DEF TInv, NetInv
    <2> QED
      BY <2>1 DEF LoseData, LoseAck, senderVars, receiverVars, senderState,
                  receiverState
  <1>2. SInv'
    BY <1>1 DEF senderState, TInv, SInv, SenderTypeOK, CwndOK,
                RunningIffArmed, RetransTimerOff, LastAckIsBase, LoopInv
  <1>3. RInv'
    BY <1>1 DEF receiverState, TInv, RInv, ReceiverTypeOK, FilePrefix,
                RingHolds, PlaceInv
  <1>4. NetInv'
    BY <1>1 DEF senderState, receiverState, TInv, NetInv
  <1> QED
    BY <1>2, <1>3, <1>4 DEF TInv

(* The invariant is inductive. *)
LEMMA TInvNext ==
  ASSUME MaxWindow <= Window, TInv, [Next]_vars
  PROVE  TInv'
  <1>1. CASE UNCHANGED vars
    <2>1. UNCHANGED senderVars /\ UNCHANGED receiverVars /\ lost' = lost
      BY <1>1 DEF vars, senderVars, receiverVars
    <2>2. SInv' /\ RInv'
      BY <2>1, SenderStutter, ReceiverStutter DEF TInv
    <2> QED
      BY <2>1, <2>2 DEF TInv, NetInv, senderVars, receiverVars
  <1>2. CASE \E a \in acks : SenderReads(a) \/ LoseAck(a)
    BY <1>2, SenderReadsInv, LossInv
  <1>3. CASE \E p \in data : ReceiverReads(p) \/ LoseData(p)
    BY <1>3, ReceiverReadsInv, LossInv
  <1> QED
    BY <1>1, <1>2, <1>3, SenderActInv, TimerActInv, ReceiverActInv, StrayInv
    DEF Next, Finished

LEMMA TInvAlways ==
  ASSUME MaxWindow <= Window
  PROVE  Spec => []TInv
  <1>1. TInv /\ [Next]_vars => TInv'
    BY TInvNext
  <1> QED
    BY <1>1, TInvInit, PTL DEF Spec

-----------------------------------------------------------------------------
(***************************************************************************)
(* The theorems.  MaxWindow <= Window is the condition the code does not   *)
(* enforce: cwnd.window may grow past WINDOW (run overrun).                *)
(***************************************************************************)

(* Both programs and the network keep their types. *)
THEOREM TypeCorrect ==
  ASSUME MaxWindow <= Window
  PROVE  Spec => []TypeOK
  <1>1. TInv => TypeOK
    BY DEF TInv, SInv, RInv, NetInv, TypeOK
  <1> QED
    BY <1>1, TInvAlways, PTL

(* Over a network that loses, repeats and reorders datagrams, the file is  *)
(* always a prefix of the source (flush in receiver_main.c).               *)
THEOREM FileCorrect ==
  ASSUME MaxWindow <= Window
  PROVE  Spec => []FilePrefix
  <1>1. TInv => FilePrefix
    BY DEF TInv, RInv
  <1> QED
    BY <1>1, TInvAlways, PTL

(* Every slot of the ring holds the chunk of its number, of this round or  *)
(* not at all, whatever the network delivers.                              *)
THEOREM RingStaysRight ==
  ASSUME MaxWindow <= Window
  PROVE  Spec => []RingHolds
  <1>1. TInv => RingHolds
    BY DEF TInv, RInv
  <1> QED
    BY <1>1, TInvAlways, PTL

(* The receiver's loop that counts the chunks in a row ends: the ring is   *)
(* never full of them.                                                     *)
THEOREM CountingEnds ==
  ASSUME MaxWindow <= Window
  PROVE  Spec => []NoSpin
  <1>1. TInv => NoSpin
    BY DEF TInv, RInv, PlaceInv, NoSpin
  <1> QED
    BY <1>1, TInvAlways, PTL

(* Every ack in flight is for chunks the receiver holds. *)
THEOREM AcksCorrect ==
  ASSUME MaxWindow <= Window
  PROVE  Spec => []AcksHeld
  <1>1. TInv => AcksHeld
    BY AcksAreHeld, RInvAhead DEF TInv
  <1> QED
    BY <1>1, TInvAlways, PTL

(* The sender's base never passes what the receiver has taken over. *)
THEOREM BaseCorrect ==
  ASSUME MaxWindow <= Window
  PROVE  Spec => []BaseBehindReceiver
  <1>1. TInv => BaseBehindReceiver
    BY DEF TInv, SInv, LoopInv, RInv, PlaceInv, NetInv, BaseBehindReceiver
  <1> QED
    BY <1>1, TInvAlways, PTL

(* Every chunk in flight fits the ring. *)
THEOREM FlightCorrect ==
  ASSUME MaxWindow <= Window
  PROVE  Spec => []InFlightBounded
  <1>1. TInv => InFlightBounded
    <2> SUFFICES ASSUME TInv, NEW q \in data \ {LastPkt}
                 PROVE  q < ackNum + Window
      BY DEF InFlightBounded
    <2>1. q < sendBase + MaxWindow /\ q \in Nat
      BY Numbers DEF TInv, NetInv
    <2> QED
      BY <2>1, Numbers
  <1> QED
    BY <1>1, TInvAlways, PTL

(* When the sender has returned, the receiver has every chunk and has left *)
(* its loop, or will as soon as the last chunks are written.               *)
THEOREM EndCorrect ==
  ASSUME MaxWindow <= Window
  PROVE  Spec => []DoneMeansReceived
  <1>1. TInv => DoneMeansReceived
    BY ReceiverIsThrough DEF DoneMeansReceived
  <1> QED
    BY <1>1, TInvAlways, PTL

(* The receiver never reads a last packet, whose sequence number 0 is that *)
(* of a chunk.                                                             *)
THEOREM LastPacketLeft ==
  ASSUME MaxWindow <= Window
  PROVE  Spec => []LastPktUnread
  <1>1. TInv => LastPktUnread
    BY ReceiverIsThrough DEF LastPktUnread, TInv, NetInv
  <1> QED
    BY <1>1, TInvAlways, PTL

-----------------------------------------------------------------------------
(***************************************************************************)
(* The refinement.                                                         *)
(***************************************************************************)
absVars == <<ackNum, file, sendBase, pc = "done">>

(* The transfer starts where the abstract one starts. *)
LEMMA AbstractInit == Init => Abstract!Init
  BY DEF Init, InitSender, InitReceiver, Abstract!Init

(* A step that changes only the receiver is a step of the abstract one. *)
LEMMA ReceiverRefines ==
  ASSUME TInv, TInv', ackNum' >= ackNum, wrote' >= wrote,
         sendBase' = sendBase, pc' = pc
  PROVE  Abstract!Receive
  <1>1. /\ ackNum \in 0 .. N /\ ackNum' \in 0 .. N /\ wrote' \in 0 .. N
        /\ wrote' <= ackNum' /\ wrote \in 0 .. N /\ N \in Nat
    BY RdtAssumption DEF TInv, RInv, ReceiverTypeOK, PlaceInv
  <1>2. file' = Abstract!Source(wrote')
    BY DEF TInv, RInv, FilePrefix, Abstract!Source
  <1>3. Len(file) = wrote
    BY <1>1, PrefixType DEF TInv, RInv, FilePrefix, Prefix
  <1>4. /\ ackNum' \in ackNum .. N
        /\ wrote' \in Len(file) .. ackNum'
    BY <1>1, <1>3
  <1> QED
    BY <1>2, <1>4 DEF Abstract!Receive

(* A step of the sender is a stutter, except the merge of a batch of acks, *)
(* which confirms them, and the last one, which finishes.                  *)
LEMMA SenderRefines ==
  ASSUME TInv, SenderAct
  PROVE  Abstract!Next \/ UNCHANGED absVars
  <1>1. ackNum' = ackNum /\ file' = file
    BY DEF SenderAct, receiverVars
  <1>2. CASE Merge
    <2>1. sendBase' = pend /\ pc = "drain" /\ pc' = "send"
      BY <1>2, Numbers DEF Merge
    <2>2. sendBase' \in sendBase .. ackNum
      BY <2>1, Numbers
    <2> QED
      BY <1>1, <2>1, <2>2 DEF Abstract!Next, Abstract!Confirm
  <1>3. CASE Close
    <2>1. sendBase = N /\ sendBase' = sendBase /\ pc' = "done"
      BY <1>3 DEF Close, TInv, SInv, LoopInv
    <2> QED
      BY <1>1, <2>1 DEF Abstract!Next, Abstract!Finish
  <1>4. CASE \E out \in BOOLEAN : WakeIdle(out)
    BY <1>1, <1>4 DEF absVars, WakeIdle
  <1>5. CASE SendPkt \/ SendBlocked \/ SendStop \/ NoEvent
    BY <1>1, <1>5 DEF absVars, SendPkt, SendBlocked, SendStop, NoEvent, LoopTest
  <1> QED
    BY <1>2, <1>3, <1>4, <1>5 DEF SenderAct, SenderStep

(* Every step of the transfer is one of the abstract transfer's or a       *)
(* stutter.                                                                *)
LEMMA StepRefines ==
  ASSUME TInv, TInv', [Next]_vars
  PROVE  Abstract!Next \/ UNCHANGED absVars
  <1>1. CASE ReceiverAct
    <2>1. /\ sendBase' = sendBase /\ pc' = pc /\ ackNum' = ackNum
          /\ (wrote' = wrote \/ wrote' = wrote + 1)
      BY <1>1 DEF ReceiverAct, ReceiverStep, WriteSlot, LingerAck, CloseFile,
                  senderVars
    <2>2. Abstract!Receive
      BY <2>1, Numbers, ReceiverRefines
    <2> QED
      BY <2>2 DEF Abstract!Next
  <1>2. ASSUME NEW p \in data, ReceiverReads(p)
        PROVE  Abstract!Receive
    BY <1>2, RcvProgress, ReceiverRefines DEF TInv, ReceiverReads, senderState
  <1>3. ASSUME NEW a \in acks, SenderReads(a)
        PROVE  UNCHANGED absVars
    BY <1>3 DEF absVars, SenderReads, ReadAck, RecvAck, WakeAck, receiverState
  <1>4. ASSUME (\E p \in data : LoseData(p)) \/ (\E a \in acks : LoseAck(a))
        PROVE  UNCHANGED absVars
    BY <1>4 DEF absVars, LoseData, LoseAck, senderState, senderVars,
                receiverState, receiverVars
  <1>5. CASE TimerAct \/ Stray \/ Finished \/ UNCHANGED vars
    BY <1>5 DEF absVars, TimerAct, TimerExpires, Stray, RcvFail, Finished,
                vars, senderVars, receiverVars
  <1>6. CASE SenderAct
    BY <1>6, SenderRefines
  <1>7. CASE \E a \in acks : SenderReads(a) \/ LoseAck(a)
    BY <1>3, <1>4, <1>7
  <1>8. CASE \E p \in data : ReceiverReads(p) \/ LoseData(p)
    BY <1>2, <1>4, <1>8 DEF Abstract!Next
  <1> QED
    BY <1>1, <1>5, <1>6, <1>7, <1>8 DEF Next

(* The transfer implements the reliable file of ReliableFile: chunks are   *)
(* taken over and written in order, the sender learns only of chunks taken *)
(* over, and finishes only when all were.                                  *)
THEOREM Refinement ==
  ASSUME MaxWindow <= Window
  PROVE  Spec => ImplementsReliableFile
  <1>1. TInv /\ TInv' /\ [Next]_vars => [Abstract!Next]_absVars
    BY StepRefines
  <1>2. Spec => Abstract!Init /\ [][Abstract!Next]_absVars
    BY <1>1, AbstractInit, TInvAlways, PTL DEF Spec
  <1> QED
    BY <1>2 DEF ImplementsReliableFile, Abstract!Spec, absVars
=============================================================================
