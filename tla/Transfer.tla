------------------------------ MODULE Transfer ------------------------------
(***************************************************************************)
(* The mp2 file transfer: the sender and the receiver of one file, joined  *)
(* by UDP.  data and acks are the datagrams in flight.                     *)
(*   Duplicating = TRUE   a datagram stays deliverable for ever: it may be *)
(*       lost (never delivered), duplicated and reordered without limit;   *)
(*       used for safety.                                                  *)
(*   Duplicating = FALSE  a datagram is delivered once, in any order, or   *)
(*       lost, at most MaxLoss times in all; used for liveness.  Identical *)
(*       datagrams in flight together count as one.                        *)
(***************************************************************************)
EXTENDS Sender, Receiver

CONSTANTS
    Duplicating,    \* which network
    MaxLoss         \* bound on losses when Duplicating is FALSE

ASSUME TransferAssumption ==
    /\ Duplicating \in BOOLEAN
    /\ MaxLoss \in Nat

VARIABLE lost       \* datagrams lost so far

vars == <<sendBase, lastSent, retrans, cwnd, running, fd, sockWritable, pend,
          got, hasTimeout, pc, data, wrote, ackNum, file, ring, fin, rpc,
          acks, lingered, lost>>

Init == InitSender /\ InitReceiver /\ lost = 0

Remaining(inFlight, d) == IF Duplicating THEN inFlight ELSE inFlight \ {d}

(* One step of the sender that reads nothing from the network *)
SenderAct == SenderStep /\ UNCHANGED receiverVars /\ UNCHANGED lost

TimerAct == TimerExpires /\ UNCHANGED receiverVars /\ UNCHANGED lost

SenderReads(a) ==
    /\ a \in acks
    /\ ReadAck(a.num)
    /\ acks' = Remaining(acks, a)
    /\ UNCHANGED receiverState
    /\ UNCHANGED lost

ReceiverAct == ReceiverStep /\ UNCHANGED senderVars /\ UNCHANGED lost

ReceiverReads(p) ==
    /\ p \in data
    /\ Rcv(p)
    /\ data' = Remaining(data, p)
    /\ UNCHANGED senderState
    /\ UNCHANGED lost

(* A datagram that is not the sender's reaches the receiver; left out of   *)
(* the liveness network, where it would be an unbounded source of acks.    *)
Stray ==
    /\ Duplicating
    /\ RcvFail
    /\ UNCHANGED senderVars
    /\ UNCHANGED lost

LoseData(p) ==
    /\ ~ Duplicating
    /\ p \in data
    /\ lost < MaxLoss
    /\ lost' = lost + 1
    /\ data' = data \ {p}
    /\ UNCHANGED senderState
    /\ UNCHANGED receiverVars

LoseAck(a) ==
    /\ ~ Duplicating
    /\ a \in acks
    /\ lost < MaxLoss
    /\ lost' = lost + 1
    /\ acks' = acks \ {a}
    /\ UNCHANGED senderVars
    /\ UNCHANGED receiverState

Complete == pc = "done" /\ rpc = "closed"

Finished == Complete /\ UNCHANGED vars

Next ==
    \/ SenderAct
    \/ TimerAct
    \/ ReceiverAct
    \/ Stray
    \/ \E a \in acks : SenderReads(a) \/ LoseAck(a)
    \/ \E p \in data : ReceiverReads(p) \/ LoseData(p)
    \/ Finished

Spec == Init /\ [][Next]_vars

(* Both programs run, the timer runs out, a socket buffer does not stay    *)
(* full for ever, and a datagram that is not lost is read when its reader  *)
(* comes back to the socket often enough.                                  *)
Fairness ==
    /\ WF_vars(SenderAct)
    /\ SF_vars(SendPkt /\ UNCHANGED receiverVars /\ UNCHANGED lost)
    /\ WF_vars(TimerAct)
    /\ WF_vars(ReceiverAct)
    /\ \A p \in Chunks : SF_vars(ReceiverReads(p))
    /\ \A a \in Acks : SF_vars(SenderReads(a))

FairSpec == Spec /\ Fairness

-----------------------------------------------------------------------------
(***************************************************************************)
(* Properties                                                              *)
(***************************************************************************)

(* The types of both programs, and of the network. *)
TypeOK == SenderTypeOK /\ ReceiverTypeOK /\ lost \in 0 .. MaxLoss

(* The sender believes no more than the receiver has taken over, whatever  *)
(* the network repeats or reorders: base, pending base and acks in flight  *)
(* never exceed ackNum.                                                    *)
BaseBehindReceiver ==
    /\ sendBase <= pend
    /\ pend <= ackNum
    /\ \A a \in acks : a.num <= ackNum

(* When the sender has returned, the receiver has every chunk: all of them *)
(* are in the file, or the receiver is writing the last ones and will      *)
(* leave its loop.                                                         *)
DoneMeansReceived ==
    pc \in {"closing", "done"} =>
        /\ ackNum = N
        /\ rpc \in {"flush", "linger", "closed"}

(* The empty last packets have sequence number 0 and would be taken for an *)
(* old chunk (or, at the start, for the first one): the receiver never     *)
(* reads one.                                                              *)
LastPktUnread == LastPkt \in data => rpc # "recv"

(* Every packet in flight fits the ring: it is either old or less than one *)
(* turn of the ring ahead of what the receiver has taken over.             *)
InFlightBounded == \A q \in data \ {LastPkt} : q < ackNum + Window

(* The transfer implements the abstract one. *)
Abstract == INSTANCE ReliableFile WITH
                taken <- ackNum,
                written <- file,
                confirmed <- sendBase,
                finished <- pc = "done"

ImplementsReliableFile == Abstract!Spec

(* Every transfer completes: the sender returns and the receiver closes    *)
(* the file, in spite of lost datagrams.                                   *)
Completes == <>Complete
=============================================================================
