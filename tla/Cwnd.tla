-------------------------------- MODULE Cwnd --------------------------------
(***************************************************************************)
(* The congestion window of the mp2 sender (mp2/src/adt.c): a record of    *)
(* the fields the code reads, and one operator per function of adt.c that  *)
(* changes it.  The function pointers state.ack and state.dupAck are a     *)
(* function of state.state, so the record keeps only the state.            *)
(*   "SS"  SLOW_START       "FRR" FAST_RECOV_RETRANS                       *)
(*   "CA"  CONGEST_AVOID    "FR"  FAST_RECOV                               *)
(* priorWindow is written once and never read; it is left out.             *)
(***************************************************************************)
EXTENDS Integers

CONSTANTS
    InitWindow,     \* initCwnd: window = 4
    InitThresh,     \* initCwnd: ssthresh = 4096
    DupThresh,      \* duplicate acks that trigger fast retransmit: 3
    SeqSpace        \* number of values of a uint32_t

ASSUME CwndAssumption ==
    /\ InitWindow \in Nat \ {0}
    /\ InitThresh \in Nat
    /\ InitWindow < InitThresh
    /\ DupThresh \in Nat \ {0}
    /\ SeqSpace \in Nat \ {0, 1}

Seqs  == 0 .. SeqSpace - 1

(* (uint32_t) -1: no sequence number yet *)
NoSeq == SeqSpace - 1

(* uint32_t increment and subtraction *)
Inc(s) == IF s = NoSeq THEN 0 ELSE s + 1
Minus(a, b) == IF a >= b THEN a - b ELSE a - b + SeqSpace

States == {"SS", "CA", "FR", "FRR"}

CwndType ==
    [window : Nat \ {0}, ackThisRound : Nat, ssthresh : Nat \ {0},
     timeoutAck : Seqs, lastAck : Seqs, dupAck : Nat, state : States]

(* ackThisRound is not initialised by the code; toCongAvoid clears it      *)
(* before its first use.                                                   *)
InitCwnd ==
    [window |-> InitWindow, ackThisRound |-> 0, ssthresh |-> InitThresh,
     timeoutAck |-> NoSeq, lastAck |-> NoSeq, dupAck |-> 0, state |-> "SS"]

ClearDup(c) == [c EXCEPT !.dupAck = 0]

(* mutant: no floor under the threshold *)
HalveWindowNoFloor(c) == [c EXCEPT !.ssthresh = c.window \div 2]

HalveWindow(c) ==
    [c EXCEPT !.ssthresh = IF c.window > 2 THEN c.window \div 2 ELSE 2]

ToSlowStart(c) == [c EXCEPT !.state = "SS"]

(* mutant: the credit of the round is not cleared *)
ToCongAvoidKeepsCredit(c) == [c EXCEPT !.state = "CA"]

ToCongAvoid(c) == [c EXCEPT !.state = "CA", !.ackThisRound = 0]

ToFastRecov(c) == [c EXCEPT !.state = "FR"]

ToFastRecovRetrans(c) == [c EXCEPT !.state = "FRR"]

(* A duplicate ack in slow start or congestion avoidance; the third one    *)
(* halves the threshold and inflates the window.                           *)
DupAck(c) ==
    LET counted == [c EXCEPT !.dupAck = c.dupAck + 1]
        halved  == HalveWindow(counted)
    IN  IF counted.dupAck >= DupThresh
        THEN ToFastRecovRetrans(
               [halved EXCEPT !.window = halved.ssthresh + DupThresh])
        ELSE counted

DupAckFastRecov(c) == [c EXCEPT !.window = c.window + 1]

AckSlowStart(c) ==
    LET grown == [ClearDup(c) EXCEPT !.window = c.window + 1]
    IN  IF grown.window >= grown.ssthresh THEN ToCongAvoid(grown) ELSE grown

AckCongAvoid(c, ack) ==
    LET credit == c.ackThisRound + Minus(ack, c.lastAck)
    IN  IF credit >= c.window
        THEN [ClearDup(c) EXCEPT !.window = c.window + 1, !.ackThisRound = 0]
        ELSE [ClearDup(c) EXCEPT !.ackThisRound = credit]

AckFastRecov(c) ==
    ToCongAvoid(ClearDup([c EXCEPT !.window = c.ssthresh]))

(* ackCwnd: the handler of the current state for a new or duplicate ack *)
OnDupAck(c) ==
    IF c.state \in {"SS", "CA"} THEN DupAck(c) ELSE DupAckFastRecov(c)

OnNewAck(c, ack) ==
    CASE c.state = "SS" -> AckSlowStart(c)
      [] c.state = "CA" -> AckCongAvoid(c, ack)
      [] c.state \in {"FR", "FRR"} -> AckFastRecov(c)

(* mutant: lastAck is not updated *)
AckCwndForgets(c, ack) ==
    IF ack = c.lastAck THEN OnDupAck(c) ELSE OnNewAck(c, ack)

AckCwnd(c, ack) ==
    IF ack = c.lastAck
    THEN OnDupAck(c)
    ELSE [OnNewAck(c, ack) EXCEPT !.lastAck = ack]

(* confirmThreeDups: its result, and its effect on the window *)
ThreeDups(c) == c.state = "FRR"

ConfirmThreeDups(c) == IF ThreeDups(c) THEN ToFastRecov(c) ELSE c

(* mutant: the duplicate acks survive a timeout *)
TimeoutCwndKeepsDups(c, ack) ==
    ToSlowStart([HalveWindow([c EXCEPT !.timeoutAck = ack]) EXCEPT !.window = 1])

(* A timeout: the threshold is halved once per base, the window restarts *)
TimeoutCwnd(c, ack) ==
    LET halved == IF ack # c.timeoutAck
                  THEN HalveWindow([c EXCEPT !.timeoutAck = ack])
                  ELSE c
    IN  ToSlowStart([ClearDup(halved) EXCEPT !.window = 1])

(* mutant: one packet too many *)
InWindowAtEnd(c, base, nextSeq) == Minus(nextSeq, base) <= c.window

(* __allowSend: (nextSeq - base) < window, in uint32_t arithmetic *)
InWindow(c, base, nextSeq) == Minus(nextSeq, base) < c.window
=============================================================================
