------------------------------- MODULE Sender -------------------------------
(***************************************************************************)
(* The mp2 sender (mp2/src/sender_main.c with SenderStat and Timer of      *)
(* adt.c): one process around an epoll loop.  The value of pc says where   *)
(* it is:                                                                  *)
(*   "send"     in sendpkts, one packet per step;                          *)
(*   "poll"     blocked in epoll_wait;                                     *)
(*   "drain"    handling the events: recvAll and ackAll, one ack per step; *)
(*   "closing"  past the loop, before the last packets;                    *)
(*   "done"     the socket is closed.                                      *)
(* data is the set of packets handed to the network.  recvAll stores a     *)
(* whole batch before ackAll processes it; nothing else happens between    *)
(* the two, so an ack is read and processed in one step here.  A batch may *)
(* end at any ack: recvAll stops at EAGAIN or after WINDOW of them.  Dead  *)
(* fields (highestSeq, recvFin) are left out; a failed system call other   *)
(* than EAGAIN ends the process, and is left out too.                      *)
(***************************************************************************)
EXTENDS Cwnd, Rdt

CONSTANTS
    MaxWindow,      \* bound of the model on cwnd.window
    MayBlock        \* can sendto fail with EAGAIN (full socket buffer)?

ASSUME SenderAssumption ==
    /\ N < NoSeq
    /\ MaxWindow \in Nat
    /\ InitWindow <= MaxWindow
    /\ MayBlock \in BOOLEAN

VARIABLES
    sendBase,       \* first chunk not acknowledged
    lastSent,       \* last sequence number sent, NoSeq before the first
    retrans,        \* sendBase is to be sent again
    cwnd,           \* the congestion window
    running,        \* timer.running: what the sender thinks of its timer
    fd,             \* the kernel timer: "off", "armed" or "expired"
    sockWritable,   \* FALSE from an EAGAIN to the next EPOLLOUT
    pend,           \* DiffStat.sendBase: the base the batch leads to
    got,            \* nPackets > 0
    hasTimeout,     \* the timer event was reported
    pc,
    data            \* packets handed to the network

timerVars == <<running, fd>>
senderState == <<sendBase, lastSent, retrans, cwnd, running, fd,
                 sockWritable, pend, got, hasTimeout, pc>>
senderVars == <<sendBase, lastSent, retrans, cwnd, running, fd,
                sockWritable, pend, got, hasTimeout, pc, data>>

(***************************************************************************)
(* SenderStat                                                              *)
(***************************************************************************)
InitSender ==
    /\ sendBase = 0
    /\ lastSent = NoSeq
    /\ retrans = FALSE
    /\ cwnd = InitCwnd
    /\ running = FALSE
    /\ fd = "off"
    /\ sockWritable = TRUE
    /\ pend = 0
    /\ got = FALSE
    /\ hasTimeout = FALSE
    /\ pc = "send"
    /\ data = {}

(* getNextSeq for given retrans, sendBase and lastSent *)
NextSeq(again, base, last) ==
    IF again \/ last < base THEN base ELSE Inc(last)

GetNextSeq == NextSeq(retrans, sendBase, lastSent)

AllowSend(seq) == (retrans \/ InWindow(cwnd, sendBase, seq)) /\ seq < N

(***************************************************************************)
(* Timer: running is the program's flag, fd the state of the timerfd       *)
(***************************************************************************)
StartTimerIfNotRunning ==
    /\ running' = TRUE
    /\ fd' = IF running THEN fd ELSE "armed"

StartTimer == running' = TRUE /\ fd' = "armed"

(* mutant: the flag is cleared and the kernel timer keeps running *)
StopTimerFlagOnly == running' = FALSE /\ UNCHANGED fd

StopTimer ==
    /\ running' = FALSE
    /\ fd' = IF running THEN "off" ELSE fd

(* The kernel: the timer runs out, and its event is ready for epoll_wait *)
TimerExpires ==
    /\ fd = "armed"
    /\ fd' = "expired"
    /\ UNCHANGED <<sendBase, lastSent, retrans, cwnd, running, sockWritable,
                   pend, got, hasTimeout, pc, data>>

(***************************************************************************)
(* sendpkts, then the test of the event loop                               *)
(***************************************************************************)
CanSend == sockWritable /\ AllowSend(GetNextSeq)

(* mutant: the loop ends one chunk early *)
LoopTestEarly == pc' = IF sendBase < N - 1 THEN "poll" ELSE "closing"

LoopTest == pc' = IF sendBase < N THEN "poll" ELSE "closing"

(* sendto accepts the packet; updateNextSeq *)
SendPkt ==
    /\ pc = "send"
    /\ CanSend
    /\ data' = data \cup {GetNextSeq}
    /\ lastSent' = GetNextSeq
    /\ retrans' = (retrans /\ GetNextSeq # sendBase)
    /\ StartTimerIfNotRunning
    /\ UNCHANGED <<sendBase, cwnd, sockWritable, pend, got, hasTimeout, pc>>

(* sendto fails with EAGAIN: wait for EPOLLOUT *)
SendBlocked ==
    /\ pc = "send"
    /\ CanSend
    /\ MayBlock
    /\ sockWritable' = FALSE
    /\ LoopTest
    /\ UNCHANGED <<sendBase, lastSent, retrans, cwnd, running, fd, pend, got,
                   hasTimeout, data>>

(* nothing may be sent *)
SendStop ==
    /\ pc = "send"
    /\ ~ CanSend
    /\ LoopTest
    /\ UNCHANGED <<sendBase, lastSent, retrans, cwnd, running, fd,
                   sockWritable, pend, got, hasTimeout, data>>

(***************************************************************************)
(* epoll_wait and the handling of its events                               *)
(***************************************************************************)

(* mutant: a timeout counts only from the second expiry on *)
TimerEventIgnored ==
    /\ hasTimeout' = FALSE
    /\ running' = (running /\ fd # "expired")
    /\ fd' = IF fd = "expired" THEN "off" ELSE fd

(* The timer event, if it is ready: drain, running = FALSE, hasTimeout *)
TimerEvent ==
    /\ hasTimeout' = (fd = "expired")
    /\ running' = (running /\ fd # "expired")
    /\ fd' = IF fd = "expired" THEN "off" ELSE fd

(* The body of ackAll for one ack; acks below the pending base are ignored *)
AckOne(ack, base) ==
    /\ got' = TRUE
    /\ IF ack >= base
       THEN /\ pend' = ack
            /\ cwnd' = AckCwnd(cwnd, ack)
            /\ cwnd'.window <= MaxWindow
       ELSE /\ pend' = base
            /\ cwnd' = cwnd

(* epoll_wait returns EPOLLIN: the first ack of the batch, perhaps with    *)
(* EPOLLOUT (out)                                                          *)
WakeAck(ack, out) ==
    /\ pc = "poll"
    /\ TimerEvent
    /\ AckOne(ack, sendBase)
    /\ sockWritable' = (sockWritable \/ out)
    /\ pc' = "drain"
    /\ UNCHANGED <<sendBase, lastSent, retrans, data>>

(* epoll_wait returns without EPOLLIN *)
WakeIdle(out) ==
    /\ pc = "poll"
    /\ out \/ fd = "expired"
    /\ TimerEvent
    /\ pend' = sendBase
    /\ got' = FALSE
    /\ sockWritable' = (sockWritable \/ out)
    /\ pc' = "drain"
    /\ UNCHANGED <<sendBase, lastSent, retrans, cwnd, data>>

(* a further ack of the batch *)
RecvAck(ack) ==
    /\ pc = "drain"
    /\ got
    /\ AckOne(ack, pend)
    /\ UNCHANGED <<sendBase, lastSent, retrans, running, fd, sockWritable,
                   hasTimeout, pc, data>>

(* mutants: an advance does not restart the timer; a retransmission does   *)
(* not stop it                                                             *)
MergeTimerNoRestart(again, advanced, unacked) ==
    IF again THEN StopTimer ELSE UNCHANGED timerVars

MergeTimerNoStop(again, advanced, unacked) ==
    IF advanced /\ unacked THEN StartTimer ELSE UNCHANGED timerVars

(* What merge does to the timer *)
MergeTimer(again, advanced, unacked) ==
    IF again THEN StopTimer
    ELSE IF advanced
         THEN IF unacked THEN StartTimer ELSE StopTimer
         ELSE UNCHANGED timerVars

(* The end of ackAll (confirmThreeDups), then merge *)
Merge ==
    LET advanced  == sendBase < pend
        threeDups == ThreeDups(cwnd)
        timedOut  == ~ advanced /\ ~ threeDups /\ hasTimeout
        unacked   == pend < NextSeq(FALSE, pend, lastSent)
    IN  /\ pc = "drain"
        /\ got \/ hasTimeout
        /\ sendBase' = IF advanced THEN pend ELSE sendBase
        /\ retrans' = (threeDups \/ timedOut)
        /\ cwnd' = IF timedOut
                   THEN TimeoutCwnd(ConfirmThreeDups(cwnd), sendBase)
                   ELSE ConfirmThreeDups(cwnd)
        /\ MergeTimer(threeDups \/ timedOut, advanced, unacked)
        /\ got' = FALSE
        /\ hasTimeout' = FALSE
        /\ pc' = "send"
        /\ UNCHANGED <<lastSent, sockWritable, pend, data>>

(* neither acks nor a timeout: straight to sendpkts *)
NoEvent ==
    /\ pc = "drain"
    /\ ~ got
    /\ ~ hasTimeout
    /\ pc' = "send"
    /\ UNCHANGED <<sendBase, lastSent, retrans, cwnd, running, fd,
                   sockWritable, pend, got, hasTimeout, data>>

(* the empty last packet, 20 times, and close *)
Close ==
    /\ pc = "closing"
    /\ data' = data \cup {LastPkt}
    /\ pc' = "done"
    /\ UNCHANGED <<sendBase, lastSent, retrans, cwnd, running, fd,
                   sockWritable, pend, got, hasTimeout>>

(***************************************************************************)
(* The sender alone: a receiver acknowledges any prefix of what was sent,  *)
(* in any order and any number of times.                                   *)
(***************************************************************************)
Acknowledgeable == {a \in 1 .. N : a - 1 \in data}

SenderStep ==
    \/ SendPkt \/ SendBlocked \/ SendStop
    \/ \E out \in BOOLEAN : WakeIdle(out)
    \/ Merge \/ NoEvent \/ Close

ReadAck(ack) == RecvAck(ack) \/ \E out \in BOOLEAN : WakeAck(ack, out)

Terminated == pc = "done" /\ UNCHANGED senderVars

SenderNext ==
    \/ SenderStep
    \/ TimerExpires
    \/ \E ack \in Acknowledgeable : ReadAck(ack)
    \/ Terminated

SenderSpec == InitSender /\ [][SenderNext]_senderVars

-----------------------------------------------------------------------------
(***************************************************************************)
(* Properties                                                              *)
(***************************************************************************)

(* Every field keeps its range: the window and the threshold never drop to *)
(* 0 (halveWindow of 3 is 1), and no sequence number leaves the file.      *)
SenderTypeOK ==
    /\ sendBase \in 0 .. N
    /\ lastSent \in Chunks \cup {NoSeq}
    /\ retrans \in BOOLEAN
    /\ cwnd \in CwndType
    /\ running \in BOOLEAN
    /\ fd \in {"off", "armed", "expired"}
    /\ sockWritable \in BOOLEAN
    /\ pend \in 0 .. N
    /\ got \in BOOLEAN
    /\ hasTimeout \in BOOLEAN
    /\ pc \in {"send", "poll", "drain", "closing", "done"}
    /\ data \subseteq 0 .. N

(* The sender never sleeps without a way to wake up: when it enters        *)
(* epoll_wait with the socket writable, its retransmission timer runs, so  *)
(* a lost packet or ack is always noticed (merge and sendpkts together     *)
(* must keep the timer on while chunks are unacknowledged).                *)
Guarded == pc = "poll" => running \/ ~ sockWritable

(* merge restarts the timer when it finds chunks that "have unacked", and   *)
(* stops it only when it is "Ready to Retransmit": a sender that sleeps    *)
(* with chunks unacknowledged has its timer on or a retransmission due.    *)
UnackedTimed ==
    pc = "poll" /\ sendBase < NextSeq(FALSE, sendBase, lastSent) =>
        running \/ retrans

(* The flag timer.running and the kernel timer never disagree: running is  *)
(* TRUE exactly when the timerfd is armed or its expiry is still unread,   *)
(* so stopTimer never leaves a stray timeout and startTimerIfNotRunning    *)
(* never skips a timer that is off.                                        *)
RunningIffArmed == running <=> fd # "off"

(* Fast recovery is exactly the state with DupThresh duplicates counted:   *)
(* no path (new ack, timeout, merge) leaves the count and the state apart, *)
(* which would fire a second fast retransmit or suppress the first.        *)
DupCountMatchesState ==
    cwnd.dupAck >= DupThresh <=> cwnd.state \in {"FR", "FRR"}

(* ackCwnd calls an ack a duplicate by comparing it with the last one it   *)
(* processed; ackAll filters by the pending base.  The two always agree:   *)
(* the last processed ack is the pending base.                             *)
LastAckIsBase ==
    IF cwnd.lastAck = NoSeq THEN pend = 0 ELSE cwnd.lastAck = pend

(* In congestion avoidance the credit of the round stays below the window, *)
(* and slow start ends as soon as the window reaches the threshold, across *)
(* timeouts and recoveries that change either of them.                     *)
WindowDiscipline ==
    /\ cwnd.state = "CA" => cwnd.ackThisRound < cwnd.window
    /\ cwnd.state = "SS" => cwnd.window <= cwnd.ssthresh

(* While a retransmission is pending the timer is off, so that sending the *)
(* base again restarts it for a full round trip: merge stops it on three   *)
(* duplicates and on a timeout, and nothing may start it in between.       *)
RetransTimerOff == retrans => ~ running

(* Nothing is skipped: a chunk is sent only after all chunks before it,    *)
(* even though lastSent moves back on every retransmission and sendBase    *)
(* jumps over it on a cumulative ack.                                      *)
NoGap == \A q \in data \ {LastPkt} : 0 .. q \subseteq data

(* A chunk is sent only inside the window that starts at the base of the   *)
(* moment: acknowledged chunks are never sent again, although lastSent may *)
(* lie below, inside or at the end of the window when sendpkts starts.     *)
SendsInWindow ==
    [][lastSent' # lastSent =>
          /\ sendBase <= lastSent'
          /\ lastSent' < sendBase + cwnd.window]_senderVars

(* The base never moves back, and the sender gives up on no chunk: it      *)
(* closes only when every chunk was acknowledged.                          *)
BaseMonotone ==
    [][sendBase <= sendBase' /\ (pc' = "closing" => sendBase = N)]_senderVars
=============================================================================
