--------------------------- MODULE ForkingProofs ----------------------------
(***************************************************************************)
(* Proofs about Forking and FileServer, for any set of clients, any        *)
(* backlog, any file and any bounds. FInv is the inductive invariant of    *)
(* the parent: no ended child is forgotten, and a connection is held by    *)
(* its own child only. The composition of the parent with the children and *)
(* clients of mp0 refines the parent (ServiceIsForking), so FInv holds of  *)
(* it too, and EInv, the invariant of the exchanges, is proved on top of   *)
(* it: what is on its way to a client continues what the client has read,  *)
(* and goes as far as its child has sent.                                  *)
(***************************************************************************)
EXTENDS FileServer, SequenceTheorems, TLAPS

(* A queued connection is waited for once, is not the one at hand, and     *)
(* nobody holds it yet                                                     *)
QueueInv ==
    \A i \in 1 .. Len(queue) :
        /\ child[queue[i]] = "none"
        /\ queue[i] # newFd
        /\ \A j \in 1 .. Len(queue) : queue[j] = queue[i] => j = i

(* new_fd is the connection between accept and close, and no child has it  *)
(* before the fork                                                         *)
NewFdInv ==
    /\ ppc = "accept" <=> newFd = None
    /\ ppc = "fork" => child[newFd] = "none" /\ Parent \in holders[newFd]

FInv == TypeOK /\ QueueInv /\ NewFdInv /\ NoLostZombie /\ OwnConnection

(* No connection and no child at the start                                 *)
LEMMA FInvInit == Init => FInv
  <1> SUFFICES ASSUME Init PROVE FInv
    OBVIOUS
  <1> USE DEF Init
  <1>1. queue = << >> /\ Len(queue) = 0 /\ queue \in Seq(Clients)
    OBVIOUS
  <1>2. TypeOK
    BY <1>1 DEF TypeOK
  <1>3. QueueInv
    BY <1>1 DEF QueueInv
  <1>4. NewFdInv /\ NoLostZombie
    BY DEF NewFdInv, NoLostZombie
  <1>5. OwnConnection
    BY DEF OwnConnection
  <1> QED
    BY <1>2, <1>3, <1>4, <1>5 DEF FInv

(* Every step of the parent, its handler, its clients and its children     *)
(* preserves the invariant                                                 *)
LEMMA FInvNext == FInv /\ [Next]_vars => FInv'
  <1> SUFFICES ASSUME FInv, [Next]_vars PROVE FInv'
    OBVIOUS
  <1> USE ForkingAssumption
  <1>t. TypeOK /\ QueueInv /\ NewFdInv /\ NoLostZombie /\ OwnConnection
    BY DEF FInv
  <1>1. ASSUME NEW c \in Clients, Connect(c) PROVE FInv'
    <2> USE <1>1 DEF Connect
    <2>1. queue \in Seq(Clients) /\ queue' = Append(queue, c) /\ newFd' = newFd
      BY <1>t DEF TypeOK
    <2>2. Len(queue') = Len(queue) + 1 /\ Len(queue) \in Nat /\ queue' \in Seq(Clients)
      BY <2>1
    <2>3. \A i \in 1 .. Len(queue') :
              queue'[i] = IF i = Len(queue) + 1 THEN c ELSE queue[i]
      BY <2>1, <2>2
    <2>4. \A i \in 1 .. Len(queue) : queue[i] # c
      BY DEF Queued
    <2>5. c # newFd
      OBVIOUS
    <2>6. QueueInv'
      BY <1>t, <2>1, <2>2, <2>3, <2>4, <2>5 DEF QueueInv
    <2>7. TypeOK'
      BY <1>t, <2>2 DEF TypeOK
    <2>8. NewFdInv' /\ NoLostZombie' /\ OwnConnection'
      BY <1>t DEF NewFdInv, NoLostZombie, OwnConnection
    <2> QED
      BY <2>6, <2>7, <2>8 DEF FInv
  <1>2. ASSUME NEW c \in Clients, Exit(c) PROVE FInv'
    <2> USE <1>2 DEF Exit
    <2>1. TypeOK'
      BY <1>t DEF TypeOK
    <2>2. QueueInv'
      BY <1>t DEF QueueInv, TypeOK
    <2>3. NewFdInv'
      BY <1>t DEF NewFdInv, TypeOK
    <2>4. NoLostZombie'
      BY DEF NoLostZombie
    <2>5. OwnConnection'
      BY <1>t DEF OwnConnection, TypeOK
    <2> QED
      BY <2>1, <2>2, <2>3, <2>4, <2>5 DEF FInv
  <1>3. ASSUME NEW c \in Clients, Reap(c) PROVE FInv'
    <2> USE <1>3 DEF Reap
    <2>1. TypeOK'
      BY <1>t DEF TypeOK
    <2>2. QueueInv'
      BY <1>t DEF QueueInv, TypeOK
    <2>3. NewFdInv'
      BY <1>t DEF NewFdInv, TypeOK
    <2>4. NoLostZombie'
      BY <1>t DEF NoLostZombie, TypeOK
    <2>5. OwnConnection'
      BY <1>t DEF OwnConnection, TypeOK
    <2> QED
      BY <2>1, <2>2, <2>3, <2>4, <2>5 DEF FInv
  <1>4. CASE Accept
    <2> DEFINE h == Head(queue)
    <2> USE <1>4 DEF Accept
    <2>1. queue \in Seq(Clients) /\ queue # << >>
      BY <1>t DEF TypeOK
    <2>2. /\ h = queue[1] /\ h \in Clients
          /\ queue' \in Seq(Clients)
          /\ Len(queue) \in Nat /\ Len(queue) >= 1 /\ Len(queue') = Len(queue) - 1
          /\ \A i \in 1 .. Len(queue') : queue'[i] = queue[i + 1]
      BY <2>1, HeadTailProperties
    <2>3. child[h] = "none"
      BY <1>t, <2>2 DEF QueueInv
    <2>4. newFd = None
      BY <1>t DEF NewFdInv
    <2>5. TypeOK'
      BY <1>t, <2>2 DEF TypeOK
    <2>6. QueueInv'
      <3> SUFFICES ASSUME NEW i \in 1 .. Len(queue')
                   PROVE  /\ child'[queue'[i]] = "none"
                          /\ queue'[i] # newFd'
                          /\ \A j \in 1 .. Len(queue') : queue'[j] = queue'[i] => j = i
        BY DEF QueueInv
      <3>1. i + 1 \in 1 .. Len(queue) /\ 1 \in 1 .. Len(queue) /\ i + 1 # 1
        BY <2>2
      <3>2. queue[i + 1] # queue[1]
        BY <1>t, <3>1 DEF QueueInv
      <3>3. child[queue[i + 1]] = "none"
        BY <1>t, <3>1 DEF QueueInv
      <3>4. ASSUME NEW j \in 1 .. Len(queue'), queue'[j] = queue'[i] PROVE j = i
        <4>1. j + 1 \in 1 .. Len(queue) /\ queue[j + 1] = queue[i + 1]
          BY <2>2, <3>4
        <4>2. j + 1 = i + 1
          BY <1>t, <3>1, <4>1 DEF QueueInv
        <4> QED
          BY <4>2, <2>2
      <3> QED
        BY <2>2, <3>2, <3>3, <3>4
    <2>7. NewFdInv'
      BY <1>t, <2>2, <2>3 DEF NewFdInv, TypeOK
    <2>8. NoLostZombie'
      BY <1>t DEF NoLostZombie
    <2>9. OwnConnection'
      BY <1>t, <2>2, <2>3, <2>4 DEF OwnConnection, TypeOK
    <2> QED
      BY <2>5, <2>6, <2>7, <2>8, <2>9 DEF FInv
  <1>5. CASE Fork
    <2> USE <1>5 DEF Fork
    <2>1. newFd \in Clients /\ child[newFd] = "none" /\ Parent \in holders[newFd]
      BY <1>t DEF NewFdInv, TypeOK
    <2>2. TypeOK'
      BY <1>t, <2>1 DEF TypeOK
    <2>3. QueueInv'
      BY <1>t DEF QueueInv, TypeOK
    <2>4. NewFdInv'
      BY <1>t DEF NewFdInv
    <2>5. NoLostZombie'
      BY <1>t, <2>1 DEF NoLostZombie, TypeOK
    <2>6. OwnConnection'
      BY <1>t, <2>1 DEF OwnConnection, TypeOK
    <2> QED
      BY <2>2, <2>3, <2>4, <2>5, <2>6 DEF FInv
  <1>6. CASE ForkFails
    BY <1>6, <1>t DEF ForkFails, FInv, TypeOK, QueueInv, NewFdInv, NoLostZombie,
                      OwnConnection
  <1>7. CASE Close
    <2> USE <1>7 DEF Close
    <2>1. newFd \in Clients
      BY <1>t DEF NewFdInv, TypeOK
    <2>2. TypeOK'
      BY <1>t, <2>1 DEF TypeOK
    <2>3. QueueInv'
      <3>1. \A i \in 1 .. Len(queue) : queue[i] \in Clients
        BY <1>t DEF TypeOK
      <3> QED
        BY <1>t, <3>1 DEF QueueInv
    <2>4. NewFdInv'
      BY <1>t DEF NewFdInv
    <2>5. NoLostZombie'
      BY <1>t DEF NoLostZombie
    <2>6. OwnConnection'
      BY <1>t, <2>1 DEF OwnConnection, TypeOK
    <2> QED
      BY <2>2, <2>3, <2>4, <2>5, <2>6 DEF FInv
  <1>8. CASE Signal
    <2>1. TypeOK' /\ NoLostZombie'
      BY <1>8, <1>t DEF Signal, TypeOK, NoLostZombie
    <2>2. QueueInv' /\ NewFdInv' /\ OwnConnection'
      BY <1>8, <1>t DEF Signal, QueueInv, NewFdInv, OwnConnection
    <2> QED
      BY <2>1, <2>2 DEF FInv
  <1>9. CASE NoneToReap
    BY <1>9, <1>t DEF NoneToReap, FInv, TypeOK, QueueInv, NewFdInv, NoLostZombie,
                      OwnConnection
  <1>10. CASE Return
    BY <1>10, <1>t DEF Return, FInv, TypeOK, QueueInv, NewFdInv, NoLostZombie,
                       OwnConnection
  <1>11. CASE UNCHANGED vars
    BY <1>11, <1>t DEF vars, FInv, TypeOK, QueueInv, NewFdInv, NoLostZombie,
                       OwnConnection
  <1> QED
    BY <1>1, <1>2, <1>3, <1>4, <1>5, <1>6, <1>7, <1>8, <1>9, <1>10, <1>11
       DEF Next, Idle

(* The invariant holds throughout: QueueInv and NewFdInv are what makes    *)
(* the two properties inductive.                                           *)
LEMMA FInvAlways == Spec => []FInv
  BY FInvInit, FInvNext, PTL DEF Spec

(* No child that has ended is forgotten, for any number of clients.        *)
THEOREM NoLostZombieHolds == Spec => []NoLostZombie
  <1>1. FInv => NoLostZombie
    BY DEF FInv
  <1> QED
    BY <1>1, FInvAlways, PTL

(* A connection is held by its own child only, and by the parent until it  *)
(* has closed it, for any number of clients.                               *)
THEOREM OwnConnectionHolds == Spec => []OwnConnection
  <1>1. FInv => OwnConnection
    BY DEF FInv
  <1> QED
    BY <1>1, FInvAlways, PTL

-----------------------------------------------------------------------------
(* Whatever children and clients of the file transfer do, the parent is    *)
(* the one of Forking                                                      *)
LEMMA ServiceStep == [ServiceNext]_serviceVars => [Next]_vars
  <1> SUFFICES ASSUME [ServiceNext]_serviceVars PROVE [Next]_vars
    OBVIOUS
  <1>1. CASE ServiceParent
    BY <1>1 DEF ServiceParent, ParentStep, HandlerStep, Next
  <1>2. ASSUME NEW c \in Clients,
               SendSize(c) \/ OpenFile(c) \/ SendFile(c)
               \/ RecvSize(c) \/ RecvData(c) \/ RecvDataFails(c)
        PROVE  UNCHANGED vars
    BY <1>2 DEF SendSize, OpenFile, SendFile, RecvSize, RecvData, RecvDataFails
  <1>3. ASSUME NEW c \in Clients, ChildEnds(c) PROVE Next
    BY <1>3 DEF ChildEnds, Next
  <1>4. ASSUME NEW c \in Clients, ClientStarts(c) PROVE Next
    BY <1>4 DEF ClientStarts, Next
  <1>5. ASSUME NEW c \in Clients, ClientSpins(c) \/ Undefined(c) \/ Reset(c)
        PROVE  UNCHANGED vars
    BY <1>5 DEF ClientSpins, Undefined, Reset, serviceVars
  <1>6. CASE FileChanges
    BY <1>6 DEF FileChanges
  <1>7. CASE ServiceIdle
    BY <1>7 DEF ServiceIdle, Next
  <1>8. CASE UNCHANGED serviceVars
    BY <1>8 DEF serviceVars
  <1> QED
    BY <1>1, <1>2, <1>3, <1>4, <1>5, <1>6, <1>7, <1>8 DEF ServiceNext

(* The parent of the file transfer behaves as Forking says: what is proved *)
(* of the parent alone holds of the composition with its children and      *)
(* clients.                                                                *)
THEOREM ServiceIsForking == ServiceSpec => Spec
  <1>1. ServiceInit => Init
    BY DEF ServiceInit
  <1> QED
    BY <1>1, ServiceStep, PTL DEF ServiceSpec, Spec

-----------------------------------------------------------------------------
(* A connection whose child has sent nothing yet, and has not ended either *)
Fresh(c) ==
    \/ c \in Queued
    \/ ppc = "fork" /\ newFd = c
    \/ ChildAt(c, "size")

Items == {"size", "byte"} \X Int

ServiceTypes ==
    /\ named \in BOOLEAN /\ size \in Nat /\ fileSize \in Nat
    /\ spc \in [Clients -> {"size", "open", "send", "end"}]
    /\ bytesToSend \in [Clients -> Nat] /\ opened \in [Clients -> Nat]
    /\ cpc \in [Clients -> {"none", "size", "data", "done", "failed", "overrun"}]
    /\ expected \in [Clients -> Nat]
    /\ buf \in [Clients -> Seq(Items)]
    /\ down \in [Clients -> Seq(Items)]
    /\ link \in [Clients -> {"up", "reset", "told"}]

(* The bytes of the file that the child of c has sent *)
Sent(c) == IF spc[c] = "send" THEN fileSize - bytesToSend[c] ELSE 0

Sending(c) == child[c] = "running" /\ spc[c] \in {"open", "send"}

ChildInv(c) ==
    /\ child[c] # "running" => spc[c] = "size"
    /\ spc[c] = "send" => bytesToSend[c] <= fileSize

(* What is on its way to a client that waits for the size, and to one that *)
(* has it                                                                  *)
DownInv(c) ==
    /\ link[c] # "up" => down[c] = << >>
    /\ link[c] = "up" /\ Fresh(c) => cpc[c] = "size" /\ down[c] = << >>
    /\ link[c] = "up" /\ cpc[c] = "size" =>
          /\ \A i \in 1 .. Len(down[c]) :
                down[c][i] = IF i = 1 THEN <<"size", fileSize>> ELSE <<"byte", i - 1>>
          /\ Len(down[c]) <= fileSize + 1
          /\ Sending(c) => Len(down[c]) = Sent(c) + 1
    /\ link[c] = "up" /\ cpc[c] = "data" =>
          /\ \A i \in 1 .. Len(down[c]) : down[c][i] = <<"byte", Len(buf[c]) + i>>
          /\ Len(buf[c]) + Len(down[c]) <= fileSize
          /\ Sending(c) => Len(buf[c]) + Len(down[c]) = Sent(c)

(* What a client holds *)
BufInv(c) ==
    /\ \A i \in 1 .. Len(buf[c]) : buf[c][i] = <<"byte", i>>
    /\ Len(buf[c]) <= fileSize
    /\ cpc[c] = "size" => buf[c] = << >> /\ expected[c] = 0
    /\ cpc[c] = "data" => expected[c] = IF link[c] = "told" THEN 0 ELSE fileSize
    /\ link[c] = "told" => cpc[c] \in {"data", "done"} /\ Len(buf[c]) = 0
    /\ cpc[c] = "done" =>
          /\ Len(buf[c]) = IF link[c] = "told" THEN 0 ELSE fileSize
          /\ Len(buf[c]) < MaxData
    /\ cpc[c] = "overrun" => fileSize >= MaxData

ExInv(c) == ChildInv(c) /\ DownInv(c) /\ BufInv(c)

EInv == ServiceTypes /\ \A c \in Clients : ExInv(c)

(* A step that leaves the exchange of a client alone *)
LEMMA ExFrame ==
    ASSUME NEW c \in Clients, ExInv(c), fileSize' = fileSize,
           spc'[c] = spc[c], bytesToSend'[c] = bytesToSend[c], cpc'[c] = cpc[c],
           expected'[c] = expected[c], buf'[c] = buf[c], down'[c] = down[c],
           link'[c] = link[c],
           child'[c] = "running" => child[c] = "running" \/ Fresh(c),
           child'[c] # "running" => spc[c] = "size",
           Fresh(c)' => Fresh(c)
    PROVE  ExInv(c)'
  <1>1. ChildInv(c)'
    BY DEF ExInv, ChildInv
  <1>2. Sent(c)' = Sent(c)
    BY DEF Sent
  <1>3. Sending(c)' => Sending(c)
    <2>1. ASSUME Sending(c)', ~ Sending(c) PROVE FALSE
      <3>1. Fresh(c) /\ child[c] # "running" /\ spc[c] \in {"open", "send"}
        BY <2>1 DEF Sending
      <3> QED
        BY <3>1 DEF ExInv, ChildInv
    <2> QED
      BY <2>1
  <1>4. DownInv(c)'
    BY <1>2, <1>3 DEF ExInv, DownInv
  <1>5. BufInv(c)'
    BY DEF ExInv, BufInv
  <1> QED
    BY <1>1, <1>4, <1>5 DEF ExInv

(* No exchange has begun                                                   *)
LEMMA EInvInit == ServiceInit => EInv
  <1> SUFFICES ASSUME ServiceInit PROVE EInv
    OBVIOUS
  <1> USE DEF ServiceInit
  <1>1. fileSize \in Nat /\ size \in Nat /\ named \in BOOLEAN
    <2>1. CASE named
      <3>1. size \in Nat /\ size % SizeSpace \in Nat
        BY <2>1, FileServerAssumption
      <3> QED
        BY <2>1, <3>1 DEF ToByte
    <2>2. CASE ~ named
      BY <2>2, FileServerAssumption
    <2> QED
      BY <2>1, <2>2
  <1>3. << >> \in Seq(Items) /\ Len(<< >>) = 0
    OBVIOUS
  <1>4. ServiceTypes
    BY <1>1, <1>3 DEF ServiceTypes
  <1>5. ASSUME NEW c \in Clients PROVE ExInv(c)
    <2>1. /\ child[c] = "none" /\ spc[c] = "size" /\ cpc[c] = "none" /\ link[c] = "up"
          /\ buf[c] = << >> /\ down[c] = << >>
      BY DEF Init
    <2>2. ~ Fresh(c)
      BY DEF Fresh, Init, Queued, ChildAt
    <2> QED
      BY <1>1, <1>3, <2>1, <2>2 DEF ExInv, ChildInv, DownInv, BufInv
  <1> QED
    BY <1>1, <1>4, <1>5 DEF EInv

(* The types of what concerns one client *)
LEMMA ExTypes ==
    ASSUME ServiceTypes, NEW c \in Clients
    PROVE  /\ spc[c] \in {"size", "open", "send", "end"}
           /\ bytesToSend[c] \in Nat /\ opened[c] \in Nat
           /\ cpc[c] \in {"none", "size", "data", "done", "failed", "overrun"}
           /\ expected[c] \in Nat /\ link[c] \in {"up", "reset", "told"}
           /\ buf[c] \in Seq(Items) /\ Len(buf[c]) \in Nat
           /\ down[c] \in Seq(Items) /\ Len(down[c]) \in Nat
           /\ fileSize \in Nat /\ size \in Nat
  BY DEF ServiceTypes

(* The parent touches no exchange: it makes a connection that waits in the *)
(* queue the one of a child                                                *)
LEMMA EInvParent == FInv /\ EInv /\ ServiceParent => EInv'
  <1> SUFFICES ASSUME FInv, EInv, ServiceParent PROVE EInv'
    OBVIOUS
  <1>1. UNCHANGED exchangeVars
    BY DEF ServiceParent
  <1> USE DEF exchangeVars, fileVars, childVars, clientVars
  <1>2. ServiceTypes'
    BY <1>1 DEF EInv, ServiceTypes
  <1>3. ASSUME \A c \in Clients :
                  /\ child'[c] = "running" => child[c] = "running" \/ Fresh(c)
                  /\ child[c] = "running" => child'[c] = "running"
                  /\ Fresh(c)' => Fresh(c)
        PROVE  EInv'
    <2>1. ASSUME NEW c \in Clients PROVE ExInv(c)'
      <3>1. ExInv(c)
        BY DEF EInv
      <3>2. child'[c] # "running" => spc[c] = "size"
        BY <1>3, <3>1 DEF ExInv, ChildInv
      <3> QED
        BY <1>1, <1>3, <3>1, <3>2, ExFrame
    <2> QED
      BY <1>2, <2>1 DEF EInv
  <1>4. CASE Accept
    <2> DEFINE h == Head(queue)
    <2>1. queue \in Seq(Clients) /\ queue # << >>
      BY <1>4 DEF Accept, FInv, TypeOK
    <2>2. /\ h = queue[1] /\ Len(queue) \in Nat /\ Len(queue) >= 1
          /\ Len(queue') = Len(queue) - 1
          /\ \A i \in 1 .. Len(queue') : queue'[i] = queue[i + 1]
      BY <1>4, <2>1, HeadTailProperties DEF Accept
    <2>3. h \in Queued
      BY <2>2 DEF Queued
    <2>4. Queued' \subseteq Queued
      <3>1. \A i \in 1 .. Len(queue') : i + 1 \in 1 .. Len(queue)
        BY <2>2
      <3> QED
        BY <2>2, <3>1 DEF Queued
    <2> QED
      BY <1>1, <1>3, <1>4, <2>3, <2>4 DEF Accept, Fresh, ChildAt
  <1>5. CASE Fork
    <2>1. newFd \in Clients /\ child[newFd] = "none" /\ Fresh(newFd) /\ spc[newFd] = "size"
      BY <1>5 DEF Fork, FInv, NewFdInv, TypeOK, Fresh, EInv, ExInv, ChildInv
    <2>2. \A c \in Clients : child'[c] = IF c = newFd THEN "running" ELSE child[c]
      BY <1>5 DEF Fork, FInv, TypeOK
    <2>3. Queued' = Queued /\ ppc' = "close"
      BY <1>5 DEF Fork, Queued
    <2> QED
      BY <1>1, <1>3, <2>1, <2>2, <2>3 DEF Fresh, ChildAt
  <1>6. CASE ForkFails \/ Close
    <2>1. /\ child' = child /\ queue' = queue /\ ppc' # "fork"
      BY <1>6 DEF ForkFails, Close
    <2> QED
      BY <1>1, <1>3, <2>1 DEF Fresh, ChildAt, Queued
  <1>7. CASE HandlerStep
    <2>1. queue' = queue /\ ppc' = ppc /\ newFd' = newFd
      BY <1>7 DEF HandlerStep, Signal, NoneToReap, Return, Reap
    <2>2. \A c \in Clients : child'[c] = child[c] \/ (child[c] = "zombie" /\ child'[c] = "none")
      BY <1>7 DEF HandlerStep, Signal, NoneToReap, Return, Reap, FInv, TypeOK
    <2> QED
      BY <1>1, <1>3, <2>1, <2>2 DEF Fresh, ChildAt, Queued
  <1> QED
    BY <1>4, <1>5, <1>6, <1>7 DEF ServiceParent, ParentStep

(* A step in the exchange of one client leaves the others alone *)
LEMMA ExOthers ==
    ASSUME EInv, NEW c \in Clients, UNCHANGED vars, UNCHANGED fileVars,
           \A d \in Clients \ {c} :
              /\ spc'[d] = spc[d] /\ bytesToSend'[d] = bytesToSend[d] /\ cpc'[d] = cpc[d]
              /\ expected'[d] = expected[d] /\ buf'[d] = buf[d] /\ down'[d] = down[d]
              /\ link'[d] = link[d]
    PROVE  \A d \in Clients \ {c} : ExInv(d)'
  <1> USE DEF vars, fileVars
  <1> SUFFICES ASSUME NEW d \in Clients \ {c} PROVE ExInv(d)'
    OBVIOUS
  <1>1. ExInv(d)
    BY DEF EInv
  <1>2. child'[d] # "running" => spc[d] = "size"
    BY <1>1 DEF ExInv, ChildInv
  <1>3. Fresh(d)' => Fresh(d)
    BY DEF Fresh, Queued, ChildAt
  <1> QED
    BY <1>1, <1>2, <1>3, ExFrame

(* A connection with a running child is past the queue and the fork *)
LEMMA RunningIsForked ==
    ASSUME FInv, NEW c \in Clients, child[c] = "running"
    PROVE  c \notin Queued /\ ~ (ppc = "fork" /\ newFd = c)
  BY DEF FInv, QueueInv, NewFdInv, Queued

(* The size is the first thing on its way to a client, unless the client   *)
(* is out of reach                                                         *)
LEMMA EInvSendSize ==
    ASSUME FInv, EInv, NEW c \in Clients, SendSize(c)
    PROVE  EInv'
  <1> USE DEF childVars, clientVars
  <1>0. ServiceTypes /\ ExInv(c)
    BY DEF EInv
  <1>1. /\ child[c] = "running" /\ spc[c] = "size" /\ UNCHANGED vars /\ UNCHANGED fileVars
        /\ UNCHANGED <<bytesToSend, opened, cpc, expected, buf, link>>
    BY DEF SendSize, ChildAt
  <1>2. child' = child /\ fileSize' = fileSize /\ named' = named /\ size' = size
    BY <1>1 DEF vars, fileVars
  <1>3. Fresh(c)
    BY <1>1 DEF Fresh, ChildAt
  <1>4. CASE link[c] = "up"
    <2>1. /\ down' = [down EXCEPT ![c] = Append(@, <<"size", fileSize>>)]
          /\ spc' = [spc EXCEPT ![c] = "open"]
      BY <1>4 DEF SendSize
    <2>2. cpc[c] = "size" /\ down[c] = << >> /\ buf[c] = << >>
      BY <1>0, <1>3, <1>4 DEF ExInv, DownInv, BufInv
    <2>3. <<"size", fileSize>> \in Items
      BY <1>0 DEF ServiceTypes, Items
    <2>4. down'[c] = << <<"size", fileSize>> >> /\ spc'[c] = "open"
      BY <1>0, <2>1, <2>2 DEF ServiceTypes
    <2>5. down'[c] \in Seq(Items) /\ Len(down'[c]) = 1 /\ down'[c][1] = <<"size", fileSize>>
      BY <2>3, <2>4
    <2>6. ServiceTypes'
      <3>1. down' \in [Clients -> Seq(Items)] /\ spc' \in [Clients -> {"size", "open", "send", "end"}]
        BY <1>0, <2>1, <2>4, <2>5 DEF ServiceTypes
      <3> QED
        BY <1>0, <1>1, <1>2, <3>1 DEF ServiceTypes
    <2>7. ~ Fresh(c)' /\ Sent(c)' = 0
      <3>1. c \notin Queued /\ ~ (ppc = "fork" /\ newFd = c)
        BY <1>1, RunningIsForked
      <3> QED
        BY <1>1, <2>4, <3>1 DEF vars, Fresh, Queued, ChildAt, Sent
    <2>8. ChildInv(c)'
      BY <1>1, <1>2, <2>4 DEF ChildInv
    <2>9. DownInv(c)'
      BY <1>0, <1>1, <1>2, <1>4, <2>2, <2>5, <2>7 DEF DownInv, ServiceTypes
    <2>10. BufInv(c)'
      BY <1>0, <1>1, <1>2, <2>2, <2>4, <2>5 DEF ExInv, BufInv
    <2>11. \A d \in Clients \ {c} : ExInv(d)'
      BY <1>0, <1>1, <2>1, ExOthers DEF ServiceTypes
    <2> QED
      BY <2>6, <2>8, <2>9, <2>10, <2>11 DEF EInv, ExInv
  <1>5. CASE link[c] # "up"
    <2>1. down' = down /\ spc' = [spc EXCEPT ![c] = "end"]
      BY <1>5 DEF SendSize
    <2>2. spc'[c] = "end" /\ down'[c] = << >>
      BY <1>0, <1>5, <2>1 DEF ServiceTypes, ExInv, DownInv
    <2>3. ServiceTypes'
      BY <1>0, <1>1, <1>2, <2>1 DEF ServiceTypes
    <2>4. ChildInv(c)' /\ DownInv(c)'
      BY <1>1, <1>2, <1>5, <2>2 DEF ChildInv, DownInv
    <2>5. BufInv(c)'
      BY <1>0, <1>1, <1>2, <2>1, <2>2 DEF ExInv, BufInv
    <2>6. \A d \in Clients \ {c} : ExInv(d)'
      BY <1>0, <1>1, <2>1, ExOthers DEF ServiceTypes
    <2> QED
      BY <2>3, <2>4, <2>5, <2>6 DEF EInv, ExInv
  <1> QED
    BY <1>4, <1>5

(* A running child past the size is not fresh, before and after a step     *)
LEMMA NotFresh ==
    ASSUME FInv, NEW c \in Clients, child[c] = "running", UNCHANGED vars, spc'[c] # "size"
    PROVE  ~ Fresh(c)'
  BY RunningIsForked DEF vars, Fresh, Queued, ChildAt

(* The child that has sent the size has the whole file to send             *)
LEMMA EInvOpenFile ==
    ASSUME FInv, EInv, NEW c \in Clients, OpenFile(c)
    PROVE  EInv'
  <1> USE DEF clientVars
  <1>0. ServiceTypes /\ ExInv(c)
    BY DEF EInv
  <1>1. /\ child[c] = "running" /\ spc[c] = "open" /\ UNCHANGED vars /\ UNCHANGED fileVars
        /\ UNCHANGED <<cpc, expected, buf, down, link>>
        /\ bytesToSend' = [bytesToSend EXCEPT ![c] = fileSize]
        /\ opened' = [opened EXCEPT ![c] = size]
        /\ spc' = [spc EXCEPT ![c] = IF named THEN "send" ELSE "end"]
    BY DEF OpenFile, ChildAt
  <1>2. child' = child /\ fileSize' = fileSize /\ named' = named /\ size' = size
    BY <1>1 DEF vars, fileVars
  <1>3. /\ spc'[c] = (IF named THEN "send" ELSE "end") /\ bytesToSend'[c] = fileSize
        /\ fileSize \in Nat
    BY <1>0, <1>1 DEF ServiceTypes
  <1>4. ServiceTypes'
    BY <1>0, <1>1, <1>2 DEF ServiceTypes
  <1>5. ~ Fresh(c)'
    BY <1>1, <1>3, NotFresh
  <1>6. Sending(c) /\ Sent(c) = 0 /\ Sent(c)' = 0
    BY <1>1, <1>2, <1>3 DEF Sending, Sent
  <1>7. ChildInv(c)'
    BY <1>1, <1>2, <1>3 DEF ChildInv
  <1>8. DownInv(c)'
    BY <1>0, <1>1, <1>2, <1>5, <1>6 DEF ExInv, DownInv
  <1>9. BufInv(c)'
    BY <1>0, <1>1, <1>2, <1>3 DEF ExInv, BufInv
  <1>10. \A d \in Clients \ {c} : ExInv(d)'
    BY <1>0, <1>1, ExOthers DEF ServiceTypes
  <1> QED
    BY <1>4, <1>7, <1>8, <1>9, <1>10 DEF EInv, ExInv

(* A part of the file is a sequence of its bytes                           *)
LEMMA BytesOf ==
    ASSUME NEW s \in Nat, NEW k \in Nat
    PROVE  /\ Bytes(s + 1, s + k) \in Seq(Items) /\ Len(Bytes(s + 1, s + k)) = k
           /\ \A i \in 1 .. k : Bytes(s + 1, s + k)[i] = <<"byte", s + i>>
  <1> DEFINE b == [i \in 1 .. k |-> <<"byte", s + i>>]
  <1>1. Bytes(s + 1, s + k) = b
    <2>1. (s + k) - (s + 1) + 1 = k /\ \A i \in 1 .. k : (s + 1) + i - 1 = s + i
      OBVIOUS
    <2> QED
      BY <2>1 DEF Bytes
  <1>2. \A i \in 1 .. k : <<"byte", s + i>> \in Items
    BY DEF Items
  <1>3. b \in Seq(Items) /\ Len(b) = k
    BY <1>2
  <1> QED
    BY <1>1, <1>3

(* What sendfile sends continues what was sent before, which is what the   *)
(* client has read and what is on its way                                  *)
LEMMA EInvSendFile ==
    ASSUME FInv, EInv, NEW c \in Clients, SendFile(c)
    PROVE  EInv'
  <1> USE DEF clientVars
  <1> DEFINE s == fileSize - bytesToSend[c]
  <1>0. ServiceTypes /\ ExInv(c)
    BY DEF EInv
  <1>1. /\ child[c] = "running" /\ spc[c] = "send" /\ UNCHANGED vars /\ UNCHANGED fileVars
        /\ UNCHANGED <<opened, cpc, expected, buf, link>>
    BY DEF SendFile, ChildAt
  <1>2. child' = child /\ fileSize' = fileSize /\ named' = named /\ size' = size
    BY <1>1 DEF vars, fileVars
  <1>3. /\ bytesToSend[c] \in Nat /\ fileSize \in Nat /\ bytesToSend[c] <= fileSize
        /\ s \in Nat /\ down[c] \in Seq(Items) /\ Len(down[c]) \in Nat
        /\ opened[c] \in Nat
    BY <1>0, <1>1, ExTypes DEF ExInv, ChildInv
  <1>4. PICK k \in Nat :
           /\ down'[c] = down[c] \o Bytes(s + 1, s + k)
           /\ k <= bytesToSend[c]
           /\ link[c] # "up" => k = 0
           /\ \/ /\ down' = [down EXCEPT ![c] = down[c] \o Bytes(s + 1, s + k)]
                 /\ bytesToSend' = [bytesToSend EXCEPT ![c] = @ - k]
              \/ k = 0 /\ UNCHANGED <<down, bytesToSend>>
           /\ spc'[c] \in {"send", "end"}
           /\ spc' = [spc EXCEPT ![c] = spc'[c]]
           /\ bytesToSend'[c] = bytesToSend[c] - k
    <2> DEFINE m == IF opened[c] > s THEN opened[c] - s ELSE 0
               most == Asked(bytesToSend[c], m)
    <2>1. m \in Nat
      BY <1>0, <1>3, ExTypes
    <2>2. most \in Nat /\ most <= bytesToSend[c]
      BY <1>3, <2>1 DEF Asked
    <2>3. CASE /\ link[c] = "up" \/ most = 0
               /\ \E k \in 0 .. most :
                     /\ k = 0 => most = 0
                     /\ down' = [down EXCEPT ![c] = @ \o Bytes(s + 1, s + k)]
                     /\ bytesToSend' = [bytesToSend EXCEPT ![c] = @ - k]
               /\ spc' = [spc EXCEPT ![c] = IF bytesToSend'[c] > 0 THEN @ ELSE "end"]
      <3> HIDE DEF most
      <3>1. PICK k \in 0 .. most :
                     /\ down' = [down EXCEPT ![c] = @ \o Bytes(s + 1, s + k)]
                     /\ bytesToSend' = [bytesToSend EXCEPT ![c] = @ - k]
        BY <2>3
      <3>2. k \in Nat /\ k <= bytesToSend[c] /\ (link[c] # "up" => k = 0)
        BY <2>2, <2>3, <1>3
      <3>3. spc'[c] \in {"send", "end"} /\ spc' = [spc EXCEPT ![c] = spc'[c]]
        BY <2>3, <1>0, <1>1 DEF ServiceTypes
      <3>4. down'[c] = down[c] \o Bytes(s + 1, s + k) /\ bytesToSend'[c] = bytesToSend[c] - k
        BY <3>1, <1>0 DEF ServiceTypes
      <3> QED
        BY <3>1, <3>2, <3>3, <3>4
    <2>4. CASE /\ link[c] # "up"
               /\ spc' = [spc EXCEPT ![c] = "end"]
               /\ UNCHANGED <<bytesToSend, down>>
      <3>1. down[c] \o Bytes(s + 1, s + 0) = down[c]
        <4>1. Bytes(s + 1, s + 0) \in Seq(Items) /\ Len(Bytes(s + 1, s + 0)) = 0
          BY <1>3, BytesOf
        <4>2. Bytes(s + 1, s + 0) = << >>
          BY <4>1, EmptySeq
        <4> QED
          BY <4>2, <1>3, ConcatEmptySeq
      <3>2. /\ spc'[c] \in {"send", "end"} /\ spc' = [spc EXCEPT ![c] = spc'[c]]
            /\ down'[c] = down[c] /\ bytesToSend'[c] = bytesToSend[c] - 0
        BY <2>4, <1>0, <1>3 DEF ServiceTypes
      <3>3. 0 \in Nat /\ 0 <= bytesToSend[c]
        BY <1>3
      <3>4. down'[c] = down[c] \o Bytes(s + 1, s + 0)
        BY <3>1, <3>2
      <3> HIDE DEF s
      <3> QED
        BY <2>4, <3>2, <3>3, <3>4
    <2> QED
      BY <2>3, <2>4 DEF SendFile
  <1> HIDE DEF s
  <1>5. /\ down'[c] \in Seq(Items) /\ Len(down'[c]) = Len(down[c]) + k
        /\ \A i \in 1 .. Len(down[c]) : down'[c][i] = down[c][i]
        /\ \A i \in Len(down[c]) + 1 .. Len(down[c]) + k :
              down'[c][i] = <<"byte", s + (i - Len(down[c]))>>
    <2> DEFINE b == Bytes(s + 1, s + k)
    <2>1. b \in Seq(Items) /\ Len(b) = k /\ \A i \in 1 .. k : b[i] = <<"byte", s + i>>
      BY <1>3, BytesOf
    <2> HIDE DEF b
    <2> DEFINE all == down[c] \o b
    <2>2. /\ all \in Seq(Items) /\ Len(all) = Len(down[c]) + k
          /\ \A i \in 1 .. Len(down[c]) + k :
                all[i] = IF i <= Len(down[c]) THEN down[c][i] ELSE b[i - Len(down[c])]
      <3>1. down[c] \in Seq(Items) /\ b \in Seq(Items) /\ Len(b) = k
        BY <1>3, <2>1
      <3>2. /\ all \in Seq(Items) /\ Len(all) = Len(down[c]) + Len(b)
            /\ \A i \in 1 .. Len(down[c]) + Len(b) :
                  all[i] = IF i <= Len(down[c]) THEN down[c][i] ELSE b[i - Len(down[c])]
        BY <3>1, ConcatProperties
      <3> HIDE DEF all
      <3> QED
        BY <3>1, <3>2
    <2>3. down'[c] = all
      BY <1>4 DEF b
    <2> HIDE DEF all
    <2>4. \A i \in Len(down[c]) + 1 .. Len(down[c]) + k :
             i - Len(down[c]) \in 1 .. k /\ i \in 1 .. Len(down[c]) + k /\ ~ (i <= Len(down[c]))
      <3> DEFINE L == Len(down[c])
      <3>1. L \in Nat /\ k \in Nat
        BY <1>3
      <3> HIDE DEF L
      <3>2. \A i \in L + 1 .. L + k : i - L \in 1 .. k /\ i \in 1 .. L + k /\ ~ (i <= L)
        BY ONLY <3>1
      <3> QED
        BY <3>2 DEF L
    <2>5. \A i \in 1 .. Len(down[c]) : i \in 1 .. Len(down[c]) + k /\ i <= Len(down[c])
      BY <1>3
    <2>6. \A i \in 1 .. Len(down[c]) : all[i] = down[c][i]
      BY <2>2, <2>5
    <2>7. \A i \in Len(down[c]) + 1 .. Len(down[c]) + k :
             all[i] = <<"byte", s + (i - Len(down[c]))>>
      BY <2>1, <2>2, <2>4
    <2> QED
      BY <2>2, <2>3, <2>6, <2>7
  <1>6. ServiceTypes'
    <2>1. bytesToSend[c] - k \in Nat
      BY <1>3, <1>4
    <2>2. spc' \in [Clients -> {"size", "open", "send", "end"}]
      BY <1>0, <1>4 DEF ServiceTypes
    <2>3. down' \in [Clients -> Seq(Items)]
      <3>1. down' = down \/ down' = [down EXCEPT ![c] = down'[c]]
        BY <1>0, <1>4 DEF ServiceTypes
      <3> QED
        BY <1>0, <1>5, <3>1 DEF ServiceTypes
    <2>4. bytesToSend' \in [Clients -> Nat]
      BY <1>0, <1>4, <2>1 DEF ServiceTypes
    <2> QED
      BY <1>0, <1>1, <1>2, <2>2, <2>3, <2>4 DEF ServiceTypes
  <1>7. ~ Fresh(c)'
    BY <1>1, <1>4, NotFresh
  <1>8. /\ Sending(c) /\ Sent(c) = s /\ s + k <= fileSize
        /\ Sending(c)' => Sent(c)' = s + k
    <2>1. fileSize - (bytesToSend[c] - k) = s + k /\ s + k <= fileSize
      BY <1>3, <1>4 DEF s
    <2> QED
      BY <1>1, <1>2, <1>4, <2>1 DEF Sending, Sent, s
  <1>9. ChildInv(c)'
    BY <1>1, <1>2, <1>3, <1>4 DEF ChildInv
  <1>10. DownInv(c)'
    <2>1. link'[c] # "up" => down'[c] = << >>
      <3>1. ASSUME link[c] # "up" PROVE down'[c] = << >>
        <4>1. down[c] = << >> /\ k = 0
          BY <3>1, <1>0, <1>4 DEF ExInv, DownInv
        <4>2. Len(down'[c]) = 0
          BY <4>1, <1>5, EmptySeq
        <4> QED
          BY <4>2, <1>5, EmptySeq
      <3> QED
        BY <3>1, <1>1
    <2> DEFINE L == Len(down[c])
    <2>k. L \in Nat /\ k \in Nat /\ s \in Nat /\ fileSize \in Nat /\ s + k <= fileSize
      BY <1>3, <1>8
    <2>l. /\ Len(down'[c]) = L + k
          /\ \A i \in 1 .. L : down'[c][i] = down[c][i]
          /\ \A i \in L + 1 .. L + k : down'[c][i] = <<"byte", s + (i - L)>>
      BY <1>5
    <2>m. \A i \in 1 .. L + k : i \in 1 .. L \/ i \in L + 1 .. L + k
      <3> HIDE DEF L
      <3> QED
        BY ONLY <2>k
    <2>2. ASSUME link[c] = "up", cpc[c] = "size"
          PROVE  /\ \A i \in 1 .. Len(down'[c]) :
                       down'[c][i] = IF i = 1 THEN <<"size", fileSize>> ELSE <<"byte", i - 1>>
                 /\ Len(down'[c]) <= fileSize + 1
                 /\ Sending(c)' => Len(down'[c]) = Sent(c)' + 1
      <3>1. /\ \A i \in 1 .. Len(down[c]) :
                  down[c][i] = IF i = 1 THEN <<"size", fileSize>> ELSE <<"byte", i - 1>>
            /\ L = s + 1
        BY <2>2, <1>0, <1>8 DEF ExInv, DownInv
      <3>a. L = s + 1
        BY <3>1
      <3> HIDE DEF L
      <3>2. \A i \in L + 1 .. L + k : i # 1 /\ s + (i - L) = i - 1
        BY ONLY <3>a, <2>k
      <3>3. L + k <= fileSize + 1 /\ L + k = (s + k) + 1
        BY ONLY <3>a, <2>k
      <3>b. \A i \in 1 .. L :
               down'[c][i] = IF i = 1 THEN <<"size", fileSize>> ELSE <<"byte", i - 1>>
        BY <3>1, <2>l DEF L
      <3>4. \A i \in 1 .. L + k :
               down'[c][i] = IF i = 1 THEN <<"size", fileSize>> ELSE <<"byte", i - 1>>
        BY ONLY <3>b, <3>2, <2>l, <2>m
      <3> QED
        BY <3>3, <3>4, <2>l, <1>8
    <2>3. ASSUME link[c] = "up", cpc[c] = "data"
          PROVE  /\ \A i \in 1 .. Len(down'[c]) : down'[c][i] = <<"byte", Len(buf[c]) + i>>
                 /\ Len(buf[c]) + Len(down'[c]) <= fileSize
                 /\ Sending(c)' => Len(buf[c]) + Len(down'[c]) = Sent(c)'
      <3>1. /\ \A i \in 1 .. Len(down[c]) : down[c][i] = <<"byte", Len(buf[c]) + i>>
            /\ Len(buf[c]) + L = s /\ Len(buf[c]) \in Nat
        BY <2>3, <1>0, <1>8, ExTypes DEF ExInv, DownInv
      <3> DEFINE B == Len(buf[c])
      <3>a. B + L = s /\ B \in Nat
        BY <3>1
      <3>b. \A i \in 1 .. L : down'[c][i] = <<"byte", B + i>>
        BY <3>1, <2>l
      <3> HIDE DEF L, B
      <3>2. \A i \in L + 1 .. L + k : s + (i - L) = B + i
        BY ONLY <3>a, <2>k
      <3>3. B + (L + k) = s + k
        BY ONLY <3>a, <2>k
      <3>4. \A i \in 1 .. L + k : down'[c][i] = <<"byte", B + i>>
        BY ONLY <3>b, <3>2, <2>l, <2>m
      <3> QED
        BY <3>3, <3>4, <2>l, <2>k, <1>8 DEF B
    <2> QED
      BY <2>1, <2>2, <2>3, <1>1, <1>2, <1>7 DEF DownInv
  <1>11. BufInv(c)'
    BY <1>0, <1>1, <1>2, <1>3 DEF ExInv, BufInv
  <1>12. \A d \in Clients \ {c} : ExInv(d)'
    BY <1>0, <1>1, <1>4, ExOthers DEF ServiceTypes
  <1> QED
    BY <1>6, <1>9, <1>10, <1>11, <1>12 DEF EInv, ExInv

(* A child may end at any time after it has sent what it could; no further *)
(* bytes come                                                              *)
LEMMA EInvChildEnds ==
    ASSUME FInv, EInv, NEW c \in Clients, ChildEnds(c)
    PROVE  EInv'
  <1> USE DEF clientVars
  <1>0. ServiceTypes /\ ExInv(c)
    BY DEF EInv
  <1>1. /\ child[c] = "running" /\ spc[c] = "end" /\ UNCHANGED fileVars
        /\ UNCHANGED <<bytesToSend, cpc, expected, buf, down, link, queue, ppc, newFd>>
        /\ spc' = [spc EXCEPT ![c] = "size"]
        /\ opened' = [opened EXCEPT ![c] = 0]
        /\ child' = [child EXCEPT ![c] = "zombie"]
    BY DEF ChildEnds, Exit
  <1>2. /\ fileSize' = fileSize /\ named' = named /\ size' = size
        /\ spc'[c] = "size" /\ child'[c] = "zombie"
    BY <1>0, <1>1 DEF fileVars, ServiceTypes, FInv, TypeOK
  <1>3. ServiceTypes'
    BY <1>0, <1>1, <1>2 DEF ServiceTypes
  <1>4. ~ Fresh(c)' /\ ~ Sending(c)'
    BY <1>1, <1>2, RunningIsForked DEF Fresh, Queued, ChildAt, Sending
  <1>5. ChildInv(c)' /\ DownInv(c)'
    BY <1>0, <1>1, <1>2, <1>4 DEF ExInv, ChildInv, DownInv
  <1>6. BufInv(c)'
    BY <1>0, <1>1, <1>2 DEF ExInv, BufInv
  <1>7. ASSUME NEW d \in Clients \ {c} PROVE ExInv(d)'
    <2>1. ExInv(d) /\ spc'[d] = spc[d] /\ child'[d] = child[d]
      BY <1>0, <1>1 DEF EInv, ServiceTypes, FInv, TypeOK
    <2>2. Fresh(d)' => Fresh(d)
      BY <1>1, <2>1 DEF Fresh, Queued, ChildAt
    <2>3. child'[d] # "running" => spc[d] = "size"
      BY <2>1 DEF ExInv, ChildInv
    <2> QED
      BY <1>1, <1>2, <2>1, <2>2, <2>3, ExFrame
  <1> QED
    BY <1>3, <1>5, <1>6, <1>7 DEF EInv, ExInv

(* A new connection: the stream is empty, and the child will start anew    *)
LEMMA EInvClientStarts ==
    ASSUME FInv, EInv, NEW c \in Clients, ClientStarts(c)
    PROVE  EInv'
  <1> USE DEF childVars
  <1>0. ServiceTypes /\ ExInv(c)
    BY DEF EInv
  <1>1. /\ child[c] = "none" /\ UNCHANGED fileVars
        /\ UNCHANGED <<spc, bytesToSend, opened, child, ppc, newFd>>
        /\ queue' = Append(queue, c)
    BY DEF ClientStarts, Connect
  <1>2. /\ cpc' = [cpc EXCEPT ![c] = "size"]
        /\ expected' = [expected EXCEPT ![c] = 0]
        /\ buf' = [buf EXCEPT ![c] = << >>]
        /\ down' = [down EXCEPT ![c] = << >>]
        /\ link' = [link EXCEPT ![c] = "up"]
    BY DEF ClientStarts
  <1>3. /\ fileSize' = fileSize /\ named' = named /\ size' = size
        /\ cpc'[c] = "size" /\ expected'[c] = 0 /\ buf'[c] = << >> /\ down'[c] = << >>
        /\ link'[c] = "up" /\ spc'[c] = "size"
    BY <1>0, <1>1, <1>2 DEF fileVars, ServiceTypes, ExInv, ChildInv
  <1>4. << >> \in Seq(Items) /\ Len(<< >>) = 0 /\ 1 .. 0 = {}
    OBVIOUS
  <1>5. ServiceTypes'
    <2>1. /\ cpc' \in [Clients -> {"none", "size", "data", "done", "failed", "overrun"}]
          /\ expected' \in [Clients -> Nat] /\ link' \in [Clients -> {"up", "reset", "told"}]
      BY <1>0, <1>2 DEF ServiceTypes
    <2>2. buf' \in [Clients -> Seq(Items)] /\ down' \in [Clients -> Seq(Items)]
      BY <1>0, <1>2, <1>4 DEF ServiceTypes
    <2> QED
      BY <1>0, <1>1, <1>3, <2>1, <2>2 DEF ServiceTypes
  <1>6. fileSize \in Nat /\ ~ Sending(c)'
    BY <1>0, <1>1 DEF ServiceTypes, Sending
  <1>7. ChildInv(c)' /\ DownInv(c)' /\ BufInv(c)'
    BY <1>0, <1>1, <1>3, <1>4, <1>6 DEF ChildInv, DownInv, BufInv
  <1>9. ASSUME NEW d \in Clients \ {c} PROVE ExInv(d)'
    <2>1. /\ ExInv(d) /\ cpc'[d] = cpc[d] /\ expected'[d] = expected[d]
          /\ buf'[d] = buf[d] /\ down'[d] = down[d] /\ link'[d] = link[d]
      BY <1>0, <1>2 DEF EInv, ServiceTypes
    <2>2. d \in Queued' => d \in Queued
      <3>1. queue \in Seq(Clients)
        BY DEF FInv, TypeOK
      <3>2. /\ Len(queue') = Len(queue) + 1 /\ Len(queue) \in Nat
            /\ \A i \in 1 .. Len(queue) : queue'[i] = queue[i]
            /\ queue'[Len(queue) + 1] = c
        BY <1>1, <3>1, AppendProperties
      <3>3. \A i \in 1 .. Len(queue') : i \in 1 .. Len(queue) \/ i = Len(queue) + 1
        BY <3>2
      <3> QED
        BY <3>2, <3>3 DEF Queued
    <2>3. Fresh(d)' => Fresh(d)
      BY <1>1, <2>2 DEF Fresh, ChildAt
    <2>4. child'[d] # "running" => spc[d] = "size"
      BY <1>1, <2>1 DEF ExInv, ChildInv
    <2> QED
      BY <1>1, <1>3, <2>1, <2>3, <2>4, ExFrame
  <1> QED
    BY <1>5, <1>7, <1>9 DEF EInv, ExInv

(* The client gets the size, or the report of a reset in its place         *)
LEMMA EInvRecvSize ==
    ASSUME FInv, EInv, NEW c \in Clients, RecvSize(c)
    PROVE  EInv'
  <1> USE DEF childVars
  <1>0. ServiceTypes /\ ExInv(c)
    BY DEF EInv
  <1>1. /\ cpc[c] = "size" /\ UNCHANGED vars /\ UNCHANGED fileVars
        /\ UNCHANGED <<spc, bytesToSend, opened, buf>>
        /\ cpc' = [cpc EXCEPT ![c] = "data"]
    BY DEF RecvSize
  <1>2. /\ child' = child /\ fileSize' = fileSize /\ named' = named /\ size' = size
        /\ cpc'[c] = "data" /\ Sending(c)' = Sending(c) /\ Sent(c)' = Sent(c)
        /\ Fresh(c)' = Fresh(c)
    BY <1>0, <1>1 DEF vars, fileVars, ServiceTypes, Sending, Sent, Fresh, Queued, ChildAt
  <1>3. buf[c] = << >> /\ Len(buf[c]) = 0
    BY <1>0, <1>1 DEF ExInv, BufInv
  <1>t. /\ fileSize \in Nat /\ down[c] \in Seq(Items) /\ Len(down[c]) \in Nat
        /\ link[c] \in {"up", "reset", "told"}
    BY <1>0, ExTypes
  <1>4. CASE /\ down[c] # << >>
             /\ expected' = [expected EXCEPT ![c] = Head(down[c])[2]]
             /\ down' = [down EXCEPT ![c] = Tail(@)]
             /\ UNCHANGED link
    <2>1. link[c] = "up" /\ link' = link /\ ~ Fresh(c)
      BY <1>0, <1>4 DEF ExInv, DownInv
    <2>2. /\ \A i \in 1 .. Len(down[c]) :
                down[c][i] = IF i = 1 THEN <<"size", fileSize>> ELSE <<"byte", i - 1>>
          /\ Len(down[c]) <= fileSize + 1
          /\ Sending(c) => Len(down[c]) = Sent(c) + 1
      BY <1>0, <1>1, <2>1 DEF ExInv, DownInv
    <2>3. /\ Head(down[c]) = down[c][1] /\ Len(down[c]) >= 1
          /\ Tail(down[c]) \in Seq(Items) /\ Len(Tail(down[c])) = Len(down[c]) - 1
          /\ \A i \in 1 .. Len(down[c]) - 1 : Tail(down[c])[i] = down[c][i + 1]
      BY <1>4, <1>t, HeadTailProperties
    <2>4. down'[c] = Tail(down[c]) /\ expected'[c] = fileSize
      <3>1. Head(down[c]) = <<"size", fileSize>>
        <4>1. 1 \in 1 .. Len(down[c])
          BY <2>3, <1>t
        <4>2. down[c][1] = <<"size", fileSize>>
          BY <2>2, <4>1
        <4> QED
          BY <2>3, <4>2
      <3>2. Head(down[c])[2] = fileSize
        BY <3>1
      <3>3. down'[c] = Tail(down[c])
        BY <1>0, <1>4 DEF ServiceTypes
      <3>4. expected'[c] = Head(down[c])[2]
        BY <1>0, <1>4 DEF ServiceTypes
      <3> QED
        BY <3>2, <3>3, <3>4
    <2>5. ServiceTypes'
      <3>1. expected' \in [Clients -> Nat] /\ down' \in [Clients -> Seq(Items)]
        BY <1>0, <1>4, <1>t, <2>3, <2>4 DEF ServiceTypes
      <3>2. cpc' \in [Clients -> {"none", "size", "data", "done", "failed", "overrun"}]
        BY <1>0, <1>1 DEF ServiceTypes
      <3> QED
        BY <1>0, <1>1, <1>2, <2>1, <3>1, <3>2 DEF ServiceTypes
    <2>6. /\ \A i \in 1 .. Len(down'[c]) : down'[c][i] = <<"byte", i>>
          /\ Len(down'[c]) <= fileSize
          /\ Sending(c) => Len(down'[c]) = Sent(c)
          /\ Len(down'[c]) \in Nat
      <3> DEFINE L == Len(down[c])
      <3>1. L \in Nat /\ L >= 1 /\ Len(down'[c]) = L - 1
        BY <1>t, <2>3, <2>4
      <3>2. L <= fileSize + 1 /\ (Sending(c) => L = Sent(c) + 1)
        BY <2>2
      <3>3. Sent(c) \in Int
        BY <1>0, ExTypes DEF Sent
      <3>4. ASSUME NEW i \in 1 .. L - 1 PROVE down'[c][i] = <<"byte", i>>
        <4>1. i + 1 \in 1 .. L /\ i + 1 # 1 /\ (i + 1) - 1 = i
          BY <3>1
        <4>2. down'[c][i] = down[c][i + 1]
          BY <2>3, <2>4
        <4>3. down[c][i + 1] = <<"byte", (i + 1) - 1>>
          BY <2>2, <4>1
        <4> QED
          BY <4>1, <4>2, <4>3
      <3> HIDE DEF L
      <3> QED
        BY <3>1, <3>2, <3>3, <3>4, <1>t
    <2>7. ChildInv(c)'
      BY <1>0, <1>1, <1>2 DEF ExInv, ChildInv
    <2>8. DownInv(c)'
      <3>1. /\ link'[c] = "up" /\ cpc'[c] = "data" /\ ~ Fresh(c)'
            /\ buf'[c] = buf[c] /\ Len(buf[c]) = 0
        BY <1>1, <1>2, <1>3, <2>1
      <3>2. \A i \in Nat : Len(buf'[c]) + i = i
        BY <3>1
      <3>3. \A i \in 1 .. Len(down'[c]) : i \in Nat
        OBVIOUS
      <3>4. \A i \in 1 .. Len(down'[c]) : down'[c][i] = <<"byte", Len(buf'[c]) + i>>
        BY <2>6, <3>2, <3>3
      <3>5. /\ Len(buf'[c]) + Len(down'[c]) <= fileSize'
            /\ Sending(c)' => Len(buf'[c]) + Len(down'[c]) = Sent(c)'
        BY <2>6, <3>2, <1>2
      <3> QED
        BY <3>1, <3>4, <3>5 DEF DownInv
    <2>9. BufInv(c)'
      BY <1>1, <1>2, <1>3, <1>t, <2>1, <2>4 DEF BufInv
    <2>11. \A d \in Clients \ {c} : ExInv(d)'
      BY <1>0, <1>1, <1>4, ExOthers DEF ServiceTypes
    <2> QED
      BY <2>5, <2>7, <2>8, <2>9, <2>11 DEF EInv, ExInv
  <1>5. CASE /\ link[c] = "reset"
             /\ link' = [link EXCEPT ![c] = "told"]
             /\ UNCHANGED <<expected, down>>
    <2>1. link'[c] = "told" /\ down'[c] = << >> /\ buf'[c] = buf[c]
      BY <1>0, <1>1, <1>5 DEF ServiceTypes, ExInv, DownInv
    <2>2. ServiceTypes'
      BY <1>0, <1>1, <1>2, <1>5 DEF ServiceTypes
    <2>3. ChildInv(c)' /\ DownInv(c)'
      BY <1>0, <1>1, <1>2, <2>1 DEF ExInv, ChildInv, DownInv
    <2>4. BufInv(c)'
      <3>1. expected'[c] = 0
        BY <1>0, <1>1, <1>5 DEF ExInv, BufInv
      <3> QED
        BY <1>1, <1>2, <1>3, <1>t, <2>1, <3>1 DEF BufInv
    <2>6. \A d \in Clients \ {c} : ExInv(d)'
      BY <1>0, <1>1, <1>5, ExOthers DEF ServiceTypes
    <2> QED
      BY <2>2, <2>3, <2>4, <2>6 DEF EInv, ExInv
  <1> QED
    BY <1>4, <1>5 DEF RecvSize

(* The client that is told of a reset gives up                             *)
LEMMA EInvRecvDataFails ==
    ASSUME FInv, EInv, NEW c \in Clients, RecvDataFails(c)
    PROVE  EInv'
  <1> USE DEF childVars
  <1>0. ServiceTypes /\ ExInv(c)
    BY DEF EInv
  <1>1. /\ cpc[c] = "data" /\ link[c] = "reset" /\ UNCHANGED vars /\ UNCHANGED fileVars
        /\ UNCHANGED <<spc, bytesToSend, opened, expected, buf, down, link>>
        /\ cpc' = [cpc EXCEPT ![c] = "failed"]
    BY DEF RecvDataFails
  <1>2. /\ child' = child /\ fileSize' = fileSize /\ named' = named /\ size' = size
        /\ cpc'[c] = "failed"
    BY <1>0, <1>1 DEF vars, fileVars, ServiceTypes
  <1>3. ServiceTypes'
    BY <1>0, <1>1, <1>2 DEF ServiceTypes
  <1>4. ChildInv(c)' /\ DownInv(c)' /\ BufInv(c)'
    BY <1>0, <1>1, <1>2 DEF ExInv, ChildInv, DownInv, BufInv
  <1>5. \A d \in Clients \ {c} : ExInv(d)'
    BY <1>0, <1>1, ExOthers DEF ServiceTypes
  <1> QED
    BY <1>3, <1>4, <1>5 DEF EInv, ExInv

(* What was on its way is lost *)
LEMMA EInvReset ==
    ASSUME FInv, EInv, NEW c \in Clients, Reset(c)
    PROVE  EInv'
  <1> USE DEF childVars, clientVars
  <1>0. ServiceTypes /\ ExInv(c)
    BY DEF EInv
  <1>1. /\ cpc[c] \in {"size", "data"} /\ link[c] = "up" /\ UNCHANGED vars /\ UNCHANGED fileVars
        /\ UNCHANGED <<spc, bytesToSend, opened, cpc, expected, buf>>
        /\ link' = [link EXCEPT ![c] = "reset"]
        /\ down' = [down EXCEPT ![c] = << >>]
    BY DEF Reset, Connected
  <1>2. /\ child' = child /\ fileSize' = fileSize /\ named' = named /\ size' = size
        /\ link'[c] = "reset" /\ down'[c] = << >>
    BY <1>0, <1>1 DEF vars, fileVars, ServiceTypes
  <1>3. << >> \in Seq(Items) /\ Len(<< >>) = 0
    OBVIOUS
  <1>4. ServiceTypes'
    <2>1. link' \in [Clients -> {"up", "reset", "told"}] /\ down' \in [Clients -> Seq(Items)]
      BY <1>0, <1>1, <1>3 DEF ServiceTypes
    <2> QED
      BY <1>0, <1>1, <1>2, <2>1 DEF ServiceTypes
  <1>5. ChildInv(c)' /\ DownInv(c)' /\ BufInv(c)'
    BY <1>0, <1>1, <1>2 DEF ExInv, ChildInv, DownInv, BufInv
  <1>7. \A d \in Clients \ {c} : ExInv(d)'
    BY <1>0, <1>1, ExOthers DEF ServiceTypes
  <1> QED
    BY <1>4, <1>5, <1>7 DEF EInv, ExInv

(* A client that has written past its buffer is still one that was told of *)
(* a size that does not fit                                                *)
LEMMA EInvUndefined ==
    ASSUME FInv, EInv, NEW c \in Clients, Undefined(c)
    PROVE  EInv'
  <1> USE DEF childVars, clientVars
  <1>0. ServiceTypes /\ ExInv(c)
    BY DEF EInv
  <1>1. /\ cpc[c] = "overrun" /\ UNCHANGED vars /\ UNCHANGED fileVars
        /\ UNCHANGED <<spc, bytesToSend, opened, cpc, expected, buf>>
    BY DEF Undefined
  <1>2. /\ child' = child /\ fileSize' = fileSize /\ named' = named /\ size' = size
    BY <1>1 DEF vars, fileVars
  <1>3. /\ link' \in [Clients -> {"up", "reset", "told"}] /\ down' \in [Clients -> Seq(Items)]
        /\ link'[c] # "told" /\ (link'[c] # "up" => down'[c] = << >>)
        /\ \A d \in Clients \ {c} : link'[d] = link[d] /\ down'[d] = down[d]
    <2>1. /\ down[c] \in Seq(Items) /\ Len(down[c]) \in Nat /\ link[c] # "told"
          /\ link[c] # "up" => down[c] = << >>
      BY <1>0, <1>1, ExTypes DEF ExInv, BufInv, DownInv
    <2>2. CASE /\ \E k \in 1 .. Len(down[c]) :
                     down' = [down EXCEPT ![c] = SubSeq(@, k + 1, Len(@))]
               /\ UNCHANGED link
      <3>1. PICK k \in 1 .. Len(down[c]) :
                    down' = [down EXCEPT ![c] = SubSeq(@, k + 1, Len(@))]
        BY <2>2
      <3>2. SubSeq(down[c], k + 1, Len(down[c])) \in Seq(Items)
        <4>1. \A i \in k + 1 .. Len(down[c]) : down[c][i] \in Items
          BY <2>1
        <4> QED
          BY <2>1, <4>1, SubSeqProperties
      <3>3. down[c] # << >>
        BY <2>1, EmptySeq
      <3> QED
        BY <1>0, <2>1, <2>2, <3>1, <3>2, <3>3 DEF ServiceTypes
    <2>3. CASE /\ link' = [link EXCEPT ![c] = "reset"]
               /\ down' = [down EXCEPT ![c] = << >>]
      <3>1. << >> \in Seq(Items)
        OBVIOUS
      <3> QED
        BY <1>0, <2>3, <3>1 DEF ServiceTypes
    <2> QED
      BY <2>2, <2>3 DEF Undefined
  <1>4. ServiceTypes'
    BY <1>0, <1>1, <1>2, <1>3 DEF ServiceTypes
  <1>5. ~ Fresh(c)' \/ link'[c] # "up"
    <2>1. ASSUME link'[c] = "up" PROVE ~ Fresh(c)
      <3>1. link[c] = "up"
        BY <1>0, <2>1 DEF Undefined, ServiceTypes
      <3> QED
        BY <1>0, <1>1, <3>1 DEF ExInv, DownInv
    <2> QED
      BY <1>1, <2>1 DEF vars, Fresh, Queued, ChildAt
  <1>6. ChildInv(c)' /\ DownInv(c)' /\ BufInv(c)'
    BY <1>0, <1>1, <1>2, <1>3, <1>5 DEF ExInv, ChildInv, DownInv, BufInv
  <1>7. \A d \in Clients \ {c} : ExInv(d)'
    BY <1>0, <1>1, <1>3, ExOthers DEF ServiceTypes
  <1> QED
    BY <1>4, <1>6, <1>7 DEF EInv, ExInv

(* No exchange knows the size of the file, nor its name *)
LEMMA EInvFileChanges == FInv /\ EInv /\ FileChanges => EInv'
  <1> SUFFICES ASSUME FInv, EInv, FileChanges PROVE EInv'
    OBVIOUS
  <1>1. /\ UNCHANGED <<vars, fileSize, spc, bytesToSend, clientVars, down, link>>
        /\ size' \in Nat /\ named' \in BOOLEAN /\ opened' \in [Clients -> Nat]
    <2>1. UNCHANGED <<vars, fileSize, spc, bytesToSend, clientVars, down, link>>
      BY DEF FileChanges
    <2>2. size \in Nat /\ named \in BOOLEAN /\ opened \in [Clients -> Nat]
      BY DEF EInv, ServiceTypes
    <2>3. LaterSizes \subseteq Nat
      BY FileServerAssumption
    <2>4. CASE \E s \in LaterSizes, S \in SUBSET {c \in Clients : ChildAt(c, "send")} :
                 /\ opened' = [c \in Clients |-> IF c \in S THEN s ELSE opened[c]]
                 /\ size' \in IF named THEN {size, s} ELSE {size}
                 /\ UNCHANGED named
      <3>1. PICK s \in LaterSizes, S \in SUBSET {c \in Clients : ChildAt(c, "send")} :
                 /\ opened' = [c \in Clients |-> IF c \in S THEN s ELSE opened[c]]
                 /\ size' \in IF named THEN {size, s} ELSE {size}
                 /\ UNCHANGED named
        BY <2>4
      <3>2. s \in Nat
        BY <2>3
      <3>3. opened' \in [Clients -> Nat]
        BY <2>2, <3>1, <3>2
      <3>4. size' \in Nat
        BY <2>2, <3>1, <3>2
      <3> QED
        BY <2>1, <2>2, <3>1, <3>3, <3>4
    <2>5. CASE UNCHANGED opened /\ named' \in BOOLEAN /\ size' \in LaterSizes \cup {0}
      BY <2>1, <2>2, <2>3, <2>5
    <2> QED
      BY <2>4, <2>5 DEF FileChanges
  <1> USE DEF vars, clientVars
  <1>2. ServiceTypes'
    BY <1>1 DEF EInv, ServiceTypes
  <1>3. ASSUME NEW c \in Clients PROVE ExInv(c)'
    <2>1. ExInv(c)
      BY DEF EInv
    <2>2. child'[c] # "running" => spc[c] = "size"
      BY <1>1, <2>1 DEF ExInv, ChildInv
    <2>3. Fresh(c)' => Fresh(c)
      BY <1>1 DEF Fresh, Queued, ChildAt
    <2>4. /\ fileSize' = fileSize /\ spc'[c] = spc[c] /\ bytesToSend'[c] = bytesToSend[c]
          /\ cpc'[c] = cpc[c] /\ expected'[c] = expected[c] /\ buf'[c] = buf[c]
          /\ down'[c] = down[c] /\ link'[c] = link[c] /\ child' = child
      BY <1>1
    <2> QED
      BY <2>1, <2>2, <2>3, <2>4, ExFrame
  <1> QED
    BY <1>2, <1>3 DEF EInv

(* What changes nothing preserves the invariant                            *)
LEMMA EInvSame == EInv /\ UNCHANGED serviceVars => EInv'
  <1> SUFFICES ASSUME EInv, UNCHANGED serviceVars PROVE EInv'
    OBVIOUS
  <1>1. /\ UNCHANGED vars /\ UNCHANGED fileVars
        /\ UNCHANGED <<spc, bytesToSend, opened, cpc, expected, buf, down, link>>
    BY DEF serviceVars, exchangeVars, childVars, clientVars
  <1>2. ServiceTypes'
    BY <1>1 DEF EInv, ServiceTypes, fileVars
  <1>3. ASSUME NEW c \in Clients PROVE ExInv(c)'
    <2>1. ExInv(c)
      BY DEF EInv
    <2>2. child' = child /\ fileSize' = fileSize
      BY <1>1 DEF vars, fileVars
    <2>3. child[c] # "running" => spc[c] = "size"
      BY <2>1 DEF ExInv, ChildInv
    <2>4. Fresh(c)' => Fresh(c)
      BY <1>1 DEF vars, Fresh, Queued, ChildAt
    <2> QED
      BY <1>1, <2>1, <2>2, <2>3, <2>4, ExFrame
  <1> QED
    BY <1>2, <1>3 DEF EInv

(* The client gets a part of the file, or the end of what it expects *)
LEMMA EInvRecvData ==
    ASSUME FInv, EInv, NEW c \in Clients, RecvData(c)
    PROVE  EInv'
  <1> USE DEF childVars
  <1>0. ServiceTypes /\ ExInv(c)
    BY DEF EInv
  <1>1. /\ cpc[c] = "data" /\ UNCHANGED vars /\ UNCHANGED fileVars
        /\ UNCHANGED <<spc, bytesToSend, opened, expected, link>>
        /\ cpc' = [cpc EXCEPT ![c] = After(expected[c], Len(buf'[c]))]
    BY DEF RecvData
  <1>2. /\ child' = child /\ fileSize' = fileSize /\ named' = named /\ size' = size
        /\ Sending(c)' = Sending(c) /\ Sent(c)' = Sent(c) /\ Fresh(c)' = Fresh(c)
        /\ cpc'[c] = After(expected[c], Len(buf'[c]))
    BY <1>0, <1>1 DEF vars, fileVars, ServiceTypes, Sending, Sent, Fresh, Queued, ChildAt
  <1>a. /\ cpc'[c] \in {"data", "done", "overrun"}
        /\ cpc'[c] = "done" =>
              ~ (expected[c] > Len(buf'[c])) /\ ~ (expected[c] >= MaxData)
        /\ cpc'[c] = "overrun" =>
              \/ Len(buf'[c]) > MaxData
              \/ expected[c] >= MaxData
    BY <1>2 DEF After, PastBuffer, Incomplete
  <1>m. MaxData \in Nat /\ MaxData > 0
    BY FileServerAssumption
  <1>t. /\ fileSize \in Nat /\ down[c] \in Seq(Items) /\ Len(down[c]) \in Nat
        /\ buf[c] \in Seq(Items) /\ Len(buf[c]) \in Nat /\ expected[c] \in Nat
        /\ link[c] \in {"up", "reset", "told"}
    BY <1>0, ExTypes
  <1>c. cpc' \in [Clients -> {"none", "size", "data", "done", "failed", "overrun"}]
    <2>1. cpc' = [cpc EXCEPT ![c] = cpc'[c]]
      BY <1>0, <1>1, <1>2 DEF ServiceTypes
    <2> QED
      BY <1>0, <1>a, <2>1 DEF ServiceTypes
  <1>e. expected[c] = IF link[c] = "told" THEN 0 ELSE fileSize
    BY <1>0, <1>1 DEF ExInv, BufInv
  <1>3. CASE expected[c] - Len(buf[c]) = 0 /\ AtEnd(c) /\ UNCHANGED <<buf, down>>
    <2>1. Len(buf[c]) = expected[c]
      BY <1>3, <1>t
    <2>2. /\ cpc'[c] # "data" /\ buf' = buf /\ down' = down /\ link' = link
          /\ ~ (Len(buf'[c]) < expected[c])
      BY <1>1, <1>2, <1>3, <1>t, <2>1 DEF After, Incomplete
    <2>3. ServiceTypes'
      BY <1>0, <1>1, <1>2, <1>c, <2>2 DEF ServiceTypes
    <2>4. ChildInv(c)' /\ DownInv(c)'
      <3>1. ChildInv(c)'
        BY <1>0, <1>1, <1>2 DEF ExInv, ChildInv
      <3>2. cpc'[c] # "size" /\ (link'[c] = "up" => ~ Fresh(c)')
        BY <1>0, <1>1, <1>2, <1>a, <2>2 DEF ExInv, DownInv
      <3>3. link'[c] # "up" => down'[c] = << >>
        BY <1>0, <2>2 DEF ExInv, DownInv
      <3> QED
        BY <2>2, <3>1, <3>2, <3>3 DEF DownInv
    <2>5. BufInv(c)'
      <3>1. cpc'[c] = "done" => Len(buf[c]) < MaxData
        BY <1>a, <1>m, <1>t, <2>1
      <3>2. cpc'[c] = "overrun" => fileSize >= MaxData /\ link[c] # "told"
        BY <1>a, <1>e, <1>m, <1>t, <2>1, <2>2
      <3> QED
        BY <1>0, <1>1, <1>2, <1>a, <1>e, <2>1, <2>2, <3>1, <3>2 DEF ExInv, BufInv
    <2>7. \A d \in Clients \ {c} : ExInv(d)'
      BY <1>0, <1>1, <2>2, ExOthers DEF ServiceTypes
    <2> QED
      BY <2>3, <2>4, <2>5, <2>7 DEF EInv, ExInv
  <1>4. ASSUME NEW k \in 1 .. Len(down[c]), k <= expected[c] - Len(buf[c]),
               buf' = [buf EXCEPT ![c] = @ \o SubSeq(down[c], 1, k)],
               down' = [down EXCEPT ![c] = SubSeq(@, k + 1, Len(@))]
        PROVE  EInv'
    <2> DEFINE B == Len(buf[c])
               L == Len(down[c])
               E == expected[c]
               in == SubSeq(down[c], 1, k)
               out == SubSeq(down[c], k + 1, L)
    <2>k. /\ B \in Nat /\ L \in Nat /\ E \in Nat /\ k \in 1 .. L /\ k <= E - B
          /\ fileSize \in Nat
      BY <1>4, <1>t
    <2>1. link[c] = "up" /\ link' = link
      <3>1. down[c] # << >>
        <4>1. ASSUME down[c] = << >> PROVE FALSE
          <5>1. Len(down[c]) = 0
            BY <4>1
          <5> QED
            BY <5>1
        <4> QED
          BY <4>1
      <3> QED
        BY <3>1, <1>0, <1>1 DEF ExInv, DownInv
    <2>2. /\ \A i \in 1 .. L : down[c][i] = <<"byte", B + i>>
          /\ B + L <= fileSize
          /\ Sending(c) => B + L = Sent(c)
      BY <1>0, <1>1, <2>1 DEF ExInv, DownInv
    <2>3. ~ Fresh(c) /\ ~ Fresh(c)' /\ E = fileSize
      BY <1>0, <1>1, <1>2, <1>e, <2>1 DEF ExInv, DownInv
    <2>4. /\ in \in Seq(Items) /\ Len(in) = k
          /\ \A i \in 1 .. k : in[i] = down[c][i]
      <3>1. /\ \A i \in 1 .. k : down[c][i] \in Items
            /\ 1 \in Int /\ k \in Int /\ 1 <= k /\ k - 1 + 1 = k
        BY <1>t, <2>k
      <3>2. \A i \in 1 .. k : 1 + i - 1 = i
        OBVIOUS
      <3>3. /\ in \in Seq(Items) /\ Len(in) = IF 1 <= k THEN k - 1 + 1 ELSE 0
            /\ \A i \in 1 .. k - 1 + 1 : in[i] = down[c][1 + i - 1]
        BY <3>1, SubSeqProperties
      <3> QED
        BY <3>1, <3>2, <3>3
    <2>5. /\ out \in Seq(Items) /\ Len(out) = L - k
          /\ \A i \in 1 .. L - k : out[i] = down[c][k + i]
      <3>1. /\ \A i \in k + 1 .. L : down[c][i] \in Items
            /\ k + 1 \in Int /\ L \in Int /\ L - (k + 1) + 1 = L - k
        BY <1>t, <2>k
      <3>2. /\ \A i \in 1 .. L - k : (k + 1) + i - 1 = k + i
            /\ (IF k + 1 <= L THEN L - (k + 1) + 1 ELSE 0) = L - k
        <4> HIDE DEF L, B, E
        <4> QED
          BY ONLY <2>k
      <3>3. /\ out \in Seq(Items) /\ Len(out) = IF k + 1 <= L THEN L - (k + 1) + 1 ELSE 0
            /\ \A i \in 1 .. L - (k + 1) + 1 : out[i] = down[c][(k + 1) + i - 1]
        BY <3>1, SubSeqProperties
      <3> HIDE DEF out, L
      <3> QED
        BY <3>1, <3>2, <3>3
    <2> HIDE DEF in, out
    <2>6. /\ buf'[c] = buf[c] \o in /\ down'[c] = out
          /\ buf' = [buf EXCEPT ![c] = buf[c] \o in] /\ down' = [down EXCEPT ![c] = out]
      BY <1>0, <1>4 DEF ServiceTypes, in, out
    <2>7. /\ buf'[c] \in Seq(Items) /\ Len(buf'[c]) = B + k
          /\ \A i \in 1 .. B + k : buf'[c][i] = IF i <= B THEN buf[c][i] ELSE in[i - B]
      <3> DEFINE both == buf[c] \o in
      <3>1. in \in Seq(Items) /\ Len(in) = k /\ buf[c] \in Seq(Items)
        BY <1>t, <2>4
      <3>2. /\ both \in Seq(Items) /\ Len(both) = Len(buf[c]) + Len(in)
            /\ \A i \in 1 .. Len(buf[c]) + Len(in) :
                  both[i] = IF i <= Len(buf[c]) THEN buf[c][i] ELSE in[i - Len(buf[c])]
        BY <3>1, ConcatProperties
      <3>3. buf'[c] = both
        BY <2>6
      <3> HIDE DEF both
      <3> QED
        BY <3>1, <3>2, <3>3
    <2>8. ServiceTypes'
      <3>1. buf' \in [Clients -> Seq(Items)] /\ down' \in [Clients -> Seq(Items)]
        BY <1>0, <2>5, <2>6, <2>7 DEF ServiceTypes
      <3> QED
        BY <1>0, <1>1, <1>2, <1>c, <2>1, <3>1 DEF ServiceTypes
    <2>9. ChildInv(c)'
      BY <1>0, <1>1, <1>2 DEF ExInv, ChildInv
    <2>10. Len(down'[c]) = L - k
      BY <2>5, <2>6
    <2>11. /\ B + k <= fileSize
           /\ B + k + (L - k) = B + L
           /\ cpc'[c] = "done" => B + k = fileSize /\ B + k < MaxData
           /\ cpc'[c] = "overrun" => fileSize >= MaxData
      <3>1. /\ cpc'[c] = "done" => ~ (E > B + k) /\ ~ (E >= MaxData)
            /\ cpc'[c] = "overrun" => B + k > MaxData \/ E >= MaxData
        BY <1>a, <2>7
      <3>2. E = fileSize
        BY <2>3
      <3> HIDE DEF B, L, E
      <3>3. B + k <= fileSize /\ B + k + (L - k) = B + L
        BY ONLY <2>k, <3>2
      <3>4. ~ (E > B + k) /\ ~ (E >= MaxData) => B + k = fileSize /\ B + k < MaxData
        BY ONLY <2>k, <3>2, <1>m
      <3>5. B + k > MaxData \/ E >= MaxData => fileSize >= MaxData
        BY ONLY <2>k, <3>2, <3>3, <1>m
      <3> QED
        BY <3>1, <3>3, <3>4, <3>5
    <2>12. DownInv(c)'
      <3>1. ASSUME NEW i \in 1 .. L - k PROVE down'[c][i] = <<"byte", B + k + i>>
        <4>1. k + i \in 1 .. L /\ B + (k + i) = B + k + i
          <5> HIDE DEF B, L, E
          <5> QED
            BY ONLY <2>k, <3>1
        <4>2. down'[c][i] = down[c][k + i]
          BY <2>5, <2>6
        <4>3. down[c][k + i] = <<"byte", B + (k + i)>>
          BY <2>2, <4>1
        <4> QED
          BY <4>1, <4>2, <4>3
      <3>2. Len(buf'[c]) + Len(down'[c]) = B + L
        BY <2>7, <2>10, <2>11
      <3>3. \A i \in 1 .. Len(down'[c]) : down'[c][i] = <<"byte", Len(buf'[c]) + i>>
        BY <2>7, <2>10, <3>1
      <3>4. /\ Len(buf'[c]) + Len(down'[c]) <= fileSize'
            /\ Sending(c)' => Len(buf'[c]) + Len(down'[c]) = Sent(c)'
        BY <1>2, <2>2, <3>2
      <3>5. cpc'[c] # "size" /\ link'[c] = "up"
        BY <1>a, <2>1
      <3> QED
        BY <2>3, <3>3, <3>4, <3>5 DEF DownInv
    <2>13. BufInv(c)'
      <3>1. ASSUME NEW i \in 1 .. B + k PROVE buf'[c][i] = <<"byte", i>>
        <4>1. CASE i <= B
          <5>1. i \in 1 .. B
            <6> HIDE DEF B, L, E
            <6> QED
              BY ONLY <2>k, <3>1, <4>1
          <5> QED
            BY <1>0, <2>7, <4>1, <5>1 DEF ExInv, BufInv
        <4>2. CASE ~ (i <= B)
          <5>1. i - B \in 1 .. k /\ i - B \in 1 .. L /\ B + (i - B) = i
            <6> HIDE DEF B, L, E
            <6> QED
              BY ONLY <2>k, <3>1, <4>2
          <5>2. buf'[c][i] = in[i - B]
            BY <2>7, <4>2
          <5>3. in[i - B] = down[c][i - B]
            BY <2>4, <5>1
          <5>4. down[c][i - B] = <<"byte", B + (i - B)>>
            BY <2>2, <5>1
          <5> QED
            BY <5>1, <5>2, <5>3, <5>4
        <4> QED
          BY <4>1, <4>2
      <3>2. \A i \in 1 .. Len(buf'[c]) : buf'[c][i] = <<"byte", i>>
        BY <2>7, <3>1
      <3>3. /\ Len(buf'[c]) <= fileSize'
            /\ cpc'[c] = "done" => Len(buf'[c]) = fileSize' /\ Len(buf'[c]) < MaxData
            /\ cpc'[c] = "overrun" => fileSize' >= MaxData
        BY <1>2, <2>7, <2>11
      <3>4. cpc'[c] # "size" /\ link'[c] = "up" /\ expected'[c] = fileSize'
        BY <1>1, <1>2, <1>a, <2>1, <2>3
      <3> QED
        BY <3>2, <3>3, <3>4 DEF BufInv
    <2>15. \A d \in Clients \ {c} : ExInv(d)'
      BY <1>0, <1>1, <2>1, <2>6, ExOthers DEF ServiceTypes
    <2> QED
      BY <2>8, <2>9, <2>12, <2>13, <2>15 DEF EInv, ExInv
  <1> QED
    BY <1>3, <1>4 DEF RecvData

(* Every step of the composition preserves the invariant                   *)
LEMMA EInvNext == FInv /\ EInv /\ [ServiceNext]_serviceVars => EInv'
  <1> SUFFICES ASSUME FInv, EInv, [ServiceNext]_serviceVars PROVE EInv'
    OBVIOUS
  <1>1. CASE ServiceParent
    BY <1>1, EInvParent
  <1>2. ASSUME NEW c \in Clients,
               SendSize(c) \/ OpenFile(c) \/ SendFile(c) \/ ChildEnds(c)
        PROVE  EInv'
    BY <1>2, EInvSendSize, EInvOpenFile, EInvSendFile, EInvChildEnds
  <1>3. ASSUME NEW c \in Clients,
               ClientStarts(c) \/ RecvSize(c) \/ RecvData(c) \/ RecvDataFails(c)
               \/ Undefined(c) \/ Reset(c)
        PROVE  EInv'
    BY <1>3, EInvClientStarts, EInvRecvSize, EInvRecvData, EInvRecvDataFails,
       EInvUndefined, EInvReset
  <1>4. CASE FileChanges
    BY <1>4, EInvFileChanges
  <1>5. CASE ServiceIdle \/ (\E c \in Clients : ClientSpins(c)) \/ UNCHANGED serviceVars
    <2>1. UNCHANGED serviceVars
      BY <1>5 DEF ServiceIdle, Idle, ClientSpins, serviceVars
    <2> QED
      BY <2>1, EInvSame
  <1> QED
    BY <1>1, <1>2, <1>3, <1>4, <1>5 DEF ServiceNext

(* The invariant holds in every behaviour of the composition               *)
LEMMA EInvHolds == ServiceSpec => []EInv
  <1>1. ServiceSpec => []FInv
    BY ServiceIsForking, FInvAlways, PTL
  <1>2. ServiceInit => EInv
    BY EInvInit
  <1>3. FInv /\ EInv /\ [ServiceNext]_serviceVars => EInv'
    BY EInvNext
  <1> QED
    BY <1>1, <1>2, <1>3, PTL DEF ServiceSpec

(* However the stream is cut up and whatever happens to the file and to    *)
(* the connections, a client holds the file from its start, and one that   *)
(* returns 0 has as many bytes as were announced, none past its buffer; a  *)
(* client leaves its buffer only if what was announced does not fit.       *)
THEOREM PrintedIsFileHolds == ServiceSpec => []PrintedIsFile
  <1>1. EInv => PrintedIsFile
    <2> SUFFICES ASSUME EInv, NEW c \in Clients
                 PROVE  IF cpc[c] = "overrun" THEN fileSize >= MaxData
                        ELSE /\ buf[c] = Bytes(1, Len(buf[c]))
                             /\ cpc[c] = "done" =>
                                   /\ Len(buf[c]) = IF link[c] = "told" THEN 0 ELSE fileSize
                                   /\ Len(buf[c]) < MaxData
      BY DEF PrintedIsFile
    <2>0. ServiceTypes /\ BufInv(c)
      BY DEF EInv, ExInv
    <2>1. buf[c] \in Seq(Items) /\ Len(buf[c]) \in Nat
      BY <2>0, ExTypes
    <2> DEFINE B == Len(buf[c])
    <2>2. /\ Bytes(0 + 1, 0 + B) \in Seq(Items) /\ Len(Bytes(0 + 1, 0 + B)) = B
          /\ \A i \in 1 .. B : Bytes(0 + 1, 0 + B)[i] = <<"byte", 0 + i>>
      BY <2>1, BytesOf
    <2>3. 0 + 1 = 1 /\ 0 + B = B /\ \A i \in 1 .. B : 0 + i = i
      BY <2>1
    <2>4. /\ Bytes(1, B) \in Seq(Items) /\ Len(Bytes(1, B)) = B
          /\ \A i \in 1 .. B : Bytes(1, B)[i] = <<"byte", i>>
      BY <2>2, <2>3
    <2>5. buf[c] = Bytes(1, B)
      <3>1. \A i \in 1 .. B : buf[c][i] = Bytes(1, B)[i]
        BY <2>0, <2>4 DEF BufInv
      <3> QED
        BY <2>1, <2>4, <3>1, SeqEqual
    <2> QED
      BY <2>0, <2>5 DEF BufInv
  <1> QED
    BY <1>1, EInvHolds, PTL
=============================================================================
