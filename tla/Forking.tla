------------------------------ MODULE Forking -------------------------------
(***************************************************************************)
(* The parent of http_server (mp1/src/http_server.c, main), and of server  *)
(* of mp0 (mp0/src/server.c), which has the same loop: accept, fork, close *)
(* the connection, while the SIGCHLD handler waits for the children that   *)
(* have ended.  The handler interrupts the loop at any point; SIGCHLD is   *)
(* blocked while it runs, and signals of several children may become one.  *)
(* A connection is open as long as some process holds its descriptor.      *)
(* There is at most one connection of each client, and its child is named  *)
(* like it.  What a child does with its connection is Http in mp1, and in  *)
(* mp0 FileServer, which is composed with this module.                     *)
(***************************************************************************)
EXTENDS Naturals, Sequences, FiniteSets

CONSTANTS
    Clients,
    Backlog,        \* BACKLOG
    Parent,         \* the parent, among the holders of a connection
    None            \* no client

ASSUME ForkingAssumption ==
    /\ Backlog \in Nat
    /\ Parent \notin Clients
    /\ None \notin Clients

VARIABLES
    queue,          \* connections not accepted yet
    ppc,            \* the parent, at "accept", "fork" or "close"
    newFd,          \* its new_fd: the client of the connection
    child,          \* the child of each client's connection
    holders,        \* the processes that hold each connection
    pending,        \* a SIGCHLD is pending
    handler         \* sigchld_handler: "off", in its "loop", or to "leave"

vars == <<queue, ppc, newFd, child, holders, pending, handler>>

Init ==
    /\ queue = << >>
    /\ ppc = "accept"
    /\ newFd = None
    /\ child = [c \in Clients |-> "none"]
    /\ holders = [c \in Clients |-> {}]
    /\ pending = FALSE
    /\ handler = "off"

Queued == {queue[i] : i \in 1 .. Len(queue)}

(* A client connects, and the kernel queues it *)
Connect(c) ==
    /\ child[c] = "none"
    /\ c \notin Queued \cup {newFd}
    /\ holders[c] = {}
    /\ Len(queue) < Backlog
    /\ queue' = Append(queue, c)
    /\ UNCHANGED <<ppc, newFd, child, holders, pending, handler>>

Accept ==
    /\ ppc = "accept"
    /\ handler = "off"
    /\ queue # << >>
    /\ newFd' = Head(queue)
    /\ queue' = Tail(queue)
    /\ holders' = [holders EXCEPT ![Head(queue)] = {Parent}]
    /\ ppc' = "fork"
    /\ UNCHANGED <<child, pending, handler>>

(* The child gets a copy of every descriptor of the parent *)
Fork ==
    /\ ppc = "fork"
    /\ handler = "off"
    /\ child' = [child EXCEPT ![newFd] = "running"]
    /\ holders' = [c \in Clients |-> IF Parent \in holders[c]
                                     THEN holders[c] \cup {newFd}
                                     ELSE holders[c]]
    /\ ppc' = "close"
    /\ UNCHANGED <<queue, newFd, pending, handler>>

(* fork fails, which the parent takes for its own side of the fork *)
ForkFails ==
    /\ ppc = "fork"
    /\ handler = "off"
    /\ ppc' = "close"
    /\ UNCHANGED <<queue, newFd, child, holders, pending, handler>>

(* mutant: the parent keeps the connection *)
CloseNot ==
    /\ ppc = "close"
    /\ handler = "off"
    /\ newFd' = None
    /\ ppc' = "accept"
    /\ UNCHANGED <<queue, child, holders, pending, handler>>

(* The parent does not need the connection *)
Close ==
    /\ ppc = "close"
    /\ handler = "off"
    /\ holders' = [holders EXCEPT ![newFd] = @ \ {Parent}]
    /\ newFd' = None
    /\ ppc' = "accept"
    /\ UNCHANGED <<queue, child, pending, handler>>

(* mutant: a signal that comes while the handler runs is lost *)
ExitUnheard(c) ==
    /\ child[c] = "running"
    /\ child' = [child EXCEPT ![c] = "zombie"]
    /\ holders' = [d \in Clients |-> holders[d] \ {c}]
    /\ pending' = (pending \/ handler = "off")
    /\ UNCHANGED <<queue, ppc, newFd, handler>>

(* A child ends: its descriptors are closed and its parent is told *)
Exit(c) ==
    /\ child[c] = "running"
    /\ child' = [child EXCEPT ![c] = "zombie"]
    /\ holders' = [d \in Clients |-> holders[d] \ {c}]
    /\ pending' = TRUE
    /\ UNCHANGED <<queue, ppc, newFd, handler>>

(* The kernel calls sigchld_handler *)
Signal ==
    /\ pending
    /\ handler = "off"
    /\ pending' = FALSE
    /\ handler' = "loop"
    /\ UNCHANGED <<queue, ppc, newFd, child, holders>>

(* mutant: one child per signal *)
ReapOnce(c) ==
    /\ handler = "loop"
    /\ child[c] = "zombie"
    /\ child' = [child EXCEPT ![c] = "none"]
    /\ handler' = "leave"
    /\ UNCHANGED <<queue, ppc, newFd, holders, pending>>

(* waitpid finds a child that has ended, and the loop goes on; the client  *)
(* may come again                                                          *)
Reap(c) ==
    /\ handler = "loop"
    /\ child[c] = "zombie"
    /\ child' = [child EXCEPT ![c] = "none"]
    /\ UNCHANGED <<queue, ppc, newFd, holders, pending, handler>>

(* waitpid finds none: 0, or -1 when there are no children *)
NoneToReap ==
    /\ handler = "loop"
    /\ \A c \in Clients : child[c] # "zombie"
    /\ handler' = "leave"
    /\ UNCHANGED <<queue, ppc, newFd, child, holders, pending>>

(* The handler returns, and SIGCHLD is no longer blocked *)
Return ==
    /\ handler = "leave"
    /\ handler' = "off"
    /\ UNCHANGED <<queue, ppc, newFd, child, holders, pending>>

(* The parent waits in accept *)
Idle == ppc = "accept" /\ queue = << >> /\ UNCHANGED vars

Next ==
    \/ \E c \in Clients : Connect(c) \/ Exit(c) \/ Reap(c)
    \/ Accept \/ Fork \/ ForkFails \/ Close
    \/ Signal \/ NoneToReap \/ Return
    \/ Idle

ParentStep == Accept \/ Fork \/ ForkFails \/ Close
HandlerStep == Signal \/ NoneToReap \/ Return \/ \E c \in Clients : Reap(c)

Spec == Init /\ [][Next]_vars

-----------------------------------------------------------------------------
(***************************************************************************)
(* Properties                                                              *)
(***************************************************************************)

(* The range of every variable. *)
TypeOK ==
    /\ queue \in Seq(Clients)
    /\ ppc \in {"accept", "fork", "close"}
    /\ newFd \in Clients \cup {None}
    /\ child \in [Clients -> {"none", "running", "zombie"}]
    /\ holders \in [Clients -> SUBSET (Clients \cup {Parent})]
    /\ pending \in BOOLEAN
    /\ handler \in {"off", "loop", "leave"}

(* No child that has ended is forgotten: as long as one is not waited for, *)
(* a signal is pending or the handler is in its loop, although the signals *)
(* of several children become one and some arrive while the handler runs.  *)
NoLostZombie ==
    (\E c \in Clients : child[c] = "zombie") => pending \/ handler = "loop"

(* A connection is held by its own child only, and by the parent until it  *)
(* has closed it: when the child ends the client reads the end of the      *)
(* stream, whatever other children go on.                                  *)
OwnConnection ==
    \A c \in Clients :
        /\ holders[c] \subseteq {Parent, c}
        /\ Parent \in holders[c] => newFd = c
        /\ c \in holders[c] <=> child[c] = "running"

(* Every child that has ended is waited for, even if the children of other *)
(* clients end all the time.                                               *)
Reaped == \A c \in Clients : child[c] = "zombie" ~> child[c] # "zombie"
=============================================================================
