----------------------------- MODULE FileServer -----------------------------
(***************************************************************************)
(* The file transfer of mp0 (mp0/src/server.c, mp0/src/client.c), composed *)
(* with the parent of Forking: each child sends one byte with the size of  *)
(* the file, then the file; each client reads the size, then that many     *)
(* bytes.  The size was taken once, when the server started, and is cut to *)
(* a uint8_t.  A stream is a sequence of bytes: the size, and the bytes of *)
(* the file by their place in it.  A client meets the end of its stream    *)
(* when no process holds the other end: this is where Forking matters.     *)
(*                                                                         *)
(* The client's buffer is shorter than the largest size that may be        *)
(* announced, and no one compares the two: a client that writes past the   *)
(* end of it goes on in any way (Undefined).                               *)
(*                                                                         *)
(* The world may act, up to MaxFaults times: the file is cut, grows, is    *)
(* replaced, loses its name or gets it, a connection is reset.  fork may   *)
(* fail at any time.                                                       *)
(***************************************************************************)
EXTENDS Forking, Integers

CONSTANTS
    FileSizes,      \* sizes of the file when the server starts
    LaterSizes,     \* sizes it may have later
    SizeSpace,      \* 2^8, the values of a uint8_t
    MaxData,        \* MAXDATASIZE, the length of the client's buffer
    MaxFaults       \* bound on what the world does

ASSUME FileServerAssumption ==
    /\ FileSizes \cup LaterSizes \subseteq Nat
    /\ MaxFaults \in Nat
    /\ {SizeSpace, MaxData} \subseteq Nat \ {0}

VARIABLES
    named, size,        \* the file: its name exists; its size, 0 without
    fileSize,           \* file_size of the server
    faults,
    spc, bytesToSend,   \* each child
    opened,             \* the size of the file it has open, 0 without
    cpc,                \* each client; "none" before the first
    expected,           \* its file_size, later numbytes
    buf,                \* what it has received from buf[0] on, even past
                        \* the end of buf
    down,               \* bytes on their way to it
    link                \* its connection: "up", "reset", or "told" after the
                        \* error was returned

fileVars == <<named, size, fileSize>>
childVars == <<spc, bytesToSend, opened>>
clientVars == <<cpc, expected, buf>>
exchangeVars == <<fileVars, faults, childVars, clientVars, down, link>>
serviceVars == <<vars, exchangeVars>>

Bytes(first, last) == [i \in 1 .. last - first + 1 |-> <<"byte", first + i - 1>>]

(* (uint8_t) file_stat.st_size *)
ToByte(n) == n % SizeSpace

(* When stat fails, file_size keeps whatever was in its place *)
ServiceInit ==
    /\ Init
    /\ named \in BOOLEAN
    /\ size \in IF named THEN FileSizes ELSE {0}
    /\ fileSize \in IF named THEN {ToByte(size)} ELSE 0 .. SizeSpace - 1
    /\ faults = 0
    /\ spc = [c \in Clients |-> "size"]
    /\ bytesToSend = [c \in Clients |-> 0]
    /\ opened = [c \in Clients |-> 0]
    /\ cpc = [c \in Clients |-> "none"]
    /\ expected = [c \in Clients |-> 0]
    /\ buf = [c \in Clients |-> << >>]
    /\ down = [c \in Clients |-> << >>]
    /\ link = [c \in Clients |-> "up"]

(***************************************************************************)
(* The parent, which knows nothing of what its children do                 *)
(***************************************************************************)
ServiceParent ==
    /\ ParentStep \/ HandlerStep
    /\ UNCHANGED exchangeVars

(***************************************************************************)
(* A child                                                                 *)
(***************************************************************************)
ChildAt(c, place) == child[c] = "running" /\ spc[c] = place

(* send of the size *)
SendSize(c) ==
    /\ ChildAt(c, "size")
    /\ IF link[c] = "up"
       THEN /\ down' = [down EXCEPT ![c] = Append(@, <<"size", fileSize>>)]
            /\ spc' = [spc EXCEPT ![c] = "open"]
       ELSE /\ spc' = [spc EXCEPT ![c] = "end"]
            /\ UNCHANGED down
    /\ UNCHANGED <<vars, fileVars, faults, bytesToSend, opened, clientVars, link>>

(* open, which fails when no file has the name *)
OpenFile(c) ==
    /\ ChildAt(c, "open")
    /\ bytesToSend' = [bytesToSend EXCEPT ![c] = fileSize]
    /\ opened' = [opened EXCEPT ![c] = size]
    /\ spc' = [spc EXCEPT ![c] = IF named THEN "send" ELSE "end"]
    /\ UNCHANGED <<vars, fileVars, faults, clientVars, down, link>>

(* mutant: all but the last byte *)
AskedLess(left, inFile) == IF left < inFile THEN left - 1 ELSE inFile

(* What sendfile may send *)
Asked(left, inFile) == IF left < inFile THEN left ELSE inFile

(* sendfile sends all or some of what was asked for, or fails when the     *)
(* client is out of reach; at the end of a file that has become shorter it *)
(* sends nothing, and the loop goes round                                  *)
SendFile(c) ==
    LET sent == fileSize - bytesToSend[c]
        most == Asked(bytesToSend[c],
                      IF opened[c] > sent THEN opened[c] - sent ELSE 0)
    IN  /\ ChildAt(c, "send")
        /\ \/ /\ link[c] = "up" \/ most = 0
              /\ \E k \in 0 .. most :
                    /\ k = 0 => most = 0
                    /\ down' = [down EXCEPT ![c] = @ \o Bytes(sent + 1, sent + k)]
                    /\ bytesToSend' = [bytesToSend EXCEPT ![c] = @ - k]
              /\ spc' = [spc EXCEPT ![c] = IF bytesToSend'[c] > 0 THEN @ ELSE "end"]
           \/ /\ link[c] # "up"
              /\ most > 0
              /\ spc' = [spc EXCEPT ![c] = "end"]
              /\ UNCHANGED <<bytesToSend, down>>
        /\ UNCHANGED <<vars, fileVars, faults, opened, clientVars, link>>

(* close and exit *)
ChildEnds(c) ==
    /\ spc[c] = "end"
    /\ Exit(c)
    /\ spc' = [spc EXCEPT ![c] = "size"]
    /\ opened' = [opened EXCEPT ![c] = 0]
    /\ UNCHANGED <<fileVars, faults, bytesToSend, clientVars, down, link>>

(***************************************************************************)
(* A client                                                                *)
(***************************************************************************)
Connected(c) == cpc[c] \in {"size", "data"}

(* recv returns 0: everything was read and nobody has the other end, or    *)
(* the reset was reported before                                           *)
AtEnd(c) ==
    \/ link[c] = "told"
    \/ link[c] = "up" /\ down[c] = << >> /\ holders[c] = {} /\ c \notin Queued

(* A client starts and connects *)
ClientStarts(c) ==
    /\ ~ Connected(c)
    /\ Connect(c)
    /\ cpc' = [cpc EXCEPT ![c] = "size"]
    /\ expected' = [expected EXCEPT ![c] = 0]
    /\ buf' = [buf EXCEPT ![c] = << >>]
    /\ down' = [down EXCEPT ![c] = << >>]
    /\ link' = [link EXCEPT ![c] = "up"]
    /\ UNCHANGED <<fileVars, faults, childVars>>

(* recv of the size; when it fails its result, a size_t, is above 0 and    *)
(* the size stays 0                                                        *)
RecvSize(c) ==
    /\ cpc[c] = "size"
    /\ \/ /\ down[c] # << >>
          /\ expected' = [expected EXCEPT ![c] = Head(down[c])[2]]
          /\ down' = [down EXCEPT ![c] = Tail(@)]
          /\ UNCHANGED link
       \/ /\ link[c] = "reset"
          /\ link' = [link EXCEPT ![c] = "told"]
          /\ UNCHANGED <<expected, down>>
    /\ cpc' = [cpc EXCEPT ![c] = "data"]
    /\ UNCHANGED <<vars, fileVars, faults, childVars, buf>>

(* mutant: one byte too few is waited for *)
IncompleteEarly(numbytes, received) == numbytes > received + 1

(* The test of the client's second loop *)
Incomplete(numbytes, received) == numbytes > received

(* The bytes received, or the 0 at buf[numbytes] behind the last of them,  *)
(* lie past the end of buf                                                 *)
PastBuffer(numbytes, received) ==
    \/ received > MaxData
    \/ ~ Incomplete(numbytes, received) /\ numbytes >= MaxData

(* Where a client is after a recv of the file *)
After(numbytes, received) ==
    IF PastBuffer(numbytes, received) THEN "overrun"
    ELSE IF Incomplete(numbytes, received) THEN "data" ELSE "done"

(* recv of the file, of as much as was announced at most, whatever buf     *)
(* takes; asked for nothing, recv waits for the end of the stream          *)
RecvData(c) ==
    LET missing == expected[c] - Len(buf[c])
    IN  /\ cpc[c] = "data"
        /\ \/ missing = 0 /\ AtEnd(c) /\ UNCHANGED <<buf, down>>
           \/ \E k \in 1 .. Len(down[c]) :
                 /\ k <= missing
                 /\ buf' = [buf EXCEPT ![c] = @ \o SubSeq(down[c], 1, k)]
                 /\ down' = [down EXCEPT ![c] = SubSeq(@, k + 1, Len(@))]
        /\ cpc' = [cpc EXCEPT ![c] = After(expected[c], Len(buf'[c]))]
        /\ UNCHANGED <<vars, fileVars, faults, childVars, expected, link>>

RecvDataFails(c) ==
    /\ cpc[c] = "data"
    /\ link[c] = "reset"
    /\ cpc' = [cpc EXCEPT ![c] = "failed"]
    /\ UNCHANGED <<vars, fileVars, faults, childVars, expected, buf, down, link>>

(* A client that has written past its buffer, over its other variables:    *)
(* it reads on or not, and may end at any time                             *)
Undefined(c) ==
    /\ cpc[c] = "overrun"
    /\ \/ /\ \E k \in 1 .. Len(down[c]) :
                down' = [down EXCEPT ![c] = SubSeq(@, k + 1, Len(@))]
          /\ UNCHANGED link
       \/ /\ link[c] = "up"
          /\ link' = [link EXCEPT ![c] = "reset"]
          /\ down' = [down EXCEPT ![c] = << >>]
    /\ UNCHANGED <<vars, fileVars, faults, childVars, clientVars>>

(* Both loops go round when recv returns 0 too early *)
ClientSpins(c) ==
    /\ AtEnd(c)
    /\ cpc[c] = "size" \/ (cpc[c] = "data" /\ Len(buf[c]) < expected[c])
    /\ UNCHANGED serviceVars

(***************************************************************************)
(* The world                                                               *)
(***************************************************************************)
Fault == faults < MaxFaults /\ faults' = faults + 1

(* The file gets another size, and with it the file that some children     *)
(* have open; or only the latter, which has lost its name; or the name,    *)
(* which may have been lost, comes to another file                         *)
FileChanges ==
    /\ Fault
    /\ \/ \E s \in LaterSizes, S \in SUBSET {c \in Clients : ChildAt(c, "send")} :
             /\ opened' = [c \in Clients |-> IF c \in S THEN s ELSE opened[c]]
             /\ size' \in IF named THEN {size, s} ELSE {size}
             /\ UNCHANGED named
       \/ /\ named
          /\ named' = FALSE
          /\ size' = 0
          /\ UNCHANGED opened
       \/ /\ ~ named
          /\ named' = TRUE
          /\ size' \in LaterSizes
          /\ UNCHANGED opened
    /\ UNCHANGED <<vars, fileSize, spc, bytesToSend, clientVars, down, link>>

Reset(c) ==
    /\ Fault
    /\ Connected(c)
    /\ link[c] = "up"
    /\ link' = [link EXCEPT ![c] = "reset"]
    /\ down' = [down EXCEPT ![c] = << >>]
    /\ UNCHANGED <<vars, fileVars, childVars, clientVars>>

ChildStep(c) == SendSize(c) \/ OpenFile(c) \/ SendFile(c) \/ ChildEnds(c)
ClientStep(c) == RecvSize(c) \/ RecvData(c) \/ RecvDataFails(c)

(* The parent waits in accept *)
ServiceIdle == Idle /\ UNCHANGED exchangeVars

ServiceNext ==
    \/ ServiceParent
    \/ \E c \in Clients :
          \/ SendSize(c) \/ OpenFile(c) \/ SendFile(c) \/ ChildEnds(c)
          \/ ClientStarts(c) \/ RecvSize(c) \/ RecvData(c) \/ RecvDataFails(c)
          \/ ClientSpins(c) \/ Undefined(c) \/ Reset(c)
    \/ FileChanges
    \/ ServiceIdle

ServiceSpec == ServiceInit /\ [][ServiceNext]_serviceVars

(* The processes run on, and the kernel delivers signals *)
FairService ==
    /\ ServiceSpec
    /\ WF_serviceVars(ParentStep /\ UNCHANGED exchangeVars)
    /\ WF_serviceVars(HandlerStep /\ UNCHANGED exchangeVars)
    /\ \A c \in Clients : WF_serviceVars(ChildStep(c)) /\ WF_serviceVars(ClientStep(c))

-----------------------------------------------------------------------------
(***************************************************************************)
(* Properties                                                              *)
(***************************************************************************)

(* However the stream is cut up and whatever happens to the file, a client *)
(* holds the file from its start, and one that returns 0 has exactly the   *)
(* bytes the server announced: the size of the file at the start modulo    *)
(* 256, or what file_size held when there was no file.  Only a client      *)
(* whose connection was reset returns 0 with nothing.  A client leaves its *)
(* buffer, after which nothing is known of it, only if what was announced  *)
(* and its final 0 do not fit.                                             *)
PrintedIsFile ==
    \A c \in Clients :
        IF cpc[c] = "overrun" THEN fileSize >= MaxData
        ELSE /\ buf[c] = Bytes(1, Len(buf[c]))
             /\ cpc[c] = "done" =>
                   /\ Len(buf[c]) = IF link[c] = "told" THEN 0 ELSE fileSize
                   /\ Len(buf[c]) < MaxData

(* "Error receiving file size." is fatal: a client that did not get the    *)
(* size does not report a transfer.                                        *)
SizeErrorFatal ==
    \A c \in Clients : cpc[c] = "done" => expected[c] = fileSize

(* Every client that connects ends with the file, whatever the other       *)
(* clients and their children do, unless the world acts, the file is not   *)
(* there, or the fork for it failed: then it reads the end of the stream   *)
(* in place of the size, for ever; or it wrote past its buffer.            *)
Delivered ==
    \A c \in Clients :
        cpc[c] = "size" ~>
            \/ cpc[c] \in {"done", "overrun"}
            \/ cpc[c] = "size" /\ AtEnd(c)
            \/ faults > 0 \/ ~ named
=============================================================================
