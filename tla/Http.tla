-------------------------------- MODULE Http --------------------------------
(***************************************************************************)
(* One exchange of mp1: http_client (mp1/src/http_client.c) asks for a     *)
(* file, a child of http_server (mp1/src/http_server.c) answers, over one  *)
(* TCP connection.  A header is a sequence of pieces of which the last,    *)
(* End, is the empty line; a file is the sequence of its bytes, numbered.  *)
(* Either side may read any part of what has arrived.                      *)
(*                                                                         *)
(* Around them the world may act, up to MaxFaults times: the file is cut,  *)
(* grows or loses its name, the client is killed, the connection breaks.   *)
(***************************************************************************)
EXTENDS Integers, Sequences, SequencesExt

CONSTANTS
    MaxSize,        \* largest file
    BufLen,         \* most a recv returns: MAXDATASIZE, MAX_BUFFER
    MaxFaults       \* bound on what the world does

ASSUME HttpAssumption ==
    /\ {MaxSize, MaxFaults} \subseteq Nat
    /\ BufLen \in Nat \ {0}

VARIABLES
    named, dir, size,       \* the file: its name exists, is a directory; size
    up, down,               \* bytes on their way to the server, to the client
    broken,                 \* the connection was reset
    faults,
    \* client
    cpc,
    response,               \* response_buf of its recv_header
    contentLength,          \* content_length, once parsed
    output,                 \* the output file
    opened,                 \* it was opened for writing
    toSend,                 \* the rest of the request
    \* server
    spc,
    request,                \* response_buf of its recv_header
    statSize,               \* content_length: fstat.st_size
    fd,                     \* file_fd # -1
    bytesToSend

clientVars == <<cpc, response, contentLength, output, opened, toSend>>
serverVars == <<spc, request, statSize, fd, bytesToSend>>
fileVars == <<named, dir, size>>
vars == <<fileVars, up, down, broken, faults, clientVars, serverVars>>

End == <<"end", 0>>
Request == <<<<"line", 0>>, <<"host", 0>>, End>>

(* generate_response: only a 200 has a Content-Length *)
Response(status, length) ==
    IF status = 200 THEN <<<<"status", 200>>, <<"length", length>>, End>>
    ELSE <<<<"status", status>>, End>>

Bytes(first, last) == [i \in 1 .. last - first + 1 |-> <<"byte", first + i - 1>>]

(* The header in what was received, and the content after it *)
HasEnd(s) == End \in Range(s)
EndAt(s) == CHOOSE i \in DOMAIN s : s[i] = End
HeaderOf(s) == SubSeq(s, 1, EndAt(s))
ContentOf(s) == SubSeq(s, EndAt(s) + 1, Len(s))

ClientEnded == cpc \in {"returned", "failed", "killed"}
ServerEnded == spc \in {"exit0", "exit1"}

Init ==
    /\ named \in BOOLEAN
    /\ dir \in BOOLEAN
    /\ size \in 0 .. MaxSize
    /\ up = << >> /\ down = << >>
    /\ broken = FALSE
    /\ faults = 0
    /\ cpc = "send"
    /\ response = << >>
    /\ contentLength = 0
    /\ output = << >>
    /\ opened = FALSE
    /\ toSend = Request
    /\ spc = "recv"
    /\ request = << >>
    /\ statSize = 0
    /\ fd = FALSE
    /\ bytesToSend = 0

-----------------------------------------------------------------------------
(***************************************************************************)
(* Client                                                                  *)
(***************************************************************************)

(* send, of all that is left or a part of it *)
SendRequest ==
    /\ cpc = "send"
    /\ ~ broken
    /\ \E k \in 1 .. Len(toSend) :
          /\ up' = up \o SubSeq(toSend, 1, k)
          /\ toSend' = SubSeq(toSend, k + 1, Len(toSend))
          /\ cpc' = IF k = Len(toSend) THEN "header" ELSE cpc
    /\ UNCHANGED <<fileVars, down, broken, faults, response, contentLength,
                   output, opened, serverVars>>

(* mutant: one byte more than the Content-Length is waited for *)
IncompleteOneMore(length, n) == length >= n

(* The test of the client's content loop *)
Incomplete(length, n) == length > n

(* mutant: what came with the header is dropped *)
ParseResponseDrops(all) ==
    LET lengths == {h \in Range(HeaderOf(all)) : h[1] = "length"}
    IN  IF lengths = {}
        THEN /\ cpc' = "failed"
             /\ UNCHANGED <<contentLength, output, opened>>
        ELSE /\ contentLength' = (CHOOSE h \in lengths : TRUE)[2]
             /\ output' = << >>
             /\ opened' = TRUE
             /\ cpc' = IF Incomplete(contentLength', Len(output')) THEN "content"
                       ELSE "returned"

(* parse_response_header, which wants a Content-Length, and what follows   *)
(* it: output is opened and what came with the header is written           *)
ParseResponse(all) ==
    LET lengths == {h \in Range(HeaderOf(all)) : h[1] = "length"}
    IN  IF lengths = {}
        THEN /\ cpc' = "failed"
             /\ UNCHANGED <<contentLength, output, opened>>
        ELSE /\ contentLength' = (CHOOSE h \in lengths : TRUE)[2]
             /\ output' = ContentOf(all)
             /\ opened' = TRUE
             /\ cpc' = IF Incomplete(contentLength', Len(output')) THEN "content"
                       ELSE "returned"

(* recv_header: a recv, and the end of the header looked for in all of it *)
RecvHeader ==
    /\ cpc = "header"
    /\ ~ broken
    /\ \E k \in 1 .. Len(down) :
          /\ k <= BufLen
          /\ response' = response \o SubSeq(down, 1, k)
          /\ down' = SubSeq(down, k + 1, Len(down))
    /\ IF HasEnd(response') THEN ParseResponse(response')
       ELSE UNCHANGED <<cpc, contentLength, output, opened>>
    /\ UNCHANGED <<fileVars, up, broken, faults, toSend, serverVars>>

RecvContent ==
    /\ cpc = "content"
    /\ ~ broken
    /\ \E k \in 1 .. Len(down) :
          /\ k <= BufLen
          /\ output' = output \o SubSeq(down, 1, k)
          /\ down' = SubSeq(down, k + 1, Len(down))
    /\ cpc' = IF Incomplete(contentLength, Len(output')) THEN "content" ELSE "returned"
    /\ UNCHANGED <<fileVars, up, broken, faults, response, contentLength,
                   opened, toSend, serverVars>>

(* send or recv fails *)
ClientFails ==
    /\ broken
    /\ cpc \in {"send", "header", "content"}
    /\ cpc' = "failed"
    /\ UNCHANGED <<fileVars, up, down, broken, faults, response, contentLength,
                   output, opened, toSend, serverVars>>

(* The server has closed the connection: recv returns 0, at once, and the  *)
(* loop goes round                                                         *)
ClientSpins ==
    /\ cpc \in {"header", "content"}
    /\ ~ broken
    /\ down = << >>
    /\ ServerEnded
    /\ UNCHANGED vars

-----------------------------------------------------------------------------
(***************************************************************************)
(* Server: the child that has the connection                               *)
(***************************************************************************)
SendFails == broken \/ cpc \in {"killed", "failed", "returned"}

(* recv_header and parse_request_header; http_client's requests parse *)
RecvRequest ==
    /\ spc = "recv"
    /\ ~ broken
    /\ \E k \in 1 .. Len(up) :
          /\ k <= BufLen
          /\ request' = request \o SubSeq(up, 1, k)
          /\ up' = SubSeq(up, k + 1, Len(up))
    /\ spc' = IF HasEnd(request') THEN "stat" ELSE spc
    /\ UNCHANGED <<fileVars, down, broken, faults, clientVars, statSize, fd,
                   bytesToSend>>

(* recv fails; the 400 that answers it fails too *)
RecvFails ==
    /\ spc = "recv"
    /\ broken
    /\ spc' = "exit1"
    /\ UNCHANGED <<fileVars, up, down, broken, faults, clientVars, request,
                   statSize, fd, bytesToSend>>

(* The client is gone: recv returns 0, at once, and the loop goes round *)
ServerSpins ==
    /\ spc = "recv"
    /\ ~ broken
    /\ up = << >>
    /\ cpc = "killed"
    /\ UNCHANGED vars

(* respond: the header is sent, unless nobody takes it any more, of which  *)
(* the first send may not know                                             *)
Respond(header, next) ==
    \/ /\ ~ broken
       /\ down' = down \o header
       /\ spc' = next
    \/ /\ SendFails
       /\ spc' = "exit1"
       /\ UNCHANGED down

(* access and stat find the file *)
Stat ==
    /\ spc = "stat"
    /\ named
    /\ statSize' = size
    /\ spc' = "open"
    /\ UNCHANGED <<fileVars, up, down, broken, faults, clientVars, request, fd,
                   bytesToSend>>

(* access or stat fails *)
NotFound ==
    /\ spc = "stat"
    /\ ~ named
    /\ Respond(Response(404, 0), "exit1")
    /\ UNCHANGED <<fileVars, up, broken, faults, clientVars, request, statSize,
                   fd, bytesToSend>>

(* open, whose result is not looked at, and the 200 *)
Open ==
    /\ spc = "open"
    /\ fd' = named
    /\ bytesToSend' = statSize
    /\ Respond(Response(200, statSize), "sendfile")
    /\ UNCHANGED <<fileVars, up, broken, faults, clientVars, request, statSize>>

(* mutant: sendfile is called once *)
UnsentOnce(n) == FALSE

(* The test of the server's sendfile loop *)
Unsent(n) == n > 0

Sent == statSize - bytesToSend

(* What sendfile may send: no more than is asked for and than the file has *)
Sendable ==
    IF size <= Sent THEN 0
    ELSE IF size < statSize THEN size - Sent ELSE bytesToSend

(* sendfile sends bytes up to the end of the file, all that were asked for *)
(* or some; at the end of the file it sends none, and the loop goes round  *)
SendFile ==
    /\ spc = "sendfile"
    /\ fd /\ ~ dir
    /\ ~ broken \/ Sendable = 0
    /\ \E k \in 0 .. Sendable :
          /\ k = 0 => Sendable = 0
          /\ down' = down \o Bytes(Sent + 1, Sent + k)
          /\ bytesToSend' = bytesToSend - k
    /\ spc' = IF Unsent(bytesToSend') THEN spc ELSE "exit0"
    /\ UNCHANGED <<fileVars, up, broken, faults, clientVars, request, statSize, fd>>

(* sendfile fails: no file, a directory, or nobody takes it any more *)
SendFileFails ==
    /\ spc = "sendfile"
    /\ ~ fd \/ dir \/ (Sendable > 0 /\ SendFails)
    /\ spc' = "exit1"
    /\ UNCHANGED <<fileVars, up, down, broken, faults, clientVars, request,
                   statSize, fd, bytesToSend>>

-----------------------------------------------------------------------------
(***************************************************************************)
(* The world                                                               *)
(***************************************************************************)
Fault == faults < MaxFaults /\ faults' = faults + 1

FileCut ==
    /\ Fault
    /\ size' \in 0 .. size - 1
    /\ UNCHANGED <<named, dir, up, down, broken, clientVars, serverVars>>

FileGrows ==
    /\ Fault
    /\ size' \in size + 1 .. MaxSize
    /\ UNCHANGED <<named, dir, up, down, broken, clientVars, serverVars>>

FileRemoved ==
    /\ Fault
    /\ named
    /\ named' = FALSE
    /\ UNCHANGED <<dir, size, up, down, broken, clientVars, serverVars>>

ClientKilled ==
    /\ Fault
    /\ ~ ClientEnded
    /\ cpc' = "killed"
    /\ UNCHANGED <<fileVars, up, down, broken, response, contentLength, output,
                   opened, toSend, serverVars>>

ConnectionBreaks ==
    /\ Fault
    /\ ~ broken
    /\ broken' = TRUE
    /\ up' = << >> /\ down' = << >>
    /\ UNCHANGED <<fileVars, clientVars, serverVars>>

-----------------------------------------------------------------------------
ClientStep == SendRequest \/ RecvHeader \/ RecvContent \/ ClientFails
ServerStep ==
    \/ RecvRequest \/ RecvFails \/ Stat \/ NotFound \/ Open
    \/ SendFile \/ SendFileFails
World == FileCut \/ FileGrows \/ FileRemoved \/ ClientKilled \/ ConnectionBreaks

Finished == ClientEnded /\ ServerEnded /\ UNCHANGED vars

Next ==
    \/ SendRequest \/ RecvHeader \/ RecvContent \/ ClientFails \/ ClientSpins
    \/ RecvRequest \/ RecvFails \/ ServerSpins
    \/ Stat \/ NotFound \/ Open \/ SendFile \/ SendFileFails
    \/ FileCut \/ FileGrows \/ FileRemoved \/ ClientKilled \/ ConnectionBreaks
    \/ Finished

Spec == Init /\ [][Next]_vars

(* Both processes run on *)
FairSpec == Spec /\ WF_vars(ClientStep) /\ WF_vars(ServerStep)
-----------------------------------------------------------------------------
(***************************************************************************)
(* Properties                                                              *)
(***************************************************************************)
(* However the stream is cut up, what the client writes is the file from   *)
(* its start, no byte dropped or doubled where the header ends; a client   *)
(* that returns 0 has all the bytes the file had when the server looked,   *)
(* also when the file changed since; no output is opened when there was no *)
(* file; and only for that, or a connection reset, does a client fail.     *)
OutputIsFile ==
    /\ output = Bytes(1, Len(output))
    /\ opened => spc \notin {"recv", "stat", "open"} /\ contentLength = statSize
    /\ cpc = "returned" => opened /\ Len(output) = statSize
    /\ cpc = "failed" => broken \/ ~ named

(* A child that exits with 0 leaves enough in the stream for the client to *)
(* finish: the client waits in vain only for a child that failed.          *)
ServedInFull ==
    spc = "exit0" /\ ~ broken /\ cpc \in {"header", "content"} => down # << >>

(* A child waits for ever only for the rest of a request whose client is   *)
(* dead, or for bytes the file has lost                                    *)
ChildWaits ==
    \/ spc = "recv" /\ cpc = "killed"
    \/ spc = "sendfile" /\ size <= Sent

(* A client waits for a child that waits, or has failed *)
ClientWaits == cpc \in {"header", "content"} /\ (spc = "exit1" \/ ChildWaits)

(* Whatever the world does, each end finishes, but for a child that waits  *)
(* as above and a client that waits for a child that waits or has failed.  *)
(* When the world leaves them alone, the client has the file if there is   *)
(* one and fails if there is none.  (Asked for a directory, the server     *)
(* fails after the header.)                                                *)
Answered ==
    /\ <>[](ServerEnded \/ ChildWaits)
    /\ <>[](ClientEnded \/ ClientWaits)
    /\ <>(\/ faults > 0
          \/ named /\ dir
          \/ ServerEnded /\ cpc = (IF named THEN "returned" ELSE "failed"))
=============================================================================
