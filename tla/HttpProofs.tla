----------------------------- MODULE HttpProofs -----------------------------
(***************************************************************************)
(* Proofs about Http, for files of any size, reads of any length and any   *)
(* number of faults: what is on its way to the client continues what the   *)
(* client has read, and reaches as far as the child has sent.              *)
(***************************************************************************)
EXTENDS Http, SequenceTheorems, TLAPS

Pieces == {"status", "length", "end", "byte"} \X Int

(* The places of the answer to a request whose file was found, and of the  *)
(* answer to another                                                       *)
FoundAt(i) ==
    IF i = 1 THEN <<"status", 200>>
    ELSE IF i = 2 THEN <<"length", statSize>>
    ELSE IF i = 3 THEN End
    ELSE <<"byte", i - 3>>
NotFoundAt(i) == IF i = 1 THEN <<"status", 404>> ELSE End

(* How much of the answer the client has read *)
Got == IF opened THEN 3 + Len(output) ELSE Len(response)

(* The client reads the answer with the file; unless the connection broke  *)
(* or the child failed, all the child has sent is read or on its way       *)
FoundInv ==
    /\ opened \/ \A i \in 1 .. Len(response) : response[i] = FoundAt(i)
    /\ \A i \in 1 .. Len(down) : down[i] = FoundAt(Got + i)
    /\ Got + Len(down) <= 3 + Sent
    /\ ~ broken /\ spc # "exit1" => Got + Len(down) = 3 + Sent

(* It reads the one without *)
NotFoundInv ==
    /\ spc = "exit1" /\ ~ opened /\ ~ named
    /\ \A i \in 1 .. Len(response) : response[i] = NotFoundAt(i)
    /\ \A i \in 1 .. Len(down) : down[i] = NotFoundAt(Len(response) + i)

(* The ranges that the proofs need *)
RangeInv ==
    /\ size \in Nat /\ statSize \in Nat /\ bytesToSend \in 0 .. statSize
    /\ down \in Seq(Pieces) /\ response \in Seq(Pieces) /\ output \in Seq(Pieces)
    /\ spc \in {"recv", "stat", "open", "sendfile", "exit0", "exit1"}

(* The client: what it holds at each place of its program *)
ClientInv ==
    /\ \A i \in 1 .. Len(output) : output[i] = <<"byte", i>>
    /\ opened => contentLength = statSize
    /\ ~ opened => output = << >>
    /\ cpc \in {"send", "header"} =>
          ~ opened /\ \A i \in 1 .. Len(response) : response[i] # End
    /\ cpc = "content" => opened /\ Len(output) < statSize
    /\ cpc = "returned" => opened /\ Len(output) >= statSize
    /\ cpc = "failed" => broken \/ ~ named

(* The answer, at each place of the child's program *)
StreamInv ==
    /\ broken => down = << >>
    /\ spc \in {"recv", "stat", "open"} =>
          ~ opened /\ response = << >> /\ down = << >>
    /\ spc \in {"recv", "stat"} => bytesToSend = 0
    /\ spc \in {"sendfile", "exit0"} => FoundInv
    /\ spc = "exit0" => bytesToSend = 0
    /\ spc = "exit1" => FoundInv \/ NotFoundInv

HInv == RangeInv /\ ClientInv /\ StreamInv

-----------------------------------------------------------------------------
(* What is left of a sequence *)
LEMMA Leaving ==
    ASSUME NEW s \in Seq(Pieces), NEW k \in 1 .. Len(s)
    PROVE  /\ SubSeq(s, k + 1, Len(s)) \in Seq(Pieces)
           /\ Len(SubSeq(s, k + 1, Len(s))) = Len(s) - k
           /\ \A i \in 1 .. Len(s) - k : SubSeq(s, k + 1, Len(s))[i] = s[k + i]
  <1>1. k + 1 \in 1 .. Len(s) + 1
    OBVIOUS
  <1> QED
    BY <1>1, SubSeqProperties

(* A read moves the start of what is on its way to the end of what was read *)
LEMMA Taking ==
    ASSUME NEW r \in Seq(Pieces), NEW s \in Seq(Pieces), NEW k \in 1 .. Len(s)
    PROVE  /\ r \o SubSeq(s, 1, k) \in Seq(Pieces)
           /\ Len(r \o SubSeq(s, 1, k)) = Len(r) + k
           /\ \A i \in 1 .. Len(r) : (r \o SubSeq(s, 1, k))[i] = r[i]
           /\ \A i \in 1 .. k : (r \o SubSeq(s, 1, k))[Len(r) + i] = s[i]
  <1> DEFINE t == SubSeq(s, 1, k)
  <1>1. t \in Seq(Pieces) /\ Len(t) = k /\ \A i \in 1 .. k : t[i] = s[i]
    BY SubSeqProperties
  <1> HIDE DEF t
  <1>2. /\ r \o t \in Seq(Pieces) /\ Len(r \o t) = Len(r) + Len(t)
        /\ \A i \in 1 .. Len(r) + Len(t) :
              (r \o t)[i] = IF i <= Len(r) THEN r[i] ELSE t[i - Len(r)]
    BY <1>1, ConcatProperties
  <1>3. /\ \A i \in 1 .. Len(r) : (r \o t)[i] = r[i]
        /\ \A i \in 1 .. k : (r \o t)[Len(r) + i] = t[i]
    BY <1>1, <1>2
  <1> QED
    BY <1>1, <1>2, <1>3 DEF t

(* What the client finds in an answer with the file (parse_response_header) *)
LEMMA ParsedFound ==
    ASSUME NEW all \in Seq(Pieces), HasEnd(all), statSize \in Nat,
           \A i \in 1 .. Len(all) : all[i] = FoundAt(i)
    PROVE  /\ Len(all) >= 3
           /\ {h \in Range(HeaderOf(all)) : h[1] = "length"} = {<<"length", statSize>>}
           /\ ContentOf(all) \in Seq(Pieces) /\ Len(ContentOf(all)) = Len(all) - 3
           /\ \A i \in 1 .. Len(all) - 3 : ContentOf(all)[i] = <<"byte", i>>
  <1>1. \A i \in 1 .. Len(all) : all[i] = End <=> i = 3
    <2>1. ASSUME NEW i \in 1 .. Len(all) PROVE all[i] = End <=> i = 3
      <3>1. all[i] = FoundAt(i)
        OBVIOUS
      <3>2. i = 1 \/ i = 2 \/ i = 3 \/ i > 3
        OBVIOUS
      <3>3. End[1] = "end" /\ "end" # "status" /\ "end" # "length" /\ "end" # "byte"
        BY DEF End
      <3>4. CASE i = 3
        BY <3>1, <3>4 DEF FoundAt
      <3>5. CASE i # 3
        <4>1. all[i][1] \in {"status", "length", "byte"}
          BY <3>1, <3>2, <3>5 DEF FoundAt
        <4> QED
          BY <3>3, <3>5, <4>1
      <3> QED
        BY <3>4, <3>5
    <2> QED
      BY <2>1
  <1>2. DOMAIN all = 1 .. Len(all) /\ Len(all) \in Nat
    OBVIOUS
  <1>3. PICK e \in DOMAIN all : all[e] = End
    BY DEF HasEnd, Range
  <1>4. e = 3 /\ Len(all) >= 3 /\ 3 \in DOMAIN all /\ all[3] = End
    BY <1>1, <1>2, <1>3
  <1>5. EndAt(all) = 3
    BY <1>1, <1>2, <1>4 DEF EndAt
  <1>6. HeaderOf(all) = SubSeq(all, 1, 3) /\ ContentOf(all) = SubSeq(all, 4, Len(all))
    BY <1>5 DEF HeaderOf, ContentOf
  <1>7. /\ SubSeq(all, 1, 3) \in Seq(Pieces) /\ Len(SubSeq(all, 1, 3)) = 3
        /\ \A i \in 1 .. 3 : SubSeq(all, 1, 3)[i] = all[i]
        /\ SubSeq(all, 4, Len(all)) \in Seq(Pieces)
        /\ Len(SubSeq(all, 4, Len(all))) = Len(all) - 3
        /\ \A i \in 1 .. Len(all) - 3 : SubSeq(all, 4, Len(all))[i] = all[3 + i]
    <2>1. 3 \in 1 .. Len(all)
      BY <1>2, <1>4
    <2>2. /\ SubSeq(all, 1, 3) \in Seq(Pieces) /\ Len(SubSeq(all, 1, 3)) = 3
          /\ \A i \in 1 .. 3 : SubSeq(all, 1, 3)[i] = all[i]
      BY <2>1, SubSeqProperties
    <2>3. /\ SubSeq(all, 3 + 1, Len(all)) \in Seq(Pieces)
          /\ Len(SubSeq(all, 3 + 1, Len(all))) = Len(all) - 3
          /\ \A i \in 1 .. Len(all) - 3 : SubSeq(all, 3 + 1, Len(all))[i] = all[3 + i]
      BY <2>1, Leaving
    <2>4. 3 + 1 = 4
      OBVIOUS
    <2> QED
      BY <2>2, <2>3, <2>4
  <1>8. DOMAIN SubSeq(all, 1, 3) = 1 .. 3
    BY <1>7
  <1>9. /\ all[1] = <<"status", 200>> /\ all[2] = <<"length", statSize>>
        /\ all[3] = <<"end", 0>>
    BY <1>2, <1>4 DEF FoundAt, End
  <1>10. Range(HeaderOf(all)) = {<<"status", 200>>, <<"length", statSize>>, <<"end", 0>>}
    <2>1. Range(HeaderOf(all)) = {all[i] : i \in 1 .. 3}
      BY <1>6, <1>7, <1>8 DEF Range
    <2>2. {all[i] : i \in 1 .. 3} = {all[1], all[2], all[3]}
      OBVIOUS
    <2> QED
      BY <1>9, <2>1, <2>2
  <1>11. {h \in Range(HeaderOf(all)) : h[1] = "length"} = {<<"length", statSize>>}
    BY <1>10
  <1>12. \A i \in 1 .. Len(all) - 3 : all[3 + i] = <<"byte", i>>
    BY <1>2, <1>4 DEF FoundAt
  <1> QED
    BY <1>4, <1>6, <1>7, <1>11, <1>12

(* It finds no length in an answer without one *)
LEMMA ParsedNotFound ==
    ASSUME NEW all \in Seq(Pieces), HasEnd(all),
           \A i \in 1 .. Len(all) : all[i] = NotFoundAt(i)
    PROVE  {h \in Range(HeaderOf(all)) : h[1] = "length"} = {}
  <1>1. EndAt(all) \in 1 .. Len(all)
    BY DEF HasEnd, EndAt, Range
  <1>2. /\ HeaderOf(all) \in Seq(Pieces) /\ Len(HeaderOf(all)) = EndAt(all)
        /\ \A i \in 1 .. EndAt(all) : HeaderOf(all)[i] = all[i]
    BY <1>1, SubSeqProperties DEF HeaderOf
  <1>3. \A i \in DOMAIN HeaderOf(all) : HeaderOf(all)[i] = NotFoundAt(i)
    BY <1>1, <1>2
  <1>4. \A h \in Range(HeaderOf(all)) : h[1] # "length"
    BY <1>3 DEF Range, NotFoundAt, End
  <1> QED
    BY <1>4

(* Nothing is read, sent or found *)
LEMMA HInvInit == Init => HInv
  <1> SUFFICES ASSUME Init PROVE HInv
    OBVIOUS
  <1>1. size \in Nat /\ << >> \in Seq(Pieces) /\ Len(<< >>) = 0
    BY HttpAssumption DEF Init
  <1>2. RangeInv
    BY <1>1 DEF Init, RangeInv
  <1>3. ClientInv
    BY DEF Init, ClientInv
  <1>4. StreamInv
    BY DEF Init, StreamInv
  <1> QED
    BY <1>2, <1>3, <1>4 DEF HInv

(* Without the end of a header, no piece is one                            *)
LEMMA NoEnd ==
    ASSUME NEW s \in Seq(Pieces), ~ HasEnd(s)
    PROVE  \A i \in 1 .. Len(s) : s[i] # End
  BY DEF HasEnd, Range

(* The client reads on in the header, or to its end (recv_header and what  *)
(* follows it)                                                             *)
LEMMA HInvRecvHeader == HInv /\ RecvHeader => HInv'
  <1> SUFFICES ASSUME HInv, RecvHeader PROVE HInv'
    OBVIOUS
  <1> USE DEF HInv
  <1>1. PICK k \in 1 .. Len(down) :
           /\ response' = response \o SubSeq(down, 1, k)
           /\ down' = SubSeq(down, k + 1, Len(down))
    BY DEF RecvHeader
  <1>2. /\ cpc = "header" /\ ~ broken /\ ~ opened /\ output = << >>
        /\ \A i \in 1 .. Len(response) : response[i] # End
    BY DEF RecvHeader, ClientInv
  <1>3. UNCHANGED <<named, size, broken, spc, statSize, bytesToSend>>
    BY DEF RecvHeader, fileVars, serverVars
  <1>4. down \in Seq(Pieces) /\ response \in Seq(Pieces) /\ down # << >>
    BY <1>1 DEF RangeInv
  <1>5. /\ response' \in Seq(Pieces) /\ Len(response') = Len(response) + k
        /\ \A i \in 1 .. Len(response) : response'[i] = response[i]
        /\ \A i \in 1 .. k : response'[Len(response) + i] = down[i]
    BY <1>1, <1>4, Taking
  <1>6. /\ down' \in Seq(Pieces) /\ Len(down') = Len(down) - k
        /\ \A i \in 1 .. Len(down) - k : down'[i] = down[k + i]
    BY <1>1, <1>4, Leaving
  <1>7. /\ Len(response) \in Nat /\ Len(down) \in Nat /\ k \in Nat /\ Len(response') \in Nat
        /\ \A i \in 1 .. Len(response') :
              i \in 1 .. Len(response) \/ \E j \in 1 .. k : i = Len(response) + j
    <2>1. Len(response) \in Nat /\ Len(down) \in Nat /\ k \in Nat /\ Len(response') \in Nat
      BY <1>4, <1>5
    <2>2. ASSUME NEW i \in 1 .. Len(response'), ~ (i \in 1 .. Len(response))
          PROVE  \E j \in 1 .. k : i = Len(response) + j
      <3>1. i - Len(response) \in 1 .. k /\ i = Len(response) + (i - Len(response))
        BY <1>5, <2>1, <2>2
      <3> QED
        BY <3>1
    <2> QED
      BY <2>1, <2>2
  <1>8. spc \notin {"recv", "stat", "open"}
    BY <1>4 DEF StreamInv
  <1>9. CASE FoundInv
    <2>1. \A i \in 1 .. Len(response') : response'[i] = FoundAt(i)
      <3>1. \A i \in 1 .. Len(response) : response[i] = FoundAt(i)
        BY <1>2, <1>9 DEF FoundInv
      <3>2. \A i \in 1 .. k : down[i] = FoundAt(Len(response) + i)
        BY <1>2, <1>7, <1>9 DEF FoundInv, Got
      <3>3. \A i \in 1 .. Len(response) : response'[i] = FoundAt(i)
        BY <1>5, <3>1
      <3>4. \A i \in 1 .. k : response'[Len(response) + i] = FoundAt(Len(response) + i)
        BY <1>5, <3>2
      <3> QED
        BY ONLY <1>7, <3>3, <3>4
    <2>2. \A i \in 1 .. Len(down') : down'[i] = FoundAt(Len(response') + i)
      <3>1. ASSUME NEW i \in 1 .. Len(down')
            PROVE  down'[i] = FoundAt(Len(response') + i)
        <4>1. k + i \in 1 .. Len(down) /\ down'[i] = down[k + i]
          BY <1>6, <1>7
        <4>2. down[k + i] = FoundAt(Len(response) + (k + i))
          BY <1>2, <1>9, <4>1 DEF FoundInv, Got
        <4>3. Len(response) + (k + i) = Len(response') + i
          BY <1>5, <1>6, <1>7
        <4> QED
          BY <4>1, <4>2, <4>3
      <3> QED
        BY <3>1
    <2>3. /\ Len(response') + Len(down') = Len(response) + Len(down)
          /\ Got = Len(response) /\ Sent' = Sent
      BY <1>2, <1>3, <1>5, <1>6, <1>7 DEF Got, Sent
    <2>4. \A i : FoundAt(i)' = FoundAt(i)
      BY <1>3 DEF FoundAt
    <2>5. CASE HasEnd(response')
      <3>1. ParseResponse(response')
        BY <2>5 DEF RecvHeader
      <3>2. statSize \in Nat
        BY DEF RangeInv
      <3>3. /\ Len(response') >= 3
            /\ {h \in Range(HeaderOf(response')) : h[1] = "length"}
                  = {<<"length", statSize>>}
            /\ ContentOf(response') \in Seq(Pieces)
            /\ Len(ContentOf(response')) = Len(response') - 3
            /\ \A i \in 1 .. Len(response') - 3 : ContentOf(response')[i] = <<"byte", i>>
        BY <1>5, <2>1, <2>5, <3>2, ParsedFound
      <3>4. /\ contentLength' = statSize /\ output' = ContentOf(response') /\ opened'
            /\ cpc' = IF Incomplete(contentLength', Len(output')) THEN "content"
                      ELSE "returned"
        <4> DEFINE lengths == {h \in Range(HeaderOf(response')) : h[1] = "length"}
        <4>1. lengths = {<<"length", statSize>>}
          BY <3>3
        <4>2. IF lengths = {}
              THEN /\ cpc' = "failed"
                   /\ UNCHANGED <<contentLength, output, opened>>
              ELSE /\ contentLength' = (CHOOSE h \in lengths : TRUE)[2]
                   /\ output' = ContentOf(response')
                   /\ opened' = TRUE
                   /\ cpc' = IF Incomplete(contentLength', Len(output')) THEN "content"
                             ELSE "returned"
          BY <3>1 DEF ParseResponse
        <4> HIDE DEF lengths
        <4>3. (CHOOSE h \in lengths : TRUE) = <<"length", statSize>>
          BY <4>1
        <4> QED
          BY <4>1, <4>2, <4>3
      <3>5. Got' = Len(response') /\ Len(output') \in Nat
        BY <1>7, <3>3, <3>4 DEF Got
      <3>6. FoundInv'
        BY <1>3, <1>9, <2>2, <2>3, <2>4, <3>4, <3>5 DEF FoundInv
      <3>7. ClientInv'
        BY <1>3, <3>2, <3>3, <3>4, <3>5 DEF ClientInv, Incomplete
      <3>8. RangeInv'
        BY <1>3, <1>5, <1>6, <3>3, <3>4 DEF RangeInv
      <3>9. StreamInv'
        BY <1>2, <1>3, <1>8, <3>6 DEF StreamInv
      <3> QED
        BY <3>7, <3>8, <3>9
    <2>6. CASE ~ HasEnd(response')
      <3>1. UNCHANGED <<cpc, contentLength, output, opened>>
        BY <2>6 DEF RecvHeader
      <3>2. Got' = Len(response')
        BY <1>2, <3>1 DEF Got
      <3>3. FoundInv'
        BY <1>3, <1>9, <2>1, <2>2, <2>3, <2>4, <3>2 DEF FoundInv
      <3>4. ClientInv'
        <4>1. \A i \in 1 .. Len(response') : response'[i] # End
          BY <1>5, <2>6, NoEnd
        <4> QED
          BY <1>2, <1>3, <3>1, <4>1 DEF ClientInv
      <3>5. RangeInv'
        BY <1>3, <1>5, <1>6, <3>1 DEF RangeInv
      <3>6. StreamInv'
        BY <1>2, <1>3, <1>8, <3>3 DEF StreamInv
      <3> QED
        BY <3>4, <3>5, <3>6
    <2> QED
      BY <2>5, <2>6
  <1>10. CASE NotFoundInv
    <2>1. \A i \in 1 .. Len(response') : response'[i] = NotFoundAt(i)
      <3>1. \A i \in 1 .. k : down[i] = NotFoundAt(Len(response) + i)
        BY <1>7, <1>10 DEF NotFoundInv
      <3>2. \A i \in 1 .. Len(response) : response[i] = NotFoundAt(i)
        BY <1>10 DEF NotFoundInv
      <3>3. \A i \in 1 .. Len(response) : response'[i] = NotFoundAt(i)
        BY <1>5, <3>2
      <3>4. \A i \in 1 .. k : response'[Len(response) + i] = NotFoundAt(Len(response) + i)
        BY <1>5, <3>1
      <3> QED
        BY ONLY <1>7, <3>3, <3>4
    <2>2. \A i \in 1 .. Len(down') : down'[i] = NotFoundAt(Len(response') + i)
      <3>1. ASSUME NEW i \in 1 .. Len(down')
            PROVE  down'[i] = NotFoundAt(Len(response') + i)
        <4>1. k + i \in 1 .. Len(down) /\ down'[i] = down[k + i]
          BY <1>6, <1>7
        <4>2. down[k + i] = NotFoundAt(Len(response) + (k + i))
          BY <1>10, <4>1 DEF NotFoundInv
        <4>3. Len(response) + (k + i) = Len(response') + i
          BY <1>5, <1>6, <1>7
        <4> QED
          BY <4>1, <4>2, <4>3
      <3> QED
        BY <3>1
    <2>3. /\ UNCHANGED <<contentLength, output, opened>>
          /\ cpc' \in {"header", "failed"}
          /\ cpc' = "header" => ~ HasEnd(response')
      <3>1. CASE HasEnd(response')
        <4>1. ParseResponse(response')
          BY <3>1 DEF RecvHeader
        <4>2. {h \in Range(HeaderOf(response')) : h[1] = "length"} = {}
          BY <1>5, <2>1, <3>1, ParsedNotFound
        <4> QED
          BY <4>1, <4>2 DEF ParseResponse
      <3>2. CASE ~ HasEnd(response')
        BY <1>2, <3>2 DEF RecvHeader
      <3> QED
        BY <3>1, <3>2
    <2>4. NotFoundInv'
      BY <1>3, <1>10, <2>1, <2>2, <2>3 DEF NotFoundInv, NotFoundAt
    <2>5. ClientInv'
      <3>1. cpc' = "header" => \A i \in 1 .. Len(response') : response'[i] # End
        BY <1>5, <2>3, NoEnd
      <3>2. ~ named' /\ ~ opened'
        BY <1>2, <1>3, <1>10, <2>3 DEF NotFoundInv
      <3> QED
        BY <1>2, <1>3, <2>3, <3>1, <3>2 DEF ClientInv
    <2>6. RangeInv'
      BY <1>3, <1>5, <1>6, <2>3 DEF RangeInv
    <2>7. StreamInv'
      BY <1>2, <1>3, <1>8, <1>10, <2>4 DEF StreamInv, NotFoundInv
    <2> QED
      BY <2>5, <2>6, <2>7
  <1> QED
    BY <1>8, <1>9, <1>10 DEF StreamInv, RangeInv

(* The client reads on in the file *)
LEMMA HInvRecvContent == HInv /\ RecvContent => HInv'
  <1> SUFFICES ASSUME HInv, RecvContent PROVE HInv'
    OBVIOUS
  <1> USE DEF HInv
  <1>1. PICK k \in 1 .. Len(down) :
           /\ output' = output \o SubSeq(down, 1, k)
           /\ down' = SubSeq(down, k + 1, Len(down))
    BY DEF RecvContent
  <1>2. /\ cpc = "content" /\ ~ broken /\ opened /\ contentLength = statSize
        /\ \A i \in 1 .. Len(output) : output[i] = <<"byte", i>>
    BY DEF RecvContent, ClientInv
  <1>3. /\ UNCHANGED <<named, size, broken, spc, statSize, bytesToSend>>
        /\ UNCHANGED <<response, contentLength, opened>>
    BY DEF RecvContent, fileVars, serverVars
  <1>4. cpc' = IF statSize > Len(output') THEN "content" ELSE "returned"
    BY <1>2 DEF RecvContent, Incomplete
  <1>5. down \in Seq(Pieces) /\ output \in Seq(Pieces) /\ down # << >>
    BY <1>1 DEF RangeInv
  <1>6. /\ output' \in Seq(Pieces) /\ Len(output') = Len(output) + k
        /\ \A i \in 1 .. Len(output) : output'[i] = output[i]
        /\ \A i \in 1 .. k : output'[Len(output) + i] = down[i]
    BY <1>1, <1>5, Taking
  <1>7. /\ down' \in Seq(Pieces) /\ Len(down') = Len(down) - k
        /\ \A i \in 1 .. Len(down) - k : down'[i] = down[k + i]
    BY <1>1, <1>5, Leaving
  <1>8. /\ Len(output) \in Nat /\ Len(down) \in Nat /\ k \in Nat /\ Len(output') \in Nat
        /\ statSize \in Nat
    BY <1>5, <1>6 DEF RangeInv
  <1>9. spc \notin {"recv", "stat", "open"}
    BY <1>5 DEF StreamInv
  <1>10. FoundInv
    BY <1>2, <1>9 DEF StreamInv, RangeInv, NotFoundInv
  <1>11. Got = 3 + Len(output) /\ Got' = 3 + Len(output') /\ Sent' = Sent
    BY <1>2, <1>3 DEF Got, Sent
  <1>12. \A i \in 1 .. Len(output') : output'[i] = <<"byte", i>>
    <2>1. ASSUME NEW i \in 1 .. Len(output'), i > Len(output)
          PROVE  output'[i] = <<"byte", i>>
      <3>1. i - Len(output) \in 1 .. k /\ i = Len(output) + (i - Len(output))
        BY <1>6, <1>8, <2>1
      <3>2. output'[i] = down[i - Len(output)] /\ i - Len(output) \in 1 .. Len(down)
        BY <1>6, <1>8, <3>1
      <3>3. down[i - Len(output)] = FoundAt(Got + (i - Len(output)))
        BY <1>10, <3>2 DEF FoundInv
      <3>4. Got + (i - Len(output)) = 3 + i
        BY <1>8, <1>11, <2>1
      <3> QED
        <4>1. 3 + i > 3 /\ (3 + i) - 3 = i
          BY <1>8, <2>1
        <4>2. FoundAt(3 + i) = <<"byte", (3 + i) - 3>>
          BY <4>1 DEF FoundAt
        <4> QED
          BY <3>2, <3>3, <3>4, <4>1, <4>2
    <2>2. ASSUME NEW i \in 1 .. Len(output'), ~ (i > Len(output))
          PROVE  output'[i] = <<"byte", i>>
      <3>1. i \in 1 .. Len(output)
        BY <1>8, <2>2
      <3> QED
        BY <1>2, <1>6, <3>1
    <2> QED
      BY <2>1, <2>2
  <1>13. \A i \in 1 .. Len(down') : down'[i] = FoundAt(Got' + i)
    <2>1. ASSUME NEW i \in 1 .. Len(down')
          PROVE  down'[i] = FoundAt(Got' + i)
      <3>1. i \in 1 .. Len(down) - k
        BY <1>7, <2>1
      <3>2. k + i \in 1 .. Len(down) /\ down'[i] = down[k + i]
        BY <1>7, <1>8, <3>1
      <3>3. down[k + i] = FoundAt(Got + (k + i))
        BY <1>10, <3>2 DEF FoundInv
      <3>4. Got + (k + i) = Got' + i
        BY <1>6, <1>8, <1>11, <3>1
      <3> QED
        BY <3>2, <3>3, <3>4
    <2> QED
      BY <2>1
  <1>14. \A i : FoundAt(i)' = FoundAt(i)
    BY <1>3 DEF FoundAt
  <1>15. Got' + Len(down') = Got + Len(down)
    BY <1>6, <1>7, <1>8, <1>11
  <1>16. FoundInv'
    BY <1>2, <1>3, <1>10, <1>11, <1>13, <1>14, <1>15 DEF FoundInv
  <1>17. ClientInv'
    BY <1>2, <1>3, <1>4, <1>8, <1>12 DEF ClientInv
  <1>18. RangeInv'
    BY <1>3, <1>6, <1>7 DEF RangeInv
  <1>19. StreamInv'
    BY <1>2, <1>3, <1>9, <1>16 DEF StreamInv
  <1> QED
    BY <1>17, <1>18, <1>19

(* The child sends on in the file *)
LEMMA HInvSendFile == HInv /\ SendFile => HInv'
  <1> SUFFICES ASSUME HInv, SendFile PROVE HInv'
    OBVIOUS
  <1> USE DEF HInv
  <1>1. PICK k \in 0 .. Sendable :
           /\ k = 0 => Sendable = 0
           /\ down' = down \o Bytes(Sent + 1, Sent + k)
           /\ bytesToSend' = bytesToSend - k
    BY DEF SendFile
  <1>2. /\ spc = "sendfile" /\ (~ broken \/ Sendable = 0)
        /\ spc' = IF bytesToSend' > 0 THEN spc ELSE "exit0"
        /\ UNCHANGED <<named, size, broken, statSize, cpc, response, output, opened,
                       contentLength>>
    BY DEF SendFile, Unsent, fileVars, clientVars
  <1>3. /\ size \in Nat /\ statSize \in Nat /\ bytesToSend \in 0 .. statSize
        /\ down \in Seq(Pieces) /\ FoundInv /\ (broken => down = << >>)
    BY <1>2 DEF RangeInv, StreamInv
  <1>4. Sent \in Nat /\ Sendable \in 0 .. bytesToSend
    BY <1>3 DEF Sent, Sendable
  <1>5. /\ k \in 0 .. bytesToSend /\ bytesToSend' \in 0 .. statSize /\ Sent' = Sent + k
        /\ (broken => k = 0)
    BY <1>1, <1>2, <1>3, <1>4 DEF Sent
  <1> DEFINE more == Bytes(Sent + 1, Sent + k)
  <1>6. /\ more \in Seq(Pieces) /\ Len(more) = k
        /\ \A i \in 1 .. k : more[i] = <<"byte", Sent + i>>
    <2>1. (Sent + k) - (Sent + 1) + 1 = k
      BY <1>4, <1>5
    <2>2. more = [i \in 1 .. k |-> <<"byte", Sent + 1 + i - 1>>]
      BY <2>1 DEF Bytes
    <2>3. \A i \in 1 .. k : Sent + 1 + i - 1 = Sent + i /\ Sent + i \in Int
      BY <1>4, <1>5
    <2>4. k \in Nat
      BY <1>5
    <2>5. more = [i \in 1 .. k |-> <<"byte", Sent + i>>]
      BY <2>2, <2>3
    <2>6. \A i \in 1 .. k : <<"byte", Sent + i>> \in Pieces
      <3>1. ASSUME NEW n \in Int PROVE <<"byte", n>> \in Pieces
        BY DEF Pieces
      <3> QED
        BY <2>3, <3>1
    <2> HIDE DEF more
    <2> QED
      BY <2>4, <2>5, <2>6
  <1> HIDE DEF more
  <1>7. /\ down' \in Seq(Pieces) /\ Len(down') = Len(down) + k
        /\ \A i \in 1 .. Len(down) + k :
              down'[i] = IF i <= Len(down) THEN down[i] ELSE more[i - Len(down)]
    BY <1>1, <1>3, <1>6, ConcatProperties DEF more
  <1>8. Got' = Got /\ (\A i : FoundAt(i)' = FoundAt(i))
    BY <1>2 DEF Got, FoundAt
  <1>9. Got \in Nat /\ Len(down) \in Nat /\ k \in Nat /\ Got + Len(down) <= 3 + Sent
    BY <1>3, <1>5 DEF Got, RangeInv, FoundInv
  <1>10. \A i \in 1 .. Len(down') : down'[i] = FoundAt(Got + i)
    <2>1. ASSUME NEW i \in 1 .. Len(down'), i <= Len(down)
          PROVE  down'[i] = FoundAt(Got + i)
      <3>1. i \in 1 .. Len(down) /\ down'[i] = down[i]
        BY <1>7, <1>9, <2>1
      <3> QED
        BY <1>3, <3>1 DEF FoundInv
    <2>2. ASSUME NEW i \in 1 .. Len(down'), ~ (i <= Len(down))
          PROVE  down'[i] = FoundAt(Got + i)
      <3>1. i - Len(down) \in 1 .. k /\ down'[i] = more[i - Len(down)]
        BY <1>7, <1>9, <2>2
      <3>2. ~ broken /\ Got + Len(down) = 3 + Sent
        <4>1. k > 0 /\ ~ broken
          BY <1>5, <1>9, <3>1
        <4> QED
          BY <1>2, <1>3, <4>1 DEF FoundInv
      <3>3. down'[i] = <<"byte", Sent + (i - Len(down))>>
        BY <1>6, <3>1
      <3>4. /\ Got + i > 3 /\ (Got + i) - 3 = Sent + (i - Len(down))
        BY <1>4, <1>9, <3>1, <3>2
      <3>5. FoundAt(Got + i) = <<"byte", (Got + i) - 3>>
        BY <1>9, <3>4 DEF FoundAt
      <3> QED
        BY <3>3, <3>4, <3>5
    <2> QED
      BY <2>1, <2>2
  <1>11. FoundInv'
    <2>1. Got' + Len(down') = Got + Len(down) + k
      BY <1>7, <1>8, <1>9
    <2>2. ~ broken => Got + Len(down) = 3 + Sent
      BY <1>2, <1>3 DEF FoundInv
    <2>3. opened' \/ \A i \in 1 .. Len(response') : response'[i] = FoundAt(i)
      BY <1>2, <1>3 DEF FoundInv
    <2>4. \A i \in 1 .. Len(down') : down'[i] = FoundAt(Got' + i)
      BY <1>8, <1>10
    <2>5. Got' + Len(down') <= 3 + Sent' /\ (~ broken' => Got' + Len(down') = 3 + Sent')
      BY <1>2, <1>4, <1>5, <1>9, <2>1, <2>2
    <2> QED
      BY <1>8, <2>3, <2>4, <2>5 DEF FoundInv
  <1>12. ClientInv'
    BY <1>2 DEF ClientInv
  <1>13. RangeInv'
    BY <1>2, <1>5, <1>7 DEF RangeInv
  <1>14. StreamInv'
    <2>1. broken' => down' = << >>
      BY <1>2, <1>3, <1>5, <1>7
    <2>2. spc' \in {"sendfile", "exit0"} /\ (spc' = "exit0" => bytesToSend' = 0)
      BY <1>2, <1>5
    <2> QED
      BY <1>11, <2>1, <2>2 DEF StreamInv
  <1> QED
    BY <1>12, <1>13, <1>14

(* The child answers with a header, or finds that nobody takes it *)
LEMMA HInvAnswer == HInv /\ (NotFound \/ Open) => HInv'
  <1> SUFFICES ASSUME HInv, NotFound \/ Open PROVE HInv'
    OBVIOUS
  <1> USE DEF HInv
  <1>1. /\ spc \in {"stat", "open"}
        /\ UNCHANGED <<named, size, broken, statSize, cpc, response, output, opened,
                       contentLength>>
    BY DEF NotFound, Open, fileVars, clientVars
  <1>2. /\ ~ opened /\ response = << >> /\ down = << >> /\ output = << >>
        /\ statSize \in Nat /\ size \in Nat /\ bytesToSend \in 0 .. statSize
        /\ (broken => down = << >>)
    BY <1>1 DEF StreamInv, ClientInv, RangeInv
  <1>3. Got = 0 /\ Got' = 0 /\ (\A i : FoundAt(i)' = FoundAt(i)) /\ << >> \in Seq(Pieces)
    BY <1>1, <1>2 DEF Got, FoundAt
  <1>4. ClientInv'
    BY <1>1 DEF ClientInv
  <1>5. bytesToSend' \in 0 .. statSize
    BY <1>2 DEF NotFound, Open
  <1>6. CASE down' = down /\ spc' = "exit1"
    <2>1. FoundInv'
      <3>1. down' = << >> /\ response' = << >>
        BY <1>1, <1>2, <1>6
      <3>2. Len(down') = 0 /\ Len(response') = 0
        BY <3>1
      <3>3. Sent' \in Nat
        <4>1. /\ statSize' \in Int /\ bytesToSend' \in Int
              /\ bytesToSend' <= statSize'
          BY <1>1, <1>2, <1>5
        <4>2. \A m, n \in Int : n <= m => m - n \in Nat
          OBVIOUS
        <4>3. Sent' = statSize' - bytesToSend'
          BY DEF Sent
        <4> QED
          BY <4>1, <4>2, <4>3
      <3>4. /\ \A i \in 1 .. Len(response') : response'[i] = FoundAt(i)'
            /\ \A i \in 1 .. Len(down') : down'[i] = FoundAt(Got + i)'
        BY <3>2
      <3>5. Got' + Len(down') <= 3 + Sent'
        <4>1. \A n \in Nat : 0 + 0 <= 3 + n
          OBVIOUS
        <4>2. Got' + Len(down') = 0 + 0
          BY <1>3, <3>2
        <4> QED
          BY <3>3, <4>1, <4>2
      <3>6. opened' \/ \A i \in 1 .. Len(response') : response'[i] = FoundAt(i)'
        BY <3>4
      <3> QED
        BY <1>6, <3>4, <3>5, <3>6 DEF FoundInv
    <2>2. RangeInv'
      BY <1>1, <1>2, <1>3, <1>5, <1>6 DEF RangeInv
    <2>3. StreamInv'
      BY <1>1, <1>2, <1>6, <2>1 DEF StreamInv
    <2> QED
      BY <1>4, <2>2, <2>3
  <1>7. CASE NotFound /\ ~ broken /\ down' = down \o Response(404, 0) /\ spc' = "exit1"
    <2>1. ~ named
      BY <1>7 DEF NotFound
    <2>2. down' = <<<<"status", 404>>, End>>
      BY <1>2, <1>7 DEF Response
    <2>3. <<"status", 404>> \in Pieces /\ End \in Pieces
      BY DEF Pieces, End
    <2>4. /\ down' \in Seq(Pieces) /\ Len(down') = 2
          /\ down'[1] = <<"status", 404>> /\ down'[2] = End
      BY <2>2, <2>3
    <2>5. NotFoundInv'
      <3>1. \A i \in 1 .. Len(down') : down'[i] = NotFoundAt(i)
        BY <2>4 DEF NotFoundAt
      <3>2. Len(response') = 0 /\ \A i \in 1 .. 2 : Len(response') + i = i
        BY <1>1, <1>2
      <3>3. \A i : NotFoundAt(i)' = NotFoundAt(i)
        BY DEF NotFoundAt
      <3> QED
        BY <1>1, <1>2, <1>7, <2>1, <2>4, <3>1, <3>2, <3>3 DEF NotFoundInv
    <2>6. RangeInv'
      BY <1>1, <1>2, <1>5, <1>7, <2>4 DEF RangeInv
    <2>7. StreamInv'
      BY <1>1, <1>7, <2>5 DEF StreamInv
    <2> QED
      BY <1>4, <2>6, <2>7
  <1>8. CASE Open /\ ~ broken /\ down' = down \o Response(200, statSize) /\ spc' = "sendfile"
    <2>1. down' = <<<<"status", 200>>, <<"length", statSize>>, End>>
      BY <1>2, <1>8 DEF Response
    <2>2. <<"status", 200>> \in Pieces /\ <<"length", statSize>> \in Pieces /\ End \in Pieces
      BY <1>2 DEF Pieces, End
    <2>3. /\ down' \in Seq(Pieces) /\ Len(down') = 3
          /\ down'[1] = <<"status", 200>> /\ down'[2] = <<"length", statSize>>
          /\ down'[3] = End
      BY <2>1, <2>2
    <2>4. bytesToSend' = statSize /\ Sent' = 0
      BY <1>1, <1>2, <1>8 DEF Open, Sent
    <2>5. FoundInv'
      <3>1. \A i \in 1 .. Len(down') : down'[i] = FoundAt(i)
        BY <2>3 DEF FoundAt
      <3>2. Len(response') = 0 /\ \A i \in 1 .. 3 : Got' + i = i
        BY <1>1, <1>2, <1>3
      <3> QED
        BY <1>3, <2>3, <2>4, <3>1, <3>2 DEF FoundInv
    <2>6. RangeInv'
      BY <1>1, <1>2, <1>5, <1>8, <2>3 DEF RangeInv
    <2>7. StreamInv'
      BY <1>1, <1>8, <2>5 DEF StreamInv
    <2> QED
      BY <1>4, <2>6, <2>7
  <1> QED
    BY <1>6, <1>7, <1>8 DEF NotFound, Open, Respond

(* The steps after which nothing is read or on its way that was not before *)
LEMMA HInvQuiet ==
    ASSUME HInv, UNCHANGED <<down, response, output, opened, contentLength, bytesToSend>>,
           size' \in Nat, named' => named, broken' = broken,
           cpc' = cpc \/ cpc' = "killed" \/ (cpc' = "failed" /\ broken)
              \/ (cpc = "send" /\ cpc' = "header"),
           \/ spc' = spc /\ statSize' = statSize
           \/ spc = "recv" /\ spc' = "stat" /\ statSize' = statSize
           \/ spc = "stat" /\ spc' = "open" /\ statSize' \in Nat
           \/ spc \in {"recv", "sendfile"} /\ spc' = "exit1" /\ statSize' = statSize
    PROVE  HInv'
  <1> USE DEF HInv
  <1>1. Got' = Got
    BY DEF Got
  <1>2. RangeInv'
    BY DEF RangeInv, StreamInv
  <1>3. ClientInv'
    <2>1. opened => spc # "stat"
      BY DEF StreamInv
    <2>2. opened => statSize' = statSize
      BY <2>1
    <2>3. cpc = "content" \/ cpc = "returned" => opened
      BY DEF ClientInv
    <2> QED
      BY <2>2, <2>3 DEF ClientInv
  <1>4. CASE spc' = spc /\ statSize' = statSize
    <2>1. FoundInv => FoundInv'
      BY <1>1, <1>4 DEF FoundInv, FoundAt, Sent
    <2>2. NotFoundInv => NotFoundInv'
      BY <1>4 DEF NotFoundInv, NotFoundAt
    <2>3. StreamInv'
      BY <1>4, <2>1, <2>2 DEF StreamInv
    <2> QED
      BY <1>2, <1>3, <2>3
  <1>5. CASE spc \in {"recv", "stat"} /\ spc' \in {"stat", "open"}
    <2>1. StreamInv'
      BY <1>5 DEF StreamInv
    <2> QED
      BY <1>2, <1>3, <2>1
  <1>6. CASE spc = "recv" /\ spc' = "exit1" /\ statSize' = statSize
    <2>1. FoundInv'
      <3>1. /\ ~ opened /\ Len(response') = 0 /\ Len(down') = 0
            /\ bytesToSend' \in 0 .. statSize' /\ statSize' \in Nat
        BY <1>6 DEF StreamInv, RangeInv
      <3> QED
        BY <1>6, <3>1 DEF FoundInv, Got, Sent
    <2>2. StreamInv'
      BY <1>6, <2>1 DEF StreamInv
    <2> QED
      BY <1>2, <1>3, <2>2
  <1>7. CASE spc = "sendfile" /\ spc' = "exit1" /\ statSize' = statSize
    <2>1. FoundInv
      BY <1>7 DEF StreamInv
    <2>2. \A i : FoundAt(i)' = FoundAt(i)
      BY <1>7 DEF FoundAt
    <2>3. bytesToSend' = bytesToSend /\ Sent' = Sent
      BY <1>7 DEF Sent
    <2>4. FoundInv'
      BY <1>1, <1>7, <2>1, <2>2, <2>3 DEF FoundInv
    <2>5. StreamInv'
      BY <1>7, <2>4 DEF StreamInv
    <2> QED
      BY <1>2, <1>3, <2>5
  <1> QED
    BY <1>4, <1>5, <1>6, <1>7

(* What was on its way is lost *)
LEMMA HInvBreaks == HInv /\ ConnectionBreaks => HInv'
  <1> SUFFICES ASSUME HInv, ConnectionBreaks PROVE HInv'
    OBVIOUS
  <1> USE DEF HInv
  <1>1. /\ broken' /\ down' = << >>
        /\ UNCHANGED <<named, size, cpc, response, output, opened, contentLength, spc,
                       statSize, bytesToSend>>
    BY DEF ConnectionBreaks, fileVars, clientVars, serverVars
  <1>2. down' \in Seq(Pieces) /\ Len(down') = 0 /\ Got' = Got
    BY <1>1 DEF Got
  <1>3. RangeInv'
    BY <1>1, <1>2 DEF RangeInv
  <1>4. ClientInv'
    BY <1>1 DEF ClientInv
  <1>5. FoundInv => FoundInv'
    <2>1. Got \in Nat /\ Len(down) \in Nat /\ Sent' = Sent /\ Sent \in Int
      <3>1. Len(output) \in Nat /\ Len(response) \in Nat /\ Len(down) \in Nat
        BY DEF RangeInv
      <3>2. statSize \in Int /\ bytesToSend \in Int
        BY DEF RangeInv
      <3> QED
        BY <1>1, <3>1, <3>2 DEF Got, Sent
    <2>2. \A i : FoundAt(i)' = FoundAt(i)
      BY <1>1 DEF FoundAt
    <2> QED
      BY <1>1, <1>2, <2>1, <2>2 DEF FoundInv
  <1>6. NotFoundInv => NotFoundInv'
    BY <1>1, <1>2 DEF NotFoundInv, NotFoundAt
  <1>7. StreamInv'
    BY <1>1, <1>5, <1>6 DEF StreamInv
  <1> QED
    BY <1>3, <1>4, <1>7

(* Every step preserves the invariant *)
LEMMA HInvNext == HInv /\ [Next]_vars => HInv'
  <1> SUFFICES ASSUME HInv, [Next]_vars PROVE HInv'
    OBVIOUS
  <1> USE DEF fileVars, clientVars, serverVars
  <1>1. size \in Nat /\ MaxSize \in Nat
    BY HttpAssumption DEF HInv, RangeInv
  <1>2. CASE SendRequest
    BY <1>1, <1>2, HInvQuiet DEF SendRequest
  <1>3. CASE RecvHeader
    BY <1>3, HInvRecvHeader
  <1>4. CASE RecvContent
    BY <1>4, HInvRecvContent
  <1>5. CASE ClientFails
    BY <1>1, <1>5, HInvQuiet DEF ClientFails
  <1>6. CASE RecvRequest
    BY <1>1, <1>6, HInvQuiet DEF RecvRequest
  <1>7. CASE RecvFails
    BY <1>1, <1>7, HInvQuiet DEF RecvFails
  <1>8. CASE Stat
    BY <1>1, <1>8, HInvQuiet DEF Stat
  <1>9. CASE NotFound \/ Open
    BY <1>9, HInvAnswer
  <1>10. CASE SendFile
    BY <1>10, HInvSendFile
  <1>11. CASE SendFileFails
    BY <1>1, <1>11, HInvQuiet DEF SendFileFails
  <1>12. CASE FileCut \/ FileGrows
    <2>1. size' \in Nat
      BY <1>1, <1>12 DEF FileCut, FileGrows
    <2> QED
      BY <1>12, <2>1, HInvQuiet DEF FileCut, FileGrows
  <1>13. CASE FileRemoved
    BY <1>1, <1>13, HInvQuiet DEF FileRemoved
  <1>14. CASE ClientKilled
    BY <1>1, <1>14, HInvQuiet DEF ClientKilled
  <1>15. CASE ConnectionBreaks
    BY <1>15, HInvBreaks
  <1>16. CASE UNCHANGED vars
    BY <1>1, <1>16, HInvQuiet DEF vars
  <1> QED
    BY <1>2, <1>3, <1>4, <1>5, <1>6, <1>7, <1>8, <1>9, <1>10, <1>11, <1>12, <1>13,
       <1>14, <1>15, <1>16 DEF Next, ClientSpins, ServerSpins, Finished

LEMMA HInvHolds == Spec => []HInv
  BY HInvInit, HInvNext, PTL DEF Spec

-----------------------------------------------------------------------------
(* However the stream is cut up and whatever the world does, the client    *)
(* writes the file from its start, a client that returns 0 has all the     *)
(* bytes that were announced, and it fails only when the connection was    *)
(* reset or there is no file (main of http_client.c), for files and reads  *)
(* of any size and any number of faults.                                   *)
THEOREM OutputIsFileHolds == Spec => []OutputIsFile
  <1>1. HInv => OutputIsFile
    <2> SUFFICES ASSUME HInv PROVE OutputIsFile
      OBVIOUS
    <2> USE DEF HInv
    <2>1. output = Bytes(1, Len(output))
      <3>1. output \in Seq(Pieces) /\ Len(output) \in Nat /\ Len(output) - 1 + 1 = Len(output)
        BY DEF RangeInv
      <3>2. \A i \in 1 .. Len(output) : output[i] = <<"byte", 1 + i - 1>>
        BY <3>1 DEF ClientInv
      <3>3. output = [i \in 1 .. Len(output) |-> output[i]]
        BY <3>1
      <3> QED
        BY <3>1, <3>2, <3>3 DEF Bytes
    <2>2. opened => spc \notin {"recv", "stat", "open"} /\ contentLength = statSize
      BY DEF ClientInv, StreamInv
    <2>3. cpc = "returned" => opened /\ Len(output) = statSize
      <3> SUFFICES ASSUME cpc = "returned" PROVE opened /\ Len(output) = statSize
        OBVIOUS
      <3>1. opened /\ Len(output) >= statSize
        BY DEF ClientInv
      <3>2. FoundInv
        BY <3>1 DEF StreamInv, RangeInv, NotFoundInv
      <3>3. /\ Len(output) \in Nat /\ Len(down) \in Nat /\ statSize \in Nat
            /\ Sent \in Nat /\ Sent <= statSize
        BY DEF RangeInv, Sent
      <3>4. 3 + Len(output) + Len(down) <= 3 + Sent
        BY <3>1, <3>2 DEF FoundInv, Got
      <3> QED
        BY <3>1, <3>3, <3>4
    <2>4. cpc = "failed" => broken \/ ~ named
      BY DEF ClientInv
    <2> QED
      BY <2>1, <2>2, <2>3, <2>4 DEF OutputIsFile
  <1> QED
    BY <1>1, HInvHolds, PTL

(* A child that exits with 0 (the sendfile loop of http_server.c) has sent *)
(* all that its client still waits for.                                    *)
THEOREM ServedInFullHolds == Spec => []ServedInFull
  <1>1. HInv => ServedInFull
    <2> SUFFICES ASSUME HInv, spc = "exit0", ~ broken, cpc \in {"header", "content"}
                 PROVE  down # << >>
      BY DEF ServedInFull
    <2> USE DEF HInv
    <2>1. FoundInv /\ statSize \in Nat /\ Sent = statSize
      BY DEF StreamInv, RangeInv, Sent
    <2>2. Got + Len(down) = 3 + statSize
      BY <2>1 DEF FoundInv
    <2>3. CASE cpc = "content"
      <3>1. Got = 3 + Len(output) /\ Len(output) < statSize /\ Len(output) \in Nat
        BY <2>3 DEF ClientInv, RangeInv, Got
      <3> QED
        BY <2>1, <2>2, <3>1
    <2>4. CASE cpc = "header"
      <3>1. /\ Got = Len(response) /\ Len(response) \in Nat
            /\ \A i \in 1 .. Len(response) : response[i] = FoundAt(i) /\ response[i] # End
        BY <2>1, <2>4 DEF ClientInv, RangeInv, Got, FoundInv
      <3>2. ASSUME Len(response) >= 3 PROVE FALSE
        <4>1. 3 \in 1 .. Len(response) /\ FoundAt(3) = End
          BY <3>1, <3>2 DEF FoundAt
        <4> QED
          BY <3>1, <4>1
      <3> QED
        BY <2>1, <2>2, <3>1, <3>2
    <2> QED
      BY <2>3, <2>4
  <1> QED
    BY <1>1, HInvHolds, PTL
=============================================================================
