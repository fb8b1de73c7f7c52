--------------------------- MODULE EndToEndProofs ---------------------------
(***************************************************************************)
(* The connection handler and the parser together: for every stream over   *)
(* any alphabet, every segmentation of it and every command line, no body  *)
(* is answered as if it were a request, the connection persists exactly as *)
(* asked, and no plain request is refused.                                 *)
(***************************************************************************)
EXTENDS EndToEnd, ConnectionHandlerProofs, HttpProofs

(* A request at the head of the buffer is one the parser is assumed to     *)
(* read as http_parse_request does, and it ends at its first blank line.   *)
LEMMA NextRequest ==
  ASSUME TypeOK, StreamConserved, pc # "exited",
         http_connection_request_ready(buffer)
  PROVE  LET request == http_connection_request(buffer)
         IN  /\ request \in Requests
             /\ request \in Seq(Byte) /\ EndsAtBlankLine(request)
<1> DEFINE length == http_connection_request_length(buffer)
           request == http_connection_request(buffer)
           ahead == SubSeq(stream, Len(taken) + 1, Len(stream))
<1>1. /\ length \in Nat /\ length > 0
      /\ Len(taken) \in Nat /\ Len(taken) + length <= Len(stream)
      /\ http_find_header_end(ahead) = length
      /\ SubSeq(stream, Len(taken) + 1, Len(taken) + length) = request
  BY BufferHoldsTheNext
<1>2. /\ buffer \in Seq(Byte) /\ Len(buffer) \in Nat
      /\ stream \in Seq(Byte) /\ Len(stream) \in Nat
  BY HandlerAssumption, LenProperties DEF TypeOK
<1>3. length \in 1..Len(buffer)
  BY <1>1, <1>2, HeaderEnd DEF http_connection_request_length
<1>4. /\ request \in Seq(Byte) /\ Len(request) = length
      /\ \A i \in 1..length : request[i] = buffer[i]
  BY <1>2, <1>3 DEF http_connection_request, http_connection_request_length
<1>5. /\ ahead \in Seq(Byte) /\ Len(ahead) = Len(stream) - Len(taken)
      /\ \A i \in 1..Len(ahead) : ahead[i] = stream[Len(taken) + i]
  BY <1>1, <1>2
<1>6. SubSeq(ahead, 1, length) = request
  <2> DEFINE piece == SubSeq(stream, Len(taken) + 1, Len(taken) + length)
             front == SubSeq(ahead, 1, length)
  <2>1. /\ piece \in Seq(Byte) /\ Len(piece) = length
        /\ \A i \in 1..length : piece[i] = stream[Len(taken) + i]
    <3>1. PICK a \in Nat, b \in Nat : a = Len(taken) /\ b = length
      BY <1>1
    <3>2. a + b <= Len(stream) /\ stream \in Seq(Byte) /\ Len(stream) \in Nat
      BY <1>1, <1>2, <3>1
    <3>3. /\ SubSeq(stream, a + 1, a + b) \in Seq(Byte)
          /\ Len(SubSeq(stream, a + 1, a + b)) = b
          /\ \A i \in 1..b : SubSeq(stream, a + 1, a + b)[i] = stream[a + i]
      BY <3>2
    <3>4. QED
      BY <3>1, <3>3
  <2>2. length <= Len(ahead)
    BY <1>1, <1>2, <1>5
  <2> HIDE DEF ahead
  <2>3. /\ front \in Seq(Byte) /\ Len(front) = length
        /\ \A i \in 1..length : front[i] = ahead[i]
    BY <1>1, <1>5, <2>2
  <2> HIDE DEF length, piece, front
  <2>4. \A i \in 1..length : front[i] = piece[i]
    BY <1>1, <1>5, <2>1, <2>2, <2>3
  <2>5. front = piece
    BY <2>1, <2>3, <2>4, SeqEqual
  <2>6. QED
    BY <1>1, <2>5 DEF front, piece
<1>7. request = http_connection_request(ahead)
  BY <1>1, <1>6 DEF http_connection_request, http_connection_request_length
<1>8. Len(taken) + 1 \in 1..Len(stream) /\ stream \in Streams
  BY <1>1, <1>2 DEF TypeOK
<1>9. request # << >>
  BY <1>1, <1>4
<1>10. request \in Requests
  <2> HIDE DEF request
  <2>1. request \in {http_connection_request(SubSeq(stream, n, Len(stream))) :
                       n \in 1..Len(stream)}
    BY <1>7, <1>8
  <2>2. QED
    BY <1>8, <1>9, <2>1 DEF Requests
<1>11. http_find_header_end(request) = length
  <2> HIDE DEF request, length
  <2>1. PICK f \in ScanRange(buffer) : IsFirstTerminator(buffer, f)
    BY <1>2, CompleteHasFirst DEF http_connection_request_ready
  <2>2. length = f + 3
    BY <1>2, <2>1, ScanStopsAtFirst DEF http_connection_request_length, length
  <2>3. f \in Nat /\ f >= 1 /\ f + 3 <= Len(buffer)
    BY <1>2, <2>1 DEF ScanRange
  <2>4. f \in ScanRange(request) /\ TerminatorAt(request, f)
    BY <1>4, <2>1, <2>2, <2>3 DEF ScanRange, IsFirstTerminator, TerminatorAt
  <2>5. ASSUME NEW j \in ScanRange(request), j < f
        PROVE  ~TerminatorAt(request, j)
    <3>1. j \in Nat /\ j >= 1 /\ j \in ScanRange(buffer)
      BY <1>2, <1>4, <2>3, <2>5 DEF ScanRange
    <3>2. ~TerminatorAt(buffer, j)
      BY <2>1, <2>5, <3>1 DEF IsFirstTerminator
    <3>3. /\ request[j] = buffer[j] /\ request[j + 1] = buffer[j + 1]
          /\ request[j + 2] = buffer[j + 2] /\ request[j + 3] = buffer[j + 3]
      BY <1>4, <2>2, <2>3, <2>5, <3>1
    <3>4. QED
      BY <3>2, <3>3 DEF TerminatorAt
  <2>6. IsFirstTerminator(request, f)
    BY <2>4, <2>5 DEF IsFirstTerminator
  <2>7. QED
    BY <1>4, <2>2, <2>6, ScanStopsAtFirst
<1>12. QED
  BY <1>4, <1>9, <1>10, <1>11 DEF EndsAtBlankLine

(* What the responses were decided from: the 431 of a full buffer from no  *)
(* request, every other one from what http_parse_request makes of a framed *)
(* request.                                                                *)
DecidedFrom(announcement) ==
  \/ announcement.request = << >> /\ announcement.decision = ErrorDecision(431)
  \/ /\ announcement.request \in Seq(Byte)
     /\ EndsAtBlankLine(announcement.request)
     /\ \E file \in FileAnswers :
          announcement.decision =
            http_prepare_response(
              http_parse_request(announcement.request, config), file)

AllDecidedFrom == \A k \in DOMAIN announced : DecidedFrom(announced[k])

(* One more response, decided as the others were.                          *)
LEMMA OneMoreDecided ==
  ASSUME TypeOK, AllDecidedFrom, config' = config, NEW announcement,
         announced' = Append(announced, announcement),
         DecidedFrom(announcement)
  PROVE  AllDecidedFrom'
<1>1. announced \in Seq(Announcements) /\ Len(announced) \in Nat
  BY DEF TypeOK
<1>2. \A a : DecidedFrom(a) => DecidedFrom(a)'
  BY DEF DecidedFrom
<1>3. ASSUME NEW k \in DOMAIN announced'
      PROVE  DecidedFrom(announced'[k])
  <2>1. /\ DOMAIN announced' = 1..(Len(announced) + 1)
        /\ announced'[Len(announced) + 1] = announcement
        /\ \A i \in 1..Len(announced) : announced'[i] = announced[i]
    BY <1>1
  <2>2. CASE k = Len(announced) + 1
    BY <2>1, <2>2
  <2>3. CASE k \in 1..Len(announced)
    BY <1>1, <2>1, <2>3 DEF AllDecidedFrom
  <2>4. QED
    BY <1>1, <1>3, <2>1, <2>2, <2>3
<1>4. QED
  BY <1>3 DEF AllDecidedFrom, DecidedFrom

(* Every step keeps it: http_prepare_response is called with the request   *)
(* at the head of the buffer and nothing else.                             *)
LEMMA NextDecided == IInv /\ AllDecidedFrom /\ [Next]_vars => AllDecidedFrom'
<1> SUFFICES ASSUME IInv, AllDecidedFrom, [Next]_vars PROVE AllDecidedFrom'
  OBVIOUS
<1>1. TypeOK /\ StreamConserved
  BY DEF IInv
<1>2. CASE UNCHANGED << config, announced >>
  BY <1>2 DEF AllDecidedFrom, DecidedFrom
<1>3. CASE Jump
  BY <1>1, <1>2, <1>3, JumpFrame DEF environment, history
<1>4. CASE Transmit
  BY <1>1, <1>2, <1>4, TransmitFrame DEF environment
<1>5. CASE PeerCloses \/ FileResized
  BY <1>2, <1>5 DEF PeerCloses, FileResized, history
<1>6. CASE BufferFull \/ \E n \in 1..Len(inbound) : Receive(n)
  <2>1. CASE UNCHANGED announced
    BY <1>2, <1>6, <2>1 DEF BufferFull, Receive, environment
  <2>2. CASE StartErrorReply
    <3>1. config' = config
      BY <1>6 DEF BufferFull, Receive, environment
    <3>2. DecidedFrom([request |-> << >>, decision |-> ErrorDecision(431)])
      BY DEF DecidedFrom
    <3>3. QED
      BY <1>1, <2>2, <3>1, <3>2, OneMoreDecided DEF StartErrorReply
  <2>3. QED
    BY <1>6, <2>1, <2>2 DEF BufferFull, Receive
<1>7. CASE \E file \in FileAnswers : Prepare(file)
  <2>1. PICK file \in FileAnswers : Prepare(file)
    BY <1>7
  <2> DEFINE request == http_connection_request(buffer)
             decision == http_prepare_response(Parse(request, config), file)
             announcement == [request |-> request, decision |-> decision]
  <2>2. /\ pc = "process" /\ http_connection_request_ready(buffer)
        /\ config' = config /\ announced' = Append(announced, announcement)
    BY <2>1 DEF Prepare
  <2>3. /\ request \in Requests
        /\ request \in Seq(Byte) /\ EndsAtBlankLine(request)
    BY <1>1, <2>2, NextRequest
  <2>4. Parse(request, config) = http_parse_request(request, config)
    BY <1>1, <2>3, ParserAssumption DEF TypeOK
  <2> HIDE DEF request
  <2>5. decision
          = http_prepare_response(http_parse_request(request, config), file)
    BY <2>4
  <2> HIDE DEF decision
  <2>6. announcement.request = request /\ announcement.decision = decision
    OBVIOUS
  <2> HIDE DEF announcement
  <2>7. DecidedFrom(announcement)
    BY <2>3, <2>5, <2>6 DEF DecidedFrom
  <2>8. QED
    BY <1>1, <2>2, <2>7, OneMoreDecided DEF announcement, decision, request
<1>8. CASE PrepareFails \/ FinishRequest \/ KilledBySIGPIPE \/ ConnectionDestroy
  BY <1>2, <1>8 DEF PrepareFails, FinishRequest, KilledBySIGPIPE,
                    ConnectionDestroy, environment, history
<1>9. CASE UNCHANGED vars
  BY <1>2, <1>9 DEF vars, environment, history
<1>10. QED
  BY <1>3, <1>4, <1>5, <1>6, <1>7, <1>8, <1>9, NextSplit

(* A response that keeps the connection open was decided from a request    *)
(* that nobody takes to have a body.                                       *)
LEMMA KeptAliveHasNoBody ==
  ASSUME TypeOK, NEW a, DecidedFrom(a), MayHaveBody(a.request)
  PROVE  ~a.decision.keep_alive
<1>1. CASE a.decision = ErrorDecision(431)
  BY <1>1 DEF ErrorDecision
<1>2. CASE a.decision # ErrorDecision(431)
  <2> DEFINE r == http_parse_request(a.request, config)
  <2>1. PICK file \in FileAnswers : a.decision = http_prepare_response(r, file)
    BY <1>2 DEF DecidedFrom
  <2>2. config.http_max_headers \in Nat
    BY HandlerAssumption DEF TypeOK
  <2>3. ParsedFrom(Byte, a.request, config, r)
    BY <1>2, <2>2 DEF DecidedFrom, ParsedFrom
  <2> HIDE DEF r
  <2>4. http_prepare_response(r, file).close
    BY <2>3, KeptOpenBehindNoBody
  <2>5. http_prepare_response(r, file).keep_alive
          = ~http_prepare_response(r, file).close
    BY DecisionIsConsistent
  <2>6. QED
    BY <2>1, <2>4, <2>5
<1>3. QED
  BY <1>1, <1>2

(* Whatever the client sends and however it is cut, the response to a      *)
(* request that somebody may take to have a body announces the close of    *)
(* the connection and is the last: the bytes behind its blank line are     *)
(* never parsed.  The argument goes through all three layers: the framing  *)
(* cuts requests at blank lines only, the parser accepts no framing header *)
(* it does not see, and nothing is read after a response that closes.      *)
THEOREM BodyIsNeverAnswered == Spec => []BodyNeverAnswered
<1>1. Init => AllDecidedFrom
  BY DEF Init, AllDecidedFrom
<1>2. IInv /\ AllDecidedFrom => BodyNeverAnswered
  <2>1. SUFFICES ASSUME IInv, AllDecidedFrom, NEW k \in DOMAIN announced,
                        MayHaveBody(announced[k].request)
                 PROVE  k = Len(announced) /\ ~announced[k].decision.keep_alive
    BY DEF BodyNeverAnswered
  <2>2. ~announced[k].decision.keep_alive
    BY <2>1, KeptAliveHasNoBody DEF IInv, AllDecidedFrom
  <2>3. QED
    BY <2>1, <2>2 DEF IInv, ConnectionHeaderHonoured
<1>3. QED
  BY Invariance, <1>1, <1>2, NextDecided, PTL DEF Spec

(* Every response is decided as its request asks.                          *)
LEMMA DecidedAsAsked ==
  ASSUME TypeOK, NEW a, DecidedFrom(a)
  PROVE  IF AsksToClose(a.request) THEN ~a.decision.keep_alive
         ELSE a.decision.status = 200 => a.decision.keep_alive
<1>1. ASSUME NEW status, status # 200, a.decision = ErrorDecision(status)
      PROVE  ~a.decision.keep_alive /\ a.decision.status # 200
  BY <1>1 DEF ErrorDecision
<1>2. CASE a.decision = ErrorDecision(431)
  BY <1>1, <1>2
<1>3. CASE a.decision # ErrorDecision(431)
  <2> DEFINE r == http_parse_request(a.request, config)
  <2>1. PICK file \in FileAnswers : a.decision = http_prepare_response(r, file)
    BY <1>3 DEF DecidedFrom
  <2>2. config.http_max_headers \in Nat
    BY HandlerAssumption DEF TypeOK
  <2>3. ParsedFrom(Byte, a.request, config, r)
    BY <1>3, <2>2 DEF DecidedFrom, ParsedFrom
  <2> HIDE DEF r
  <2>4. CASE ~OpensFile(r)
    <3>1. a.decision = ErrorDecision(Refusal(r)) /\ Refusal(r) # 200
      BY <2>1, <2>4 DEF http_prepare_response, OpensFile
    <3>2. QED
      BY <1>1, <3>1
  <2>5. CASE OpensFile(r) /\ file.errno # "OK"
    <3>1. a.decision = ErrorDecision(FileErrorStatus(file.errno))
      BY <2>1, <2>5 DEF http_prepare_response
    <3>2. FileErrorStatus(file.errno) # 200
      BY DEF FileErrorStatus
    <3>3. QED
      BY <1>1, <3>1, <3>2
  <2>6. CASE OpensFile(r) /\ file.errno = "OK"
    <3>1. r.parse_result = "OK"
      BY <2>6 DEF OpensFile, Refusal
    <3>2. http_close_requested(r) <=> AsksToClose(a.request)
      BY <2>3, <3>1, ClosesAsAsked
    <3>3. a.decision = FileDecision(r, file.size)
      BY <2>1, <2>6 DEF http_prepare_response
    <3>4. a.decision.keep_alive = ~http_close_requested(r)
      BY <3>3 DEF FileDecision
    <3>5. QED
      BY <3>2, <3>4
  <2>7. QED
    BY <2>4, <2>5, <2>6
<1>4. QED
  BY <1>2, <1>3

(* Whatever the client sends and however it is cut, the connection         *)
(* persists behind a file exactly if neither the version nor the first     *)
(* Connection line of its request, found in the bytes of the request, asks *)
(* to close; behind a request that asks nothing more is answered.          *)
THEOREM ConnectionPersistsAsAsked == Spec => []PersistsAsAsked
<1>1. Init => AllDecidedFrom
  BY DEF Init, AllDecidedFrom
<1>2. IInv /\ AllDecidedFrom => PersistsAsAsked
  <2>1. SUFFICES ASSUME IInv, AllDecidedFrom, NEW k \in DOMAIN announced
                 PROVE  LET decision == announced[k].decision
                        IN  IF AsksToClose(announced[k].request)
                            THEN k = Len(announced) /\ ~decision.keep_alive
                            ELSE decision.status = 200 => decision.keep_alive
    BY DEF PersistsAsAsked
  <2> DEFINE a == announced[k]
  <2>2. TypeOK /\ DecidedFrom(a)
    BY <2>1 DEF IInv, AllDecidedFrom
  <2>3. ~a.decision.keep_alive => k = Len(announced)
    BY <2>1 DEF IInv, ConnectionHeaderHonoured
  <2> HIDE DEF a
  <2>4. IF AsksToClose(a.request) THEN ~a.decision.keep_alive
        ELSE a.decision.status = 200 => a.decision.keep_alive
    BY <2>2, DecidedAsAsked
  <2>5. QED
    BY <2>3, <2>4 DEF a
<1>3. QED
  BY Invariance, <1>1, <1>2, NextDecided, PTL DEF Spec

(* No request is no well-formed request.                                   *)
LEMMA NothingIsNotWellFormed ==
  ASSUME NEW limits
  PROVE  ~WellFormed(<< >>, limits)
<1>1. PICK text \in Seq(Byte) : text = << >>
  BY EmptySeq
<1>2. PICK lines \in [1..(Len(text) + 1) -> Seq(Seq(Byte))] :
        IsLines(text, lines) /\ Lines(text) = lines[1]
  BY LinesRun
<1>3. Len(text) = 0
  BY <1>1
<1>4. NextCRLF(text, 1) = 0
  <2>1. NextCRLF(text, 1) # 0 => NextCRLF(text, 1) \in 1..(Len(text) - 1)
    BY NextLineEnd
  <2>2. QED
    BY <1>3, <2>1
<1>5. Lines(text) = << >>
  <2>1. 1 \in 1..(Len(text) + 1)
    BY <1>3
  <2>2. QED
    BY <1>2, <1>4, <2>1 DEF IsLines
<1>6. QED
  BY <1>1, <1>5 DEF WellFormed

(* The response to a plain request is decided by the file.                 *)
LEMMA PlainIsDecidedByFile ==
  ASSUME TypeOK, NEW a, DecidedFrom(a),
         WellFormed(a.request, config), IsPlain(a.request)
  PROVE  a.decision.status \notin {400, 405, 431}
<1> DEFINE r == http_parse_request(a.request, config)
<1>1. a.request # << >>
  BY NothingIsNotWellFormed
<1>2. PICK file \in FileAnswers : a.decision = http_prepare_response(r, file)
  BY <1>1 DEF DecidedFrom
<1>3. LimitsAreNumbers(config)
  BY HandlerAssumption DEF TypeOK, LimitsAreNumbers
<1>4. ParsedFrom(Byte, a.request, config, r)
  BY <1>1, <1>3 DEF DecidedFrom, ParsedFrom, LimitsAreNumbers
<1> HIDE DEF r
<1>5. OpensFile(r)
  BY <1>3, <1>4, PlainOpensFile
<1>6. \A status : ErrorDecision(status).status = status
  BY DEF ErrorDecision
<1>7. \A size : FileDecision(r, size).status = 200
  BY DEF FileDecision
<1>8. \A errno : FileErrorStatus(errno) \in {403, 404, 500}
  BY DEF FileErrorStatus
<1>9. QED
  BY <1>2, <1>5, <1>6, <1>7, <1>8 DEF http_prepare_response

(* A prefix that reaches the end of a request is complete.                 *)
LEMMA PrefixIsComplete ==
  ASSUME NEW s \in Seq(Byte), NEW n \in 1..Len(s),
         http_find_header_end(s) \in 1..n
  PROVE  http_request_complete(SubSeq(s, 1, n))
<1> DEFINE p == SubSeq(s, 1, n)
<1>1. Len(s) \in Nat /\ n \in Nat
  BY LenProperties
<1>2. http_request_complete(s)
  BY <1>1 DEF http_request_complete
<1>3. PICK f \in ScanRange(s) : IsFirstTerminator(s, f)
  BY <1>2, CompleteHasFirst
<1>4. f \in Nat /\ f >= 1 /\ f + 3 <= n
  BY <1>1, <1>3, ScanStopsAtFirst DEF ScanRange
<1>5. p \in Seq(Byte) /\ Len(p) = n /\ \A i \in 1..n : p[i] = s[i]
  BY <1>1
<1> HIDE DEF p
<1>6. f \in ScanRange(p)
  BY <1>1, <1>4, <1>5 DEF ScanRange
<1>7. TerminatorAt(p, f)
  <2>1. /\ p[f] = s[f] /\ p[f + 1] = s[f + 1]
        /\ p[f + 2] = s[f + 2] /\ p[f + 3] = s[f + 3]
    BY <1>1, <1>4, <1>5
  <2>2. QED
    BY <1>3, <2>1 DEF IsFirstTerminator, TerminatorAt
<1>8. QED
  BY <1>5, <1>6, <1>7, HeaderEnd DEF p

(* Where the k-th response is the 431 of a full buffer: what follows the   *)
(* requests before it fills the buffer and is not complete.                *)
RejectedAt(k) ==
  /\ k - 1 <= Len(taken) /\ RequestEnd[k - 1] = Len(taken)
  /\ Len(Unanswered) >= config.http_buffer_size
  /\ ~http_request_complete(SubSeq(Unanswered, 1, config.http_buffer_size))

(* Every response is to the request whose turn it is, or to one that the   *)
(* buffer could not hold.                                                  *)
InTurnOrRejected == \A k \in DOMAIN announced : InTurn(k) \/ RejectedAt(k)

(* Every step keeps it.                                                    *)
LEMMA NextInTurnOrRejected ==
  /\ TypeOK /\ Turns /\ InTurnOrRejected /\ [Next]_vars
  /\ TypeOK' /\ Turns' /\ RejectedOnlyIfOversize'
  => InTurnOrRejected'
<1> SUFFICES ASSUME TypeOK, Turns, InTurnOrRejected, [Next]_vars,
                    TypeOK', Turns', RejectedOnlyIfOversize'
             PROVE  InTurnOrRejected'
  OBVIOUS
<1> USE DEF environment, process, history
<1>0. announced' \in Seq(Announcements) /\ announced \in Seq(Announcements)
  BY DEF TypeOK
<1>1. ASSUME pc' \in {"init", "recv", "process", "send"}
      PROVE  InTurnOrRejected'
  BY <1>1 DEF Turns, InTurnOrRejected
<1>2. ASSUME UNCHANGED << config, stream, announced, taken >>
      PROVE  InTurnOrRejected'
  <2>1. \A k : InTurn(k)' <=> InTurn(k)
    BY <1>2, TurnsKept
  <2>2. \A k : RejectedAt(k)' <=> RejectedAt(k)
    BY <1>2, TurnsKept DEF RejectedAt, Unanswered
  <2>3. QED
    BY <1>2, <2>1, <2>2 DEF InTurnOrRejected
<1>3. CASE Jump
  BY <1>2, <1>3, JumpFrame
<1>4. CASE Transmit
  BY <1>2, <1>4, TransmitFrame
<1>5. CASE PeerCloses \/ FileResized \/ PrepareFails
  BY <1>2, <1>5 DEF PeerCloses, FileResized, PrepareFails
<1>6. CASE BufferFull
  <2>0. PICK last \in Nat : last = Len(announced) + 1
    BY <1>0, LenProperties
  <2>1. /\ pc = "recv" /\ pc' = "err"
        /\ UNCHANGED << config, stream, taken >>
        /\ announced' = Append(announced, [request |-> << >>,
                                           decision |-> ErrorDecision(431)])
    BY <1>6 DEF BufferFull, StartErrorReply
  <2>2. Len(announced) \in Nat
    BY <1>0, LenProperties
  <2>3. /\ DOMAIN announced' = 1..last /\ DOMAIN announced = 1..Len(announced)
        /\ \A k \in 1..Len(announced) : announced'[k] = announced[k]
    BY <1>0, <2>0, <2>1
  <2>4. RequestEnd' = RequestEnd
    BY <2>1 DEF RequestEnd
  <2>5. ASSUME NEW k \in 1..Len(announced)
        PROVE  InTurn(k)'
    <3>1. InTurn(k)
      BY <2>1, <2>3 DEF Turns
    <3>2. QED
      BY <2>1, <2>3, <2>4, <3>1 DEF InTurn
  <2>6. RejectedAt(last)'
    <3>1. last - 1 = Len(announced)
      BY <2>0, <2>2
    <3>2. /\ last - 1 <= Len(taken')
          /\ RequestEnd'[last - 1] = Len(taken')
      BY <2>1, <2>4, <3>1 DEF Turns
    <3>3. (/\ Len(Unanswered) >= config.http_buffer_size
           /\ ~http_request_complete(SubSeq(Unanswered, 1,
                                            config.http_buffer_size)))'
      BY <2>1 DEF RejectedOnlyIfOversize
    <3>4. QED
      BY <3>2, <3>3 DEF RejectedAt
  <2>7. QED
    BY <2>0, <2>2, <2>3, <2>5, <2>6 DEF InTurnOrRejected
<1>7. ASSUME NEW n \in 1..Len(inbound), Receive(n)
      PROVE  InTurnOrRejected'
  BY <1>2, <1>7, FeedAccepts DEF Receive
<1>8. ASSUME NEW file \in FileAnswers, Prepare(file)
      PROVE  InTurnOrRejected'
  BY <1>1, <1>8 DEF Prepare
<1>9. CASE FinishRequest
  <2>1. /\ pc = "send" /\ UNCHANGED << stream, announced >>
    BY <1>9 DEF FinishRequest
  <2>2. \A k \in DOMAIN announced : InTurn(k)
    BY <2>1 DEF Turns
  <2>3. QED
    BY <2>1, <2>2, TurnsKept DEF InTurnOrRejected
<1>10. CASE KilledBySIGPIPE \/ ConnectionDestroy
  BY <1>2, <1>10 DEF KilledBySIGPIPE, ConnectionDestroy
<1>11. CASE UNCHANGED vars
  BY <1>2, <1>11 DEF vars
<1>12. QED
  BY <1>3, <1>4, <1>5, <1>6, <1>7, <1>8, <1>9, <1>10, <1>11, NextSplit

(* What is left of a text behind a position inside it.                     *)
LEMMA SomethingIsLeft ==
  ASSUME NEW s \in Seq(Byte), NEW e \in Nat,
         Len(SubSeq(s, e + 1, Len(s))) > 0
  PROVE  /\ e < Len(s) /\ SubSeq(s, e + 1, Len(s)) \in Seq(Byte)
         /\ Len(SubSeq(s, e + 1, Len(s))) = Len(s) - e
<1>1. PICK n \in Nat : n = Len(s)
  BY LenProperties
<1>2. e < n
  <2>1. SUFFICES ASSUME n < e + 1 PROVE FALSE
    BY <1>1
  <2>2. SubSeq(s, e + 1, n) = << >>
    BY <2>1, SubSeqEmpty
  <2>3. Len(SubSeq(s, e + 1, n)) = 0
    BY <2>2
  <2>4. QED
    BY <1>1, <2>3
<1>3. \A i \in (e + 1)..n : s[i] \in Byte
  BY <1>1
<1>4. /\ SubSeq(s, e + 1, n) \in Seq(Byte)
      /\ Len(SubSeq(s, e + 1, n)) = n - e
  BY <1>2, <1>3, SubSeqProperties
<1>5. QED
  BY <1>1, <1>2, <1>4

(* What the buffer could not hold did not keep to the limits.              *)
LEMMA RejectedDoesNotConform ==
  ASSUME TypeOK, NEW k \in Nat \ {0}, RejectedAt(k)
  PROVE  ~Conforms(k)
<1> DEFINE e == RequestEnd[k - 1]
           size == config.http_buffer_size
           rest == SubSeq(stream, e + 1, Len(stream))
           h == http_find_header_end(rest)
<1>1. /\ stream \in Seq(Byte) /\ Len(stream) \in Nat
      /\ taken \in Seq(Byte) /\ Len(taken) \in Nat
      /\ size \in Nat /\ size > 0
  BY HandlerAssumption, LenProperties DEF TypeOK
<1>2. e = Len(taken) /\ rest = Unanswered /\ k - 1 <= e
  BY DEF RejectedAt, Unanswered
<1>3. e \in Nat
  BY <1>1, <1>2
<1>4. Len(rest) >= size /\ ~http_request_complete(SubSeq(rest, 1, size))
  BY <1>2 DEF RejectedAt
<1> HIDE DEF size
<1>5. e < Len(stream) /\ rest \in Seq(Byte) /\ Len(rest) = Len(stream) - e
  <2> HIDE DEF e
  <2>1. Len(rest) > 0
    <3> HIDE DEF rest
    <3>1. QED
      BY <1>1, <1>4
  <2>2. QED
    BY <1>1, <1>3, <2>1, SomethingIsLeft
<1>6. k \in 1..Len(stream)
  BY <1>1, <1>2, <1>3, <1>5
<1>7. RequestEnd[k] = e + h
  BY <1>6, RequestEndUnfolded
<1>8. h \in 0..Len(rest)
  BY <1>5, HeaderEnd
<1> HIDE DEF rest, h, e
<1>9. h \notin 1..size
  <2>1. size \in 1..Len(rest)
    BY <1>1, <1>3, <1>4, <1>5
  <2>2. QED
    BY <1>4, <1>5, <2>1, PrefixIsComplete DEF h
<1>10. CASE h = 0
  <2>1. RequestEnd[k] = e /\ RequestEnd[k] < e + 1
    BY <1>3, <1>7, <1>10
  <2>2. ~(Len(stream) - RequestEnd[k] < size)
    BY <1>1, <1>3, <1>4, <1>5, <2>1
  <2>3. QED
    BY <2>1, <2>2 DEF Conforms, e, size
<1>11. CASE h # 0
  <2>1. h \in Nat /\ h > size /\ e + h <= Len(stream)
    BY <1>1, <1>3, <1>5, <1>8, <1>9, <1>11
  <2>2. Len(SubSeq(stream, e + 1, e + h)) = h
    <3>1. PICK a \in Nat, b \in Nat : a = e /\ b = h
      BY <1>3, <2>1
    <3>2. a + b <= Len(stream) /\ stream \in Seq(Byte) /\ Len(stream) \in Nat
      BY <1>1, <2>1, <3>1
    <3>3. Len(SubSeq(stream, a + 1, a + b)) = b
      BY <3>2
    <3>4. QED
      BY <3>1, <3>3
  <2>3. ~(Len(SubSeq(stream, e + 1, e + h)) <= size)
    <3>1. ~(h <= size)
      BY <1>1, <2>1
    <3>2. QED
      BY <2>2, <3>1, Zenon
  <2>4. ~(e + h < e + 1)
    BY <1>1, <1>3, <2>1
  <2>5. QED
    BY <1>7, <2>3, <2>4 DEF Conforms, e, size
<1>12. QED
  BY <1>10, <1>11

(* A request in turn that keeps to the grammar is decided by the file.     *)
LEMMA ConformingIsDecidedByFile ==
  ASSUME TypeOK, AllDecidedFrom, InTurnOrRejected,
         NEW k \in DOMAIN announced, Conforms(k)
  PROVE  announced[k].decision.status \notin {400, 405, 431}
<1>1. k \in Nat \ {0}
  BY DEF TypeOK
<1>2. InTurn(k)
  BY <1>1, RejectedDoesNotConform DEF InTurnOrRejected
<1>3. /\ RequestEnd[k] \in Nat /\ RequestEnd[k - 1] \in Nat
      /\ RequestEnd[k] > RequestEnd[k - 1]
  <2>1. k \in 0..Len(stream) /\ k - 1 \in 0..Len(stream)
    BY <1>1, <1>2, HandlerAssumption, LenProperties DEF InTurn, TypeOK
  <2>2. QED
    BY <1>2, <2>1, RequestEndUnfolded DEF InTurn
<1>4. ~(RequestEnd[k] < RequestEnd[k - 1] + 1)
  BY <1>3
<1>5. WellFormed(announced[k].request, config) /\ IsPlain(announced[k].request)
  BY <1>2, <1>4 DEF InTurn, Conforms
<1>6. QED
  BY <1>5, PlainIsDecidedByFile DEF AllDecidedFrom

(* No request that keeps to the grammar and to the limits is refused,      *)
(* whatever segments it comes in, whatever was sent before it and whatever *)
(* is sent behind it: the buffer holds it, the framing hands the parser    *)
(* exactly its bytes, and the parser accepts all that the grammar allows.  *)
THEOREM PlainIsServed == Spec => []PlainRequestServed
<1>1. Init => AllDecidedFrom /\ InTurnOrRejected
  BY DEF Init, AllDecidedFrom, InTurnOrRejected
<1>2. IInv => TypeOK /\ RejectedOnlyIfOversize
  BY DEF IInv
<1>3. Spec => []InTurnOrRejected
  BY <1>1, <1>2, Invariance, TurnsHold, NextInTurnOrRejected, PTL DEF Spec
<1>4. Spec => []AllDecidedFrom
  BY <1>1, Invariance, NextDecided, PTL DEF Spec
<1>5. TypeOK /\ AllDecidedFrom /\ InTurnOrRejected => PlainRequestServed
  BY ConformingIsDecidedByFile DEF PlainRequestServed
<1>6. QED
  BY <1>2, <1>3, <1>4, <1>5, Invariance, PTL

=============================================================================
