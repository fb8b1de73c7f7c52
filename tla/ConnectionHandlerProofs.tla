----------------------- MODULE ConnectionHandlerProofs -----------------------
(***************************************************************************)
(* Proofs of safety properties of ConnectionHandler, for every alphabet,   *)
(* every set of client streams, every buffer size and every parser.        *)
(***************************************************************************)
EXTENDS ConnectionRefinement, HttpConnectionProofs

-----------------------------------------------------------------------------
(* The decision                                                            *)

(* An error is announced as the end of the connection.                     *)
LEMMA ErrorDecisionType ==
  ASSUME NEW status \in Status
  PROVE  /\ ErrorDecision(status) \in Decisions
         /\ ErrorDecision(status).keep_alive <=> ~ErrorDecision(status).close
  BY HttpAssumption DEF ErrorDecision, Decisions

(* The Connection header of a file says what happens to the connection.    *)
LEMMA FileDecisionType ==
  ASSUME NEW request, NEW size \in Nat
  PROVE  /\ FileDecision(request, size) \in Decisions
         /\ FileDecision(request, size).keep_alive
              <=> ~FileDecision(request, size).close
<1>1. http_close_requested(request) \in BOOLEAN
  BY Zenon DEF http_close_requested
<1>2. (request.method # << "HEAD" >>) \in BOOLEAN
  OBVIOUS
<1>3. QED
  BY <1>1, <1>2 DEF FileDecision, Decisions, Status

(* Whatever the parser and the file system say, http_prepare_response      *)
(* announces one of its decisions, and its Connection header agrees with   *)
(* close_connection.                                                       *)
LEMMA DecisionType ==
  ASSUME NEW request, NEW file \in FileAnswers
  PROVE  /\ http_prepare_response(request, file) \in Decisions
         /\ http_prepare_response(request, file).keep_alive
              <=> ~http_prepare_response(request, file).close
<1>1. file.size \in Nat
  <2>1. CASE file \in [errno : {"OK"}, size : FileSizes]
    <3>1. file.size \in FileSizes
      BY <2>1
    <3>2. QED
      BY <3>1, HandlerAssumption
  <2>2. CASE file \in [errno : FileErrors, size : {0}]
    BY <2>2
  <2>3. QED
    BY <2>1, <2>2 DEF FileAnswers
<1>2. FileErrorStatus(file.errno) \in Status
  BY DEF FileErrorStatus, Status
<1>3. Refusal(request) \in Status
  BY DEF Refusal, Status
<1> DEFINE Good(d) == d \in Decisions /\ (d.keep_alive <=> ~d.close)
<1>4. \A s \in Status : Good(ErrorDecision(s))
  BY ErrorDecisionType
<1>5. Good(FileDecision(request, file.size))
  BY <1>1, FileDecisionType
<1>6. \/ http_prepare_response(request, file)
           = ErrorDecision(Refusal(request))
      \/ http_prepare_response(request, file)
           = ErrorDecision(FileErrorStatus(file.errno))
      \/ http_prepare_response(request, file)
           = FileDecision(request, file.size)
  BY DEF http_prepare_response
<1>7. Good(http_prepare_response(request, file))
  BY <1>2, <1>3, <1>4, <1>5, <1>6
<1>8. QED
  BY <1>7

(* The response state prepared for a decision is well formed.              *)
LEMMA PreparedType ==
  ASSUME NEW d \in Decisions
  PROVE  PreparedResponse(d) \in Responses
<1>1. /\ d.content_length \in Nat /\ d.send_body \in BOOLEAN
      /\ HeadersLength \in Nat
  BY HeadersAssumption DEF Decisions
<1>2. FileFd(d) \in {NoFd, AFd}
  BY DEF FileFd
<1>3. QED
  BY <1>1, <1>2 DEF PreparedResponse, Responses

-----------------------------------------------------------------------------
(* Type correctness                                                        *)

(* The announcements stay a sequence of decisions.                         *)
LEMMA AnnouncedType ==
  ASSUME announced \in Seq(Announcements),
         NEW r \in Seq(Byte), NEW d \in Decisions
  PROVE  Append(announced, [request |-> r, decision |-> d])
           \in Seq(Announcements)
  BY DEF Announcements

(* An announcement goes to the end and leaves the earlier ones alone.      *)
LEMMA AppendedLast ==
  ASSUME NEW E, NEW s \in Seq(E), NEW e \in E
  PROVE  /\ Append(s, e) # << >>
         /\ Len(Append(s, e)) = Len(s) + 1
         /\ Append(s, e)[Len(Append(s, e))] = e
         /\ DOMAIN Append(s, e) = 1..Len(s) + 1
         /\ \A k \in 1..Len(s) : Append(s, e)[k] = s[k]
  OBVIOUS

(* A part of the response being sent is a sequence of wire units.          *)
LEMMA WireType ==
  ASSUME wire \in Seq([response : Nat, position : Nat]),
         announced \in Seq(Announcements),
         NEW from \in Nat, NEW n \in Nat
  PROVE  wire \o Slice(from, n) \in Seq([response : Nat, position : Nat])
<1>1. Len(announced) \in Nat
  OBVIOUS
<1>2. Slice(from, n) \in Seq([response : Nat, position : Nat])
  BY <1>1 DEF Slice
<1>3. QED
  BY <1>2

(* The initial states are well typed.                                      *)
LEMMA InitType == Init => TypeOK
<1> SUFFICES ASSUME Init PROVE TypeOK
  OBVIOUS
<1>1. stream \in Seq(Byte)
  BY HandlerAssumption DEF Init
<1>2. response \in Responses
  BY DEF Init, http_response_init, Responses
<1>3. peer_closed \in BOOLEAN /\ close_connection \in BOOLEAN
  BY Zenon DEF Init
<1>4. QED
  BY <1>1, <1>2, <1>3 DEF Init, TypeOK

(* The first n bytes recv takes, and what it leaves.                       *)
LEMMA InboundParts ==
  ASSUME TypeOK, NEW n \in Nat, n <= Len(inbound)
  PROVE  /\ SubSeq(inbound, 1, n) \in Seq(Byte)
         /\ SubSeq(inbound, n + 1, Len(inbound)) \in Seq(Byte)
         /\ Len(SubSeq(inbound, 1, n)) = n
         /\ SubSeq(inbound, 1, n) \o SubSeq(inbound, n + 1, Len(inbound))
              = inbound
<1>1. inbound \in Seq(Byte)
  BY DEF TypeOK
<1>2. n \in 0..Len(inbound)
  BY <1>1, LenProperties
<1>3. QED
  BY <1>1, <1>2, CutAndJoin

(* Steps that only end the connection, or move between the loops.          *)
Jump ==
  \/ ConnectionInit \/ ReceiveEOF \/ ReceiveFails \/ ConfigRefused
  \/ NoRequestReady \/ SendFileTruncated \/ SendFails
  \/ ErrorReplyEnds("sent") \/ ErrorReplyEnds("cut short")

(* They change pc and result alone.                                        *)
LEMMA JumpFrame ==
  ASSUME Jump, TypeOK
  PROVE  /\ UNCHANGED << environment, buffer, close_connection, response,
                         total_sent, open_files, history >>
         /\ pc' \in {"recv", "done"}
         /\ result' \in {result, "ok", "failed"}
         /\ pc' = "done" => \/ result' = "failed"
                            \/ peer_closed /\ inbound = << >>
                            \/ pc = "process" /\ close_connection
         /\ pc' = "recv" =>
              /\ pc = "init" \/ ~http_connection_request_ready(buffer)
              /\ pc \in {"init", "process"}
<1> USE DEF Leave
<1>1. CASE ConnectionInit
  BY <1>1 DEF ConnectionInit
<1>2. CASE ReceiveEOF
  BY <1>2 DEF ReceiveEOF
<1>3. CASE ReceiveFails
  BY <1>3 DEF ReceiveFails
<1>4. CASE ConfigRefused
  BY <1>4 DEF ConfigRefused
<1>5. CASE NoRequestReady
  BY <1>5 DEF NoRequestReady
<1>6. CASE SendFileTruncated
  BY <1>6 DEF SendFileTruncated
<1>7. CASE SendFails
  BY <1>7 DEF SendFails
<1>8. CASE ErrorReplyEnds("sent") \/ ErrorReplyEnds("cut short")
  BY <1>8 DEF ErrorReplyEnds
<1>9. QED
  BY <1>1, <1>2, <1>3, <1>4, <1>5, <1>6, <1>7, <1>8 DEF Jump

(* Progress in any of the three parts leaves a well-formed response.       *)
LEMMA ProgressType ==
  ASSUME NEW r \in Responses, NEW m \in Nat
  PROVE  /\ [r EXCEPT !.headers_sent = m] \in Responses
         /\ [r EXCEPT !.body_sent = m] \in Responses
         /\ [r EXCEPT !.file_offset = m] \in Responses
         /\ [r EXCEPT !.headers_sent = m].file_fd = r.file_fd
         /\ [r EXCEPT !.body_sent = m].file_fd = r.file_fd
         /\ [r EXCEPT !.file_offset = m].file_fd = r.file_fd
  BY DEF Responses

(* Steps that hand bytes to the socket.                                    *)
Transmit ==
  \/ \E n \in 1..HeadersLength : SendHeaders(n)
  \/ \E n \in 1..response.body_length : SendBody(n)
  \/ \E n \in 1..response.file_size : SendFile(n)
  \/ \E n \in 1..ErrorReplyLength : SendErrorReply(n)

(* They leave everything but the progress of the transmission alone.       *)
LEMMA TransmitFrame ==
  ASSUME Transmit, TypeOK
  PROVE  /\ UNCHANGED << environment, pc, buffer, close_connection,
                         open_files, result, taken, announced >>
         /\ pc \in {"send", "err"}
         /\ response' \in Responses
         /\ response'.file_fd = response.file_fd
         /\ total_sent' \in Nat
         /\ wire' \in Seq([response : Nat, position : Nat])
<1> USE DEF TypeOK
<1>0. HeadersLength \in Nat /\ ErrorBodyLength \in Nat
  BY HeadersAssumption, HttpAssumption
<1>1. ASSUME NEW n \in 1..HeadersLength, SendHeaders(n)
      PROVE  /\ response' \in Responses /\ response'.file_fd = response.file_fd
             /\ wire' \in Seq([response : Nat, position : Nat])
  <2>1. n \in Nat /\ response.headers_sent \in Nat
    BY <1>0, <1>1 DEF Responses
  <2>2. wire' \in Seq([response : Nat, position : Nat])
    BY <1>1, <2>1, WireType DEF SendHeaders
  <2>3. /\ response.headers_sent + n \in Nat
        /\ response' = [response EXCEPT !.headers_sent = response.headers_sent + n]
    BY <1>1, <2>1 DEF SendHeaders
  <2>4. QED
    BY <2>2, <2>3, ProgressType
<1>2. ASSUME NEW n \in 1..response.body_length, SendBody(n)
      PROVE  /\ response' \in Responses /\ response'.file_fd = response.file_fd
             /\ wire' \in Seq([response : Nat, position : Nat])
  <2>1. /\ n \in Nat /\ response.body_sent \in Nat
        /\ response.headers_length + response.body_sent \in Nat
    BY <1>2 DEF Responses
  <2>2. wire' \in Seq([response : Nat, position : Nat])
    BY <1>2, <2>1, WireType DEF SendBody
  <2>3. /\ response.body_sent + n \in Nat
        /\ response' = [response EXCEPT !.body_sent = response.body_sent + n]
    BY <1>2, <2>1 DEF SendBody
  <2>4. QED
    BY <2>2, <2>3, ProgressType
<1>3. ASSUME NEW n \in 1..response.file_size, SendFile(n)
      PROVE  /\ response' \in Responses /\ response'.file_fd = response.file_fd
             /\ wire' \in Seq([response : Nat, position : Nat])
  <2>1. /\ n \in Nat /\ response.file_offset \in Nat
        /\ response.headers_length + response.file_offset \in Nat
    BY <1>3 DEF Responses
  <2>2. wire' \in Seq([response : Nat, position : Nat])
    BY <1>3, <2>1, WireType DEF SendFile
  <2>3. /\ response.file_offset + n \in Nat
        /\ response' = [response EXCEPT !.file_offset = response.file_offset + n]
    BY <1>3, <2>1 DEF SendFile
  <2>4. QED
    BY <2>2, <2>3, ProgressType
<1>4. ASSUME NEW n \in 1..ErrorReplyLength, SendErrorReply(n)
      PROVE  /\ total_sent' \in Nat
             /\ wire' \in Seq([response : Nat, position : Nat])
  <2>1. n \in Nat /\ total_sent \in Nat
    BY <1>0, <1>4 DEF ErrorReplyLength
  <2>2. QED
    BY <1>4, <2>1, WireType DEF SendErrorReply
<1>5. QED
  BY <1>1, <1>2, <1>3, <1>4
     DEF Transmit, SendHeaders, SendBody, SendFile, SendErrorReply

(* The step relation, regrouped by what a step changes.                    *)
LEMMA NextSplit ==
  ASSUME Next
  PROVE  \/ Jump \/ Transmit
         \/ PeerCloses \/ FileResized
         \/ BufferFull \/ (\E n \in 1..Len(inbound) : Receive(n))
         \/ (\E file \in FileAnswers : Prepare(file)) \/ PrepareFails
         \/ FinishRequest \/ KilledBySIGPIPE \/ ConnectionDestroy
  BY DEF Next, ReceiveStep, LocalStep, OpenStep, PrepareStep, SendStep, Jump,
         Transmit

(* recv never returns more than http_connection_feed accepts, so the 431   *)
(* of a refused feed is dead code.                                         *)
LEMMA FeedAccepts ==
  ASSUME TypeOK, NEW n \in 1..Len(inbound), Receive(n)
  PROVE  /\ n \in Nat /\ n <= Len(inbound)
         /\ http_connection_feed_ok(buffer, config.http_buffer_size, n)
         /\ Len(buffer) + n <= config.http_buffer_size
<1>1. /\ config.http_buffer_size \in Nat /\ Len(buffer) \in Nat
      /\ Len(inbound) \in Nat /\ RecvBufferSize \in Nat
  <2>1. config \in [http_buffer_size : Nat \ {0}, http_max_headers : Nat,
                    http_header_name_max : Nat, http_header_value_max : Nat]
    BY HandlerAssumption DEF TypeOK
  <2>2. RecvBufferSize \in Nat
    BY HandlerAssumption
  <2>3. QED
    BY <2>1, <2>2, LenProperties DEF TypeOK
<1>2. n \in 1..receive_capacity /\ n <= Len(inbound)
  BY DEF Receive
<1>3. QED
  BY <1>1, <1>2 DEF receive_capacity, http_connection_buffer_space,
                    http_connection_feed_ok

(* Every step keeps the types; that open_files never becomes negative      *)
(* needs to know that a file to be closed is an open one.                  *)
LEMMA NextType == TypeOK /\ NoDescriptorLeak /\ [Next]_vars => TypeOK'
<1> SUFFICES ASSUME TypeOK, NoDescriptorLeak, [Next]_vars PROVE TypeOK'
  OBVIOUS
<1> USE DEF environment, process, history
<1>1. CASE Jump
  BY <1>1, JumpFrame DEF TypeOK
<1>2. CASE Transmit
  BY <1>2, TransmitFrame DEF TypeOK
<1>3. CASE PeerCloses
  BY <1>3 DEF PeerCloses, TypeOK
<1>4. CASE FileResized
  <2>1. disk_size' \in Nat
    BY <1>4, HandlerAssumption DEF FileResized
  <2>2. QED
    BY <1>4, <2>1 DEF FileResized, TypeOK
<1>5. CASE BufferFull
  <2>1. << >> \in Seq(Byte) /\ ErrorDecision(431) \in Decisions
    BY ErrorDecisionType DEF Status
  <2>2. announced' \in Seq(Announcements)
    BY <1>5, <2>1, AnnouncedType DEF TypeOK, BufferFull, StartErrorReply
  <2>3. QED
    BY <1>5, <2>2 DEF BufferFull, StartErrorReply, TypeOK
<1>6. ASSUME NEW n \in 1..Len(inbound), Receive(n)
      PROVE  TypeOK'
  <2>1. /\ SubSeq(inbound, 1, n) \in Seq(Byte)
        /\ SubSeq(inbound, n + 1, Len(inbound)) \in Seq(Byte)
    BY <1>6, FeedAccepts, InboundParts
  <2>2. buffer \o SubSeq(inbound, 1, n) \in Seq(Byte)
    BY <2>1, ConcatProperties DEF TypeOK
  <2>3. QED
    BY <1>6, <2>1, <2>2, FeedAccepts
       DEF Receive, http_connection_feed, TypeOK
<1>7. ASSUME NEW file \in FileAnswers, Prepare(file)
      PROVE  TypeOK'
  <2> DEFINE request == http_connection_request(buffer)
             decision == http_prepare_response(Parse(request, config), file)
  <2>1. request \in Seq(Byte)
    BY ConsumeKeepsTheRest DEF TypeOK
  <2>2. decision \in Decisions
    BY DecisionType
  <2>3. decision.content_length \in Nat /\ decision.close \in BOOLEAN
    BY <2>2 DEF Decisions
  <2>4. announced' \in Seq(Announcements)
    BY <1>7, <2>1, <2>2, AnnouncedType DEF TypeOK, Prepare
  <2>5. response' \in Responses
    BY <1>7, <2>2, PreparedType DEF Prepare
  <2>6. close_connection' \in BOOLEAN
    BY <1>7, Zenon DEF Prepare
  <2>7. open_files' \in Nat /\ disk_size' \in Nat
    BY <1>7, <2>3 DEF Prepare, TypeOK
  <2>8. QED
    BY <1>7, <2>4, <2>5, <2>6, <2>7 DEF Prepare, TypeOK
<1>8. CASE PrepareFails
  <2>1. http_response_init \in Responses
    BY DEF http_response_init, Responses
  <2>2. QED
    BY <1>8, <2>1 DEF PrepareFails, Leave, TypeOK
<1>9. CASE FinishRequest
  <2> DEFINE length == http_connection_request_length(buffer)
  <2>1. buffer' \in Seq(Byte)
    BY <1>9, ConsumeKeepsTheRest DEF FinishRequest, TypeOK
  <2>2. SubSeq(buffer, 1, length) \in Seq(Byte)
    BY ConsumeKeepsTheRest DEF http_connection_request, TypeOK
  <2>3. taken' \in Seq(Byte)
    BY <1>9, <2>2, ConcatProperties DEF FinishRequest, TypeOK
  <2>4. response' \in Responses
    BY <1>9 DEF FinishRequest, http_response_destroy, Responses, TypeOK
  <2>5. open_files' = 0
    BY <1>9 DEF FinishRequest, ClosedFiles, NoDescriptorLeak, TypeOK
  <2>6. QED
    BY <1>9, <2>1, <2>3, <2>4, <2>5 DEF FinishRequest, AfterRequest, TypeOK
<1>10. CASE KilledBySIGPIPE
  BY <1>10 DEF KilledBySIGPIPE, TypeOK
<1>11. CASE ConnectionDestroy
  <2>1. << >> \in Seq(Byte)
    OBVIOUS
  <2>2. close_connection' \in BOOLEAN
    BY <1>11, Zenon DEF ConnectionDestroy
  <2>3. QED
    BY <1>11, <2>1, <2>2 DEF ConnectionDestroy, TypeOK
<1>12. CASE UNCHANGED vars
  BY <1>12 DEF vars, TypeOK
<1>13. QED
  BY <1>1, <1>2, <1>3, <1>4, <1>5, <1>6, <1>7, <1>8, <1>9, <1>10, <1>11,
     <1>12, NextSplit

(* Every step keeps descriptors and responses in step.                     *)
LEMMA NextDescriptors ==
  TypeOK /\ NoDescriptorLeak /\ [Next]_vars => NoDescriptorLeak'
<1> SUFFICES ASSUME TypeOK, NoDescriptorLeak, [Next]_vars
             PROVE  NoDescriptorLeak'
  OBVIOUS
<1> USE DEF environment, process, history, NoDescriptorLeak
<1>1. CASE Jump
  BY <1>1, JumpFrame DEF TypeOK
<1>2. CASE Transmit
  BY <1>2, TransmitFrame DEF TypeOK
<1>3. CASE PeerCloses \/ FileResized
  BY <1>3 DEF PeerCloses, FileResized
<1>4. CASE BufferFull
  BY <1>4 DEF BufferFull, StartErrorReply
<1>5. ASSUME NEW n \in 1..Len(inbound), Receive(n)
      PROVE  NoDescriptorLeak'
  BY <1>5, FeedAccepts DEF Receive
<1>6. ASSUME NEW file \in FileAnswers, Prepare(file)
      PROVE  NoDescriptorLeak'
  BY <1>6 DEF Prepare, PreparedResponse, FileFd, NoFd, AFd
<1>7. CASE PrepareFails
  BY <1>7 DEF PrepareFails, Leave
<1>8. CASE FinishRequest
  BY <1>8 DEF FinishRequest, ClosedFiles, AfterRequest, TypeOK
<1>9. CASE KilledBySIGPIPE \/ ConnectionDestroy
  BY <1>9 DEF KilledBySIGPIPE, ConnectionDestroy
<1>10. CASE UNCHANGED vars
  BY <1>10 DEF vars
<1>11. QED
  BY <1>1, <1>2, <1>3, <1>4, <1>5, <1>6, <1>7, <1>8, <1>9, <1>10, NextSplit

-----------------------------------------------------------------------------
(* The stream                                                              *)

(* Every step keeps the stream whole and the buffer within bounds.         *)
LEMMA NextStream ==
  TypeOK /\ StreamConserved /\ [Next]_vars => StreamConserved'
<1> SUFFICES ASSUME TypeOK, StreamConserved, [Next]_vars
             PROVE  StreamConserved'
  OBVIOUS
<1> USE DEF environment, process, history, StreamConserved
<1>1. CASE Jump
  <2>1. pc # "exited"
    BY <1>1 DEF Jump, ConnectionInit, ReceiveEOF, ReceiveFails,
         ConfigRefused, NoRequestReady, SendFileTruncated, SendFails,
         ErrorReplyEnds
  <2>2. QED
    BY <1>1, <2>1, JumpFrame
<1>2. CASE Transmit
  BY <1>2, TransmitFrame
<1>3. CASE PeerCloses \/ FileResized
  BY <1>3 DEF PeerCloses, FileResized
<1>4. CASE BufferFull
  BY <1>4 DEF BufferFull
<1>5. ASSUME NEW n \in 1..Len(inbound), Receive(n)
      PROVE  StreamConserved'
  <2> DEFINE got == SubSeq(inbound, 1, n)
             left == SubSeq(inbound, n + 1, Len(inbound))
  <2>1. /\ got \in Seq(Byte) /\ left \in Seq(Byte)
        /\ Len(got) = n /\ got \o left = inbound
    BY <1>5, FeedAccepts, InboundParts
  <2>2. /\ buffer' = buffer \o got /\ inbound' = left
        /\ pc = "recv" /\ UNCHANGED << taken, stream, config >>
    BY <1>5, FeedAccepts DEF Receive, http_connection_feed
  <2> HIDE DEF got, left
  <2>3. taken' \o buffer' \o inbound' = stream'
    <3>1. taken \in Seq(Byte) /\ buffer \in Seq(Byte) /\ inbound \in Seq(Byte)
      BY DEF TypeOK
    <3>2. taken \o buffer \o inbound = stream
      BY <2>2
    <3>3. got \in Seq(Byte) /\ left \in Seq(Byte)
      BY <2>1
    <3>4. taken \o (buffer \o got) \o left = taken \o buffer \o (got \o left)
      <4>1. taken \o (buffer \o got) = (taken \o buffer) \o got
        BY <3>1, <3>3
      <4>2. taken \o buffer \in Seq(Byte)
        BY <3>1
      <4>3. ((taken \o buffer) \o got) \o left = (taken \o buffer) \o (got \o left)
        BY <3>3, <4>2
      <4>4. QED
        BY <4>1, <4>3
    <3>5. QED
      BY <2>1, <2>2, <3>2, <3>4
  <2>4. Len(buffer') = Len(buffer) + n
    BY <2>1, <2>2, ConcatProperties DEF TypeOK
  <2>5. QED
    BY <1>5, <2>2, <2>3, <2>4, FeedAccepts
<1>6. ASSUME NEW file \in FileAnswers, Prepare(file)
      PROVE  StreamConserved'
  BY <1>6 DEF Prepare
<1>7. CASE PrepareFails
  BY <1>7 DEF PrepareFails
<1>8. CASE FinishRequest
  <2> DEFINE request == http_connection_request(buffer)
             rest == http_connection_consume(buffer,
                       http_connection_request_length(buffer))
  <2>1. /\ request \in Seq(Byte) /\ rest \in Seq(Byte)
        /\ request \o rest = buffer /\ Len(rest) <= Len(buffer)
    BY ConsumeKeepsTheRest DEF TypeOK
  <2>2. /\ buffer' = rest /\ taken' = taken \o request
        /\ pc = "send" /\ UNCHANGED << inbound, stream, config >>
    BY <1>8 DEF FinishRequest, http_connection_request
  <2> HIDE DEF request, rest
  <2>3. taken' \o buffer' \o inbound' = stream'
    <3>1. taken \in Seq(Byte) /\ buffer \in Seq(Byte) /\ inbound \in Seq(Byte)
      BY DEF TypeOK
    <3>2. taken \o buffer \o inbound = stream
      BY <2>2
    <3>3. request \in Seq(Byte) /\ rest \in Seq(Byte)
      BY <2>1
    <3>4. (taken \o request) \o rest = taken \o (request \o rest)
      BY <3>1, <3>3
    <3>5. QED
      BY <2>1, <2>2, <3>2, <3>4
  <2>4. Len(buffer') <= config'.http_buffer_size
    <3>1. /\ Len(rest) \in Nat /\ Len(buffer) \in Nat
          /\ config.http_buffer_size \in Nat
      BY <2>1, LenProperties, HandlerAssumption DEF TypeOK
    <3>2. QED
      BY <2>1, <2>2, <3>1
  <2>5. QED
    BY <2>3, <2>4
<1>9. CASE KilledBySIGPIPE \/ ConnectionDestroy
  BY <1>9 DEF KilledBySIGPIPE, ConnectionDestroy
<1>10. CASE UNCHANGED vars
  BY <1>10 DEF vars
<1>11. QED
  BY <1>1, <1>2, <1>3, <1>4, <1>5, <1>6, <1>7, <1>8, <1>9, <1>10, NextSplit

-----------------------------------------------------------------------------
(* What the control state implies about the rest                           *)

(* close_connection is set exactly by the decision that announces it.      *)
Promise ==
  /\ pc \in {"init", "recv", "process"} => ~close_connection
  /\ pc = "send" =>
       /\ announced # << >>
       /\ announced[Len(announced)].decision.keep_alive <=> ~close_connection
  /\ pc = "init" => buffer = << >> /\ announced = << >>

(* Every step keeps it.                                                    *)
LEMMA NextPromise ==
  TypeOK /\ Promise /\ [Next]_vars => Promise'
<1> SUFFICES ASSUME TypeOK, Promise, [Next]_vars PROVE Promise'
  OBVIOUS
<1> USE DEF environment, process, history, Promise
<1>1. CASE Jump
  BY <1>1, JumpFrame
<1>2. CASE Transmit
  BY <1>2, TransmitFrame
<1>3. CASE PeerCloses \/ FileResized
  BY <1>3 DEF PeerCloses, FileResized
<1>4. CASE BufferFull
  BY <1>4 DEF BufferFull, StartErrorReply
<1>5. ASSUME NEW n \in 1..Len(inbound), Receive(n)
      PROVE  Promise'
  BY <1>5, FeedAccepts DEF Receive
<1>6. ASSUME NEW file \in FileAnswers, Prepare(file)
      PROVE  Promise'
  <2> DEFINE request == http_connection_request(buffer)
             decision == http_prepare_response(Parse(request, config), file)
             entry == [request |-> request, decision |-> decision]
  <2>1. request \in Seq(Byte) /\ decision \in Decisions
    BY ConsumeKeepsTheRest, DecisionType DEF TypeOK
  <2>2. /\ announced' = Append(announced, entry)
        /\ pc = "process" /\ pc' = "send"
        /\ close_connection' <=> close_connection \/ decision.close
    BY <1>6 DEF Prepare
  <2>3. decision.keep_alive <=> ~decision.close
    BY DecisionType
  <2>4. entry.decision = decision
    OBVIOUS
  <2>5. entry \in Announcements
    BY <2>1 DEF Announcements
  <2> HIDE DEF entry, decision, request
  <2>6. announced' # << >> /\ announced'[Len(announced')] = entry
    <3>1. announced \in Seq(Announcements)
      BY DEF TypeOK
    <3>2. /\ Append(announced, entry) # << >>
          /\ Append(announced, entry)[Len(Append(announced, entry))] = entry
      BY <2>5, <3>1, AppendedLast
    <3>3. QED
      BY <2>2, <3>2
  <2>7. announced'[Len(announced')].decision.keep_alive <=> ~close_connection'
    BY <2>2, <2>3, <2>4, <2>6
  <2>8. QED
    BY <2>2, <2>6, <2>7
<1>7. CASE PrepareFails
  BY <1>7 DEF PrepareFails, Leave
<1>8. CASE FinishRequest
  BY <1>8 DEF FinishRequest, AfterRequest
<1>9. CASE KilledBySIGPIPE \/ ConnectionDestroy
  BY <1>9 DEF KilledBySIGPIPE, ConnectionDestroy
<1>10. CASE UNCHANGED vars
  BY <1>10 DEF vars
<1>11. QED
  BY <1>1, <1>2, <1>3, <1>4, <1>5, <1>6, <1>7, <1>8, <1>9, <1>10, NextSplit

(* Every step that leads to recv leaves no complete request behind.        *)
LEMMA NextStranded ==
  TypeOK /\ Promise /\ NoRequestStranded /\ [Next]_vars => NoRequestStranded'
<1> SUFFICES ASSUME TypeOK, Promise, NoRequestStranded, [Next]_vars
             PROVE  NoRequestStranded'
  OBVIOUS
<1> USE DEF environment, process, history, NoRequestStranded
<1>1. CASE Jump
  <2>1. ~http_connection_request_ready(<< >>)
    <3>1. << >> \in Seq(Byte) /\ Len(<< >>) = 0
      OBVIOUS
    <3>2. ScanRange(<< >>) = {}
      BY <3>1 DEF ScanRange
    <3>3. QED
      BY <3>1, <3>2, HeaderEnd DEF http_connection_request_ready
  <2>2. QED
    BY <1>1, <2>1, JumpFrame DEF Promise
<1>2. CASE Transmit
  BY <1>2, TransmitFrame
<1>3. CASE PeerCloses \/ FileResized
  BY <1>3 DEF PeerCloses, FileResized
<1>4. CASE BufferFull
  BY <1>4 DEF BufferFull, StartErrorReply
<1>5. ASSUME NEW n \in 1..Len(inbound), Receive(n)
      PROVE  NoRequestStranded'
  BY <1>5, FeedAccepts DEF Receive
<1>6. ASSUME NEW file \in FileAnswers, Prepare(file)
      PROVE  NoRequestStranded'
  BY <1>6 DEF Prepare
<1>7. CASE PrepareFails
  BY <1>7 DEF PrepareFails, Leave
<1>8. CASE FinishRequest
  BY <1>8 DEF FinishRequest, AfterRequest
<1>9. CASE KilledBySIGPIPE \/ ConnectionDestroy
  BY <1>9 DEF KilledBySIGPIPE, ConnectionDestroy
<1>10. CASE UNCHANGED vars
  BY <1>10 DEF vars
<1>11. QED
  BY <1>1, <1>2, <1>3, <1>4, <1>5, <1>6, <1>7, <1>8, <1>9, <1>10, NextSplit

(* Every step keeps the promise of the Connection header.                  *)
LEMMA NextHonoured ==
  TypeOK /\ Promise /\ ConnectionHeaderHonoured /\ [Next]_vars
    => ConnectionHeaderHonoured'
<1> SUFFICES ASSUME TypeOK, Promise, ConnectionHeaderHonoured, [Next]_vars
             PROVE  ConnectionHeaderHonoured'
  OBVIOUS
<1> USE DEF environment, process, history, ConnectionHeaderHonoured
<1>0. /\ announced \in Seq(Announcements) /\ Len(announced) \in Nat
      /\ DOMAIN announced = 1..Len(announced)
  BY DEF TypeOK
<1>1. CASE Jump
  BY <1>0, <1>1, JumpFrame DEF Promise
<1>2. CASE Transmit
  BY <1>2, TransmitFrame
<1>3. CASE PeerCloses \/ FileResized
  BY <1>3 DEF PeerCloses, FileResized
<1>4. ASSUME pc \in {"recv", "process"}, pc' \in {"send", "err"},
             NEW entry \in Announcements, announced' = Append(announced, entry)
      PROVE  ConnectionHeaderHonoured'
  <2>1. \A k \in 1..Len(announced) : announced[k].decision.keep_alive
    BY <1>0, <1>4
  <2>2. /\ DOMAIN announced' = 1..Len(announced) + 1
        /\ Len(announced') = Len(announced) + 1
        /\ \A k \in 1..Len(announced) : announced'[k] = announced[k]
    BY <1>0, <1>4, AppendedLast
  <2>3. QED
    BY <1>0, <1>4, <2>1, <2>2
<1>5. CASE BufferFull
  <2> DEFINE entry == [request |-> << >>, decision |-> ErrorDecision(431)]
  <2>1. entry \in Announcements
    BY ErrorDecisionType DEF Announcements, Status
  <2>2. /\ announced' = Append(announced, entry)
        /\ pc = "recv" /\ pc' = "err"
    BY <1>5 DEF BufferFull, StartErrorReply
  <2> HIDE DEF entry
  <2>3. QED
    BY <1>4, <2>1, <2>2
<1>6. ASSUME NEW n \in 1..Len(inbound), Receive(n)
      PROVE  ConnectionHeaderHonoured'
  <2>1. pc = "recv" /\ pc' = "process" /\ announced' = announced
    BY <1>6, FeedAccepts DEF Receive
  <2>2. QED
    BY <2>1
<1>7. ASSUME NEW file \in FileAnswers, Prepare(file)
      PROVE  ConnectionHeaderHonoured'
  <2> DEFINE request == http_connection_request(buffer)
             decision == http_prepare_response(Parse(request, config), file)
             entry == [request |-> request, decision |-> decision]
  <2>1. request \in Seq(Byte) /\ decision \in Decisions
    BY ConsumeKeepsTheRest, DecisionType DEF TypeOK
  <2>2. entry \in Announcements
    BY <2>1 DEF Announcements
  <2>3. /\ announced' = Append(announced, entry)
        /\ pc = "process" /\ pc' = "send"
    BY <1>7 DEF Prepare
  <2> HIDE DEF entry
  <2>4. QED
    BY <1>4, <2>2, <2>3
<1>8. CASE PrepareFails
  BY <1>8 DEF PrepareFails, Leave
<1>9. CASE FinishRequest
  BY <1>0, <1>9 DEF FinishRequest, AfterRequest, Promise
<1>10. CASE KilledBySIGPIPE \/ ConnectionDestroy
  BY <1>10 DEF KilledBySIGPIPE, ConnectionDestroy
<1>11. CASE UNCHANGED vars
  BY <1>11 DEF vars
<1>12. QED
  BY <1>1, <1>2, <1>3, <1>5, <1>6, <1>7, <1>8, <1>9, <1>10, <1>11, NextSplit

(* Every step keeps a 431 justified: when the buffer is full it is the     *)
(* first http_buffer_size bytes of what the client has not had answered.   *)
LEMMA NextOversize ==
  /\ TypeOK /\ StreamConserved /\ NoRequestStranded /\ RejectedOnlyIfOversize
  /\ [Next]_vars
  => RejectedOnlyIfOversize'
<1> SUFFICES ASSUME TypeOK, StreamConserved, NoRequestStranded,
                    RejectedOnlyIfOversize, [Next]_vars
             PROVE  RejectedOnlyIfOversize'
  OBVIOUS
<1> USE DEF environment, process, history
<1>1. CASE UNCHANGED << pc, config, stream, taken >>
  BY <1>1 DEF RejectedOnlyIfOversize, Unanswered
<1>2. CASE pc' # "err"
  BY <1>2 DEF RejectedOnlyIfOversize
<1>3. CASE BufferFull
  <2> DEFINE size == config.http_buffer_size
  <2>1. /\ taken \in Seq(Byte) /\ buffer \in Seq(Byte)
        /\ inbound \in Seq(Byte)
    BY DEF TypeOK
  <2>2. /\ pc = "recv" /\ receive_capacity = 0
        /\ UNCHANGED << config, stream, taken >>
    BY <1>3 DEF BufferFull
  <2>3. Len(buffer) = size
    <3>1. size \in Nat /\ Len(buffer) \in Nat /\ RecvBufferSize \in Nat \ {0}
      BY <2>1, LenProperties, HandlerAssumption DEF TypeOK
    <3>2. QED
      BY <2>2, <3>1 DEF receive_capacity, http_connection_buffer_space
  <2>4. Unanswered = buffer \o inbound
    <3>1. buffer \o inbound \in Seq(Byte)
      BY <2>1
    <3>2. taken \o (buffer \o inbound) = taken \o buffer \o inbound
      BY <2>1
    <3>3. stream = taken \o (buffer \o inbound)
      BY <2>2, <3>2 DEF StreamConserved
    <3>4. QED
      BY <2>1, <3>1, <3>3, Pieces DEF Unanswered
  <2>5. SubSeq(Unanswered, 1, size) = buffer
    BY <2>1, <2>3, <2>4, Pieces
  <2>6. Len(Unanswered) >= size
    BY <2>1, <2>3, <2>4
  <2>7. ~http_request_complete(buffer)
    BY <2>2 DEF NoRequestStranded, http_connection_request_ready
  <2>8. Unanswered' = Unanswered
    BY <2>2 DEF Unanswered
  <2>9. QED
    BY <2>2, <2>5, <2>6, <2>7, <2>8 DEF RejectedOnlyIfOversize
<1>4. CASE Jump
  BY <1>2, <1>4, JumpFrame
<1>5. CASE Transmit
  BY <1>1, <1>5, TransmitFrame
<1>6. CASE PeerCloses \/ FileResized
  BY <1>1, <1>6 DEF PeerCloses, FileResized
<1>7. ASSUME NEW n \in 1..Len(inbound), Receive(n)
      PROVE  RejectedOnlyIfOversize'
  BY <1>2, <1>7, FeedAccepts DEF Receive
<1>8. ASSUME NEW file \in FileAnswers, Prepare(file)
      PROVE  RejectedOnlyIfOversize'
  BY <1>2, <1>8 DEF Prepare
<1>9. CASE PrepareFails \/ FinishRequest
  BY <1>2, <1>9 DEF PrepareFails, Leave, FinishRequest, AfterRequest
<1>10. CASE KilledBySIGPIPE \/ ConnectionDestroy
  BY <1>2, <1>10 DEF KilledBySIGPIPE, ConnectionDestroy
<1>11. CASE UNCHANGED vars
  BY <1>1, <1>11 DEF vars
<1>12. QED
  BY <1>3, <1>4, <1>5, <1>6, <1>7, <1>8, <1>9, <1>10, <1>11, NextSplit

-----------------------------------------------------------------------------
(* The theorems                                                            *)

(* The inductive invariant.                                                *)
IInv ==
  /\ TypeOK
  /\ NoDescriptorLeak
  /\ StreamConserved
  /\ Promise
  /\ NoRequestStranded
  /\ ConnectionHeaderHonoured
  /\ RejectedOnlyIfOversize

(* The initial states satisfy the invariant.                               *)
LEMMA InitInv == Init => IInv
<1> SUFFICES ASSUME Init PROVE IInv
  OBVIOUS
<1>1. TypeOK
  BY InitType
<1>2. NoDescriptorLeak /\ NoRequestStranded /\ RejectedOnlyIfOversize
  BY DEF Init, NoDescriptorLeak, NoRequestStranded, RejectedOnlyIfOversize
<1>3. Promise /\ ConnectionHeaderHonoured
  BY DEF Init, Promise, ConnectionHeaderHonoured
<1>4. StreamConserved
  <2>1. stream \in Seq(Byte) /\ << >> \in Seq(Byte) /\ Len(<< >>) = 0
    BY HandlerAssumption DEF Init
  <2>2. << >> \o << >> \o stream = stream
    BY <2>1
  <2>3. config.http_buffer_size \in Nat
    BY HandlerAssumption DEF Init
  <2>4. QED
    BY <2>1, <2>2, <2>3 DEF Init, StreamConserved
<1>5. QED
  BY <1>1, <1>2, <1>3, <1>4 DEF IInv

(* The invariant is inductive.                                             *)
THEOREM Invariance == Spec => []IInv
<1>1. IInv /\ [Next]_vars => IInv'
  BY NextType, NextDescriptors, NextStream, NextPromise, NextStranded,
     NextHonoured, NextOversize DEF IInv
<1>2. QED
  BY InitInv, <1>1, PTL DEF Spec

(* Type correctness; in particular no descriptor is closed twice.          *)
THEOREM TypeCorrect == Spec => []TypeOK
<1>1. IInv => TypeOK
  BY DEF IInv
<1>2. QED
  BY <1>1, Invariance, PTL

(* For every stream, buffer size and segmentation, no byte of the client   *)
(* is lost, repeated or reordered on its way through the buffer.           *)
THEOREM StreamIsConserved == Spec => []StreamConserved
<1>1. IInv => StreamConserved
  BY DEF IInv
<1>2. QED
  BY <1>1, Invariance, PTL

(* The child never waits for more bytes with a complete request in hand.   *)
THEOREM NothingStranded == Spec => []NoRequestStranded
<1>1. IInv => NoRequestStranded
  BY DEF IInv
<1>2. QED
  BY <1>1, Invariance, PTL

(* Only a request that does not fit the buffer is rejected for its size.   *)
THEOREM RejectionJustified == Spec => []RejectedOnlyIfOversize
<1>1. IInv => RejectedOnlyIfOversize
  BY DEF IInv
<1>2. QED
  BY <1>1, Invariance, PTL

(* What the Connection headers of the responses announce is what happens.  *)
THEOREM ConnectionHeaderIsHonoured == Spec => []ConnectionHeaderHonoured
<1>1. IInv => ConnectionHeaderHonoured
  BY DEF IInv
<1>2. QED
  BY <1>1, Invariance, PTL

(* A connection of any length never holds more than one served file open,  *)
(* and none between two requests.                                          *)
THEOREM NoLeak == Spec => []NoDescriptorLeak
<1>1. IInv => NoDescriptorLeak
  BY DEF IInv
<1>2. QED
  BY <1>1, Invariance, PTL

-----------------------------------------------------------------------------
(* The wire, as a function of the announcements a and the units w          *)

Units == [response : Nat, position : Nat]

Unit(response_index, offset) ==
  [response |-> response_index, position |-> offset]

(* One byte of the wire is where the byte before it says.                  *)
InPlace(a, w, i) ==
  /\ w[i].response \in DOMAIN a
  /\ w[i].position \in 1..ResponseLength(a[w[i].response].decision)
  /\ IF i = 1
     THEN w[i] = Unit(1, 1)
     ELSE IF w[i - 1].position
               = ResponseLength(a[w[i - 1].response].decision)
          THEN w[i] = Unit(w[i - 1].response + 1, 1)
          ELSE w[i] = Unit(w[i - 1].response, w[i - 1].position + 1)

(* The wire ends with n bytes of the last announced response.              *)
EndsAt(a, w, n) ==
  IF n # 0
  THEN w # << >> /\ w[Len(w)] = Unit(Len(a), n)
  ELSE IF Len(a) = 1
       THEN w = << >>
       ELSE /\ Len(a) > 1 /\ w # << >>
            /\ w[Len(w)] = Unit(Len(a) - 1,
                                ResponseLength(a[Len(a) - 1].decision))

(* WireInOrder, position by position.                                      *)
LEMMA WireByPosition ==
  WireInOrder <=> \A i \in DOMAIN wire : InPlace(announced, wire, i)
  BY DEF WireInOrder, InPlace, Unit

(* The length of a response is a number, and no response is empty.         *)
LEMMA LengthType ==
  ASSUME NEW d \in Decisions
  PROVE  /\ ResponseLength(d) \in Nat
         /\ ResponseLength(d) > 0
<1>1. d.content_length \in Nat
  BY DEF Decisions
<1>2. HeadersLength \in Nat /\ HeadersLength > 0
  BY HeadersAssumption
<1>3. \/ ResponseLength(d) = HeadersLength + d.content_length
      \/ ResponseLength(d) = HeadersLength + 0
  BY DEF ResponseLength
<1>4. QED
  BY <1>1, <1>2, <1>3

(* Every announcement carries a decision.                                  *)
LEMMA AnnouncedDecision ==
  ASSUME NEW a \in Seq(Announcements), NEW k \in 1..Len(a)
  PROVE  a[k].decision \in Decisions
<1>1. a[k] \in Announcements
  OBVIOUS
<1>2. QED
  BY <1>1 DEF Announcements

(* The next bytes of the last response keep the wire in order, if they     *)
(* start where the bytes before them ended and stop at its length.         *)
LEMMA SliceInPlace ==
  ASSUME NEW a \in Seq(Announcements), a # << >>,
         NEW w \in Seq(Units),
         NEW from \in Nat, NEW n \in Nat, n > 0,
         from + n <= ResponseLength(a[Len(a)].decision),
         EndsAt(a, w, from),
         \A i \in DOMAIN w : InPlace(a, w, i)
  PROVE  LET new == w \o [i \in 1..n |-> Unit(Len(a), from + i)]
         IN  /\ \A i \in DOMAIN new : InPlace(a, new, i)
             /\ EndsAt(a, new, from + n)
<1> DEFINE tail == [i \in 1..n |-> Unit(Len(a), from + i)]
           new == w \o tail
<1>1. Len(a) \in Nat /\ Len(a) > 0 /\ Len(w) \in Nat
  OBVIOUS
<1>2. ResponseLength(a[Len(a)].decision) \in Nat
  BY <1>1, LengthType, AnnouncedDecision
<1>3. tail \in Seq(Units) /\ Len(tail) = n
  BY <1>1 DEF Units, Unit
<1>4. \A i \in 1..n : tail[i] = Unit(Len(a), from + i)
  OBVIOUS
<1> HIDE DEF tail
<1>5. /\ new \in Seq(Units) /\ Len(new) = Len(w) + n
      /\ DOMAIN new = 1..Len(w) + n
      /\ \A i \in 1..Len(w) : new[i] = w[i]
  BY <1>1, <1>3, SMTT(30)
<1>6. \A i \in 1..n : new[Len(w) + i] = Unit(Len(a), from + i)
  BY <1>1, <1>3, <1>4
<1> HIDE DEF new
<1>7. ASSUME NEW i \in 1..Len(w)
      PROVE  InPlace(a, new, i)
  <2>1. InPlace(a, w, i)
    OBVIOUS
  <2>2. new[i] = w[i] /\ (i # 1 => new[i - 1] = w[i - 1])
    BY <1>1, <1>5
  <2>3. QED
    BY <2>1, <2>2 DEF InPlace
<1>8. ASSUME NEW j \in 1..n
      PROVE  InPlace(a, new, Len(w) + j)
  <2> DEFINE i == Len(w) + j
  <2>1. new[i] = Unit(Len(a), from + j)
    BY <1>6
  <2>2. /\ new[i].response \in DOMAIN a
        /\ new[i].position \in 1..ResponseLength(a[new[i].response].decision)
    BY <1>1, <1>2, <2>1 DEF Unit
  <2>3. CASE j > 1
    <3>1. new[Len(w) + (j - 1)] = Unit(Len(a), from + (j - 1))
      BY <1>6, <2>3
    <3>2. i - 1 = Len(w) + (j - 1) /\ i # 1
      BY <1>1, <2>3
    <3>3. /\ new[i - 1].response = Len(a)
          /\ new[i - 1].position = from + (j - 1)
      BY <3>1, <3>2 DEF Unit
    <3>4. from + (j - 1) # ResponseLength(a[Len(a)].decision)
      BY <1>2
    <3>5. from + (j - 1) + 1 = from + j
      OBVIOUS
    <3>6. QED
      BY <2>1, <2>2, <3>2, <3>3, <3>4, <3>5 DEF InPlace
  <2>4. CASE j = 1 /\ from # 0
    <3>1. w # << >> /\ w[Len(w)] = Unit(Len(a), from)
      BY <2>4 DEF EndsAt
    <3>2. i - 1 = Len(w) /\ i # 1 /\ Len(w) \in 1..Len(w)
      BY <1>1, <2>4, <3>1
    <3>3. /\ new[i - 1].response = Len(a)
          /\ new[i - 1].position = from
      BY <1>5, <3>1, <3>2 DEF Unit
    <3>4. from # ResponseLength(a[Len(a)].decision)
      BY <1>2
    <3>5. QED
      BY <2>1, <2>2, <2>4, <3>2, <3>3, <3>4 DEF InPlace
  <2>5. CASE j = 1 /\ from = 0 /\ Len(a) = 1
    <3>1. w = << >>
      BY <2>5 DEF EndsAt
    <3>2. i = 1 /\ from + j = 1
      BY <2>5, <3>1
    <3>3. QED
      BY <2>1, <2>2, <2>5, <3>2 DEF InPlace
  <2>6. CASE j = 1 /\ from = 0 /\ Len(a) # 1
    <3>1. /\ w # << >>
          /\ w[Len(w)] = Unit(Len(a) - 1,
                              ResponseLength(a[Len(a) - 1].decision))
      BY <2>6 DEF EndsAt
    <3>2. i - 1 = Len(w) /\ i # 1 /\ Len(w) \in 1..Len(w)
      BY <1>1, <2>6, <3>1
    <3>3. new[i - 1] = Unit(Len(a) - 1,
                            ResponseLength(a[Len(a) - 1].decision))
      BY <1>5, <3>1, <3>2
    <3>4. /\ new[i - 1].response = Len(a) - 1
          /\ new[i - 1].position = ResponseLength(a[Len(a) - 1].decision)
      BY <3>3 DEF Unit
    <3>5. Len(a) - 1 + 1 = Len(a) /\ from + j = 1
      BY <1>1, <2>6
    <3>6. QED
      BY <2>1, <2>2, <3>2, <3>4, <3>5 DEF InPlace
  <2>7. QED
    BY <1>1, <2>3, <2>4, <2>5, <2>6
<1>9. \A i \in DOMAIN new : InPlace(a, new, i)
  <2>1. ASSUME NEW i \in DOMAIN new
        PROVE  InPlace(a, new, i)
    <3>1. CASE i \in 1..Len(w)
      BY <1>7, <3>1
    <3>2. CASE i \notin 1..Len(w)
      <4>1. i - Len(w) \in 1..n /\ Len(w) + (i - Len(w)) = i
        BY <1>1, <1>5, <3>2
      <4>2. QED
        BY <1>8, <4>1
    <3>3. QED
      BY <3>1, <3>2
  <2>2. QED
    BY <2>1
<1>10. EndsAt(a, new, from + n)
  <2>1. new # << >> /\ from + n # 0 /\ n \in 1..n
    BY <1>1, <1>5
  <2>2. new[Len(new)] = Unit(Len(a), from + n)
    BY <1>5, <1>6, <2>1
  <2>3. QED
    BY <2>1, <2>2 DEF EndsAt
<1>11. QED
  BY <1>9, <1>10 DEF new, tail

(* Announcing another response when the last one is out to its last byte   *)
(* leaves the wire in order, with nothing of the new response on it.       *)
LEMMA AnnouncementInPlace ==
  ASSUME NEW a \in Seq(Announcements), NEW e \in Announcements,
         NEW w \in Seq(Units),
         a = << >> => w = << >>,
         a # << >> => EndsAt(a, w, ResponseLength(a[Len(a)].decision)),
         \A i \in DOMAIN w : InPlace(a, w, i)
  PROVE  /\ \A i \in DOMAIN w : InPlace(Append(a, e), w, i)
         /\ EndsAt(Append(a, e), w, 0)
<1> DEFINE b == Append(a, e)
<1>1. /\ Len(b) = Len(a) + 1 /\ DOMAIN b = 1..Len(a) + 1
      /\ \A k \in 1..Len(a) : b[k] = a[k]
      /\ Len(a) \in Nat /\ Len(w) \in Nat /\ DOMAIN w = 1..Len(w)
      /\ DOMAIN a = 1..Len(a)
  BY AppendedLast
<1> HIDE DEF b
<1>2. ASSUME NEW i \in DOMAIN w
      PROVE  InPlace(b, w, i)
  <2>1. InPlace(a, w, i)
    OBVIOUS
  <2>2. w[i].response \in 1..Len(a) /\ b[w[i].response] = a[w[i].response]
    BY <1>1, <2>1 DEF InPlace
  <2>3. CASE i = 1
    BY <1>1, <2>1, <2>2, <2>3 DEF InPlace
  <2>4. CASE i # 1
    <3>1. i - 1 \in DOMAIN w
      BY <1>1, <2>4
    <3>2. InPlace(a, w, i - 1)
      BY <3>1
    <3>3. b[w[i - 1].response] = a[w[i - 1].response]
      BY <1>1, <3>2 DEF InPlace
    <3>4. QED
      BY <1>1, <2>1, <2>2, <2>4, <3>3 DEF InPlace
  <2>5. QED
    BY <2>3, <2>4
<1>3. EndsAt(b, w, 0)
  <2>1. CASE a = << >>
    BY <1>1, <2>1 DEF EndsAt
  <2>2. CASE a # << >>
    <3>1. Len(a) \in 1..Len(a) /\ Len(b) - 1 = Len(a) /\ Len(b) # 1
      BY <1>1, <2>2
    <3>2. ResponseLength(a[Len(a)].decision) # 0
      BY <3>1, LengthType, AnnouncedDecision
    <3>3. /\ w # << >>
          /\ w[Len(w)] = Unit(Len(a), ResponseLength(a[Len(a)].decision))
      BY <2>2, <3>2 DEF EndsAt
    <3>4. QED
      BY <1>1, <3>1, <3>3 DEF EndsAt
  <2>3. QED
    BY <2>1, <2>2
<1>4. QED
  BY <1>2, <1>3 DEF b

-----------------------------------------------------------------------------
(* The progress of a transmission                                          *)

LastDecision == announced[Len(announced)].decision

(* The bytes of the response that send and sendfile have accepted.         *)
SentOf(r) == r.headers_sent + r.body_sent + r.file_offset

(* The response state transmits decision d and is ahead of itself in no    *)
(* part: a later part has not begun before the one before it is out.       *)
Underway(r, d) ==
  /\ r \in Responses /\ d \in Decisions
  /\ r.headers_length = HeadersLength
  /\ r.send_body = d.send_body
  /\ r.body_length = (IF d.file THEN 0 ELSE d.content_length)
  /\ r.file_size = (IF d.file THEN d.content_length ELSE 0)
  /\ r.file_fd = FileFd(d)
  /\ r.headers_sent <= r.headers_length
  /\ r.body_sent <= r.body_length
  /\ r.file_offset <= r.file_size
  /\ SendingHeaders(r) \/ ~r.send_body => r.body_sent = 0 /\ r.file_offset = 0

(* The control state says how much of the last response is on the wire.    *)
Progress ==
  /\ announced = << >> => wire = << >>
  /\ pc \in {"init", "recv", "process"} => Delivered
  /\ pc = "send" =>
       /\ announced # << >>
       /\ Underway(response, LastDecision)
       /\ EndsAt(announced, wire, SentOf(response))
  /\ pc = "err" =>
       /\ announced # << >>
       /\ LastDecision = ErrorDecision(431)
       /\ total_sent <= ErrorReplyLength
       /\ EndsAt(announced, wire, total_sent)

(* Delivered, as a position on the wire.                                   *)
LEMMA DeliveredAsEnd ==
  ASSUME TypeOK
  PROVE  Delivered <=>
           (announced # << >>
              => EndsAt(announced, wire, ResponseLength(LastDecision)))
<1>1. CASE announced = << >>
  BY <1>1 DEF Delivered
<1>2. CASE announced # << >>
  <2>1. announced \in Seq(Announcements) /\ Len(announced) \in 1..Len(announced)
    BY <1>2 DEF TypeOK
  <2>2. ResponseLength(LastDecision) # 0
    BY <2>1, LengthType, AnnouncedDecision DEF LastDecision
  <2>3. QED
    BY <1>2, <2>2 DEF Delivered, EndsAt, Unit, LastDecision
<1>3. QED
  BY <1>1, <1>2

(* A freshly prepared response is underway with nothing sent.              *)
LEMMA PreparedUnderway ==
  ASSUME NEW d \in Decisions
  PROVE  /\ Underway(PreparedResponse(d), d)
         /\ SentOf(PreparedResponse(d)) = 0
<1>1. /\ d.content_length \in Nat /\ d.send_body \in BOOLEAN
      /\ HeadersLength \in Nat /\ HeadersLength > 0
  BY HeadersAssumption DEF Decisions
<1>2. PreparedResponse(d) \in Responses
  BY PreparedType
<1>3. /\ PreparedResponse(d).headers_sent = 0
      /\ PreparedResponse(d).body_sent = 0
      /\ PreparedResponse(d).file_offset = 0
      /\ PreparedResponse(d).headers_length = HeadersLength
      /\ PreparedResponse(d).send_body = d.send_body
      /\ PreparedResponse(d).file_fd = FileFd(d)
  BY DEF PreparedResponse
<1>4. /\ PreparedResponse(d).body_length
           = (IF d.file THEN 0 ELSE d.content_length)
      /\ PreparedResponse(d).file_size
           = (IF d.file THEN d.content_length ELSE 0)
  BY DEF PreparedResponse
<1>5. PreparedResponse(d).body_length \in Nat
      /\ PreparedResponse(d).file_size \in Nat
  BY <1>2 DEF Responses
<1>6. QED
  BY <1>1, <1>2, <1>3, <1>4, <1>5 DEF Underway, SentOf

(* The fields of a response underway are numbers; of its two bodies one is *)
(* empty; and the headers come first.                                      *)
LEMMA UnderwayFacts ==
  ASSUME NEW r, NEW d, Underway(r, d)
  PROVE  /\ r.headers_sent \in Nat /\ r.body_sent \in Nat
         /\ r.file_offset \in Nat /\ r.headers_length \in Nat
         /\ r.body_length \in Nat /\ r.file_size \in Nat
         /\ SentOf(r) \in Nat
         /\ r.body_length = 0 \/ r.file_size = 0
         /\ r.file_size # 0 => r.file_fd # NoFd
         /\ ResponseLength(d)
              = IF r.send_body
                THEN r.headers_length + r.body_length + r.file_size
                ELSE r.headers_length
<1>1. /\ r.headers_sent \in Nat /\ r.body_sent \in Nat
      /\ r.file_offset \in Nat /\ r.headers_length \in Nat
      /\ r.body_length \in Nat /\ r.file_size \in Nat
  BY DEF Underway, Responses
<1>2. d.content_length \in Nat /\ d.send_body \in BOOLEAN
  BY DEF Underway, Decisions
<1>3. /\ r.headers_length = HeadersLength
      /\ r.send_body = d.send_body
      /\ r.file_fd = FileFd(d)
      /\ d.file => r.body_length = 0 /\ r.file_size = d.content_length
      /\ ~d.file => r.body_length = d.content_length /\ r.file_size = 0
  BY DEF Underway
<1>4. r.file_size # 0 => r.file_fd # NoFd
  BY <1>3 DEF FileFd, AFd, NoFd
<1>5. ResponseLength(d)
        = IF r.send_body
          THEN r.headers_length + r.body_length + r.file_size
          ELSE r.headers_length
  BY <1>1, <1>2, <1>3 DEF ResponseLength
<1>6. QED
  BY <1>1, <1>3, <1>4, <1>5 DEF SentOf

(* http_response_send_blocking is done exactly when the announced number   *)
(* of bytes is out.                                                        *)
LEMMA FinishedMeansWhole ==
  ASSUME NEW r, NEW d, Underway(r, d)
  PROVE  /\ SentOf(r) <= ResponseLength(d)
         /\ SendFinished(r) <=> SentOf(r) = ResponseLength(d)
<1>1. /\ r.headers_sent <= r.headers_length /\ r.body_sent <= r.body_length
      /\ r.file_offset <= r.file_size
      /\ SendingHeaders(r) \/ ~r.send_body
           => r.body_sent = 0 /\ r.file_offset = 0
  BY DEF Underway
<1>2. QED
  BY <1>1, UnderwayFacts
     DEF SentOf, SendFinished, SendingHeaders, SendingBody, SendingFile

(* What n more bytes from `from' on do to a response underway.             *)
Advanced(r, d, next, from, n) ==
  /\ Underway(next, d)
  /\ from = SentOf(r)
  /\ SentOf(next) = from + n
  /\ from + n <= ResponseLength(d)

(* A short write of the headers.                                           *)
LEMMA HeadersAdvance ==
  ASSUME NEW r, NEW d, Underway(r, d), SendingHeaders(r),
         NEW n \in 1..(r.headers_length - r.headers_sent)
  PROVE  Advanced(r, d, [r EXCEPT !.headers_sent = @ + n], r.headers_sent, n)
<1> DEFINE next == [r EXCEPT !.headers_sent = @ + n]
<1>1. /\ r \in Responses /\ d \in Decisions
      /\ r.body_sent = 0 /\ r.file_offset = 0
  BY DEF Underway
<1>2. /\ n \in Nat /\ r.headers_sent + n \in Nat
      /\ r.headers_sent + n <= r.headers_length
  BY UnderwayFacts
<1>3. /\ next.headers_sent = r.headers_sent + n
      /\ next.headers_length = r.headers_length
      /\ next.body_length = r.body_length /\ next.body_sent = r.body_sent
      /\ next.file_size = r.file_size /\ next.file_offset = r.file_offset
      /\ next.file_fd = r.file_fd /\ next.send_body = r.send_body
  BY <1>1 DEF Responses
<1>4. next \in Responses
  BY <1>1, <1>2, ProgressType
<1> HIDE DEF next
<1>5. Underway(next, d)
  BY <1>1, <1>2, <1>3, <1>4 DEF Underway
<1>6. SentOf(r) = r.headers_sent /\ SentOf(next) = r.headers_sent + n
  BY <1>1, <1>2, <1>3, UnderwayFacts DEF SentOf
<1>7. QED
  BY <1>5, <1>6, FinishedMeansWhole DEF Advanced, next

(* A short write of an in-memory body.                                     *)
LEMMA BodyAdvance ==
  ASSUME NEW r, NEW d, Underway(r, d), SendingBody(r),
         NEW n \in 1..(r.body_length - r.body_sent)
  PROVE  Advanced(r, d, [r EXCEPT !.body_sent = @ + n],
                  r.headers_length + r.body_sent, n)
<1> DEFINE next == [r EXCEPT !.body_sent = @ + n]
<1>1. /\ r \in Responses /\ d \in Decisions
      /\ r.headers_sent <= r.headers_length
      /\ r.file_offset <= r.file_size
      /\ ~SendingHeaders(r) /\ r.send_body
  BY DEF Underway, SendingBody
<1>2. /\ n \in Nat /\ r.body_sent + n \in Nat
      /\ r.body_sent + n <= r.body_length
  BY UnderwayFacts
<1>3. r.headers_sent = r.headers_length /\ r.file_offset = 0
  BY <1>1, <1>2, UnderwayFacts DEF SendingHeaders
<1>4. /\ next.headers_sent = r.headers_sent
      /\ next.headers_length = r.headers_length
      /\ next.body_length = r.body_length /\ next.body_sent = r.body_sent + n
      /\ next.file_size = r.file_size /\ next.file_offset = r.file_offset
      /\ next.file_fd = r.file_fd /\ next.send_body = r.send_body
  BY <1>1 DEF Responses
<1>5. next \in Responses
  BY <1>1, <1>2, ProgressType
<1> HIDE DEF next
<1>6. ~SendingHeaders(next)
  BY <1>1, <1>4 DEF SendingHeaders
<1>7. Underway(next, d)
  BY <1>1, <1>2, <1>4, <1>5, <1>6 DEF Underway
<1>8. /\ SentOf(r) = r.headers_length + r.body_sent
      /\ SentOf(next) = r.headers_length + r.body_sent + n
  BY <1>2, <1>3, <1>4, UnderwayFacts DEF SentOf
<1>9. QED
  BY <1>7, <1>8, FinishedMeansWhole DEF Advanced, next

(* A short sendfile.                                                       *)
LEMMA FileAdvance ==
  ASSUME NEW r, NEW d, Underway(r, d), SendingFile(r),
         NEW n \in 1..(r.file_size - r.file_offset)
  PROVE  Advanced(r, d, [r EXCEPT !.file_offset = @ + n],
                  r.headers_length + r.file_offset, n)
<1> DEFINE next == [r EXCEPT !.file_offset = @ + n]
<1>1. /\ r \in Responses /\ d \in Decisions
      /\ r.headers_sent <= r.headers_length
      /\ r.body_sent <= r.body_length
      /\ ~SendingHeaders(r) /\ r.send_body
  BY DEF Underway, SendingFile
<1>2. /\ n \in Nat /\ r.file_offset + n \in Nat
      /\ r.file_offset + n <= r.file_size
  BY UnderwayFacts
<1>3. r.headers_sent = r.headers_length /\ r.body_sent = 0
  BY <1>1, <1>2, UnderwayFacts DEF SendingHeaders
<1>4. /\ next.headers_sent = r.headers_sent
      /\ next.headers_length = r.headers_length
      /\ next.body_length = r.body_length /\ next.body_sent = r.body_sent
      /\ next.file_size = r.file_size
      /\ next.file_offset = r.file_offset + n
      /\ next.file_fd = r.file_fd /\ next.send_body = r.send_body
  BY <1>1 DEF Responses
<1>5. next \in Responses
  BY <1>1, <1>2, ProgressType
<1> HIDE DEF next
<1>6. ~SendingHeaders(next)
  BY <1>1, <1>4 DEF SendingHeaders
<1>7. Underway(next, d)
  BY <1>1, <1>2, <1>4, <1>5, <1>6 DEF Underway
<1>8. /\ SentOf(r) = r.headers_length + r.file_offset
      /\ SentOf(next) = r.headers_length + r.file_offset + n
  BY <1>2, <1>3, <1>4, UnderwayFacts DEF SentOf
<1>9. QED
  BY <1>7, <1>8, FinishedMeansWhole DEF Advanced, next

(* Whatever part of the response is being sent, a step that sends puts     *)
(* the bytes that follow those already out on the wire, and counts them.   *)
LEMMA TransmitAdvances ==
  ASSUME TypeOK, Progress, Transmit
  PROVE  /\ announced # << >>
         /\ \E from \in Nat, n \in Nat :
              /\ n > 0
              /\ from + n <= ResponseLength(LastDecision)
              /\ EndsAt(announced, wire, from)
              /\ wire' = wire \o [i \in 1..n |->
                                    Unit(Len(announced), from + i)]
              /\ pc = "send" => /\ Underway(response', LastDecision)
                                /\ from = SentOf(response)
                                /\ SentOf(response') = from + n
              /\ pc = "err" => /\ from = total_sent
                               /\ total_sent' = from + n
                               /\ total_sent' <= ErrorReplyLength
<1> DEFINE Sends(from, n) ==
      /\ n > 0
      /\ from + n <= ResponseLength(LastDecision)
      /\ EndsAt(announced, wire, from)
      /\ wire' = wire \o [i \in 1..n |-> Unit(Len(announced), from + i)]
      /\ pc = "send" => /\ Underway(response', LastDecision)
                        /\ from = SentOf(response)
                        /\ SentOf(response') = from + n
      /\ pc = "err" => /\ from = total_sent
                       /\ total_sent' = from + n
                       /\ total_sent' <= ErrorReplyLength
<1>1. pc \in {"send", "err"} /\ announced # << >>
  BY TransmitFrame DEF Progress
<1>2. ASSUME pc = "send",
             NEW from \in Nat, NEW n \in Nat, n > 0,
             wire' = wire \o Slice(from, n),
             Advanced(response, LastDecision, response', from, n)
      PROVE  Sends(from, n)
  <2>1. EndsAt(announced, wire, SentOf(response))
    BY <1>2 DEF Progress
  <2>2. QED
    BY <1>2, <2>1 DEF Advanced, Slice, Unit
<1>3. pc = "send" =>
        /\ Underway(response, LastDecision)
        /\ response.headers_sent \in Nat /\ response.headers_length \in Nat
        /\ response.body_sent \in Nat /\ response.body_length \in Nat
        /\ response.file_offset \in Nat /\ response.file_size \in Nat
  BY UnderwayFacts DEF Progress
<1>4. ASSUME NEW n \in 1..HeadersLength, SendHeaders(n)
      PROVE  \E from \in Nat, k \in Nat : Sends(from, k)
  <2>1. /\ pc = "send" /\ SendingHeaders(response)
        /\ n \in 1..(response.headers_length - response.headers_sent)
        /\ wire' = wire \o Slice(response.headers_sent, n)
        /\ response' = [response EXCEPT !.headers_sent = @ + n]
    BY <1>4 DEF SendHeaders
  <2>2. Advanced(response, LastDecision, response', response.headers_sent, n)
    BY <1>3, <2>1, HeadersAdvance
  <2>3. n \in Nat /\ n > 0
    BY <1>3, <2>1
  <2>4. QED
    BY <1>2, <1>3, <2>1, <2>2, <2>3
<1>5. ASSUME NEW n \in 1..response.body_length, SendBody(n)
      PROVE  \E from \in Nat, k \in Nat : Sends(from, k)
  <2>1. /\ pc = "send" /\ SendingBody(response)
        /\ n \in 1..(response.body_length - response.body_sent)
        /\ wire' = wire \o Slice(response.headers_length
                                   + response.body_sent, n)
        /\ response' = [response EXCEPT !.body_sent = @ + n]
    BY <1>5 DEF SendBody
  <2>2. Advanced(response, LastDecision, response',
                 response.headers_length + response.body_sent, n)
    BY <1>3, <2>1, BodyAdvance
  <2>3. /\ n \in Nat /\ n > 0
        /\ response.headers_length + response.body_sent \in Nat
    BY <1>3, <2>1
  <2>4. QED
    BY <1>2, <2>1, <2>2, <2>3
<1>6. ASSUME NEW n \in 1..response.file_size, SendFile(n)
      PROVE  \E from \in Nat, k \in Nat : Sends(from, k)
  <2>1. /\ pc = "send" /\ SendingFile(response)
        /\ n \in 1..(response.file_size - response.file_offset)
        /\ wire' = wire \o Slice(response.headers_length
                                   + response.file_offset, n)
        /\ response' = [response EXCEPT !.file_offset = @ + n]
    BY <1>6 DEF SendFile
  <2>2. Advanced(response, LastDecision, response',
                 response.headers_length + response.file_offset, n)
    BY <1>3, <2>1, FileAdvance
  <2>3. /\ n \in Nat /\ n > 0
        /\ response.headers_length + response.file_offset \in Nat
    BY <1>3, <2>1
  <2>4. QED
    BY <1>2, <2>1, <2>2, <2>3
<1>7. ASSUME NEW n \in 1..ErrorReplyLength, SendErrorReply(n)
      PROVE  \E from \in Nat, k \in Nat : Sends(from, k)
  <2>1. /\ pc = "err" /\ n \in 1..(ErrorPartEnd - total_sent)
        /\ wire' = wire \o Slice(total_sent, n)
        /\ total_sent' = total_sent + n
    BY <1>7 DEF SendErrorReply
  <2>2. /\ HeadersLength \in Nat /\ ErrorBodyLength \in Nat
        /\ total_sent \in Nat
    BY HeadersAssumption, HttpAssumption DEF TypeOK
  <2>3. /\ n \in Nat /\ n > 0
        /\ total_sent + n <= ErrorReplyLength
    BY <2>1, <2>2 DEF ErrorPartEnd, ErrorReplyLength
  <2>4. ResponseLength(LastDecision) = ErrorReplyLength
    BY <2>1 DEF Progress, ResponseLength, ErrorDecision, ErrorReplyLength
  <2>5. EndsAt(announced, wire, total_sent)
    BY <2>1 DEF Progress
  <2>6. Sends(total_sent, n)
    BY <2>1, <2>3, <2>4, <2>5 DEF Slice, Unit
  <2>7. QED
    BY <2>2, <2>3, <2>6
<1>8. \E from \in Nat, n \in Nat : Sends(from, n)
  BY <1>4, <1>5, <1>6, <1>7 DEF Transmit
<1>9. QED
  BY <1>1, <1>8

(* The wire, its last response and the control state, together.            *)
TransmissionInv == Progress /\ WireInOrder /\ OnlyWholeResponsesSucceed

(* A step that announces nothing, sends nothing and only moves the child   *)
(* to where the last response must be out, or to a failure.                *)
LEMMA QuietStep ==
  ASSUME TransmissionInv, UNCHANGED << announced, wire >>,
         \/ UNCHANGED << pc, response, total_sent, result >>
         \/ pc' \in {"recv", "process"} /\ Delivered
         \/ pc' \in {"done", "exited"} /\ (result' = "ok" => Delivered)
  PROVE  TransmissionInv'
<1>1. Delivered' <=> Delivered
  BY DEF Delivered
<1>2. WireInOrder'
  BY DEF TransmissionInv, WireInOrder
<1>3. OnlyWholeResponsesSucceed'
  BY <1>1 DEF TransmissionInv, OnlyWholeResponsesSucceed
<1>4. Progress'
  <2>1. CASE UNCHANGED << pc, response, total_sent, result >>
    BY <1>1, <2>1 DEF TransmissionInv, Progress, LastDecision
  <2>2. CASE ~UNCHANGED << pc, response, total_sent, result >>
    BY <1>1, <2>2 DEF TransmissionInv, Progress
  <2>3. QED
    BY <2>1, <2>2
<1>5. QED
  BY <1>2, <1>3, <1>4 DEF TransmissionInv

(* A step that begins another response.                                    *)
LEMMA AnnouncingStep ==
  ASSUME TypeOK, TransmissionInv, Delivered,
         NEW entry \in Announcements,
         announced' = Append(announced, entry), wire' = wire
  PROVE  /\ WireInOrder'
         /\ announced' # << >>
         /\ LastDecision' = entry.decision
         /\ EndsAt(announced', wire', 0)
<1>1. announced \in Seq(Announcements) /\ wire \in Seq(Units)
  BY DEF TypeOK, Units
<1>2. /\ announced = << >> => wire = << >>
      /\ announced # << >>
           => EndsAt(announced, wire, ResponseLength(LastDecision))
  BY DeliveredAsEnd DEF TransmissionInv, Progress
<1>3. \A i \in DOMAIN wire : InPlace(announced, wire, i)
  BY WireByPosition DEF TransmissionInv
<1>4. /\ \A i \in DOMAIN wire : InPlace(Append(announced, entry), wire, i)
      /\ EndsAt(Append(announced, entry), wire, 0)
  BY <1>1, <1>2, <1>3, AnnouncementInPlace DEF LastDecision
<1>5. WireInOrder'
  BY <1>4 DEF WireInOrder, InPlace, Unit
<1>6. announced' # << >> /\ announced'[Len(announced')] = entry
  BY <1>1, AppendedLast
<1>7. QED
  BY <1>4, <1>5, <1>6 DEF LastDecision

(* Every step keeps the wire in order.                                     *)
LEMMA NextTransmission ==
  TypeOK /\ TransmissionInv /\ [Next]_vars => TransmissionInv'
<1> SUFFICES ASSUME TypeOK, TransmissionInv, [Next]_vars
             PROVE  TransmissionInv'
  OBVIOUS
<1> USE DEF environment, process, history
<1>0. pc \in {"init", "recv", "process"} => Delivered
  BY DEF TransmissionInv, Progress
<1>1. CASE Jump
  <2>1. UNCHANGED << announced, wire >> /\ pc' \in {"recv", "done"}
    BY <1>1, JumpFrame
  <2>2. pc' = "recv" => Delivered
    BY <1>0, <1>1, JumpFrame
  <2>3. pc' = "done" /\ result' = "ok" => pc \in {"recv", "process"}
    BY <1>1 DEF Jump, ConnectionInit, ReceiveEOF, ReceiveFails, ConfigRefused,
                NoRequestReady, SendFileTruncated, SendFails, ErrorReplyEnds,
                Leave
  <2>4. QED
    BY <1>0, <2>1, <2>2, <2>3, QuietStep
<1>2. CASE Transmit
  <2>1. /\ UNCHANGED << pc, announced, result >> /\ pc \in {"send", "err"}
        /\ announced # << >>
    BY <1>2, TransmitFrame, TransmitAdvances DEF TransmissionInv
  <2>2. PICK from \in Nat, n \in Nat :
              /\ n > 0
              /\ from + n <= ResponseLength(LastDecision)
              /\ EndsAt(announced, wire, from)
              /\ wire' = wire \o [i \in 1..n |->
                                    Unit(Len(announced), from + i)]
              /\ pc = "send" => /\ Underway(response', LastDecision)
                                /\ SentOf(response') = from + n
              /\ pc = "err" => /\ total_sent' = from + n
                               /\ total_sent' <= ErrorReplyLength
    BY <1>2, TransmitAdvances DEF TransmissionInv
  <2>3. announced \in Seq(Announcements) /\ wire \in Seq(Units)
    BY DEF TypeOK, Units
  <2>4. \A i \in DOMAIN wire : InPlace(announced, wire, i)
    BY WireByPosition DEF TransmissionInv
  <2>5. /\ \A i \in DOMAIN wire' : InPlace(announced, wire', i)
        /\ EndsAt(announced, wire', from + n)
    BY <2>1, <2>2, <2>3, <2>4, SliceInPlace DEF LastDecision
  <2>6. WireInOrder'
    BY <2>1, <2>5 DEF WireInOrder, InPlace, Unit
  <2>7. LastDecision' = LastDecision
    BY <2>1 DEF LastDecision
  <2>8. pc = "err" => LastDecision = ErrorDecision(431)
    BY DEF TransmissionInv, Progress
  <2>9. Progress'
    BY <2>1, <2>2, <2>5, <2>7, <2>8 DEF Progress
  <2>10. OnlyWholeResponsesSucceed'
    BY <2>1 DEF OnlyWholeResponsesSucceed
  <2>11. QED
    BY <2>6, <2>9, <2>10 DEF TransmissionInv
<1>3. CASE PeerCloses \/ FileResized
  BY <1>3, QuietStep DEF PeerCloses, FileResized
<1>4. CASE BufferFull
  <2> DEFINE entry == [request |-> << >>, decision |-> ErrorDecision(431)]
  <2>1. entry \in Announcements
    BY ErrorDecisionType DEF Announcements, Status
  <2>2. /\ announced' = Append(announced, entry) /\ wire' = wire
        /\ pc = "recv" /\ pc' = "err" /\ total_sent' = 0
    BY <1>4 DEF BufferFull, StartErrorReply
  <2>3. entry.decision = ErrorDecision(431)
    OBVIOUS
  <2> HIDE DEF entry
  <2>4. /\ WireInOrder' /\ announced' # << >>
        /\ LastDecision' = ErrorDecision(431)
        /\ EndsAt(announced', wire', 0)
    BY <1>0, <2>1, <2>2, <2>3, AnnouncingStep
  <2>5. 0 <= ErrorReplyLength
    BY HeadersAssumption, HttpAssumption DEF ErrorReplyLength
  <2>6. Progress'
    BY <2>2, <2>4, <2>5 DEF Progress
  <2>7. QED
    BY <2>2, <2>4, <2>6 DEF TransmissionInv, OnlyWholeResponsesSucceed
<1>5. ASSUME NEW n \in 1..Len(inbound), Receive(n)
      PROVE  TransmissionInv'
  <2>1. /\ pc = "recv" /\ pc' = "process"
        /\ UNCHANGED << announced, wire >>
    BY <1>5, FeedAccepts DEF Receive
  <2>2. QED
    BY <1>0, <2>1, QuietStep
<1>6. ASSUME NEW file \in FileAnswers, Prepare(file)
      PROVE  TransmissionInv'
  <2> DEFINE request == http_connection_request(buffer)
             decision == http_prepare_response(Parse(request, config), file)
             entry == [request |-> request, decision |-> decision]
  <2>1. request \in Seq(Byte) /\ decision \in Decisions
    BY ConsumeKeepsTheRest, DecisionType DEF TypeOK
  <2>2. /\ announced' = Append(announced, entry) /\ wire' = wire
        /\ pc = "process" /\ pc' = "send"
        /\ response' = PreparedResponse(decision)
    BY <1>6 DEF Prepare
  <2>3. entry \in Announcements /\ entry.decision = decision
    BY <2>1 DEF Announcements
  <2> HIDE DEF entry, decision, request
  <2>4. /\ WireInOrder' /\ announced' # << >>
        /\ LastDecision' = decision
        /\ EndsAt(announced', wire', 0)
    BY <1>0, <2>2, <2>3, AnnouncingStep
  <2>5. Underway(response', decision) /\ SentOf(response') = 0
    BY <2>1, <2>2, PreparedUnderway
  <2>6. Progress'
    BY <2>2, <2>4, <2>5 DEF Progress
  <2>7. QED
    BY <2>2, <2>4, <2>6 DEF TransmissionInv, OnlyWholeResponsesSucceed
<1>7. CASE PrepareFails
  BY <1>7, QuietStep DEF PrepareFails, Leave
<1>8. CASE FinishRequest
  <2>1. /\ pc = "send" /\ SendFinished(response) /\ pc' \in {"process", "done"}
        /\ UNCHANGED << announced, wire, result >>
    BY <1>8 DEF FinishRequest, AfterRequest
  <2>2. /\ Underway(response, LastDecision)
        /\ EndsAt(announced, wire, SentOf(response))
    BY <2>1 DEF TransmissionInv, Progress
  <2>3. Delivered
    BY <2>1, <2>2, FinishedMeansWhole, DeliveredAsEnd
  <2>4. QED
    BY <2>1, <2>3, QuietStep
<1>9. CASE KilledBySIGPIPE
  BY <1>9, QuietStep DEF KilledBySIGPIPE
<1>10. CASE ConnectionDestroy
  <2>1. pc = "done" /\ pc' = "exited" /\ UNCHANGED << announced, wire, result >>
    BY <1>10 DEF ConnectionDestroy
  <2>2. result = "ok" => Delivered
    BY <2>1 DEF TransmissionInv, OnlyWholeResponsesSucceed
  <2>3. QED
    BY <2>1, <2>2, QuietStep
<1>11. CASE UNCHANGED vars
  BY <1>11, QuietStep DEF vars
<1>12. QED
  BY <1>1, <1>2, <1>3, <1>4, <1>5, <1>6, <1>7, <1>8, <1>9, <1>10, <1>11,
     NextSplit

(* The invariant holds initially and after every step.                     *)
THEOREM TransmissionInvariance == Spec => []TransmissionInv
<1>1. Init => TransmissionInv
  BY DEF Init, TransmissionInv, Progress, WireInOrder,
         OnlyWholeResponsesSucceed, Delivered
<1>2. QED
  BY <1>1, NextTransmission, TypeCorrect, PTL DEF Spec

(* However the kernel cuts the writes, every byte of every response goes   *)
(* out once and in its place, no response begins before the one before it  *)
(* is whole, and none outgrows its Content-Length.                         *)
THEOREM WireIsInOrder == Spec => []WireInOrder
<1>1. TransmissionInv => WireInOrder
  BY DEF TransmissionInv
<1>2. QED
  BY <1>1, TransmissionInvariance, PTL

(* The child goes on to another request, or ends with success, only when   *)
(* the last response is out to its last byte.                              *)
THEOREM SuccessMeansWhole == Spec => []OnlyWholeResponsesSucceed
<1>1. TransmissionInv => OnlyWholeResponsesSucceed
  BY DEF TransmissionInv
<1>2. QED
  BY <1>1, TransmissionInvariance, PTL

-----------------------------------------------------------------------------
(* The responses and the requests of the stream                            *)

(* The recursive definition of RequestEnd says what it seems to say.       *)
LEMMA RequestEndUnfolded ==
  ASSUME TypeOK
  PROVE  /\ RequestEnd[0] = 0
         /\ \A k \in 0..Len(stream) : RequestEnd[k] \in Nat
         /\ \A k \in 1..Len(stream) :
              RequestEnd[k] = RequestEnd[k - 1]
                + http_find_header_end(SubSeq(stream, RequestEnd[k - 1] + 1,
                                              Len(stream)))
<1> DEFINE S == 0..Len(stream)
           Step(e) == e + http_find_header_end(SubSeq(stream, e + 1,
                                                      Len(stream)))
           comb == [pair \in (1..Len(stream)) \X Nat |-> Step(pair[2])]
<1>1. stream \in Seq(Byte) /\ Len(stream) \in Nat
  BY HandlerAssumption, LenProperties DEF TypeOK
<1>2. \A e \in Nat : Step(e) \in Nat
  <2> TAKE e \in Nat
  <2> DEFINE rest == SubSeq(stream, e + 1, Len(stream))
  <2>1. rest \in Seq(Byte)
    BY <1>1
  <2> HIDE DEF rest
  <2>2. http_find_header_end(rest) \in Nat
    BY <2>1, HeaderEnd, LenProperties
  <2>3. e + http_find_header_end(rest) \in Nat
    BY <2>2
  <2>4. QED
    BY <2>3 DEF rest
<1> HIDE DEF Step
<1>3. comb \in [(1..Len(stream)) \X Nat -> Nat]
  BY <1>2
<1>4. \A k \in 1..Len(stream), e \in Nat : comb[<< k, e >>] = Step(e)
  OBVIOUS
<1> HIDE DEF comb
<1>5. PICK f \in [S -> Nat] :
        f[0] = 0 /\ \A k \in 1..Len(stream) : f[k] = comb[<< k, f[k - 1] >>]
  <2>1. Counting(Len(stream), Nat, 0, comb)
    BY <1>1, <1>3 DEF Counting
  <2>2. QED
    BY <2>1, CountingRecursion
<1>6. \A k \in S : f[k] = IF k = 0 THEN 0 ELSE Step(f[k - 1])
  <2>1. ASSUME NEW k \in S, k # 0
        PROVE  f[k] = Step(f[k - 1])
    <3>1. k \in 1..Len(stream) /\ f[k - 1] \in Nat
      BY <1>1, <2>1
    <3>2. QED
      BY <1>4, <1>5, <3>1
  <2>2. QED
    BY <1>5, <2>1
<1>7. f = [k \in S |-> IF k = 0 THEN 0 ELSE Step(f[k - 1])]
  BY <1>6
<1>8. RequestEnd = [k \in S |-> IF k = 0 THEN 0
                                ELSE Step(RequestEnd[k - 1])]
  <2>1. RequestEnd = CHOOSE g : g = [k \in S |-> IF k = 0 THEN 0
                                                ELSE Step(g[k - 1])]
    BY Zenon DEF RequestEnd, Step
  <2>2. QED
    BY <1>7, <2>1
<1>9. RequestEnd[0] = 0 /\ \A k \in 1..Len(stream) :
                             RequestEnd[k] = Step(RequestEnd[k - 1])
  BY <1>1, <1>8
<1>10. \A k \in S : RequestEnd[k] \in Nat
  <2> DEFINE P == {k \in Nat : k \in S => RequestEnd[k] \in Nat}
  <2>1. 0 \in P
    BY <1>9
  <2>2. ASSUME NEW k \in Nat, k \in P
        PROVE  k + 1 \in P
    <3>1. CASE k + 1 \in S
      <4>1. k \in S /\ k + 1 \in 1..Len(stream) /\ (k + 1) - 1 = k
        BY <1>1, <3>1
      <4>2. RequestEnd[k] \in Nat
        BY <2>2, <4>1
      <4>3. RequestEnd[k + 1] = Step(RequestEnd[k])
        BY <1>9, <4>1
      <4>4. RequestEnd[k + 1] \in Nat
        BY <1>2, <4>2, <4>3
      <4>5. QED
        BY <4>4
    <3>2. CASE k + 1 \notin S
      BY <3>2
    <3>3. QED
      BY <3>1, <3>2
  <2> HIDE DEF P
  <2>3. \A k \in Nat : k \in P
    BY <2>1, <2>2, SetInduction
  <2>4. QED
    BY <2>3, <1>1 DEF P
<1>11. QED
  BY <1>9, <1>10 DEF Step

(* While requests are read or answered, each response so far was to the    *)
(* request whose turn it was, and what has been consumed ends where the    *)
(* last finished one ends.                                                 *)
Turns ==
  /\ pc \in {"init", "recv", "process"} =>
       /\ Len(announced) <= Len(taken)
       /\ RequestEnd[Len(announced)] = Len(taken)
       /\ \A k \in DOMAIN announced : InTurn(k)
  /\ pc = "send" =>
       /\ announced # << >> /\ Len(announced) <= Len(taken) + 1
       /\ RequestEnd[Len(announced) - 1] = Len(taken)
       /\ RequestEnd[Len(announced)]
            = Len(taken) + http_connection_request_length(buffer)
       /\ \A k \in DOMAIN announced : InTurn(k)

(* A request at the head of the buffer is the next one of the stream.      *)
LEMMA BufferHoldsTheNext ==
  ASSUME TypeOK, StreamConserved, pc # "exited",
         http_connection_request_ready(buffer)
  PROVE  LET length == http_connection_request_length(buffer)
         IN  /\ length \in Nat /\ length > 0
             /\ Len(taken) \in Nat /\ Len(taken) + length <= Len(stream)
             /\ http_find_header_end(SubSeq(stream, Len(taken) + 1,
                                            Len(stream))) = length
             /\ SubSeq(stream, Len(taken) + 1, Len(taken) + length)
                  = http_connection_request(buffer)
<1> DEFINE length == http_connection_request_length(buffer)
           ahead == buffer \o inbound
           request == http_connection_request(buffer)
<1>1. /\ taken \in Seq(Byte) /\ buffer \in Seq(Byte) /\ inbound \in Seq(Byte)
      /\ Len(taken) \in Nat /\ Len(buffer) \in Nat /\ Len(inbound) \in Nat
  BY LenProperties DEF TypeOK
<1>2. /\ ahead \in Seq(Byte) /\ Len(ahead) = Len(buffer) + Len(inbound)
      /\ \A i \in 1..Len(buffer) : ahead[i] = buffer[i]
  BY <1>1
<1>3. stream = taken \o ahead
  <2>1. taken \o buffer \o inbound = taken \o (buffer \o inbound)
    BY <1>1
  <2>2. QED
    BY <2>1 DEF StreamConserved
<1>4. length \in 1..Len(buffer)
  BY <1>1, HeaderEnd
     DEF http_connection_request_length, http_connection_request_ready,
         http_request_complete
<1>5. http_find_header_end(ahead) = length
  <2> HIDE DEF ahead
  <2>1. Len(buffer) <= Len(ahead)
    BY <1>1, <1>2
  <2>2. QED
    BY <1>1, <1>2, <2>1, EndIgnoresWhatFollows
       DEF http_connection_request_length, http_connection_request_ready
<1>6. /\ request \in Seq(Byte) /\ Len(request) = length
      /\ \A i \in 1..length : request[i] = buffer[i]
  BY <1>1, <1>4 DEF http_connection_request, http_connection_request_length
<1> HIDE DEF length, ahead, request
<1>7. /\ Len(stream) = Len(taken) + Len(ahead)
      /\ SubSeq(stream, Len(taken) + 1, Len(stream)) = ahead
  <2>1. ahead \in Seq(Byte)
    BY <1>2
  <2>2. Len(taken \o ahead) = Len(taken) + Len(ahead)
    BY <1>1, <2>1, ConcatProperties
  <2>3. SubSeq(taken \o ahead, Len(taken) + 1, Len(taken \o ahead)) = ahead
    BY <1>1, <2>1, Pieces
  <2>4. QED
    BY <1>3, <2>2, <2>3
<1>8. \A i \in 1..Len(ahead) : stream[Len(taken) + i] = ahead[i]
  BY <1>1, <1>2, <1>3
<1>9. SubSeq(stream, Len(taken) + 1, Len(taken) + length) = request
  <2> DEFINE piece == SubSeq(stream, Len(taken) + 1, Len(taken) + length)
  <2>1. stream \in Seq(Byte)
    BY <1>1, <1>2, <1>3
  <2>2. /\ piece \in Seq(Byte) /\ Len(piece) = length
        /\ \A i \in 1..length : piece[i] = stream[Len(taken) + i]
    BY <1>1, <1>2, <1>4, <1>7, <2>1
  <2> HIDE DEF piece
  <2>3. ASSUME NEW i \in 1..length
        PROVE  piece[i] = request[i]
    <3>1. i \in 1..Len(buffer) /\ i \in 1..Len(ahead)
      BY <1>1, <1>2, <1>4
    <3>2. QED
      BY <1>2, <1>6, <1>8, <2>2, <3>1
  <2>4. piece = request
    BY <1>6, <2>2, <2>3, SeqEqual
  <2>5. QED
    BY <2>4 DEF piece
<1>10. /\ length \in Nat /\ length > 0
       /\ Len(taken) \in Nat /\ Len(taken) + length <= Len(stream)
  BY <1>1, <1>2, <1>4, <1>7
<1>11. http_find_header_end(SubSeq(stream, Len(taken) + 1, Len(stream)))
         = length
  BY <1>5, <1>7
<1>12. QED
  BY <1>9, <1>10, <1>11 DEF length, request

(* A step that leaves the stream, the announcements and their turns alone. *)
LEMMA TurnsKept ==
  ASSUME UNCHANGED << stream, announced >>
  PROVE  /\ RequestEnd' = RequestEnd
         /\ \A k : InTurn(k)' <=> InTurn(k)
<1>1. RequestEnd' = RequestEnd
  BY DEF RequestEnd
<1>2. QED
  BY <1>1 DEF InTurn

(* Every step gives the turns to the requests of the stream in order.      *)
LEMMA NextTurns ==
  /\ TypeOK /\ StreamConserved /\ Turns /\ RepliesFollowRequests
  /\ [Next]_vars
  => Turns' /\ RepliesFollowRequests'
<1> SUFFICES ASSUME TypeOK, StreamConserved, Turns, RepliesFollowRequests,
                    [Next]_vars
             PROVE  Turns' /\ RepliesFollowRequests'
  OBVIOUS
<1> USE DEF environment, process, history
<1>0. /\ announced \in Seq(Announcements) /\ Len(announced) \in Nat
      /\ DOMAIN announced = 1..Len(announced)
  BY DEF TypeOK
<1>1. pc \in {"init", "recv", "process", "send"}
        => \A k \in DOMAIN announced : InTurn(k)
  BY DEF Turns
<1>2. ASSUME UNCHANGED << pc, stream, announced, taken, buffer >>
      PROVE  Turns' /\ RepliesFollowRequests'
  BY <1>2, TurnsKept DEF Turns, RepliesFollowRequests
<1>3. ASSUME UNCHANGED << stream, announced >>, pc' \in {"done", "exited"}
      PROVE  Turns' /\ RepliesFollowRequests'
  <2>1. Turns'
    BY <1>3 DEF Turns
  <2>2. RepliesFollowRequests'
    BY <1>3, TurnsKept DEF RepliesFollowRequests
  <2>3. QED
    BY <2>1, <2>2
<1>4. ASSUME UNCHANGED << stream, announced, taken >>,
             pc \in {"init", "recv", "process"}, pc' \in {"recv", "process"}
      PROVE  Turns' /\ RepliesFollowRequests'
  BY <1>4, TurnsKept DEF Turns, RepliesFollowRequests
<1>5. CASE Jump
  <2>1. /\ UNCHANGED << stream, announced, taken, buffer >>
        /\ pc' \in {"recv", "done"}
        /\ pc' = "recv" => pc \in {"init", "process"}
    BY <1>5, JumpFrame
  <2>2. QED
    BY <1>3, <1>4, <2>1
<1>6. CASE Transmit
  BY <1>2, <1>6, TransmitFrame
<1>7. CASE PeerCloses \/ FileResized
  BY <1>2, <1>7 DEF PeerCloses, FileResized
<1>8. CASE BufferFull
  <2> DEFINE entry == [request |-> << >>, decision |-> ErrorDecision(431)]
  <2>1. entry \in Announcements /\ entry.request = << >>
    BY ErrorDecisionType DEF Announcements, Status
  <2>2. /\ announced' = Append(announced, entry) /\ stream' = stream
        /\ pc = "recv" /\ pc' = "err"
    BY <1>8 DEF BufferFull, StartErrorReply
  <2> HIDE DEF entry
  <2>3. /\ DOMAIN announced' = 1..Len(announced) + 1
        /\ Len(announced') = Len(announced) + 1
        /\ announced'[Len(announced')] = entry
        /\ \A k \in 1..Len(announced) : announced'[k] = announced[k]
    BY <1>0, <2>1, <2>2, AppendedLast
  <2>4. RequestEnd' = RequestEnd
    BY <2>2 DEF RequestEnd
  <2>5. \A k \in 1..Len(announced) : InTurn(k)'
    BY <1>0, <1>1, <2>2, <2>3, <2>4 DEF InTurn
  <2>6. RepliesFollowRequests'
    BY <1>0, <2>1, <2>2, <2>3, <2>5 DEF RepliesFollowRequests
  <2>7. QED
    BY <2>2, <2>6 DEF Turns
<1>9. ASSUME NEW n \in 1..Len(inbound), Receive(n)
      PROVE  Turns' /\ RepliesFollowRequests'
  BY <1>4, <1>9, FeedAccepts DEF Receive
<1>10. ASSUME NEW file \in FileAnswers, Prepare(file)
       PROVE  Turns' /\ RepliesFollowRequests'
  <2> DEFINE request == http_connection_request(buffer)
             decision == http_prepare_response(Parse(request, config), file)
             entry == [request |-> request, decision |-> decision]
             length == http_connection_request_length(buffer)
             last == Len(announced) + 1
  <2>1. entry \in Announcements /\ entry.request = request
    BY ConsumeKeepsTheRest, DecisionType DEF TypeOK, Announcements
  <2>2. /\ announced' = Append(announced, entry)
        /\ UNCHANGED << stream, taken, buffer >>
        /\ pc = "process" /\ pc' = "send"
        /\ http_connection_request_ready(buffer)
    BY <1>10 DEF Prepare
  <2>3. /\ length \in Nat /\ length > 0
        /\ Len(taken) \in Nat /\ Len(taken) + length <= Len(stream)
        /\ http_find_header_end(SubSeq(stream, Len(taken) + 1, Len(stream)))
             = length
        /\ SubSeq(stream, Len(taken) + 1, Len(taken) + length) = request
    BY <2>2, BufferHoldsTheNext
  <2> HIDE DEF entry, decision, request
  <2>4. /\ DOMAIN announced' = 1..last /\ Len(announced') = last
        /\ announced'[last] = entry /\ announced' # << >>
        /\ \A k \in 1..Len(announced) : announced'[k] = announced[k]
    BY <1>0, <2>1, <2>2, AppendedLast
  <2>5. RequestEnd' = RequestEnd
    BY <2>2 DEF RequestEnd
  <2>6. /\ Len(announced) <= Len(taken)
        /\ RequestEnd[last - 1] = Len(taken)
    BY <1>0, <2>2 DEF Turns
  <2>7. last \in 1..Len(stream)
    <3>1. Len(stream) \in Nat
      BY HandlerAssumption, LenProperties DEF TypeOK
    <3>2. QED
      BY <1>0, <2>3, <2>6, <3>1
  <2>8. RequestEnd[last] = Len(taken) + length
    BY <2>3, <2>6, <2>7, RequestEndUnfolded
  <2>9. \A k \in 1..Len(announced) : InTurn(k)'
    BY <1>0, <1>1, <2>2, <2>4, <2>5 DEF InTurn
  <2>10. ASSUME NEW k, k = last
         PROVE  InTurn(k)'
    <3>1. announced'[k].request = request
      BY <2>1, <2>4, <2>10
    <3>2. RequestEnd[k] > RequestEnd[k - 1]
      BY <2>3, <2>6, <2>8, <2>10
    <3>3. k <= Len(stream)
      BY <2>7, <2>10
    <3>4. request = SubSeq(stream, RequestEnd[k - 1] + 1, RequestEnd[k])
      BY <2>3, <2>6, <2>8, <2>10
    <3>5. QED
      BY <2>2, <2>5, <3>1, <3>2, <3>3, <3>4 DEF InTurn
  <2>11. \A k \in DOMAIN announced' : InTurn(k)'
    BY <1>0, <2>4, <2>9, <2>10
  <2>12. Turns'
    <3>1. Len(announced') <= Len(taken') + 1
      BY <1>0, <2>2, <2>3, <2>4, <2>6
    <3>2. QED
      BY <2>2, <2>4, <2>5, <2>6, <2>8, <2>11, <3>1 DEF Turns
  <2>13. QED
    BY <2>11, <2>12 DEF RepliesFollowRequests
<1>11. CASE PrepareFails
  BY <1>3, <1>11 DEF PrepareFails, Leave
<1>12. CASE FinishRequest
  <2> DEFINE length == http_connection_request_length(buffer)
  <2>1. /\ UNCHANGED << stream, announced >> /\ pc = "send"
        /\ pc' \in {"process", "done"}
        /\ taken' = taken \o http_connection_request(buffer)
    BY <1>12 DEF FinishRequest, AfterRequest, http_connection_request
  <2>2. CASE pc' = "done"
    BY <1>3, <2>1, <2>2
  <2>3. CASE pc' = "process"
    <3>1. /\ announced # << >> /\ Len(announced) <= Len(taken) + 1
          /\ RequestEnd[Len(announced) - 1] = Len(taken)
          /\ RequestEnd[Len(announced)] = Len(taken) + length
          /\ InTurn(Len(announced))
      BY <1>0, <2>1 DEF Turns
    <3>2. buffer \in Seq(Byte) /\ taken \in Seq(Byte) /\ Len(taken) \in Nat
      BY LenProperties DEF TypeOK
    <3>3. length \in Nat /\ Len(http_connection_request(buffer)) = length
      BY <3>2, HeaderEnd, CutAndJoin
         DEF http_connection_request, http_connection_request_length
    <3>4. http_connection_request(buffer) \in Seq(Byte)
      BY <3>2, ConsumeKeepsTheRest
    <3>5. Len(taken') = Len(taken) + length
      BY <2>1, <3>2, <3>3, <3>4, ConcatProperties
    <3>6. length > 0
      BY <3>1, <3>2, <3>3 DEF InTurn
    <3>7. Len(announced) <= Len(taken')
      BY <1>0, <3>1, <3>2, <3>3, <3>5, <3>6
    <3>8. QED
      BY <1>0, <1>1, <2>1, <2>3, <3>1, <3>5, <3>7, TurnsKept
         DEF Turns, RepliesFollowRequests
  <2>4. QED
    BY <2>1, <2>2, <2>3
<1>13. CASE KilledBySIGPIPE \/ ConnectionDestroy
  BY <1>3, <1>13 DEF KilledBySIGPIPE, ConnectionDestroy
<1>14. CASE UNCHANGED vars
  BY <1>2, <1>14 DEF vars
<1>15. QED
  BY <1>5, <1>6, <1>7, <1>8, <1>9, <1>10, <1>11, <1>12, <1>13, <1>14,
     NextSplit

(* The turns are kept throughout.                                          *)
LEMMA TurnsHold == Spec => [](Turns /\ RepliesFollowRequests)
<1>1. Init => Turns /\ RepliesFollowRequests
  <2> SUFFICES ASSUME Init PROVE Turns /\ RepliesFollowRequests
    OBVIOUS
  <2>1. /\ announced = << >> /\ taken = << >> /\ pc = "init" /\ TypeOK
    BY InitType DEF Init
  <2>2. RequestEnd[0] = 0
    BY <2>1, RequestEndUnfolded
  <2>3. QED
    BY <2>1, <2>2 DEF Turns, RepliesFollowRequests
<1>2. IInv => TypeOK /\ StreamConserved
  BY DEF IInv
<1>3. QED
  BY <1>1, <1>2, NextTurns, Invariance, PTL DEF Spec

(* For every stream and every way it is cut into segments, the k-th        *)
(* response answers the k-th request, from exactly its bytes.              *)
THEOREM RepliesFollow == Spec => []RepliesFollowRequests
  BY TurnsHold, PTL

-----------------------------------------------------------------------------
(* ConnectionHandler implements HttpService: every step of the child is a  *)
(* step of the service or leaves what the client can see unchanged, for    *)
(* every stream, buffer size, parser and sequence of short writes.  First  *)
(* the mapping.                                                            *)

(* The service looks for the end of a request as the child does.           *)
LEMMA SameScan ==
  ASSUME NEW s
  PROVE  /\ Service!http_find_header_end(s) = http_find_header_end(s)
         /\ Service!http_request_complete(s) <=> http_request_complete(s)
<1>1. Service!http_find_header_end(s) = http_find_header_end(s)
  BY DEF Service!http_find_header_end, http_find_header_end,
         Service!ScanRange, ScanRange, Service!TerminatorAt, TerminatorAt,
         Service!IsFirstTerminator, IsFirstTerminator,
         Service!CR, CR, Service!LF, LF
<1>2. QED
  BY <1>1 DEF Service!http_request_complete, http_request_complete

(* Nothing is reported as failed before the child leaves its loops.        *)
NoEarlyResult == pc \notin {"done", "exited"} => result = "ok"

(* Everything the refinement rests on.                                     *)
RefinementInv == IInv /\ TransmissionInv /\ NoEarlyResult

(* What the mapping makes of the control states.                           *)
LEMMA UnansweredAt ==
  /\ pc \in {"done", "exited"} => UnansweredBytes = << >>
  /\ pc = "send" =>
       UnansweredBytes =
         http_connection_consume(buffer, http_connection_request_length(buffer))
           \o inbound
  /\ pc \notin {"done", "exited", "send"} => UnansweredBytes = buffer \o inbound
  BY DEF UnansweredBytes

(* The number of bytes the service has sent is where the wire ends.        *)
LEMMA SentIsEnd ==
  ASSUME TypeOK, announced # << >>, NEW n \in Nat,
         EndsAt(announced, wire, n)
  PROVE  Service!Sent = n
<1>1. Len(announced) \in Nat /\ Len(announced) > 0
  BY DEF TypeOK
<1>2. CASE n # 0
  BY <1>2 DEF Service!Sent, EndsAt, Unit
<1>3. CASE n = 0
  <2>1. CASE wire = << >>
    BY <1>3, <2>1 DEF Service!Sent
  <2>2. CASE wire # << >>
    <3>1. wire[Len(wire)].response = Len(announced) - 1
      BY <1>3, <2>2 DEF EndsAt, Unit
    <3>2. QED
      BY <1>1, <1>3, <3>1 DEF Service!Sent
  <2>3. QED
    BY <2>1, <2>2
<1>4. QED
  BY <1>2, <1>3

(* The replies of the service are whole exactly when the wire ends at the  *)
(* length of the last one.                                                 *)
LEMMA WholeIsEnd ==
  ASSUME TypeOK, announced # << >>, NEW n \in Nat,
         EndsAt(announced, wire, n)
  PROVE  Service!Whole <=> n = ResponseLength(LastDecision)
  BY SentIsEnd DEF Service!Whole, LastDecision

(* When the child has delivered its responses, the replies are whole.      *)
LEMMA DeliveredIsWhole ==
  ASSUME TypeOK, Delivered
  PROVE  Service!Whole
<1>1. CASE announced = << >>
  BY <1>1 DEF Service!Whole
<1>2. CASE announced # << >>
  <2>1. announced \in Seq(Announcements) /\ Len(announced) \in 1..Len(announced)
    BY <1>2 DEF TypeOK
  <2>2. ResponseLength(LastDecision) \in Nat
    BY <2>1, LengthType, AnnouncedDecision DEF LastDecision
  <2>3. EndsAt(announced, wire, ResponseLength(LastDecision))
    BY <1>2, DeliveredAsEnd
  <2>4. QED
    BY <1>2, <2>2, <2>3, WholeIsEnd
<1>3. QED
  BY <1>1, <1>2

(* Where the child reads or processes requests, the service is ready.      *)
LEMMA ReadyForRequests ==
  ASSUME RefinementInv, pc \in {"recv", "process"}
  PROVE  Service!Ready
<1>1. Outcome = "serving"
  BY DEF Outcome
<1>2. Service!Whole
  BY DeliveredIsWhole DEF RefinementInv, IInv, TransmissionInv, Progress
<1>3. ~Service!SaidClose
  <2>1. CASE announced = << >>
    BY <2>1 DEF Service!SaidClose
  <2>2. CASE announced # << >>
    <3>1. Len(announced) \in DOMAIN announced
      BY <2>2 DEF RefinementInv, IInv, TypeOK
    <3>2. announced[Len(announced)].decision.keep_alive
      BY <3>1 DEF RefinementInv, IInv, ConnectionHeaderHonoured
    <3>3. QED
      BY <3>2 DEF Service!SaidClose
  <2>3. QED
    BY <2>1, <2>2
<1>4. QED
  BY <1>1, <1>2, <1>3 DEF Service!Ready

(* While the child reads or processes requests, the window of the service  *)
(* starts with the buffer, and is the buffer when that is full or nothing  *)
(* is left to read.                                                        *)
LEMMA WindowIsBuffer ==
  ASSUME RefinementInv, pc \in {"recv", "process"}
  PROVE  /\ Service!Window \in Seq(Byte)
         /\ Len(buffer) <= Len(Service!Window)
         /\ \A i \in 1..Len(buffer) : Service!Window[i] = buffer[i]
         /\ inbound = << >> \/ Len(buffer) = config.http_buffer_size
              => Service!Window = buffer
<1> DEFINE size == config.http_buffer_size
           rest == buffer \o inbound
<1>1. /\ buffer \in Seq(Byte) /\ inbound \in Seq(Byte)
      /\ Len(buffer) \in Nat /\ Len(inbound) \in Nat
  BY LenProperties DEF RefinementInv, IInv, TypeOK
<1>2. size \in Nat /\ Len(buffer) <= size
  BY HandlerAssumption DEF RefinementInv, IInv, TypeOK, StreamConserved
<1>3. UnansweredBytes = rest
  BY UnansweredAt
<1>4. /\ rest \in Seq(Byte) /\ Len(rest) = Len(buffer) + Len(inbound)
      /\ \A i \in 1..Len(buffer) : rest[i] = buffer[i]
  BY <1>1
<1>5. SubSeq(rest, 1, Len(buffer)) = buffer
  BY <1>1, Pieces
<1>6. inbound = << >> => rest = buffer
  BY <1>1
<1> HIDE DEF size, rest
<1>7. CASE Len(rest) <= size
  <2>1. Service!Window = rest
    BY <1>3, <1>7 DEF Service!Window, size
  <2>2. Len(buffer) = size => inbound = << >>
    BY <1>1, <1>2, <1>4, <1>7
  <2>3. QED
    BY <1>1, <1>4, <1>6, <2>1, <2>2 DEF size
<1>8. CASE ~(Len(rest) <= size)
  <2>1. Service!Window = SubSeq(rest, 1, size)
    BY <1>3, <1>8 DEF Service!Window, size
  <2>2. inbound # << >>
    BY <1>1, <1>2, <1>4, <1>8
  <2>3. size \in 0..Len(rest)
    BY <1>1, <1>2, <1>4, <1>8
  <2>4. /\ SubSeq(rest, 1, size) \in Seq(Byte)
        /\ Len(SubSeq(rest, 1, size)) = size
    BY <1>4, <2>3, CutAndJoin
  <2>5. \A i \in 1..Len(buffer) : SubSeq(rest, 1, size)[i] = rest[i]
    BY <1>1, <1>2, <1>4, <2>3
  <2>6. QED
    BY <1>2, <1>4, <1>5, <2>1, <2>2, <2>4, <2>5 DEF size
<1>9. QED
  BY <1>7, <1>8

-----------------------------------------------------------------------------
(* The steps                                                               *)

(* A step that leaves everything the mapping looks at alone.               *)
LEMMA InvisibleStep ==
  ASSUME UNCHANGED << config, peer_closed, announced, wire >>,
         UnansweredBytes' = UnansweredBytes, Outcome' = Outcome
  PROVE  UNCHANGED Service!vars
  BY DEF Service!vars

(* A step with which the child gives up.                                   *)
LEMMA FailingStep ==
  ASSUME UNCHANGED << config, peer_closed, announced, wire >>,
         pc \notin {"done", "exited"}, pc' = "done", result' = "failed"
  PROVE  Service!Next
<1>1. Outcome = "serving" /\ Outcome' = "failed"
  BY DEF Outcome
<1>2. UnansweredBytes' = << >>
  BY DEF UnansweredBytes
<1>3. Service!End
  BY <1>1, <1>2 DEF Service!End
<1>4. QED
  BY <1>3 DEF Service!Next

(* http_prepare_response answers the next request of the stream, and its   *)
(* bytes are those of the stream.                                          *)
LEMMA PrepareAnswers ==
  ASSUME RefinementInv, NEW file \in FileAnswers, Prepare(file)
  PROVE  Service!Answer
<1> USE DEF environment, process, history
<1> DEFINE length == http_connection_request_length(buffer)
           request == http_connection_request(buffer)
           kept == http_connection_consume(buffer, length)
           decision == http_prepare_response(Parse(request, config), file)
           end == Service!http_find_header_end(Service!Window)
<1>1. /\ pc = "process" /\ http_request_complete(buffer) /\ pc' = "send"
      /\ announced' = Append(announced, [request |-> request,
                                         decision |-> decision])
      /\ UNCHANGED << config, peer_closed, buffer, inbound, wire >>
  BY DEF Prepare, http_connection_request_ready
<1>2. buffer \in Seq(Byte) /\ inbound \in Seq(Byte)
  BY DEF RefinementInv, IInv, TypeOK
<1>3. /\ request \in Seq(Byte) /\ kept \in Seq(Byte)
      /\ request \o kept = buffer
  BY <1>2, ConsumeKeepsTheRest
<1>4. Len(request) = length
  BY <1>2, HeaderEnd, CutAndJoin
     DEF http_connection_request, http_connection_request_length
<1>5. end = length
  <2>1. http_find_header_end(Service!Window) = http_find_header_end(buffer)
    BY <1>1, <1>2, WindowIsBuffer, EndIgnoresWhatFollows
  <2>2. QED
    BY <2>1, SameScan DEF http_connection_request_length
<1>6. Service!http_request_complete(Service!Window)
  BY <1>1, <1>5 DEF Service!http_request_complete, http_request_complete,
                    http_connection_request_length
<1>7. UnansweredBytes = buffer \o inbound
  BY <1>1, UnansweredAt
<1>8. UnansweredBytes' = kept \o inbound
  BY <1>1 DEF UnansweredBytes
<1>9. Outcome = "serving" /\ Outcome' = "serving"
  BY <1>1 DEF Outcome
<1>10. decision \in PossibleDecisions(request, config)
  BY DEF PossibleDecisions
<1> HIDE DEF length, request, kept, decision, end
<1>11. UnansweredBytes = request \o (kept \o inbound)
  <2>1. (request \o kept) \o inbound = request \o (kept \o inbound)
    <3>1. request \in Seq(Byte) /\ kept \in Seq(Byte)
      BY <1>3
    <3>2. QED
      BY <1>2, <3>1
  <2>2. request \o kept = buffer
    BY <1>3
  <2>3. QED
    BY <1>7, <2>1, <2>2
<1>12. kept \o inbound \in Seq(Byte)
  BY <1>2, <1>3
<1>13. /\ SubSeq(UnansweredBytes, 1, end) = request
       /\ SubSeq(UnansweredBytes, end + 1, Len(UnansweredBytes))
            = kept \o inbound
  BY <1>3, <1>4, <1>5, <1>11, <1>12, Pieces
<1>14. Service!Ready
  BY <1>1, ReadyForRequests
<1>15. QED
  BY <1>1, <1>6, <1>8, <1>9, <1>10, <1>13, <1>14 DEF Service!Answer, end

(* The 431 of a full buffer is the rejection of the service.               *)
LEMMA BufferFullRejects ==
  ASSUME RefinementInv, BufferFull
  PROVE  Service!Reject
<1> USE DEF environment, process, history
<1>1. /\ pc = "recv" /\ pc' = "err" /\ receive_capacity = 0
      /\ announced' = Append(announced, [request |-> << >>,
                                         decision |-> ErrorDecision(431)])
      /\ UNCHANGED << config, peer_closed, buffer, inbound, wire >>
  BY DEF BufferFull, StartErrorReply
<1>2. buffer \in Seq(Byte) /\ inbound \in Seq(Byte)
  BY DEF RefinementInv, IInv, TypeOK
<1>3. /\ config.http_buffer_size \in Nat /\ Len(buffer) \in Nat
      /\ Len(inbound) \in Nat /\ RecvBufferSize \in Nat \ {0}
  BY <1>2, LenProperties, HandlerAssumption DEF RefinementInv, IInv, TypeOK
<1>4. Len(buffer) = config.http_buffer_size
  BY <1>1, <1>3 DEF receive_capacity, http_connection_buffer_space
<1>5. Service!Window = buffer
  BY <1>1, <1>4, WindowIsBuffer
<1>6. ~Service!http_request_complete(Service!Window)
  <2>1. ~http_request_complete(buffer)
    BY <1>1 DEF RefinementInv, IInv, NoRequestStranded,
                http_connection_request_ready
  <2>2. QED
    BY <1>5, <2>1, SameScan
<1>7. /\ UnansweredBytes = buffer \o inbound
      /\ UnansweredBytes' = buffer \o inbound
  BY <1>1 DEF UnansweredBytes
<1>8. Len(UnansweredBytes) >= config.http_buffer_size
  BY <1>2, <1>3, <1>4, <1>7
<1>9. Outcome = "serving" /\ Outcome' = "serving"
  BY <1>1 DEF Outcome
<1>10. Service!Ready
  BY <1>1, ReadyForRequests
<1>11. QED
  BY <1>1, <1>6, <1>7, <1>8, <1>9, <1>10 DEF Service!Reject

(* Every accepted send or sendfile is a step of the service.               *)
LEMMA TransmitSends ==
  ASSUME RefinementInv, Transmit
  PROVE  Service!Send
<1> USE DEF environment, process, history
<1>1. TypeOK /\ Progress
  BY DEF RefinementInv, IInv, TransmissionInv
<1>2. /\ UNCHANGED << config, peer_closed, announced, pc, buffer, inbound >>
      /\ pc \in {"send", "err"}
  BY <1>1, TransmitFrame
<1>3. announced # << >>
  BY <1>1, TransmitAdvances
<1>4. PICK from \in Nat, n \in Nat :
            /\ n > 0
            /\ from + n <= ResponseLength(LastDecision)
            /\ EndsAt(announced, wire, from)
            /\ wire' = wire \o [i \in 1..n |-> Unit(Len(announced), from + i)]
  BY <1>1, TransmitAdvances
<1>5. ResponseLength(LastDecision) \in Nat
  <2>1. announced \in Seq(Announcements) /\ Len(announced) \in 1..Len(announced)
    BY <1>1, <1>3 DEF TypeOK
  <2>2. QED
    BY <2>1, LengthType, AnnouncedDecision DEF LastDecision
<1>6. Service!Sent = from /\ ~Service!Whole
  BY <1>1, <1>3, <1>4, <1>5, SentIsEnd, WholeIsEnd
<1>7. n \in 1..(ResponseLength(announced[Len(announced)].decision)
                  - Service!Sent)
  BY <1>4, <1>5, <1>6 DEF LastDecision
<1>8. wire' = wire \o [i \in 1..n |-> [response |-> Len(announced),
                                      position |-> Service!Sent + i]]
  BY <1>4, <1>6 DEF Unit
<1>9. /\ UnansweredBytes' = UnansweredBytes
      /\ Outcome = "serving" /\ Outcome' = Outcome
  BY <1>2 DEF UnansweredBytes, Outcome
<1>10. QED
  BY <1>2, <1>6, <1>7, <1>8, <1>9 DEF Service!Send

(* A request finished is not visible, or ends the connection as announced. *)
LEMMA FinishContinuesOrEnds ==
  ASSUME RefinementInv, FinishRequest
  PROVE  Service!Next \/ UNCHANGED Service!vars
<1> USE DEF environment, process, history
<1>1. /\ pc = "send" /\ SendFinished(response)
      /\ pc' = IF close_connection THEN "done" ELSE "process"
      /\ buffer' = http_connection_consume(buffer,
                     http_connection_request_length(buffer))
      /\ UNCHANGED << config, peer_closed, inbound, announced, wire, result >>
  BY DEF FinishRequest, AfterRequest
<1>2. Outcome = "serving"
  BY <1>1 DEF Outcome
<1>3. CASE ~close_connection
  <2>1. UnansweredBytes' = UnansweredBytes
    BY <1>1, <1>3 DEF UnansweredBytes
  <2>2. Outcome' = Outcome
    BY <1>1, <1>3 DEF Outcome
  <2>3. QED
    BY <1>1, <2>1, <2>2, InvisibleStep
<1>4. CASE close_connection
  <2>1. UnansweredBytes' = << >> /\ Outcome' = "ok"
    BY <1>1, <1>4 DEF UnansweredBytes, Outcome, RefinementInv, NoEarlyResult
  <2>2. Service!SaidClose
    BY <1>1, <1>4 DEF RefinementInv, IInv, Promise, Service!SaidClose
  <2>3. /\ TypeOK /\ announced # << >> /\ Underway(response, LastDecision)
        /\ EndsAt(announced, wire, SentOf(response))
    BY <1>1 DEF RefinementInv, IInv, TransmissionInv, Progress
  <2>4. Service!Whole
    BY <1>1, <2>3, FinishedMeansWhole, UnderwayFacts, WholeIsEnd
  <2>5. Service!End
    BY <1>1, <1>2, <2>1, <2>2, <2>4 DEF Service!End
  <2>6. QED
    BY <2>5 DEF Service!Next
<1>5. QED
  BY <1>3, <1>4

(* SIGPIPE strikes only a client that is gone and misses something.        *)
LEMMA KilledOnlyWhenMissing ==
  ASSUME RefinementInv, KilledBySIGPIPE
  PROVE  Service!End
<1> USE DEF environment, process, history
<1>1. /\ peer_closed /\ pc' = "exited" /\ result' = "killed"
      /\ pc \in {"send", "err"}
      /\ UNCHANGED << config, peer_closed, announced, wire >>
  BY DEF KilledBySIGPIPE
<1>2. TypeOK /\ announced # << >>
  BY <1>1 DEF RefinementInv, IInv, TransmissionInv, Progress
<1>3. ~Service!Whole
  <2>1. CASE pc = "send"
    <3>1. /\ ~SendFinished(response) /\ Underway(response, LastDecision)
          /\ EndsAt(announced, wire, SentOf(response))
      BY <2>1 DEF KilledBySIGPIPE, RefinementInv, TransmissionInv, Progress
    <3>2. QED
      BY <1>2, <3>1, FinishedMeansWhole, UnderwayFacts, WholeIsEnd
  <2>2. CASE pc = "err"
    <3>1. /\ total_sent < ErrorReplyLength /\ total_sent \in Nat
          /\ LastDecision = ErrorDecision(431)
          /\ EndsAt(announced, wire, total_sent)
      BY <1>2, <2>2 DEF KilledBySIGPIPE, RefinementInv, TransmissionInv,
                        Progress, TypeOK
    <3>2. ResponseLength(LastDecision) = ErrorReplyLength
      BY <3>1 DEF ResponseLength, ErrorDecision, ErrorReplyLength
    <3>3. HeadersLength \in Nat /\ ErrorBodyLength \in Nat
      BY HeadersAssumption, HttpAssumption
    <3>4. total_sent # ErrorReplyLength
      BY <3>1, <3>3 DEF ErrorReplyLength
    <3>5. QED
      BY <1>2, <3>1, <3>2, <3>4, WholeIsEnd
  <2>3. QED
    BY <1>1, <2>1, <2>2
<1>4. /\ Outcome = "serving" /\ Outcome' = "killed"
      /\ UnansweredBytes' = << >>
  BY <1>1 DEF Outcome, UnansweredBytes
<1>5. QED
  BY <1>1, <1>3, <1>4 DEF Service!End

(* Every step of the child is a step of the service, or invisible.         *)
LEMMA StepSimulation ==
  RefinementInv /\ [Next]_vars => [Service!Next]_(Service!vars)
<1> SUFFICES ASSUME RefinementInv, [Next]_vars
             PROVE  Service!Next \/ UNCHANGED Service!vars
  OBVIOUS
<1> USE DEF environment, process, history
<1>0. /\ TypeOK /\ Promise /\ NoRequestStranded
      /\ pc \in {"init", "recv", "process"} => Delivered
  BY DEF RefinementInv, IInv, TransmissionInv, Progress
<1>1. CASE Jump
  <2>1. /\ UNCHANGED << config, peer_closed, announced, wire >>
        /\ UNCHANGED << buffer, inbound >>
    BY <1>0, <1>1, JumpFrame
  <2>2. CASE ReceiveEOF
    <3>1. /\ pc = "recv" /\ inbound = << >> /\ peer_closed
          /\ pc' = "done" /\ result' = "ok"
      BY <2>2 DEF ReceiveEOF, Leave
    <3>2. Service!Whole
      BY <1>0, <3>1, DeliveredIsWhole
    <3>3. ~Service!http_request_complete(Service!Window)
      BY <1>0, <3>1, WindowIsBuffer, SameScan
         DEF NoRequestStranded, http_connection_request_ready
    <3>4. /\ Outcome = "serving" /\ Outcome' = "ok"
          /\ UnansweredBytes' = << >>
      BY <3>1 DEF Outcome, UnansweredBytes
    <3>5. Service!End
      BY <2>1, <3>1, <3>2, <3>3, <3>4 DEF Service!End
    <3>6. QED
      BY <3>5 DEF Service!Next
  <2>3. CASE pc' = "recv"
    <3>1. pc \in {"init", "process"}
      BY <1>0, <1>1, <2>3, JumpFrame
    <3>2. /\ UnansweredBytes' = UnansweredBytes
          /\ Outcome' = Outcome
      BY <2>1, <2>3, <3>1 DEF UnansweredBytes, Outcome
    <3>3. QED
      BY <2>1, <3>2, InvisibleStep
  <2>4. CASE ~ReceiveEOF /\ pc' # "recv"
    <3>1. ~NoRequestReady
      BY <1>0, <2>4 DEF NoRequestReady, Promise
    <3>2. /\ pc \notin {"done", "exited"}
          /\ pc' = "done" /\ result' = "failed"
      BY <1>1, <2>4, <3>1
         DEF Jump, ConnectionInit, ReceiveFails, ConfigRefused,
             SendFileTruncated, SendFails, ErrorReplyEnds, Leave
    <3>3. QED
      BY <2>1, <3>2, FailingStep
  <2>5. QED
    BY <2>2, <2>3, <2>4
<1>2. CASE Transmit
  BY <1>2, TransmitSends DEF Service!Next
<1>3. CASE PeerCloses
  <2>1. /\ ~peer_closed /\ peer_closed' = TRUE
        /\ UNCHANGED << config, inbound, pc, buffer, result, announced, wire >>
    BY <1>3 DEF PeerCloses
  <2>2. UnansweredBytes' = UnansweredBytes /\ Outcome' = Outcome
    BY <2>1 DEF UnansweredBytes, Outcome
  <2>3. Service!ClientCloses
    BY <2>1, <2>2 DEF Service!ClientCloses
  <2>4. QED
    BY <2>3 DEF Service!Next
<1>4. CASE FileResized
  <2>1. UNCHANGED << config, peer_closed, inbound, pc, buffer, result,
                     announced, wire >>
    BY <1>4 DEF FileResized
  <2>2. UnansweredBytes' = UnansweredBytes /\ Outcome' = Outcome
    BY <2>1 DEF UnansweredBytes, Outcome
  <2>3. QED
    BY <2>1, <2>2, InvisibleStep
<1>5. CASE BufferFull
  BY <1>5, BufferFullRejects DEF Service!Next
<1>6. ASSUME NEW n \in 1..Len(inbound), Receive(n)
      PROVE  UNCHANGED Service!vars
  <2> DEFINE got == SubSeq(inbound, 1, n)
             left == SubSeq(inbound, n + 1, Len(inbound))
  <2>1. /\ got \in Seq(Byte) /\ left \in Seq(Byte) /\ got \o left = inbound
    BY <1>0, <1>6, FeedAccepts, InboundParts
  <2>2. /\ pc = "recv" /\ pc' = "process"
        /\ buffer' = buffer \o got /\ inbound' = left
        /\ UNCHANGED << config, peer_closed, announced, wire, result >>
    BY <1>0, <1>6, FeedAccepts DEF Receive, http_connection_feed
  <2>3. buffer \in Seq(Byte)
    BY <1>0 DEF TypeOK
  <2> HIDE DEF got, left
  <2>4. (buffer \o got) \o left = buffer \o (got \o left)
    <3>1. got \in Seq(Byte) /\ left \in Seq(Byte)
      BY <2>1
    <3>2. QED
      BY <2>3, <3>1
  <2>5. /\ UnansweredBytes = buffer \o inbound
        /\ UnansweredBytes' = buffer' \o inbound'
    BY <2>2 DEF UnansweredBytes
  <2>6. UnansweredBytes' = UnansweredBytes
    BY <2>1, <2>2, <2>4, <2>5
  <2>7. Outcome' = Outcome
    BY <2>2 DEF Outcome
  <2>8. QED
    BY <2>2, <2>6, <2>7, InvisibleStep
<1>7. ASSUME NEW file \in FileAnswers, Prepare(file)
      PROVE  Service!Next
  BY <1>7, PrepareAnswers DEF Service!Next
<1>8. CASE PrepareFails
  BY <1>8, FailingStep DEF PrepareFails, Leave
<1>9. CASE FinishRequest
  BY <1>9, FinishContinuesOrEnds
<1>10. CASE KilledBySIGPIPE
  BY <1>10, KilledOnlyWhenMissing DEF Service!Next
<1>11. CASE ConnectionDestroy
  <2>1. /\ pc = "done" /\ pc' = "exited"
        /\ UNCHANGED << config, peer_closed, announced, wire, result >>
    BY <1>11 DEF ConnectionDestroy
  <2>2. UnansweredBytes' = UnansweredBytes /\ Outcome' = Outcome
    BY <2>1 DEF UnansweredBytes, Outcome
  <2>3. QED
    BY <2>1, <2>2, InvisibleStep
<1>12. CASE UNCHANGED vars
  <2>1. UNCHANGED << config, peer_closed, inbound, pc, buffer, result,
                     announced, wire >>
    BY <1>12 DEF vars
  <2>2. UnansweredBytes' = UnansweredBytes /\ Outcome' = Outcome
    BY <2>1 DEF UnansweredBytes, Outcome
  <2>3. QED
    BY <2>1, <2>2, InvisibleStep
<1>13. QED
  BY <1>1, <1>2, <1>3, <1>4, <1>5, <1>6, <1>7, <1>8, <1>9, <1>10, <1>11,
     <1>12, NextSplit

(* The child starts as the service does, with the whole stream ahead.      *)
LEMMA InitSimulation == Init => Service!Init
<1> SUFFICES ASSUME Init PROVE Service!Init
  OBVIOUS
<1>1. stream \in Seq(Byte)
  BY HandlerAssumption DEF Init
<1>2. << >> \o stream = stream
  BY <1>1
<1>3. UnansweredBytes = stream /\ Outcome = "serving"
  BY <1>2 DEF Init, UnansweredBytes, Outcome
<1>4. QED
  BY <1>3 DEF Init, Service!Init

(* The result is not touched before the child leaves its loops.            *)
LEMMA NextEarlyResult ==
  TypeOK /\ NoEarlyResult /\ [Next]_vars => NoEarlyResult'
<1> SUFFICES ASSUME TypeOK, NoEarlyResult, [Next]_vars
             PROVE  NoEarlyResult'
  OBVIOUS
<1> USE DEF environment, process, history, NoEarlyResult
<1>1. CASE Jump
  BY <1>1 DEF Jump, ConnectionInit, ReceiveEOF, ReceiveFails, ConfigRefused,
              NoRequestReady, SendFileTruncated, SendFails, ErrorReplyEnds,
              Leave
<1>2. CASE Transmit
  BY <1>2, TransmitFrame
<1>3. CASE PeerCloses \/ FileResized
  BY <1>3 DEF PeerCloses, FileResized
<1>4. CASE BufferFull
  BY <1>4 DEF BufferFull, StartErrorReply
<1>5. ASSUME NEW n \in 1..Len(inbound), Receive(n)
      PROVE  NoEarlyResult'
  BY <1>5 DEF Receive
<1>6. ASSUME NEW file \in FileAnswers, Prepare(file)
      PROVE  NoEarlyResult'
  BY <1>6 DEF Prepare
<1>7. CASE PrepareFails \/ FinishRequest
  BY <1>7 DEF PrepareFails, FinishRequest, Leave
<1>8. CASE KilledBySIGPIPE \/ ConnectionDestroy
  BY <1>8 DEF KilledBySIGPIPE, ConnectionDestroy
<1>9. CASE UNCHANGED vars
  BY <1>9 DEF vars
<1>10. QED
  BY <1>1, <1>2, <1>3, <1>4, <1>5, <1>6, <1>7, <1>8, <1>9, NextSplit

(* For every stream of bytes, every segmentation, every buffer size and    *)
(* every failure, what fork_server_handle_connection does is a behaviour   *)
(* of the service: requests answered in order and from the right bytes,    *)
(* replies whole and in order, none after a close, and success only when   *)
(* nothing is missing.                                                     *)
THEOREM HandlerImplementsService == Spec => ImplementsService
<1>1. Init => NoEarlyResult
  BY DEF Init, NoEarlyResult
<1>2. Spec => []NoEarlyResult
  BY <1>1, NextEarlyResult, TypeCorrect, PTL DEF Spec
<1>3. Spec => []RefinementInv
  BY <1>2, Invariance, TransmissionInvariance, PTL DEF RefinementInv
<1>4. Spec => Service!Spec
  BY <1>3, InitSimulation, StepSimulation, PTL DEF Spec, Service!Spec
<1>5. QED
  BY <1>4 DEF ImplementsService

-----------------------------------------------------------------------------
(* Every step advances: the measure Advances compares decreases, so that   *)
(* no loop of the child can run in place.                                  *)

(* While a response is being sent its request is in the buffer.            *)
RequestHeld == pc = "send" => http_connection_request_ready(buffer)

(* Every step keeps the request until its response is out.                 *)
LEMMA NextHeld ==
  TypeOK /\ RequestHeld /\ [Next]_vars => RequestHeld'
<1> SUFFICES ASSUME TypeOK, RequestHeld, [Next]_vars PROVE RequestHeld'
  OBVIOUS
<1> USE DEF environment, process, history, RequestHeld
<1>1. CASE Jump
  BY <1>1, JumpFrame
<1>2. CASE Transmit
  BY <1>2, TransmitFrame
<1>3. CASE PeerCloses \/ FileResized
  BY <1>3 DEF PeerCloses, FileResized
<1>4. CASE BufferFull
  BY <1>4 DEF BufferFull, StartErrorReply
<1>5. ASSUME NEW n \in 1..Len(inbound), Receive(n)
      PROVE  RequestHeld'
  BY <1>5, FeedAccepts DEF Receive
<1>6. ASSUME NEW file \in FileAnswers, Prepare(file)
      PROVE  RequestHeld'
  BY <1>6 DEF Prepare
<1>7. CASE PrepareFails
  BY <1>7 DEF PrepareFails, Leave
<1>8. CASE FinishRequest
  BY <1>8 DEF FinishRequest, AfterRequest
<1>9. CASE KilledBySIGPIPE \/ ConnectionDestroy
  BY <1>9 DEF KilledBySIGPIPE, ConnectionDestroy
<1>10. CASE UNCHANGED vars
  BY <1>10 DEF vars
<1>11. QED
  BY <1>1, <1>2, <1>3, <1>4, <1>5, <1>6, <1>7, <1>8, <1>9, <1>10, NextSplit

(* The order of the places, apart from the steps that read or consume.     *)
LEMMA Stages ==
  /\ Stage["exited"] < Stage["done"] /\ Stage["done"] < Stage["err"]
  /\ Stage["err"] < Stage["send"] /\ Stage["send"] < Stage["recv"]
  /\ Stage["recv"] < Stage["process"] /\ Stage["process"] < Stage["init"]
  /\ \A p \in {"init", "recv", "process", "send", "err", "done", "exited"} :
       Stage[p] \in Nat
  BY DEF Stage

(* Steps that leave a loop bring the child closer to its end.              *)
LEMMA JumpAdvances ==
  ASSUME Jump, TypeOK
  PROVE  Advances
<1>1. /\ UNCHANGED << inbound, buffer >>
      /\ pc' \in {"recv", "done"}
      /\ pc' = "recv" => pc \in {"init", "process"}
  BY JumpFrame DEF environment
<1>2. pc \notin {"done", "exited"}
  BY DEF Jump, ConnectionInit, ReceiveEOF, ReceiveFails, ConfigRefused,
         NoRequestReady, SendFileTruncated, SendFails, ErrorReplyEnds
<1>3. CASE pc' = "recv"
  <2>1. CASE pc = "init"
    BY <1>1, <1>3, <2>1, Stages DEF Advances
  <2>2. CASE pc = "process"
    BY <1>1, <1>3, <2>2, Stages DEF Advances
  <2>3. QED
    BY <1>1, <1>3, <2>1, <2>2
<1>4. CASE pc' = "done"
  <2>1. Stage["done"] < Stage[pc]
    BY <1>2, Stages, SMTT(30) DEF TypeOK
  <2>2. QED
    BY <1>1, <1>4, <2>1 DEF Advances
<1>5. QED
  BY <1>1, <1>3, <1>4

(* A step that sends hands over bytes the response lacks.                  *)
LEMMA TransmitShortens ==
  ASSUME TypeOK, Progress, Transmit
  PROVE  Advances
<1>1. /\ UNCHANGED << inbound, buffer, pc, announced >>
      /\ pc \in {"send", "err"}
  BY TransmitFrame DEF environment
<1>2. announced # << >>
  BY TransmitAdvances
<1>3. PICK from \in Nat, n \in Nat :
        /\ n > 0
        /\ from + n <= ResponseLength(LastDecision)
        /\ pc = "send" => /\ from = SentOf(response)
                          /\ SentOf(response') = from + n
        /\ pc = "err" => from = total_sent /\ total_sent' = from + n
  BY TransmitAdvances
<1>4. ResponseLength(LastDecision) \in Nat
  <2>1. announced \in Seq(Announcements) /\ Len(announced) \in 1..Len(announced)
    BY <1>2 DEF TypeOK
  <2>2. QED
    BY <2>1, LengthType, AnnouncedDecision DEF LastDecision
<1>5. /\ Unsent = ResponseLength(LastDecision) - from
      /\ Unsent' = ResponseLength(LastDecision) - (from + n)
  <2>1. CASE pc = "err"
    BY <1>1, <1>3, <2>1 DEF Unsent, LastDecision
  <2>2. CASE pc = "send"
    BY <1>1, <1>3, <2>2 DEF Unsent, LastDecision, SentOf
  <2>3. QED
    BY <1>1, <2>1, <2>2
<1>6. Unsent' \in 0..(Unsent - 1)
  BY <1>3, <1>4, <1>5
<1>7. QED
  BY <1>1, <1>6 DEF Advances

(* A request answered leaves the buffer.                                   *)
LEMMA FinishConsumes ==
  ASSUME TypeOK, RequestHeld, FinishRequest
  PROVE  Advances
<1> DEFINE length == http_connection_request_length(buffer)
<1>1. /\ pc = "send" /\ inbound' = inbound
      /\ buffer' = http_connection_consume(buffer, length)
  BY DEF FinishRequest, environment
<1>2. buffer \in Seq(Byte) /\ Len(buffer) \in Nat
  BY LenProperties DEF TypeOK
<1>3. length \in 1..Len(buffer)
  BY <1>1, <1>2, HeaderEnd
     DEF RequestHeld, http_connection_request_ready, http_request_complete,
         http_connection_request_length
<1> HIDE DEF length
<1>4. buffer' = SubSeq(buffer, length + 1, Len(buffer))
  BY <1>1, <1>2, <1>3 DEF http_connection_consume
<1>5. Len(buffer') = Len(buffer) - length
  BY <1>2, <1>3, <1>4
<1>6. QED
  BY <1>1, <1>2, <1>3, <1>5 DEF Advances

(* Every step of the child decreases the measure.                          *)
LEMMA StepAdvances ==
  TypeOK /\ Progress /\ RequestHeld /\ [Next]_vars
    => UNCHANGED process \/ Advances
<1> SUFFICES ASSUME TypeOK, Progress, RequestHeld, [Next]_vars
             PROVE  UNCHANGED process \/ Advances
  OBVIOUS
<1>1. CASE Jump
  BY <1>1, JumpAdvances
<1>2. CASE Transmit
  BY <1>2, TransmitShortens
<1>3. CASE PeerCloses \/ FileResized
  BY <1>3 DEF PeerCloses, FileResized
<1>4. CASE BufferFull
  <2>1. pc = "recv" /\ pc' = "err" /\ UNCHANGED << inbound, buffer >>
    BY <1>4 DEF BufferFull, StartErrorReply, environment
  <2>2. QED
    BY <2>1, Stages DEF Advances
<1>5. ASSUME NEW n \in 1..Len(inbound), Receive(n)
      PROVE  Advances
  <2>1. inbound \in Seq(Byte) /\ Len(inbound) \in Nat
    BY LenProperties DEF TypeOK
  <2>2. inbound' = SubSeq(inbound, n + 1, Len(inbound))
    BY <1>5 DEF Receive
  <2>3. Len(inbound') = Len(inbound) - n
    BY <2>1, <2>2
  <2>4. QED
    BY <2>1, <2>3 DEF Advances
<1>6. ASSUME NEW file \in FileAnswers, Prepare(file)
      PROVE  Advances
  <2>1. pc = "process" /\ pc' = "send" /\ UNCHANGED << inbound, buffer >>
    BY <1>6 DEF Prepare
  <2>2. QED
    BY <2>1, Stages DEF Advances
<1>7. CASE PrepareFails
  <2>1. pc = "process" /\ pc' = "done" /\ UNCHANGED << inbound, buffer >>
    BY <1>7 DEF PrepareFails, Leave, environment
  <2>2. QED
    BY <2>1, Stages DEF Advances
<1>8. CASE FinishRequest
  BY <1>8, FinishConsumes
<1>9. CASE KilledBySIGPIPE
  <2>1. pc \in {"send", "err"} /\ pc' = "exited"
        /\ UNCHANGED << inbound, buffer >>
    BY <1>9 DEF KilledBySIGPIPE, environment
  <2>2. QED
    BY <2>1, Stages DEF Advances
<1>10. CASE ConnectionDestroy
  <2>1. /\ pc = "done" /\ pc' = "exited" /\ inbound' = inbound
        /\ buffer' = << >>
    BY <1>10 DEF ConnectionDestroy, environment
  <2>2. CASE buffer = << >>
    BY <2>1, <2>2, Stages DEF Advances
  <2>3. CASE buffer # << >>
    <3>1. Len(buffer') < Len(buffer)
      BY <2>1, <2>3 DEF TypeOK
    <3>2. QED
      BY <2>1, <3>1 DEF Advances
  <2>4. QED
    BY <2>2, <2>3
<1>11. CASE UNCHANGED vars
  BY <1>11 DEF vars
<1>12. QED
  BY <1>1, <1>2, <1>3, <1>4, <1>5, <1>6, <1>7, <1>8, <1>9, <1>10, <1>11,
     NextSplit

(* For every stream, buffer size and parser, and whatever the client, the  *)
(* kernel and the file system do, each step of the child decreases a       *)
(* well-founded measure.                                                   *)
THEOREM NoStepInPlace == Spec => EveryStepAdvances
<1>1. Init => RequestHeld
  BY DEF Init, RequestHeld
<1>2. Spec => []RequestHeld
  BY <1>1, NextHeld, TypeCorrect, PTL DEF Spec
<1>3. TransmissionInv => Progress
  BY DEF TransmissionInv
<1>4. Spec => [][UNCHANGED process \/ Advances]_vars
  BY <1>2, <1>3, StepAdvances, TypeCorrect, TransmissionInvariance, PTL
     DEF Spec
<1>5. QED
  BY <1>4 DEF EveryStepAdvances

=============================================================================
