-------------------------- MODULE ConnectionHandler --------------------------
(***************************************************************************)
(* One child process serving one connection: the receive loop of           *)
(* fork_server_handle_connection, http_process_connection, and the         *)
(* transmission of responses by http_response_send_blocking, or by         *)
(* io_send_all for the 431 of a full buffer.                               *)
(*                                                                         *)
(* The environment is the client (which bytes it sends, how TCP cuts them  *)
(* into segments, when it goes away), the kernel (short writes, errors,    *)
(* SIGPIPE, timeouts) and whoever changes the served files.                *)
(*                                                                         *)
(* A system call that fails with EINTR is retried with the state           *)
(* unchanged, so an interruption is a stuttering step.                     *)
(***************************************************************************)
EXTENDS Http, HttpConnection, HttpResponse

CONSTANTS
  Byte,              \* the bytes a client may send, CR and LF among them
  Streams,           \* what a client may send over a whole connection
  Configs,           \* the configurations config_parse_args lets through
  RecvBufferSize,    \* sizeof receive_buffer, 4096 in the code
  FileErrors,        \* errno values with which file_open_path fails
  FileSizes,         \* sizes a served file may have
  Parse(_, _)        \* what http_parse_request makes of the bytes of a
                     \*   request under a configuration

ASSUME HandlerAssumption ==
  /\ Streams \subseteq Seq(Byte)
  /\ Configs \subseteq
       [http_buffer_size : Nat \ {0}, http_max_headers : Nat,
        http_header_name_max : Nat, http_header_value_max : Nat]
  /\ RecvBufferSize \in Nat \ {0}
  /\ "OK" \notin FileErrors
  /\ FileSizes \subseteq Nat

VARIABLES
  config,            \* the server's configuration, never changed
  stream,            \* all the bytes this client will ever send
  inbound,           \* the part of stream that recv has not returned yet
  peer_closed,       \* the client has closed its end
  disk_size,         \* present size of the file being served
  pc,                \* where the child is
  buffer,            \* connection.buffer, its buffer_used bytes
  close_connection,  \* connection.close_connection
  response,          \* connection.response
  total_sent,        \* progress of http_send_error's io_send_all calls
  open_files,        \* descriptors of served files the process holds
  result,            \* what fork_server_handle_connection returns
  taken,             \* history: the bytes of the requests consumed
  announced,         \* history: for each response begun, the bytes of its
                     \*   request and the decision its headers announce
  wire               \* history: the bytes handed to the socket, each as
                     \*   [response, position in it]

environment == << config, stream, inbound, peer_closed, disk_size >>
process == << pc, buffer, close_connection, response, total_sent, open_files,
              result >>
history == << taken, announced, wire >>
vars == << environment, process, history >>

-----------------------------------------------------------------------------
(* Bytes of a response as its headers announce it.                         *)
ResponseLength(decision) ==
  HeadersLength + IF decision.send_body THEN decision.content_length ELSE 0

(* Mutant: a short write is followed by the same bytes again.              *)
SliceFromStart(from, n) ==
  [i \in 1..n |-> [response |-> Len(announced), position |-> i]]

(* Bytes from+1 .. from+n of the response being sent.                      *)
Slice(from, n) ==
  [i \in 1..n |-> [response |-> Len(announced), position |-> from + i]]

FileAnswers ==
  [errno : {"OK"}, size : FileSizes] \cup [errno : FileErrors, size : {0}]

(* Mutant: room kept for a terminating NUL.                                *)
receive_capacity_nul ==
  LET space == http_connection_buffer_space(buffer, config.http_buffer_size)
  IN  IF space - 1 < RecvBufferSize THEN space - 1 ELSE RecvBufferSize

(* The part of the receive buffer one recv may fill.                       *)
receive_capacity ==
  LET space == http_connection_buffer_space(buffer, config.http_buffer_size)
  IN  IF space < RecvBufferSize THEN space ELSE RecvBufferSize

Init ==
  /\ config \in Configs
  /\ stream \in Streams
  /\ inbound = stream
  /\ peer_closed = FALSE
  /\ disk_size = 0
  /\ pc = "init"
  /\ buffer = << >>
  /\ close_connection = FALSE
  /\ response = http_response_init
  /\ total_sent = 0
  /\ open_files = 0
  /\ result = "ok"
  /\ taken = << >>
  /\ announced = << >>
  /\ wire = << >>

-----------------------------------------------------------------------------
(* The environment                                                         *)

PeerCloses ==
  /\ ~peer_closed
  /\ peer_closed' = TRUE
  /\ UNCHANGED << config, stream, inbound, disk_size, process, history >>

(* Another process rewrites the file between its fstat and the end of the  *)
(* transmission.                                                           *)
FileResized ==
  /\ response.file_fd # NoFd
  /\ \E size \in FileSizes \ {disk_size} : disk_size' = size
  /\ UNCHANGED << config, stream, inbound, peer_closed, process, history >>

-----------------------------------------------------------------------------
(* fork_server_handle_connection                                           *)

Leave(outcome) == pc' = "done" /\ result' = outcome

(* http_connection_init, whose malloc may fail.                            *)
ConnectionInit ==
  /\ pc = "init"
  /\ \/ pc' = "recv" /\ UNCHANGED result
     \/ Leave("failed")
  /\ UNCHANGED << environment, buffer, close_connection, response, total_sent,
                  open_files, history >>

(* http_send_error starts to send a 431 outside of the response state.     *)
StartErrorReply ==
  /\ pc' = "err"
  /\ announced' = Append(announced, [request |-> << >>,
                                     decision |-> ErrorDecision(431)])
  /\ total_sent' = 0

(* The buffer is full of one unfinished request.                           *)
BufferFull ==
  /\ pc = "recv"
  /\ receive_capacity = 0
  /\ StartErrorReply
  /\ UNCHANGED << environment, buffer, close_connection, response, open_files,
                  result, taken, wire >>

(* recv returns n bytes and they are fed to the connection.                *)
Receive(n) ==
  /\ pc = "recv"
  /\ n \in 1..receive_capacity
  /\ n <= Len(inbound)
  /\ inbound' = SubSeq(inbound, n + 1, Len(inbound))
  /\ IF http_connection_feed_ok(buffer, config.http_buffer_size, n)
     THEN /\ buffer' = http_connection_feed(buffer, SubSeq(inbound, 1, n))
          /\ pc' = "process"
          /\ UNCHANGED << announced, total_sent >>
     ELSE StartErrorReply /\ UNCHANGED buffer
  /\ UNCHANGED << config, stream, peer_closed, disk_size, close_connection,
                  response, open_files, result, taken, wire >>

(* recv returns 0: the client has closed and everything has been read.     *)
ReceiveEOF ==
  /\ pc = "recv"
  /\ receive_capacity # 0
  /\ inbound = << >> /\ peer_closed
  /\ Leave("ok")
  /\ UNCHANGED << environment, buffer, close_connection, response, total_sent,
                  open_files, history >>

(* Mutant: no SO_RCVTIMEO, recv fails only on a broken connection.         *)
ReceiveFailsNoTimeout ==
  /\ pc = "recv"
  /\ receive_capacity # 0 /\ peer_closed
  /\ Leave("failed")
  /\ UNCHANGED << environment, buffer, close_connection, response, total_sent,
                  open_files, history >>

(* recv fails: the receive timeout (EAGAIN), or any error but EINTR.       *)
ReceiveFails ==
  /\ pc = "recv"
  /\ receive_capacity # 0
  /\ Leave("failed")
  /\ UNCHANGED << environment, buffer, close_connection, response, total_sent,
                  open_files, history >>

-----------------------------------------------------------------------------
(* http_process_connection                                                 *)

(* Every connection of a server whose limits exceed the compile-time sizes *)
(* ends at its first bytes.                                                *)
ConfigRefused ==
  /\ pc = "process"
  /\ ~http_config_valid(config)
  /\ Leave("failed")
  /\ UNCHANGED << environment, buffer, close_connection, response, total_sent,
                  open_files, history >>

(* No complete request is left: back to the receive loop.                  *)
NoRequestReady ==
  /\ pc = "process"
  /\ http_config_valid(config)
  /\ ~http_connection_request_ready(buffer)
  /\ pc' = IF close_connection THEN "done" ELSE "recv"
  /\ UNCHANGED << environment, buffer, close_connection, response, total_sent,
                  open_files, result, history >>

(* http_prepare_response succeeds: the response is ready to be sent.       *)
Prepare(file) ==
  LET request  == http_connection_request(buffer)
      decision == http_prepare_response(Parse(request, config), file)
  IN  /\ pc = "process"
      /\ http_config_valid(config)
      /\ http_connection_request_ready(buffer)
      /\ response' = PreparedResponse(decision)
      /\ close_connection' = (close_connection \/ decision.close)
      /\ open_files' = open_files + (IF decision.file THEN 1 ELSE 0)
      /\ disk_size' = IF decision.file THEN decision.content_length ELSE 0
      /\ announced' = Append(announced, [request |-> request,
                                         decision |-> decision])
      /\ pc' = "send"
      /\ UNCHANGED << config, stream, inbound, peer_closed, buffer, total_sent,
                      result, taken, wire >>

(* malloc fails for the copy of the request or for an error body: the      *)
(* response stays as http_response_init left it.  A failure to build the   *)
(* header ends the same way: the file is closed again, and whether         *)
(* close_connection was set is not looked at, as the child leaves at once. *)
PrepareFails ==
  /\ pc = "process"
  /\ http_config_valid(config)
  /\ http_connection_request_ready(buffer)
  /\ response' = http_response_init
  /\ close_connection' = TRUE
  /\ Leave("failed")
  /\ UNCHANGED << environment, buffer, total_sent, open_files, history >>

(* send and sendfile accept some of what is left of the current part.      *)
SendHeaders(n) ==
  /\ pc = "send" /\ SendingHeaders(response)
  /\ n \in 1..(response.headers_length - response.headers_sent)
  /\ wire' = wire \o Slice(response.headers_sent, n)
  /\ response' = [response EXCEPT !.headers_sent = @ + n]
  /\ UNCHANGED << environment, pc, buffer, close_connection, total_sent,
                  open_files, result, taken, announced >>

SendBody(n) ==
  /\ pc = "send" /\ SendingBody(response)
  /\ n \in 1..(response.body_length - response.body_sent)
  /\ wire' = wire \o Slice(response.headers_length + response.body_sent, n)
  /\ response' = [response EXCEPT !.body_sent = @ + n]
  /\ UNCHANGED << environment, pc, buffer, close_connection, total_sent,
                  open_files, result, taken, announced >>

SendFile(n) ==
  /\ pc = "send" /\ SendingFile(response)
  /\ n \in 1..(response.file_size - response.file_offset)
  /\ n <= disk_size - response.file_offset
  /\ wire' = wire \o Slice(response.headers_length + response.file_offset, n)
  /\ response' = [response EXCEPT !.file_offset = @ + n]
  /\ UNCHANGED << environment, pc, buffer, close_connection, total_sent,
                  open_files, result, taken, announced >>

(* Mutant: the end of the file is taken for the end of the response.       *)
SendFileTruncatedAccepted ==
  /\ pc = "send" /\ SendingFile(response)
  /\ disk_size <= response.file_offset
  /\ response' = [response EXCEPT !.file_offset = response.file_size]
  /\ UNCHANGED << environment, pc, buffer, close_connection, total_sent,
                  open_files, result, history >>

(* sendfile returns 0: the file is now shorter than its Content-Length.    *)
SendFileTruncated ==
  /\ pc = "send" /\ SendingFile(response)
  /\ disk_size <= response.file_offset
  /\ Leave("failed")
  /\ UNCHANGED << environment, buffer, close_connection, response, total_sent,
                  open_files, history >>

(* send or sendfile fails with an error other than EINTR, or send returns  *)
(* 0.                                                                      *)
SendFails ==
  /\ pc = "send" /\ ~SendFinished(response)
  /\ Leave("failed")
  /\ UNCHANGED << environment, buffer, close_connection, response, total_sent,
                  open_files, history >>

(* Mutants: one request per recv; close_connection not looked at.          *)
AfterRequestOnce == IF close_connection THEN "done" ELSE "recv"

AfterRequestAlways == "process"

(* The end of an iteration of http_process_connection's loop.              *)
AfterRequest == IF close_connection THEN "done" ELSE "process"

(* The response is out: http_response_destroy, http_connection_consume,    *)
(* then the next request or the end of the connection.                     *)
FinishRequest ==
  LET length == http_connection_request_length(buffer)
  IN  /\ pc = "send" /\ SendFinished(response)
      /\ response' = http_response_destroy(response)
      /\ open_files' = open_files - ClosedFiles(response)
      /\ taken' = taken \o SubSeq(buffer, 1, length)
      /\ buffer' = http_connection_consume(buffer, length)
      /\ pc' = AfterRequest
      /\ UNCHANGED << environment, close_connection, total_sent, result,
                      announced, wire >>

-----------------------------------------------------------------------------
(* http_send_error: io_send_all of the headers, then of the body           *)

ErrorReplyLength == HeadersLength + ErrorBodyLength

(* Where the io_send_all at work ends: that of http_send_response sends    *)
(* the headers, the one after it the body.                                 *)
ErrorPartEnd ==
  IF total_sent < HeadersLength THEN HeadersLength ELSE ErrorReplyLength

SendErrorReply(n) ==
  /\ pc = "err"
  /\ n \in 1..(ErrorPartEnd - total_sent)
  /\ wire' = wire \o Slice(total_sent, n)
  /\ total_sent' = total_sent + n
  /\ UNCHANGED << environment, pc, buffer, close_connection, response,
                  open_files, result, taken, announced >>

(* The 431 is out, or send failed or returned 0: the caller ignores which. *)
ErrorReplyEnds(how) ==
  /\ pc = "err"
  /\ how = "sent" <=> total_sent = ErrorReplyLength
  /\ Leave("failed")
  /\ UNCHANGED << environment, buffer, close_connection, response, total_sent,
                  open_files, history >>

-----------------------------------------------------------------------------
(* The end of the process                                                  *)

(* A write to a closed connection raises SIGPIPE, which nobody handles.    *)
KilledBySIGPIPE ==
  /\ \/ pc = "send" /\ ~SendFinished(response)
     \/ pc = "err" /\ total_sent < ErrorReplyLength
  /\ peer_closed
  /\ pc' = "exited"
  /\ result' = "killed"
  /\ open_files' = 0
  /\ UNCHANGED << environment, buffer, close_connection, response, total_sent,
                  history >>

(* http_connection_destroy; the caller closes the socket and exits, which  *)
(* closes what a failed response left open.                                *)
ConnectionDestroy ==
  /\ pc = "done"
  /\ pc' = "exited"
  /\ buffer' = << >>
  /\ close_connection' = FALSE
  /\ open_files' = 0
  /\ UNCHANGED << environment, response, total_sent, result, history >>

-----------------------------------------------------------------------------
(* recv always returns: with bytes, 0, or EAGAIN once SO_RCVTIMEO expires. *)
ReceiveStep ==
  \/ BufferFull
  \/ \E n \in 1..Len(inbound) : Receive(n)
  \/ ReceiveEOF
  \/ ReceiveFails

(* The request at the head of the buffer makes http_prepare_response call  *)
(* file_open_path.                                                         *)
RequestOpensFile ==
  /\ http_connection_request_ready(buffer)
  /\ OpensFile(Parse(http_connection_request(buffer), config))

PrepareStep == (\E file \in FileAnswers : Prepare(file)) \/ PrepareFails

(* Steps that do not wait for anyone.                                      *)
LocalStep ==
  \/ ConnectionInit
  \/ ConfigRefused
  \/ NoRequestReady
  \/ ~RequestOpensFile /\ PrepareStep
  \/ FinishRequest
  \/ ErrorReplyEnds("sent")
  \/ ConnectionDestroy

(* The open of a FIFO waits for a writer (module FileOpen).                *)
OpenStep == RequestOpensFile /\ PrepareStep

(* Steps that wait for the client to make room in its receive window.      *)
SendStep ==
  \/ \E n \in 1..HeadersLength : SendHeaders(n)
  \/ \E n \in 1..response.body_length : SendBody(n)
  \/ \E n \in 1..response.file_size : SendFile(n)
  \/ SendFileTruncated
  \/ SendFails
  \/ \E n \in 1..ErrorReplyLength : SendErrorReply(n)
  \/ ErrorReplyEnds("cut short")
  \/ KilledBySIGPIPE

Next ==
  PeerCloses \/ FileResized \/ ReceiveStep \/ LocalStep \/ OpenStep \/ SendStep

Fairness == WF_vars(ReceiveStep) /\ WF_vars(LocalStep)

Spec == Init /\ [][Next]_vars /\ Fairness

-----------------------------------------------------------------------------
(* Properties                                                              *)

Decisions ==
  [status : Status, close : BOOLEAN, keep_alive : BOOLEAN,
   content_length : Nat, send_body : BOOLEAN, file : BOOLEAN]

Announcements == [request : Seq(Byte), decision : Decisions]

(* Every variable keeps its type; no descriptor is closed twice, which     *)
(* would make open_files negative.                                         *)
TypeOK ==
  /\ config \in Configs
  /\ stream \in Streams
  /\ inbound \in Seq(Byte)
  /\ peer_closed \in BOOLEAN
  /\ disk_size \in Nat
  /\ pc \in {"init", "recv", "process", "send", "err", "done", "exited"}
  /\ buffer \in Seq(Byte)
  /\ close_connection \in BOOLEAN
  /\ response \in Responses
  /\ total_sent \in Nat
  /\ open_files \in Nat
  /\ result \in {"ok", "failed", "killed"}
  /\ taken \in Seq(Byte)
  /\ announced \in Seq(Announcements)
  /\ wire \in Seq([response : Nat, position : Nat])

(* The bytes of the client that no finished request has used up.           *)
Unanswered == SubSeq(stream, Len(taken) + 1, Len(stream))

(* However recv cuts the stream and http_connection_consume shifts the     *)
(* buffer, no byte is lost, repeated or moved, and the buffer never        *)
(* outgrows its allocation.                                                *)
StreamConserved ==
  pc # "exited" => /\ taken \o buffer \o inbound = stream
                   /\ Len(buffer) <= config.http_buffer_size

(* The child never waits in recv while a complete request, for example a   *)
(* pipelined one, sits in its buffer.                                      *)
NoRequestStranded ==
  pc = "recv" => ~http_connection_request_ready(buffer)

(* A 431 for a full buffer is never an accident of segmentation or of      *)
(* pipelining: the next request of the stream really does not fit in       *)
(* http_buffer_size bytes.                                                 *)
RejectedOnlyIfOversize ==
  pc = "err" =>
    /\ Len(Unanswered) >= config.http_buffer_size
    /\ ~http_request_complete(SubSeq(Unanswered, 1, config.http_buffer_size))

(* Where the k-th request of the stream ends, found without regard to how  *)
(* the stream arrives; the end stays where it is when there is no k-th.    *)
RequestEnd[k \in 0..Len(stream)] ==
  IF k = 0 THEN 0
  ELSE RequestEnd[k - 1]
         + http_find_header_end(SubSeq(stream, RequestEnd[k - 1] + 1,
                                       Len(stream)))

(* The k-th response is to the k-th request of the stream.                 *)
InTurn(k) ==
  /\ k <= Len(stream) /\ RequestEnd[k] > RequestEnd[k - 1]
  /\ announced[k].request
       = SubSeq(stream, RequestEnd[k - 1] + 1, RequestEnd[k])

(* Every response answers the request whose turn it is, whatever the       *)
(* segmentation and whatever else was already in the buffer; only the 431  *)
(* of a full buffer answers none, and it comes last.                       *)
RepliesFollowRequests ==
  \A k \in DOMAIN announced :
    \/ InTurn(k)
    \/ /\ k = Len(announced) /\ announced[k].request = << >>
       /\ pc \in {"err", "done", "exited"}

(* What goes out is the responses one after the other, each byte once and  *)
(* in its place, none starting before the one before it is whole and none  *)
(* running past the Content-Length it announced.                           *)
WireInOrder ==
  \A i \in DOMAIN wire :
    LET unit == wire[i]
    IN  /\ unit.response \in DOMAIN announced
        /\ unit.position \in
             1..ResponseLength(announced[unit.response].decision)
        /\ IF i = 1
           THEN unit = [response |-> 1, position |-> 1]
           ELSE LET last == wire[i - 1]
                IN  IF last.position =
                         ResponseLength(announced[last.response].decision)
                    THEN unit = [response |-> last.response + 1,
                                 position |-> 1]
                    ELSE unit = [response |-> last.response,
                                 position |-> last.position + 1]

(* The last response begun has been handed to the socket to its last byte. *)
Delivered ==
  announced # << >> =>
    /\ wire # << >>
    /\ wire[Len(wire)] =
         [response |-> Len(announced),
          position |-> ResponseLength(announced[Len(announced)].decision)]

(* The child takes up another request, waits for one, or reports success   *)
(* only when every response begun so far is completely out: short writes,  *)
(* failed sends and files truncated under sendfile never end that way.     *)
OnlyWholeResponsesSucceed ==
  \/ pc \in {"recv", "process"}
  \/ pc \in {"done", "exited"} /\ result = "ok"
  => Delivered

(* The Connection header is a promise: nothing is sent after a response    *)
(* that announced close, and a connection announced as kept alive ends     *)
(* only by a failure or because the client closed it.                      *)
ConnectionHeaderHonoured ==
  /\ \A k \in DOMAIN announced :
       ~announced[k].decision.keep_alive =>
         k = Len(announced) /\ pc \notin {"recv", "process"}
  /\ pc = "done" /\ result = "ok" =>
       \/ peer_closed /\ inbound = << >>
       \/ announced # << >>
          /\ ~announced[Len(announced)].decision.keep_alive

(* Persistent connections do not accumulate descriptors: the served file   *)
(* is open while its response is in transmission, HEAD included, and never *)
(* when the next bytes are read or the next request is looked at.  After a *)
(* failed send one file may stay open until the child exits.               *)
NoDescriptorLeak ==
  /\ pc \in {"init", "recv", "process", "err"} => open_files = 0
  /\ pc = "send" => open_files = IF response.file_fd = NoFd THEN 0 ELSE 1
  /\ open_files <= 1

(* How far from its end each place of the child is, while it neither reads *)
(* nor consumes.                                                           *)
Stage ==
  [init |-> 6, process |-> 5, recv |-> 4, send |-> 3, err |-> 2, done |-> 1,
   exited |-> 0]

(* The bytes of the response under way that the socket has not taken.      *)
Unsent ==
  ResponseLength(announced[Len(announced)].decision)
    - IF pc = "err" THEN total_sent
      ELSE response.headers_sent + response.body_sent + response.file_offset

(* Bytes are read; or, with none read, a request leaves the buffer; or,    *)
(* with neither, the child comes closer to its end; or it stays where it   *)
(* is and hands over bytes that the response still lacks.                  *)
Advances ==
  \/ Len(inbound') < Len(inbound)
  \/ /\ inbound' = inbound
     /\ \/ Len(buffer') < Len(buffer)
        \/ /\ buffer' = buffer
           /\ \/ Stage[pc'] < Stage[pc]
              \/ pc' = pc /\ Unsent' \in 0..(Unsent - 1)

(* No loop of the child runs in place.  A request, a short write or a      *)
(* return to recv that left the measure as it was could be repeated for    *)
(* ever: the same request answered again and again, recv and process       *)
(* taking turns on an unchanged buffer.                                    *)
EveryStepAdvances == [][UNCHANGED process \/ Advances]_vars

(* An idle or silent client cannot hold the child: it exits, unless it is  *)
(* for ever blocked in a send, which has no timeout, or in the open of a   *)
(* file.                                                                   *)
ExitsUnlessBlocked ==
  \/ <>(pc = "exited")
  \/ <>[](pc \in {"send", "err"})
  \/ <>[](pc = "process" /\ RequestOpensFile)

=============================================================================
