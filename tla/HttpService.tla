----------------------------- MODULE HttpService -----------------------------
(***************************************************************************)
(* What a connection promises to its client, with no buffer, no segments   *)
(* and no system calls: the requests of the stream are answered in order,  *)
(* one at a time and whole, until a reply announces the end.               *)
(*                                                                         *)
(* ConnectionRefinement shows that ConnectionHandler implements it.        *)
(***************************************************************************)
EXTENDS HttpConnection

CONSTANTS
  Streams,          \* what a client may send over a whole connection
  Configs,          \* the configurations of the server
  Answers(_, _),    \* the decisions a request may get under a configuration
  Rejection,        \* the decision on a request that does not fit
  Length(_)         \* the bytes of the reply that a decision announces

VARIABLES
  config,     \* the server's configuration
  rest,       \* what is left of the stream behind the requests answered
  gone,       \* the client has closed its end
  replies,    \* [request, decision] of the replies begun
  wire,       \* the bytes of the replies sent: [response, position]
  outcome     \* "serving", then how it ended

vars == << config, rest, gone, replies, wire, outcome >>

(* The bytes of the last reply that are out.                               *)
Sent ==
  IF wire # << >> /\ wire[Len(wire)].response = Len(replies)
  THEN wire[Len(wire)].position ELSE 0

(* All replies begun are out, the last to its last byte.                   *)
Whole ==
  replies # << >> => Sent = Length(replies[Len(replies)].decision)

(* The last reply announced the end of the connection.                     *)
SaidClose ==
  replies # << >> /\ ~replies[Len(replies)].decision.keep_alive

(* The server is ready for a request.                                      *)
Ready == outcome = "serving" /\ Whole /\ ~SaidClose

(* The part of the stream in which a request must end.                     *)
Window ==
  IF Len(rest) <= config.http_buffer_size THEN rest
  ELSE SubSeq(rest, 1, config.http_buffer_size)

Init ==
  /\ config \in Configs
  /\ rest \in Streams
  /\ gone = FALSE
  /\ replies = << >>
  /\ wire = << >>
  /\ outcome = "serving"

(* The next request of the stream gets its reply.                          *)
Answer ==
  LET end     == http_find_header_end(Window)
      request == SubSeq(rest, 1, end)
  IN  /\ Ready /\ http_request_complete(Window)
      /\ \E decision \in Answers(request, config) :
           replies' = Append(replies, [request |-> request,
                                       decision |-> decision])
      /\ rest' = SubSeq(rest, end + 1, Len(rest))
      /\ UNCHANGED << config, gone, wire, outcome >>

(* The next request does not fit in http_buffer_size bytes.                *)
Reject ==
  /\ Ready /\ ~http_request_complete(Window)
  /\ Len(rest) >= config.http_buffer_size
  /\ replies' = Append(replies, [request |-> << >>, decision |-> Rejection])
  /\ UNCHANGED << config, rest, gone, wire, outcome >>

(* Some more bytes of the last reply, in order.                            *)
Send ==
  /\ outcome = "serving" /\ ~Whole
  /\ \E n \in 1..(Length(replies[Len(replies)].decision) - Sent) :
       wire' = wire \o [i \in 1..n |-> [response |-> Len(replies),
                                       position |-> Sent + i]]
  /\ UNCHANGED << config, rest, gone, replies, outcome >>

(* Success: the last reply said close, or the client closed and left no    *)
(* request unanswered.  Anything may fail at any time; only a client that  *)
(* is gone, and misses something, can have the server killed.              *)
End ==
  /\ outcome = "serving"
  /\ \/ /\ outcome' = "ok"
        /\ Whole
        /\ SaidClose \/ (gone /\ ~http_request_complete(Window))
     \/ outcome' = "failed"
     \/ outcome' = "killed" /\ gone /\ ~Whole
  /\ rest' = << >>
  /\ UNCHANGED << config, gone, replies, wire >>

ClientCloses ==
  /\ ~gone
  /\ gone' = TRUE
  /\ UNCHANGED << config, rest, replies, wire, outcome >>

Next == Answer \/ Reject \/ Send \/ End \/ ClientCloses

Spec == Init /\ [][Next]_vars

=============================================================================
