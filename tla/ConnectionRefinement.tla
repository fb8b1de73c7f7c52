------------------------ MODULE ConnectionRefinement ------------------------
(***************************************************************************)
(* ConnectionHandler implements HttpService.                               *)
(***************************************************************************)
EXTENDS ConnectionHandler

(* The bytes behind the requests answered: while a response is being sent  *)
(* its request is still at the head of the buffer.                         *)
UnansweredBytes ==
  CASE pc \in {"done", "exited"} -> << >>
    [] pc = "send" ->
         http_connection_consume(buffer, http_connection_request_length(buffer))
           \o inbound
    [] OTHER -> buffer \o inbound

Outcome == IF pc \in {"done", "exited"} THEN result ELSE "serving"

(* What the parser and the file system may make of a request.              *)
PossibleDecisions(request, limits) ==
  {http_prepare_response(Parse(request, limits), file) : file \in FileAnswers}

Service == INSTANCE HttpService WITH
  Streams <- Streams, Configs <- Configs,
  Answers <- PossibleDecisions, Rejection <- ErrorDecision(431),
  Length <- ResponseLength,
  config <- config, rest <- UnansweredBytes, gone <- peer_closed,
  replies <- announced, wire <- wire, outcome <- Outcome

(* Whatever the segmentation, the buffer size, short writes and failures,  *)
(* the client sees the service: requests answered in order, from the right *)
(* bytes, each reply whole before the next is begun, none after a close,   *)
(* and success reported only when nothing is missing.                      *)
ImplementsService == Service!Spec

=============================================================================
