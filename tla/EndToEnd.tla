------------------------------ MODULE EndToEnd ------------------------------
(***************************************************************************)
(* ConnectionHandler with the parser of HttpParse: from the bytes of the   *)
(* client to the fate of the connection, with every segmentation.          *)
(***************************************************************************)
EXTENDS ConnectionRefinement, RequestReading

(* What the framing may cut out of the rest of a client's stream.          *)
Requests ==
  LET Cuts(s) ==
        {http_connection_request(SubSeq(s, n, Len(s))) : n \in 1..Len(s)}
  IN  (UNION {Cuts(s) : s \in Streams}) \ {<< >>}

ASSUME ParserAssumption ==
  \A request \in Requests, limits \in Configs :
    Parse(request, limits) = http_parse_request(request, limits)

-----------------------------------------------------------------------------
(* A reply is the last one if anybody may think its request has a body:    *)
(* the bytes of a body are never answered as if they were a request, from  *)
(* the socket to the Connection header, through parser, framing and        *)
(* buffer.                                                                 *)
BodyNeverAnswered ==
  \A k \in DOMAIN announced :
    MayHaveBody(announced[k].request) =>
      k = Len(announced) /\ ~announced[k].decision.keep_alive

(* The connection persists exactly as the bytes of the requests ask: what  *)
(* stands behind a request that asks to close is never answered, and the   *)
(* reply says so; a file served for any other request leaves it open.      *)
(* The version and the first Connection line are looked up in what the     *)
(* parser stored, the Connection header of the reply is built while        *)
(* close_connection is still being computed, and it is acted on only when  *)
(* the reply is out.                                                       *)
PersistsAsAsked ==
  \A k \in DOMAIN announced :
    LET decision == announced[k].decision
    IN  IF AsksToClose(announced[k].request)
        THEN k = Len(announced) /\ ~decision.keep_alive
        ELSE decision.status = 200 => decision.keep_alive

(* The k-th request of the stream keeps to the grammar and to the limits:  *)
(* it is plain and fits in the buffer; or the client leaves it unfinished, *)
(* and that much fits.                                                     *)
Conforms(k) ==
  LET start   == RequestEnd[k - 1] + 1
      request == SubSeq(stream, start, RequestEnd[k])
  IN  IF RequestEnd[k] < start
      THEN Len(stream) - RequestEnd[k] < config.http_buffer_size
      ELSE /\ WellFormed(request, config) /\ IsPlain(request)
           /\ Len(request) <= config.http_buffer_size

(* Such a request is never refused, however it is cut, wherever it stands  *)
(* in the stream and however much of its successors already fills the      *)
(* buffer: what it gets depends on the file alone.  Parser, framing,       *)
(* buffer and receive loop allow together what each allows alone.          *)
PlainRequestServed ==
  \A k \in DOMAIN announced :
    Conforms(k) => announced[k].decision.status \notin {400, 405, 431}

=============================================================================
