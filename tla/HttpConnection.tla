--------------------------- MODULE HttpConnection ---------------------------
(***************************************************************************)
(* The receive buffer of http_connection.c and the search for the end of a *)
(* request in http_parse.c, as operators on sequences of bytes.            *)
(*                                                                         *)
(* The buffer is the sequence of the buffer_used valid bytes; the          *)
(* allocation of buffer_capacity bytes appears as the bound the operators  *)
(* take.                                                                   *)
(***************************************************************************)
EXTENDS Integers, Sequences

CR == "CR"
LF == "LF"

(* CR LF CR LF starts at position i.                                       *)
TerminatorAt(buffer, i) ==
  /\ buffer[i] = CR
  /\ buffer[i + 1] = LF
  /\ buffer[i + 2] = CR
  /\ buffer[i + 3] = LF

(* The positions the scan visits: none in a buffer of less than 4 bytes.   *)
ScanRange(buffer) == 1..(Len(buffer) - 3)

(* The first position of a blank line that ends the headers.               *)
IsFirstTerminator(buffer, i) ==
  /\ i \in ScanRange(buffer)
  /\ TerminatorAt(buffer, i)
  /\ \A j \in ScanRange(buffer) : j < i => ~TerminatorAt(buffer, j)

(* The offset just after the first blank line; 0 stands for NULL.          *)
http_find_header_end(buffer) ==
  IF \E i \in ScanRange(buffer) : TerminatorAt(buffer, i)
  THEN (CHOOSE i \in ScanRange(buffer) : IsFirstTerminator(buffer, i)) + 3
  ELSE 0

http_request_complete(buffer) == http_find_header_end(buffer) # 0

http_connection_buffer_space(buffer, capacity) == capacity - Len(buffer)

http_connection_request_ready(buffer) == http_request_complete(buffer)

http_connection_request_length(buffer) == http_find_header_end(buffer)

(* Mutant: all the buffer holds is taken for the request.                  *)
http_connection_request_all(buffer) == buffer

(* The bytes of the request at the head of the buffer.                     *)
http_connection_request(buffer) ==
  SubSeq(buffer, 1, http_connection_request_length(buffer))

(* Whether http_connection_feed accepts length more bytes.                 *)
http_connection_feed_ok(buffer, capacity, length) ==
  length <= http_connection_buffer_space(buffer, capacity)

http_connection_feed(buffer, data) == buffer \o data

(* Mutant: >= for >, so that a buffer with nothing left over is kept.      *)
http_connection_consume_ge(buffer, length) ==
  IF length >= Len(buffer)
  THEN buffer
  ELSE SubSeq(buffer, length + 1, Len(buffer))

(* memmove of what follows the consumed bytes; more than there is is a     *)
(* no-op.                                                                  *)
http_connection_consume(buffer, length) ==
  IF length > Len(buffer)
  THEN buffer
  ELSE SubSeq(buffer, length + 1, Len(buffer))

=============================================================================
