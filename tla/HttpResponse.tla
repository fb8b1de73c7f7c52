---------------------------- MODULE HttpResponse ----------------------------
(***************************************************************************)
(* http_response_t of http_response.c: the response under transmission and *)
(* the operations on it.  Lengths count bytes; what the bytes say is left  *)
(* to the decision that announced them.                                    *)
(***************************************************************************)
EXTENDS Integers

CONSTANT HeadersLength    \* bytes in the header block of any response

ASSUME HeadersAssumption == HeadersLength \in Nat \ {0}

NoFd == -1     \* file_fd when there is no file
AFd  == 0      \* file_fd when a file is open; which number it is is immaterial

Responses ==
  [headers_length : Nat, headers_sent : Nat,
   body_length : Nat, body_sent : Nat,
   file_fd : {NoFd, AFd}, file_size : Nat, file_offset : Nat,
   send_body : BOOLEAN, complete : BOOLEAN]

http_response_init ==
  [headers_length |-> 0, headers_sent |-> 0,
   body_length |-> 0, body_sent |-> 0,
   file_fd |-> NoFd, file_size |-> 0, file_offset |-> 0,
   send_body |-> FALSE, complete |-> FALSE]

(* Mutant: file_fd left at the 0 of memset.                                *)
FileFdZero(decision) == AFd

(* response->file_fd: the open file, or -1 from http_response_init.        *)
FileFd(decision) == IF decision.file THEN AFd ELSE NoFd

(* What http_prepare_response leaves in the response for a decision:       *)
(* either http_response_prepare_error's in-memory body or the open file.   *)
PreparedResponse(decision) ==
  [headers_length |-> HeadersLength, headers_sent |-> 0,
   body_length |-> IF decision.file THEN 0 ELSE decision.content_length,
   body_sent |-> 0,
   file_fd |-> FileFd(decision),
   file_size |-> IF decision.file THEN decision.content_length ELSE 0,
   file_offset |-> 0,
   send_body |-> decision.send_body, complete |-> FALSE]

(* Mutant: only the file of a response with a body is closed.              *)
ClosedFilesOfBodies(r) == IF r.file_fd # NoFd /\ r.send_body THEN 1 ELSE 0

(* The descriptors http_response_destroy closes.                           *)
ClosedFiles(r) == IF r.file_fd # NoFd THEN 1 ELSE 0

(* http_response_destroy closes the file, frees the body and resets every  *)
(* field.                                                                  *)
http_response_destroy(response) ==
  [response EXCEPT !.file_fd = NoFd,
                   !.headers_length = 0, !.headers_sent = 0,
                   !.body_length = 0, !.body_sent = 0,
                   !.file_size = 0, !.file_offset = 0,
                   !.send_body = FALSE, !.complete = FALSE]

(* Where http_response_send_blocking stands: the first of its three loops  *)
(* that still has bytes to send, in the order the function runs them.      *)
SendingHeaders(r) == r.headers_sent < r.headers_length

SendingBody(r) ==
  ~SendingHeaders(r) /\ r.send_body /\ r.body_sent < r.body_length

SendingFile(r) ==
  /\ ~SendingHeaders(r) /\ r.send_body /\ ~(r.body_sent < r.body_length)
  /\ r.file_fd # NoFd /\ r.file_offset < r.file_size

SendFinished(r) == ~SendingHeaders(r) /\ ~SendingBody(r) /\ ~SendingFile(r)

=============================================================================
