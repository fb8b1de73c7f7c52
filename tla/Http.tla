-------------------------------- MODULE Http --------------------------------
(***************************************************************************)
(* What the server decides about one request: http.c without its           *)
(* connection loop.  A request is the http_request_t the parser leaves     *)
(* behind together with the parser's return value:                         *)
(*                                                                         *)
(*   [parse_result, method, version, headers]                              *)
(*                                                                         *)
(* headers is the sequence of [name, value] pairs.  Text is a sequence of  *)
(* units: one byte (a digit, "SP"), or one word such as "GET" or "close".  *)
(* Header names and the values looked at are compared with strcasecmp, so  *)
(* a word stands for all its spellings.  A request that was not parsed has *)
(* only its parse_result.                                                  *)
(***************************************************************************)
EXTENDS Integers, Sequences, FiniteSets

CONSTANTS
  ULLONG_MAX,              \* largest unsigned long long
  HTTP_MAX_HEADERS,        \* compile-time sizes of http_request_t
  HTTP_HEADER_NAME_MAX,
  HTTP_HEADER_VALUE_MAX,
  ErrorBodyLength          \* bytes in the body of an error response

ASSUME HttpAssumption ==
  /\ ULLONG_MAX \in Nat /\ ULLONG_MAX >= 9
  /\ ErrorBodyLength \in Nat \ {0}

(* http_status_t: the statuses http_status_reason and                      *)
(* http_response_prepare_error know.                                       *)
Status == {200, 400, 403, 404, 405, 431, 500}

(* Mutant: >= for > in the comparisons with the compile-time sizes.        *)
http_config_below(config) ==
  /\ config.http_buffer_size # 0
  /\ config.http_max_headers \in 1..(HTTP_MAX_HEADERS - 1)
  /\ config.http_header_name_max \in 1..(HTTP_HEADER_NAME_MAX - 1)
  /\ config.http_header_value_max \in 1..(HTTP_HEADER_VALUE_MAX - 1)

http_config_valid(config) ==
  /\ config.http_buffer_size # 0
  /\ config.http_max_headers \in 1..HTTP_MAX_HEADERS
  /\ config.http_header_name_max \in 1..HTTP_HEADER_NAME_MAX
  /\ config.http_header_value_max \in 1..HTTP_HEADER_VALUE_MAX

(* Mutant: HEAD forgotten.                                                 *)
http_method_allowed_get_only(method) == method = << "GET" >>

http_method_allowed(method) == method \in { << "GET" >>, << "HEAD" >> }

(* The positions of the headers with a given name.                         *)
Named(request, name) ==
  {i \in DOMAIN request.headers : request.headers[i].name = name}

http_validate_host(request) == Cardinality(Named(request, << "Host" >>)) = 1

NoHeader == << "absent" >>

(* The value of the first header with that name.                           *)
http_get_header(request, name) ==
  IF Named(request, name) = {}
  THEN NoHeader
  ELSE LET first == CHOOSE i \in Named(request, name) :
                      \A j \in Named(request, name) : i <= j
       IN  request.headers[first].value

-----------------------------------------------------------------------------
(* Content-Length and Transfer-Encoding                                    *)

Digits == << "0", "1", "2", "3", "4", "5", "6", "7", "8", "9" >>

IsDigit(c) == \E d \in 0..9 : Digits[d + 1] = c

DigitValue(c) == CHOOSE d \in 0..9 : Digits[d + 1] = c

OWS == {"SP", "HTAB"}

(* The value without its trailing blanks: end-- while end[-1] is one.      *)
StripTrailingOWS(value) ==
  LET kept == {i \in DOMAIN value : value[i] \notin OWS}
      last == CHOOSE i \in kept : \A j \in kept : j <= i
  IN  IF kept = {} THEN << >> ELSE SubSeq(value, 1, last)

InvalidLength == -1

(* Mutant: the digit loop without its overflow test.                       *)
AddDigitUnchecked(length, digit) == (length * 10 + digit) % (ULLONG_MAX + 1)

(* One round of the digit loop on an unsigned long long accumulator.       *)
AddDigit(length, digit) ==
  IF length > (ULLONG_MAX - digit) \div 10
  THEN InvalidLength
  ELSE (length * 10 + digit) % (ULLONG_MAX + 1)

(* The number the digit loop arrives at, or InvalidLength.                 *)
ContentLengthValue(text) ==
  LET length[i \in 0..Len(text)] ==
        IF i = 0 THEN 0
        ELSE IF length[i - 1] = InvalidLength \/ ~IsDigit(text[i])
             THEN InvalidLength
             ELSE AddDigit(length[i - 1], DigitValue(text[i]))
  IN  IF text = << >> THEN InvalidLength ELSE length[Len(text)]

(* The framing error of a request, "none" when it has no body.             *)
http_validate_request_framing(request) ==
  LET content_lengths == Named(request, << "Content-Length" >>)
      content_length  == http_get_header(request, << "Content-Length" >>)
      length          == ContentLengthValue(StripTrailingOWS(content_length))
  IN  IF Cardinality(content_lengths) > 1 THEN "duplicate"
      ELSE IF Named(request, << "Transfer-Encoding" >>) # {}
           THEN "transfer-encoding"
      ELSE IF content_lengths = {} THEN "none"
      ELSE IF length = InvalidLength THEN "invalid"
      ELSE IF length = 0 THEN "none"
      ELSE "body"

-----------------------------------------------------------------------------
(* The decision: http_prepare_response once the request is parsed          *)

(* file_open_path's errno turned into a status.                            *)
FileErrorStatus(errno) ==
  CASE errno = "ENOENT"             -> 404
    [] errno \in {"EACCES", "EPERM"} -> 403
    [] OTHER                        -> 500

(* HTTP/1.0 closes, HTTP/1.1 persists unless the first Connection header   *)
(* is "close".                                                             *)
http_close_requested(request) ==
  \/ request.version = << "HTTP/1.0" >>
  \/ http_get_header(request, << "Connection" >>) = << "close" >>

(* http_response_prepare_error: an in-memory body announced with           *)
(* "Connection: close".                                                    *)
ErrorDecision(status) ==
  [status |-> status, close |-> TRUE, keep_alive |-> FALSE,
   content_length |-> ErrorBodyLength, send_body |-> TRUE, file |-> FALSE]

(* Mutant: the header is built before the Connection header is looked at.  *)
FileDecisionEarly(request, size) ==
  [status |-> 200, close |-> http_close_requested(request),
   keep_alive |-> request.version = << "HTTP/1.1" >>, content_length |-> size,
   send_body |-> request.method # << "HEAD" >>, file |-> TRUE]

FileDecision(request, size) ==
  [status         |-> 200,
   close          |-> http_close_requested(request),
   keep_alive     |-> ~http_close_requested(request),
   content_length |-> size,
   send_body      |-> request.method # << "HEAD" >>,
   file           |-> TRUE]

(* Mutant: the framing is not validated.                                   *)
RefusalUnframed(request) ==
  IF request.parse_result = "HEADERS_TOO_LARGE" THEN 431
  ELSE IF request.parse_result # "OK" THEN 400
  ELSE IF ~http_method_allowed(request.method) THEN 405
  ELSE IF request.version = << "HTTP/1.1" >> /\ ~http_validate_host(request)
       THEN 400
  ELSE 200

(* The status of a request that is refused before any file is looked for,  *)
(* 200 when it is not.                                                     *)
Refusal(request) ==
  IF request.parse_result = "HEADERS_TOO_LARGE" THEN 431
  ELSE IF request.parse_result # "OK" THEN 400
  ELSE IF ~http_method_allowed(request.method) THEN 405
  ELSE IF request.version = << "HTTP/1.1" >> /\ ~http_validate_host(request)
       THEN 400
  ELSE IF http_validate_request_framing(request) # "none" THEN 400
  ELSE 200

(* The request makes the server call file_open_path.                       *)
OpensFile(request) == Refusal(request) = 200

(* file is the answer of file_open_path: [errno, size], errno "OK" when a  *)
(* regular file was opened.                                                *)
http_prepare_response(request, file) ==
  IF ~OpensFile(request) THEN ErrorDecision(Refusal(request))
  ELSE IF file.errno # "OK" THEN ErrorDecision(FileErrorStatus(file.errno))
  ELSE FileDecision(request, file.size)

=============================================================================
