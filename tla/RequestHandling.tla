-------------------------- MODULE RequestHandling --------------------------
(***************************************************************************)
(* One call of http_prepare_response: the text of a framed request, what   *)
(* http_parse_request understands of it, and the response that is decided, *)
(* with the properties that relate the three.                              *)
(***************************************************************************)
EXTENDS Http, RequestReading, Mime

CONSTANTS
  Unit,           \* what text is made of
  Texts,          \* the requests
  Configs,        \* the limits of the command line
  Files           \* the answers of file_open_path

(* The text is what the framing delivers: the first blank line is its end. *)
Framed(text) == text # << >> /\ http_find_header_end(text) = Len(text)

ASSUME RequestAssumption ==
  /\ \A text \in Texts : text \in Seq(Unit) /\ Framed(text)
  /\ \A config \in Configs :
       /\ config.http_max_headers \in Nat
       /\ config.http_header_name_max \in Nat
       /\ config.http_header_value_max \in Nat

VARIABLES text, config, file, parsed, decision

vars == << text, config, file, parsed, decision >>

Unparsed == [parse_result |-> "unparsed"]

Undecided == [status |-> 0]

Init ==
  /\ text \in Texts /\ config \in Configs /\ file \in Files
  /\ parsed = Unparsed /\ decision = Undecided

(* The whole of http_prepare_response.  That it is called only under a     *)
(* valid configuration, and the failure of its malloc, are actions of      *)
(* ConnectionHandler.                                                      *)
Prepare ==
  /\ decision = Undecided
  /\ parsed' = http_parse_request(text, config)
  /\ decision' = http_prepare_response(parsed', file)
  /\ UNCHANGED << text, config, file >>

Spec == Init /\ [][Prepare]_vars

Decided == decision # Undecided

Accepted == parsed.parse_result = "OK"

-----------------------------------------------------------------------------
(* What is understood of the text                                          *)

(* The parser reads a C string, the framing counts bytes: in a request     *)
(* that is accepted the two agree.  Every line up to the blank line of the *)
(* framing became one header, in order, with nothing of it left out but    *)
(* the blanks around the value.                                            *)
AcceptedTextAccountedFor ==
  Accepted =>
    /\ Len(Lines(text)) = Len(parsed.headers) + 2
    /\ \A k \in DOMAIN parsed.headers :
         LET header == parsed.headers[k]
         IN  /\ Writes(Lines(text)[k + 1], header)
             /\ header.value # << >> =>
                  header.value[1] \notin Blank
                  /\ header.value[Len(header.value)] \notin Blank

(* Every check of the parser is one somebody asks for: a request that the  *)
(* grammar allows and that fits is never refused, wherever its lengths are *)
(* on their limits and whatever its escapes, blanks and queries.           *)
WellFormedAccepted == Decided /\ WellFormed(text, config) => Accepted

(* Everything memcpy stores fits in its array with the NUL behind it.      *)
EverythingFits ==
  Accepted =>
    /\ Len(parsed.method) < METHOD_SIZE /\ Len(parsed.path) < PATH_SIZE
    /\ Len(parsed.query) < HTTP_QUERY_MAX /\ Len(parsed.version) < VERSION_SIZE
    /\ Len(parsed.headers) <= config.http_max_headers
    /\ \A k \in DOMAIN parsed.headers :
         /\ Len(parsed.headers[k].name) < config.http_header_name_max
         /\ Len(parsed.headers[k].value) < config.http_header_value_max

(* Limits that nothing in the text can exceed.                             *)
Unlimited ==
  [http_max_headers |-> Len(text) + 1, http_header_name_max |-> Len(text) + 1,
   http_header_value_max |-> Len(text) + 1]

(* A limit can only turn a request away, and only with 431: it never       *)
(* changes what is understood of a request, and a request that exceeds no  *)
(* limit never gets a 431.                                                 *)
LimitsOnlyRefuse ==
  Decided =>
    LET unlimited == http_parse_request(text, Unlimited)
    IN  /\ parsed # unlimited => parsed.parse_result = "HEADERS_TOO_LARGE"
        /\ unlimited.parse_result # "HEADERS_TOO_LARGE"

(* The path handed to file_open_path is the path of the request decoded    *)
(* exactly once; it starts with a slash and holds no control character, so *)
(* the file system sees all of it.                                         *)
PathDecodedOnce ==
  Accepted =>
    /\ parsed.path[1] = "/"
    /\ \A i \in DOMAIN parsed.path : parsed.path[i] \notin Control
    /\ LET line   == Lines(text)[1]
           target == SubSeq(line, Len(parsed.method) + 2,
                            Len(line) - Len(parsed.version) - 1)
       IN  \E n \in 1..Len(target) :
             LET path == SubSeq(target, 1, n)
             IN  /\ \/ target = path /\ parsed.query = << >>
                    \/ target = path \o << "?" >> \o parsed.query
                 /\ \A i \in DOMAIN path : path[i] # "?"
                 /\ Decodes(path, parsed.path)

(* The type of a path is that of its last component, whatever dots the     *)
(* directories in front of it have in their names.                         *)
TypeOfLastComponent ==
  Accepted =>
    \A slash \in DOMAIN parsed.path :
      LET name == SubSeq(parsed.path, slash + 1, Len(parsed.path))
      IN  parsed.path[slash] = "/" /\ (\A i \in DOMAIN name : name[i] # "/")
          => mime_type(parsed.path) =
               IF Len(name) >= 2 /\ name[Len(name) - 1] = "."
                  /\ name[Len(name)] \in DOMAIN KnownTypes
               THEN KnownTypes[name[Len(name)]]
               ELSE OctetStream

(* "Header parsing removes leading OWS but preserves trailing OWS."        *)
(* (http.c, above the loop of http_validate_request_framing that strips    *)
(* blanks from the end of a Content-Length.)                               *)
TrailingOWSPreserved ==
  Accepted =>
    \A k \in DOMAIN parsed.headers :
      LET line  == Lines(text)[k + 1]
          value == parsed.headers[k].value
      IN  value # << >> => value[Len(value)] = line[Len(line)]

-----------------------------------------------------------------------------
(* What is decided                                                         *)

(* A connection is kept open only behind a request without a body: a       *)
(* Content-Length that overflows, or is not a number, or comes twice, or   *)
(* with a Transfer-Encoding, never leaves a body to be read as a request.  *)
KeptOpenOnlyWithoutBody ==
  Decided /\ ~decision.close => Accepted /\ HasNoBody(parsed)

(* The connection stays open only behind a text in which nobody, reading   *)
(* the bytes up to the blank line, can find a body: what is behind a NUL   *)
(* or a blank before a colon is never overlooked.                          *)
NoBodyOverlooked ==
  Decided /\ ~decision.close => ~MayHaveBody(text)

(* Conversely a well-formed request is not turned away for its framing:    *)
(* whatever is served by file_open_path is answered with 200.              *)
BodylessRequestServed ==
  Decided /\ Accepted /\ HasNoBody(parsed)
    /\ parsed.method \in { << "GET" >>, << "HEAD" >> }
    /\ (parsed.version = << "HTTP/1.1" >> => http_validate_host(parsed))
    /\ file.errno = "OK"
  => decision.status = 200

(* "HEAD responses contain headers only" (http_response.c, above the early *)
(* return for !send_body).                                                 *)
HeadResponsesHeadersOnly ==
  Decided /\ Accepted /\ parsed.method = << "HEAD" >> => ~decision.send_body

=============================================================================
