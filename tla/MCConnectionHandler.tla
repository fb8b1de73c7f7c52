----------------------- MODULE MCConnectionHandler -----------------------
(***************************************************************************)
(* ConnectionHandler for TLC.  A request line with its headers is one or   *)
(* more letters that say what kind of request it is; CR and LF are real    *)
(* bytes, so that every way of cutting a blank line in two is explored.    *)
(***************************************************************************)
EXTENDS ConnectionRefinement

(* The letters: a GET that keeps the connection, a HEAD, a GET with        *)
(* "Connection: close", a malformed request.                               *)
Letters == {"k", "h", "c", "x"}

MCByte == Letters \cup {CR, LF}

BlankLine == << CR, LF, CR, LF >>

ParsedRequest(parse_result, method, connection) ==
  [parse_result |-> parse_result, method |-> << method >>,
   version |-> << "HTTP/1.1" >>,
   headers |-> << [name |-> << "Host" >>, value |-> << "localhost" >>],
                  [name |-> << "Connection" >>, value |-> << connection >>] >>]

MCParse(request, limits) ==
  CASE request[1] = "k" -> ParsedRequest("OK", "GET", "keep-alive")
    [] request[1] = "h" -> ParsedRequest("OK", "HEAD", "keep-alive")
    [] request[1] = "c" -> ParsedRequest("OK", "GET", "close")
    [] OTHER            -> ParsedRequest("BAD_REQUEST", "", "")

(* Whole requests; one with a CR before the blank line, which fills the    *)
(* small buffer exactly; one that does not fit in it; a request cut off by *)
(* the client.                                                             *)
Fragments ==
  { << letter >> \o BlankLine : letter \in Letters }
  \cup { << "h", CR, LF, CR >>,
         << "k", "k", CR >> \o BlankLine,
         << "k", CR, LF, "k" >> \o BlankLine }

Keep == << "k" >> \o BlankLine

MCStreams ==
  { << >> } \cup Fragments \cup { a \o b : a, b \in Fragments }
  \cup { Keep \o Keep \o c : c \in Fragments }

Limits(buffer_size, max_headers) ==
  [http_buffer_size |-> buffer_size, http_max_headers |-> max_headers,
   http_header_name_max |-> 1, http_header_value_max |-> 1]

(* A buffer that holds one request and part of the next, one that holds    *)
(* two whole requests, and a configuration that passes config_parse_args   *)
(* but exceeds HTTP_MAX_HEADERS.                                           *)
MCConfigs == { Limits(7, 1), Limits(10, 1), Limits(7, 2) }

MCFileErrors == {"ENOENT"}

MCFileSizes == {0, 2}

=============================================================================
