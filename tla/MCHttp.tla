------------------------------- MODULE MCHttp -------------------------------
(***************************************************************************)
(* RequestHandling on every request of a bounded family: all short lists   *)
(* of the headers http_prepare_response looks at, and all short            *)
(* Content-Length values for a machine whose unsigned long long ends at a  *)
(* small ULLONG_MAX, so that the digit loop runs over the end.             *)
(***************************************************************************)
EXTENDS RequestHandling, SequencesExt

CONSTANTS
  MaxHeaders,     \* longest list of headers
  MaxDigits       \* longest Content-Length value

CRLF == << CR, LF >>

RequestText(method, version, lines) ==
  << method, "SP", "/", "SP", version >> \o CRLF \o FlattenSeq(lines) \o CRLF

Field(name, value) == << name, ":" >> \o value \o CRLF

Host == Field("Host", << "localhost" >>)

SomeHeaders ==
  { Host, Field("Connection", << "close" >>),
    Field("Connection", << "keep-alive" >>),
    Field("Transfer-Encoding", << "chunked" >>),
    Field("Content-Length", << "0" >>), Field("Content-Length", << "1" >>) }

LengthValues == SeqOf({"0", "1", "3", "6", "SP", "-"}, MaxDigits)

(* A request with one header too many and one whose header has no colon    *)
(* are among them.                                                         *)
HeaderLists ==
  SeqOf(SomeHeaders, MaxHeaders)
  \cup { << Host, Field("Content-Length", value) >> : value \in LengthValues }
  \cup { [i \in 1..(MaxHeaders + 1) |-> Host], << << "Host" >> \o CRLF >> }

MCTexts ==
  { RequestText(method, version, lines) : method \in {"GET", "HEAD", "POST"},
      version \in {"HTTP/1.0", "HTTP/1.1"}, lines \in HeaderLists }

MCUnit ==
  { "GET", "HEAD", "POST", "SP", "/", "HTTP/1.0", "HTTP/1.1", CR, LF, ":",
    "Host", "localhost", "Connection", "close", "keep-alive",
    "Transfer-Encoding", "chunked", "Content-Length", "0", "1", "3", "6", "-" }

MCConfigs ==
  { [http_buffer_size |-> 64, http_max_headers |-> MaxHeaders,
     http_header_name_max |-> 2, http_header_value_max |-> MaxDigits + 1] }

MCFiles == { [errno |-> "OK", size |-> 3], [errno |-> "ENOENT", size |-> 0],
             [errno |-> "EACCES", size |-> 0], [errno |-> "EXDEV", size |-> 0] }

=============================================================================
