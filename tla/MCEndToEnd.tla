----------------------------- MODULE MCEndToEnd -----------------------------
(***************************************************************************)
(* EndToEnd for a client that sends a request that may have a body, in     *)
(* several spellings, or that asks to close in several ways, and then      *)
(* bytes that look like a request.                                         *)
(***************************************************************************)
EXTENDS EndToEnd

CRLF == << CR, LF >>

RequestLine(target) ==
  << "GET", "SP" >> \o target \o << "SP", "HTTP/1.1" >> \o CRLF

Host == << "Host", ":", "x" >> \o CRLF

Plain == RequestLine(<< "/" >>) \o Host \o CRLF

Connection(value) == << "Connection", ":" >> \o value \o CRLF

(* Lines that a request may have next to its Host.                         *)
ExtraLines ==
  { << >>,
    << "Content-Length", ":", "0" >> \o CRLF,
    << "Content-Length", ":", "SP", "9" >> \o CRLF,
    << "Content-Length", "SP", ":", "9" >> \o CRLF,
    << "Content-Length", ":", "1", "6" >> \o CRLF,
    << NUL >> \o CRLF \o << "Transfer-Encoding", ":", "x" >> \o CRLF,
    << "Transfer-Encoding", ":", "x" >> \o CRLF,
    Connection(<< "SP", "close", "SP" >>),
    Connection(<< "x" >>) \o Connection(<< "close" >>),
    Connection(<< "close" >>) \o Connection(<< "x" >>) }

WithLine(extra) == RequestLine(<< "/" >>) \o Host \o extra \o CRLF

(* A request in the older version, which needs no Host.                    *)
Old == << "GET", "SP", "/", "SP", "HTTP/1.0" >> \o CRLF \o CRLF

(* Field lines without end, which fill the larger buffer exactly.          *)
Unfinished == Host \o Host \o Host \o Host \o Host \o Host

MCStreams ==
  { WithLine(extra) \o Plain : extra \in ExtraLines }
  \cup { Plain \o WithLine(extra) \o Plain : extra \in ExtraLines }
  \cup { RequestLine(<< "/", "%", "0", "0" >>) \o Host \o CRLF \o Plain,
         Plain \o Unfinished, Old \o Plain, Plain \o Old \o Plain }

MCByte == UNION {{s[k] : k \in DOMAIN s} : s \in MCStreams}

(* A buffer for any of the requests, and one that a plain one fills; room  *)
(* for one header only.                                                    *)
Limits(buffer_size, max_headers) ==
  [http_buffer_size |-> buffer_size, http_max_headers |-> max_headers,
   http_header_name_max |-> 3, http_header_value_max |-> 3]

MCConfigs == { Limits(30, 3), Limits(14, 3), Limits(30, 1) }

MCFileErrors == {"ENOENT"}

MCFileSizes == {1}

=============================================================================
