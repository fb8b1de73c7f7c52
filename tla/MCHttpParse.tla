----------------------------- MODULE MCHttpParse -----------------------------
(***************************************************************************)
(* RequestHandling on every request text of four bounded families, with    *)
(* tight and with ample limits.  Only texts that the framing delivers are  *)
(* parsed: the first blank line is their end.                              *)
(***************************************************************************)
EXTENDS RequestHandling, SequencesExt

CONSTANTS
  MaxLine,      \* longest request line
  MaxTarget,    \* longest target
  MaxPath,      \* longest path with dots and words
  MaxText,      \* longest header block of arbitrary units
  MaxLines      \* most header lines

CRLF == << CR, LF >>

Get(target) == << "GET", "SP" >> \o target \o << "SP", "HTTP/1.1" >> \o CRLF

Host == << "Host", ":", "x" >> \o CRLF

(* All request lines over the units that delimit their parts.              *)
LineTexts ==
  { line \o CRLF \o Host \o CRLF :
      line \in SeqOf({"GET", "SP", "/", "HTTP/1.1", "x", ":", NUL, LF},
                     MaxLine) }

(* All targets over the units of escapes and queries, and over names with  *)
(* dots.                                                                   *)
TargetTexts ==
  { Get(target) \o Host \o CRLF :
      target \in { << "/" >> \o t :
                    t \in SeqOf({"?", "%", "2", "5", "0"}, MaxTarget - 1) }
                 \cup SeqOf({"/", ".", "html", "css"}, MaxPath) }

(* All header blocks over a few units, and all blocks of a few lines: two  *)
(* framing headers in several spellings, long names and values, a NUL.     *)
HeaderLines ==
  { Host,
    << "Content-Length", ":", "SP", "0", "SP" >> \o CRLF,
    << "Content-Length", ":", "0", "1" >> \o CRLF,
    << "Content-Length", "SP", ":", "1" >> \o CRLF,
    << "SP", "Content-Length", ":", "1" >> \o CRLF,
    << "Transfer-Encoding", ":", "x" >> \o CRLF,
    << "Transfer-Encoding", "HTAB", ":", "x" >> \o CRLF,
    << "x", "x", "x", ":" >> \o CRLF,
    << "x", ":", "x", "HTAB", "x", "x" >> \o CRLF,
    << "x", ":", "x", LF, "x" >> \o CRLF,
    << NUL >> \o CRLF }

HeaderTexts ==
  { Get(<< "/" >>) \o Host \o block \o CRLF :
      block \in SeqOf({"Content-Length", ":", "0", "SP", NUL, CR, LF},
                      MaxText) }
  \cup { Get(<< "/" >>) \o FlattenSeq(lines) \o CRLF :
            lines \in SeqOf(HeaderLines, MaxLines) }

MCTexts ==
  { text_ \in LineTexts \cup TargetTexts \cup HeaderTexts : Framed(text_) }

MCUnit ==
  { "GET", "SP", "HTAB", "/", "HTTP/1.1", CR, LF, NUL, ":", "?", "%", ".",
    "0", "1", "2", "5", "x", "html", "css", "Host", "Content-Length",
    "Transfer-Encoding" }

Limits(headers, name, value) ==
  [http_buffer_size |-> 64, http_max_headers |-> headers,
   http_header_name_max |-> name, http_header_value_max |-> value]

MCConfigs == { Limits(64, 64, 64), Limits(2, 3, 4) }

MCFiles == { [errno |-> "OK", size |-> 1] }

=============================================================================
