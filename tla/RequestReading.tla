--------------------------- MODULE RequestReading ---------------------------
(***************************************************************************)
(* Request text as somebody else on the connection (a proxy, a client)     *)
(* reads it: by its bytes up to the blank line, NUL included, and          *)
(* forgiving blanks around a field name.  The properties compare what the  *)
(* server understood with this reading; nothing here models code.          *)
(***************************************************************************)
EXTENDS HttpParse

NextCRLF(text, from) ==
  LeastOrNull({i \in from..(Len(text) - 1) : text[i] = CR /\ text[i + 1] = LF})

(* The lines of a text: each ends at a CRLF.                               *)
Lines(text) ==
  LET lines[from \in 1..(Len(text) + 1)] ==
        LET end == NextCRLF(text, from)
        IN  IF end = 0 THEN << >>
            ELSE << SubSeq(text, from, end - 1) >> \o lines[end + 2]
  IN  lines[1]

Colon(line) == FindUnit(line, ":", 1, Len(line) + 1)

LooseName(line) == SubSeq(line, 1, Colon(line) - 1)

LooseValue(line) == SubSeq(line, Colon(line) + 1, Len(line))

(* One word with any blanks around it.                                     *)
IsWord(units, word) ==
  \E i \in DOMAIN units :
    units[i] = word /\ \A j \in DOMAIN units \ {i} : units[j] \in Blank

(* Zeros with any blanks around and between them.                          *)
AllZeros(units) ==
  /\ \E i \in DOMAIN units : units[i] = "0"
  /\ \A i \in DOMAIN units : units[i] \in Blank \cup {"0"}

(* The lines of the text that some reader may take for a certain header.   *)
LinesNamed(text, name) ==
  {k \in DOMAIN Lines(text) : IsWord(LooseName(Lines(text)[k]), name)}

(* Some reader may take the bytes behind the blank line for a body.        *)
MayHaveBody(text) ==
  \/ LinesNamed(text, "Transfer-Encoding") # {}
  \/ \E j, k \in LinesNamed(text, "Content-Length") :
       j # k \/ ~AllZeros(LooseValue(Lines(text)[k]))

(* The client wants no further answer: it speaks HTTP/1.0, or its first    *)
(* Connection line says close.                                             *)
AsksToClose(text) ==
  LET lines      == Lines(text)
      connection == LinesNamed(text, "Connection")
  IN  \/ /\ lines # << >> /\ lines[1] # << >>
         /\ lines[1][Len(lines[1])] = "HTTP/1.0"
      \/ \E k \in connection :
           /\ \A j \in connection : k <= j
           /\ IsWord(LooseValue(lines[k]), "close")

-----------------------------------------------------------------------------
(* What the server should understand of a text.                            *)

AllBlank(units) == \A i \in DOMAIN units : units[i] \in Blank

(* A line is the name, a colon, and the value with blanks around it.       *)
Writes(line, header) ==
  LET colon == Len(header.name) + 1
  IN  \E lead \in 0..(Len(line) - colon - Len(header.value)) :
        LET from == colon + lead
            to   == from + Len(header.value)
        IN  /\ SubSeq(line, 1, colon) = header.name \o << ":" >>
            /\ AllBlank(SubSeq(line, colon + 1, from))
            /\ SubSeq(line, from + 1, to) = header.value
            /\ AllBlank(SubSeq(line, to + 1, Len(line)))

(* The escapes of a path cut into pieces: each piece is one unit other     *)
(* than "%", or an escape and the byte it denotes.                         *)
Decodes(encoded, decoded) ==
  \E start \in [1..(Len(decoded) + 1) -> 1..(Len(encoded) + 1)] :
    /\ start[1] = 1 /\ start[Len(decoded) + 1] = Len(encoded) + 1
    /\ \A i \in DOMAIN decoded :
         LET piece == SubSeq(encoded, start[i], start[i + 1] - 1)
         IN  \/ Len(piece) = 1 /\ piece[1] # "%" /\ decoded[i] = piece[1]
             \/ /\ Len(piece) = 3 /\ piece[1] = "%"
                /\ IsHex(piece[2]) /\ IsHex(piece[3])
                /\ decoded[i] = UnitOfByte(16 * http_hex_value(piece[2])
                                           + http_hex_value(piece[3]))

(* A Content-Length that denotes zero: one or more zeros.                  *)
DenotesZero(value) ==
  value # << >> /\ \A i \in DOMAIN value : value[i] = "0"

(* The bytes that follow the blank line of a request are the next request: *)
(* no Transfer-Encoding, at most one Content-Length, and that one zero in  *)
(* arithmetic without a word size.                                         *)
HasNoBody(r) ==
  /\ \A i \in DOMAIN r.headers : r.headers[i].name # << "Transfer-Encoding" >>
  /\ \A i, j \in DOMAIN r.headers :
       /\ r.headers[i].name = << "Content-Length" >>
       /\ r.headers[j].name = << "Content-Length" >>
       => i = j /\ DenotesZero(r.headers[i].value)

-----------------------------------------------------------------------------
(* What the server should accept: the grammar of a request, and the room   *)
(* there is for each of its parts.                                         *)

IsToken(units, size) ==
  /\ Len(units) \in 1..(size - 1)
  /\ \A i \in DOMAIN units : units[i] \notin Control \cup Separators

(* Two hex digits that denote no control character stand behind i.         *)
IsEscape(units, i) ==
  /\ i + 2 <= Len(units) /\ IsHex(units[i + 1]) /\ IsHex(units[i + 2])
  /\ UnitOfByte(16 * http_hex_value(units[i + 1])
                 + http_hex_value(units[i + 2])) \notin Control

IsPath(units) ==
  /\ Len(units) \in 1..(PATH_SIZE - 1) /\ units[1] = "/"
  /\ \A i \in DOMAIN units : /\ units[i] \notin Control \cup {"SP", "?"}
                             /\ units[i] = "%" => IsEscape(units, i)

IsQuery(units) ==
  /\ Len(units) < HTTP_QUERY_MAX
  /\ \A i \in DOMAIN units : units[i] \notin Control \cup {"SP"}

IsTarget(units) ==
  /\ Len(units) < TARGET_SIZE
  /\ \/ IsPath(units)
     \/ \E mark \in DOMAIN units :
          /\ units[mark] = "?"
          /\ IsPath(SubSeq(units, 1, mark - 1))
          /\ IsQuery(SubSeq(units, mark + 1, Len(units)))

IsRequestLine(line) ==
  \E first, second \in DOMAIN line :
    /\ first < second /\ line[first] = "SP" /\ line[second] = "SP"
    /\ IsToken(SubSeq(line, 1, first - 1), METHOD_SIZE)
    /\ IsTarget(SubSeq(line, first + 1, second - 1))
    /\ SubSeq(line, second + 1, Len(line))
         \in { << "HTTP/1.0" >>, << "HTTP/1.1" >> }

(* A name, a colon, and a value with blanks around it that do not count.   *)
IsFieldLine(line, limits) ==
  \E colon \in DOMAIN line :
    /\ line[colon] = ":"
    /\ IsToken(SubSeq(line, 1, colon - 1), limits.http_header_name_max)
    /\ \A i \in (colon + 1)..Len(line) : line[i] \notin Control \ {"HTAB"}
    /\ \E from \in colon..Len(line) : \E to \in from..Len(line) :
         /\ to - from < limits.http_header_value_max
         /\ AllBlank(SubSeq(line, colon + 1, from))
         /\ AllBlank(SubSeq(line, to + 1, Len(line)))

(* A request line, field lines and the blank line.                         *)
WellFormed(text, limits) ==
  LET lines == Lines(text)
  IN  /\ Len(lines) \in 2..(limits.http_max_headers + 2)
      /\ IsRequestLine(lines[1])
      /\ \A k \in 2..(Len(lines) - 1) : IsFieldLine(lines[k], limits)

(* A GET or HEAD with one Host and no header about a body.                 *)
IsPlain(text) ==
  /\ SubSeq(Lines(text)[1], 1, 2) \in {<< "GET", "SP" >>, << "HEAD", "SP" >>}
  /\ \E k \in DOMAIN Lines(text) : LinesNamed(text, "Host") = {k}
  /\ LinesNamed(text, "Content-Length") = {}
  /\ LinesNamed(text, "Transfer-Encoding") = {}

=============================================================================
