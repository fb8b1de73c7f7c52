----------------------------- MODULE HttpParse -----------------------------
(***************************************************************************)
(* http_parse.c: from the bytes of a framed request to an http_request_t.  *)
(*                                                                         *)
(* Text is a sequence of units.  A unit is one byte that the grammar       *)
(* treats specially ("SP", ":", "%", "NUL", ...), one byte of no special   *)
(* meaning ("x"), or a word the server knows ("GET", "Host", "HTTP/1.1"),  *)
(* which counts as one unit of length.  A header name stands for all its   *)
(* spellings, because names are compared with strcasecmp, and a hex digit  *)
(* for both its cases.                                                     *)
(*                                                                         *)
(* http_prepare_response copies the request into a C string, so every      *)
(* search but the framing itself stops at the first NUL.                   *)
(***************************************************************************)
EXTENDS HttpConnection

CONSTANTS
  METHOD_SIZE,     \* sizeof request->method, 16 in the code
  TARGET_SIZE,     \* sizeof target and path, 4096 in the code
  PATH_SIZE,       \* sizeof request->path, 4096 in the code
  HTTP_QUERY_MAX,  \* sizeof request->query, 4096 in the code
  VERSION_SIZE     \* sizeof request->version, 16 in the code

(* Each holds a NUL, and request->version a version in front of it.        *)
ASSUME SizesAssumption ==
  /\ \A size \in {METHOD_SIZE, TARGET_SIZE, PATH_SIZE, HTTP_QUERY_MAX,
                  VERSION_SIZE} : size \in Nat \ {0}
  /\ VERSION_SIZE > 1

NUL == "NUL"

(* The bytes below 32 and 127; CTL stands for those not named.             *)
Control == {NUL, "HTAB", LF, CR, "CTL", "DEL"}

Blank == {"SP", "HTAB"}

(* Units that hold a byte http_is_tchar refuses.  Every other unit is made *)
(* of token bytes; the remaining separators and the bytes above 127 have   *)
(* no unit.                                                                *)
Separators == {"SP", ":", "/", "?", "HTTP/1.0", "HTTP/1.1"}

(* Mutant: a blank may stand before the colon.                             *)
http_is_tchar_or_blank(c) == c \notin (Control \cup Separators) \ Blank

http_is_tchar(c) == c \notin Control \cup Separators

-----------------------------------------------------------------------------
(* C strings: positions start at 1 and 0 stands for NULL.                  *)

LeastOrNull(positions) ==
  IF positions = {} THEN 0
  ELSE CHOOSE i \in positions : \A j \in positions : i <= j

(* The length strlen finds: the text ends at its first NUL.                *)
CLength(text) ==
  LET nul == LeastOrNull({i \in DOMAIN text : text[i] = NUL})
  IN  IF nul = 0 THEN Len(text) ELSE nul - 1

(* strstr(text + from, CRLF).                                              *)
FindCRLF(text, from) ==
  LeastOrNull({i \in from..(CLength(text) - 1) :
                 text[i] = CR /\ text[i + 1] = LF})

(* memchr(text + from, c, end - from), end excluded.                       *)
FindUnit(text, c, from, end) ==
  LeastOrNull({i \in from..(end - 1) : text[i] = c})

-----------------------------------------------------------------------------
(* The request target                                                      *)

HexDigits == << "0", "1", "2", "3", "4", "5", "6", "7",
                "8", "9", "A", "B", "C", "D", "E", "F" >>

IsHex(c) == \E v \in 0..15 : HexDigits[v + 1] = c

http_hex_value(c) == CHOOSE v \in 0..15 : HexDigits[v + 1] = c

(* The unit with a given byte value; "x" stands for the rest.              *)
UnitOfByte(value) ==
  CASE value = 0   -> NUL
    [] value = 9   -> "HTAB"
    [] value = 10  -> LF
    [] value = 13  -> CR
    [] value \in (1..31) \ {9, 10, 13} -> "CTL"
    [] value = 32  -> "SP"
    [] value = 37  -> "%"
    [] value = 46  -> "."
    [] value = 47  -> "/"
    [] value \in 48..57 -> HexDigits[value - 47]
    [] value = 58  -> ":"
    [] value = 63  -> "?"
    [] value \in 65..70 -> HexDigits[value - 54]
    [] value \in 97..102 -> HexDigits[value - 86]
    [] value = 127 -> "DEL"
    [] OTHER       -> "x"

(* The bytes the loop of http_decode_path produces; an escape it refuses   *)
(* gives a NUL, which the loop refuses as well.                            *)
DecodedBytes(encoded) ==
  LET from[src \in 1..(Len(encoded) + 1)] ==
        IF src > Len(encoded) THEN << >>
        ELSE IF encoded[src] # "%" THEN << encoded[src] >> \o from[src + 1]
        ELSE IF src + 2 > Len(encoded) THEN << NUL >>
        ELSE IF ~IsHex(encoded[src + 1]) \/ ~IsHex(encoded[src + 2])
             THEN << NUL >>
        ELSE << UnitOfByte(16 * http_hex_value(encoded[src + 1])
                           + http_hex_value(encoded[src + 2])) >>
             \o from[src + 3]
  IN  from[1]

NotDecoded == << NUL >>

(* Mutant: the result is decoded once more.                                *)
http_decode_path_twice(encoded) ==
  LET decoded == DecodedBytes(DecodedBytes(encoded))
  IN  IF \/ Len(decoded) >= PATH_SIZE
         \/ \E i \in DOMAIN decoded : decoded[i] \in Control
      THEN NotDecoded
      ELSE decoded

(* The decoded path, NotDecoded where the code returns -1.                 *)
http_decode_path(encoded) ==
  LET decoded == DecodedBytes(encoded)
  IN  IF \/ Len(decoded) >= PATH_SIZE
         \/ \E i \in DOMAIN decoded : decoded[i] \in Control
      THEN NotDecoded
      ELSE decoded

(* A target cut at its first "?".                                          *)
TargetPath(target) ==
  LET mark == FindUnit(target, "?", 1, Len(target) + 1)
  IN  IF mark = 0 THEN target ELSE SubSeq(target, 1, mark - 1)

TargetQuery(target) ==
  LET mark == FindUnit(target, "?", 1, Len(target) + 1)
  IN  IF mark = 0 THEN << >> ELSE SubSeq(target, mark + 1, Len(target))

http_parse_target_ok(target) ==
  /\ Len(TargetPath(target)) \in 1..(TARGET_SIZE - 1)
  /\ Len(TargetQuery(target)) < HTTP_QUERY_MAX
  /\ TargetPath(target)[1] = "/"
  /\ http_decode_path(TargetPath(target)) # NotDecoded

-----------------------------------------------------------------------------
(* The request line                                                        *)

(* The line is cut at its first two SP: [ok, method, target, version].     *)
http_parse_request_line(text) ==
  LET end     == FindCRLF(text, 1)
      first   == FindUnit(text, "SP", 1, end)
      second  == FindUnit(text, "SP", first + 1, end)
      method  == SubSeq(text, 1, first - 1)
      target  == SubSeq(text, first + 1, second - 1)
      version == SubSeq(text, second + 1, end - 1)
  IN  [ok |-> /\ end # 0 /\ first # 0 /\ second # 0
              /\ FindUnit(text, "SP", second + 1, end) = 0
              /\ Len(method) \in 1..(METHOD_SIZE - 1)
              /\ \A i \in DOMAIN method : http_is_tchar(method[i])
              /\ Len(target) \in 1..(TARGET_SIZE - 1)
              /\ Len(version) \in 1..(VERSION_SIZE - 1),
       method |-> method, target |-> target, version |-> version]

-----------------------------------------------------------------------------
(* The headers                                                             *)

http_valid_header_name(name) ==
  name # << >> /\ \A i \in DOMAIN name : http_is_tchar(name[i])

http_valid_header_value(value) ==
  \A i \in DOMAIN value : value[i] \notin Control \ {"HTAB"}

(* A value without the blanks around it.                                   *)
Trim(text) ==
  LET kept  == {i \in DOMAIN text : text[i] \notin Blank}
      first == CHOOSE i \in kept : \A j \in kept : i <= j
      last  == CHOOSE i \in kept : \A j \in kept : j <= i
  IN  IF kept = {} THEN << >> ELSE SubSeq(text, first, last)

(* Mutant: a limit is the longest text allowed, not the size of the array. *)
TooLongUnterminated(text, size) == Len(text) > size

(* The text and its NUL do not fit in an array of that size.               *)
TooLong(text, size) == Len(text) >= size

(* Mutant: what does not fit is cut off.                                   *)
HeaderLineCut(line, config) ==
  LET colon == FindUnit(line, ":", 1, Len(line) + 1)
      name  == SubSeq(line, 1, colon - 1)
      value == Trim(SubSeq(line, colon + 1, Len(line)))
      Cut(text, size) == IF TooLong(text, size) THEN SubSeq(text, 1, size - 1)
                                                ELSE text
  IN  [result |-> IF \/ colon = 0 \/ ~http_valid_header_name(name)
                     \/ ~http_valid_header_value(value)
                  THEN "BAD_REQUEST" ELSE "next",
       header |-> [name |-> Cut(name, config.http_header_name_max),
                   value |-> Cut(value, config.http_header_value_max)]]

(* The part of one iteration of the loop that looks at a header line: what *)
(* it returns, "next" when it goes on, and the header it stores.           *)
HeaderLine(line, config) ==
  LET colon == FindUnit(line, ":", 1, Len(line) + 1)
      name  == SubSeq(line, 1, colon - 1)
      value == Trim(SubSeq(line, colon + 1, Len(line)))
  IN  [result |->
         IF colon = 0 \/ ~http_valid_header_name(name) THEN "BAD_REQUEST"
         ELSE IF TooLong(name, config.http_header_name_max)
              THEN "HEADERS_TOO_LARGE"
         ELSE IF ~http_valid_header_value(value) THEN "BAD_REQUEST"
         ELSE IF TooLong(value, config.http_header_value_max)
              THEN "HEADERS_TOO_LARGE"
         ELSE "next",
       header |-> [name |-> name, value |-> value]]

(* Mutant: the end of the C string ends the headers as well.               *)
BlankLineOrNulAt(text, line) ==
  \/ line \in DOMAIN text /\ text[line] = NUL
  \/ line < Len(text) /\ text[line] = CR /\ text[line + 1] = LF

(* line[0] == CR && line[1] == LF.                                         *)
BlankLineAt(text, line) ==
  line < Len(text) /\ text[line] = CR /\ text[line + 1] = LF

(* Mutant: the last element of the array is never used.                    *)
TooManyEarly(count, config) == count + 1 >= config.http_max_headers

TooMany(count, config) == count >= config.http_max_headers

(* One iteration, at the line at a position with count headers stored: what*)
(* the loop returns from here and the headers it still stores, given the   *)
(* same of the rest.                                                       *)
ParseHeader(text, config, line, count, rest) ==
  LET stop(result) == [result |-> result, headers |-> << >>]
      end  == FindCRLF(text, line)
      this == HeaderLine(SubSeq(text, line, end - 1), config)
  IN  IF BlankLineAt(text, line) THEN stop("OK")
      ELSE IF TooMany(count, config) THEN stop("HEADERS_TOO_LARGE")
      ELSE IF end = 0 THEN stop("BAD_REQUEST")
      ELSE IF this.result # "next" THEN stop(this.result)
      ELSE [result |-> rest.result, headers |-> << this.header >> \o rest.headers]

(* The loop: at is << line, count >>.                                      *)
http_parse_headers(text, config) ==
  LET loop[at \in (1..(Len(text) + 1)) \X Nat] ==
        ParseHeader(text, config, at[1], at[2],
                    loop[<< FindCRLF(text, at[1]) + 2, at[2] + 1 >>])
  IN  loop[<< FindCRLF(text, 1) + 2, 0 >>]

-----------------------------------------------------------------------------
(* The request, or only the reason why there is none.                      *)
http_parse_request(text, config) ==
  LET line    == http_parse_request_line(text)
      parsed  == http_parse_headers(text, config)
      refused == [parse_result |-> "BAD_REQUEST"]
  IN  IF ~line.ok THEN refused
      ELSE IF line.version \notin { << "HTTP/1.1" >>, << "HTTP/1.0" >> }
           THEN refused
      ELSE IF ~http_parse_target_ok(line.target) THEN refused
      ELSE IF parsed.result # "OK" THEN [parse_result |-> parsed.result]
      ELSE [parse_result |-> "OK",
            method  |-> line.method,
            path    |-> http_decode_path(TargetPath(line.target)),
            query   |-> TargetQuery(line.target),
            version |-> line.version,
            headers |-> parsed.headers]

=============================================================================
