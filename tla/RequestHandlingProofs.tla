----------------------- MODULE RequestHandlingProofs -----------------------
(***************************************************************************)
(* http_prepare_response keeps its promises for every framed text, over    *)
(* any alphabet and of any length, and for every command line: what is     *)
(* accepted is all of the text, what is stored fits, and no connection is  *)
(* kept open behind a body.  The work is in HttpProofs; here it is carried *)
(* over to the steps of the specification.                                 *)
(***************************************************************************)
EXTENDS RequestHandling, HttpProofs

(* Before the call nothing is parsed or decided; after it the request and  *)
(* the decision are those of the text.                                     *)
IInv ==
  /\ text \in Texts /\ config \in Configs
  /\ \/ parsed = Unparsed /\ decision = Undecided
     \/ /\ parsed = http_parse_request(text, config)
        /\ decision = http_prepare_response(parsed, file)

(* The invariant: http_prepare_response parses the text it is given, under *)
(* the limits it is given, and decides from the result.                    *)
THEOREM PreparedFromText == Spec => []IInv
<1>1. Init => IInv
  BY DEF Init, IInv
<1>2. IInv /\ [Prepare]_vars => IInv'
  <2> SUFFICES ASSUME IInv, [Prepare]_vars PROVE IInv'
    OBVIOUS
  <2>1. CASE Prepare
    <3>1. /\ text' = text /\ config' = config /\ file' = file
          /\ parsed' = http_parse_request(text, config)
          /\ decision' = http_prepare_response(parsed', file)
      BY <2>1 DEF Prepare
    <3>2. QED
      BY <3>1 DEF IInv
  <2>2. CASE UNCHANGED vars
    BY <2>2 DEF IInv, vars
  <2>3. QED
    BY <2>1, <2>2
<1>3. QED
  BY <1>1, <1>2, PTL DEF Spec

(* The text and the limits are what the assumptions say.                   *)
LEMMA TextIsFramed ==
  ASSUME IInv
  PROVE  ParsedFrom(Unit, text, config, http_parse_request(text, config))
BY RequestAssumption DEF IInv, Framed, ParsedFrom, EndsAtBlankLine

(* What is decided is decided about the text.                              *)
LEMMA DecidedFromText ==
  ASSUME IInv, Decided
  PROVE  /\ ParsedFrom(Unit, text, config, parsed)
         /\ decision = http_prepare_response(parsed, file)
BY TextIsFramed DEF IInv, Decided

(* So is what is accepted.                                                 *)
LEMMA AcceptedFromText ==
  ASSUME IInv, Accepted
  PROVE  \E line : Understood(Unit, text, config, parsed, line)
<1>1. ParsedFrom(Unit, text, config, parsed)
  BY TextIsFramed DEF IInv, Accepted, Unparsed
<1>2. QED
  BY <1>1, AcceptedIsUnderstood DEF Accepted

-----------------------------------------------------------------------------
(* What is understood                                                      *)

(* The headers are the lines of the text: nothing between the request line *)
(* and the blank line of the framing is left out, whatever NULs, blanks or *)
(* stray CRs the text holds.                                               *)
THEOREM NothingLeftOut == Spec => []AcceptedTextAccountedFor
<1>1. IInv => AcceptedTextAccountedFor
  <2>1. SUFFICES ASSUME IInv, Accepted
                 PROVE  /\ Len(Lines(text)) = Len(parsed.headers) + 2
                        /\ \A k \in DOMAIN parsed.headers :
                             /\ Writes(Lines(text)[k + 1], parsed.headers[k])
                             /\ Stripped(parsed.headers[k].value)
    BY DEF AcceptedTextAccountedFor, Stripped
  <2>2. Accounted(Unit, text, config, parsed.headers)
    BY <2>1, AcceptedFromText DEF Understood
  <2>3. PICK n \in Nat : n = Len(parsed.headers) /\ DOMAIN parsed.headers = 1..n
    BY <2>2, LenProperties DEF Accounted
  <2>4. /\ Lines(text) \in Seq(Seq(Unit)) /\ Len(Lines(text)) = n + 2
        /\ \A k \in 1..n : StoredFrom(Unit, Lines(text)[k + 1],
                                      parsed.headers[k], config)
    BY <2>2, <2>3 DEF Accounted
  <2>5. ASSUME NEW k \in 1..n
        PROVE  /\ Writes(Lines(text)[k + 1], parsed.headers[k])
               /\ Stripped(parsed.headers[k].value)
    <3>1. k + 1 \in 1..Len(Lines(text))
      BY <2>4
    <3>2. Lines(text)[k + 1] \in Seq(Unit)
      BY <2>4, <3>1, ElementOfSeq
    <3>3. StoredFrom(Unit, Lines(text)[k + 1], parsed.headers[k], config)
      BY <2>4
    <3>4. QED
      BY <3>2, <3>3, StoredIsWritten DEF StoredFrom
  <2>6. QED
    BY <2>3, <2>4, <2>5
<1>2. QED
  BY <1>1, PreparedFromText, PTL

(* Whatever the grammar of RequestReading allows and the limits have room  *)
(* for is accepted, at every length: no check of http_parse.c refuses more *)
(* than it has to.                                                         *)
THEOREM GrammarIsAccepted == Spec => []WellFormedAccepted
<1>1. IInv => WellFormedAccepted
  <2>1. SUFFICES ASSUME IInv, Decided, WellFormed(text, config)
                 PROVE  Accepted
    BY DEF WellFormedAccepted
  <2>2. ParsedFrom(Unit, text, config, parsed)
    BY <2>1, DecidedFromText
  <2>3. LimitsAreNumbers(config)
    BY <2>1, RequestAssumption DEF IInv, LimitsAreNumbers
  <2>4. QED
    BY <2>1, <2>2, <2>3, WellFormedIsParsed DEF ParsedFrom, Accepted
<1>2. QED
  BY <1>1, PreparedFromText, PTL

(* No memcpy of the parser writes behind the end of its array, whatever    *)
(* limits the command line sets and however long the pieces of the text    *)
(* are.                                                                    *)
THEOREM NothingOverflows == Spec => []EverythingFits
<1>1. IInv => EverythingFits
  <2>1. SUFFICES ASSUME IInv, Accepted
                 PROVE  EverythingFits
    BY DEF EverythingFits
  <2>2. PICK line : Understood(Unit, text, config, parsed, line)
    BY <2>1, AcceptedFromText
  <2>3. /\ CutInto(Unit, Lines(text)[1], line) /\ http_parse_target_ok(line.target)
        /\ Accounted(Unit, text, config, parsed.headers)
        /\ parsed.method = line.method /\ parsed.version = line.version
        /\ parsed.path = http_decode_path(TargetPath(line.target))
        /\ parsed.query = TargetQuery(line.target)
    BY <2>2 DEF Understood
  <2>4. Len(parsed.method) < METHOD_SIZE /\ Len(parsed.version) < VERSION_SIZE
    <3>1. /\ Len(parsed.method) \in 1..(METHOD_SIZE - 1)
          /\ Len(parsed.version) \in 1..(VERSION_SIZE - 1)
      BY <2>3 DEF CutInto
    <3>2. QED
      BY <3>1, Sizes
  <2>5. Len(parsed.path) < PATH_SIZE /\ Len(parsed.query) < HTTP_QUERY_MAX
    <3>1. line.target \in Seq(Unit)
      BY <2>3 DEF CutInto
    <3>2. QED
      BY <2>3, <3>1, AcceptedTarget
  <2>6. PICK n \in Nat : n = Len(parsed.headers) /\ DOMAIN parsed.headers = 1..n
    BY <2>3, LenProperties DEF Accounted
  <2>7. /\ n <= config.http_max_headers
        /\ \A k \in 1..n : StoredFrom(Unit, Lines(text)[k + 1],
                                      parsed.headers[k], config)
    BY <2>3, <2>6 DEF Accounted
  <2>8. ASSUME NEW k \in 1..n
        PROVE  /\ Len(parsed.headers[k].name) < config.http_header_name_max
               /\ Len(parsed.headers[k].value) < config.http_header_value_max
    <3>1. /\ config.http_header_name_max \in Nat
          /\ config.http_header_value_max \in Nat
      BY <2>1, RequestAssumption DEF IInv
    <3>2. /\ parsed.headers[k].name \in Seq(Unit)
          /\ parsed.headers[k].value \in Seq(Unit)
          /\ ~(Len(parsed.headers[k].name) >= config.http_header_name_max)
          /\ ~(Len(parsed.headers[k].value) >= config.http_header_value_max)
      BY <2>7 DEF StoredFrom, HeaderText, TooLong
    <3>3. /\ Len(parsed.headers[k].name) \in Nat
          /\ Len(parsed.headers[k].value) \in Nat
      BY <3>2, LenProperties
    <3>4. QED
      BY <3>1, <3>2, <3>3
  <2>9. QED
    BY <2>4, <2>5, <2>6, <2>7, <2>8 DEF EverythingFits
<1>2. QED
  BY <1>1, PreparedFromText, PTL

(* The limits of the command line are a filter: they answer 431 or change  *)
(* nothing, and a request that no limit stops is never told it is too      *)
(* large.                                                                  *)
THEOREM LimitsAreAFilter == Spec => []LimitsOnlyRefuse
<1>1. IInv => LimitsOnlyRefuse
  <2> DEFINE wide == Unlimited
             limited == http_parse_headers(text, config)
             free == http_parse_headers(text, wide)
             line == http_parse_request_line(text)
  <2>1. SUFFICES ASSUME IInv, Decided
                 PROVE  /\ \/ parsed = http_parse_request(text, wide)
                           \/ parsed.parse_result = "HEADERS_TOO_LARGE"
                        /\ http_parse_request(text, wide).parse_result
                             # "HEADERS_TOO_LARGE"
    BY DEF LimitsOnlyRefuse
  <2>2. text \in Seq(Unit) /\ parsed = http_parse_request(text, config)
    BY <2>1, DecidedFromText DEF ParsedFrom
  <2>3. Wide(text, wide)
    <3>1. Len(text) \in Nat
      BY <2>2, LenProperties
    <3>2. QED
      BY <3>1 DEF Wide, Unlimited
  <2> HIDE DEF wide
  <2>4. CASE line.ok
    <3>1. FindCRLF(text, 1) # 0
      BY <2>2, <2>4, RequestLineCuts
    <3>2. /\ free.result # "HEADERS_TOO_LARGE"
          /\ limited.result = "HEADERS_TOO_LARGE" \/ limited = free
      BY <2>2, <2>3, <3>1, LoopLimits DEF LimitedFrom
    <3> HIDE DEF limited, free, line
    <3> DEFINE stop ==
                 \/ line.version \notin { << "HTTP/1.1" >>, << "HTTP/1.0" >> }
                 \/ ~http_parse_target_ok(line.target)
               accept(headers) ==
                 [parse_result |-> "OK", method |-> line.method,
                  path |-> http_decode_path(TargetPath(line.target)),
                  query |-> TargetQuery(line.target),
                  version |-> line.version, headers |-> headers]
    <3>3. http_parse_request(text, wide) =
            IF stop THEN [parse_result |-> "BAD_REQUEST"]
            ELSE IF free.result # "OK" THEN [parse_result |-> free.result]
            ELSE accept(free.headers)
      BY <2>4 DEF http_parse_request, line, free
    <3>4. http_parse_request(text, config) =
            IF stop THEN [parse_result |-> "BAD_REQUEST"]
            ELSE IF limited.result # "OK" THEN [parse_result |-> limited.result]
            ELSE accept(limited.headers)
      BY <2>4 DEF http_parse_request, line, limited
    <3>5. \A headers : accept(headers).parse_result = "OK"
      OBVIOUS
    <3> HIDE DEF stop, accept
    <3>6. CASE limited = free
      BY <2>2, <3>2, <3>3, <3>4, <3>5, <3>6
    <3>7. CASE limited.result = "HEADERS_TOO_LARGE"
      BY <2>2, <3>2, <3>3, <3>4, <3>5, <3>7
    <3>8. QED
      BY <3>2, <3>6, <3>7
  <2>5. CASE ~line.ok
    <3>1. \A c : http_parse_request(text, c) = [parse_result |-> "BAD_REQUEST"]
      BY <2>5 DEF http_parse_request
    <3>2. QED
      BY <2>2, <3>1
  <2>6. QED
    BY <2>4, <2>5
<1>2. QED
  BY <1>1, PreparedFromText, PTL

(* The path the file system gets is the path of the request line, decoded  *)
(* exactly once, rooted, and without a control character that would cut    *)
(* it short.                                                               *)
THEOREM DecodedExactlyOnce == Spec => []PathDecodedOnce
<1>1. IInv => PathDecodedOnce
  <2>1. SUFFICES ASSUME IInv, Accepted
                 PROVE  PathDecodedOnce
    BY DEF PathDecodedOnce
  <2>2. PICK line : Understood(Unit, text, config, parsed, line)
    BY <2>1, AcceptedFromText
  <2> DEFINE target == line.target
             path == TargetPath(target)
  <2>3. /\ target \in Seq(Unit) /\ http_parse_target_ok(target)
        /\ parsed.path = http_decode_path(path)
        /\ parsed.query = TargetQuery(target)
        /\ SubSeq(Lines(text)[1], Len(parsed.method) + 2,
                  Len(Lines(text)[1]) - Len(parsed.version) - 1) = target
    BY <2>2 DEF Understood, CutInto
  <2>4. /\ Len(path) \in 1..Len(target)
        /\ parsed.path[1] = "/"
        /\ \A i \in DOMAIN parsed.path : parsed.path[i] \notin Control
        /\ Decodes(path, parsed.path)
    BY <2>3, AcceptedTarget
  <2>5. /\ path \in Seq(Unit) /\ path = SubSeq(target, 1, Len(path))
        /\ \A i \in 1..Len(path) : path[i] # "?"
        /\ \/ target = path /\ parsed.query = << >>
           \/ target = path \o << "?" >> \o parsed.query
    BY <2>3, TargetCuts
  <2>6. \A i \in DOMAIN path : path[i] # "?"
    BY <2>5, LenProperties, SMTT(30)
  <2> HIDE DEF target, path
  <2>7. \E n \in 1..Len(target) :
          /\ path = SubSeq(target, 1, n)
          /\ \/ target = path /\ parsed.query = << >>
             \/ target = path \o << "?" >> \o parsed.query
          /\ \A i \in DOMAIN path : path[i] # "?"
          /\ Decodes(path, parsed.path)
    BY <2>4, <2>5, <2>6
  <2>8. PICK n \in 1..Len(target) :
          /\ \/ target = SubSeq(target, 1, n) /\ parsed.query = << >>
             \/ target = SubSeq(target, 1, n) \o << "?" >> \o parsed.query
          /\ \A i \in DOMAIN SubSeq(target, 1, n) : SubSeq(target, 1, n)[i] # "?"
          /\ Decodes(SubSeq(target, 1, n), parsed.path)
    BY <2>7
  <2>9. QED
    BY <2>3, <2>4, <2>8 DEF PathDecodedOnce
<1>2. QED
  BY <1>1, PreparedFromText, PTL

(* No dot in a directory's name decides the Content-Type.                  *)
THEOREM TypeIsOfLastComponent == Spec => []TypeOfLastComponent
<1>1. IInv => TypeOfLastComponent
  <2>1. SUFFICES ASSUME IInv, Accepted
                 PROVE  TypeOfLastComponent
    BY DEF TypeOfLastComponent
  <2>2. PICK line : Understood(Unit, text, config, parsed, line)
    BY <2>1, AcceptedFromText
  <2>3. parsed.path \in Seq(Decodable(Unit))
    <3>1. /\ line.target \in Seq(Unit) /\ http_parse_target_ok(line.target)
          /\ parsed.path = http_decode_path(TargetPath(line.target))
      BY <2>2 DEF Understood, CutInto
    <3>2. QED
      BY <3>1, AcceptedTarget
  <2>4. DOMAIN parsed.path = 1..Len(parsed.path)
    BY <2>3, LenProperties
  <2>5. QED
    BY <2>3, <2>4, TypeIgnoresDirectories DEF TypeOfLastComponent
<1>2. QED
  BY <1>1, PreparedFromText, PTL

-----------------------------------------------------------------------------
(* What is decided                                                         *)

(* No connection is kept open behind a body, as the server understands the *)
(* request.                                                                *)
THEOREM NoBodyKeptOpen == Spec => []KeptOpenOnlyWithoutBody
<1>1. IInv => KeptOpenOnlyWithoutBody
  BY DecidedFromText, KeptOpenBehindNoBody DEF KeptOpenOnlyWithoutBody, Accepted
<1>2. QED
  BY <1>1, PreparedFromText, PTL

(* Nor as anybody else may understand its bytes: behind a NUL, or with a   *)
(* blank before a colon, no Content-Length and no Transfer-Encoding of an  *)
(* accepted text escapes the server.                                       *)
THEOREM NobodyFindsABody == Spec => []NoBodyOverlooked
<1>1. IInv => NoBodyOverlooked
  BY DecidedFromText, KeptOpenBehindNoBody DEF NoBodyOverlooked
<1>2. QED
  BY <1>1, PreparedFromText, PTL

(* A well-formed request for a file that can be opened gets it: no digit   *)
(* loop, count of headers or blank stands in its way.                      *)
THEOREM WellFormedIsServed == Spec => []BodylessRequestServed
<1>1. IInv => BodylessRequestServed
  <2>1. SUFFICES ASSUME IInv, Decided, Accepted, HasNoBody(parsed),
                        parsed.method \in { << "GET" >>, << "HEAD" >> },
                        parsed.version = << "HTTP/1.1" >>
                          => http_validate_host(parsed),
                        file.errno = "OK"
                 PROVE  decision.status = 200
    BY DEF BodylessRequestServed
  <2>2. http_validate_request_framing(parsed) = "none"
    BY <2>1, DecidedFromText, FramingOfAccepted DEF Accepted
  <2>3. OpensFile(parsed)
    BY <2>1, <2>2 DEF OpensFile, Refusal, Accepted, http_method_allowed
  <2>4. decision = FileDecision(parsed, file.size)
    BY <2>1, <2>3, DecidedFromText DEF http_prepare_response
  <2>5. QED
    BY <2>4 DEF FileDecision
<1>2. QED
  BY <1>1, PreparedFromText, PTL

=============================================================================
