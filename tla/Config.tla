------------------------------- MODULE Config -------------------------------
(***************************************************************************)
(* config.c: config_init and the loop of config_parse_args over the        *)
(* command line, with the integers of C.                                   *)
(*                                                                         *)
(* An argument is a sequence of units: an option is one unit, a number is  *)
(* its digits, its sign and the blanks in front of it.  Http declares the  *)
(* compile-time sizes, which are also the default limits.                  *)
(***************************************************************************)
EXTENDS Http

CONSTANTS
  Unit,                      \* what an argument is made of
  Arguments,                 \* the command lines: argv without argv[0]
  INT_MAX, LONG_MAX,         \* the widths of the machine
  MAX_PORT,                  \* 65535 in the code
  DEFAULT_PORT, DEFAULT_BACKLOG, DEFAULT_CLIENT_TIMEOUT,
  DEFAULT_HTTP_BUFFER_SIZE

ASSUME ConfigAssumption ==
  /\ \A arguments \in Arguments : arguments \in Seq(Seq(Unit))
  /\ INT_MAX \in Nat /\ LONG_MAX \in Nat
  /\ 9 <= INT_MAX /\ INT_MAX <= LONG_MAX /\ LONG_MAX <= ULLONG_MAX
  /\ MAX_PORT \in 1..INT_MAX
  /\ DEFAULT_PORT \in 1..MAX_PORT
  /\ DEFAULT_BACKLOG \in 1..INT_MAX /\ DEFAULT_CLIENT_TIMEOUT \in 1..INT_MAX
  /\ DEFAULT_HTTP_BUFFER_SIZE \in 1..(INT_MAX - 1)
  /\ HTTP_MAX_HEADERS \in 1..(INT_MAX - 1)
  /\ HTTP_HEADER_NAME_MAX \in 1..(INT_MAX - 1)
  /\ HTTP_HEADER_VALUE_MAX \in 1..(INT_MAX - 1)

VARIABLES argv, i, config, status

vars == << argv, i, config, status >>

-----------------------------------------------------------------------------
(* strtol and strtoull.  They skip every isspace byte; of those only the   *)
(* space and the tab are units here.                                       *)

(* The text from its first unit that is not in a set.                      *)
SkipWhile(text, units) ==
  LET rest  == {k \in DOMAIN text : text[k] \notin units}
      first == CHOOSE k \in rest : \A j \in rest : k <= j
  IN  IF rest = {} THEN << >> ELSE SubSeq(text, first, Len(text))

Unsigned(text) ==
  IF text # << >> /\ text[1] \in {"-", "+"} THEN Tail(text) ELSE text

(* *end is NUL and end is not value: blanks, a sign, then only digits, at  *)
(* least one.                                                              *)
Converts(text) ==
  LET digits == Unsigned(SkipWhile(text, OWS))
  IN  digits # << >> /\ \A k \in DOMAIN digits : IsDigit(digits[k])

Negative(text) == SkipWhile(text, OWS)[1] = "-"

(* The number the digits denote, without a word size.                      *)
Magnitude(text) ==
  LET digits == Unsigned(SkipWhile(text, OWS))
      value[k \in 0..Len(digits)] ==
        IF k = 0 THEN 0 ELSE value[k - 1] * 10 + DigitValue(digits[k])
  IN  value[Len(digits)]

(* strtol, or 0 where errno becomes ERANGE: 0 is refused like an error.    *)
Strtol(text) ==
  LET n == IF Negative(text) THEN -Magnitude(text) ELSE Magnitude(text)
  IN  IF n \in -(LONG_MAX + 1)..LONG_MAX THEN n ELSE 0

(* strtoull: the magnitude must fit, then a minus sign negates modulo      *)
(* ULLONG_MAX + 1.                                                         *)
Strtoull(text) ==
  LET m == Magnitude(text)
  IN  IF m > ULLONG_MAX THEN 0
      ELSE IF Negative(text) THEN (ULLONG_MAX + 1 - m) % (ULLONG_MAX + 1)
      ELSE m

(* Mutant: the >= of parse_positive_size.                                  *)
parse_positive_int_below(value) ==
  IF Converts(value) /\ Strtol(value) \in 1..(INT_MAX - 1)
  THEN Strtol(value) ELSE 0

(* The number stored, 0 where the functions return -1.                     *)
parse_positive_int(value) ==
  IF Converts(value) /\ Strtol(value) \in 1..INT_MAX
  THEN Strtol(value) ELSE 0

(* Mutant: only the range of an unsigned long long.                        *)
parse_positive_size_unbounded(value) ==
  IF Converts(value) THEN Strtoull(value) ELSE 0

parse_positive_size(value) ==
  IF Converts(value) /\ Strtoull(value) \in 1..(INT_MAX - 1)
  THEN Strtoull(value) ELSE 0

-----------------------------------------------------------------------------
config_init ==
  [port |-> DEFAULT_PORT, backlog |-> DEFAULT_BACKLOG,
   client_timeout |-> DEFAULT_CLIENT_TIMEOUT, document_root |-> << "public" >>,
   http_buffer_size |-> DEFAULT_HTTP_BUFFER_SIZE,
   http_max_headers |-> HTTP_MAX_HEADERS,
   http_header_name_max |-> HTTP_HEADER_NAME_MAX,
   http_header_value_max |-> HTTP_HEADER_VALUE_MAX]

(* The field an option sets, "none" for an unknown option.                 *)
Field(option) ==
  CASE option = << "--port" >>             -> "port"
    [] option = << "--backlog" >>          -> "backlog"
    [] option = << "--timeout" >>          -> "client_timeout"
    [] option = << "--root" >>             -> "document_root"
    [] option = << "--http-buffer-size" >> -> "http_buffer_size"
    [] option = << "--max-headers" >>      -> "http_max_headers"
    [] option = << "--header-name-max" >>  -> "http_header_name_max"
    [] option = << "--header-value-max" >> -> "http_header_value_max"
    [] OTHER                               -> "none"

IntFields == {"port", "backlog", "client_timeout"}

SizeFields == {"http_buffer_size", "http_max_headers",
               "http_header_name_max", "http_header_value_max"}

Init ==
  /\ argv \in Arguments
  /\ i = 1
  /\ config = config_init
  /\ status = "parsing"

(* The option at position i, with its value.                               *)
Parsing(fields) ==
  /\ status = "parsing" /\ i <= Len(argv)
  /\ Field(argv[i]) \in fields
  /\ i + 1 <= Len(argv)

(* Mutant: a field is set once.                                            *)
AssignOnce(value) ==
  config' = [config EXCEPT ![Field(argv[i])] =
               IF @ = config_init[Field(argv[i])] THEN value ELSE @]

Assign(value) == config' = [config EXCEPT ![Field(argv[i])] = value]

Continue == i' = i + 2 /\ UNCHANGED << argv, status >>

(* Return -1; i is kept at the option that is refused.                     *)
Refuse == status' = "failed" /\ UNCHANGED << argv, i >>

(* A port above MAX_PORT is stored, then refused.                          *)
IntOption ==
  LET value == parse_positive_int(argv[i + 1])
  IN  /\ Parsing(IntFields)
      /\ IF value = 0 THEN UNCHANGED config ELSE Assign(value)
      /\ IF value = 0 \/ (Field(argv[i]) = "port" /\ value > MAX_PORT)
         THEN Refuse ELSE Continue

SizeOption ==
  LET value == parse_positive_size(argv[i + 1])
  IN  /\ Parsing(SizeFields)
      /\ IF value = 0 THEN UNCHANGED config /\ Refuse
                      ELSE Assign(value) /\ Continue

RootOption ==
  /\ Parsing({"document_root"})
  /\ Assign(argv[i + 1])
  /\ Continue

(* An unknown option, or one whose value is missing.                       *)
OptionRefused ==
  /\ status = "parsing" /\ i <= Len(argv)
  /\ Field(argv[i]) = "none" \/ i + 1 > Len(argv)
  /\ Refuse
  /\ UNCHANGED config

Finish ==
  /\ status = "parsing" /\ i > Len(argv)
  /\ status' = "ok"
  /\ UNCHANGED << argv, i, config >>

Next == IntOption \/ SizeOption \/ RootOption \/ OptionRefused \/ Finish

Spec == Init /\ [][Next]_vars

-----------------------------------------------------------------------------
(* Properties                                                              *)

(* The configuration never holds a number that does not fit its int, or a  *)
(* size the allocations cannot take, not even after a refusal; in one that *)
(* is accepted the port is a port.  The other modules assume no more.      *)
ConfigSound ==
  /\ \A field \in IntFields : config[field] \in 1..INT_MAX
  /\ \A field \in SizeFields : config[field] \in 1..(INT_MAX - 1)
  /\ status = "ok" => config.port \in 1..MAX_PORT

(* The number an argument writes, in arithmetic without a word size.       *)
Written(text) == IF Negative(text) THEN -Magnitude(text) ELSE Magnitude(text)

(* The option documented for each field, and the largest number it takes.  *)
OptionFor ==
  [port |-> "--port", backlog |-> "--backlog", client_timeout |-> "--timeout",
   document_root |-> "--root", http_buffer_size |-> "--http-buffer-size",
   http_max_headers |-> "--max-headers",
   http_header_name_max |-> "--header-name-max",
   http_header_value_max |-> "--header-value-max"]

LargestFor(field) ==
  CASE field = "port"         -> MAX_PORT
    [] field \in SizeFields   -> INT_MAX - 1
    [] OTHER                  -> INT_MAX

(* Where the last option for a field stands in an argv of pairs.           *)
LastFor(field) ==
  {k \in DOMAIN argv :
     /\ k % 2 = 1 /\ argv[k] = << OptionFor[field] >>
     /\ \A j \in DOMAIN argv :
          j % 2 = 1 /\ argv[j] = << OptionFor[field] >> => j <= k}

(* An accepted command line is pairs of an option and a value, each field  *)
(* is what its last option says, or its default, and the number is the one *)
(* written.  Only a size may also be a negative number that wraps to it.   *)
AcceptedAsWritten ==
  status = "ok" =>
    /\ Len(argv) % 2 = 0
    /\ \A field \in DOMAIN OptionFor :
         IF LastFor(field) = {} THEN config[field] = config_init[field]
         ELSE \A k \in LastFor(field) :
                IF field = "document_root" THEN config[field] = argv[k + 1]
                ELSE LET n == Written(argv[k + 1])
                     IN  \/ config[field] = n
                         \/ field \in SizeFields
                            /\ config[field] = n + ULLONG_MAX + 1

(* A command line is refused only at an option that is unknown, that has   *)
(* no value, or whose value is not a number from 1 to the largest the      *)
(* field takes; --root takes any text.                                     *)
RefusedForCause ==
  status = "failed" =>
    \A field \in DOMAIN OptionFor :
      argv[i] = << OptionFor[field] >> /\ i < Len(argv) =>
        /\ field # "document_root"
        /\ \/ ~Converts(argv[i + 1])
           \/ Written(argv[i + 1]) \notin 1..LargestFor(field)

(* The limits are compared with the compile-time sizes only when the first *)
(* bytes of a connection arrive.  A server whose command line raises no    *)
(* limit above its default passes that test and serves; one that raises    *)
(* any of the three starts, and then refuses every connection.             *)
ServesUnlessRaised ==
  status = "ok" =>
    (http_config_valid(config) <=>
       \A field \in SizeFields \ {"http_buffer_size"} :
         config[field] <= config_init[field])

=============================================================================
