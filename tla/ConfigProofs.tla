---------------------------- MODULE ConfigProofs ----------------------------
(***************************************************************************)
(* The configuration is sound, and is what the command line says, for      *)
(* every command line and every width of the machine's integers.           *)
(***************************************************************************)
EXTENDS Config, HttpConnectionProofs

Fields == IntFields \cup SizeFields \cup {"document_root"}

(* The port may exceed MAX_PORT only between its being stored and refused, *)
(* and a refusal ends the loop: that is why the invariant speaks of the    *)
(* port while options are still being read.                                *)
IInv ==
  /\ config = [field \in Fields |-> config[field]]
  /\ \A field \in IntFields : config[field] \in 1..INT_MAX
  /\ \A field \in SizeFields : config[field] \in 1..(INT_MAX - 1)
  /\ status # "failed" => config["port"] \in 1..MAX_PORT

(* What the two conversions return is in range, whatever the text.         *)
LEMMA ParsedInRange ==
  ASSUME NEW value
  PROVE  /\ parse_positive_int(value) = 0
            \/ parse_positive_int(value) \in 1..INT_MAX
         /\ parse_positive_size(value) = 0
            \/ parse_positive_size(value) \in 1..(INT_MAX - 1)
  BY DEF parse_positive_int, parse_positive_size

(* The defaults are sound.                                                 *)
LEMMA InitIInv ==
  ASSUME Init
  PROVE  IInv
<1> USE DEF IntFields, SizeFields, Fields
<1>1. config = config_init
  BY DEF Init
<1>2. config = [field \in Fields |-> config[field]]
  BY <1>1 DEF config_init
<1>3. \A field \in IntFields : config[field] \in 1..INT_MAX
  BY <1>1, ConfigAssumption DEF config_init
<1>4. \A field \in SizeFields : config[field] \in 1..(INT_MAX - 1)
  BY <1>1, ConfigAssumption DEF config_init
<1>5. config["port"] \in 1..MAX_PORT
  BY <1>1, ConfigAssumption DEF config_init
<1>6. QED
  BY <1>2, <1>3, <1>4, <1>5 DEF IInv

(* An assignment to a field changes that field only.                       *)
LEMMA AssignChangesOne ==
  ASSUME IInv, NEW value, Assign(value), Field(argv[i]) \in Fields
  PROVE  /\ config' = [field \in Fields |-> config'[field]]
         /\ config'[Field(argv[i])] = value
         /\ \A field \in Fields \ {Field(argv[i])} :
              config'[field] = config[field]
  BY DEF IInv, Assign

(* Every option keeps the invariant.                                       *)
LEMMA NextIInv ==
  ASSUME IInv, Next
  PROVE  IInv'
<1> DEFINE field == Field(argv[i])
<1>1. CASE IntOption
  <2> DEFINE value == parse_positive_int(argv[i + 1])
  <2>1. value = 0 \/ value \in 1..INT_MAX
    BY ParsedInRange
  <2>2. field \in IntFields
    BY <1>1 DEF IntOption, Parsing
  <2> HIDE DEF value
  <2>3. CASE value = 0
    BY <1>1, <2>3 DEF IntOption, IInv, Refuse, value
  <2>4. CASE value # 0
    <3>1. Assign(value)
      BY <1>1, <2>4 DEF IntOption, value
    <3>2. field = "port" /\ value > MAX_PORT => status' = "failed"
      BY <1>1, <2>4 DEF IntOption, value, Refuse
    <3>3. status = "parsing"
      BY <1>1 DEF IntOption, Parsing
    <3>4. /\ config' = [f \in Fields |-> config'[f]]
          /\ config'[field] = value
          /\ \A f \in Fields \ {field} : config'[f] = config[f]
      BY <3>1, <2>2, AssignChangesOne DEF Fields
    <3>5. status' # "failed" => config'["port"] \in 1..MAX_PORT
      <4>1. CASE field = "port"
        BY <4>1, <3>2, <3>4, <2>1, <2>4, ConfigAssumption
      <4>2. CASE field # "port"
        BY <4>2, <3>3, <3>4 DEF IInv, Fields, IntFields
      <4>3. QED
        BY <4>1, <4>2
    <3>6. \A f \in IntFields : config'[f] \in 1..INT_MAX
      BY <3>4, <2>1, <2>4 DEF IInv, Fields
    <3>7. \A f \in SizeFields : config'[f] \in 1..(INT_MAX - 1)
      BY <3>4, <2>2 DEF IInv, Fields, IntFields, SizeFields
    <3>8. QED
      BY <3>4, <3>5, <3>6, <3>7 DEF IInv
  <2>5. QED
    BY <2>3, <2>4
<1>2. CASE SizeOption
  <2> DEFINE value == parse_positive_size(argv[i + 1])
  <2>1. value = 0 \/ value \in 1..(INT_MAX - 1)
    BY ParsedInRange
  <2>2. field \in SizeFields /\ status = "parsing"
    BY <1>2 DEF SizeOption, Parsing
  <2> HIDE DEF value
  <2>3. CASE value = 0
    BY <1>2, <2>3 DEF SizeOption, IInv, Refuse, value
  <2>4. CASE value # 0
    <3>1. Assign(value)
      BY <1>2, <2>4 DEF SizeOption, value
    <3>2. /\ config' = [f \in Fields |-> config'[f]]
          /\ config'[field] = value
          /\ \A f \in Fields \ {field} : config'[f] = config[f]
      BY <3>1, <2>2, AssignChangesOne DEF Fields
    <3>3. \A f \in SizeFields : config'[f] \in 1..(INT_MAX - 1)
      BY <3>2, <2>1, <2>4 DEF IInv, Fields
    <3>4. \A f \in IntFields : config'[f] = config[f]
      BY <3>2, <2>2 DEF Fields, IntFields, SizeFields
    <3>5. QED
      BY <3>2, <3>3, <3>4, <2>2 DEF IInv, IntFields
  <2>5. QED
    BY <2>3, <2>4
<1>3. CASE RootOption
  <2>1. field = "document_root" /\ status = "parsing"
    BY <1>3 DEF RootOption, Parsing
  <2>2. /\ config' = [f \in Fields |-> config'[f]]
        /\ \A f \in Fields \ {field} : config'[f] = config[f]
    BY <1>3, <2>1, AssignChangesOne DEF RootOption, Fields
  <2>3. \A f \in IntFields \cup SizeFields : config'[f] = config[f]
    BY <2>1, <2>2 DEF Fields, IntFields, SizeFields
  <2>4. QED
    BY <2>1, <2>2, <2>3 DEF IInv, IntFields
<1>4. CASE OptionRefused
  BY <1>4 DEF OptionRefused, Refuse, IInv
<1>5. CASE Finish
  BY <1>5 DEF Finish, IInv
<1>6. QED
  BY <1>1, <1>2, <1>3, <1>4, <1>5 DEF Next

(* The invariant holds throughout.                                         *)
LEMMA IInvHolds == Spec => []IInv
<1>1. Init => IInv
  BY InitIInv
<1>2. IInv /\ [Next]_vars => IInv'
  <2>1. ASSUME IInv, UNCHANGED vars PROVE IInv'
    BY <2>1 DEF IInv, vars
  <2>2. QED
    BY <2>1, NextIInv
<1>3. QED
  BY <1>1, <1>2, PTL DEF Spec

(* The numbers config_parse_args leaves in the configuration fit their     *)
(* int, the sizes can be allocated, and an accepted port is a port,        *)
(* whatever the command line and the width of the machine's integers.      *)
THEOREM ConfigurationSound == Spec => []ConfigSound
<1>1. IInv => ConfigSound
  BY DEF IInv, ConfigSound
<1>2. QED
  BY <1>1, IInvHolds, PTL

(* A server whose command line raises no limit above its default serves,   *)
(* and one that raises any of the three refuses every connection.          *)
THEOREM ServesUnlessLimitsRaised == Spec => []ServesUnlessRaised
<1>1. ASSUME IInv
      PROVE  ServesUnlessRaised
  <2>1. /\ config["http_buffer_size"] \in 1..(INT_MAX - 1)
        /\ config["http_max_headers"] \in 1..(INT_MAX - 1)
        /\ config["http_header_name_max"] \in 1..(INT_MAX - 1)
        /\ config["http_header_value_max"] \in 1..(INT_MAX - 1)
    BY <1>1 DEF IInv, SizeFields
  <2>2. /\ config_init["http_max_headers"] = HTTP_MAX_HEADERS
        /\ config_init["http_header_name_max"] = HTTP_HEADER_NAME_MAX
        /\ config_init["http_header_value_max"] = HTTP_HEADER_VALUE_MAX
    BY DEF config_init
  <2>3. (\A field \in SizeFields \ {"http_buffer_size"} :
           config[field] <= config_init[field])
        <=> /\ config["http_max_headers"] <= HTTP_MAX_HEADERS
            /\ config["http_header_name_max"] <= HTTP_HEADER_NAME_MAX
            /\ config["http_header_value_max"] <= HTTP_HEADER_VALUE_MAX
    BY <2>2 DEF SizeFields
  <2>4. http_config_valid(config)
        <=> /\ config["http_max_headers"] <= HTTP_MAX_HEADERS
            /\ config["http_header_name_max"] <= HTTP_HEADER_NAME_MAX
            /\ config["http_header_value_max"] <= HTTP_HEADER_VALUE_MAX
    BY <2>1, ConfigAssumption DEF http_config_valid
  <2>5. QED
    BY <2>3, <2>4 DEF ServesUnlessRaised
<1>2. QED
  BY <1>1, IInvHolds, PTL

-----------------------------------------------------------------------------
(* The numbers of the command line                                         *)

(* What is left of a text when blanks and a sign are skipped is a text.    *)
LEMMA DigitsAreText ==
  ASSUME NEW text \in Seq(Unit)
  PROVE  Unsigned(SkipWhile(text, OWS)) \in Seq(Unit)
<1> DEFINE rest == {k \in DOMAIN text : text[k] \notin OWS}
           first == CHOOSE k \in rest : \A j \in rest : k <= j
           skipped == SkipWhile(text, OWS)
<1>1. Len(text) \in Nat /\ DOMAIN text = 1..Len(text)
  BY LenProperties
<1>2. skipped \in Seq(Unit)
  <2>1. CASE rest = {}
    BY <2>1 DEF SkipWhile
  <2>2. CASE rest # {}
    <3>1. rest \in SUBSET Nat
      BY <1>1
    <3>2. \E k \in rest : \A j \in rest : k <= j
      <4> HIDE DEF rest
      <4>1. QED
        BY <2>2, <3>1, FirstPosition
    <3>3. first \in 1..Len(text)
      BY <1>1, <3>2
    <3>4. skipped = SubSeq(text, first, Len(text))
      BY <2>2 DEF SkipWhile
    <3> HIDE DEF first, skipped
    <3>5. \A k \in first..Len(text) : text[k] \in Unit
      BY <1>1, <3>3, ElementOfSeq
    <3>6. QED
      BY <1>1, <3>3, <3>4, <3>5, SubSeqProperties
  <2>3. QED
    BY <2>1, <2>2
<1>3. SUFFICES Unsigned(skipped) \in Seq(Unit)
  OBVIOUS
<1> HIDE DEF skipped
<1>4. CASE skipped = << >>
  BY <1>2, <1>4 DEF Unsigned
<1>5. CASE skipped # << >>
  <2>1. Tail(skipped) \in Seq(Unit)
    BY <1>2, <1>5, HeadTailProperties
  <2>2. QED
    BY <1>2, <2>1 DEF Unsigned
<1>6. QED
  BY <1>4, <1>5

(* The digits of a number denote a number.                                 *)
LEMMA MagnitudeIsNumber ==
  ASSUME NEW text \in Seq(Unit), Converts(text)
  PROVE  Magnitude(text) \in Nat
<1> DEFINE digits == Unsigned(SkipWhile(text, OWS))
           n == Len(digits)
           Body(f, k) ==
             IF k = 0 THEN 0 ELSE f[k - 1] * 10 + DigitValue(digits[k])
           value == CHOOSE f : f = [k \in 0..n |-> Body(f, k)]
           step == [p \in (1..n) \X Nat |-> p[2] * 10 + DigitValue(digits[p[1]])]
<1>1. n \in Nat /\ DOMAIN digits = 1..n
  BY DigitsAreText, LenProperties
<1>2. \A k \in 1..n : DigitValue(digits[k]) \in 0..9
  BY <1>1 DEF Converts, IsDigit, DigitValue
<1>3. Magnitude(text) = value[n]
  BY Zenon DEF Magnitude
<1> HIDE DEF digits, n
<1>4. step \in [(1..n) \X Nat -> Nat]
  BY <1>2
<1>5. \A k \in 1..n, a \in Nat :
        step[<< k, a >>] = a * 10 + DigitValue(digits[k])
  OBVIOUS
<1> HIDE DEF step
<1>6. Counting(n, Nat, 0, step)
  BY <1>1, <1>4 DEF Counting
<1>7. PICK f \in [0..n -> Nat] :
        f[0] = 0 /\ \A k \in 1..n : f[k] = step[<< k, f[k - 1] >>]
  BY <1>6, CountingRecursion
<1>8. ASSUME NEW k \in 0..n
      PROVE  f[k] = Body(f, k)
  <2>1. CASE k = 0
    BY <1>7, <2>1
  <2>2. CASE k # 0
    <3>1. k \in 1..n /\ k - 1 \in 0..n
      BY <1>1, <2>2
    <3>2. QED
      BY <1>5, <1>7, <2>2, <3>1
  <2>3. QED
    BY <2>1, <2>2
<1>9. f = [k \in 0..n |-> Body(f, k)]
  <2> HIDE DEF Body
  <2>1. QED
    BY <1>7, <1>8
<1>10. value = [k \in 0..n |-> Body(value, k)]
  <2> HIDE DEF Body
  <2>1. QED
    BY <1>9, Zenon
<1> DEFINE P == {k \in Nat : k \in 0..n => value[k] \in Nat}
<1> HIDE DEF value
<1>11. 0 \in P
  BY <1>1, <1>10
<1>12. ASSUME NEW k \in Nat, k \in P
       PROVE  k + 1 \in P
  <2>1. SUFFICES ASSUME k + 1 \in 0..n
                 PROVE  value[k + 1] \in Nat
    OBVIOUS
  <2>2. k \in 0..n /\ k + 1 \in 1..n /\ (k + 1) - 1 = k /\ k + 1 # 0
    BY <1>1, <2>1
  <2>3. value[k] \in Nat
    BY <1>12, <2>2
  <2>4. value[k + 1] = value[k] * 10 + DigitValue(digits[k + 1])
    BY <1>10, <2>1, <2>2
  <2>5. DigitValue(digits[k + 1]) \in 0..9
    BY <1>2, <2>2
  <2>6. QED
    BY <2>3, <2>4, <2>5
<1>13. n \in P
  <2> HIDE DEF P
  <2>1. QED
    BY <1>1, <1>11, <1>12, SetInduction
<1>14. QED
  BY <1>1, <1>3, <1>13

(* What the conversions store is the number written, a size apart that a   *)
(* minus sign wraps to; and they refuse no number of the field's range.    *)
LEMMA ParsedAsWritten ==
  ASSUME NEW text \in Seq(Unit)
  PROVE  /\ parse_positive_int(text) # 0
              => parse_positive_int(text) = Written(text)
         /\ parse_positive_size(text) # 0
              => \/ parse_positive_size(text) = Written(text)
                 \/ parse_positive_size(text) = Written(text) + ULLONG_MAX + 1
         /\ Converts(text) /\ Written(text) \in 1..INT_MAX
              => parse_positive_int(text) = Written(text)
         /\ Converts(text) /\ Written(text) \in 1..(INT_MAX - 1)
              => parse_positive_size(text) = Written(text)
<1>1. CASE ~Converts(text)
  BY <1>1 DEF parse_positive_int, parse_positive_size
<1>2. CASE Converts(text)
  <2> DEFINE m == Magnitude(text)
             n == Written(text)
  <2>1. m \in Nat
    BY <1>2, MagnitudeIsNumber
  <2>2. n = IF Negative(text) THEN -m ELSE m
    BY DEF Written
  <2>3. Strtol(text) = IF n \in -(LONG_MAX + 1)..LONG_MAX THEN n ELSE 0
    BY DEF Strtol, Written
  <2>4. Strtoull(text) =
          IF m > ULLONG_MAX THEN 0
          ELSE IF Negative(text) THEN (ULLONG_MAX + 1 - m) % (ULLONG_MAX + 1)
          ELSE m
    BY DEF Strtoull
  <2>5. /\ INT_MAX \in Nat /\ LONG_MAX \in Nat /\ ULLONG_MAX \in Nat
        /\ INT_MAX <= LONG_MAX /\ LONG_MAX <= ULLONG_MAX
    BY ConfigAssumption, HttpAssumption
  <2> HIDE DEF m, n
  <2>6. Strtol(text) \in 1..INT_MAX => Strtol(text) = n
    BY <2>1, <2>2, <2>3, <2>5
  <2>7. n \in 1..INT_MAX => Strtol(text) = n /\ Strtol(text) # 0
    BY <2>1, <2>2, <2>3, <2>5
  <2>8. Strtoull(text) # 0
          => Strtoull(text) = n \/ Strtoull(text) = n + ULLONG_MAX + 1
    <3>1. CASE m > ULLONG_MAX \/ ~Negative(text)
      BY <2>1, <2>2, <2>4, <3>1
    <3>2. CASE m = 0 /\ Negative(text)
      <4>1. (ULLONG_MAX + 1) % (ULLONG_MAX + 1) = 0
        BY <2>5
      <4>2. QED
        BY <2>1, <2>4, <2>5, <3>2, <4>1
    <3>3. CASE m \in 1..ULLONG_MAX /\ Negative(text)
      <4>1. ULLONG_MAX + 1 - m \in 1..ULLONG_MAX
        BY <2>5, <3>3
      <4>2. (ULLONG_MAX + 1 - m) % (ULLONG_MAX + 1) = ULLONG_MAX + 1 - m
        BY <2>5, <4>1
      <4>3. Strtoull(text) = ULLONG_MAX + 1 - m /\ n = -m
        BY <2>1, <2>2, <2>4, <2>5, <3>3, <4>2
      <4>4. QED
        BY <2>1, <2>5, <4>3
    <3>4. QED
      BY <2>1, <2>5, <3>1, <3>2, <3>3
  <2>9. n \in 1..(INT_MAX - 1) => Strtoull(text) = n /\ Strtoull(text) # 0
    BY <2>1, <2>2, <2>4, <2>5
  <2>10. QED
    BY <1>2, <2>5, <2>6, <2>7, <2>8, <2>9
       DEF parse_positive_int, parse_positive_size, n
<1>3. QED
  BY <1>1, <1>2

-----------------------------------------------------------------------------
(* The configuration and the command line                                  *)

(* An option sets the field it is documented for.                          *)
LEMMA OptionSets ==
  ASSUME NEW option, NEW field \in DOMAIN OptionFor
  PROVE  /\ Field(option) = field <=> option = << OptionFor[field] >>
         /\ DOMAIN OptionFor = Fields /\ "none" \notin Fields
<1>1. DOMAIN OptionFor = Fields
  BY DEF OptionFor, Fields, IntFields, SizeFields
<1>2. "none" \notin Fields
  BY DEF Fields, IntFields, SizeFields
<1>3. Field(option) = field <=> option = << OptionFor[field] >>
  <2>1. CASE field = "port"
    BY <2>1 DEF Field, OptionFor
  <2>2. CASE field = "backlog"
    BY <2>2 DEF Field, OptionFor
  <2>3. CASE field = "client_timeout"
    BY <2>3 DEF Field, OptionFor
  <2>4. CASE field = "document_root"
    BY <2>4 DEF Field, OptionFor
  <2>5. CASE field = "http_buffer_size"
    BY <2>5 DEF Field, OptionFor
  <2>6. CASE field = "http_max_headers"
    BY <2>6 DEF Field, OptionFor
  <2>7. CASE field = "http_header_name_max"
    BY <2>7 DEF Field, OptionFor
  <2>8. CASE field = "http_header_value_max"
    BY <2>8 DEF Field, OptionFor
  <2>9. QED
    BY <1>1, <2>1, <2>2, <2>3, <2>4, <2>5, <2>6, <2>7, <2>8
       DEF Fields, IntFields, SizeFields
<1>4. QED
  BY <1>1, <1>2, <1>3

(* The option for a field stands at an odd position of argv.               *)
OptionAt(field, k) == k % 2 = 1 /\ argv[k] = << OptionFor[field] >>

(* A value a field may have when an argument is given for it.              *)
Says(field, value, text) ==
  IF field = "document_root" THEN value = text
  ELSE \/ value = Written(text)
       \/ field \in SizeFields /\ value = Written(text) + ULLONG_MAX + 1

(* The field is what the last option for it says, of those already read.   *)
SetSoFar(field) ==
  /\ (\A k \in 1..(i - 1) : ~OptionAt(field, k))
       => config[field] = config_init[field]
  /\ \A k \in 1..(i - 1) :
       /\ OptionAt(field, k)
       /\ \A j \in 1..(i - 1) : OptionAt(field, j) => j <= k
       => Says(field, config[field], argv[k + 1])

(* The loop has read whole pairs, and the configuration is what they say.  *)
(* A refused port is stored, so that the last part stops at a refusal.     *)
Reading ==
  /\ argv \in Arguments
  /\ i \in 1..(Len(argv) + 1) /\ i % 2 = 1
  /\ status = "ok" => i = Len(argv) + 1
  /\ status # "failed" => \A field \in Fields : SetSoFar(field)

(* The arguments are texts.                                                *)
LEMMA ArgumentsAreText ==
  ASSUME argv \in Arguments
  PROVE  /\ Len(argv) \in Nat /\ DOMAIN argv = 1..Len(argv)
         /\ \A k \in 1..Len(argv) : argv[k] \in Seq(Unit)
<1>1. argv \in Seq(Seq(Unit))
  BY ConfigAssumption
<1>2. QED
  BY <1>1, LenProperties, ElementOfSeq

(* A pair more: one field is what it says, the others are untouched.       *)
LEMMA ContinueReads ==
  ASSUME Reading, IInv, status = "parsing", i + 1 <= Len(argv),
         Field(argv[i]) \in Fields, NEW value, Assign(value), Continue,
         Says(Field(argv[i]), value, argv[i + 1])
  PROVE  Reading'
<1> DEFINE set == Field(argv[i])
<1>1. /\ argv \in Arguments /\ i \in 1..(Len(argv) + 1) /\ i % 2 = 1
      /\ i' = i + 2 /\ argv' = argv /\ status' = status
  BY DEF Reading, Continue
<1>2. Len(argv) \in Nat
  BY <1>1, ArgumentsAreText
<1>3. /\ config'[set] = value
      /\ \A field \in Fields \ {set} : config'[field] = config[field]
  BY AssignChangesOne
<1>4. i' \in 1..(Len(argv) + 1) /\ i' % 2 = 1
  BY <1>1, <1>2
<1>5. \A k \in 1..(i' - 1) : k % 2 = 1 => k \in 1..(i - 1) \/ k = i
  BY <1>1, <1>2
<1>6. \A k \in 1..(i - 1) : k \in 1..(i' - 1)
  BY <1>1, <1>2
<1>7. i \in 1..(i' - 1) /\ \A k \in 1..(i - 1) : ~(i <= k)
  BY <1>1, <1>2
<1>8. DOMAIN OptionFor = Fields
  BY DEF OptionFor, Fields, IntFields, SizeFields
<1>9. ASSUME NEW field \in Fields
      PROVE  SetSoFar(field)'
  <2>1. SetSoFar(field)
    BY DEF Reading
  <2>2. OptionAt(field, i) <=> field = set
    BY <1>1, <1>8, OptionSets DEF OptionAt
  <2>3. \A k : OptionAt(field, k)' <=> OptionAt(field, k)
    BY <1>1 DEF OptionAt
  <2>4. \A k : OptionAt(field, k) => k % 2 = 1
    BY DEF OptionAt
  <2>5. CASE field = set
    <3>1. OptionAt(field, i)
      BY <2>2, <2>5
    <3>2. ASSUME NEW k \in 1..(i' - 1), OptionAt(field, k),
                 \A j \in 1..(i' - 1) : OptionAt(field, j) => j <= k
          PROVE  k = i
      BY <1>5, <1>7, <2>4, <3>1, <3>2
    <3>3. Says(field, config'[field], argv[i + 1])
      BY <1>3, <2>5
    <3>4. QED
      BY <1>1, <1>7, <2>3, <3>1, <3>2, <3>3 DEF SetSoFar, Says, Written
  <2>6. CASE field # set
    <3>1. config'[field] = config[field] /\ ~OptionAt(field, i)
      BY <1>3, <2>2, <2>6
    <3>2. \A k \in 1..(i' - 1) : OptionAt(field, k) => k \in 1..(i - 1)
      BY <1>5, <2>4, <3>1
    <3>3. QED
      BY <1>1, <1>6, <2>1, <2>3, <3>1, <3>2 DEF SetSoFar, Says, Written
  <2>7. QED
    BY <2>5, <2>6
<1>10. QED
  BY <1>1, <1>4, <1>9 DEF Reading


(* Every step reads a whole pair or none.                                  *)
LEMMA NextReads ==
  ASSUME Reading, IInv, Next
  PROVE  Reading'
<1>1. /\ argv \in Arguments /\ i \in 1..(Len(argv) + 1) /\ i % 2 = 1
      /\ Len(argv) \in Nat
  BY ArgumentsAreText DEF Reading
<1>2. ASSUME i + 1 <= Len(argv)
      PROVE  argv[i + 1] \in Seq(Unit)
  BY <1>1, <1>2, ArgumentsAreText
<1>3. ASSUME Refuse
      PROVE  Reading'
  BY <1>3 DEF Reading, Refuse
<1>4. CASE IntOption
  <2> DEFINE value == parse_positive_int(argv[i + 1])
  <2>1. /\ Field(argv[i]) \in IntFields /\ i + 1 <= Len(argv)
        /\ status = "parsing"
    BY <1>4 DEF IntOption, Parsing
  <2>2. CASE Refuse
    BY <1>3, <2>2
  <2>3. CASE ~Refuse
    <3>1. value # 0 /\ Assign(value) /\ Continue
      BY <1>4, <2>3 DEF IntOption
    <3>2. value = Written(argv[i + 1])
      BY <1>2, <2>1, <3>1, ParsedAsWritten
    <3> HIDE DEF value
    <3>3. Says(Field(argv[i]), value, argv[i + 1])
      BY <2>1, <3>2 DEF Says, IntFields
    <3>4. QED
      BY <2>1, <3>1, <3>3, ContinueReads DEF Fields
  <2>4. QED
    BY <2>2, <2>3
<1>5. CASE SizeOption
  <2> DEFINE value == parse_positive_size(argv[i + 1])
  <2>1. /\ Field(argv[i]) \in SizeFields /\ i + 1 <= Len(argv)
        /\ status = "parsing"
    BY <1>5 DEF SizeOption, Parsing
  <2>2. CASE Refuse
    BY <1>3, <2>2
  <2>3. CASE ~Refuse
    <3>1. value # 0 /\ Assign(value) /\ Continue
      BY <1>5, <2>3 DEF SizeOption
    <3>2. \/ value = Written(argv[i + 1])
          \/ value = Written(argv[i + 1]) + ULLONG_MAX + 1
      BY <1>2, <2>1, <3>1, ParsedAsWritten
    <3> HIDE DEF value
    <3>3. Says(Field(argv[i]), value, argv[i + 1])
      BY <2>1, <3>2 DEF Says, SizeFields
    <3>4. QED
      BY <2>1, <3>1, <3>3, ContinueReads DEF Fields
  <2>4. QED
    BY <2>2, <2>3
<1>6. CASE RootOption
  <2>1. /\ Field(argv[i]) = "document_root" /\ i + 1 <= Len(argv)
        /\ status = "parsing" /\ Assign(argv[i + 1]) /\ Continue
    BY <1>6 DEF RootOption, Parsing
  <2>2. Says(Field(argv[i]), argv[i + 1], argv[i + 1])
    BY <2>1 DEF Says
  <2>3. QED
    BY <2>1, <2>2, ContinueReads DEF Fields
<1>7. CASE OptionRefused
  BY <1>3, <1>7 DEF OptionRefused
<1>8. CASE Finish
  <2>1. i = Len(argv) + 1
    BY <1>1, <1>8 DEF Finish
  <2>2. status # "failed" /\ UNCHANGED << argv, i, config >>
    BY <1>8 DEF Finish
  <2>3. \A field \in Fields : SetSoFar(field)'
    BY <2>2 DEF Reading, SetSoFar, OptionAt
  <2>4. QED
    BY <1>1, <2>1, <2>2, <2>3 DEF Reading
<1>9. QED
  BY <1>4, <1>5, <1>6, <1>7, <1>8 DEF Next

(* The loop of config_parse_args reads pairs throughout.                   *)
LEMMA ReadingHolds == Spec => []Reading
<1>1. Init => Reading
  <2>1. SUFFICES ASSUME Init PROVE Reading
    OBVIOUS
  <2>2. argv \in Arguments /\ i = 1 /\ config = config_init
        /\ status = "parsing" /\ Len(argv) \in Nat
    BY <2>1, ArgumentsAreText DEF Init
  <2>3. \A field \in Fields : SetSoFar(field)
    BY <2>2 DEF SetSoFar
  <2>4. QED
    BY <2>2, <2>3 DEF Reading
<1>2. Reading /\ IInv /\ [Next]_vars => Reading'
  <2>1. ASSUME Reading, UNCHANGED vars PROVE Reading'
    <3>1. UNCHANGED << argv, i, config, status >>
      BY <2>1 DEF vars
    <3>2. ASSUME status # "failed", NEW field \in Fields
          PROVE  SetSoFar(field)'
      <4>1. SetSoFar(field)
        BY <2>1, <3>2 DEF Reading
      <4>2. QED
        BY <3>1, <4>1 DEF SetSoFar, OptionAt
    <3>3. QED
      BY <2>1, <3>1, <3>2 DEF Reading
  <2>2. QED
    BY <2>1, NextReads
<1>3. QED
  BY <1>1, <1>2, IInvHolds, PTL DEF Spec

(* Every accepted command line is pairs, and each field is what the last   *)
(* option for it says, or its default.                                     *)
THEOREM AcceptedMeansWritten == Spec => []AcceptedAsWritten
<1>1. ASSUME Reading
      PROVE  AcceptedAsWritten
  <2>1. SUFFICES ASSUME status = "ok"
                 PROVE  /\ Len(argv) % 2 = 0
                        /\ \A field \in DOMAIN OptionFor :
                             IF LastFor(field) = {}
                             THEN config[field] = config_init[field]
                             ELSE \A k \in LastFor(field) :
                                    Says(field, config[field], argv[k + 1])
    BY DEF AcceptedAsWritten, Says
  <2>2. /\ i = Len(argv) + 1 /\ i % 2 = 1 /\ Len(argv) \in Nat
        /\ DOMAIN argv = 1..(i - 1)
    BY <1>1, <2>1, ArgumentsAreText DEF Reading
  <2>3. Len(argv) % 2 = 0
    BY <2>2
  <2>4. ASSUME NEW field \in DOMAIN OptionFor
        PROVE  IF LastFor(field) = {}
               THEN config[field] = config_init[field]
               ELSE \A k \in LastFor(field) :
                      Says(field, config[field], argv[k + 1])
    <3>1. SetSoFar(field)
      BY <1>1, <2>1, OptionSets DEF Reading
    <3>2. LastFor(field) =
            {k \in 1..(i - 1) :
               /\ OptionAt(field, k)
               /\ \A j \in 1..(i - 1) : OptionAt(field, j) => j <= k}
      BY <2>2 DEF LastFor, OptionAt
    <3>3. CASE \A k \in 1..(i - 1) : ~OptionAt(field, k)
      BY <3>1, <3>2, <3>3 DEF SetSoFar
    <3>4. CASE \E k \in 1..(i - 1) : OptionAt(field, k)
      <4> DEFINE T == {k \in 1..(i - 1) : OptionAt(field, k)}
      <4>1. i - 1 \in Nat /\ T \in SUBSET (1..(i - 1)) /\ T # {}
        BY <2>2, <3>4
      <4>2. \E k \in T : \A j \in T : j <= k
        <5> HIDE DEF T
        <5>1. QED
          BY <4>1, LastPosition
      <4>3. LastFor(field) # {}
        BY <3>2, <4>2
      <4>4. QED
        BY <3>1, <3>2, <4>3 DEF SetSoFar
    <3>5. QED
      BY <3>3, <3>4
  <2>5. QED
    BY <2>3, <2>4
<1>2. QED
  BY <1>1, ReadingHolds, PTL

(* Every refusal has its cause in the option it stopped at.                *)
THEOREM RefusalHasCause == Spec => []RefusedForCause
<1>1. Init => RefusedForCause
  BY DEF Init, RefusedForCause
<1>2. ASSUME Reading, RefusedForCause, [Next]_vars
      PROVE  RefusedForCause'
  <2>1. /\ i \in Nat /\ Len(argv) \in Nat
        /\ i + 1 <= Len(argv) => argv[i + 1] \in Seq(Unit)
    BY <1>2, ArgumentsAreText DEF Reading
  <2>2. CASE UNCHANGED vars
    BY <1>2, <2>2 DEF RefusedForCause, vars
  <2>3. CASE status' # "failed"
    BY <2>3 DEF RefusedForCause
  <2>4. CASE Next /\ status' = "failed"
    <3>1. argv' = argv /\ i' = i
      BY <2>4 DEF Next, IntOption, SizeOption, RootOption, OptionRefused,
                  Finish, Refuse, Continue, Parsing
    <3>0. ~RootOption
      BY <2>4 DEF RootOption, Parsing, Continue
    <3>a. ASSUME argv[i] = << OptionFor.document_root >>, i < Len(argv)
          PROVE  FALSE
      <4>1. Field(argv[i]) = "document_root"
        BY <3>a, OptionSets DEF OptionFor
      <4>2. QED
        BY <2>1, <2>4, <3>0, <3>a, <4>1
           DEF Next, IntOption, SizeOption, OptionRefused, Finish, Parsing,
               IntFields, SizeFields
    <3>2. SUFFICES ASSUME NEW field \in DOMAIN OptionFor \ {"document_root"},
                          argv[i] = << OptionFor[field] >>, i < Len(argv),
                          Converts(argv[i + 1]),
                          Written(argv[i + 1]) \in 1..LargestFor(field)
                   PROVE  FALSE
      BY <3>1, <3>a DEF RefusedForCause, Written
    <3>3. Field(argv[i]) = field /\ field # "none" /\ field \in Fields
      BY <3>2, OptionSets
    <3>4. LargestFor(field) \in 1..INT_MAX
      BY <3>3, ConfigAssumption DEF LargestFor, Fields, IntFields, SizeFields
    <3> DEFINE text == argv[i + 1]
    <3>5. text \in Seq(Unit)
      BY <2>1, <3>2
    <3> HIDE DEF text
    <3>6. CASE IntOption
      <4>1. field \in IntFields
        BY <3>3, <3>6 DEF IntOption, Parsing
      <4>2. parse_positive_int(text) = Written(text)
        BY <3>2, <3>4, <3>5, ParsedAsWritten, ConfigAssumption DEF text
      <4>3. field = "port" => Written(text) <= MAX_PORT
        <5>1. field = "port" => LargestFor(field) = MAX_PORT
          BY DEF LargestFor, SizeFields
        <5>2. QED
          BY <3>2, <5>1, ConfigAssumption DEF text
      <4>4. Written(text) # 0 /\ Written(text) \in Int
        BY <3>2, <3>4 DEF text
      <4>5. Continue
        BY <3>3, <3>6, <4>2, <4>3, <4>4, ConfigAssumption
           DEF IntOption, text
      <4>6. QED
        BY <2>4, <3>6, <4>5 DEF Continue, IntOption, Parsing
    <3>7. CASE SizeOption
      <4>1. field \in SizeFields
        BY <3>3, <3>7 DEF SizeOption, Parsing
      <4>2. LargestFor(field) = INT_MAX - 1
        BY <4>1 DEF LargestFor, SizeFields
      <4>3. parse_positive_size(text) = Written(text) /\ Written(text) # 0
        BY <3>2, <3>5, <4>2, ParsedAsWritten, ConfigAssumption DEF text
      <4>4. Continue
        BY <3>7, <4>3 DEF SizeOption, text
      <4>5. QED
        BY <2>4, <3>7, <4>4 DEF Continue, SizeOption, Parsing
    <3>8. CASE OptionRefused
      BY <2>1, <3>2, <3>3, <3>8 DEF OptionRefused
    <3>9. QED
      BY <2>4, <3>0, <3>6, <3>7, <3>8 DEF Next, Finish
  <2>5. QED
    BY <1>2, <2>2, <2>3, <2>4
<1>3. QED
  BY <1>1, <1>2, ReadingHolds, PTL DEF Spec

=============================================================================
