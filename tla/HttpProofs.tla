----------------------------- MODULE HttpProofs -----------------------------
(***************************************************************************)
(* What the parser and the framing of requests guarantee, for texts of any *)
(* length over any alphabet, any limits, and every size of unsigned long   *)
(* long.                                                                   *)
(***************************************************************************)
EXTENDS Http, RequestReading, Mime, HttpConnectionProofs, FiniteSetTheorems

-----------------------------------------------------------------------------
(* The digit loop                                                          *)

(* What the accumulator of the digit loop may hold.                        *)
Accumulator == 0..ULLONG_MAX \cup {InvalidLength}

(* The digits are told apart by their values, and "0" has the value 0.     *)
LEMMA DigitZero ==
  ASSUME NEW c, IsDigit(c)
  PROVE  DigitValue(c) \in 0..9 /\ (DigitValue(c) = 0 <=> c = "0")
<1>1. DigitValue(c) \in 0..9 /\ Digits[DigitValue(c) + 1] = c
  BY DEF IsDigit, DigitValue
<1>2. Digits[1] = "0" /\ \A d \in 1..9 : Digits[d + 1] # "0"
  BY DEF Digits
<1>3. QED
  BY <1>1, <1>2

(* A remainder changes nothing below the modulus.                          *)
LEMMA SmallRemainder ==
  ASSUME NEW m \in Nat, NEW n \in 0..m
  PROVE  n % (m + 1) = n
OBVIOUS

(* The overflow test of the digit loop is exact: the accumulator never     *)
(* wraps round, so it is zero only when it was zero and the digit is.      *)
LEMMA AddDigitZero ==
  ASSUME NEW length \in 0..ULLONG_MAX, NEW digit \in 0..9
  PROVE  /\ AddDigit(length, digit) \in Accumulator
         /\ AddDigit(length, digit) = 0 <=> length = 0 /\ digit = 0
<1> DEFINE quotient == (ULLONG_MAX - digit) \div 10
<1>1. ULLONG_MAX \in Nat /\ ULLONG_MAX >= 9
  BY HttpAssumption
<1>2. quotient \in Nat /\ quotient * 10 <= ULLONG_MAX - digit
  BY <1>1
<1> HIDE DEF quotient
<1>3. CASE length > quotient
  <2>1. AddDigit(length, digit) = InvalidLength
    BY <1>3 DEF AddDigit, quotient
  <2>2. length # 0
    BY <1>1, <1>2, <1>3
  <2>3. QED
    BY <2>1, <2>2 DEF Accumulator, InvalidLength
<1>4. CASE ~(length > quotient)
  <2>1. length * 10 + digit \in 0..ULLONG_MAX
    BY <1>1, <1>2, <1>4
  <2>2. AddDigit(length, digit) = length * 10 + digit
    BY <1>1, <1>4, <2>1, SmallRemainder DEF AddDigit, quotient
  <2>3. QED
    BY <1>1, <2>1, <2>2 DEF Accumulator
<1>5. QED
  BY <1>3, <1>4

(* One round of the digit loop.                                            *)
Round(text, i, length) ==
  IF length = InvalidLength \/ ~IsDigit(text[i])
  THEN InvalidLength
  ELSE AddDigit(length, DigitValue(text[i]))

(* The digit loop runs: the recursion that defines it has a solution.      *)
LEMMA DigitLoop ==
  ASSUME NEW U, NEW text \in Seq(U), text # << >>
  PROVE  \E length \in [0..Len(text) -> Accumulator] :
           /\ length[0] = 0
           /\ \A i \in 1..Len(text) :
                length[i] = Round(text, i, length[i - 1])
           /\ ContentLengthValue(text) = length[Len(text)]
<1> DEFINE n == Len(text)
           Body(f, i) == IF i = 0 THEN 0
                         ELSE IF f[i - 1] = InvalidLength \/ ~IsDigit(text[i])
                              THEN InvalidLength
                              ELSE AddDigit(f[i - 1], DigitValue(text[i]))
           length == CHOOSE f : f = [i \in 0..n |-> Body(f, i)]
           step == [p \in (1..n) \X Accumulator |-> Round(text, p[1], p[2])]
<1>1. n \in Nat /\ ULLONG_MAX \in Nat
  BY LenProperties, HttpAssumption
<1>2. ContentLengthValue(text) = length[n]
  BY Zenon DEF ContentLengthValue
<1>3. ASSUME NEW i \in 1..n, NEW a \in Accumulator
      PROVE  Round(text, i, a) \in Accumulator
  <2>1. CASE a = InvalidLength \/ ~IsDigit(text[i])
    BY <2>1 DEF Round, Accumulator
  <2>2. CASE ~(a = InvalidLength \/ ~IsDigit(text[i]))
    <3>1. a \in 0..ULLONG_MAX /\ DigitValue(text[i]) \in 0..9
      BY <2>2, DigitZero DEF Accumulator
    <3>2. QED
      BY <2>2, <3>1, AddDigitZero DEF Round
  <2>3. QED
    BY <2>1, <2>2
<1>4. step \in [(1..n) \X Accumulator -> Accumulator]
  BY <1>3
<1>5. 0 \in Accumulator
  BY <1>1 DEF Accumulator
<1>6. Counting(n, Accumulator, 0, step)
  BY <1>1, <1>4, <1>5 DEF Counting
<1>7. \A i \in 1..n, a \in Accumulator : step[<< i, a >>] = Round(text, i, a)
  OBVIOUS
<1> HIDE DEF step, n
<1>8. PICK f \in [0..n -> Accumulator] :
        f[0] = 0 /\ \A k \in 1..n : f[k] = step[<< k, f[k - 1] >>]
  BY <1>6, CountingRecursion
<1>9. ASSUME NEW i \in 1..n
      PROVE  f[i] = Round(text, i, f[i - 1])
  <2>1. i - 1 \in 0..n
    BY <1>1
  <2>2. QED
    BY <1>7, <1>8, <2>1
<1>10. ASSUME NEW i \in 0..n
       PROVE  f[i] = Body(f, i)
  <2>1. CASE i = 0
    BY <1>8, <2>1
  <2>2. CASE i # 0
    <3>1. i \in 1..n
      BY <1>1, <2>2
    <3>2. QED
      BY <1>9, <2>2, <3>1 DEF Round
  <2>3. QED
    BY <2>1, <2>2
<1>11. f = [i \in 0..n |-> Body(f, i)]
  <2> HIDE DEF Body
  <2>1. QED
    BY <1>8, <1>10
<1>12. length = [i \in 0..n |-> Body(length, i)]
  <2> HIDE DEF Body
  <2>1. QED
    BY <1>11, Zenon
<1> DEFINE P == {k \in Nat : k \in 0..n => length[k] = f[k]}
<1> HIDE DEF length
<1>13. 0 \in P
  <2>1. 0 \in 0..n
    BY <1>1
  <2>2. length[0] = 0
    BY <1>12, <2>1
  <2>3. QED
    BY <1>8, <2>2
<1>14. ASSUME NEW k \in Nat, k \in P
       PROVE  k + 1 \in P
  <2>1. SUFFICES ASSUME k + 1 \in 0..n
                 PROVE  length[k + 1] = f[k + 1]
    OBVIOUS
  <2>2. k \in 0..n /\ k + 1 \in 1..n /\ (k + 1) - 1 = k /\ k + 1 # 0
    BY <1>1, <2>1
  <2>3. length[k] = f[k]
    BY <1>14, <2>2
  <2>4. length[k + 1] = Round(text, k + 1, length[k])
    BY <1>12, <2>1, <2>2 DEF Round
  <2>5. QED
    BY <1>9, <2>2, <2>3, <2>4
<1>15. n \in P
  <2> HIDE DEF P
  <2>1. QED
    BY <1>1, <1>13, <1>14, SetInduction
<1>16. length[n] = f[n]
  BY <1>1, <1>15
<1>17. QED
  BY <1>2, <1>8, <1>9, <1>16 DEF n

(* A Content-Length is taken for zero exactly when it denotes zero, however*)
(* long it is.                                                             *)
LEMMA ZeroLength ==
  ASSUME NEW U, NEW text \in Seq(U)
  PROVE  ContentLengthValue(text) = 0 <=> DenotesZero(text)
<1> DEFINE n == Len(text)
<1>1. n \in Nat /\ DOMAIN text = 1..n
  BY LenProperties
<1>2. CASE text = << >>
  BY <1>2 DEF ContentLengthValue, DenotesZero, InvalidLength
<1>3. CASE text # << >>
  <2>1. PICK length \in [0..n -> Accumulator] :
          /\ length[0] = 0
          /\ \A i \in 1..n : length[i] = Round(text, i, length[i - 1])
          /\ ContentLengthValue(text) = length[n]
    BY <1>3, DigitLoop
  <2> DEFINE P == {k \in Nat : k \in 0..n =>
                    (length[k] = 0 <=> \A i \in 1..k : text[i] = "0")}
  <2>2. 0 \in P
    BY <2>1
  <2>3. ASSUME NEW k \in Nat, k \in P
        PROVE  k + 1 \in P
    <3>1. SUFFICES ASSUME k + 1 \in 0..n
                   PROVE  length[k + 1] = 0
                            <=> \A i \in 1..k + 1 : text[i] = "0"
      OBVIOUS
    <3>2. k \in 0..n /\ k + 1 \in 1..n /\ (k + 1) - 1 = k
      BY <1>1, <3>1
    <3>3. length[k] = 0 <=> \A i \in 1..k : text[i] = "0"
      BY <2>3, <3>2
    <3>4. length[k + 1] = Round(text, k + 1, length[k])
      BY <2>1, <3>2
    <3>5. length[k] \in Accumulator
      BY <2>1, <3>2
    <3>6. length[k + 1] = 0 <=> length[k] = 0 /\ text[k + 1] = "0"
      <4>1. CASE length[k] = InvalidLength
        BY <3>4, <4>1 DEF Round, InvalidLength
      <4>2. CASE ~IsDigit(text[k + 1])
        <5>1. text[k + 1] # "0"
          BY <4>2 DEF IsDigit, Digits
        <5>2. QED
          BY <3>4, <4>2, <5>1 DEF Round, InvalidLength
      <4>3. CASE length[k] # InvalidLength /\ IsDigit(text[k + 1])
        <5>1. length[k] \in 0..ULLONG_MAX
          BY <3>5, <4>3 DEF Accumulator
        <5>2. /\ DigitValue(text[k + 1]) \in 0..9
              /\ DigitValue(text[k + 1]) = 0 <=> text[k + 1] = "0"
          BY <4>3, DigitZero
        <5>3. length[k + 1] = AddDigit(length[k], DigitValue(text[k + 1]))
          BY <3>4, <4>3 DEF Round
        <5>4. QED
          BY <5>1, <5>2, <5>3, AddDigitZero
      <4>4. QED
        BY <4>1, <4>2, <4>3
    <3>7. (\A i \in 1..k + 1 : text[i] = "0")
            <=> (\A i \in 1..k : text[i] = "0") /\ text[k + 1] = "0"
      OBVIOUS
    <3>8. QED
      BY <3>3, <3>6, <3>7
  <2>4. n \in P
    <3> HIDE DEF P
    <3>1. QED
      BY <1>1, <2>2, <2>3, SetInduction
  <2>5. length[n] = 0 <=> \A i \in 1..n : text[i] = "0"
    BY <1>1, <2>4
  <2>6. QED
    BY <1>1, <1>3, <2>1, <2>5 DEF DenotesZero
<1>4. QED
  BY <1>2, <1>3

-----------------------------------------------------------------------------
(* Finding headers                                                         *)

(* A header with text over U.                                              *)
HeaderText(U) == [name : Seq(U), value : Seq(U)]

Stripped(value) ==
  value # << >> =>
    value[1] \notin Blank /\ value[Len(value)] \notin Blank

(* A value without trailing blanks is what StripTrailingOWS leaves.        *)
LEMMA StripsNothing ==
  ASSUME NEW U, NEW value \in Seq(U), Stripped(value)
  PROVE  StripTrailingOWS(value) = value
<1> DEFINE kept == {i \in DOMAIN value : value[i] \notin OWS}
           last == CHOOSE i \in kept : \A j \in kept : j <= i
<1>1. Len(value) \in Nat /\ DOMAIN value = 1..Len(value)
  BY LenProperties
<1>2. CASE value = << >>
  BY <1>2 DEF StripTrailingOWS
<1>3. CASE value # << >>
  <2>1. Len(value) \in kept /\ \A j \in kept : j <= Len(value)
    <3>1. Len(value) \in 1..Len(value)
      BY <1>1, <1>3, EmptySeq
    <3>2. QED
      BY <1>1, <1>3, <3>1 DEF Stripped, Blank, OWS
  <2>2. \A i \in kept : i \in Int
    BY <1>1
  <2> HIDE DEF kept
  <2>3. last = Len(value)
    <3>1. last \in kept /\ \A j \in kept : j <= last
      BY <2>1
    <3> HIDE DEF last
    <3>2. QED
      BY <1>1, <2>1, <2>2, <3>1
  <2>4. StripTrailingOWS(value) = SubSeq(value, 1, last)
    BY <2>1 DEF StripTrailingOWS, kept
  <2>5. QED
    BY <2>3, <2>4, SubSeqFull
<1>4. QED
  BY <1>2, <1>3

(* Counting more than one header with a name is finding two of them.       *)
LEMMA AtMostOne ==
  ASSUME NEW n \in Nat, NEW T \in SUBSET (1..n)
  PROVE  Cardinality(T) > 1 <=> \E i, j \in T : i # j
<1>1. IsFiniteSet(T)
  <2>1. IsFiniteSet(1..n)
    BY FS_Interval
  <2>2. QED
    BY <2>1, FS_Subset
<1>2. Cardinality(T) \in Nat
  BY <1>1, FS_CardinalityType
<1>3. Cardinality(T) = 0 <=> T = {}
  BY <1>1, FS_EmptySet
<1>4. Cardinality(T) = 1 <=> \E x : T = {x}
  BY <1>1, FS_Singleton
<1>5. (T = {} \/ \E x : T = {x}) <=> \A i, j \in T : i = j
  <2>1. ASSUME \A i, j \in T : i = j, T # {}
        PROVE  \E x : T = {x}
    <3>1. PICK i \in T : TRUE
      BY <2>1
    <3>2. T = {i}
      BY <2>1, <3>1
    <3>3. QED
      BY <3>2
  <2>2. QED
    BY <2>1
<1>6. QED
  BY <1>2, <1>3, <1>4, <1>5

(* A name that one header has: http_get_header returns its value.          *)
LEMMA OnlyHeader ==
  ASSUME NEW r, NEW name, NEW i, Named(r, name) = {i}, i \in Int
  PROVE  http_get_header(r, name) = r.headers[i].value
BY DEF http_get_header

-----------------------------------------------------------------------------
(* The framing of a request                                                *)

(* http_validate_request_framing finds nothing to object to exactly when   *)
(* no byte of the request follows its headers.                             *)
LEMMA FramingFindsBodies ==
  ASSUME NEW U, NEW r, r.headers \in Seq(HeaderText(U)),
         \A i \in DOMAIN r.headers : Stripped(r.headers[i].value)
  PROVE  http_validate_request_framing(r) = "none" <=> HasNoBody(r)
<1> DEFINE lengths == Named(r, << "Content-Length" >>)
           text == http_get_header(r, << "Content-Length" >>)
           length == ContentLengthValue(StripTrailingOWS(text))
<1>1. Len(r.headers) \in Nat /\ DOMAIN r.headers = 1..Len(r.headers)
  BY LenProperties
<1>2. Cardinality(lengths) > 1 <=> \E i, j \in lengths : i # j
  <2>1. lengths \in SUBSET (1..Len(r.headers))
    BY <1>1 DEF Named
  <2>2. QED
    BY <1>1, <2>1, AtMostOne
<1>3. HasNoBody(r) <=>
        /\ Named(r, << "Transfer-Encoding" >>) = {}
        /\ \A i, j \in lengths : i = j /\ DenotesZero(r.headers[i].value)
  BY DEF HasNoBody, Named
<1>4. ASSUME NEW i \in lengths, \A j, k \in lengths : j = k
      PROVE  /\ length = 0 <=> DenotesZero(r.headers[i].value)
             /\ lengths # {}
  <2>1. lengths = {i} /\ i \in 1..Len(r.headers)
    BY <1>1, <1>4 DEF Named
  <2>2. text = r.headers[i].value
    <3>1. Named(r, << "Content-Length" >>) = {i} /\ i \in Int
      BY <1>1, <2>1
    <3> HIDE DEF lengths
    <3>2. QED
      BY <3>1, OnlyHeader
  <2>3. r.headers[i] \in HeaderText(U)
    BY <2>1, ElementOfSeq
  <2>4. r.headers[i].value \in Seq(U)
    BY <2>3 DEF HeaderText
  <2>5. StripTrailingOWS(text) = text
    BY <1>1, <2>1, <2>2, <2>4, StripsNothing
  <2>6. QED
    BY <1>4, <2>2, <2>4, <2>5, ZeroLength
<1>5. http_validate_request_framing(r) = "none" <=>
        /\ ~(Cardinality(lengths) > 1)
        /\ Named(r, << "Transfer-Encoding" >>) = {}
        /\ lengths = {} \/ length = 0
  <2>1. http_validate_request_framing(r) =
          IF Cardinality(lengths) > 1 THEN "duplicate"
          ELSE IF Named(r, << "Transfer-Encoding" >>) # {}
               THEN "transfer-encoding"
          ELSE IF lengths = {} THEN "none"
          ELSE IF length = InvalidLength THEN "invalid"
          ELSE IF length = 0 THEN "none"
          ELSE "body"
    BY DEF http_validate_request_framing
  <2> HIDE DEF lengths, length
  <2>2. QED
    BY <2>1 DEF InvalidLength
<1> HIDE DEF lengths, text, length
<1>6. QED
  BY <1>2, <1>3, <1>4, <1>5


-----------------------------------------------------------------------------
(* C strings                                                               *)

(* LeastOrNull is 0 for the empty set only, and otherwise the least.       *)
LEMMA LeastFound ==
  ASSUME NEW T \in SUBSET (Nat \ {0})
  PROVE  /\ LeastOrNull(T) \in Nat
         /\ LeastOrNull(T) = 0 <=> T = {}
         /\ T # {} => /\ LeastOrNull(T) \in T
                      /\ \A j \in T : LeastOrNull(T) <= j
<1>1. CASE T = {}
  BY <1>1 DEF LeastOrNull
<1>2. CASE T # {}
  <2>1. \E i \in T : \A j \in T : i <= j
    BY <1>2, FirstPosition
  <2>2. LeastOrNull(T) \in T /\ \A j \in T : LeastOrNull(T) <= j
    BY <1>2, <2>1 DEF LeastOrNull
  <2>3. QED
    BY <1>2, <2>2
<1>3. QED
  BY <1>1, <1>2

(* CR LF stands at a position.                                             *)
LineEnd(text, i) == text[i] = CR /\ text[i + 1] = LF

(* A C string is no longer than its bytes.                                 *)
LEMMA CStringInside ==
  ASSUME NEW U, NEW text \in Seq(U)
  PROVE  CLength(text) \in 0..Len(text)
<1> DEFINE T == {i \in DOMAIN text : text[i] = NUL}
           nul == LeastOrNull(T)
<1>1. Len(text) \in Nat /\ DOMAIN text = 1..Len(text)
  BY LenProperties
<1>2. T \in SUBSET (Nat \ {0})
  BY <1>1
<1>3. T # {} => nul \in 1..Len(text)
  <2> HIDE DEF nul
  <2>1. T # {} => nul \in T
    <3> HIDE DEF T
    <3>1. QED
      BY <1>2, LeastFound DEF nul
  <2>2. QED
    BY <1>1, <2>1
<1>4. T = {} => nul = 0
  <2> HIDE DEF T
  <2>1. QED
    BY <1>2, LeastFound
<1>5. CLength(text) = IF nul = 0 THEN Len(text) ELSE nul - 1
  BY DEF CLength
<1> HIDE DEF nul
<1>6. QED
  BY <1>1, <1>3, <1>4, <1>5

(* The next CR LF, for a reader that counts bytes.                         *)
LEMMA NextLineEnd ==
  ASSUME NEW U, NEW text \in Seq(U), NEW from \in Nat \ {0}
  PROVE  LET end == NextCRLF(text, from)
         IN  /\ end \in Nat
             /\ end = 0 => \A i \in from..(Len(text) - 1) : ~LineEnd(text, i)
             /\ end # 0 =>
                  /\ end \in from..(Len(text) - 1) /\ LineEnd(text, end)
                  /\ \A i \in from..(end - 1) : ~LineEnd(text, i)
<1> DEFINE T == {i \in from..(Len(text) - 1) : text[i] = CR /\ text[i + 1] = LF}
           end == LeastOrNull(T)
<1>1. Len(text) \in Nat
  BY LenProperties
<1>2. T \in SUBSET (Nat \ {0})
  BY <1>1
<1>3. NextCRLF(text, from) = end
  BY DEF NextCRLF
<1>4. /\ end \in Nat /\ end = 0 <=> T = {}
      /\ T # {} => end \in T /\ \A j \in T : end <= j
  <2> HIDE DEF T
  <2>1. QED
    BY <1>2, LeastFound
<1> HIDE DEF end
<1>5. ASSUME end # 0
      PROVE  /\ end \in from..(Len(text) - 1) /\ LineEnd(text, end)
             /\ \A i \in from..(end - 1) : ~LineEnd(text, i)
  <2>1. end \in T /\ \A j \in T : end <= j
    BY <1>4, <1>5
  <2>2. end \in from..(Len(text) - 1) /\ LineEnd(text, end)
    BY <2>1 DEF LineEnd
  <2>3. ASSUME NEW i \in from..(end - 1), LineEnd(text, i)
        PROVE  FALSE
    <3>1. i \in T
      BY <1>1, <1>4, <2>2, <2>3 DEF LineEnd
    <3>2. QED
      BY <1>4, <2>1, <3>1
  <2>4. QED
    BY <2>2, <2>3
<1>6. ASSUME end = 0, NEW i \in from..(Len(text) - 1), LineEnd(text, i)
      PROVE  FALSE
  <2>1. i \in T
    BY <1>6 DEF LineEnd
  <2>2. QED
    BY <1>4, <1>6, <2>1
<1>7. QED
  BY <1>3, <1>4, <1>5, <1>6

(* Where strstr finds a CR LF, a reader that counts bytes finds the same   *)
(* one: a NUL in front of it would have stopped strstr.                    *)
LEMMA FoundLineEnd ==
  ASSUME NEW U, NEW text \in Seq(U), NEW from \in Nat \ {0}
  PROVE  /\ FindCRLF(text, from) \in Nat
         /\ FindCRLF(text, from) # 0
              => FindCRLF(text, from) = NextCRLF(text, from)
<1> DEFINE T == {i \in from..(CLength(text) - 1) :
                   text[i] = CR /\ text[i + 1] = LF}
           end == LeastOrNull(T)
           next == NextCRLF(text, from)
<1>1. Len(text) \in Nat /\ CLength(text) \in 0..Len(text)
  BY LenProperties, CStringInside
<1>2. T \in SUBSET (Nat \ {0})
  BY <1>1
<1>3. FindCRLF(text, from) = end
  BY DEF FindCRLF
<1>4. /\ end \in Nat /\ end = 0 <=> T = {}
      /\ T # {} => end \in T /\ \A j \in T : end <= j
  <2> HIDE DEF T
  <2>1. QED
    BY <1>2, LeastFound
<1>5. /\ next \in Nat
      /\ next = 0 => \A i \in from..(Len(text) - 1) : ~LineEnd(text, i)
      /\ next # 0 =>
           /\ next \in from..(Len(text) - 1) /\ LineEnd(text, next)
           /\ \A i \in from..(next - 1) : ~LineEnd(text, i)
  BY NextLineEnd
<1> HIDE DEF end, next
<1>6. ASSUME end # 0
      PROVE  end = next
  <2>1. end \in T /\ \A j \in T : end <= j
    BY <1>4, <1>6
  <2>2. end \in from..(Len(text) - 1) /\ LineEnd(text, end)
        /\ end <= CLength(text) - 1
    BY <1>1, <2>1 DEF LineEnd
  <2>3. next # 0 /\ next <= end
    BY <1>1, <1>5, <2>2
  <2>4. next \in T
    BY <1>1, <1>5, <2>2, <2>3 DEF LineEnd
  <2>5. QED
    BY <1>4, <1>5, <2>1, <2>3, <2>4
<1>7. QED
  BY <1>3, <1>4, <1>6 DEF next

(* memchr finds the first unit of its kind, or there is none.              *)
LEMMA FoundUnit ==
  ASSUME NEW s, NEW c, NEW from \in Nat \ {0}, NEW end \in Int
  PROVE  LET at == FindUnit(s, c, from, end)
         IN  /\ at \in Nat
             /\ at = 0 => \A i \in from..(end - 1) : s[i] # c
             /\ at # 0 => /\ at \in from..(end - 1) /\ s[at] = c
                          /\ \A i \in from..(at - 1) : s[i] # c
<1> DEFINE T == {i \in from..(end - 1) : s[i] = c}
           at == LeastOrNull(T)
<1>1. T \in SUBSET (Nat \ {0})
  OBVIOUS
<1>2. FindUnit(s, c, from, end) = at
  BY DEF FindUnit
<1>3. /\ at \in Nat /\ at = 0 <=> T = {}
      /\ T # {} => at \in T /\ \A j \in T : at <= j
  <2> HIDE DEF T
  <2>1. QED
    BY <1>1, LeastFound
<1> HIDE DEF at
<1>4. ASSUME at # 0
      PROVE  /\ at \in from..(end - 1) /\ s[at] = c
             /\ \A i \in from..(at - 1) : s[i] # c
  BY <1>3, <1>4
<1>5. ASSUME at = 0
      PROVE  \A i \in from..(end - 1) : s[i] # c
  BY <1>3, <1>5
<1>6. QED
  BY <1>2, <1>3, <1>4, <1>5


-----------------------------------------------------------------------------
(* A header line                                                           *)

(* A piece of a text.                                                      *)
LEMMA Piece ==
  ASSUME NEW U, NEW s \in Seq(U), NEW m \in 1..(Len(s) + 1),
         NEW n \in (m - 1)..Len(s)
  PROVE  /\ SubSeq(s, m, n) \in Seq(U)
         /\ Len(SubSeq(s, m, n)) = n - m + 1
         /\ DOMAIN SubSeq(s, m, n) = 1..(n - m + 1)
         /\ \A i \in 1..(n - m + 1) : SubSeq(s, m, n)[i] = s[m + i - 1]
<1>1. Len(s) \in Nat
  BY LenProperties
<1>2. \A i \in m..n : s[i] \in U
  BY <1>1, ElementOfSeq
<1>3. m \in Int /\ n \in Int /\ (m <= n \/ n - m + 1 = 0)
  BY <1>1
<1>4. /\ SubSeq(s, m, n) \in Seq(U)
      /\ Len(SubSeq(s, m, n)) = n - m + 1
      /\ \A i \in 1..(n - m + 1) : SubSeq(s, m, n)[i] = s[m + i - 1]
  BY <1>2, <1>3, SubSeqProperties
<1>5. QED
  BY <1>4, LenProperties

(* t is s without lead blanks in front and blanks behind.                  *)
TrimmedTo(s, t, lead) ==
  /\ lead \in 0..(Len(s) - Len(t))
  /\ \A i \in 1..lead : s[i] \in Blank
  /\ \A i \in 1..Len(t) : t[i] = s[lead + i]
  /\ \A i \in (lead + Len(t) + 1)..Len(s) : s[i] \in Blank

(* What http_parse_headers strips from a value is the blanks around it.    *)
LEMMA TrimStrips ==
  ASSUME NEW U, NEW s \in Seq(U)
  PROVE  /\ Trim(s) \in Seq(U)
         /\ Stripped(Trim(s))
         /\ \E lead : TrimmedTo(s, Trim(s), lead)
<1> DEFINE kept == {i \in DOMAIN s : s[i] \notin Blank}
           first == CHOOSE i \in kept : \A j \in kept : i <= j
           last == CHOOSE i \in kept : \A j \in kept : j <= i
<1>1. Len(s) \in Nat /\ DOMAIN s = 1..Len(s)
  BY LenProperties
<1>2. CASE kept = {}
  <2>1. Trim(s) = << >> /\ \A i \in 1..Len(s) : s[i] \in Blank
    BY <1>1, <1>2 DEF Trim
  <2>2. TrimmedTo(s, << >>, Len(s))
    BY <1>1, <2>1 DEF TrimmedTo
  <2>3. QED
    BY <2>1, <2>2 DEF Stripped
<1>3. CASE kept # {}
  <2>1. kept \in SUBSET (1..Len(s)) /\ kept \in SUBSET Nat
    BY <1>1
  <2>2. \E i \in kept : \A j \in kept : i <= j
    <3> HIDE DEF kept
    <3>1. QED
      BY <1>3, <2>1, FirstPosition
  <2>3. \E i \in kept : \A j \in kept : j <= i
    <3> HIDE DEF kept
    <3>1. QED
      BY <1>1, <1>3, <2>1, LastPosition
  <2>4. first \in kept /\ \A j \in kept : first <= j
    BY <2>2
  <2>5. last \in kept /\ \A j \in kept : j <= last
    BY <2>3
  <2>6. Trim(s) = SubSeq(s, first, last)
    BY <1>3 DEF Trim
  <2> HIDE DEF first, last
  <2>7. first \in 1..Len(s) /\ last \in first..Len(s)
    BY <1>1, <2>1, <2>4, <2>5
  <2>8. s[first] \notin Blank /\ s[last] \notin Blank
    BY <2>4, <2>5
  <2>9. \A i \in 1..(first - 1) : s[i] \in Blank
    BY <1>1, <2>4, <2>7
  <2>10. \A i \in (last + 1)..Len(s) : s[i] \in Blank
    BY <1>1, <2>5, <2>7
  <2> DEFINE t == SubSeq(s, first, last)
  <2>11. /\ t \in Seq(U) /\ Len(t) = last - first + 1
         /\ \A i \in 1..(last - first + 1) : t[i] = s[first + i - 1]
    BY <1>1, <2>7, Piece
  <2> HIDE DEF kept, t
  <2>12. t[1] = s[first] /\ t[Len(t)] = s[last]
    <3>1. /\ 1 \in 1..(last - first + 1)
          /\ Len(t) \in 1..(last - first + 1)
          /\ first + 1 - 1 = first /\ first + Len(t) - 1 = last
      BY <1>1, <2>7, <2>11
    <3>2. QED
      BY <2>11, <3>1
  <2>13. Stripped(t)
    BY <2>8, <2>12 DEF Stripped
  <2>14. TrimmedTo(s, t, first - 1)
    <3>1. first - 1 \in 0..(Len(s) - Len(t))
      BY <1>1, <2>7, <2>11
    <3>2. \A i \in 1..Len(t) : t[i] = s[(first - 1) + i]
      <4>1. \A i \in 1..Len(t) : first + i - 1 = (first - 1) + i
        BY <1>1, <2>7, <2>11
      <4>2. QED
        BY <2>11, <4>1
    <3>3. (first - 1) + Len(t) + 1 = last + 1
      BY <1>1, <2>7, <2>11
    <3>4. QED
      BY <2>9, <2>10, <3>1, <3>2, <3>3 DEF TrimmedTo
  <2>15. QED
    BY <2>6, <2>11, <2>13, <2>14 DEF t
<1>4. QED
  BY <1>2, <1>3

(* A line with a colon: its name, its value and where the value stands.    *)
LEMMA ColonCuts ==
  ASSUME NEW U, NEW line \in Seq(U), Colon(line) # 0
  PROVE  /\ Colon(line) \in 1..Len(line)
         /\ line[Colon(line)] = ":"
         /\ LooseName(line) \in Seq(U)
         /\ Len(LooseName(line)) = Colon(line) - 1
         /\ \A i \in 1..(Colon(line) - 1) : LooseName(line)[i] = line[i]
         /\ LooseValue(line) \in Seq(U)
         /\ Len(LooseValue(line)) = Len(line) - Colon(line)
         /\ \A i \in 1..(Len(line) - Colon(line)) :
              LooseValue(line)[i] = line[Colon(line) + i]
<1> DEFINE colon == Colon(line)
<1>1. Len(line) \in Nat
  BY LenProperties
<1>2. colon \in 1..Len(line) /\ line[colon] = ":"
  <2>1. Len(line) + 1 \in Int /\ (Len(line) + 1) - 1 = Len(line) /\ 1 \in Nat \ {0}
    BY <1>1
  <2> DEFINE end == Len(line) + 1
  <2>2. colon = FindUnit(line, ":", 1, end)
    BY DEF Colon
  <2> HIDE DEF colon, end
  <2>3. colon # 0
    BY DEF colon
  <2>4. colon \in 1..(end - 1) /\ line[colon] = ":"
    <3>1. end \in Int
      BY <2>1 DEF end
    <3>2. QED
      BY <2>1, <2>2, <2>3, <3>1, FoundUnit, ZenonT(40)
  <2>5. QED
    BY <2>1, <2>4 DEF end
<1>3. /\ LooseName(line) = SubSeq(line, 1, colon - 1)
      /\ LooseValue(line) = SubSeq(line, colon + 1, Len(line))
  BY DEF LooseName, LooseValue
<1> HIDE DEF colon
<1>4. /\ SubSeq(line, 1, colon - 1) \in Seq(U)
      /\ Len(SubSeq(line, 1, colon - 1)) = colon - 1
      /\ \A i \in 1..(colon - 1) : SubSeq(line, 1, colon - 1)[i] = line[i]
  <2>1. /\ 1 \in 1..(Len(line) + 1) /\ colon - 1 \in (1 - 1)..Len(line)
        /\ (colon - 1) - 1 + 1 = colon - 1
    BY <1>1, <1>2
  <2>2. \A i \in 1..(colon - 1) : 1 + i - 1 = i
    BY <1>1, <1>2
  <2>3. QED
    BY <2>1, <2>2, Piece
<1>5. /\ SubSeq(line, colon + 1, Len(line)) \in Seq(U)
      /\ Len(SubSeq(line, colon + 1, Len(line))) = Len(line) - colon
      /\ \A i \in 1..(Len(line) - colon) :
           SubSeq(line, colon + 1, Len(line))[i] = line[colon + i]
  <2>1. /\ colon + 1 \in 1..(Len(line) + 1)
        /\ Len(line) \in (colon + 1 - 1)..Len(line)
        /\ Len(line) - (colon + 1) + 1 = Len(line) - colon
    BY <1>1, <1>2
  <2>2. \A i \in 1..(Len(line) - colon) : (colon + 1) + i - 1 = colon + i
    BY <1>1, <1>2
  <2>3. QED
    BY <2>1, <2>2, Piece
<1>6. QED
  BY <1>2, <1>3, <1>4, <1>5 DEF colon


(* What HeaderLine returns, in the words of the other reader.              *)
LEMMA HeaderLineReads ==
  ASSUME NEW line, NEW config
  PROVE  /\ HeaderLine(line, config).header
              = [name |-> LooseName(line), value |-> Trim(LooseValue(line))]
         /\ HeaderLine(line, config).result =
              IF Colon(line) = 0 \/ ~http_valid_header_name(LooseName(line))
              THEN "BAD_REQUEST"
              ELSE IF TooLong(LooseName(line), config.http_header_name_max)
                   THEN "HEADERS_TOO_LARGE"
              ELSE IF ~http_valid_header_value(Trim(LooseValue(line)))
                   THEN "BAD_REQUEST"
              ELSE IF TooLong(Trim(LooseValue(line)),
                              config.http_header_value_max)
                   THEN "HEADERS_TOO_LARGE"
              ELSE "next"
BY DEF HeaderLine, LooseName, LooseValue, Colon

(* A header that is stored: where it comes from and what it is.            *)
StoredFrom(U, line, header, config) ==
  /\ Colon(line) # 0
  /\ header \in HeaderText(U)
  /\ header.name = LooseName(line)
  /\ http_valid_header_name(header.name)
  /\ Stripped(header.value)
  /\ \E lead : TrimmedTo(LooseValue(line), header.value, lead)
  /\ ~TooLong(header.name, config.http_header_name_max)
  /\ ~TooLong(header.value, config.http_header_value_max)

(* What a header line stores comes from that line.                         *)
LEMMA HeaderLineStores ==
  ASSUME NEW U, NEW line \in Seq(U), NEW config,
         HeaderLine(line, config).result = "next"
  PROVE  StoredFrom(U, line, HeaderLine(line, config).header, config)
<1> DEFINE header == HeaderLine(line, config).header
<1>1. /\ header = [name |-> LooseName(line), value |-> Trim(LooseValue(line))]
      /\ Colon(line) # 0 /\ http_valid_header_name(LooseName(line))
      /\ ~TooLong(LooseName(line), config.http_header_name_max)
      /\ ~TooLong(Trim(LooseValue(line)), config.http_header_value_max)
  BY HeaderLineReads
<1> HIDE DEF header
<1>2. LooseName(line) \in Seq(U) /\ LooseValue(line) \in Seq(U)
  BY <1>1, ColonCuts
<1>3. /\ Trim(LooseValue(line)) \in Seq(U)
      /\ Stripped(Trim(LooseValue(line)))
      /\ \E lead : TrimmedTo(LooseValue(line), Trim(LooseValue(line)), lead)
  BY <1>2, TrimStrips
<1>4. header.name = LooseName(line) /\ header.value = Trim(LooseValue(line))
  BY <1>1
<1>5. header \in HeaderText(U)
  BY <1>1, <1>2, <1>3 DEF HeaderText
<1>6. StoredFrom(U, line, header, config)
  BY <1>1, <1>3, <1>4, <1>5 DEF StoredFrom
<1>7. QED
  BY <1>6 DEF header

(* The line writes the header that is stored: nothing but blanks is lost.  *)
LEMMA StoredIsWritten ==
  ASSUME NEW U, NEW line \in Seq(U), NEW header, NEW config,
         StoredFrom(U, line, header, config)
  PROVE  Writes(line, header)
<1> DEFINE rest == LooseValue(line)
<1>1. /\ Colon(line) # 0 /\ header.name = LooseName(line)
      /\ header.name \in Seq(U) /\ header.value \in Seq(U)
      /\ \E lead : TrimmedTo(rest, header.value, lead)
  BY DEF StoredFrom, HeaderText
<1>2. PICK name \in Seq(U), value \in Seq(U) :
        name = header.name /\ value = header.value
  BY <1>1
<1>3. PICK lead : TrimmedTo(rest, value, lead)
  BY <1>1, <1>2
<1>4. PICK colon \in 1..Len(line) : colon = Colon(line)
  BY <1>1, ColonCuts
<1>5. PICK length \in Nat, size \in Nat : length = Len(line) /\ size = Len(value)
  BY LenProperties
<1>6. /\ line[colon] = ":" /\ Len(name) = colon - 1
      /\ \A i \in 1..(colon - 1) : name[i] = line[i]
      /\ rest \in Seq(U) /\ Len(rest) = length - colon
      /\ \A i \in 1..(length - colon) : rest[i] = line[colon + i]
  <2>1. Colon(line) # 0 /\ name = LooseName(line)
    BY <1>1, <1>2
  <2>2. /\ line[colon] = ":" /\ Len(name) = colon - 1
        /\ \A i \in 1..(colon - 1) : name[i] = line[i]
    BY <1>4, <2>1, ColonCuts
  <2>3. /\ rest \in Seq(U) /\ Len(rest) = Len(line) - colon
        /\ \A i \in 1..(Len(line) - colon) : rest[i] = line[colon + i]
    BY <1>4, <2>1, ColonCuts
  <2>4. QED
    BY <1>5, <2>2, <2>3
<1> HIDE DEF rest
<1>7. /\ lead \in 0..(length - colon - size)
      /\ \A i \in 1..lead : rest[i] \in Blank
      /\ \A i \in 1..size : value[i] = rest[lead + i]
      /\ \A i \in (lead + size + 1)..(length - colon) : rest[i] \in Blank
  BY <1>3, <1>5, <1>6 DEF TrimmedTo
<1> DEFINE from == colon + lead
           to == from + size
<1>8. /\ colon \in 1..length /\ from \in colon..length /\ to \in from..length
  BY <1>5, <1>7
<1>9. SubSeq(line, 1, colon) = name \o << ":" >>
  <2>1. /\ SubSeq(line, 1, colon) \in Seq(U)
        /\ Len(SubSeq(line, 1, colon)) = colon
        /\ \A i \in 1..colon : SubSeq(line, 1, colon)[i] = line[i]
    <3>1. 1 \in 1..(Len(line) + 1) /\ colon \in (1 - 1)..Len(line)
          /\ colon - 1 + 1 = colon
      BY <1>5, <1>8
    <3>2. \A i \in 1..colon : 1 + i - 1 = i
      OBVIOUS
    <3>3. QED
      BY <3>1, <3>2, Piece
  <2>2. ":" \in U
    BY <1>5, <1>6, <1>8, ElementOfSeq
  <2>3. /\ name \o << ":" >> \in Seq(U)
        /\ Len(name \o << ":" >>) = colon
        /\ \A i \in 1..colon : (name \o << ":" >>)[i]
             = IF i <= Len(name) THEN name[i] ELSE ":"
    BY <1>6, <1>8, <2>2
  <2>4. \A i \in 1..colon : SubSeq(line, 1, colon)[i] = (name \o << ":" >>)[i]
    BY <1>6, <1>8, <2>1, <2>3
  <2>5. QED
    BY <2>1, <2>3, <2>4, SeqEqual
<1>10. AllBlank(SubSeq(line, colon + 1, from))
  <2>1. /\ colon + 1 \in 1..(Len(line) + 1) /\ from \in (colon + 1 - 1)..Len(line)
        /\ from - (colon + 1) + 1 = lead
    BY <1>5, <1>7, <1>8
  <2>2. /\ DOMAIN SubSeq(line, colon + 1, from) = 1..lead
        /\ \A i \in 1..lead :
             SubSeq(line, colon + 1, from)[i] = line[(colon + 1) + i - 1]
    <3> HIDE DEF from
    <3>1. QED
      BY <2>1, Piece
  <2>3. ASSUME NEW i \in 1..lead
        PROVE  line[(colon + 1) + i - 1] \in Blank
    <3>1. i \in 1..(length - colon) /\ (colon + 1) + i - 1 = colon + i
      BY <1>7, <1>8
    <3>2. QED
      BY <1>6, <1>7, <3>1
  <2>4. QED
    BY <2>2, <2>3 DEF AllBlank
<1>11. SubSeq(line, from + 1, to) = value
  <2>1. /\ from + 1 \in 1..(Len(line) + 1) /\ to \in (from + 1 - 1)..Len(line)
        /\ to - (from + 1) + 1 = size
    BY <1>5, <1>7, <1>8
  <2>2. /\ SubSeq(line, from + 1, to) \in Seq(U)
        /\ Len(SubSeq(line, from + 1, to)) = size
        /\ \A i \in 1..size :
             SubSeq(line, from + 1, to)[i] = line[(from + 1) + i - 1]
    <3> HIDE DEF from, to
    <3>1. QED
      BY <2>1, Piece
  <2>3. ASSUME NEW i \in 1..size
        PROVE  line[(from + 1) + i - 1] = value[i]
    <3>1. /\ lead + i \in 1..(length - colon)
          /\ (from + 1) + i - 1 = colon + (lead + i)
      BY <1>7, <1>8
    <3>2. QED
      BY <1>6, <1>7, <3>1
  <2>4. QED
    BY <1>5, <2>2, <2>3, SeqEqual
<1>12. AllBlank(SubSeq(line, to + 1, length))
  <2>1. /\ to + 1 \in 1..(Len(line) + 1) /\ length \in (to + 1 - 1)..Len(line)
    BY <1>5, <1>7, <1>8
  <2>2. /\ DOMAIN SubSeq(line, to + 1, length) = 1..(length - (to + 1) + 1)
        /\ \A i \in 1..(length - (to + 1) + 1) :
             SubSeq(line, to + 1, length)[i] = line[(to + 1) + i - 1]
    <3> HIDE DEF to
    <3>1. QED
      BY <2>1, Piece
  <2>3. ASSUME NEW i \in 1..(length - (to + 1) + 1)
        PROVE  line[(to + 1) + i - 1] \in Blank
    <3> DEFINE j == lead + size + i
    <3>1. /\ j \in (lead + size + 1)..(length - colon) /\ j \in 1..(length - colon)
          /\ (to + 1) + i - 1 = colon + j
      BY <1>7, <1>8
    <3> HIDE DEF j
    <3>2. QED
      BY <1>6, <1>7, <3>1
  <2>4. QED
    BY <2>2, <2>3 DEF AllBlank
<1>13. Len(name) + 1 = colon /\ length = Len(line)
  BY <1>5, <1>6, <1>8
<1> HIDE DEF from, to
<1>14. /\ lead \in 0..(Len(line) - colon - Len(header.value))
       /\ from = colon + lead /\ to = from + Len(header.value)
       /\ Len(header.name) + 1 = colon
  BY <1>2, <1>5, <1>7, <1>13 DEF from, to
<1>15. QED
  BY <1>2, <1>9, <1>10, <1>11, <1>12, <1>13, <1>14 DEF Writes


-----------------------------------------------------------------------------
(* The loop over the headers                                               *)

ParseResult == {"OK", "BAD_REQUEST", "HEADERS_TOO_LARGE"}

LoopResult(U) == [result : ParseResult, headers : Seq(HeaderText(U))]

LoopAt(text) == (1..(Len(text) + 1)) \X Nat

(* The line at a position, as the loop cuts it.                            *)
LineAt(text, line) == SubSeq(text, line, FindCRLF(text, line) - 1)

(* An iteration that stores a header and goes on.                          *)
Goes(text, config, line, count) ==
  /\ ~BlankLineAt(text, line)
  /\ ~TooMany(count, config)
  /\ FindCRLF(text, line) # 0
  /\ HeaderLine(LineAt(text, line), config).result = "next"

(* The line the loop cuts and the position it goes on at are in the text.  *)
LEMMA LineInside ==
  ASSUME NEW U, NEW text \in Seq(U), NEW line \in 1..(Len(text) + 1),
         FindCRLF(text, line) # 0
  PROVE  /\ FindCRLF(text, line) \in line..(Len(text) - 1)
         /\ FindCRLF(text, line) + 2 \in (line + 2)..(Len(text) + 1)
         /\ LineAt(text, line) \in Seq(U)
         /\ Len(LineAt(text, line)) = FindCRLF(text, line) - line
<1> DEFINE end == FindCRLF(text, line)
<1>1. Len(text) \in Nat
  BY LenProperties
<1>2. line \in Nat \ {0}
  BY <1>1
<1>3. end = NextCRLF(text, line)
  BY <1>2, FoundLineEnd
<1> HIDE DEF end
<1>4. end \in line..(Len(text) - 1)
  BY <1>2, <1>3, NextLineEnd DEF end
<1>5. end + 2 \in (line + 2)..(Len(text) + 1)
  BY <1>1, <1>4
<1>6. /\ SubSeq(text, line, end - 1) \in Seq(U)
      /\ Len(SubSeq(text, line, end - 1)) = end - line
  <2>1. end - 1 \in (line - 1)..Len(text) /\ end - 1 - line + 1 = end - line
    BY <1>1, <1>4
  <2>2. QED
    BY <2>1, Piece
<1>7. QED
  BY <1>4, <1>5, <1>6 DEF end, LineAt

(* An iteration that goes on.                                              *)
LEMMA IterationGoes ==
  ASSUME NEW text, NEW config, NEW line, NEW count, NEW rest,
         Goes(text, config, line, count)
  PROVE  ParseHeader(text, config, line, count, rest) =
           [result |-> rest.result,
            headers |-> << HeaderLine(LineAt(text, line), config).header >>
                          \o rest.headers]
BY DEF ParseHeader, Goes, LineAt

(* One that does not: the checks in their order give the result.           *)
LEMMA IterationStops ==
  ASSUME NEW text, NEW config, NEW line, NEW count, NEW rest,
         ~Goes(text, config, line, count)
  PROVE  ParseHeader(text, config, line, count, rest) =
           [result |->
              IF BlankLineAt(text, line) THEN "OK"
              ELSE IF TooMany(count, config) THEN "HEADERS_TOO_LARGE"
              ELSE IF FindCRLF(text, line) = 0 THEN "BAD_REQUEST"
              ELSE HeaderLine(LineAt(text, line), config).result,
            headers |-> << >>]
BY DEF ParseHeader, Goes, LineAt

(* What an iteration returns is a result of the loop.                      *)
LEMMA IterationTyped ==
  ASSUME NEW U, NEW text \in Seq(U), NEW config,
         NEW line \in 1..(Len(text) + 1), NEW count
  PROVE  /\ ~Goes(text, config, line, count)
              => \A rest : ParseHeader(text, config, line, count, rest)
                             \in LoopResult(U)
         /\ Goes(text, config, line, count)
              => \A rest \in LoopResult(U) :
                   ParseHeader(text, config, line, count, rest)
                     \in LoopResult(U)
<1>1. ASSUME ~Goes(text, config, line, count), NEW rest
      PROVE  ParseHeader(text, config, line, count, rest) \in LoopResult(U)
  <2> DEFINE result == IF BlankLineAt(text, line) THEN "OK"
                       ELSE IF TooMany(count, config) THEN "HEADERS_TOO_LARGE"
                       ELSE IF FindCRLF(text, line) = 0 THEN "BAD_REQUEST"
                       ELSE HeaderLine(LineAt(text, line), config).result
  <2>1. ParseHeader(text, config, line, count, rest)
          = [result |-> result, headers |-> << >>]
    BY <1>1, IterationStops
  <2>2. HeaderLine(LineAt(text, line), config).result \in ParseResult \cup {"next"}
    BY HeaderLineReads DEF ParseResult
  <2>3. result \in ParseResult
    BY <1>1, <2>2 DEF Goes, ParseResult
  <2> HIDE DEF result
  <2>4. QED
    BY <2>1, <2>3 DEF LoopResult
<1>2. ASSUME Goes(text, config, line, count), NEW rest \in LoopResult(U)
      PROVE  ParseHeader(text, config, line, count, rest) \in LoopResult(U)
  <2> DEFINE header == HeaderLine(LineAt(text, line), config).header
  <2>1. ParseHeader(text, config, line, count, rest)
          = [result |-> rest.result, headers |-> << header >> \o rest.headers]
    BY <1>2, IterationGoes
  <2>2. LineAt(text, line) \in Seq(U)
    BY <1>2, LineInside DEF Goes
  <2>3. header \in HeaderText(U)
    BY <1>2, <2>2, HeaderLineStores DEF Goes, StoredFrom
  <2> HIDE DEF header
  <2>4. rest.result \in ParseResult /\ rest.headers \in Seq(HeaderText(U))
    BY DEF LoopResult
  <2>5. << header >> \o rest.headers \in Seq(HeaderText(U))
    BY <2>3, <2>4
  <2>6. QED
    BY <2>1, <2>4, <2>5 DEF LoopResult
<1>3. QED
  BY <1>1, <1>2

(* A function is what the loop returns from every position.                *)
IsLoop(text, config, loop) ==
  \A at \in LoopAt(text) :
    loop[at] = ParseHeader(text, config, at[1], at[2],
                 loop[<< FindCRLF(text, at[1]) + 2, at[2] + 1 >>])

(* The loop over the headers ends: the recursion has a solution.           *)
LEMMA LoopRuns ==
  ASSUME NEW U, NEW text \in Seq(U), NEW config
  PROVE  \E loop \in [LoopAt(text) -> LoopResult(U)] :
           /\ IsLoop(text, config, loop)
           /\ FindCRLF(text, 1) # 0
                => http_parse_headers(text, config)
                     = loop[<< FindCRLF(text, 1) + 2, 0 >>]
<1> DEFINE S == LoopAt(text)
           D == LoopResult(U)
           N == Len(text) + 1
           After(at) == << FindCRLF(text, at[1]) + 2, at[2] + 1 >>
           Body(f, at) == ParseHeader(text, config, at[1], at[2], f[After(at)])
           m == [at \in S |-> N - at[1]]
           stop == {at \in S : ~Goes(text, config, at[1], at[2])}
           next == [at \in S \ stop |-> After(at)]
           base == [at \in stop |->
                      ParseHeader(text, config, at[1], at[2], << >>)]
           comb == [q \in (S \ stop) \X D |->
                      ParseHeader(text, config, q[1][1], q[1][2], q[2])]
           chosen == CHOOSE f : f = [at \in S |-> Body(f, at)]
<1>1. Len(text) \in Nat /\ N \in Nat
  BY LenProperties
<1>2. \A at \in S : at[1] \in 1..(Len(text) + 1) /\ at[2] \in Nat
  BY DEF LoopAt
<1>3. ASSUME NEW at \in S, Goes(text, config, at[1], at[2])
      PROVE  After(at) \in S /\ After(at)[1] > at[1]
  <2>1. FindCRLF(text, at[1]) # 0
    BY <1>3 DEF Goes
  <2>2. FindCRLF(text, at[1]) + 2 \in (at[1] + 2)..(Len(text) + 1)
    BY <1>2, <2>1, LineInside
  <2>3. QED
    BY <1>1, <1>2, <2>2 DEF LoopAt
<1>4. /\ N \in Nat /\ m \in [S -> 0..N] /\ stop \in SUBSET S
  BY <1>1, <1>2
<1>5. next \in [S \ stop -> S]
  <2> HIDE DEF S
  <2>1. \A at \in S \ stop : After(at) \in S
    BY <1>3
  <2> HIDE DEF After
  <2>2. QED
    BY <2>1
<1>6. \A at \in S \ stop : m[next[at]] < m[at]
  <2>1. ASSUME NEW at \in S \ stop
        PROVE  m[next[at]] < m[at]
    <3>1. After(at) \in S /\ After(at)[1] > at[1] /\ next[at] = After(at)
      BY <1>3
    <3> HIDE DEF S, After, next, stop
    <3>2. m[next[at]] = N - After(at)[1] /\ m[at] = N - at[1]
      BY <3>1
    <3>3. QED
      BY <1>1, <1>2, <3>1, <3>2
  <2>2. QED
    BY <2>1
<1>7. base \in [stop -> D]
  BY <1>2, IterationTyped
<1>8. comb \in [(S \ stop) \X D -> D]
  BY <1>2, IterationTyped
<1>9. \A at \in S \ stop : next[at] = After(at)
  OBVIOUS
<1>10. \A at \in S \ stop, r \in D :
         comb[<< at, r >>] = ParseHeader(text, config, at[1], at[2], r)
  OBVIOUS
<1>11. ASSUME NEW at \in stop, NEW r
       PROVE  base[at] = ParseHeader(text, config, at[1], at[2], r)
  BY IterationStops
<1>12. \A at \in S : at \in stop \/ Goes(text, config, at[1], at[2])
  OBVIOUS
<1> HIDE DEF S, D, N, m, stop, next, base, comb, After
<1>13. Recursion(S, D, N, m, stop, next, base, comb)
  BY <1>4, <1>5, <1>6, <1>7, <1>8 DEF Recursion
<1>14. PICK f \in [S -> D] : Solution(f, S, stop, next, base, comb)
  BY <1>13, RecursionExists
<1>15. ASSUME NEW at \in S
       PROVE  f[at] = Body(f, at)
  <2>1. CASE at \in stop
    BY <1>11, <1>14, <2>1 DEF Solution
  <2>2. CASE at \notin stop
    <3>1. next[at] \in S /\ next[at] = After(at)
      BY <1>5, <1>9, <2>2
    <3>2. f[next[at]] \in D
      BY <3>1
    <3>3. QED
      BY <1>10, <1>14, <2>2, <3>1, <3>2 DEF Solution
  <2>3. QED
    BY <2>1, <2>2
<1> HIDE DEF Body
<1>16. f = [at \in S |-> Body(f, at)]
  BY <1>15
<1>17. chosen = [at \in S |-> Body(chosen, at)]
  BY <1>16, Zenon
<1> HIDE DEF chosen
<1> DEFINE P == {at \in S : chosen[at] = f[at]}
<1>18. ASSUME NEW at \in S, \A q \in S : m[q] < m[at] => q \in P
       PROVE  at \in P
  <2>1. chosen[at] = Body(chosen, at)
    BY <1>17
  <2>2. CASE at \in stop
    <3>1. Body(chosen, at) = base[at] /\ Body(f, at) = base[at]
      BY <1>11, <2>2 DEF Body
    <3>2. QED
      BY <1>15, <2>1, <3>1
  <2>3. CASE at \notin stop
    <3>1. After(at) \in S /\ m[After(at)] < m[at]
      BY <1>5, <1>6, <1>9, <2>3
    <3>2. chosen[After(at)] = f[After(at)]
      BY <1>18, <3>1
    <3>3. QED
      BY <1>15, <2>1, <3>2 DEF Body
  <2>4. QED
    BY <2>2, <2>3
<1>19. \A at \in S : at \in P
  <2> HIDE DEF P
  <2>1. \A at \in S : (\A q \in S : m[q] < m[at] => q \in P) => at \in P
    BY <1>18
  <2>2. Inductive(S, N, m, P)
    BY <1>4, <2>1 DEF Inductive
  <2>3. QED
    BY <2>2, MeasureInduction
<1>20. IsLoop(text, config, f)
  BY <1>15 DEF IsLoop, S, Body, After
<1>21. ASSUME FindCRLF(text, 1) # 0
       PROVE  http_parse_headers(text, config)
                = f[<< FindCRLF(text, 1) + 2, 0 >>]
  <2>1. << FindCRLF(text, 1) + 2, 0 >> \in S
    <3>1. 1 \in 1..(Len(text) + 1)
      BY <1>1
    <3>2. FindCRLF(text, 1) + 2 \in (1 + 2)..(Len(text) + 1)
      BY <1>21, <3>1, LineInside
    <3>3. QED
      BY <1>1, <3>2 DEF S, LoopAt
  <2>2. http_parse_headers(text, config)
          = chosen[<< FindCRLF(text, 1) + 2, 0 >>]
    BY Zenon DEF http_parse_headers, chosen, Body, After, S, LoopAt
  <2>3. QED
    BY <1>19, <2>1, <2>2
<1>22. QED
  BY <1>14, <1>20, <1>21 DEF S, D

-----------------------------------------------------------------------------
(* The lines of a text                                                     *)

(* The line a reader that counts bytes finds at a position.                *)
ByteLineAt(text, from) == SubSeq(text, from, NextCRLF(text, from) - 1)

(* A function that gives the lines from every position on.                 *)
IsLines(text, lines) ==
  \A from \in 1..(Len(text) + 1) :
    lines[from] = IF NextCRLF(text, from) = 0 THEN << >>
                  ELSE << ByteLineAt(text, from) >>
                         \o lines[NextCRLF(text, from) + 2]

(* The recursion that cuts a text into lines has a solution.               *)
LEMMA LinesRun ==
  ASSUME NEW U, NEW text \in Seq(U)
  PROVE  \E lines \in [1..(Len(text) + 1) -> Seq(Seq(U))] :
           IsLines(text, lines) /\ Lines(text) = lines[1]
<1> DEFINE S == 1..(Len(text) + 1)
           D == Seq(Seq(U))
           N == Len(text) + 1
           Next(from) == NextCRLF(text, from)
           Body(f, from) == IF Next(from) = 0 THEN << >>
                            ELSE << SubSeq(text, from, Next(from) - 1) >>
                                   \o f[Next(from) + 2]
           m == [from \in S |-> N - from]
           stop == {from \in S : Next(from) = 0}
           next == [from \in S \ stop |-> Next(from) + 2]
           base == [from \in stop |-> << >>]
           comb == [q \in (S \ stop) \X D |->
                      << SubSeq(text, q[1], Next(q[1]) - 1) >> \o q[2]]
           chosen == CHOOSE f : f = [from \in S |-> Body(f, from)]
<1>1. Len(text) \in Nat /\ N \in Nat
  BY LenProperties
<1>2. ASSUME NEW from \in S, Next(from) # 0
      PROVE  /\ Next(from) \in from..(Len(text) - 1)
             /\ Next(from) + 2 \in S /\ Next(from) + 2 > from
             /\ SubSeq(text, from, Next(from) - 1) \in Seq(U)
  <2>1. from \in Nat \ {0}
    BY <1>1
  <2>2. Next(from) \in from..(Len(text) - 1)
    BY <1>2, <2>1, NextLineEnd
  <2> HIDE DEF Next
  <2>3. Next(from) + 2 \in S /\ Next(from) + 2 > from
    BY <1>1, <2>1, <2>2
  <2>4. Next(from) - 1 \in (from - 1)..Len(text)
    BY <1>1, <2>1, <2>2
  <2>5. SubSeq(text, from, Next(from) - 1) \in Seq(U)
    BY <2>4, Piece
  <2>6. QED
    BY <2>2, <2>3, <2>5
<1> HIDE DEF Next
<1>3. /\ N \in Nat /\ m \in [S -> 0..N] /\ stop \in SUBSET S
  BY <1>1
<1>4. next \in [S \ stop -> S]
  BY <1>2
<1>5. \A from \in S \ stop : m[next[from]] < m[from]
  <2>1. ASSUME NEW from \in S \ stop
        PROVE  m[next[from]] < m[from]
    <3>1. Next(from) + 2 \in S /\ Next(from) + 2 > from /\ next[from] = Next(from) + 2
      BY <1>2
    <3> HIDE DEF next, stop
    <3>2. m[next[from]] = N - (Next(from) + 2) /\ m[from] = N - from
      BY <3>1
    <3>3. QED
      BY <1>1, <3>1, <3>2
  <2>2. QED
    BY <2>1
<1>6. base \in [stop -> D]
  OBVIOUS
<1>7. ASSUME NEW from \in S \ stop, NEW r \in D
      PROVE  << SubSeq(text, from, Next(from) - 1) >> \o r \in D
  <2>1. SubSeq(text, from, Next(from) - 1) \in Seq(U)
    BY <1>2
  <2>2. QED
    BY <2>1
<1>8. comb \in [(S \ stop) \X D -> D]
  BY <1>7
<1>9. \A from \in S \ stop : next[from] = Next(from) + 2
  OBVIOUS
<1>10. \A from \in S \ stop, r \in D :
         comb[<< from, r >>] = << SubSeq(text, from, Next(from) - 1) >> \o r
  OBVIOUS
<1>11. \A from \in stop : base[from] = << >>
  OBVIOUS
<1>12. \A from \in S : from \in stop <=> Next(from) = 0
  OBVIOUS
<1> HIDE DEF S, D, N, m, stop, next, base, comb
<1>13. Recursion(S, D, N, m, stop, next, base, comb)
  BY <1>3, <1>4, <1>5, <1>6, <1>8 DEF Recursion
<1>14. PICK f \in [S -> D] : Solution(f, S, stop, next, base, comb)
  BY <1>13, RecursionExists
<1>15. ASSUME NEW from \in S
       PROVE  f[from] = Body(f, from)
  <2>1. CASE from \in stop
    BY <1>11, <1>12, <1>14, <2>1 DEF Solution
  <2>2. CASE from \notin stop
    <3>1. next[from] \in S /\ next[from] = Next(from) + 2
      BY <1>4, <1>9, <2>2
    <3>2. f[next[from]] \in D
      BY <3>1
    <3>3. QED
      BY <1>10, <1>12, <1>14, <2>2, <3>1, <3>2 DEF Solution
  <2>3. QED
    BY <2>1, <2>2
<1> HIDE DEF Body
<1>16. f = [from \in S |-> Body(f, from)]
  BY <1>15
<1>17. chosen = [from \in S |-> Body(chosen, from)]
  BY <1>16, Zenon
<1> HIDE DEF chosen
<1> DEFINE P == {from \in S : chosen[from] = f[from]}
<1>18. ASSUME NEW from \in S, \A q \in S : m[q] < m[from] => q \in P
       PROVE  from \in P
  <2>1. chosen[from] = Body(chosen, from)
    BY <1>17
  <2>2. CASE from \in stop
    <3>1. Body(chosen, from) = << >> /\ Body(f, from) = << >>
      BY <1>12, <2>2 DEF Body
    <3>2. QED
      BY <1>15, <2>1, <3>1
  <2>3. CASE from \notin stop
    <3>1. Next(from) + 2 \in S /\ m[Next(from) + 2] < m[from]
      BY <1>4, <1>5, <1>9, <2>3
    <3>2. chosen[Next(from) + 2] = f[Next(from) + 2]
      BY <1>18, <3>1
    <3>3. QED
      BY <1>15, <2>1, <3>2 DEF Body
  <2>4. QED
    BY <2>2, <2>3
<1>19. \A from \in S : from \in P
  <2> HIDE DEF P
  <2>1. \A from \in S : (\A q \in S : m[q] < m[from] => q \in P) => from \in P
    BY <1>18
  <2>2. Inductive(S, N, m, P)
    BY <1>3, <2>1 DEF Inductive
  <2>3. QED
    BY <2>2, MeasureInduction
<1>20. IsLines(text, f)
  BY <1>15 DEF IsLines, ByteLineAt, S, Body, Next
<1>21. Lines(text) = chosen[1]
  BY Zenon DEF Lines, chosen, Body, Next, S
<1>22. 1 \in S
  BY <1>1 DEF S
<1>23. QED
  BY <1>14, <1>19, <1>20, <1>21, <1>22 DEF S, D

-----------------------------------------------------------------------------
(* The headers are the lines                                               *)

(* The text ends at its first blank line.                                  *)
EndsAtBlankLine(text) ==
  text # << >> /\ http_find_header_end(text) = Len(text)

(* In such a text CR LF CR LF stands at the end only.                      *)
LEMMA BlankLineIsLast ==
  ASSUME NEW U, NEW text \in Seq(U), EndsAtBlankLine(text),
         NEW i \in ScanRange(text), TerminatorAt(text, i)
  PROVE  i + 3 = Len(text)
<1>1. Len(text) \in Nat /\ Len(text) # 0
  BY LenProperties, EmptySeq DEF EndsAtBlankLine
<1>2. http_request_complete(text)
  BY <1>1 DEF http_request_complete, EndsAtBlankLine
<1>3. PICK f \in ScanRange(text) : IsFirstTerminator(text, f)
  BY <1>2, CompleteHasFirst
<1>4. f + 3 = Len(text)
  BY <1>3, ScanStopsAtFirst DEF EndsAtBlankLine
<1>5. f \in Int /\ i \in Int /\ f <= i /\ i + 3 <= Len(text)
  BY <1>1, <1>3 DEF IsFirstTerminator, ScanRange
<1>6. QED
  BY <1>1, <1>4, <1>5

(* The lines from some position on are the headers from there on, with     *)
(* count of them stored before, and the blank line.                        *)
LinesAre(U, config, count, headers, lines) ==
  /\ Len(lines) = Len(headers) + 1
  /\ lines[Len(headers) + 1] = << >>
  /\ \A k \in 1..Len(headers) : StoredFrom(U, lines[k], headers[k], config)
  /\ headers = << >> \/ count + Len(headers) <= config.http_max_headers

(* So it is from any position behind a CR LF at which the loop succeeds.   *)
Accounts(U, text, config, at, r, lines) ==
  r.result = "OK" /\ at[1] >= 3 /\ LineEnd(text, at[1] - 2) =>
    LinesAre(U, config, at[2], r.headers, lines)

(* At the blank line of the framing nothing is left.                       *)
LEMMA BlankLineAccounts ==
  ASSUME NEW U, NEW text \in Seq(U), EndsAtBlankLine(text),
         NEW lines \in [1..(Len(text) + 1) -> Seq(Seq(U))],
         IsLines(text, lines),
         NEW line \in 1..(Len(text) + 1), line >= 3,
         LineEnd(text, line - 2), BlankLineAt(text, line)
  PROVE  lines[line] = << << >> >>
<1>1. Len(text) \in Nat
  BY LenProperties
<1>2. line < Len(text) /\ LineEnd(text, line)
  BY DEF BlankLineAt, LineEnd
<1>3. line + 1 = Len(text)
  <2>1. line - 2 \in ScanRange(text)
    BY <1>1, <1>2 DEF ScanRange
  <2>2. (line - 2) + 1 = line - 1 /\ (line - 2) + 2 = line
        /\ (line - 2) + 3 = line + 1
    BY <1>1
  <2>3. TerminatorAt(text, line - 2)
    BY <1>2, <2>2 DEF TerminatorAt, LineEnd
  <2>4. (line - 2) + 3 = Len(text)
    BY <2>1, <2>3, BlankLineIsLast
  <2>5. QED
    BY <2>2, <2>4
<1>4. NextCRLF(text, line) = line
  <2> DEFINE end == NextCRLF(text, line)
  <2>1. /\ end \in Nat
        /\ end = 0 => \A i \in line..(Len(text) - 1) : ~LineEnd(text, i)
        /\ end # 0 => /\ end \in line..(Len(text) - 1)
                      /\ \A i \in line..(end - 1) : ~LineEnd(text, i)
    <3>1. line \in Nat \ {0}
      BY <1>1
    <3>2. QED
      BY <3>1, NextLineEnd
  <2> HIDE DEF end
  <2>2. end = line
    BY <1>1, <1>2, <2>1
  <2>3. QED
    BY <2>2 DEF end
<1>5. NextCRLF(text, Len(text) + 1) = 0
  <2> DEFINE from == Len(text) + 1
  <2>1. from \in Nat \ {0} /\ from..(Len(text) - 1) = {}
    BY <1>1
  <2>2. NextCRLF(text, from) # 0 => NextCRLF(text, from) \in from..(Len(text) - 1)
    <3> HIDE DEF from
    <3>1. QED
      BY <2>1, NextLineEnd
  <2>3. QED
    BY <2>1, <2>2
<1>6. line + 2 = Len(text) + 1 /\ line + 2 \in 1..(Len(text) + 1) /\ line # 0
  BY <1>1, <1>3
<1>7. lines[line + 2] = << >>
  BY <1>5, <1>6 DEF IsLines
<1>8. ByteLineAt(text, line) = << >>
  <2>1. SubSeq(text, line, line - 1) = << >>
    <3>1. line - 1 \in (line - 1)..Len(text) /\ (line - 1) - line + 1 = 0
      BY <1>1
    <3>2. /\ SubSeq(text, line, line - 1) \in Seq(U)
          /\ Len(SubSeq(text, line, line - 1)) = 0
      BY <3>1, Piece
    <3>3. QED
      BY <3>2, EmptySeq
  <2>2. QED
    BY <1>4, <2>1 DEF ByteLineAt
<1>9. lines[line] = << << >> >> \o lines[line + 2]
  BY <1>4, <1>6, <1>8 DEF IsLines
<1>10. QED
  BY <1>7, <1>9

(* One header more, and the line it comes from.                            *)
LEMMA HeaderAccounts ==
  ASSUME NEW U, NEW config, NEW count \in Nat, NEW line \in Seq(U), NEW header,
         NEW lines \in Seq(Seq(U)), NEW headers \in Seq(HeaderText(U)),
         config.http_max_headers \in Nat, count < config.http_max_headers,
         StoredFrom(U, line, header, config),
         LinesAre(U, config, count + 1, headers, lines)
  PROVE  LinesAre(U, config, count, << header >> \o headers, << line >> \o lines)
<1> USE DEF LinesAre
<1>0. PICK max \in Nat : max = config.http_max_headers
  OBVIOUS
<1> DEFINE longer == << header >> \o headers
           more == << line >> \o lines
<1>1. header \in HeaderText(U)
  BY DEF StoredFrom
<1>2. PICK n \in Nat : n = Len(headers)
  BY LenProperties
<1>3. /\ Len(longer) = n + 1 /\ longer[1] = header
      /\ \A k \in 1..n : longer[k + 1] = headers[k]
  BY <1>1, <1>2
<1>4. /\ Len(more) = n + 2 /\ more[1] = line
      /\ \A k \in 1..(n + 1) : more[k + 1] = lines[k]
  BY <1>2
<1> HIDE DEF longer, more
<1>5. Len(more) = Len(longer) + 1 /\ more[Len(longer) + 1] = << >>
  <2>1. Len(longer) + 1 = (n + 1) + 1 /\ n + 1 \in 1..(n + 1)
    BY <1>3
  <2>2. more[(n + 1) + 1] = lines[n + 1]
    BY <1>4, <2>1
  <2>3. QED
    BY <1>2, <1>3, <1>4, <2>1, <2>2
<1>6. ASSUME NEW k \in 1..Len(longer)
      PROVE  StoredFrom(U, more[k], longer[k], config)
  <2>1. CASE k = 1
    BY <1>3, <1>4, <2>1
  <2>2. CASE k # 1
    <3>1. PICK j \in 1..n : k = j + 1
      <4>1. k - 1 \in 1..n /\ k = (k - 1) + 1
        BY <1>3, <1>6, <2>2
      <4>2. QED
        BY <4>1
    <3>2. j \in 1..(n + 1) /\ j \in 1..Len(headers)
      BY <1>2
    <3>3. more[k] = lines[j] /\ longer[k] = headers[j]
      BY <1>3, <1>4, <3>1, <3>2
    <3>4. QED
      BY <3>2, <3>3
  <2>3. QED
    BY <2>1, <2>2
<1>7. count + Len(longer) <= max
  <2>1. headers = << >> => n = 0
    BY <1>2
  <2>2. QED
    BY <1>0, <1>2, <1>3, <2>1
<1>8. QED
  BY <1>0, <1>5, <1>6, <1>7 DEF longer, more

(* The accepted headers are the lines of the text between the first one    *)
(* and the blank line at its end.                                          *)
Accounted(U, text, config, headers) ==
  /\ headers \in Seq(HeaderText(U))
  /\ Lines(text) \in Seq(Seq(U))
  /\ Len(Lines(text)) = Len(headers) + 2
  /\ Lines(text)[1] = LineAt(text, 1)
  /\ Lines(text)[Len(headers) + 2] = << >>
  /\ \A k \in 1..Len(headers) :
       StoredFrom(U, Lines(text)[k + 1], headers[k], config)
  /\ Len(headers) <= config.http_max_headers

(* What http_parse_headers accepts accounts for the whole text.            *)
LEMMA LoopAccounts ==
  ASSUME NEW U, NEW text \in Seq(U), EndsAtBlankLine(text),
         NEW config, config.http_max_headers \in Nat,
         FindCRLF(text, 1) # 0,
         http_parse_headers(text, config).result = "OK"
  PROVE  Accounted(U, text, config, http_parse_headers(text, config).headers)
<1> DEFINE S == LoopAt(text)
           N == Len(text) + 1
           m == [at \in S |-> N - at[1]]
           After(at) == << FindCRLF(text, at[1]) + 2, at[2] + 1 >>
           max == config.http_max_headers
<1>1. Len(text) \in Nat /\ N \in Nat
  BY LenProperties
<1>2. PICK loop \in [S -> LoopResult(U)] :
        /\ IsLoop(text, config, loop)
        /\ http_parse_headers(text, config) = loop[<< FindCRLF(text, 1) + 2, 0 >>]
  BY LoopRuns
<1>3. PICK lines \in [1..(Len(text) + 1) -> Seq(Seq(U))] :
        IsLines(text, lines) /\ Lines(text) = lines[1]
  BY LinesRun
<1> DEFINE P == {at \in S : Accounts(U, text, config, at, loop[at], lines[at[1]])}
<1>4. ASSUME NEW at \in S, \A q \in S : m[q] < m[at] => q \in P
      PROVE  Accounts(U, text, config, at, loop[at], lines[at[1]])
  <2> DEFINE line == at[1]
             count == at[2]
             rest == loop[After(at)]
  <2>1. line \in 1..(Len(text) + 1) /\ count \in Nat
    BY DEF LoopAt
  <2>2. loop[at] = ParseHeader(text, config, line, count, rest)
    BY <1>2 DEF IsLoop
  <2>3. SUFFICES ASSUME loop[at].result = "OK", line >= 3, LineEnd(text, line - 2)
                 PROVE  Accounts(U, text, config, at, loop[at], lines[line])
    BY DEF Accounts
  <2> HIDE DEF line, count
  <2>4. CASE Goes(text, config, line, count)
    <3> DEFINE end == FindCRLF(text, line)
               next == << end + 2, count + 1 >>
               header == HeaderLine(LineAt(text, line), config).header
    <3>1. /\ end # 0 /\ count < max
          /\ HeaderLine(LineAt(text, line), config).result = "next"
      BY <2>1, <2>4 DEF Goes, TooMany
    <3>2. /\ end \in line..(Len(text) - 1)
          /\ end + 2 \in (line + 2)..(Len(text) + 1)
          /\ LineAt(text, line) \in Seq(U)
      BY <2>1, <3>1, LineInside
    <3>3. end = NextCRLF(text, line) /\ LineEnd(text, end)
      <4>1. line \in Nat \ {0}
        BY <1>1, <2>1
      <4>2. end = NextCRLF(text, line)
        BY <3>1, <4>1, FoundLineEnd
      <4>3. QED
        BY <3>1, <4>1, <4>2, NextLineEnd
    <3>4. StoredFrom(U, LineAt(text, line), header, config)
      BY <3>1, <3>2, HeaderLineStores
    <3>5. next \in S /\ After(at) = next
      BY <1>1, <2>1, <3>2 DEF LoopAt, line, count
    <3>6. loop[at] = [result |-> loop[next].result,
                      headers |-> << header >> \o loop[next].headers]
      <4>1. rest = loop[next]
        BY <3>5
      <4> HIDE DEF rest, next
      <4>2. ParseHeader(text, config, line, count, rest)
              = [result |-> rest.result, headers |-> << header >> \o rest.headers]
        BY <2>4, IterationGoes
      <4> HIDE DEF header
      <4>3. QED
        BY <2>2, <4>1, <4>2
    <3>7. lines[line] = << LineAt(text, line) >> \o lines[end + 2]
      BY <1>3, <2>1, <3>1, <3>3 DEF IsLines, LineAt, ByteLineAt
    <3> HIDE DEF end, header
    <3>8. m[next] < m[at]
      <4>1. m[next] = N - (end + 2) /\ m[at] = N - line
        BY <3>5 DEF line
      <4>2. QED
        BY <1>1, <2>1, <3>2, <4>1
    <3>9. Accounts(U, text, config, next, loop[next], lines[end + 2])
      <4>1. next \in P
        BY <1>4, <3>5, <3>8
      <4>2. QED
        BY <4>1
    <3>10. /\ loop[next].result = "OK" /\ loop[next] \in LoopResult(U)
           /\ loop[at].headers = << header >> \o loop[next].headers
      BY <2>3, <3>5, <3>6
    <3>11. (end + 2) - 2 = end /\ end + 2 >= 3
      BY <1>1, <2>1, <3>2
    <3>12. PICK l \in Seq(Seq(U)), h \in Seq(HeaderText(U)) :
             l = lines[end + 2] /\ h = loop[next].headers
      <4>1. end + 2 \in 1..(Len(text) + 1)
        BY <1>1, <2>1, <3>2
      <4>2. loop[next].headers \in Seq(HeaderText(U))
        BY <3>10 DEF LoopResult
      <4>3. QED
        BY <4>1, <4>2
    <3>13. LinesAre(U, config, count + 1, h, l)
      BY <3>3, <3>9, <3>10, <3>11, <3>12 DEF Accounts
    <3>14. PICK here \in Seq(U) : here = LineAt(text, line)
      BY <3>2
    <3>15. LinesAre(U, config, count, << header >> \o h, << here >> \o l)
      <4>1. StoredFrom(U, here, header, config)
        BY <3>4, <3>14
      <4>2. QED
        BY <2>1, <3>1, <3>13, <4>1, HeaderAccounts
    <3>16. /\ loop[at].headers = << header >> \o h
           /\ lines[line] = << here >> \o l
      BY <3>7, <3>10, <3>12, <3>14
    <3>17. QED
      BY <3>15, <3>16 DEF Accounts, count
  <2>5. CASE ~Goes(text, config, line, count)
    <3>1. loop[at] =
           [result |->
              IF BlankLineAt(text, line) THEN "OK"
              ELSE IF TooMany(count, config) THEN "HEADERS_TOO_LARGE"
              ELSE IF FindCRLF(text, line) = 0 THEN "BAD_REQUEST"
              ELSE HeaderLine(LineAt(text, line), config).result,
            headers |-> << >>]
      BY <2>2, <2>5, IterationStops
    <3>2. HeaderLine(LineAt(text, line), config).result # "OK"
      BY HeaderLineReads
    <3>3. BlankLineAt(text, line) /\ loop[at].headers = << >>
      BY <2>3, <3>1, <3>2
    <3>4. lines[line] = << << >> >>
      BY <1>3, <2>1, <2>3, <3>3, BlankLineAccounts
    <3>5. QED
      BY <3>3, <3>4 DEF Accounts, LinesAre
  <2>6. QED
    BY <2>4, <2>5 DEF line
<1>5. \A at \in S : at \in P
  <2>1. \A at \in S : (\A q \in S : m[q] < m[at] => q \in P) => at \in P
    BY <1>4
  <2>2. m \in [S -> 0..N]
    <3>1. \A at \in S : at[1] \in 1..(Len(text) + 1)
      BY DEF LoopAt
    <3>2. QED
      BY <1>1, <3>1
  <2> HIDE DEF P, S, m, N
  <2>3. Inductive(S, N, m, P)
    BY <1>1, <2>1, <2>2 DEF Inductive
  <2>4. QED
    BY <2>3, MeasureInduction
<1> DEFINE start == << FindCRLF(text, 1) + 2, 0 >>
           headers == http_parse_headers(text, config).headers
<1>6. 1 \in 1..(Len(text) + 1) /\ 1 \in Nat \ {0}
  BY <1>1
<1>7. /\ FindCRLF(text, 1) \in 1..(Len(text) - 1)
      /\ FindCRLF(text, 1) + 2 \in (1 + 2)..(Len(text) + 1)
  BY <1>6, LineInside
<1>8. FindCRLF(text, 1) = NextCRLF(text, 1)
  BY <1>6, FoundLineEnd
<1>9. LineEnd(text, FindCRLF(text, 1))
  BY <1>6, <1>7, <1>8, NextLineEnd
<1>10. PICK end \in 1..(Len(text) - 1) : end = FindCRLF(text, 1)
  BY <1>7
<1>11. /\ start \in S /\ start[1] = end + 2 /\ start[2] = 0
       /\ end + 2 >= 3 /\ (end + 2) - 2 = end /\ end + 2 \in 1..(Len(text) + 1)
  BY <1>1, <1>7, <1>10 DEF LoopAt
<1>12. /\ loop[start].result = "OK" /\ headers = loop[start].headers
       /\ headers \in Seq(HeaderText(U))
  <2> HIDE DEF start, S
  <2>1. loop[start] \in LoopResult(U)
    BY <1>11
  <2>2. QED
    BY <1>2, <2>1 DEF LoopResult, start
<1>13. Accounts(U, text, config, start, loop[start], lines[end + 2])
  <2>1. start \in P
    BY <1>5, <1>11
  <2> HIDE DEF start
  <2>2. QED
    BY <1>11, <2>1
<1>14. LinesAre(U, config, 0, headers, lines[end + 2])
  <2> HIDE DEF start, headers
  <2>1. QED
    BY <1>9, <1>10, <1>11, <1>12, <1>13 DEF Accounts
<1>15. Lines(text) = << LineAt(text, 1) >> \o lines[end + 2]
  BY <1>3, <1>6, <1>8, <1>10 DEF IsLines, LineAt, ByteLineAt
<1> HIDE DEF headers
<1>16. PICK l \in Seq(Seq(U)), first \in Seq(U), n \in Nat :
         l = lines[end + 2] /\ first = LineAt(text, 1) /\ n = Len(headers)
  <2>1. LineAt(text, 1) \in Seq(U)
    BY <1>6, LineInside
  <2>2. lines[end + 2] \in Seq(Seq(U)) /\ Len(headers) \in Nat
    BY <1>11, <1>12, LenProperties
  <2>3. QED
    BY <2>1, <2>2
<1>17. /\ Lines(text) = << first >> \o l /\ Len(l) = n + 1 /\ l[n + 1] = << >>
       /\ \A k \in 1..n : StoredFrom(U, l[k], headers[k], config)
       /\ headers = << >> \/ 0 + n <= config.http_max_headers
  BY <1>14, <1>15, <1>16 DEF LinesAre
<1>18. /\ Lines(text) \in Seq(Seq(U)) /\ Len(Lines(text)) = n + 2
       /\ Lines(text)[1] = first
       /\ \A k \in 1..(n + 1) : Lines(text)[k + 1] = l[k]
  BY <1>17
<1>19. Lines(text)[n + 2] = << >>
  <2>1. n + 1 \in 1..(n + 1) /\ (n + 1) + 1 = n + 2
    OBVIOUS
  <2>2. QED
    BY <1>17, <1>18, <2>1
<1>20. \A k \in 1..n : StoredFrom(U, Lines(text)[k + 1], headers[k], config)
  <2>1. \A k \in 1..n : k \in 1..(n + 1)
    OBVIOUS
  <2>2. QED
    BY <1>17, <1>18, <2>1
<1>21. n <= config.http_max_headers
  <2>1. headers = << >> => n = 0
    BY <1>16
  <2>2. QED
    BY <1>17, <2>1
<1>22. QED
  BY <1>12, <1>16, <1>18, <1>19, <1>20, <1>21 DEF Accounted, headers

-----------------------------------------------------------------------------
(* Limits                                                                  *)

(* Limits that a text cannot exceed.                                       *)
Wide(text, wide) ==
  /\ wide.http_max_headers \in Nat /\ wide.http_max_headers > Len(text)
  /\ wide.http_header_name_max \in Nat /\ wide.http_header_name_max > Len(text)
  /\ wide.http_header_value_max \in Nat /\ wide.http_header_value_max > Len(text)

(* A header line is judged as without limits, or is too large.             *)
LEMMA HeaderLineLimits ==
  ASSUME NEW U, NEW line \in Seq(U), NEW config, NEW wide, Wide(line, wide)
  PROVE  /\ HeaderLine(line, wide).result # "HEADERS_TOO_LARGE"
         /\ \/ HeaderLine(line, config).result = "HEADERS_TOO_LARGE"
            \/ HeaderLine(line, config) = HeaderLine(line, wide)
<1> DEFINE name == LooseName(line)
           value == Trim(LooseValue(line))
<1>1. Colon(line) # 0 => /\ ~TooLong(name, wide.http_header_name_max)
                         /\ ~TooLong(value, wide.http_header_value_max)
  <2>1. SUFFICES ASSUME Colon(line) # 0
                 PROVE  /\ ~TooLong(name, wide.http_header_name_max)
                        /\ ~TooLong(value, wide.http_header_value_max)
    OBVIOUS
  <2>2. PICK n \in Nat, colon \in 1..Len(line) : n = Len(line) /\ colon = Colon(line)
    BY <2>1, ColonCuts, LenProperties
  <2>3. Len(name) = colon - 1
    BY <2>1, <2>2, ColonCuts
  <2>4. LooseValue(line) \in Seq(U) /\ Len(LooseValue(line)) = n - colon
    BY <2>1, <2>2, ColonCuts
  <2>5. value \in Seq(U) /\ \E lead : TrimmedTo(LooseValue(line), value, lead)
    BY <2>4, TrimStrips
  <2>6. Len(value) \in Nat /\ Len(value) <= n - colon
    <3>1. Len(value) \in Nat
      BY <2>5, LenProperties
    <3>2. PICK lead : lead \in 0..((n - colon) - Len(value))
      BY <2>4, <2>5 DEF TrimmedTo
    <3>3. QED
      BY <3>1, <3>2
  <2> HIDE DEF name, value
  <2>7. QED
    BY <2>2, <2>3, <2>6 DEF TooLong, Wide
<1> HIDE DEF name, value
<1>2. HeaderLine(line, wide) =
        [result |-> HeaderLine(line, wide).result,
         header |-> [name |-> name, value |-> value]]
  BY DEF HeaderLine, name, value, LooseName, LooseValue, Colon
<1>3. HeaderLine(line, config) =
        [result |-> HeaderLine(line, config).result,
         header |-> [name |-> name, value |-> value]]
  BY DEF HeaderLine, name, value, LooseName, LooseValue, Colon
<1>4. HeaderLine(line, wide).result =
        IF \/ Colon(line) = 0 \/ ~http_valid_header_name(name)
           \/ ~http_valid_header_value(value)
        THEN "BAD_REQUEST" ELSE "next"
  BY <1>1, HeaderLineReads DEF name, value
<1>5. \/ HeaderLine(line, config).result = "HEADERS_TOO_LARGE"
      \/ HeaderLine(line, config).result =
        IF \/ Colon(line) = 0 \/ ~http_valid_header_name(name)
           \/ ~http_valid_header_value(value)
        THEN "BAD_REQUEST" ELSE "next"
  BY HeaderLineReads DEF name, value
<1>6. QED
  BY <1>2, <1>3, <1>4, <1>5

(* A result under limits and the one without them.                         *)
LimitedFrom(limited, free) ==
  /\ free.result # "HEADERS_TOO_LARGE"
  /\ limited.result = "HEADERS_TOO_LARGE" \/ limited = free

(* The limits of the command line can only turn what http_parse_headers    *)
(* returns without them into HEADERS_TOO_LARGE.                            *)
LEMMA LoopLimits ==
  ASSUME NEW U, NEW text \in Seq(U), FindCRLF(text, 1) # 0,
         NEW config, NEW wide, Wide(text, wide)
  PROVE  LimitedFrom(http_parse_headers(text, config),
                     http_parse_headers(text, wide))
<1> DEFINE S == LoopAt(text)
           N == Len(text) + 1
           m == [at \in S |-> N - at[1]]
           After(at) == << FindCRLF(text, at[1]) + 2, at[2] + 1 >>
<1>1. Len(text) \in Nat /\ N \in Nat
  BY LenProperties
<1>2. PICK limited \in [S -> LoopResult(U)] :
        /\ IsLoop(text, config, limited)
        /\ http_parse_headers(text, config)
             = limited[<< FindCRLF(text, 1) + 2, 0 >>]
  BY LoopRuns
<1>3. PICK free \in [S -> LoopResult(U)] :
        /\ IsLoop(text, wide, free)
        /\ http_parse_headers(text, wide)
             = free[<< FindCRLF(text, 1) + 2, 0 >>]
  BY LoopRuns
<1> DEFINE P == {at \in S : at[2] < at[1] => LimitedFrom(limited[at], free[at])}
<1>4. ASSUME NEW at \in S, \A q \in S : m[q] < m[at] => q \in P, at[2] < at[1]
      PROVE  LimitedFrom(limited[at], free[at])
  <2> DEFINE line == at[1]
             count == at[2]
             l == limited[After(at)]
             f == free[After(at)]
             end == FindCRLF(text, line)
             here == LineAt(text, line)
  <2>1. line \in 1..(Len(text) + 1) /\ count \in Nat /\ count < line
    BY <1>4 DEF LoopAt
  <2>2. /\ limited[at] = ParseHeader(text, config, line, count, l)
        /\ free[at] = ParseHeader(text, wide, line, count, f)
    BY <1>2, <1>3 DEF IsLoop
  <2>3. ~TooMany(count, wide)
    BY <1>1, <2>1 DEF TooMany, Wide
  <2>4. ASSUME end # 0
        PROVE  /\ HeaderLine(here, wide).result # "HEADERS_TOO_LARGE"
               /\ \/ HeaderLine(here, config).result = "HEADERS_TOO_LARGE"
                  \/ HeaderLine(here, config) = HeaderLine(here, wide)
    <3>1. /\ end \in line..(Len(text) - 1)
          /\ here \in Seq(U) /\ Len(here) = end - line
      BY <2>1, <2>4, LineInside
    <3>2. Len(here) <= Len(text)
      BY <1>1, <2>1, <3>1
    <3> HIDE DEF here, end
    <3>3. Len(here) \in Nat
      BY <3>1, LenProperties
    <3>4. Wide(here, wide)
      BY <1>1, <3>2, <3>3 DEF Wide
    <3>5. QED
      BY <3>1, <3>4, HeaderLineLimits
  <2>5. ASSUME end # 0, HeaderLine(here, wide).result = "next", ~BlankLineAt(text, line)
        PROVE  LimitedFrom(l, f)
    <3>1. end + 2 \in (line + 2)..(Len(text) + 1)
      BY <2>1, <2>5, LineInside
    <3> HIDE DEF end
    <3> DEFINE next == << end + 2, count + 1 >>
    <3>2. next \in S /\ After(at) = next /\ next[2] < next[1]
      BY <1>1, <2>1, <3>1 DEF LoopAt, end
    <3>3. m[next] < m[at]
      <4>1. m[next] = N - (end + 2) /\ m[at] = N - line
        BY <3>2
      <4>2. QED
        BY <1>1, <2>1, <3>1, <4>1
    <3>4. LimitedFrom(limited[next], free[next])
      <4> HIDE DEF next, m
      <4>1. next \in P
        BY <1>4, <3>2, <3>3
      <4>2. QED
        BY <3>2, <4>1
    <3> HIDE DEF next, After
    <3>5. QED
      BY <3>2, <3>4
  <2> HIDE DEF line, count, l, f, end, here
  <2>6. free[at] = IF BlankLineAt(text, line)
                   THEN [result |-> "OK", headers |-> << >>]
                   ELSE IF end = 0
                   THEN [result |-> "BAD_REQUEST", headers |-> << >>]
                   ELSE IF HeaderLine(here, wide).result # "next"
                   THEN [result |-> HeaderLine(here, wide).result,
                         headers |-> << >>]
                   ELSE [result |-> f.result,
                         headers |-> << HeaderLine(here, wide).header >>
                                       \o f.headers]
    BY <2>2, <2>3 DEF ParseHeader, end, here, LineAt
  <2>7. limited[at] =
                   IF BlankLineAt(text, line)
                   THEN [result |-> "OK", headers |-> << >>]
                   ELSE IF TooMany(count, config)
                   THEN [result |-> "HEADERS_TOO_LARGE", headers |-> << >>]
                   ELSE IF end = 0
                   THEN [result |-> "BAD_REQUEST", headers |-> << >>]
                   ELSE IF HeaderLine(here, config).result # "next"
                   THEN [result |-> HeaderLine(here, config).result,
                         headers |-> << >>]
                   ELSE [result |-> l.result,
                         headers |-> << HeaderLine(here, config).header >>
                                       \o l.headers]
    BY <2>2 DEF ParseHeader, end, here, LineAt
  <2>8. CASE BlankLineAt(text, line) \/ TooMany(count, config) \/ end = 0
    <3>1. free[at].result # "HEADERS_TOO_LARGE"
      <4>1. CASE BlankLineAt(text, line) \/ end = 0
        BY <2>6, <4>1
      <4>2. CASE ~BlankLineAt(text, line) /\ end # 0
        <5>1. CASE HeaderLine(here, wide).result # "next"
          BY <2>4, <2>6, <4>2, <5>1
        <5>2. CASE HeaderLine(here, wide).result = "next"
          BY <2>5, <2>6, <4>2, <5>2 DEF LimitedFrom
        <5>3. QED
          BY <5>1, <5>2
      <4>3. QED
        BY <4>1, <4>2
    <3>2. limited[at].result = "HEADERS_TOO_LARGE" \/ limited[at] = free[at]
      BY <2>6, <2>7, <2>8
    <3>3. QED
      BY <3>1, <3>2 DEF LimitedFrom
  <2>9. CASE ~BlankLineAt(text, line) /\ ~TooMany(count, config) /\ end # 0
    <3>1. CASE HeaderLine(here, wide).result # "next"
      <4>1. /\ free[at] = [result |-> HeaderLine(here, wide).result, headers |-> << >>]
            /\ HeaderLine(here, config).result # "next" =>
                 limited[at] = [result |-> HeaderLine(here, config).result,
                                headers |-> << >>]
        BY <2>6, <2>7, <2>9, <3>1
      <4>2. QED
        BY <2>4, <2>9, <3>1, <4>1 DEF LimitedFrom
    <3>2. CASE HeaderLine(here, wide).result = "next"
      <4>1. LimitedFrom(l, f)
        BY <2>5, <2>9, <3>2
      <4>2. free[at] = [result |-> f.result,
                        headers |-> << HeaderLine(here, wide).header >> \o f.headers]
        BY <2>6, <2>9, <3>2
      <4>3. CASE HeaderLine(here, config).result = "HEADERS_TOO_LARGE"
        <5>1. limited[at].result = "HEADERS_TOO_LARGE"
          BY <2>7, <2>9, <4>3
        <5>2. QED
          BY <4>1, <4>2, <5>1 DEF LimitedFrom
      <4>4. CASE HeaderLine(here, config) = HeaderLine(here, wide)
        <5>1. limited[at] = [result |-> l.result,
                 headers |-> << HeaderLine(here, wide).header >> \o l.headers]
          BY <2>7, <2>9, <3>2, <4>4
        <5>2. l = f => limited[at] = free[at]
          BY <4>2, <5>1
        <5>3. limited[at].result = l.result /\ free[at].result = f.result
          BY <4>2, <5>1
        <5>4. QED
          BY <4>1, <5>2, <5>3 DEF LimitedFrom
      <4>5. QED
        BY <2>4, <2>9, <4>3, <4>4
    <3>3. QED
      BY <3>1, <3>2
  <2>10. QED
    BY <2>8, <2>9
<1>5. \A at \in S : at \in P
  <2>1. \A at \in S : (\A q \in S : m[q] < m[at] => q \in P) => at \in P
    BY <1>4
  <2>2. m \in [S -> 0..N]
    <3>1. \A at \in S : at[1] \in 1..(Len(text) + 1)
      BY DEF LoopAt
    <3>2. QED
      BY <1>1, <3>1
  <2> HIDE DEF P, S, m, N
  <2>3. Inductive(S, N, m, P)
    BY <1>1, <2>1, <2>2 DEF Inductive
  <2>4. QED
    BY <2>3, MeasureInduction
<1> DEFINE start == << FindCRLF(text, 1) + 2, 0 >>
<1>6. start \in S /\ start[2] < start[1]
  <2>1. 1 \in 1..(Len(text) + 1)
    BY <1>1
  <2>2. FindCRLF(text, 1) + 2 \in (1 + 2)..(Len(text) + 1)
    BY <2>1, LineInside
  <2>3. QED
    BY <1>1, <2>2 DEF LoopAt
<1>7. LimitedFrom(limited[start], free[start])
  <2>1. start \in P
    BY <1>5, <1>6
  <2> HIDE DEF start
  <2>2. QED
    BY <1>6, <2>1
<1>8. QED
  BY <1>2, <1>3, <1>7

-----------------------------------------------------------------------------
(* The request line                                                        *)

(* line is a method, a target and a version with one SP between them.      *)
CutInto(U, line, r) ==
  /\ line \in Seq(U)
  /\ r.method \in Seq(U) /\ r.target \in Seq(U) /\ r.version \in Seq(U)
  /\ Len(r.method) \in 1..(METHOD_SIZE - 1)
  /\ Len(r.target) \in 1..(TARGET_SIZE - 1)
  /\ Len(r.version) \in 1..(VERSION_SIZE - 1)
  /\ \A i \in 1..Len(r.method) : http_is_tchar(r.method[i])
  /\ Len(line) = Len(r.method) + Len(r.target) + Len(r.version) + 2
  /\ \A i \in 1..Len(r.method) : line[i] = r.method[i]
  /\ line[Len(r.method) + 1] = "SP"
  /\ \A i \in 1..Len(r.target) : line[Len(r.method) + 1 + i] = r.target[i]
  /\ SubSeq(line, Len(r.method) + 2, Len(line) - Len(r.version) - 1) = r.target
  /\ line[Len(line)] = r.version[Len(r.version)]

(* The sizes of the arrays are numbers.                                    *)
LEMMA Sizes ==
  /\ METHOD_SIZE \in Nat /\ TARGET_SIZE \in Nat /\ PATH_SIZE \in Nat
  /\ HTTP_QUERY_MAX \in Nat /\ VERSION_SIZE \in Nat
BY SizesAssumption

(* A SP that memchr finds.                                                 *)
LEMMA SpaceStands ==
  ASSUME NEW s, NEW from, NEW end, from \in Nat \ {0}, end \in Int,
         FindUnit(s, "SP", from, end) # 0
  PROVE  /\ FindUnit(s, "SP", from, end) \in from..(end - 1)
         /\ s[FindUnit(s, "SP", from, end)] = "SP"
BY FoundUnit, Zenon

(* A request line that is accepted is cut at its two SP.                   *)
LEMMA RequestLineCuts ==
  ASSUME NEW U, NEW text \in Seq(U), http_parse_request_line(text).ok
  PROVE  /\ FindCRLF(text, 1) # 0
         /\ CutInto(U, LineAt(text, 1), http_parse_request_line(text))
<1> DEFINE r == http_parse_request_line(text)
           End == FindCRLF(text, 1)
           First == FindUnit(text, "SP", 1, End)
           Second == FindUnit(text, "SP", First + 1, End)
<1>1. /\ End # 0 /\ First # 0 /\ Second # 0
      /\ r.method = SubSeq(text, 1, First - 1)
      /\ r.target = SubSeq(text, First + 1, Second - 1)
      /\ r.version = SubSeq(text, Second + 1, End - 1)
      /\ Len(r.method) \in 1..(METHOD_SIZE - 1)
      /\ \A i \in DOMAIN r.method : http_is_tchar(r.method[i])
      /\ Len(r.target) \in 1..(TARGET_SIZE - 1)
      /\ Len(r.version) \in 1..(VERSION_SIZE - 1)
  BY DEF http_parse_request_line
<1> HIDE DEF r
<1>2. PICK n \in Nat : n = Len(text)
  BY LenProperties
<1>3. PICK end \in 1..(n - 1) : end = End
  <2>1. 1 \in 1..(Len(text) + 1)
    BY <1>2
  <2>2. QED
    BY <1>1, <1>2, <2>1, LineInside
<1> HIDE DEF End
<1>4. PICK first \in 1..(end - 1) : first = First /\ text[first] = "SP"
  <2>1. /\ 1 \in Nat \ {0} /\ end \in Int
        /\ First = FindUnit(text, "SP", 1, end) /\ First # 0
    BY <1>1, <1>2, <1>3
  <2>2. QED
    BY <2>1, SpaceStands
<1> HIDE DEF First
<1>5. PICK second \in (first + 1)..(end - 1) :
        second = Second /\ text[second] = "SP"
  <2> DEFINE from == first + 1
  <2>1. from \in Nat \ {0} /\ end \in Int
    BY <1>2
  <2>2. Second = FindUnit(text, "SP", from, end)
    BY <1>3, <1>4
  <2> HIDE DEF Second, from
  <2>3. Second \in from..(end - 1) /\ text[Second] = "SP"
    <3>1. Second # 0
      BY <1>1
    <3>2. QED
      BY <2>1, <2>2, <3>1, SpaceStands
  <2>4. QED
    BY <2>3 DEF from
<1> HIDE DEF Second
<1> DEFINE line == LineAt(text, 1)
<1>6. line = SubSeq(text, 1, end - 1)
  BY <1>3 DEF LineAt, End
<1> HIDE DEF line
<1>7. /\ line \in Seq(U) /\ Len(line) = end - 1
      /\ \A i \in 1..(end - 1) : line[i] = text[i]
  <2>1. /\ 1 \in 1..(Len(text) + 1) /\ end - 1 \in (1 - 1)..Len(text)
        /\ end - 1 - 1 + 1 = end - 1 /\ \A i \in 1..(end - 1) : 1 + i - 1 = i
    BY <1>2
  <2>2. QED
    BY <1>6, <2>1, Piece
<1>8. /\ r.method \in Seq(U) /\ Len(r.method) = first - 1
      /\ DOMAIN r.method = 1..(first - 1)
      /\ \A i \in 1..(first - 1) : r.method[i] = text[i]
  <2>1. /\ 1 \in 1..(Len(text) + 1) /\ first - 1 \in (1 - 1)..Len(text)
        /\ first - 1 - 1 + 1 = first - 1
        /\ \A i \in 1..(first - 1) : 1 + i - 1 = i
    BY <1>2
  <2>2. r.method = SubSeq(text, 1, first - 1)
    BY <1>1, <1>4
  <2>3. QED
    BY <2>1, <2>2, Piece
<1>9. /\ r.target \in Seq(U) /\ Len(r.target) = second - first - 1
      /\ \A i \in 1..(second - first - 1) : r.target[i] = text[first + i]
  <2>1. /\ first + 1 \in 1..(Len(text) + 1)
        /\ second - 1 \in (first + 1 - 1)..Len(text)
        /\ second - 1 - (first + 1) + 1 = second - first - 1
        /\ \A i \in 1..(second - first - 1) : (first + 1) + i - 1 = first + i
    BY <1>2
  <2>2. r.target = SubSeq(text, first + 1, second - 1)
    BY <1>1, <1>4, <1>5
  <2>3. QED
    BY <2>1, <2>2, Piece
<1>10. /\ r.version \in Seq(U) /\ Len(r.version) = end - second - 1
       /\ \A i \in 1..(end - second - 1) : r.version[i] = text[second + i]
  <2>1. /\ second + 1 \in 1..(Len(text) + 1)
        /\ end - 1 \in (second + 1 - 1)..Len(text)
        /\ end - 1 - (second + 1) + 1 = end - second - 1
        /\ \A i \in 1..(end - second - 1) : (second + 1) + i - 1 = second + i
    BY <1>2
  <2>2. r.version = SubSeq(text, second + 1, end - 1)
    BY <1>1, <1>3, <1>5
  <2>3. QED
    BY <2>1, <2>2, Piece
<1>11. Len(line) = Len(r.method) + Len(r.target) + Len(r.version) + 2
  BY <1>7, <1>8, <1>9, <1>10
<1>12. /\ \A i \in 1..Len(r.method) : line[i] = r.method[i]
       /\ line[Len(r.method) + 1] = "SP"
  <2>1. \A i \in 1..(first - 1) : i \in 1..(end - 1)
    OBVIOUS
  <2>2. Len(r.method) + 1 = first /\ first \in 1..(end - 1)
    BY <1>8
  <2>3. QED
    BY <1>4, <1>7, <1>8, <2>1, <2>2
<1>13. \A i \in 1..Len(r.target) : line[Len(r.method) + 1 + i] = r.target[i]
  <2>1. ASSUME NEW i \in 1..Len(r.target)
        PROVE  line[Len(r.method) + 1 + i] = r.target[i]
    <3>1. /\ i \in 1..(second - first - 1) /\ first + i \in 1..(end - 1)
          /\ Len(r.method) + 1 + i = first + i
      BY <1>8, <1>9
    <3>2. QED
      BY <1>7, <1>9, <3>1
  <2>2. QED
    BY <2>1
<1>14. SubSeq(line, Len(r.method) + 2, Len(line) - Len(r.version) - 1) = r.target
  <2>1. /\ Len(r.method) + 2 = first + 1
        /\ Len(line) - Len(r.version) - 1 = second - 1
    BY <1>7, <1>8, <1>10
  <2> DEFINE piece == SubSeq(line, first + 1, second - 1)
  <2>2. /\ piece \in Seq(U) /\ Len(piece) = second - first - 1
        /\ \A i \in 1..(second - first - 1) : piece[i] = line[(first + 1) + i - 1]
    <3>1. /\ first + 1 \in 1..(Len(line) + 1)
          /\ second - 1 \in (first + 1 - 1)..Len(line)
          /\ second - 1 - (first + 1) + 1 = second - first - 1
      BY <1>7
    <3>2. QED
      BY <1>7, <3>1, Piece
  <2> HIDE DEF piece
  <2>3. ASSUME NEW i \in 1..(second - first - 1)
        PROVE  piece[i] = r.target[i]
    <3>1. (first + 1) + i - 1 = first + i /\ first + i \in 1..(end - 1)
      OBVIOUS
    <3>2. QED
      BY <1>7, <1>9, <2>2, <3>1
  <2>4. piece = r.target
    BY <1>9, <2>2, <2>3, SeqEqual
  <2>5. QED
    BY <2>1, <2>4 DEF piece
<1>15. line[Len(line)] = r.version[Len(r.version)]
  <2>1. /\ end - second - 1 \in 1..(end - second - 1)
        /\ second + (end - second - 1) = end - 1 /\ end - 1 \in 1..(end - 1)
    BY <1>1, <1>10, Sizes
  <2>2. QED
    BY <1>7, <1>10, <2>1
<1>16. CutInto(U, line, r)
  BY <1>1, <1>7, <1>8, <1>9, <1>10, <1>11, <1>12, <1>13, <1>14, <1>15 DEF CutInto
<1>17. QED
  BY <1>1, <1>16 DEF line, r, End

-----------------------------------------------------------------------------
(* Nobody finds a body                                                     *)

(* No reader takes the request line for a header.                          *)
LEMMA RequestLineNamesNothing ==
  ASSUME NEW U, NEW line, NEW r, CutInto(U, line, r), r.target[1] = "/", NEW word
  PROVE  ~IsWord(LooseName(line), word)
<1>1. PICK m \in Nat \ {0}, n \in Nat, t \in Nat \ {0} :
        m = Len(r.method) /\ n = Len(line) /\ t = Len(r.target)
  <2>1. /\ Len(r.method) \in 1..(METHOD_SIZE - 1) /\ line \in Seq(U)
        /\ Len(r.target) \in 1..(TARGET_SIZE - 1)
    BY DEF CutInto
  <2>2. Len(r.method) \in Nat \ {0} /\ Len(r.target) \in Nat \ {0}
    BY <2>1, Sizes
  <2>3. QED
    BY <2>1, <2>2, LenProperties
<1>2. /\ line \in Seq(U)
      /\ \A i \in 1..m : line[i] = r.method[i] /\ http_is_tchar(r.method[i])
      /\ line[m + 1] = "SP"
      /\ \A i \in 1..t : line[m + 1 + i] = r.target[i]
  BY <1>1 DEF CutInto
<1>3. line[m + 2] = "/"
  <2>1. 1 \in 1..t /\ m + 1 + 1 = m + 2
    OBVIOUS
  <2>2. QED
    BY <1>2, <2>1
<1>4. \A i \in 1..m : line[i] # ":" /\ line[i] \notin Blank
  BY <1>2 DEF http_is_tchar, Separators, Control, Blank
<1>5. CASE Colon(line) = 0
  <2>1. LooseName(line) = << >>
    <3>1. LooseName(line) = SubSeq(line, 1, 0 - 1)
      BY <1>5 DEF LooseName
    <3>2. SubSeq(line, 1, 0 - 1) = << >>
      BY <1>2
    <3>3. QED
      BY <3>1, <3>2
  <2>2. QED
    BY <2>1 DEF IsWord
<1>6. CASE Colon(line) # 0
  <2>1. PICK colon \in 1..n : colon = Colon(line)
    BY <1>1, <1>2, <1>6, ColonCuts
  <2>2. line[colon] = ":"
    BY <1>2, <1>6, <2>1, ColonCuts
  <2>3. PICK name \in Seq(U) : name = LooseName(line)
    BY <1>2, <1>6, ColonCuts
  <2>4. Len(name) = colon - 1 /\ \A i \in 1..(colon - 1) : name[i] = line[i]
    BY <1>2, <1>6, <2>1, <2>3, ColonCuts
  <2>5. DOMAIN name = 1..(colon - 1)
    BY <2>3, <2>4, LenProperties
  <2>6. colon \notin 1..m /\ colon # m + 1 /\ colon # m + 2
    BY <1>2, <1>3, <1>4, <2>2
  <2>7. /\ 1 \in 1..(colon - 1) /\ m + 2 \in 1..(colon - 1) /\ 1 \in 1..m
        /\ m + 2 # 1
    BY <2>6
  <2>8. name[1] \notin Blank /\ name[m + 2] \notin Blank
    BY <1>3, <1>4, <2>4, <2>7 DEF Blank
  <2>9. ~IsWord(name, word)
    BY <2>5, <2>7, <2>8 DEF IsWord
  <2>10. QED
    BY <2>3, <2>9
<1>7. QED
  BY <1>5, <1>6

(* Nor the blank line.                                                     *)
LEMMA BlankLineNamesNothing ==
  ASSUME NEW word
  PROVE  ~IsWord(LooseName(<< >>), word)
<1>1. PICK U : TRUE
  OBVIOUS
<1>2. << >> \in Seq(U) /\ Len(<< >>) = 0
  OBVIOUS
<1>3. Colon(<< >>) = 0
  <2>1. Colon(<< >>) # 0 => Colon(<< >>) \in 1..Len(<< >>)
    BY <1>2, ColonCuts
  <2>2. QED
    BY <1>2, <2>1
<1>4. LooseName(<< >>) = << >>
  BY <1>3 DEF LooseName
<1>5. QED
  BY <1>4 DEF IsWord

(* A line that some reader takes for a header with a certain name is       *)
(* stored with that name.                                                  *)
LEMMA NameIsStored ==
  ASSUME NEW U, NEW line, NEW header, NEW config, NEW word,
         StoredFrom(U, line, header, config), IsWord(LooseName(line), word)
  PROVE  header.name = << word >>
<1>1. PICK name \in Seq(U) : name = header.name
  BY DEF StoredFrom, HeaderText
<1>2. /\ IsWord(name, word) /\ \A i \in DOMAIN name : http_is_tchar(name[i])
  BY <1>1 DEF StoredFrom, http_valid_header_name
<1>3. PICK n \in Nat : n = Len(name) /\ DOMAIN name = 1..n
  BY LenProperties
<1>4. PICK i \in 1..n : name[i] = word /\ \A j \in (1..n) \ {i} : name[j] \in Blank
  BY <1>2, <1>3 DEF IsWord
<1>5. \A j \in 1..n : name[j] \notin Blank
  BY <1>2, <1>3 DEF http_is_tchar, Control, Separators, Blank
<1>6. \A j \in 1..n : j = i
  BY <1>4, <1>5
<1>7. i = 1 /\ n = 1
  <2>1. 1 \in 1..n /\ n \in 1..n
    BY <1>4
  <2>2. QED
    BY <1>6, <2>1
<1>8. /\ << word >> \in Seq(U) /\ Len(<< word >>) = 1
      /\ name[1] = << word >>[1]
  <2>1. word \in U
    BY <1>3, <1>4, ElementOfSeq
  <2>2. QED
    BY <1>4, <1>7, <2>1
<1>9. \A j \in 1..1 : name[j] = << word >>[j]
  BY <1>8
<1>10. name = << word >>
  BY <1>3, <1>7, <1>8, <1>9, SeqEqual
<1>11. QED
  BY <1>1, <1>10

(* A stored Content-Length of zero is written with zeros only.             *)
LEMMA ZeroIsWritten ==
  ASSUME NEW U, NEW line \in Seq(U), NEW header, NEW config,
         StoredFrom(U, line, header, config), DenotesZero(header.value)
  PROVE  AllZeros(LooseValue(line))
<1>1. Colon(line) # 0 /\ header.value \in Seq(U)
  BY DEF StoredFrom, HeaderText
<1>2. PICK value \in Seq(U), rest \in Seq(U) :
        value = header.value /\ rest = LooseValue(line)
  BY <1>1, ColonCuts
<1>3. PICK lead : TrimmedTo(rest, value, lead)
  BY <1>2 DEF StoredFrom
<1>4. PICK n \in Nat, size \in Nat :
        /\ n = Len(rest) /\ DOMAIN rest = 1..n
        /\ size = Len(value) /\ DOMAIN value = 1..size
  BY LenProperties
<1>5. /\ lead \in 0..(n - size)
      /\ \A i \in 1..lead : rest[i] \in Blank
      /\ \A i \in 1..size : value[i] = rest[lead + i]
      /\ \A i \in (lead + size + 1)..n : rest[i] \in Blank
  BY <1>3, <1>4 DEF TrimmedTo
<1>6. value # << >> /\ \A i \in 1..size : value[i] = "0"
  BY <1>2, <1>4 DEF DenotesZero
<1>7. size # 0
  BY <1>4, <1>6, EmptySeq
<1>8. \A i \in 1..size : rest[lead + i] = "0"
  BY <1>5, <1>6
<1>9. lead + 1 \in 1..n /\ rest[lead + 1] = "0"
  BY <1>5, <1>7, <1>8
<1>10. ASSUME NEW i \in 1..n
       PROVE  rest[i] \in Blank \cup {"0"}
  <2>1. CASE i <= lead
    BY <1>5, <2>1
  <2>2. CASE i > lead + size
    BY <1>5, <2>2
  <2>3. CASE lead < i /\ i <= lead + size
    <3>1. PICK j \in 1..size : i = lead + j
      <4>1. i - lead \in 1..size /\ i = lead + (i - lead)
        BY <1>5, <2>3
      <4>2. QED
        BY <4>1
    <3>2. QED
      BY <1>8, <3>1
  <2>4. QED
    BY <1>5, <2>1, <2>2, <2>3
<1>11. AllZeros(rest)
  BY <1>4, <1>9, <1>10 DEF AllZeros
<1>12. QED
  BY <1>2, <1>11

(* A word with blanks around it is stored as that word, and nothing else   *)
(* is.                                                                     *)
LEMMA WordIsWritten ==
  ASSUME NEW U, NEW line \in Seq(U), NEW header, NEW config,
         StoredFrom(U, line, header, config), NEW word, word \notin Blank
  PROVE  IsWord(LooseValue(line), word) <=> header.value = << word >>
<1>1. Colon(line) # 0 /\ header.value \in Seq(U)
  BY DEF StoredFrom, HeaderText
<1>2. PICK value \in Seq(U), rest \in Seq(U) :
        value = header.value /\ rest = LooseValue(line)
  BY <1>1, ColonCuts
<1>3. PICK lead : TrimmedTo(rest, value, lead)
  BY <1>2 DEF StoredFrom
<1>4. PICK n \in Nat, size \in Nat :
        /\ n = Len(rest) /\ DOMAIN rest = 1..n
        /\ size = Len(value) /\ DOMAIN value = 1..size
  BY LenProperties
<1>5. /\ lead \in 0..(n - size)
      /\ \A i \in 1..lead : rest[i] \in Blank
      /\ \A i \in 1..size : value[i] = rest[lead + i]
      /\ \A i \in (lead + size + 1)..n : rest[i] \in Blank
  BY <1>3, <1>4 DEF TrimmedTo
<1>6. size # 0 => value[1] \notin Blank /\ value[size] \notin Blank
  BY <1>2, <1>4, EmptySeq DEF StoredFrom, Stripped
<1>7. ASSUME IsWord(rest, word)
      PROVE  value = << word >>
  <2>1. PICK p \in 1..n :
          rest[p] = word /\ \A j \in (1..n) \ {p} : rest[j] \in Blank
    BY <1>4, <1>7 DEF IsWord
  <2>2. p > lead /\ p <= lead + size
    BY <1>5, <2>1
  <2>3. size # 0 /\ 1 \in 1..size /\ size \in 1..size
    BY <1>5, <2>2
  <2>4. lead + 1 = p
    <3>1. lead + 1 \in 1..n /\ rest[lead + 1] \notin Blank
      BY <1>5, <1>6, <2>3
    <3>2. QED
      BY <2>1, <3>1
  <2>5. lead + size = p
    <3>1. lead + size \in 1..n /\ rest[lead + size] \notin Blank
      BY <1>5, <1>6, <2>3
    <3>2. QED
      BY <2>1, <3>1
  <2>6. size = 1
    BY <1>5, <2>4, <2>5
  <2>7. value[1] = word /\ word \in U
    <3>1. value[1] = word
      BY <1>5, <2>1, <2>3, <2>4
    <3>2. QED
      BY <1>4, <2>3, <3>1, ElementOfSeq
  <2>8. << word >> \in Seq(U) /\ Len(<< word >>) = 1 /\ << word >>[1] = word
    BY <2>7
  <2>9. \A j \in 1..1 : value[j] = << word >>[j]
    BY <2>7, <2>8
  <2>10. QED
    BY <1>4, <2>6, <2>8, <2>9, SeqEqual
<1>8. ASSUME value = << word >>
      PROVE  IsWord(rest, word)
  <2>1. size = 1 /\ value[1] = word
    BY <1>4, <1>8
  <2>2. lead + 1 \in 1..n /\ rest[lead + 1] = word
    BY <1>5, <2>1
  <2>3. \A j \in (1..n) \ {lead + 1} : rest[j] \in Blank
    BY <1>5, <2>1
  <2>4. QED
    BY <1>4, <2>2, <2>3 DEF IsWord
<1>9. QED
  BY <1>2, <1>7, <1>8

(* The lines that somebody takes for a certain header are the headers with *)
(* that name.                                                              *)
LEMMA NamedLines ==
  ASSUME NEW U, NEW text, NEW config, NEW r, NEW line,
         Accounted(U, text, config, r.headers),
         CutInto(U, Lines(text)[1], line), line.target[1] = "/", NEW word
  PROVE  /\ \A k \in LinesNamed(text, word) :
              /\ k \in Nat /\ k - 1 \in DOMAIN r.headers
              /\ r.headers[k - 1].name = << word >>
              /\ StoredFrom(U, Lines(text)[k], r.headers[k - 1], config)
         /\ \A i \in DOMAIN r.headers :
              r.headers[i].name = << word >>
                => i \in Nat /\ i + 1 \in LinesNamed(text, word)
<1>1. PICK headers : headers = r.headers
  OBVIOUS
<1>2. PICK n \in Nat : n = Len(headers) /\ DOMAIN headers = 1..n
  <2>1. headers \in Seq(HeaderText(U))
    BY <1>1 DEF Accounted
  <2>2. QED
    BY <2>1, LenProperties
<1>3. PICK lines \in Seq(Seq(U)) : lines = Lines(text)
  BY DEF Accounted
<1>4. /\ Len(lines) = n + 2 /\ DOMAIN lines = 1..(n + 2)
      /\ lines[n + 2] = << >>
      /\ \A k \in 1..n : StoredFrom(U, lines[k + 1], headers[k], config)
  BY <1>1, <1>2, <1>3, LenProperties DEF Accounted
<1>5. ASSUME NEW k \in LinesNamed(text, word)
      PROVE  /\ k \in Nat /\ k - 1 \in 1..n
             /\ headers[k - 1].name = << word >>
             /\ StoredFrom(U, lines[k], headers[k - 1], config)
  <2>1. k \in 1..(n + 2) /\ IsWord(LooseName(lines[k]), word)
    BY <1>3, <1>4, <1>5 DEF LinesNamed
  <2>2. k # 1
    <3>1. ~IsWord(LooseName(lines[1]), word)
      BY <1>3, RequestLineNamesNothing
    <3>2. QED
      BY <2>1, <3>1
  <2>3. k # n + 2
    <3>1. ~IsWord(LooseName(lines[n + 2]), word)
      BY <1>4, BlankLineNamesNothing
    <3>2. QED
      BY <2>1, <3>1
  <2>4. PICK j \in 1..n : k = j + 1
    <3>1. k - 1 \in 1..n /\ k = (k - 1) + 1
      BY <2>1, <2>2, <2>3
    <3>2. QED
      BY <3>1
  <2>5. StoredFrom(U, lines[k], headers[j], config)
    BY <1>4, <2>4
  <2>6. headers[j].name = << word >>
    BY <2>1, <2>5, NameIsStored
  <2>7. k - 1 = j /\ k \in Nat
    BY <2>1, <2>4
  <2>8. QED
    BY <2>5, <2>6, <2>7
<1>6. ASSUME NEW i \in 1..n, headers[i].name = << word >>
      PROVE  i \in Nat /\ i + 1 \in LinesNamed(text, word)
  <2>1. LooseName(lines[i + 1]) = << word >>
    BY <1>4, <1>6 DEF StoredFrom
  <2>2. IsWord(<< word >>, word)
    <3>1. DOMAIN << word >> = {1} /\ << word >>[1] = word
      OBVIOUS
    <3>2. QED
      BY <3>1 DEF IsWord
  <2>3. i \in Nat /\ i + 1 \in DOMAIN lines
    BY <1>4
  <2>4. QED
    BY <1>3, <2>1, <2>2, <2>3 DEF LinesNamed
<1>7. QED
  BY <1>1, <1>2, <1>3, <1>5, <1>6

(* A text in which the server found no body has none for anybody.          *)
LEMMA NoBodyForAnybody ==
  ASSUME NEW U, NEW text, NEW config, NEW r, NEW line,
         Accounted(U, text, config, r.headers),
         CutInto(U, Lines(text)[1], line), line.target[1] = "/",
         HasNoBody(r)
  PROVE  ~MayHaveBody(text)
<1>1. PICK headers : headers = r.headers
  OBVIOUS
<1>2. PICK n \in Nat : n = Len(headers) /\ DOMAIN headers = 1..n
  <2>1. headers \in Seq(HeaderText(U))
    BY <1>1 DEF Accounted
  <2>2. QED
    BY <2>1, LenProperties
<1>3. PICK lines \in Seq(Seq(U)) : lines = Lines(text)
  BY DEF Accounted
<1>4. /\ Len(lines) = n + 2 /\ DOMAIN lines = 1..(n + 2)
      /\ lines[n + 2] = << >>
      /\ \A k \in 1..n : StoredFrom(U, lines[k + 1], headers[k], config)
  BY <1>1, <1>2, <1>3, LenProperties DEF Accounted
<1>5. ASSUME NEW word, NEW k \in LinesNamed(text, word)
      PROVE  /\ k \in Nat /\ k - 1 \in 1..n
             /\ headers[k - 1].name = << word >>
             /\ StoredFrom(U, lines[k], headers[k - 1], config)
  <2>1. \A j \in LinesNamed(text, word) :
          /\ j \in Nat /\ j - 1 \in DOMAIN r.headers
          /\ r.headers[j - 1].name = << word >>
          /\ StoredFrom(U, Lines(text)[j], r.headers[j - 1], config)
    BY NamedLines, Zenon
  <2>2. QED
    BY <1>1, <1>2, <1>3, <2>1
<1>6. /\ \A i \in 1..n : headers[i].name # << "Transfer-Encoding" >>
      /\ \A i, j \in 1..n :
           /\ headers[i].name = << "Content-Length" >>
           /\ headers[j].name = << "Content-Length" >>
           => i = j /\ DenotesZero(headers[i].value)
  BY <1>1, <1>2 DEF HasNoBody
<1>7. LinesNamed(text, "Transfer-Encoding") = {}
  <2>1. SUFFICES ASSUME NEW k \in LinesNamed(text, "Transfer-Encoding")
                 PROVE  FALSE
    OBVIOUS
  <2>2. k - 1 \in 1..n /\ headers[k - 1].name = << "Transfer-Encoding" >>
    BY <1>5, <2>1, Zenon
  <2>3. QED
    BY <1>6, <2>2
<1>8. ASSUME NEW j \in LinesNamed(text, "Content-Length"),
             NEW k \in LinesNamed(text, "Content-Length")
      PROVE  j = k /\ AllZeros(LooseValue(lines[k]))
  <2>1. /\ j \in Nat /\ j - 1 \in 1..n
        /\ headers[j - 1].name = << "Content-Length" >>
    BY <1>5, <1>8, Zenon
  <2>2. /\ k \in Nat /\ k - 1 \in 1..n
        /\ headers[k - 1].name = << "Content-Length" >>
        /\ StoredFrom(U, lines[k], headers[k - 1], config)
    BY <1>5, <1>8, Zenon
  <2>3. j - 1 = k - 1 /\ DenotesZero(headers[k - 1].value)
    BY <1>6, <2>1, <2>2
  <2>4. lines[k] \in Seq(U)
    <3>1. k \in Nat /\ k - 1 \in 1..n
      BY <2>2
    <3>2. Len(lines) = n + 2
      BY <1>4
    <3>3. k \in 1..Len(lines)
      BY <3>1, <3>2
    <3>4. QED
      BY <3>3, ElementOfSeq
  <2>5. AllZeros(LooseValue(lines[k]))
    BY <2>2, <2>3, <2>4, ZeroIsWritten
  <2>6. QED
    BY <2>1, <2>2, <2>3, <2>5
<1>9. QED
  BY <1>3, <1>7, <1>8 DEF MayHaveBody

-----------------------------------------------------------------------------
(* The target and the type of its path                                     *)

(* The path is the target up to its first "?", the query what follows.     *)
LEMMA TargetCuts ==
  ASSUME NEW U, NEW target \in Seq(U)
  PROVE  LET path == TargetPath(target)
         IN  /\ path \in Seq(U) /\ Len(path) <= Len(target)
             /\ path = SubSeq(target, 1, Len(path))
             /\ \A i \in 1..Len(path) : path[i] = target[i] /\ path[i] # "?"
             /\ \/ target = path /\ TargetQuery(target) = << >>
                \/ target = path \o << "?" >> \o TargetQuery(target)
<1> DEFINE mark == FindUnit(target, "?", 1, Len(target) + 1)
           path == TargetPath(target)
           query == TargetQuery(target)
<1>1. PICK n \in Nat : n = Len(target)
  BY LenProperties
<1>2. /\ mark \in Nat
      /\ mark = 0 => \A i \in 1..n : target[i] # "?"
      /\ mark # 0 => /\ mark \in 1..n /\ target[mark] = "?"
                     /\ \A i \in 1..(mark - 1) : target[i] # "?"
  <2>1. PICK c : c = "?"
    OBVIOUS
  <2>2. PICK end \in Int : end = Len(target) + 1 /\ end - 1 = n
    BY <1>1
  <2>3. mark = FindUnit(target, c, 1, end) /\ 1 \in Nat \ {0}
    BY <2>1, <2>2
  <2> HIDE DEF mark
  <2>4. /\ mark \in Nat
        /\ mark = 0 => \A i \in 1..(end - 1) : target[i] # c
        /\ mark # 0 => /\ mark \in 1..(end - 1) /\ target[mark] = c
                       /\ \A i \in 1..(mark - 1) : target[i] # c
    <3>1. LET at == FindUnit(target, c, 1, end)
          IN  /\ at \in Nat
              /\ at = 0 => \A i \in 1..(end - 1) : target[i] # c
              /\ at # 0 => /\ at \in 1..(end - 1) /\ target[at] = c
                           /\ \A i \in 1..(at - 1) : target[i] # c
      BY <2>3, FoundUnit, ZenonT(40)
    <3>2. QED
      BY <2>3, <3>1, Zenon
  <2>5. QED
    BY <2>1, <2>2, <2>4
<1>3. CASE mark = 0
  <2>1. path = target /\ query = << >>
    BY <1>3 DEF TargetPath, TargetQuery
  <2> HIDE DEF mark, path, query
  <2>2. target = SubSeq(target, 1, Len(target))
    BY SubSeqFull
  <2>3. QED
    BY <1>1, <1>2, <1>3, <2>1, <2>2 DEF path, query
<1>4. CASE mark # 0
  <2>1. path = SubSeq(target, 1, mark - 1) /\ query = SubSeq(target, mark + 1, n)
    BY <1>1, <1>4 DEF TargetPath, TargetQuery
  <2>2. PICK k \in 1..n : k = mark
    BY <1>2, <1>4
  <2> HIDE DEF mark, path, query
  <2>3. /\ path \in Seq(U) /\ Len(path) = k - 1
        /\ \A i \in 1..(k - 1) : path[i] = target[i]
    <3>1. /\ 1 \in 1..(Len(target) + 1) /\ k - 1 \in (1 - 1)..Len(target)
          /\ k - 1 - 1 + 1 = k - 1 /\ \A i \in 1..(k - 1) : 1 + i - 1 = i
      BY <1>1
    <3>2. path = SubSeq(target, 1, k - 1)
      BY <2>1, <2>2
    <3>3. QED
      BY <3>1, <3>2, Piece
  <2>4. target[k] = "?" /\ \A i \in 1..(k - 1) : path[i] # "?"
    BY <1>2, <1>4, <2>2, <2>3
  <2>5. target = path \o << "?" >> \o query
    <3>1. SubSeq(target, 1, k) \o SubSeq(target, k + 1, n) = target
      BY <1>1, CutAndJoin
    <3>2. /\ SubSeq(target, 1, k) \in Seq(U) /\ Len(SubSeq(target, 1, k)) = k
          /\ \A i \in 1..k : SubSeq(target, 1, k)[i] = target[i]
      <4>1. /\ 1 \in 1..(Len(target) + 1) /\ k \in (1 - 1)..Len(target)
            /\ k - 1 + 1 = k /\ \A i \in 1..k : 1 + i - 1 = i
        BY <1>1
      <4>2. QED
        BY <4>1, Piece
    <3>3. "?" \in U
      BY <1>1, <2>4, ElementOfSeq
    <3>4. /\ path \o << "?" >> \in Seq(U) /\ Len(path \o << "?" >>) = k
          /\ \A i \in 1..k : (path \o << "?" >>)[i]
               = IF i <= k - 1 THEN path[i] ELSE "?"
      BY <2>3, <3>3
    <3>5. \A i \in 1..k : SubSeq(target, 1, k)[i] = (path \o << "?" >>)[i]
      BY <2>3, <2>4, <3>2, <3>4
    <3>6. SubSeq(target, 1, k) = path \o << "?" >>
      BY <3>2, <3>4, <3>5, SeqEqual
    <3>7. QED
      BY <2>1, <2>2, <3>1, <3>6
  <2>6. path = SubSeq(target, 1, Len(path)) /\ Len(path) <= Len(target)
    BY <1>1, <2>1, <2>2, <2>3
  <2>7. QED
    BY <2>3, <2>4, <2>5, <2>6 DEF path, query
<1>5. QED
  BY <1>3, <1>4

(* The type of a path is decided by what follows its last slash.           *)
LEMMA TypeIgnoresDirectories ==
  ASSUME NEW U, NEW path \in Seq(U), NEW slash \in 1..Len(path),
         path[slash] = "/"
  PROVE  LET name == SubSeq(path, slash + 1, Len(path))
         IN  mime_type(path) =
               IF Len(name) >= 2 /\ name[Len(name) - 1] = "."
                  /\ name[Len(name)] \in DOMAIN KnownTypes
               THEN KnownTypes[name[Len(name)]]
               ELSE OctetStream
<1> DEFINE name == SubSeq(path, slash + 1, Len(path))
           dots == {i \in DOMAIN path : path[i] = "."}
           Dot == CHOOSE i \in dots : \A j \in dots : j <= i
<1>1. PICK n \in Nat : n = Len(path) /\ DOMAIN path = 1..n
  BY LenProperties
<1>2. /\ Len(name) = n - slash
      /\ \A i \in 1..(n - slash) : name[i] = path[slash + i]
  <2>1. /\ slash + 1 \in 1..(Len(path) + 1) /\ n \in (slash + 1 - 1)..Len(path)
        /\ n - (slash + 1) + 1 = n - slash
        /\ \A i \in 1..(n - slash) : (slash + 1) + i - 1 = slash + i
    BY <1>1
  <2>2. QED
    BY <1>1, <2>1, Piece
<1> HIDE DEF name
<1>3. \A i \in (slash + 1)..n : name[i - slash] = path[i]
  <2>1. ASSUME NEW i \in (slash + 1)..n
        PROVE  name[i - slash] = path[i]
    <3>1. i - slash \in 1..(n - slash) /\ slash + (i - slash) = i
      OBVIOUS
    <3>2. QED
      BY <1>2, <3>1
  <2>2. QED
    BY <2>1
<1>4. "." \notin DOMAIN KnownTypes /\ "/" \notin DOMAIN KnownTypes
  BY DEF KnownTypes
<1>5. CASE dots = {}
  <2>1. Extension(path) = << >>
    BY <1>5 DEF Extension
  <2>2. mime_type(path) = OctetStream
    BY <2>1 DEF mime_type
  <2>3. ~(Len(name) >= 2 /\ name[Len(name) - 1] = ".")
    <3>1. SUFFICES ASSUME Len(name) >= 2 PROVE name[Len(name) - 1] # "."
      OBVIOUS
    <3>2. n - 1 \in (slash + 1)..n /\ (n - 1) - slash = Len(name) - 1
      BY <1>2, <3>1
    <3>3. name[Len(name) - 1] = path[n - 1]
      BY <1>3, <3>2
    <3>4. n - 1 \notin dots /\ n - 1 \in 1..n
      BY <1>5, <3>2
    <3>5. QED
      BY <1>1, <3>3, <3>4
  <2>4. QED
    BY <2>2, <2>3 DEF name
<1>6. CASE dots # {}
  <2>1. dots \in SUBSET (1..n)
    BY <1>1
  <2>2. \E i \in dots : \A j \in dots : j <= i
    <3> HIDE DEF dots
    <3>1. QED
      BY <1>6, <2>1, LastPosition
  <2>3. PICK dot \in 1..n : dot = Dot /\ dot \in dots /\ \A j \in dots : j <= dot
    BY <2>1, <2>2
  <2>4. Extension(path) = SubSeq(path, dot + 1, n)
    BY <1>1, <1>6, <2>3 DEF Extension
  <2>5. path[dot] = "." /\ \A i \in 1..n : path[i] = "." => i <= dot
    BY <1>1, <2>3
  <2> HIDE DEF dots, Dot
  <2>6. /\ Len(Extension(path)) = n - dot
        /\ dot # n => Extension(path)[1] = path[dot + 1]
    <3> DEFINE extension == SubSeq(path, dot + 1, n)
    <3>1. /\ dot + 1 \in 1..(Len(path) + 1) /\ n \in (dot + 1 - 1)..Len(path)
          /\ n - (dot + 1) + 1 = n - dot
          /\ (dot + 1) + 1 - 1 = dot + 1
      BY <1>1
    <3>2. /\ Len(extension) = n - dot
          /\ \A i \in 1..(n - dot) : extension[i] = path[(dot + 1) + i - 1]
      BY <3>1, Piece
    <3> HIDE DEF extension
    <3>3. dot # n => 1 \in 1..(n - dot)
      OBVIOUS
    <3>4. dot # n => extension[1] = path[dot + 1]
      BY <3>1, <3>2, <3>3
    <3>5. QED
      BY <2>4, <3>2, <3>4 DEF extension
  <2>7. mime_type(path) = IF dot = n - 1 /\ path[n] \in DOMAIN KnownTypes
                          THEN KnownTypes[path[n]] ELSE OctetStream
    <3>1. Len(Extension(path)) = 1 <=> dot = n - 1
      BY <2>6
    <3>2. dot = n - 1 => Extension(path)[1] = path[n]
      BY <2>6
    <3>3. QED
      BY <3>1, <3>2 DEF mime_type
  <2>8. Len(name) >= 2 => /\ name[Len(name) - 1] = path[n - 1]
                          /\ name[Len(name)] = path[n]
    <3>1. SUFFICES ASSUME Len(name) >= 2
                   PROVE  /\ name[Len(name) - 1] = path[n - 1]
                          /\ name[Len(name)] = path[n]
      OBVIOUS
    <3>2. /\ n - 1 \in (slash + 1)..n /\ (n - 1) - slash = Len(name) - 1
          /\ n \in (slash + 1)..n /\ n - slash = Len(name)
      BY <1>2, <3>1
    <3>3. QED
      BY <1>3, <3>2
  <2>9. (dot = n - 1 /\ path[n] \in DOMAIN KnownTypes)
          <=> (Len(name) >= 2 /\ name[Len(name) - 1] = "."
               /\ name[Len(name)] \in DOMAIN KnownTypes)
    <3>1. ASSUME dot = n - 1, path[n] \in DOMAIN KnownTypes
          PROVE  Len(name) >= 2 /\ name[Len(name) - 1] = "."
                 /\ name[Len(name)] \in DOMAIN KnownTypes
      <4>1. slash # n /\ slash # n - 1
        BY <1>4, <2>5, <3>1
      <4>2. Len(name) >= 2
        BY <1>1, <1>2, <4>1
      <4>3. QED
        BY <2>5, <2>8, <3>1, <4>2
    <3>2. ASSUME Len(name) >= 2, name[Len(name) - 1] = ".",
                 name[Len(name)] \in DOMAIN KnownTypes
          PROVE  dot = n - 1 /\ path[n] \in DOMAIN KnownTypes
      <4>1. path[n - 1] = "." /\ path[n] \in DOMAIN KnownTypes
        BY <2>8, <3>2
      <4>2. n - 1 \in 1..n /\ n \in 1..n
        BY <1>1, <1>2, <3>2
      <4>3. dot # n /\ n - 1 <= dot
        BY <1>4, <2>5, <4>1, <4>2
      <4>4. QED
        BY <4>1, <4>3
    <3>3. QED
      BY <3>1, <3>2
  <2>10. QED
    <3>1. Len(name) >= 2 => name[Len(name)] = path[n]
      BY <2>8
    <3>2. QED
      BY <2>7, <2>9, <3>1 DEF name
<1>7. QED
  BY <1>5, <1>6

-----------------------------------------------------------------------------
(* Decoding                                                                *)

(* The units a decoded path may hold.                                      *)
Decodable(U) == U \cup {NUL} \cup {UnitOfByte(value) : value \in Int}

(* The escape at a position is cut off or has a digit that is not hex.     *)
Malformed(encoded, src) ==
  \/ src + 2 > Len(encoded)
  \/ ~IsHex(encoded[src + 1]) \/ ~IsHex(encoded[src + 2])

(* The loop of http_decode_path goes on behind what stands at a position.  *)
DecodesOn(encoded, src) ==
  src <= Len(encoded) /\ (encoded[src] = "%" => ~Malformed(encoded, src))

Width(encoded, src) == IF encoded[src] = "%" THEN 3 ELSE 1

Denoted(encoded, src) ==
  IF encoded[src] = "%"
  THEN UnitOfByte(16 * http_hex_value(encoded[src + 1])
                  + http_hex_value(encoded[src + 2]))
  ELSE encoded[src]

(* A function that gives what is decoded from every position on.           *)
IsDecoding(encoded, from) ==
  \A src \in 1..(Len(encoded) + 1) :
    from[src] = IF DecodesOn(encoded, src)
                THEN << Denoted(encoded, src) >>
                       \o from[src + Width(encoded, src)]
                ELSE IF src > Len(encoded) THEN << >> ELSE << NUL >>

(* The hex digits have values.                                             *)
LEMMA HexValue ==
  ASSUME NEW c, IsHex(c)
  PROVE  http_hex_value(c) \in 0..15
BY DEF IsHex, http_hex_value

(* What a position denotes, and where the loop goes from there.            *)
LEMMA DecodingStep ==
  ASSUME NEW U, NEW encoded \in Seq(U), NEW src \in 1..(Len(encoded) + 1),
         DecodesOn(encoded, src)
  PROVE  /\ Denoted(encoded, src) \in Decodable(U)
         /\ src + Width(encoded, src) \in (src + 1)..(Len(encoded) + 1)
<1>1. Len(encoded) \in Nat /\ src \in 1..Len(encoded)
  BY LenProperties DEF DecodesOn
<1>2. CASE encoded[src] = "%"
  <2>1. /\ src + 2 <= Len(encoded)
        /\ IsHex(encoded[src + 1]) /\ IsHex(encoded[src + 2])
    BY <1>1, <1>2 DEF DecodesOn, Malformed
  <2>2. PICK a \in 0..15, b \in 0..15 :
          a = http_hex_value(encoded[src + 1])
          /\ b = http_hex_value(encoded[src + 2])
    BY <2>1, HexValue
  <2>3. 16 * a + b \in Int
    OBVIOUS
  <2>4. Denoted(encoded, src) = UnitOfByte(16 * a + b)
    BY <1>2, <2>2 DEF Denoted
  <2>5. Denoted(encoded, src) \in Decodable(U)
    BY <2>3, <2>4 DEF Decodable
  <2>6. QED
    BY <1>1, <1>2, <2>1, <2>5 DEF Width
<1>3. CASE encoded[src] # "%"
  <2>1. encoded[src] \in U
    BY <1>1, ElementOfSeq
  <2>2. QED
    BY <1>1, <1>3, <2>1 DEF Width, Denoted, Decodable
<1>4. QED
  BY <1>2, <1>3

(* The loop of http_decode_path ends: the recursion has a solution.        *)
LEMMA DecodingRuns ==
  ASSUME NEW U, NEW encoded \in Seq(U)
  PROVE  \E from \in [1..(Len(encoded) + 1) -> Seq(Decodable(U))] :
           IsDecoding(encoded, from) /\ DecodedBytes(encoded) = from[1]
<1> DEFINE S == 1..(Len(encoded) + 1)
           D == Seq(Decodable(U))
           N == Len(encoded) + 1
           Body(f, src) ==
             IF src > Len(encoded) THEN << >>
             ELSE IF encoded[src] # "%" THEN << encoded[src] >> \o f[src + 1]
             ELSE IF src + 2 > Len(encoded) THEN << NUL >>
             ELSE IF ~IsHex(encoded[src + 1]) \/ ~IsHex(encoded[src + 2])
                  THEN << NUL >>
             ELSE << UnitOfByte(16 * http_hex_value(encoded[src + 1])
                                + http_hex_value(encoded[src + 2])) >>
                  \o f[src + 3]
           On(src) == DecodesOn(encoded, src)
           Unit(src) == Denoted(encoded, src)
           Last(src) == IF src > Len(encoded) THEN << >> ELSE << NUL >>
           Then(src) == src + Width(encoded, src)
           m == [src \in S |-> N - src]
           stop == {src \in S : ~On(src)}
           next == [src \in S \ stop |-> Then(src)]
           base == [src \in stop |-> Last(src)]
           comb == [q \in (S \ stop) \X D |-> << Unit(q[1]) >> \o q[2]]
           chosen == CHOOSE f : f = [src \in S |-> Body(f, src)]
<1>1. Len(encoded) \in Nat /\ N \in Nat
  BY LenProperties
<1>2. ASSUME NEW f, NEW src \in S
      PROVE  Body(f, src) = IF On(src) THEN << Unit(src) >> \o f[Then(src)]
                            ELSE Last(src)
  <2>1. CASE src > Len(encoded)
    BY <1>1, <2>1 DEF DecodesOn
  <2>2. CASE ~(src > Len(encoded)) /\ encoded[src] # "%"
    <3>1. On(src) /\ Unit(src) = encoded[src] /\ Then(src) = src + 1
      BY <1>1, <2>2 DEF DecodesOn, Denoted, Width
    <3>2. QED
      BY <2>2, <3>1
  <2>3. CASE ~(src > Len(encoded)) /\ encoded[src] = "%" /\ Malformed(encoded, src)
    <3>1. ~On(src) /\ Last(src) = << NUL >> /\ Body(f, src) = << NUL >>
      BY <1>1, <2>3 DEF DecodesOn, Malformed
    <3> HIDE DEF Body, On, Last
    <3>2. QED
      BY <3>1
  <2>4. CASE ~(src > Len(encoded)) /\ encoded[src] = "%" /\ ~Malformed(encoded, src)
    <3>1. /\ On(src) /\ Then(src) = src + 3
          /\ Unit(src) = UnitOfByte(16 * http_hex_value(encoded[src + 1])
                                    + http_hex_value(encoded[src + 2]))
      BY <1>1, <2>4 DEF DecodesOn, Denoted, Width
    <3>2. Body(f, src) = << UnitOfByte(16 * http_hex_value(encoded[src + 1])
                                       + http_hex_value(encoded[src + 2])) >>
                           \o f[src + 3]
      BY <2>4 DEF Malformed
    <3> HIDE DEF Body, On, Last, Unit, Then
    <3>3. QED
      BY <3>1, <3>2
  <2> HIDE DEF Body, On, Last, Unit, Then
  <2>5. QED
    BY <2>1, <2>2, <2>3, <2>4
<1>3. ASSUME NEW src \in S, On(src)
      PROVE  Unit(src) \in Decodable(U) /\ Then(src) \in S /\ Then(src) > src
  <2>1. Unit(src) \in Decodable(U) /\ Then(src) \in (src + 1)..(Len(encoded) + 1)
    BY <1>3, DecodingStep
  <2> HIDE DEF Then, Unit
  <2>2. QED
    BY <1>1, <2>1
<1>4. \A src \in S : Last(src) \in D
  <2>1. NUL \in Decodable(U)
    BY DEF Decodable
  <2>2. << >> \in D /\ << NUL >> \in D
    BY <2>1
  <2>3. QED
    BY <2>2
<1> HIDE DEF Body, On, Unit, Last, Then
<1>5. /\ N \in Nat /\ m \in [S -> 0..N] /\ stop \in SUBSET S
  BY <1>1
<1>6. next \in [S \ stop -> S]
  BY <1>3
<1>7. \A src \in S \ stop : m[next[src]] < m[src]
  <2>1. ASSUME NEW src \in S \ stop
        PROVE  m[next[src]] < m[src]
    <3>1. Then(src) \in S /\ Then(src) > src /\ next[src] = Then(src)
      BY <1>3
    <3> HIDE DEF next, stop
    <3>2. m[next[src]] = N - Then(src) /\ m[src] = N - src
      BY <3>1
    <3>3. QED
      BY <1>1, <3>1, <3>2
  <2>2. QED
    BY <2>1
<1>8. base \in [stop -> D]
  BY <1>4
<1>9. ASSUME NEW src \in S \ stop, NEW r \in D
      PROVE  << Unit(src) >> \o r \in D
  <2>1. Unit(src) \in Decodable(U)
    BY <1>3
  <2>2. QED
    BY <2>1
<1>10. comb \in [(S \ stop) \X D -> D]
  BY <1>9
<1>11. \A src \in S \ stop : next[src] = Then(src)
  OBVIOUS
<1>12. \A src \in S \ stop, r \in D : comb[<< src, r >>] = << Unit(src) >> \o r
  OBVIOUS
<1>13. \A src \in stop : base[src] = Last(src)
  OBVIOUS
<1>14. \A src \in S : src \in stop <=> ~On(src)
  OBVIOUS
<1> HIDE DEF S, D, N, m, stop, next, base, comb
<1>15. Recursion(S, D, N, m, stop, next, base, comb)
  BY <1>5, <1>6, <1>7, <1>8, <1>10 DEF Recursion
<1>16. PICK f \in [S -> D] : Solution(f, S, stop, next, base, comb)
  BY <1>15, RecursionExists
<1>17. ASSUME NEW src \in S
       PROVE  f[src] = IF On(src) THEN << Unit(src) >> \o f[Then(src)]
                       ELSE Last(src)
  <2>1. CASE src \in stop
    BY <1>13, <1>14, <1>16, <2>1 DEF Solution
  <2>2. CASE src \notin stop
    <3>1. next[src] \in S /\ next[src] = Then(src)
      BY <1>6, <1>11, <2>2
    <3>2. f[next[src]] \in D
      BY <3>1
    <3>3. QED
      BY <1>12, <1>14, <1>16, <2>2, <3>1, <3>2 DEF Solution
  <2>3. QED
    BY <2>1, <2>2
<1>18. \A src \in S : f[src] = Body(f, src)
  BY <1>2, <1>17
<1>19. f = [src \in S |-> Body(f, src)]
  BY <1>18
<1>20. chosen = [src \in S |-> Body(chosen, src)]
  BY <1>19, Zenon
<1> HIDE DEF chosen
<1> DEFINE P == {src \in S : chosen[src] = f[src]}
<1>21. ASSUME NEW src \in S, \A q \in S : m[q] < m[src] => q \in P
       PROVE  src \in P
  <2>1. chosen[src] = IF On(src) THEN << Unit(src) >> \o chosen[Then(src)]
                      ELSE Last(src)
    <3>1. chosen[src] = Body(chosen, src)
      BY <1>20
    <3>2. QED
      BY <1>2, <3>1
  <2>2. CASE ~On(src)
    BY <1>17, <2>1, <2>2
  <2>3. CASE On(src)
    <3>1. Then(src) \in S /\ m[Then(src)] < m[src]
      BY <1>6, <1>7, <1>11, <1>14, <2>3
    <3>2. chosen[Then(src)] = f[Then(src)]
      BY <1>21, <3>1
    <3>3. QED
      BY <1>17, <2>1, <2>3, <3>2
  <2>4. QED
    BY <2>2, <2>3
<1>22. \A src \in S : src \in P
  <2> HIDE DEF P
  <2>1. \A src \in S : (\A q \in S : m[q] < m[src] => q \in P) => src \in P
    BY <1>21
  <2>2. Inductive(S, N, m, P)
    BY <1>5, <2>1 DEF Inductive
  <2>3. QED
    BY <2>2, MeasureInduction
<1>23. IsDecoding(encoded, f)
  BY <1>17 DEF IsDecoding, S, On, Unit, Last, Then
<1>24. DecodedBytes(encoded) = chosen[1]
  BY Zenon DEF DecodedBytes, chosen, Body, S
<1>25. 1 \in S
  BY <1>1 DEF S
<1>26. QED
  BY <1>16, <1>22, <1>23, <1>24, <1>25 DEF S, D

(* The piece between two positions denotes a unit.                         *)
Denotes(encoded, from, to, unit) ==
  LET piece == SubSeq(encoded, from, to - 1)
  IN  \/ Len(piece) = 1 /\ piece[1] # "%" /\ unit = piece[1]
      \/ /\ Len(piece) = 3 /\ piece[1] = "%"
         /\ IsHex(piece[2]) /\ IsHex(piece[3])
         /\ unit = UnitOfByte(16 * http_hex_value(piece[2])
                              + http_hex_value(piece[3]))

(* What is decoded from a position on is cut as Decodes cuts it.           *)
CutsFrom(encoded, src, decoded, start) ==
  /\ start \in [1..(Len(decoded) + 1) -> 1..(Len(encoded) + 1)]
  /\ start[1] = src /\ start[Len(decoded) + 1] = Len(encoded) + 1
  /\ \A i \in DOMAIN decoded :
       Denotes(encoded, start[i], start[i + 1], decoded[i])

(* Each step of the loop takes one such piece.                             *)
LEMMA StepDenotes ==
  ASSUME NEW U, NEW encoded \in Seq(U), NEW src \in 1..(Len(encoded) + 1),
         DecodesOn(encoded, src)
  PROVE  Denotes(encoded, src, src + Width(encoded, src), Denoted(encoded, src))
<1>1. PICK n \in Nat : n = Len(encoded)
  BY LenProperties
<1>2. src \in 1..n
  BY <1>1 DEF DecodesOn
<1>3. CASE encoded[src] = "%"
  <2>1. /\ src + 2 <= n
        /\ IsHex(encoded[src + 1]) /\ IsHex(encoded[src + 2])
    BY <1>1, <1>2, <1>3 DEF DecodesOn, Malformed
  <2>2. PICK piece \in Seq(U) : piece = SubSeq(encoded, src, src + 2)
    <3>1. src + 2 \in (src - 1)..Len(encoded)
      BY <1>1, <1>2, <2>1
    <3>2. QED
      BY <3>1, Piece
  <2>3. /\ Len(piece) = 3 /\ piece[1] = encoded[src]
        /\ piece[2] = encoded[src + 1] /\ piece[3] = encoded[src + 2]
    <3>1. /\ src + 2 \in (src - 1)..Len(encoded) /\ (src + 2) - src + 1 = 3
          /\ 1 \in 1..3 /\ 2 \in 1..3 /\ 3 \in 1..3
          /\ src + 1 - 1 = src /\ src + 2 - 1 = src + 1 /\ src + 3 - 1 = src + 2
      BY <1>1, <1>2, <2>1
    <3>2. /\ Len(piece) = 3
          /\ \A i \in 1..3 : piece[i] = encoded[src + i - 1]
      BY <2>2, <3>1, Piece
    <3>3. QED
      BY <3>1, <3>2
  <2>4. (src + Width(encoded, src)) - 1 = src + 2
    BY <1>2, <1>3 DEF Width
  <2>5. Denoted(encoded, src) = UnitOfByte(16 * http_hex_value(piece[2])
                                           + http_hex_value(piece[3]))
    BY <1>3, <2>3 DEF Denoted
  <2>6. QED
    BY <1>3, <2>1, <2>2, <2>3, <2>4, <2>5 DEF Denotes
<1>4. CASE encoded[src] # "%"
  <2>1. PICK piece \in Seq(U) : piece = SubSeq(encoded, src, src)
    <3>1. src \in (src - 1)..Len(encoded)
      BY <1>1, <1>2
    <3>2. QED
      BY <3>1, Piece
  <2>2. Len(piece) = 1 /\ piece[1] = encoded[src]
    <3>1. /\ src \in (src - 1)..Len(encoded) /\ src - src + 1 = 1
          /\ 1 \in 1..1 /\ src + 1 - 1 = src
      BY <1>1, <1>2
    <3>2. Len(piece) = 1 /\ \A i \in 1..1 : piece[i] = encoded[src + i - 1]
      BY <2>1, <3>1, Piece
    <3>3. QED
      BY <3>1, <3>2
  <2>3. (src + Width(encoded, src)) - 1 = src
    BY <1>2, <1>4 DEF Width
  <2>4. QED
    BY <1>4, <2>1, <2>2, <2>3 DEF Denotes, Denoted
<1>5. QED
  BY <1>3, <1>4

(* One piece more in front.                                                *)
LEMMA OnePieceMore ==
  ASSUME NEW n \in Nat, NEW W, NEW rest \in Seq(W), NEW unit \in W, NEW encoded,
         NEW src \in 1..(n + 1), NEW next, n = Len(encoded),
         NEW start, CutsFrom(encoded, next, rest, start),
         Denotes(encoded, src, next, unit)
  PROVE  \E longer : CutsFrom(encoded, src, << unit >> \o rest, longer)
<1> DEFINE decoded == << unit >> \o rest
<1>1. PICK k \in Nat : k = Len(rest) /\ DOMAIN rest = 1..k
  BY LenProperties
<1>2. /\ Len(decoded) = k + 1 /\ DOMAIN decoded = 1..(k + 1)
      /\ decoded[1] = unit /\ \A i \in 1..k : decoded[i + 1] = rest[i]
  BY <1>1
<1>3. /\ start \in [1..(k + 1) -> 1..(n + 1)]
      /\ start[1] = next /\ start[k + 1] = n + 1
      /\ \A i \in 1..k : Denotes(encoded, start[i], start[i + 1], rest[i])
  BY <1>1 DEF CutsFrom
<1> HIDE DEF decoded
<1> DEFINE longer == [i \in 1..(k + 2) |-> IF i = 1 THEN src ELSE start[i - 1]]
<1>4. /\ longer \in [1..(k + 2) -> 1..(n + 1)] /\ longer[1] = src
      /\ \A i \in 1..(k + 1) : longer[i + 1] = start[i]
  <2>1. ASSUME NEW i \in 1..(k + 1)
        PROVE  longer[i + 1] = start[i]
    <3>1. i + 1 \in 1..(k + 2) /\ i + 1 # 1 /\ (i + 1) - 1 = i
      OBVIOUS
    <3>2. QED
      BY <3>1
  <2>2. \A i \in 1..(k + 2) : i # 1 => i - 1 \in 1..(k + 1)
    OBVIOUS
  <2>3. longer \in [1..(k + 2) -> 1..(n + 1)] /\ longer[1] = src
    BY <1>3, <2>2
  <2>4. QED
    BY <2>1, <2>3
<1> HIDE DEF longer
<1>5. longer[k + 2] = n + 1
  <2>1. k + 1 \in 1..(k + 1) /\ (k + 1) + 1 = k + 2
    OBVIOUS
  <2>2. QED
    BY <1>3, <1>4, <2>1
<1>6. ASSUME NEW i \in 1..(k + 1)
      PROVE  Denotes(encoded, longer[i], longer[i + 1], decoded[i])
  <2>1. CASE i = 1
    <3>1. longer[1] = src /\ longer[1 + 1] = next /\ decoded[1] = unit
      <4>1. 1 \in 1..(k + 1)
        OBVIOUS
      <4>2. QED
        BY <1>2, <1>3, <1>4, <4>1
    <3>2. QED
      BY <2>1, <3>1
  <2>2. CASE i # 1
    <3>1. PICK j \in 1..k : i = j + 1
      <4>1. i - 1 \in 1..k /\ i = (i - 1) + 1
        BY <2>2
      <4>2. QED
        BY <4>1
    <3>2. j \in 1..(k + 1) /\ j + 1 \in 1..(k + 1)
      OBVIOUS
    <3>3. /\ longer[i] = start[j] /\ longer[i + 1] = start[j + 1]
          /\ decoded[i] = rest[j]
      BY <1>2, <1>4, <3>1, <3>2
    <3>4. QED
      BY <1>3, <3>3
  <2>3. QED
    BY <2>1, <2>2
<1>7. (k + 1) + 1 = k + 2
  OBVIOUS
<1>8. CutsFrom(encoded, src, decoded, longer)
  BY <1>2, <1>4, <1>5, <1>6, <1>7 DEF CutsFrom
<1>9. QED
  BY <1>8 DEF decoded

(* What is decoded without a NUL is the path decoded once.                 *)
LEMMA DecodedOnce ==
  ASSUME NEW U, NEW encoded \in Seq(U),
         \A i \in DOMAIN DecodedBytes(encoded) : DecodedBytes(encoded)[i] # NUL
  PROVE  /\ DecodedBytes(encoded) \in Seq(Decodable(U))
         /\ Decodes(encoded, DecodedBytes(encoded))
<1> DEFINE S == 1..(Len(encoded) + 1)
           W == Decodable(U)
           N == Len(encoded) + 1
           m == [src \in S |-> N - src]
<1>1. PICK n \in Nat : n = Len(encoded)
  BY LenProperties
<1>2. PICK from \in [S -> Seq(W)] :
        IsDecoding(encoded, from) /\ DecodedBytes(encoded) = from[1]
  BY DecodingRuns
<1> DEFINE Clean(src) == \A i \in DOMAIN from[src] : from[src][i] # NUL
           P == {src \in S :
                   Clean(src) => \E start : CutsFrom(encoded, src, from[src], start)}
<1>3. ASSUME NEW src \in S, \A q \in S : m[q] < m[src] => q \in P, Clean(src)
      PROVE  \E start : CutsFrom(encoded, src, from[src], start)
  <2>1. CASE DecodesOn(encoded, src)
    <3> DEFINE next == src + Width(encoded, src)
               unit == Denoted(encoded, src)
    <3>1. unit \in W /\ next \in (src + 1)..(Len(encoded) + 1)
      BY <2>1, DecodingStep
    <3>2. from[src] = << unit >> \o from[next]
      BY <1>2, <2>1 DEF IsDecoding
    <3>3. Denotes(encoded, src, next, unit)
      BY <2>1, StepDenotes
    <3> HIDE DEF next, unit, W
    <3>4. next \in S /\ m[next] < m[src]
      BY <1>1, <3>1
    <3>5. PICK rest \in Seq(W) : rest = from[next]
      BY <3>4
    <3>6. Clean(next)
      <4>1. PICK k \in Nat : k = Len(rest) /\ DOMAIN rest = 1..k
        BY LenProperties
      <4>2. /\ DOMAIN (<< unit >> \o rest) = 1..(k + 1)
            /\ \A i \in 1..k : (<< unit >> \o rest)[i + 1] = rest[i]
        BY <3>1, <4>1
      <4>3. ASSUME NEW i \in 1..k
            PROVE  rest[i] # NUL
        <5>1. i + 1 \in 1..(k + 1)
          OBVIOUS
        <5>2. QED
          BY <1>3, <3>2, <3>5, <4>2, <5>1
      <4>4. QED
        BY <3>5, <4>1, <4>3
    <3>7. PICK start : CutsFrom(encoded, next, rest, start)
      <4>1. next \in P
        BY <1>3, <3>4
      <4>2. QED
        BY <3>5, <3>6, <4>1
    <3>8. \E longer : CutsFrom(encoded, src, << unit >> \o rest, longer)
      <4>1. src \in 1..(n + 1) /\ n = Len(encoded)
        BY <1>1
      <4>2. QED
        BY <3>1, <3>3, <3>7, <4>1, OnePieceMore
    <3>9. QED
      BY <3>2, <3>5, <3>8
  <2>2. CASE ~DecodesOn(encoded, src)
    <3>1. from[src] = IF src > Len(encoded) THEN << >> ELSE << NUL >>
      BY <1>2, <2>2 DEF IsDecoding
    <3>2. src > Len(encoded)
      BY <1>3, <3>1
    <3>3. src = n + 1 /\ from[src] = << >>
      BY <1>1, <3>1, <3>2
    <3>4. CutsFrom(encoded, src, << >>, [i \in 1..1 |-> n + 1])
      BY <1>1, <3>3 DEF CutsFrom
    <3>5. QED
      BY <3>3, <3>4
  <2>3. QED
    BY <2>1, <2>2
<1>4. \A src \in S : src \in P
  <2>1. \A src \in S : (\A q \in S : m[q] < m[src] => q \in P) => src \in P
    BY <1>3
  <2>2. m \in [S -> 0..N] /\ N \in Nat
    BY <1>1
  <2> HIDE DEF P, S, m, N
  <2>3. Inductive(S, N, m, P)
    BY <2>1, <2>2 DEF Inductive
  <2>4. QED
    BY <2>3, MeasureInduction
<1>5. 1 \in S
  BY <1>1
<1>6. Clean(1)
  BY <1>2
<1>7. PICK start : CutsFrom(encoded, 1, from[1], start)
  BY <1>4, <1>5, <1>6
<1>8. Decodes(encoded, from[1])
  BY <1>7 DEF CutsFrom, Denotes, Decodes
<1>9. QED
  BY <1>2, <1>5, <1>8

-----------------------------------------------------------------------------
(* The whole request                                                       *)

(* What stands behind an accepted request.                                 *)
LEMMA AcceptedParts ==
  ASSUME NEW text, NEW config,
         http_parse_request(text, config).parse_result = "OK"
  PROVE  LET r    == http_parse_request(text, config)
             line == http_parse_request_line(text)
         IN  /\ line.ok /\ http_parse_target_ok(line.target)
             /\ http_parse_headers(text, config).result = "OK"
             /\ r.method = line.method /\ r.version = line.version
             /\ r.path = http_decode_path(TargetPath(line.target))
             /\ r.query = TargetQuery(line.target)
             /\ r.headers = http_parse_headers(text, config).headers
BY DEF http_parse_request

(* A target that is accepted starts with a slash, and its path is decoded  *)
(* exactly once into something without control characters.                 *)
LEMMA AcceptedTarget ==
  ASSUME NEW U, NEW target \in Seq(U), http_parse_target_ok(target)
  PROVE  LET path    == TargetPath(target)
             decoded == http_decode_path(path)
         IN  /\ target[1] = "/" /\ Len(path) \in 1..Len(target)
             /\ Len(TargetQuery(target)) < HTTP_QUERY_MAX
             /\ decoded \in Seq(Decodable(U)) /\ Len(decoded) < PATH_SIZE
             /\ \A i \in DOMAIN decoded : decoded[i] \notin Control
             /\ decoded # << >> /\ decoded[1] = "/"
             /\ Decodes(path, decoded)
<1> DEFINE Path == TargetPath(target)
           bytes == DecodedBytes(Path)
           decoded == http_decode_path(Path)
<1>1. /\ Len(Path) \in 1..(TARGET_SIZE - 1) /\ Path[1] = "/"
      /\ Len(TargetQuery(target)) < HTTP_QUERY_MAX
      /\ decoded # NotDecoded
  BY DEF http_parse_target_ok
<1>2. /\ Path \in Seq(U) /\ Len(Path) <= Len(target)
      /\ \A i \in 1..Len(Path) : Path[i] = target[i]
  BY TargetCuts
<1>3. PICK path \in Seq(U), n \in Nat \ {0}, t \in Nat :
        path = Path /\ n = Len(Path) /\ t = Len(target)
  <2>1. Len(Path) \in Nat \ {0} /\ Len(target) \in Nat
    BY <1>1, Sizes, LenProperties
  <2>2. QED
    BY <1>2, <2>1
<1>4. /\ decoded = bytes
      /\ ~(Len(bytes) >= PATH_SIZE)
      /\ \A i \in DOMAIN bytes : bytes[i] \notin Control
  BY <1>1 DEF http_decode_path
<1> HIDE DEF Path, decoded
<1>5. bytes \in Seq(Decodable(U)) /\ Decodes(path, bytes)
  <2>1. bytes = DecodedBytes(path)
    BY <1>3
  <2>2. \A i \in DOMAIN DecodedBytes(path) : DecodedBytes(path)[i] # NUL
    BY <1>4, <2>1 DEF Control
  <2>3. QED
    BY <2>1, <2>2, DecodedOnce
<1> HIDE DEF bytes
<1>6. PICK k \in Nat : k = Len(bytes) /\ DOMAIN bytes = 1..k
  BY <1>5, LenProperties
<1>7. bytes # << >> /\ bytes[1] = "/"
  <2>1. PICK start \in [1..(k + 1) -> 1..(n + 1)] :
          /\ start[1] = 1 /\ start[k + 1] = n + 1
          /\ \A i \in 1..k : Denotes(path, start[i], start[i + 1], bytes[i])
    <3>1. Decodes(path, bytes)
      BY <1>5
    <3>2. PICK start : CutsFrom(path, 1, bytes, start)
      BY <3>1 DEF Decodes, CutsFrom, Denotes
    <3>3. QED
      BY <1>3, <1>6, <3>2 DEF CutsFrom
  <2>2. k # 0
    BY <2>1
  <2>3. Denotes(path, 1, start[2], bytes[1]) /\ start[2] \in 1..(n + 1)
    <3>1. 1 \in 1..k /\ 1 + 1 = 2 /\ 2 \in 1..(k + 1)
      BY <2>2
    <3>2. QED
      BY <2>1, <3>1
  <2> DEFINE piece == SubSeq(path, 1, start[2] - 1)
  <2>4. /\ Len(piece) = start[2] - 1
        /\ \A i \in 1..(start[2] - 1) : piece[i] = path[i]
    <3>1. /\ 1 \in 1..(Len(path) + 1) /\ start[2] - 1 \in (1 - 1)..Len(path)
          /\ (start[2] - 1) - 1 + 1 = start[2] - 1
          /\ \A i \in 1..(start[2] - 1) : 1 + i - 1 = i
      BY <1>3, <2>3
    <3>2. QED
      BY <3>1, Piece
  <2> HIDE DEF piece
  <2>5. \/ Len(piece) = 1 /\ piece[1] # "%" /\ bytes[1] = piece[1]
        \/ Len(piece) = 3 /\ piece[1] = "%"
    BY <2>3 DEF Denotes, piece
  <2>6. piece[1] = "/"
    <3>1. 1 \in 1..(start[2] - 1)
      BY <2>3, <2>4, <2>5
    <3>2. QED
      BY <1>1, <1>3, <2>4, <3>1
  <2>7. QED
    BY <1>6, <2>2, <2>5, <2>6, EmptySeq
<1>8. target[1] = "/" /\ n \in 1..t
  <2>1. 1 \in 1..n
    OBVIOUS
  <2>2. QED
    BY <1>1, <1>2, <1>3, <2>1
<1>9. Len(bytes) < PATH_SIZE
  BY <1>4, <1>6, Sizes
<1>10. QED
  BY <1>1, <1>3, <1>4, <1>5, <1>7, <1>8, <1>9 DEF decoded, Path

(* An accepted request, the request line it comes from and its headers.    *)
Understood(U, text, config, r, line) ==
  /\ CutInto(U, Lines(text)[1], line)
  /\ http_parse_target_ok(line.target)
  /\ Accounted(U, text, config, r.headers)
  /\ r.method = line.method /\ r.version = line.version
  /\ r.path = http_decode_path(TargetPath(line.target))
  /\ r.query = TargetQuery(line.target)

(* What http_parse_request makes of a text that ends at its blank line.    *)
ParsedFrom(U, text, config, r) ==
  /\ text \in Seq(U) /\ EndsAtBlankLine(text)
  /\ config.http_max_headers \in Nat
  /\ r = http_parse_request(text, config)

(* An accepted request is understood.                                      *)
LEMMA AcceptedIsUnderstood ==
  ASSUME NEW U, NEW text, NEW config, NEW r, ParsedFrom(U, text, config, r),
         r.parse_result = "OK"
  PROVE  \E line : Understood(U, text, config, r, line)
<1>1. /\ text \in Seq(U) /\ EndsAtBlankLine(text)
      /\ config.http_max_headers \in Nat /\ r = http_parse_request(text, config)
  BY DEF ParsedFrom
<1> DEFINE line == http_parse_request_line(text)
<1>2. /\ line.ok /\ http_parse_target_ok(line.target)
      /\ http_parse_headers(text, config).result = "OK"
      /\ r.method = line.method /\ r.version = line.version
      /\ r.path = http_decode_path(TargetPath(line.target))
      /\ r.query = TargetQuery(line.target)
      /\ r.headers = http_parse_headers(text, config).headers
  BY <1>1, AcceptedParts
<1>3. FindCRLF(text, 1) # 0 /\ CutInto(U, LineAt(text, 1), line)
  BY <1>1, <1>2, RequestLineCuts
<1>4. Accounted(U, text, config, r.headers)
  BY <1>1, <1>2, <1>3, LoopAccounts
<1>5. Lines(text)[1] = LineAt(text, 1)
  BY <1>4 DEF Accounted
<1> HIDE DEF line
<1>6. Understood(U, text, config, r, line)
  BY <1>2, <1>3, <1>4, <1>5 DEF Understood
<1>7. QED
  BY <1>6

-----------------------------------------------------------------------------
(* The decision                                                            *)

(* The framing of an accepted request is judged right.                     *)
LEMMA FramingOfAccepted ==
  ASSUME NEW U, NEW text, NEW config, NEW r, ParsedFrom(U, text, config, r),
         r.parse_result = "OK"
  PROVE  http_validate_request_framing(r) = "none" <=> HasNoBody(r)
<1>1. Accounted(U, text, config, r.headers)
  BY AcceptedIsUnderstood DEF Understood
<1>2. r.headers \in Seq(HeaderText(U))
  BY <1>1 DEF Accounted
<1>3. \A k \in DOMAIN r.headers : Stripped(r.headers[k].value)
  BY <1>1, <1>2, LenProperties DEF Accounted, StoredFrom
<1>4. QED
  BY <1>2, <1>3, FramingFindsBodies

(* A connection that is kept open was served a file.                       *)
LEMMA KeptOpenWhenServed ==
  ASSUME NEW r, NEW answer, ~http_prepare_response(r, answer).close
  PROVE  OpensFile(r) /\ answer.errno = "OK"
<1>1. \A status : ErrorDecision(status).close = TRUE
  BY DEF ErrorDecision
<1>2. QED
  BY <1>1 DEF http_prepare_response

(* It is kept open behind an accepted request without a body, and nobody   *)
(* else can find one in the text either.                                   *)
LEMMA KeptOpenBehindNoBody ==
  ASSUME NEW U, NEW text, NEW config, NEW r, ParsedFrom(U, text, config, r),
         NEW answer, ~http_prepare_response(r, answer).close
  PROVE  r.parse_result = "OK" /\ HasNoBody(r) /\ ~MayHaveBody(text)
<1>1. OpensFile(r)
  BY KeptOpenWhenServed
<1>2. r.parse_result = "OK" /\ http_validate_request_framing(r) = "none"
  BY <1>1 DEF OpensFile, Refusal
<1>3. HasNoBody(r)
  BY <1>2, FramingOfAccepted
<1>4. PICK line : Understood(U, text, config, r, line)
  BY <1>2, AcceptedIsUnderstood
<1>5. /\ CutInto(U, Lines(text)[1], line)
      /\ Accounted(U, text, config, r.headers)
      /\ line.target \in Seq(U) /\ http_parse_target_ok(line.target)
  BY <1>4 DEF Understood, CutInto
<1>6. line.target[1] = "/"
  BY <1>5, AcceptedTarget
<1>7. QED
  BY <1>2, <1>3, <1>5, <1>6, NoBodyForAnybody

(* The Connection header of a decision says what becomes of the            *)
(* connection, and only a 200 keeps it open.                               *)
LEMMA DecisionIsConsistent ==
  ASSUME NEW r, NEW answer
  PROVE  LET decision == http_prepare_response(r, answer)
         IN  /\ decision.close \in BOOLEAN
             /\ decision.keep_alive = ~decision.close
             /\ decision.status # 200 => decision.close
<1> DEFINE decision == http_prepare_response(r, answer)
<1>1. \/ \E status : decision = ErrorDecision(status)
      \/ \E size : decision = FileDecision(r, size)
  BY DEF http_prepare_response
<1> HIDE DEF decision
<1>2. ASSUME NEW status, decision = ErrorDecision(status)
      PROVE  decision.close = TRUE /\ decision.keep_alive = FALSE
  BY <1>2 DEF ErrorDecision
<1>3. ASSUME NEW size, decision = FileDecision(r, size)
      PROVE  /\ decision.status = 200
             /\ decision.close = http_close_requested(r)
             /\ decision.keep_alive = ~http_close_requested(r)
  BY <1>3 DEF FileDecision
<1>4. http_close_requested(r) \in BOOLEAN
  BY DEF http_close_requested
<1>5. QED
  BY <1>1, <1>2, <1>3, <1>4 DEF decision

(* The version of an accepted request ends its first line.                 *)
LEMMA VersionIsLastWord ==
  ASSUME NEW U, NEW text, NEW config, NEW r, ParsedFrom(U, text, config, r),
         r.parse_result = "OK"
  PROVE  LET lines == Lines(text)
         IN  /\ lines # << >> /\ lines[1] # << >>
             /\ lines[1][Len(lines[1])] = "HTTP/1.0"
                  <=> r.version = << "HTTP/1.0" >>
<1>1. r.version \in { << "HTTP/1.1" >>, << "HTTP/1.0" >> }
  BY DEF ParsedFrom, http_parse_request
<1>2. PICK line : Understood(U, text, config, r, line)
  BY AcceptedIsUnderstood
<1>3. PICK first \in Seq(U), lines \in Seq(Seq(U)), headers \in Seq(HeaderText(U)) :
        /\ first = Lines(text)[1] /\ lines = Lines(text)
        /\ Len(lines) = Len(headers) + 2
        /\ Len(first) = Len(line.method) + Len(line.target) + Len(line.version) + 2
        /\ first[Len(first)] = line.version[Len(line.version)]
        /\ r.version = line.version
        /\ line.method \in Seq(U) /\ line.target \in Seq(U)
  BY <1>2 DEF Understood, CutInto, Accounted
<1>4. /\ Len(headers) \in Nat /\ Len(line.method) \in Nat
      /\ Len(line.target) \in Nat
  BY <1>3, LenProperties
<1>5. Len(line.version) = 1 /\ line.version[1] \in {"HTTP/1.1", "HTTP/1.0"}
  BY <1>1, <1>3
<1>6. Len(first) # 0 /\ Len(lines) # 0
  <2>1. PICK m \in Nat, t \in Nat, h \in Nat :
          m = Len(line.method) /\ t = Len(line.target) /\ h = Len(headers)
    BY <1>4
  <2>2. Len(first) = m + t + 1 + 2 /\ Len(lines) = h + 2
    BY <1>3, <1>5, <2>1
  <2>3. QED
    BY <2>2
<1>7. first # << >> /\ lines # << >>
  BY <1>6, EmptySeq
<1>8. first[Len(first)] = "HTTP/1.0" <=> r.version = << "HTTP/1.0" >>
  BY <1>1, <1>3, <1>5
<1>9. QED
  BY <1>3, <1>7, <1>8

(* http_get_header returns the value of the first header with its name.    *)
LEMMA FirstHeader ==
  ASSUME NEW r, NEW name, NEW i \in Int, i \in Named(r, name),
         \A j \in Named(r, name) : j \in Int /\ i <= j
  PROVE  http_get_header(r, name) = r.headers[i].value
<1> DEFINE first == CHOOSE k \in Named(r, name) :
                      \A j \in Named(r, name) : k <= j
<1>1. first \in Named(r, name) /\ \A j \in Named(r, name) : first <= j
  OBVIOUS
<1>2. http_get_header(r, name) = r.headers[first].value
  BY DEF http_get_header
<1> HIDE DEF first
<1>3. first = i
  BY <1>1
<1>4. QED
  BY <1>2, <1>3

(* The server closes behind a request it accepts exactly if the bytes of   *)
(* the request ask for it.                                                 *)
LEMMA ClosesAsAsked ==
  ASSUME NEW U, NEW text, NEW config, NEW r, ParsedFrom(U, text, config, r),
         r.parse_result = "OK"
  PROVE  http_close_requested(r) <=> AsksToClose(text)
<1>1. PICK line : Understood(U, text, config, r, line)
  BY AcceptedIsUnderstood
<1>2. /\ CutInto(U, Lines(text)[1], line)
      /\ Accounted(U, text, config, r.headers)
      /\ line.target \in Seq(U) /\ http_parse_target_ok(line.target)
  BY <1>1 DEF Understood, CutInto
<1>3. line.target[1] = "/"
  BY <1>2, AcceptedTarget
<1>4. PICK lines \in Seq(Seq(U)), word \in {"Connection"} :
        lines = Lines(text)
  BY <1>2 DEF Accounted
<1> DEFINE named == LinesNamed(text, word)
           Asked(k) == IsWord(LooseValue(lines[k]), "close")
           value == http_get_header(r, << word >>)
<1>5. /\ \A k \in named : /\ k \in Nat /\ k - 1 \in DOMAIN r.headers
                          /\ r.headers[k - 1].name = << word >>
                          /\ StoredFrom(U, Lines(text)[k], r.headers[k - 1], config)
      /\ \A i \in DOMAIN r.headers :
           r.headers[i].name = << word >> => i \in Nat /\ i + 1 \in named
  BY <1>2, <1>3, NamedLines, Zenon
<1>6. named \subseteq DOMAIN lines
  BY <1>4 DEF LinesNamed
<1> HIDE DEF named
<1>7. value = << "close" >>
        <=> \E k \in named : (\A j \in named : k <= j) /\ Asked(k)
  <2>1. CASE named = {}
    <3>1. Named(r, << word >>) = {}
      BY <1>5, <2>1 DEF Named
    <3>2. value = << "absent" >>
      BY <3>1 DEF http_get_header, NoHeader
    <3>3. << "absent" >> # << "close" >>
      <4>1. << "absent" >>[1] # << "close" >>[1]
        OBVIOUS
      <4>2. QED
        BY <4>1
    <3>4. QED
      BY <2>1, <3>2, <3>3
  <2>2. CASE named # {}
    <3>1. PICK k \in named : \A j \in named : k <= j
      <4>1. named \in SUBSET Nat
        BY <1>5
      <4>2. QED
        BY <2>2, <4>1, FirstPosition
    <3>2. PICK i \in Int :
            /\ i = k - 1 /\ i \in DOMAIN r.headers
            /\ r.headers[i].name = << word >>
            /\ StoredFrom(U, lines[k], r.headers[i], config)
      <4>1. /\ k - 1 \in DOMAIN r.headers /\ r.headers[k - 1].name = << word >>
            /\ StoredFrom(U, lines[k], r.headers[k - 1], config) /\ k \in Nat
        BY <1>4, <1>5, <3>1, Zenon
      <4>2. k - 1 \in Int
        BY <4>1
      <4>3. QED
        BY <4>1, <4>2
    <3>3. i \in Named(r, << word >>)
      BY <3>2 DEF Named
    <3>4. ASSUME NEW j \in Named(r, << word >>)
          PROVE  j \in Int /\ i <= j
      <4>1. j \in Nat /\ j + 1 \in named
        BY <1>5 DEF Named
      <4>2. k <= j + 1 /\ k \in Nat
        BY <1>5, <3>1, <4>1
      <4>3. QED
        BY <3>2, <4>1, <4>2
    <3>5. value = r.headers[i].value
      BY <3>3, <3>4, FirstHeader
    <3>6. lines[k] \in Seq(U)
      <4>1. k \in 1..Len(lines)
        BY <1>6, LenProperties
      <4>2. QED
        BY <4>1, ElementOfSeq
    <3>7. Asked(k) <=> r.headers[i].value = << "close" >>
      <4>1. "close" \notin Blank
        BY DEF Blank
      <4>2. QED
        BY <3>2, <3>6, <4>1, WordIsWritten
    <3>8. ASSUME NEW q \in named, \A j \in named : q <= j
          PROVE  q = k
      <4>1. q \in Nat /\ k \in Nat /\ q <= k /\ k <= q
        BY <1>5, <3>1, <3>8
      <4>2. QED
        BY <4>1
    <3> HIDE DEF Asked, value
    <3>9. QED
      BY <3>1, <3>5, <3>7, <3>8
  <2>3. QED
    BY <2>1, <2>2
<1>8. /\ lines # << >> /\ lines[1] # << >>
      /\ lines[1][Len(lines[1])] = "HTTP/1.0" <=> r.version = << "HTTP/1.0" >>
  BY <1>4, VersionIsLastWord
<1>9. QED
  BY <1>4, <1>7, <1>8 DEF AsksToClose, http_close_requested, named

-----------------------------------------------------------------------------
(* What the grammar allows is accepted                                     *)

(* memchr finds a unit that is the first of its kind.                      *)
LEMMA UnitIsFound ==
  ASSUME NEW s, NEW c, NEW from \in Nat \ {0}, NEW end \in Int,
         NEW first \in from..(end - 1), s[first] = c,
         \A i \in from..(first - 1) : s[i] # c
  PROVE  FindUnit(s, c, from, end) = first
<1> DEFINE k == FindUnit(s, c, from, end)
<1>1. /\ k = 0 => \A i \in from..(end - 1) : s[i] # c
      /\ k # 0 => /\ k \in from..(end - 1) /\ s[k] = c
                  /\ \A i \in from..(k - 1) : s[i] # c
  <2>1. k = FindUnit(s, c, from, end)
    OBVIOUS
  <2> HIDE DEF k
  <2>2. k = 0 => \A i \in from..(end - 1) : s[i] # c
    BY <2>1, FoundUnit
  <2>3. k # 0 => k \in from..(end - 1) /\ s[k] = c
    BY <2>1, FoundUnit
  <2>4. k # 0 => \A i \in from..(k - 1) : s[i] # c
    BY <2>1, FoundUnit
  <2>5. QED
    BY <2>2, <2>3, <2>4
<1> HIDE DEF k
<1>2. k = first
  BY <1>1
<1>3. QED
  BY <1>2 DEF k

(* It finds nothing where there is none.                                   *)
LEMMA UnitIsMissing ==
  ASSUME NEW s, NEW c, NEW from \in Nat \ {0}, NEW end \in Int,
         \A i \in from..(end - 1) : s[i] # c
  PROVE  FindUnit(s, c, from, end) = 0
<1>1. PICK k : k = FindUnit(s, c, from, end)
  OBVIOUS
<1>2. k # 0 => k \in from..(end - 1) /\ s[k] = c
  BY <1>1, FoundUnit
<1>3. QED
  BY <1>1, <1>2

(* In a text without NUL strstr finds what counting bytes finds.           *)
LEMMA NoNulHidesNothing ==
  ASSUME NEW U, NEW text \in Seq(U),
         \A i \in 1..Len(text) : text[i] # NUL, NEW from
  PROVE  FindCRLF(text, from) = NextCRLF(text, from)
<1>1. DOMAIN text = 1..Len(text)
  BY LenProperties
<1>2. {i \in DOMAIN text : text[i] = NUL} = {}
  BY <1>1
<1>3. CLength(text) = Len(text)
  BY <1>2 DEF CLength, LeastOrNull
<1>4. QED
  BY <1>3 DEF FindCRLF, NextCRLF

(* The units of a piece are those of the text.                             *)
LEMMA PieceOfPiece ==
  ASSUME NEW U, NEW s \in Seq(U), NEW n \in 0..Len(s),
         NEW a \in 1..(n + 1), NEW b \in (a - 1)..n
  PROVE  SubSeq(SubSeq(s, 1, n), a, b) = SubSeq(s, a, b)
<1>1. PICK k \in Nat : k = Len(s)
  BY LenProperties
<1> DEFINE t == SubSeq(s, 1, n)
           x == SubSeq(t, a, b)
           y == SubSeq(s, a, b)
<1>2. t \in Seq(U) /\ Len(t) = n /\ \A i \in 1..n : t[i] = s[i]
  <2>1. /\ 1 \in 1..(Len(s) + 1) /\ n \in (1 - 1)..Len(s) /\ n - 1 + 1 = n
        /\ \A i \in 1..n : 1 + i - 1 = i
    BY <1>1
  <2>2. QED
    BY <2>1, Piece
<1> HIDE DEF t
<1>3. /\ x \in Seq(U) /\ Len(x) = b - a + 1
      /\ \A i \in 1..(b - a + 1) : x[i] = t[a + i - 1]
  <2>1. a \in 1..(Len(t) + 1) /\ b \in (a - 1)..Len(t)
    BY <1>2
  <2>2. QED
    BY <1>2, <2>1, Piece
<1>4. /\ y \in Seq(U) /\ Len(y) = b - a + 1
      /\ \A i \in 1..(b - a + 1) : y[i] = s[a + i - 1]
  <2>1. a \in 1..(Len(s) + 1) /\ b \in (a - 1)..Len(s)
    BY <1>1
  <2>2. QED
    BY <2>1, Piece
<1> HIDE DEF x, y
<1>5. \A i \in 1..(b - a + 1) : a + i - 1 \in 1..n
  BY <1>1
<1>6. \A i \in 1..(b - a + 1) : x[i] = y[i]
  BY <1>2, <1>3, <1>4, <1>5
<1>7. x = y
  BY <1>3, <1>4, <1>6, SeqEqual
<1>8. QED
  BY <1>7 DEF t, x, y

(* Every escape of a path denotes no control character: decoding it goes   *)
(* on to its end, shortens it and yields none.                             *)
LEMMA PathIsDecoded ==
  ASSUME NEW U, NEW path \in Seq(U), IsPath(path)
  PROVE  /\ http_decode_path(path) = DecodedBytes(path)
         /\ http_decode_path(path) # NotDecoded
<1> DEFINE S == 1..(Len(path) + 1)
           W == Decodable(U)
           N == Len(path) + 1
           m == [src \in S |-> N - src]
<1>1. PICK n \in Nat : n = Len(path) /\ DOMAIN path = 1..n
  BY LenProperties
<1>2. PICK from \in [S -> Seq(W)] :
        IsDecoding(path, from) /\ DecodedBytes(path) = from[1]
  BY DecodingRuns
<1>3. /\ n < PATH_SIZE
      /\ \A i \in 1..n : path[i] \notin Control
      /\ \A i \in 1..n : path[i] = "%" => IsEscape(path, i)
  BY <1>1, Sizes DEF IsPath
<1> DEFINE Short(src) == Len(from[src]) <= N - src
           Clean(src) == \A i \in DOMAIN from[src] : from[src][i] \notin Control
           P == {src \in S : Short(src) /\ Clean(src)}
<1>4. ASSUME NEW src \in S, \A q \in S : m[q] < m[src] => q \in P
      PROVE  Short(src) /\ Clean(src)
  <2>1. CASE src <= n
    <3> DEFINE next == src + Width(path, src)
               unit == Denoted(path, src)
    <3>1. DecodesOn(path, src) /\ unit \notin Control
      <4>1. CASE path[src] = "%"
        <5>1. IsEscape(path, src)
          BY <1>3, <2>1, <4>1
        <5>2. QED
          BY <1>1, <2>1, <4>1, <5>1
             DEF IsEscape, DecodesOn, Malformed, Denoted
      <4>2. CASE path[src] # "%"
        BY <1>1, <1>3, <2>1, <4>2 DEF DecodesOn, Denoted
      <4>3. QED
        BY <4>1, <4>2
    <3>2. unit \in W /\ next \in (src + 1)..(Len(path) + 1)
      BY <3>1, DecodingStep
    <3>3. from[src] = << unit >> \o from[next]
      BY <1>2, <3>1 DEF IsDecoding
    <3> HIDE DEF next, unit, W
    <3>4. next \in S /\ m[next] < m[src]
      BY <1>1, <3>2
    <3>5. PICK rest \in Seq(W) : rest = from[next]
      BY <3>4
    <3>6. next \in P
      BY <1>4, <3>4
    <3>7. PICK k \in Nat : k = Len(rest) /\ DOMAIN rest = 1..k
      BY LenProperties
    <3>8. k <= N - next /\ \A i \in 1..k : rest[i] \notin Control
      BY <3>5, <3>6, <3>7
    <3>9. /\ Len(<< unit >> \o rest) = k + 1
          /\ DOMAIN (<< unit >> \o rest) = 1..(k + 1)
          /\ \A i \in 1..(k + 1) : (<< unit >> \o rest)[i]
               = IF i = 1 THEN unit ELSE rest[i - 1]
      BY <3>2, <3>7
    <3>10. \A i \in 1..(k + 1) : (<< unit >> \o rest)[i] \notin Control
      BY <3>1, <3>8, <3>9
    <3>11. k + 1 <= N - src
      BY <1>1, <3>2, <3>8
    <3>12. QED
      BY <3>3, <3>5, <3>9, <3>10, <3>11
  <2>2. CASE src > n
    <3>1. ~DecodesOn(path, src)
      BY <1>1, <2>2 DEF DecodesOn
    <3>2. from[src] = << >>
      BY <1>1, <1>2, <2>2, <3>1 DEF IsDecoding
    <3>3. QED
      BY <1>1, <2>2, <3>2
  <2>3. QED
    BY <1>1, <2>1, <2>2
<1>5. \A src \in S : src \in P
  <2>1. \A src \in S : (\A q \in S : m[q] < m[src] => q \in P) => src \in P
    BY <1>4
  <2>2. m \in [S -> 0..N] /\ N \in Nat
    BY <1>1
  <2> HIDE DEF P, S, m, N
  <2>3. Inductive(S, N, m, P)
    BY <2>1, <2>2 DEF Inductive
  <2>4. QED
    BY <2>3, MeasureInduction
<1>6. 1 \in P
  BY <1>1, <1>5
<1>7. PICK bytes \in Seq(W) : bytes = DecodedBytes(path)
  BY <1>1, <1>2
<1> HIDE DEF W
<1>8. /\ Len(bytes) \in Nat /\ Len(bytes) <= n
      /\ \A i \in DOMAIN bytes : bytes[i] \notin Control
  BY <1>1, <1>2, <1>6, <1>7, LenProperties
<1>9. http_decode_path(path) = bytes
  BY <1>3, <1>7, <1>8, Sizes DEF http_decode_path
<1>10. bytes # NotDecoded
  <2>1. NotDecoded[1] \in Control /\ 1 \in DOMAIN NotDecoded
    BY DEF NotDecoded, Control
  <2>2. QED
    BY <1>8, <2>1
<1>11. QED
  BY <1>7, <1>9, <1>10

(* A target of the grammar is parsed.                                      *)
LEMMA TargetIsParsed ==
  ASSUME NEW U, NEW target \in Seq(U), IsTarget(target)
  PROVE  /\ http_parse_target_ok(target)
         /\ Len(target) \in 1..(TARGET_SIZE - 1)
         /\ \A i \in 1..Len(target) : target[i] # "SP" /\ target[i] # NUL
<1>1. PICK n \in Nat : n = Len(target) /\ DOMAIN target = 1..n
  BY LenProperties
<1>2. n < TARGET_SIZE
  BY <1>1 DEF IsTarget
<1>3. PICK c : c = "?"
  OBVIOUS
<1>4. PICK end \in Int : end = Len(target) + 1 /\ end - 1 = n /\ 1 \in Nat \ {0}
  BY <1>1
<1> DEFINE found == FindUnit(target, "?", 1, Len(target) + 1)
<1>5. found = FindUnit(target, c, 1, end)
  BY <1>3, <1>4
<1> HIDE DEF found
<1>6. CASE IsPath(target)
  <2>1. /\ n # 0 /\ target[1] = "/"
        /\ \A i \in 1..n : target[i] \notin Control \cup {"SP", "?"}
    BY <1>1, <1>6, Sizes DEF IsPath
  <2>2. found = 0
    <3>1. \A i \in 1..(end - 1) : target[i] # c
      BY <1>3, <1>4, <2>1
    <3>2. QED
      BY <1>4, <1>5, <3>1, UnitIsMissing
  <2>3. TargetPath(target) = target /\ TargetQuery(target) = << >>
    BY <2>2 DEF TargetPath, TargetQuery, found
  <2>4. http_decode_path(target) # NotDecoded
    BY <1>6, PathIsDecoded
  <2>5. http_parse_target_ok(target)
    <3>1. n \in 1..(TARGET_SIZE - 1) /\ 0 < HTTP_QUERY_MAX
      BY <1>2, <2>1, Sizes, SizesAssumption
    <3>2. QED
      BY <1>1, <2>1, <2>3, <2>4, <3>1 DEF http_parse_target_ok
  <2>6. QED
    BY <1>1, <1>2, <2>1, <2>5, Sizes DEF Control
<1>7. CASE ~IsPath(target)
  <2> DEFINE Path(mark) == SubSeq(target, 1, mark - 1)
             Query(mark) == SubSeq(target, mark + 1, Len(target))
  <2>1. PICK mark \in 1..n : target[mark] = "?" /\ IsPath(Path(mark))
                             /\ IsQuery(Query(mark))
    BY <1>1, <1>7 DEF IsTarget
  <2>2. /\ Path(mark) \in Seq(U) /\ Len(Path(mark)) = mark - 1
        /\ DOMAIN Path(mark) = 1..(mark - 1)
        /\ \A i \in 1..(mark - 1) : Path(mark)[i] = target[i]
    <3>1. /\ 1 \in 1..(Len(target) + 1) /\ mark - 1 \in (1 - 1)..Len(target)
          /\ mark - 1 - 1 + 1 = mark - 1 /\ \A i \in 1..(mark - 1) : 1 + i - 1 = i
      BY <1>1
    <3>2. QED
      BY <3>1, Piece
  <2>3. /\ Query(mark) \in Seq(U) /\ Len(Query(mark)) = n - mark
        /\ DOMAIN Query(mark) = 1..(n - mark)
        /\ \A i \in 1..(n - mark) : Query(mark)[i] = target[mark + i]
    <3>1. /\ mark + 1 \in 1..(Len(target) + 1)
          /\ Len(target) \in (mark + 1 - 1)..Len(target)
          /\ Len(target) - (mark + 1) + 1 = n - mark
          /\ \A i \in 1..(n - mark) : (mark + 1) + i - 1 = mark + i
      BY <1>1
    <3>2. QED
      BY <3>1, Piece
  <2>4. PICK path \in Seq(U), query \in {Query(mark)} :
          path = Path(mark) /\ query = Query(mark)
    BY <2>2, <2>3
  <2> HIDE DEF Path, Query
  <2>5. /\ mark - 1 # 0 /\ path[1] = "/"
        /\ \A i \in 1..(mark - 1) : path[i] \notin Control \cup {"SP", "?"}
    BY <2>1, <2>2, <2>4, Sizes DEF IsPath
  <2>6. /\ n - mark < HTTP_QUERY_MAX
        /\ \A i \in 1..(n - mark) : query[i] \notin Control \cup {"SP"}
    BY <2>1, <2>3, <2>4 DEF IsQuery
  <2>7. found = mark
    <3>1. mark \in 1..(end - 1) /\ target[mark] = c
          /\ \A i \in 1..(mark - 1) : target[i] # c
      BY <1>3, <1>4, <2>1, <2>2, <2>4, <2>5
    <3>2. QED
      BY <1>4, <1>5, <3>1, UnitIsFound
  <2>8. TargetPath(target) = path /\ TargetQuery(target) = query
    BY <2>4, <2>7 DEF TargetPath, TargetQuery, found, Path, Query
  <2>9. http_decode_path(path) # NotDecoded
    BY <2>1, <2>4, PathIsDecoded
  <2>10. http_parse_target_ok(target)
    <3>1. mark - 1 \in 1..(TARGET_SIZE - 1)
      BY <1>2, <2>5, Sizes
    <3>2. Len(path) = mark - 1 /\ Len(query) = n - mark
      BY <2>2, <2>3, <2>4
    <3>3. QED
      BY <2>5, <2>6, <2>8, <2>9, <3>1, <3>2 DEF http_parse_target_ok
  <2>11. ASSUME NEW i \in 1..n
         PROVE  target[i] # "SP" /\ target[i] # NUL
    <3>1. CASE i < mark
      BY <2>2, <2>4, <2>5, <3>1 DEF Control
    <3>2. CASE i = mark
      BY <2>1, <3>2 DEF NUL
    <3>3. CASE i > mark
      <4>1. PICK j \in 1..(n - mark) : i = mark + j
        <5>1. i - mark \in 1..(n - mark) /\ i = mark + (i - mark)
          BY <3>3
        <5>2. QED
          BY <5>1
      <4>2. QED
        BY <2>3, <2>4, <2>6, <4>1 DEF Control
    <3>4. QED
      BY <3>1, <3>2, <3>3
  <2>12. QED
    BY <1>1, <1>2, <2>10, <2>11, Sizes
<1>8. QED
  BY <1>6, <1>7

(* What trimming leaves is no longer than what stands between the blanks.  *)
LEMMA TrimShortens ==
  ASSUME NEW U, NEW s \in Seq(U), NEW a \in 0..Len(s), NEW b \in a..Len(s),
         \A i \in 1..a : s[i] \in Blank,
         \A i \in (b + 1)..Len(s) : s[i] \in Blank
  PROVE  Len(Trim(s)) <= b - a
<1>1. PICK n \in Nat : n = Len(s)
  BY LenProperties
<1>2. PICK t \in Seq(U) : t = Trim(s)
  BY TrimStrips
<1>3. PICK k \in Nat : k = Len(t)
  BY LenProperties
<1>4. Stripped(t)
  BY <1>2, TrimStrips
<1>5. PICK lead \in 0..(n - k) : \A i \in 1..k : t[i] = s[lead + i]
  <2>1. PICK lead : TrimmedTo(s, t, lead)
    BY <1>2, TrimStrips
  <2>2. QED
    BY <1>1, <1>3, <2>1 DEF TrimmedTo
<1>6. CASE k = 0
  BY <1>1, <1>2, <1>3, <1>6
<1>7. CASE k # 0
  <2>1. t[1] \notin Blank /\ t[k] \notin Blank
    BY <1>3, <1>4, <1>7 DEF Stripped
  <2>2. 1 \in 1..k /\ k \in 1..k
    BY <1>7
  <2>3. s[lead + 1] \notin Blank /\ s[lead + k] \notin Blank
    BY <1>5, <2>1, <2>2
  <2>4. lead + 1 \in 1..n /\ lead + k \in 1..n
    BY <1>1, <1>7
  <2>5. lead + 1 > a /\ lead + k <= b
    BY <1>1, <2>3, <2>4
  <2>6. k <= b - a
    BY <1>1, <2>5
  <2>7. QED
    BY <1>2, <1>3, <2>6
<1>8. QED
  BY <1>6, <1>7

(* A field line of the grammar becomes a header.                           *)
LEMMA FieldLineIsStored ==
  ASSUME NEW U, NEW line \in Seq(U), NEW config, IsFieldLine(line, config),
         config.http_header_name_max \in Nat,
         config.http_header_value_max \in Nat
  PROVE  /\ HeaderLine(line, config).result = "next"
         /\ \A i \in 1..Len(line) : line[i] # NUL
<1>1. PICK n \in Nat, nameMax \in Nat, valueMax \in Nat :
        /\ n = Len(line) /\ DOMAIN line = 1..n
        /\ nameMax = config.http_header_name_max
        /\ valueMax = config.http_header_value_max
  BY LenProperties
<1> DEFINE Name(colon) == SubSeq(line, 1, colon - 1)
           Front(colon, from) == SubSeq(line, colon + 1, from)
           Back(to) == SubSeq(line, to + 1, Len(line))
<1>2. PICK colon \in 1..n :
        /\ line[colon] = ":" /\ IsToken(Name(colon), nameMax)
        /\ \A i \in (colon + 1)..n : line[i] \notin Control \ {"HTAB"}
        /\ \E from \in colon..n : \E to \in from..n :
             /\ to - from < valueMax
             /\ AllBlank(Front(colon, from)) /\ AllBlank(Back(to))
  BY <1>1 DEF IsFieldLine
<1>3. PICK from \in colon..n : \E to \in from..n :
        /\ to - from < valueMax
        /\ AllBlank(Front(colon, from)) /\ AllBlank(Back(to))
  BY <1>2
<1>4. PICK to \in from..n :
        /\ to - from < valueMax
        /\ AllBlank(Front(colon, from)) /\ AllBlank(Back(to))
  BY <1>3
<1>5. /\ Name(colon) \in Seq(U) /\ Len(Name(colon)) = colon - 1
      /\ DOMAIN Name(colon) = 1..(colon - 1)
      /\ \A i \in 1..(colon - 1) : Name(colon)[i] = line[i]
  <2>1. /\ 1 \in 1..(Len(line) + 1) /\ colon - 1 \in (1 - 1)..Len(line)
        /\ colon - 1 - 1 + 1 = colon - 1
        /\ \A i \in 1..(colon - 1) : 1 + i - 1 = i
    BY <1>1
  <2>2. QED
    BY <2>1, Piece
<1>6. /\ colon - 1 \in 1..(nameMax - 1)
      /\ \A i \in 1..(colon - 1) : http_is_tchar(line[i])
  BY <1>2, <1>5 DEF IsToken, http_is_tchar
<1>7. Colon(line) = colon
  <2>1. PICK c : c = ":"
    OBVIOUS
  <2>2. PICK end \in Int : end = Len(line) + 1 /\ end - 1 = n /\ 1 \in Nat \ {0}
    BY <1>1
  <2>3. /\ colon \in 1..(end - 1) /\ line[colon] = c
        /\ \A i \in 1..(colon - 1) : line[i] # c
    BY <1>2, <1>6, <2>1, <2>2 DEF http_is_tchar, Separators
  <2>4. FindUnit(line, c, 1, end) = colon
    BY <2>2, <2>3, UnitIsFound
  <2>5. QED
    BY <2>1, <2>2, <2>4 DEF Colon
<1>8. ASSUME NEW i \in (colon + 1)..from
      PROVE  line[i] \in Blank
  <2>1. /\ colon + 1 \in 1..(Len(line) + 1)
        /\ from \in (colon + 1 - 1)..Len(line)
        /\ from - (colon + 1) + 1 = from - colon
    BY <1>1
  <2>2. /\ DOMAIN Front(colon, from) = 1..(from - colon)
        /\ \A j \in 1..(from - colon) :
             Front(colon, from)[j] = line[(colon + 1) + j - 1]
    BY <2>1, Piece
  <2>3. i - colon \in 1..(from - colon) /\ (colon + 1) + (i - colon) - 1 = i
    OBVIOUS
  <2> HIDE DEF Front
  <2>4. QED
    BY <1>4, <2>2, <2>3 DEF AllBlank
<1>9. ASSUME NEW i \in (to + 1)..n
      PROVE  line[i] \in Blank
  <2>1. /\ to + 1 \in 1..(Len(line) + 1)
        /\ Len(line) \in (to + 1 - 1)..Len(line)
        /\ Len(line) - (to + 1) + 1 = n - to
    BY <1>1
  <2>2. /\ DOMAIN Back(to) = 1..(n - to)
        /\ \A j \in 1..(n - to) : Back(to)[j] = line[(to + 1) + j - 1]
    BY <2>1, Piece
  <2>3. i - to \in 1..(n - to) /\ (to + 1) + (i - to) - 1 = i
    OBVIOUS
  <2> HIDE DEF Back
  <2>4. QED
    BY <1>4, <2>2, <2>3 DEF AllBlank
<1>10. PICK name \in Seq(U), value \in Seq(U) :
         name = LooseName(line) /\ value = LooseValue(line)
  BY <1>7, ColonCuts
<1>11. /\ Len(name) = colon - 1 /\ DOMAIN name = 1..(colon - 1)
       /\ \A i \in 1..(colon - 1) : name[i] = line[i]
       /\ Len(value) = n - colon
       /\ \A i \in 1..(n - colon) : value[i] = line[colon + i]
  <2>1. /\ Len(name) = colon - 1 /\ \A i \in 1..(colon - 1) : name[i] = line[i]
        /\ Len(value) = n - colon
        /\ \A i \in 1..(n - colon) : value[i] = line[colon + i]
    <3>1. Colon(line) # 0
      BY <1>7
    <3>2. /\ Len(LooseName(line)) = Colon(line) - 1
          /\ \A i \in 1..(Colon(line) - 1) : LooseName(line)[i] = line[i]
          /\ Len(LooseValue(line)) = Len(line) - Colon(line)
          /\ \A i \in 1..(Len(line) - Colon(line)) :
               LooseValue(line)[i] = line[Colon(line) + i]
      BY <3>1, ColonCuts
    <3>3. QED
      BY <1>1, <1>7, <1>10, <3>2
  <2>2. QED
    BY <2>1, LenProperties
<1>12. http_valid_header_name(name) /\ ~TooLong(name, nameMax)
  <2>1. name # << >>
    BY <1>6, <1>11
  <2>2. \A i \in 1..(colon - 1) : http_is_tchar(name[i])
    BY <1>6, <1>11
  <2>3. QED
    BY <1>6, <1>11, <2>1, <2>2 DEF http_valid_header_name, TooLong
<1>13. PICK t \in Seq(U) : t = Trim(value)
  BY TrimStrips
<1>14. PICK k \in Nat : k = Len(t) /\ DOMAIN t = 1..k
  BY LenProperties
<1>15. k < valueMax
  <2>1. PICK a \in 0..(n - colon) : a = from - colon
    BY <1>1
  <2>2. PICK b \in a..(n - colon) : b = to - colon
    BY <1>1, <2>1
  <2>3. ASSUME NEW i \in 1..a
        PROVE  value[i] \in Blank
    <3>1. i \in 1..(n - colon) /\ colon + i \in (colon + 1)..from
      BY <2>1
    <3>2. QED
      BY <1>8, <1>11, <3>1
  <2>4. ASSUME NEW i \in (b + 1)..(n - colon)
        PROVE  value[i] \in Blank
    <3>1. i \in 1..(n - colon) /\ colon + i \in (to + 1)..n
      BY <2>1, <2>2
    <3>2. QED
      BY <1>9, <1>11, <3>1
  <2>5. Len(Trim(value)) <= b - a
    BY <1>11, <2>3, <2>4, TrimShortens
  <2>6. QED
    BY <1>4, <1>13, <1>14, <2>1, <2>2, <2>5
<1>16. http_valid_header_value(t)
  <2>1. PICK lead : TrimmedTo(value, t, lead)
    BY <1>13, TrimStrips
  <2>2. lead \in 0..((n - colon) - k) /\ \A i \in 1..k : t[i] = value[lead + i]
    BY <1>11, <1>14, <2>1 DEF TrimmedTo
  <2>3. ASSUME NEW i \in 1..k
        PROVE  t[i] \notin Control \ {"HTAB"}
    <3>1. /\ lead + i \in 1..(n - colon)
          /\ colon + (lead + i) \in (colon + 1)..n
      BY <2>2
    <3>2. t[i] = line[colon + (lead + i)]
      BY <1>11, <2>2, <3>1
    <3>3. QED
      BY <1>2, <3>1, <3>2
  <2>4. QED
    BY <1>14, <2>3 DEF http_valid_header_value
<1>17. ~TooLong(t, valueMax)
  BY <1>14, <1>15 DEF TooLong
<1>18. HeaderLine(line, config).result = "next"
  <2>1. /\ Colon(line) # 0 /\ http_valid_header_name(LooseName(line))
        /\ ~TooLong(LooseName(line), config.http_header_name_max)
        /\ http_valid_header_value(Trim(LooseValue(line)))
        /\ ~TooLong(Trim(LooseValue(line)), config.http_header_value_max)
    BY <1>1, <1>7, <1>10, <1>12, <1>13, <1>16, <1>17
  <2>2. QED
    BY <2>1, HeaderLineReads
<1>19. ASSUME NEW i \in 1..n
       PROVE  line[i] # NUL
  <2>1. CASE i < colon
    BY <1>6, <2>1 DEF http_is_tchar, Control
  <2>2. CASE i = colon
    BY <1>2, <2>2 DEF NUL
  <2>3. CASE i > colon
    BY <1>2, <2>3 DEF Control, NUL
  <2>4. QED
    BY <2>1, <2>2, <2>3
<1>20. QED
  BY <1>1, <1>18, <1>19

(* A line starts at a position behind the first line.                      *)
Behind(text, from) == from \in 3..(Len(text) - 1) /\ LineEnd(text, from - 2)

(* A framed text ends with CR LF CR LF.                                    *)
LEMMA EndOfFramed ==
  ASSUME NEW U, NEW text \in Seq(U), EndsAtBlankLine(text)
  PROVE  /\ Len(text) >= 4
         /\ LineEnd(text, Len(text) - 3) /\ LineEnd(text, Len(text) - 1)
<1>1. PICK n \in Nat : n = Len(text)
  BY LenProperties
<1>2. n # 0
  BY <1>1, EmptySeq DEF EndsAtBlankLine
<1>3. http_request_complete(text)
  BY <1>1, <1>2 DEF http_request_complete, EndsAtBlankLine
<1>4. PICK f \in ScanRange(text) : IsFirstTerminator(text, f)
  BY <1>3, CompleteHasFirst
<1>5. f + 3 = n
  BY <1>1, <1>4, ScanStopsAtFirst DEF EndsAtBlankLine
<1>6. TerminatorAt(text, f) /\ f \in 1..(n - 3)
  BY <1>1, <1>4 DEF IsFirstTerminator, ScanRange
<1>7. f = n - 3 /\ f + 2 = n - 1 /\ (n - 1) + 1 = f + 3 /\ n >= 4
  BY <1>5, <1>6
<1>8. LineEnd(text, f) /\ LineEnd(text, f + 2)
  <2>1. (f + 2) + 1 = f + 3
    BY <1>6
  <2>2. QED
    BY <1>6, <2>1 DEF TerminatorAt, LineEnd
<1>9. QED
  BY <1>1, <1>7, <1>8

(* CR LF do not overlap.                                                   *)
LEMMA LineEndsApart ==
  ASSUME NEW text, NEW i \in Int, LineEnd(text, i)
  PROVE  ~LineEnd(text, i + 1) /\ ~LineEnd(text, i - 1)
<1>1. (i - 1) + 1 = i
  OBVIOUS
<1>2. QED
  BY <1>1 DEF LineEnd, CR, LF

(* From the start of a line, the text goes on to its blank line.           *)
LEMMA LineByLine ==
  ASSUME NEW U, NEW text \in Seq(U), EndsAtBlankLine(text), NEW from,
         from = 1 \/ (Behind(text, from) /\ ~BlankLineAt(text, from))
  PROVE  /\ NextCRLF(text, from) \in from..(Len(text) - 3)
         /\ LineEnd(text, NextCRLF(text, from))
         /\ Behind(text, NextCRLF(text, from) + 2)
<1>1. PICK n \in Nat : n = Len(text)
  BY LenProperties
<1>2. n >= 4 /\ LineEnd(text, n - 3) /\ LineEnd(text, n - 1)
  BY <1>1, EndOfFramed
<1>3. from \in 1..(n - 1) /\ from \in Nat \ {0}
  BY <1>1, <1>2 DEF Behind
<1> DEFINE end == NextCRLF(text, from)
<1>4. /\ end \in Nat
      /\ end = 0 => \A i \in from..(Len(text) - 1) : ~LineEnd(text, i)
      /\ end # 0 => /\ end \in from..(Len(text) - 1) /\ LineEnd(text, end)
                    /\ \A i \in from..(end - 1) : ~LineEnd(text, i)
  BY <1>3, NextLineEnd
<1> HIDE DEF end
<1>5. end \in from..(n - 1) /\ LineEnd(text, end)
  <2>1. n - 1 \in from..(Len(text) - 1)
    BY <1>1, <1>3
  <2>2. end # 0
    BY <1>2, <1>4, <2>1
  <2>3. QED
    BY <1>1, <1>4, <2>2
<1>6. from # n - 1
  <2>1. from = n - 1 => BlankLineAt(text, from) /\ from # 1
    BY <1>1, <1>2 DEF LineEnd, BlankLineAt
  <2>2. QED
    BY <2>1
<1>7. from <= n - 3
  <2>1. CASE from = 1
    BY <1>2, <2>1
  <2>2. CASE Behind(text, from)
    <3>1. LineEnd(text, from - 2)
      BY <2>2 DEF Behind
    <3>2. from = n - 2 => from - 2 = (n - 3) - 1 /\ n - 3 \in Int
      BY <1>3
    <3>3. from # n - 2
      BY <1>2, <3>1, <3>2, LineEndsApart
    <3>4. QED
      BY <1>3, <1>6, <3>3
  <2>3. QED
    BY <2>1, <2>2
<1>8. end <= n - 3
  <2>1. n - 3 \in from..(Len(text) - 1)
    BY <1>1, <1>3, <1>7
  <2>2. end # 0 /\ ~(n - 3 \in from..(end - 1))
    BY <1>2, <1>3, <1>4, <1>5
  <2>3. QED
    BY <1>1, <1>3, <1>5, <2>1, <2>2
<1>9. end + 2 \in 3..(n - 1) /\ (end + 2) - 2 = end
  BY <1>3, <1>5, <1>8
<1>10. QED
  BY <1>1, <1>3, <1>5, <1>8, <1>9 DEF Behind, end

NulFree(line) == \A i \in 1..Len(line) : line[i] # NUL

(* A line without NUL in front of a text without.                          *)
LEMMA OneLineMore ==
  ASSUME NEW U, NEW text \in Seq(U), EndsAtBlankLine(text), NEW from,
         from = 1 \/ (Behind(text, from) /\ ~BlankLineAt(text, from)),
         NulFree(ByteLineAt(text, from)),
         \A i \in (NextCRLF(text, from) + 2)..Len(text) : text[i] # NUL
  PROVE  \A i \in from..Len(text) : text[i] # NUL
<1>1. PICK n \in Nat : n = Len(text)
  BY LenProperties
<1>2. n >= 4
  BY <1>1, EndOfFramed
<1>3. from \in 1..(n - 1)
  BY <1>1, <1>2 DEF Behind
<1>4. PICK end \in from..(n - 3) :
        end = NextCRLF(text, from) /\ LineEnd(text, end)
  BY <1>1, LineByLine
<1> DEFINE line == SubSeq(text, from, end - 1)
<1>5. Len(line) = end - from /\ \A i \in 1..(end - from) : line[i] = text[from + i - 1]
  <2>1. /\ from \in 1..(Len(text) + 1) /\ end - 1 \in (from - 1)..Len(text)
        /\ end - 1 - from + 1 = end - from
    BY <1>1, <1>3
  <2>2. QED
    BY <2>1, Piece
<1>6. NulFree(line)
  BY <1>4 DEF ByteLineAt
<1> HIDE DEF line
<1>7. ASSUME NEW i \in from..n
      PROVE  text[i] # NUL
  <2>1. CASE i < end
    <3>1. i - from + 1 \in 1..(end - from) /\ from + (i - from + 1) - 1 = i
      BY <1>3, <2>1
    <3>2. QED
      BY <1>5, <1>6, <3>1 DEF NulFree
  <2>2. CASE i = end \/ i = end + 1
    BY <1>4, <2>2 DEF LineEnd, CR, LF, NUL
  <2>3. CASE i > end + 1
    <3>1. i \in (end + 2)..Len(text)
      BY <1>1, <1>3, <2>3
    <3>2. QED
      BY <1>4, <3>1
  <2>4. QED
    BY <1>3, <2>1, <2>2, <2>3
<1>8. QED
  BY <1>1, <1>7

(* One line and the lines behind it, of which there are some.              *)
FirstAndRest(U, all, here, rest) ==
  /\ here \in Seq(U) /\ rest \in Seq(Seq(U)) /\ Len(rest) >= 1
  /\ Len(all) = Len(rest) + 1 /\ all[1] = here
  /\ \A k \in 1..Len(rest) : all[k + 1] = rest[k]

(* The lines from the start of a line on.                                  *)
LEMMA LinesGoOn ==
  ASSUME NEW U, NEW text \in Seq(U), EndsAtBlankLine(text),
         NEW lines \in [1..(Len(text) + 1) -> Seq(Seq(U))],
         IsLines(text, lines), NEW from,
         from = 1 \/ (Behind(text, from) /\ ~BlankLineAt(text, from))
  PROVE  FirstAndRest(U, lines[from], ByteLineAt(text, from),
                      lines[NextCRLF(text, from) + 2])
<1>1. PICK n \in Nat : n = Len(text)
  BY LenProperties
<1>2. n >= 4 /\ LineEnd(text, n - 1)
  BY <1>1, EndOfFramed
<1>3. from \in 1..(n - 1)
  BY <1>1, <1>2 DEF Behind
<1>4. PICK end \in from..(n - 3) :
        end = NextCRLF(text, from) /\ Behind(text, end + 2)
  BY <1>1, LineByLine
<1>5. PICK next \in 1..(n - 1) : next = end + 2
  BY <1>3
<1>6. lines[from] = << ByteLineAt(text, from) >> \o lines[next]
  <2>1. from \in 1..(Len(text) + 1) /\ end # 0
    BY <1>1, <1>3
  <2>2. QED
    BY <1>4, <1>5, <2>1 DEF IsLines
<1>7. ByteLineAt(text, from) \in Seq(U)
  <2>1. /\ from \in 1..(Len(text) + 1) /\ end - 1 \in (from - 1)..Len(text)
    BY <1>1, <1>3
  <2>2. SubSeq(text, from, end - 1) \in Seq(U)
    BY <2>1, Piece
  <2>3. QED
    BY <1>4, <2>2 DEF ByteLineAt
<1>8. lines[next] \in Seq(Seq(U)) /\ next \in 1..(Len(text) + 1)
  BY <1>1
<1>9. Len(lines[next]) >= 1
  <2> DEFINE after == NextCRLF(text, next)
  <2>1. next \in Nat \ {0} /\ n - 1 \in next..(Len(text) - 1)
    BY <1>1
  <2>2. after = 0 => \A i \in next..(Len(text) - 1) : ~LineEnd(text, i)
    BY <2>1, NextLineEnd
  <2>3. after # 0
    BY <1>2, <2>1, <2>2
  <2>4. after \in next..(n - 1)
    BY <1>1, <2>1, <2>3, NextLineEnd
  <2> HIDE DEF after
  <2>5. lines[next] = << ByteLineAt(text, next) >> \o lines[after + 2]
    BY <1>8, <2>3 DEF IsLines, after
  <2>6. PICK tail \in Seq(Seq(U)) : tail = lines[after + 2]
    <3>1. after + 2 \in 1..(Len(text) + 1)
      BY <1>1, <2>4
    <3>2. QED
      BY <3>1
  <2>7. ByteLineAt(text, next) \in Seq(U)
    <3>1. /\ next \in 1..(Len(text) + 1) /\ after - 1 \in (next - 1)..Len(text)
      BY <1>1, <2>4
    <3>2. SubSeq(text, next, after - 1) \in Seq(U)
      BY <3>1, Piece
    <3>3. QED
      BY <3>2 DEF ByteLineAt, after
  <2>8. QED
    BY <2>5, <2>6, <2>7
<1>10. PICK rest \in Seq(Seq(U)), here \in Seq(U) :
         rest = lines[next] /\ here = ByteLineAt(text, from)
  BY <1>7, <1>8
<1>11. /\ Len(<< here >> \o rest) = Len(rest) + 1
       /\ (<< here >> \o rest)[1] = here
       /\ \A k \in 1..Len(rest) : (<< here >> \o rest)[k + 1] = rest[k]
  OBVIOUS
<1>12. lines[from] = << here >> \o rest /\ lines[NextCRLF(text, from) + 2] = rest
  BY <1>4, <1>5, <1>6, <1>10
<1>13. FirstAndRest(U, << here >> \o rest, here, rest)
  BY <1>9, <1>10, <1>11 DEF FirstAndRest
<1>14. QED
  BY <1>10, <1>12, <1>13

(* At the blank line the text ends.                                        *)
LEMMA BlankLineEndsText ==
  ASSUME NEW U, NEW text \in Seq(U), EndsAtBlankLine(text), NEW from,
         Behind(text, from), BlankLineAt(text, from)
  PROVE  from + 1 = Len(text)
<1>1. PICK n \in Nat : n = Len(text)
  BY LenProperties
<1>2. from < n /\ LineEnd(text, from)
  BY <1>1 DEF BlankLineAt, LineEnd
<1>3. from \in Int /\ from - 2 \in 1..(n - 3) /\ LineEnd(text, from - 2)
  BY <1>1 DEF Behind
<1>4. /\ (from - 2) + 2 = from /\ (from - 2) + 3 = from + 1
      /\ from - 2 \in ScanRange(text)
  BY <1>1, <1>3 DEF ScanRange
<1>5. TerminatorAt(text, from - 2)
  BY <1>2, <1>3, <1>4 DEF TerminatorAt, LineEnd
<1>6. QED
  BY <1>4, <1>5, BlankLineIsLast

(* A text whose lines hold no NUL holds none.                              *)
LEMMA LinesHoldTheText ==
  ASSUME NEW U, NEW text \in Seq(U), EndsAtBlankLine(text),
         NEW lines \in [1..(Len(text) + 1) -> Seq(Seq(U))],
         IsLines(text, lines),
         \A k \in 1..(Len(lines[1]) - 1) : NulFree(lines[1][k])
  PROVE  \A i \in 1..Len(text) : text[i] # NUL
<1> DEFINE S == {from \in 3..(Len(text) - 1) : Behind(text, from)}
           N == Len(text)
           m == [from \in S |-> N - from]
           Clean(from) == \A k \in 1..(Len(lines[from]) - 1) : NulFree(lines[from][k])
           P == {from \in S :
                   Clean(from) => \A i \in from..Len(text) : text[i] # NUL}
           Next(from) == NextCRLF(text, from)
<1>1. PICK n \in Nat : n = Len(text)
  BY LenProperties
<1>2. ASSUME NEW from, Clean(from),
             from = 1 \/ (Behind(text, from) /\ ~BlankLineAt(text, from))
      PROVE  /\ NulFree(ByteLineAt(text, from)) /\ Next(from) + 2 \in S
             /\ Next(from) \in Nat /\ from \in Nat /\ Next(from) >= from
             /\ Clean(Next(from) + 2)
  <2>1. PICK end \in Nat, rest \in {lines[Next(from) + 2]} :
          end = Next(from) /\ rest = lines[end + 2]
    <3>1. from \in Nat
      BY <1>1, <1>2 DEF Behind
    <3>2. Next(from) \in Nat
      BY <1>1, <1>2, <3>1, LineByLine
    <3>3. QED
      BY <3>2
  <2>2. FirstAndRest(U, lines[from], ByteLineAt(text, from), rest)
    BY <1>2, <2>1, LinesGoOn
  <2>3. PICK k \in Nat :
          /\ k = Len(rest) /\ k >= 1 /\ Len(lines[from]) = k + 1
          /\ lines[from][1] = ByteLineAt(text, from)
          /\ \A j \in 1..k : lines[from][j + 1] = rest[j]
    BY <2>2, LenProperties DEF FirstAndRest
  <2>4. NulFree(ByteLineAt(text, from))
    BY <1>2, <2>3
  <2>5. ASSUME NEW j \in 1..(k - 1)
        PROVE  NulFree(rest[j])
    <3>1. j + 1 \in 1..((k + 1) - 1) /\ j \in 1..k
      OBVIOUS
    <3>2. QED
      BY <1>2, <2>3, <3>1
  <2>6. end \in from..(Len(text) - 3) /\ Behind(text, end + 2)
    BY <1>2, <2>1, LineByLine
  <2>7. from \in Nat
    BY <1>1, <1>2 DEF Behind
  <2>8. QED
    BY <1>1, <2>1, <2>3, <2>4, <2>5, <2>6, <2>7 DEF Behind
<1>3. ASSUME NEW from \in S, \A q \in S : m[q] < m[from] => q \in P, Clean(from)
      PROVE  \A i \in from..Len(text) : text[i] # NUL
  <2>1. from \in 3..(n - 1) /\ Behind(text, from)
    BY <1>1
  <2>2. CASE BlankLineAt(text, from)
    <3>1. from + 1 = n
      BY <1>1, <2>1, <2>2, BlankLineEndsText
    <3>2. text[from] = CR /\ text[from + 1] = LF
      BY <2>2 DEF BlankLineAt
    <3>3. \A i \in from..Len(text) : i = from \/ i = from + 1
      BY <1>1, <2>1, <3>1
    <3>4. QED
      BY <3>2, <3>3 DEF CR, LF, NUL
  <2>3. CASE ~BlankLineAt(text, from)
    <3>1. /\ NulFree(ByteLineAt(text, from)) /\ Next(from) + 2 \in S
          /\ Next(from) \in Nat /\ Next(from) >= from /\ Clean(Next(from) + 2)
      BY <1>2, <1>3, <2>1, <2>3
    <3>2. m[Next(from) + 2] < m[from]
      BY <1>1, <2>1, <3>1
    <3>3. Next(from) + 2 \in P
      BY <1>3, <3>1, <3>2
    <3>4. \A i \in (NextCRLF(text, from) + 2)..Len(text) : text[i] # NUL
      BY <3>1, <3>3
    <3>5. QED
      BY <2>1, <2>3, <3>1, <3>4, OneLineMore
  <2>4. QED
    BY <2>2, <2>3
<1>4. \A from \in S : from \in P
  <2>1. \A from \in S : (\A q \in S : m[q] < m[from] => q \in P) => from \in P
    BY <1>3
  <2>2. m \in [S -> 0..N] /\ N \in Nat
    BY <1>1
  <2> HIDE DEF P, S, m, N
  <2>3. Inductive(S, N, m, P)
    BY <2>1, <2>2 DEF Inductive
  <2>4. QED
    BY <2>3, MeasureInduction
<1>5. /\ NulFree(ByteLineAt(text, 1)) /\ Next(1) + 2 \in S
      /\ Clean(Next(1) + 2)
  BY <1>2
<1>6. \A i \in (NextCRLF(text, 1) + 2)..Len(text) : text[i] # NUL
  BY <1>4, <1>5
<1>7. QED
  BY <1>5, <1>6, OneLineMore

(* A line cut at two SP into what the grammar asks for.                    *)
CutAt(line, first, second) ==
  /\ first \in Nat /\ second \in Nat
  /\ first > 1 /\ first < METHOD_SIZE + 1 /\ first < second
  /\ second + 1 = Len(line)
  /\ line[first] = "SP" /\ line[second] = "SP"
  /\ \A i \in 1..(first - 1) : http_is_tchar(line[i])
  /\ IsTarget(SubSeq(line, first + 1, second - 1))
  /\ \A i \in (first + 1)..(second - 1) : line[i] # "SP" /\ line[i] # NUL
  /\ line[second + 1] \in {"HTTP/1.0", "HTTP/1.1"}
  /\ SubSeq(line, second + 1, Len(line)) \in { << "HTTP/1.0" >>, << "HTTP/1.1" >> }

(* A request line of the grammar is cut like that.                         *)
LEMMA RequestLineIsCut ==
  ASSUME NEW U, NEW line \in Seq(U), IsRequestLine(line)
  PROVE  \E first, second : CutAt(line, first, second)
<1>1. PICK n \in Nat : n = Len(line) /\ DOMAIN line = 1..n
  BY LenProperties
<1> DEFINE Method(first) == SubSeq(line, 1, first - 1)
           Target(first, second) == SubSeq(line, first + 1, second - 1)
           Version(second) == SubSeq(line, second + 1, Len(line))
<1>2. PICK first \in 1..n, second \in 1..n :
        /\ first < second /\ line[first] = "SP" /\ line[second] = "SP"
        /\ IsToken(Method(first), METHOD_SIZE)
        /\ IsTarget(Target(first, second))
        /\ Version(second) \in { << "HTTP/1.0" >>, << "HTTP/1.1" >> }
  BY <1>1 DEF IsRequestLine
<1>3. /\ Len(Method(first)) = first - 1
      /\ DOMAIN Method(first) = 1..(first - 1)
      /\ \A i \in 1..(first - 1) : Method(first)[i] = line[i]
  <2>1. /\ 1 \in 1..(Len(line) + 1) /\ first - 1 \in (1 - 1)..Len(line)
        /\ first - 1 - 1 + 1 = first - 1
        /\ \A i \in 1..(first - 1) : 1 + i - 1 = i
    BY <1>1
  <2>2. QED
    BY <2>1, Piece
<1>4. /\ Target(first, second) \in Seq(U)
      /\ Len(Target(first, second)) = second - first - 1
      /\ \A i \in 1..(second - first - 1) :
           Target(first, second)[i] = line[first + i]
  <2>1. /\ first + 1 \in 1..(Len(line) + 1)
        /\ second - 1 \in (first + 1 - 1)..Len(line)
        /\ second - 1 - (first + 1) + 1 = second - first - 1
        /\ \A i \in 1..(second - first - 1) : (first + 1) + i - 1 = first + i
    BY <1>1, <1>2
  <2>2. QED
    BY <2>1, Piece
<1>5. /\ Len(Version(second)) = n - second
      /\ \A i \in 1..(n - second) : Version(second)[i] = line[second + i]
  <2>1. /\ second + 1 \in 1..(Len(line) + 1)
        /\ Len(line) \in (second + 1 - 1)..Len(line)
        /\ Len(line) - (second + 1) + 1 = n - second
        /\ \A i \in 1..(n - second) : (second + 1) + i - 1 = second + i
    BY <1>1
  <2>2. QED
    BY <2>1, Piece
<1>6. PICK target \in Seq(U), version \in {Version(second)} :
        target = Target(first, second) /\ version = Version(second)
  BY <1>4
<1> HIDE DEF Method, Target, Version
<1>7. /\ first - 1 \in 1..(METHOD_SIZE - 1)
      /\ \A i \in 1..(first - 1) : http_is_tchar(line[i])
  BY <1>2, <1>3 DEF IsToken, http_is_tchar
<1>8. ASSUME NEW i \in (first + 1)..(second - 1)
      PROVE  line[i] # "SP" /\ line[i] # NUL
  <2>1. PICK j \in 1..(second - first - 1) : i = first + j
    <3>1. i - first \in 1..(second - first - 1) /\ i = first + (i - first)
      OBVIOUS
    <3>2. QED
      BY <3>1
  <2>2. target[j] # "SP" /\ target[j] # NUL
    <3>1. j \in 1..Len(target)
      BY <1>4, <1>6
    <3>2. IsTarget(target)
      BY <1>2, <1>6
    <3>3. QED
      BY <3>1, <3>2, TargetIsParsed
  <2>3. QED
    BY <1>4, <1>6, <2>1, <2>2
<1>9. n - second = 1 /\ line[second + 1] \in {"HTTP/1.0", "HTTP/1.1"}
  <2>1. Len(version) = 1 /\ version[1] \in {"HTTP/1.0", "HTTP/1.1"}
    BY <1>2, <1>6
  <2>2. n - second = 1
    BY <1>5, <1>6, <2>1
  <2>3. 1 \in 1..(n - second)
    BY <2>2
  <2>4. QED
    BY <1>5, <1>6, <2>1, <2>2, <2>3
<1>10. first > 1 /\ first < METHOD_SIZE + 1 /\ second + 1 = Len(line)
  BY <1>1, <1>7, <1>9, Sizes
<1>11. CutAt(line, first, second)
  BY <1>2, <1>7, <1>8, <1>9, <1>10 DEF CutAt, Target, Version
<1>12. QED
  BY <1>11

(* It holds no NUL.                                                        *)
LEMMA RequestLineIsClean ==
  ASSUME NEW U, NEW line \in Seq(U), IsRequestLine(line)
  PROVE  NulFree(line)
<1>1. PICK first, second : CutAt(line, first, second)
  BY RequestLineIsCut
<1>2. PICK n \in Nat : n = Len(line)
  BY LenProperties
<1>3. first \in Nat /\ second \in Nat /\ first < second /\ second + 1 = n
  BY <1>1, <1>2 DEF CutAt
<1>4. ASSUME NEW i \in 1..n
      PROVE  line[i] # NUL
  <2>1. CASE i < first
    <3>1. http_is_tchar(line[i])
      BY <1>1, <1>3, <2>1 DEF CutAt
    <3>2. QED
      BY <3>1 DEF http_is_tchar, Control
  <2>2. CASE i = first \/ i = second
    BY <1>1, <2>2 DEF CutAt, NUL
  <2>3. CASE first < i /\ i < second
    BY <1>1, <1>3, <2>3 DEF CutAt
  <2>4. CASE i > second
    <3>1. i = second + 1
      BY <1>3, <2>4
    <3>2. QED
      BY <1>1, <3>1 DEF CutAt, NUL
  <2>5. QED
    BY <1>3, <2>1, <2>2, <2>3, <2>4
<1>5. QED
  BY <1>2, <1>4 DEF NulFree

(* memchr finds the SP that is the first.                                  *)
LEMMA SpaceIsFound ==
  ASSUME NEW s, NEW from \in Nat \ {0}, NEW end \in Int,
         NEW first \in from..(end - 1), s[first] = "SP",
         \A i \in from..(first - 1) : s[i] # "SP"
  PROVE  FindUnit(s, "SP", from, end) = first
<1>1. PICK c : c = "SP"
  OBVIOUS
<1>2. FindUnit(s, c, from, end) = first
  BY <1>1, UnitIsFound
<1>3. QED
  BY <1>1, <1>2

(* A request line of the grammar is parsed.                                *)
LEMMA RequestLineIsParsed ==
  ASSUME NEW U, NEW text \in Seq(U), NEW end \in 1..(Len(text) - 1),
         FindCRLF(text, 1) = end, IsRequestLine(SubSeq(text, 1, end - 1))
  PROVE  LET r == http_parse_request_line(text)
         IN  /\ r.ok /\ http_parse_target_ok(r.target)
             /\ r.version \in { << "HTTP/1.1" >>, << "HTTP/1.0" >> }
<1> DEFINE line == SubSeq(text, 1, end - 1)
           r == http_parse_request_line(text)
           First == FindUnit(text, "SP", 1, end)
           Second == FindUnit(text, "SP", First + 1, end)
           Third == FindUnit(text, "SP", Second + 1, end)
           Method == SubSeq(text, 1, First - 1)
           Target == SubSeq(text, First + 1, Second - 1)
           Version == SubSeq(text, Second + 1, end - 1)
<1>1. PICK n \in Nat : n = Len(text)
  BY LenProperties
<1>2. /\ line \in Seq(U) /\ Len(line) = end - 1
      /\ \A i \in 1..(end - 1) : line[i] = text[i]
  <2>1. /\ 1 \in 1..(Len(text) + 1) /\ end - 1 \in (1 - 1)..Len(text)
        /\ end - 1 - 1 + 1 = end - 1 /\ \A i \in 1..(end - 1) : 1 + i - 1 = i
    BY <1>1
  <2>2. QED
    BY <2>1, Piece
<1>3. PICK first, second : CutAt(line, first, second)
  BY <1>2, RequestLineIsCut
<1>4. /\ first \in 2..METHOD_SIZE /\ second \in (first + 1)..(end - 2)
      /\ second + 1 = end - 1 /\ first \in 1..(end - 1) /\ first \in Nat
      /\ second \in 1..(end - 1) /\ second \in Nat
  BY <1>1, <1>2, <1>3, Sizes DEF CutAt
<1>5. /\ text[first] = "SP" /\ text[second] = "SP"
      /\ \A i \in 1..(first - 1) : http_is_tchar(text[i])
      /\ \A i \in (first + 1)..(second - 1) : text[i] # "SP"
      /\ text[second + 1] # "SP"
  <2>1. /\ line[first] = "SP" /\ line[second] = "SP"
        /\ \A i \in 1..(first - 1) : http_is_tchar(line[i])
        /\ \A i \in (first + 1)..(second - 1) : line[i] # "SP"
        /\ line[second + 1] # "SP"
    BY <1>3 DEF CutAt
  <2>2. /\ second + 1 \in 1..(end - 1)
        /\ \A i \in 1..(first - 1) : i \in 1..(end - 1)
        /\ \A i \in (first + 1)..(second - 1) : i \in 1..(end - 1)
    BY <1>4
  <2> HIDE DEF line
  <2>3. QED
    BY <1>2, <1>4, <2>1, <2>2
<1>6. First = first
  <2>1. \A i \in 1..(first - 1) : text[i] # "SP"
    BY <1>5 DEF http_is_tchar, Separators
  <2>2. 1 \in Nat \ {0} /\ end \in Int
    BY <1>1
  <2>3. QED
    BY <1>4, <1>5, <2>1, <2>2, SpaceIsFound
<1> HIDE DEF First
<1>7. Second = second
  <2>1. PICK from \in Nat \ {0} : from = first + 1
    BY <1>4
  <2>2. /\ second \in from..(end - 1) /\ end \in Int
        /\ \A i \in from..(second - 1) : text[i] # "SP"
    BY <1>1, <1>4, <1>5, <2>1
  <2>3. FindUnit(text, "SP", from, end) = second
    BY <1>5, <2>2, SpaceIsFound
  <2>4. QED
    BY <1>6, <2>1, <2>3
<1> HIDE DEF Second
<1>8. Third = 0
  <2>1. PICK from \in Nat \ {0}, c \in {"SP"} : from = second + 1 /\ c = "SP"
    BY <1>4
  <2>2. end \in Int /\ \A i \in from..(end - 1) : text[i] # c
    BY <1>1, <1>4, <1>5, <2>1
  <2>3. FindUnit(text, c, from, end) = 0
    BY <2>2, UnitIsMissing
  <2>4. QED
    BY <1>7, <2>1, <2>3
<1> HIDE DEF Third
<1>9. /\ Len(Method) = first - 1 /\ DOMAIN Method = 1..(first - 1)
      /\ \A i \in 1..(first - 1) : Method[i] = text[i]
  <2>1. /\ 1 \in 1..(Len(text) + 1) /\ first - 1 \in (1 - 1)..Len(text)
        /\ first - 1 - 1 + 1 = first - 1
        /\ \A i \in 1..(first - 1) : 1 + i - 1 = i
    BY <1>1, <1>4
  <2>2. QED
    BY <1>6, <2>1, Piece
<1>10. Target \in Seq(U) /\ IsTarget(Target)
  <2>1. SubSeq(line, first + 1, second - 1) = SubSeq(text, first + 1, second - 1)
    <3>1. /\ end - 1 \in 0..Len(text) /\ first + 1 \in 1..((end - 1) + 1)
          /\ second - 1 \in ((first + 1) - 1)..(end - 1)
      BY <1>1, <1>4
    <3>2. QED
      BY <3>1, PieceOfPiece
  <2>2. /\ first + 1 \in 1..(Len(text) + 1)
        /\ second - 1 \in (first + 1 - 1)..Len(text)
    BY <1>1, <1>4
  <2>3. SubSeq(text, first + 1, second - 1) \in Seq(U)
    BY <2>2, Piece
  <2>4. IsTarget(SubSeq(line, first + 1, second - 1))
    BY <1>3 DEF CutAt
  <2>5. QED
    BY <1>6, <1>7, <2>1, <2>3, <2>4
<1>11. Version \in { << "HTTP/1.1" >>, << "HTTP/1.0" >> }
  <2>1. SubSeq(line, second + 1, end - 1) = SubSeq(text, second + 1, end - 1)
    <3>1. /\ end - 1 \in 0..Len(text) /\ second + 1 \in 1..((end - 1) + 1)
          /\ end - 1 \in ((second + 1) - 1)..(end - 1)
      BY <1>1, <1>4
    <3>2. QED
      BY <3>1, PieceOfPiece
  <2>2. SubSeq(line, second + 1, end - 1) \in { << "HTTP/1.0" >>, << "HTTP/1.1" >> }
    BY <1>2, <1>3 DEF CutAt
  <2>3. QED
    BY <1>7, <2>1, <2>2
<1>12. /\ Len(Method) \in 1..(METHOD_SIZE - 1)
       /\ \A i \in DOMAIN Method : http_is_tchar(Method[i])
  <2>1. first - 1 \in 1..(METHOD_SIZE - 1)
    BY <1>4, Sizes
  <2> HIDE DEF Method
  <2>2. QED
    BY <1>5, <1>9, <2>1
<1>13. Len(Target) \in 1..(TARGET_SIZE - 1) /\ http_parse_target_ok(Target)
  <2> HIDE DEF Target
  <2>1. QED
    BY <1>10, TargetIsParsed
<1>14. Len(Version) \in 1..(VERSION_SIZE - 1)
  <2> HIDE DEF Version
  <2>1. Len(Version) = 1
    BY <1>11
  <2>2. QED
    BY <2>1, SizesAssumption
<1>15. end # 0 /\ First # 0 /\ Second # 0
  BY <1>1, <1>4, <1>6, <1>7
<1>16. /\ r.target = Target /\ r.version = Version
       /\ r.ok = (/\ end # 0 /\ First # 0 /\ Second # 0 /\ Third = 0
                  /\ Len(Method) \in 1..(METHOD_SIZE - 1)
                  /\ \A i \in DOMAIN Method : http_is_tchar(Method[i])
                  /\ Len(Target) \in 1..(TARGET_SIZE - 1)
                  /\ Len(Version) \in 1..(VERSION_SIZE - 1))
  BY DEF http_parse_request_line, First, Second, Third
<1> HIDE DEF Method, Target, Version, r
<1>17. r.ok
  BY <1>8, <1>12, <1>13, <1>14, <1>15, <1>16
<1>18. QED
  BY <1>11, <1>13, <1>16, <1>17 DEF r

(* The lines from some position on, with count headers stored, are field   *)
(* lines and the blank line, and there is room for them.                   *)
Welcome(config, count, lines) ==
  /\ Len(lines) >= 1 /\ count + (Len(lines) - 1) <= config.http_max_headers
  /\ \A k \in 1..(Len(lines) - 1) : IsFieldLine(lines[k], config)

LimitsAreNumbers(config) ==
  /\ config.http_max_headers \in Nat
  /\ config.http_header_name_max \in Nat /\ config.http_header_value_max \in Nat

(* The loop over the headers reaches the blank line.                       *)
LEMMA LoopReachesBlankLine ==
  ASSUME NEW U, NEW text \in Seq(U), EndsAtBlankLine(text),
         NEW config, LimitsAreNumbers(config),
         \A i \in 1..Len(text) : text[i] # NUL,
         NEW lines \in [1..(Len(text) + 1) -> Seq(Seq(U))], IsLines(text, lines),
         NEW loop \in [LoopAt(text) -> LoopResult(U)], IsLoop(text, config, loop),
         NEW start, Behind(text, start), Welcome(config, 0, lines[start])
  PROVE  loop[<< start, 0 >>].result = "OK"
<1> DEFINE S == {at \in LoopAt(text) : Behind(text, at[1])}
           N == Len(text) + 1
           m == [at \in S |-> N - at[1]]
           P == {at \in S : Welcome(config, at[2], lines[at[1]])
                              => loop[at].result = "OK"}
<1>1. PICK n \in Nat : n = Len(text)
  BY LenProperties
<1>2. PICK max \in Nat : max = config.http_max_headers
  BY DEF LimitsAreNumbers
<1>3. ASSUME NEW at \in S, \A q \in S : m[q] < m[at] => q \in P,
             Welcome(config, at[2], lines[at[1]])
      PROVE  loop[at].result = "OK"
  <2>1. PICK line \in 1..(n + 1), count \in Nat :
          at = << line, count >> /\ line = at[1] /\ count = at[2]
    BY <1>1 DEF LoopAt
  <2>2. Behind(text, line) /\ line \in 3..(n - 1)
    BY <1>1, <2>1 DEF Behind
  <2> DEFINE end == FindCRLF(text, line)
             next == << end + 2, count + 1 >>
             rest == loop[next]
  <2>3. loop[at] = ParseHeader(text, config, line, count, rest)
    BY <2>1 DEF IsLoop
  <2>4. CASE BlankLineAt(text, line)
    <3>1. ~Goes(text, config, line, count)
      BY <2>4 DEF Goes
    <3> HIDE DEF rest
    <3>2. QED
      BY <2>3, <2>4, <3>1, IterationStops
  <2>5. CASE ~BlankLineAt(text, line)
    <3>1. end = NextCRLF(text, line)
      BY NoNulHidesNothing
    <3>2. end \in line..(n - 3) /\ Behind(text, end + 2)
      BY <1>1, <2>2, <2>5, <3>1, LineByLine
    <3>3. FirstAndRest(U, lines[line], ByteLineAt(text, line), lines[end + 2])
      BY <2>2, <2>5, <3>1, LinesGoOn
    <3>4. ByteLineAt(text, line) = LineAt(text, line)
      BY <3>1 DEF ByteLineAt, LineAt
    <3>5. PICK l \in Seq(Seq(U)), here \in Seq(U), all \in {lines[line]} :
            l = lines[end + 2] /\ here = LineAt(text, line) /\ all = lines[line]
      BY <3>3, <3>4 DEF FirstAndRest
    <3>6. PICK k \in Nat :
            /\ k = Len(l) /\ k >= 1 /\ Len(all) = k + 1 /\ all[1] = here
            /\ \A j \in 1..k : all[j + 1] = l[j]
      BY <3>3, <3>4, <3>5, LenProperties DEF FirstAndRest
    <3>7. /\ count + ((k + 1) - 1) <= max
          /\ \A j \in 1..((k + 1) - 1) : IsFieldLine(all[j], config)
      BY <1>2, <1>3, <2>1, <3>5, <3>6 DEF Welcome
    <3> HIDE DEF end
    <3>8. IsFieldLine(here, config)
      <4>1. 1 \in 1..((k + 1) - 1)
        BY <3>6
      <4>2. QED
        BY <3>6, <3>7, <4>1
    <3>9. HeaderLine(here, config).result = "next"
      BY <3>8, FieldLineIsStored DEF LimitsAreNumbers
    <3>10. ~TooMany(count, config)
      BY <1>2, <3>6, <3>7 DEF TooMany
    <3>11. Goes(text, config, line, count)
      <4>1. end # 0
        BY <2>2, <3>2
      <4>2. QED
        BY <2>5, <3>5, <3>9, <3>10, <4>1 DEF Goes, end
    <3>12. loop[at].result = loop[next].result
      <4> DEFINE header == HeaderLine(LineAt(text, line), config).header
      <4>1. rest = loop[next]
        OBVIOUS
      <4> HIDE DEF rest, next
      <4>2. ParseHeader(text, config, line, count, rest)
              = [result |-> rest.result, headers |-> << header >> \o rest.headers]
        BY <3>11, IterationGoes
      <4> HIDE DEF header
      <4>3. QED
        BY <2>3, <4>1, <4>2
    <3>13. next \in S /\ m[next] < m[at]
      <4>1. next \in S /\ end + 2 > line
        BY <1>1, <2>2, <3>2 DEF LoopAt
      <4>2. QED
        BY <1>1, <2>1, <2>2, <3>2, <4>1
    <3>14. Welcome(config, count + 1, l)
      <4>1. count + 1 + (k - 1) <= max
        BY <3>6, <3>7
      <4>2. ASSUME NEW j \in 1..(k - 1)
            PROVE  IsFieldLine(l[j], config)
        <5>1. j + 1 \in 1..((k + 1) - 1) /\ j \in 1..k
          OBVIOUS
        <5>2. QED
          BY <3>6, <3>7, <5>1
      <4>3. QED
        BY <1>2, <3>6, <4>1, <4>2 DEF Welcome
    <3>15. next \in P
      BY <1>3, <3>13
    <3>16. loop[next].result = "OK"
      BY <3>5, <3>14, <3>15
    <3>17. QED
      BY <3>12, <3>16
  <2>6. QED
    BY <2>4, <2>5
<1>4. \A at \in S : at \in P
  <2>1. \A at \in S : (\A q \in S : m[q] < m[at] => q \in P) => at \in P
    BY <1>3
  <2>2. m \in [S -> 0..N] /\ N \in Nat
    BY <1>1 DEF LoopAt
  <2> HIDE DEF P, S, m, N
  <2>3. Inductive(S, N, m, P)
    BY <2>1, <2>2 DEF Inductive
  <2>4. QED
    BY <2>3, MeasureInduction
<1>5. << start, 0 >> \in S
  BY <1>1 DEF LoopAt, Behind
<1>6. QED
  BY <1>4, <1>5

(* What the grammar allows and the limits have room for is accepted.       *)
LEMMA WellFormedIsParsed ==
  ASSUME NEW U, NEW text \in Seq(U), EndsAtBlankLine(text),
         NEW config, LimitsAreNumbers(config), WellFormed(text, config)
  PROVE  http_parse_request(text, config).parse_result = "OK"
<1>1. PICK lines \in [1..(Len(text) + 1) -> Seq(Seq(U))] :
        IsLines(text, lines) /\ Lines(text) = lines[1]
  BY LinesRun
<1>2. PICK n \in Nat, max \in Nat :
        n = Len(text) /\ max = config.http_max_headers
  BY LenProperties DEF LimitsAreNumbers
<1> DEFINE end == NextCRLF(text, 1)
<1>3. end \in 1..(n - 3) /\ Behind(text, end + 2)
  BY <1>2, LineByLine
<1>4. FirstAndRest(U, lines[1], ByteLineAt(text, 1), lines[end + 2])
  BY <1>1, LinesGoOn
<1>5. PICK l \in Seq(Seq(U)), here \in Seq(U), all \in {lines[1]} :
        l = lines[end + 2] /\ here = ByteLineAt(text, 1) /\ all = lines[1]
  BY <1>4 DEF FirstAndRest
<1>6. PICK k \in Nat :
        /\ k = Len(l) /\ k >= 1 /\ Len(all) = k + 1 /\ all[1] = here
        /\ \A j \in 1..k : all[j + 1] = l[j]
  BY <1>4, <1>5, LenProperties DEF FirstAndRest
<1>7. /\ k + 1 \in 2..(max + 2) /\ IsRequestLine(here)
      /\ \A j \in 2..((k + 1) - 1) : IsFieldLine(all[j], config)
  BY <1>1, <1>2, <1>5, <1>6 DEF WellFormed
<1>8. ASSUME NEW j \in 1..(k - 1)
      PROVE  IsFieldLine(l[j], config)
  <2>1. j + 1 \in 2..((k + 1) - 1) /\ j \in 1..k
    OBVIOUS
  <2>2. QED
    BY <1>6, <1>7, <2>1
<1>9. Welcome(config, 0, l)
  <2>1. 0 + (k - 1) <= max
    BY <1>7
  <2>2. QED
    BY <1>2, <1>6, <1>8, <2>1 DEF Welcome
<1> HIDE DEF end
<1>10. \A i \in 1..Len(text) : text[i] # NUL
  <2>1. ASSUME NEW j \in 1..((k + 1) - 1)
        PROVE  NulFree(all[j])
    <3>1. CASE j = 1
      BY <1>6, <1>7, <3>1, RequestLineIsClean
    <3>2. CASE j # 1
      <4>1. PICK i \in 1..(k - 1) : j = i + 1
        <5>1. j - 1 \in 1..(k - 1) /\ j = (j - 1) + 1
          BY <3>2
        <5>2. QED
          BY <5>1
      <4>2. all[j] = l[i] /\ l[i] \in Seq(U)
        <5>1. i \in 1..k /\ i \in 1..Len(l)
          BY <1>6
        <5>2. QED
          BY <1>6, <4>1, <5>1, ElementOfSeq
      <4>3. QED
        BY <1>8, <4>2, FieldLineIsStored DEF NulFree, LimitsAreNumbers
    <3>3. QED
      BY <3>1, <3>2
  <2>2. QED
    BY <1>1, <1>5, <1>6, <2>1, LinesHoldTheText
<1>11. FindCRLF(text, 1) = end
  BY <1>10, NoNulHidesNothing DEF end
<1>12. PICK loop \in [LoopAt(text) -> LoopResult(U)] :
         /\ IsLoop(text, config, loop)
         /\ http_parse_headers(text, config) = loop[<< end + 2, 0 >>]
  <2>1. end # 0
    BY <1>3
  <2>2. QED
    BY <1>11, <2>1, LoopRuns
<1>13. http_parse_headers(text, config).result = "OK"
  <2>1. PICK start : start = end + 2
    OBVIOUS
  <2>2. Behind(text, start) /\ Welcome(config, 0, lines[start])
    BY <1>3, <1>5, <1>9, <2>1
  <2>3. loop[<< start, 0 >>].result = "OK"
    BY <1>1, <1>10, <1>12, <2>2, LoopReachesBlankLine, ZenonT(40)
  <2>4. QED
    BY <1>12, <2>1, <2>3
<1> DEFINE r == http_parse_request_line(text)
<1>14. /\ r.ok /\ http_parse_target_ok(r.target)
       /\ r.version \in { << "HTTP/1.1" >>, << "HTTP/1.0" >> }
  <2>1. end \in 1..(Len(text) - 1) /\ IsRequestLine(SubSeq(text, 1, end - 1))
    BY <1>2, <1>3, <1>5, <1>7 DEF ByteLineAt, end
  <2>2. QED
    BY <1>11, <2>1, RequestLineIsParsed
<1> HIDE DEF r
<1>15. QED
  BY <1>13, <1>14 DEF http_parse_request, r

(* The method is the word in front of the first SP.                        *)
LEMMA MethodIsFirstWord ==
  ASSUME NEW U, NEW line, NEW r, CutInto(U, line, r), NEW word,
         SubSeq(line, 1, 2) = << word, "SP" >>
  PROVE  r.method = << word >>
<1>1. PICK m \in Nat \ {0}, n \in Nat, t \in Nat :
        m = Len(r.method) /\ n = Len(line) /\ t = Len(r.target)
        /\ n >= 2
  <2>1. /\ Len(r.method) \in 1..(METHOD_SIZE - 1) /\ line \in Seq(U)
        /\ r.target \in Seq(U) /\ r.version \in Seq(U)
        /\ Len(line) = Len(r.method) + Len(r.target) + Len(r.version) + 2
    BY DEF CutInto
  <2>2. Len(r.method) \in Nat \ {0}
    BY <2>1, Sizes
  <2>3. Len(r.target) \in Nat /\ Len(r.version) \in Nat /\ Len(line) \in Nat
    BY <2>1, LenProperties
  <2>4. Len(line) >= 2
    <3>1. PICK a \in Nat, b \in Nat, c \in Nat :
            a = Len(r.method) /\ b = Len(r.target) /\ c = Len(r.version)
      BY <2>2, <2>3
    <3>2. Len(line) = a + b + c + 2
      BY <2>1, <3>1
    <3>3. QED
      BY <3>2
  <2>5. QED
    BY <2>2, <2>3, <2>4
<1>2. /\ line \in Seq(U) /\ r.method \in Seq(U)
      /\ \A i \in 1..m : line[i] = r.method[i] /\ http_is_tchar(r.method[i])
  BY <1>1 DEF CutInto
<1>3. line[1] = word /\ line[2] = "SP"
  <2>1. /\ 1 \in 1..(Len(line) + 1) /\ 2 \in (1 - 1)..Len(line) /\ 2 - 1 + 1 = 2
        /\ 1 \in 1..2 /\ 2 \in 1..2 /\ 1 + 1 - 1 = 1 /\ 1 + 2 - 1 = 2
    BY <1>1
  <2>2. \A i \in 1..2 : SubSeq(line, 1, 2)[i] = line[1 + i - 1]
    BY <1>2, <2>1, Piece
  <2>3. SubSeq(line, 1, 2)[1] = line[1] /\ SubSeq(line, 1, 2)[2] = line[2]
    BY <2>1, <2>2
  <2>4. << word, "SP" >>[1] = word /\ << word, "SP" >>[2] = "SP"
    OBVIOUS
  <2>5. QED
    BY <2>3, <2>4
<1>4. m = 1
  <2>1. ~http_is_tchar("SP")
    BY DEF http_is_tchar, Separators
  <2>2. ~(2 \in 1..m)
    BY <1>2, <1>3, <2>1
  <2>3. QED
    BY <2>2
<1>5. r.method[1] = word
  <2>1. 1 \in 1..m
    BY <1>4
  <2>2. QED
    BY <1>2, <1>3, <2>1
<1>6. word \in U /\ Len(r.method) = 1
  <2>1. 1 \in 1..Len(r.method)
    BY <1>1, <1>4
  <2>2. QED
    BY <1>1, <1>2, <1>4, <1>5, <2>1, ElementOfSeq
<1>7. << word >> \in Seq(U) /\ Len(<< word >>) = 1 /\ << word >>[1] = word
  BY <1>6
<1>8. \A i \in 1..1 : r.method[i] = << word >>[i]
  BY <1>5, <1>7
<1>9. QED
  BY <1>2, <1>6, <1>7, <1>8, SeqEqual

(* A plain request is not refused.                                         *)
LEMMA PlainOpensFile ==
  ASSUME NEW U, NEW text, NEW config, NEW r, ParsedFrom(U, text, config, r),
         LimitsAreNumbers(config), WellFormed(text, config), IsPlain(text)
  PROVE  OpensFile(r)
<1>1. r.parse_result = "OK"
  BY WellFormedIsParsed DEF ParsedFrom
<1>2. PICK line : Understood(U, text, config, r, line)
  BY <1>1, AcceptedIsUnderstood
<1>3. /\ CutInto(U, Lines(text)[1], line) /\ r.method = line.method
      /\ Accounted(U, text, config, r.headers)
      /\ line.target \in Seq(U) /\ http_parse_target_ok(line.target)
  BY <1>2 DEF Understood, CutInto
<1>4. line.target[1] = "/"
  BY <1>3, AcceptedTarget
<1>5. r.method \in { << "GET" >>, << "HEAD" >> }
  <2>1. SubSeq(Lines(text)[1], 1, 2) \in {<< "GET", "SP" >>, << "HEAD", "SP" >>}
    BY DEF IsPlain
  <2>2. PICK word \in {"GET", "HEAD"} :
          SubSeq(Lines(text)[1], 1, 2) = << word, "SP" >>
    BY <2>1
  <2>3. r.method = << word >>
    BY <1>3, <2>2, MethodIsFirstWord
  <2>4. QED
    BY <2>2, <2>3
<1>6. ASSUME NEW word
      PROVE  /\ \A k \in LinesNamed(text, word) :
                  /\ k \in Nat /\ k - 1 \in DOMAIN r.headers
                  /\ r.headers[k - 1].name = << word >>
             /\ \A i \in DOMAIN r.headers :
                  r.headers[i].name = << word >>
                    => i \in Nat /\ i + 1 \in LinesNamed(text, word)
  <2>1. /\ \A k \in LinesNamed(text, word) :
             /\ k \in Nat /\ k - 1 \in DOMAIN r.headers
             /\ r.headers[k - 1].name = << word >>
             /\ StoredFrom(U, Lines(text)[k], r.headers[k - 1], config)
        /\ \A i \in DOMAIN r.headers :
             r.headers[i].name = << word >>
               => i \in Nat /\ i + 1 \in LinesNamed(text, word)
    BY <1>3, <1>4, NamedLines, Zenon
  <2>2. QED
    BY <2>1
<1>7. http_validate_host(r)
  <2>1. PICK host : host = "Host"
    OBVIOUS
  <2>2. PICK k : LinesNamed(text, host) = {k}
    BY <2>1 DEF IsPlain
  <2>3. /\ k \in Nat /\ k - 1 \in DOMAIN r.headers
        /\ r.headers[k - 1].name = << host >>
    BY <1>6, <2>2
  <2>4. ASSUME NEW i \in DOMAIN r.headers, r.headers[i].name = << host >>
        PROVE  i = k - 1
    <3>1. i \in Nat /\ i + 1 \in LinesNamed(text, host)
      BY <1>6, <2>4
    <3>2. QED
      BY <2>2, <2>3, <3>1
  <2>5. Named(r, << host >>) = {k - 1}
    BY <2>3, <2>4 DEF Named
  <2>6. Cardinality({k - 1}) = 1
    BY FS_Singleton
  <2>7. QED
    BY <2>1, <2>5, <2>6 DEF http_validate_host
<1>8. HasNoBody(r)
  <2>1. PICK length, encoding :
          length = "Content-Length" /\ encoding = "Transfer-Encoding"
    OBVIOUS
  <2>2. LinesNamed(text, length) = {} /\ LinesNamed(text, encoding) = {}
    BY <2>1 DEF IsPlain
  <2>3. \A i \in DOMAIN r.headers : /\ r.headers[i].name # << length >>
                                    /\ r.headers[i].name # << encoding >>
    BY <1>6, <2>2
  <2>4. QED
    BY <2>1, <2>3 DEF HasNoBody
<1>9. http_validate_request_framing(r) = "none"
  BY <1>1, <1>8, FramingOfAccepted
<1>10. QED
  BY <1>1, <1>5, <1>7, <1>9 DEF OpensFile, Refusal, http_method_allowed

=============================================================================
