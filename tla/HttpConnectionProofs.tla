------------------------ MODULE HttpConnectionProofs ------------------------
(***************************************************************************)
(* What the receive buffer's operators guarantee for buffers of any length *)
(* over any alphabet, after the facts about positions, recursive functions *)
(* and pieces of sequences that all the proofs share.                      *)
(***************************************************************************)
EXTENDS HttpConnection, SequenceTheorems, WellFoundedInduction, TLAPS

-----------------------------------------------------------------------------
(* General facts                                                           *)

(* A non-empty set of positions has a first one.                           *)
LEMMA FirstPosition ==
  ASSUME NEW T \in SUBSET Nat, T # {}
  PROVE  \E x \in T : \A y \in T : x <= y
<1> DEFINE Less == {p \in Nat \X Nat : p[1] < p[2]}
<1>1. IsWellFoundedOn(Less, Nat)
  BY NatLessThanWellFounded DEF OpToRel
<1>2. PICK x \in T : \A y \in T : << y, x >> \notin Less
  BY <1>1, WFMin
<1>3. ASSUME NEW y \in T
      PROVE  x <= y
  <2>1. << y, x >> \in Nat \X Nat
    OBVIOUS
  <2>2. ~(y < x)
    BY <1>2, <2>1
  <2>3. QED
    BY <2>2
<1>4. QED
  BY <1>3

(* A non-empty set of positions up to n has a last one.                    *)
LEMMA LastPosition ==
  ASSUME NEW n \in Nat, NEW T \in SUBSET (1..n), T # {}
  PROVE  \E x \in T : \A y \in T : y <= x
<1> DEFINE B == {k \in Nat : \A y \in T : y <= k}
<1>1. n \in B
  OBVIOUS
<1>2. PICK x \in B : \A y \in B : x <= y
  BY <1>1, FirstPosition
<1>3. x \in T
  <2>1. SUFFICES ASSUME x \notin T PROVE FALSE
    OBVIOUS
  <2>2. PICK z \in T : TRUE
    OBVIOUS
  <2>3. x - 1 \in Nat
    BY <1>2, <2>2
  <2>4. \A y \in T : y <= x - 1
    BY <1>2, <2>1
  <2>5. QED
    BY <1>2, <2>3, <2>4
<1>4. QED
  BY <1>2, <1>3

(* Induction over the naturals, for a set instead of a predicate.          *)
LEMMA SetInduction ==
  ASSUME NEW P, 0 \in P, \A k \in Nat : k \in P => k + 1 \in P
  PROVE  \A k \in Nat : k \in P
<1> DEFINE T == {k \in Nat : k \notin P}
<1>1. SUFFICES ASSUME T # {} PROVE FALSE
  OBVIOUS
<1>2. PICK x \in T : \A y \in T : x <= y
  BY <1>1, FirstPosition
<1>3. x # 0 /\ x - 1 \in Nat /\ x - 1 \notin T
  BY <1>2
<1>4. QED
  BY <1>2, <1>3

(* The same for a set whose elements have a bounded measure: an element is *)
(* in P if all those of smaller measure are.                               *)
Inductive(S, N, m, P) ==
  /\ N \in Nat /\ m \in [S -> 0..N]
  /\ \A p \in S : (\A q \in S : m[q] < m[p] => q \in P) => p \in P

(* Then every element is in P.                                             *)
LEMMA MeasureInduction ==
  ASSUME NEW S, NEW N, NEW m, NEW P, Inductive(S, N, m, P)
  PROVE  \A p \in S : p \in P
<1> USE DEF Inductive
<1> DEFINE T == {m[p] : p \in {q \in S : q \notin P}}
<1>1. SUFFICES ASSUME NEW p \in S, p \notin P PROVE FALSE
  OBVIOUS
<1>2. T \in SUBSET Nat /\ T # {}
  BY <1>1
<1>3. PICK x \in T : \A y \in T : x <= y
  BY <1>2, FirstPosition
<1>4. PICK q \in S : q \notin P /\ m[q] = x
  BY <1>3
<1>5. ASSUME NEW r \in S, m[r] < m[q]
      PROVE  r \in P
  <2>1. SUFFICES ASSUME r \notin P PROVE FALSE
    OBVIOUS
  <2>2. m[r] \in T
    BY <2>1
  <2>3. m[r] \in 0..N /\ m[q] \in 0..N
    OBVIOUS
  <2>4. m[q] <= m[r]
    BY <1>3, <1>4, <2>2
  <2>5. QED
    BY <1>5, <2>3, <2>4
<1>6. QED
  BY <1>4, <1>5

(* What it takes to define a function on S, with values in D, by           *)
(* recursion: the value is known where the recursion stops, and elsewhere  *)
(* is computed from the value at one other point, which is nearer to the   *)
(* end by a bounded measure m.                                             *)
Recursion(S, D, N, m, stop, next, base, comb) ==
  /\ N \in Nat /\ m \in [S -> 0..N]
  /\ stop \in SUBSET S /\ next \in [S \ stop -> S]
  /\ \A p \in S \ stop : m[next[p]] < m[p]
  /\ base \in [stop -> D] /\ comb \in [(S \ stop) \X D -> D]

Solution(f, S, stop, next, base, comb) ==
  \A p \in S : f[p] = IF p \in stop THEN base[p]
                      ELSE comb[<< p, f[next[p]] >>]

(* A function defined by recursion exists.                                 *)
LEMMA RecursionExists ==
  ASSUME NEW S, NEW D, NEW N, NEW m, NEW stop, NEW next, NEW base, NEW comb,
         Recursion(S, D, N, m, stop, next, base, comb)
  PROVE  \E f \in [S -> D] : Solution(f, S, stop, next, base, comb)
<1> USE DEF Recursion
<1> DEFINE At(k) == {p \in S : m[p] < k}
           Solves(k, f) ==
             /\ f \in [At(k) -> D]
             /\ \A p \in At(k) : f[p] = IF p \in stop THEN base[p]
                                        ELSE comb[<< p, f[next[p]] >>]
           P == {k \in Nat : \E f : Solves(k, f)}
<1>1. 0 \in P
  <2>1. At(0) = {}
    OBVIOUS
  <2>2. Solves(0, [p \in {} |-> p])
    BY <2>1
  <2>3. QED
    BY <2>2
<1>2. ASSUME NEW k \in Nat, k \in P
      PROVE  k + 1 \in P
  <2>1. PICK f : Solves(k, f)
    BY <1>2
  <2> DEFINE g == [p \in At(k + 1) |-> IF p \in stop THEN base[p]
                                       ELSE comb[<< p, f[next[p]] >>]]
  <2>2. ASSUME NEW p \in At(k + 1), p \notin stop
        PROVE  next[p] \in At(k)
    <3>1. /\ p \in S \ stop /\ next[p] \in S /\ m[next[p]] \in 0..N
          /\ m[p] \in 0..N
      BY <2>2
    <3>2. m[next[p]] < m[p] /\ m[p] < k + 1
      BY <2>2, <3>1
    <3>3. QED
      BY <3>1, <3>2
  <2>3. g \in [At(k + 1) -> D]
    <3>1. ASSUME NEW p \in At(k + 1)
          PROVE  (IF p \in stop THEN base[p] ELSE comb[<< p, f[next[p]] >>])
                   \in D
      <4>1. CASE p \in stop
        BY <4>1
      <4>2. CASE p \notin stop
        <5>1. f[next[p]] \in D /\ p \in S \ stop
          BY <2>1, <2>2, <4>2
        <5>2. QED
          BY <4>2, <5>1
      <4>3. QED
        BY <4>1, <4>2
    <3>2. QED
      BY <3>1
  <2>4. ASSUME NEW p \in At(k)
        PROVE  g[p] = f[p]
    <3>1. p \in At(k + 1)
      OBVIOUS
    <3>2. QED
      BY <2>1, <3>1
  <2>5. ASSUME NEW p \in At(k + 1)
        PROVE  g[p] = IF p \in stop THEN base[p]
                      ELSE comb[<< p, g[next[p]] >>]
    <3>1. g[p] = IF p \in stop THEN base[p] ELSE comb[<< p, f[next[p]] >>]
      OBVIOUS
    <3>2. p \notin stop => g[next[p]] = f[next[p]]
      BY <2>2, <2>4
    <3> HIDE DEF g
    <3>3. QED
      BY <3>1, <3>2
  <2>6. Solves(k + 1, g)
    <3> HIDE DEF g
    <3>1. QED
      BY <2>3, <2>5
  <2> HIDE DEF Solves, g
  <2>7. QED
    BY <2>6
<1>3. N + 1 \in P
  <2> HIDE DEF P
  <2>1. QED
    BY <1>1, <1>2, SetInduction
<1>4. At(N + 1) = S
  OBVIOUS
<1>5. QED
  BY <1>3, <1>4 DEF Solution

(* The simplest case: every value is computed from the one before it.      *)
Counting(n, D, first, step) ==
  n \in Nat /\ first \in D /\ step \in [(1..n) \X D -> D]

(* A function that counts up exists.                                       *)
LEMMA CountingRecursion ==
  ASSUME NEW n, NEW D, NEW first, NEW step, Counting(n, D, first, step)
  PROVE  \E f \in [0..n -> D] :
           f[0] = first /\ \A k \in 1..n : f[k] = step[<< k, f[k - 1] >>]
<1> DEFINE S == 0..n
           m == [k \in S |-> k]
           stop == {0}
           next == [k \in S \ stop |-> k - 1]
           base == [k \in stop |-> first]
<1> USE DEF Counting
<1>1. S \ stop = 1..n
  OBVIOUS
<1>2. /\ m \in [S -> 0..n] /\ stop \in SUBSET S
      /\ next \in [S \ stop -> S]
      /\ \A k \in S \ stop : m[next[k]] < m[k]
      /\ base \in [stop -> D]
  OBVIOUS
<1>3. \A k \in 1..n : k \in S /\ k \notin stop /\ next[k] = k - 1
  OBVIOUS
<1>4. 0 \in S /\ 0 \in stop /\ base[0] = first
  OBVIOUS
<1> HIDE DEF S, m, stop, next, base
<1>5. Recursion(S, D, n, m, stop, next, base, step)
  BY <1>1, <1>2 DEF Recursion
<1>6. PICK f \in [S -> D] : Solution(f, S, stop, next, base, step)
  BY <1>5, RecursionExists
<1>7. f[0] = first /\ \A k \in 1..n : f[k] = step[<< k, f[k - 1] >>]
  BY <1>3, <1>4, <1>6 DEF Solution
<1>8. QED
  BY <1>6, <1>7 DEF S

(* Cutting a sequence in two and joining the pieces gives it back.         *)
LEMMA CutAndJoin ==
  ASSUME NEW S, NEW s \in Seq(S), NEW n \in 0..Len(s)
  PROVE  /\ SubSeq(s, 1, n) \in Seq(S)
         /\ SubSeq(s, n + 1, Len(s)) \in Seq(S)
         /\ Len(SubSeq(s, 1, n)) = n
         /\ SubSeq(s, 1, n) \o SubSeq(s, n + 1, Len(s)) = s
<1>1. Len(s) \in Nat /\ \A i \in 1..Len(s) : s[i] \in S
  BY LenProperties, ElementOfSeq
<1>2. /\ SubSeq(s, 1, n) \in Seq(S)
      /\ Len(SubSeq(s, 1, n)) = n
  BY <1>1, SubSeqProperties
<1>3. SubSeq(s, n + 1, Len(s)) \in Seq(S)
  BY <1>1, SubSeqProperties
<1>4. SubSeq(s, 1, n) \o SubSeq(s, n + 1, Len(s)) = SubSeq(s, 1, Len(s))
  <2>1. /\ 1 \in 1..Len(s) + 1
        /\ n \in 1 - 1..Len(s)
        /\ Len(s) \in n..Len(s)
    BY <1>1
  <2>2. QED
    BY <2>1, ConcatAdjacentSubSeq, Zenon
<1>5. QED
  BY <1>2, <1>3, <1>4, SubSeqFull

(* The two pieces of a concatenation can be cut out of it again.           *)
LEMMA Pieces ==
  ASSUME NEW S, NEW a \in Seq(S), NEW b \in Seq(S)
  PROVE  /\ SubSeq(a \o b, 1, Len(a)) = a
         /\ SubSeq(a \o b, Len(a) + 1, Len(a \o b)) = b
<1> DEFINE ab == a \o b
           first == SubSeq(ab, 1, Len(a))
           second == SubSeq(ab, Len(a) + 1, Len(ab))
<1>1. Len(a) \in Nat /\ Len(b) \in Nat
  BY LenProperties
<1>2. /\ ab \in Seq(S) /\ Len(ab) = Len(a) + Len(b)
      /\ \A i \in 1..Len(a) + Len(b) :
           ab[i] = IF i <= Len(a) THEN a[i] ELSE b[i - Len(a)]
  BY ConcatProperties
<1>3. \A i \in 1..Len(ab) : ab[i] \in S
  BY <1>2, ElementOfSeq
<1> HIDE DEF ab
<1>4. /\ first \in Seq(S) /\ Len(first) = Len(a)
      /\ \A i \in 1..Len(a) : first[i] = ab[i]
  BY <1>1, <1>2, <1>3, SubSeqProperties
<1>5. /\ second \in Seq(S) /\ Len(second) = Len(b)
      /\ \A i \in 1..Len(b) : second[i] = ab[Len(a) + i]
  BY <1>1, <1>2, <1>3, SubSeqProperties
<1> HIDE DEF first, second
<1>6. first = a
  <2>1. \A i \in 1..Len(a) : first[i] = a[i]
    BY <1>1, <1>2, <1>4
  <2>2. QED
    BY <1>4, <2>1, SeqEqual
<1>7. second = b
  <2>1. ASSUME NEW i \in 1..Len(b)
        PROVE  second[i] = b[i]
    <3>1. Len(a) + i \in 1..Len(a) + Len(b) /\ ~(Len(a) + i <= Len(a))
      BY <1>1
    <3>2. ab[Len(a) + i] = b[(Len(a) + i) - Len(a)]
      BY <1>2, <3>1
    <3>3. (Len(a) + i) - Len(a) = i
      BY <1>1
    <3>4. QED
      BY <1>5, <3>2, <3>3
  <2>2. QED
    BY <1>5, <2>1, SeqEqual
<1>8. QED
  BY <1>6, <1>7 DEF ab, first, second

-----------------------------------------------------------------------------
(* The receive buffer                                                      *)

(* http_find_header_end stays inside the buffer, and NULL means that no    *)
(* position holds a blank line.                                            *)
LEMMA HeaderEnd ==
  ASSUME NEW S, NEW buffer \in Seq(S)
  PROVE  /\ http_find_header_end(buffer) \in 0..Len(buffer)
         /\ http_request_complete(buffer)
              <=> \E i \in ScanRange(buffer) : TerminatorAt(buffer, i)
<1> DEFINE T == {i \in ScanRange(buffer) : TerminatorAt(buffer, i)}
<1>1. Len(buffer) \in Nat
  BY LenProperties
<1>2. CASE T = {}
  BY <1>1, <1>2 DEF http_find_header_end, http_request_complete
<1>3. CASE T # {}
  <2>1. T \in SUBSET Nat
    BY <1>1 DEF ScanRange
  <2>2. PICK x \in T : \A y \in T : x <= y
    BY <1>3, <2>1, FirstPosition
  <2>3. IsFirstTerminator(buffer, x)
    BY <1>1, <2>2 DEF IsFirstTerminator, ScanRange
  <2> DEFINE first == CHOOSE i \in ScanRange(buffer) :
                        IsFirstTerminator(buffer, i)
  <2>4. first \in ScanRange(buffer)
    BY <2>2, <2>3
  <2>5. http_find_header_end(buffer) = first + 3
    BY <1>3 DEF http_find_header_end
  <2>6. first + 3 \in 1..Len(buffer)
    BY <1>1, <2>4 DEF ScanRange
  <2>7. QED
    BY <1>1, <1>3, <2>5, <2>6 DEF http_request_complete
<1>4. QED
  BY <1>2, <1>3

(* There is at most one first blank line, and the scan stops at it.        *)
LEMMA ScanStopsAtFirst ==
  ASSUME NEW S, NEW s \in Seq(S), NEW f, IsFirstTerminator(s, f)
  PROVE  http_find_header_end(s) = f + 3
<1>1. Len(s) \in Nat
  BY LenProperties
<1>2. f \in ScanRange(s) /\ TerminatorAt(s, f)
  BY DEF IsFirstTerminator
<1>3. ASSUME NEW i \in ScanRange(s), IsFirstTerminator(s, i)
      PROVE  i = f
  <2>1. i \in Int /\ f \in Int
    BY <1>1, <1>2 DEF ScanRange
  <2>2. ~(i < f) /\ ~(f < i)
    BY <1>2, <1>3 DEF IsFirstTerminator
  <2>3. QED
    BY <2>1, <2>2
<1>4. (CHOOSE i \in ScanRange(s) : IsFirstTerminator(s, i)) = f
  BY <1>2, <1>3
<1>5. QED
  BY <1>2, <1>4 DEF http_find_header_end

(* A complete request has a first blank line.                              *)
LEMMA CompleteHasFirst ==
  ASSUME NEW S, NEW s \in Seq(S), http_request_complete(s)
  PROVE  \E f \in ScanRange(s) : IsFirstTerminator(s, f)
<1> DEFINE T == {i \in ScanRange(s) : TerminatorAt(s, i)}
<1>1. Len(s) \in Nat
  BY LenProperties
<1>2. T # {} /\ T \in SUBSET Nat
  BY <1>1, HeaderEnd DEF ScanRange
<1>3. PICK x \in T : \A y \in T : x <= y
  BY <1>2, FirstPosition
<1>4. IsFirstTerminator(s, x)
  BY <1>1, <1>3 DEF IsFirstTerminator, ScanRange
<1>5. QED
  BY <1>3, <1>4

(* The end of a complete request does not depend on what follows it: the   *)
(* answer is the same whether recv has already returned more bytes or not. *)
LEMMA EndIgnoresWhatFollows ==
  ASSUME NEW S, NEW s \in Seq(S), NEW t \in Seq(S),
         Len(s) <= Len(t), \A i \in 1..Len(s) : t[i] = s[i],
         http_request_complete(s)
  PROVE  http_find_header_end(t) = http_find_header_end(s)
<1>1. Len(s) \in Nat /\ Len(t) \in Nat
  BY LenProperties
<1>2. PICK f \in ScanRange(s) : IsFirstTerminator(s, f)
  BY CompleteHasFirst
<1>3. ScanRange(s) \subseteq ScanRange(t)
  BY <1>1 DEF ScanRange
<1>4. ASSUME NEW i \in ScanRange(s)
      PROVE  TerminatorAt(t, i) <=> TerminatorAt(s, i)
  <2>1. /\ i \in 1..Len(s) /\ i + 1 \in 1..Len(s)
        /\ i + 2 \in 1..Len(s) /\ i + 3 \in 1..Len(s)
    BY <1>1 DEF ScanRange
  <2>2. QED
    BY <2>1 DEF TerminatorAt
<1>5. ASSUME NEW j \in ScanRange(t), j < f
      PROVE  ~TerminatorAt(t, j)
  <2>1. j \in ScanRange(s)
    BY <1>1, <1>2, <1>5 DEF ScanRange
  <2>2. QED
    BY <1>2, <1>4, <1>5, <2>1 DEF IsFirstTerminator
<1>6. IsFirstTerminator(t, f)
  BY <1>2, <1>3, <1>4, <1>5 DEF IsFirstTerminator
<1>7. QED
  BY <1>2, <1>6, ScanStopsAtFirst

(* Consuming the request at the head of the buffer loses nothing: the      *)
(* request and what http_connection_consume keeps make up the buffer.      *)
THEOREM ConsumeKeepsTheRest ==
  ASSUME NEW S, NEW buffer \in Seq(S)
  PROVE  LET length == http_connection_request_length(buffer)
         IN  /\ http_connection_request(buffer) \in Seq(S)
             /\ http_connection_consume(buffer, length) \in Seq(S)
             /\ http_connection_request(buffer)
                  \o http_connection_consume(buffer, length) = buffer
             /\ Len(http_connection_consume(buffer, length)) <= Len(buffer)
<1> DEFINE length == http_connection_request_length(buffer)
<1>1. length \in 0..Len(buffer)
  BY HeaderEnd DEF http_connection_request_length
<1>2. Len(buffer) \in Nat
  BY LenProperties
<1>3. http_connection_consume(buffer, length)
        = SubSeq(buffer, length + 1, Len(buffer))
  BY <1>1, <1>2 DEF http_connection_consume
<1>4. /\ http_connection_request(buffer) \in Seq(S)
      /\ http_connection_consume(buffer, length) \in Seq(S)
      /\ http_connection_request(buffer)
           \o http_connection_consume(buffer, length) = buffer
  BY <1>1, <1>3, CutAndJoin DEF http_connection_request
<1>5. Len(http_connection_consume(buffer, length)) <= Len(buffer)
  <2>1. Len(buffer) = Len(http_connection_request(buffer))
                        + Len(http_connection_consume(buffer, length))
    BY <1>4, ConcatProperties
  <2>2. Len(http_connection_request(buffer)) \in Nat
    BY <1>4, LenProperties
  <2>3. Len(http_connection_consume(buffer, length)) \in Nat
    BY <1>4, LenProperties
  <2>4. QED
    BY <1>2, <2>1, <2>2, <2>3
<1>6. QED
  BY <1>4, <1>5

=============================================================================
