----------------------------- MODULE FoldLemmas -----------------------------
(***************************************************************************)
(* What the proofs about counters kept over sequences rest on: induction   *)
(* over the numbers and over the sequences, both as statements about sets, *)
(* and the values that FoldLeft takes on the prefixes of a sequence.       *)
(***************************************************************************)
EXTENDS Integers, Sequences, SequencesExt, FiniteSetsExt, SequenceTheorems,
        WellFoundedInduction, TLAPS

\* A set of numbers that is not empty has a least member.
LEMMA LeastMember ==
  ASSUME NEW T \in SUBSET Nat, T # {}
  PROVE  \E n \in T : \A m \in T : n <= m
<1> DEFINE Less == OpToRel(<, Nat)
<1>1. IsWellFoundedOn(Less, Nat)
  BY NatLessThanWellFounded
<1>2. PICK n \in T : \A m \in T : ~(<<m, n>> \in Less)
  <2> HIDE DEF Less
  <2> QED BY <1>1, WFMin
<1>3. ASSUME NEW m \in T PROVE n <= m
  <2>1. <<m, n>> \in Nat \X Nat => ~(m < n)
    BY <1>2 DEF OpToRel
  <2> QED BY <2>1
<1> QED BY <1>3

\* A set of numbers with 0 that is closed under the successor has them all.
LEMMA SetInduction ==
  ASSUME NEW T \in SUBSET Nat, 0 \in T, \A n \in T : n + 1 \in T
  PROVE  T = Nat
<1> SUFFICES ASSUME Nat \ T # {} PROVE FALSE
  OBVIOUS
<1>1. PICK n \in Nat \ T : \A m \in Nat \ T : n <= m
  BY LeastMember
<1>2. n - 1 \in T
  BY <1>1
<1> QED BY <1>1, <1>2

\* A bounded set of numbers that is not empty has a greatest member, which Max returns.
LEMMA MaxMember ==
  ASSUME NEW T \in SUBSET Nat, T # {}, NEW b \in Nat, \A n \in T : n <= b
  PROVE  /\ Max(T) \in T
         /\ \A n \in T : n <= Max(T)
<1> DEFINE Gaps == {b - n : n \in T}
<1>1. Gaps \in SUBSET Nat /\ Gaps # {}
  <2>1. ASSUME NEW n \in T PROVE b - n \in Nat
    OBVIOUS
  <2> QED BY <2>1
<1>2. PICK g \in Gaps : \A h \in Gaps : g <= h
  BY <1>1, LeastMember
<1>3. PICK x \in T : g = b - x
  BY <1>2
<1>4. \A n \in T : x >= n
  BY <1>2, <1>3
<1> QED BY <1>4 DEF Max

\* The greater of two numbers.
LEMMA MaxOfTwo ==
  ASSUME NEW a \in Int, NEW b \in Int
  PROVE  Max({a, b}) = IF a >= b THEN a ELSE b
BY DEF Max

\* The lesser of two numbers.
LEMMA MinOfTwo ==
  ASSUME NEW a \in Int, NEW b \in Int
  PROVE  Min({a, b}) = IF a <= b THEN a ELSE b
BY DEF Min

\* A set of sequences with the empty one that is closed under Append has them all.
LEMMA SeqInduction ==
  ASSUME NEW S, NEW X \in SUBSET Seq(S), <<>> \in X,
         \A s \in X : \A x \in S : Append(s, x) \in X
  PROVE  X = Seq(S)
<1> DEFINE T == {n \in Nat : \A s \in Seq(S) : Len(s) = n => s \in X}
<1>1. 0 \in T
  OBVIOUS
<1>2. ASSUME NEW n \in T PROVE n + 1 \in T
  <2> SUFFICES ASSUME NEW s \in Seq(S), Len(s) = n + 1 PROVE s \in X
    OBVIOUS
  <2>1. s # <<>>
    OBVIOUS
  <2>2. PICK t \in Seq(S), x \in S : s = Append(t, x)
    BY <2>1, SequenceEmptyOrAppend
  <2>3. Len(t) = n
    BY <2>2
  <2> QED BY <2>2, <2>3
<1>3. T = Nat
  <2> HIDE DEF T
  <2> T \in SUBSET Nat
    BY DEF T
  <2> QED BY <1>1, <1>2, SetInduction
<1>4. ASSUME NEW s \in Seq(S) PROVE s \in X
  <2>1. Len(s) \in T
    BY <1>3
  <2> QED BY <2>1
<1> QED BY <1>4

\* Appending is concatenating a sequence of one member.
LEMMA AppendOne ==
  ASSUME NEW S, NEW s \in Seq(S), NEW x \in S
  PROVE  /\ Append(s, x) = s \o <<x>> /\ <<x>> \in Seq(S)
         /\ Append(s, x) \in Seq(S) /\ Len(Append(s, x)) = Len(s) + 1
OBVIOUS

\* A slice of a sequence.
LEMMA Slice ==
  ASSUME NEW S, NEW s \in Seq(S),
         NEW i \in 1..(Len(s) + 1), NEW j \in (i - 1)..Len(s)
  PROVE  /\ SubSeq(s, i, j) \in Seq(S) /\ Len(SubSeq(s, i, j)) = j - i + 1
         /\ \A k \in 1..(j - i + 1) : SubSeq(s, i, j)[k] = s[i + k - 1]
<1>1. \A k \in i..j : s[k] \in S
  BY ElementOfSeq
<1>2. /\ SubSeq(s, i, j) \in Seq(S)
      /\ Len(SubSeq(s, i, j)) = IF i <= j THEN j - i + 1 ELSE 0
      /\ \A k \in 1..(j - i + 1) : SubSeq(s, i, j)[k] = s[i + k - 1]
  BY <1>1, SubSeqProperties, i \in Int, j \in Int
<1>3. j - i + 1 = IF i <= j THEN j - i + 1 ELSE 0
  BY Len(s) \in Nat
<1> QED BY <1>2, <1>3

\* A sequence is the prefix of length k and the rest.
LEMMA Cut ==
  ASSUME NEW S, NEW s \in Seq(S), NEW k \in 0..Len(s)
  PROVE  /\ s = SubSeq(s, 1, k) \o SubSeq(s, k + 1, Len(s))
         /\ SubSeq(s, 1, k) \in Seq(S) /\ Len(SubSeq(s, 1, k)) = k
         /\ SubSeq(s, k + 1, Len(s)) \in Seq(S)
         /\ Len(SubSeq(s, k + 1, Len(s))) = Len(s) - k
<1>1. Len(s) \in Nat /\ k \in Nat /\ k + 1 \in 1..(Len(s) + 1) /\ 1 \in 1..(Len(s) + 1)
  OBVIOUS
<1>2. SubSeq(s, 1, k) \o SubSeq(s, k + 1, Len(s)) = SubSeq(s, 1, Len(s))
  BY <1>1, ConcatAdjacentSubSeq, Len(s) \in k..Len(s), k \in (1 - 1)..Len(s)
<1>3. SubSeq(s, 1, Len(s)) = s
  BY SubSeqFull
<1>4. SubSeq(s, 1, k) \in Seq(S) /\ Len(SubSeq(s, 1, k)) = k
  BY <1>1, Slice, k \in (1 - 1)..Len(s), k - 1 + 1 = k
<1>5. SubSeq(s, k + 1, Len(s)) \in Seq(S) /\ Len(SubSeq(s, k + 1, Len(s))) = Len(s) - k
  BY <1>1, Slice, Len(s) \in ((k + 1) - 1)..Len(s), Len(s) - (k + 1) + 1 = Len(s) - k
<1> QED BY <1>2, <1>3, <1>4, <1>5

-----------------------------------------------------------------------------
\* The table of a fold over the first n members of a sequence: the value of every set of
\* positions, taken from that of the set without its greatest position.
IsTable(g, base, step, s, n) ==
  /\ DOMAIN g = SUBSET (1..n)
  /\ \A T \in SUBSET (1..n) :
       g[T] = IF T = {} THEN base ELSE step[<<g[T \ {Max(T)}], s[Max(T)]>>]

\* The greatest of the first positions.
LEMMA MaxOfPrefix ==
  ASSUME NEW k \in Nat, NEW T \in SUBSET (1..k), k \in T
  PROVE  Max(T) = k
<1>1. T \in SUBSET Nat /\ T # {} /\ \A n \in T : n <= k
  OBVIOUS
<1>2. Max(T) \in T /\ \A n \in T : n <= Max(T)
  BY <1>1, MaxMember
<1>3. Max(T) \in Nat /\ Max(T) <= k /\ k <= Max(T)
  BY <1>1, <1>2
<1> QED BY <1>3

\* A table grows with the prefix it is of.
LEMMA TableGrows ==
  ASSUME NEW A, NEW S, NEW base \in A, NEW step \in [A \X S -> A], NEW s \in Seq(S),
         NEW n \in Nat, n + 1 <= Len(s),
         NEW g \in [SUBSET (1..n) -> A], IsTable(g, base, step, s, n)
  PROVE  \E h \in [SUBSET (1..(n + 1)) -> A] : IsTable(h, base, step, s, n + 1)
<1> DEFINE Value(T) == IF n + 1 \in T THEN step[<<g[T \ {n + 1}], s[n + 1]>>] ELSE g[T]
           h == [T \in SUBSET (1..(n + 1)) |-> Value(T)]
<1>1. ASSUME NEW T \in SUBSET (1..(n + 1)) PROVE Value(T) \in A
  <2>1. T \ {n + 1} \in SUBSET (1..n) /\ (n + 1 \notin T => T \in SUBSET (1..n))
    OBVIOUS
  <2>2. n + 1 \in 1..Len(s)
    OBVIOUS
  <2>3. <<g[T \ {n + 1}], s[n + 1]>> \in A \X S
    BY <2>1, <2>2, ElementOfSeq
  <2>4. step[<<g[T \ {n + 1}], s[n + 1]>>] \in A
    BY <2>3
  <2> QED BY <2>1, <2>4
<1>2. ASSUME NEW T \in SUBSET (1..(n + 1)), n + 1 \in T
      PROVE  Value(T) = step[<<Value(T \ {Max(T)}), s[Max(T)]>>] /\ T # {}
  <2>1. Max(T) = n + 1
    BY <1>2, MaxOfPrefix
  <2> QED BY <1>2, <2>1
<1>3. ASSUME NEW T \in SUBSET (1..(n + 1)), n + 1 \notin T
      PROVE  Value(T) = IF T = {} THEN base
                        ELSE step[<<Value(T \ {Max(T)}), s[Max(T)]>>]
  <2>1. T \in SUBSET (1..n)
    BY <1>3
  <2>2. g[T] = IF T = {} THEN base ELSE step[<<g[T \ {Max(T)}], s[Max(T)]>>]
    BY <2>1 DEF IsTable
  <2> QED BY <1>3, <2>2
<1>4. h \in [SUBSET (1..(n + 1)) -> A]
  <2> HIDE DEF Value
  <2> QED BY <1>1
<1>5. \A T \in SUBSET (1..(n + 1)) :
        h[T] = IF T = {} THEN base ELSE step[<<h[T \ {Max(T)}], s[Max(T)]>>]
  <2> TAKE T \in SUBSET (1..(n + 1))
  <2>1. T \ {Max(T)} \in SUBSET (1..(n + 1))
    OBVIOUS
  <2>2. h[T] = Value(T) /\ h[T \ {Max(T)}] = Value(T \ {Max(T)})
    <3> HIDE DEF Value
    <3> QED BY <2>1
  <2> HIDE DEF h, Value
  <2>3. CASE n + 1 \in T
    BY <2>2, <2>3, <1>2
  <2>4. CASE n + 1 \notin T
    BY <2>2, <2>4, <1>3
  <2> QED BY <2>3, <2>4
<1> QED BY <1>4, <1>5 DEF IsTable

\* A function folded over a sequence has a table, and the values of the table have the
\* type of the results.
LEMMA TableExists ==
  ASSUME NEW A, NEW S, NEW base \in A, NEW step \in [A \X S -> A], NEW s \in Seq(S)
  PROVE  \E g \in [SUBSET (1..Len(s)) -> A] : IsTable(g, base, step, s, Len(s))
<1> DEFINE Has(n) == \E g \in [SUBSET (1..n) -> A] : IsTable(g, base, step, s, n)
           N == {n \in Nat : n <= Len(s) => Has(n)}
<1>1. Has(0)
  <2> DEFINE g == [T \in SUBSET (1..0) |-> base]
  <2>1. g \in [SUBSET (1..0) -> A]
    OBVIOUS
  <2>2. \A T \in SUBSET (1..0) : T = {} /\ g[T] = base
    OBVIOUS
  <2> QED BY <2>1, <2>2 DEF IsTable
<1>2. ASSUME NEW n \in Nat, n + 1 <= Len(s), Has(n) PROVE Has(n + 1)
  BY <1>2, TableGrows
<1>3. N = Nat
  <2> HIDE DEF Has
  <2>1. 0 \in N /\ \A n \in N : n + 1 \in N
    BY <1>1, <1>2
  <2>2. N \in SUBSET Nat
    OBVIOUS
  <2> HIDE DEF N
  <2> QED BY <2>1, <2>2, SetInduction
<1>4. Has(Len(s))
  <2> HIDE DEF Has
  <2>1. Len(s) \in N
    BY <1>3
  <2> QED BY <2>1
<1> QED BY <1>4

\* The steps by which a table reaches the prefix of length k.
LEMMA PrefixStep ==
  ASSUME NEW n \in Nat, NEW k \in 1..n
  PROVE  /\ 1..k \in SUBSET (1..n) /\ 1..k # {}
         /\ Max(1..k) = k
         /\ (1..k) \ {Max(1..k)} = 1..(k - 1)
<1>1. Max(1..k) = k
  BY MaxOfPrefix, k \in Nat
<1>2. (1..k) \ {k} = 1..(k - 1)
  OBVIOUS
<1> QED BY <1>1, <1>2

\* A set of positions that is not empty has a greatest one.
LEMMA MaxPosition ==
  ASSUME NEW n \in Nat, NEW T \in SUBSET (1..n), T # {}
  PROVE  Max(T) \in 1..n /\ T \ {Max(T)} \in SUBSET (1..n)
<1>1. T \in SUBSET Nat /\ \A m \in T : m <= n
  OBVIOUS
<1>2. Max(T) \in T
  BY <1>1, MaxMember
<1> QED BY <1>2

\* Two tables that take the same steps have the same value for the whole prefix.
LEMMA PrefixesAgree ==
  ASSUME NEW g, NEW h, NEW n \in Nat, g[1..0] = h[1..0],
         \A k \in 1..n : g[1..(k - 1)] = h[1..(k - 1)] => g[1..k] = h[1..k]
  PROVE  g[1..n] = h[1..n]
<1> DEFINE N == {k \in Nat : k <= n => g[1..k] = h[1..k]}
<1>1. 0 \in N
  OBVIOUS
<1>2. ASSUME NEW k \in N PROVE k + 1 \in N
  <2> SUFFICES ASSUME k + 1 <= n PROVE g[1..(k + 1)] = h[1..(k + 1)]
    OBVIOUS
  <2>1. k + 1 \in 1..n /\ (k + 1) - 1 = k /\ g[1..k] = h[1..k]
    OBVIOUS
  <2> QED BY <2>1
<1>3. n \in N
  <2>1. N \in SUBSET Nat
    OBVIOUS
  <2> HIDE DEF N
  <2> QED BY <1>1, <1>2, <2>1, SetInduction
<1> QED BY <1>3
=============================================================================
