--------------------------- MODULE SequenceLemmas ---------------------------
(***************************************************************************)
(* What the proofs of several modules need to know about sequences, by     *)
(* their indices; and induction over the naturals as the existence of a    *)
(* least counterexample, from which a function defined by recursion on its *)
(* argument is known to exist.  Then what Without leaves of a list.        *)
(***************************************************************************)
EXTENDS Lists, SequenceTheorems, WellFoundedInduction, TLAPS

-----------------------------------------------------------------------------
(* Sequences.                                                              *)

\* A sequence's domain, and its elements.
LEMMA SeqFacts ==
  ASSUME NEW S, NEW s \in Seq(S)
  PROVE  /\ Len(s) \in Nat
         /\ DOMAIN s = 1..Len(s)
         /\ \A i \in DOMAIN s : s[i] \in S
         /\ s = <<>> <=> Len(s) = 0
  OBVIOUS

\* What is put at the end comes after all that was there.
LEMMA AppendFacts ==
  ASSUME NEW S, NEW s \in Seq(S), NEW e \in S
  PROVE  /\ Append(s, e) \in Seq(S)
         /\ Append(s, e) # <<>>
         /\ Len(Append(s, e)) = Len(s) + 1
         /\ DOMAIN Append(s, e) = 1..(Len(s) + 1)
         /\ \A i \in 1..Len(s) : Append(s, e)[i] = s[i]
         /\ Append(s, e)[Len(s) + 1] = e
  BY AppendProperties, SeqFacts

\* What is taken is the first, and everything after it moves up.
LEMMA TailFacts ==
  ASSUME NEW S, NEW s \in Seq(S), s # <<>>
  PROVE  /\ Len(s) \in Nat \ {0}
         /\ Head(s) = s[1]
         /\ Head(s) \in S
         /\ Tail(s) \in Seq(S)
         /\ Len(Tail(s)) = Len(s) - 1
         /\ DOMAIN Tail(s) = 1..(Len(s) - 1)
         /\ \A i \in 1..(Len(s) - 1) : Tail(s)[i] = s[i + 1]
  BY HeadTailProperties, SeqFacts

\* An element put before the others.
LEMMA PushFacts ==
  ASSUME NEW S, NEW s \in Seq(S), NEW e \in S
  PROVE  /\ <<e>> \o s \in Seq(S)
         /\ <<e>> \o s # <<>>
         /\ Len(<<e>> \o s) = Len(s) + 1
         /\ DOMAIN (<<e>> \o s) = 1..(Len(s) + 1)
         /\ (<<e>> \o s)[1] = e
         /\ \A i \in 2..(Len(s) + 1) : (<<e>> \o s)[i] = s[i - 1]
  <1>1. <<e>> \in Seq(S) /\ Len(<<e>>) = 1 /\ <<e>>[1] = e
    OBVIOUS
  <1> QED
    BY <1>1, ConcatProperties, SeqFacts

\* Two sequences, one after the other.
LEMMA ConcatFacts ==
  ASSUME NEW S, NEW s \in Seq(S), NEW t \in Seq(S)
  PROVE  /\ s \o t \in Seq(S)
         /\ Len(s \o t) = Len(s) + Len(t)
         /\ DOMAIN (s \o t) = 1..(Len(s) + Len(t))
         /\ \A i \in 1..Len(s) : (s \o t)[i] = s[i]
         /\ \A i \in (Len(s) + 1)..(Len(s) + Len(t)) : (s \o t)[i] = t[i - Len(s)]
  BY ConcatProperties, SeqFacts

\* A stretch of a sequence.
LEMMA SubSeqFacts ==
  ASSUME NEW S, NEW s \in Seq(S), NEW a \in Int, NEW b \in Int,
         a >= 1, b <= Len(s), a <= b + 1
  PROVE  /\ SubSeq(s, a, b) \in Seq(S)
         /\ Len(SubSeq(s, a, b)) = b + 1 - a
         /\ DOMAIN SubSeq(s, a, b) = 1..(b + 1 - a)
         /\ \A i \in 1..(b + 1 - a) : SubSeq(s, a, b)[i] = s[a + i - 1]
  <1>1. \A i \in a..b : s[i] \in S
    BY SeqFacts
  <1>2. Len(s) \in Nat
    OBVIOUS
  <1> QED
    BY <1>1, <1>2, SubSeqProperties

\* Sequences of one length and the same elements are the same.
LEMMA SameSequence ==
  ASSUME NEW S, NEW s \in Seq(S), NEW T, NEW t \in Seq(T), Len(s) = Len(t),
         \A i \in 1..Len(s) : s[i] = t[i]
  PROVE  s = t
  BY SeqEqual

-----------------------------------------------------------------------------
(* Induction.                                                              *)

\* Every set of naturals has a least: a statement about all of them that fails
\* somewhere fails at a first place.
LEMMA LeastNatural ==
  ASSUME NEW T \in SUBSET Nat, T # {}
  PROVE  \E x \in T : \A y \in T : x <= y
  <1>1. \E x \in T : \A y \in T : ~(<<y, x>> \in OpToRel(<, Nat))
    BY NatLessThanWellFounded, WFMin
  <1>2. \E x \in T : \A y \in T : ~(y < x)
    BY <1>1 DEF OpToRel
  <1> QED
    BY <1>2

\* Every bounded one has a greatest.
LEMMA GreatestNatural ==
  ASSUME NEW T \in SUBSET Nat, T # {}, NEW n \in Nat, \A x \in T : x <= n
  PROVE  \E x \in T : \A y \in T : y <= x
  <1> DEFINE U == {m \in Nat : \A y \in T : y <= m}
  <1>1. PICK m \in U : \A y \in U : m <= y
    <2>1. n \in U /\ U \in SUBSET Nat
      OBVIOUS
    <2> QED
      BY <2>1, LeastNatural
  <1>2. m \in T
    <2> SUFFICES ASSUME m \notin T PROVE FALSE
      OBVIOUS
    <2>1. \A y \in T : y < m
      BY <1>1
    <2>2. m - 1 \in Nat
      <3>1. PICK y : y \in T
        OBVIOUS
      <3>2. y \in Nat /\ m \in Nat /\ y < m
        BY <2>1, <3>1
      <3> QED
        BY <3>2
    <2>3. m - 1 \in U
      BY <2>1, <2>2
    <2> QED
      BY <1>1, <2>3
  <1> QED
    BY <1>1, <1>2

\* What holds of 0, and of every number up to n whose predecessor it holds of,
\* holds up to n.
LEMMA InductionUpTo ==
  ASSUME NEW n \in Nat, NEW P, 0 \in P, \A i \in 1..n : i - 1 \in P => i \in P
  PROVE  \A i \in 0..n : i \in P
  <1> DEFINE T == {i \in 0..n : i \notin P}
  <1> SUFFICES ASSUME T # {} PROVE FALSE
    OBVIOUS
  <1>1. PICK m \in T : \A y \in T : m <= y
    <2>1. T \in SUBSET Nat
      OBVIOUS
    <2> QED
      BY <2>1, LeastNatural
  <1>2. m \in 1..n /\ m - 1 \in 0..n /\ m - 1 \notin T
    BY <1>1
  <1> QED
    BY <1>1, <1>2

\* f holds the values of a carried through n steps.
Iterates(f, n, S, a, step) ==
  /\ f \in [0..n -> S]
  /\ f[0] = a
  /\ \A i \in 1..n : f[i] = step[i][f[i - 1]]

LEMMA IterationExists ==
  ASSUME NEW n \in Nat, NEW S, NEW a \in S, NEW step \in [1..n -> [S -> S]]
  PROVE  \E f : Iterates(f, n, S, a, step)
  <1> DEFINE Has(m) == \E f \in [0..m -> S] :
                         f[0] = a /\ \A i \in 1..m : f[i] = step[i][f[i - 1]]
             P == {m \in 0..n : Has(m)}
  <1>1. Has(0)
    <2> DEFINE f == [i \in 0..0 |-> a]
    <2>1. f \in [0..0 -> S] /\ f[0] = a /\ 1..0 = {}
      OBVIOUS
    <2> QED
      BY <2>1
  <1>2. ASSUME NEW m \in 1..n, Has(m - 1) PROVE Has(m)
    <2>1. PICK f \in [0..(m - 1) -> S] :
            f[0] = a /\ \A i \in 1..(m - 1) : f[i] = step[i][f[i - 1]]
      BY <1>2
    <2> DEFINE g == [i \in 0..m |-> IF i = m THEN step[m][f[m - 1]] ELSE f[i]]
    <2>2. step[m][f[m - 1]] \in S
      OBVIOUS
    <2>3. \A i \in 0..m : g[i] \in S
      BY <2>2
    <2>4. g \in [0..m -> S]
      BY <2>3
    <2>5. g[0] = a
      BY <2>1
    <2>6. ASSUME NEW i \in 1..m PROVE g[i] = step[i][g[i - 1]]
      BY <2>1
    <2> QED
      BY <2>4, <2>5, <2>6
  <1> HIDE DEF Has
  <1>3. 0 \in P /\ \A i \in 1..n : i - 1 \in P => i \in P
    BY <1>1, <1>2
  <1>4. Has(n)
    <2> HIDE DEF P
    <2>1. n \in P
      <3>1. n \in 0..n
        OBVIOUS
      <3> QED
        BY <1>3, <3>1, InductionUpTo
    <2> QED
      BY <2>1 DEF P
  <1> QED
    BY <1>4 DEF Has, Iterates

-----------------------------------------------------------------------------
(* A list with some of its entries left out.                               *)

\* Without, by the places it keeps.
Keeps(s, t, o, dropped) ==
  /\ o \in [1..Len(s) -> 1..Len(t)]
  /\ \A a, b \in 1..Len(s) : a < b => o[a] < o[b]
  /\ \A a \in 1..Len(s) : s[a] = t[o[a]] /\ t[o[a]] \notin dropped
  /\ \A n \in 1..Len(t) : t[n] \notin dropped => \E a \in 1..Len(s) : o[a] = n

\* A turn of its loop.
WithoutStep(list, dropped, n, s) ==
  IF list[n] \in dropped THEN s ELSE Append(s, list[n])

\* f[n] is what is kept of the first n entries.
WithoutBy(list, dropped, S, f) ==
  /\ f \in [0..Len(list) -> Seq(S)]
  /\ Without(list, dropped) = f[Len(list)]
  /\ f[0] = <<>>
  /\ \A n \in 1..Len(list) : f[n] = WithoutStep(list, dropped, n, f[n - 1])

LEMMA WithoutSteps ==
  ASSUME NEW S, NEW list \in Seq(S), NEW dropped
  PROVE  \E f : WithoutBy(list, dropped, S, f)
  <1> DEFINE Is(f) == f = [n \in 0..Len(list) |->
                             IF n = 0 THEN <<>>
                             ELSE WithoutStep(list, dropped, n, f[n - 1])]
  <1>1. PICK m \in Nat : m = Len(list)
    OBVIOUS
  <1>2. PICK Q, e : Q = Seq(S) /\ e = <<>>
    OBVIOUS
  <1>3. e \in Q
    BY <1>2
  <1>4. PICK step : step = [n \in 1..m |-> [s \in Q |-> WithoutStep(list, dropped, n, s)]]
    OBVIOUS
  <1>5. \A n \in 1..m, s \in Q : WithoutStep(list, dropped, n, s) \in Q
    <2>1. \A n \in 1..m : list[n] \in S
      BY <1>1
    <2> QED
      BY <1>2, <2>1 DEF WithoutStep
  <1>6. step \in [1..m -> [Q -> Q]]
        /\ \A n \in 1..m, s \in Q : step[n][s] = WithoutStep(list, dropped, n, s)
    BY <1>4, <1>5
  <1>7. PICK f : Iterates(f, m, Q, e, step)
    BY <1>3, <1>6, IterationExists
  <1>8. \A n \in 1..m : f[n] = WithoutStep(list, dropped, n, f[n - 1])
    BY <1>6, <1>7 DEF Iterates
  <1>9. Is(f)
    BY <1>1, <1>2, <1>7, <1>8 DEF Iterates
  <1>10. PICK g : g = CHOOSE h : Is(h)
    OBVIOUS
  <1>11. Is(g)
    BY <1>9, <1>10
  <1>12. Without(list, dropped) = g[m]
    BY <1>1, <1>10 DEF Without, WithoutStep
  <1>13. g[0] = e /\ \A n \in 1..m : g[n] = WithoutStep(list, dropped, n, g[n - 1])
    BY <1>1, <1>2, <1>11
  <1>14. \A n \in 0..m : g[n] \in Q
    <2> DEFINE P == {n \in 0..m : g[n] \in Q}
    <2>1. 0 \in P /\ \A n \in 1..m : n - 1 \in P => n \in P
      BY <1>3, <1>5, <1>13
    <2> HIDE DEF P
    <2>2. \A n \in 0..m : n \in P
      BY <2>1, InductionUpTo
    <2> QED
      BY <2>2 DEF P
  <1>15. g \in [0..m -> Q]
    BY <1>1, <1>11, <1>14
  <1> QED
    BY <1>1, <1>2, <1>12, <1>13, <1>15 DEF WithoutBy

\* The list s that n turns have made.
KeptAt(list, dropped, n, s, o) ==
  /\ o \in [1..Len(s) -> 1..n]
  /\ \A a, b \in 1..Len(s) : a < b => o[a] < o[b]
  /\ \A a \in 1..Len(s) : s[a] = list[o[a]] /\ list[o[a]] \notin dropped
  /\ \A k \in 1..n : list[k] \notin dropped => \E a \in 1..Len(s) : o[a] = k

KeptSoFar(list, dropped, S, n, s) ==
  s \in Seq(S) /\ \E o : KeptAt(list, dropped, n, s, o)

LEMMA WithoutStepKeeps ==
  ASSUME NEW S, NEW list \in Seq(S), NEW dropped, NEW n \in 1..Len(list), NEW s,
         KeptSoFar(list, dropped, S, n - 1, s)
  PROVE  KeptSoFar(list, dropped, S, n, WithoutStep(list, dropped, n, s))
  <1>1. Len(list) \in Nat /\ list[n] \in S /\ n \in Nat \ {0}
    OBVIOUS
  <1>2. s \in Seq(S) /\ Len(s) \in Nat
    BY DEF KeptSoFar
  <1>3. PICK o : KeptAt(list, dropped, n - 1, s, o)
    BY DEF KeptSoFar
  <1>6. /\ o \in [1..Len(s) -> 1..(n - 1)]
        /\ \A a, b \in 1..Len(s) : a < b => o[a] < o[b]
        /\ \A a \in 1..Len(s) : s[a] = list[o[a]] /\ list[o[a]] \notin dropped
        /\ \A k \in 1..(n - 1) : list[k] \notin dropped => \E a \in 1..Len(s) : o[a] = k
    BY <1>3 DEF KeptAt
  <1>4. CASE list[n] \in dropped
    <2>1. o \in [1..Len(s) -> 1..n]
      BY <1>1, <1>6
    <2>2. \A k \in 1..n : list[k] \notin dropped => \E a \in 1..Len(s) : o[a] = k
      BY <1>1, <1>6, <1>4
    <2>3. KeptAt(list, dropped, n, s, o)
      BY <1>6, <2>1, <2>2 DEF KeptAt
    <2> QED
      BY <1>2, <1>4, <2>3 DEF KeptSoFar, WithoutStep
  <1>5. CASE list[n] \notin dropped
    <2>1. PICK t : t = Append(s, list[n])
      OBVIOUS
    <2>2. PICK l \in Nat : l = Len(s) + 1
      BY <1>2
    <2>3. /\ t \in Seq(S) /\ Len(t) = l
          /\ \A a \in 1..Len(s) : t[a] = s[a]
          /\ t[l] = list[n]
      BY <1>1, <1>2, <2>1, <2>2, AppendFacts
    <2>4. PICK q : q = [a \in 1..l |-> IF a = l THEN n ELSE o[a]]
      OBVIOUS
    <2>5. \A a \in 1..l : a = l \/ a \in 1..Len(s)
      BY <1>2, <2>2
    <2>6. \A a \in 1..Len(s) : q[a] = o[a] /\ o[a] \in 1..(n - 1) /\ a < l
      BY <1>2, <1>6, <2>2, <2>4
    <2>7. q[l] = n
      BY <2>2, <2>4
    <2>8. q \in [1..l -> 1..n]
      <3>1. \A a \in 1..l : q[a] \in 1..n
        BY <1>1, <2>5, <2>6, <2>7
      <3> QED
        BY <2>4, <3>1
    <2>9. ASSUME NEW a \in 1..l, NEW b \in 1..l, a < b PROVE q[a] < q[b]
      <3>1. a \in 1..Len(s)
        BY <2>2, <2>5, <2>9
      <3>2. CASE b = l
        BY <1>1, <2>6, <2>7, <3>1, <3>2
      <3>3. CASE b \in 1..Len(s)
        BY <1>6, <2>6, <2>9, <3>1, <3>3
      <3> QED
        BY <2>5, <3>2, <3>3
    <2>10. \A a \in 1..l : t[a] = list[q[a]] /\ list[q[a]] \notin dropped
      BY <1>6, <1>5, <2>3, <2>5, <2>6, <2>7
    <2>11. ASSUME NEW k \in 1..n, list[k] \notin dropped PROVE \E a \in 1..l : q[a] = k
      <3>1. CASE k = n
        BY <2>2, <2>7, <3>1
      <3>2. CASE k \in 1..(n - 1)
        <4>1. PICK a \in 1..Len(s) : o[a] = k
          BY <1>6, <2>11, <3>2
        <4>2. a \in 1..l /\ q[a] = k
          BY <1>2, <2>2, <2>6, <4>1
        <4> QED
          BY <4>2
      <3> QED
        BY <1>1, <3>1, <3>2
    <2>12. WithoutStep(list, dropped, n, s) = t
      BY <1>5, <2>1 DEF WithoutStep
    <2>13. KeptAt(list, dropped, n, t, q)
      BY <2>3, <2>8, <2>9, <2>10, <2>11 DEF KeptAt
    <2> QED
      BY <2>3, <2>12, <2>13 DEF KeptSoFar
  <1> QED
    BY <1>4, <1>5

\* Without keeps, in their order, exactly the entries that are not dropped.
LEMMA WithoutKeeps ==
  ASSUME NEW S, NEW list \in Seq(S), NEW dropped
  PROVE  /\ Without(list, dropped) \in Seq(S)
         /\ \E o : Keeps(Without(list, dropped), list, o, dropped)
  <1>1. PICK f : WithoutBy(list, dropped, S, f)
    BY WithoutSteps
  <1>2. PICK n \in Nat : n = Len(list)
    OBVIOUS
  <1> DEFINE P == {i \in 0..n : KeptSoFar(list, dropped, S, i, f[i])}
  <1>3. 0 \in P
    <2>1. f[0] = <<>> /\ 0 \in 0..n
      BY <1>1 DEF WithoutBy
    <2>2. KeptSoFar(list, dropped, S, 0, <<>>)
      <3>0. <<>> \in Seq(S) /\ Len(<<>>) = 0
        OBVIOUS
      <3>1. PICK e : e = <<>> /\ e \in Seq(S) /\ Len(e) = 0
        BY <3>0
      <3>2. 1..Len(e) = {} /\ 1..0 = {}
        BY <3>1
      <3>3. [a \in {} |-> a] \in [1..Len(e) -> 1..0]
        BY <3>2
      <3> QED
        BY <3>1, <3>2, <3>3 DEF KeptSoFar, KeptAt
    <2> QED
      BY <2>1, <2>2
  <1>4. ASSUME NEW i \in 1..n, i - 1 \in P PROVE i \in P
    BY <1>1, <1>2, <1>4, WithoutStepKeeps DEF WithoutBy
  <1>5. \A i \in 0..n : i \in P
    <2> HIDE DEF P
    <2> QED
      BY <1>3, <1>4, InductionUpTo
  <1>6. KeptSoFar(list, dropped, S, n, f[n])
    BY <1>5
  <1>7. Without(list, dropped) = f[n]
    BY <1>1, <1>2 DEF WithoutBy
  <1> QED
    BY <1>2, <1>6, <1>7 DEF KeptSoFar, KeptAt, Keeps

\* One entry more.
LEMMA WithoutAppend ==
  ASSUME NEW S, NEW list \in Seq(S), NEW x \in S, NEW dropped
  PROVE  Without(Append(list, x), dropped) =
           IF x \in dropped THEN Without(list, dropped) ELSE Append(Without(list, dropped), x)
<1>1. PICK more : more = Append(list, x)
  OBVIOUS
<1>2. /\ more \in Seq(S) /\ Len(more) = Len(list) + 1 /\ Len(list) \in Nat
      /\ more[Len(list) + 1] = x
      /\ \A n \in 1..Len(list) : more[n] = list[n]
  BY <1>1, AppendFacts
<1>3. PICK f : WithoutBy(list, dropped, S, f)
  BY WithoutSteps
<1>4. PICK g : WithoutBy(more, dropped, S, g)
  BY <1>2, WithoutSteps
<1>5. PICK l : l = Len(list) /\ l \in Nat
  BY <1>2
<1>6. /\ f[0] = <<>> /\ g[0] = <<>>
      /\ \A n \in 1..l : f[n] = WithoutStep(list, dropped, n, f[n - 1])
      /\ \A n \in 1..(l + 1) : g[n] = WithoutStep(more, dropped, n, g[n - 1])
      /\ Without(list, dropped) = f[l] /\ Without(more, dropped) = g[l + 1]
  BY <1>2, <1>3, <1>4, <1>5 DEF WithoutBy
<1>. DEFINE P == {n \in 0..l : f[n] = g[n]}
<1>7. 0 \in P
  BY <1>5, <1>6
<1>8. ASSUME NEW n \in 1..l, n - 1 \in P
      PROVE  n \in P
  <2>1. f[n] = WithoutStep(list, dropped, n, f[n - 1]) /\ g[n] = WithoutStep(more, dropped, n, g[n - 1])
    <3>1. n \in 1..(l + 1)
      BY <1>5
    <3>. QED
      BY <1>6, <3>1
  <2>2. f[n - 1] = g[n - 1] /\ more[n] = list[n] /\ n \in 0..l
    BY <1>2, <1>5, <1>8
  <2>. QED
    BY <2>1, <2>2 DEF WithoutStep
<1>9. \A n \in 0..l : n \in P
  <2>. HIDE DEF P
  <2>. QED
    BY <1>5, <1>7, <1>8, InductionUpTo
<1>10. f[l] = g[l]
  BY <1>5, <1>9
<1>11. g[l + 1] = WithoutStep(more, dropped, l + 1, g[l])
  <2>1. PICK k : k = l + 1 /\ k \in 1..(l + 1) /\ k - 1 = l
    BY <1>5
  <2>2. g[k] = WithoutStep(more, dropped, k, g[k - 1])
    BY <1>6, <2>1
  <2>. QED
    BY <2>1, <2>2
<1>. QED
  BY <1>1, <1>2, <1>5, <1>6, <1>10, <1>11 DEF WithoutStep

\* What is left out in two goes is left out in one, and it does not matter what
\* else is to be left out.
LEMMA WithoutTwice ==
  ASSUME NEW S, NEW list \in Seq(S), NEW first, NEW second, NEW all,
         \A n \in 1..Len(list) : list[n] \in all <=> list[n] \in first \/ list[n] \in second
  PROVE  Without(Without(list, first), second) = Without(list, all)
<1>1. PICK f : WithoutBy(list, first, S, f)
  BY WithoutSteps
<1>2. PICK g : WithoutBy(list, all, S, g)
  BY WithoutSteps
<1>3. PICK l : l = Len(list) /\ l \in Nat
  <2>1. Len(list) \in Nat
    OBVIOUS
  <2>. QED
    BY <2>1
<1>4. /\ f \in [0..l -> Seq(S)]
      /\ f[0] = <<>> /\ g[0] = <<>>
      /\ \A n \in 1..l : f[n] = WithoutStep(list, first, n, f[n - 1])
      /\ \A n \in 1..l : g[n] = WithoutStep(list, all, n, g[n - 1])
      /\ Without(list, first) = f[l] /\ Without(list, all) = g[l]
  BY <1>1, <1>2, <1>3 DEF WithoutBy
<1>. DEFINE P == {n \in 0..l : Without(f[n], second) = g[n]}
<1>5. 0 \in P
  <2>1. <<>> \in Seq(S) /\ Len(<<>>) = 0
    OBVIOUS
  <2>2. PICK h : WithoutBy(<<>>, second, S, h)
    BY <2>1, WithoutSteps
  <2>3. Without(<<>>, second) = <<>>
    BY <2>1, <2>2 DEF WithoutBy
  <2>. QED
    BY <1>3, <1>4, <2>3
<1>6. ASSUME NEW n \in 1..l, n - 1 \in P
      PROVE  n \in P
  <2>1. f[n] = WithoutStep(list, first, n, f[n - 1]) /\ g[n] = WithoutStep(list, all, n, g[n - 1])
    BY <1>3, <1>4
  <2>2. PICK p : p = f[n - 1]
    OBVIOUS
  <2>3. /\ p \in Seq(S) /\ list[n] \in S /\ Without(p, second) = g[n - 1] /\ n \in 0..l
        /\ list[n] \in all <=> list[n] \in first \/ list[n] \in second
    <3>1. n - 1 \in 0..l /\ n \in 1..Len(list) /\ n \in 0..l
      BY <1>3
    <3>2. list[n] \in S
      BY <3>1
    <3>3. f[n - 1] \in Seq(S)
      BY <1>4, <3>1
    <3>4. Without(f[n - 1], second) = g[n - 1]
      BY <1>6
    <3>5. list[n] \in all <=> list[n] \in first \/ list[n] \in second
      BY <3>1
    <3>. QED
      BY <2>2, <3>1, <3>2, <3>3, <3>4, <3>5
  <2>4. Without(Append(p, list[n]), second) =
          IF list[n] \in second THEN Without(p, second) ELSE Append(Without(p, second), list[n])
    <3>1. PICK x : x = list[n]
      OBVIOUS
    <3>2. x \in S
      BY <2>3, <3>1
    <3>3. Without(Append(p, x), second) =
            IF x \in second THEN Without(p, second) ELSE Append(Without(p, second), x)
      <4>. HIDE <3>1
      <4>. QED
        BY <2>3, <3>2, WithoutAppend
    <3>. QED
      BY <3>1, <3>3
  <2>5. Without(f[n], second) = g[n]
    <3>1. CASE list[n] \in first
      BY <2>1, <2>2, <2>3, <3>1 DEF WithoutStep
    <3>2. CASE list[n] \notin first
      <4>1. f[n] = Append(p, list[n])
        BY <2>1, <2>2, <3>2 DEF WithoutStep
      <4>2. g[n] = IF list[n] \in second THEN g[n - 1] ELSE Append(g[n - 1], list[n])
        BY <2>1, <2>3, <3>2 DEF WithoutStep
      <4>. QED
        BY <2>3, <2>4, <4>1, <4>2
    <3>. QED
      BY <3>1, <3>2
  <2>. QED
    BY <2>3, <2>5
<1>7. \A n \in 0..l : n \in P
  <2>. HIDE DEF P
  <2>. QED
    BY <1>3, <1>5, <1>6, InductionUpTo
<1>. QED
  BY <1>3, <1>4, <1>7

\* Every entry that is kept was there and is not one of those left out.
LEMMA EntriesLeft ==
  ASSUME NEW S, NEW list \in Seq(S), NEW dropped
  PROVE  /\ \A n \in 1..Len(Without(list, dropped)) :
              /\ Without(list, dropped)[n] \in EntriesOf(list)
              /\ Without(list, dropped)[n] \notin dropped
         /\ \A n \in 1..Len(list) :
              list[n] \notin dropped => list[n] \in EntriesOf(Without(list, dropped))
<1>1. PICK s : s = Without(list, dropped)
  OBVIOUS
<1>2. PICK o : Keeps(s, list, o, dropped)
  BY <1>1, WithoutKeeps
<1>3. ASSUME NEW n \in 1..Len(s)
      PROVE  s[n] \in EntriesOf(list) /\ s[n] \notin dropped
  BY <1>2 DEF Keeps, EntriesOf
<1>4. ASSUME NEW n \in 1..Len(list), list[n] \notin dropped
      PROVE  list[n] \in EntriesOf(s)
  <2>1. PICK a \in 1..Len(s) : o[a] = n
    BY <1>2, <1>4 DEF Keeps
  <2>2. s[a] = list[n]
    BY <1>2, <2>1 DEF Keeps
  <2>. QED
    BY <2>1, <2>2 DEF EntriesOf
<1>. QED
  BY <1>1, <1>3, <1>4

-----------------------------------------------------------------------------
(* Recursive functions that read further on in a list.                     *)

\* A statement that holds at n, and at each place if it holds at all that follow.
LEMMA InductionDownFrom ==
  ASSUME NEW n \in Nat, NEW P, n \in P,
         \A k \in 0..(n - 1) : (\A j \in (k + 1)..n : j \in P) => k \in P
  PROVE  \A k \in 0..n : k \in P
  <1> DEFINE T == {k \in 0..n : k \notin P}
  <1> SUFFICES ASSUME T # {} PROVE FALSE
    OBVIOUS
  <1>1. PICK m \in T : \A y \in T : y <= m
    <2>1. T \in SUBSET Nat /\ \A x \in T : x <= n
      OBVIOUS
    <2> QED
      BY <2>1, GreatestNatural
  <1>2. m \in 0..(n - 1) /\ \A j \in (m + 1)..n : j \in P
    BY <1>1
  <1> QED
    BY <1>1, <1>2

\* f is a at n, and at each place before n what the step of that place makes of
\* its value further on, where the place says.
Descends(f, n, S, a, further, step) ==
  /\ f \in [0..n -> S]
  /\ f[n] = a
  /\ \A k \in 0..(n - 1) : f[k] = step[k][f[further[k]]]

LEMMA DescentExists ==
  ASSUME NEW n \in Nat, NEW S, NEW a \in S,
         NEW further, \A k \in 0..(n - 1) : further[k] \in (k + 1)..n,
         NEW step \in [0..(n - 1) -> [S -> S]]
  PROVE  \E f : Descends(f, n, S, a, further, step)
  <1> DEFINE Has(m) == \E f \in [0..n -> S] :
                         /\ f[n] = a
                         /\ \A k \in m..(n - 1) : f[k] = step[k][f[further[k]]]
             P == {m \in 0..n : Has(m)}
  <1>1. Has(n)
    <2> DEFINE f == [k \in 0..n |-> a]
    <2>1. f \in [0..n -> S] /\ f[n] = a /\ n..(n - 1) = {}
      OBVIOUS
    <2> QED
      BY <2>1
  <1>2. ASSUME NEW m \in 0..(n - 1), Has(m + 1) PROVE Has(m)
    <2>1. PICK f \in [0..n -> S] :
            /\ f[n] = a
            /\ \A k \in (m + 1)..(n - 1) : f[k] = step[k][f[further[k]]]
      BY <1>2
    <2>2. PICK v : v = step[m][f[further[m]]]
      OBVIOUS
    <2>3. v \in S
      <3>1. further[m] \in 0..n
        BY SMT
      <3> QED
        BY <2>2, <3>1
    <2> DEFINE g == [k \in 0..n |-> IF k = m THEN v ELSE f[k]]
    <2>4. g \in [0..n -> S] /\ g[n] = a
      BY <2>1, <2>3
    <2>5. \A k \in m..(n - 1) : further[k] \in (k + 1)..n /\ further[k] \in (m + 1)..n
      OBVIOUS
    <2>6. \A k \in m..(n - 1) : g[further[k]] = f[further[k]]
      BY <2>5
    <2>7. g[m] = v
      OBVIOUS
    <2>8. \A k \in (m + 1)..(n - 1) : g[k] = f[k]
      OBVIOUS
    <2> HIDE DEF g
    <2>9. ASSUME NEW k \in m..(n - 1) PROVE g[k] = step[k][g[further[k]]]
      <3>1. CASE k = m
        BY <2>2, <2>6, <2>7, <3>1
      <3>2. CASE k # m
        BY <2>1, <2>6, <2>8, <3>2
      <3> QED
        BY <3>1, <3>2
    <2> QED
      BY <2>4, <2>9
  <1> HIDE DEF Has
  <1>3. n \in P /\ \A k \in 0..(n - 1) : (\A j \in (k + 1)..n : j \in P) => k \in P
    BY <1>1, <1>2
  <1>4. Has(0)
    <2> HIDE DEF P
    <2>1. 0 \in P
      BY <1>3, InductionDownFrom
    <2> QED
      BY <2>1 DEF P
  <1> QED
    BY <1>4 DEF Has, Descends
=============================================================================
