---------------------------- MODULE Stores_proofs ----------------------------
(***************************************************************************)
(* Proofs about Stores, for any number of processes, any commands and      *)
(* crashes, and all that earlier sessions may have left: first what the    *)
(* operations on lists of StoreLists make of a list that is sound, then    *)
(* the inductive invariant, action by action.                              *)
(***************************************************************************)
EXTENDS Stores, SequenceLemmas

-----------------------------------------------------------------------------
(* Lists made of the entries of another.                                   *)

\* The entries of s are those of t at the places o, no two at one place.
Selects(s, t, o) ==
  /\ o \in [1..Len(s) -> 1..Len(t)]
  /\ \A a, b \in 1..Len(s) : o[a] = o[b] => a = b
  /\ \A a \in 1..Len(s) : s[a] = t[o[a]]

IsSelection(s, t) == \E o : Selects(s, t, o)

\* The entries that are not dropped, and no others, are left.
LEMMA WithoutEntries ==
  ASSUME NEW S, NEW list \in Seq(S), NEW dropped
  PROVE  /\ EntriesOf(Without(list, dropped)) = EntriesOf(list) \ dropped
         /\ IsSelection(Without(list, dropped), list)
  <1>1. PICK w : w = Without(list, dropped)
    OBVIOUS
  <1>2. PICK o : Keeps(w, list, o, dropped)
    BY <1>1, WithoutKeeps
  <1>3. w \in Seq(S) /\ Len(w) \in Nat
    BY <1>1, WithoutKeeps
  <1>4. ASSUME NEW a \in 1..Len(w), NEW b \in 1..Len(w), o[a] = o[b] PROVE a = b
    <2>1. o[a] \in Int /\ ~(o[a] < o[b]) /\ ~(o[b] < o[a])
      BY <1>2, <1>4 DEF Keeps
    <2>2. ~(a < b) /\ ~(b < a)
      BY <1>2, <2>1 DEF Keeps
    <2> QED
      BY <2>2
  <1>5. Selects(w, list, o)
    BY <1>2, <1>4 DEF Keeps, Selects
  <1>6. ASSUME NEW e \in EntriesOf(w) PROVE e \in EntriesOf(list) \ dropped
    BY <1>2 DEF EntriesOf, Keeps
  <1>7. ASSUME NEW e \in EntriesOf(list) \ dropped PROVE e \in EntriesOf(w)
    <2>1. PICK n \in 1..Len(list) : e = list[n]
      BY DEF EntriesOf
    <2>2. PICK a \in 1..Len(w) : o[a] = n
      BY <1>2, <2>1 DEF Keeps
    <2> QED
      BY <1>2, <2>1, <2>2 DEF EntriesOf, Keeps
  <1> QED
    BY <1>1, <1>5, <1>6, <1>7 DEF IsSelection

\* What is left stays in order.
LEMMA WithoutInOrder ==
  ASSUME NEW S, NEW list \in Seq(S), NEW dropped, InOrder(list)
  PROVE  InOrder(Without(list, dropped))
  <1>1. PICK w : w = Without(list, dropped)
    OBVIOUS
  <1>2. PICK o : Keeps(w, list, o, dropped)
    BY <1>1, WithoutKeeps
  <1>3. ASSUME NEW a \in 1..Len(w), NEW b \in 1..Len(w), a < b
        PROVE  w[a].name.letter <= w[b].name.letter
    <2>1. /\ o[a] \in 1..Len(list) /\ o[b] \in 1..Len(list) /\ o[a] < o[b]
          /\ w[a] = list[o[a]] /\ w[b] = list[o[b]]
      BY <1>2, <1>3 DEF Keeps
    <2>2. list[o[a]].name.letter <= list[o[b]].name.letter
      BY <2>1 DEF InOrder
    <2> QED
      BY <2>1, <2>2
  <1> QED
    BY <1>1, <1>3 DEF InOrder

LEMMA CappedFacts ==
  ASSUME NEW S, NEW list \in Seq(S), NEW n \in Nat
  PROVE  /\ Capped(list, n) \in Seq(S)
         /\ Len(Capped(list, n)) <= n
         /\ Len(Capped(list, n)) <= Len(list)
         /\ \A a \in 1..Len(Capped(list, n)) : Capped(list, n)[a] = list[a]
         /\ Len(list) > 0 /\ n > 0 => Len(Capped(list, n)) > 0
  <1>1. PICK m \in Nat : m = IF Len(list) < n THEN Len(list) ELSE n
    OBVIOUS
  <1>2. m <= Len(list) /\ m <= n /\ (Len(list) > 0 /\ n > 0 => m > 0) /\ 1 <= m + 1
    BY <1>1
  <1>3. Capped(list, n) = SubSeq(list, 1, m)
    BY <1>1 DEF Capped
  <1>4. /\ SubSeq(list, 1, m) \in Seq(S)
        /\ Len(SubSeq(list, 1, m)) = m + 1 - 1
        /\ \A a \in 1..(m + 1 - 1) : SubSeq(list, 1, m)[a] = list[1 + a - 1]
    BY <1>2, SubSeqFacts
  <1> QED
    BY <1>2, <1>3, <1>4

\* A sorted list has the entries of the list it was made of.
LEMMA SortedFacts ==
  ASSUME NEW S, NEW list \in Seq(S), NEW s \in Sorted(list)
  PROVE  /\ s \in Seq(S)
         /\ EntriesOf(s) = EntriesOf(list)
         /\ IsSelection(s, list)
         /\ InOrder(s)
  <1>1. PICK o \in Bijection(1..Len(list), 1..Len(list)) :
          s = [n \in 1..Len(list) |-> list[o[n]]]
    BY DEF Sorted
  <1>2. PICK m \in Nat : m = Len(list)
    OBVIOUS
  <1>3. /\ o \in [1..m -> 1..m]
        /\ \A a, b \in 1..m : o[a] = o[b] => a = b
        /\ \A k \in 1..m : \E a \in 1..m : o[a] = k
    BY <1>1, <1>2 DEF Bijection, Injection, Surjection, IsInjective
  <1>4. \A k \in 1..m : list[k] \in S
    BY <1>2
  <1>5. s \in Seq(S) /\ Len(s) = m
    BY <1>1, <1>2, <1>3, <1>4
  <1>6. Selects(s, list, o)
    BY <1>1, <1>2, <1>3, <1>5 DEF Selects
  <1>7. EntriesOf(s) \subseteq EntriesOf(list)
    BY <1>1, <1>2, <1>3, <1>5 DEF EntriesOf
  <1>8. ASSUME NEW k \in 1..m PROVE list[k] \in EntriesOf(s)
    <2>1. PICK a \in 1..m : o[a] = k
      BY <1>3
    <2> QED
      BY <1>1, <1>2, <1>5, <2>1 DEF EntriesOf
  <1>9. InOrder(s)
    BY DEF Sorted
  <1> QED
    BY <1>2, <1>5, <1>6, <1>7, <1>8, <1>9 DEF EntriesOf, IsSelection

\* A list in order and one entry more can be sorted: the entry goes after the
\* last that is not greater.
LEMMA SortExists ==
  ASSUME NEW S, NEW list \in Seq(S), NEW e \in S, InOrder(list),
         \A x \in S : x.name.letter \in Int
  PROVE  Sorted(Append(list, e)) # {}
  <1>1. PICK n \in Nat : n = Len(list)
    OBVIOUS
  <1>2. PICK m \in Nat : m = n + 1
    BY <1>1
  <1>3. PICK t : t = Append(list, e)
    OBVIOUS
  <1>4. /\ t \in Seq(S) /\ Len(t) = m
        /\ \A i \in 1..n : t[i] = list[i]
        /\ t[m] = e
    BY <1>1, <1>2, <1>3, AppendFacts
  <1>5. PICK key : key = [i \in 1..m |-> t[i].name.letter]
    OBVIOUS
  <1>6. key \in [1..m -> Int]
    <2>1. \A i \in 1..m : t[i] \in S
      BY <1>4
    <2> QED
      BY <1>5, <2>1
  <1>7. \A i, j \in 1..n : i < j => key[i] <= key[j]
    BY <1>1, <1>2, <1>4, <1>5 DEF InOrder
  <1>8. PICK k \in 0..n : /\ \A i \in 1..k : key[i] <= key[m]
                          /\ \A i \in (k + 1)..n : key[m] <= key[i]
    <2> DEFINE T == {i \in 0..n : i = 0 \/ key[i] <= key[m]}
    <2>1. PICK k \in T : \A i \in T : i <= k
      <3>1. 0 \in T /\ T \in SUBSET Nat /\ \A i \in T : i <= n
        BY <1>1
      <3> HIDE DEF T
      <3> QED
        BY <3>1, GreatestNatural
    <2>2. k \in 0..n /\ m \in 1..m
      BY <1>2
    <2>3. \A i \in (k + 1)..n : ~(key[i] <= key[m])
      BY <2>1, <2>2
    <2>4. \A i \in (k + 1)..n : key[m] <= key[i]
      BY <1>2, <1>6, <2>2, <2>3
    <2>5. k > 0 => key[k] <= key[m]
      BY <2>1
    <2>6. ASSUME NEW i \in 1..k PROVE key[i] <= key[m]
      <3>1. i \in 1..n /\ k \in 1..n /\ (i = k \/ i < k) /\ k > 0
        BY <2>2
      <3>2. key[i] \in Int /\ key[k] \in Int /\ key[m] \in Int
        BY <1>2, <1>6, <2>2, <3>1
      <3>3. i = k \/ key[i] <= key[k]
        BY <1>7, <3>1
      <3> QED
        BY <2>5, <3>1, <3>2, <3>3
    <2> QED
      BY <2>2, <2>4, <2>6
  <1>9. PICK o : o = [i \in 1..m |-> IF i <= k THEN i ELSE IF i = k + 1 THEN m ELSE i - 1]
    OBVIOUS
  <1>10. /\ \A i \in 1..m : o[i] \in 1..m
         /\ \A a, b \in 1..m : o[a] = o[b] => a = b
    BY <1>2, <1>9
  <1>11. ASSUME NEW j \in 1..m PROVE \E i \in 1..m : o[i] = j
    <2>1. CASE j <= k
      BY <1>9, <2>1
    <2>2. CASE j = m
      <3>1. k + 1 \in 1..m /\ o[k + 1] = m
        BY <1>2, <1>9
      <3> QED
        BY <2>2, <3>1
    <2>3. CASE j > k /\ j < m
      <3>1. j + 1 \in 1..m /\ o[j + 1] = j
        BY <1>2, <1>9, <2>3
      <3> QED
        BY <3>1
    <2> QED
      BY <1>2, <2>1, <2>2, <2>3
  <1>12. o \in Bijection(1..m, 1..m)
    BY <1>9, <1>10, <1>11 DEF Bijection, Injection, Surjection, IsInjective
  <1>13. PICK s : s = [i \in 1..m |-> t[o[i]]]
    OBVIOUS
  <1>14. Len(s) = m
    BY <1>13
  <1>15. \A i \in 1..m : s[i].name.letter = key[o[i]]
    BY <1>5, <1>10, <1>13
  <1>16. ASSUME NEW a \in 1..m, NEW b \in 1..m, a < b PROVE key[o[a]] <= key[o[b]]
    <2>1. CASE b <= k
      BY <1>2, <1>7, <1>9, <1>16, <2>1
    <2>2. CASE b = k + 1
      BY <1>2, <1>8, <1>9, <1>16, <2>2
    <2>3. CASE b > k + 1 /\ a = k + 1
      <3>1. o[a] = m /\ o[b] = b - 1 /\ b - 1 \in (k + 1)..n
        BY <1>2, <1>9, <2>3
      <3> QED
        BY <1>8, <3>1
    <2>4. CASE b > k + 1 /\ a # k + 1
      <3>1. o[a] \in 1..n /\ o[b] \in 1..n /\ o[a] < o[b]
        BY <1>2, <1>9, <1>16, <2>4
      <3> QED
        BY <1>7, <3>1
    <2> QED
      BY <1>2, <2>1, <2>2, <2>3, <2>4
  <1>17. InOrder(s)
    BY <1>14, <1>15, <1>16 DEF InOrder
  <1>18. s \in Sorted(t)
    BY <1>4, <1>12, <1>13, <1>17 DEF Sorted
  <1> QED
    BY <1>3, <1>18

-----------------------------------------------------------------------------
(* Lists in which every entry has a key of its own.                        *)

\* Two entries that no list may hold together.
Clash(f, e, d) ==
  CASE f \in {"recents", "profiles"} -> ProfileId(e) = ProfileId(d)
    [] f = "history" -> e.sql = d.sql \/ e.id = d.id
    [] f = "snippets" -> e.name.letter = d.name.letter \/ e.id = d.id

Unique(f, list) ==
  \A a, b \in 1..Len(list) : Clash(f, list[a], list[b]) => a = b

\* What is promised of a list is that, its order and its length.
LEMMA SoundParts ==
  ASSUME NEW f \in Files, NEW list
  PROVE  SoundList(f, list) <=>
           /\ Unique(f, list)
           /\ f = "recents" => Len(list) <= MaxRecents
           /\ f = "history" => Len(list) <= MaxHistory
           /\ f \in {"profiles", "snippets"} => InOrder(list)
  <1>1. CASE f = "recents"
    BY <1>1 DEF SoundList, Unique, Clash, Distinct
  <1>2. CASE f = "profiles"
    BY <1>2 DEF SoundList, Unique, Clash, Distinct
  <1>3. CASE f = "history"
    BY <1>3 DEF SoundList, Unique, Clash, Distinct
  <1>4. CASE f = "snippets"
    BY <1>4 DEF SoundList, Unique, Clash, Distinct
  <1> QED
    BY <1>1, <1>2, <1>3, <1>4 DEF Files

LEMMA SelectionUnique ==
  ASSUME NEW f, NEW s, NEW t, IsSelection(s, t), Unique(f, t)
  PROVE  Unique(f, s)
  <1>1. PICK o : Selects(s, t, o)
    BY DEF IsSelection
  <1>2. ASSUME NEW a \in 1..Len(s), NEW b \in 1..Len(s), Clash(f, s[a], s[b])
        PROVE  a = b
    <2>1. o[a] \in 1..Len(t) /\ o[b] \in 1..Len(t) /\ s[a] = t[o[a]] /\ s[b] = t[o[b]]
      BY <1>1 DEF Selects
    <2>2. o[a] = o[b]
      BY <1>2, <2>1 DEF Unique
    <2> QED
      BY <1>1, <2>2 DEF Selects
  <1> QED
    BY <1>2 DEF Unique

\* An entry that clashes with none may be added.
LEMMA AddedUnique ==
  ASSUME NEW f \in Files, NEW S, NEW list \in Seq(S), NEW e \in S, Unique(f, list),
         \A d \in EntriesOf(list) : ~Clash(f, d, e)
  PROVE  Unique(f, Append(list, e))
  <1>1. PICK n \in Nat : n = Len(list)
    OBVIOUS
  <1>2. PICK m \in Nat : m = n + 1
    BY <1>1
  <1>3. PICK t : t = Append(list, e)
    OBVIOUS
  <1>4. /\ Len(t) = m
        /\ \A i \in 1..n : t[i] = list[i]
        /\ t[m] = e
    BY <1>1, <1>2, <1>3, AppendFacts
  <1>5. \A i \in 1..n : ~Clash(f, t[i], e)
    BY <1>1, <1>4 DEF EntriesOf
  <1>6. \A d \in S : Clash(f, d, e) <=> Clash(f, e, d)
    BY DEF Clash, Files
  <1>7. \A i \in 1..n : t[i] \in S
    BY <1>1, <1>4
  <1>8. \A i \in 1..n : ~Clash(f, e, t[i])
    BY <1>5, <1>6, <1>7
  <1>9. ASSUME NEW a \in 1..m, NEW b \in 1..m, Clash(f, t[a], t[b]) PROVE a = b
    <2>1. CASE a \in 1..n /\ b \in 1..n
      BY <1>1, <1>4, <1>9, <2>1 DEF Unique
    <2>2. CASE a = m /\ b \in 1..n
      BY <1>4, <1>8, <1>9, <2>2
    <2>3. CASE a \in 1..n /\ b = m
      BY <1>4, <1>5, <1>9, <2>3
    <2> QED
      BY <1>2, <2>1, <2>2, <2>3
  <1> QED
    BY <1>3, <1>4, <1>9 DEF Unique

\* An entry put before the others, and the list cut to a length, is a selection
\* of the list with the entry after them.
LEMMA PushedSelects ==
  ASSUME NEW S, NEW list \in Seq(S), NEW e \in S, NEW n \in Nat \ {0}
  PROVE  /\ Capped(<<e>> \o list, n) \in Seq(S)
         /\ Len(Capped(<<e>> \o list, n)) \in 1..n
         /\ Capped(<<e>> \o list, n)[1] = e
         /\ EntriesOf(Capped(<<e>> \o list, n)) \subseteq EntriesOf(list) \cup {e}
         /\ IsSelection(Capped(<<e>> \o list, n), Append(list, e))
  <1>1. PICK l \in Nat : l = Len(list)
    OBVIOUS
  <1>2. PICK m \in Nat : m = l + 1
    BY <1>1
  <1>3. PICK t, p, c : t = Append(list, e) /\ p = <<e>> \o list /\ c = Capped(p, n)
    OBVIOUS
  <1>4. /\ Len(t) = m
        /\ \A i \in 1..l : t[i] = list[i]
        /\ t[m] = e
    BY <1>1, <1>2, <1>3, AppendFacts
  <1>5. /\ p \in Seq(S) /\ Len(p) = m
        /\ p[1] = e
        /\ \A i \in 2..m : p[i] = list[i - 1]
    BY <1>1, <1>2, <1>3, PushFacts
  <1>6. /\ c \in Seq(S) /\ Len(c) \in 1..n /\ Len(c) <= m
        /\ \A i \in 1..Len(c) : c[i] = p[i]
    <2>1. p \in Seq(S) /\ n \in Nat
      BY <1>5
    <2>2. /\ Capped(p, n) \in Seq(S)
          /\ Len(Capped(p, n)) <= n
          /\ Len(Capped(p, n)) <= Len(p)
          /\ \A a \in 1..Len(Capped(p, n)) : Capped(p, n)[a] = p[a]
          /\ Len(p) > 0 /\ n > 0 => Len(Capped(p, n)) > 0
      BY <2>1, CappedFacts
    <2>3. Len(p) > 0 /\ n > 0
      BY <1>2, <1>5
    <2>4. /\ c \in Seq(S)
          /\ Len(c) <= n
          /\ Len(c) <= Len(p)
          /\ \A a \in 1..Len(c) : c[a] = p[a]
          /\ Len(c) > 0
      BY <1>3, <2>2, <2>3
    <2>5. Len(c) \in Nat
      BY <2>4
    <2>6. Len(c) \in 1..n
      BY <2>4, <2>5
    <2> QED
      BY <1>5, <2>4, <2>6
  <1>7. PICK o : o = [i \in 1..Len(c) |-> IF i = 1 THEN m ELSE i - 1]
    OBVIOUS
  <1>8. \A i \in 1..Len(c) : o[i] \in 1..m /\ c[i] = t[o[i]]
    <2>1. ASSUME NEW i \in 1..Len(c), i # 1 PROVE o[i] \in 1..l /\ c[i] = t[o[i]]
      <3>1. i \in 2..m /\ i - 1 \in 1..l /\ o[i] = i - 1
        BY <1>2, <1>6, <1>7, <2>1
      <3> QED
        BY <1>4, <1>5, <1>6, <3>1
    <2>2. 1 \in 1..Len(c) /\ o[1] = m /\ c[1] = t[m] /\ m \in 1..m
      BY <1>2, <1>4, <1>5, <1>6, <1>7
    <2> QED
      BY <1>2, <2>1, <2>2
  <1>9. \A a, b \in 1..Len(c) : o[a] = o[b] => a = b
    BY <1>2, <1>6, <1>7
  <1>10. Selects(c, t, o)
    BY <1>4, <1>7, <1>8, <1>9 DEF Selects
  <1>11. EntriesOf(c) \subseteq EntriesOf(list) \cup {e}
    <2>1. ASSUME NEW i \in 1..Len(c) PROVE c[i] = e \/ c[i] \in EntriesOf(list)
      <3>1. CASE i = 1
        BY <1>5, <1>6, <3>1
      <3>2. CASE i # 1
        <4>1. i \in 2..m /\ i - 1 \in 1..l
          BY <1>2, <1>6, <3>2
        <4> QED
          BY <1>1, <1>5, <1>6, <4>1 DEF EntriesOf
      <3> QED
        BY <3>1, <3>2
    <2> QED
      BY <2>1 DEF EntriesOf
  <1>12. c[1] = e
    BY <1>5, <1>6
  <1> QED
    BY <1>3, <1>6, <1>10, <1>11, <1>12 DEF IsSelection

LEMMA AppendedEntries ==
  ASSUME NEW S, NEW list \in Seq(S), NEW e \in S
  PROVE  EntriesOf(Append(list, e)) = EntriesOf(list) \cup {e}
  <1>1. PICK n \in Nat : n = Len(list)
    OBVIOUS
  <1>2. PICK m \in Nat : m = n + 1
    BY <1>1
  <1>3. PICK t : t = Append(list, e)
    OBVIOUS
  <1>4. /\ Len(t) = m
        /\ \A i \in 1..n : t[i] = list[i]
        /\ t[m] = e
    BY <1>1, <1>2, <1>3, AppendFacts
  <1>5. EntriesOf(t) \subseteq EntriesOf(list) \cup {e}
    <2>1. \A i \in 1..m : i \in 1..n \/ i = m
      BY <1>2
    <2> QED
      BY <1>1, <1>4, <2>1 DEF EntriesOf
  <1>6. EntriesOf(list) \cup {e} \subseteq EntriesOf(t)
    <2>1. m \in 1..m /\ \A i \in 1..n : i \in 1..m
      BY <1>2
    <2> QED
      BY <1>1, <1>4, <2>1 DEF EntriesOf
  <1> QED
    BY <1>3, <1>5, <1>6
LEMMA SelfSelection ==
  ASSUME NEW S, NEW list \in Seq(S)
  PROVE  IsSelection(list, list)
  <1>1. PICK o : o = [i \in 1..Len(list) |-> i]
    OBVIOUS
  <1>2. Selects(list, list, o)
    BY <1>1 DEF Selects
  <1> QED
    BY <1>2 DEF IsSelection

\* A list without the entry at a place.
LEMMA WithoutPlace ==
  ASSUME NEW S, NEW list \in Seq(S), NEW k \in 1..Len(list)
  PROVE  /\ SubSeq(list, 1, k - 1) \o SubSeq(list, k + 1, Len(list)) \in Seq(S)
         /\ IsSelection(SubSeq(list, 1, k - 1) \o SubSeq(list, k + 1, Len(list)), list)
         /\ \A d \in EntriesOf(SubSeq(list, 1, k - 1) \o SubSeq(list, k + 1, Len(list))) :
              \E a \in 1..Len(list) : a # k /\ d = list[a]
  <1>1. PICK n \in Nat : n = Len(list)
    OBVIOUS
  <1>2. PICK h, g \in Int : h = k - 1 /\ g = k + 1
    OBVIOUS
  <1>3. PICK s, t : s = SubSeq(list, 1, h) /\ t = SubSeq(list, g, n)
    OBVIOUS
  <1>4. /\ s \in Seq(S) /\ Len(s) = h
        /\ \A i \in 1..h : s[i] = list[i]
    <2>1. 1 >= 1 /\ h <= Len(list) /\ 1 <= h + 1
      BY <1>1, <1>2
    <2>2. /\ SubSeq(list, 1, h) \in Seq(S)
          /\ Len(SubSeq(list, 1, h)) = h + 1 - 1
          /\ \A i \in 1..(h + 1 - 1) : SubSeq(list, 1, h)[i] = list[1 + i - 1]
      BY <2>1, SubSeqFacts
    <2> QED
      BY <1>3, <2>2
  <1>5. /\ t \in Seq(S) /\ Len(t) = n - k
        /\ \A i \in 1..(n - k) : t[i] = list[k + i]
    <2>1. g >= 1 /\ n <= Len(list) /\ g <= n + 1
      BY <1>1, <1>2
    <2>2. /\ SubSeq(list, g, n) \in Seq(S)
          /\ Len(SubSeq(list, g, n)) = n + 1 - g
          /\ \A i \in 1..(n + 1 - g) : SubSeq(list, g, n)[i] = list[g + i - 1]
      BY <2>1, SubSeqFacts
    <2>3. n + 1 - g = n - k /\ \A i \in 1..(n - k) : g + i - 1 = k + i
      BY <1>1, <1>2
    <2> QED
      BY <1>3, <2>2, <2>3
  <1>6. PICK w : w = s \o t
    OBVIOUS
  <1>7. /\ w \in Seq(S) /\ Len(w) = n - 1
        /\ \A i \in 1..h : w[i] = list[i]
        /\ \A i \in k..(n - 1) : w[i] = list[i + 1]
    <2>1. /\ s \o t \in Seq(S)
          /\ Len(s \o t) = Len(s) + Len(t)
          /\ \A i \in 1..Len(s) : (s \o t)[i] = s[i]
          /\ \A i \in (Len(s) + 1)..(Len(s) + Len(t)) : (s \o t)[i] = t[i - Len(s)]
      BY <1>4, <1>5, ConcatFacts
    <2>2. Len(w) = n - 1
      BY <1>1, <1>2, <1>4, <1>5, <1>6, <2>1
    <2>3. \A i \in 1..h : w[i] = list[i]
      BY <1>4, <1>6, <2>1
    <2>4. ASSUME NEW i \in k..(n - 1) PROVE w[i] = list[i + 1]
      <3>1. i \in (Len(s) + 1)..(Len(s) + Len(t)) /\ i - Len(s) = i - h /\ i - h \in 1..(n - k)
            /\ k + (i - h) = i + 1
        BY <1>1, <1>2, <1>4, <1>5
      <3> QED
        BY <1>5, <1>6, <2>1, <3>1
    <2> QED
      BY <1>6, <2>1, <2>2, <2>3, <2>4
  <1>8. PICK o : o = [i \in 1..(n - 1) |-> IF i < k THEN i ELSE i + 1]
    OBVIOUS
  <1>9. /\ \A i \in 1..(n - 1) : o[i] \in 1..n /\ o[i] # k
        /\ \A a, b \in 1..(n - 1) : o[a] = o[b] => a = b
    BY <1>1, <1>8
  <1>10. \A i \in 1..(n - 1) : w[i] = list[o[i]]
    <2>1. ASSUME NEW i \in 1..(n - 1), i < k PROVE w[i] = list[o[i]]
      <3>1. i \in 1..h /\ o[i] = i
        BY <1>2, <1>8, <2>1
      <3> QED
        BY <1>7, <3>1
    <2>2. ASSUME NEW i \in 1..(n - 1), ~(i < k) PROVE w[i] = list[o[i]]
      <3>1. i \in k..(n - 1) /\ o[i] = i + 1
        BY <1>1, <1>8, <2>2
      <3> QED
        BY <1>7, <3>1
    <2> QED
      BY <2>1, <2>2
  <1>11. Selects(w, list, o)
    BY <1>1, <1>7, <1>8, <1>9, <1>10 DEF Selects
  <1>12. ASSUME NEW d \in EntriesOf(w) PROVE \E a \in 1..Len(list) : a # k /\ d = list[a]
    <2>1. PICK i \in 1..(n - 1) : d = w[i]
      BY <1>7 DEF EntriesOf
    <2> QED
      BY <1>1, <1>9, <1>10, <2>1
  <1>13. w = SubSeq(list, 1, k - 1) \o SubSeq(list, k + 1, Len(list))
    BY <1>1, <1>2, <1>3, <1>6
  <1> QED
    BY <1>7, <1>11, <1>12, <1>13 DEF IsSelection

-----------------------------------------------------------------------------
(* The changes of the stores.                                              *)

\* The texts that lists can hold: those that are run or saved, and those that
\* earlier sessions have left.
Texts == Sqls \cup UNION {{e.sql : e \in EntriesOf(kept["history"])
                                     \cup EntriesOf(kept["snippets"])} : kept \in Kept}

RecentProfile == ProfilesOf({None})
SavedProfile == ProfilesOf(Name)
HistoryEntry == HistoryEntries(Texts)
Snippet == Snippets(Texts)

EntryOf(f) ==
  CASE f = "recents" -> RecentProfile
    [] f = "profiles" -> SavedProfile
    [] f = "history" -> HistoryEntry
    [] f = "snippets" -> Snippet

IsListOf(f, list) == list \in Seq(EntryOf(f)) /\ SoundList(f, list)

Ids(list) == {e.id : e \in EntriesOf(list)}
WithIds == {"history", "snippets"}

\* What a handler may have still to do.
AddRecentWork == [op : {"addRecent"}, profile : RecentProfile]
SaveProfileWork == [op : {"saveProfile"}, profile : SavedProfile]
RecordWork == [op : {"record"}, sql : Sqls, id : Nat]
SaveSnippetWork == [op : {"saveSnippet"}, name : Name, sql : Sqls, id : Nat]
RemoveSnippetWork == [op : {"removeSnippet"}, id : Int]
CredentialsWork ==
  [op : {"credentials"}, target : Targets, remember : BOOLEAN, password : {"", "pw"}]
OtherWork == [op : {"clear", "repopulate", "prefill"}]
WorkItem ==
  AddRecentWork \cup SaveProfileWork \cup RecordWork \cup SaveSnippetWork
    \cup RemoveSnippetWork \cup CredentialsWork \cup OtherWork

LEMMA WorkItemFacts ==
  ASSUME NEW c \in WorkItem
  PROVE  /\ c.op = "addRecent" => c.profile \in RecentProfile
         /\ c.op = "saveProfile" => c.profile \in SavedProfile
         /\ c.op = "record" => c.sql \in Sqls /\ c.id \in Nat
         /\ c.op = "saveSnippet" => c.name \in Name /\ c.sql \in Sqls /\ c.id \in Nat
         /\ c.op = "credentials" => /\ c.target \in Targets
                                    /\ c.remember \in BOOLEAN
                                    /\ c.password \in {"", "pw"}
  BY DEF WorkItem, AddRecentWork, SaveProfileWork, RecordWork, SaveSnippetWork,
         RemoveSnippetWork, CredentialsWork, OtherWork

\* What the parts of a sound list's change are: r is a selection of the entries of
\* list, or of those of w, some of them, and e.
LEMMA SelectedIsSound ==
  ASSUME NEW f \in Files, NEW list, IsListOf(f, list), NEW r, IsSelection(r, list),
         r \in Seq(EntryOf(f)),
         f \in {"profiles", "snippets"} => InOrder(r),
         f = "recents" => Len(r) <= MaxRecents,
         f = "history" => Len(r) <= MaxHistory
  PROVE  IsListOf(f, r)
  <1>1. Unique(f, list)
    BY SoundParts DEF IsListOf
  <1>2. Unique(f, r)
    BY <1>1, SelectionUnique
  <1>3. SoundList(f, r)
    BY <1>2, SoundParts
  <1> QED
    BY <1>3 DEF IsListOf

LEMMA AddedIsSound ==
  ASSUME NEW f \in Files, NEW list, IsListOf(f, list),
         NEW w \in Seq(EntryOf(f)), IsSelection(w, list),
         NEW e \in EntryOf(f), \A d \in EntriesOf(w) : ~Clash(f, d, e),
         NEW r \in Seq(EntryOf(f)), IsSelection(r, Append(w, e)),
         f \in {"profiles", "snippets"} => InOrder(r),
         f = "recents" => Len(r) <= MaxRecents,
         f = "history" => Len(r) <= MaxHistory
  PROVE  IsListOf(f, r)
  <1>1. Unique(f, list)
    BY SoundParts DEF IsListOf
  <1>2. Unique(f, w)
    BY <1>1, SelectionUnique
  <1>3. Unique(f, Append(w, e))
    BY <1>2, AddedUnique
  <1>4. Unique(f, r)
    BY <1>3, SelectionUnique
  <1>5. SoundList(f, r)
    BY <1>4, SoundParts
  <1> QED
    BY <1>5 DEF IsListOf

\* RecentConnectionsStore::add
LEMMA WithRecentSound ==
  ASSUME NEW list, IsListOf("recents", list), NEW p \in RecentProfile,
         NEW r \in WithRecent(list, p)
  PROVE  /\ IsListOf("recents", r)
         /\ r # <<>> /\ r[1] = p
  <1>1. PICK w : w = Without(list, SameId(list, p))
    OBVIOUS
  <1>2. list \in Seq(RecentProfile) /\ EntryOf("recents") = RecentProfile
    BY DEF IsListOf, EntryOf
  <1>3. /\ w \in Seq(RecentProfile)
        /\ EntriesOf(w) = EntriesOf(list) \ SameId(list, p)
        /\ IsSelection(w, list)
    BY <1>1, <1>2, WithoutKeeps, WithoutEntries
  <1>4. \A d \in EntriesOf(w) : ~Clash("recents", d, p)
    BY <1>3 DEF SameId, Clash
  <1>5. r = Capped(<<p>> \o w, MaxRecents)
    BY <1>1 DEF WithRecent
  <1>6. MaxRecents \in Nat \ {0}
    BY StoresAssumption
  <1>7. /\ r \in Seq(RecentProfile)
        /\ Len(r) \in 1..MaxRecents
        /\ r[1] = p
        /\ IsSelection(r, Append(w, p))
    BY <1>3, <1>5, <1>6, PushedSelects
  <1>8. IsListOf("recents", r)
    BY <1>2, <1>3, <1>4, <1>6, <1>7, AddedIsSound DEF Files
  <1>9. r # <<>>
    BY <1>7
  <1> QED
    BY <1>7, <1>8, <1>9

\* SavedProfilesStore::save
LEMMA WithProfileSound ==
  ASSUME NEW list, IsListOf("profiles", list), NEW p \in SavedProfile,
         NEW r \in WithProfile(list, p)
  PROVE  IsListOf("profiles", r)
  <1>1. PICK w : w = Without(list, SameId(list, p))
    OBVIOUS
  <1>2. list \in Seq(SavedProfile) /\ EntryOf("profiles") = SavedProfile
    BY DEF IsListOf, EntryOf
  <1>3. /\ w \in Seq(SavedProfile)
        /\ EntriesOf(w) = EntriesOf(list) \ SameId(list, p)
        /\ IsSelection(w, list)
    BY <1>1, <1>2, WithoutKeeps, WithoutEntries
  <1>4. \A d \in EntriesOf(w) : ~Clash("profiles", d, p)
    BY <1>3 DEF SameId, Clash
  <1>5. r \in Sorted(Append(w, p))
    BY <1>1 DEF WithProfile
  <1>6. Append(w, p) \in Seq(SavedProfile)
    BY <1>3
  <1>7. /\ r \in Seq(SavedProfile)
        /\ IsSelection(r, Append(w, p))
        /\ InOrder(r)
    BY <1>5, <1>6, SortedFacts
  <1> QED
    BY <1>2, <1>3, <1>4, <1>7, AddedIsSound DEF Files

\* SnippetStore::save, with an id that is new.
LEMMA WithSnippetSound ==
  ASSUME NEW list, IsListOf("snippets", list), NEW n \in Name, NEW q \in Texts, NEW i \in Int,
         i \notin Ids(list), NEW r \in WithSnippet(list, n, q, i)
  PROVE  /\ IsListOf("snippets", r)
         /\ Ids(r) \subseteq Ids(list) \cup {i}
  <1>1. PICK w, e : /\ w = Without(list, {d \in EntriesOf(list) : d.name.letter = n.letter})
                    /\ e = [id |-> i, name |-> n, sql |-> q]
    OBVIOUS
  <1>2. /\ list \in Seq(Snippet) /\ EntryOf("snippets") = Snippet
        /\ e \in Snippet /\ e.id = i /\ e.name = n
    BY <1>1 DEF IsListOf, EntryOf, Snippet, Snippets
  <1>3. /\ w \in Seq(Snippet)
        /\ EntriesOf(w) = EntriesOf(list) \ {d \in EntriesOf(list) : d.name.letter = n.letter}
        /\ IsSelection(w, list)
    BY <1>1, <1>2, WithoutKeeps, WithoutEntries
  <1>4. \A d \in EntriesOf(w) : ~Clash("snippets", d, e)
    BY <1>2, <1>3 DEF Clash, Ids
  <1>5. r \in Sorted(Append(w, e))
    BY <1>1 DEF WithSnippet
  <1>6. Append(w, e) \in Seq(Snippet)
    BY <1>2, <1>3
  <1>7. /\ r \in Seq(Snippet)
        /\ EntriesOf(r) = EntriesOf(Append(w, e))
        /\ IsSelection(r, Append(w, e))
        /\ InOrder(r)
    BY <1>5, <1>6, SortedFacts
  <1>8. IsListOf("snippets", r)
    BY <1>2, <1>3, <1>4, <1>7, AddedIsSound DEF Files
  <1>9. EntriesOf(r) = EntriesOf(w) \cup {e}
    BY <1>2, <1>3, <1>7, AppendedEntries
  <1>10. Ids(r) \subseteq Ids(list) \cup {i}
    BY <1>2, <1>3, <1>9 DEF Ids
  <1> QED
    BY <1>8, <1>10

\* SnippetStore::remove
LEMMA WithoutSnippetSound ==
  ASSUME NEW list, IsListOf("snippets", list), NEW i, NEW r \in WithoutSnippet(list, i)
  PROVE  /\ IsListOf("snippets", r)
         /\ Ids(r) \subseteq Ids(list)
  <1>1. PICK d : d = {e \in EntriesOf(list) : e.id = i}
    OBVIOUS
  <1>2. list \in Seq(Snippet) /\ EntryOf("snippets") = Snippet /\ r = Without(list, d)
    BY <1>1 DEF IsListOf, EntryOf, WithoutSnippet
  <1>3. /\ r \in Seq(Snippet)
        /\ EntriesOf(r) = EntriesOf(list) \ d
        /\ IsSelection(r, list)
    BY <1>2, WithoutKeeps, WithoutEntries
  <1>4. InOrder(list)
    BY SoundParts DEF IsListOf, Files
  <1>5. InOrder(r)
    BY <1>2, <1>4, WithoutInOrder
  <1>6. IsListOf("snippets", r)
    BY <1>2, <1>3, <1>5, SelectedIsSound DEF Files
  <1> QED
    BY <1>3, <1>6 DEF Ids

\* QueryHistoryStore::record, with an id that is new.
LEMMA WithRecordedSound ==
  ASSUME NEW list, IsListOf("history", list), NEW q \in Texts, NEW i \in Int,
         i \notin Ids(list), NEW r \in WithRecorded(list, q, i)
  PROVE  /\ IsListOf("history", r)
         /\ Ids(r) \subseteq Ids(list) \cup {i}
  <1>1. list \in Seq(HistoryEntry) /\ EntryOf("history") = HistoryEntry
    BY DEF IsListOf, EntryOf
  <1>2. PICK n \in Nat : n = Len(list)
    BY <1>1
  <1>3. MaxHistory \in Nat \ {0}
    BY StoresAssumption
  <1>4. PICK same : same = {k \in 1..Len(list) : list[k].sql = q}
    OBVIOUS
  <1>5. Unique("history", list)
    BY SoundParts DEF IsListOf, Files
  <1>6. CASE same = {}
    <2>1. PICK e : e = [id |-> i, sql |-> q, runCount |-> 1]
      OBVIOUS
    <2>2. e \in HistoryEntry /\ e.id = i /\ e.sql = q
      BY <2>1 DEF HistoryEntry, HistoryEntries
    <2>3. r = Capped(<<e>> \o list, MaxHistory)
      BY <1>4, <1>6, <2>1 DEF WithRecorded
    <2>4. /\ r \in Seq(HistoryEntry)
          /\ Len(r) \in 1..MaxHistory
          /\ EntriesOf(r) \subseteq EntriesOf(list) \cup {e}
          /\ IsSelection(r, Append(list, e))
      BY <1>1, <1>3, <2>2, <2>3, PushedSelects
    <2>5. \A d \in EntriesOf(list) : ~Clash("history", d, e)
      BY <1>4, <1>6, <2>2 DEF Clash, Ids, EntriesOf
    <2>6. IsSelection(list, list)
      BY <1>1, SelfSelection
    <2>7. IsListOf("history", r)
      BY <1>1, <1>3, <2>2, <2>4, <2>5, <2>6, AddedIsSound DEF Files
    <2> QED
      BY <2>2, <2>4, <2>7 DEF Ids
  <1>7. CASE same # {}
    <2>1. PICK k : k = CHOOSE a \in same : \A b \in same : a <= b
      OBVIOUS
    <2>2. k \in same
      <3>1. same \in SUBSET Nat
        BY <1>2, <1>4
      <3>2. \E a \in same : \A b \in same : a <= b
        BY <1>7, <3>1, LeastNatural
      <3> QED
        BY <2>1, <3>2
    <2>3. k \in 1..n /\ list[k].sql = q /\ list[k] \in HistoryEntry
      BY <1>1, <1>2, <1>4, <2>2
    <2>4. PICK e : e = [list[k] EXCEPT !.runCount = @ + 1]
      OBVIOUS
    <2>5. e \in HistoryEntry /\ e.id = list[k].id /\ e.sql = q
      BY <2>3, <2>4 DEF HistoryEntry, HistoryEntries
    <2>6. PICK w : w = SubSeq(list, 1, k - 1) \o SubSeq(list, k + 1, Len(list))
      OBVIOUS
    <2>7. /\ w \in Seq(HistoryEntry)
          /\ IsSelection(w, list)
          /\ \A d \in EntriesOf(w) : \E a \in 1..Len(list) : a # k /\ d = list[a]
      BY <1>1, <1>2, <2>3, <2>6, WithoutPlace
    <2>8. r = Capped(<<e>> \o w, MaxHistory)
      <3>1. WithRecorded(list, q, i) = {Capped(<<e>> \o w, MaxHistory)}
        BY <1>4, <1>7, <2>1, <2>4, <2>6 DEF WithRecorded
      <3> QED
        BY <3>1
    <2>9. /\ r \in Seq(HistoryEntry)
          /\ Len(r) \in 1..MaxHistory
          /\ EntriesOf(r) \subseteq EntriesOf(w) \cup {e}
          /\ IsSelection(r, Append(w, e))
      BY <1>3, <2>5, <2>7, <2>8, PushedSelects
    <2>10. \A d \in EntriesOf(w) : ~Clash("history", d, e)
      BY <1>2, <1>5, <2>3, <2>5, <2>7 DEF Clash, Unique
    <2>11. IsListOf("history", r)
      BY <1>1, <1>3, <2>5, <2>7, <2>9, <2>10, AddedIsSound DEF Files
    <2>12. list[k] \in EntriesOf(list) /\ EntriesOf(w) \subseteq EntriesOf(list)
      BY <1>2, <2>3, <2>7 DEF EntriesOf
    <2> QED
      BY <2>5, <2>9, <2>11, <2>12 DEF Ids
  <1> QED
    BY <1>6, <1>7

-----------------------------------------------------------------------------
(* The changes, whichever it is.                                           *)

\* The id of an entry that a change makes.
Fresh(c, list) == c.op \in {"record", "saveSnippet"} => c.id \notin Ids(list)

LEMMA ResultsSound ==
  ASSUME NEW c \in WorkItem, c.op \in Changes, NEW list, IsListOf(FileOf(c.op), list),
         Fresh(c, list), NEW r \in Results(c, list)
  PROVE  /\ IsListOf(FileOf(c.op), r)
         /\ FileOf(c.op) \in WithIds =>
              \A i \in Ids(r) : i \in Ids(list) \/ (c.op \in {"record", "saveSnippet"} /\ i = c.id)
  <1>1. CASE c.op = "addRecent"
    <2>1. c.profile \in RecentProfile /\ FileOf(c.op) = "recents"
          /\ r \in WithRecent(list, c.profile)
      BY <1>1, WorkItemFacts DEF FileOf, Results
    <2>2. IsListOf("recents", r)
      BY <2>1, WithRecentSound
    <2> QED
      BY <2>1, <2>2 DEF WithIds
  <1>2. CASE c.op = "saveProfile"
    <2>1. c.profile \in SavedProfile /\ FileOf(c.op) = "profiles"
          /\ r \in WithProfile(list, c.profile)
      BY <1>2, WorkItemFacts DEF FileOf, Results
    <2>2. IsListOf("profiles", r)
      BY <2>1, WithProfileSound
    <2> QED
      BY <2>1, <2>2 DEF WithIds
  <1>3. CASE c.op = "record"
    <2>0. c.sql \in Texts /\ c.id \in Int
      <3>1. c.sql \in Sqls /\ c.id \in Nat
        BY <1>3, WorkItemFacts
      <3> QED
        BY <3>1 DEF Texts
    <2>1. FileOf(c.op) = "history"
          /\ r \in WithRecorded(list, c.sql, c.id) /\ c.id \notin Ids(list)
      BY <1>3 DEF FileOf, Results, Fresh
    <2>2. IsListOf("history", r) /\ Ids(r) \subseteq Ids(list) \cup {c.id}
      BY <2>0, <2>1, WithRecordedSound
    <2> QED
      BY <1>3, <2>1, <2>2
  <1>4. CASE c.op = "saveSnippet"
    <2>0. c.name \in Name /\ c.sql \in Texts /\ c.id \in Int
      <3>1. c.name \in Name /\ c.sql \in Sqls /\ c.id \in Nat
        BY <1>4, WorkItemFacts
      <3> QED
        BY <3>1 DEF Texts
    <2>1. FileOf(c.op) = "snippets"
          /\ r \in WithSnippet(list, c.name, c.sql, c.id) /\ c.id \notin Ids(list)
      BY <1>4 DEF FileOf, Results, Fresh
    <2>2. IsListOf("snippets", r) /\ Ids(r) \subseteq Ids(list) \cup {c.id}
      BY <2>0, <2>1, WithSnippetSound
    <2> QED
      BY <1>4, <2>1, <2>2
  <1>5. CASE c.op = "removeSnippet"
    <2>1. FileOf(c.op) = "snippets" /\ r \in WithoutSnippet(list, c.id)
      BY <1>5 DEF FileOf, Results
    <2>2. IsListOf("snippets", r) /\ Ids(r) \subseteq Ids(list)
      BY <2>1, WithoutSnippetSound
    <2> QED
      BY <2>1, <2>2
  <1> QED
    BY <1>1, <1>2, <1>3, <1>4, <1>5 DEF Changes

\* Two lists of a store that no change can tell apart: the order among saved
\* profiles, or snippets, is that of their names.
Same(f, a, b) ==
  IF f \in {"recents", "history"} THEN a = b ELSE EntriesOf(a) = EntriesOf(b)

\* What a change of such a list makes of its entries.
LEMMA WithProfileEntries ==
  ASSUME NEW list \in Seq(SavedProfile), NEW p \in SavedProfile, NEW r \in WithProfile(list, p)
  PROVE  EntriesOf(r) = {e \in EntriesOf(list) : ProfileId(e) # ProfileId(p)} \cup {p}
  <1>1. PICK w : w = Without(list, SameId(list, p))
    OBVIOUS
  <1>2. /\ w \in Seq(SavedProfile)
        /\ EntriesOf(w) = EntriesOf(list) \ SameId(list, p)
    BY <1>1, WithoutKeeps, WithoutEntries
  <1>3. r \in Sorted(Append(w, p)) /\ Append(w, p) \in Seq(SavedProfile)
    BY <1>1, <1>2 DEF WithProfile
  <1>4. EntriesOf(r) = EntriesOf(Append(w, p))
    BY <1>3, SortedFacts
  <1>5. EntriesOf(Append(w, p)) = EntriesOf(w) \cup {p}
    BY <1>2, AppendedEntries
  <1> QED
    BY <1>2, <1>4, <1>5 DEF SameId

LEMMA WithSnippetEntries ==
  ASSUME NEW list \in Seq(Snippet), NEW n \in Name, NEW q \in Texts, NEW i \in Int,
         NEW r \in WithSnippet(list, n, q, i)
  PROVE  EntriesOf(r) = {e \in EntriesOf(list) : e.name.letter # n.letter}
                          \cup {[id |-> i, name |-> n, sql |-> q]}
  <1>1. PICK w, e : /\ w = Without(list, {d \in EntriesOf(list) : d.name.letter = n.letter})
                    /\ e = [id |-> i, name |-> n, sql |-> q]
    OBVIOUS
  <1>2. e \in Snippet
    BY <1>1 DEF Snippet, Snippets
  <1>3. /\ w \in Seq(Snippet)
        /\ EntriesOf(w) = EntriesOf(list) \ {d \in EntriesOf(list) : d.name.letter = n.letter}
    BY <1>1, WithoutKeeps, WithoutEntries
  <1>4. r \in Sorted(Append(w, e)) /\ Append(w, e) \in Seq(Snippet)
    BY <1>1, <1>2, <1>3 DEF WithSnippet
  <1>5. EntriesOf(r) = EntriesOf(Append(w, e))
    BY <1>4, SortedFacts
  <1>6. EntriesOf(Append(w, e)) = EntriesOf(w) \cup {e}
    BY <1>2, <1>3, AppendedEntries
  <1> QED
    BY <1>1, <1>3, <1>5, <1>6

\* Of lists that are the same, a change makes lists that are the same.
LEMMA ResultsSame ==
  ASSUME NEW c \in WorkItem, c.op \in Changes,
         NEW a \in Seq(EntryOf(FileOf(c.op))), NEW b \in Seq(EntryOf(FileOf(c.op))),
         Same(FileOf(c.op), a, b), NEW r \in Results(c, a), NEW s \in Results(c, b)
  PROVE  Same(FileOf(c.op), r, s)
  <1>1. CASE c.op = "addRecent"
    BY <1>1 DEF FileOf, Same, Results, WithRecent
  <1>2. CASE c.op = "saveProfile"
    <2>1. FileOf(c.op) = "profiles" /\ EntryOf(FileOf(c.op)) = SavedProfile
          /\ r \in WithProfile(a, c.profile) /\ s \in WithProfile(b, c.profile)
      BY <1>2 DEF FileOf, EntryOf, Results
    <2>2. c.profile \in SavedProfile /\ EntriesOf(a) = EntriesOf(b)
      BY <1>2, <2>1, WorkItemFacts DEF Same
    <2>4. a \in Seq(SavedProfile) /\ b \in Seq(SavedProfile)
      BY <2>1
    <2>5. EntriesOf(r) = {e \in EntriesOf(a) : ProfileId(e) # ProfileId(c.profile)}
                           \cup {c.profile}
      BY <2>1, <2>2, <2>4, WithProfileEntries
    <2>6. EntriesOf(s) = {e \in EntriesOf(b) : ProfileId(e) # ProfileId(c.profile)}
                           \cup {c.profile}
      BY <2>1, <2>2, <2>4, WithProfileEntries
    <2>3. EntriesOf(r) = EntriesOf(s)
      BY <2>2, <2>5, <2>6
    <2> QED
      BY <2>1, <2>3 DEF Same
  <1>3. CASE c.op = "record"
    <2>1. FileOf(c.op) = "history" /\ a = b
      BY <1>3 DEF FileOf, Same
    <2>2. \E x : WithRecorded(a, c.sql, c.id) = {x}
      BY DEF WithRecorded
    <2>3. r \in WithRecorded(a, c.sql, c.id) /\ s \in WithRecorded(a, c.sql, c.id)
      BY <1>3, <2>1 DEF Results
    <2> QED
      BY <2>1, <2>2, <2>3 DEF Same
  <1>4. CASE c.op = "saveSnippet"
    <2>1. FileOf(c.op) = "snippets" /\ EntryOf(FileOf(c.op)) = Snippet
          /\ r \in WithSnippet(a, c.name, c.sql, c.id) /\ s \in WithSnippet(b, c.name, c.sql, c.id)
      BY <1>4 DEF FileOf, EntryOf, Results
    <2>2. c.name \in Name /\ c.sql \in Sqls /\ c.id \in Nat
      BY <1>4, WorkItemFacts
    <2>3. c.sql \in Texts /\ c.id \in Int /\ EntriesOf(a) = EntriesOf(b)
      BY <2>1, <2>2 DEF Same, Texts
    <2>5. a \in Seq(Snippet) /\ b \in Seq(Snippet)
      BY <2>1
    <2>6. EntriesOf(r) = {e \in EntriesOf(a) : e.name.letter # c.name.letter}
                           \cup {[id |-> c.id, name |-> c.name, sql |-> c.sql]}
      BY <2>1, <2>2, <2>3, <2>5, WithSnippetEntries
    <2>7. EntriesOf(s) = {e \in EntriesOf(b) : e.name.letter # c.name.letter}
                           \cup {[id |-> c.id, name |-> c.name, sql |-> c.sql]}
      BY <2>1, <2>2, <2>3, <2>5, WithSnippetEntries
    <2>4. EntriesOf(r) = EntriesOf(s)
      BY <2>3, <2>6, <2>7
    <2> QED
      BY <2>1, <2>4 DEF Same
  <1>5. CASE c.op = "removeSnippet"
    <2>1. FileOf(c.op) = "snippets" /\ EntriesOf(a) = EntriesOf(b)
      BY <1>5 DEF FileOf, Same
    <2>2. PICK d : d = {e \in EntriesOf(a) : e.id = c.id}
      OBVIOUS
    <2>3. r = Without(a, d) /\ s = Without(b, d)
      BY <1>5, <2>1, <2>2 DEF Results, WithoutSnippet
    <2>4. EntriesOf(r) = EntriesOf(a) \ d /\ EntriesOf(s) = EntriesOf(b) \ d
      BY <2>3, WithoutEntries
    <2> QED
      BY <2>1, <2>4 DEF Same
  <1> QED
    BY <1>1, <1>2, <1>3, <1>4, <1>5 DEF Changes

\* A change can always be made.
LEMMA ResultsExist ==
  ASSUME NEW c \in WorkItem, c.op \in Changes, NEW list, IsListOf(FileOf(c.op), list)
  PROVE  Results(c, list) # {}
  <1>1. CASE c.op = "addRecent"
    BY <1>1 DEF Results, WithRecent
  <1>2. CASE c.op = "saveProfile"
    <2>1. PICK w : w = Without(list, SameId(list, c.profile))
      OBVIOUS
    <2>2. FileOf(c.op) = "profiles" /\ list \in Seq(SavedProfile) /\ c.profile \in SavedProfile
      BY <1>2, WorkItemFacts DEF FileOf, IsListOf, EntryOf
    <2>3. InOrder(list)
      BY <2>2, SoundParts DEF IsListOf, Files
    <2>4. w \in Seq(SavedProfile) /\ InOrder(w)
      BY <2>1, <2>2, <2>3, WithoutKeeps, WithoutInOrder
    <2>5. \A x \in SavedProfile : x.name.letter \in Int
      BY DEF SavedProfile, ProfilesOf, Name
    <2>6. Sorted(Append(w, c.profile)) # {}
      BY <2>2, <2>4, <2>5, SortExists
    <2> QED
      BY <1>2, <2>1, <2>6 DEF Results, WithProfile
  <1>3. CASE c.op = "record"
    BY <1>3 DEF Results, WithRecorded
  <1>4. CASE c.op = "saveSnippet"
    <2>1. PICK w, e : /\ w = Without(list, {d \in EntriesOf(list) : d.name.letter = c.name.letter})
                      /\ e = [id |-> c.id, name |-> c.name, sql |-> c.sql]
      OBVIOUS
    <2>2. FileOf(c.op) = "snippets" /\ list \in Seq(Snippet)
      BY <1>4 DEF FileOf, IsListOf, EntryOf
    <2>3. InOrder(list)
      BY <2>2, SoundParts DEF IsListOf, Files
    <2>4. w \in Seq(Snippet) /\ InOrder(w)
      BY <2>1, <2>2, <2>3, WithoutKeeps, WithoutInOrder
    <2>5. \A x \in Snippet : x.name.letter \in Int
      BY DEF Snippet, Snippets, Name
    <2>6. e \in Snippet
      <3>1. c.name \in Name /\ c.sql \in Sqls /\ c.id \in Nat
        BY <1>4, WorkItemFacts
      <3>2. c.sql \in Texts /\ c.id \in Int
        BY <3>1 DEF Texts
      <3> QED
        BY <2>1, <3>1, <3>2 DEF Snippet, Snippets
    <2>7. Sorted(Append(w, e)) # {}
      BY <2>4, <2>5, <2>6, SortExists
    <2> QED
      BY <1>4, <2>1, <2>7 DEF Results, WithSnippet
  <1>5. CASE c.op = "removeSnippet"
    BY <1>5 DEF Results, WithoutSnippet
  <1> QED
    BY <1>1, <1>2, <1>3, <1>4, <1>5 DEF Changes

-----------------------------------------------------------------------------
(* The lists as JSON.                                                      *)

Decoded(f, json) ==
  IF f \in {"recents", "profiles"}
  THEN [n \in 1..Len(json) |-> profileFromJson(json[n])] ELSE json

LEMMA LoadDecodes ==
  ASSUME NEW f
  PROVE  Load(f) = Decoded(f, files[f])
  BY DEF Load, Decoded

\* What is read back is what was saved.
LEMMA ProfileRoundTrip ==
  ASSUME NEW names, NEW p \in ProfilesOf(names)
  PROVE  profileFromJson(profileToJson(p)) = p
  <1>1. PICK j : j = profileToJson(p)
    OBVIOUS
  <1>2. DOMAIN j = {"engine", "target"} \cup {o \in {"name", "sslMode"} : p[o] # None}
    BY <1>1 DEF profileToJson
  <1>3. p.engine \in {"Postgres", "Sqlite"}
    BY DEF ProfilesOf, Engine
  <1>4. j.engine = IF p.engine = "Postgres" THEN "PostgreSQL" ELSE "SQLite"
    BY <1>1, <1>2 DEF profileToJson
  <1>5. j.target = p.target
    BY <1>1, <1>2 DEF profileToJson
  <1>6. p.name # None => "name" \in DOMAIN j /\ j.name = p.name
    BY <1>1, <1>2 DEF profileToJson
  <1>7. p.name = None => "name" \notin DOMAIN j
    BY <1>2
  <1>8. p.sslMode # None => "sslMode" \in DOMAIN j /\ j.sslMode = p.sslMode
    BY <1>1, <1>2 DEF profileToJson
  <1>9. p.sslMode = None => "sslMode" \notin DOMAIN j
    BY <1>2
  <1>10. profileFromJson(j) = [name |-> p.name, engine |-> p.engine, target |-> p.target,
                               sslMode |-> p.sslMode]
    BY <1>3, <1>4, <1>5, <1>6, <1>7, <1>8, <1>9 DEF profileFromJson
  <1>11. p = [name |-> p.name, engine |-> p.engine, target |-> p.target, sslMode |-> p.sslMode]
    BY DEF ProfilesOf
  <1> QED
    BY <1>1, <1>10, <1>11

LEMMA RoundTrip ==
  ASSUME NEW f \in Files, NEW list \in Seq(EntryOf(f))
  PROVE  Decoded(f, Encoded(f, list)) = list
  <1>1. CASE f \in {"recents", "profiles"}
    <2>1. PICK names : EntryOf(f) = ProfilesOf(names)
      BY <1>1 DEF EntryOf, RecentProfile, SavedProfile
    <2>2. PICK m \in Nat : m = Len(list)
      OBVIOUS
    <2>3. PICK json : json = [n \in 1..m |-> profileToJson(list[n])]
      OBVIOUS
    <2>4. Encoded(f, list) = json
      BY <1>1, <2>2, <2>3 DEF Encoded
    <2>5. Len(json) = m
      BY <2>3
    <2>6. \A n \in 1..m : profileFromJson(json[n]) = list[n]
      BY <2>1, <2>2, <2>3, ProfileRoundTrip
    <2>7. Decoded(f, json) = [n \in 1..m |-> list[n]]
      BY <1>1, <2>5, <2>6 DEF Decoded
    <2>8. list = [n \in 1..m |-> list[n]]
      BY <2>2
    <2> QED
      BY <2>4, <2>7, <2>8
  <1>2. CASE f \notin {"recents", "profiles"}
    BY <1>2 DEF Decoded, Encoded
  <1> QED
    BY <1>1, <1>2

-----------------------------------------------------------------------------
(* The inductive invariant.                                                *)

\* What each file holds is the JSON of a list as its header promises it.
FilesInv ==
  /\ files = [f \in Files |-> files[f]]
  /\ \A f \in Files : /\ IsListOf(f, Load(f))
                      /\ files[f] = Encoded(f, Load(f))

\* So is the list that a change has begun to write.
ChangedInv ==
  /\ stage \in [Processes -> {"ready", "loaded", "truncated"}]
  /\ changed = [p \in Processes |-> changed[p]]
  /\ \A p \in Processes :
       stage[p] # "ready" => Changing(p) /\ IsListOf(FileOfWork(p), changed[p])

\* What is left to do, and in which dialog: entries are made or removed first of
\* all, and a list box is filled again after its snippets have changed.
NoPassword(fm) == fm.password = "" /\ fm.remember = FALSE

WorkOrder(w, d, fm) ==
  /\ \A k \in 2..Len(w) : w[k].op \notin {"record", "saveSnippet", "removeSnippet"}
  /\ w # <<>> /\ w[1].op \in {"saveSnippet", "removeSnippet"} =>
       Len(w) = 2 /\ w[2].op = "repopulate"
  /\ \A k \in 1..Len(w) :
       /\ w[k].op = "repopulate" => d \in {"history", "snippets"}
       /\ w[k].op = "prefill" => Len(w) = 1 /\ d = "connect" /\ NoPassword(fm)

Dialogs == {"none", "history", "snippets", "connect", "connecting"}
Row == [index : Nat \ {0}, id : Int]
Form == [profiles : Seq(RecentProfile \cup SavedProfile),
         conn : DatabaseConnection \cup {None},
         password : {"", "pw"}, remember : BOOLEAN]

\* A process: its work, dialog, search, rows and fields.
ProcessSound(w, d, n, s, fm) ==
  /\ w \in Seq(WorkItem)
  /\ WorkOrder(w, d, fm)
  /\ d \in Dialogs
  /\ n \in Searches \cup {None}
  /\ s \in Seq(Row)
  /\ fm \in Form
  /\ s # <<>> => d \in {"history", "snippets"}
  /\ fm # EmptyForm => d \in {"connect", "connecting"}
  /\ d = "connecting" => fm.conn \in Conns

ProcessInv ==
  /\ work = [p \in Processes |-> work[p]]
  /\ dialog = [p \in Processes |-> dialog[p]]
  /\ needle = [p \in Processes |-> needle[p]]
  /\ shown = [p \in Processes |-> shown[p]]
  /\ form = [p \in Processes |-> form[p]]
  /\ \A p \in Processes : ProcessSound(work[p], dialog[p], needle[p], shown[p], form[p])

CountInv ==
  /\ creds \in [Targets -> {None, "pw"}]
  /\ commands \in 0..MaxCommands
  /\ crashes \in 0..MaxCrashes
  /\ disturbed \subseteq Files

\* The ids that lists hold have been given; that of an entry still to be written
\* is in no list but the one its process writes, and no other process's.
PendingOf(w) == w # <<>> /\ w[1].op \in {"record", "saveSnippet"}
Writes(p, f) == stage[p] # "ready" /\ FileOfWork(p) = f

IdInv ==
  /\ \A f \in WithIds :
       /\ \A i \in Ids(Load(f)) \cup Ids(ideal[f]) : i < commands
       /\ \A p \in Processes : Writes(p, f) => \A i \in Ids(changed[p]) : i < commands
  /\ \A p \in Processes : PendingOf(work[p]) =>
       /\ work[p][1].id < commands
       /\ \A f \in WithIds :
            /\ work[p][1].id \notin Ids(Load(f)) \cup Ids(ideal[f])
            /\ \A q \in Processes \ {p} : Writes(q, f) => work[p][1].id \notin Ids(changed[q])
       /\ \A q \in Processes \ {p} : PendingOf(work[q]) => work[q][1].id # work[p][1].id

\* While no changes of a file have overlapped, one process at most changes it, and
\* what it will write is what its change makes of the list as it should be.
LostInv ==
  /\ ideal = [f \in Files |-> ideal[f]]
  /\ \A f \in Files : IsListOf(f, ideal[f])
  /\ \A f \in Files \ disturbed :
       /\ \A p, q \in Processes : Writes(p, f) /\ Writes(q, f) => p = q
       /\ Settled(f) => Same(f, Load(f), ideal[f])
       /\ \A p \in Processes : Writes(p, f) =>
            \A list \in Results(Head(work[p]), ideal[f]) : Same(f, changed[p], list)

\* The rows of a list box that nobody has made outdated are where they say.
RowsRight(s, list) ==
  \A k \in 1..Len(s) : s[k].index \in 1..Len(list) /\ list[s[k].index].id = s[k].id

Refilled(w) == \A k \in 1..Len(w) : w[k].op # "repopulate"

RowsInv ==
  \A p \in Processes \ outdated :
    dialog[p] = "snippets" /\ Refilled(work[p]) => RowsRight(shown[p], Load("snippets"))

LastInv ==
  lastConn = IF ideal["recents"] = <<>> THEN None ELSE ideal["recents"][1]

IInv ==
  /\ FilesInv /\ ChangedInv /\ ProcessInv /\ CountInv
  /\ IdInv /\ LostInv /\ RowsInv /\ DeleteHitsSelected /\ LastInv

-----------------------------------------------------------------------------
(* One process acts.                                                       *)

\* g is f but for what it has at p.
Others(f, g, p) ==
  g = [q \in Processes |-> g[q]] /\ \A q \in Processes \ {p} : g[q] = f[q]

LEMMA OthersFacts ==
  ASSUME NEW p \in Processes, NEW f, f = [q \in Processes |-> f[q]], NEW e
  PROVE  /\ Others(f, [f EXCEPT ![p] = e], p)
         /\ [f EXCEPT ![p] = e][p] = e
         /\ Others(f, f, p)
  BY DEF Others

LEMMA ProcessFrame ==
  ASSUME ProcessInv, NEW p \in Processes,
         Others(work, work', p), Others(dialog, dialog', p), Others(needle, needle', p),
         Others(shown, shown', p), Others(form, form', p),
         ProcessSound(work'[p], dialog'[p], needle'[p], shown'[p], form'[p])
  PROVE  ProcessInv'
  <1>1. ASSUME NEW q \in Processes
        PROVE  ProcessSound(work'[q], dialog'[q], needle'[q], shown'[q], form'[q])
    <2>1. CASE q = p
      BY <2>1
    <2>2. CASE q # p
      <3>1. /\ work'[q] = work[q] /\ dialog'[q] = dialog[q] /\ needle'[q] = needle[q]
            /\ shown'[q] = shown[q] /\ form'[q] = form[q]
        BY <2>2 DEF Others
      <3> QED
        BY <3>1 DEF ProcessInv
    <2> QED
      BY <2>1, <2>2
  <1> QED
    BY <1>1 DEF ProcessInv, Others

\* The first of what is left to do.
LEMMA HeadFacts ==
  ASSUME NEW w \in Seq(WorkItem), w # <<>>
  PROVE  /\ Head(w) = w[1]
         /\ w[1] \in WorkItem
         /\ Len(w) \in Nat \ {0}
  BY TailFacts

\* What is left after it.
LEMMA TailSound ==
  ASSUME NEW w, NEW d, NEW n, NEW s, NEW fm, ProcessSound(w, d, n, s, fm), w # <<>>
  PROVE  /\ Tail(w) \in Seq(WorkItem)
         /\ WorkOrder(Tail(w), d, fm)
         /\ ~PendingOf(Tail(w))
         /\ w[1].op # "repopulate" => Refilled(Tail(w)) = Refilled(w)
         /\ w[1].op = "prefill" => Tail(w) = <<>>
  <1>1. w \in Seq(WorkItem) /\ WorkOrder(w, d, fm)
    BY DEF ProcessSound
  <1>2. PICK n1 \in Nat : n1 = Len(w)
    BY <1>1
  <1>3. PICK t : t = Tail(w)
    OBVIOUS
  <1>4. PICK m \in Nat : m = n1 - 1
    BY <1>1, <1>2, TailFacts
  <1>5. /\ t \in Seq(WorkItem) /\ Len(t) = m
        /\ \A k \in 1..m : t[k] = w[k + 1]
    BY <1>1, <1>2, <1>3, <1>4, TailFacts
  <1>6. \A k \in 1..m : k + 1 \in 2..n1 /\ k + 1 \in 1..n1
    BY <1>4
  <1>7. \A k \in 1..m : t[k].op \notin {"record", "saveSnippet", "removeSnippet"}
    BY <1>1, <1>2, <1>5, <1>6 DEF WorkOrder
  <1>8. \A k \in 1..m : t[k].op = "repopulate" => d \in {"history", "snippets"}
    BY <1>1, <1>2, <1>5, <1>6 DEF WorkOrder
  <1>9. \A k \in 1..m : t[k].op # "prefill"
    <2>1. ASSUME NEW k \in 1..m, t[k].op = "prefill" PROVE FALSE
      <3>1. w[k + 1].op = "prefill" /\ k + 1 \in 1..n1
        BY <1>5, <1>6, <2>1
      <3>2. n1 = 1
        BY <1>1, <1>2, <3>1 DEF WorkOrder
      <3> QED
        BY <1>4, <3>2
    <2> QED
      BY <2>1
  <1>10. t # <<>> => 1 \in 1..m
    BY <1>5
  <1>11. WorkOrder(t, d, fm)
    <2>1. \A k \in 2..m : k \in 1..m
      OBVIOUS
    <2> QED
      BY <1>5, <1>7, <1>8, <1>9, <1>10, <2>1 DEF WorkOrder
  <1>12. ~PendingOf(t)
    BY <1>7, <1>10 DEF PendingOf
  <1>13. ASSUME w[1].op # "repopulate" PROVE Refilled(t) = Refilled(w)
    <2>1. ASSUME Refilled(t), NEW k \in 1..n1 PROVE w[k].op # "repopulate"
      <3>1. CASE k = 1
        BY <1>13, <3>1
      <3>2. CASE k # 1
        <4>1. PICK l \in 1..m : k = l + 1
          BY <1>4, <3>2
        <4> QED
          BY <1>5, <2>1, <4>1 DEF Refilled
      <3> QED
        BY <3>1, <3>2
    <2>2. ASSUME Refilled(w), NEW k \in 1..m PROVE t[k].op # "repopulate"
      BY <1>2, <1>5, <1>6, <2>2 DEF Refilled
    <2>3. Refilled(t) => Refilled(w)
      BY <1>2, <2>1 DEF Refilled
    <2>4. Refilled(w) => Refilled(t)
      BY <1>5, <2>2 DEF Refilled
    <2> QED
      BY <2>3, <2>4 DEF Refilled
  <1>14. ASSUME w[1].op = "prefill" PROVE t = <<>>
    <2>1. 1 \in 1..n1
      BY <1>4
    <2>2. n1 = 1
      BY <1>1, <1>2, <1>14, <2>1 DEF WorkOrder
    <2> QED
      BY <1>4, <1>5, <2>2
  <1> QED
    BY <1>3, <1>5, <1>11, <1>12, <1>13, <1>14

\* A process whose first task is done and that has changed nothing else.
LEMMA TailProcess ==
  ASSUME ProcessInv, NEW p \in Processes, work[p] # <<>>, Done(p),
         UNCHANGED <<dialog, needle, shown, form>>
  PROVE  /\ ProcessInv'
         /\ work'[p] = Tail(work[p])
         /\ \A q \in Processes \ {p} : work'[q] = work[q]
  <1>1. ProcessSound(work[p], dialog[p], needle[p], shown[p], form[p])
    BY DEF ProcessInv
  <1>2. /\ work' = [work EXCEPT ![p] = Tail(work[p])]
        /\ work = [q \in Processes |-> work[q]]
    BY DEF Done, ProcessInv
  <1>3. Others(work, work', p) /\ work'[p] = Tail(work[p])
    BY <1>2, OthersFacts
  <1>4. ProcessSound(work'[p], dialog'[p], needle'[p], shown'[p], form'[p])
    BY <1>1, <1>3, TailSound DEF ProcessSound
  <1>5. /\ Others(dialog, dialog', p) /\ Others(needle, needle', p)
        /\ Others(shown, shown', p) /\ Others(form, form', p)
    BY DEF ProcessInv, Others
  <1> QED
    BY <1>3, <1>4, <1>5, ProcessFrame DEF Others

\* An entry that is to be written has a number for its id; so have those of lists.
LEMMA PendingIsInt ==
  ASSUME ProcessInv, NEW p \in Processes, PendingOf(work[p])
  PROVE  /\ work[p][1].id \in Nat
         /\ work[p][1] = Head(work[p])
  <1>1. work[p] \in Seq(WorkItem) /\ work[p] # <<>>
    BY DEF ProcessInv, ProcessSound, PendingOf
  <1>2. work[p][1] \in WorkItem /\ Head(work[p]) = work[p][1]
    BY <1>1, HeadFacts
  <1> QED
    BY <1>2, WorkItemFacts DEF PendingOf

LEMMA IdsAreInts ==
  ASSUME NEW f \in WithIds, NEW list, IsListOf(f, list)
  PROVE  Ids(list) \subseteq Int
  <1>1. CASE f = "history"
    <2>1. list \in Seq(HistoryEntry)
      BY <1>1 DEF IsListOf, EntryOf
    <2>2. \A e \in HistoryEntry : e.id \in Int
      BY DEF HistoryEntry, HistoryEntries
    <2> QED
      BY <2>1, <2>2 DEF Ids, EntriesOf
  <1>2. CASE f = "snippets"
    <2>1. list \in Seq(Snippet)
      BY <1>2 DEF IsListOf, EntryOf
    <2>2. \A e \in Snippet : e.id \in Int
      BY DEF Snippet, Snippets
    <2> QED
      BY <2>1, <2>2 DEF Ids, EntriesOf
  <1> QED
    BY <1>1, <1>2 DEF WithIds

-----------------------------------------------------------------------------
(* Steps that leave the stores alone.                                      *)

\* A task that is no change of a store has no list to write.
LEMMA NotChanging ==
  ASSUME ChangedInv, NEW p \in Processes, work[p] = <<>> \/ Head(work[p]).op \notin Changes
  PROVE  stage[p] = "ready"
  BY DEF ChangedInv, Changing

\* No file, no list in memory and no history of either changes, and whoever changes
\* a store goes on with it.
StoresQuiet ==
  /\ UNCHANGED <<files, stage, changed, ideal, disturbed, lastConn>>
  /\ \A q \in Processes : stage[q] # "ready" => work'[q] = work[q]

LEMMA QuietStep ==
  ASSUME FilesInv, ChangedInv, LostInv, LastInv, StoresQuiet
  PROVE  FilesInv' /\ ChangedInv' /\ LostInv' /\ LastInv'
  <1>1. \A f : Load(f)' = Load(f)
    BY DEF StoresQuiet, Load
  <1>2. FilesInv'
    BY <1>1 DEF FilesInv, StoresQuiet
  <1>3. \A q \in Processes : stage[q] # "ready" =>
          work'[q] = work[q] /\ FileOfWork(q)' = FileOfWork(q)
    BY DEF StoresQuiet, FileOfWork
  <1>4. ChangedInv'
    <2>1. ASSUME NEW q \in Processes, stage'[q] # "ready"
          PROVE  Changing(q)' /\ IsListOf(FileOfWork(q)', changed'[q])
      <3>1. stage[q] # "ready" /\ changed'[q] = changed[q]
        BY <2>1 DEF StoresQuiet
      <3>2. work'[q] = work[q] /\ FileOfWork(q)' = FileOfWork(q)
        BY <1>3, <3>1
      <3>3. Changing(q) /\ IsListOf(FileOfWork(q), changed[q])
        BY <3>1 DEF ChangedInv
      <3> QED
        BY <3>1, <3>2, <3>3 DEF Changing
    <2> QED
      BY <2>1 DEF ChangedInv, StoresQuiet
  <1>5. \A q \in Processes, f \in Files : Writes(q, f)' <=> Writes(q, f)
    BY <1>3 DEF Writes, StoresQuiet
  <1>6. \A f \in Files : Settled(f)' <=> Settled(f)
    BY <1>3 DEF Settled, StoresQuiet
  <1>7. ASSUME NEW f \in Files \ disturbed
        PROVE  /\ \A p, q \in Processes : Writes(p, f)' /\ Writes(q, f)' => p = q
               /\ Settled(f)' => Same(f, Load(f)', ideal'[f])
               /\ \A p \in Processes : Writes(p, f)' =>
                    \A list \in Results(Head(work'[p]), ideal'[f]) : Same(f, changed'[p], list)
    <2>1. \A p, q \in Processes : Writes(p, f)' /\ Writes(q, f)' => p = q
      BY <1>5 DEF LostInv
    <2>2. Settled(f)' => Same(f, Load(f)', ideal'[f])
      BY <1>1, <1>6 DEF LostInv, StoresQuiet
    <2>3. ASSUME NEW p \in Processes, Writes(p, f)', NEW list \in Results(Head(work'[p]), ideal'[f])
          PROVE  Same(f, changed'[p], list)
      <3>1. Writes(p, f) /\ stage[p] # "ready"
        BY <1>5, <2>3 DEF Writes
      <3>2. work'[p] = work[p] /\ changed'[p] = changed[p] /\ ideal'[f] = ideal[f]
        BY <1>3, <3>1 DEF StoresQuiet
      <3> QED
        BY <2>3, <3>1, <3>2 DEF LostInv
    <2> QED
      BY <2>1, <2>2, <2>3
  <1>8. LostInv'
    <2>1. ideal' = ideal /\ disturbed' = disturbed
      BY DEF StoresQuiet
    <2> QED
      BY <1>7, <2>1 DEF LostInv
  <1>9. LastInv'
    BY DEF LastInv, StoresQuiet
  <1> QED
    BY <1>2, <1>4, <1>8, <1>9

\* The ids in the lists stay as they are while no new entry is to be written.
LEMMA QuietIds ==
  ASSUME IdInv, StoresQuiet, commands \in Int, commands' \in Int, commands <= commands',
         FilesInv, LostInv, ChangedInv, ProcessInv,
         \A q \in Processes : PendingOf(work'[q]) => work'[q] = work[q]
  PROVE  IdInv'
  <1>1. \A f : Load(f)' = Load(f)
    BY DEF StoresQuiet, Load
  <1>2. \A q \in Processes, f \in WithIds : Writes(q, f)' => Writes(q, f)
    BY DEF Writes, StoresQuiet, FileOfWork
  <1>3. ideal' = ideal /\ changed' = changed
    BY DEF StoresQuiet
  <1>4. ASSUME NEW f \in WithIds
        PROVE  /\ \A i \in Ids(Load(f)') \cup Ids(ideal'[f]) : i < commands'
               /\ \A p \in Processes : Writes(p, f)' => \A i \in Ids(changed'[p]) : i < commands'
    <2>1. f \in Files
      BY DEF WithIds, Files
    <2>2. \A i \in Ids(Load(f)) \cup Ids(ideal[f]) : i \in Int
      <3>1. IsListOf(f, Load(f)) /\ IsListOf(f, ideal[f])
        BY <2>1 DEF FilesInv, LostInv
      <3> QED
        BY <3>1, IdsAreInts
    <2>3. \A i \in Ids(Load(f)') \cup Ids(ideal'[f]) : i < commands'
      BY <1>1, <1>3, <2>2 DEF IdInv
    <2>4. ASSUME NEW p \in Processes, Writes(p, f)', NEW i \in Ids(changed'[p])
          PROVE  i < commands'
      <3>1. Writes(p, f)
        BY <1>2, <2>4
      <3>2. IsListOf(f, changed[p])
        BY <3>1 DEF ChangedInv, Writes
      <3>3. i \in Ids(changed[p]) /\ i \in Int
        BY <1>3, <2>4, <3>2, IdsAreInts
      <3>4. i < commands
        BY <3>1, <3>3 DEF IdInv
      <3> QED
        BY <3>3, <3>4
    <2> QED
      BY <2>3, <2>4
  <1>5. ASSUME NEW p \in Processes, PendingOf(work'[p])
        PROVE  /\ work'[p][1].id < commands'
               /\ \A f \in WithIds :
                    /\ work'[p][1].id \notin Ids(Load(f)') \cup Ids(ideal'[f])
                    /\ \A q \in Processes \ {p} : Writes(q, f)' =>
                         work'[p][1].id \notin Ids(changed'[q])
               /\ \A q \in Processes \ {p} : PendingOf(work'[q]) =>
                    work'[q][1].id # work'[p][1].id
    <2>1. work'[p] = work[p] /\ PendingOf(work[p])
      BY <1>5
    <2>2. work[p][1].id \in Int
      BY <2>1, PendingIsInt
    <2>3. work'[p][1].id < commands'
      BY <2>1, <2>2 DEF IdInv
    <2>4. \A f \in WithIds : work'[p][1].id \notin Ids(Load(f)') \cup Ids(ideal'[f])
      BY <1>1, <1>3, <2>1 DEF IdInv
    <2>5. \A f \in WithIds : \A q \in Processes \ {p} : Writes(q, f)' =>
            work'[p][1].id \notin Ids(changed'[q])
      BY <1>2, <1>3, <2>1 DEF IdInv
    <2>6. \A q \in Processes \ {p} : PendingOf(work'[q]) => work'[q][1].id # work'[p][1].id
      BY <2>1 DEF IdInv
    <2> QED
      BY <2>3, <2>4, <2>5, <2>6
  <1> QED
    BY <1>4, <1>5 DEF IdInv

-----------------------------------------------------------------------------
(* What a process may have been given to do.                               *)

LEMMA EmptyWork ==
  ASSUME NEW d, NEW fm
  PROVE  <<>> \in Seq(WorkItem) /\ WorkOrder(<<>>, d, fm) /\ ~PendingOf(<<>>)
  <1>1. PICK w : w = <<>> /\ w \in Seq(WorkItem) /\ Len(w) = 0
    <2>1. <<>> \in Seq(WorkItem) /\ Len(<<>>) = 0
      OBVIOUS
    <2> QED
      BY <2>1
  <1>2. 1..0 = {} /\ 2..0 = {}
    OBVIOUS
  <1> QED
    BY <1>1, <1>2 DEF WorkOrder, PendingOf

LEMMA OneTask ==
  ASSUME NEW x \in WorkItem, NEW d, NEW fm, x.op \notin {"saveSnippet", "removeSnippet"},
         x.op = "repopulate" => d \in {"history", "snippets"},
         x.op = "prefill" => d = "connect" /\ NoPassword(fm)
  PROVE  /\ <<x>> \in Seq(WorkItem)
         /\ WorkOrder(<<x>>, d, fm)
         /\ PendingOf(<<x>>) <=> x.op \in {"record", "saveSnippet"}
         /\ <<x>>[1] = x
  <1>1. PICK w : w = <<x>>
    OBVIOUS
  <1>2. w \in Seq(WorkItem) /\ Len(w) = 1 /\ w[1] = x /\ w # <<>>
    <2>1. <<x>> \in Seq(WorkItem) /\ Len(<<x>>) = 1 /\ <<x>>[1] = x
      OBVIOUS
    <2>2. w \in Seq(WorkItem) /\ Len(w) = 1 /\ w[1] = x
      BY <1>1, <2>1
    <2>3. w # <<>>
      BY <2>2, SeqFacts
    <2> QED
      BY <2>2, <2>3
  <1>3. WorkOrder(w, d, fm)
    <2>1. \A k \in 1..1 : k = 1
      OBVIOUS
    <2>2. 2..1 = {}
      OBVIOUS
    <2>3. \A k \in 2..Len(w) : w[k].op \notin {"record", "saveSnippet", "removeSnippet"}
      BY <1>2, <2>2
    <2>4. \A k \in 1..Len(w) :
            /\ w[k].op = "repopulate" => d \in {"history", "snippets"}
            /\ w[k].op = "prefill" => Len(w) = 1 /\ d = "connect" /\ NoPassword(fm)
      BY <1>2, <2>1
    <2> QED
      BY <1>2, <2>3, <2>4 DEF WorkOrder
  <1> QED
    BY <1>1, <1>2, <1>3 DEF PendingOf

LEMMA TwoTasks ==
  ASSUME NEW x \in WorkItem, NEW y \in WorkItem, NEW d \in {"history", "snippets"}, NEW fm,
         y.op = "repopulate", x.op \notin {"repopulate", "prefill"}
  PROVE  /\ <<x, y>> \in Seq(WorkItem)
         /\ WorkOrder(<<x, y>>, d, fm)
         /\ PendingOf(<<x, y>>) <=> x.op \in {"record", "saveSnippet"}
         /\ <<x, y>>[1] = x
         /\ ~Refilled(<<x, y>>)
  <1>1. PICK w : w = <<x, y>>
    OBVIOUS
  <1>2. w \in Seq(WorkItem) /\ Len(w) = 2 /\ w[1] = x /\ w[2] = y /\ w # <<>>
    BY <1>1
  <1>3. \A k \in 1..2 : k = 1 \/ k = 2
    OBVIOUS
  <1>4. WorkOrder(w, d, fm)
    BY <1>2, <1>3 DEF WorkOrder
  <1>5. ~Refilled(w)
    BY <1>2 DEF Refilled
  <1> QED
    BY <1>1, <1>2, <1>4, <1>5 DEF PendingOf

\* What a connection that has been made leaves to do.
Recording == AddRecentWork \cup SaveProfileWork \cup CredentialsWork

LEMMA RecordingTasks ==
  ASSUME NEW w \in Seq(Recording), NEW d, NEW fm
  PROVE  w \in Seq(WorkItem) /\ WorkOrder(w, d, fm) /\ ~PendingOf(w)
  <1>1. Recording \subseteq WorkItem
    BY DEF Recording, WorkItem
  <1>2. w \in Seq(WorkItem)
    BY <1>1
  <1>3. \A x \in Recording : x.op \in {"addRecent", "saveProfile", "credentials"}
    BY DEF Recording, AddRecentWork, SaveProfileWork, CredentialsWork
  <1>4. \A k \in 1..Len(w) : w[k].op \in {"addRecent", "saveProfile", "credentials"}
    BY <1>3
  <1>5. w # <<>> => 1 \in 1..Len(w)
    OBVIOUS
  <1>6. \A k \in 2..Len(w) : k \in 1..Len(w)
    OBVIOUS
  <1> QED
    BY <1>2, <1>4, <1>5, <1>6 DEF WorkOrder, PendingOf

-----------------------------------------------------------------------------
(* The rows of a list box.                                                 *)

\* A list box that has just been filled names what it shows.
LEMMA ShownRight ==
  ASSUME FilesInv, NEW f \in WithIds, NEW n
  PROVE  /\ Shown(f, n) \in Seq(Row)
         /\ RowsRight(Shown(f, n), Load(f))
  <1>1. PICK list : list = Load(f)
    OBVIOUS
  <1>2. IsListOf(f, list) /\ f \in Files
    BY <1>1 DEF FilesInv, WithIds, Files
  <1>3. PICK m \in Nat : m = Len(list)
    BY <1>2 DEF IsListOf
  <1>4. \A k \in 1..m : list[k].id \in Int
    <2>1. \A k \in 1..m : list[k].id \in Ids(list)
      BY <1>3 DEF Ids, EntriesOf
    <2> QED
      BY <1>2, <2>1, IdsAreInts
  <1>5. PICK rows : rows = [k \in 1..m |-> [index |-> k, id |-> list[k].id]]
    OBVIOUS
  <1>6. rows \in Seq(Row) /\ Len(rows) = m
    <2>1. \A k \in 1..m : [index |-> k, id |-> list[k].id] \in Row
      BY <1>4 DEF Row
    <2> QED
      BY <1>5, <2>1
  <1>7. PICK s, dropped : s = Shown(f, n) /\ s = Without(rows, dropped)
    BY <1>1, <1>3, <1>5 DEF Shown
  <1>8. s \in Seq(Row) /\ EntriesOf(s) \subseteq EntriesOf(rows)
    BY <1>6, <1>7, WithoutKeeps, WithoutEntries
  <1>9. ASSUME NEW k \in 1..Len(s)
        PROVE  s[k].index \in 1..Len(list) /\ list[s[k].index].id = s[k].id
    <2>1. s[k] \in EntriesOf(rows)
      BY <1>8 DEF EntriesOf
    <2>2. PICK i \in 1..m : s[k] = rows[i]
      BY <1>6, <2>1 DEF EntriesOf
    <2> QED
      BY <1>3, <1>5, <2>2
  <1> QED
    BY <1>1, <1>7, <1>8, <1>9 DEF RowsRight

\* The rows stay right while the snippets stay what they are, if those of the
\* process that acts are.
LEMMA RowsFrame ==
  ASSUME RowsInv, NEW p \in Processes, files' = files,
         \A q \in Processes \ {p} : /\ work'[q] = work[q] /\ dialog'[q] = dialog[q]
                                    /\ shown'[q] = shown[q]
                                    /\ q \in outdated => q \in outdated',
         p \notin outdated' /\ dialog'[p] = "snippets" /\ Refilled(work'[p]) =>
           RowsRight(shown'[p], Load("snippets"))
  PROVE  RowsInv'
  <1>1. Load("snippets")' = Load("snippets")
    BY DEF Load
  <1>2. ASSUME NEW q \in Processes \ outdated', dialog'[q] = "snippets", Refilled(work'[q])
        PROVE  RowsRight(shown'[q], Load("snippets"))
    <2>1. CASE q = p
      BY <1>2, <2>1
    <2>2. CASE q # p
      <3>1. /\ work'[q] = work[q] /\ dialog'[q] = dialog[q] /\ shown'[q] = shown[q]
            /\ q \in Processes \ outdated
        BY <2>2
      <3> QED
        BY <1>2, <3>1 DEF RowsInv
    <2> QED
      BY <2>1, <2>2
  <1> QED
    BY <1>1, <1>2 DEF RowsInv

\* A step that leaves the stores alone and writes no new entry keeps the invariant
\* if it keeps what it says of its process.
LEMMA QuietInvariant ==
  ASSUME IInv, StoresQuiet, ProcessInv', CountInv', RowsInv', DeleteHitsSelected',
         commands <= commands',
         \A q \in Processes : PendingOf(work'[q]) => work'[q] = work[q]
  PROVE  IInv'
  <1>1. FilesInv' /\ ChangedInv' /\ LostInv' /\ LastInv'
    BY QuietStep DEF IInv
  <1>2. commands \in Int /\ commands' \in Int
    <2>1. MaxCommands \in Nat
      BY StoresAssumption
    <2> QED
      BY <2>1 DEF IInv, CountInv
  <1>3. IdInv'
    BY <1>2, QuietIds DEF IInv
  <1> QED
    BY <1>1, <1>3 DEF IInv

-----------------------------------------------------------------------------
(* The actions that leave the stores alone, one by one.                    *)

\* What they all have in common.
LEMMA ActingFacts ==
  ASSUME IInv, NEW p \in Processes
  PROVE  /\ ProcessSound(work[p], dialog[p], needle[p], shown[p], form[p])
         /\ work = [q \in Processes |-> work[q]]
         /\ dialog = [q \in Processes |-> dialog[q]]
         /\ needle = [q \in Processes |-> needle[q]]
         /\ shown = [q \in Processes |-> shown[q]]
         /\ form = [q \in Processes |-> form[q]]
         /\ commands \in Nat
         /\ MaxCommands \in Nat
         /\ work[p] = <<>> => stage[p] = "ready"
         /\ \A op : Doing(p, op) /\ op \notin Changes => stage[p] = "ready"
  <1>1. MaxCommands \in Nat
    BY StoresAssumption
  <1>2. commands \in Nat
    BY <1>1 DEF IInv, CountInv
  <1>3. work[p] = <<>> \/ Head(work[p]).op \notin Changes => stage[p] = "ready"
    BY NotChanging DEF IInv
  <1> QED
    BY <1>1, <1>2, <1>3 DEF IInv, ProcessInv, Doing

\* Nothing of the stores changes, and no work but that of a process that has no
\* change under way.
LEMMA QuietWhenReady ==
  ASSUME NEW p \in Processes, stage[p] = "ready", Others(work, work', p),
         UNCHANGED <<files, stage, changed, ideal, disturbed, lastConn>>
  PROVE  StoresQuiet
  <1>1. \A q \in Processes : stage[q] # "ready" => q # p
    OBVIOUS
  <1> QED
    BY <1>1 DEF StoresQuiet, Others

LEMMA TouchCredentialsInv ==
  ASSUME IInv, NEW p \in Processes, TouchCredentials(p)
  PROVE  IInv'
  <1>1. /\ stage[p] = "ready" /\ work[p] # <<>> /\ Head(work[p]).op = "credentials"
        /\ work[p] \in Seq(WorkItem)
    BY ActingFacts DEF TouchCredentials, Doing, Changes, ProcessSound
  <1>2. Done(p) /\ UNCHANGED <<dialog, needle, shown, form>>
    BY DEF TouchCredentials, uiVars
  <1>3. /\ ProcessInv'
        /\ work'[p] = Tail(work[p])
        /\ \A q \in Processes \ {p} : work'[q] = work[q]
    BY <1>1, <1>2, TailProcess DEF IInv
  <1>4. Others(work, work', p)
    BY <1>3 DEF ProcessInv, Others
  <1>5. StoresQuiet
    BY <1>1, <1>4, QuietWhenReady DEF TouchCredentials, historyVars
  <1>6. /\ ~PendingOf(work'[p])
        /\ Refilled(work'[p]) = Refilled(work[p])
    <2>1. work[p][1].op # "repopulate"
      BY <1>1, HeadFacts
    <2> QED
      BY <1>1, <1>3, <2>1, ActingFacts, TailSound
  <1>7. CountInv'
    <2>1. PICK c : c = Head(work[p])
      OBVIOUS
    <2>2. c \in WorkItem /\ c.op = "credentials"
      BY <1>1, <2>1, HeadFacts
    <2>3. c.target \in Targets /\ c.password \in {"", "pw"}
      BY <2>2, WorkItemFacts
    <2>4. creds' = [creds EXCEPT ![c.target] =
                      IF c.remember /\ c.password # "" THEN c.password ELSE None]
      BY <2>1 DEF TouchCredentials
    <2>5. creds' \in [Targets -> {None, "pw"}]
      <3>1. (IF c.remember /\ c.password # "" THEN c.password ELSE None) \in {None, "pw"}
        BY <2>3
      <3>2. creds \in [Targets -> {None, "pw"}]
        BY DEF IInv, CountInv
      <3> QED
        BY <2>4, <3>1, <3>2
    <2> QED
      BY <2>5 DEF IInv, CountInv, TouchCredentials, countVars, historyVars
  <1>8. RowsInv'
    <2>1. /\ files' = files /\ outdated' = outdated
          /\ dialog' = dialog /\ shown' = shown
      BY DEF TouchCredentials, historyVars, uiVars
    <2>2. p \notin outdated /\ dialog[p] = "snippets" /\ Refilled(work'[p]) =>
            RowsRight(shown[p], Load("snippets"))
      BY <1>6 DEF IInv, RowsInv
    <2> QED
      BY <1>3, <2>1, <2>2, RowsFrame DEF IInv
  <1>9. DeleteHitsSelected'
    BY DEF IInv, DeleteHitsSelected, TouchCredentials, historyVars
  <1>10. \A q \in Processes : PendingOf(work'[q]) => work'[q] = work[q]
    BY <1>3, <1>6
  <1>11. commands' = commands /\ commands \in Nat
    BY ActingFacts DEF TouchCredentials, countVars
  <1> QED
    BY <1>3, <1>5, <1>7, <1>8, <1>9, <1>10, <1>11, QuietInvariant

LEMMA RepopulateInv ==
  ASSUME IInv, NEW p \in Processes, Repopulate(p)
  PROVE  IInv'
  <1>1. /\ stage[p] = "ready" /\ work[p] # <<>> /\ Head(work[p]).op = "repopulate"
        /\ work[p] \in Seq(WorkItem)
    BY ActingFacts DEF Repopulate, Doing, Changes, ProcessSound
  <1>2. Others(work, work', p) /\ work'[p] = Tail(work[p])
    <2>1. work' = [work EXCEPT ![p] = Tail(work[p])]
      BY DEF Repopulate, Done
    <2> QED
      BY <2>1, ActingFacts, OthersFacts
  <1>3. Others(shown, shown', p) /\ shown'[p] = Shown(dialog[p], needle[p])
    <2>1. shown' = [shown EXCEPT ![p] = Shown(dialog[p], needle[p])]
      BY DEF Repopulate
    <2> QED
      BY <2>1, ActingFacts, OthersFacts
  <1>4. dialog' = dialog /\ needle' = needle /\ form' = form /\ files' = files
    BY DEF Repopulate
  <1>5. dialog[p] \in WithIds
    <2>1. work[p][1].op = "repopulate" /\ 1 \in 1..Len(work[p])
      BY <1>1, HeadFacts
    <2>2. WorkOrder(work[p], dialog[p], form[p])
      BY ActingFacts DEF ProcessSound
    <2> QED
      BY <2>1, <2>2 DEF WorkOrder, WithIds
  <1>6. /\ shown'[p] \in Seq(Row)
        /\ RowsRight(shown'[p], Load(dialog[p]))
    BY <1>3, <1>5, ShownRight DEF IInv
  <1>7. /\ Tail(work[p]) \in Seq(WorkItem)
        /\ WorkOrder(Tail(work[p]), dialog[p], form[p])
        /\ ~PendingOf(Tail(work[p]))
    BY <1>1, ActingFacts, TailSound
  <1>8. ProcessInv'
    <2>1. ProcessSound(work'[p], dialog'[p], needle'[p], shown'[p], form'[p])
      BY <1>2, <1>4, <1>5, <1>6, <1>7, ActingFacts DEF ProcessSound, WithIds
    <2>2. Others(dialog, dialog', p) /\ Others(needle, needle', p) /\ Others(form, form', p)
      BY <1>4, ActingFacts DEF Others
    <2> QED
      BY <1>2, <1>3, <2>1, <2>2, ProcessFrame DEF IInv
  <1>9. StoresQuiet
    BY <1>1, <1>2, QuietWhenReady DEF Repopulate
  <1>10. CountInv'
    BY DEF IInv, CountInv, Repopulate, countVars
  <1>11. RowsInv'
    <2>1. \A q \in Processes \ {p} : /\ work'[q] = work[q] /\ dialog'[q] = dialog[q]
                                     /\ shown'[q] = shown[q]
                                     /\ q \in outdated => q \in outdated'
      BY <1>2, <1>3, <1>4 DEF Others, Repopulate
    <2>2. dialog'[p] = "snippets" => RowsRight(shown'[p], Load("snippets"))
      BY <1>4, <1>6
    <2> QED
      BY <1>4, <2>1, <2>2, RowsFrame DEF IInv
  <1>12. DeleteHitsSelected'
    BY DEF IInv, DeleteHitsSelected, Repopulate
  <1>13. \A q \in Processes : PendingOf(work'[q]) => work'[q] = work[q]
    BY <1>2, <1>7 DEF Others
  <1>14. commands' = commands /\ commands \in Nat
    BY ActingFacts DEF Repopulate, countVars
  <1> QED
    BY <1>8, <1>9, <1>10, <1>11, <1>12, <1>13, <1>14, QuietInvariant

LEMMA ShowListInv ==
  ASSUME IInv, NEW p \in Processes, ShowList(p)
  PROVE  IInv'
  <1>1. stage[p] = "ready" /\ work[p] = <<>> /\ work' = work
    BY ActingFacts DEF ShowList, Idle, storeVars
  <1>2. /\ Others(dialog, dialog', p) /\ Others(needle, needle', p)
        /\ dialog'[p] \in WithIds /\ needle'[p] \in Searches \cup {None}
    <2>0. needle[p] \in Searches \cup {None} /\ dialog[p] \in Dialogs
      BY ActingFacts DEF ProcessSound
    <2>1. CASE dialog[p] = "none" /\ dialog' = [dialog EXCEPT ![p] = "history"] /\ needle' = needle
      BY <2>0, <2>1, ActingFacts, OthersFacts DEF WithIds
    <2>2. CASE /\ dialog[p] # "none" /\ needle' = needle
               /\ \E m \in {"history", "snippets"} \ {dialog[p]} :
                    dialog' = [dialog EXCEPT ![p] = m]
      BY <2>0, <2>2, ActingFacts, OthersFacts DEF WithIds
    <2>3. CASE /\ dialog[p] # "none" /\ dialog' = dialog
               /\ \E n \in (Searches \cup {None}) \ {needle[p]} :
                    needle' = [needle EXCEPT ![p] = n]
      <3>1. dialog[p] \in WithIds
        BY <2>3 DEF ShowList, WithIds
      <3> QED
        BY <2>3, <3>1, ActingFacts, OthersFacts
    <2> QED
      BY <2>1, <2>2, <2>3 DEF ShowList
  <1>3. Others(shown, shown', p) /\ shown'[p] = Shown(dialog'[p], needle'[p])
    <2>1. shown' = [shown EXCEPT ![p] = Shown(dialog'[p], needle'[p])]
      BY DEF ShowList
    <2> QED
      BY <2>1, ActingFacts, OthersFacts
  <1>4. form' = form /\ files' = files
    BY DEF ShowList, storeVars
  <1>5. /\ shown'[p] \in Seq(Row)
        /\ RowsRight(shown'[p], Load(dialog'[p]))
    <2>1. PICK d, n : d \in WithIds /\ d = dialog'[p] /\ n = needle'[p]
      BY <1>2
    <2>2. Shown(d, n) \in Seq(Row) /\ RowsRight(Shown(d, n), Load(d))
      BY <2>1, ShownRight DEF IInv
    <2> QED
      BY <1>3, <2>1, <2>2
  <1>6. ProcessInv'
    <2>1. form[p] = EmptyForm
      BY ActingFacts DEF ProcessSound, ShowList
    <2>2. WorkOrder(work'[p], dialog'[p], form'[p]) /\ work'[p] \in Seq(WorkItem)
      BY <1>1, EmptyWork
    <2>3. ProcessSound(work'[p], dialog'[p], needle'[p], shown'[p], form'[p])
      BY <1>2, <1>4, <1>5, <2>1, <2>2, ActingFacts DEF ProcessSound, WithIds, Dialogs
    <2>4. Others(work, work', p) /\ Others(form, form', p)
      BY <1>1, <1>4, ActingFacts DEF Others
    <2> QED
      BY <1>2, <1>3, <2>3, <2>4, ProcessFrame DEF IInv
  <1>7. StoresQuiet
    BY <1>1 DEF StoresQuiet, ShowList, storeVars
  <1>8. CountInv'
    BY DEF IInv, CountInv, ShowList, countVars, storeVars
  <1>9. RowsInv'
    <2>1. \A q \in Processes \ {p} : /\ work'[q] = work[q] /\ dialog'[q] = dialog[q]
                                     /\ shown'[q] = shown[q]
                                     /\ q \in outdated => q \in outdated'
      BY <1>1, <1>2, <1>3 DEF Others, ShowList
    <2>2. dialog'[p] = "snippets" => RowsRight(shown'[p], Load("snippets"))
      BY <1>5
    <2> QED
      BY <1>4, <2>1, <2>2, RowsFrame DEF IInv
  <1>10. DeleteHitsSelected'
    BY DEF IInv, DeleteHitsSelected, ShowList
  <1>11. commands' = commands /\ commands \in Nat
    BY ActingFacts DEF ShowList, countVars
  <1> QED
    BY <1>1, <1>6, <1>7, <1>8, <1>9, <1>10, <1>11, QuietInvariant

LEMMA CloseListInv ==
  ASSUME IInv, NEW p \in Processes, CloseList(p)
  PROVE  IInv'
  <1>1. stage[p] = "ready" /\ work[p] = <<>> /\ work' = work
    BY ActingFacts DEF CloseList, Idle, storeVars
  <1>2. /\ Others(dialog, dialog', p) /\ dialog'[p] = "none"
        /\ Others(needle, needle', p) /\ needle'[p] = None
        /\ Others(shown, shown', p) /\ shown'[p] = <<>>
    BY ActingFacts, OthersFacts DEF CloseList
  <1>3. form' = form /\ files' = files
    BY DEF CloseList, storeVars
  <1>4. ProcessInv'
    <2>1. form[p] = EmptyForm
      BY ActingFacts DEF ProcessSound, CloseList
    <2>2. WorkOrder(work'[p], dialog'[p], form'[p]) /\ work'[p] \in Seq(WorkItem)
      BY <1>1, EmptyWork
    <2>3. <<>> \in Seq(Row)
      OBVIOUS
    <2>4. ProcessSound(work'[p], dialog'[p], needle'[p], shown'[p], form'[p])
      BY <1>2, <1>3, <2>1, <2>2, <2>3, ActingFacts DEF ProcessSound, Dialogs
    <2>5. Others(work, work', p) /\ Others(form, form', p)
      BY <1>1, <1>3, ActingFacts DEF Others
    <2> QED
      BY <1>2, <2>4, <2>5, ProcessFrame DEF IInv
  <1>5. StoresQuiet
    BY <1>1 DEF StoresQuiet, CloseList, storeVars, historyVars
  <1>6. CountInv'
    BY DEF IInv, CountInv, CloseList, countVars, storeVars, historyVars
  <1>7. RowsInv'
    <2>1. \A q \in Processes \ {p} : /\ work'[q] = work[q] /\ dialog'[q] = dialog[q]
                                     /\ shown'[q] = shown[q]
                                     /\ q \in outdated => q \in outdated'
      BY <1>1, <1>2 DEF Others, CloseList, historyVars
    <2> QED
      BY <1>2, <1>3, <2>1, RowsFrame DEF IInv
  <1>8. DeleteHitsSelected'
    BY DEF IInv, DeleteHitsSelected, CloseList, historyVars
  <1>9. commands' = commands /\ commands \in Nat
    BY ActingFacts DEF CloseList, countVars
  <1> QED
    BY <1>1, <1>4, <1>5, <1>6, <1>7, <1>8, <1>9, QuietInvariant

\* The id of an entry that a command is to write is new.
LEMMA NewEntryIds ==
  ASSUME IInv, NEW p \in Processes, StoresQuiet, Others(work, work', p),
         stage[p] = "ready", PendingOf(work'[p]), work'[p][1].id = commands,
         commands' = commands + 1
  PROVE  IdInv'
  <1>1. \A f : Load(f)' = Load(f)
    BY DEF StoresQuiet, Load
  <1>2. ideal' = ideal /\ changed' = changed
    BY DEF StoresQuiet
  <1>3. \A q \in Processes, f \in WithIds : Writes(q, f)' => Writes(q, f)
    BY DEF Writes, StoresQuiet, FileOfWork
  <1>4. commands \in Nat
    BY ActingFacts
  <1>5. ASSUME NEW f \in WithIds
        PROVE  /\ \A i \in Ids(Load(f)) \cup Ids(ideal[f]) : i \in Int /\ i < commands
               /\ \A q \in Processes : Writes(q, f) =>
                    \A i \in Ids(changed[q]) : i \in Int /\ i < commands
    <2>1. f \in Files
      BY DEF WithIds, Files
    <2>2. IsListOf(f, Load(f)) /\ IsListOf(f, ideal[f])
      BY <2>1 DEF IInv, FilesInv, LostInv
    <2>3. \A i \in Ids(Load(f)) \cup Ids(ideal[f]) : i \in Int
      BY <2>2, IdsAreInts
    <2>4. \A i \in Ids(Load(f)) \cup Ids(ideal[f]) : i < commands
      BY DEF IInv, IdInv
    <2>5. ASSUME NEW q \in Processes, Writes(q, f), NEW i \in Ids(changed[q])
          PROVE  i \in Int /\ i < commands
      <3>1. IsListOf(f, changed[q])
        BY <2>5 DEF IInv, ChangedInv, Writes
      <3>2. i \in Int
        BY <2>5, <3>1, IdsAreInts
      <3>3. i < commands
        BY <2>5 DEF IInv, IdInv
      <3> QED
        BY <3>2, <3>3
    <2> QED
      BY <2>3, <2>4, <2>5
  <1>6. \A q \in Processes : PendingOf(work[q]) =>
          work[q][1].id \in Nat /\ work[q][1].id < commands
    BY PendingIsInt DEF IInv, IdInv
  <1>7. \A q \in Processes \ {p} : work'[q] = work[q]
    BY DEF Others
  <1>8. ASSUME NEW f \in WithIds
        PROVE  /\ \A i \in Ids(Load(f)') \cup Ids(ideal'[f]) : i < commands'
               /\ \A q \in Processes : Writes(q, f)' => \A i \in Ids(changed'[q]) : i < commands'
    <2>1. \A i \in Ids(Load(f)') \cup Ids(ideal'[f]) : i < commands'
      BY <1>1, <1>2, <1>4, <1>5
    <2>2. ASSUME NEW q \in Processes, Writes(q, f)', NEW i \in Ids(changed'[q])
          PROVE  i < commands'
      <3>1. i \in Int /\ i < commands
        BY <1>2, <1>3, <1>5, <2>2
      <3> QED
        BY <1>4, <3>1
    <2> QED
      BY <2>1, <2>2
  <1>9. ASSUME NEW r \in Processes, PendingOf(work'[r])
        PROVE  /\ work'[r][1].id < commands'
               /\ \A f \in WithIds :
                    /\ work'[r][1].id \notin Ids(Load(f)') \cup Ids(ideal'[f])
                    /\ \A q \in Processes \ {r} : Writes(q, f)' =>
                         work'[r][1].id \notin Ids(changed'[q])
               /\ \A q \in Processes \ {r} : PendingOf(work'[q]) =>
                    work'[q][1].id # work'[r][1].id
    <2>1. CASE r = p
      <3>1. work'[r][1].id = commands /\ commands < commands' /\ ~(commands < commands)
        BY <1>4, <2>1
      <3>2. \A f \in WithIds : work'[r][1].id \notin Ids(Load(f)') \cup Ids(ideal'[f])
        BY <1>1, <1>2, <1>5, <3>1
      <3>3. \A f \in WithIds : \A q \in Processes \ {r} : Writes(q, f)' =>
              work'[r][1].id \notin Ids(changed'[q])
        BY <1>2, <1>3, <1>5, <3>1
      <3>4. \A q \in Processes \ {r} : PendingOf(work'[q]) => work'[q][1].id # work'[r][1].id
        BY <1>6, <1>7, <2>1, <3>1
      <3> QED
        BY <3>1, <3>2, <3>3, <3>4
    <2>2. CASE r # p
      <3>1. work'[r] = work[r] /\ PendingOf(work[r])
        BY <1>7, <1>9, <2>2
      <3>2. work'[r][1].id < commands'
        BY <1>4, <1>6, <3>1
      <3>3. \A f \in WithIds : work'[r][1].id \notin Ids(Load(f)') \cup Ids(ideal'[f])
        BY <1>1, <1>2, <3>1 DEF IInv, IdInv
      <3>4. \A f \in WithIds : \A q \in Processes \ {r} : Writes(q, f)' =>
              work'[r][1].id \notin Ids(changed'[q])
        BY <1>2, <1>3, <3>1 DEF IInv, IdInv
      <3>5. ASSUME NEW q \in Processes \ {r}, PendingOf(work'[q])
            PROVE  work'[q][1].id # work'[r][1].id
        <4>1. CASE q = p
          BY <1>4, <1>6, <3>1, <4>1
        <4>2. CASE q # p
          BY <1>7, <3>1, <3>5, <4>2 DEF IInv, IdInv
        <4> QED
          BY <4>1, <4>2
      <3> QED
        BY <3>2, <3>3, <3>4, <3>5
    <2> QED
      BY <2>1, <2>2
  <1> QED
    BY <1>8, <1>9 DEF IdInv

\* A command that gives an idle process w to do, in the dialog it is in.
LEMMA CommandGives ==
  ASSUME IInv, NEW p \in Processes, work[p] = <<>>, NEW w, work' = [work EXCEPT ![p] = w],
         w \in Seq(WorkItem), WorkOrder(w, dialog[p], form[p]),
         UNCHANGED <<dialog, needle, shown, form>>,
         UNCHANGED <<files, stage, changed, ideal, disturbed, lastConn, outdated>>,
         UNCHANGED <<creds, crashes>>, commands < MaxCommands, Counted,
         dialog[p] = "snippets" => ~Refilled(w)
  PROVE  /\ ProcessInv' /\ StoresQuiet /\ CountInv' /\ RowsInv'
         /\ Others(work, work', p) /\ work'[p] = w /\ stage[p] = "ready"
         /\ commands' = commands + 1 /\ commands \in Nat
  <1>1. Others(work, work', p) /\ work'[p] = w /\ stage[p] = "ready"
    BY ActingFacts, OthersFacts
  <1>2. /\ Others(dialog, dialog', p) /\ Others(needle, needle', p)
        /\ Others(shown, shown', p) /\ Others(form, form', p)
    BY ActingFacts DEF Others
  <1>3. ProcessInv'
    <2>1. ProcessSound(work'[p], dialog'[p], needle'[p], shown'[p], form'[p])
      BY <1>1, ActingFacts DEF ProcessSound
    <2> QED
      BY <1>1, <1>2, <2>1, ProcessFrame DEF IInv
  <1>4. StoresQuiet
    BY <1>1, QuietWhenReady
  <1>5. commands' = commands + 1 /\ commands \in Nat /\ MaxCommands \in Nat
    BY ActingFacts DEF Counted
  <1>6. CountInv'
    <2>1. commands' \in 0..MaxCommands
      BY <1>5
    <2> QED
      BY <2>1 DEF IInv, CountInv
  <1>7. RowsInv'
    <2>1. \A q \in Processes \ {p} : /\ work'[q] = work[q] /\ dialog'[q] = dialog[q]
                                     /\ shown'[q] = shown[q]
                                     /\ q \in outdated => q \in outdated'
      BY <1>1 DEF Others
    <2> QED
      BY <1>1, <2>1, RowsFrame DEF IInv
  <1> QED
    BY <1>1, <1>3, <1>4, <1>5, <1>6, <1>7

LEMMA RunInv ==
  ASSUME IInv, NEW p \in Processes, Run(p)
  PROVE  IInv'
  <1>1. PICK s \in Sqls :
          work' = [work EXCEPT ![p] = <<[op |-> "record", sql |-> s, id |-> commands]>>]
    BY DEF Run
  <1>2. PICK x : x = [op |-> "record", sql |-> s, id |-> commands]
    OBVIOUS
  <1>3. x \in WorkItem /\ x.op = "record" /\ x.id = commands
    <2>1. commands \in Nat
      BY ActingFacts
    <2>2. x \in RecordWork
      BY <1>2, <2>1 DEF RecordWork
    <2> QED
      BY <1>2, <2>2 DEF WorkItem
  <1>4. /\ <<x>> \in Seq(WorkItem)
        /\ WorkOrder(<<x>>, dialog[p], form[p])
        /\ PendingOf(<<x>>)
        /\ <<x>>[1] = x
    BY <1>3, OneTask
  <1>5. /\ work[p] = <<>> /\ dialog[p] = "none" /\ commands < MaxCommands /\ Counted
        /\ UNCHANGED <<dialog, needle, shown, form>>
        /\ UNCHANGED <<files, stage, changed, ideal, disturbed, lastConn, outdated>>
        /\ UNCHANGED <<creds, crashes, aim>>
    BY DEF Run, Command, Idle, uiVars, historyVars
  <1>6. work' = [work EXCEPT ![p] = <<x>>]
    BY <1>1, <1>2
  <1>7. /\ ProcessInv' /\ StoresQuiet /\ CountInv' /\ RowsInv'
        /\ Others(work, work', p) /\ work'[p] = <<x>> /\ stage[p] = "ready"
        /\ commands' = commands + 1
    BY <1>4, <1>5, <1>6, CommandGives
  <1>8. IdInv'
    BY <1>3, <1>4, <1>7, NewEntryIds
  <1>9. FilesInv' /\ ChangedInv' /\ LostInv' /\ LastInv'
    BY <1>7, QuietStep DEF IInv
  <1>10. DeleteHitsSelected'
    BY <1>5 DEF IInv, DeleteHitsSelected
  <1> QED
    BY <1>7, <1>8, <1>9, <1>10 DEF IInv

LEMMA SaveSnippetInv ==
  ASSUME IInv, NEW p \in Processes, SaveSnippet(p)
  PROVE  IInv'
  <1>1. PICK n \in Names, s \in Sqls :
          work' = [work EXCEPT ![p] =
                     <<[op |-> "saveSnippet", name |-> n, sql |-> s, id |-> commands],
                       [op |-> "repopulate"]>>]
    BY DEF SaveSnippet
  <1>2. PICK x, y : /\ x = [op |-> "saveSnippet", name |-> n, sql |-> s, id |-> commands]
                    /\ y = [op |-> "repopulate"]
    OBVIOUS
  <1>3. x \in WorkItem /\ x.op = "saveSnippet" /\ x.id = commands
    <2>1. commands \in Nat /\ n \in Name
      BY ActingFacts, StoresAssumption
    <2>2. x \in SaveSnippetWork
      BY <1>2, <2>1 DEF SaveSnippetWork
    <2> QED
      BY <1>2, <2>2 DEF WorkItem
  <1>4. y \in WorkItem /\ y.op = "repopulate"
    BY <1>2 DEF WorkItem, OtherWork
  <1>5. /\ work[p] = <<>> /\ dialog[p] = "snippets" /\ commands < MaxCommands /\ Counted
        /\ UNCHANGED <<dialog, needle, shown, form>>
        /\ UNCHANGED <<files, stage, changed, ideal, disturbed, lastConn, outdated>>
        /\ UNCHANGED <<creds, crashes, aim>>
    BY DEF SaveSnippet, Command, Idle, uiVars, historyVars
  <1>6. /\ <<x, y>> \in Seq(WorkItem)
        /\ WorkOrder(<<x, y>>, dialog[p], form[p])
        /\ PendingOf(<<x, y>>)
        /\ <<x, y>>[1] = x
        /\ ~Refilled(<<x, y>>)
    BY <1>3, <1>4, <1>5, TwoTasks
  <1>7. work' = [work EXCEPT ![p] = <<x, y>>]
    BY <1>1, <1>2
  <1>8. /\ ProcessInv' /\ StoresQuiet /\ CountInv' /\ RowsInv'
        /\ Others(work, work', p) /\ work'[p] = <<x, y>> /\ stage[p] = "ready"
        /\ commands' = commands + 1
    BY <1>5, <1>6, <1>7, CommandGives
  <1>9. IdInv'
    BY <1>3, <1>6, <1>8, NewEntryIds
  <1>10. FilesInv' /\ ChangedInv' /\ LostInv' /\ LastInv'
    BY <1>8, QuietStep DEF IInv
  <1>11. DeleteHitsSelected'
    BY <1>5 DEF IInv, DeleteHitsSelected
  <1> QED
    BY <1>8, <1>9, <1>10, <1>11 DEF IInv

LEMMA DeleteSnippetInv ==
  ASSUME IInv, NEW p \in Processes, DeleteSnippet(p)
  PROVE  IInv'
  <1>1. /\ work[p] = <<>> /\ dialog[p] = "snippets" /\ commands < MaxCommands /\ Counted
        /\ UNCHANGED <<dialog, needle, shown, form>>
        /\ UNCHANGED <<files, stage, changed, ideal, disturbed, lastConn, outdated>>
        /\ UNCHANGED <<creds, crashes>>
    BY DEF DeleteSnippet, Command, Idle, uiVars
  <1>2. PICK sel, snips, index :
          /\ sel \in 1..Len(shown[p])
          /\ snips = Load("snippets") /\ index = shown[p][sel].index
          /\ \/ /\ index <= Len(snips)
                /\ work' = [work EXCEPT ![p] =
                              <<[op |-> "removeSnippet", id |-> snips[index].id],
                                [op |-> "repopulate"]>>]
                /\ aim' = [selected |-> shown[p][sel].id, hit |-> snips[index].id,
                           outdated |-> p \in outdated]
             \/ /\ ~(index <= Len(snips))
                /\ work' = [work EXCEPT ![p] = <<[op |-> "repopulate"]>>]
                /\ UNCHANGED aim
    BY DEF DeleteSnippet
  <1>3. PICK y : y = [op |-> "repopulate"]
    OBVIOUS
  <1>4. y \in WorkItem /\ y.op = "repopulate"
    BY <1>3 DEF WorkItem, OtherWork
  <1>5. p \notin outdated => index \in 1..Len(snips) /\ snips[index].id = shown[p][sel].id
    <2>1. Refilled(work[p])
      BY <1>1 DEF Refilled
    <2> QED
      BY <1>1, <1>2, <2>1 DEF IInv, RowsInv, RowsRight
  <1>6. CASE /\ index <= Len(snips)
             /\ work' = [work EXCEPT ![p] =
                           <<[op |-> "removeSnippet", id |-> snips[index].id],
                             [op |-> "repopulate"]>>]
             /\ aim' = [selected |-> shown[p][sel].id, hit |-> snips[index].id,
                        outdated |-> p \in outdated]
    <2>1. PICK x : x = [op |-> "removeSnippet", id |-> snips[index].id]
      OBVIOUS
    <2>2. x \in WorkItem /\ x.op = "removeSnippet"
      <3>1. shown[p] \in Seq(Row)
        BY ActingFacts DEF ProcessSound
      <3>2. index \in Nat \ {0}
        <4>1. shown[p][sel] \in Row
          <5>1. sel \in 1..Len(shown[p])
            BY <1>2
          <5> QED
            BY <3>1, <5>1
        <4>2. index = shown[p][sel].index
          BY <1>2
        <4> QED
          BY <4>1, <4>2 DEF Row
      <3>3. IsListOf("snippets", snips)
        BY <1>2 DEF IInv, FilesInv, Files
      <3>4. Len(snips) \in Nat /\ Ids(snips) \subseteq Int
        BY <3>3, IdsAreInts DEF IsListOf, WithIds
      <3>5. index \in 1..Len(snips)
        BY <1>6, <3>2, <3>4
      <3>6. snips[index].id \in Int
        BY <3>4, <3>5 DEF Ids, EntriesOf
      <3>7. x \in RemoveSnippetWork
        BY <2>1, <3>6 DEF RemoveSnippetWork
      <3> QED
        BY <2>1, <3>7 DEF WorkItem
    <2>3. /\ <<x, y>> \in Seq(WorkItem)
          /\ WorkOrder(<<x, y>>, dialog[p], form[p])
          /\ ~PendingOf(<<x, y>>)
          /\ ~Refilled(<<x, y>>)
      BY <1>1, <1>4, <2>2, TwoTasks
    <2>4. work' = [work EXCEPT ![p] = <<x, y>>]
      BY <1>3, <1>6, <2>1
    <2>5. /\ ProcessInv' /\ StoresQuiet /\ CountInv' /\ RowsInv'
          /\ Others(work, work', p) /\ work'[p] = <<x, y>>
          /\ commands' = commands + 1 /\ commands \in Nat
      BY <1>1, <2>3, <2>4, CommandGives
    <2>6. DeleteHitsSelected'
      <3>1. aim'.outdated = (p \in outdated) /\ aim'.hit = snips[index].id
            /\ aim'.selected = shown[p][sel].id
        BY <1>6
      <3> QED
        BY <1>5, <3>1 DEF DeleteHitsSelected
    <2>7. \A q \in Processes : PendingOf(work'[q]) => work'[q] = work[q]
      BY <2>3, <2>5 DEF Others
    <2> QED
      BY <2>5, <2>6, <2>7, QuietInvariant
  <1>7. CASE /\ ~(index <= Len(snips))
             /\ work' = [work EXCEPT ![p] = <<[op |-> "repopulate"]>>]
             /\ UNCHANGED aim
    <2>1. /\ <<y>> \in Seq(WorkItem)
          /\ WorkOrder(<<y>>, dialog[p], form[p])
          /\ ~PendingOf(<<y>>)
          /\ <<y>>[1] = y
      BY <1>1, <1>4, OneTask
    <2>2. ~Refilled(<<y>>)
      <3>1. 1 \in 1..Len(<<y>>)
        OBVIOUS
      <3> QED
        BY <1>4, <2>1, <3>1 DEF Refilled
    <2>3. work' = [work EXCEPT ![p] = <<y>>]
      BY <1>3, <1>7
    <2>4. /\ ProcessInv' /\ StoresQuiet /\ CountInv' /\ RowsInv'
          /\ Others(work, work', p) /\ work'[p] = <<y>>
          /\ commands' = commands + 1 /\ commands \in Nat
      BY <1>1, <2>1, <2>2, <2>3, CommandGives
    <2>5. DeleteHitsSelected'
      BY <1>7 DEF IInv, DeleteHitsSelected
    <2>6. \A q \in Processes : PendingOf(work'[q]) => work'[q] = work[q]
      BY <2>1, <2>4 DEF Others
    <2> QED
      BY <2>4, <2>5, <2>6, QuietInvariant
  <1> QED
    BY <1>2, <1>6, <1>7

LEMMA ClearHistoryInv ==
  ASSUME IInv, NEW p \in Processes, ClearHistory(p)
  PROVE  IInv'
  <1>1. /\ work[p] = <<>> /\ dialog[p] = "history" /\ commands < MaxCommands /\ Counted
        /\ UNCHANGED <<dialog, needle, shown, form>>
        /\ UNCHANGED <<files, stage, changed, ideal, disturbed, lastConn, outdated>>
        /\ UNCHANGED <<creds, crashes, aim>>
    BY DEF ClearHistory, Command, Idle, uiVars, historyVars
  <1>2. PICK x, y : x = [op |-> "clear"] /\ y = [op |-> "repopulate"]
    OBVIOUS
  <1>3. x \in WorkItem /\ x.op = "clear" /\ y \in WorkItem /\ y.op = "repopulate"
    BY <1>2 DEF WorkItem, OtherWork
  <1>4. /\ <<x, y>> \in Seq(WorkItem)
        /\ WorkOrder(<<x, y>>, dialog[p], form[p])
        /\ ~PendingOf(<<x, y>>)
        /\ ~Refilled(<<x, y>>)
    BY <1>1, <1>3, TwoTasks
  <1>5. work' = [work EXCEPT ![p] = <<x, y>>]
    BY <1>2 DEF ClearHistory
  <1>6. /\ ProcessInv' /\ StoresQuiet /\ CountInv' /\ RowsInv'
        /\ Others(work, work', p) /\ work'[p] = <<x, y>>
        /\ commands' = commands + 1 /\ commands \in Nat
    BY <1>1, <1>4, <1>5, CommandGives
  <1>7. DeleteHitsSelected'
    BY <1>1 DEF IInv, DeleteHitsSelected
  <1>8. \A q \in Processes : PendingOf(work'[q]) => work'[q] = work[q]
    BY <1>4, <1>6 DEF Others
  <1> QED
    BY <1>6, <1>7, <1>8, QuietInvariant

-----------------------------------------------------------------------------
(* The connection dialog.                                                  *)

\* A step of it: nothing but the process's dialog, fields and work changes.
LEMMA DialogStep ==
  ASSUME IInv, NEW p \in Processes, stage[p] = "ready",
         Others(work, work', p), Others(dialog, dialog', p), Others(form, form', p),
         UNCHANGED <<files, creds, stage, changed, needle, shown, crashes>>,
         UNCHANGED historyVars,
         commands' \in commands..MaxCommands,
         ProcessSound(work'[p], dialog'[p], needle[p], shown[p], form'[p]),
         dialog'[p] # "snippets", ~PendingOf(work'[p])
  PROVE  IInv'
  <1>1. Others(needle, needle', p) /\ Others(shown, shown', p)
    BY ActingFacts DEF Others
  <1>2. ProcessInv'
    BY <1>1, ProcessFrame DEF IInv
  <1>3. StoresQuiet
    BY QuietWhenReady DEF historyVars
  <1>4. commands \in Nat /\ commands' \in 0..MaxCommands /\ commands <= commands'
    BY ActingFacts
  <1>5. CountInv'
    BY <1>4 DEF IInv, CountInv, historyVars
  <1>6. RowsInv'
    <2>1. \A q \in Processes \ {p} : /\ work'[q] = work[q] /\ dialog'[q] = dialog[q]
                                     /\ shown'[q] = shown[q]
                                     /\ q \in outdated => q \in outdated'
      BY DEF Others, historyVars
    <2> QED
      BY <2>1, RowsFrame DEF IInv
  <1>7. DeleteHitsSelected'
    BY DEF IInv, DeleteHitsSelected, historyVars
  <1>8. \A q \in Processes : PendingOf(work'[q]) => work'[q] = work[q]
    BY DEF Others
  <1> QED
    BY <1>2, <1>3, <1>4, <1>5, <1>6, <1>7, <1>8, QuietInvariant

\* The fields after a profile has been applied.
LEMMA AppliedForm ==
  ASSUME IInv, NEW p \in Processes, NEW profile \in RecentProfile \cup SavedProfile
  PROVE  Applied(p, profile) \in Form
  <1>1. form[p] \in Form
    BY ActingFacts DEF ProcessSound
  <1>2. /\ profile.engine \in Engine /\ profile.target \in Targets
        /\ profile.sslMode \in SslMode \cup {None}
    BY DEF RecentProfile, SavedProfile, ProfilesOf
  <1>3. creds[profile.target] \in {None, "pw"}
    BY <1>2 DEF IInv, CountInv
  <1>4. PICK kept \in BOOLEAN :
          kept = (profile.engine = "Postgres" /\ creds[profile.target] # None)
    OBVIOUS
  <1>5. PICK conn : conn = [engine |-> profile.engine, target |-> profile.target,
                            sslMode |-> IF profile.sslMode = None THEN "prefer"
                                        ELSE profile.sslMode]
    OBVIOUS
  <1>6. conn \in DatabaseConnection
    BY <1>2, <1>5 DEF DatabaseConnection, SslMode
  <1>7. PICK password : password = IF kept THEN creds[profile.target] ELSE ""
    OBVIOUS
  <1>8. password \in {"", "pw"}
    BY <1>3, <1>4, <1>7
  <1>9. Applied(p, profile)
          = [form[p] EXCEPT !.conn = conn, !.password = password, !.remember = kept]
    BY <1>4, <1>5, <1>7 DEF Applied
  <1> QED
    BY <1>1, <1>6, <1>8, <1>9 DEF Form

LEMMA EmptyFormFacts ==
  /\ EmptyForm \in Form
  /\ NoPassword(EmptyForm)
  <1>1. <<>> \in Seq(RecentProfile \cup SavedProfile)
    OBVIOUS
  <1> QED
    BY <1>1 DEF EmptyForm, Form, NoPassword

LEMMA OpenConnectInv ==
  ASSUME IInv, NEW p \in Processes, OpenConnect(p)
  PROVE  IInv'
  <1>1. /\ work[p] = <<>> /\ dialog[p] = "none" /\ stage[p] = "ready"
        /\ UNCHANGED <<files, creds, stage, changed, needle, shown, crashes, commands>>
        /\ UNCHANGED historyVars
    BY ActingFacts DEF OpenConnect, Command, Idle, countVars
  <1>2. PICK x : x = [op |-> "prefill"]
    OBVIOUS
  <1>3. x \in WorkItem /\ x.op = "prefill"
    BY <1>2 DEF WorkItem, OtherWork
  <1>4. PICK fm : fm = [EmptyForm EXCEPT !.profiles = Load("recents") \o Load("profiles")]
    OBVIOUS
  <1>5. fm \in Form /\ NoPassword(fm)
    <2>1. IsListOf("recents", Load("recents")) /\ IsListOf("profiles", Load("profiles"))
      BY DEF IInv, FilesInv, Files
    <2>2. Load("recents") \in Seq(RecentProfile) /\ Load("profiles") \in Seq(SavedProfile)
      BY <2>1 DEF IsListOf, EntryOf
    <2>3. PICK S : S = RecentProfile \cup SavedProfile
      OBVIOUS
    <2>4. Load("recents") \in Seq(S) /\ Load("profiles") \in Seq(S)
      BY <2>2, <2>3
    <2>5. Load("recents") \o Load("profiles") \in Seq(S)
      BY <2>4, ConcatFacts
    <2> QED
      BY <1>4, <2>3, <2>5, EmptyFormFacts DEF Form, NoPassword
  <1>6. /\ Others(dialog, dialog', p) /\ dialog'[p] = "connect"
        /\ Others(work, work', p) /\ work'[p] = <<x>>
        /\ Others(form, form', p) /\ form'[p] = fm
    <2>1. form[p] = EmptyForm
      BY <1>1, ActingFacts DEF ProcessSound
    <2>2. /\ dialog' = [dialog EXCEPT ![p] = "connect"]
          /\ work' = [work EXCEPT ![p] = <<x>>]
          /\ form' = [form EXCEPT ![p] = fm]
      BY <1>2, <1>4 DEF OpenConnect
    <2> QED
      BY <2>2, ActingFacts, OthersFacts
  <1>7. /\ <<x>> \in Seq(WorkItem)
        /\ WorkOrder(<<x>>, dialog'[p], form'[p])
        /\ ~PendingOf(<<x>>)
    BY <1>3, <1>5, <1>6, OneTask
  <1>8. ProcessSound(work'[p], dialog'[p], needle[p], shown[p], form'[p])
    <2>1. shown[p] = <<>>
      BY <1>1, ActingFacts DEF ProcessSound
    <2> QED
      BY <1>5, <1>6, <1>7, <2>1, ActingFacts DEF ProcessSound, Dialogs
  <1>9. commands' \in commands..MaxCommands
    BY <1>1, ActingFacts DEF IInv, CountInv
  <1> QED
    BY <1>1, <1>6, <1>7, <1>8, <1>9, DialogStep

LEMMA PrefillInv ==
  ASSUME IInv, NEW p \in Processes, Prefill(p)
  PROVE  IInv'
  <1>1. /\ stage[p] = "ready" /\ work[p] # <<>> /\ Head(work[p]).op = "prefill"
        /\ work[p] \in Seq(WorkItem)
        /\ UNCHANGED <<files, creds, stage, changed, dialog, needle, shown, crashes, commands>>
        /\ UNCHANGED historyVars
    BY ActingFacts DEF Prefill, Doing, Changes, ProcessSound, countVars
  <1>2. work[p][1].op = "prefill" /\ 1 \in 1..Len(work[p])
    BY <1>1, HeadFacts
  <1>3. dialog[p] = "connect"
    <2>1. WorkOrder(work[p], dialog[p], form[p])
      BY ActingFacts DEF ProcessSound
    <2> QED
      BY <1>2, <2>1 DEF WorkOrder
  <1>4. Others(work, work', p) /\ work'[p] = <<>>
    <2>1. work' = [work EXCEPT ![p] = Tail(work[p])]
      BY DEF Prefill, Done
    <2>2. Tail(work[p]) = <<>>
      BY <1>1, <1>2, ActingFacts, TailSound
    <2> QED
      BY <2>1, <2>2, ActingFacts, OthersFacts
  <1>5. Others(form, form', p) /\ form'[p] \in Form
    <2>1. CASE form[p].profiles # <<>> /\ Load("recents") # <<>>
      <3>1. form' = [form EXCEPT ![p] = Applied(p, form[p].profiles[1])]
        BY <2>1 DEF Prefill
      <3>2. form[p].profiles[1] \in RecentProfile \cup SavedProfile
        <4>1. form[p] \in Form
          BY ActingFacts DEF ProcessSound
        <4>2. form[p].profiles \in Seq(RecentProfile \cup SavedProfile)
          BY <4>1 DEF Form
        <4> QED
          BY <2>1, <4>2, TailFacts
      <3> QED
        BY <3>1, <3>2, ActingFacts, OthersFacts, AppliedForm
    <2>2. CASE ~(form[p].profiles # <<>> /\ Load("recents") # <<>>)
      <3>1. form' = form
        BY <2>2 DEF Prefill
      <3> QED
        BY <3>1, ActingFacts, OthersFacts DEF ProcessSound
    <2> QED
      BY <2>1, <2>2
  <1>6. Others(dialog, dialog', p) /\ dialog'[p] = "connect"
    BY <1>1, <1>3, ActingFacts DEF Others
  <1>7. ProcessSound(work'[p], dialog'[p], needle[p], shown[p], form'[p])
    BY <1>1, <1>3, <1>4, <1>5, ActingFacts, EmptyWork DEF ProcessSound
  <1>8. commands' \in commands..MaxCommands
    BY <1>1, ActingFacts DEF IInv, CountInv
  <1>9. ~PendingOf(work'[p])
    BY <1>4, EmptyWork
  <1> QED
    BY <1>1, <1>4, <1>5, <1>6, <1>7, <1>8, <1>9, DialogStep

LEMMA ChooseProfileInv ==
  ASSUME IInv, NEW p \in Processes, ChooseProfile(p)
  PROVE  IInv'
  <1>1. /\ work[p] = <<>> /\ dialog[p] = "connect" /\ stage[p] = "ready"
        /\ UNCHANGED <<files, creds, work, stage, changed, dialog, needle, shown, crashes,
                       commands>>
        /\ UNCHANGED historyVars
    BY ActingFacts DEF ChooseProfile, Command, Idle, countVars, storeVars
  <1>2. PICK n \in 1..Len(form[p].profiles) :
          form' = [form EXCEPT ![p] = Applied(p, form[p].profiles[n])]
    BY DEF ChooseProfile
  <1>3. Others(form, form', p) /\ form'[p] \in Form
    <2>1. form[p] \in Form
      BY ActingFacts DEF ProcessSound
    <2>2. form[p].profiles \in Seq(RecentProfile \cup SavedProfile)
      BY <2>1 DEF Form
    <2>3. form[p].profiles[n] \in RecentProfile \cup SavedProfile
      BY <2>2
    <2> QED
      BY <1>2, <2>3, ActingFacts, OthersFacts, AppliedForm
  <1>4. Others(work, work', p) /\ Others(dialog, dialog', p)
    BY <1>1, ActingFacts DEF Others
  <1>5. ProcessSound(work'[p], dialog'[p], needle[p], shown[p], form'[p])
    BY <1>1, <1>3, ActingFacts, EmptyWork DEF ProcessSound
  <1>6. commands' \in commands..MaxCommands
    BY <1>1, ActingFacts DEF IInv, CountInv
  <1>7. ~PendingOf(work'[p])
    BY <1>1, EmptyWork
  <1> QED
    BY <1>1, <1>3, <1>4, <1>5, <1>6, <1>7, DialogStep

LEMMA SubmitInv ==
  ASSUME IInv, NEW p \in Processes, Submit(p)
  PROVE  IInv'
  <1>1. /\ work[p] = <<>> /\ dialog[p] = "connect" /\ stage[p] = "ready"
        /\ commands < MaxCommands /\ commands' = commands + 1
        /\ UNCHANGED <<files, creds, work, stage, changed, needle, shown, crashes>>
        /\ UNCHANGED historyVars
    BY ActingFacts DEF Submit, Command, Idle, Counted, storeVars
  <1>2. PICK c \in Conns, pw \in {form[p].password, "pw"}, r \in BOOLEAN :
          form' = [form EXCEPT ![p] = [profiles |-> <<>>, conn |-> c, password |-> pw,
                                       remember |-> r]]
    BY DEF Submit
  <1>3. PICK fm : fm = [profiles |-> <<>>, conn |-> c, password |-> pw, remember |-> r]
    OBVIOUS
  <1>4. fm \in Form /\ fm.conn \in Conns
    <2>1. pw \in {"", "pw"}
      BY <1>2, ActingFacts DEF ProcessSound, Form
    <2>2. c \in DatabaseConnection
      BY StoresAssumption
    <2>3. <<>> \in Seq(RecentProfile \cup SavedProfile)
      OBVIOUS
    <2> QED
      BY <1>3, <2>1, <2>2, <2>3 DEF Form
  <1>5. /\ Others(form, form', p) /\ form'[p] = fm
        /\ Others(dialog, dialog', p) /\ dialog'[p] = "connecting"
        /\ Others(work, work', p)
    <2>1. /\ form' = [form EXCEPT ![p] = fm]
          /\ dialog' = [dialog EXCEPT ![p] = "connecting"]
      BY <1>2, <1>3 DEF Submit
    <2> QED
      BY <1>1, <2>1, ActingFacts, OthersFacts
  <1>6. ProcessSound(work'[p], dialog'[p], needle[p], shown[p], form'[p])
    <2>1. shown[p] = <<>>
      BY <1>1, ActingFacts DEF ProcessSound
    <2> QED
      BY <1>1, <1>4, <1>5, <2>1, ActingFacts, EmptyWork DEF ProcessSound, Dialogs
  <1>7. commands' \in commands..MaxCommands
    BY <1>1, ActingFacts
  <1>8. ~PendingOf(work'[p])
    BY <1>1, EmptyWork
  <1> QED
    BY <1>1, <1>5, <1>6, <1>7, <1>8, DialogStep

LEMMA CancelConnectInv ==
  ASSUME IInv, NEW p \in Processes, CancelConnect(p)
  PROVE  IInv'
  <1>1. /\ work[p] = <<>> /\ dialog[p] = "connect" /\ stage[p] = "ready"
        /\ UNCHANGED <<files, creds, work, stage, changed, needle, shown, crashes, commands>>
        /\ UNCHANGED historyVars
    BY ActingFacts DEF CancelConnect, Idle, countVars, storeVars
  <1>2. /\ Others(form, form', p) /\ form'[p] = EmptyForm
        /\ Others(dialog, dialog', p) /\ dialog'[p] = "none"
        /\ Others(work, work', p)
    BY <1>1, ActingFacts, OthersFacts DEF CancelConnect
  <1>3. ProcessSound(work'[p], dialog'[p], needle[p], shown[p], form'[p])
    <2>1. shown[p] = <<>>
      BY <1>1, ActingFacts DEF ProcessSound
    <2> QED
      BY <1>1, <1>2, <2>1, ActingFacts, EmptyWork, EmptyFormFacts DEF ProcessSound, Dialogs
  <1>4. commands' \in commands..MaxCommands
    BY <1>1, ActingFacts DEF IInv, CountInv
  <1>5. ~PendingOf(work'[p])
    BY <1>1, EmptyWork
  <1> QED
    BY <1>1, <1>2, <1>3, <1>4, <1>5, DialogStep

LEMMA ConnectedInv ==
  ASSUME IInv, NEW p \in Processes, Connected(p)
  PROVE  IInv'
  <1>1. /\ work[p] = <<>> /\ dialog[p] = "connecting" /\ stage[p] = "ready"
        /\ UNCHANGED <<files, creds, stage, changed, needle, shown, crashes, commands>>
        /\ UNCHANGED historyVars
    BY ActingFacts DEF Connected, Idle, countVars
  <1>2. /\ Others(form, form', p) /\ form'[p] = EmptyForm
        /\ Others(dialog, dialog', p) /\ dialog'[p] = "none"
    BY ActingFacts, OthersFacts DEF Connected
  <1>3. Others(work, work', p) /\ work'[p] \in Seq(Recording)
    <2>1. CASE work' = work
      <3>1. <<>> \in Seq(Recording)
        OBVIOUS
      <3> QED
        BY <1>1, <2>1, <3>1, ActingFacts, OthersFacts
    <2>2. CASE work' # work
      <3>1. PICK c, fm : c = form[p].conn /\ fm = form[p]
        OBVIOUS
      <3>2. /\ c \in Conns /\ c \in DatabaseConnection
            /\ fm.password \in {"", "pw"} /\ fm.remember \in BOOLEAN
        BY <1>1, <3>1, ActingFacts, StoresAssumption DEF ProcessSound, Form
      <3>3. PICK touch : touch = IF c.engine # "Postgres" THEN <<>>
                                 ELSE <<[op |-> "credentials", target |-> c.target,
                                         remember |-> fm.remember, password |-> fm.password]>>
        OBVIOUS
      <3>4. PICK saveAs, save :
              /\ saveAs \in Names \cup {None}
              /\ save = IF saveAs = None THEN <<>>
                        ELSE <<[op |-> "saveProfile", profile |-> Profile(c, saveAs)]>>
              /\ work' = [work EXCEPT ![p] =
                            <<[op |-> "addRecent", profile |-> Profile(c, None)]>>
                              \o save \o touch]
        BY <2>2, <3>1, <3>3 DEF Connected
      <3>5. /\ c.engine \in Engine /\ c.target \in Targets /\ c.sslMode \in SslMode
        BY <3>2 DEF DatabaseConnection
      <3>6. PICK add : add = <<[op |-> "addRecent", profile |-> Profile(c, None)]>>
        OBVIOUS
      <3>7. add \in Seq(Recording)
        <4>1. PICK x : x = [op |-> "addRecent", profile |-> Profile(c, None)]
          OBVIOUS
        <4>2. Profile(c, None) \in RecentProfile
          BY <3>5 DEF Profile, RecentProfile, ProfilesOf
        <4>3. x \in Recording
          BY <4>1, <4>2 DEF Recording, AddRecentWork
        <4> QED
          BY <3>6, <4>1, <4>3
      <3>8. save \in Seq(Recording)
        <4>1. CASE saveAs = None
          BY <3>4, <4>1
        <4>2. CASE saveAs # None
          <5>1. PICK x : x = [op |-> "saveProfile", profile |-> Profile(c, saveAs)]
            OBVIOUS
          <5>2. saveAs \in Name
            BY <3>4, <4>2, StoresAssumption
          <5>3. Profile(c, saveAs) \in SavedProfile
            BY <3>5, <5>2 DEF Profile, SavedProfile, ProfilesOf
          <5>4. x \in Recording
            BY <5>1, <5>3 DEF Recording, SaveProfileWork
          <5>5. save = <<x>>
            BY <3>4, <4>2, <5>1
          <5> QED
            BY <5>4, <5>5
        <4> QED
          BY <4>1, <4>2
      <3>9. touch \in Seq(Recording)
        <4>1. CASE c.engine # "Postgres"
          BY <3>3, <4>1
        <4>2. CASE c.engine = "Postgres"
          <5>1. PICK x : x = [op |-> "credentials", target |-> c.target,
                              remember |-> fm.remember, password |-> fm.password]
            OBVIOUS
          <5>2. x \in CredentialsWork
            BY <3>2, <3>5, <5>1 DEF CredentialsWork
          <5>3. x \in Recording
            BY <5>2 DEF Recording
          <5>4. touch = <<x>>
            BY <3>3, <4>2, <5>1
          <5> QED
            BY <5>3, <5>4
        <4> QED
          BY <4>1, <4>2
      <3>10. add \o save \o touch \in Seq(Recording)
        BY <3>7, <3>8, <3>9, ConcatFacts
      <3>11. work' = [work EXCEPT ![p] = add \o save \o touch]
        BY <3>4, <3>6
      <3> QED
        BY <3>10, <3>11, ActingFacts, OthersFacts
    <2> QED
      BY <2>1, <2>2
  <1>4. /\ work'[p] \in Seq(WorkItem) /\ WorkOrder(work'[p], dialog'[p], form'[p])
        /\ ~PendingOf(work'[p])
    BY <1>3, RecordingTasks
  <1>5. ProcessSound(work'[p], dialog'[p], needle[p], shown[p], form'[p])
    <2>1. shown[p] = <<>>
      BY <1>1, ActingFacts DEF ProcessSound
    <2> QED
      BY <1>2, <1>4, <2>1, ActingFacts, EmptyFormFacts DEF ProcessSound, Dialogs
  <1>6. commands' \in commands..MaxCommands
    BY <1>1, ActingFacts DEF IInv, CountInv
  <1> QED
    BY <1>1, <1>2, <1>3, <1>4, <1>5, <1>6, DialogStep

-----------------------------------------------------------------------------
(* A change of a store.                                                    *)

LEMMA ChangingFacts ==
  ASSUME IInv, NEW p \in Processes, Changing(p)
  PROVE  /\ work[p] \in Seq(WorkItem) /\ work[p] # <<>>
         /\ Head(work[p]) = work[p][1]
         /\ Head(work[p]) \in WorkItem
         /\ Head(work[p]).op \in Changes
         /\ FileOfWork(p) = FileOf(Head(work[p]).op)
         /\ FileOfWork(p) \in Files
         /\ Head(work[p]).op # "repopulate"
         /\ PendingOf(work[p]) <=> Head(work[p]).op \in {"record", "saveSnippet"}
         /\ Head(work[p]).op \in {"record", "saveSnippet"} => FileOfWork(p) \in WithIds
  <1>1. work[p] # <<>> /\ Head(work[p]).op \in Changes
    BY DEF Changing
  <1>2. work[p] \in Seq(WorkItem)
    BY ActingFacts DEF ProcessSound
  <1>3. Head(work[p]) = work[p][1] /\ work[p][1] \in WorkItem
    BY <1>1, <1>2, HeadFacts
  <1>4. FileOfWork(p) = FileOf(Head(work[p]).op)
    BY DEF FileOfWork
  <1>5. FileOfWork(p) \in Files
    BY <1>1, <1>4 DEF FileOf, Files, Changes
  <1>6. Head(work[p]).op \in {"record", "saveSnippet"} => FileOfWork(p) \in WithIds
    BY <1>4 DEF FileOf, WithIds
  <1> QED
    BY <1>1, <1>2, <1>3, <1>4, <1>5, <1>6 DEF Changes, PendingOf

\* The id of the entry a process is to write is in no list that it changes.
LEMMA FreshInStore ==
  ASSUME IInv, NEW p \in Processes, Changing(p)
  PROVE  /\ Fresh(Head(work[p]), Load(FileOfWork(p)))
         /\ Fresh(Head(work[p]), ideal[FileOfWork(p)])
  BY ChangingFacts DEF Fresh, IInv, IdInv

LEMMA LoadListInv ==
  ASSUME IInv, NEW p \in Processes, LoadList(p)
  PROVE  IInv'
  <1>1. /\ Changing(p) /\ stage[p] = "ready"
        /\ stage' = [stage EXCEPT ![p] = "loaded"]
        /\ disturbed' = IF Overlaps(p) THEN disturbed \cup {FileOfWork(p)} ELSE disturbed
        /\ files' = files /\ creds' = creds /\ work' = work
        /\ dialog' = dialog /\ needle' = needle /\ shown' = shown /\ form' = form
        /\ commands' = commands /\ crashes' = crashes
        /\ ideal' = ideal /\ lastConn' = lastConn /\ outdated' = outdated /\ aim' = aim
    BY DEF LoadList, uiVars, countVars
  <1>2. PICK c, f : c = Head(work[p]) /\ f = FileOfWork(p)
    OBVIOUS
  <1>3. PICK r \in Results(c, Load(f)) : changed' = [changed EXCEPT ![p] = r]
    BY <1>2 DEF LoadList
  <1>4. /\ c \in WorkItem /\ c.op \in Changes /\ f = FileOf(c.op) /\ f \in Files
        /\ c = work[p][1]
        /\ PendingOf(work[p]) <=> c.op \in {"record", "saveSnippet"}
    BY <1>1, <1>2, ChangingFacts
  <1>5. IsListOf(f, Load(f)) /\ IsListOf(f, ideal[f])
    BY <1>4 DEF IInv, FilesInv, LostInv
  <1>6. /\ IsListOf(f, r)
        /\ f \in WithIds =>
             \A i \in Ids(r) : i \in Ids(Load(f)) \/ (PendingOf(work[p]) /\ i = c.id)
    <2>1. Fresh(c, Load(f))
      BY <1>1, <1>2, FreshInStore
    <2> QED
      BY <1>3, <1>4, <1>5, <2>1, ResultsSound
  <1>7. /\ stage'[p] = "loaded" /\ changed'[p] = r
        /\ \A q \in Processes \ {p} : stage'[q] = stage[q] /\ changed'[q] = changed[q]
        /\ stage' \in [Processes -> {"ready", "loaded", "truncated"}]
        /\ changed' = [q \in Processes |-> changed'[q]]
    BY <1>1, <1>3 DEF IInv, ChangedInv
  <1>8. \A g : Load(g)' = Load(g)
    BY <1>1 DEF Load
  <1>9. \A q \in Processes : FileOfWork(q)' = FileOfWork(q) /\ Changing(q)' = Changing(q)
    BY <1>1 DEF FileOfWork, Changing
  <1>10. FilesInv' /\ ProcessInv' /\ DeleteHitsSelected' /\ LastInv'
    BY <1>1, <1>8 DEF IInv, FilesInv, ProcessInv, DeleteHitsSelected, LastInv
  <1>11. ChangedInv'
    <2>1. ASSUME NEW q \in Processes, stage'[q] # "ready"
          PROVE  Changing(q)' /\ IsListOf(FileOfWork(q)', changed'[q])
      <3>1. CASE q = p
        BY <1>1, <1>2, <1>6, <1>7, <1>9, <3>1
      <3>2. CASE q # p
        BY <1>7, <1>9, <2>1, <3>2 DEF IInv, ChangedInv
      <3> QED
        BY <3>1, <3>2
    <2> QED
      BY <1>7, <2>1 DEF ChangedInv
  <1>12. CountInv'
    BY <1>1, <1>2, <1>4 DEF IInv, CountInv
  <1>13. \A q \in Processes \ {p} : \A g : Writes(q, g)' <=> Writes(q, g)
    BY <1>7, <1>9 DEF Writes
  <1>14. \A g : Writes(p, g)' <=> g = f
    BY <1>2, <1>7, <1>9 DEF Writes
  <1>15. IdInv'
    <2>1. ASSUME NEW g \in WithIds
          PROVE  /\ \A i \in Ids(Load(g)') \cup Ids(ideal'[g]) : i < commands'
                 /\ \A q \in Processes : Writes(q, g)' => \A i \in Ids(changed'[q]) : i < commands'
      <3>1. ASSUME NEW q \in Processes, Writes(q, g)', NEW i \in Ids(changed'[q])
            PROVE  i < commands'
        <4>1. CASE q = p
          <5>1. g = f /\ i \in Ids(r)
            BY <1>7, <1>14, <3>1, <4>1
          <5>2. CASE i \in Ids(Load(f))
            BY <1>1, <5>1, <5>2 DEF IInv, IdInv
          <5>3. CASE PendingOf(work[p]) /\ i = c.id
            BY <1>1, <1>4, <5>3 DEF IInv, IdInv
          <5> QED
            BY <1>6, <5>1, <5>2, <5>3
        <4>2. CASE q # p
          BY <1>1, <1>7, <1>13, <3>1, <4>2 DEF IInv, IdInv
        <4> QED
          BY <4>1, <4>2
      <3> QED
        BY <1>1, <1>8, <3>1 DEF IInv, IdInv
    <2>2. ASSUME NEW s \in Processes, PendingOf(work'[s])
          PROVE  /\ work'[s][1].id < commands'
                 /\ \A g \in WithIds :
                      /\ work'[s][1].id \notin Ids(Load(g)') \cup Ids(ideal'[g])
                      /\ \A q \in Processes \ {s} : Writes(q, g)' =>
                           work'[s][1].id \notin Ids(changed'[q])
                 /\ \A q \in Processes \ {s} : PendingOf(work'[q]) =>
                      work'[q][1].id # work'[s][1].id
      <3>1. PICK x : x = work[s][1].id
        OBVIOUS
      <3>2. /\ PendingOf(work[s]) /\ x < commands
            /\ \A g \in WithIds : x \notin Ids(Load(g)) \cup Ids(ideal[g])
            /\ \A g \in WithIds : \A q \in Processes \ {s} : Writes(q, g) => x \notin Ids(changed[q])
            /\ \A q \in Processes \ {s} : PendingOf(work[q]) => work[q][1].id # x
        BY <1>1, <2>2, <3>1 DEF IInv, IdInv
      <3>3. ASSUME NEW g \in WithIds, NEW q \in Processes \ {s}, Writes(q, g)'
            PROVE  x \notin Ids(changed'[q])
        <4>1. CASE q = p
          <5>1. g = f /\ changed'[q] = r
            BY <1>7, <1>14, <3>3, <4>1
          <5> QED
            BY <1>4, <1>6, <3>2, <4>1, <5>1
        <4>2. CASE q # p
          BY <1>7, <1>13, <3>2, <3>3, <4>2
        <4> QED
          BY <4>1, <4>2
      <3> QED
        BY <1>1, <1>8, <3>1, <3>2, <3>3
    <2> QED
      BY <2>1, <2>2 DEF IdInv
  <1>16. \A g \in Files : Settled(g)' <=> Settled(g)
    BY <1>1, <1>7, <1>9 DEF Settled
  <1>17. LostInv'
    <2>1. ASSUME NEW g \in Files \ disturbed'
          PROVE  /\ \A s, q \in Processes : Writes(s, g)' /\ Writes(q, g)' => s = q
                 /\ Settled(g)' => Same(g, Load(g)', ideal'[g])
                 /\ \A s \in Processes : Writes(s, g)' =>
                      \A list \in Results(Head(work'[s]), ideal'[g]) : Same(g, changed'[s], list)
      <3>1. g \in Files \ disturbed
        BY <1>1, <2>1
      <3>2. Settled(g)' => Same(g, Load(g)', ideal'[g])
        BY <1>1, <1>8, <1>16, <3>1 DEF IInv, LostInv
      <3>3. CASE g = f
        <4>1. ~Overlaps(p)
          BY <1>1, <1>2, <2>1, <3>3
        <4>2. \A q \in Processes \ {p} : ~Writes(q, f)
          BY <1>2, <4>1 DEF Overlaps, Writes
        <4>3. \A s, q \in Processes : Writes(s, g)' /\ Writes(q, g)' => s = q
          BY <1>13, <3>3, <4>2
        <4>4. Same(f, Load(f), ideal[f])
          <5>1. Settled(f)
            BY <1>1, <4>2 DEF Settled, Writes
          <5> QED
            BY <3>1, <3>3, <5>1 DEF IInv, LostInv
        <4>5. ASSUME NEW list \in Results(c, ideal[f]) PROVE Same(f, r, list)
          <5>1. Load(f) \in Seq(EntryOf(FileOf(c.op))) /\ ideal[f] \in Seq(EntryOf(FileOf(c.op)))
            BY <1>4, <1>5 DEF IsListOf
          <5>2. Same(FileOf(c.op), Load(f), ideal[f])
            BY <1>4, <4>4
          <5>3. Same(FileOf(c.op), r, list)
            BY <1>3, <1>4, <4>5, <5>1, <5>2, ResultsSame
          <5> QED
            BY <1>4, <5>3
        <4> QED
          BY <1>1, <1>2, <1>7, <1>13, <3>2, <3>3, <4>2, <4>3, <4>5
      <3>4. CASE g # f
        <4>1. \A q \in Processes : Writes(q, g)' => q # p /\ Writes(q, g)
          BY <1>13, <1>14, <3>4
        <4> QED
          BY <1>1, <1>7, <3>1, <3>2, <4>1 DEF IInv, LostInv
      <3> QED
        BY <3>3, <3>4
    <2> QED
      BY <1>1, <2>1 DEF IInv, LostInv
  <1>18. RowsInv'
    BY <1>1, <1>8 DEF IInv, RowsInv
  <1> QED
    BY <1>10, <1>11, <1>12, <1>15, <1>17, <1>18 DEF IInv

\* A file that has been truncated.
LEMMA TruncatedFile ==
  ASSUME NEW f \in Files
  PROVE  /\ Decoded(f, <<>>) = <<>>
         /\ IsListOf(f, <<>>)
         /\ Encoded(f, <<>>) = <<>>
         /\ Ids(<<>>) = {}
  <1>1. PICK e : e = <<>> /\ e \in Seq(EntryOf(f)) /\ Len(e) = 0
    <2>1. <<>> \in Seq(EntryOf(f)) /\ Len(<<>>) = 0
      OBVIOUS
    <2> QED
      BY <2>1
  <1>2. 1..Len(e) = {}
    BY <1>1
  <1>3. Encoded(f, e) = e
    <2>1. PICK d : d = [n \in 1..Len(e) |-> profileToJson(e[n])]
      OBVIOUS
    <2>2. d \in Seq(EntryOf(f)) /\ Len(d) = 0
      BY <1>1, <1>2, <2>1
    <2>3. d = e
      BY <1>1, <2>2, SeqFacts
    <2> QED
      BY <2>1, <2>3 DEF Encoded
  <1>4. Decoded(f, e) = e
    BY <1>1, <1>3, RoundTrip
  <1>5. SoundList(f, e)
    <2>1. Unique(f, e) /\ InOrder(e)
      BY <1>2 DEF Unique, InOrder
    <2>2. MaxRecents \in Nat /\ MaxHistory \in Nat
      BY StoresAssumption
    <2> QED
      BY <1>1, <2>1, <2>2, SoundParts
  <1>6. Ids(e) = {}
    BY <1>2 DEF Ids, EntriesOf
  <1> QED
    BY <1>1, <1>3, <1>4, <1>5, <1>6 DEF IsListOf

\* The rows after a process has changed a file: those of other processes' list boxes
\* may be outdated, and its own will be filled again.
LEMMA RowsAfterChange ==
  ASSUME IInv, NEW p \in Processes, Changing(p), outdated' = Outdates(p),
         dialog' = dialog, shown' = shown,
         \A q \in Processes \ {p} : work'[q] = work[q],
         Refilled(work'[p]) = Refilled(work[p]),
         \A g \in Files : g # FileOfWork(p) => Load(g)' = Load(g)
  PROVE  RowsInv'
  <1>1. CASE FileOfWork(p) = "snippets"
    <2>1. outdated' = outdated \cup (Processes \ {p})
      BY <1>1 DEF Outdates
    <2>2. ~Refilled(work[p])
      <3>1. work[p][1].op \in {"saveSnippet", "removeSnippet"} /\ work[p] # <<>>
        BY <1>1, ChangingFacts DEF FileOf, Changes
      <3>2. WorkOrder(work[p], dialog[p], form[p])
        BY ActingFacts DEF ProcessSound
      <3>3. Len(work[p]) = 2 /\ work[p][2].op = "repopulate"
        BY <3>1, <3>2 DEF WorkOrder
      <3> QED
        BY <3>3 DEF Refilled
    <2> QED
      BY <2>1, <2>2 DEF RowsInv
  <1>2. CASE FileOfWork(p) # "snippets"
    <2>1. Load("snippets")' = Load("snippets") /\ outdated' = outdated
      BY <1>2 DEF Outdates, Files
    <2>2. \A q \in Processes : Refilled(work'[q]) = Refilled(work[q])
      OBVIOUS
    <2> QED
      BY <2>1, <2>2 DEF IInv, RowsInv
  <1> QED
    BY <1>1, <1>2

LEMMA TruncateFileInv ==
  ASSUME IInv, NEW p \in Processes, TruncateFile(p)
  PROVE  IInv'
  <1>1. PICK f : f = FileOfWork(p)
    OBVIOUS
  <1>2. /\ stage[p] = "loaded"
        /\ stage' = [stage EXCEPT ![p] = "truncated"]
        /\ files' = [files EXCEPT ![f] = <<>>]
        /\ outdated' = Outdates(p)
        /\ creds' = creds /\ work' = work /\ changed' = changed
        /\ dialog' = dialog /\ needle' = needle /\ shown' = shown /\ form' = form
        /\ commands' = commands /\ crashes' = crashes
        /\ ideal' = ideal /\ disturbed' = disturbed /\ lastConn' = lastConn /\ aim' = aim
    BY <1>1 DEF TruncateFile, uiVars, countVars
  <1>3. Changing(p)
    BY <1>2 DEF IInv, ChangedInv
  <1>4. f \in Files
    BY <1>1, <1>3, ChangingFacts
  <1>5. /\ stage'[p] = "truncated"
        /\ \A q \in Processes \ {p} : stage'[q] = stage[q]
        /\ stage' \in [Processes -> {"ready", "loaded", "truncated"}]
    BY <1>2 DEF IInv, ChangedInv
  <1>6. /\ files' = [g \in Files |-> files'[g]]
        /\ files'[f] = <<>>
        /\ \A g \in Files : g # f => files'[g] = files[g]
    BY <1>2, <1>4 DEF IInv, FilesInv
  <1>7. /\ Load(f)' = <<>>
        /\ \A g \in Files : g # f => Load(g)' = Load(g)
    <2>1. Load(f)' = Decoded(f, files'[f])
      BY DEF Load, Decoded
    <2> QED
      BY <1>4, <1>6, <2>1, TruncatedFile DEF Load
  <1>8. FilesInv'
    <2>1. ASSUME NEW g \in Files PROVE IsListOf(g, Load(g)') /\ files'[g] = Encoded(g, Load(g)')
      <3>1. CASE g = f
        BY <1>4, <1>6, <1>7, <3>1, TruncatedFile
      <3>2. CASE g # f
        BY <1>6, <1>7, <3>2 DEF IInv, FilesInv
      <3> QED
        BY <3>1, <3>2
    <2> QED
      BY <1>6, <2>1 DEF FilesInv
  <1>9. \A q \in Processes : FileOfWork(q)' = FileOfWork(q) /\ Changing(q)' = Changing(q)
    BY <1>2 DEF FileOfWork, Changing
  <1>10. \A q \in Processes : stage'[q] # "ready" <=> stage[q] # "ready"
    BY <1>2, <1>5
  <1>11. \A q \in Processes : \A g : Writes(q, g)' <=> Writes(q, g)
    BY <1>9, <1>10 DEF Writes
  <1>12. ChangedInv'
    <2>1. ASSUME NEW q \in Processes, stage'[q] # "ready"
          PROVE  Changing(q)' /\ IsListOf(FileOfWork(q)', changed'[q])
      BY <1>2, <1>9, <1>10, <2>1 DEF IInv, ChangedInv
    <2> QED
      BY <1>2, <1>5, <2>1 DEF IInv, ChangedInv
  <1>13. ProcessInv' /\ DeleteHitsSelected' /\ LastInv' /\ CountInv'
    BY <1>2 DEF IInv, ProcessInv, DeleteHitsSelected, LastInv, CountInv
  <1>14. IdInv'
    <2>1. \A g \in WithIds : Ids(Load(g)') \subseteq Ids(Load(g))
      BY <1>4, <1>7, TruncatedFile DEF WithIds, Files
    <2> QED
      BY <1>2, <1>11, <2>1 DEF IInv, IdInv
  <1>15. LostInv'
    <2>1. ~Settled(f)'
      BY <1>1, <1>5, <1>9 DEF Settled
    <2>2. \A g \in Files : g # f => (Settled(g)' <=> Settled(g))
      BY <1>1, <1>2, <1>5, <1>9 DEF Settled
    <2>3. ASSUME NEW g \in Files \ disturbed
          PROVE  /\ \A s, q \in Processes : Writes(s, g)' /\ Writes(q, g)' => s = q
                 /\ Settled(g)' => Same(g, Load(g)', ideal'[g])
                 /\ \A s \in Processes : Writes(s, g)' =>
                      \A list \in Results(Head(work'[s]), ideal'[g]) : Same(g, changed'[s], list)
      <3>1. \A s, q \in Processes : Writes(s, g)' /\ Writes(q, g)' => s = q
        BY <1>11 DEF IInv, LostInv
      <3>2. Settled(g)' => Same(g, Load(g)', ideal'[g])
        BY <1>2, <1>7, <2>1, <2>2 DEF IInv, LostInv
      <3>3. \A s \in Processes : Writes(s, g)' =>
              \A list \in Results(Head(work'[s]), ideal'[g]) : Same(g, changed'[s], list)
        BY <1>2, <1>11 DEF IInv, LostInv
      <3> QED
        BY <3>1, <3>2, <3>3
    <2> QED
      BY <1>2, <2>3 DEF IInv, LostInv
  <1>16. RowsInv'
    BY <1>1, <1>2, <1>3, <1>7, RowsAfterChange
  <1> QED
    BY <1>8, <1>12, <1>13, <1>14, <1>15, <1>16 DEF IInv

LEMMA WriteFileInv ==
  ASSUME IInv, NEW p \in Processes, WriteFile(p)
  PROVE  IInv'
  <1>1. PICK f, c : f = FileOfWork(p) /\ c = Head(work[p])
    OBVIOUS
  <1>2. /\ stage[p] = "truncated"
        /\ stage' = [stage EXCEPT ![p] = "ready"]
        /\ files' = [files EXCEPT ![f] = Encoded(f, changed[p])]
        /\ changed' = [changed EXCEPT ![p] = <<>>]
        /\ Done(p)
        /\ ideal' = [ideal EXCEPT ![f] = CHOOSE list \in Results(c, ideal[f]) : TRUE]
        /\ outdated' = Outdates(p)
        /\ creds' = creds /\ disturbed' = disturbed /\ aim' = aim
        /\ dialog' = dialog /\ needle' = needle /\ shown' = shown /\ form' = form
        /\ commands' = commands /\ crashes' = crashes
    BY <1>1 DEF WriteFile, uiVars, countVars
  <1>3. Changing(p) /\ IsListOf(f, changed[p])
    BY <1>1, <1>2 DEF IInv, ChangedInv
  <1>4. /\ f \in Files /\ f = FileOf(c.op) /\ c \in WorkItem /\ c.op \in Changes
        /\ c = work[p][1] /\ work[p] # <<>> /\ c.op # "repopulate"
        /\ PendingOf(work[p]) <=> c.op \in {"record", "saveSnippet"}
    BY <1>1, <1>3, ChangingFacts
  <1>5. PICK r \in Results(c, ideal[f]) : ideal'[f] = r
    <2>1. Results(c, ideal[f]) # {}
      BY <1>4, ResultsExist DEF IInv, LostInv
    <2>2. ideal'[f] = CHOOSE list \in Results(c, ideal[f]) : TRUE
      BY <1>2, <1>4 DEF IInv, LostInv
    <2> QED
      BY <2>1, <2>2
  <1>6. /\ IsListOf(f, r)
        /\ f \in WithIds =>
             \A i \in Ids(r) : i \in Ids(ideal[f]) \/ (PendingOf(work[p]) /\ i = c.id)
    <2>1. Fresh(c, ideal[f])
      BY <1>1, <1>3, FreshInStore
    <2>2. IsListOf(f, ideal[f])
      BY <1>4 DEF IInv, LostInv
    <2> QED
      BY <1>4, <1>5, <2>1, <2>2, ResultsSound
  <1>7. /\ ideal' = [g \in Files |-> ideal'[g]]
        /\ \A g \in Files : g # f => ideal'[g] = ideal[g]
    BY <1>2 DEF IInv, LostInv
  <1>8. /\ stage'[p] = "ready"
        /\ \A q \in Processes \ {p} : stage'[q] = stage[q] /\ changed'[q] = changed[q]
        /\ stage' \in [Processes -> {"ready", "loaded", "truncated"}]
        /\ changed' = [q \in Processes |-> changed'[q]]
    BY <1>2 DEF IInv, ChangedInv
  <1>9. /\ ProcessInv'
        /\ work'[p] = Tail(work[p])
        /\ \A q \in Processes \ {p} : work'[q] = work[q]
    BY <1>2, <1>4, TailProcess DEF IInv
  <1>10. ~PendingOf(work'[p]) /\ Refilled(work'[p]) = Refilled(work[p])
    BY <1>4, <1>9, ActingFacts, TailSound
  <1>11. /\ files' = [g \in Files |-> files'[g]]
         /\ files'[f] = Encoded(f, changed[p])
         /\ \A g \in Files : g # f => files'[g] = files[g]
    BY <1>2, <1>4 DEF IInv, FilesInv
  <1>12. /\ Load(f)' = changed[p]
         /\ \A g \in Files : g # f => Load(g)' = Load(g)
    <2>1. Load(f)' = Decoded(f, files'[f])
      BY DEF Load, Decoded
    <2>2. changed[p] \in Seq(EntryOf(f))
      BY <1>3 DEF IsListOf
    <2>3. Decoded(f, Encoded(f, changed[p])) = changed[p]
      BY <1>4, <2>2, RoundTrip
    <2> QED
      BY <1>11, <2>1, <2>3 DEF Load
  <1>13. FilesInv'
    <2>1. ASSUME NEW g \in Files PROVE IsListOf(g, Load(g)') /\ files'[g] = Encoded(g, Load(g)')
      <3>1. CASE g = f
        BY <1>3, <1>11, <1>12, <3>1
      <3>2. CASE g # f
        BY <1>11, <1>12, <3>2 DEF IInv, FilesInv
      <3> QED
        BY <3>1, <3>2
    <2> QED
      BY <1>11, <2>1 DEF FilesInv
  <1>14. \A q \in Processes \ {p} : FileOfWork(q)' = FileOfWork(q) /\ Changing(q)' = Changing(q)
    BY <1>9 DEF FileOfWork, Changing
  <1>15. \A q \in Processes : \A g : Writes(q, g)' <=> q # p /\ Writes(q, g)
    BY <1>8, <1>14 DEF Writes
  <1>16. ChangedInv'
    <2>1. ASSUME NEW q \in Processes, stage'[q] # "ready"
          PROVE  Changing(q)' /\ IsListOf(FileOfWork(q)', changed'[q])
      <3>1. q # p
        BY <1>8, <2>1
      <3> QED
        BY <1>8, <1>14, <2>1, <3>1 DEF IInv, ChangedInv
    <2> QED
      BY <1>8, <2>1 DEF ChangedInv
  <1>17. DeleteHitsSelected' /\ CountInv'
    BY <1>2 DEF IInv, DeleteHitsSelected, CountInv
  <1>18. LastInv'
    <2>1. CASE c.op = "addRecent"
      <3>1. lastConn' = c.profile
        BY <1>1, <1>4, <2>1 DEF WriteFile, Doing
      <3>2. f = "recents" /\ r \in WithRecent(ideal[f], c.profile)
        BY <1>4, <1>5, <2>1 DEF FileOf, Results
      <3>3. c.profile \in RecentProfile /\ IsListOf("recents", ideal[f])
        BY <1>4, <2>1, <3>2, WorkItemFacts DEF IInv, LostInv
      <3>4. r # <<>> /\ r[1] = c.profile
        BY <3>2, <3>3, WithRecentSound
      <3> QED
        BY <1>5, <3>1, <3>2, <3>4 DEF LastInv
    <2>2. CASE c.op # "addRecent"
      <3>1. lastConn' = lastConn
        BY <1>1, <2>2 DEF WriteFile, Doing
      <3>2. f # "recents"
        BY <1>4, <2>2 DEF FileOf, Changes
      <3>3. ideal'["recents"] = ideal["recents"]
        BY <1>7, <3>2 DEF Files
      <3> QED
        BY <3>1, <3>3 DEF IInv, LastInv
    <2> QED
      BY <2>1, <2>2
  <1>19. IdInv'
    <2>1. ASSUME NEW g \in WithIds
          PROVE  /\ \A i \in Ids(Load(g)') \cup Ids(ideal'[g]) : i < commands'
                 /\ \A q \in Processes : Writes(q, g)' => \A i \in Ids(changed'[q]) : i < commands'
      <3>1. g \in Files
        BY DEF WithIds, Files
      <3>2. ASSUME NEW i \in Ids(Load(g)') PROVE i < commands'
        <4>1. CASE g = f
          <5>1. Writes(p, g) /\ i \in Ids(changed[p])
            BY <1>1, <1>2, <1>12, <3>2, <4>1 DEF Writes
          <5> QED
            BY <1>2, <5>1 DEF IInv, IdInv
        <4>2. CASE g # f
          BY <1>2, <1>12, <3>1, <3>2, <4>2 DEF IInv, IdInv
        <4> QED
          BY <4>1, <4>2
      <3>3. ASSUME NEW i \in Ids(ideal'[g]) PROVE i < commands'
        <4>1. CASE i \in Ids(ideal[g])
          BY <1>2, <4>1 DEF IInv, IdInv
        <4>2. CASE i \notin Ids(ideal[g])
          <5>1. g = f /\ i \in Ids(r)
            BY <1>5, <1>7, <3>1, <3>3, <4>2
          <5>2. PendingOf(work[p]) /\ i = work[p][1].id
            BY <1>4, <1>6, <4>2, <5>1
          <5> QED
            BY <1>2, <5>2 DEF IInv, IdInv
        <4> QED
          BY <4>1, <4>2
      <3>4. ASSUME NEW q \in Processes, Writes(q, g)', NEW i \in Ids(changed'[q])
            PROVE  i < commands'
        BY <1>2, <1>8, <1>15, <3>4 DEF IInv, IdInv
      <3> QED
        BY <3>2, <3>3, <3>4
    <2>2. ASSUME NEW s \in Processes, PendingOf(work'[s])
          PROVE  /\ work'[s][1].id < commands'
                 /\ \A g \in WithIds :
                      /\ work'[s][1].id \notin Ids(Load(g)') \cup Ids(ideal'[g])
                      /\ \A q \in Processes \ {s} : Writes(q, g)' =>
                           work'[s][1].id \notin Ids(changed'[q])
                 /\ \A q \in Processes \ {s} : PendingOf(work'[q]) =>
                      work'[q][1].id # work'[s][1].id
      <3>1. PICK x : x = work[s][1].id
        OBVIOUS
      <3>2. s # p /\ work'[s] = work[s]
        BY <1>9, <1>10, <2>2
      <3>3. /\ x < commands
            /\ \A g \in WithIds : x \notin Ids(Load(g)) \cup Ids(ideal[g])
            /\ \A g \in WithIds : \A q \in Processes \ {s} : Writes(q, g) => x \notin Ids(changed[q])
            /\ \A q \in Processes \ {s} : PendingOf(work[q]) => work[q][1].id # x
        BY <2>2, <3>1, <3>2 DEF IInv, IdInv
      <3>4. ASSUME NEW g \in WithIds PROVE x \notin Ids(Load(g)') \cup Ids(ideal'[g])
        <4>1. g \in Files
          BY DEF WithIds, Files
        <4>2. CASE g = f
          <5>1. x \notin Ids(changed[p])
            <6>1. Writes(p, g)
              BY <1>1, <1>2, <4>2 DEF Writes
            <6> QED
              BY <3>2, <3>3, <6>1
          <5>2. x \notin Ids(r)
            <6>1. PendingOf(work[p]) => c.id # x
              BY <1>4, <3>2, <3>3
            <6> QED
              BY <1>6, <3>3, <4>2, <6>1
          <5> QED
            BY <1>5, <1>12, <4>2, <5>1, <5>2
        <4>3. CASE g # f
          BY <1>7, <1>12, <3>3, <4>1, <4>3
        <4> QED
          BY <4>2, <4>3
      <3>5. \A g \in WithIds : \A q \in Processes \ {s} : Writes(q, g)' => x \notin Ids(changed'[q])
        BY <1>8, <1>15, <3>3
      <3>6. \A q \in Processes \ {s} : PendingOf(work'[q]) => work'[q][1].id # x
        BY <1>9, <1>10, <3>3
      <3> QED
        BY <1>2, <3>1, <3>2, <3>3, <3>4, <3>5, <3>6
    <2> QED
      BY <2>1, <2>2 DEF IdInv
  <1>20. LostInv'
    <2>1. \A g \in Files : IsListOf(g, ideal'[g])
      BY <1>5, <1>6, <1>7 DEF IInv, LostInv
    <2>2. \A g \in Files : g # f => (Settled(g)' <=> Settled(g))
      BY <1>1, <1>8, <1>14 DEF Settled
    <2>3. ASSUME NEW g \in Files \ disturbed
          PROVE  /\ \A s, q \in Processes : Writes(s, g)' /\ Writes(q, g)' => s = q
                 /\ Settled(g)' => Same(g, Load(g)', ideal'[g])
                 /\ \A s \in Processes : Writes(s, g)' =>
                      \A list \in Results(Head(work'[s]), ideal'[g]) : Same(g, changed'[s], list)
      <3>1. \A s, q \in Processes : Writes(s, g)' /\ Writes(q, g)' => s = q
        BY <1>15 DEF IInv, LostInv
      <3>2. Settled(g)' => Same(g, Load(g)', ideal'[g])
        <4>1. CASE g = f
          <5>1. Writes(p, g)
            BY <1>1, <1>2, <4>1 DEF Writes
          <5>2. Same(g, changed[p], r)
            BY <1>1, <1>5, <4>1, <5>1 DEF IInv, LostInv
          <5> QED
            BY <1>5, <1>12, <4>1, <5>2
        <4>2. CASE g # f
          BY <1>7, <1>12, <2>2, <4>2 DEF IInv, LostInv
        <4> QED
          BY <4>1, <4>2
      <3>3. ASSUME NEW s \in Processes, Writes(s, g)',
                   NEW list \in Results(Head(work'[s]), ideal'[g])
            PROVE  Same(g, changed'[s], list)
        <4>1. s # p /\ Writes(s, g)
          BY <1>15, <3>3
        <4>2. g # f
          <5>1. g = f => Writes(p, g)
            BY <1>1, <1>2 DEF Writes
          <5> QED
            BY <4>1, <5>1 DEF IInv, LostInv
        <4>3. work'[s] = work[s] /\ changed'[s] = changed[s] /\ ideal'[g] = ideal[g]
          BY <1>7, <1>8, <1>9, <4>1, <4>2
        <4> QED
          BY <3>3, <4>1, <4>3 DEF IInv, LostInv
      <3> QED
        BY <3>1, <3>2, <3>3
    <2> QED
      BY <1>2, <1>7, <2>1, <2>3 DEF LostInv
  <1>21. RowsInv'
    BY <1>1, <1>2, <1>3, <1>9, <1>10, <1>12, RowsAfterChange
  <1> QED
    BY <1>9, <1>13, <1>16, <1>17, <1>18, <1>19, <1>20, <1>21 DEF IInv

LEMMA ClearFileInv ==
  ASSUME IInv, NEW p \in Processes, ClearFile(p)
  PROVE  IInv'
  <1>1. /\ work[p] # <<>> /\ Head(work[p]).op = "clear" /\ stage[p] = "ready"
        /\ files' = [files EXCEPT !["history"] = <<>>]
        /\ ideal' = [ideal EXCEPT !["history"] = <<>>]
        /\ Done(p)
        /\ disturbed' = IF \E q \in Processes : stage[q] # "ready" /\ FileOfWork(q) = "history"
                        THEN disturbed \cup {"history"} ELSE disturbed
        /\ creds' = creds /\ stage' = stage /\ changed' = changed
        /\ dialog' = dialog /\ needle' = needle /\ shown' = shown /\ form' = form
        /\ commands' = commands /\ crashes' = crashes
        /\ lastConn' = lastConn /\ outdated' = outdated /\ aim' = aim
    BY ActingFacts DEF ClearFile, Doing, Changes, uiVars, countVars
  <1>2. "history" \in Files /\ "history" \in WithIds
    BY DEF Files, WithIds
  <1>3. /\ ProcessInv'
        /\ work'[p] = Tail(work[p])
        /\ \A q \in Processes \ {p} : work'[q] = work[q]
    BY <1>1, TailProcess DEF IInv
  <1>4. ~PendingOf(work'[p]) /\ Refilled(work'[p]) = Refilled(work[p])
    <2>1. work[p][1].op = "clear"
      BY <1>1, ActingFacts, HeadFacts DEF ProcessSound
    <2> QED
      BY <1>1, <1>3, <2>1, ActingFacts, TailSound
  <1>5. /\ files' = [g \in Files |-> files'[g]] /\ files'["history"] = <<>>
        /\ \A g \in Files : g # "history" => files'[g] = files[g]
        /\ ideal' = [g \in Files |-> ideal'[g]] /\ ideal'["history"] = <<>>
        /\ \A g \in Files : g # "history" => ideal'[g] = ideal[g]
    BY <1>1, <1>2 DEF IInv, FilesInv, LostInv
  <1>6. /\ Load("history")' = <<>>
        /\ \A g \in Files : g # "history" => Load(g)' = Load(g)
    <2>1. Load("history")' = Decoded("history", files'["history"])
      BY DEF Load, Decoded
    <2> QED
      BY <1>2, <1>5, <2>1, TruncatedFile DEF Load
  <1>7. FilesInv'
    <2>1. ASSUME NEW g \in Files PROVE IsListOf(g, Load(g)') /\ files'[g] = Encoded(g, Load(g)')
      <3>1. CASE g = "history"
        BY <1>5, <1>6, <3>1, TruncatedFile
      <3>2. CASE g # "history"
        BY <1>5, <1>6, <3>2 DEF IInv, FilesInv
      <3> QED
        BY <3>1, <3>2
    <2> QED
      BY <1>5, <2>1 DEF FilesInv
  <1>8. \A q \in Processes : stage[q] # "ready" =>
          /\ q # p /\ work'[q] = work[q]
          /\ FileOfWork(q)' = FileOfWork(q) /\ Changing(q)' = Changing(q)
    BY <1>1, <1>3 DEF FileOfWork, Changing
  <1>9. \A q \in Processes : \A g : Writes(q, g)' <=> Writes(q, g)
    BY <1>1, <1>8 DEF Writes
  <1>10. ChangedInv'
    <2>1. ASSUME NEW q \in Processes, stage'[q] # "ready"
          PROVE  Changing(q)' /\ IsListOf(FileOfWork(q)', changed'[q])
      BY <1>1, <1>8, <2>1 DEF IInv, ChangedInv
    <2> QED
      BY <1>1, <2>1 DEF IInv, ChangedInv
  <1>11. DeleteHitsSelected' /\ CountInv'
    BY <1>1, <1>2 DEF IInv, DeleteHitsSelected, CountInv
  <1>12. LastInv'
    <2>1. ideal'["recents"] = ideal["recents"]
      BY <1>5 DEF Files
    <2> QED
      BY <1>1, <2>1 DEF IInv, LastInv
  <1>13. IdInv'
    <2>1. ASSUME NEW g \in WithIds
          PROVE  /\ Ids(Load(g)') \subseteq Ids(Load(g))
                 /\ Ids(ideal'[g]) \subseteq Ids(ideal[g])
      <3>1. g \in Files
        BY DEF WithIds, Files
      <3> QED
        BY <1>2, <1>5, <1>6, <3>1, TruncatedFile
    <2>2. \A q \in Processes : PendingOf(work'[q]) => q # p /\ work'[q] = work[q]
      BY <1>3, <1>4
    <2>3. ASSUME NEW s \in Processes, PendingOf(work'[s])
          PROVE  /\ work'[s][1].id < commands'
                 /\ \A g \in WithIds :
                      /\ work'[s][1].id \notin Ids(Load(g)') \cup Ids(ideal'[g])
                      /\ \A q \in Processes \ {s} : Writes(q, g)' =>
                           work'[s][1].id \notin Ids(changed'[q])
                 /\ \A q \in Processes \ {s} : PendingOf(work'[q]) =>
                      work'[q][1].id # work'[s][1].id
      <3>1. work'[s] = work[s] /\ PendingOf(work[s])
        BY <2>2, <2>3
      <3>2. work[s][1].id < commands'
        BY <1>1, <3>1 DEF IInv, IdInv
      <3>3. \A g \in WithIds : work[s][1].id \notin Ids(Load(g)') \cup Ids(ideal'[g])
        BY <2>1, <3>1 DEF IInv, IdInv
      <3>4. \A g \in WithIds : \A q \in Processes \ {s} : Writes(q, g)' =>
              work[s][1].id \notin Ids(changed'[q])
        BY <1>1, <1>9, <3>1 DEF IInv, IdInv
      <3>5. \A q \in Processes \ {s} : PendingOf(work'[q]) => work'[q][1].id # work[s][1].id
        BY <2>2, <3>1 DEF IInv, IdInv
      <3> QED
        BY <3>1, <3>2, <3>3, <3>4, <3>5
    <2>4. ASSUME NEW g \in WithIds
          PROVE  /\ \A i \in Ids(Load(g)') \cup Ids(ideal'[g]) : i < commands'
                 /\ \A q \in Processes : Writes(q, g)' => \A i \in Ids(changed'[q]) : i < commands'
      BY <1>1, <1>9, <2>1 DEF IInv, IdInv
    <2> QED
      BY <2>3, <2>4 DEF IdInv
  <1>14. LostInv'
    <2>1. \A g \in Files : Settled(g)' <=> Settled(g)
      BY <1>1, <1>8 DEF Settled
    <2>2. \A g \in Files : IsListOf(g, ideal'[g])
      BY <1>5, TruncatedFile DEF IInv, LostInv
    <2>3. ASSUME NEW g \in Files \ disturbed'
          PROVE  /\ \A s, q \in Processes : Writes(s, g)' /\ Writes(q, g)' => s = q
                 /\ Settled(g)' => Same(g, Load(g)', ideal'[g])
                 /\ \A s \in Processes : Writes(s, g)' =>
                      \A list \in Results(Head(work'[s]), ideal'[g]) : Same(g, changed'[s], list)
      <3>1. g \in Files \ disturbed
        BY <1>1, <2>3
      <3>2. CASE g = "history"
        <4>1. \A q \in Processes : ~Writes(q, g)'
          <5>1. \A q \in Processes : ~(stage[q] # "ready" /\ FileOfWork(q) = "history")
            BY <1>1, <2>3, <3>2
          <5> QED
            BY <1>9, <3>2, <5>1 DEF Writes
        <4>2. Same(g, Load(g)', ideal'[g])
          BY <1>5, <1>6, <3>2 DEF Same
        <4> QED
          BY <4>1, <4>2
      <3>3. CASE g # "history"
        <4>1. Load(g)' = Load(g) /\ ideal'[g] = ideal[g]
          BY <1>5, <1>6, <3>3
        <4>2. \A s \in Processes : Writes(s, g)' => work'[s] = work[s] /\ Writes(s, g)
          BY <1>8, <1>9 DEF Writes
        <4> QED
          BY <1>1, <2>1, <3>1, <4>1, <4>2 DEF IInv, LostInv
      <3> QED
        BY <3>2, <3>3
    <2> QED
      BY <1>5, <2>2, <2>3 DEF LostInv
  <1>15. RowsInv'
    <2>1. Load("snippets")' = Load("snippets")
      BY <1>6 DEF Files
    <2>2. \A q \in Processes : Refilled(work'[q]) = Refilled(work[q])
      BY <1>3, <1>4
    <2> QED
      BY <1>1, <2>1, <2>2 DEF IInv, RowsInv
  <1> QED
    BY <1>3, <1>7, <1>10, <1>11, <1>12, <1>13, <1>14, <1>15 DEF IInv

LEMMA CrashInv ==
  ASSUME IInv, NEW p \in Processes, Crash(p)
  PROVE  IInv'
  <1>1. /\ crashes < MaxCrashes /\ crashes' = crashes + 1
        /\ disturbed' = IF stage[p] = "truncated" THEN disturbed \cup {FileOfWork(p)}
                        ELSE disturbed
        /\ stage' = [stage EXCEPT ![p] = "ready"]
        /\ changed' = [changed EXCEPT ![p] = <<>>]
        /\ outdated' = outdated \ {p}
        /\ files' = files /\ creds' = creds /\ commands' = commands
        /\ ideal' = ideal /\ lastConn' = lastConn /\ aim' = aim
    BY DEF Crash
  <1>2. /\ Others(work, work', p) /\ work'[p] = <<>>
        /\ Others(dialog, dialog', p) /\ dialog'[p] = "none"
        /\ Others(needle, needle', p) /\ needle'[p] = None
        /\ Others(shown, shown', p) /\ shown'[p] = <<>>
        /\ Others(form, form', p) /\ form'[p] = EmptyForm
    BY ActingFacts, OthersFacts DEF Crash
  <1>3. ProcessInv'
    <2>1. <<>> \in Seq(Row)
      OBVIOUS
    <2>2. ProcessSound(work'[p], dialog'[p], needle'[p], shown'[p], form'[p])
      BY <1>2, <2>1, EmptyWork, EmptyFormFacts DEF ProcessSound, Dialogs
    <2> QED
      BY <1>2, <2>2, ProcessFrame DEF IInv
  <1>4. /\ stage'[p] = "ready"
        /\ \A q \in Processes \ {p} : /\ stage'[q] = stage[q] /\ changed'[q] = changed[q]
                                      /\ work'[q] = work[q]
        /\ stage' \in [Processes -> {"ready", "loaded", "truncated"}]
        /\ changed' = [q \in Processes |-> changed'[q]]
    BY <1>1, <1>2 DEF IInv, ChangedInv, Others
  <1>5. \A q \in Processes \ {p} : FileOfWork(q)' = FileOfWork(q) /\ Changing(q)' = Changing(q)
    BY <1>4 DEF FileOfWork, Changing
  <1>6. \A q \in Processes : \A g : Writes(q, g)' <=> q # p /\ Writes(q, g)
    BY <1>4, <1>5 DEF Writes
  <1>7. \A g : Load(g)' = Load(g)
    BY <1>1 DEF Load
  <1>8. FilesInv' /\ DeleteHitsSelected' /\ LastInv'
    BY <1>1, <1>7 DEF IInv, FilesInv, DeleteHitsSelected, LastInv
  <1>9. ChangedInv'
    <2>1. ASSUME NEW q \in Processes, stage'[q] # "ready"
          PROVE  Changing(q)' /\ IsListOf(FileOfWork(q)', changed'[q])
      <3>1. q # p
        BY <1>4, <2>1
      <3> QED
        BY <1>4, <1>5, <2>1, <3>1 DEF IInv, ChangedInv
    <2> QED
      BY <1>4, <2>1 DEF ChangedInv
  <1>10. CountInv'
    <2>1. crashes' \in 0..MaxCrashes
      BY <1>1, StoresAssumption DEF IInv, CountInv
    <2>2. disturbed' \subseteq Files
      <3>1. stage[p] = "truncated" => FileOfWork(p) \in Files
        BY ChangingFacts DEF IInv, ChangedInv
      <3> QED
        BY <1>1, <3>1 DEF IInv, CountInv
    <2> QED
      BY <1>1, <2>1, <2>2 DEF IInv, CountInv
  <1>11. IdInv'
    <2>1. \A q \in Processes : PendingOf(work'[q]) => q # p /\ work'[q] = work[q]
      BY <1>2, <1>4, EmptyWork
    <2>2. ASSUME NEW s \in Processes, PendingOf(work'[s])
          PROVE  /\ work'[s][1].id < commands'
                 /\ \A g \in WithIds :
                      /\ work'[s][1].id \notin Ids(Load(g)') \cup Ids(ideal'[g])
                      /\ \A q \in Processes \ {s} : Writes(q, g)' =>
                           work'[s][1].id \notin Ids(changed'[q])
                 /\ \A q \in Processes \ {s} : PendingOf(work'[q]) =>
                      work'[q][1].id # work'[s][1].id
      <3>1. work'[s] = work[s] /\ PendingOf(work[s])
        BY <2>1, <2>2
      <3>2. work[s][1].id < commands'
        BY <1>1, <3>1 DEF IInv, IdInv
      <3>3. \A g \in WithIds : work[s][1].id \notin Ids(Load(g)') \cup Ids(ideal'[g])
        BY <1>1, <1>7, <3>1 DEF IInv, IdInv
      <3>4. \A g \in WithIds : \A q \in Processes \ {s} : Writes(q, g)' =>
              work[s][1].id \notin Ids(changed'[q])
        BY <1>4, <1>6, <3>1 DEF IInv, IdInv
      <3>5. \A q \in Processes \ {s} : PendingOf(work'[q]) => work'[q][1].id # work[s][1].id
        BY <2>1, <3>1 DEF IInv, IdInv
      <3> QED
        BY <3>1, <3>2, <3>3, <3>4, <3>5
    <2>3. ASSUME NEW g \in WithIds
          PROVE  /\ \A i \in Ids(Load(g)') \cup Ids(ideal'[g]) : i < commands'
                 /\ \A q \in Processes : Writes(q, g)' => \A i \in Ids(changed'[q]) : i < commands'
      BY <1>1, <1>4, <1>6, <1>7 DEF IInv, IdInv
    <2> QED
      BY <2>2, <2>3 DEF IdInv
  <1>12. LostInv'
    <2>1. ASSUME NEW g \in Files \ disturbed'
          PROVE  /\ \A s, q \in Processes : Writes(s, g)' /\ Writes(q, g)' => s = q
                 /\ Settled(g)' => Same(g, Load(g)', ideal'[g])
                 /\ \A s \in Processes : Writes(s, g)' =>
                      \A list \in Results(Head(work'[s]), ideal'[g]) : Same(g, changed'[s], list)
      <3>1. g \in Files \ disturbed
        BY <1>1, <2>1
      <3>2. Settled(g)' => Settled(g)
        <4>1. stage[p] = "truncated" => FileOfWork(p) # g
          BY <1>1, <2>1
        <4> QED
          BY <1>4, <1>5, <4>1 DEF Settled
      <3> QED
        BY <1>1, <1>4, <1>6, <1>7, <3>1, <3>2 DEF IInv, LostInv
    <2> QED
      BY <1>1, <2>1 DEF IInv, LostInv
  <1>13. RowsInv'
    <2>1. \A q \in Processes \ {p} : /\ work'[q] = work[q] /\ dialog'[q] = dialog[q]
                                     /\ shown'[q] = shown[q]
                                     /\ q \in outdated => q \in outdated'
      BY <1>1, <1>2 DEF Others
    <2> QED
      BY <1>1, <1>2, <2>1, RowsFrame DEF IInv
  <1> QED
    BY <1>3, <1>8, <1>9, <1>10, <1>11, <1>12, <1>13 DEF IInv

-----------------------------------------------------------------------------
(* The theorems.                                                           *)

\* What an earlier session has left.
LEMMA KeptSound ==
  ASSUME NEW kept \in Kept
  PROVE  /\ kept = [f \in Files |-> kept[f]]
         /\ \A f \in Files : IsListOf(f, kept[f])
         /\ \A f \in WithIds : \A i \in Ids(kept[f]) : i < 0
  <1>1. /\ kept = [f \in Files |-> kept[f]]
        /\ kept["recents"] \in Seq(RecentProfile)
        /\ kept["profiles"] \in Seq(SavedProfile)
        /\ kept["history"] \in Seq(HistoryEntries({e.sql : e \in EntriesOf(kept["history"])}))
        /\ kept["snippets"] \in Seq(Snippets({e.sql : e \in EntriesOf(kept["snippets"])}))
        /\ \A f \in {"history", "snippets"} : \A e \in EntriesOf(kept[f]) : e.id < 0
        /\ \A f \in Files : SoundList(f, kept[f])
    BY KeptAssumption DEF RecentProfile, SavedProfile
  <1>2. /\ {e.sql : e \in EntriesOf(kept["history"])} \subseteq Texts
        /\ {e.sql : e \in EntriesOf(kept["snippets"])} \subseteq Texts
    BY DEF Texts
  <1>3. kept["history"] \in Seq(HistoryEntry)
    <2>1. PICK T : T = {e.sql : e \in EntriesOf(kept["history"])}
      OBVIOUS
    <2>2. HistoryEntries(T) \subseteq HistoryEntry
      BY <1>2, <2>1 DEF HistoryEntry, HistoryEntries
    <2>3. kept["history"] \in Seq(HistoryEntries(T))
      BY <1>1, <2>1
    <2> QED
      BY <2>2, <2>3
  <1>4. kept["snippets"] \in Seq(Snippet)
    <2>1. PICK T : T = {e.sql : e \in EntriesOf(kept["snippets"])}
      OBVIOUS
    <2>2. Snippets(T) \subseteq Snippet
      BY <1>2, <2>1 DEF Snippet, Snippets
    <2>3. kept["snippets"] \in Seq(Snippets(T))
      BY <1>1, <2>1
    <2> QED
      BY <2>2, <2>3
  <1>5. \A f \in Files : kept[f] \in Seq(EntryOf(f))
    BY <1>1, <1>3, <1>4 DEF Files, EntryOf
  <1> QED
    BY <1>1, <1>5 DEF IsListOf, Ids, WithIds

LEMMA InitInv ==
  ASSUME Init
  PROVE  IInv
  <1>1. /\ ideal \in Kept
        /\ files = [f \in Files |-> Encoded(f, ideal[f])]
        /\ creds = [t \in Targets |-> None]
        /\ work = [p \in Processes |-> <<>>]
        /\ stage = [p \in Processes |-> "ready"]
        /\ changed = [p \in Processes |-> <<>>]
        /\ dialog = [p \in Processes |-> "none"]
        /\ needle = [p \in Processes |-> None]
        /\ shown = [p \in Processes |-> <<>>]
        /\ form = [p \in Processes |-> EmptyForm]
        /\ commands = 0 /\ crashes = 0 /\ disturbed = {} /\ outdated = {} /\ aim = None
        /\ lastConn = IF ideal["recents"] = <<>> THEN None ELSE ideal["recents"][1]
    BY DEF Init
  <1>2. /\ ideal = [f \in Files |-> ideal[f]]
        /\ \A f \in Files : IsListOf(f, ideal[f])
        /\ \A f \in WithIds : \A i \in Ids(ideal[f]) : i < 0
    BY <1>1, KeptSound
  <1>3. \A f \in Files : files[f] = Encoded(f, ideal[f]) /\ Load(f) = ideal[f]
    <2>1. ASSUME NEW f \in Files PROVE files[f] = Encoded(f, ideal[f]) /\ Load(f) = ideal[f]
      <3>1. files[f] = Encoded(f, ideal[f])
        BY <1>1
      <3>2. Load(f) = Decoded(f, files[f])
        BY LoadDecodes
      <3>3. ideal[f] \in Seq(EntryOf(f))
        BY <1>2 DEF IsListOf
      <3>4. Decoded(f, Encoded(f, ideal[f])) = ideal[f]
        BY <3>3, RoundTrip
      <3> QED
        BY <3>1, <3>2, <3>4
    <2> QED
      BY <2>1
  <1>4. FilesInv
    BY <1>1, <1>2, <1>3 DEF FilesInv
  <1>5. ChangedInv
    BY <1>1 DEF ChangedInv
  <1>6. ProcessInv
    <2>1. ASSUME NEW p \in Processes
          PROVE  ProcessSound(work[p], dialog[p], needle[p], shown[p], form[p])
      <3>1. <<>> \in Seq(Row)
        OBVIOUS
      <3> QED
        BY <1>1, <3>1, EmptyWork, EmptyFormFacts DEF ProcessSound, Dialogs
    <2> QED
      BY <1>1, <2>1 DEF ProcessInv
  <1>7. CountInv
    BY <1>1, StoresAssumption DEF CountInv
  <1>8. IdInv
    <2>1. \A p \in Processes : ~PendingOf(work[p]) /\ \A f : ~Writes(p, f)
      BY <1>1, EmptyWork DEF Writes
    <2>2. \A f \in WithIds : Load(f) = ideal[f]
      BY <1>3 DEF WithIds, Files
    <2> QED
      BY <1>1, <1>2, <2>1, <2>2 DEF IdInv
  <1>9. LostInv
    <2>1. \A p \in Processes : \A f : ~Writes(p, f)
      BY <1>1 DEF Writes
    <2>2. \A f \in Files : Same(f, Load(f), ideal[f])
      BY <1>3 DEF Same
    <2> QED
      BY <1>2, <2>1, <2>2 DEF LostInv
  <1>10. RowsInv /\ DeleteHitsSelected /\ LastInv
    BY <1>1 DEF RowsInv, DeleteHitsSelected, LastInv
  <1> QED
    BY <1>4, <1>5, <1>6, <1>7, <1>8, <1>9, <1>10 DEF IInv

LEMMA StutterInv ==
  ASSUME IInv, UNCHANGED vars
  PROVE  IInv'
  <1>1. /\ files' = files /\ creds' = creds /\ work' = work /\ stage' = stage
        /\ changed' = changed /\ dialog' = dialog /\ needle' = needle /\ shown' = shown
        /\ form' = form /\ commands' = commands /\ crashes' = crashes /\ ideal' = ideal
        /\ disturbed' = disturbed /\ lastConn' = lastConn /\ outdated' = outdated
        /\ aim' = aim
    BY DEF vars, storeVars, uiVars, countVars, historyVars
  <1>2. StoresQuiet /\ ProcessInv' /\ CountInv' /\ DeleteHitsSelected'
    BY <1>1 DEF IInv, StoresQuiet, ProcessInv, CountInv, DeleteHitsSelected
  <1>3. RowsInv'
    <2>1. Load("snippets")' = Load("snippets")
      BY <1>1 DEF Load
    <2> QED
      BY <1>1, <2>1 DEF IInv, RowsInv
  <1>4. commands <= commands'
    <2>1. MaxCommands \in Nat
      BY StoresAssumption
    <2>2. commands \in Nat
      BY <2>1 DEF IInv, CountInv
    <2> QED
      BY <1>1, <2>2
  <1> QED
    BY <1>1, <1>2, <1>3, <1>4, QuietInvariant

LEMMA NextInv ==
  ASSUME IInv, Next
  PROVE  IInv'
  <1>1. PICK p \in Processes : Work(p) \/ Commands(p) \/ Crash(p)
    BY DEF Next
  <1>2. CASE Work(p)
    BY <1>2, LoadListInv, TruncateFileInv, WriteFileInv, ClearFileInv, TouchCredentialsInv,
       RepopulateInv, PrefillInv DEF Work
  <1>3. CASE Commands(p)
    BY <1>3, RunInv, ShowListInv, CloseListInv, SaveSnippetInv, DeleteSnippetInv,
       ClearHistoryInv, OpenConnectInv, ChooseProfileInv, SubmitInv, CancelConnectInv,
       ConnectedInv DEF Commands
  <1>4. CASE Crash(p)
    BY <1>4, CrashInv
  <1> QED
    BY <1>1, <1>2, <1>3, <1>4

\* The inductive invariant holds in every state: of every file and every list about
\* to be written, of every process's work, dialog, rows and fields.
THEOREM StoresInvariant == Spec => []IInv
  <1>1. Init => IInv
    BY InitInv
  <1>2. IInv /\ [Next]_vars => IInv'
    BY NextInv, StutterInv
  <1> QED
    BY <1>1, <1>2, PTL DEF Spec

\* Every process's work, dialog and fields fit together: a change under way is at
\* the head of its process's work, and rows and fields are those of the open dialog.
THEOREM StoresTypeCorrect == Spec => []TypeOK
  <1>1. IInv => TypeOK
    <2> SUFFICES ASSUME IInv PROVE TypeOK
      OBVIOUS
    <2>1. ASSUME NEW f \in Files PROVE Len(files[f]) \in Nat
      <3>1. IsListOf(f, Load(f)) /\ files[f] = Encoded(f, Load(f))
        BY DEF IInv, FilesInv
      <3>2. PICK list \in Seq(EntryOf(f)) : files[f] = Encoded(f, list)
        BY <3>1 DEF IsListOf
      <3>3. PICK m \in Nat : m = Len(list)
        OBVIOUS
      <3>4. CASE f \in {"recents", "profiles"}
        <4>1. files[f] = [n \in 1..m |-> profileToJson(list[n])]
          BY <3>2, <3>3, <3>4 DEF Encoded
        <4> QED
          BY <4>1
      <3>5. CASE f \notin {"recents", "profiles"}
        BY <3>2, <3>3, <3>5 DEF Encoded
      <3> QED
        BY <3>4, <3>5
    <2>2. \A t \in Targets : creds[t] \in {None, "pw"}
      BY DEF IInv, CountInv
    <2>3. ASSUME NEW p \in Processes
          PROVE  /\ stage[p] \in {"ready", "loaded", "truncated"}
                 /\ stage[p] # "ready" => Changing(p)
                 /\ dialog[p] \in Dialogs
                 /\ needle[p] \in Searches \cup {None}
                 /\ shown[p] # <<>> => dialog[p] \in {"history", "snippets"}
                 /\ form[p] # EmptyForm => dialog[p] \in {"connect", "connecting"}
                 /\ Doing(p, "repopulate") => dialog[p] \in {"history", "snippets"}
      <3>1. stage[p] \in {"ready", "loaded", "truncated"} /\ (stage[p] # "ready" => Changing(p))
        BY DEF IInv, ChangedInv
      <3>2. Doing(p, "repopulate") => dialog[p] \in {"history", "snippets"}
        <4> SUFFICES ASSUME Doing(p, "repopulate") PROVE dialog[p] \in {"history", "snippets"}
          OBVIOUS
        <4>1. /\ work[p] \in Seq(WorkItem) /\ work[p] # <<>>
              /\ WorkOrder(work[p], dialog[p], form[p])
          BY ActingFacts DEF Doing, ProcessSound
        <4>2. 1 \in 1..Len(work[p]) /\ work[p][1].op = "repopulate"
          BY <4>1, HeadFacts DEF Doing
        <4> QED
          BY <4>1, <4>2 DEF WorkOrder
      <3> QED
        BY <3>1, <3>2, ActingFacts DEF ProcessSound
    <2>4. commands \in 0..MaxCommands /\ crashes \in 0..MaxCrashes /\ disturbed \subseteq Files
      BY DEF IInv, CountInv
    <2> QED
      BY <2>1, <2>2, <2>3, <2>4 DEF TypeOK, Dialogs
  <1> QED
    BY <1>1, StoresInvariant, PTL

\* Stores.h's promises of each list hold of every store that can be read, whatever
\* processes overlap and wherever one dies.
THEOREM StoresListsSound == Spec => []ListsSound
  <1>1. IInv => ListsSound
    BY DEF IInv, FilesInv, IsListOf, ListsSound
  <1> QED
    BY <1>1, StoresInvariant, PTL

\* Unless changes of a file overlapped or a process died over one, a store holds
\* exactly what the changes made to it leave.
THEOREM StoresNothingLost == Spec => []NothingLostAlone
  <1>1. IInv => NothingLostAlone
    BY DEF IInv, LostInv, Same, NothingLostAlone
  <1> QED
    BY <1>1, StoresInvariant, PTL

\* Delete removes the snippet that is selected, unless another process has changed
\* the snippets since the list box was filled.
THEOREM StoresDeleteHitsSelected == Spec => []DeleteHitsSelected
  <1>1. IInv => DeleteHitsSelected
    BY DEF IInv
  <1> QED
    BY <1>1, StoresInvariant, PTL

\* What the connection dialog opens on.
LEMMA PrefillStep ==
  ASSUME IInv, NEW p \in Processes, Prefill(p),
         "recents" \notin disturbed, Settled("recents"),
         form[p].profiles = Load("recents") \o Load("profiles")
  PROVE  /\ lastConn = None => form'[p] = form[p]
         /\ lastConn # None =>
              Profile(form'[p].conn, None)
                = [lastConn EXCEPT !.sslMode = IF @ = None THEN "prefer" ELSE @]
         /\ form'[p].remember <=> form'[p].password # ""
  <1>1. /\ work[p] # <<>> /\ Head(work[p]).op = "prefill"
        /\ work[p] \in Seq(WorkItem)
    BY ActingFacts DEF Prefill, Doing, ProcessSound
  <1>2. NoPassword(form[p])
    <2>1. work[p][1].op = "prefill" /\ 1 \in 1..Len(work[p])
      BY <1>1, HeadFacts
    <2>2. WorkOrder(work[p], dialog[p], form[p])
      BY ActingFacts DEF ProcessSound
    <2> QED
      BY <2>1, <2>2 DEF WorkOrder
  <1>3. form[p].password = "" /\ form[p].remember = FALSE
    BY <1>2 DEF NoPassword
  <1>4. PICK recents : recents = Load("recents")
    OBVIOUS
  <1>5. /\ recents \in Seq(RecentProfile)
        /\ recents = ideal["recents"]
        /\ lastConn = IF recents = <<>> THEN None ELSE recents[1]
    <2>1. "recents" \in Files
      BY DEF Files
    <2>2. IsListOf("recents", recents) /\ Same("recents", recents, ideal["recents"])
      BY <1>4, <2>1 DEF IInv, FilesInv, LostInv
    <2>3. recents = ideal["recents"]
      BY <2>2 DEF Same
    <2> QED
      BY <2>2, <2>3 DEF IInv, LastInv, IsListOf, EntryOf
  <1>6. CASE recents = <<>>
    <2>1. lastConn = None /\ form' = form
      BY <1>4, <1>5, <1>6 DEF Prefill
    <2> QED
      BY <1>3, <2>1
  <1>7. CASE recents # <<>>
    <2>1. PICK last : last = recents[1]
      OBVIOUS
    <2>2. last \in RecentProfile /\ lastConn = last
      BY <1>5, <1>7, <2>1, TailFacts
    <2>3. lastConn # None
      BY <2>2, StoresAssumption DEF RecentProfile
    <2>4. form[p].profiles # <<>> /\ form[p].profiles[1] = last
      <3>1. Load("profiles") \in Seq(SavedProfile)
        BY DEF IInv, FilesInv, IsListOf, EntryOf, Files
      <3>2. PICK S : S = RecentProfile \cup SavedProfile
        OBVIOUS
      <3>3. recents \in Seq(S) /\ Load("profiles") \in Seq(S)
        BY <1>5, <3>1, <3>2
      <3>4. PICK both : both = recents \o Load("profiles")
        OBVIOUS
      <3>5. /\ both \in Seq(S) /\ Len(both) = Len(recents) + Len(Load("profiles"))
            /\ \A i \in 1..Len(recents) : both[i] = recents[i]
        BY <3>3, <3>4, ConcatFacts
      <3>6. Len(recents) \in Nat \ {0} /\ Len(Load("profiles")) \in Nat
        BY <1>7, <3>3, TailFacts
      <3>7. both # <<>> /\ both[1] = last
        BY <2>1, <3>5, <3>6
      <3> QED
        BY <1>4, <3>4, <3>7
    <2>5. form'[p] = Applied(p, last)
      <3>1. form' = [form EXCEPT ![p] = Applied(p, last)]
        BY <1>4, <1>7, <2>4 DEF Prefill
      <3> QED
        BY <3>1, ActingFacts, OthersFacts
    <2>6. PICK kept \in BOOLEAN :
            kept = (last.engine = "Postgres" /\ creds[last.target] # None)
      OBVIOUS
    <2>7. PICK conn : conn = [engine |-> last.engine, target |-> last.target,
                              sslMode |-> IF last.sslMode = None THEN "prefer"
                                          ELSE last.sslMode]
      OBVIOUS
    <2>8. PICK password : password = IF kept THEN creds[last.target] ELSE ""
      OBVIOUS
    <2>9. form'[p] = [form[p] EXCEPT !.conn = conn, !.password = password, !.remember = kept]
      BY <2>5, <2>6, <2>7, <2>8 DEF Applied
    <2>10. form'[p].conn = conn /\ form'[p].password = password /\ form'[p].remember = kept
      <3>1. form[p] \in Form
        BY ActingFacts DEF ProcessSound
      <3> QED
        BY <2>9, <3>1 DEF Form
    <2>11. Profile(conn, None)
             = [last EXCEPT !.sslMode = IF last.sslMode = None THEN "prefer" ELSE last.sslMode]
      BY <2>2, <2>7 DEF Profile, RecentProfile, ProfilesOf
    <2>12. kept <=> password # ""
      <3>1. last.target \in Targets
        BY <2>2 DEF RecentProfile, ProfilesOf
      <3>2. creds[last.target] \in {None, "pw"}
        BY <3>1 DEF IInv, CountInv
      <3> QED
        BY <2>6, <2>8, <3>2
    <2> QED
      BY <2>2, <2>3, <2>10, <2>11, <2>12
  <1> QED
    BY <1>6, <1>7

\* The connection dialog opens on the connection that was made last.
THEOREM StoresOpensOnLast == Spec => OpensOnLastConnection
  <1> DEFINE Opens(p) ==
        /\ Doing(p, "prefill")
        /\ work'[p] = <<>> /\ dialog'[p] = "connect"
        /\ "recents" \notin disturbed /\ Settled("recents")
        /\ form[p].profiles = Load("recents") \o Load("profiles")
        => /\ lastConn = None => form'[p] = form[p]
           /\ lastConn # None =>
                Profile(form'[p].conn, None)
                  = [lastConn EXCEPT !.sslMode = IF @ = None THEN "prefer" ELSE @]
           /\ form'[p].remember <=> form'[p].password # ""
  <1>1. ASSUME IInv, Next, NEW p \in Processes PROVE Opens(p)
    <2> SUFFICES ASSUME Doing(p, "prefill"), work'[p] = <<>>, dialog'[p] = "connect"
                 PROVE  Prefill(p)
      BY PrefillStep, <1>1
    <2>1. PICK q \in Processes : Work(q) \/ Commands(q) \/ Crash(q)
      BY <1>1 DEF Next
    <2>2. work[p] # <<>> /\ Head(work[p]).op = "prefill" /\ stage[p] = "ready"
      BY <1>1, ActingFacts DEF Doing, Changes
    <2>3. q = p
      <3> SUFFICES ASSUME q # p PROVE work'[p] = work[p]
        BY <2>2
      <3>1. work = [s \in Processes |-> work[s]]
        BY <1>1, ActingFacts
      <3>2. CASE Work(q)
        BY <3>1, <3>2 DEF Work, LoadList, TruncateFile, WriteFile, ClearFile,
           TouchCredentials, Repopulate, Prefill, Done
      <3>3. CASE Commands(q)
        BY <3>1, <3>3 DEF Commands, Run, ShowList, CloseList, SaveSnippet, DeleteSnippet,
           ClearHistory, OpenConnect, ChooseProfile, Submit, CancelConnect, Connected,
           storeVars
      <3>4. CASE Crash(q)
        BY <3>1, <3>4 DEF Crash
      <3> QED
        BY <2>1, <3>2, <3>3, <3>4
    <2>4. ~Commands(p)
      BY <2>2 DEF Commands, Run, ShowList, CloseList, SaveSnippet, DeleteSnippet,
         ClearHistory, OpenConnect, ChooseProfile, Submit, CancelConnect, Connected,
         Command, Idle
    <2>5. ~Crash(p)
      <3>1. dialog = [s \in Processes |-> dialog[s]]
        BY <1>1, ActingFacts
      <3> QED
        BY <3>1 DEF Crash
    <2>6. Work(p)
      BY <2>1, <2>3, <2>4, <2>5
    <2> QED
      BY <2>2, <2>6 DEF Work, LoadList, TruncateFile, WriteFile, ClearFile,
         TouchCredentials, Repopulate, Doing, Changing, Changes
  <1>2. IInv /\ [Next]_vars => [\A p \in Processes : Opens(p)]_vars
    <2> HIDE DEF Opens
    <2> QED
      BY <1>1
  <1> QED
    BY <1>2, StoresInvariant, PTL DEF Spec, OpensOnLastConnection
=============================================================================
