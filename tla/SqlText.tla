------------------------------ MODULE SqlText ------------------------------
(***************************************************************************)
(* The pure functions of src/core over a text: the scanner that finds      *)
(* literals and comments for the editor's colours, the classifier that     *)
(* reads a statement's words outside them, and the provider's test for a   *)
(* comment.  A text is a sequence of units: a mark stands for itself, a    *)
(* word unit for a stretch of word characters.  Offsets count from 0, as   *)
(* in the code.                                                            *)
(***************************************************************************)
EXTENDS Integers, Sequences

CONSTANT Words    \* the word units

\* The double quote, the backquote and the brackets open nothing for src/core.
Marks == {"quote", "semi", "dash", "slash", "star", "dollar", "dot",
          "backslash", "curly", "emdash", "double", "curlydouble", "backquote",
          "bracket", "endbracket", "other", "newline", "space"}
Unit == Words \cup Marks

ASSUME WordsAssumption == Words \cap Marks = {}

Blank == {"newline", "space"}

\* The least member of a set of offsets, or e when it is empty.
Least(S, e) == IF S = {} THEN e ELSE CHOOSE x \in S : \A y \in S : x <= y

\* t without the blanks at its two ends.
Trim(t) ==
  LET solid == {n \in 1..Len(t) : t[n] \notin Blank}
  IN  IF solid = {} THEN <<>>
      ELSE SubSeq(t, CHOOSE a \in solid : \A n \in solid : a <= n,
                     CHOOSE b \in solid : \A n \in solid : b >= n)

\* The units a and b stand at offsets k and k + 1.
Looking(t, k, a, b) == k + 1 < Len(t) /\ t[k + 1] = a /\ t[k + 2] = b

\* The dollar tag that begins at offset k, or the empty sequence.
DollarTag(t, k) ==
  LET closers == {j \in k + 1..Len(t) - 1 :
                    /\ t[j + 1] = "dollar"
                    /\ \A n \in k + 1..j - 1 : t[n + 1] \in Words}
  IN  IF t[k + 1] = "dollar" /\ closers # {}
      THEN SubSeq(t, k + 1, (CHOOSE j \in closers : TRUE) + 1)
      ELSE <<>>

-----------------------------------------------------------------------------
\* What begins at offset k of code that is in no literal.
Opener(t, k) ==
  CASE Looking(t, k, "dash", "dash") -> "line"
    [] Looking(t, k, "slash", "star") -> "block"
    [] t[k + 1] = "quote" -> "single"
    [] DollarTag(t, k) # <<>> -> "dollar"
    [] OTHER -> "code"

LineEnd(t, k) == Least({j \in k..Len(t) - 1 : t[j + 1] = "newline"}, Len(t))

BlockEnd(t, k) ==
  Least({j + 2 : j \in {n \in k..Len(t) - 2 : Looking(t, n, "star", "slash")}},
        Len(t))

\* A doubled quote does not end a string.
QuoteEnd(t, k) ==
  LET from[j \in 0..Len(t)] ==
        IF j = Len(t) THEN Len(t)
        ELSE IF t[j + 1] # "quote" THEN from[j + 1]
        ELSE IF Looking(t, j, "quote", "quote") THEN from[j + 2]
        ELSE j + 1
  IN  from[k]

DollarEnd(t, k) ==
  LET open == DollarTag(t, k)
  IN  Least({j + Len(open) :
               j \in {n \in k + Len(open)..Len(t) - 1 : DollarTag(t, n) = open}},
            Len(t))

\* Where the literal at offset k ends.  A block comment's closer is looked for
\* from offset k + skip.
LiteralEnd(t, k, skip) ==
  CASE Opener(t, k) = "line" -> LineEnd(t, k)
    [] Opener(t, k) = "block" -> BlockEnd(t, k + skip)
    [] Opener(t, k) = "single" -> QuoteEnd(t, k + 1)
    [] Opener(t, k) = "dollar" -> DollarEnd(t, k)

\* The literals and comments of t.
Literals(t, skip) ==
  LET from[k \in 0..Len(t)] ==
        IF k = Len(t) THEN {}
        ELSE IF Opener(t, k) = "code" THEN from[k + 1]
        ELSE LET e == LiteralEnd(t, k, skip)
             IN  {[location |-> k, end |-> e,
                   isComment |-> Opener(t, k) \in {"line", "block"}]} \cup from[e]
  IN  from[0]

\* The scanner steps over both units of an opening slash and star, the
\* classifier over the slash alone.
literalAndCommentRanges(t) == Literals(t, 2)

\* The offsets of t outside the given literals.
Outside(t, literals) ==
  {k \in 0..Len(t) - 1 : \A r \in literals : k < r.location \/ k >= r.end}

\* t with every literal and comment blanked.
strippedUppercasedCode(t) ==
  LET code == Outside(t, Literals(t, 1))
  IN  [n \in 1..Len(t) |-> IF n - 1 \in code THEN t[n] ELSE "space"]

\* The maximal runs of word units of t, as pairs of positions.
WordRuns(t) ==
  {r \in (1..Len(t)) \X (1..Len(t)) :
     /\ r[1] <= r[2]
     /\ \A n \in r[1]..r[2] : t[n] \in Words
     /\ r[1] > 1 => t[r[1] - 1] \notin Words
     /\ r[2] < Len(t) => t[r[2] + 1] \notin Words}

\* w is one of t's words.  A keyword is a run of one unit: a longer run is a
\* longer word.
HasWord(t, w) == \E r \in WordRuns(t) : r[1] = r[2] /\ t[r[1]] = w

-----------------------------------------------------------------------------
ReadKeywords == {"SELECT", "PRAGMA", "SHOW"}
DataModifying == {"DELETE", "UPDATE", "INSERT"}
WriteKeywords == DataModifying \cup {"DROP", "TRUNCATE", "CREATE"}

\* The first word of blanked code, or "", which is no keyword, when there is none
\* or it is longer than one unit.
LeadingKeyword(code) ==
  LET runs == WordRuns(code)
  IN  IF \E r \in runs : r[1] = r[2] /\ \A q \in runs : r[1] <= q[1]
      THEN code[CHOOSE n \in {r[1] : r \in runs} : \A q \in runs : n <= q[1]]
      ELSE ""

Kind(first, code) ==
  IF \/ first \in WriteKeywords
     \/ first = "WITH" /\ \E w \in DataModifying : HasWord(code, w)
     \/ first = "EXPLAIN" /\ HasWord(code, "ANALYZE")
  THEN "Write"
  ELSE IF first \in ReadKeywords \cup {"WITH", "EXPLAIN"} THEN "Read" ELSE "Neutral"

IsDestructive(first, code) ==
  \/ first \in {"DROP", "TRUNCATE"}
  \/ first \in {"DELETE", "UPDATE"} /\ ~HasWord(code, "WHERE")

\* The classifier's verdict on one statement.
classify(t) ==
  LET code == strippedUppercasedCode(t)
      first == LeadingKeyword(code)
  IN  [leadingKeyword |-> first, kind |-> Kind(first, code),
       isDestructive |-> IsDestructive(first, code)]

Keywords == ReadKeywords \cup WriteKeywords \cup {"WITH", "EXPLAIN", "WHERE"}

\* The keywords the editor colours: word runs that no literal overlaps.
KeywordSpans(t) ==
  {r \in WordRuns(t) :
     /\ r[1] = r[2] /\ t[r[1]] \in Keywords
     /\ \A l \in literalAndCommentRanges(t) : r[1] - 1 >= l.end \/ l.location >= r[2]}

\* Every line of t is blank or begins with two dashes.
isCommentOnly(t) ==
  LET breaks == {0, Len(t) + 1} \cup {n \in 1..Len(t) : t[n] = "newline"}
      Line(a, b) == Trim(SubSeq(t, a + 1, b - 1))
  IN  \A a, b \in breaks :
        (a < b /\ \A c \in breaks : c <= a \/ c >= b) =>
          Line(a, b) = <<>> \/ Looking(Line(a, b), 0, "dash", "dash")
=============================================================================
