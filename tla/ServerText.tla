----------------------------- MODULE ServerText -----------------------------
(***************************************************************************)
(* How the two database engines read a text of SQL (external: sqlite3's    *)
(* tokenizer below sqlite3_prepare_v2, and PostgreSQL's lexer below        *)
(* PQexec), and the statements they make of it.  They know what src/core   *)
(* does not: quoted names, SQLite also in backquotes and brackets, and     *)
(* PostgreSQL also nested comments, E strings with backslashes, and        *)
(* identifiers with dollar signs in them.  SQLite knows no dollar quotes.  *)
(*                                                                         *)
(* Strings have standard_conforming_strings on.  Left out are the          *)
(* statements that hold others between semicolons of their own.            *)
(***************************************************************************)
EXTENDS SqlText

ASSUME NestedStatementsAssumption == {"TRIGGER", "ATOMIC", "RULE"} \cap Words = {}

Engines == {"Sqlite", "Postgres"}

\* What opens a quoted name.  (A bracket is closed by another mark.)
NameMarks(e) == IF e = "Sqlite" THEN {"double", "backquote", "bracket"} ELSE {"double"}

\* A doubled mark ends one name here and begins another: the same units are read.
NameEnd(t, k) ==
  LET closer == IF t[k + 1] = "bracket" THEN "endbracket" ELSE t[k + 1]
  IN  Least({j + 1 : j \in {n \in k + 1..Len(t) - 1 : t[n + 1] = closer}}, Len(t))

\* In an E string a backslash takes the unit after it along.
Escapes(e, t, k) == e = "Postgres" /\ Looking(t, k, "E", "quote")

EscapeEnd(t, k) ==
  LET from[j \in 0..Len(t) + 1] ==
        IF j >= Len(t) THEN Len(t)
        ELSE IF t[j + 1] = "backslash" \/ Looking(t, j, "quote", "quote") THEN from[j + 2]
        ELSE IF t[j + 1] = "quote" THEN j + 1
        ELSE from[j + 1]
  IN  from[k]

\* The end of a comment that holds d more opened inside it.
NestedEnd(t, k, d) ==
  LET from[j \in 0..Len(t), open \in 0..Len(t)] ==
        IF j = Len(t) THEN Len(t)
        ELSE IF Looking(t, j, "slash", "star") THEN from[j + 2, open + 1]
        ELSE IF ~Looking(t, j, "star", "slash") THEN from[j + 1, open]
        ELSE IF open = 0 THEN j + 2
        ELSE from[j + 2, open - 1]
  IN  from[k, d]

\* An identifier or keyword; it does not begin with a digit.
WordEnd(t, k) ==
  Least({n \in k + 1..Len(t) - 1 : t[n + 1] \notin Words \cup {"dollar"}}, Len(t))

-----------------------------------------------------------------------------
\* What stands at offset k, where the engine's lexer begins on a new token.
\* ("1" is a word unit that begins with a digit.)
ServerOpener(e, t, k) ==
  LET open == Opener(t, k)
  IN  IF open \in {"line", "single"} THEN open
      ELSE IF open = "block" /\ (e = "Postgres" \/ k + 2 < Len(t)) THEN "block"
      ELSE IF open = "dollar" /\ e = "Postgres" /\ t[k + 2] # "1" THEN "dollar"
      ELSE IF t[k + 1] \in NameMarks(e) THEN "name"
      ELSE IF Escapes(e, t, k) THEN "escape"
      ELSE IF t[k + 1] \in Words \ {"1"} THEN "word"
      ELSE "code"

ServerEnd(e, t, k) ==
  LET open == ServerOpener(e, t, k)
  IN  CASE open \in {"line", "single", "dollar"} -> LiteralEnd(t, k, 2)
        [] open = "block" -> IF e = "Sqlite" THEN BlockEnd(t, k + 2) ELSE NestedEnd(t, k + 2, 0)
        [] open = "name" -> NameEnd(t, k)
        [] open = "escape" -> EscapeEnd(t, k + 2)
        [] open = "word" -> WordEnd(t, k)
        [] open = "code" -> k + 1

ServerTokens(e, t) ==
  LET from[k \in 0..Len(t)] ==
        IF k = Len(t) THEN {}
        ELSE {[kind |-> ServerOpener(e, t, k), location |-> k, end |-> ServerEnd(e, t, k)]}
               \cup from[ServerEnd(e, t, k)]
  IN  from[0]

\* The strings and comments among them, as SqlText has them.  (The E is a word of
\* the code before its string.)
ServerLiterals(e, t) ==
  {[location |-> IF x.kind = "escape" THEN x.location + 1 ELSE x.location,
    end |-> x.end, isComment |-> x.kind \in {"line", "block"}] :
     x \in {y \in ServerTokens(e, t) :
              y.kind \in {"line", "block", "single", "dollar", "escape"}}}

ServerNames(e, t) == {x \in ServerTokens(e, t) : x.kind = "name"}

-----------------------------------------------------------------------------
\* The units of t that are part of a token, comments apart.
Solid(t, literals) ==
  {k \in Outside(t, {l \in literals : l.isComment}) : t[k + 1] \notin Blank \cup {"semi"}}

\* t cut after the given offsets, without what holds no token.
CutAt(t, ends, solid) ==
  LET from[k \in 0..Len(t)] ==
        IF k = Len(t) THEN <<>>
        ELSE LET e == Least({n \in ends : n >= k}, Len(t) - 1)
             IN  IF \E n \in solid : k <= n /\ n <= e
                 THEN <<Trim(SubSeq(t, k + 1, e + 1))>> \o from[e + 1]
                 ELSE from[e + 1]
  IN  from[0]

\* A semicolon ends a statement unless it is in a string, comment or quoted name;
\* what holds no token is passed over.
ServerStatements(e, t) ==
  LET literals == ServerLiterals(e, t)
      ends == {k \in Outside(t, literals \cup ServerNames(e, t)) : t[k + 1] = "semi"}
  IN  CutAt(t, ends, Solid(t, literals))

\* The engine finds in t the strings and comments that src/core finds, and no
\* semicolon in a quoted name.
Alike(e, t) ==
  /\ ServerLiterals(e, t) = Literals(t, 1)
  /\ \A k \in 0..Len(t) - 1 : t[k + 1] = "semi" => k \in Outside(t, ServerNames(e, t))
=============================================================================
