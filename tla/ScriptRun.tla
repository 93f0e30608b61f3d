----------------------------- MODULE ScriptRun -----------------------------
(***************************************************************************)
(* One run command, from the editor's text to the result: doRunWhole and   *)
(* doRunStatement, runText, handleDotCommand, guardAndRun and the execute  *)
(* of the provider.  The text is split once to find the statement under    *)
(* the cursor, once more for each text the guard classifies, and again by  *)
(* the PostgreSQL provider; SQLite finds its own statements.  Each of      *)
(* these is a call of SqlSplitter's loop, and pc says who made it.         *)
(***************************************************************************)
EXTENDS SqlSplitter, ServerText

CONSTANT Texts    \* what the editor may hold

ASSUME TextsAssumption == Texts \subseteq Seq(Unit)

\* The words of the dot commands' own statements.
ASSUME CommandWordsAssumption == {"SELECT", "WHERE"} \subseteq Words

VARIABLES
  pc,         \* how far the command has come
  engine,     \* currentEngine
  readOnly,
  editor,     \* the editor's text
  picked,     \* history: the batch is the statement under the cursor, as it was cut
  batch,      \* the statements given to guardAndRun
  guarded,    \* the statements evaluateGuard has classified
  turn,       \* how many texts of the batch have been classified
  script,     \* the statements the provider will execute
  outcomes,   \* what came of those it has executed
  shown,      \* the statement whose columns and rows the result holds, or 0
  result      \* the result's statementType, or "none"

runVars == <<pc, engine, readOnly, editor, picked, batch, guarded, turn, script,
             outcomes, shown, result>>
vars == <<splitVars, runVars>>

\* What a command can come to.
Ends == {"ignored", "message", "cleared", "reconnecting", "blocked", "declined",
         "done"}
Points == Ends \cup {"editing", "at_cursor", "guard", "confirm", "provider", "execute"}

-----------------------------------------------------------------------------
\* Curly quotes and long dashes become the marks they look like.
normalizeSmartCharacters(t) ==
  LET s == Trim(t)
  IN  [n \in 1..Len(s) |-> CASE s[n] = "curly" -> "quote"
                             [] s[n] = "curlydouble" -> "double"
                             [] s[n] = "emdash" -> "dash"
                             [] OTHER -> s[n]]

\* The commands that look at no argument, those that may have one, and those
\* that ask for one.
PlainCommands == {"tables", "views", "size", "encoding"}
OptionalArgument == {"indexes", "schema"}
LiteralArgument == {"columns", "fk", "foreignkeys"}
NameArgument == {"count", "first", "last"}
PostgresLists == {"schemas", "databases"}
Switches == {"connect", "use"}

Select == <<"SELECT", "other", "semi">>
SelectWhere(arg) == <<"SELECT", "WHERE", "quote">> \o arg \o <<"quote", "semi">>
SelectFrom(arg) == <<"SELECT", "double">> \o arg \o <<"double", "semi">>

\* handleDotCommand on a text that begins with a dot: the command's word, what
\* follows the blanks after it, and what is to be done.
handleDotCommand(t, e) ==
  LET stop == Least({n \in 1..Len(t) : t[n] \in Blank}, Len(t) + 1)
      command == IF stop = 3 THEN t[2] ELSE ""
      arg == Trim(SubSeq(t, stop, Len(t)))
      sql1(s) == [kind |-> "sql", statements |-> <<s>>]
      multi(n) == [kind |-> "sql", statements |-> [m \in 1..n |-> Select]]
      other(k) == [kind |-> k, statements |-> <<>>]
  IN  CASE command \in PlainCommands -> sql1(Select)
        [] command \in OptionalArgument ->
             sql1(IF arg = <<>> THEN Select ELSE SelectWhere(arg))
        [] command \in LiteralArgument /\ arg # <<>> -> sql1(SelectWhere(arg))
        [] command \in NameArgument /\ arg # <<>> -> sql1(SelectFrom(arg))
        [] command = "dbinfo" -> multi(IF e = "Postgres" THEN 3 ELSE 4)
        [] command \in PostgresLists /\ e = "Postgres" -> sql1(Select)
        [] command = "journal" /\ e = "Sqlite" -> sql1(Select)
        [] command \in Switches /\ e = "Postgres" /\ arg # <<>> -> other("reconnecting")
        [] command = "clear" -> other("cleared")
        [] OTHER -> other("message")

\* The statements of a batch, one to a line.
Joined(statements) ==
  LET upTo[n \in 0..Len(statements)] ==
        IF n = 0 THEN <<>>
        ELSE IF n = 1 THEN statements[1]
        ELSE upTo[n - 1] \o <<"newline">> \o statements[n]
  IN  upTo[Len(statements)]

-----------------------------------------------------------------------------
Init ==
  /\ sql = <<>> /\ i = 0 /\ mode = "code" /\ dollarTag = <<>>
  /\ segmentStart = 0 /\ segs = <<>> /\ scanning = FALSE /\ plain = {}
  /\ pc = "editing"
  /\ engine \in Engines
  /\ readOnly \in BOOLEAN
  /\ editor \in Texts
  /\ picked = FALSE
  /\ batch = <<>> /\ guarded = <<>> /\ turn = 0
  /\ script = <<>> /\ outcomes = <<>> /\ shown = 0
  /\ result = "none"

\* guardAndRun(statements): its first text is split.
GuardAndRun(statements) ==
  /\ batch' = statements
  /\ Call(statements[1])
  /\ pc' = "guard"

\* runText(text) while connected and idle.
runText(text) ==
  LET input == normalizeSmartCharacters(text)
      dot == handleDotCommand(input, engine)
  IN  /\ \/ /\ input = <<>>
            /\ pc' = "ignored"
            /\ UNCHANGED <<splitVars, batch>>
         \/ /\ input # <<>> /\ input[1] # "dot"
            /\ GuardAndRun(<<input>>)
         \/ /\ input # <<>> /\ input[1] = "dot" /\ dot.kind = "sql"
            /\ GuardAndRun(dot.statements)
         \/ /\ input # <<>> /\ input[1] = "dot" /\ dot.kind # "sql"
            /\ pc' = dot.kind
            /\ UNCHANGED <<splitVars, batch>>
      /\ UNCHANGED <<engine, readOnly, editor, guarded, turn, script, outcomes,
                     shown, result>>

doRunWhole ==
  /\ pc = "editing"
  /\ runText(editor)
  /\ UNCHANGED picked

doRunStatement ==
  /\ pc = "editing"
  /\ Call(editor)
  /\ pc' = "at_cursor"
  /\ UNCHANGED <<engine, readOnly, editor, picked, batch, guarded, turn, script,
                 outcomes, shown, result>>

\* statementAtOffset has its segments: without a statement there the whole text
\* is run.
RunAtCursor ==
  /\ pc = "at_cursor"
  /\ ~scanning
  /\ \E statement \in {statementAtOffset(cursor) : cursor \in 0..Len(editor)} :
       /\ runText(IF statement # <<>> THEN statement ELSE editor)
       /\ picked' = (batch' = <<statement>>)

\* evaluateGuard goes on to the next text.
ClassifyNext ==
  /\ pc = "guard"
  /\ ~scanning
  /\ turn + 1 < Len(batch)
  /\ guarded' = guarded \o Statements
  /\ turn' = turn + 1
  /\ Call(batch[turn + 2])
  /\ UNCHANGED <<pc, engine, readOnly, editor, picked, batch, script, outcomes,
                 shown, result>>

\* Mutant of Infos: only the first statement is judged.
InfosFirst(statements) == IF statements = <<>> THEN {} ELSE {classify(statements[1])}

\* What classifyAll says of the statements, and what evaluateGuard asks of that.
Infos(statements) == {classify(statements[n]) : n \in 1..Len(statements)}
AnyWrite(statements) == \E info \in Infos(statements) : info.kind = "Write"
AnyDestructive(statements) == \E info \in Infos(statements) : info.isDestructive

\* The batch goes to the session as one script, which PostgresProvider splits.
StartExecute ==
  /\ pc' = "provider"
  /\ IF engine = "Postgres" THEN Call(Joined(batch)) ELSE UNCHANGED splitVars

\* evaluateGuard decides once every text is classified.
Decide ==
  /\ pc = "guard"
  /\ ~scanning
  /\ turn + 1 = Len(batch)
  /\ guarded' = guarded \o Statements
  /\ turn' = turn + 1
  /\ \/ /\ readOnly /\ AnyWrite(guarded')
        /\ pc' = "blocked"
        /\ UNCHANGED splitVars
     \/ /\ ~(readOnly /\ AnyWrite(guarded'))
        /\ AnyDestructive(guarded')
        /\ pc' = "confirm"
        /\ UNCHANGED splitVars
     \/ /\ ~(readOnly /\ AnyWrite(guarded'))
        /\ ~AnyDestructive(guarded')
        /\ StartExecute
  /\ UNCHANGED <<engine, readOnly, editor, picked, batch, script, outcomes, shown,
                 result>>

\* The user answers the question about destructive statements.
Answer ==
  /\ pc = "confirm"
  /\ \/ StartExecute
     \/ pc' = "declined" /\ UNCHANGED splitVars
  /\ UNCHANGED <<engine, readOnly, editor, picked, batch, guarded, turn, script,
                 outcomes, shown, result>>

-----------------------------------------------------------------------------
\* The statements PostgresProvider sends: no meta-commands, no bare comments.
Sent(s) == s[1] # "backslash" /\ ~isCommentOnly(s)
PostgresScript == Without(Statements, {s \in EntriesOf(Statements) : ~Sent(s)})

\* execute() begins on its statements.  (SqliteProvider finds each as it goes.)
Begin ==
  /\ pc = "provider"
  /\ ~scanning
  /\ pc' = "execute"
  /\ script' = IF engine = "Postgres" THEN PostgresScript
               ELSE ServerStatements("Sqlite", Joined(batch))
  /\ UNCHANGED <<splitVars, engine, readOnly, editor, picked, batch, guarded, turn,
                 outcomes, shown, result>>

\* Mutant of Executed: the script goes on after an error.
ExecutedGoesOn(o, s) ==
  /\ outcomes' = Append(outcomes, o)
  /\ shown' = s
  /\ UNCHANGED <<pc, result, splitVars, engine, readOnly, editor, picked, batch, guarded,
                 turn, script>>

\* The next statement comes to o; what it leaves in the result is s.
Executed(o, s) ==
  /\ outcomes' = Append(outcomes, o)
  /\ shown' = s
  /\ IF o = "error" THEN pc' = "done" /\ result' = "Error" ELSE UNCHANGED <<pc, result>>
  /\ UNCHANGED <<splitVars, engine, readOnly, editor, picked, batch, guarded, turn,
                 script>>

AtStatement(e) == pc = "execute" /\ engine = e /\ Len(outcomes) < Len(script)
This == Len(outcomes) + 1

\* PQexec answers with rows, with a command tag or with an error.
PostgresStatement ==
  /\ AtStatement("Postgres")
  /\ \/ Executed("rows", This)
     \/ Executed("command", shown)
     \/ Executed("error", shown)

\* A statement SQLite cannot prepare leaves the result alone; one with columns
\* clears it and then adds rows, until it ends or fails.
SqliteStatement ==
  /\ AtStatement("Sqlite")
  /\ \/ Executed("error", shown)
     \/ \E ok \in BOOLEAN, columns \in BOOLEAN :
          Executed(IF ~ok THEN "error" ELSE IF columns THEN "rows" ELSE "command",
                   IF columns THEN This ELSE shown)

\* The result of a script that ran to its end is named after its last statement.
Finish ==
  /\ pc = "execute"
  /\ Len(outcomes) = Len(script)
  /\ pc' = "done"
  /\ result' = IF outcomes # <<>> /\ outcomes[Len(outcomes)] = "rows"
               THEN "Query" ELSE "Mutation"
  /\ UNCHANGED <<splitVars, engine, readOnly, editor, picked, batch, guarded, turn,
                 script, outcomes, shown>>

Next ==
  \/ doRunWhole \/ doRunStatement \/ RunAtCursor
  \/ ClassifyNext \/ Decide \/ Answer \/ Begin
  \/ PostgresStatement \/ SqliteStatement \/ Finish
  \/ Split /\ UNCHANGED runVars

Spec == Init /\ [][Next]_vars

-----------------------------------------------------------------------------
TypeOK ==
  /\ sql \in Seq(Unit)
  /\ i \in 0..Len(sql)
  /\ mode \in Modes
  /\ dollarTag \in Seq(Unit)
  /\ segmentStart \in Nat
  /\ segs \in Seq(Segment)
  /\ scanning \in BOOLEAN
  /\ plain \subseteq Nat
  /\ pc \in Points
  /\ engine \in Engines
  /\ readOnly \in BOOLEAN
  /\ editor \in Seq(Unit)
  /\ picked \in BOOLEAN
  /\ batch \in Seq(Seq(Unit))
  /\ guarded \in Seq(Seq(Unit))
  /\ turn \in 0..Len(batch)
  /\ script \in Seq(Seq(Unit))
  /\ outcomes \in Seq({"rows", "command", "error"})
  /\ shown \in 0..Len(outcomes)
  /\ result \in {"none", "Query", "Mutation", "Error"}

\* A slash, a star and a slash: the scanner reads an opener and goes on, the
\* splitter and the classifier a whole comment.
Overlapping(t) ==
  \E k \in 0..Len(t) - 1 : Looking(t, k, "slash", "star") /\ Looking(t, k + 1, "star", "slash")

\* What the splitter read as code between two offsets.
AsRead(from, to) ==
  [m \in 1..to - from |-> IF from + m - 1 \in plain THEN sql[from + m] ELSE "space"]

\* Three scanners written apart agree on what is code.  What the classifier
\* reads of a statement taken by itself is what the splitter read as code when
\* it met the statement in its text, so that no word the guard judges by comes
\* from a string or a comment; and the editor colours as keywords what the
\* classifier reads.  (Texts where the scanner's block comment begins otherwise
\* are left out of the second part.)
LexersAgree ==
  ~scanning /\ segs # <<>> =>
    /\ \A n \in 1..Len(segs) :
         WordRuns(strippedUppercasedCode(Source(segs[n])))
           = WordRuns(AsRead(segs[n].start, segs[n].end))
    /\ ~Overlapping(sql) =>
         LET words == WordRuns(AsRead(0, Len(sql)))
         IN  KeywordSpans(sql) =
               {r \in words : r[1] = r[2] /\ sql[r[1]] \in Keywords}

\* The statements the engine makes of what it is handed: SQLite finds its own in
\* the joined batch, PostgreSQL in each string given to PQexec.
Received ==
  IF engine = "Sqlite" THEN EntriesOf(script)
  ELSE UNION {EntriesOf(ServerStatements("Postgres", s)) : s \in EntriesOf(script)}

\* If the engine reads what it is handed as src/core does, it runs what the guard
\* has judged, in the same order and cut the same way, and in read-only mode none
\* of it writes.  (Where it does not: an apostrophe, a semicolon or a comment's
\* delimiter in a quoted name, a dollar quote on SQLite, a dollar sign in a name
\* or after a digit, an E string with a backslash, a comment that nests or
\* overlaps its own opener.)
GuardSawAll ==
  LET handed == IF engine = "Sqlite" THEN {Joined(batch)} ELSE EntriesOf(script)
      unsent == {s \in EntriesOf(guarded) : IF engine = "Sqlite" THEN Solid(s, Literals(s, 1)) = {}
                                            ELSE ~Sent(s)}
  IN  pc \in {"execute", "done"} /\ (\A t \in handed : Alike(engine, t)) =>
        /\ script = Without(guarded, unsent)
        /\ Received \subseteq EntriesOf(script)
        /\ readOnly => \A s \in Received : classify(s).kind # "Write"

\* "Read-only mode is on ... is blocked" (TerminalLogic.cpp:93-95): nothing the
\* engine is made to run in read-only mode is a write, whatever the text.
ReadOnlyRunsNoWrite ==
  pc \in {"execute", "done"} /\ readOnly =>
    \A s \in Received : classify(s).kind # "Write"

\* Running the statement under the cursor runs one statement and no more: cut
\* out of its text and cut again, it is whole.  (A dot command is run as its own
\* statements, and a statement with typographic quotes or dashes is cut before
\* they are replaced and may fall apart afterwards.)
PickedIsOne ==
  picked =>
    /\ Len(guarded) <= 1
    /\ engine = "Postgres" => Len(script) <= 1

\* A script stops at the statement that fails, and its result tells of it: it is
\* an error exactly then, a result without error has run every statement, and
\* the rows shown are those of the last statement that had any.
ResultTellsTruth ==
  LET ran == Len(outcomes)
      failed == \E n \in 1..ran : outcomes[n] = "error"
      withRows == {n \in 1..ran : outcomes[n] = "rows"}
  IN  pc = "done" =>
        /\ failed <=> result = "Error"
        /\ failed => outcomes[ran] = "error"
        /\ \A n \in 1..ran - 1 : outcomes[n] # "error"
        /\ ~failed => ran = Len(script)
        /\ result = "Query" => ran \in withRows
        /\ \/ shown = IF withRows = {} THEN 0
                       ELSE CHOOSE n \in withRows : \A o \in withRows : o <= n
           \/ failed /\ engine = "Sqlite" /\ shown = ran
=============================================================================
