-------------------------- MODULE ScriptRun_proofs --------------------------
(***************************************************************************)
(* Proofs about SqlSplitter and ScriptRun for every text: what the         *)
(* segments of a split cover and where they are cut, in one call alone and *)
(* in every call of a command; what a result says of the statements run    *)
(* for it; that a statement cut out of its text is whole; that what is run *)
(* is what the guard has judged; and that all readers of a text agree.     *)
(***************************************************************************)
EXTENDS ScriptRun, SequenceLemmas

-----------------------------------------------------------------------------
(* One split.                                                              *)

SplitTypeOK ==
  /\ sql \in Seq(Unit)
  /\ i \in Nat
  /\ segmentStart \in Nat
  /\ segs \in Seq(Segment)
  /\ scanning \in BOOLEAN
  /\ plain \subseteq Nat

\* The reader never passes the end of the text, and what it has emitted never
\* passes the reader.
InBounds == i <= Len(sql) /\ segmentStart <= i

SplitInv == SplitTypeOK /\ InBounds /\ Partition

\* A dollar tag lies within its text and is not empty.
LEMMA TagInText ==
  ASSUME NEW t \in Seq(Unit), NEW k \in Nat, k < Len(t), DollarTag(t, k) # <<>>
  PROVE  /\ Len(DollarTag(t, k)) \in Nat
         /\ k + Len(DollarTag(t, k)) <= Len(t)
  <1> DEFINE closers == {j \in k + 1..Len(t) - 1 :
                           /\ t[j + 1] = "dollar"
                           /\ \A n \in k + 1..j - 1 : t[n + 1] \in Words}
             c == CHOOSE j \in closers : TRUE
  <1>1. closers # {} /\ DollarTag(t, k) = SubSeq(t, k + 1, c + 1)
    BY DEF DollarTag
  <1>2. c \in closers
    BY <1>1
  <1>3. c \in k + 1..Len(t) - 1
    BY <1>2
  <1> HIDE DEF closers, c
  <1>4. Len(SubSeq(t, k + 1, c + 1)) = c + 1 - k
    BY <1>3, SMT
  <1> QED
    BY <1>1, <1>3, <1>4

-----------------------------------------------------------------------------
\* Reading within a segment keeps the invariant, whatever the mode becomes and
\* whether or not the unit read was code, unless it was a semicolon in code.
LEMMA ReadKeepsInvariant ==
  ASSUME SplitInv, More, NEW n \in Nat, NEW m, Read(n, m), i + n <= Len(sql),
         plain' = plain \/ (plain' = plain \cup {i} /\ sql[i + 1] # "semi")
  PROVE  SplitInv'
  <1>1. SplitTypeOK'
    <2>1. SplitTypeOK
      BY DEF SplitInv
    <2>2. plain' \subseteq Nat
      BY <2>1 DEF SplitTypeOK
    <2>3. i' \in Nat
      BY <2>1 DEF SplitTypeOK, Read
    <2> QED
      BY <2>1, <2>2, <2>3 DEF SplitTypeOK, Read
  <1>2. InBounds'
    BY DEF SplitInv, SplitTypeOK, InBounds, Read
  <1>3. Tiled' /\ Cuts' = Cuts
    BY DEF SplitInv, Partition, Tiled, Cuts, Read
  <1>4. {k + 1 : k \in {o \in plain : sql[o + 1] = "semi"}}'
          = {k + 1 : k \in {o \in plain : sql[o + 1] = "semi"}}
    BY DEF Read
  <1>5. (segs # <<>> /\ ~scanning => segmentStart = Len(sql))'
    BY DEF Read, More
  <1> QED
    BY <1>1, <1>2, <1>3, <1>4, <1>5 DEF SplitInv, Partition

\* A segment that begins where the last one ended and ends at e continues the
\* tiling.
LEMMA EmitTiles ==
  ASSUME SplitTypeOK, Tiled, NEW e \in Nat, segmentStart <= e, Emit(e)
  PROVE  /\ Tiled'
         /\ segs' \in Seq(Segment)
         /\ Len(segs') = Len(segs) + 1
         /\ segs'[Len(segs) + 1].end = e
         /\ \A n \in 1..Len(segs) : segs'[n] = segs[n]
  <1> DEFINE new == [start |-> segmentStart, end |-> e]
  <1>1. new \in Segment
    BY DEF SplitTypeOK, Segment
  <1>2. /\ segs' = Append(segs, new)
        /\ segmentStart' = e
    BY DEF Emit
  <1>3. /\ segs \in Seq(Segment)
        /\ Len(segs) \in Nat
    BY DEF SplitTypeOK
  <1>4. /\ segs' \in Seq(Segment)
        /\ Len(segs') = Len(segs) + 1
        /\ segs'[Len(segs) + 1] = new
        /\ \A n \in 1..Len(segs) : segs'[n] = segs[n]
    BY <1>1, <1>2, <1>3
  <1>5. \A n \in 1..Len(segs') :
          /\ segs'[n].start <= segs'[n].end
          /\ segs'[n].start = IF n = 1 THEN 0 ELSE segs'[n - 1].end
    <2> TAKE n \in 1..Len(segs')
    <2>1. CASE n \in 1..Len(segs)
      BY <2>1, <1>3, <1>4 DEF Tiled
    <2>2. CASE n = Len(segs) + 1
      <3>1. segs'[n] = new
        BY <2>2, <1>4
      <3>2. CASE Len(segs) = 0
        <4>1. segs = <<>>
          BY <3>2, <1>3
        <4> QED
          BY <4>1, <2>2, <3>1, <3>2 DEF Tiled
      <3>3. CASE Len(segs) > 0
        <4>1. segs # <<>> /\ n # 1 /\ n - 1 = Len(segs) /\ n - 1 \in 1..Len(segs)
          BY <3>3, <2>2, <1>3
        <4> QED
          BY <4>1, <3>1, <1>4 DEF Tiled
      <3> QED
        BY <3>2, <3>3, <1>3
    <2> QED
      BY <2>1, <2>2, <1>3, <1>4
  <1>6. segmentStart' = IF segs' = <<>> THEN 0 ELSE segs'[Len(segs')].end
    BY <1>2, <1>3, <1>4
  <1> QED
    BY <1>4, <1>5, <1>6 DEF Tiled

-----------------------------------------------------------------------------
\* The invariant holds when segments() begins.
LEMMA InitInvariant == SplitInit => SplitInv
  BY DEF SplitInit, SplitInv, SplitTypeOK, InBounds, Partition, Tiled, Cuts, Segment

LEMMA SemicolonKeepsInvariant == SplitInv /\ Semicolon => SplitInv'
  <1> SUFFICES ASSUME SplitInv, Semicolon PROVE SplitInv'
    OBVIOUS
  <1>1. /\ i \in Nat /\ i < Len(sql) /\ Len(sql) \in Nat
        /\ scanning /\ segmentStart <= i /\ segmentStart \in Nat
    BY DEF SplitInv, SplitTypeOK, InBounds, Semicolon, AtCode, More
  <1>2. /\ Emit(i + 1) /\ i' = i + 1 /\ plain' = plain \cup {i}
        /\ sql' = sql /\ scanning' = scanning /\ sql[i + 1] = "semi"
    BY DEF Semicolon
  <1>3. /\ Tiled'
        /\ segs' \in Seq(Segment)
        /\ Len(segs') = Len(segs) + 1
        /\ segs'[Len(segs) + 1].end = i + 1
        /\ \A n \in 1..Len(segs) : segs'[n] = segs[n]
    BY <1>1, <1>2, EmitTiles DEF SplitInv, Partition
  <1>4. Len(segs) \in Nat
    BY DEF SplitInv, SplitTypeOK
  <1>5. Cuts' = Cuts \cup {i + 1}
    <2>1. Cuts = {segs[n].end : n \in 1..Len(segs)}
      BY <1>1 DEF Cuts
    <2>2. Cuts' = {segs'[n].end : n \in 1..Len(segs) + 1}
      BY <1>1, <1>2, <1>3 DEF Cuts
    <2>3. 1..Len(segs) + 1 = (1..Len(segs)) \cup {Len(segs) + 1}
      BY <1>4
    <2> QED
      BY <2>1, <2>2, <2>3, <1>3
  <1>6. {k + 1 : k \in {o \in plain : sql[o + 1] = "semi"}}'
          = {k + 1 : k \in {o \in plain : sql[o + 1] = "semi"}} \cup {i + 1}
    BY <1>2
  <1>7. SplitTypeOK'
    BY <1>1, <1>2, <1>3 DEF SplitInv, SplitTypeOK, Emit
  <1>8. InBounds'
    BY <1>1, <1>2 DEF InBounds, Emit
  <1> QED
    BY <1>1, <1>2, <1>3, <1>5, <1>6, <1>7, <1>8 DEF SplitInv, Partition

LEMMA TrailingRunKeepsInvariant == SplitInv /\ TrailingRun => SplitInv'
  <1> SUFFICES ASSUME SplitInv, TrailingRun PROVE SplitInv'
    OBVIOUS
  <1>1. /\ i \in Nat /\ i = Len(sql) /\ scanning /\ segmentStart <= i
        /\ segmentStart \in Nat
    BY DEF SplitInv, SplitTypeOK, InBounds, TrailingRun
  <1>2. /\ Emit(Len(sql)) /\ i' = i /\ plain' = plain /\ sql' = sql
        /\ scanning' = FALSE
    BY DEF TrailingRun
  <1>3. /\ Tiled'
        /\ segs' \in Seq(Segment)
        /\ Len(segs') = Len(segs) + 1
        /\ \A n \in 1..Len(segs) : segs'[n] = segs[n]
    BY <1>1, <1>2, EmitTiles DEF SplitInv, Partition
  <1>4. Len(segs) \in Nat
    BY DEF SplitInv, SplitTypeOK
  <1>5. Cuts' = Cuts
    <2>1. Cuts = {segs[n].end : n \in 1..Len(segs)}
      BY <1>1 DEF Cuts
    <2>2. Cuts' = {segs'[n].end : n \in 1..Len(segs)}
      BY <1>2, <1>3, <1>4 DEF Cuts
    <2> QED
      BY <2>1, <2>2, <1>3
  <1>6. SplitTypeOK'
    BY <1>1, <1>2, <1>3 DEF SplitInv, SplitTypeOK, Emit
  <1>7. InBounds' /\ segmentStart' = Len(sql')
    BY <1>1, <1>2 DEF InBounds, Emit
  <1> QED
    BY <1>1, <1>2, <1>3, <1>5, <1>6, <1>7 DEF SplitInv, Partition

\* Every turn of the loop keeps the invariant.
LEMMA StepInvariant == SplitInv /\ [Split]_splitVars => SplitInv'
  <1> SUFFICES ASSUME SplitInv, [Split]_splitVars PROVE SplitInv'
    OBVIOUS
  <1>0. /\ i \in Nat /\ Len(sql) \in Nat /\ sql \in Seq(Unit)
        /\ More => i + 1 <= Len(sql)
    BY DEF SplitInv, SplitTypeOK, InBounds, More
  <1>1. CASE LineCommentOpens
    BY <1>0, <1>1, ReadKeepsInvariant DEF LineCommentOpens
  <1>2. CASE InLineComment
    BY <1>0, <1>2, ReadKeepsInvariant DEF InLineComment
  <1>3. CASE BlockCommentOpens
    BY <1>0, <1>3, ReadKeepsInvariant DEF BlockCommentOpens
  <1>4. CASE InBlockComment
    <2>1. CASE Looking(sql, i, "star", "slash")
      <3>1. i + 2 <= Len(sql)
        BY <2>1, <1>0 DEF Looking
      <3> QED
        BY <1>0, <1>4, <2>1, <3>1, ReadKeepsInvariant DEF InBlockComment
    <2>2. CASE ~Looking(sql, i, "star", "slash")
      BY <1>0, <1>4, <2>2, ReadKeepsInvariant DEF InBlockComment
    <2> QED
      BY <2>1, <2>2
  <1>5. CASE DollarQuoteOpens
    <2>1. Len(Tag) \in Nat /\ i + Len(Tag) <= Len(sql)
      BY <1>0, <1>5, TagInText DEF DollarQuoteOpens, Tag, More
    <2> QED
      BY <1>5, <2>1, ReadKeepsInvariant DEF DollarQuoteOpens
  <1>6. CASE DollarQuoteCloses
    <2>1. Len(Tag) \in Nat /\ i + Len(Tag) <= Len(sql)
      BY <1>0, <1>6, TagInText DEF DollarQuoteCloses, Tag, More
    <2> QED
      BY <1>6, <2>1, ReadKeepsInvariant DEF DollarQuoteCloses
  <1>7. CASE InDollarQuote
    BY <1>0, <1>7, ReadKeepsInvariant DEF InDollarQuote
  <1>8. CASE SingleQuote
    <2>1. CASE mode # "code" /\ Looking(sql, i, "quote", "quote")
      <3>1. i + 2 <= Len(sql)
        BY <2>1, <1>0 DEF Looking
      <3> QED
        BY <1>0, <1>8, <2>1, <3>1, ReadKeepsInvariant DEF SingleQuote
    <2>2. CASE mode = "code" \/ ~Looking(sql, i, "quote", "quote")
      BY <1>0, <1>8, <2>2, ReadKeepsInvariant DEF SingleQuote
    <2> QED
      BY <2>1, <2>2
  <1>9. CASE InSingleQuote
    BY <1>0, <1>9, ReadKeepsInvariant DEF InSingleQuote
  <1>10. CASE Semicolon
    BY <1>10, SemicolonKeepsInvariant
  <1>11. CASE OtherUnit
    BY <1>0, <1>11, ReadKeepsInvariant DEF OtherUnit, AtCode
  <1>12. CASE TrailingRun
    BY <1>12, TrailingRunKeepsInvariant
  <1>13. CASE UNCHANGED splitVars
    <2>1. UNCHANGED <<sql, i, segmentStart, segs, scanning, plain>>
      BY <1>13 DEF splitVars
    <2>2. SplitTypeOK' /\ InBounds'
      BY <2>1 DEF SplitInv, SplitTypeOK, InBounds
    <2>3. Tiled' /\ Cuts' = Cuts
      BY <2>1 DEF SplitInv, Partition, Tiled, Cuts
    <2> QED
      BY <2>1, <2>2, <2>3 DEF SplitInv, Partition
  <1> QED
    BY <1>1, <1>2, <1>3, <1>4, <1>5, <1>6, <1>7, <1>8, <1>9, <1>10, <1>11, <1>12,
       <1>13 DEF Split

-----------------------------------------------------------------------------
\* Whatever text is split, its segments tile it and are cut after the top-level
\* semicolons: SqlStatementSplitter::segments loses nothing of a script, cuts no
\* string, comment or dollar quote in two and leaves no two statements together.
THEOREM SplitPartition == SplitSpec => []Partition
  <1>1. SplitInv => Partition
    BY DEF SplitInv
  <1> QED
    BY <1>1, InitInvariant, StepInvariant, PTL DEF SplitSpec

\* The reader stays within the text: no turn of the loop reads or emits past its
\* end, whatever literal is left open there.
THEOREM SplitInBounds == SplitSpec => []InBounds
  <1>1. SplitInv => InBounds
    BY DEF SplitInv
  <1> QED
    BY <1>1, InitInvariant, StepInvariant, PTL DEF SplitSpec

-----------------------------------------------------------------------------
(* What a result tells.                                                    *)

Outcome == {"rows", "command", "error"}

\* The statement whose rows are shown: the last that had any, or none.
IsLastWithRows(s, list) ==
  \/ s = 0 /\ \A n \in 1..Len(list) : list[n] # "rows"
  \/ /\ s \in 1..Len(list) /\ list[s] = "rows"
     /\ \A n \in 1..Len(list) : list[n] = "rows" => n <= s

NoError(list) == \A n \in 1..Len(list) : list[n] # "error"

\* What is known of the result when nothing, or the last statement alone, failed.
Succeeded ==
  /\ NoError(outcomes)
  /\ IsLastWithRows(shown, outcomes)

Failed ==
  /\ outcomes # <<>> /\ outcomes[Len(outcomes)] = "error"
  /\ \A n \in 1..Len(outcomes) - 1 : outcomes[n] # "error"
  /\ IsLastWithRows(shown, outcomes) \/ (engine = "Sqlite" /\ shown = Len(outcomes))

\* Nothing has been executed before the provider begins.
ResultInv ==
  /\ outcomes \in Seq(Outcome)
  /\ pc \notin {"execute", "done"} => outcomes = <<>> /\ shown = 0 /\ result = "none"
  /\ pc = "execute" => Succeeded /\ result = "none"
  /\ pc = "done" =>
       \/ Failed /\ result = "Error"
       \/ /\ Succeeded /\ Len(outcomes) = Len(script)
          /\ result = IF outcomes # <<>> /\ outcomes[Len(outcomes)] = "rows"
                      THEN "Query" ELSE "Mutation"

Unexecuted == UNCHANGED <<script, outcomes, shown, result>>

\* What handleDotCommand decides is no end of a script.
LEMMA DotCommandKinds ==
  ASSUME NEW t, NEW e
  PROVE  handleDotCommand(t, e).kind \in {"sql", "reconnecting", "cleared", "message"}
  BY DEF handleDotCommand

LEMMA RunTextGoes ==
  ASSUME NEW text, runText(text)
  PROVE  /\ pc' \in {"ignored", "guard", "reconnecting", "cleared", "message"}
         /\ Unexecuted
         /\ UNCHANGED <<engine, readOnly, editor, guarded, turn>>
  <1> DEFINE input == normalizeSmartCharacters(text)
             dot == handleDotCommand(input, engine)
  <1>1. dot.kind \in {"sql", "reconnecting", "cleared", "message"}
    BY DotCommandKinds
  <1>2. UNCHANGED <<engine, readOnly, editor, guarded, turn, script, outcomes, shown, result>>
    BY DEF runText
  <1>3. \/ pc' = "ignored"
        \/ pc' = "guard"
        \/ dot.kind # "sql" /\ pc' = dot.kind
    <2> HIDE DEF input, dot
    <2> QED
      BY DEF runText, GuardAndRun, input, dot
  <1> HIDE DEF dot
  <1> QED
    BY <1>1, <1>2, <1>3 DEF Unexecuted

\* Every step before the provider's loop leaves the result alone.
LEMMA EarlierSteps ==
  ASSUME ResultInv, pc \notin {"execute", "done"},
         Unexecuted, pc' \notin {"execute", "done"}
  PROVE  ResultInv'
  BY DEF ResultInv, Unexecuted

\* An outcome is added to those there are.
LEMMA Added ==
  ASSUME NEW list \in Seq(Outcome), NEW o \in Outcome
  PROVE  /\ Append(list, o) \in Seq(Outcome)
         /\ Append(list, o) # <<>>
         /\ Len(Append(list, o)) = Len(list) + 1
         /\ Append(list, o)[Len(list) + 1] = o
         /\ \A n \in 1..Len(list) : Append(list, o)[n] = list[n]
  BY AppendFacts

LEMMA AddedShown ==
  ASSUME NEW list \in Seq(Outcome), NEW o \in Outcome, NEW s, IsLastWithRows(s, list)
  PROVE  /\ o # "rows" => IsLastWithRows(s, Append(list, o))
         /\ o = "rows" => IsLastWithRows(Len(list) + 1, Append(list, o))
  <1>1. PICK l \in Nat : l = Len(list)
    OBVIOUS
  <1>2. PICK t : t = Append(list, o)
    OBVIOUS
  <1>3. Len(t) = l + 1 /\ t[l + 1] = o /\ \A n \in 1..l : t[n] = list[n]
    BY <1>1, <1>2, Added
  <1>4. \A n \in 1..(l + 1) : n \in 1..l \/ n = l + 1
    BY <1>1
  <1>5. ASSUME o = "rows" PROVE IsLastWithRows(l + 1, t)
    BY <1>1, <1>3, <1>5 DEF IsLastWithRows
  <1>6. ASSUME o # "rows" PROVE IsLastWithRows(s, t)
    <2>1. \A n \in 1..(l + 1) : t[n] = "rows" => n \in 1..l /\ list[n] = "rows"
      BY <1>3, <1>4, <1>6
    <2>2. CASE s = 0 /\ \A n \in 1..Len(list) : list[n] # "rows"
      BY <1>1, <1>3, <2>1, <2>2 DEF IsLastWithRows
    <2>3. CASE /\ s \in 1..Len(list) /\ list[s] = "rows"
               /\ \A n \in 1..Len(list) : list[n] = "rows" => n <= s
      BY <1>1, <1>3, <2>1, <2>3 DEF IsLastWithRows
    <2> QED
      BY <2>2, <2>3 DEF IsLastWithRows
  <1> QED
    BY <1>1, <1>2, <1>5, <1>6

\* A statement without error is shown if it has rows; the first error ends the
\* script, and SQLite's may leave what the failing statement had begun.
LEMMA ExecutedInv ==
  ASSUME ResultInv, pc = "execute", NEW o \in Outcome, NEW s, Executed(o, s),
         s = shown \/ s = Len(outcomes) + 1,
         o = "rows" => s = Len(outcomes) + 1,
         o = "command" => s = shown,
         o = "error" => engine = "Sqlite" \/ s = shown
  PROVE  ResultInv'
  <1>1. outcomes \in Seq(Outcome) /\ Succeeded /\ result = "none"
    BY DEF ResultInv
  <1>2. PICK l, t : l \in Nat /\ l = Len(outcomes) /\ t = Append(outcomes, o)
    <2>1. Len(outcomes) \in Nat
      BY <1>1
    <2> QED
      BY <2>1
  <1>3. /\ t \in Seq(Outcome) /\ t # <<>> /\ Len(t) = l + 1
        /\ t[l + 1] = o /\ \A n \in 1..l : t[n] = outcomes[n]
    BY <1>1, <1>2, Added
  <1>4. /\ outcomes' = t /\ shown' = s
        /\ IF o = "error" THEN pc' = "done" /\ result' = "Error" ELSE UNCHANGED <<pc, result>>
        /\ engine' = engine
    BY <1>2 DEF Executed
  <1>5. /\ o # "rows" => IsLastWithRows(shown, t)
        /\ o = "rows" => IsLastWithRows(l + 1, t)
    BY <1>1, <1>2, AddedShown DEF Succeeded
  <1>6. \A n \in 1..l : t[n] # "error"
    BY <1>1, <1>2, <1>3 DEF Succeeded, NoError
  <1>7. CASE o = "error"
    <2>1. pc' = "done" /\ result' = "Error"
      BY <1>4, <1>7
    <2>2. IsLastWithRows(s, t) \/ (engine = "Sqlite" /\ s = l + 1)
      <3>1. IsLastWithRows(shown, t)
        BY <1>5, <1>7
      <3>2. CASE s = shown
        BY <3>1, <3>2
      <3>3. CASE engine = "Sqlite" /\ s = Len(outcomes) + 1
        BY <1>2, <3>3
      <3> QED
        BY <1>7, <3>2, <3>3
    <2>3. \A n \in 1..Len(t) - 1 : t[n] # "error"
      BY <1>2, <1>3, <1>6
    <2>4. Failed'
      BY <1>2, <1>3, <1>4, <1>7, <2>2, <2>3 DEF Failed
    <2> QED
      BY <1>3, <1>4, <2>1, <2>4 DEF ResultInv
  <1>8. CASE o # "error"
    <2>1. pc' = "execute" /\ result' = "none"
      BY <1>1, <1>4, <1>8
    <2>2. IsLastWithRows(s, t)
      BY <1>2, <1>5, <1>8 DEF Outcome
    <2>3. NoError(t)
      BY <1>2, <1>3, <1>6, <1>8 DEF NoError
    <2>4. Succeeded'
      BY <1>4, <2>2, <2>3 DEF Succeeded
    <2> QED
      BY <1>3, <1>4, <2>1, <2>4 DEF ResultInv
  <1> QED
    BY <1>7, <1>8

LEMMA ResultInit == Init => ResultInv
  <1>1. <<>> \in Seq(Outcome)
    OBVIOUS
  <1> QED
    BY <1>1 DEF Init, ResultInv

LEMMA ResultStep ==
  ASSUME ResultInv, [Next]_vars
  PROVE  ResultInv'
  <1>1. CASE doRunWhole
    BY <1>1, RunTextGoes, EarlierSteps DEF doRunWhole
  <1>2. CASE doRunStatement
    BY <1>2, EarlierSteps DEF doRunStatement, Unexecuted
  <1>3. CASE RunAtCursor
    <2>1. PICK text : runText(text)
      BY <1>3 DEF RunAtCursor
    <2> QED
      BY <1>3, <2>1, RunTextGoes, EarlierSteps DEF RunAtCursor
  <1>4. CASE ClassifyNext
    BY <1>4, EarlierSteps DEF ClassifyNext, Unexecuted
  <1>5. CASE Decide
    BY <1>5, EarlierSteps DEF Decide, StartExecute, Unexecuted
  <1>6. CASE Answer
    BY <1>6, EarlierSteps DEF Answer, StartExecute, Unexecuted
  <1>7. CASE Begin
    <2>1. /\ pc = "provider" /\ pc' = "execute"
          /\ UNCHANGED <<outcomes, shown, result>>
      BY <1>7 DEF Begin
    <2>2. outcomes = <<>> /\ shown = 0 /\ result = "none" /\ outcomes \in Seq(Outcome)
      BY <2>1 DEF ResultInv
    <2>3. Succeeded'
      BY <2>1, <2>2 DEF Succeeded, NoError, IsLastWithRows
    <2> QED
      BY <2>1, <2>2, <2>3 DEF ResultInv
  <1>8. CASE PostgresStatement
    <2>1. pc = "execute" /\ This = Len(outcomes) + 1
      BY <1>8 DEF PostgresStatement, AtStatement, This
    <2>2. Executed("rows", This) \/ Executed("command", shown) \/ Executed("error", shown)
      BY <1>8 DEF PostgresStatement
    <2> QED
      BY <2>1, <2>2, ExecutedInv DEF Outcome
  <1>9. CASE SqliteStatement
    <2>1. pc = "execute" /\ engine = "Sqlite" /\ This = Len(outcomes) + 1
      BY <1>9 DEF SqliteStatement, AtStatement, This
    <2>2. PICK o, s : /\ o \in Outcome /\ Executed(o, s)
                      /\ o = "rows" => s = This
                      /\ o = "command" => s = shown
                      /\ s = shown \/ s = This
      <3>1. CASE Executed("error", shown)
        BY <3>1 DEF Outcome
      <3>2. ASSUME NEW ok \in BOOLEAN, NEW columns \in BOOLEAN,
                   Executed(IF ~ok THEN "error" ELSE IF columns THEN "rows" ELSE "command",
                            IF columns THEN This ELSE shown)
            PROVE  \E o, s : /\ o \in Outcome /\ Executed(o, s)
                             /\ o = "rows" => s = This
                             /\ o = "command" => s = shown
                             /\ s = shown \/ s = This
        BY <3>2 DEF Outcome
      <3> QED
        BY <1>9, <3>1, <3>2 DEF SqliteStatement
    <2>3. s = shown \/ s = Len(outcomes) + 1
      BY <2>1, <2>2
    <2>4. o = "rows" => s = Len(outcomes) + 1
      BY <2>1, <2>2
    <2>5. (o = "command" => s = shown) /\ o \in Outcome /\ Executed(o, s)
      BY <2>2
    <2> QED
      BY <2>1, <2>3, <2>4, <2>5, ExecutedInv
  <1>10. CASE Finish
    <2>1. /\ pc = "execute" /\ pc' = "done" /\ Len(outcomes) = Len(script)
          /\ result' = IF outcomes # <<>> /\ outcomes[Len(outcomes)] = "rows"
                       THEN "Query" ELSE "Mutation"
          /\ UNCHANGED <<engine, script, outcomes, shown>>
      BY <1>10 DEF Finish
    <2>2. Succeeded /\ outcomes \in Seq(Outcome)
      BY <2>1 DEF ResultInv
    <2>3. Succeeded'
      BY <2>1, <2>2 DEF Succeeded
    <2> QED
      BY <2>1, <2>2, <2>3 DEF ResultInv
  <1>11. CASE Split /\ UNCHANGED runVars
    BY <1>11 DEF ResultInv, Succeeded, Failed, runVars
  <1>12. CASE UNCHANGED vars
    BY <1>12 DEF ResultInv, Succeeded, Failed, vars, runVars
  <1> QED
    BY <1>1, <1>2, <1>3, <1>4, <1>5, <1>6, <1>7, <1>8, <1>9, <1>10, <1>11, <1>12 DEF Next

\* The last statement with rows is the greatest of those that had rows.
LEMMA LastIsGreatest ==
  ASSUME NEW list \in Seq(Outcome), NEW s, IsLastWithRows(s, list), NEW withRows,
         withRows = {n \in 1..Len(list) : list[n] = "rows"}
  PROVE  s = IF withRows = {} THEN 0
             ELSE CHOOSE n \in withRows : \A o \in withRows : o <= n
  <1>1. CASE s = 0 /\ \A n \in 1..Len(list) : list[n] # "rows"
    BY <1>1
  <1>2. CASE /\ s \in 1..Len(list) /\ list[s] = "rows"
             /\ \A n \in 1..Len(list) : list[n] = "rows" => n <= s
    <2>1. withRows \subseteq Int
      OBVIOUS
    <2>2. s \in withRows /\ \A o \in withRows : o <= s
      BY <1>2
    <2>3. ASSUME NEW n \in withRows, \A o \in withRows : o <= n
          PROVE  n = s
      BY <2>1, <2>2, <2>3
    <2>4. PICK greatest : greatest = CHOOSE n \in withRows : \A o \in withRows : o <= n
      OBVIOUS
    <2>5. greatest \in withRows /\ \A o \in withRows : o <= greatest
      BY <2>2, <2>4
    <2>6. greatest = s
      BY <2>3, <2>5
    <2> QED
      BY <2>2, <2>4, <2>6
  <1> QED
    BY <1>1, <1>2 DEF IsLastWithRows

LEMMA ResultInvTells == ResultInv => ResultTellsTruth
  <1> SUFFICES ASSUME ResultInv, pc = "done"
               PROVE  ResultTellsTruth
    BY DEF ResultTellsTruth
  <1>1. PICK ran, withRows :
           /\ ran = Len(outcomes) /\ ran \in Nat
           /\ withRows = {n \in 1..Len(outcomes) : outcomes[n] = "rows"}
    <2>1. Len(outcomes) \in Nat
      BY DEF ResultInv
    <2> QED
      BY <2>1
  <1>2. outcomes \in Seq(Outcome)
    BY DEF ResultInv
  <1> DEFINE last == IF withRows = {} THEN 0
                     ELSE CHOOSE n \in withRows : \A o \in withRows : o <= n
             failed == \E n \in 1..ran : outcomes[n] = "error"
  <1>3. IsLastWithRows(shown, outcomes) => shown = last
    <2>1. withRows = {n \in 1..Len(outcomes) : outcomes[n] = "rows"}
      BY <1>1
    <2> QED
      BY <1>2, <2>1, LastIsGreatest
  <1> HIDE DEF last
  <1>4. /\ failed <=> result = "Error"
        /\ failed => outcomes[ran] = "error"
        /\ \A n \in 1..ran - 1 : outcomes[n] # "error"
        /\ ~failed => ran = Len(script)
        /\ result = "Query" => ran \in withRows
        /\ shown = last \/ (failed /\ engine = "Sqlite" /\ shown = ran)
    <2>1. CASE Failed /\ result = "Error"
      <3>1. ran \in 1..ran /\ outcomes[ran] = "error"
        BY <1>1, <1>2, <2>1 DEF Failed
      <3>2. failed
        BY <3>1
      <3>3. \A n \in 1..ran - 1 : outcomes[n] # "error"
        BY <1>1, <2>1 DEF Failed
      <3>4. shown = last \/ (engine = "Sqlite" /\ shown = ran)
        BY <1>1, <1>3, <2>1 DEF Failed
      <3> QED
        BY <2>1, <3>1, <3>2, <3>3, <3>4
    <2>2. CASE /\ Succeeded /\ Len(outcomes) = Len(script)
               /\ result = IF outcomes # <<>> /\ outcomes[Len(outcomes)] = "rows"
                           THEN "Query" ELSE "Mutation"
      <3>1. \A n \in 1..ran : outcomes[n] # "error"
        BY <1>1, <2>2 DEF Succeeded, NoError
      <3>2. ~failed /\ result # "Error"
        BY <2>2, <3>1
      <3>3. ran = Len(script)
        BY <1>1, <2>2
      <3>4. shown = last
        BY <1>3, <2>2 DEF Succeeded
      <3>5. ASSUME result = "Query" PROVE ran \in withRows
        <4>1. outcomes # <<>> /\ outcomes[ran] = "rows"
          BY <1>1, <2>2, <3>5
        <4> QED
          BY <1>1, <1>2, <4>1
      <3>6. \A n \in 1..ran - 1 : outcomes[n] # "error"
        BY <1>1, <3>1
      <3> QED
        BY <3>2, <3>3, <3>4, <3>5, <3>6
    <2> QED
      BY <2>1, <2>2 DEF ResultInv
  <1> QED
    BY <1>1, <1>4 DEF ResultTellsTruth, last

\* Whatever is run and however its statements come out, execute() stops at the
\* one that fails, says "Error" exactly then, and otherwise has run them all and
\* shows the rows of the last that had any.
THEOREM ScriptResultTellsTruth == Spec => []ResultTellsTruth
  <1> QED
    BY ResultInit, ResultStep, ResultInvTells, PTL DEF Spec

-----------------------------------------------------------------------------
(* What is read of a text.                                                 *)

LEMMA LeastFacts ==
  ASSUME NEW T \in SUBSET Nat, NEW e
  PROVE  /\ T = {} => Least(T, e) = e
         /\ T # {} => Least(T, e) \in T /\ \A y \in T : Least(T, e) <= y
  <1>1. CASE T = {}
    BY <1>1 DEF Least
  <1>2. CASE T # {}
    <2>1. \E x \in T : \A y \in T : x <= y
      BY <1>2, LeastNatural
    <2> QED
      BY <1>2, <2>1 DEF Least
  <1> QED
    BY <1>1, <1>2

\* Where a least offset lies that is looked for from k on, in a text of n units.
LEMMA LeastWithin ==
  ASSUME NEW k \in Nat, NEW n \in Nat, k <= n, NEW T, T \subseteq k..n
  PROVE  Least(T, n) \in k..n
  <1>1. T \in SUBSET Nat
    OBVIOUS
  <1>2. CASE T = {}
    BY <1>1, <1>2, LeastFacts
  <1>3. CASE T # {}
    BY <1>1, <1>3, LeastFacts
  <1> QED
    BY <1>2, <1>3

LEMMA TrimTyped ==
  ASSUME NEW S, NEW t \in Seq(S)
  PROVE  /\ Trim(t) \in Seq(S)
         /\ Len(Trim(t)) <= Len(t)
  <1> DEFINE solid == {n \in 1..Len(t) : t[n] \notin Blank}
  <1>1. PICK l : l \in Nat /\ l = Len(t)
    <2>1. Len(t) \in Nat
      OBVIOUS
    <2> QED
      BY <2>1
  <1>2. CASE solid = {}
    BY <1>1, <1>2 DEF Trim
  <1>3. CASE solid # {}
    <2>1. solid \in SUBSET Nat /\ \A n \in solid : n \in 1..l
      BY <1>1
    <2> HIDE DEF solid
    <2>2. PICK a : a = CHOOSE x \in solid : \A n \in solid : x <= n
      OBVIOUS
    <2>3. PICK b : b = CHOOSE x \in solid : \A n \in solid : x >= n
      OBVIOUS
    <2>4. a \in solid /\ \A n \in solid : a <= n
      <3>1. \E x \in solid : \A y \in solid : x <= y
        BY <1>3, <2>1, LeastNatural
      <3> QED
        BY <2>2, <3>1
    <2>5. b \in solid /\ \A n \in solid : b >= n
      <3>1. \A x \in solid : x <= l
        BY <1>1, <2>1
      <3>2. \E x \in solid : \A y \in solid : y <= x
        BY <1>1, <1>3, <2>1, <3>1, GreatestNatural
      <3>3. \E x \in solid : \A y \in solid : x >= y
        BY <2>1, <3>2
      <3> QED
        BY <2>3, <3>3
    <2>6. Trim(t) = SubSeq(t, a, b)
      BY <1>3, <2>2, <2>3 DEF Trim, solid
    <2>7. a \in 1..l /\ b \in 1..l /\ a <= b
      BY <2>1, <2>4, <2>5
    <2>8. SubSeq(t, a, b) \in Seq(S) /\ Len(SubSeq(t, a, b)) = b + 1 - a
      BY <1>1, <2>7, SubSeqFacts
    <2> QED
      BY <1>1, <2>6, <2>7, <2>8
  <1> QED
    BY <1>2, <1>3

\* A string's end is looked for from unit to unit, a doubled quote being passed.
LEMMA QuoteEndSteps ==
  ASSUME NEW t \in Seq(Unit)
  PROVE  /\ QuoteEnd(t, Len(t)) = Len(t)
         /\ \A j \in 0..(Len(t) - 1) :
              QuoteEnd(t, j) = IF t[j + 1] # "quote" THEN QuoteEnd(t, j + 1)
                               ELSE IF Looking(t, j, "quote", "quote") THEN QuoteEnd(t, j + 2)
                               ELSE j + 1
  <1>1. PICK l : l \in Nat /\ l = Len(t)
    <2>1. Len(t) \in Nat
      OBVIOUS
    <2> QED
      BY <2>1
  <1> DEFINE Is(f) == f = [j \in 0..Len(t) |->
               IF j = Len(t) THEN Len(t)
               ELSE IF t[j + 1] # "quote" THEN f[j + 1]
               ELSE IF Looking(t, j, "quote", "quote") THEN f[j + 2]
               ELSE j + 1]
             further == [j \in 0..(l - 1) |->
               IF t[j + 1] = "quote" /\ Looking(t, j, "quote", "quote") THEN j + 2 ELSE j + 1]
             step == [j \in 0..(l - 1) |->
               [v \in Nat |->
                  IF t[j + 1] = "quote" /\ ~Looking(t, j, "quote", "quote") THEN j + 1 ELSE v]]
  <1>2. \A j \in 0..(l - 1) : further[j] \in (j + 1)..l
    BY <1>1 DEF Looking
  <1>3. step \in [0..(l - 1) -> [Nat -> Nat]]
    BY <1>1
  <1>4. PICK f : Descends(f, l, Nat, l, further, step)
    <2> HIDE DEF further, step
    <2> QED
      BY <1>1, <1>2, <1>3, DescentExists
  <1>5. Is(f)
    <2>1. f \in [0..l -> Nat] /\ f[l] = l
      BY <1>4 DEF Descends
    <2>2. ASSUME NEW j \in 0..(l - 1)
          PROVE  f[j] = IF t[j + 1] # "quote" THEN f[j + 1]
                        ELSE IF Looking(t, j, "quote", "quote") THEN f[j + 2]
                        ELSE j + 1
      <3>1. f[j] = step[j][f[further[j]]] /\ further[j] \in 0..l
        <4> HIDE DEF further, step
        <4> QED
          BY <1>1, <1>2, <1>4 DEF Descends
      <3>2. f[further[j]] \in Nat
        BY <2>1, <3>1
      <3> QED
        BY <3>1, <3>2
    <2> QED
      BY <1>1, <2>1, <2>2
  <1> DEFINE from == CHOOSE g : Is(g)
  <1>6. Is(from)
    <2> HIDE DEF Is
    <2> QED
      BY <1>5
  <1>7. \A k : QuoteEnd(t, k) = from[k]
    BY DEF QuoteEnd
  <1> HIDE DEF from
  <1>8. \A j \in 0..l : from[j] = IF j = l THEN l
                                 ELSE IF t[j + 1] # "quote" THEN from[j + 1]
                                 ELSE IF Looking(t, j, "quote", "quote") THEN from[j + 2]
                                 ELSE j + 1
    BY <1>1, <1>6
  <1>9. from[l] = l
    BY <1>1, <1>8
  <1>10. \A j \in 0..(l - 1) : from[j] = IF t[j + 1] # "quote" THEN from[j + 1]
                                        ELSE IF Looking(t, j, "quote", "quote") THEN from[j + 2]
                                        ELSE j + 1
    <2>1. \A j \in 0..(l - 1) : j \in 0..l /\ j # l
      BY <1>1
    <2> QED
      BY <1>8, <2>1
  <1> QED
    BY <1>1, <1>7, <1>9, <1>10

\* It lies within the text.
LEMMA QuoteEndWithin ==
  ASSUME NEW t \in Seq(Unit), NEW k \in 0..Len(t)
  PROVE  QuoteEnd(t, k) \in k..Len(t)
  <1>1. PICK l : l \in Nat /\ l = Len(t)
    <2>1. Len(t) \in Nat
      OBVIOUS
    <2> QED
      BY <2>1
  <1> DEFINE P == {j \in 0..l : QuoteEnd(t, j) \in j..l}
  <1>2. l \in P
    BY <1>1, QuoteEndSteps
  <1>3. ASSUME NEW j \in 0..(l - 1), \A m \in (j + 1)..l : m \in P
        PROVE  j \in P
    <2>1. QuoteEnd(t, j) = IF t[j + 1] # "quote" THEN QuoteEnd(t, j + 1)
                           ELSE IF Looking(t, j, "quote", "quote") THEN QuoteEnd(t, j + 2)
                           ELSE j + 1
      BY <1>1, QuoteEndSteps
    <2>2. QuoteEnd(t, j + 1) \in (j + 1)..l
      BY <1>1, <1>3
    <2>3. Looking(t, j, "quote", "quote") => QuoteEnd(t, j + 2) \in (j + 2)..l
      BY <1>1, <1>3 DEF Looking
    <2> QED
      BY <1>1, <2>1, <2>2, <2>3
  <1>4. k \in P
    <2> HIDE DEF P
    <2> QED
      BY <1>1, <1>2, <1>3, InductionDownFrom
  <1> QED
    BY <1>1, <1>4

\* A dollar tag is part of its text.
LEMMA TagTyped ==
  ASSUME NEW t \in Seq(Unit), NEW k \in Nat, k < Len(t)
  PROVE  DollarTag(t, k) \in Seq(Unit)
  <1> DEFINE closers == {j \in k + 1..Len(t) - 1 :
                           /\ t[j + 1] = "dollar"
                           /\ \A n \in k + 1..j - 1 : t[n + 1] \in Words}
             c == CHOOSE j \in closers : TRUE
  <1>1. CASE closers = {} \/ t[k + 1] # "dollar"
    <2>1. DollarTag(t, k) = <<>>
      BY <1>1 DEF DollarTag
    <2> QED
      BY <2>1
  <1>2. CASE closers # {} /\ t[k + 1] = "dollar"
    <2>1. DollarTag(t, k) = SubSeq(t, k + 1, c + 1)
      BY <1>2 DEF DollarTag
    <2>2. c \in k + 1..Len(t) - 1
      BY <1>2
    <2> HIDE DEF closers, c
    <2>3. SubSeq(t, k + 1, c + 1) \in Seq(Unit)
      BY <2>2, SubSeqFacts
    <2> QED
      BY <2>1, <2>3
  <1> QED
    BY <1>1, <1>2

\* A literal or comment that opens before the end of its text ends after it has
\* opened and within the text, from whichever side its closer is looked for.
LEMMA LiteralEndWithin ==
  ASSUME NEW t \in Seq(Unit), NEW k \in 0..(Len(t) - 1), NEW skip \in {1, 2},
         Opener(t, k) # "code"
  PROVE  LiteralEnd(t, k, skip) \in (k + 1)..Len(t)
  <1>1. PICK l : l \in Nat /\ l = Len(t)
    <2>1. Len(t) \in Nat
      OBVIOUS
    <2> QED
      BY <2>1
  <1>2. k \in 0..(l - 1) /\ k + 1 \in Nat /\ k + 1 <= l
    BY <1>1
  <1>3. Opener(t, k) \in {"line", "block", "single", "dollar"}
    BY DEF Opener
  <1>4. CASE Opener(t, k) = "line"
    <2>1. t[k + 1] = "dash"
      BY <1>4 DEF Opener, Looking
    <2> DEFINE T == {j \in k..l - 1 : t[j + 1] = "newline"}
    <2>2. T \subseteq (k + 1)..l
      BY <1>1, <1>2, <2>1
    <2>3. Least(T, l) \in (k + 1)..l
      <3> HIDE DEF T
      <3> QED
        BY <1>1, <1>2, <2>2, LeastWithin
    <2> QED
      BY <1>1, <1>4, <2>3 DEF LiteralEnd, LineEnd
  <1>5. CASE Opener(t, k) = "block"
    <2> DEFINE T == {j + 2 : j \in {n \in (k + skip)..l - 2 : Looking(t, n, "star", "slash")}}
    <2>1. T \subseteq (k + 1)..l
      BY <1>1, <1>2
    <2>2. Least(T, l) \in (k + 1)..l
      <3> HIDE DEF T
      <3> QED
        BY <1>1, <1>2, <2>1, LeastWithin
    <2> QED
      BY <1>1, <1>5, <2>2 DEF LiteralEnd, BlockEnd
  <1>6. CASE Opener(t, k) = "single"
    <2>1. QuoteEnd(t, k + 1) \in (k + 1)..l
      BY <1>1, <1>2, QuoteEndWithin
    <2> QED
      BY <1>1, <1>6, <2>1 DEF LiteralEnd
  <1>7. CASE Opener(t, k) = "dollar"
    <2>1. PICK open : open = DollarTag(t, k)
      OBVIOUS
    <2>2. open # <<>>
      BY <1>7, <2>1 DEF Opener
    <2>3. PICK m : m \in Nat /\ m = Len(open)
      <3>1. Len(open) \in Nat
        BY <1>1, <1>2, <2>1, <2>2, TagInText
      <3> QED
        BY <3>1
    <2>4. m # 0
      <3>1. open \in Seq(Unit)
        BY <1>1, <1>2, <2>1, TagTyped
      <3> QED
        BY <2>2, <2>3, <3>1
    <2> DEFINE T == {j + m : j \in {n \in (k + m)..l - 1 : DollarTag(t, n) = open}}
    <2>5. ASSUME NEW n \in (k + m)..l - 1, DollarTag(t, n) = open
          PROVE  n + m \in (k + 1)..l
      <3>1. n \in Nat /\ n < Len(t)
        BY <1>1, <1>2, <2>3, <2>5
      <3>2. n + Len(DollarTag(t, n)) <= Len(t)
        BY <2>2, <2>5, <3>1, TagInText
      <3>3. n + m <= l
        BY <1>1, <2>3, <2>5, <3>2
      <3> QED
        BY <1>2, <2>3, <2>4, <2>5, <3>3
    <2>6. T \subseteq (k + 1)..l
      BY <2>5
    <2>7. Least(T, l) \in (k + 1)..l
      <3> HIDE DEF T
      <3> QED
        BY <1>1, <1>2, <2>6, LeastWithin
    <2>8. DollarEnd(t, k) = Least(T, l)
      BY <1>1, <2>1, <2>3 DEF DollarEnd
    <2> QED
      BY <1>1, <1>7, <2>7, <2>8 DEF LiteralEnd
  <1> QED
    BY <1>3, <1>4, <1>5, <1>6, <1>7

\* The statements found in a text are parts of it.
CutFrom(t, ends, tokens, f) ==
  f = [k \in 0..Len(t) |->
         IF k = Len(t) THEN <<>>
         ELSE LET e == Least({n \in ends : n >= k}, Len(t) - 1)
              IN  IF \E n \in tokens : k <= n /\ n <= e
                  THEN <<Trim(SubSeq(t, k + 1, e + 1))>> \o f[e + 1]
                  ELSE f[e + 1]]

LEMMA CutFromTyped ==
  ASSUME NEW t \in Seq(Unit), NEW ends, ends \subseteq 0..(Len(t) - 1), NEW tokens
  PROVE  /\ \E f : CutFrom(t, ends, tokens, f)
         /\ \A f : CutFrom(t, ends, tokens, f) => \A k \in 0..Len(t) : f[k] \in Seq(Seq(Unit))
  <1>1. PICK l : l \in Nat /\ l = Len(t)
    <2>1. Len(t) \in Nat
      OBVIOUS
    <2> QED
      BY <2>1
  <1>2. PICK S, none : S = Seq(Seq(Unit)) /\ none = <<>> /\ none \in S
    <2>1. <<>> \in Seq(Seq(Unit))
      OBVIOUS
    <2> QED
      BY <2>1
  <1> DEFINE last(k) == Least({n \in ends : n >= k}, Len(t) - 1)
             some(k) == \E n \in tokens : k <= n /\ n <= last(k)
             found(k) == Trim(SubSeq(t, k + 1, last(k) + 1))
             further == [k \in 0..(l - 1) |-> last(k) + 1]
             step == [k \in 0..(l - 1) |->
                        [s \in S |-> IF some(k) THEN <<found(k)>> \o s ELSE s]]
  <1>3. ASSUME NEW k \in 0..(l - 1)
        PROVE  last(k) \in k..(l - 1)
    <2> DEFINE T == {n \in ends : n >= k}
    <2>1. T \subseteq k..(l - 1)
      <3>1. \A n \in ends : n \in 0..(l - 1)
        BY <1>1
      <3>2. ASSUME NEW n \in ends, n >= k PROVE n \in k..(l - 1)
        BY <1>1, <3>1, <3>2
      <3> QED
        BY <3>2
    <2>2. k \in Nat /\ l - 1 \in Nat /\ k <= l - 1
      BY <1>1
    <2>3. Least(T, l - 1) \in k..(l - 1)
      <3> HIDE DEF T
      <3> QED
        BY <2>1, <2>2, LeastWithin
    <2> QED
      BY <1>1, <2>3
  <1>4. ASSUME NEW k \in 0..(l - 1), NEW s \in S
        PROVE  <<found(k)>> \o s \in S
    <2>1. PICK e : e = last(k) /\ e \in k..(l - 1)
      BY <1>3
    <2>2. SubSeq(t, k + 1, e + 1) \in Seq(Unit)
      <3>1. /\ k + 1 \in Int /\ e + 1 \in Int
            /\ k + 1 >= 1 /\ e + 1 <= Len(t) /\ k + 1 <= e + 1 + 1
        BY <1>1, <2>1
      <3>2. PICK a, b : a = k + 1 /\ b = e + 1
        OBVIOUS
      <3>3. SubSeq(t, a, b) \in Seq(Unit)
        BY <3>1, <3>2, SubSeqFacts
      <3> QED
        BY <3>2, <3>3
    <2>3. Trim(SubSeq(t, k + 1, e + 1)) \in Seq(Unit)
      BY <2>2, TrimTyped
    <2>4. found(k) \in Seq(Unit)
      BY <2>1, <2>3
    <2> HIDE DEF found
    <2> QED
      BY <1>2, <2>4, PushFacts
  <1> HIDE DEF last, some, found
  <1>5. \A k \in 0..(l - 1) : further[k] \in (k + 1)..l
    BY <1>1, <1>3
  <1>6. step \in [0..(l - 1) -> [S -> S]]
    BY <1>4
  <1>7. ASSUME NEW f
        PROVE  CutFrom(t, ends, tokens, f) <=>
                 f = [k \in 0..l |-> IF k = l THEN none
                                     ELSE IF some(k) THEN <<found(k)>> \o f[last(k) + 1]
                                     ELSE f[last(k) + 1]]
    BY <1>1, <1>2 DEF CutFrom, last, some, found
  <1>8. \E f : CutFrom(t, ends, tokens, f)
    <2>1. PICK f : Descends(f, l, S, none, further, step)
      <3> HIDE DEF further, step
      <3> QED
        BY <1>1, <1>2, <1>5, <1>6, DescentExists
    <2>2. f \in [0..l -> S] /\ f[l] = none
      BY <2>1 DEF Descends
    <2>3. ASSUME NEW k \in 0..(l - 1)
          PROVE  f[k] = IF some(k) THEN <<found(k)>> \o f[last(k) + 1] ELSE f[last(k) + 1]
      <3>1. f[k] = step[k][f[further[k]]] /\ further[k] \in 0..l
        <4> HIDE DEF further, step
        <4> QED
          BY <1>1, <1>5, <2>1 DEF Descends
      <3>2. f[further[k]] \in S
        BY <2>2, <3>1
      <3> QED
        BY <3>1, <3>2
    <2>4. f = [k \in 0..l |-> IF k = l THEN none
                              ELSE IF some(k) THEN <<found(k)>> \o f[last(k) + 1]
                              ELSE f[last(k) + 1]]
      <3>1. \A k \in 0..l : k = l \/ k \in 0..(l - 1)
        BY <1>1
      <3>2. \A k \in 0..l : f[k] = IF k = l THEN none
                                   ELSE IF some(k) THEN <<found(k)>> \o f[last(k) + 1]
                                   ELSE f[last(k) + 1]
        BY <2>2, <2>3, <3>1
      <3> QED
        BY <2>2, <3>2
    <2> QED
      BY <1>7, <2>4
  <1>9. ASSUME NEW f, CutFrom(t, ends, tokens, f)
        PROVE  \A k \in 0..l : f[k] \in S
    <2> DEFINE P == {k \in 0..l : f[k] \in S}
    <2>1. f = [k \in 0..l |-> IF k = l THEN none
                              ELSE IF some(k) THEN <<found(k)>> \o f[last(k) + 1]
                              ELSE f[last(k) + 1]]
      BY <1>7, <1>9
    <2>2. l \in P
      BY <1>1, <1>2, <2>1
    <2>3. ASSUME NEW k \in 0..(l - 1), \A m \in (k + 1)..l : m \in P
          PROVE  k \in P
      <3>1. f[k] = IF some(k) THEN <<found(k)>> \o f[last(k) + 1] ELSE f[last(k) + 1]
        <4>1. k \in 0..l /\ k # l
          BY <1>1
        <4> QED
          BY <2>1, <4>1
      <3>2. last(k) + 1 \in (k + 1)..l
        BY <1>1, <1>3
      <3>3. f[last(k) + 1] \in S
        BY <2>3, <3>2
      <3>4. <<found(k)>> \o f[last(k) + 1] \in S
        BY <1>4, <3>3
      <3> QED
        BY <1>1, <3>1, <3>3, <3>4
    <2> QED
      <3> HIDE DEF P
      <3>1. \A k \in 0..l : k \in P
        BY <1>1, <2>2, <2>3, InductionDownFrom
      <3> QED
        BY <3>1 DEF P
  <1> QED
    BY <1>1, <1>2, <1>8, <1>9

LEMMA CutAtFrom ==
  ASSUME NEW t \in Seq(Unit), NEW ends, ends \subseteq 0..(Len(t) - 1), NEW tokens
  PROVE  \E f : CutFrom(t, ends, tokens, f) /\ CutAt(t, ends, tokens) = f[0]
  <1> DEFINE from == CHOOSE f : CutFrom(t, ends, tokens, f)
  <1>1. CutAt(t, ends, tokens) = from[0]
    BY DEF CutAt, CutFrom
  <1>2. CutFrom(t, ends, tokens, from)
    BY CutFromTyped
  <1> HIDE DEF from
  <1> QED
    BY <1>1, <1>2

\* Where an engine ends the statements of a text.
ServerEnds(e, t) ==
  {k \in Outside(t, ServerLiterals(e, t) \cup ServerNames(e, t)) : t[k + 1] = "semi"}

LEMMA ServerStatementsCut ==
  ASSUME NEW e, NEW t
  PROVE  /\ ServerStatements(e, t) = CutAt(t, ServerEnds(e, t), Solid(t, ServerLiterals(e, t)))
         /\ ServerEnds(e, t) \subseteq 0..(Len(t) - 1)
  BY DEF ServerStatements, ServerEnds, Outside

LEMMA ServerStatementsTyped ==
  ASSUME NEW e, NEW t \in Seq(Unit)
  PROVE  ServerStatements(e, t) \in Seq(Seq(Unit))
  <1>1. PICK ends, tokens : /\ ServerStatements(e, t) = CutAt(t, ends, tokens)
                            /\ ends \subseteq 0..(Len(t) - 1)
    BY ServerStatementsCut
  <1>2. PICK f : CutFrom(t, ends, tokens, f) /\ CutAt(t, ends, tokens) = f[0]
    BY <1>1, CutAtFrom
  <1>3. 0 \in 0..Len(t)
    OBVIOUS
  <1> QED
    BY <1>1, <1>2, <1>3, CutFromTyped

-----------------------------------------------------------------------------
(* What a command hands on.                                                *)

LEMMA NormalizedTyped ==
  ASSUME NEW t \in Seq(Unit)
  PROVE  normalizeSmartCharacters(t) \in Seq(Unit)
  <1>1. PICK s : s = Trim(t) /\ s \in Seq(Unit)
    BY TrimTyped
  <1>2. \A n \in 1..Len(s) : s[n] \in Unit
    BY <1>1
  <1>3. {"quote", "double", "dash"} \subseteq Unit
    BY DEF Unit, Marks
  <1>4. [n \in 1..Len(s) |-> CASE s[n] = "curly" -> "quote"
                               [] s[n] = "curlydouble" -> "double"
                               [] s[n] = "emdash" -> "dash"
                               [] OTHER -> s[n]] \in Seq(Unit)
    <2>1. PICK l : l \in Nat /\ l = Len(s)
      <3>1. Len(s) \in Nat
        BY <1>1
      <3> QED
        BY <3>1
    <2> QED
      BY <1>2, <1>3, <2>1
  <1> QED
    BY <1>1, <1>4 DEF normalizeSmartCharacters

\* A command runs statements, one at least, and they are texts.
Runnable(statements) == statements \in Seq(Seq(Unit)) /\ statements # <<>>

\* The several SELECTs of a dot command.
Selects(n) == [m \in 1..n |-> Select]

\* They are one text that is not empty, or several SELECTs.
IsBatch(statements) ==
  \/ \E x \in Seq(Unit) : x # <<>> /\ statements = <<x>>
  \/ \E n \in Nat \ {0} : statements = Selects(n)

LEMMA SelectsTyped ==
  /\ Select \in Seq(Unit)
  /\ \A arg \in Seq(Unit) : SelectWhere(arg) \in Seq(Unit) /\ SelectFrom(arg) \in Seq(Unit)
  <1>1. {"SELECT", "WHERE", "other", "semi", "quote", "double"} \subseteq Unit
    BY CommandWordsAssumption DEF Unit, Marks
  <1>2. /\ Select \in Seq(Unit)
        /\ <<"SELECT", "WHERE", "quote">> \in Seq(Unit) /\ <<"quote", "semi">> \in Seq(Unit)
        /\ <<"SELECT", "double">> \in Seq(Unit) /\ <<"double", "semi">> \in Seq(Unit)
    BY <1>1 DEF Select
  <1>3. \A a, b, c \in Seq(Unit) : a \o b \o c \in Seq(Unit)
    BY ConcatFacts
  <1> QED
    BY <1>2, <1>3 DEF SelectWhere, SelectFrom

LEMMA SelectsAreTexts ==
  ASSUME NEW n \in Nat
  PROVE  /\ Selects(n) \in Seq(Seq(Unit)) /\ Len(Selects(n)) = n
         /\ \A m \in 1..n : Selects(n)[m] = Select
<1>1. Select \in Seq(Unit)
  BY SelectsTyped
<1>. QED
  BY <1>1 DEF Selects

LEMMA BatchRunnable ==
  ASSUME NEW statements, IsBatch(statements)
  PROVE  Runnable(statements)
  <1>1. ASSUME NEW x \in Seq(Unit), statements = <<x>>
        PROVE  Runnable(statements)
    BY <1>1 DEF Runnable
  <1>2. ASSUME NEW n \in Nat \ {0}, statements = Selects(n)
        PROVE  Runnable(statements)
    <2>1. Selects(n) \in Seq(Seq(Unit)) /\ Len(Selects(n)) = n
      BY SelectsAreTexts
    <2>2. Len(Selects(n)) # 0
      BY <2>1
    <2> HIDE DEF Runnable
    <2>3. Selects(n) # <<>>
      BY <2>2
    <2> QED
      BY <1>2, <2>1, <2>3 DEF Runnable
  <1> QED
    BY <1>1, <1>2 DEF IsBatch

LEMMA DotCommandBatch ==
  ASSUME NEW t \in Seq(Unit), NEW e, handleDotCommand(t, e).kind = "sql"
  PROVE  IsBatch(handleDotCommand(t, e).statements)
  <1> DEFINE stop == Least({n \in 1..Len(t) : t[n] \in Blank}, Len(t) + 1)
             arg == Trim(SubSeq(t, stop, Len(t)))
  <1>2. PICK l : l \in Nat /\ l = Len(t)
    <2>1. Len(t) \in Nat
      OBVIOUS
    <2> QED
      BY <2>1
  <1>3. stop \in 1..(l + 1)
    <2> DEFINE T == {n \in 1..l : t[n] \in Blank}
    <2>1. T \subseteq 1..(l + 1) /\ 1 \in Nat /\ l + 1 \in Nat /\ 1 <= l + 1
      BY <1>2
    <2>2. Least(T, l + 1) \in 1..(l + 1)
      <3> HIDE DEF T
      <3> QED
        BY <2>1, LeastWithin
    <2> QED
      BY <1>2, <2>2
  <1>4. arg \in Seq(Unit)
    <2>1. SubSeq(t, stop, l) \in Seq(Unit)
      <3> HIDE DEF stop
      <3>1. stop \in Int /\ l \in Int /\ stop >= 1 /\ l <= Len(t) /\ stop <= l + 1
        BY <1>2, <1>3
      <3> QED
        BY <3>1, SubSeqFacts
    <2> HIDE DEF stop
    <2> QED
      BY <1>2, <2>1, TrimTyped
  <1>6. IsBatch(Selects(3)) /\ IsBatch(Selects(4))
    <2>1. 3 \in Nat \ {0} /\ 4 \in Nat \ {0}
      OBVIOUS
    <2> QED
      BY <2>1 DEF IsBatch
  <1>7. IsBatch(<<Select>>) /\ IsBatch(<<SelectWhere(arg)>>) /\ IsBatch(<<SelectFrom(arg)>>)
    <2> HIDE DEF arg
    <2>1. \A a \in Seq(Unit) : SelectWhere(a) # <<>> /\ SelectFrom(a) # <<>>
      <3>1. {"SELECT", "WHERE", "other", "semi", "quote", "double"} \subseteq Unit
        BY CommandWordsAssumption DEF Unit, Marks
      <3>2. ASSUME NEW a \in Seq(Unit)
            PROVE  SelectWhere(a) # <<>> /\ SelectFrom(a) # <<>>
        <4>1. /\ <<"SELECT", "WHERE", "quote">> \in Seq(Unit) /\ Len(<<"SELECT", "WHERE", "quote">>) = 3
              /\ <<"quote", "semi">> \in Seq(Unit) /\ Len(<<"quote", "semi">>) = 2
              /\ <<"SELECT", "double">> \in Seq(Unit) /\ Len(<<"SELECT", "double">>) = 2
              /\ <<"double", "semi">> \in Seq(Unit) /\ Len(<<"double", "semi">>) = 2
          BY <3>1
        <4>2. \A b, c \in Seq(Unit) : b \o c \in Seq(Unit) /\ Len(b \o c) = Len(b) + Len(c)
          BY ConcatFacts
        <4>3. Len(a) \in Nat
          OBVIOUS
        <4>4. Len(SelectWhere(a)) = 3 + Len(a) + 2 /\ Len(SelectFrom(a)) = 2 + Len(a) + 2
          BY <4>1, <4>2 DEF SelectWhere, SelectFrom
        <4>5. Len(SelectWhere(a)) # 0 /\ Len(SelectFrom(a)) # 0
          BY <4>3, <4>4
        <4> QED
          BY <4>5
      <3> QED
        BY <3>2
    <2>2. Select # <<>>
      BY DEF Select
    <2>3. Select \in Seq(Unit) /\ SelectWhere(arg) \in Seq(Unit) /\ SelectFrom(arg) \in Seq(Unit)
      BY <1>4, SelectsTyped
    <2>4. SelectWhere(arg) # <<>> /\ SelectFrom(arg) # <<>>
      BY <1>4, <2>1
    <2> QED
      BY <2>2, <2>3, <2>4 DEF IsBatch
  <1>8. PICK one, maybe, where, from, many, moving, clear, message :
          /\ one = [kind |-> "sql", statements |-> <<Select>>]
          /\ maybe = [kind |-> "sql",
                      statements |-> <<IF arg = <<>> THEN Select ELSE SelectWhere(arg)>>]
          /\ where = [kind |-> "sql", statements |-> <<SelectWhere(arg)>>]
          /\ from = [kind |-> "sql", statements |-> <<SelectFrom(arg)>>]
          /\ many = [kind |-> "sql",
                     statements |-> [m \in 1..(IF e = "Postgres" THEN 3 ELSE 4) |-> Select]]
          /\ moving = [kind |-> "reconnecting", statements |-> <<>>]
          /\ clear = [kind |-> "cleared", statements |-> <<>>]
          /\ message = [kind |-> "message", statements |-> <<>>]
    OBVIOUS
  <1> DEFINE command == IF stop = 3 THEN t[2] ELSE ""
  <1>9. handleDotCommand(t, e) =
          CASE command \in PlainCommands -> one
            [] command \in OptionalArgument -> maybe
            [] command \in LiteralArgument /\ arg # <<>> -> where
            [] command \in NameArgument /\ arg # <<>> -> from
            [] command = "dbinfo" -> many
            [] command \in PostgresLists /\ e = "Postgres" -> one
            [] command = "journal" /\ e = "Sqlite" -> one
            [] command \in Switches /\ e = "Postgres" /\ arg # <<>> -> moving
            [] command = "clear" -> clear
            [] OTHER -> message
    BY <1>8 DEF handleDotCommand
  <1> HIDE DEF command, arg
  <1>10. handleDotCommand(t, e) \in {one, maybe, where, from, many, moving, clear, message}
    BY <1>9
  <1>11. \A d \in {one, maybe, where, from, many} : IsBatch(d.statements)
    <2>1. IsBatch(one.statements) /\ IsBatch(where.statements) /\ IsBatch(from.statements)
      BY <1>7, <1>8
    <2>2. IsBatch(maybe.statements)
      <3>1. maybe.statements = <<IF arg = <<>> THEN Select ELSE SelectWhere(arg)>>
        BY <1>8
      <3>2. CASE arg = <<>>
        BY <1>7, <3>1, <3>2
      <3>3. CASE arg # <<>>
        BY <1>7, <3>1, <3>3
      <3> QED
        BY <3>2, <3>3
    <2>3. IsBatch(many.statements)
      <3>1. many.statements = Selects(IF e = "Postgres" THEN 3 ELSE 4)
        BY <1>8 DEF Selects
      <3>2. CASE e = "Postgres"
        BY <1>6, <3>1, <3>2
      <3>3. CASE e # "Postgres"
        BY <1>6, <3>1, <3>3
      <3> QED
        BY <3>2, <3>3
    <2> QED
      BY <2>1, <2>2, <2>3
  <1>12. moving.kind # "sql" /\ clear.kind # "sql" /\ message.kind # "sql"
    BY <1>8
  <1> QED
    BY <1>10, <1>11, <1>12

\* f[n] is what is joined of the first n statements.
JoinedBy(statements, f) ==
  /\ f \in [0..Len(statements) -> Seq(Unit)]
  /\ Joined(statements) = f[Len(statements)]
  /\ \A n \in 1..Len(statements) :
       f[n] = IF n = 1 THEN statements[1] ELSE f[n - 1] \o <<"newline">> \o statements[n]

LEMMA JoinedSteps ==
  ASSUME NEW statements \in Seq(Seq(Unit))
  PROVE  \E f : JoinedBy(statements, f)
  <1>1. PICK l : l \in Nat /\ l = Len(statements)
    <2>1. Len(statements) \in Nat
      OBVIOUS
    <2> QED
      BY <2>1
  <1>2. PICK S, none : S = Seq(Unit) /\ none = <<>> /\ none \in S
    <2>1. <<>> \in Seq(Unit)
      OBVIOUS
    <2> QED
      BY <2>1
  <1>3. PICK line : line = <<"newline">> /\ line \in S
    <2>1. "newline" \in Unit
      BY DEF Unit, Marks
    <2>2. <<"newline">> \in Seq(Unit)
      BY <2>1
    <2> QED
      BY <1>2, <2>2
  <1>4. \A n \in 1..l : statements[n] \in S
    BY <1>1, <1>2
  <1>5. \A a, b \in S : a \o line \o b \in S
    BY <1>2, <1>3, ConcatFacts
  <1> DEFINE step == [n \in 1..l |->
                        [s \in S |-> IF n = 1 THEN statements[1] ELSE s \o line \o statements[n]]]
  <1>6. step \in [1..l -> [S -> S]]
    BY <1>4, <1>5
  <1> DEFINE Is(f) == f = [n \in 0..Len(statements) |->
                             IF n = 0 THEN <<>>
                             ELSE IF n = 1 THEN statements[1]
                             ELSE f[n - 1] \o <<"newline">> \o statements[n]]
  <1>7. PICK f : Iterates(f, l, S, none, step)
    <2> HIDE DEF step
    <2> QED
      BY <1>1, <1>2, <1>6, IterationExists
  <1>8. Is(f)
    <2>1. f \in [0..l -> S] /\ f[0] = none /\ \A n \in 1..l : f[n] = step[n][f[n - 1]]
      BY <1>7 DEF Iterates
    <2>2. \A n \in 1..l : f[n] = IF n = 1 THEN statements[1] ELSE f[n - 1] \o line \o statements[n]
      <3>1. \A n \in 1..l : f[n - 1] \in S
        <4>1. \A n \in 1..l : n - 1 \in 0..l
          BY <1>1
        <4> QED
          BY <2>1, <4>1
      <3> QED
        BY <2>1, <3>1
    <2>3. \A n \in 0..l : n = 0 \/ (n \in 1..l /\ n # 0)
      BY <1>1
    <2>4. \A n \in 0..l : f[n] = IF n = 0 THEN none
                                 ELSE IF n = 1 THEN statements[1]
                                 ELSE f[n - 1] \o line \o statements[n]
      BY <2>1, <2>2, <2>3
    <2>5. f = [n \in 0..l |-> IF n = 0 THEN none
                              ELSE IF n = 1 THEN statements[1]
                              ELSE f[n - 1] \o line \o statements[n]]
      BY <2>1, <2>4
    <2> QED
      BY <1>1, <1>2, <1>3, <2>5
  <1> DEFINE upTo == CHOOSE g : Is(g)
  <1>9. Is(upTo)
    <2> HIDE DEF Is
    <2> QED
      BY <1>8
  <1>10. Joined(statements) = upTo[Len(statements)]
    BY DEF Joined
  <1> HIDE DEF upTo
  <1> DEFINE P == {n \in 0..l : upTo[n] \in S}
  <1>11. 0 \in P
    BY <1>1, <1>2, <1>9
  <1>14. \A n \in 1..l :
          upTo[n] = IF n = 1 THEN statements[1] ELSE upTo[n - 1] \o line \o statements[n]
    <2> TAKE n \in 1..l
    <2>1. n \in 0..Len(statements) /\ n # 0
      BY <1>1
    <2> QED
      BY <1>3, <1>9, <2>1
  <1>12. ASSUME NEW n \in 1..l, n - 1 \in P PROVE n \in P
    <2>1. upTo[n] = IF n = 1 THEN statements[1] ELSE upTo[n - 1] \o line \o statements[n]
      BY <1>14
    <2>2. upTo[n - 1] \in S /\ n \in 0..l /\ statements[n] \in S /\ statements[1] \in S
      <3>1. 1 \in 1..l
        BY <1>1
      <3> QED
        BY <1>4, <1>12, <3>1
    <2>3. upTo[n - 1] \o line \o statements[n] \in S
      BY <1>5, <2>2
    <2> QED
      BY <2>1, <2>2, <2>3
  <1>13. \A n \in 0..l : upTo[n] \in S
    <2>1. \A n \in 0..l : n \in P
      <3> HIDE DEF P
      <3> QED
        BY <1>1, <1>11, <1>12, InductionUpTo
    <2> QED
      BY <2>1
  <1>15. upTo \in [0..l -> S]
    BY <1>1, <1>9, <1>13
  <1> QED
    BY <1>1, <1>2, <1>3, <1>10, <1>14, <1>15 DEF JoinedBy

LEMMA JoinedTyped ==
  ASSUME NEW statements \in Seq(Seq(Unit))
  PROVE  Joined(statements) \in Seq(Unit)
  <1>1. PICK f : JoinedBy(statements, f)
    BY JoinedSteps
  <1>2. Len(statements) \in 0..Len(statements)
    OBVIOUS
  <1> QED
    BY <1>1, <1>2 DEF JoinedBy

\* No segment ends after its text.
LEMMA SegmentsWithin ==
  ASSUME SplitInv
  PROVE  \A n \in 1..Len(segs) : segs[n] \in Segment /\ segs[n].start <= segs[n].end
                                   /\ segs[n].end <= Len(sql)
  <1>1. PICK l, m : l \in Nat /\ l = Len(segs) /\ m \in Nat /\ m = Len(sql)
    <2>1. Len(segs) \in Nat /\ Len(sql) \in Nat
      BY DEF SplitInv, SplitTypeOK
    <2> QED
      BY <2>1
  <1>2. \A n \in 1..l : segs[n] \in Segment /\ segs[n].start <= segs[n].end
    BY <1>1 DEF SplitInv, SplitTypeOK, Partition, Tiled
  <1>3. \A n \in 1..l : segs[n].start \in Nat /\ segs[n].end \in Nat
    BY <1>2 DEF Segment
  <1> DEFINE P == {n \in 0..l : n = 0 \/ segs[n].end <= m}
  <1>4. l \in P
    <2>1. segmentStart <= m
      BY <1>1 DEF SplitInv, SplitTypeOK, InBounds
    <2>2. l # 0 => segmentStart = segs[l].end
      <3>1. segs = <<>> <=> l = 0
        BY <1>1 DEF SplitInv, SplitTypeOK
      <3> QED
        BY <1>1, <3>1 DEF SplitInv, Partition, Tiled
    <2> QED
      BY <1>1, <2>1, <2>2
  <1>5. ASSUME NEW n \in 0..(l - 1), \A k \in (n + 1)..l : k \in P
        PROVE  n \in P
    <2>1. CASE n = 0
      BY <1>1, <2>1
    <2>2. CASE n # 0
      <3>1. n + 1 \in 1..l /\ n + 1 # 1 /\ n \in 1..l
        BY <1>1, <2>2
      <3>2. segs[n + 1].start = segs[n].end
        <4>1. segs[n + 1].start = segs[n + 1 - 1].end
          BY <1>1, <3>1 DEF SplitInv, Partition, Tiled
        <4> QED
          BY <1>1, <4>1
      <3>3. segs[n + 1].end <= m
        BY <1>1, <1>5, <2>2
      <3>4. segs[n].end <= m
        BY <1>1, <1>2, <1>3, <3>1, <3>2, <3>3
      <3> QED
        BY <1>1, <3>4
    <2> QED
      BY <2>1, <2>2
  <1>6. \A n \in 0..l : n \in P
    <2> HIDE DEF P
    <2> QED
      BY <1>1, <1>4, <1>5, InductionDownFrom
  <1>7. \A n \in 1..l : segs[n].end <= m
    <2> TAKE n \in 1..l
    <2>1. n \in 0..l /\ n # 0
      BY <1>1
    <2> QED
      BY <1>6, <2>1
  <1> QED
    BY <1>1, <1>2, <1>7

LEMMA SegmentTextTyped ==
  ASSUME SplitInv, NEW n \in 1..Len(segs)
  PROVE  SegmentText(segs[n]) \in Seq(Unit)
  <1>1. sql \in Seq(Unit)
    BY DEF SplitInv, SplitTypeOK
  <1>2. PICK a, b : a = segs[n].start + 1 /\ b = segs[n].end
    OBVIOUS
  <1>3. a \in Int /\ b \in Int /\ a >= 1 /\ b <= Len(sql) /\ a <= b + 1
    BY <1>2, SegmentsWithin DEF Segment
  <1>4. SubSeq(sql, a, b) \in Seq(Unit)
    BY <1>1, <1>3, SubSeqFacts
  <1>5. Trim(SubSeq(sql, a, b)) \in Seq(Unit)
    BY <1>4, TrimTyped
  <1> QED
    BY <1>2, <1>5 DEF SegmentText, Source

LEMMA StatementsTyped ==
  ASSUME SplitInv
  PROVE  Statements \in Seq(Seq(Unit)) /\ PostgresScript \in Seq(Seq(Unit))
  <1>1. PICK S : S = Seq(Unit)
    OBVIOUS
  <1>2. [n \in 1..Len(segs) |-> SegmentText(segs[n])] \in Seq(S)
    <2>1. PICK l : l \in Nat /\ l = Len(segs)
      <3>1. Len(segs) \in Nat
        BY DEF SplitInv, SplitTypeOK
      <3> QED
        BY <3>1
    <2>2. \A n \in 1..l : SegmentText(segs[n]) \in S
      BY <1>1, <2>1, SegmentTextTyped
    <2> QED
      BY <2>1, <2>2
  <1>3. Statements \in Seq(S)
    BY <1>2, WithoutKeeps DEF Statements
  <1>4. PostgresScript \in Seq(S)
    BY <1>3, WithoutKeeps DEF PostgresScript
  <1> QED
    BY <1>1, <1>3, <1>4

\* What statementAtOffset takes is one of the segments.
LEMMA HitIsSegment ==
  ASSUME SplitInv, NEW cursor \in Nat, segs # <<>>
  PROVE  \E n \in 1..Len(segs) : HitSegment(cursor) = segs[n]
  <1>1. PICK l : l \in Nat /\ l = Len(segs) /\ l # 0
    <2>1. Len(segs) \in Nat /\ Len(segs) # 0
      BY DEF SplitInv, SplitTypeOK
    <2> QED
      BY <2>1
  <1> DEFINE holding == {n \in 1..l : segs[n].start <= cursor /\ cursor < segs[n].end}
             touching == {n \in 1..l : segs[n].start <= cursor /\ cursor <= segs[n].end}
  <1>2. \E n \in 1..l : HitSegment(cursor) = segs[n]
    <2>1. HitSegment(cursor) =
            CASE holding # {} -> segs[Least(holding, 0)]
              [] holding = {} /\ touching # {} ->
                   segs[CHOOSE n \in touching : \A o \in touching : o <= n]
              [] OTHER -> segs[l]
      BY <1>1 DEF HitSegment
    <2>2. /\ holding \in SUBSET Nat /\ holding \subseteq 1..l
          /\ touching \in SUBSET Nat /\ touching \subseteq 1..l
      OBVIOUS
    <2> HIDE DEF holding, touching
    <2>3. CASE holding # {}
      <3>1. Least(holding, 0) \in 1..l
        BY <2>2, <2>3, LeastFacts
      <3> QED
        BY <2>1, <2>3, <3>1
    <2>4. CASE holding = {} /\ touching # {}
      <3>1. \A o \in touching : o <= l
        BY <1>1, <2>2
      <3>2. \E x \in touching : \A y \in touching : y <= x
        BY <1>1, <2>2, <2>4, <3>1, GreatestNatural
      <3>3. (CHOOSE n \in touching : \A o \in touching : o <= n) \in 1..l
        BY <2>2, <3>2
      <3> QED
        BY <2>1, <2>4, <3>3
    <2>5. CASE holding = {} /\ touching = {}
      <3>1. l \in 1..l
        BY <1>1
      <3> QED
        BY <2>1, <2>5, <3>1
    <2> QED
      BY <2>3, <2>4, <2>5
  <1> QED
    BY <1>1, <1>2

\* The statement under the cursor is a text, or there is none.
LEMMA StatementAtTyped ==
  ASSUME SplitInv, NEW cursor \in Nat
  PROVE  statementAtOffset(cursor) \in Seq(Unit)
  <1>1. CASE segs = <<>>
    <2>1. statementAtOffset(cursor) = <<>>
      BY <1>1 DEF statementAtOffset
    <2> QED
      BY <2>1
  <1>2. CASE segs # <<>>
    <2>1. PICK n \in 1..Len(segs) : HitSegment(cursor) = segs[n]
      BY <1>2, HitIsSegment
    <2>2. SegmentText(segs[n]) \in Seq(Unit)
      BY SegmentTextTyped
    <2> QED
      BY <1>2, <2>1, <2>2 DEF statementAtOffset
  <1> QED
    BY <1>1, <1>2

-----------------------------------------------------------------------------
(* Every call of a command.                                                *)

SplitTyped ==
  /\ SplitInv
  /\ mode \in Modes
  /\ dollarTag \in Seq(Unit)

\* The guard has a text to classify for as long as it runs, and has classified
\* none before.
CommandTyped ==
  /\ pc \in Points
  /\ engine \in Engines
  /\ readOnly \in BOOLEAN
  /\ editor \in Seq(Unit)
  /\ picked \in BOOLEAN
  /\ batch \in Seq(Seq(Unit))
  /\ guarded \in Seq(Seq(Unit))
  /\ turn \in 0..Len(batch)
  /\ pc \in {"editing", "at_cursor"} => turn = 0
  /\ pc = "guard" => Runnable(batch) /\ turn < Len(batch)

ResultTyped ==
  /\ script \in Seq(Seq(Unit))
  /\ outcomes \in Seq(Outcome)
  /\ shown \in 0..Len(outcomes)
  /\ result \in {"none", "Query", "Mutation", "Error"}

TypeInv == SplitTyped /\ CommandTyped /\ ResultTyped

LEMMA CallStarts ==
  ASSUME NEW t \in Seq(Unit), Call(t)
  PROVE  SplitTyped'
  <1>1. <<>> \in Seq(Segment) /\ <<>> \in Seq(Unit) /\ Len(t) \in Nat
    OBVIOUS
  <1>2. SplitTypeOK' /\ InBounds'
    BY <1>1 DEF Call, SplitTypeOK, InBounds
  <1>3. Partition'
    BY DEF Call, Partition, Tiled, Cuts
  <1> QED
    BY <1>1, <1>2, <1>3 DEF Call, SplitTyped, SplitInv, Modes

LEMMA SplitStays ==
  ASSUME SplitTyped, UNCHANGED splitVars
  PROVE  SplitTyped'
  <1>1. SplitInv'
    BY StepInvariant DEF SplitTyped
  <1> QED
    BY <1>1 DEF SplitTyped, splitVars

LEMMA SplitStepTyped ==
  ASSUME SplitTyped, Split
  PROVE  SplitTyped'
  <1>1. SplitInv'
    BY StepInvariant DEF SplitTyped
  <1>2. sql \in Seq(Unit) /\ i \in Nat
    BY DEF SplitTyped, SplitInv, SplitTypeOK
  <1>3. <<>> \in Seq(Unit)
    OBVIOUS
  <1>4. More => Tag \in Seq(Unit)
    BY <1>2, TagTyped DEF More, Tag
  <1>5. mode' \in Modes
    BY DEF SplitTyped, Split, Read, Modes, LineCommentOpens, InLineComment, BlockCommentOpens,
           InBlockComment, DollarQuoteOpens, DollarQuoteCloses, InDollarQuote, SingleQuote,
           InSingleQuote, Semicolon, OtherUnit, TrailingRun
  <1>6. dollarTag' = dollarTag \/ dollarTag' = <<>> \/ (More /\ dollarTag' = Tag)
    BY DEF Split, LineCommentOpens, InLineComment, BlockCommentOpens,
           InBlockComment, DollarQuoteOpens, DollarQuoteCloses, InDollarQuote, SingleQuote,
           InSingleQuote, Semicolon, OtherUnit, TrailingRun
  <1> QED
    BY <1>1, <1>3, <1>4, <1>5, <1>6 DEF SplitTyped

LEMMA FirstText ==
  ASSUME NEW statements, Runnable(statements)
  PROVE  statements[1] \in Seq(Unit) /\ 1 <= Len(statements) /\ Len(statements) \in Nat
  <1>1. PICK S : S = Seq(Unit)
    OBVIOUS
  <1>2. statements \in Seq(S) /\ statements # <<>>
    BY <1>1 DEF Runnable
  <1>3. Len(statements) \in Nat \ {0} /\ statements[1] \in S
    BY <1>2
  <1> QED
    BY <1>1, <1>3

\* runText gives the guard texts to classify, or none.
LEMMA RunTextBatch ==
  ASSUME NEW text \in Seq(Unit), runText(text)
  PROVE  \/ pc' # "guard" /\ UNCHANGED <<splitVars, batch>>
         \/ \E statements : IsBatch(statements) /\ GuardAndRun(statements)
  <1> DEFINE input == normalizeSmartCharacters(text)
             dot == handleDotCommand(input, engine)
  <1>1. input \in Seq(Unit)
    BY NormalizedTyped
  <1>2. dot.kind \in {"sql", "reconnecting", "cleared", "message"}
    BY DotCommandKinds
  <1>3. dot.kind = "sql" => IsBatch(dot.statements)
    <2> HIDE DEF input
    <2> QED
      BY <1>1, DotCommandBatch
  <1>4. input # <<>> => IsBatch(<<input>>)
    <2> HIDE DEF input
    <2> QED
      BY <1>1 DEF IsBatch
  <1>5. \/ pc' = "ignored" /\ UNCHANGED <<splitVars, batch>>
        \/ input # <<>> /\ GuardAndRun(<<input>>)
        \/ dot.kind = "sql" /\ GuardAndRun(dot.statements)
        \/ dot.kind # "sql" /\ pc' = dot.kind /\ UNCHANGED <<splitVars, batch>>
    BY DEF runText
  <1> HIDE DEF input, dot
  <1> QED
    BY <1>2, <1>3, <1>4, <1>5

LEMMA RunTextTyped ==
  ASSUME SplitTyped, batch \in Seq(Seq(Unit)), NEW text \in Seq(Unit), runText(text)
  PROVE  /\ SplitTyped'
         /\ batch' \in Seq(Seq(Unit))
         /\ pc' = "guard" => Runnable(batch')
  <1>2. \/ pc' # "guard" /\ UNCHANGED <<splitVars, batch>>
        \/ \E statements : Runnable(statements) /\ GuardAndRun(statements)
    BY RunTextBatch, BatchRunnable
  <1>3. CASE pc' # "guard" /\ UNCHANGED <<splitVars, batch>>
    BY <1>3, SplitStays
  <1>4. ASSUME NEW statements, Runnable(statements), GuardAndRun(statements)
        PROVE  SplitTyped' /\ batch' \in Seq(Seq(Unit)) /\ Runnable(batch')
    <2>1. batch' = statements /\ Call(statements[1])
      BY <1>4 DEF GuardAndRun
    <2>2. SplitTyped'
      BY <1>4, <2>1, FirstText, CallStarts
    <2> QED
      BY <1>4, <2>1, <2>2 DEF Runnable
  <1> QED
    BY <1>2, <1>3, <1>4

LEMMA TypeInit == Init => TypeInv
  <1> SUFFICES ASSUME Init PROVE TypeInv
    OBVIOUS
  <1>1. /\ <<>> \in Seq(Unit) /\ <<>> \in Seq(Segment) /\ <<>> \in Seq(Seq(Unit))
        /\ <<>> \in Seq(Outcome)
    OBVIOUS
  <1>2. SplitTypeOK /\ InBounds
    <2>1. /\ sql = <<>> /\ i = 0 /\ segmentStart = 0 /\ segs = <<>> /\ scanning = FALSE
          /\ plain = {}
      BY DEF Init
    <2>2. sql \in Seq(Unit) /\ segs \in Seq(Segment) /\ Len(sql) = 0
      BY <1>1, <2>1
    <2>3. i <= Len(sql) /\ segmentStart <= i
      BY <2>1, <2>2
    <2> QED
      BY <2>1, <2>2, <2>3 DEF SplitTypeOK, InBounds
  <1>3. Partition
    BY DEF Init, Partition, Tiled, Cuts
  <1>4. SplitTyped
    BY <1>1, <1>2, <1>3 DEF Init, SplitTyped, SplitInv, Modes
  <1>5. editor \in Seq(Unit)
    BY TextsAssumption DEF Init
  <1>6. CommandTyped
    <2>1. /\ pc = "editing" /\ engine \in Engines /\ readOnly \in BOOLEAN /\ picked = FALSE
          /\ batch = <<>> /\ guarded = <<>> /\ turn = 0
      BY DEF Init
    <2>2. batch \in Seq(Seq(Unit)) /\ guarded \in Seq(Seq(Unit)) /\ turn \in 0..Len(batch)
      BY <1>1, <2>1
    <2>3. pc \in Points
      BY <2>1 DEF Points
    <2> QED
      BY <1>5, <2>1, <2>2, <2>3 DEF CommandTyped
  <1>7. ResultTyped
    BY <1>1 DEF Init, ResultTyped
  <1> QED
    BY <1>4, <1>6, <1>7 DEF TypeInv

\* A step of runText and what is unchanged around it.
LEMMA RunTextStepTyped ==
  ASSUME TypeInv, pc \in {"editing", "at_cursor"}, NEW text \in Seq(Unit), runText(text),
         picked' \in BOOLEAN
  PROVE  TypeInv'
  <1>1. SplitTyped' /\ batch' \in Seq(Seq(Unit)) /\ (pc' = "guard" => Runnable(batch'))
    BY RunTextTyped DEF TypeInv, CommandTyped
  <1>2. /\ pc' \in {"ignored", "guard", "reconnecting", "cleared", "message"}
        /\ UNCHANGED <<script, outcomes, shown, result>>
        /\ UNCHANGED <<engine, readOnly, editor, guarded, turn>>
    BY RunTextGoes DEF Unexecuted
  <1>3. turn' = 0
    BY <1>2 DEF TypeInv, CommandTyped
  <1>4. Len(batch') \in Nat
    BY <1>1
  <1>5. pc' = "guard" => 0 < Len(batch')
    BY <1>1, FirstText
  <1>6. CommandTyped'
    <2>1. pc' \in Points
      BY <1>2 DEF Points, Ends
    <2>2. turn' \in 0..Len(batch')
      BY <1>3, <1>4
    <2> QED
      BY <1>1, <1>2, <1>3, <1>5, <2>1, <2>2 DEF TypeInv, CommandTyped
  <1>7. ResultTyped'
    BY <1>2 DEF TypeInv, ResultTyped
  <1> QED
    BY <1>1, <1>6, <1>7 DEF TypeInv

\* The provider's own call is of the batch's texts joined.
LEMMA StartTyped ==
  ASSUME SplitTyped, batch \in Seq(Seq(Unit)), StartExecute
  PROVE  SplitTyped' /\ pc' = "provider"
  <1>1. CASE engine = "Postgres"
    <2>1. Joined(batch) \in Seq(Unit)
      BY JoinedTyped
    <2> QED
      BY <1>1, <2>1, CallStarts DEF StartExecute
  <1>2. CASE engine # "Postgres"
    BY <1>2, SplitStays DEF StartExecute
  <1> QED
    BY <1>1, <1>2

LEMMA ExecutedTyped ==
  ASSUME TypeInv, pc = "execute", NEW o \in Outcome, NEW s, Executed(o, s),
         s = shown \/ s = Len(outcomes) + 1
  PROVE  TypeInv'
  <1>1. PICK l : l \in Nat /\ l = Len(outcomes)
    <2>1. Len(outcomes) \in Nat
      BY DEF TypeInv, ResultTyped
    <2> QED
      BY <2>1
  <1>2. outcomes' \in Seq(Outcome) /\ Len(outcomes') = l + 1
    BY <1>1, Added DEF TypeInv, ResultTyped, Executed
  <1>3. shown' \in 0..Len(outcomes')
    <2>1. shown \in 0..l /\ shown' = s
      BY <1>1 DEF TypeInv, ResultTyped, Executed
    <2> QED
      BY <1>1, <1>2, <2>1
  <1>4. SplitTyped'
    BY SplitStays DEF TypeInv, Executed
  <1>5. ResultTyped'
    BY <1>2, <1>3 DEF TypeInv, ResultTyped, Executed
  <1>6. pc' \in {"execute", "done"}
    BY DEF Executed
  <1>7. CommandTyped'
    BY <1>6 DEF TypeInv, CommandTyped, Executed, Points, Ends
  <1> QED
    BY <1>4, <1>5, <1>7 DEF TypeInv

LEMMA TypeStep == TypeInv /\ [Next]_vars => TypeInv'
  <1> SUFFICES ASSUME TypeInv, [Next]_vars PROVE TypeInv'
    OBVIOUS
  <1> USE DEF TypeInv
  <1>1. CASE doRunWhole
    <2>1. pc \in {"editing", "at_cursor"} /\ runText(editor) /\ picked' \in BOOLEAN
      BY <1>1 DEF doRunWhole, CommandTyped
    <2>2. editor \in Seq(Unit)
      BY DEF CommandTyped
    <2> QED
      BY <2>1, <2>2, RunTextStepTyped
  <1>2. CASE doRunStatement
    <2>1. SplitTyped'
      BY <1>2, CallStarts DEF doRunStatement, CommandTyped
    <2>2. CommandTyped'
      BY <1>2 DEF doRunStatement, CommandTyped, Points
    <2>3. ResultTyped'
      BY <1>2 DEF doRunStatement, ResultTyped
    <2> QED
      BY <2>1, <2>2, <2>3
  <1>3. CASE RunAtCursor
    <2>1. PICK cursor \in 0..Len(editor) :
            /\ picked' = (batch' = <<statementAtOffset(cursor)>>)
            /\ runText(IF statementAtOffset(cursor) # <<>> THEN statementAtOffset(cursor)
                       ELSE editor)
      BY <1>3 DEF RunAtCursor
    <2>2. cursor \in Nat
      BY <2>1
    <2>3. PICK text : /\ text = IF statementAtOffset(cursor) # <<>>
                                THEN statementAtOffset(cursor) ELSE editor
                      /\ text \in Seq(Unit)
      BY <2>2, StatementAtTyped DEF SplitTyped, CommandTyped
    <2>4. pc \in {"editing", "at_cursor"} /\ runText(text) /\ picked' \in BOOLEAN
      BY <1>3, <2>1, <2>3 DEF RunAtCursor
    <2> QED
      BY <2>3, <2>4, RunTextStepTyped
  <1>4. CASE ClassifyNext
    <2>1. PICK l : l \in Nat /\ l = Len(batch)
      <3>1. Len(batch) \in Nat
        BY DEF CommandTyped
      <3> QED
        BY <3>1
    <2>2. /\ turn \in Nat /\ turn + 1 < l /\ turn' = turn + 1 /\ Call(batch[turn + 2])
          /\ guarded' = guarded \o Statements
          /\ UNCHANGED <<pc, engine, readOnly, editor, picked, batch, script, outcomes, shown, result>>
      BY <1>4, <2>1 DEF ClassifyNext, CommandTyped
    <2>3. batch[turn + 2] \in Seq(Unit)
      <3>1. turn + 2 \in 1..Len(batch)
        BY <2>1, <2>2
      <3>2. PICK S : S = Seq(Unit)
        OBVIOUS
      <3>3. batch \in Seq(S)
        BY <3>2 DEF CommandTyped
      <3> QED
        BY <3>1, <3>2, <3>3
    <2>4. SplitTyped'
      BY <2>2, <2>3, CallStarts
    <2>5. guarded' \in Seq(Seq(Unit))
      <3>1. Statements \in Seq(Seq(Unit))
        BY StatementsTyped DEF SplitTyped
      <3> QED
        BY <2>2, <3>1, ConcatFacts DEF CommandTyped
    <2>6. CommandTyped'
      <3>1. turn' \in 0..Len(batch') /\ turn' < Len(batch')
        BY <2>1, <2>2
      <3>2. pc' = "guard" /\ pc = "guard"
        BY <1>4, <2>2 DEF ClassifyNext
      <3> QED
        BY <2>2, <2>5, <3>1, <3>2 DEF CommandTyped
    <2>7. ResultTyped'
      BY <2>2 DEF ResultTyped
    <2> QED
      BY <2>4, <2>6, <2>7
  <1>5. CASE Decide
    <2>1. PICK l : l \in Nat /\ l = Len(batch)
      <3>1. Len(batch) \in Nat
        BY DEF CommandTyped
      <3> QED
        BY <3>1
    <2>2. /\ turn + 1 = l /\ turn' = turn + 1
          /\ guarded' = guarded \o Statements
          /\ UNCHANGED <<engine, readOnly, editor, picked, batch, script, outcomes, shown, result>>
      BY <1>5, <2>1 DEF Decide
    <2>3. \/ pc' \in {"blocked", "confirm"} /\ UNCHANGED splitVars
          \/ StartExecute
      BY <1>5 DEF Decide
    <2>4. SplitTyped' /\ pc' \in {"blocked", "confirm", "provider"}
      BY <2>3, SplitStays, StartTyped DEF CommandTyped
    <2>5. guarded' \in Seq(Seq(Unit))
      <3>1. Statements \in Seq(Seq(Unit))
        BY StatementsTyped DEF SplitTyped
      <3> QED
        BY <2>2, <3>1, ConcatFacts DEF CommandTyped
    <2>6. CommandTyped'
      <3>1. turn' \in 0..Len(batch')
        BY <2>1, <2>2
      <3>2. pc' \in Points
        BY <2>4 DEF Points, Ends
      <3> QED
        BY <2>2, <2>4, <2>5, <3>1, <3>2 DEF CommandTyped
    <2>7. ResultTyped'
      BY <2>2 DEF ResultTyped
    <2> QED
      BY <2>4, <2>6, <2>7
  <1>6. CASE Answer
    <2>1. StartExecute \/ (pc' = "declined" /\ UNCHANGED splitVars)
      BY <1>6 DEF Answer
    <2>2. SplitTyped' /\ pc' \in {"provider", "declined"}
      BY <2>1, SplitStays, StartTyped DEF CommandTyped
    <2>3. UNCHANGED <<engine, readOnly, editor, picked, batch, guarded, turn, script,
                      outcomes, shown, result>>
      BY <1>6 DEF Answer
    <2>4. CommandTyped'
      BY <2>2, <2>3 DEF CommandTyped, Points, Ends
    <2>5. ResultTyped'
      BY <2>3 DEF ResultTyped
    <2> QED
      BY <2>2, <2>4, <2>5
  <1>7. CASE Begin
    <2>1. /\ pc' = "execute"
          /\ script' = IF engine = "Postgres" THEN PostgresScript ELSE ServerStatements("Sqlite", Joined(batch))
          /\ UNCHANGED <<splitVars, engine, readOnly, editor, picked, batch, guarded, turn,
                         outcomes, shown, result>>
      BY <1>7 DEF Begin
    <2>2. PostgresScript \in Seq(Seq(Unit))
      BY StatementsTyped DEF SplitTyped
    <2>3. ServerStatements("Sqlite", Joined(batch)) \in Seq(Seq(Unit))
      BY JoinedTyped, ServerStatementsTyped DEF CommandTyped
    <2>4. script' \in Seq(Seq(Unit))
      BY <2>1, <2>2, <2>3
    <2>5. SplitTyped'
      BY <2>1, SplitStays
    <2>6. CommandTyped'
      BY <2>1 DEF CommandTyped, Points
    <2>7. ResultTyped'
      BY <2>1, <2>4 DEF ResultTyped
    <2> QED
      BY <2>5, <2>6, <2>7
  <1>8. CASE PostgresStatement
    <2>1. pc = "execute" /\ This = Len(outcomes) + 1
      BY <1>8 DEF PostgresStatement, AtStatement, This
    <2>2. Executed("rows", This) \/ Executed("command", shown) \/ Executed("error", shown)
      BY <1>8 DEF PostgresStatement
    <2> HIDE DEF TypeInv
    <2> QED
      BY <2>1, <2>2, ExecutedTyped DEF Outcome
  <1>9. CASE SqliteStatement
    <2>1. pc = "execute" /\ This = Len(outcomes) + 1
      BY <1>9 DEF SqliteStatement, AtStatement, This
    <2>2. PICK o, s : o \in Outcome /\ Executed(o, s) /\ (s = shown \/ s = This)
      <3>1. CASE Executed("error", shown)
        BY <3>1 DEF Outcome
      <3>2. ASSUME NEW ok \in BOOLEAN, NEW columns \in BOOLEAN,
                   Executed(IF ~ok THEN "error" ELSE IF columns THEN "rows" ELSE "command",
                            IF columns THEN This ELSE shown)
            PROVE  \E o, s : o \in Outcome /\ Executed(o, s) /\ (s = shown \/ s = This)
        BY <3>2 DEF Outcome
      <3> QED
        BY <1>9, <3>1, <3>2 DEF SqliteStatement
    <2> HIDE DEF TypeInv
    <2> QED
      BY <2>1, <2>2, ExecutedTyped
  <1>10. CASE Finish
    <2>1. SplitTyped'
      BY <1>10, SplitStays DEF Finish
    <2>2. CommandTyped'
      BY <1>10 DEF Finish, CommandTyped, Points, Ends
    <2>3. ResultTyped'
      BY <1>10 DEF Finish, ResultTyped
    <2> QED
      BY <2>1, <2>2, <2>3
  <1>11. CASE Split /\ UNCHANGED runVars
    <2>1. SplitTyped'
      BY <1>11, SplitStepTyped
    <2>2. CommandTyped' /\ ResultTyped'
      BY <1>11 DEF runVars, CommandTyped, ResultTyped
    <2> QED
      BY <2>1, <2>2
  <1>12. CASE UNCHANGED vars
    <2>1. UNCHANGED splitVars /\ UNCHANGED runVars
      BY <1>12 DEF vars
    <2>2. SplitTyped'
      BY <2>1, SplitStays
    <2>3. CommandTyped' /\ ResultTyped'
      BY <2>1 DEF runVars, CommandTyped, ResultTyped
    <2> QED
      BY <2>2, <2>3
  <1> QED
    BY <1>1, <1>2, <1>3, <1>4, <1>5, <1>6, <1>7, <1>8, <1>9, <1>10, <1>11, <1>12 DEF Next

\* Every text a command hands on is one: the statement cut out at the cursor, a
\* dot command's statements, the batch joined for the provider and what the
\* provider makes of it; and turn, shown and the splitter's offsets stay within
\* the lists they count in.
THEOREM ScriptTypeCorrect == Spec => []TypeOK
  <1>1. TypeInv => TypeOK
    <2>1. TypeInv => i \in 0..Len(sql)
      BY DEF TypeInv, SplitTyped, SplitInv, SplitTypeOK, InBounds
    <2> QED
      BY <2>1 DEF TypeInv, SplitTyped, SplitInv, SplitTypeOK, CommandTyped, ResultTyped,
                  Outcome, TypeOK
  <1> QED
    BY <1>1, TypeInit, TypeStep, PTL DEF Spec

\* The partition holds in every call of a command, whoever makes it: the split
\* that finds the statement at the cursor, those of the guard and the provider's.
THEOREM ScriptPartition == Spec => []Partition
  <1>1. TypeInv => Partition
    BY DEF TypeInv, SplitTyped, SplitInv
  <1> QED
    BY <1>1, TypeInit, TypeStep, PTL DEF Spec

-----------------------------------------------------------------------------
(* The stops of a text: the offsets at which a reader that steps over whole *)
(* literals stands in code.                                                *)

StopAfter(t, k) == IF Opener(t, k) = "code" THEN k + 1 ELSE LiteralEnd(t, k, 1)

HoldsStops(t, C) ==
  /\ 0 \in C
  /\ \A k \in C : k < Len(t) => StopAfter(t, k) \in C

Stops(t) == {k \in 0..Len(t) : \A C \in SUBSET (0..Len(t)) : HoldsStops(t, C) => k \in C}

LEMMA StopAfterWithin ==
  ASSUME NEW t \in Seq(Unit), NEW k \in 0..(Len(t) - 1)
  PROVE  StopAfter(t, k) \in (k + 1)..Len(t)
  <1>1. Len(t) \in Nat
    OBVIOUS
  <1>2. CASE Opener(t, k) = "code"
    BY <1>1, <1>2 DEF StopAfter
  <1>3. CASE Opener(t, k) # "code"
    BY <1>3, LiteralEndWithin DEF StopAfter
  <1> QED
    BY <1>2, <1>3

LEMMA StopsHold ==
  ASSUME NEW t \in Seq(Unit)
  PROVE  Stops(t) \subseteq 0..Len(t) /\ HoldsStops(t, Stops(t))
  <1>1. Len(t) \in Nat
    OBVIOUS
  <1>2. 0 \in Stops(t)
    BY <1>1 DEF Stops, HoldsStops
  <1>3. ASSUME NEW k \in Stops(t), k < Len(t)
        PROVE  StopAfter(t, k) \in Stops(t)
    <2>1. k \in 0..(Len(t) - 1)
      BY <1>1, <1>3 DEF Stops
    <2>2. StopAfter(t, k) \in 0..Len(t)
      BY <1>1, <2>1, StopAfterWithin
    <2>3. ASSUME NEW C \in SUBSET (0..Len(t)), HoldsStops(t, C)
          PROVE  StopAfter(t, k) \in C
      BY <1>3, <2>3 DEF Stops, HoldsStops
    <2> QED
      BY <2>2, <2>3 DEF Stops
  <1> QED
    BY <1>2, <1>3 DEF Stops, HoldsStops

\* Every stop but the first comes after another.
LEMMA StopBefore ==
  ASSUME NEW t \in Seq(Unit), NEW k \in Stops(t), k # 0
  PROVE  \E j \in Stops(t) : j < k /\ j < Len(t) /\ k = StopAfter(t, j)
  <1>1. Len(t) \in Nat /\ k \in 0..Len(t) /\ Stops(t) \subseteq 0..Len(t)
    BY StopsHold
  <1> DEFINE C == Stops(t) \ {k}
  <1>2. SUFFICES ASSUME \A j \in Stops(t) : j < Len(t) => k # StopAfter(t, j)
                 PROVE  FALSE
    <2>1. ASSUME NEW j \in Stops(t), j < Len(t), k = StopAfter(t, j)
          PROVE  j < k
      <3>1. j \in 0..(Len(t) - 1)
        BY <1>1, <2>1
      <3> QED
        BY <1>1, <2>1, <3>1, StopAfterWithin
    <2> QED
      BY <2>1
  <1>3. HoldsStops(t, C)
    BY <1>1, <1>2, StopsHold DEF HoldsStops
  <1>4. C \in SUBSET (0..Len(t))
    BY <1>1
  <1> HIDE DEF C
  <1>5. k \in C
    BY <1>3, <1>4 DEF Stops
  <1> QED
    BY <1>5 DEF C

\* There is no stop inside a literal.
LEMMA NoStopBetween ==
  ASSUME NEW t \in Seq(Unit), NEW j \in Stops(t), NEW k \in Stops(t), j < k
  PROVE  StopAfter(t, j) <= k
  <1>1. PICK l : l \in Nat /\ l = Len(t) /\ Stops(t) \subseteq 0..l
    <2>1. Len(t) \in Nat
      OBVIOUS
    <2> QED
      BY <2>1, StopsHold
  <1> DEFINE Inside(m) == \E n \in Stops(t) : n < m /\ m < StopAfter(t, n)
             T == {m \in Stops(t) : Inside(m)}
  <1> SUFFICES ASSUME T # {} PROVE FALSE
    <2>1. j \in 0..(l - 1) /\ k \in 0..l
      BY <1>1
    <2>2. StopAfter(t, j) \in Nat
      BY <1>1, <2>1, StopAfterWithin
    <2>3. StopAfter(t, j) > k => k \in T
      BY <2>1
    <2> QED
      BY <2>1, <2>2, <2>3
  <1>2. PICK m \in T : \A y \in T : m <= y
    <2>1. T \in SUBSET Nat
      BY <1>1
    <2> QED
      BY <2>1, LeastNatural
  <1>3. PICK n \in Stops(t) : n < m /\ m < StopAfter(t, n)
    BY <1>2
  <1>4. m \in 0..l /\ n \in 0..l /\ m # 0
    BY <1>1, <1>2, <1>3
  <1>5. PICK p \in Stops(t) : p < m /\ p < l /\ m = StopAfter(t, p)
    BY <1>1, <1>2, <1>4, StopBefore
  <1>6. p \in 0..l
    BY <1>1
  <1>7. CASE p = n
    BY <1>3, <1>4, <1>5, <1>7
  <1>8. CASE p < n
    <2>1. n \in T
      BY <1>3, <1>5, <1>8
    <2> QED
      BY <1>2, <1>3, <1>4, <2>1
  <1>9. CASE n < p
    <2>1. n \in 0..(l - 1)
      BY <1>1, <1>4, <1>5, <1>6, <1>9
    <2>2. StopAfter(t, n) \in Nat
      BY <1>1, <2>1, StopAfterWithin
    <2>3. p < StopAfter(t, n)
      BY <1>3, <1>4, <1>5, <1>6, <2>2
    <2>4. p \in T
      BY <1>9, <2>3
    <2> QED
      BY <1>2, <1>4, <1>5, <1>6, <2>4
  <1> QED
    BY <1>4, <1>6, <1>7, <1>8, <1>9

\* The end of a text is a stop.
LEMMA LastStop ==
  ASSUME NEW t \in Seq(Unit)
  PROVE  Len(t) \in Stops(t)
  <1>1. PICK l : l \in Nat /\ l = Len(t) /\ Stops(t) \subseteq 0..l
    <2>1. Len(t) \in Nat
      OBVIOUS
    <2> QED
      BY <2>1, StopsHold
  <1>2. PICK m \in Stops(t) : \A y \in Stops(t) : y <= m
    <2>1. Stops(t) \in SUBSET Nat /\ Stops(t) # {} /\ \A x \in Stops(t) : x <= l
      BY <1>1, StopsHold DEF HoldsStops
    <2> QED
      BY <1>1, <2>1, GreatestNatural
  <1>3. CASE m < l
    <2>1. m \in 0..(l - 1)
      BY <1>1, <1>3
    <2>2. StopAfter(t, m) \in Stops(t)
      BY <1>1, <1>3, StopsHold DEF HoldsStops
    <2>3. StopAfter(t, m) \in (m + 1)..l
      BY <1>1, <2>1, StopAfterWithin
    <2> QED
      BY <1>2, <2>1, <2>2, <2>3
  <1> QED
    BY <1>1, <1>2, <1>3

-----------------------------------------------------------------------------
(* Where the splitter's loop is.                                           *)

\* At n in mode m, with the tag it remembers, it is inside the literal of t that
\* opened at k.
InLine(t, k, n, m) ==
  /\ m = "line" /\ Opener(t, k) = "line"
  /\ \A o \in k..(n - 1) : t[o + 1] # "newline"
InBlock(t, k, n, m) ==
  /\ m = "block" /\ Opener(t, k) = "block"
  /\ \A o \in (k + 1)..(n - 1) : ~Looking(t, o, "star", "slash")
InString(t, k, n, m) ==
  /\ m = "single" /\ Opener(t, k) = "single"
  /\ QuoteEnd(t, k + 1) = QuoteEnd(t, n)
InDollar(t, k, n, m, tag) ==
  /\ m = "dollar" /\ Opener(t, k) = "dollar"
  /\ tag = DollarTag(t, k)
  /\ k + Len(tag) <= n
  /\ \A o \in (k + Len(tag))..(n - 1) : DollarTag(t, o) # tag

InLiteral(t, k, n, m, tag) ==
  InLine(t, k, n, m) \/ InBlock(t, k, n, m) \/ InString(t, k, n, m) \/ InDollar(t, k, n, m, tag)

\* In code the loop is at a stop, and in a literal past the stop it opened at.
AtStop ==
  \/ mode = "code" /\ i \in Stops(sql)
  \/ \E k \in Stops(sql) : k < i /\ InLiteral(sql, k, i, mode, dollarTag)

\* What it has taken for code: the stops behind it where nothing opens, but for
\* the newline that ends a comment.
PlainInv ==
  /\ \A k \in plain : k \in Stops(sql) /\ k < i /\ Opener(sql, k) = "code"
  /\ \A k \in Stops(sql) :
       k < i /\ Opener(sql, k) = "code" /\ sql[k + 1] # "newline" => k \in plain

\* A segment emitted for a semicolon is not empty.
CutsSolid ==
  \A n \in 1..Len(segs) : n < Len(segs) \/ scanning => segs[n].start < segs[n].end

ReadInv == AtStop /\ PlainInv /\ CutsSolid /\ (~scanning => i = Len(sql))

LEMMA TagBegins ==
  ASSUME NEW t, NEW k, DollarTag(t, k) # <<>>
  PROVE  t[k + 1] = "dollar"
  BY DEF DollarTag

LEMMA TagLonger ==
  ASSUME NEW t \in Seq(Unit), NEW k \in Nat, k < Len(t), DollarTag(t, k) # <<>>
  PROVE  Len(DollarTag(t, k)) \in Nat \ {0} /\ k + Len(DollarTag(t, k)) <= Len(t)
  <1>1. DollarTag(t, k) \in Seq(Unit)
    BY TagTyped
  <1>2. Len(DollarTag(t, k)) # 0
    BY <1>1
  <1> QED
    BY <1>2, TagInText

\* A literal being read has not ended yet.
LEMMA StillInside ==
  ASSUME NEW t \in Seq(Unit), NEW i0 \in Nat, i0 <= Len(t), NEW k \in Nat, k < i0, NEW m, NEW tag,
         InLiteral(t, k, i0, m, tag)
  PROVE  StopAfter(t, k) >= i0
  <1>1. PICK l : l \in Nat /\ l = Len(t)
    <2>1. Len(t) \in Nat
      OBVIOUS
    <2> QED
      BY <2>1
  <1>2. StopAfter(t, k) = LiteralEnd(t, k, 1)
    BY DEF StopAfter, InLiteral, InLine, InBlock, InString, InDollar
  <1>3. CASE InLine(t, k, i0, m)
    <2> DEFINE T == {j \in k..(l - 1) : t[j + 1] = "newline"}
    <2>1. T \subseteq i0..l
      BY <1>1, <1>3 DEF InLine
    <2>2. Least(T, l) \in i0..l
      <3> HIDE DEF T
      <3> QED
        BY <1>1, <2>1, LeastWithin
    <2>3. LiteralEnd(t, k, 1) = Least(T, l)
      BY <1>1, <1>3 DEF InLine, LiteralEnd, LineEnd
    <2> QED
      BY <1>2, <2>2, <2>3
  <1>4. CASE InBlock(t, k, i0, m)
    <2> DEFINE T == {j + 2 : j \in {n \in (k + 1)..(l - 2) : Looking(t, n, "star", "slash")}}
    <2>1. T \subseteq i0..l
      BY <1>1, <1>4 DEF InBlock
    <2>2. Least(T, l) \in i0..l
      <3> HIDE DEF T
      <3> QED
        BY <1>1, <2>1, LeastWithin
    <2>3. LiteralEnd(t, k, 1) = Least(T, l)
      BY <1>1, <1>4 DEF InBlock, LiteralEnd, BlockEnd
    <2> QED
      BY <1>2, <2>2, <2>3
  <1>5. CASE InString(t, k, i0, m)
    <2>1. LiteralEnd(t, k, 1) = QuoteEnd(t, i0)
      BY <1>5 DEF InString, LiteralEnd
    <2>2. QuoteEnd(t, i0) \in i0..l
      BY <1>1, QuoteEndWithin
    <2> QED
      BY <1>2, <2>1, <2>2
  <1>6. CASE InDollar(t, k, i0, m, tag)
    <2>1. PICK w : w = Len(tag) /\ w \in Nat \ {0}
      <3>1. DollarTag(t, k) # <<>> /\ tag = DollarTag(t, k) /\ k < Len(t)
        BY <1>1, <1>6 DEF InDollar, Opener
      <3>2. Len(DollarTag(t, k)) \in Nat \ {0}
        BY <3>1, TagLonger
      <3> QED
        BY <3>1, <3>2
    <2> DEFINE T == {j + w : j \in {n \in (k + w)..(l - 1) : DollarTag(t, n) = tag}}
    <2>2. ASSUME NEW n \in (k + w)..(l - 1), DollarTag(t, n) = tag
          PROVE  n + w \in i0..l
      <3>1. n \notin (k + w)..(i0 - 1)
        BY <1>6, <2>1, <2>2 DEF InDollar
      <3>2. n \in Nat /\ n < Len(t) /\ n >= i0
        BY <1>1, <2>1, <3>1
      <3>3. DollarTag(t, n) # <<>>
        BY <1>6, <2>2 DEF InDollar, Opener
      <3>4. n + Len(DollarTag(t, n)) <= Len(t)
        BY <3>2, <3>3, TagLonger
      <3> QED
        BY <1>1, <2>1, <2>2, <3>2, <3>4
    <2>3. T \subseteq i0..l
      BY <2>2
    <2>4. Least(T, l) \in i0..l
      <3> HIDE DEF T
      <3> QED
        BY <1>1, <2>3, LeastWithin
    <2>5. LiteralEnd(t, k, 1) = Least(T, l)
      <3>1. tag = DollarTag(t, k) /\ Opener(t, k) = "dollar"
        BY <1>6 DEF InDollar
      <3> QED
        BY <1>1, <2>1, <3>1 DEF LiteralEnd, DollarEnd
    <2> QED
      BY <1>2, <2>4, <2>5
  <1> QED
    BY <1>3, <1>4, <1>5, <1>6 DEF InLiteral

\* A step that reads on within a literal, or opens one, meets no other stop.
LEMMA ReadOnInside ==
  ASSUME SplitTypeOK, PlainInv, NEW k \in Stops(sql), k <= i, i <= i', i' <= Len(sql), i' \in Nat,
         k < i', k < i \/ Opener(sql, k) # "code",
         UNCHANGED <<sql, plain>>, InLiteral(sql, k, i', mode', dollarTag')
  PROVE  AtStop' /\ PlainInv'
  <1>1. sql \in Seq(Unit) /\ i \in Nat /\ Stops(sql) \subseteq 0..Len(sql) /\ k \in Nat
    BY StopsHold DEF SplitTypeOK
  <1>2. StopAfter(sql, k) >= i'
    BY <1>1, StillInside
  <1>3. AtStop'
    BY DEF AtStop
  <1>4. ASSUME NEW m \in Stops(sql), m < i', Opener(sql, m) = "code" PROVE m < i
    <2>1. m \in Nat
      BY <1>1
    <2>2. CASE m <= k
      BY <1>1, <1>4, <2>1, <2>2
    <2>3. CASE k < m
      <3>1. StopAfter(sql, k) <= m
        BY <2>3, <1>1, NoStopBetween
      <3>2. StopAfter(sql, k) \in Nat
        <4>1. k \in 0..(Len(sql) - 1)
          BY <1>1
        <4> QED
          BY <1>1, <4>1, StopAfterWithin
      <3> QED
        BY <1>2, <1>4, <2>1, <3>1, <3>2
    <2> QED
      BY <1>1, <2>1, <2>2, <2>3
  <1>5. ASSUME NEW m \in Stops(sql), m < i PROVE m < i'
    BY <1>1, <1>5
  <1>6. PlainInv'
    BY <1>4, <1>5 DEF PlainInv
  <1> QED
    BY <1>3, <1>6

\* A step that ends a literal goes on at the stop after it.
LEMMA ReadOut ==
  ASSUME SplitTypeOK, PlainInv, NEW k \in Stops(sql), k < i, k < Len(sql), i <= i', i' \in Nat,
         Opener(sql, k) # "code", StopAfter(sql, k) = i', mode' = "code", UNCHANGED <<sql, plain>>
  PROVE  AtStop' /\ PlainInv'
  <1>1. sql \in Seq(Unit) /\ i \in Nat /\ Stops(sql) \subseteq 0..Len(sql) /\ k \in Nat
    BY StopsHold DEF SplitTypeOK
  <1>2. AtStop'
    <2>1. StopAfter(sql, k) \in Stops(sql)
      BY <1>1, StopsHold DEF HoldsStops
    <2> QED
      BY <2>1 DEF AtStop
  <1>3. ASSUME NEW m \in Stops(sql), m < i', Opener(sql, m) = "code" PROVE m < i
    <2>1. m \in Nat
      BY <1>1
    <2>2. CASE m <= k
      BY <1>1, <2>1, <2>2
    <2>3. CASE k < m
      <3>1. StopAfter(sql, k) <= m
        BY <2>3, <1>1, NoStopBetween
      <3> QED
        BY <1>3, <2>1, <3>1
    <2> QED
      BY <1>1, <2>1, <2>2, <2>3
  <1>4. ASSUME NEW m \in Stops(sql), m < i PROVE m < i'
    BY <1>1, <1>4
  <1>5. PlainInv'
    BY <1>3, <1>4 DEF PlainInv
  <1> QED
    BY <1>2, <1>5

LEMMA WhereItIs ==
  ASSUME AtStop
  PROVE  /\ mode = "code" => i \in Stops(sql)
         /\ mode = "line" => \E k \in Stops(sql) : k < i /\ InLine(sql, k, i, mode)
         /\ mode = "block" => \E k \in Stops(sql) : k < i /\ InBlock(sql, k, i, mode)
         /\ mode = "single" => \E k \in Stops(sql) : k < i /\ InString(sql, k, i, mode)
         /\ mode = "dollar" => \E k \in Stops(sql) : k < i /\ InDollar(sql, k, i, mode, dollarTag)
  BY DEF AtStop, InLiteral, InLine, InBlock, InString, InDollar

\* The least of a set of offsets is the one that no other is below.
LEMMA LeastIs ==
  ASSUME NEW T \in SUBSET Nat, NEW e, NEW x \in T, \A y \in T : x <= y
  PROVE  Least(T, e) = x
  <1>1. Least(T, e) \in T /\ Least(T, e) <= x
    BY LeastFacts
  <1>2. Least(T, e) \in Nat /\ x \in Nat /\ x <= Least(T, e)
    BY <1>1
  <1> QED
    BY <1>1, <1>2

\* What opens a literal is told by its first unit.
LEMMA Openers ==
  ASSUME NEW t, NEW k
  PROVE  /\ Looking(t, k, "dash", "dash") => Opener(t, k) = "line"
         /\ Looking(t, k, "slash", "star") => Opener(t, k) = "block"
         /\ t[k + 1] = "quote" => Opener(t, k) = "single"
         /\ DollarTag(t, k) # <<>> => Opener(t, k) = "dollar"
         /\ (t[k + 1] \notin {"dash", "slash", "quote", "dollar"}) => Opener(t, k) = "code"
  <1>1. /\ Looking(t, k, "dash", "dash") => t[k + 1] = "dash"
        /\ Looking(t, k, "slash", "star") => t[k + 1] = "slash"
        /\ DollarTag(t, k) # <<>> => t[k + 1] = "dollar"
    BY TagBegins DEF Looking
  <1>2. CASE t[k + 1] = "dash"
    BY <1>1, <1>2 DEF Opener
  <1>3. CASE t[k + 1] = "slash"
    BY <1>1, <1>3 DEF Opener
  <1>4. CASE t[k + 1] = "quote"
    BY <1>1, <1>4 DEF Opener
  <1>5. CASE t[k + 1] = "dollar"
    BY <1>1, <1>5 DEF Opener
  <1>6. CASE t[k + 1] \notin {"dash", "slash", "quote", "dollar"}
    BY <1>1, <1>6 DEF Opener
  <1> QED
    BY <1>2, <1>3, <1>4, <1>5, <1>6

LEMMA LineSteps ==
  ASSUME SplitInv, ReadInv, LineCommentOpens \/ InLineComment \/ BlockCommentOpens \/ InBlockComment
  PROVE  AtStop' /\ PlainInv'
  <1>0. /\ sql \in Seq(Unit) /\ i \in Nat /\ SplitTypeOK /\ PlainInv /\ AtStop
        /\ Stops(sql) \subseteq 0..Len(sql)
    BY StopsHold DEF SplitInv, SplitTypeOK, ReadInv
  <1>1. PICK l : l \in Nat /\ l = Len(sql) /\ i \in 0..(l - 1)
    <2>1. Len(sql) \in Nat
      BY <1>0
    <2>2. i < Len(sql)
      BY DEF More, LineCommentOpens, InLineComment, BlockCommentOpens, InBlockComment
    <2> QED
      BY <1>0, <2>1, <2>2
  <1>2. UNCHANGED <<sql, plain>>
    BY DEF LineCommentOpens, InLineComment, BlockCommentOpens, InBlockComment, Read
  <1>3. CASE LineCommentOpens
    <2>1. /\ i' = i + 1 /\ mode' = "line" /\ Looking(sql, i, "dash", "dash")
          /\ mode \in {"code", "line"}
      BY <1>3 DEF LineCommentOpens, Read
    <2>2. i' <= Len(sql) /\ i <= i' /\ i' \in Nat /\ sql[i + 1] # "newline"
      BY <1>1, <2>1 DEF Looking
    <2>3. CASE mode = "code"
      <3>1. i \in Stops(sql) /\ Opener(sql, i) = "line"
        <4>1. i \in Stops(sql)
          BY <1>0, <2>3, WhereItIs
        <4>2. Opener(sql, i) = "line"
          BY <2>1, Openers
        <4> QED
          BY <4>1, <4>2
      <3>2. InLiteral(sql, i, i', mode', dollarTag')
        BY <1>0, <2>1, <2>2, <3>1 DEF InLiteral, InLine
      <3> QED
        BY <1>0, <1>1, <1>2, <2>1, <2>2, <3>1, <3>2, ReadOnInside
    <2>4. CASE mode = "line"
      <3>1. PICK k \in Stops(sql) : k < i /\ InLine(sql, k, i, mode)
        BY <1>0, <2>4, WhereItIs
      <3>2. k \in Nat
        BY <1>0, <3>1
      <3>3. \A o \in k..(i' - 1) : o = i \/ o \in k..(i - 1)
        BY <1>0, <2>1, <3>1, <3>2
      <3>4. InLiteral(sql, k, i', mode', dollarTag')
        BY <2>1, <2>2, <3>1, <3>3 DEF InLiteral, InLine
      <3> QED
        BY <1>0, <1>1, <1>2, <2>1, <2>2, <3>1, <3>2, <3>4, ReadOnInside
    <2> QED
      BY <2>1, <2>3, <2>4
  <1>4. CASE InLineComment
    <2>1. /\ i' = i + 1 /\ mode = "line"
          /\ mode' = IF sql[i + 1] = "newline" THEN "code" ELSE "line"
      BY <1>4 DEF InLineComment, Read
    <2>2. PICK k \in Stops(sql) : k < i /\ InLine(sql, k, i, mode)
      BY <1>0, <2>1, WhereItIs
    <2>3. k \in Nat /\ i' <= Len(sql) /\ i <= i' /\ i' \in Nat /\ k < i'
      BY <1>0, <1>1, <2>1, <2>2
    <2>4. CASE sql[i + 1] # "newline"
      <3>1. \A o \in k..(i' - 1) : o = i \/ o \in k..(i - 1)
        BY <1>0, <2>1, <2>2, <2>3
      <3>2. InLiteral(sql, k, i', mode', dollarTag')
        BY <2>1, <2>2, <2>4, <3>1 DEF InLiteral, InLine
      <3> QED
        BY <1>0, <1>2, <2>2, <2>3, <3>2, ReadOnInside
    <2>5. CASE sql[i + 1] = "newline"
      <3> DEFINE T == {j \in k..(l - 1) : sql[j + 1] = "newline"}
      <3>1. T \in SUBSET Nat /\ i \in T /\ \A y \in T : i <= y
        BY <1>0, <1>1, <2>2, <2>3, <2>5 DEF InLine
      <3>2. Least(T, l) = i
        <4> HIDE DEF T
        <4> QED
          BY <3>1, LeastIs
      <3>3. StopAfter(sql, k) = i
        BY <1>1, <2>2, <3>2 DEF InLine, StopAfter, LiteralEnd, LineEnd
      <3>4. i \in Stops(sql)
        <4>1. k < Len(sql)
          BY <1>1, <2>2, <2>3
        <4> QED
          BY <1>0, <3>3, <4>1, StopsHold DEF HoldsStops
      <3>5. Opener(sql, i) = "code"
        BY <2>5, TagBegins DEF Opener, Looking
      <3>6. i + 1 \in Stops(sql)
        BY <1>0, <1>1, <3>4, <3>5, StopsHold DEF HoldsStops, StopAfter
      <3>7. AtStop'
        BY <1>2, <2>1, <2>5, <3>6 DEF AtStop
      <3>8. \A m \in Stops(sql) : m \in Nat /\ (m < i + 1 => m < i \/ m = i) /\ (m < i => m < i + 1)
        BY <1>0
      <3>9. PlainInv'
        BY <1>0, <1>2, <2>1, <2>5, <3>8 DEF PlainInv
      <3> QED
        BY <3>7, <3>9
    <2> QED
      BY <2>4, <2>5
  <1>5. CASE BlockCommentOpens
    <2>1. i' = i + 1 /\ mode = "code" /\ mode' = "block" /\ Looking(sql, i, "slash", "star")
      BY <1>5 DEF BlockCommentOpens, Read
    <2>2. i' <= Len(sql) /\ i <= i' /\ i' \in Nat /\ i < i'
      BY <1>1, <2>1
    <2>3. i \in Stops(sql) /\ Opener(sql, i) = "block"
      <3>1. i \in Stops(sql)
        BY <1>0, <2>1, WhereItIs
      <3>2. Opener(sql, i) = "block"
        BY <2>1, Openers
      <3> QED
        BY <3>1, <3>2
    <2>4. InLiteral(sql, i, i', mode', dollarTag')
      BY <1>0, <2>1, <2>3 DEF InLiteral, InBlock
    <2> QED
      BY <1>0, <1>2, <2>2, <2>3, <2>4, ReadOnInside
  <1>6. CASE InBlockComment
    <2>1. PICK k \in Stops(sql) : k < i /\ InBlock(sql, k, i, mode)
      BY <1>0, <1>6, WhereItIs DEF InBlockComment
    <2>2. k \in Nat
      BY <1>0, <2>1
    <2>3. CASE Looking(sql, i, "star", "slash")
      <3>1. i' = i + 2 /\ mode' = "code"
        BY <1>6, <2>3 DEF InBlockComment, Read
      <3> DEFINE T == {j + 2 : j \in {n \in (k + 1)..(l - 2) : Looking(sql, n, "star", "slash")}}
      <3>2. i \in (k + 1)..(l - 2)
        BY <1>0, <1>1, <2>1, <2>2, <2>3 DEF Looking
      <3>3. T \in SUBSET Nat /\ i + 2 \in T
        BY <1>1, <2>2, <2>3, <3>2
      <3>4. ASSUME NEW n \in (k + 1)..(l - 2), Looking(sql, n, "star", "slash")
            PROVE  i + 2 <= n + 2
        BY <1>0, <2>1, <2>2, <3>4 DEF InBlock
      <3>5. \A y \in T : i + 2 <= y
        BY <3>4
      <3>6. Least(T, l) = i + 2
        <4> HIDE DEF T
        <4> QED
          BY <3>3, <3>5, LeastIs
      <3>7. StopAfter(sql, k) = i' /\ Opener(sql, k) # "code"
        BY <1>1, <2>1, <3>1, <3>6 DEF InBlock, StopAfter, LiteralEnd, BlockEnd
      <3>8. i <= i' /\ i' \in Nat /\ k < Len(sql)
        BY <1>0, <1>1, <2>1, <2>2, <3>1
      <3> QED
        BY <1>0, <1>2, <2>1, <3>1, <3>7, <3>8, ReadOut
    <2>4. CASE ~Looking(sql, i, "star", "slash")
      <3>1. i' = i + 1 /\ mode' = "block"
        BY <1>6, <2>4 DEF InBlockComment, Read
      <3>2. i' <= Len(sql) /\ i <= i' /\ i' \in Nat /\ k < i'
        BY <1>1, <2>1, <2>2, <3>1
      <3>3. \A o \in (k + 1)..(i' - 1) : o = i \/ o \in (k + 1)..(i - 1)
        BY <1>0, <2>1, <2>2, <3>1
      <3>4. InLiteral(sql, k, i', mode', dollarTag')
        BY <2>1, <2>4, <3>1, <3>3 DEF InLiteral, InBlock
      <3> QED
        BY <1>0, <1>2, <2>1, <3>2, <3>4, ReadOnInside
    <2> QED
      BY <2>3, <2>4
  <1> QED
    BY <1>3, <1>4, <1>5, <1>6

LEMMA DollarSteps ==
  ASSUME SplitInv, ReadInv, DollarQuoteOpens \/ DollarQuoteCloses \/ InDollarQuote
  PROVE  AtStop' /\ PlainInv'
  <1>0. /\ sql \in Seq(Unit) /\ i \in Nat /\ SplitTypeOK /\ PlainInv /\ AtStop
        /\ Stops(sql) \subseteq 0..Len(sql)
    BY StopsHold DEF SplitInv, SplitTypeOK, ReadInv
  <1>1. PICK l : l \in Nat /\ l = Len(sql) /\ i \in 0..(l - 1)
    <2>1. Len(sql) \in Nat
      BY <1>0
    <2>2. i < Len(sql)
      BY DEF More, DollarQuoteOpens, DollarQuoteCloses, InDollarQuote
    <2> QED
      BY <1>0, <2>1, <2>2
  <1>2. UNCHANGED <<sql, plain>>
    BY DEF DollarQuoteOpens, DollarQuoteCloses, InDollarQuote, Read
  <1>3. PICK tag : tag = DollarTag(sql, i) /\ tag = Tag
    BY DEF Tag
  <1>4. tag # <<>> => Len(tag) \in Nat \ {0} /\ i + Len(tag) <= l
    <2>1. i < Len(sql)
      BY <1>1
    <2>2. DollarTag(sql, i) # <<>>
          => Len(DollarTag(sql, i)) \in Nat \ {0} /\ i + Len(DollarTag(sql, i)) <= Len(sql)
      BY <1>0, <2>1, TagLonger
    <2> QED
      BY <1>1, <1>3, <2>2
  <1>5. CASE DollarQuoteOpens
    <2>1. /\ i' = i + Len(tag) /\ mode = "code" /\ mode' = "dollar" /\ dollarTag' = tag
          /\ tag # <<>>
      BY <1>3, <1>5 DEF DollarQuoteOpens, Read
    <2>2. i' <= Len(sql) /\ i <= i' /\ i' \in Nat /\ i < i' /\ i + Len(tag) <= i'
      BY <1>0, <1>1, <1>4, <2>1
    <2>3. i \in Stops(sql) /\ Opener(sql, i) = "dollar"
      BY <1>0, <1>3, <2>1, WhereItIs, Openers
    <2>4. \A o \in (i + Len(tag))..(i' - 1) : FALSE
      BY <1>0, <1>4, <2>1
    <2>5. InLiteral(sql, i, i', mode', dollarTag')
      BY <1>3, <2>1, <2>2, <2>3, <2>4 DEF InLiteral, InDollar
    <2> QED
      BY <1>0, <1>2, <2>2, <2>3, <2>5, ReadOnInside
  <1>6. CASE mode = "dollar"
    <2>1. PICK k \in Stops(sql) : k < i /\ InDollar(sql, k, i, mode, dollarTag)
      BY <1>0, <1>6, WhereItIs
    <2>2. k \in Nat /\ k < l
      BY <1>0, <1>1, <2>1
    <2>3. DollarTag(sql, k) = dollarTag /\ dollarTag # <<>>
      BY <2>1 DEF InDollar, Opener
    <2>4. PICK w : w = Len(dollarTag) /\ w \in Nat \ {0} /\ k + w <= i
      <3>1. Len(DollarTag(sql, k)) \in Nat \ {0}
        BY <1>0, <1>1, <2>2, <2>3, TagLonger
      <3>2. k + Len(dollarTag) <= i
        BY <2>1 DEF InDollar
      <3> QED
        BY <2>3, <3>1, <3>2
    <2>5. CASE DollarQuoteCloses
      <3>1. i' = i + w /\ mode' = "code" /\ tag = dollarTag
        BY <1>3, <2>4, <2>5 DEF DollarQuoteCloses, Read
      <3> DEFINE T == {j + w : j \in {n \in (k + w)..(l - 1) : DollarTag(sql, n) = dollarTag}}
      <3>2. i \in (k + w)..(l - 1)
        BY <1>1, <2>4
      <3>3. T \in SUBSET Nat /\ i + w \in T
        <4>1. DollarTag(sql, i) = dollarTag
          BY <1>3, <3>1
        <4>2. w \in Nat
          BY <2>4
        <4>3. \A n \in (k + w)..(l - 1) : n \in Nat /\ n + w \in Nat
          BY <1>1, <2>2, <4>2
        <4>4. T \in SUBSET Nat
          BY <4>3
        <4>5. i + w \in T
          BY <3>2, <4>1
        <4> QED
          BY <4>4, <4>5
      <3>4. ASSUME NEW n \in (k + w)..(l - 1), DollarTag(sql, n) = dollarTag
            PROVE  i + w <= n + w
        <4>1. n \notin (k + w)..(i - 1)
          BY <2>1, <2>4, <3>4 DEF InDollar
        <4> QED
          BY <1>0, <2>2, <2>4, <4>1
      <3>5. \A y \in T : i + w <= y
        BY <3>4
      <3>6. Least(T, l) = i + w
        <4> HIDE DEF T
        <4> QED
          BY <3>3, <3>5, LeastIs
      <3>7. Opener(sql, k) = "dollar"
        BY <2>1 DEF InDollar
      <3>8. DollarEnd(sql, k) = Least(T, l)
        BY <1>1, <2>3, <2>4 DEF DollarEnd
      <3>9. StopAfter(sql, k) = i' /\ Opener(sql, k) # "code"
        BY <3>1, <3>6, <3>7, <3>8 DEF StopAfter, LiteralEnd
      <3>10. i <= i' /\ i' \in Nat /\ k < Len(sql)
        BY <1>0, <1>1, <2>2, <2>4, <3>1
      <3> QED
        BY <1>0, <1>2, <2>1, <3>1, <3>9, <3>10, ReadOut
    <2>6. CASE InDollarQuote
      <3>1. /\ i' = i + 1 /\ mode' = "dollar" /\ dollarTag' = dollarTag
            /\ tag = <<>> \/ tag # dollarTag
        BY <1>3, <2>6 DEF InDollarQuote, Read
      <3>2. i' <= Len(sql) /\ i <= i' /\ i' \in Nat /\ k < i' /\ k + w <= i'
        BY <1>0, <1>1, <2>1, <2>2, <2>4, <3>1
      <3>3. DollarTag(sql, i) # dollarTag
        BY <1>3, <2>3, <3>1
      <3>4. \A o \in (k + w)..(i' - 1) : o = i \/ o \in (k + w)..(i - 1)
        BY <1>0, <2>2, <2>4, <3>1
      <3>5. \A o \in (k + w)..(i' - 1) : DollarTag(sql, o) # dollarTag
        BY <2>1, <2>4, <3>3, <3>4 DEF InDollar
      <3>6. InLiteral(sql, k, i', mode', dollarTag')
        BY <2>1, <2>4, <3>1, <3>2, <3>5 DEF InLiteral, InDollar
      <3> QED
        BY <1>0, <1>2, <2>1, <3>2, <3>6, ReadOnInside
    <2>7. ~DollarQuoteOpens
      BY <1>6 DEF DollarQuoteOpens
    <2> QED
      BY <2>5, <2>6, <2>7
  <1> QED
    BY <1>5, <1>6 DEF DollarQuoteCloses, InDollarQuote

LEMMA StringSteps ==
  ASSUME SplitInv, ReadInv, SingleQuote \/ InSingleQuote
  PROVE  AtStop' /\ PlainInv'
  <1>0. /\ sql \in Seq(Unit) /\ i \in Nat /\ SplitTypeOK /\ PlainInv /\ AtStop
        /\ Stops(sql) \subseteq 0..Len(sql)
    BY StopsHold DEF SplitInv, SplitTypeOK, ReadInv
  <1>1. PICK l : l \in Nat /\ l = Len(sql) /\ i \in 0..(l - 1)
    <2>1. Len(sql) \in Nat
      BY <1>0
    <2>2. i < Len(sql)
      BY DEF More, SingleQuote, InSingleQuote
    <2> QED
      BY <1>0, <2>1, <2>2
  <1>2. UNCHANGED <<sql, plain>>
    BY DEF SingleQuote, InSingleQuote, Read
  <1>3. QuoteEnd(sql, i) = IF sql[i + 1] # "quote" THEN QuoteEnd(sql, i + 1)
                           ELSE IF Looking(sql, i, "quote", "quote") THEN QuoteEnd(sql, i + 2)
                           ELSE i + 1
    BY <1>0, <1>1, QuoteEndSteps
  <1>4. CASE mode = "code"
    <2>1. sql[i + 1] = "quote" /\ i' = i + 1 /\ mode' = "single"
      BY <1>4 DEF SingleQuote, InSingleQuote, Read
    <2>2. i' <= Len(sql) /\ i <= i' /\ i' \in Nat /\ i < i'
      BY <1>1, <2>1
    <2>3. i \in Stops(sql) /\ Opener(sql, i) = "single"
      BY <1>0, <1>4, <2>1, WhereItIs, Openers
    <2>4. InLiteral(sql, i, i', mode', dollarTag')
      BY <2>1, <2>3 DEF InLiteral, InString
    <2> QED
      BY <1>0, <1>2, <2>2, <2>3, <2>4, ReadOnInside
  <1>5. CASE mode = "single"
    <2>1. PICK k \in Stops(sql) : k < i /\ InString(sql, k, i, mode)
      BY <1>0, <1>5, WhereItIs
    <2>2. k \in Nat /\ k < l
      BY <1>0, <1>1, <2>1
    <2>3. Opener(sql, k) = "single" /\ QuoteEnd(sql, k + 1) = QuoteEnd(sql, i)
      BY <2>1 DEF InString
    <2>4. ASSUME mode' = "single", i' \in {i + 1, i + 2}, i' <= l, QuoteEnd(sql, i) = QuoteEnd(sql, i')
          PROVE  AtStop' /\ PlainInv'
      <3>1. i' <= Len(sql) /\ i <= i' /\ i' \in Nat /\ k < i'
        BY <1>0, <1>1, <2>1, <2>2, <2>4
      <3>2. InLiteral(sql, k, i', mode', dollarTag')
        BY <2>3, <2>4 DEF InLiteral, InString
      <3> QED
        BY <1>0, <1>2, <2>1, <3>1, <3>2, ReadOnInside
    <2>5. CASE sql[i + 1] # "quote"
      <3>1. i' = i + 1 /\ mode' = "single"
        BY <1>5, <2>5 DEF SingleQuote, InSingleQuote, Read
      <3> QED
        BY <1>1, <1>3, <2>4, <2>5, <3>1
    <2>6. CASE sql[i + 1] = "quote" /\ Looking(sql, i, "quote", "quote")
      <3>1. i' = i + 2 /\ mode' = "single"
        BY <1>5, <2>6 DEF SingleQuote, InSingleQuote, Read
      <3>2. i + 2 <= l
        BY <1>1, <2>6 DEF Looking
      <3> QED
        BY <1>3, <2>4, <2>6, <3>1, <3>2
    <2>7. CASE sql[i + 1] = "quote" /\ ~Looking(sql, i, "quote", "quote")
      <3>1. i' = i + 1 /\ mode' = "code"
        BY <1>5, <2>7 DEF SingleQuote, InSingleQuote, Read
      <3>2. StopAfter(sql, k) = i' /\ Opener(sql, k) # "code"
        BY <1>3, <2>3, <2>7, <3>1 DEF StopAfter, LiteralEnd
      <3>3. i <= i' /\ i' \in Nat /\ k < Len(sql)
        BY <1>0, <1>1, <2>2, <3>1
      <3> QED
        BY <1>0, <1>2, <2>1, <3>1, <3>2, <3>3, ReadOut
    <2> QED
      BY <2>5, <2>6, <2>7
  <1> QED
    BY <1>4, <1>5 DEF SingleQuote, InSingleQuote

LEMMA CodeSteps ==
  ASSUME SplitInv, ReadInv, Semicolon \/ OtherUnit
  PROVE  AtStop' /\ PlainInv'
  <1>0. /\ sql \in Seq(Unit) /\ i \in Nat /\ PlainInv /\ AtStop
        /\ Stops(sql) \subseteq 0..Len(sql) /\ i < Len(sql)
    BY StopsHold DEF SplitInv, SplitTypeOK, ReadInv, Semicolon, OtherUnit, AtCode, More
  <1>1. /\ mode = "code" /\ Opener(sql, i) = "code" /\ mode' = "code" /\ i' = i + 1
        /\ plain' = plain \cup {i} /\ sql' = sql
    BY DEF Semicolon, OtherUnit, AtCode, Read
  <1>2. i \in Stops(sql)
    BY <1>0, <1>1, WhereItIs
  <1>3. i + 1 \in Stops(sql)
    BY <1>0, <1>1, <1>2, StopsHold DEF HoldsStops, StopAfter
  <1>4. AtStop'
    BY <1>1, <1>3 DEF AtStop
  <1>5. \A m \in Stops(sql) : m \in Nat /\ (m < i + 1 => m < i \/ m = i) /\ (m < i => m < i + 1)
    BY <1>0
  <1>6. i < i + 1
    BY <1>0
  <1>7. PlainInv'
    BY <1>0, <1>1, <1>2, <1>5, <1>6 DEF PlainInv
  <1> QED
    BY <1>4, <1>7

LEMMA EmitSolid ==
  ASSUME SplitInv, CutsSolid, NEW e \in Nat, Emit(e), segmentStart < e \/ ~scanning'
  PROVE  CutsSolid' \/ ~scanning
  <1> SUFFICES ASSUME scanning PROVE CutsSolid'
    OBVIOUS
  <1>1. segs \in Seq(Segment) /\ segmentStart \in Nat
    BY DEF SplitInv, SplitTypeOK
  <1>2. PICK l, s : /\ l \in Nat /\ l = Len(segs)
                    /\ s = [start |-> segmentStart, end |-> e] /\ s \in Segment
    <2>1. Len(segs) \in Nat
      BY <1>1
    <2>2. [start |-> segmentStart, end |-> e] \in Segment
      BY <1>1 DEF Segment
    <2> QED
      BY <2>1, <2>2
  <1>3. segs' = Append(segs, s)
    BY <1>2 DEF Emit
  <1>4. Len(segs') = l + 1 /\ segs'[l + 1] = s /\ \A n \in 1..l : segs'[n] = segs[n]
    BY <1>1, <1>2, <1>3, AppendFacts
  <1>5. \A n \in 1..l : segs[n].start < segs[n].end
    BY <1>2 DEF CutsSolid
  <1>6. \A n \in 1..(l + 1) : n \in 1..l \/ n = l + 1
    BY <1>2
  <1>7. s.start = segmentStart /\ s.end = e
    BY <1>2
  <1>8. ASSUME NEW n \in 1..(l + 1), n < l + 1 \/ scanning'
        PROVE  segs'[n].start < segs'[n].end
    <2>1. CASE n \in 1..l
      BY <1>4, <1>5, <2>1
    <2>2. CASE n = l + 1
      BY <1>2, <1>4, <1>7, <1>8, <2>2
    <2> QED
      BY <1>6, <2>1, <2>2
  <1> QED
    BY <1>4, <1>8 DEF CutsSolid

\* Every turn of the loop keeps it.
LEMMA ReadStep ==
  ASSUME SplitInv, ReadInv, Split
  PROVE  ReadInv'
  <1>0. CutsSolid /\ AtStop /\ PlainInv /\ i \in Nat /\ segmentStart \in Nat /\ segmentStart <= i
    BY DEF ReadInv, SplitInv, SplitTypeOK, InBounds
  <1>1. CASE Semicolon
    <2>1. Emit(i + 1) /\ scanning' = scanning /\ scanning
      BY <1>1 DEF Semicolon, AtCode, More
    <2>2. CutsSolid'
      BY <1>0, <2>1, EmitSolid
    <2> QED
      BY <1>1, <2>1, <2>2, CodeSteps DEF ReadInv
  <1>2. CASE TrailingRun
    <2>1. /\ Emit(Len(sql)) /\ ~scanning' /\ scanning /\ i >= Len(sql)
          /\ UNCHANGED <<sql, i, mode, dollarTag, plain>>
      BY <1>2 DEF TrailingRun
    <2>2. Len(sql) \in Nat /\ i = Len(sql)
      BY <1>0, <2>1 DEF SplitInv, SplitTypeOK, InBounds
    <2>3. CutsSolid'
      BY <1>0, <2>1, <2>2, EmitSolid
    <2>4. AtStop' /\ PlainInv'
      BY <1>0, <2>1 DEF AtStop, PlainInv
    <2> QED
      BY <2>1, <2>2, <2>3, <2>4 DEF ReadInv
  <1>3. CASE ~Semicolon /\ ~TrailingRun
    <2>1. UNCHANGED <<segs, scanning>> /\ scanning
      BY <1>3 DEF Split, LineCommentOpens, InLineComment, BlockCommentOpens, InBlockComment,
                  DollarQuoteOpens, DollarQuoteCloses, InDollarQuote, SingleQuote, InSingleQuote,
                  OtherUnit, AtCode, More, Read
    <2>2. CutsSolid'
      BY <1>0, <2>1 DEF CutsSolid
    <2>3. AtStop' /\ PlainInv'
      BY <1>3, LineSteps, DollarSteps, StringSteps, CodeSteps DEF Split
    <2> QED
      BY <2>1, <2>2, <2>3 DEF ReadInv
  <1> QED
    BY <1>1, <1>2, <1>3

-----------------------------------------------------------------------------
(* A piece of a text, cut out of it where no literal opens across the cut.  *)

\* p is what stands in t from offset a to offset b, where t ends, goes on with
\* a blank or has had a semicolon.
IsPiece(p, t, a, b) ==
  /\ p \in Seq(Unit) /\ t \in Seq(Unit) /\ a \in Nat /\ b \in Nat
  /\ a <= b /\ b <= Len(t) /\ Len(p) = b - a
  /\ \A k \in 0..(b - a - 1) : p[k + 1] = t[a + k + 1]
  /\ b < Len(t) /\ a < b => t[b + 1] \in Blank \/ t[b] = "semi"

LEMMA PieceLooks ==
  ASSUME NEW p, NEW t, NEW a, NEW b, IsPiece(p, t, a, b), NEW k \in 0..(b - a - 1),
         NEW x, x # "semi", NEW y, y \notin Blank
  PROVE  Looking(p, k, x, y) <=> Looking(t, a + k, x, y)
  <1>1. PICK l, m : l \in Nat /\ l = Len(t) /\ m \in Nat /\ m = Len(p) /\ m = b - a
    <2>1. Len(t) \in Nat /\ Len(p) \in Nat
      BY DEF IsPiece
    <2> QED
      BY <2>1 DEF IsPiece
  <1>2. a \in Nat /\ b \in Nat /\ a < b /\ b <= l /\ k \in Nat /\ a + k < b
    BY <1>1 DEF IsPiece
  <1>3. p[k + 1] = t[a + k + 1]
    BY DEF IsPiece
  <1>4. CASE a + k + 1 < b
    <2>1. k + 1 \in 0..(b - a - 1)
      BY <1>2, <1>4
    <2>2. p[k + 1 + 1] = t[a + (k + 1) + 1]
      BY <2>1 DEF IsPiece
    <2>3. p[k + 2] = t[a + k + 2]
      BY <1>2, <2>2
    <2>4. k + 1 < m /\ a + k + 1 < l
      BY <1>1, <1>2, <1>4
    <2> QED
      BY <1>1, <1>3, <2>3, <2>4 DEF Looking
  <1>5. CASE a + k + 1 = b
    <2>1. ~Looking(p, k, x, y)
      BY <1>1, <1>2, <1>5 DEF Looking
    <2>2. ASSUME Looking(t, a + k, x, y) PROVE FALSE
      <3>1. a + k + 1 < l /\ t[a + k + 1] = x /\ t[a + k + 2] = y
        BY <1>1, <2>2 DEF Looking
      <3>2. b < l /\ t[b] = x /\ t[b + 1] = y
        BY <1>2, <1>5, <3>1
      <3>3. t[b + 1] \in Blank \/ t[b] = "semi"
        BY <1>1, <1>2, <3>2 DEF IsPiece
      <3> QED
        BY <3>2, <3>3
    <2> QED
      BY <2>1, <2>2
  <1> QED
    BY <1>2, <1>4, <1>5

Closers(t, k) == {j \in k + 1..Len(t) - 1 :
                    /\ t[j + 1] = "dollar"
                    /\ \A n \in k + 1..j - 1 : t[n + 1] \in Words}

\* A dollar tag has one closing dollar.
LEMMA TagAt ==
  ASSUME NEW t \in Seq(Unit), NEW k \in Nat
  PROVE  /\ \A j \in Closers(t, k), o \in Closers(t, k) : j = o
         /\ t[k + 1] = "dollar" => \A j \in Closers(t, k) : DollarTag(t, k) = SubSeq(t, k + 1, j + 1)
         /\ t[k + 1] # "dollar" \/ Closers(t, k) = {} => DollarTag(t, k) = <<>>
  <1>1. "dollar" \notin Words
    BY WordsAssumption DEF Marks
  <1>2. PICK l : l \in Nat /\ l = Len(t)
    <2>1. Len(t) \in Nat
      OBVIOUS
    <2> QED
      BY <2>1
  <1>3. ASSUME NEW j \in Closers(t, k), NEW o \in Closers(t, k), j < o PROVE FALSE
    <2>1. j \in k + 1..l - 1 /\ o \in k + 1..l - 1 /\ t[j + 1] = "dollar"
      BY <1>2 DEF Closers
    <2>2. j \in k + 1..o - 1
      BY <1>2, <1>3, <2>1
    <2>3. t[j + 1] \in Words
      BY <2>2 DEF Closers
    <2> QED
      BY <1>1, <2>1, <2>3
  <1>4. \A j \in Closers(t, k), o \in Closers(t, k) : j = o
    <2>1. \A j \in Closers(t, k) : j \in k + 1..l - 1
      BY <1>2 DEF Closers
    <2>2. \A j, o \in k + 1..l - 1 : j < o \/ o < j \/ j = o
      BY <1>2
    <2> QED
      BY <1>3, <2>1, <2>2
  <1>5. DollarTag(t, k) = IF t[k + 1] = "dollar" /\ Closers(t, k) # {}
                          THEN SubSeq(t, k + 1, (CHOOSE j \in Closers(t, k) : TRUE) + 1)
                          ELSE <<>>
    BY DEF DollarTag, Closers
  <1>6. ASSUME t[k + 1] = "dollar", NEW j \in Closers(t, k)
        PROVE  DollarTag(t, k) = SubSeq(t, k + 1, j + 1)
    <2>1. (CHOOSE o \in Closers(t, k) : TRUE) = j
      BY <1>4
    <2> QED
      BY <1>5, <1>6, <2>1
  <1> QED
    BY <1>4, <1>5, <1>6

LEMMA PieceTag ==
  ASSUME NEW p, NEW t, NEW a, NEW b, IsPiece(p, t, a, b), NEW k \in 0..(b - a - 1)
  PROVE  DollarTag(p, k) = DollarTag(t, a + k)
  <1>1. PICK l, m : l \in Nat /\ l = Len(t) /\ m \in Nat /\ m = Len(p) /\ m = b - a
    <2>1. Len(t) \in Nat /\ Len(p) \in Nat
      BY DEF IsPiece
    <2> QED
      BY <2>1 DEF IsPiece
  <1>2. /\ a \in Nat /\ b \in Nat /\ a < b /\ b <= l /\ k \in Nat /\ a + k < b
        /\ p \in Seq(Unit) /\ t \in Seq(Unit)
    BY <1>1 DEF IsPiece
  <1>3. \A o \in 0..(b - a - 1) : p[o + 1] = t[a + o + 1]
    BY DEF IsPiece
  <1>4. p[k + 1] = t[a + k + 1]
    BY <1>3
  <1>5. CASE t[a + k + 1] # "dollar"
    <2>1. DollarTag(t, a + k) = <<>>
      BY <1>2, <1>5, TagAt
    <2>2. DollarTag(p, k) = <<>>
      BY <1>2, <1>4, <1>5, TagAt
    <2> QED
      BY <2>1, <2>2
  <1>6. CASE t[a + k + 1] = "dollar"
    <2>1. ASSUME NEW j \in Closers(t, a + k)
          PROVE  j - a \in Closers(p, k)
      <3>1. j \in a + k + 1..l - 1 /\ t[j + 1] = "dollar" /\ \A n \in a + k + 1..j - 1 : t[n + 1] \in Words
        BY <1>1 DEF Closers
      <3>2. ASSUME j >= b PROVE FALSE
        <4>0. \A w \in Words : w \notin Blank /\ w # "semi"
          BY WordsAssumption DEF Marks, Blank
        <4>1. t[b + 1] \notin Blank
          <5>1. CASE j = b
            BY <3>1, <5>1 DEF Blank
          <5>2. CASE j > b
            <6>1. b \in a + k + 1..j - 1
              BY <1>1, <1>2, <3>1, <5>2
            <6> QED
              BY <3>1, <4>0, <6>1
          <5> QED
            BY <1>1, <1>2, <3>1, <3>2, <5>1, <5>2
        <4>2. t[b] # "semi"
          <5>1. CASE b = a + k + 1
            BY <1>6, <5>1
          <5>2. CASE b > a + k + 1
            <6>1. b - 1 \in a + k + 1..j - 1
              BY <1>1, <1>2, <3>1, <3>2, <5>2
            <6>2. t[b - 1 + 1] \in Words
              BY <3>1, <6>1
            <6> QED
              BY <1>2, <4>0, <6>2
          <5> QED
            BY <1>2, <5>1, <5>2
        <4>3. b < l
          BY <1>1, <1>2, <3>1, <3>2
        <4> QED
          BY <1>1, <1>2, <4>1, <4>2, <4>3 DEF IsPiece
      <3>3. j - a \in k + 1..m - 1 /\ j - a \in 0..(b - a - 1)
        BY <1>1, <1>2, <3>1, <3>2
      <3>4. p[(j - a) + 1] = "dollar"
        <4>1. a + (j - a) + 1 = j + 1
          BY <1>1, <1>2, <3>1
        <4>2. p[(j - a) + 1] = t[a + (j - a) + 1]
          BY <1>3, <3>3
        <4> QED
          BY <3>1, <4>1, <4>2
      <3>5. ASSUME NEW n \in k + 1..(j - a) - 1 PROVE p[n + 1] \in Words
        <4>1. n \in 0..(b - a - 1) /\ a + n \in a + k + 1..j - 1
          BY <1>1, <1>2, <3>1, <3>3
        <4>2. p[n + 1] = t[a + n + 1]
          BY <1>3, <4>1
        <4>3. t[(a + n) + 1] \in Words
          BY <3>1, <4>1
        <4> QED
          BY <4>2, <4>3
      <3> QED
        BY <1>1, <3>3, <3>4, <3>5 DEF Closers
    <2>2. ASSUME NEW j \in Closers(p, k)
          PROVE  a + j \in Closers(t, a + k)
      <3>1. j \in k + 1..m - 1 /\ p[j + 1] = "dollar" /\ \A n \in k + 1..j - 1 : p[n + 1] \in Words
        BY <1>1 DEF Closers
      <3>2. a + j \in a + k + 1..l - 1 /\ j \in 0..(b - a - 1)
        BY <1>1, <1>2, <3>1
      <3>3. t[a + j + 1] = "dollar"
        BY <1>3, <3>1, <3>2
      <3>4. ASSUME NEW n \in a + k + 1..(a + j) - 1 PROVE t[n + 1] \in Words
        <4>1. n - a \in 0..(b - a - 1) /\ n - a \in k + 1..j - 1 /\ a + (n - a) + 1 = n + 1
          BY <1>1, <1>2, <3>1, <3>2
        <4>2. p[(n - a) + 1] = t[a + (n - a) + 1] /\ p[(n - a) + 1] \in Words
          BY <1>3, <3>1, <4>1
        <4> QED
          BY <4>1, <4>2
      <3> QED
        BY <1>1, <3>2, <3>3, <3>4 DEF Closers
    <2>3. CASE Closers(t, a + k) = {}
      <3>1. Closers(p, k) = {}
        BY <2>2, <2>3
      <3>2. DollarTag(p, k) = <<>>
        BY <1>2, <3>1, TagAt
      <3>3. DollarTag(t, a + k) = <<>>
        BY <1>2, <2>3, TagAt
      <3> QED
        BY <3>2, <3>3
    <2>4. CASE Closers(t, a + k) # {}
      <3>1. PICK j : j \in Closers(t, a + k)
        BY <2>4
      <3>2. PICK c : c = j - a /\ c \in Closers(p, k)
        BY <2>1, <3>1
      <3>3. DollarTag(t, a + k) = SubSeq(t, a + k + 1, j + 1)
        BY <1>2, <1>6, <3>1, TagAt
      <3>4. DollarTag(p, k) = SubSeq(p, k + 1, c + 1)
        BY <1>2, <1>4, <1>6, <3>2, TagAt
      <3>5. c \in k + 1..m - 1 /\ j = a + c
        <4>1. c \in k + 1..m - 1
          BY <1>1, <3>2 DEF Closers
        <4>2. j \in a + k + 1..l - 1
          BY <1>1, <3>1 DEF Closers
        <4> QED
          BY <1>1, <1>2, <3>2, <4>1, <4>2
      <3>6. PICK x, y : x = SubSeq(p, k + 1, c + 1) /\ y = SubSeq(t, a + k + 1, j + 1)
        OBVIOUS
      <3>7. /\ x \in Seq(Unit) /\ Len(x) = c + 1 - k
            /\ \A n \in 1..(c + 1 - k) : x[n] = p[k + n]
        <4>1. /\ k + 1 \in Int /\ c + 1 \in Int /\ k + 1 >= 1 /\ c + 1 <= Len(p) /\ k + 1 <= c + 1 + 1
          BY <1>1, <1>2, <3>5
        <4>2. /\ x \in Seq(Unit) /\ Len(x) = (c + 1) + 1 - (k + 1)
              /\ \A n \in 1..((c + 1) + 1 - (k + 1)) : x[n] = p[(k + 1) + n - 1]
          BY <1>2, <3>6, <4>1, SubSeqFacts
        <4>3. (c + 1) + 1 - (k + 1) = c + 1 - k
          BY <1>1, <1>2, <3>5
        <4>4. \A n \in 1..(c + 1 - k) : (k + 1) + n - 1 = k + n
          BY <1>1, <1>2, <3>5
        <4> QED
          BY <4>2, <4>3, <4>4
      <3>8. /\ y \in Seq(Unit) /\ Len(y) = c + 1 - k
            /\ \A n \in 1..(c + 1 - k) : y[n] = t[a + k + n]
        <4>1. /\ a + k + 1 \in Int /\ j + 1 \in Int /\ a + k + 1 >= 1 /\ j + 1 <= Len(t)
              /\ a + k + 1 <= j + 1 + 1
          BY <1>1, <1>2, <3>5
        <4>2. /\ y \in Seq(Unit) /\ Len(y) = (j + 1) + 1 - (a + k + 1)
              /\ \A n \in 1..((j + 1) + 1 - (a + k + 1)) : y[n] = t[(a + k + 1) + n - 1]
          BY <1>2, <3>6, <4>1, SubSeqFacts
        <4>3. (j + 1) + 1 - (a + k + 1) = c + 1 - k
          BY <1>1, <1>2, <3>5
        <4>4. \A n \in 1..(c + 1 - k) : (a + k + 1) + n - 1 = a + k + n
          BY <1>1, <1>2, <3>5
        <4> QED
          BY <4>2, <4>3, <4>4
      <3>9. ASSUME NEW n \in 1..(c + 1 - k) PROVE x[n] = y[n]
        <4>1. k + n - 1 \in 0..(b - a - 1) /\ k + n - 1 + 1 = k + n /\ a + (k + n - 1) + 1 = a + k + n
          BY <1>1, <1>2, <3>5
        <4>2. p[k + n - 1 + 1] = t[a + (k + n - 1) + 1]
          BY <1>3, <4>1
        <4> QED
          BY <3>7, <3>8, <4>1, <4>2
      <3>10. x = y
        BY <3>7, <3>8, <3>9, SameSequence
      <3> QED
        BY <3>3, <3>4, <3>6, <3>10
    <2> QED
      BY <2>3, <2>4
  <1> QED
    BY <1>5, <1>6

LEMMA PieceOpener ==
  ASSUME NEW p, NEW t, NEW a, NEW b, IsPiece(p, t, a, b), NEW k \in 0..(b - a - 1)
  PROVE  Opener(p, k) = Opener(t, a + k)
  <1>1. Looking(p, k, "dash", "dash") <=> Looking(t, a + k, "dash", "dash")
    BY PieceLooks DEF Blank
  <1>2. Looking(p, k, "slash", "star") <=> Looking(t, a + k, "slash", "star")
    BY PieceLooks DEF Blank
  <1>3. DollarTag(p, k) = DollarTag(t, a + k)
    BY PieceTag
  <1>4. p[k + 1] = t[a + k + 1]
    BY DEF IsPiece
  <1> QED
    BY <1>1, <1>2, <1>3, <1>4 DEF Opener
\* What is found first in a text is found first in its piece, if it lies in it.
LEMMA LeastInPiece ==
  ASSUME NEW a \in Nat, NEW b \in Nat, NEW l \in Nat, a <= b, b <= l,
         NEW T, T \subseteq a..l, NEW U, U \subseteq 0..(b - a),
         \A y \in U : a + y \in T, \A x \in T : x < b => x - a \in U
  PROVE  Least(U, b - a) = IF Least(T, l) <= b THEN Least(T, l) - a ELSE b - a
  <1>0. T \in SUBSET Nat /\ U \in SUBSET Nat
    OBVIOUS
  <1>1. \A y \in U : y \in 0..(b - a) /\ a + y \in T
    OBVIOUS
  <1>2. CASE T = {}
    <2>1. U = {}
      BY <1>2
    <2>2. Least(T, l) = l /\ Least(U, b - a) = b - a
      BY <1>0, <1>2, <2>1, LeastFacts
    <2> QED
      BY <2>2
  <1>3. CASE T # {}
    <2>1. PICK m : m = Least(T, l) /\ m \in T /\ \A x \in T : m <= x
      BY <1>0, <1>3, LeastFacts
    <2>2. m \in Nat /\ a <= m
      BY <2>1
    <2>3. \A y \in U : m - a <= y
      BY <1>1, <2>1, <2>2
    <2>4. CASE m < b
      <3>1. m - a \in U
        BY <2>1, <2>4
      <3>2. Least(U, b - a) = m - a
        BY <1>0, <2>3, <3>1, LeastIs
      <3> QED
        BY <2>1, <2>2, <2>4, <3>2
    <2>5. CASE m >= b
      <3>1. \A y \in U : y = b - a /\ m = b
        BY <1>1, <2>2, <2>3, <2>5
      <3>2. Least(U, b - a) = b - a
        <4>1. CASE U = {}
          BY <1>0, <4>1, LeastFacts
        <4>2. CASE U # {}
          BY <1>0, <3>1, <4>2, LeastFacts
        <4> QED
          BY <4>1, <4>2
      <3> QED
        BY <2>1, <2>2, <2>5, <3>2
    <2> QED
      BY <2>2, <2>4, <2>5
  <1> QED
    BY <1>2, <1>3

LEMMA PieceQuoteEnd ==
  ASSUME NEW p, NEW t, NEW a, NEW b, IsPiece(p, t, a, b), NEW k \in 0..(b - a)
  PROVE  QuoteEnd(p, k) = IF QuoteEnd(t, a + k) <= b THEN QuoteEnd(t, a + k) - a ELSE b - a
  <1>1. PICK l, m : l \in Nat /\ l = Len(t) /\ m \in Nat /\ m = Len(p) /\ m = b - a
    <2>1. Len(t) \in Nat /\ Len(p) \in Nat
      BY DEF IsPiece
    <2> QED
      BY <2>1 DEF IsPiece
  <1>2. /\ a \in Nat /\ b \in Nat /\ a <= b /\ b <= l
        /\ p \in Seq(Unit) /\ t \in Seq(Unit)
    BY <1>1 DEF IsPiece
  <1> DEFINE Same(j) == QuoteEnd(p, j) = IF QuoteEnd(t, a + j) <= b THEN QuoteEnd(t, a + j) - a ELSE b - a
             P == {j \in 0..m : Same(j)}
  <1>3. m \in P
    <2>1. QuoteEnd(p, m) = m
      BY <1>1, <1>2, QuoteEndSteps
    <2>2. PICK e : e = QuoteEnd(t, a + m) /\ e \in (a + m)..l
      <3>1. a + m \in 0..Len(t)
        BY <1>1, <1>2
      <3> QED
        BY <1>1, <1>2, <3>1, QuoteEndWithin
    <2>3. Same(m)
      BY <1>1, <1>2, <2>1, <2>2
    <2> QED
      BY <1>1, <2>3
  <1>4. ASSUME NEW j \in 0..(m - 1), \A o \in (j + 1)..m : o \in P
        PROVE  j \in P
    <2>1. /\ j \in 0..(b - a - 1) /\ j \in 0..(Len(p) - 1) /\ a + j \in 0..(Len(t) - 1)
          /\ j \in 0..m /\ a + j + 1 \in Nat
      BY <1>1, <1>2
    <2>2. QuoteEnd(p, j) = IF p[j + 1] # "quote" THEN QuoteEnd(p, j + 1)
                           ELSE IF Looking(p, j, "quote", "quote") THEN QuoteEnd(p, j + 2)
                           ELSE j + 1
      BY <1>2, <2>1, QuoteEndSteps
    <2>3. QuoteEnd(t, a + j) = IF t[a + j + 1] # "quote" THEN QuoteEnd(t, a + j + 1)
                               ELSE IF Looking(t, a + j, "quote", "quote") THEN QuoteEnd(t, a + j + 2)
                               ELSE a + j + 1
      BY <1>2, <2>1, QuoteEndSteps
    <2>4. p[j + 1] = t[a + j + 1]
      BY <2>1 DEF IsPiece
    <2>5. Looking(p, j, "quote", "quote") <=> Looking(t, a + j, "quote", "quote")
      BY <2>1, PieceLooks DEF Blank
    <2>6. CASE p[j + 1] # "quote"
      <3>1. Same(j + 1)
        BY <1>1, <1>4
      <3>2. QuoteEnd(p, j) = QuoteEnd(p, j + 1) /\ QuoteEnd(t, a + j) = QuoteEnd(t, a + (j + 1))
        BY <1>2, <2>1, <2>2, <2>3, <2>4, <2>6
      <3>3. Same(j)
        BY <3>1, <3>2
      <3> QED
        BY <2>1, <3>3
    <2>7. CASE p[j + 1] = "quote" /\ Looking(p, j, "quote", "quote")
      <3>1. j + 2 \in (j + 1)..m
        BY <1>1, <2>7 DEF Looking
      <3>2. Same(j + 2)
        BY <1>4, <3>1
      <3>3. QuoteEnd(p, j) = QuoteEnd(p, j + 2) /\ QuoteEnd(t, a + j) = QuoteEnd(t, a + (j + 2))
        BY <1>2, <2>1, <2>2, <2>3, <2>4, <2>5, <2>7
      <3>4. Same(j)
        BY <3>2, <3>3
      <3> QED
        BY <2>1, <3>4
    <2>8. CASE p[j + 1] = "quote" /\ ~Looking(p, j, "quote", "quote")
      <3>1. QuoteEnd(p, j) = j + 1 /\ QuoteEnd(t, a + j) = a + j + 1
        BY <2>2, <2>3, <2>4, <2>5, <2>8
      <3>2. Same(j)
        BY <1>1, <1>2, <2>1, <3>1
      <3> QED
        BY <2>1, <3>2
    <2> QED
      BY <2>6, <2>7, <2>8
  <1>5. k \in P
    <2> HIDE DEF P
    <2>1. k \in 0..m
      BY <1>1
    <2> QED
      BY <1>1, <1>3, <1>4, <2>1, InductionDownFrom
  <1> QED
    BY <1>5

\* A literal of a text ends in its piece where it ends in the text, or with the
\* piece.
LEMMA PieceEnd ==
  ASSUME NEW p, NEW t, NEW a, NEW b, IsPiece(p, t, a, b), NEW k \in 0..(b - a - 1)
  PROVE  StopAfter(p, k) = IF StopAfter(t, a + k) <= b THEN StopAfter(t, a + k) - a ELSE b - a
  <1>1. PICK l, m : l \in Nat /\ l = Len(t) /\ m \in Nat /\ m = Len(p) /\ m = b - a
    <2>1. Len(t) \in Nat /\ Len(p) \in Nat
      BY DEF IsPiece
    <2> QED
      BY <2>1 DEF IsPiece
  <1>2. /\ a \in Nat /\ b \in Nat /\ a <= b /\ b <= l /\ k \in Nat /\ a + k < b /\ a + k \in Nat
        /\ p \in Seq(Unit) /\ t \in Seq(Unit)
    BY <1>1 DEF IsPiece
  <1>3. PICK op : op = Opener(p, k) /\ op = Opener(t, a + k)
    BY PieceOpener
  <1>4. \A o \in 0..(b - a - 1) : p[o + 1] = t[a + o + 1]
    BY DEF IsPiece
  <1>5. op \in {"code", "line", "block", "single", "dollar"}
    BY <1>3 DEF Opener
  <1>6. CASE op = "code"
    <2>1. StopAfter(p, k) = k + 1 /\ StopAfter(t, a + k) = a + k + 1
      BY <1>3, <1>6 DEF StopAfter
    <2> QED
      BY <1>1, <1>2, <2>1
  <1>7. CASE op = "line"
    <2> DEFINE T == {j \in a + k..l - 1 : t[j + 1] = "newline"}
               U == {j \in k..m - 1 : p[j + 1] = "newline"}
    <2>1. StopAfter(p, k) = Least(U, b - a) /\ StopAfter(t, a + k) = Least(T, l)
      BY <1>1, <1>3, <1>7 DEF StopAfter, LiteralEnd, LineEnd
    <2>2. T \subseteq a..l /\ U \subseteq 0..(b - a)
      <3>1. \A j \in a + k..l - 1 : j \in a..l
        BY <1>1, <1>2
      <3>2. \A j \in k..m - 1 : j \in 0..(b - a)
        BY <1>1, <1>2
      <3> QED
        BY <3>1, <3>2
    <2>3. ASSUME NEW y \in U PROVE a + y \in T
      BY <1>1, <1>2, <1>4
    <2>4. ASSUME NEW x \in T, x < b PROVE x - a \in U
      <3>1. x - a \in 0..(b - a - 1) /\ x - a \in k..m - 1 /\ a + (x - a) + 1 = x + 1
        BY <1>1, <1>2, <2>4
      <3>2. p[(x - a) + 1] = t[x + 1]
        BY <1>4, <3>1
      <3> QED
        BY <3>1, <3>2
    <2> HIDE DEF T, U
    <2>20. /\ a \in Nat /\ b \in Nat /\ l \in Nat /\ a <= b /\ b <= l
           /\ \A y \in U : a + y \in T
           /\ \A x \in T : x < b => x - a \in U
      BY <1>1, <1>2, <2>3, <2>4
    <2>21. Least(U, b - a) = IF Least(T, l) <= b THEN Least(T, l) - a ELSE b - a
      BY <2>2, <2>20, LeastInPiece
    <2> QED
      BY <2>1, <2>21
  <1>8. CASE op = "block"
    <2> DEFINE closesT(j) == j \in a + k + 1..l - 2 /\ Looking(t, j, "star", "slash")
               closesU(j) == j \in k + 1..m - 2 /\ Looking(p, j, "star", "slash")
               T == {j + 2 : j \in {n \in a + k + 1..l - 2 : Looking(t, n, "star", "slash")}}
               U == {j + 2 : j \in {n \in k + 1..m - 2 : Looking(p, n, "star", "slash")}}
    <2>1. StopAfter(p, k) = Least(U, b - a) /\ StopAfter(t, a + k) = Least(T, l)
      BY <1>1, <1>3, <1>8 DEF StopAfter, LiteralEnd, BlockEnd
    <2>2. T \subseteq a..l /\ U \subseteq 0..(b - a)
      <3>1. \A j \in a + k + 1..l - 2 : j + 2 \in a..l
        BY <1>1, <1>2
      <3>2. \A j \in k + 1..m - 2 : j + 2 \in 0..(b - a)
        BY <1>1, <1>2
      <3> QED
        BY <3>1, <3>2
    <2>3. ASSUME NEW y \in U PROVE a + y \in T
      <3>1. PICK j : closesU(j) /\ y = j + 2
        BY <2>3
      <3>2. j \in 0..(b - a - 1) /\ a + j \in a + k + 1..l - 2 /\ a + y = (a + j) + 2
        BY <1>1, <1>2, <3>1
      <3>3. Looking(t, a + j, "star", "slash")
        BY <3>1, <3>2, PieceLooks DEF Blank
      <3> QED
        BY <3>2, <3>3
    <2>4. ASSUME NEW x \in T, x < b PROVE x - a \in U
      <3>1. PICK j : closesT(j) /\ x = j + 2
        BY <2>4
      <3>2. j - a \in 0..(b - a - 1) /\ j - a \in k + 1..m - 2 /\ x - a = (j - a) + 2 /\ a + (j - a) = j
        BY <1>1, <1>2, <2>4, <3>1
      <3>3. PICK n : n = j - a
        OBVIOUS
      <3>4. Looking(p, n, "star", "slash")
        BY <3>1, <3>2, <3>3, PieceLooks DEF Blank
      <3> QED
        BY <3>2, <3>3, <3>4
    <2> HIDE DEF T, U
    <2>20. /\ a \in Nat /\ b \in Nat /\ l \in Nat /\ a <= b /\ b <= l
           /\ \A y \in U : a + y \in T
           /\ \A x \in T : x < b => x - a \in U
      BY <1>1, <1>2, <2>3, <2>4
    <2>21. Least(U, b - a) = IF Least(T, l) <= b THEN Least(T, l) - a ELSE b - a
      BY <2>2, <2>20, LeastInPiece
    <2> QED
      BY <2>1, <2>21
  <1>9. CASE op = "single"
    <2>1. StopAfter(p, k) = QuoteEnd(p, k + 1) /\ StopAfter(t, a + k) = QuoteEnd(t, a + k + 1)
      BY <1>3, <1>9 DEF StopAfter, LiteralEnd
    <2>2. k + 1 \in 0..(b - a) /\ a + (k + 1) = a + k + 1
      BY <1>1, <1>2
    <2> QED
      BY <2>1, <2>2, PieceQuoteEnd
  <1>10. CASE op = "dollar"
    <2>1. PICK tag : tag = DollarTag(p, k) /\ tag = DollarTag(t, a + k)
      BY PieceTag
    <2>2. tag # <<>>
      BY <1>3, <1>10, <2>1 DEF Opener
    <2>3. PICK w : w = Len(tag) /\ w \in Nat \ {0}
      <3>1. Len(DollarTag(t, a + k)) \in Nat \ {0}
        <4>1. a + k < Len(t)
          BY <1>1, <1>2
        <4> QED
          BY <1>2, <2>1, <2>2, <4>1, TagLonger
      <3> QED
        BY <2>1, <3>1
    <2> DEFINE T == {j + w : j \in {n \in a + k + w..l - 1 : DollarTag(t, n) = tag}}
               U == {j + w : j \in {n \in k + w..m - 1 : DollarTag(p, n) = tag}}
    <2>4. StopAfter(p, k) = Least(U, b - a) /\ StopAfter(t, a + k) = Least(T, l)
      BY <1>1, <1>3, <1>10, <2>1, <2>3 DEF StopAfter, LiteralEnd, DollarEnd
    <2>5. ASSUME NEW n \in a + k + w..l - 1, DollarTag(t, n) = tag
          PROVE  n + w \in a..l
      <3>1. n \in Nat /\ n < Len(t)
        BY <1>1, <1>2, <2>3
      <3>2. n + Len(DollarTag(t, n)) <= Len(t)
        BY <1>2, <2>2, <2>5, <3>1, TagLonger
      <3> QED
        BY <1>1, <1>2, <2>3, <2>5, <3>1, <3>2
    <2>6. ASSUME NEW n \in k + w..m - 1, DollarTag(p, n) = tag
          PROVE  n + w \in 0..(b - a)
      <3>1. n \in Nat /\ n < Len(p)
        BY <1>1, <1>2, <2>3
      <3>2. n + Len(DollarTag(p, n)) <= Len(p)
        BY <1>2, <2>2, <2>6, <3>1, TagLonger
      <3> QED
        BY <1>1, <1>2, <2>3, <2>6, <3>1, <3>2
    <2>7. T \subseteq a..l /\ U \subseteq 0..(b - a)
      BY <2>5, <2>6
    <2>8. ASSUME NEW y \in U PROVE a + y \in T
      <3>1. PICK j : j \in k + w..m - 1 /\ DollarTag(p, j) = tag /\ y = j + w
        BY <2>8
      <3>2. j \in 0..(b - a - 1) /\ a + j \in a + k + w..l - 1 /\ a + y = (a + j) + w
        BY <1>1, <1>2, <2>3, <3>1
      <3>3. DollarTag(t, a + j) = tag
        BY <3>1, <3>2, PieceTag
      <3> QED
        BY <3>2, <3>3
    <2>9. ASSUME NEW x \in T, x < b PROVE x - a \in U
      <3>1. PICK j : j \in a + k + w..l - 1 /\ DollarTag(t, j) = tag /\ x = j + w
        BY <2>9
      <3>2. PICK n : n = j - a
        OBVIOUS
      <3>3. n \in 0..(b - a - 1) /\ n \in k + w..m - 1 /\ x - a = n + w /\ a + n = j
        BY <1>1, <1>2, <2>3, <2>9, <3>1, <3>2
      <3>4. DollarTag(p, n) = tag
        BY <3>1, <3>3, PieceTag
      <3> QED
        BY <3>3, <3>4
    <2> HIDE DEF T, U
    <2>20. /\ a \in Nat /\ b \in Nat /\ l \in Nat /\ a <= b /\ b <= l
           /\ \A y \in U : a + y \in T
           /\ \A x \in T : x < b => x - a \in U
      BY <1>1, <1>2, <2>8, <2>9
    <2>21. Least(U, b - a) = IF Least(T, l) <= b THEN Least(T, l) - a ELSE b - a
      BY <2>7, <2>20, LeastInPiece
    <2> QED
      BY <2>4, <2>21
  <1> QED
    BY <1>5, <1>6, <1>7, <1>8, <1>9, <1>10

\* The stops of a piece cut out at a stop are the text's own.
LEMMA PieceStops ==
  ASSUME NEW p, NEW t, NEW a, NEW b, IsPiece(p, t, a, b), a \in Stops(t)
  PROVE  \A k \in 0..(b - a - 1) : k \in Stops(p) <=> a + k \in Stops(t)
  <1>1. PICK l, m : l \in Nat /\ l = Len(t) /\ m \in Nat /\ m = Len(p) /\ m = b - a
    <2>1. Len(t) \in Nat /\ Len(p) \in Nat
      BY DEF IsPiece
    <2> QED
      BY <2>1 DEF IsPiece
  <1>2. /\ a \in Nat /\ b \in Nat /\ a <= b /\ b <= l
        /\ p \in Seq(Unit) /\ t \in Seq(Unit)
    BY <1>1 DEF IsPiece
  <1>3. Stops(t) \subseteq 0..l /\ Stops(p) \subseteq 0..m
    BY <1>1, <1>2, StopsHold
  <1> DEFINE C == {k \in 0..m : k < m => a + k \in Stops(t)}
             D == {k \in Stops(t) : a <= k /\ k < b => k - a \in Stops(p)}
  <1>4. HoldsStops(p, C)
    <2>1. 0 \in C
      BY <1>1, <1>2
    <2>2. ASSUME NEW k \in C, k < m PROVE StopAfter(p, k) \in C
      <3>1. k \in 0..(b - a - 1) /\ k \in 0..(Len(p) - 1) /\ a + k \in Stops(t) /\ a + k < l
        BY <1>1, <1>2, <2>2
      <3>2. StopAfter(p, k) \in 0..m
        <4>1. StopAfter(p, k) \in (k + 1)..Len(p)
          BY <1>2, <3>1, StopAfterWithin
        <4> QED
          BY <1>1, <3>1, <4>1
      <3>3. ASSUME StopAfter(p, k) < m PROVE a + StopAfter(p, k) \in Stops(t)
        <4>1. PICK s : s = StopAfter(t, a + k) /\ s \in Stops(t) /\ s \in Nat
          BY <1>1, <1>2, <1>3, <3>1, StopsHold DEF HoldsStops
        <4>2. StopAfter(p, k) = IF s <= b THEN s - a ELSE b - a
          BY <3>1, <4>1, PieceEnd
        <4>3. a + StopAfter(p, k) = s
          BY <1>1, <1>2, <3>3, <4>1, <4>2
        <4> QED
          BY <4>1, <4>3
      <3> QED
        BY <3>2, <3>3
    <2> QED
      BY <1>1, <2>1, <2>2 DEF HoldsStops
  <1>5. HoldsStops(t, D)
    <2>1. 0 \in D
      <3>1. 0 \in Stops(t) /\ 0 \in Stops(p)
        BY <1>2, StopsHold DEF HoldsStops
      <3>2. a <= 0 => 0 - a = 0
        BY <1>2
      <3> QED
        BY <3>1, <3>2
    <2>2. ASSUME NEW n \in D, n < l PROVE StopAfter(t, n) \in D
      <3>1. n \in Stops(t) /\ n \in Nat
        BY <1>3
      <3>2. PICK s : s = StopAfter(t, n) /\ s \in Stops(t) /\ s \in Nat /\ s > n
        <4>1. n \in 0..(Len(t) - 1)
          BY <1>1, <2>2, <3>1
        <4>2. StopAfter(t, n) \in (n + 1)..Len(t)
          BY <1>2, <4>1, StopAfterWithin
        <4>3. StopAfter(t, n) \in Stops(t)
          BY <1>1, <1>2, <2>2, <3>1, StopsHold DEF HoldsStops
        <4> QED
          BY <1>1, <3>1, <4>2, <4>3
      <3>3. ASSUME a <= s, s < b PROVE s - a \in Stops(p)
        <4>1. CASE n < a
          <5>1. s <= a
            BY <1>2, <3>1, <3>2, <4>1, NoStopBetween
          <5>2. s - a = 0
            BY <1>2, <3>2, <3>3, <5>1
          <5> QED
            BY <1>2, <5>2, StopsHold DEF HoldsStops
        <4>2. CASE n >= a
          <5>1. PICK k : k = n - a
            OBVIOUS
          <5>2. k \in Stops(p) /\ k \in 0..(b - a - 1) /\ a + k = n /\ k < Len(p)
            BY <1>1, <1>2, <2>2, <3>1, <3>2, <3>3, <4>2, <5>1
          <5>3. StopAfter(p, k) = IF StopAfter(t, a + k) <= b THEN StopAfter(t, a + k) - a ELSE b - a
            BY <5>2, PieceEnd
          <5>4. StopAfter(p, k) = s - a
            BY <1>2, <3>2, <3>3, <5>2, <5>3
          <5>5. StopAfter(p, k) \in Stops(p)
            BY <1>2, <5>2, StopsHold DEF HoldsStops
          <5> QED
            BY <5>4, <5>5
        <4> QED
          BY <1>2, <3>1, <4>1, <4>2
      <3> QED
        BY <3>2, <3>3
    <2> QED
      BY <1>1, <2>1, <2>2 DEF HoldsStops
  <1>6. C \in SUBSET (0..Len(p)) /\ D \in SUBSET (0..Len(t))
    BY <1>1, <1>3
  <1>7. \A k \in Stops(p) : k \in C
    <2> HIDE DEF C
    <2> QED
      BY <1>4, <1>6 DEF Stops
  <1>8. \A k \in Stops(t) : k \in D
    <2> HIDE DEF D
    <2> QED
      BY <1>5, <1>6 DEF Stops
  <1> TAKE k \in 0..(b - a - 1)
  <1>9. k < m /\ a <= a + k /\ a + k < b /\ (a + k) - a = k
    BY <1>1, <1>2
  <1>10. k \in Stops(p) => a + k \in Stops(t)
    BY <1>7, <1>9
  <1>11. PICK n : n = a + k
    OBVIOUS
  <1>12. n \in Stops(t) => n - a \in Stops(p)
    BY <1>8, <1>9, <1>11
  <1> QED
    BY <1>9, <1>10, <1>11, <1>12
-----------------------------------------------------------------------------
(* What a split returns, as a function of its text.                        *)

\* The semicolons read as code, and where a segment that begins at a ends.
Semis(t) == {k \in Stops(t) : k < Len(t) /\ t[k + 1] = "semi"}
CutAfter(t, a) == Least({k + 1 : k \in {o \in Semis(t) : o >= a}}, Len(t))

IsSplit(t, s) ==
  /\ s \in Seq(Segment) /\ s # <<>>
  /\ \A n \in 1..Len(s) :
       /\ s[n].start = IF n = 1 THEN 0 ELSE s[n - 1].end
       /\ s[n].end = CutAfter(t, s[n].start)
       /\ s[n].start <= s[n].end /\ s[n].end <= Len(t)
       /\ n < Len(s) <=> \E o \in Semis(t) : o >= s[n].start

\* There is one such split of a text.
LEMMA SplitUnique ==
  ASSUME NEW t, NEW r, IsSplit(t, r), NEW s, IsSplit(t, s)
  PROVE  r = s
  <1>1. PICK l, m : l \in Nat \ {0} /\ l = Len(r) /\ m \in Nat \ {0} /\ m = Len(s)
    <2>1. Len(r) \in Nat \ {0} /\ Len(s) \in Nat \ {0}
      BY DEF IsSplit
    <2> QED
      BY <2>1
  <1>2. \A n \in 1..l : r[n] \in Segment
    BY <1>1 DEF IsSplit
  <1>3. \A n \in 1..m : s[n] \in Segment
    BY <1>1 DEF IsSplit
  <1>4. \A x, y \in Segment : x.start = y.start /\ x.end = y.end => x = y
    BY DEF Segment
  <1> DEFINE P == {n \in 0..l : n = 0 \/ (n \in 1..m /\ r[n] = s[n])}
  <1>5. 0 \in P
    BY <1>1
  <1>6. ASSUME NEW n \in 1..l, n - 1 \in P PROVE n \in P
    <2>1. n \in 1..m /\ r[n].start = s[n].start
      <3>1. CASE n = 1
        <4>1. 1 \in 1..m /\ r[1].start = 0 /\ s[1].start = 0
          BY <1>1 DEF IsSplit
        <4> QED
          BY <3>1, <4>1
      <3>2. CASE n # 1
        <4>1. n - 1 \in 1..l /\ n - 1 # 0 /\ n - 1 < l
          BY <1>1, <3>2
        <4>2. n - 1 \in 1..m /\ r[n - 1] = s[n - 1]
          BY <1>6, <4>1
        <4>3. \E o \in Semis(t) : o >= r[n - 1].start
          BY <1>1, <4>1 DEF IsSplit
        <4>4. n - 1 < m
          BY <1>1, <4>2, <4>3 DEF IsSplit
        <4>5. n \in 1..m
          BY <1>1, <4>1, <4>4
        <4>6. r[n].start = r[n - 1].end /\ s[n].start = s[n - 1].end
          BY <1>1, <3>2, <4>5 DEF IsSplit
        <4> QED
          BY <4>2, <4>5, <4>6
      <3> QED
        BY <3>1, <3>2
    <2>2. r[n].end = CutAfter(t, r[n].start) /\ s[n].end = CutAfter(t, s[n].start)
      BY <1>1, <2>1 DEF IsSplit
    <2>3. r[n] = s[n]
      BY <1>2, <1>3, <1>4, <2>1, <2>2
    <2> QED
      BY <1>1, <2>1, <2>3
  <1>7. \A n \in 0..l : n \in P
    <2> HIDE DEF P
    <2> QED
      BY <1>1, <1>5, <1>6, InductionUpTo
  <1>8. \A n \in 1..l : n \in 1..m /\ r[n] = s[n]
    <2> TAKE n \in 1..l
    <2>1. n \in 0..l /\ n # 0
      BY <1>1
    <2> QED
      BY <1>7, <2>1
  <1>9. l = m
    <2>1. l \in 1..l /\ l \in 1..m /\ r[l] = s[l]
      BY <1>1, <1>8
    <2>2. ~(\E o \in Semis(t) : o >= r[l].start)
      BY <1>1, <2>1 DEF IsSplit
    <2>3. ~(l < m)
      BY <1>1, <2>1, <2>2 DEF IsSplit
    <2> QED
      BY <1>1, <2>1, <2>3
  <1>10. r \in Seq(Segment) /\ s \in Seq(Segment)
    BY DEF IsSplit
  <1> QED
    BY <1>1, <1>8, <1>9, <1>10, SameSequence

\* What split returns of it.
TextsIn(t, s) == [n \in 1..Len(s) |-> Trim(SubSeq(t, s[n].start + 1, s[n].end))]
StatementsIn(t, s) == Without(TextsIn(t, s), {<<>>})

SplitOf(t) == CHOOSE s : IsSplit(t, s)
StatementsOf(t) == StatementsIn(t, SplitOf(t))

\* Segments laid end to end follow each other.
LEMMA TilesFollow ==
  ASSUME NEW s \in Seq(Segment),
         \A n \in 1..Len(s) : /\ s[n].start <= s[n].end
                              /\ s[n].start = IF n = 1 THEN 0 ELSE s[n - 1].end
  PROVE  \A n \in 1..Len(s) : \A m \in 1..(n - 1) : s[m].end <= s[n].start
  <1>1. PICK l : l \in Nat /\ l = Len(s)
    <2>1. Len(s) \in Nat
      OBVIOUS
    <2> QED
      BY <2>1
  <1>2. \A n \in 1..l : s[n].start \in Nat /\ s[n].end \in Nat
    <2>1. \A n \in 1..l : s[n] \in Segment
      BY <1>1
    <2> QED
      BY <2>1 DEF Segment
  <1> DEFINE P == {n \in 0..l : n = 0 \/ \A m \in 1..(n - 1) : s[m].end <= s[n].start}
  <1>3. 0 \in P
    BY <1>1
  <1>4. ASSUME NEW n \in 1..l, n - 1 \in P PROVE n \in P
    <2>1. ASSUME NEW m \in 1..(n - 1) PROVE s[m].end <= s[n].start
      <3>1. n # 1 /\ n - 1 \in 1..l /\ n - 1 # 0 /\ m \in 1..l
        BY <1>1, <2>1
      <3>2. s[n].start = s[n - 1].end
        BY <1>1, <3>1
      <3>3. CASE m = n - 1
        BY <1>2, <3>1, <3>2, <3>3
      <3>4. CASE m # n - 1
        <4>1. m \in 1..((n - 1) - 1)
          BY <1>1, <3>4
        <4>2. s[m].end <= s[n - 1].start
          BY <1>4, <3>1, <4>1
        <4>3. s[n - 1].start <= s[n - 1].end
          BY <1>1, <3>1
        <4>4. PICK x, y, z : x = s[m].end /\ y = s[n - 1].start /\ z = s[n - 1].end
          OBVIOUS
        <4>5. x \in Nat /\ y \in Nat /\ z \in Nat
          BY <1>2, <3>1, <4>4
        <4> QED
          BY <3>2, <4>2, <4>3, <4>4, <4>5
      <3> QED
        BY <3>3, <3>4
    <2> QED
      BY <1>1, <2>1
  <1>5. \A n \in 0..l : n \in P
    <2> HIDE DEF P
    <2> QED
      BY <1>1, <1>3, <1>4, InductionUpTo
  <1> SUFFICES ASSUME NEW n \in 1..l PROVE \A m \in 1..(n - 1) : s[m].end <= s[n].start
    BY <1>1
  <1>6. n \in 0..l /\ n # 0
    BY <1>1
  <1> QED
    BY <1>5, <1>6

\* The loop has returned it when it returns.
LEMMA LoopSplits ==
  ASSUME SplitInv, ReadInv, ~scanning, segs # <<>>
  PROVE  /\ IsSplit(sql, segs)
         /\ Statements = StatementsIn(sql, segs)
  <1>1. PICK l, m : l \in Nat \ {0} /\ l = Len(segs) /\ m \in Nat /\ m = Len(sql)
    <2>1. Len(segs) \in Nat /\ Len(sql) \in Nat /\ Len(segs) # 0
      BY DEF SplitInv, SplitTypeOK
    <2> QED
      BY <2>1
  <1>2. sql \in Seq(Unit) /\ segs \in Seq(Segment) /\ plain \subseteq Nat /\ i = m
        /\ Stops(sql) \subseteq 0..m
    BY <1>1, StopsHold DEF SplitInv, SplitTypeOK, ReadInv
  <1>3. \A n \in 1..l : /\ segs[n] \in Segment /\ segs[n].start <= segs[n].end /\ segs[n].end <= m
                        /\ segs[n].start = IF n = 1 THEN 0 ELSE segs[n - 1].end
    BY <1>1, SegmentsWithin DEF SplitInv, Partition, Tiled
  <1>4. \A n \in 1..l : segs[n].start \in Nat /\ segs[n].end \in Nat
    BY <1>3 DEF Segment
  <1>5. \A n \in 1..l : \A o \in 1..(n - 1) : segs[o].end <= segs[n].start
    BY <1>1, <1>2, <1>3, TilesFollow
  <1>6. {o \in plain : sql[o + 1] = "semi"} = Semis(sql)
    <2>1. ASSUME NEW o \in plain, sql[o + 1] = "semi" PROVE o \in Semis(sql)
      BY <1>1, <1>2, <2>1 DEF ReadInv, PlainInv, Semis
    <2>2. ASSUME NEW o \in Semis(sql) PROVE o \in plain /\ sql[o + 1] = "semi"
      <3>1. o \in Stops(sql) /\ o < i /\ sql[o + 1] = "semi"
        BY <1>1, <1>2 DEF Semis
      <3>2. Opener(sql, o) = "code"
        BY <3>1, Openers
      <3> QED
        BY <3>1, <3>2 DEF ReadInv, PlainInv
    <2> QED
      BY <2>1, <2>2
  <1>7. {segs[n].end : n \in 1..(l - 1)} = {k + 1 : k \in Semis(sql)}
    BY <1>1, <1>6 DEF SplitInv, Partition, Cuts
  <1>8. segs[l].end = m
    BY <1>1 DEF SplitInv, Partition, Tiled
  <1>9. ASSUME NEW n \in 1..l
        PROVE  /\ segs[n].end = CutAfter(sql, segs[n].start)
               /\ n < l <=> \E o \in Semis(sql) : o >= segs[n].start
    <2>1. PICK a, e : a = segs[n].start /\ e = segs[n].end /\ a \in Nat /\ e \in Nat
      BY <1>4
    <2> DEFINE T == {k + 1 : k \in {o \in Semis(sql) : o >= a}}
    <2>2. T \in SUBSET Nat
      BY <1>2 DEF Semis
    <2>3. ASSUME NEW o \in Semis(sql), o >= a
          PROVE  n < l /\ e <= o + 1
      <3>1. o \in Nat
        BY <1>2 DEF Semis
      <3>2. PICK k \in 1..(l - 1) : segs[k].end = o + 1
        BY <1>7
      <3>3. ~(k < n)
        <4>1. k < n => k \in 1..(n - 1)
          BY <1>1
        <4> QED
          BY <1>5, <2>1, <2>3, <3>1, <3>2, <4>1
      <3>4. k \in 1..l
        BY <1>1
      <3>5. CASE k = n
        BY <1>1, <2>1, <3>1, <3>2, <3>5
      <3>6. CASE n < k
        <4>1. n \in 1..(k - 1)
          BY <1>1, <3>6
        <4>2. e <= segs[k].start /\ segs[k].start <= segs[k].end
          BY <1>3, <1>5, <2>1, <3>4, <4>1
        <4>3. segs[k].start \in Nat
          BY <1>4, <3>4
        <4> QED
          BY <1>1, <2>1, <3>1, <3>2, <3>6, <4>2, <4>3
      <3> QED
        BY <1>1, <3>3, <3>5, <3>6
    <2>4. CASE n < l
      <3>1. n \in 1..(l - 1) /\ a < e
        BY <1>1, <2>1, <2>4 DEF ReadInv, CutsSolid
      <3>2. PICK o \in Semis(sql) : e = o + 1
        BY <1>7, <2>1, <3>1
      <3>3. o >= a
        BY <1>2, <2>1, <3>1, <3>2 DEF Semis
      <3>4. e \in T /\ \A y \in T : e <= y
        BY <2>3, <3>2, <3>3
      <3>5. Least(T, m) = e
        <4> HIDE DEF T
        <4> QED
          BY <2>2, <3>4, LeastIs
      <3> QED
        BY <1>1, <2>1, <2>4, <3>3, <3>5 DEF CutAfter
    <2>5. CASE n = l
      <3>1. T = {} /\ ~(\E o \in Semis(sql) : o >= a)
        BY <1>1, <2>3, <2>5
      <3>2. Least(T, m) = m
        <4> HIDE DEF T
        <4> QED
          BY <2>2, <3>1, LeastFacts
      <3> QED
        BY <1>1, <1>8, <2>1, <2>5, <3>1, <3>2 DEF CutAfter
    <2> QED
      BY <1>1, <2>4, <2>5
  <1>10. IsSplit(sql, segs)
    BY <1>1, <1>2, <1>3, <1>9 DEF IsSplit
  <1>11. Statements = StatementsIn(sql, segs)
    BY DEF Statements, StatementsIn, TextsIn, SegmentText, Source
  <1> QED
    BY <1>10, <1>11

LEMMA StatementsAre ==
  ASSUME NEW t, NEW s, IsSplit(t, s)
  PROVE  IsSplit(t, SplitOf(t)) /\ SplitOf(t) = s /\ StatementsOf(t) = StatementsIn(t, s)
  <1>1. IsSplit(t, SplitOf(t))
    BY DEF SplitOf
  <1>2. SplitOf(t) = s
    BY <1>1, SplitUnique
  <1> QED
    BY <1>1, <1>2 DEF StatementsOf

\* Every segment begins in code.
LEMMA SegmentsAtStops ==
  ASSUME NEW t \in Seq(Unit), NEW s, IsSplit(t, s), NEW n \in 1..Len(s)
  PROVE  /\ s[n].start \in Stops(t) /\ s[n].start \in Nat /\ s[n].end \in Nat
         /\ s[n].end < Len(t) => /\ s[n].start < s[n].end
                                 /\ s[n].end - 1 \in Semis(t)
         /\ \A o \in Semis(t) : o >= s[n].start => s[n].end <= o + 1
  <1>1. PICK l, m : l \in Nat \ {0} /\ l = Len(s) /\ m \in Nat /\ m = Len(t)
    <2>1. Len(s) \in Nat \ {0} /\ Len(t) \in Nat
      BY DEF IsSplit
    <2> QED
      BY <2>1
  <1>2. Stops(t) \subseteq 0..m /\ HoldsStops(t, Stops(t))
    BY <1>1, StopsHold
  <1>3. \A k \in 1..l : s[k].start \in Nat /\ s[k].end \in Nat
    <2>1. \A k \in 1..l : s[k] \in Segment
      BY <1>1 DEF IsSplit
    <2> QED
      BY <2>1 DEF Segment
  <1>4. \A k \in 1..l : s[k].end = CutAfter(t, s[k].start)
    BY <1>1 DEF IsSplit
  <1>5. ASSUME NEW k \in 1..l
        PROVE  /\ s[k].end < m \/ k < l => s[k].end \in {o + 1 : o \in {p \in Semis(t) : p >= s[k].start}}
               /\ \A o \in Semis(t) : o >= s[k].start => s[k].end <= o + 1
    <2>1. PICK a : a = s[k].start /\ a \in Nat
      BY <1>3
    <2> DEFINE T == {o + 1 : o \in {p \in Semis(t) : p >= a}}
    <2>2. T \in SUBSET Nat
      BY <1>2 DEF Semis
    <2>3. s[k].end = Least(T, m)
      BY <1>1, <1>4, <2>1 DEF CutAfter
    <2>4. k < l => T # {}
      BY <1>1, <2>1 DEF IsSplit
    <2>5. \A o \in Semis(t) : o >= a => o + 1 \in T
      OBVIOUS
    <2>6. /\ T = {} => s[k].end = m
          /\ T # {} => s[k].end \in T /\ \A y \in T : s[k].end <= y
      <3> HIDE DEF T
      <3>1. /\ T = {} => Least(T, m) = m
            /\ T # {} => Least(T, m) \in T /\ \A y \in T : Least(T, m) <= y
        BY <2>2, LeastFacts
      <3> QED
        BY <2>3, <3>1
    <2>7. \A o \in Semis(t) : o >= a => s[k].end <= o + 1
      <3> HIDE DEF T
      <3> QED
        BY <2>5, <2>6
    <2>8. s[k].end < m \/ k < l => s[k].end \in T
      <3> HIDE DEF T
      <3> QED
        BY <1>1, <1>3, <2>4, <2>6
    <2> QED
      BY <2>1, <2>7, <2>8
  <1>6. ASSUME NEW o \in Semis(t) PROVE o \in Nat /\ o + 1 \in Stops(t)
    <2>1. o \in Stops(t) /\ o < Len(t) /\ t[o + 1] = "semi"
      BY DEF Semis
    <2>2. StopAfter(t, o) = o + 1
      BY <2>1, Openers DEF StopAfter
    <2> QED
      BY <1>2, <2>1, <2>2 DEF HoldsStops
  <1>7. s[n].start \in Stops(t)
    <2>1. CASE n = 1
      <3>1. s[n].start = 0
        BY <2>1 DEF IsSplit
      <3> QED
        BY <1>2, <3>1 DEF HoldsStops
    <2>2. CASE n # 1
      <3>1. n - 1 \in 1..l /\ n - 1 < l
        BY <1>1, <2>2
      <3>2. s[n].start = s[n - 1].end
        BY <2>2 DEF IsSplit
      <3>3. PICK o \in Semis(t) : s[n - 1].end = o + 1
        BY <1>5, <3>1
      <3> QED
        BY <1>6, <3>2, <3>3
    <2> QED
      BY <2>1, <2>2
  <1>8. ASSUME s[n].end < m PROVE s[n].start < s[n].end /\ s[n].end - 1 \in Semis(t)
    <2>1. PICK o \in Semis(t) : o >= s[n].start /\ s[n].end = o + 1
      BY <1>1, <1>5, <1>8
    <2>2. o \in Nat /\ s[n].start \in Nat
      BY <1>1, <1>3, <1>6
    <2> QED
      BY <2>1, <2>2
  <1> QED
    BY <1>1, <1>3, <1>5, <1>7, <1>8
-----------------------------------------------------------------------------
(* The statement in a segment.                                             *)

\* Trim takes blanks and nothing else.
LEMMA TrimFacts ==
  ASSUME NEW t \in Seq(Unit)
  PROVE  \/ Trim(t) = <<>> /\ \A n \in 1..Len(t) : t[n] \in Blank
         \/ \E a \in 1..Len(t), b \in 1..Len(t) :
              /\ a <= b /\ t[a] \notin Blank /\ t[b] \notin Blank
              /\ \A n \in 1..Len(t) : n < a \/ n > b => t[n] \in Blank
              /\ Trim(t) = SubSeq(t, a, b)
  <1> DEFINE solid == {n \in 1..Len(t) : t[n] \notin Blank}
  <1>1. PICK l : l \in Nat /\ l = Len(t)
    <2>1. Len(t) \in Nat
      OBVIOUS
    <2> QED
      BY <2>1
  <1>2. CASE solid = {}
    BY <1>2 DEF Trim
  <1>3. CASE solid # {}
    <2>1. solid \in SUBSET Nat /\ \A n \in solid : n \in 1..l
      BY <1>1
    <2>0. \A n \in 1..l : n \notin solid => t[n] \in Blank
      BY <1>1
    <2>9. \A n \in solid : t[n] \notin Blank
      OBVIOUS
    <2> HIDE DEF solid
    <2>2. PICK a : a = CHOOSE x \in solid : \A n \in solid : x <= n
      OBVIOUS
    <2>3. PICK b : b = CHOOSE x \in solid : \A n \in solid : x >= n
      OBVIOUS
    <2>4. a \in solid /\ \A n \in solid : a <= n
      <3>1. \E x \in solid : \A y \in solid : x <= y
        BY <1>3, <2>1, LeastNatural
      <3> QED
        BY <2>2, <3>1
    <2>5. b \in solid /\ \A n \in solid : b >= n
      <3>1. \A x \in solid : x <= l
        BY <1>1, <2>1
      <3>2. \E x \in solid : \A y \in solid : y <= x
        BY <1>1, <1>3, <2>1, <3>1, GreatestNatural
      <3>3. \E x \in solid : \A y \in solid : x >= y
        BY <2>1, <3>2
      <3> QED
        BY <2>3, <3>3
    <2>6. Trim(t) = SubSeq(t, a, b)
      BY <1>3, <2>2, <2>3 DEF Trim, solid
    <2>7. a \in 1..l /\ b \in 1..l /\ a <= b
      BY <2>1, <2>4, <2>5
    <2>8. ASSUME NEW n \in 1..l, n < a \/ n > b PROVE t[n] \in Blank
      <3>1. n \notin solid
        BY <2>4, <2>5, <2>7, <2>8
      <3> QED
        BY <2>0, <3>1
    <2> QED
      BY <1>1, <2>4, <2>5, <2>6, <2>7, <2>8, <2>9
  <1> QED
    BY <1>2, <1>3

LEMMA TrimSolid ==
  ASSUME NEW t \in Seq(Unit), t # <<>>, t[1] \notin Blank, t[Len(t)] \notin Blank
  PROVE  Trim(t) = t
  <1>1. PICK l : l \in Nat \ {0} /\ l = Len(t)
    <2>1. Len(t) \in Nat \ {0}
      OBVIOUS
    <2> QED
      BY <2>1
  <1>2. 1 \in 1..l /\ l \in 1..l
    BY <1>1
  <1>3. PICK a \in 1..l, b \in 1..l : /\ a <= b
                                      /\ \A n \in 1..l : n < a \/ n > b => t[n] \in Blank
                                      /\ Trim(t) = SubSeq(t, a, b)
    BY <1>1, <1>2, TrimFacts
  <1>4. a = 1 /\ b = l
    <2>1. ~(1 < a) /\ ~(l > b)
      BY <1>1, <1>2, <1>3
    <2> QED
      BY <1>1, <1>3, <2>1
  <1>5. PICK u : u = SubSeq(t, 1, l)
    OBVIOUS
  <1>6. 1 \in Int /\ l \in Int /\ 1 >= 1 /\ l <= Len(t) /\ 1 <= l + 1
    BY <1>1
  <1>7. /\ u \in Seq(Unit) /\ Len(u) = l + 1 - 1 /\ \A n \in 1..(l + 1 - 1) : u[n] = t[1 + n - 1]
    BY <1>5, <1>6, SubSeqFacts
  <1>8. Len(u) = l /\ \A n \in 1..l : u[n] = t[n]
    BY <1>1, <1>7
  <1>9. u = t
    BY <1>1, <1>7, <1>8, SameSequence
  <1> QED
    BY <1>3, <1>4, <1>5, <1>9

\* Blanks that follow a stop are stops, and so is what comes after them.
LEMMA BlankStops ==
  ASSUME NEW t \in Seq(Unit), NEW a \in Stops(t), NEW c \in Nat, a <= c, c <= Len(t),
         \A k \in a..(c - 1) : t[k + 1] \in Blank
  PROVE  c \in Stops(t)
  <1>1. PICK l : l \in Nat /\ l = Len(t)
    <2>1. Len(t) \in Nat
      OBVIOUS
    <2> QED
      BY <2>1
  <1>2. a \in Nat /\ HoldsStops(t, Stops(t))
    BY <1>1, StopsHold
  <1> DEFINE P == {k \in 0..(c - a) : a + k \in Stops(t)}
  <1>3. 0 \in P
    BY <1>2
  <1>4. ASSUME NEW k \in 1..(c - a), k - 1 \in P PROVE k \in P
    <2>1. PICK n : n = a + (k - 1) /\ n \in Stops(t)
      BY <1>4
    <2>2. n \in a..(c - 1) /\ n < l /\ n + 1 = a + k
      BY <1>1, <1>2, <2>1
    <2>3. t[n + 1] \in Blank
      BY <2>2
    <2>4. StopAfter(t, n) = n + 1
      BY <2>3, Openers DEF StopAfter, Blank
    <2>5. n + 1 \in Stops(t)
      BY <1>1, <1>2, <2>1, <2>2, <2>4 DEF HoldsStops
    <2> QED
      BY <2>2, <2>5
  <1>5. c - a \in P
    <2> HIDE DEF P
    <2>1. c - a \in Nat /\ c - a \in 0..(c - a)
      BY <1>2
    <2> QED
      BY <1>3, <1>4, <2>1, InductionUpTo
  <1>6. a + (c - a) = c
    BY <1>2
  <1> QED
    BY <1>5, <1>6

\* x is what stands between the blanks of segment g of t, from a to b.
Between(x, t, g, a, b) ==
  /\ IsPiece(x, t, a, b) /\ a \in Stops(t)
  /\ g.start <= a /\ a < b /\ b <= g.end
  /\ x # <<>> /\ x[1] \notin Blank /\ x[Len(x)] \notin Blank
  /\ \A k \in g.start..(g.end - 1) : k < a \/ k >= b => t[k + 1] \in Blank

LEMMA SegmentIsPiece ==
  ASSUME NEW t \in Seq(Unit), NEW s, IsSplit(t, s), NEW n \in 1..Len(s), NEW x,
         x = Trim(SubSeq(t, s[n].start + 1, s[n].end))
  PROVE  \/ x = <<>> /\ \A k \in s[n].start..(s[n].end - 1) : t[k + 1] \in Blank
         \/ \E a, b : Between(x, t, s[n], a, b)
  <1>0. PICK f, e, l : f = s[n].start /\ e = s[n].end /\ l = Len(t)
    OBVIOUS
  <1>1. f \in Nat /\ e \in Nat /\ l \in Nat /\ f <= e /\ e <= l
    <2>1. s[n].start \in Nat /\ s[n].end \in Nat /\ Len(t) \in Nat
      BY SegmentsAtStops
    <2>2. s[n].start <= s[n].end /\ s[n].end <= Len(t)
      BY DEF IsSplit
    <2> QED
      BY <1>0, <2>1, <2>2
  <1>2. f \in Stops(t) /\ (e < l => f < e /\ e - 1 \in Semis(t))
    BY <1>0, SegmentsAtStops
  <1>3. PICK u : u = SubSeq(t, f + 1, e)
    OBVIOUS
  <1>4. u \in Seq(Unit) /\ Len(u) = e - f /\ \A k \in 1..(e - f) : u[k] = t[f + k]
    <2>1. f + 1 \in Int /\ e \in Int /\ f + 1 >= 1 /\ e <= Len(t) /\ f + 1 <= e + 1
      BY <1>0, <1>1
    <2>2. /\ u \in Seq(Unit) /\ Len(u) = e + 1 - (f + 1)
          /\ \A k \in 1..(e + 1 - (f + 1)) : u[k] = t[(f + 1) + k - 1]
      BY <1>3, <2>1, SubSeqFacts
    <2>3. e + 1 - (f + 1) = e - f /\ \A k \in 1..(e - f) : (f + 1) + k - 1 = f + k
      BY <1>1
    <2> QED
      BY <2>2, <2>3
  <1>5. x = Trim(u)
    BY <1>0, <1>3
  <1>6. CASE x = <<>> /\ \A k \in 1..Len(u) : u[k] \in Blank
    <2>1. ASSUME NEW k \in f..(e - 1) PROVE t[k + 1] \in Blank
      <3>1. k - f + 1 \in 1..(e - f) /\ f + (k - f + 1) = k + 1
        BY <1>1
      <3>2. u[k - f + 1] = t[f + (k - f + 1)] /\ u[k - f + 1] \in Blank
        BY <1>4, <1>6, <3>1
      <3> QED
        BY <3>1, <3>2
    <2> QED
      BY <1>0, <1>6, <2>1
  <1>7. ASSUME NEW c \in 1..Len(u), NEW d \in 1..Len(u), c <= d,
               u[c] \notin Blank, u[d] \notin Blank,
               \A k \in 1..Len(u) : k < c \/ k > d => u[k] \in Blank,
               x = SubSeq(u, c, d)
        PROVE  \E a, b : Between(x, t, s[n], a, b)
    <2>0. PICK a, b : a = f + c - 1 /\ b = f + d
      OBVIOUS
    <2>1. /\ a \in Nat /\ b \in Nat /\ f <= a /\ a < b /\ b <= e /\ c \in Nat /\ d \in Nat
          /\ a = f + c - 1 /\ b = f + d
      <3>1. c \in 1..(e - f) /\ d \in 1..(e - f)
        BY <1>4, <1>7
      <3> QED
        BY <1>1, <1>7, <2>0, <3>1
    <2>11. a \in Nat /\ b \in Nat /\ a < b
      BY <2>1
    <2>10. b - a = d + 1 - c /\ b - a \in Nat \ {0} /\ b <= l
      BY <1>1, <2>1
    <2>2. /\ x \in Seq(Unit) /\ Len(x) = b - a
          /\ \A k \in 1..(b - a) : x[k] = u[c + k - 1]
      <3>1. c \in Int /\ d \in Int /\ c >= 1 /\ d <= Len(u) /\ c <= d + 1
        BY <1>1, <1>4, <1>7
      <3>2. PICK v : v = SubSeq(u, c, d)
        OBVIOUS
      <3>3. /\ v \in Seq(Unit) /\ Len(v) = d + 1 - c
            /\ \A k \in 1..(d + 1 - c) : v[k] = u[c + k - 1]
        BY <1>4, <3>1, <3>2, SubSeqFacts
      <3> QED
        BY <1>7, <2>10, <3>2, <3>3
    <2>3. ASSUME NEW k \in 1..(b - a) PROVE x[k] = t[a + k]
      <3>1. c + k - 1 \in 1..(e - f) /\ f + (c + k - 1) = a + k
        BY <1>1, <1>4, <1>7, <2>1
      <3>2. u[c + k - 1] = t[f + (c + k - 1)]
        BY <1>4, <3>1
      <3> QED
        BY <2>2, <3>1, <3>2
    <2>4. ASSUME NEW k \in f..(e - 1), k < a \/ k >= b PROVE t[k + 1] \in Blank
      <3>1. k - f + 1 \in 1..(e - f) /\ f + (k - f + 1) = k + 1
        BY <1>1
      <3>2. u[k - f + 1] = t[f + (k - f + 1)]
        BY <1>4, <3>1
      <3>3. k - f + 1 < c \/ k - f + 1 > d
        BY <1>1, <2>1, <2>4
      <3>4. u[k - f + 1] \in Blank
        BY <1>4, <1>7, <3>1, <3>3
      <3> QED
        BY <3>1, <3>2, <3>4
    <2>5. x[1] = u[c] /\ x[b - a] = u[d] /\ x # <<>>
      <3>0. c \in Nat /\ d \in Nat
        BY <2>1
      <3>1. 1 \in 1..(b - a) /\ b - a \in 1..(b - a) /\ c + 1 - 1 = c /\ c + (b - a) - 1 = d /\ b - a # 0
        BY <2>10, <2>11, <3>0
      <3>2. x[1] = u[c + 1 - 1] /\ x[b - a] = u[c + (b - a) - 1]
        BY <2>2, <3>1
      <3> QED
        BY <2>2, <3>1, <3>2
    <2>6. a \in Stops(t)
      <3>1. \A k \in f..(a - 1) : k \in f..(e - 1) /\ k < a
        BY <1>1, <2>1
      <3>2. \A k \in f..(a - 1) : t[k + 1] \in Blank
        BY <2>4, <3>1
      <3>3. a <= Len(t)
        BY <1>0, <1>1, <2>1, <2>10
      <3> QED
        BY <1>2, <2>1, <3>2, <3>3, BlankStops
    <2>7. b < l => t[b + 1] \in Blank \/ t[b] = "semi"
      <3>1. CASE b < e
        <4>1. b \in f..(e - 1) /\ b >= b
          BY <1>1, <2>1, <3>1
        <4> QED
          BY <2>4, <4>1
      <3>2. CASE b = e /\ e < l
        <4>1. t[(e - 1) + 1] = "semi"
          BY <1>2, <3>2 DEF Semis
        <4>2. (e - 1) + 1 = b
          BY <1>1, <3>2
        <4> QED
          BY <4>1, <4>2
      <3> QED
        BY <1>1, <2>1, <3>1, <3>2
    <2>8. IsPiece(x, t, a, b)
      <3>1. ASSUME NEW k \in 0..(b - a - 1) PROVE x[k + 1] = t[a + k + 1]
        <4>1. k + 1 \in 1..(b - a) /\ a + (k + 1) = a + k + 1
          BY <2>11
        <4> QED
          BY <2>3, <4>1
      <3>2. a <= b /\ b <= Len(t)
        BY <1>0, <1>1, <2>1, <2>10
      <3> QED
        BY <1>0, <1>1, <2>1, <2>2, <2>7, <3>1, <3>2 DEF IsPiece
    <2>9. Between(x, t, s[n], a, b)
      BY <1>0, <1>1, <1>7, <2>1, <2>2, <2>4, <2>5, <2>6, <2>8 DEF Between
    <2> QED
      BY <2>9
  <1> QED
    BY <1>4, <1>5, <1>6, <1>7, TrimFacts

\* A text that splits into itself alone.
Whole(x) == \A r : IsSplit(x, r) => StatementsIn(x, r) = <<x>>

LEMMA WithoutBlank ==
  ASSUME NEW x \in Seq(Unit), x # <<>>
  PROVE  /\ Without(<<x>>, {<<>>}) = <<x>>
         /\ Without(<<x, <<>>>>, {<<>>}) = <<x>>
  <1>1. PICK S, none : S = Seq(Unit) /\ none = <<>> /\ none \in S /\ x \in S /\ x # none
    <2>1. <<>> \in Seq(Unit)
      OBVIOUS
    <2> QED
      BY <2>1
  <1>2. <<x>> \in Seq(S) /\ <<x, none>> \in Seq(S)
    BY <1>1
  <1>3. PICK f : WithoutBy(<<x>>, {none}, S, f)
    BY <1>2, WithoutSteps
  <1>4. PICK g : WithoutBy(<<x, none>>, {none}, S, g)
    BY <1>2, WithoutSteps
  <1>5. Append(<<>>, x) = <<x>>
    OBVIOUS
  <1>6. Without(<<x>>, {none}) = f[1] /\ f[0] = <<>> /\ f[1] = WithoutStep(<<x>>, {none}, 1, f[0])
    <2>1. Len(<<x>>) = 1 /\ 1 \in 1..Len(<<x>>) /\ 1 - 1 = 0
      OBVIOUS
    <2> QED
      BY <1>3, <2>1 DEF WithoutBy
  <1>7. /\ Without(<<x, none>>, {none}) = g[2] /\ g[0] = <<>>
        /\ g[1] = WithoutStep(<<x, none>>, {none}, 1, g[0])
        /\ g[2] = WithoutStep(<<x, none>>, {none}, 2, g[1])
    <2>1. Len(<<x, none>>) = 2 /\ 1 \in 1..Len(<<x, none>>) /\ 2 \in 1..Len(<<x, none>>) /\ 1 - 1 = 0 /\ 2 - 1 = 1
      OBVIOUS
    <2> QED
      BY <1>4, <2>1 DEF WithoutBy
  <1>8. f[1] = <<x>> /\ g[1] = <<x>> /\ g[2] = g[1]
    BY <1>1, <1>5, <1>6, <1>7 DEF WithoutStep
  <1> QED
    BY <1>1, <1>6, <1>7, <1>8

\* The statement of a segment does.
LEMMA StatementIsWhole ==
  ASSUME NEW t \in Seq(Unit), NEW s, IsSplit(t, s), NEW n \in 1..Len(s), NEW x, NEW a, NEW b,
         Between(x, t, s[n], a, b)
  PROVE  x \in Seq(Unit) /\ Whole(x)
  <1>0. PICK f, e, l, m : f = s[n].start /\ e = s[n].end /\ l = Len(t) /\ m = Len(x)
    OBVIOUS
  <1>1. /\ f \in Nat /\ e \in Nat /\ l \in Nat /\ m \in Nat \ {0} /\ m = b - a
        /\ a \in Nat /\ b \in Nat /\ a < b /\ b <= e /\ f <= a /\ b <= l
    <2>1. x \in Seq(Unit) /\ Len(x) = b - a /\ a \in Nat /\ b \in Nat /\ a < b /\ b <= s[n].end
          /\ s[n].start <= a /\ b <= Len(t)
      BY DEF Between, IsPiece
    <2>2. s[n].end \in Nat /\ s[n].start \in Nat /\ Len(t) \in Nat
      BY SegmentsAtStops
    <2>3. b - a \in Nat \ {0}
      BY <2>1
    <2> QED
      BY <1>0, <2>1, <2>2, <2>3
  <1>20. x \in Seq(Unit)
    BY DEF Between, IsPiece
  <1>2. Stops(x) \subseteq 0..m /\ Stops(t) \subseteq 0..l
    BY <1>0, <1>20, StopsHold
  <1>3. ASSUME NEW k \in Semis(x) PROVE k = m - 1
    <2>1. k \in Stops(x) /\ k \in 0..(b - a - 1) /\ x[k + 1] = "semi"
      BY <1>0, <1>1, <1>2 DEF Semis
    <2>2. a + k \in Stops(t) /\ t[a + k + 1] = "semi"
      BY <2>1, PieceStops DEF Between, IsPiece
    <2>3. PICK o : o = a + k /\ o \in Semis(t) /\ o >= f
      <3>1. a + k < l /\ a + k >= f
        BY <1>1, <2>1
      <3> QED
        BY <1>0, <2>2, <3>1 DEF Semis
    <2>4. e <= o + 1
      BY <1>0, <2>3, SegmentsAtStops
    <2> QED
      BY <1>1, <2>1, <2>3, <2>4
  <1>4. SUFFICES ASSUME NEW r, IsSplit(x, r) PROVE StatementsIn(x, r) = <<x>>
    BY <1>20 DEF Whole
  <1>5. PICK c : c \in Nat \ {0} /\ c = Len(r)
    <2>1. Len(r) \in Nat \ {0}
      BY <1>4 DEF IsSplit
    <2> QED
      BY <2>1
  <1>6. /\ r[1].start = 0 /\ r[1].end = m
        /\ 1 < c <=> Semis(x) # {}
    <2>1. 1 \in 1..c
      BY <1>5
    <2>2. r[1].start = 0 /\ r[1].end = CutAfter(x, 0) /\ (1 < c <=> \E o \in Semis(x) : o >= 0)
      BY <1>4, <1>5, <2>1 DEF IsSplit
    <2>3. \A o \in Semis(x) : o >= 0
      BY <1>1, <1>3
    <2>4. CASE Semis(x) = {}
      <3>1. {k + 1 : k \in {o \in Semis(x) : o >= 0}} = {}
        BY <2>4
      <3> QED
        BY <1>0, <2>2, <2>4, <3>1 DEF CutAfter, Least
    <2>5. CASE Semis(x) # {}
      <3> DEFINE T == {k + 1 : k \in {o \in Semis(x) : o >= 0}}
      <3>1. T \subseteq {m}
        BY <1>1, <1>3
      <3>2. m \in T
        <4>1. PICK o \in Semis(x) : TRUE
          BY <2>5
        <4>2. o = m - 1 /\ o >= 0
          BY <1>3, <2>3, <4>1
        <4> QED
          BY <1>1, <4>1, <4>2
      <3>3. T \in SUBSET Nat /\ \A y \in T : m <= y
        <4> HIDE DEF T
        <4> QED
          BY <1>1, <3>1
      <3>4. Least(T, m) = m
        <4> HIDE DEF T
        <4> QED
          BY <3>2, <3>3, LeastIs
      <3> QED
        BY <1>0, <2>2, <2>3, <2>5, <3>4 DEF CutAfter
    <2> QED
      BY <2>4, <2>5
  <1>7. Trim(SubSeq(x, 1, m)) = x
    <2>1. SubSeq(x, 1, m) = x
      <3>1. PICK u : u = SubSeq(x, 1, m)
        OBVIOUS
      <3>2. 1 \in Int /\ m \in Int /\ 1 >= 1 /\ m <= Len(x) /\ 1 <= m + 1
        BY <1>0, <1>1
      <3>3. u \in Seq(Unit) /\ Len(u) = m + 1 - 1 /\ \A k \in 1..(m + 1 - 1) : u[k] = x[1 + k - 1]
        BY <1>20, <3>1, <3>2, SubSeqFacts
      <3>4. Len(u) = m /\ \A k \in 1..m : u[k] = x[k]
        BY <1>1, <3>3
      <3> QED
        BY <1>0, <1>20, <3>1, <3>3, <3>4, SameSequence
    <2>2. Trim(x) = x
      BY <1>20, TrimSolid DEF Between
    <2> QED
      BY <2>1, <2>2
  <1>8. PICK u : u = TextsIn(x, r)
    OBVIOUS
  <1>9. DOMAIN u = 1..c /\ u[1] = x /\ x # <<>>
    <2>1. 1 \in 1..c /\ r[1].start + 1 = 1
      BY <1>5, <1>6
    <2>2. DOMAIN u = 1..c /\ \A k \in 1..c : u[k] = Trim(SubSeq(x, r[k].start + 1, r[k].end))
      BY <1>5, <1>8 DEF TextsIn
    <2> QED
      BY <1>6, <1>7, <2>1, <2>2 DEF Between
  <1>10. CASE Semis(x) = {}
    <2>1. c = 1
      BY <1>5, <1>6, <1>10
    <2>2. u = <<x>>
      <3>1. u = [k \in 1..1 |-> x]
        BY <1>5, <1>8, <1>9, <2>1 DEF TextsIn
      <3> QED
        BY <3>1
    <2> QED
      BY <1>20, <1>8, <1>9, <2>2, WithoutBlank DEF StatementsIn
  <1>11. CASE Semis(x) # {}
    <2>1. 2 \in 1..c /\ r[2].start = m
      <3>1. 2 \in 1..c
        BY <1>5, <1>6, <1>11
      <3>2. r[2].start = r[2 - 1].end
        BY <1>4, <1>5, <3>1 DEF IsSplit
      <3> QED
        BY <1>6, <3>1, <3>2
    <2>2. \A o \in Semis(x) : ~(o >= m)
      BY <1>1, <1>3
    <2>3. ~(2 < c)
      BY <1>4, <1>5, <2>1, <2>2 DEF IsSplit
    <2>4. c = 2
      BY <1>5, <2>1, <2>3
    <2>5. r[2].end = m
      <3>1. r[2].end <= m /\ r[2].start <= r[2].end
        BY <1>0, <1>4, <1>5, <2>1 DEF IsSplit
      <3>2. r[2].end \in Nat
        <4>1. r[2] \in Segment
          BY <1>4, <1>5, <2>1 DEF IsSplit
        <4> QED
          BY <4>1 DEF Segment
      <3>3. PICK p, q : p = r[2].start /\ q = r[2].end
        OBVIOUS
      <3> QED
        BY <1>1, <2>1, <3>1, <3>2, <3>3
    <2>6. u[2] = <<>>
      <3>1. u[2] = Trim(SubSeq(x, m + 1, m))
        BY <1>5, <1>8, <2>1, <2>5 DEF TextsIn
      <3>2. SubSeq(x, m + 1, m) = <<>>
        BY <1>1
      <3>3. Trim(<<>>) = <<>>
        BY DEF Trim
      <3> QED
        BY <3>1, <3>2, <3>3
    <2>7. u = <<x, <<>>>>
      <3>1. u = [k \in 1..2 |-> u[k]]
        BY <1>5, <1>8, <2>4 DEF TextsIn
      <3>2. u = [k \in 1..2 |-> IF k = 1 THEN x ELSE <<>>]
        BY <1>9, <2>6, <3>1
      <3>3. PICK none : none = <<>>
        OBVIOUS
      <3>4. [k \in 1..2 |-> IF k = 1 THEN x ELSE none] = <<x, none>>
        OBVIOUS
      <3> QED
        BY <3>2, <3>3, <3>4
    <2> QED
      BY <1>20, <1>8, <1>9, <2>7, WithoutBlank DEF StatementsIn
  <1> QED
    BY <1>10, <1>11

-----------------------------------------------------------------------------
(* The only batch of several statements: the SELECTs of a dot command.     *)

\* They stand one to a line.
LikeSelects(t, n) ==
  /\ t \in Seq(Unit) /\ Len(t) = 4 * n - 1
  /\ \A m \in 1..n : /\ t[4 * m - 3] = "SELECT"
                     /\ t[4 * m - 2] = "other"
                     /\ t[4 * m - 1] = "semi"
                     /\ m < n => t[4 * m] = "newline"

LEMMA SelectLooks ==
  /\ Select \in Seq(Unit) /\ Len(Select) = 3
  /\ Select[1] = "SELECT" /\ Select[2] = "other" /\ Select[3] = "semi"
  BY SelectsTyped DEF Select

\* One more on a line of its own.
LEMMA OneMoreSelect ==
  ASSUME NEW k \in Nat \ {0}, NEW t, LikeSelects(t, k)
  PROVE  LikeSelects(t \o <<"newline">> \o Select, k + 1)
<1>1. /\ t \in Seq(Unit) /\ Len(t) = 4 * k - 1
      /\ <<"newline">> \in Seq(Unit) /\ Len(<<"newline">>) = 1 /\ <<"newline">>[1] = "newline"
  <2>1. "newline" \in Unit
    BY DEF Unit, Marks
  <2>. QED
    BY <2>1 DEF LikeSelects
<1>2. PICK g : g = t \o <<"newline">>
  OBVIOUS
<1>3. /\ g \in Seq(Unit) /\ Len(g) = 4 * k
      /\ \A n \in 1..(4 * k - 1) : g[n] = t[n]
      /\ g[4 * k] = "newline"
  <2>1. /\ g \in Seq(Unit) /\ Len(g) = Len(t) + Len(<<"newline">>)
        /\ \A n \in 1..Len(t) : g[n] = t[n]
        /\ \A n \in (Len(t) + 1)..(Len(t) + Len(<<"newline">>)) : g[n] = <<"newline">>[n - Len(t)]
    <3>1. LET c == t \o <<"newline">>
          IN  /\ c \in Seq(Unit) /\ Len(c) = Len(t) + Len(<<"newline">>)
              /\ \A n \in 1..Len(t) : c[n] = t[n]
              /\ \A n \in (Len(t) + 1)..(Len(t) + Len(<<"newline">>)) : c[n] = <<"newline">>[n - Len(t)]
      <4>. HIDE <1>2
      <4>1. t \in Seq(Unit) /\ <<"newline">> \in Seq(Unit)
        BY <1>1
      <4>. QED
        BY <4>1, ConcatFacts
    <3>. QED
      BY <1>2, <3>1
  <2>2. Len(t) + 1 = 4 * k /\ 4 * k \in (Len(t) + 1)..(Len(t) + Len(<<"newline">>)) /\ 4 * k - Len(t) = 1
    BY <1>1
  <2>. QED
    BY <1>1, <2>1, <2>2
<1>4. PICK h : h = g \o Select
  OBVIOUS
<1>5. /\ h \in Seq(Unit) /\ Len(h) = 4 * k + 3
      /\ \A n \in 1..(4 * k) : h[n] = g[n]
      /\ \A n \in (4 * k + 1)..(4 * k + 3) : h[n] = Select[n - 4 * k]
  <2>1. LET c == g \o Select
        IN  /\ c \in Seq(Unit) /\ Len(c) = Len(g) + Len(Select)
            /\ \A n \in 1..Len(g) : c[n] = g[n]
            /\ \A n \in (Len(g) + 1)..(Len(g) + Len(Select)) : c[n] = Select[n - Len(g)]
    <3>1. g \in Seq(Unit) /\ Select \in Seq(Unit)
      BY <1>3, SelectLooks
    <3>. QED
      BY <3>1, ConcatFacts
  <2>2. /\ h \in Seq(Unit) /\ Len(h) = Len(g) + Len(Select)
        /\ \A n \in 1..Len(g) : h[n] = g[n]
        /\ \A n \in (Len(g) + 1)..(Len(g) + Len(Select)) : h[n] = Select[n - Len(g)]
    BY <1>4, <2>1
  <2>3. Len(g) = 4 * k /\ Len(Select) = 3
    BY <1>3, SelectLooks
  <2>. QED
    BY <2>2, <2>3
<1>6. h[4 * k + 1] = "SELECT" /\ h[4 * k + 2] = "other" /\ h[4 * k + 3] = "semi"
  BY <1>5, SelectLooks
<1>7. ASSUME NEW m \in 1..(k + 1)
      PROVE  /\ h[4 * m - 3] = "SELECT"
             /\ h[4 * m - 2] = "other"
             /\ h[4 * m - 1] = "semi"
             /\ m < k + 1 => h[4 * m] = "newline"
  <2>1. CASE m = k + 1
    BY <2>1, <1>6
  <2>2. CASE m # k + 1
    <3>1. /\ m \in 1..k
          /\ 4 * m - 3 \in 1..(4 * k - 1) /\ 4 * m - 2 \in 1..(4 * k - 1) /\ 4 * m - 1 \in 1..(4 * k - 1)
          /\ m < k => 4 * m \in 1..(4 * k - 1)
      BY <2>2
    <3>2. /\ t[4 * m - 3] = "SELECT" /\ t[4 * m - 2] = "other" /\ t[4 * m - 1] = "semi"
          /\ m < k => t[4 * m] = "newline"
      BY <3>1 DEF LikeSelects
    <3>3. \A n \in 1..(4 * k - 1) : h[n] = t[n]
      BY <1>3, <1>5
    <3>4. h[4 * k] = "newline"
      BY <1>3, <1>5
    <3>. QED
      BY <3>1, <3>2, <3>3, <3>4
  <2>. QED
    BY <2>1, <2>2
<1>8. Len(h) = 4 * (k + 1) - 1
  BY <1>5
<1>9. LikeSelects(h, k + 1)
  BY <1>5, <1>7, <1>8 DEF LikeSelects
<1>. QED
  BY <1>9, <1>2, <1>4

LEMMA JoinedSelects ==
  ASSUME NEW n \in Nat \ {0}
  PROVE  LikeSelects(Joined(Selects(n)), n)
<1>1. Selects(n) \in Seq(Seq(Unit)) /\ Len(Selects(n)) = n /\ \A m \in 1..n : Selects(n)[m] = Select
  BY SelectsAreTexts
<1>2. PICK f : JoinedBy(Selects(n), f)
  BY <1>1, JoinedSteps
<1>3. /\ Joined(Selects(n)) = f[n]
      /\ \A k \in 1..n : f[k] = IF k = 1 THEN Select ELSE f[k - 1] \o <<"newline">> \o Select
  BY <1>1, <1>2 DEF JoinedBy
<1>. DEFINE P == {k \in 0..n : k >= 1 => LikeSelects(f[k], k)}
<1>4. 0 \in P
  OBVIOUS
<1>5. ASSUME NEW k \in 1..n, k - 1 \in P
      PROVE  k \in P
  <2>1. CASE k = 1
    <3>1. f[1] = Select
      BY <2>1, <1>3
    <3>2. LikeSelects(Select, 1)
      <4>1. \A m \in 1..1 : m = 1
        OBVIOUS
      <4>. QED
        BY <4>1, SelectLooks DEF LikeSelects
    <3>. QED
      BY <2>1, <3>1, <3>2
  <2>2. CASE k # 1
    <3>1. LikeSelects(f[k - 1], k - 1) /\ k - 1 \in Nat \ {0} /\ k - 1 + 1 = k
      BY <1>5, <2>2
    <3>2. f[k] = f[k - 1] \o <<"newline">> \o Select
      BY <1>3, <2>2
    <3>3. LikeSelects(f[k], k - 1 + 1)
      BY <3>1, <3>2, OneMoreSelect
    <3>. QED
      BY <3>1, <3>3
  <2>. QED
    BY <2>1, <2>2
<1>6. \A k \in 0..n : k \in P
  <2>. HIDE DEF P
  <2>. QED
    BY <1>4, <1>5, InductionUpTo
<1>7. n \in P
  BY <1>6
<1>. QED
  BY <1>3, <1>7

\* Nothing opens in them, so each offset is a stop.
LEMMA SelectsRead ==
  ASSUME NEW n \in Nat \ {0}, NEW t, LikeSelects(t, n)
  PROVE  /\ Stops(t) = 0..Len(t)
         /\ Semis(t) = {4 * m - 2 : m \in 1..n}
<1>1. t \in Seq(Unit) /\ Len(t) = 4 * n - 1 /\ Len(t) \in Nat
  BY DEF LikeSelects
<1>2. ASSUME NEW k \in 0..(Len(t) - 1)
      PROVE  /\ t[k + 1] \in {"SELECT", "other", "semi", "newline"}
             /\ t[k + 1] = "semi" <=> \E m \in 1..n : k = 4 * m - 2
  <2>1. PICK m \in 1..n : k + 1 \in {4 * m - 3, 4 * m - 2, 4 * m - 1, 4 * m}
    <3>1. /\ (k \div 4) + 1 \in 1..n
          /\ k + 1 \in {4 * ((k \div 4) + 1) - 3, 4 * ((k \div 4) + 1) - 2, 4 * ((k \div 4) + 1) - 1,
                        4 * ((k \div 4) + 1)}
      BY <1>1
    <3>. QED
      BY <3>1
  <2>2. k + 1 = 4 * m => m < n
    BY <1>1
  <2>3. /\ t[4 * m - 3] = "SELECT" /\ t[4 * m - 2] = "other" /\ t[4 * m - 1] = "semi"
        /\ m < n => t[4 * m] = "newline"
    BY DEF LikeSelects
  <2>4. "semi" \notin Words /\ "SELECT" \in Words
    BY WordsAssumption, CommandWordsAssumption DEF Marks
  <2>5. "SELECT" # "semi"
    BY <2>4
  <2>6. t[k + 1] = IF k + 1 = 4 * m - 3 THEN "SELECT" ELSE IF k + 1 = 4 * m - 2 THEN "other"
                   ELSE IF k + 1 = 4 * m - 1 THEN "semi" ELSE "newline"
    BY <2>1, <2>2, <2>3
  <2>7. t[k + 1] = "semi" <=> k = 4 * m - 2
    BY <2>1, <2>5, <2>6
  <2>8. ASSUME NEW o \in 1..n, k = 4 * o - 2
        PROVE  k = 4 * m - 2
    BY <2>1, <2>8
  <2>9. (\E o \in 1..n : k = 4 * o - 2) <=> k = 4 * m - 2
    <3>. HIDE <2>1
    <3>. QED
      BY <2>8
  <2>10. t[k + 1] \in {"SELECT", "other", "semi", "newline"}
    BY <2>6
  <2>. QED
    BY <2>7, <2>9, <2>10
<1>3. ASSUME NEW k \in 0..(Len(t) - 1)
      PROVE  Opener(t, k) = "code"
  <2>1. t[k + 1] \in {"SELECT", "other", "semi", "newline"}
    BY <1>2
  <2>2. "SELECT" \notin Marks
    BY WordsAssumption, CommandWordsAssumption
  <2>3. t[k + 1] \notin {"dash", "slash", "quote", "dollar"}
    BY <2>1, <2>2 DEF Marks
  <2>. QED
    BY <2>3, Openers
<1>4. Stops(t) = 0..Len(t)
  <2>1. Stops(t) \subseteq 0..Len(t) /\ 0 \in Stops(t)
        /\ \A k \in Stops(t) : k < Len(t) => StopAfter(t, k) \in Stops(t)
    BY <1>1, StopsHold DEF HoldsStops
  <2>2. ASSUME NEW k \in 1..Len(t), k - 1 \in Stops(t)
        PROVE  k \in Stops(t)
    <3>1. k - 1 \in 0..(Len(t) - 1) /\ k - 1 < Len(t) /\ k - 1 + 1 = k
      BY <1>1
    <3>2. StopAfter(t, k - 1) = k - 1 + 1
      BY <1>3, <3>1 DEF StopAfter
    <3>. QED
      BY <2>1, <2>2, <3>1, <3>2
  <2>3. \A k \in 0..Len(t) : k \in Stops(t)
    BY <1>1, <2>1, <2>2, InductionUpTo
  <2>. QED
    BY <2>1, <2>3
<1>5. Semis(t) = {4 * m - 2 : m \in 1..n}
  <2>1. ASSUME NEW k \in Semis(t)
        PROVE  \E m \in 1..n : k = 4 * m - 2
    <3>1. k \in 0..(Len(t) - 1) /\ t[k + 1] = "semi"
      BY <1>1, <1>4 DEF Semis
    <3>. QED
      BY <1>2, <3>1
  <2>2. ASSUME NEW m \in 1..n
        PROVE  4 * m - 2 \in Semis(t)
    <3>1. 4 * m - 2 \in 0..(Len(t) - 1) /\ 4 * m - 2 \in 0..Len(t) /\ 4 * m - 2 < Len(t)
      BY <1>1
    <3>2. t[4 * m - 2 + 1] = "semi"
      BY <1>2, <3>1
    <3>. QED
      BY <1>4, <3>1, <3>2 DEF Semis
  <2>. QED
    BY <2>1, <2>2
<1>. QED
  BY <1>4, <1>5

SelectSegs(n) ==
  [m \in 1..(n + 1) |-> [start |-> IF m = 1 THEN 0 ELSE 4 * m - 5,
                         end |-> IF m <= n THEN 4 * m - 1 ELSE 4 * n - 1]]

LEMMA SelectsSplit ==
  ASSUME NEW n \in Nat \ {0}, NEW t, LikeSelects(t, n)
  PROVE  IsSplit(t, SelectSegs(n))
<1>1. t \in Seq(Unit) /\ Len(t) = 4 * n - 1 /\ Len(t) \in Nat
  BY DEF LikeSelects
<1>2. PICK s : s = SelectSegs(n)
  OBVIOUS
<1>3. Semis(t) = {4 * m - 2 : m \in 1..n}
  BY SelectsRead
<1>4. /\ DOMAIN s = 1..(n + 1)
      /\ \A m \in 1..(n + 1) : s[m] = [start |-> IF m = 1 THEN 0 ELSE 4 * m - 5,
                                       end |-> IF m <= n THEN 4 * m - 1 ELSE 4 * n - 1]
  BY <1>2 DEF SelectSegs
<1>5. \A m \in 1..(n + 1) :
        /\ s[m].start = IF m = 1 THEN 0 ELSE 4 * m - 5
        /\ s[m].end = IF m <= n THEN 4 * m - 1 ELSE 4 * n - 1
  BY <1>4
<1>6. \A m \in 1..(n + 1) : s[m] \in Segment
  <2>1. ASSUME NEW m \in 1..(n + 1)
        PROVE  /\ (IF m = 1 THEN 0 ELSE 4 * m - 5) \in Nat
               /\ (IF m <= n THEN 4 * m - 1 ELSE 4 * n - 1) \in Nat
    OBVIOUS
  <2>. QED
    BY <1>4, <2>1 DEF Segment
<1>7. s \in Seq(Segment) /\ Len(s) = n + 1 /\ s # <<>>
  <2>1. s \in [1..(n + 1) -> Segment]
    BY <1>2, <1>4, <1>6 DEF SelectSegs
  <2>. QED
    BY <2>1
<1>8. ASSUME NEW m \in 1..(n + 1)
      PROVE  /\ CutAfter(t, s[m].start) = s[m].end
             /\ m < n + 1 <=> \E o \in Semis(t) : o >= s[m].start
  <2>1. PICK a, e : a = s[m].start /\ e = s[m].end
    OBVIOUS
  <2>2. a = (IF m = 1 THEN 0 ELSE 4 * m - 5) /\ e = (IF m <= n THEN 4 * m - 1 ELSE 4 * n - 1)
    BY <1>5, <2>1
  <2>3. a \in Nat /\ e \in Nat
    BY <2>2
  <2>. DEFINE T == {k + 1 : k \in {o \in Semis(t) : o >= a}}
  <2>4. CASE m <= n
    <3>1. 4 * m - 2 \in Semis(t) /\ 4 * m - 2 >= a
      BY <1>3, <2>2, <2>4
    <3>2. e = 4 * m - 2 + 1
      BY <2>2, <2>4
    <3>3. e \in T
      BY <3>1, <3>2
    <3>4. ASSUME NEW k \in Semis(t), k >= a
          PROVE  e <= k + 1 /\ k + 1 \in Nat
      <4>1. PICK o \in 1..n : k = 4 * o - 2
        BY <1>3
      <4>2. o >= m
        BY <2>2, <3>4, <4>1
      <4>. QED
        BY <3>2, <4>1, <4>2
    <3>5. T \in SUBSET Nat /\ \A y \in T : e <= y
      BY <3>4
    <3>6. Least(T, Len(t)) = e
      <4>. HIDE DEF T
      <4>. QED
        BY <3>3, <3>5, LeastIs
    <3>7. CutAfter(t, a) = e
      BY <3>6 DEF CutAfter
    <3>. QED
      BY <2>1, <2>4, <3>1, <3>7
  <2>5. CASE ~(m <= n)
    <3>1. m = n + 1 /\ a = 4 * n - 1 /\ e = 4 * n - 1
      BY <2>2, <2>5
    <3>2. ~\E o \in Semis(t) : o >= a
      BY <1>3, <3>1
    <3>3. T = {}
      BY <3>2
    <3>4. CutAfter(t, a) = Len(t)
      BY <3>3 DEF CutAfter, Least
    <3>. QED
      BY <1>1, <2>1, <3>1, <3>2, <3>4
  <2>. QED
    BY <2>4, <2>5
<1>9. ASSUME NEW m \in 1..(n + 1)
      PROVE  /\ s[m].start = IF m = 1 THEN 0 ELSE s[m - 1].end
             /\ s[m].start <= s[m].end /\ s[m].end <= Len(t)
  <2>1. m # 1 => m - 1 \in 1..(n + 1) /\ m - 1 <= n
    OBVIOUS
  <2>2. m # 1 => s[m - 1].end = 4 * (m - 1) - 1
    BY <1>5, <2>1
  <2>. QED
    BY <1>1, <1>5, <2>2
<1>10. IsSplit(t, s)
  BY <1>7, <1>8, <1>9 DEF IsSplit
<1>. QED
  BY <1>2, <1>10

\* A text of solid units after a blank one, or none, is trimmed to them.
LEMMA TrimSelect ==
  ASSUME NEW u \in Seq(Unit),
         \/ Len(u) = 3 /\ u[1] = "SELECT" /\ u[2] = "other" /\ u[3] = "semi"
         \/ /\ Len(u) = 4 /\ u[1] = "newline" /\ u[2] = "SELECT" /\ u[3] = "other"
            /\ u[4] = "semi"
  PROVE  Trim(u) = Select
<1>1. "SELECT" \notin Blank /\ "other" \notin Blank /\ "semi" \notin Blank /\ "newline" \in Blank
  <2>1. "SELECT" \notin Marks
    BY WordsAssumption, CommandWordsAssumption
  <2>. QED
    BY <2>1 DEF Marks, Blank
<1>0. PICK c : c = Len(u) - 3
  OBVIOUS
<1>2. /\ c \in {0, 1} /\ Len(u) = 3 + c
      /\ u[c + 1] = "SELECT" /\ u[c + 2] = "other" /\ u[c + 3] = "semi"
      /\ c = 1 => u[1] = "newline"
  <2>1. CASE Len(u) = 3
    <3>1. c = 0 /\ c + 1 = 1 /\ c + 2 = 2 /\ c + 3 = 3
      BY <1>0, <2>1
    <3>. QED
      BY <2>1, <3>1
  <2>2. CASE Len(u) = 4
    <3>1. c = 1 /\ c + 1 = 2 /\ c + 2 = 3 /\ c + 3 = 4
      BY <1>0, <2>2
    <3>. QED
      BY <2>2, <3>1
  <2>. QED
    BY <2>1, <2>2
<1>3. u[c + 1] \notin Blank /\ c + 1 \in 1..Len(u)
  BY <1>1, <1>2
<1>4. PICK a \in 1..Len(u), b \in 1..Len(u) :
        /\ a <= b /\ u[a] \notin Blank /\ u[b] \notin Blank
        /\ \A n \in 1..Len(u) : n < a \/ n > b => u[n] \in Blank
        /\ Trim(u) = SubSeq(u, a, b)
  BY <1>3, TrimFacts
<1>5. a = c + 1 /\ b = c + 3
  <2>1. u[c + 3] \notin Blank /\ c + 3 \in 1..Len(u) /\ (c = 1 => u[1] \in Blank)
    BY <1>1, <1>2
  <2>2. a <= c + 1 /\ b >= c + 3
    BY <1>3, <1>4, <2>1
  <2>3. a >= c + 1
    <3>1. c = 1 => a # 1
      BY <1>4, <2>1
    <3>. QED
      BY <1>2, <3>1
  <2>. QED
    BY <1>2, <2>2, <2>3
<1>6. PICK v : v = SubSeq(u, c + 1, c + 3)
  OBVIOUS
<1>7. /\ v \in Seq(Unit) /\ Len(v) = 3
      /\ v[1] = u[c + 1] /\ v[2] = u[c + 2] /\ v[3] = u[c + 3]
  <2>1. c + 1 \in Int /\ c + 3 \in Int /\ c + 1 >= 1 /\ c + 3 <= Len(u) /\ c + 1 <= c + 3 + 1
    BY <1>2
  <2>2. LET w == SubSeq(u, c + 1, c + 3)
        IN  /\ w \in Seq(Unit) /\ Len(w) = c + 3 + 1 - (c + 1)
            /\ \A n \in 1..(c + 3 + 1 - (c + 1)) : w[n] = u[c + 1 + n - 1]
    BY <2>1, SubSeqFacts
  <2>3. v \in Seq(Unit) /\ Len(v) = c + 3 + 1 - (c + 1)
        /\ \A n \in 1..(c + 3 + 1 - (c + 1)) : v[n] = u[c + 1 + n - 1]
    BY <1>6, <2>2
  <2>. QED
    BY <1>2, <2>3
<1>8. v = Select
  <2>1. \A n \in 1..3 : v[n] = Select[n]
    <3>1. v[1] = Select[1] /\ v[2] = Select[2] /\ v[3] = Select[3]
      BY <1>2, <1>7, SelectLooks
    <3>. QED
      BY <3>1
  <2>. QED
    BY <1>7, <2>1, SelectLooks, SameSequence
<1>. QED
  BY <1>4, <1>5, <1>6, <1>8

\* What each segment of theirs holds.
LEMMA SelectTexts ==
  ASSUME NEW n \in Nat \ {0}, NEW t, LikeSelects(t, n)
  PROVE  /\ TextsIn(t, SelectSegs(n)) \in Seq(Seq(Unit))
         /\ Len(TextsIn(t, SelectSegs(n))) = n + 1
         /\ \A m \in 1..n : TextsIn(t, SelectSegs(n))[m] = Select
         /\ TextsIn(t, SelectSegs(n))[n + 1] = <<>>
<1>1. t \in Seq(Unit) /\ Len(t) = 4 * n - 1 /\ Len(t) \in Nat
  BY DEF LikeSelects
<1>2. PICK s : s = SelectSegs(n)
  OBVIOUS
<1>3. /\ Len(s) = n + 1
      /\ \A m \in 1..(n + 1) :
           /\ s[m].start = IF m = 1 THEN 0 ELSE 4 * m - 5
           /\ s[m].end = IF m <= n THEN 4 * m - 1 ELSE 4 * n - 1
  BY <1>2 DEF SelectSegs
<1>4. ASSUME NEW m \in 1..n
      PROVE  Trim(SubSeq(t, s[m].start + 1, s[m].end)) = Select
  <2>1. PICK a, e : a = s[m].start /\ e = s[m].end
    OBVIOUS
  <2>2. a = (IF m = 1 THEN 0 ELSE 4 * m - 5) /\ e = 4 * m - 1
    BY <1>3, <2>1
  <2>3. a \in Nat /\ e \in Nat /\ e <= Len(t) /\ a + 1 <= e + 1
        /\ a + 1 \in Int /\ a + 1 >= 1
    BY <1>1, <2>2
  <2>4. PICK u : u = SubSeq(t, a + 1, e)
    OBVIOUS
  <2>5. /\ u \in Seq(Unit) /\ Len(u) = e + 1 - (a + 1)
        /\ \A k \in 1..(e + 1 - (a + 1)) : u[k] = t[a + 1 + k - 1]
    <3>1. LET w == SubSeq(t, a + 1, e)
          IN  /\ w \in Seq(Unit) /\ Len(w) = e + 1 - (a + 1)
              /\ \A k \in 1..(e + 1 - (a + 1)) : w[k] = t[a + 1 + k - 1]
      <4>. HIDE <2>4
      <4>. QED
        BY <1>1, <2>3, SubSeqFacts
    <3>. QED
      BY <2>4, <3>1
  <2>6. /\ t[4 * m - 3] = "SELECT" /\ t[4 * m - 2] = "other" /\ t[4 * m - 1] = "semi"
        /\ m # 1 => t[4 * (m - 1)] = "newline"
    <3>1. m # 1 => m - 1 \in 1..n /\ m - 1 < n
      OBVIOUS
    <3>. QED
      BY <3>1 DEF LikeSelects
  <2>7. CASE m = 1
    <3>1. /\ e + 1 - (a + 1) = 3 /\ a + 1 + 1 - 1 = 4 * m - 3 /\ a + 1 + 2 - 1 = 4 * m - 2
          /\ a + 1 + 3 - 1 = 4 * m - 1
      BY <2>2, <2>7
    <3>2. Len(u) = 3 /\ u[1] = t[4 * m - 3] /\ u[2] = t[4 * m - 2] /\ u[3] = t[4 * m - 1]
      BY <2>5, <3>1
    <3>3. Trim(u) = Select
      BY <2>5, <2>6, <3>2, TrimSelect
    <3>. QED
      BY <2>1, <2>4, <3>3
  <2>8. CASE m # 1
    <3>0. /\ e + 1 - (a + 1) = 4 /\ a + 1 + 1 - 1 = 4 * (m - 1) /\ a + 1 + 2 - 1 = 4 * m - 3
          /\ a + 1 + 3 - 1 = 4 * m - 2 /\ a + 1 + 4 - 1 = 4 * m - 1
      BY <2>2, <2>8
    <3>1. Len(u) = 4 /\ u[1] = t[4 * (m - 1)] /\ u[2] = t[4 * m - 3] /\ u[3] = t[4 * m - 2]
          /\ u[4] = t[4 * m - 1]
      BY <2>5, <3>0
    <3>2. Trim(u) = Select
      BY <2>5, <2>6, <2>8, <3>1, TrimSelect
    <3>. QED
      BY <2>1, <2>4, <3>2
  <2>. QED
    BY <2>7, <2>8
<1>5. Trim(SubSeq(t, s[n + 1].start + 1, s[n + 1].end)) = <<>>
  <2>1. PICK a, e : a = s[n + 1].start /\ e = s[n + 1].end
    OBVIOUS
  <2>2. a = 4 * n - 1 /\ e = 4 * n - 1
    <3>1. n + 1 \in 1..(n + 1) /\ n + 1 # 1 /\ ~(n + 1 <= n)
      OBVIOUS
    <3>2. a = 4 * (n + 1) - 5 /\ e = 4 * n - 1
      BY <1>3, <2>1, <3>1
    <3>. QED
      BY <3>2
  <2>3. PICK u : u = SubSeq(t, a + 1, e)
    OBVIOUS
  <2>4. u \in Seq(Unit) /\ Len(u) = 0
    <3>0. a + 1 \in Int /\ e \in Int /\ a + 1 >= 1 /\ e <= Len(t) /\ a + 1 <= e + 1
      BY <1>1, <2>2
    <3>1. SubSeq(t, a + 1, e) \in Seq(Unit) /\ Len(SubSeq(t, a + 1, e)) = e + 1 - (a + 1)
      <4>. HIDE <2>3
      <4>. QED
        BY <1>1, <3>0, SubSeqFacts
    <3>. QED
      BY <2>2, <2>3, <3>1
  <2>5. Trim(u) = <<>>
    <3>1. 1..Len(u) = {}
      BY <2>4
    <3>. QED
      BY <2>4, <3>1, TrimFacts
  <2>. QED
    BY <2>1, <2>3, <2>5
<1>6. PICK x : x = TextsIn(t, s)
  OBVIOUS
<1>7. DOMAIN x = 1..(n + 1) /\ \A m \in 1..(n + 1) : x[m] = Trim(SubSeq(t, s[m].start + 1, s[m].end))
  BY <1>3, <1>6 DEF TextsIn
<1>8. (\A m \in 1..n : x[m] = Select) /\ x[n + 1] = <<>>
  BY <1>4, <1>5, <1>7
<1>9. x \in Seq(Seq(Unit)) /\ Len(x) = n + 1
  <2>1. \A m \in 1..(n + 1) : x[m] \in Seq(Unit)
    <3>1. \A m \in 1..(n + 1) : m \in 1..n \/ m = n + 1
      OBVIOUS
    <3>2. Select \in Seq(Unit) /\ <<>> \in Seq(Unit)
      BY SelectLooks
    <3>. QED
      BY <1>8, <3>1, <3>2
  <2>2. x \in [1..(n + 1) -> Seq(Unit)]
    BY <1>3, <1>6, <1>7, <2>1 DEF TextsIn
  <2>. QED
    BY <2>2
<1>. QED
  BY <1>2, <1>6, <1>8, <1>9

\* Joined and split again they are the same statements.
LEMMA SelectsAgain ==
  ASSUME NEW n \in Nat \ {0}
  PROVE  /\ IsSplit(Joined(Selects(n)), SplitOf(Joined(Selects(n))))
         /\ StatementsOf(Joined(Selects(n))) = Selects(n)
<1>1. PICK t : t = Joined(Selects(n))
  OBVIOUS
<1>2. LikeSelects(t, n)
  BY <1>1, JoinedSelects
<1>3. PICK x : x = TextsIn(t, SelectSegs(n))
  OBVIOUS
<1>4. /\ x \in Seq(Seq(Unit)) /\ Len(x) = n + 1
      /\ \A m \in 1..n : x[m] = Select
      /\ x[n + 1] = <<>>
  BY <1>2, <1>3, SelectTexts
<1>5. PICK f : WithoutBy(x, {<<>>}, Seq(Unit), f)
  BY <1>4, WithoutSteps
<1>6. \A k \in 0..n : f[k] = Selects(k)
  <2>. DEFINE P == {k \in 0..n : f[k] = Selects(k)}
  <2>1. 0 \in P
    <3>1. f[0] = <<>>
      BY <1>5 DEF WithoutBy
    <3>2. Selects(0) = <<>>
      BY SelectsAreTexts
    <3>. QED
      BY <3>1, <3>2
  <2>2. ASSUME NEW k \in 1..n, k - 1 \in P
        PROVE  k \in P
    <3>1. f[k] = WithoutStep(x, {<<>>}, k, f[k - 1]) /\ k - 1 \in Nat /\ f[k - 1] = Selects(k - 1)
      BY <1>4, <1>5, <2>2 DEF WithoutBy
    <3>2. x[k] = Select /\ Select # <<>>
      <4>1. x[k] = Select
        BY <1>4, <2>2
      <4>. QED
        BY <4>1 DEF Select
    <3>3. f[k] = Append(Selects(k - 1), Select)
      BY <3>1, <3>2 DEF WithoutStep
    <3>4. PICK s : s = Selects(k - 1)
      OBVIOUS
    <3>5. s \in Seq(Seq(Unit)) /\ Len(s) = k - 1 /\ \A m \in 1..(k - 1) : s[m] = Select
      BY <3>1, <3>4, SelectsAreTexts
    <3>6. PICK r : r = Selects(k)
      OBVIOUS
    <3>7. r \in Seq(Seq(Unit)) /\ Len(r) = k /\ \A m \in 1..k : r[m] = Select
      BY <3>6, SelectsAreTexts
    <3>8. /\ Append(s, Select) \in Seq(Seq(Unit)) /\ Len(Append(s, Select)) = Len(s) + 1
          /\ \A m \in 1..Len(s) : Append(s, Select)[m] = s[m]
          /\ Append(s, Select)[Len(s) + 1] = Select
      BY <3>5, SelectLooks, AppendFacts
    <3>9. \A m \in 1..k : Append(s, Select)[m] = r[m]
      BY <3>5, <3>7, <3>8
    <3>10. Append(s, Select) = r
      <4>1. Len(Append(s, Select)) = Len(r) /\ Len(r) = k
        BY <3>5, <3>7, <3>8
      <4>. QED
        BY <3>7, <3>8, <3>9, <4>1, SameSequence
    <3>. QED
      BY <3>3, <3>4, <3>6, <3>10
  <2>3. \A k \in 0..n : k \in P
    <3>. HIDE DEF P
    <3>. QED
      BY <2>1, <2>2, InductionUpTo
  <2>. QED
    BY <2>3
<1>7. Without(x, {<<>>}) = Selects(n)
  <2>1. /\ Without(x, {<<>>}) = f[n + 1]
        /\ f[n + 1] = WithoutStep(x, {<<>>}, n + 1, f[n])
    <3>1. n + 1 \in 1..Len(x) /\ n + 1 - 1 = n /\ Len(x) = n + 1
      BY <1>4
    <3>2. Without(x, {<<>>}) = f[Len(x)] /\ f[n + 1] = WithoutStep(x, {<<>>}, n + 1, f[n + 1 - 1])
      BY <1>5, <3>1 DEF WithoutBy
    <3>. QED
      BY <3>1, <3>2
  <2>2. f[n + 1] = f[n]
    BY <1>4, <2>1 DEF WithoutStep
  <2>. QED
    BY <1>6, <2>1, <2>2
<1>8. IsSplit(t, SelectSegs(n))
  BY <1>2, SelectsSplit
<1>9. IsSplit(t, SplitOf(t)) /\ StatementsOf(t) = StatementsIn(t, SelectSegs(n))
  BY <1>8, StatementsAre
<1>. QED
  BY <1>1, <1>3, <1>7, <1>9 DEF StatementsIn

\* A batch of one is its text.
LEMMA JoinedOne ==
  ASSUME NEW x \in Seq(Unit)
  PROVE  Joined(<<x>>) = x
<1>1. <<x>> \in Seq(Seq(Unit)) /\ Len(<<x>>) = 1 /\ <<x>>[1] = x
  OBVIOUS
<1>2. PICK f : JoinedBy(<<x>>, f)
  BY <1>1, JoinedSteps
<1>. QED
  BY <1>1, <1>2 DEF JoinedBy

LEMMA SelectAgain ==
  IsSplit(Select, SplitOf(Select)) /\ StatementsOf(Select) = <<Select>>
<1>1. Selects(1) = <<Select>>
  <2>1. Selects(1) \in Seq(Seq(Unit)) /\ Len(Selects(1)) = 1 /\ Selects(1)[1] = Select
    <3>1. 1 \in Nat /\ 1 \in 1..1
      OBVIOUS
    <3>. QED
      BY <3>1, SelectsAreTexts
  <2>2. <<Select>> \in Seq(Seq(Unit)) /\ Len(<<Select>>) = 1 /\ <<Select>>[1] = Select
    BY SelectLooks
  <2>3. \A m \in 1..Len(Selects(1)) : Selects(1)[m] = <<Select>>[m]
    BY <2>1, <2>2
  <2>. QED
    BY <2>1, <2>2, <2>3, SameSequence
<1>2. Joined(<<Select>>) = Select
  BY SelectLooks, JoinedOne
<1>. QED
  BY <1>1, <1>2, SelectsAgain

-----------------------------------------------------------------------------
(* From the command to its script.                                         *)

\* t's split is known.
HasSplit(t) == IsSplit(t, SplitOf(t))

\* Where a call has been made there is a split to read, or one under way.
CalledInv == pc \in {"at_cursor", "guard", "confirm", "provider"} => scanning \/ segs # <<>>

\* Nothing is guarded or run before runText.
EarlyInv ==
  /\ pc \in {"editing", "at_cursor"} => ~picked
  /\ pc \in {"editing", "at_cursor", "ignored", "message", "cleared", "reconnecting"} =>
       batch = <<>> /\ guarded = <<>>
  /\ pc \notin {"execute", "done"} => script = <<>>

\* The guard splits the text whose turn it is.  There is another only in a batch
\* of SELECTs, which it has had one by one.
GuardInv ==
  pc = "guard" => /\ IsBatch(batch)
                  /\ sql = batch[turn + 1]
                  /\ guarded = Selects(turn)

\* What it has classified in the end is what the batch splits into when it is
\* joined, and nothing that writes goes on in read-only mode.
JudgedInv ==
  /\ pc \in {"blocked", "confirm", "declined", "provider", "execute", "done"} =>
       /\ IsBatch(batch)
       /\ HasSplit(Joined(batch))
       /\ guarded = StatementsOf(Joined(batch))
  /\ pc \in {"confirm", "provider", "execute", "done"} => ~(readOnly /\ AnyWrite(guarded))

\* The provider's script is made of that.
ScriptInv ==
  /\ pc = "provider" /\ engine = "Postgres" => sql = Joined(batch)
  /\ pc \in {"execute", "done"} =>
       script = IF engine = "Postgres"
                THEN Without(guarded, {s \in EntriesOf(guarded) : ~Sent(s)})
                ELSE ServerStatements("Sqlite", Joined(batch))

\* The statement under the cursor splits into itself.
PickedInv == picked => \E x \in Seq(Unit) : x # <<>> /\ batch = <<x>> /\ Whole(x)

CommandInv == CalledInv /\ EarlyInv /\ GuardInv /\ JudgedInv /\ ScriptInv /\ PickedInv

ScriptRunInv == TypeInv /\ ReadInv /\ CommandInv

LEMMA CallReads ==
  ASSUME NEW t \in Seq(Unit), Call(t)
  PROVE  ReadInv' /\ scanning' /\ sql' = t
<1>1. /\ sql' = t /\ i' = 0 /\ mode' = "code" /\ segs' = <<>> /\ scanning' = TRUE /\ plain' = {}
      /\ segmentStart' = 0
  BY DEF Call
<1>2. 0 \in Stops(t) /\ Stops(t) \subseteq Nat
  <2>1. Stops(t) \subseteq 0..Len(t) /\ HoldsStops(t, Stops(t))
    BY StopsHold
  <2>2. Len(t) \in Nat
    OBVIOUS
  <2>. QED
    BY <2>1, <2>2 DEF HoldsStops
<1>3. AtStop'
  BY <1>1, <1>2 DEF AtStop
<1>4. PlainInv'
  <2>1. \A k \in Stops(t) : ~(k < 0)
    BY <1>2
  <2>. QED
    BY <1>1, <2>1 DEF PlainInv
<1>5. CutsSolid'
  BY <1>1 DEF CutsSolid
<1>. QED
  BY <1>1, <1>3, <1>4, <1>5 DEF ReadInv

LEMMA ReadStays ==
  ASSUME ReadInv, UNCHANGED splitVars
  PROVE  ReadInv'
  BY DEF ReadInv, splitVars, AtStop, PlainInv, CutsSolid

\* A turn of the loop leaves the text alone and ends with a segment.
LEMMA SplitGoes ==
  ASSUME SplitInv, Split
  PROVE  sql' = sql /\ scanning /\ (scanning' \/ segs' # <<>>)
<1>1. CASE TrailingRun
  <2>1. segs' = Append(segs, [start |-> segmentStart, end |-> Len(sql)]) /\ sql' = sql /\ scanning
    BY <1>1 DEF TrailingRun, Emit
  <2>2. segs \in Seq(Segment) /\ [start |-> segmentStart, end |-> Len(sql)] \in Segment
    <3>1. Len(sql) \in Nat /\ segmentStart \in Nat /\ segs \in Seq(Segment)
      BY DEF SplitInv, SplitTypeOK
    <3>. QED
      BY <3>1 DEF Segment
  <2>. QED
    BY <2>1, <2>2
<1>2. CASE ~TrailingRun
  <2>1. scanning' = scanning /\ sql' = sql /\ More
    BY <1>2 DEF Split, Read, LineCommentOpens, InLineComment, BlockCommentOpens,
           InBlockComment, DollarQuoteOpens, DollarQuoteCloses, InDollarQuote, SingleQuote,
           InSingleQuote, AtCode, Semicolon, OtherUnit
  <2>. QED
    BY <2>1 DEF More
<1>. QED
  BY <1>1, <1>2

LEMMA CursorIsWhole ==
  ASSUME SplitInv, ReadInv, ~scanning, segs # <<>>, NEW cursor \in Nat,
         statementAtOffset(cursor) # <<>>
  PROVE  statementAtOffset(cursor) \in Seq(Unit) /\ Whole(statementAtOffset(cursor))
<1>1. sql \in Seq(Unit) /\ IsSplit(sql, segs)
  BY LoopSplits DEF SplitInv, SplitTypeOK
<1>2. PICK n \in 1..Len(segs) : HitSegment(cursor) = segs[n]
  BY HitIsSegment
<1>3. PICK x : x = Trim(SubSeq(sql, segs[n].start + 1, segs[n].end))
  OBVIOUS
<1>4. statementAtOffset(cursor) = x
  BY <1>2, <1>3 DEF statementAtOffset, SegmentText, Source
<1>5. PICK a, b : Between(x, sql, segs[n], a, b)
  BY <1>1, <1>3, <1>4, SegmentIsPiece
<1>. QED
  BY <1>1, <1>4, <1>5, StatementIsWhole

LEMMA BatchTexts ==
  ASSUME NEW statements, IsBatch(statements)
  PROVE  /\ statements \in Seq(Seq(Unit)) /\ Len(statements) \in Nat \ {0}
         /\ statements[1] \in Seq(Unit)
<1>1. Runnable(statements)
  BY BatchRunnable
<1>. QED
  BY <1>1, FirstText DEF Runnable

\* runText hands the guard a batch, or nothing.
LEMMA RunTextCommand ==
  ASSUME TypeInv, ReadInv, CommandInv, pc \in {"editing", "at_cursor"},
         NEW text \in Seq(Unit), runText(text),
         picked' => \E x \in Seq(Unit) : x # <<>> /\ batch' = <<x>> /\ Whole(x)
  PROVE  ReadInv' /\ CommandInv'
<1>1. /\ pc' \in {"ignored", "guard", "reconnecting", "cleared", "message"}
      /\ UNCHANGED <<script, outcomes, shown, result>>
      /\ UNCHANGED <<engine, readOnly, editor, guarded, turn>>
  BY RunTextGoes DEF Unexecuted
<1>2. batch = <<>> /\ guarded = <<>> /\ script = <<>> /\ turn = 0
  BY DEF CommandInv, EarlyInv, TypeInv, CommandTyped
<1>3. PickedInv'
  BY DEF PickedInv
<1>4. JudgedInv' /\ ScriptInv'
  BY <1>1, <1>2 DEF JudgedInv, ScriptInv
<1>5. CASE pc' # "guard" /\ UNCHANGED <<splitVars, batch>>
  <2>1. ReadInv'
    BY <1>5, ReadStays
  <2>2. CalledInv' /\ GuardInv' /\ EarlyInv'
    BY <1>1, <1>2, <1>5 DEF CalledInv, GuardInv, EarlyInv
  <2>. QED
    BY <1>3, <1>4, <2>1, <2>2 DEF CommandInv
<1>6. ASSUME NEW statements, IsBatch(statements), GuardAndRun(statements)
      PROVE  ReadInv' /\ CommandInv'
  <2>1. batch' = statements /\ Call(statements[1]) /\ pc' = "guard"
    BY <1>6 DEF GuardAndRun
  <2>2. statements[1] \in Seq(Unit)
    BY <1>6, BatchTexts
  <2>3. ReadInv' /\ scanning' /\ sql' = statements[1]
    BY <2>1, <2>2, CallReads
  <2>4. Selects(0) = <<>>
    BY SelectsAreTexts
  <2>5. CalledInv' /\ EarlyInv'
    BY <1>1, <1>2, <2>1, <2>3 DEF CalledInv, EarlyInv
  <2>6. GuardInv'
    <3>1. turn' + 1 = 1 /\ guarded' = Selects(turn')
      BY <1>1, <1>2, <2>4
    <3>. QED
      BY <1>6, <2>1, <2>3, <3>1 DEF GuardInv
  <2>. QED
    BY <1>3, <1>4, <2>3, <2>5, <2>6 DEF CommandInv
<1>. QED
  BY <1>5, <1>6, RunTextBatch

\* What split returns when it does.
LEMMA StatementsRead ==
  ASSUME SplitInv, ReadInv, CalledInv, pc \in {"at_cursor", "guard", "provider"}, ~scanning
  PROVE  segs # <<>> /\ HasSplit(sql) /\ Statements = StatementsOf(sql)
<1>1. segs # <<>>
  BY DEF CalledInv
<1>2. IsSplit(sql, segs) /\ Statements = StatementsIn(sql, segs)
  BY <1>1, LoopSplits
<1>. QED
  BY <1>1, <1>2, StatementsAre DEF HasSplit

LEMMA AtCursorCommand ==
  ASSUME ScriptRunInv, RunAtCursor
  PROVE  ReadInv' /\ CommandInv'
<1>1. TypeInv /\ ReadInv /\ CommandInv /\ SplitInv /\ pc = "at_cursor" /\ ~scanning
  BY DEF ScriptRunInv, TypeInv, SplitTyped, RunAtCursor
<1>2. segs # <<>>
  BY <1>1, StatementsRead DEF CommandInv
<1>3. PICK cursor \in 0..Len(editor) :
        /\ picked' = (batch' = <<statementAtOffset(cursor)>>)
        /\ runText(IF statementAtOffset(cursor) # <<>> THEN statementAtOffset(cursor)
                   ELSE editor)
  BY DEF RunAtCursor
<1>4. PICK x : x = statementAtOffset(cursor)
  OBVIOUS
<1>5. cursor \in Nat
  BY <1>3
<1>6. x \in Seq(Unit) /\ (x # <<>> => Whole(x))
  BY <1>1, <1>2, <1>4, <1>5, CursorIsWhole, StatementAtTyped
<1>7. PICK text : text = (IF x # <<>> THEN x ELSE editor) /\ text \in Seq(Unit)
  BY <1>1, <1>6 DEF TypeInv, CommandTyped
<1>8. runText(text) /\ picked' = (batch' = <<x>>)
  BY <1>3, <1>4, <1>7
<1>9. x = <<>> => batch' # <<x>>
  <2>1. SUFFICES ASSUME x = <<>>, batch' = <<x>>
                 PROVE  FALSE
    OBVIOUS
  <2>2. batch = <<>>
    BY <1>1 DEF CommandInv, EarlyInv
  <2>3. IsBatch(batch')
    <3>1. batch' # batch
      BY <2>1, <2>2
    <3>2. \E statements : IsBatch(statements) /\ GuardAndRun(statements)
      BY <1>7, <1>8, <3>1, RunTextBatch
    <3>. QED
      BY <3>2 DEF GuardAndRun
  <2>4. ASSUME NEW n \in Nat \ {0}, batch' = Selects(n)
        PROVE  FALSE
    <3>1. Selects(n)[1] = Select
      <4>1. n \in Nat /\ 1 \in 1..n
        OBVIOUS
      <4>. QED
        BY <4>1, SelectsAreTexts
    <3>2. Select # <<>>
      BY DEF Select
    <3>. QED
      BY <2>1, <2>4, <3>1, <3>2
  <2>. QED
    BY <2>1, <2>3, <2>4 DEF IsBatch
<1>10. picked' => \E y \in Seq(Unit) : y # <<>> /\ batch' = <<y>> /\ Whole(y)
  BY <1>6, <1>8, <1>9
<1>. QED
  BY <1>1, <1>7, <1>8, <1>10, RunTextCommand

LEMMA WholeCommand ==
  ASSUME ScriptRunInv, doRunWhole
  PROVE  ReadInv' /\ CommandInv'
<1>1. /\ TypeInv /\ ReadInv /\ CommandInv /\ pc = "editing" /\ editor \in Seq(Unit)
      /\ runText(editor) /\ picked' = picked /\ ~picked
  BY DEF ScriptRunInv, doRunWhole, TypeInv, CommandTyped, CommandInv, EarlyInv
<1>. QED
  BY <1>1, RunTextCommand

LEMMA StatementCommand ==
  ASSUME ScriptRunInv, doRunStatement
  PROVE  ReadInv' /\ CommandInv'
<1>1. /\ CommandInv /\ pc = "editing" /\ editor \in Seq(Unit) /\ Call(editor) /\ pc' = "at_cursor"
      /\ UNCHANGED <<engine, readOnly, editor, picked, batch, guarded, turn, script,
                     outcomes, shown, result>>
  BY DEF ScriptRunInv, doRunStatement, TypeInv, CommandTyped
<1>2. ReadInv' /\ scanning'
  BY <1>1, CallReads
<1>3. CalledInv' /\ EarlyInv' /\ GuardInv' /\ JudgedInv' /\ ScriptInv' /\ PickedInv'
  BY <1>1, <1>2 DEF CommandInv, CalledInv, EarlyInv, GuardInv, JudgedInv, ScriptInv, PickedInv
<1>. QED
  BY <1>2, <1>3 DEF CommandInv

\* One SELECT more has been classified.
LEMMA SelectsGrow ==
  ASSUME NEW n \in Nat
  PROVE  Selects(n) \o <<Select>> = Selects(n + 1)
<1>1. PICK s, r : s = Selects(n) /\ r = Selects(n + 1)
  OBVIOUS
<1>2. /\ s \in Seq(Seq(Unit)) /\ Len(s) = n /\ \A m \in 1..n : s[m] = Select
      /\ r \in Seq(Seq(Unit)) /\ Len(r) = n + 1 /\ \A m \in 1..(n + 1) : r[m] = Select
  <2>1. s \in Seq(Seq(Unit)) /\ Len(s) = n /\ \A m \in 1..n : s[m] = Select
    BY <1>1, SelectsAreTexts
  <2>2. n + 1 \in Nat
    OBVIOUS
  <2>3. r \in Seq(Seq(Unit)) /\ Len(r) = n + 1 /\ \A m \in 1..(n + 1) : r[m] = Select
    BY <1>1, <2>2, SelectsAreTexts
  <2>. QED
    BY <2>1, <2>3
<1>3. <<Select>> \in Seq(Seq(Unit)) /\ Len(<<Select>>) = 1 /\ <<Select>>[1] = Select
  BY SelectLooks
<1>4. PICK q : q = s \o <<Select>>
  OBVIOUS
<1>5. /\ q \in Seq(Seq(Unit)) /\ Len(q) = n + 1
      /\ \A m \in 1..n : q[m] = s[m]
      /\ q[n + 1] = Select
  <2>1. LET c == s \o <<Select>>
        IN  /\ c \in Seq(Seq(Unit)) /\ Len(c) = Len(s) + Len(<<Select>>)
            /\ \A m \in 1..Len(s) : c[m] = s[m]
            /\ \A m \in (Len(s) + 1)..(Len(s) + Len(<<Select>>)) : c[m] = <<Select>>[m - Len(s)]
    <3>1. s \in Seq(Seq(Unit)) /\ <<Select>> \in Seq(Seq(Unit))
      BY <1>2, <1>3
    <3>. HIDE <1>4
    <3>. QED
      BY <3>1, ConcatFacts
  <2>2. n + 1 \in (Len(s) + 1)..(Len(s) + Len(<<Select>>)) /\ n + 1 - Len(s) = 1
    BY <1>2, <1>3
  <2>3. /\ q \in Seq(Seq(Unit)) /\ Len(q) = Len(s) + Len(<<Select>>)
        /\ \A m \in 1..Len(s) : q[m] = s[m]
        /\ \A m \in (Len(s) + 1)..(Len(s) + Len(<<Select>>)) : q[m] = <<Select>>[m - Len(s)]
    BY <1>4, <2>1
  <2>4. q[n + 1] = <<Select>>[1]
    BY <2>2, <2>3
  <2>. QED
    BY <1>2, <1>3, <2>3, <2>4
<1>6. \A m \in 1..(n + 1) : q[m] = r[m]
  <2>1. \A m \in 1..(n + 1) : m \in 1..n \/ m = n + 1
    OBVIOUS
  <2>. QED
    BY <1>2, <1>5, <2>1
<1>7. q = r
  <2>1. Len(q) = Len(r) /\ \A m \in 1..Len(q) : q[m] = r[m]
    BY <1>2, <1>5, <1>6
  <2>. QED
    BY <1>2, <1>5, <2>1, SameSequence
<1>. QED
  BY <1>1, <1>4, <1>7

\* A guard that goes on is among SELECTs.
LEMMA GuardTurn ==
  ASSUME ScriptRunInv, pc = "guard", ~scanning
  PROVE  /\ turn \in Nat /\ turn + 1 <= Len(batch)
         /\ \/ /\ batch = Selects(Len(batch))
               /\ Statements = <<Select>> /\ guarded \o Statements = Selects(turn + 1)
            \/ /\ turn = 0 /\ \E x \in Seq(Unit) : batch = <<x>>
               /\ HasSplit(batch[1]) /\ guarded \o Statements = StatementsOf(batch[1])
<1>1. SplitInv /\ ReadInv /\ CalledInv /\ TypeInv /\ GuardInv
  BY DEF ScriptRunInv, TypeInv, SplitTyped, CommandInv
<1>2. HasSplit(sql) /\ Statements = StatementsOf(sql)
  BY <1>1, StatementsRead
<1>3. IsBatch(batch) /\ sql = batch[turn + 1] /\ guarded = Selects(turn)
  BY <1>1 DEF GuardInv
<1>4. Len(batch) \in Nat /\ turn \in Nat /\ turn < Len(batch)
  <2>1. Len(batch) \in Nat
    BY <1>3, BatchTexts
  <2>. QED
    BY <1>1, <2>1 DEF TypeInv, CommandTyped
<1>5. turn + 1 <= Len(batch)
  BY <1>4
<1>6. ASSUME NEW n \in Nat \ {0}, batch = Selects(n)
      PROVE  /\ batch = Selects(Len(batch))
             /\ Statements = <<Select>> /\ guarded \o Statements = Selects(turn + 1)
  <2>1. Len(batch) = n /\ \A m \in 1..n : batch[m] = Select
    BY <1>6, SelectsAreTexts
  <2>2. sql = Select
    BY <1>3, <1>4, <2>1
  <2>3. Statements = <<Select>>
    BY <1>2, <2>2, SelectAgain
  <2>. QED
    BY <1>3, <1>4, <1>6, <2>1, <2>3, SelectsGrow
<1>7. ASSUME NEW x \in Seq(Unit), batch = <<x>>
      PROVE  /\ turn = 0 /\ HasSplit(batch[1]) /\ guarded \o Statements = StatementsOf(batch[1])
  <2>1. Len(batch) = 1
    BY <1>7
  <2>2. turn = 0
    BY <1>4, <2>1
  <2>3. sql = batch[1]
    BY <1>3, <2>2
  <2>4. guarded = <<>>
    BY <1>3, <2>2, SelectsAreTexts
  <2>5. Statements \in Seq(Seq(Unit))
    BY <1>1, StatementsTyped
  <2>6. <<>> \o Statements = Statements
    BY <2>5
  <2>. QED
    BY <1>2, <2>2, <2>3, <2>4, <2>6
<1>. QED
  BY <1>3, <1>4, <1>5, <1>6, <1>7 DEF IsBatch

LEMMA ClassifyCommand ==
  ASSUME ScriptRunInv, ClassifyNext
  PROVE  ReadInv' /\ CommandInv'
<1>1. /\ pc = "guard" /\ ~scanning /\ turn + 1 < Len(batch)
      /\ guarded' = guarded \o Statements /\ turn' = turn + 1 /\ Call(batch[turn + 2])
      /\ UNCHANGED <<pc, engine, readOnly, editor, picked, batch, script, outcomes, shown, result>>
  BY DEF ClassifyNext
<1>2. CommandInv /\ IsBatch(batch)
  BY <1>1 DEF ScriptRunInv, CommandInv, GuardInv
<1>3. Len(batch) \in Nat
  BY <1>2, BatchTexts
<1>4. turn \in Nat /\ batch = Selects(Len(batch)) /\ guarded' = Selects(turn + 1)
  <2>1. ASSUME NEW x \in Seq(Unit), turn = 0, batch = <<x>>
        PROVE  FALSE
    <3>1. Len(batch) = 1
      BY <2>1
    <3>. QED
      BY <1>1, <2>1, <3>1
  <2>. QED
    BY <1>1, <2>1, GuardTurn
<1>5. batch[turn + 2] \in Seq(Unit) /\ turn + 2 = turn' + 1
  <2>1. turn + 2 \in 1..Len(batch)
    BY <1>1, <1>3, <1>4
  <2>2. \A m \in 1..Len(batch) : batch[m] = Select
    BY <1>3, <1>4, SelectsAreTexts
  <2>. QED
    BY <1>1, <1>4, <2>1, <2>2, SelectLooks
<1>6. ReadInv' /\ scanning' /\ sql' = batch[turn + 2]
  BY <1>1, <1>5, CallReads
<1>7. CalledInv'
  BY <1>6 DEF CalledInv
<1>8. GuardInv'
  BY <1>1, <1>2, <1>4, <1>5, <1>6 DEF GuardInv
<1>9. EarlyInv' /\ JudgedInv' /\ ScriptInv' /\ PickedInv'
  BY <1>1, <1>2 DEF CommandInv, EarlyInv, JudgedInv, ScriptInv, PickedInv
<1>. QED
  BY <1>6, <1>7, <1>8, <1>9 DEF CommandInv

LEMMA StartReads ==
  ASSUME ReadInv, batch \in Seq(Seq(Unit)), scanning \/ segs # <<>>, StartExecute
  PROVE  /\ ReadInv' /\ pc' = "provider" /\ (scanning' \/ segs' # <<>>)
         /\ engine = "Postgres" => sql' = Joined(batch)
<1>1. CASE engine = "Postgres"
  <2>1. Joined(batch) \in Seq(Unit) /\ Call(Joined(batch)) /\ pc' = "provider"
    BY <1>1, JoinedTyped DEF StartExecute
  <2>. QED
    BY <2>1, CallReads
<1>2. CASE engine # "Postgres"
  <2>1. UNCHANGED splitVars /\ pc' = "provider"
    BY <1>2 DEF StartExecute
  <2>2. ReadInv'
    BY <2>1, ReadStays
  <2>. QED
    BY <1>2, <2>1, <2>2 DEF splitVars
<1>. QED
  BY <1>1, <1>2

\* The last turn of the guard: it has now classified what the batch joined splits
\* into.
LEMMA LastTurn ==
  ASSUME ScriptRunInv, pc = "guard", ~scanning, turn + 1 = Len(batch)
  PROVE  HasSplit(Joined(batch)) /\ guarded \o Statements = StatementsOf(Joined(batch))
<1>1. PICK n : n = Len(batch)
  OBVIOUS
<1>2. CASE batch = Selects(n) /\ guarded \o Statements = Selects(turn + 1)
  <2>1. n \in Nat \ {0}
    <3>1. IsBatch(batch)
      BY DEF ScriptRunInv, CommandInv, GuardInv
    <3>. QED
      BY <1>1, <3>1, BatchTexts
  <2>. QED
    BY <1>1, <1>2, <2>1, SelectsAgain DEF HasSplit
<1>3. ASSUME NEW x \in Seq(Unit), batch = <<x>>, HasSplit(batch[1]),
             guarded \o Statements = StatementsOf(batch[1])
      PROVE  HasSplit(Joined(batch)) /\ guarded \o Statements = StatementsOf(Joined(batch))
  <2>1. batch[1] = x /\ Joined(batch) = x
    BY <1>3, JoinedOne
  <2>. QED
    BY <1>3, <2>1
<1>. QED
  BY <1>1, <1>2, <1>3, GuardTurn

LEMMA DecideCommand ==
  ASSUME ScriptRunInv, Decide
  PROVE  ReadInv' /\ CommandInv'
<1>1. /\ pc = "guard" /\ ~scanning /\ turn + 1 = Len(batch) /\ guarded' = guarded \o Statements
      /\ UNCHANGED <<engine, readOnly, editor, picked, batch, script, outcomes, shown, result>>
  BY DEF Decide
<1>2. /\ \/ pc' \in {"blocked", "confirm"} /\ UNCHANGED splitVars
         \/ StartExecute
      /\ pc' # "blocked" => ~(readOnly /\ AnyWrite(guarded'))
  <2>1. StartExecute => pc' = "provider"
    BY DEF StartExecute
  <2>. QED
    BY <2>1 DEF Decide
<1>3. SplitInv /\ ReadInv /\ CommandInv /\ IsBatch(batch) /\ batch \in Seq(Seq(Unit))
  BY <1>1 DEF ScriptRunInv, CommandInv, GuardInv, TypeInv, SplitTyped, CommandTyped
<1>4. segs # <<>>
  BY <1>1, <1>3, StatementsRead DEF CommandInv
<1>5. /\ ReadInv' /\ pc' \in {"blocked", "confirm", "provider"} /\ (scanning' \/ segs' # <<>>)
      /\ pc' = "provider" /\ engine = "Postgres" => sql' = Joined(batch)
  <2>1. CASE pc' \in {"blocked", "confirm"} /\ UNCHANGED splitVars
    <3>1. ReadInv'
      BY <1>3, <2>1, ReadStays
    <3>. QED
      BY <1>4, <2>1, <3>1 DEF splitVars
  <2>2. CASE StartExecute
    BY <1>3, <1>4, <2>2, StartReads
  <2>. QED
    BY <1>2, <2>1, <2>2
<1>6. HasSplit(Joined(batch)) /\ guarded' = StatementsOf(Joined(batch))
  BY <1>1, LastTurn
<1>7. CalledInv' /\ GuardInv'
  BY <1>5 DEF CalledInv, GuardInv
<1>8. EarlyInv' /\ PickedInv'
  BY <1>1, <1>3, <1>5 DEF CommandInv, EarlyInv, PickedInv
<1>9. JudgedInv'
  <2>1. ~(readOnly' /\ AnyWrite(guarded')) \/ pc' = "blocked"
    BY <1>1, <1>2
  <2>2. IsBatch(batch') /\ HasSplit(Joined(batch')) /\ guarded' = StatementsOf(Joined(batch'))
    BY <1>1, <1>3, <1>6
  <2>3. AnyWrite(guarded)' = AnyWrite(guarded')
    BY DEF AnyWrite
  <2>. QED
    BY <2>1, <2>2, <2>3 DEF JudgedInv
<1>10. ScriptInv'
  BY <1>1, <1>5 DEF ScriptInv
<1>. QED
  BY <1>5, <1>7, <1>8, <1>9, <1>10 DEF CommandInv

LEMMA AnswerCommand ==
  ASSUME ScriptRunInv, Answer
  PROVE  ReadInv' /\ CommandInv'
<1>1. /\ pc = "confirm"
      /\ StartExecute \/ (pc' = "declined" /\ UNCHANGED splitVars)
      /\ UNCHANGED <<engine, readOnly, editor, picked, batch, guarded, turn, script,
                     outcomes, shown, result>>
  BY DEF Answer
<1>2. ReadInv /\ CommandInv /\ batch \in Seq(Seq(Unit))
  BY DEF ScriptRunInv, TypeInv, CommandTyped
<1>3. scanning \/ segs # <<>>
  BY <1>1, <1>2 DEF CommandInv, CalledInv
<1>4. /\ ReadInv' /\ pc' \in {"declined", "provider"} /\ (scanning' \/ segs' # <<>>)
      /\ pc' = "provider" /\ engine = "Postgres" => sql' = Joined(batch)
  <2>1. CASE pc' = "declined" /\ UNCHANGED splitVars
    <3>1. ReadInv'
      BY <1>2, <2>1, ReadStays
    <3>. QED
      BY <1>3, <2>1, <3>1 DEF splitVars
  <2>2. CASE StartExecute
    BY <1>2, <1>3, <2>2, StartReads
  <2>. QED
    BY <1>1, <2>1, <2>2
<1>5. CalledInv' /\ GuardInv'
  BY <1>4 DEF CalledInv, GuardInv
<1>6. EarlyInv' /\ PickedInv'
  BY <1>1, <1>2, <1>4 DEF CommandInv, EarlyInv, PickedInv
<1>7. JudgedInv'
  BY <1>1, <1>2, <1>4 DEF CommandInv, JudgedInv, AnyWrite, Infos
<1>8. ScriptInv'
  BY <1>1, <1>4 DEF ScriptInv
<1>. QED
  BY <1>4, <1>5, <1>6, <1>7, <1>8 DEF CommandInv

LEMMA BeginCommand ==
  ASSUME ScriptRunInv, Begin
  PROVE  ReadInv' /\ CommandInv'
<1>1. /\ pc = "provider" /\ ~scanning /\ pc' = "execute"
      /\ script' = IF engine = "Postgres" THEN PostgresScript ELSE ServerStatements("Sqlite", Joined(batch))
      /\ UNCHANGED <<splitVars, engine, readOnly, editor, picked, batch, guarded, turn,
                     outcomes, shown, result>>
  BY DEF Begin
<1>2. SplitInv /\ ReadInv /\ CommandInv
  BY DEF ScriptRunInv, TypeInv, SplitTyped
<1>3. ReadInv'
  BY <1>1, <1>2, ReadStays
<1>4. engine = "Postgres" =>
        PostgresScript = Without(guarded, {s \in EntriesOf(guarded) : ~Sent(s)})
  <2>1. Statements = StatementsOf(sql)
    BY <1>1, <1>2, StatementsRead DEF CommandInv
  <2>2. guarded = StatementsOf(Joined(batch)) /\ (engine = "Postgres" => sql = Joined(batch))
    BY <1>1, <1>2 DEF CommandInv, JudgedInv, ScriptInv
  <2>. QED
    BY <2>1, <2>2 DEF PostgresScript
<1>5. ScriptInv'
  <2>1. script' = IF engine = "Postgres"
                  THEN Without(guarded, {s \in EntriesOf(guarded) : ~Sent(s)})
                  ELSE ServerStatements("Sqlite", Joined(batch))
    BY <1>1, <1>4
  <2>. QED
    BY <1>1, <2>1 DEF ScriptInv
<1>6. CalledInv' /\ GuardInv' /\ EarlyInv'
  BY <1>1 DEF CalledInv, GuardInv, EarlyInv
<1>7. PickedInv' /\ JudgedInv'
  BY <1>1, <1>2 DEF CommandInv, PickedInv, JudgedInv, AnyWrite, Infos
<1>. QED
  BY <1>3, <1>5, <1>6, <1>7 DEF CommandInv

\* Execution changes nothing of what was decided.
LEMMA RunningCommand ==
  ASSUME ReadInv, CommandInv, pc = "execute", pc' \in {"execute", "done"},
         UNCHANGED <<splitVars, engine, readOnly, picked, batch, guarded, turn, script>>
  PROVE  ReadInv' /\ CommandInv'
<1>1. ReadInv'
  BY ReadStays
<1>2. CalledInv' /\ GuardInv' /\ EarlyInv'
  BY DEF CalledInv, GuardInv, EarlyInv
<1>3. PickedInv' /\ JudgedInv' /\ ScriptInv'
  BY DEF CommandInv, PickedInv, JudgedInv, ScriptInv, AnyWrite, Infos
<1>. QED
  BY <1>1, <1>2, <1>3 DEF CommandInv

LEMMA CommandInit == Init => ScriptRunInv
<1>. SUFFICES ASSUME Init PROVE ScriptRunInv
  OBVIOUS
<1>1. TypeInv
  BY TypeInit
<1>2. /\ sql = <<>> /\ i = 0 /\ mode = "code" /\ segs = <<>> /\ scanning = FALSE /\ plain = {}
      /\ pc = "editing" /\ picked = FALSE /\ batch = <<>> /\ guarded = <<>> /\ script = <<>>
  BY DEF Init
<1>3. 0 \in Stops(<<>>) /\ Stops(<<>>) \subseteq 0..0
  <2>1. <<>> \in Seq(Unit) /\ Len(<<>>) = 0
    OBVIOUS
  <2>2. Stops(<<>>) \subseteq 0..Len(<<>>) /\ HoldsStops(<<>>, Stops(<<>>))
    BY <2>1, StopsHold
  <2>. QED
    BY <2>1, <2>2 DEF HoldsStops
<1>4. ReadInv
  <2>1. AtStop
    BY <1>2, <1>3 DEF AtStop
  <2>2. PlainInv
    <3>1. \A k \in Stops(<<>>) : ~(k < 0)
      BY <1>3
    <3>. QED
      BY <1>2, <3>1 DEF PlainInv
  <2>3. CutsSolid
    BY <1>2 DEF CutsSolid
  <2>4. i = Len(sql)
    BY <1>2
  <2>. QED
    BY <2>1, <2>2, <2>3, <2>4 DEF ReadInv
<1>5. CommandInv
  BY <1>2 DEF CommandInv, CalledInv, EarlyInv, GuardInv, JudgedInv, ScriptInv, PickedInv
<1>. QED
  BY <1>1, <1>4, <1>5 DEF ScriptRunInv

LEMMA CommandStep == ScriptRunInv /\ [Next]_vars => ScriptRunInv'
<1>. SUFFICES ASSUME ScriptRunInv, [Next]_vars PROVE ScriptRunInv'
  OBVIOUS
<1>1. TypeInv /\ ReadInv /\ CommandInv /\ SplitInv
  BY DEF ScriptRunInv, TypeInv, SplitTyped
<1>2. TypeInv'
  BY <1>1, TypeStep
<1>. SUFFICES ReadInv' /\ CommandInv'
  BY <1>2 DEF ScriptRunInv
<1>3. CASE doRunWhole
  BY <1>3, WholeCommand
<1>4. CASE doRunStatement
  BY <1>4, StatementCommand
<1>5. CASE RunAtCursor
  BY <1>5, AtCursorCommand
<1>6. CASE ClassifyNext
  BY <1>6, ClassifyCommand
<1>7. CASE Decide
  BY <1>7, DecideCommand
<1>8. CASE Answer
  BY <1>8, AnswerCommand
<1>9. CASE Begin
  BY <1>9, BeginCommand
<1>10. CASE PostgresStatement \/ SqliteStatement
  <2>1. /\ pc = "execute" /\ pc' \in {"execute", "done"}
        /\ UNCHANGED <<splitVars, engine, readOnly, picked, batch, guarded, turn, script>>
    BY <1>10 DEF PostgresStatement, SqliteStatement, AtStatement, Executed
  <2>. QED
    BY <1>1, <2>1, RunningCommand
<1>11. CASE Finish
  <2>1. /\ pc = "execute" /\ pc' = "done"
        /\ UNCHANGED <<splitVars, engine, readOnly, picked, batch, guarded, turn, script>>
    BY <1>11 DEF Finish
  <2>. QED
    BY <1>1, <2>1, RunningCommand
<1>12. CASE Split /\ UNCHANGED runVars
  <2>1. ReadInv' /\ sql' = sql /\ scanning /\ (scanning' \/ segs' # <<>>)
    BY <1>1, <1>12, ReadStep, SplitGoes
  <2>2. UNCHANGED <<pc, engine, readOnly, picked, batch, guarded, turn, script>>
    BY <1>12 DEF runVars
  <2>3. CalledInv'
    BY <2>1 DEF CalledInv
  <2>4. EarlyInv' /\ GuardInv' /\ JudgedInv' /\ ScriptInv' /\ PickedInv'
    BY <1>1, <2>1, <2>2 DEF CommandInv, EarlyInv, GuardInv, JudgedInv, ScriptInv, PickedInv,
                            AnyWrite, Infos
  <2>. QED
    BY <2>1, <2>3, <2>4 DEF CommandInv
<1>13. CASE UNCHANGED vars
  <2>1. UNCHANGED splitVars /\ UNCHANGED <<pc, engine, readOnly, picked, batch, guarded, turn, script>>
    BY <1>13 DEF vars, runVars
  <2>2. ReadInv'
    BY <1>1, <2>1, ReadStays
  <2>3. CalledInv' /\ EarlyInv' /\ GuardInv' /\ JudgedInv' /\ ScriptInv' /\ PickedInv'
    BY <1>1, <2>1 DEF splitVars, CommandInv, CalledInv, EarlyInv, GuardInv, JudgedInv, ScriptInv,
                      PickedInv, AnyWrite, Infos
  <2>. QED
    BY <2>2, <2>3 DEF CommandInv
<1>. QED
  BY <1>3, <1>4, <1>5, <1>6, <1>7, <1>8, <1>9, <1>10, <1>11, <1>12, <1>13 DEF Next

\* Of a list of one no more than one is left.
LEMMA WithoutOne ==
  ASSUME NEW S, NEW x \in S, NEW dropped
  PROVE  Len(Without(<<x>>, dropped)) <= 1
<1>1. <<x>> \in Seq(S) /\ Len(<<x>>) = 1
  OBVIOUS
<1>2. PICK s : s = Without(<<x>>, dropped)
  OBVIOUS
<1>3. s \in Seq(S) /\ Len(s) \in Nat
  <2>1. Without(<<x>>, dropped) \in Seq(S)
    <3>. HIDE <1>2
    <3>. QED
      BY <1>1, WithoutKeeps
  <2>. QED
    BY <1>2, <2>1
<1>4. PICK o : Keeps(s, <<x>>, o, dropped)
  BY <1>1, <1>2, WithoutKeeps
<1>5. ASSUME Len(s) > 1
      PROVE  FALSE
  <2>1. 1 \in 1..Len(s) /\ 2 \in 1..Len(s)
    BY <1>3, <1>5
  <2>2. o[1] \in 1..1 /\ o[2] \in 1..1 /\ o[1] < o[2]
    BY <1>1, <1>4, <2>1 DEF Keeps
  <2>. QED
    BY <2>2
<1>. QED
  BY <1>2, <1>3, <1>5

\* Whatever text is edited and wherever its cursor is, the statement that is run
\* for the cursor is one statement to the guard and to PostgresProvider.
THEOREM ScriptPickedIsOne == Spec => []PickedIsOne
<1>1. ScriptRunInv => PickedIsOne
  <2>. SUFFICES ASSUME ScriptRunInv, picked
                PROVE  /\ Len(guarded) <= 1
                       /\ engine = "Postgres" => Len(script) <= 1
    BY DEF PickedIsOne
  <2>1. CommandInv /\ TypeInv
    BY DEF ScriptRunInv
  <2>2. PICK x \in Seq(Unit) : x # <<>> /\ batch = <<x>> /\ Whole(x)
    BY <2>1 DEF CommandInv, PickedInv
  <2>3. Joined(batch) = x /\ Len(batch) = 1
    BY <2>2, JoinedOne
  <2>4. pc \in {"blocked", "confirm", "declined", "provider", "execute", "done"} => guarded = <<x>>
    <3>1. HasSplit(x) => StatementsOf(x) = <<x>>
      BY <2>2 DEF HasSplit, Whole, StatementsOf
    <3>. QED
      BY <2>1, <2>3, <3>1 DEF CommandInv, JudgedInv
  <2>5. Len(guarded) <= 1
    <3>1. CASE pc = "guard"
      <4>1. guarded = Selects(turn) /\ turn \in 0..Len(batch) /\ turn < Len(batch)
        BY <2>1, <3>1 DEF CommandInv, GuardInv, TypeInv, CommandTyped
      <4>2. turn = 0
        BY <2>3, <4>1
      <4>. QED
        BY <4>1, <4>2, SelectsAreTexts
    <3>2. CASE pc \in {"editing", "at_cursor"}
      BY <2>1, <2>2, <3>2 DEF CommandInv, EarlyInv
    <3>3. CASE pc \in {"blocked", "confirm", "declined", "provider", "execute", "done"}
      <4>1. guarded = <<x>> /\ Len(<<x>>) = 1
        BY <2>4, <3>3
      <4>. QED
        BY <4>1
    <3>4. CASE pc \in {"ignored", "message", "cleared", "reconnecting"}
      <4>1. guarded = <<>>
        BY <2>1, <3>4 DEF CommandInv, EarlyInv
      <4>. QED
        BY <4>1
    <3>. QED
      BY <2>1, <3>1, <3>2, <3>3, <3>4 DEF TypeInv, CommandTyped, Points, Ends
  <2>6. engine = "Postgres" => Len(script) <= 1
    <3>1. CASE pc \in {"execute", "done"}
      BY <2>1, <2>2, <2>4, <3>1, WithoutOne DEF CommandInv, ScriptInv
    <3>2. CASE pc \notin {"execute", "done"}
      <4>1. script = <<>>
        BY <2>1, <3>2 DEF CommandInv, EarlyInv
      <4>. QED
        BY <4>1
    <3>. QED
      BY <3>1, <3>2
  <2>. QED
    BY <2>5, <2>6
<1>. QED
  BY <1>1, CommandInit, CommandStep, PTL DEF Spec

-----------------------------------------------------------------------------
(* The scanners: literals as the stretches between stops.                  *)

\* The stops where nothing opens.
CodeStops(t) == {k \in Stops(t) : k < Len(t) /\ Opener(t, k) = "code"}

LEMMA OpenersAre ==
  ASSUME NEW t, NEW k
  PROVE  /\ Opener(t, k) \in {"line", "block", "single", "dollar", "code"}
         /\ Opener(t, k) = "block" => Looking(t, k, "slash", "star")
  BY DEF Opener

\* From either side of an opener that does not overlap the closer is the same.
LEMMA SkipAgrees ==
  ASSUME NEW t \in Seq(Unit), ~Overlapping(t), NEW k \in 0..(Len(t) - 1)
  PROVE  LiteralEnd(t, k, 2) = LiteralEnd(t, k, 1)
<1>1. CASE Opener(t, k) = "block"
  <2>1. Looking(t, k, "slash", "star")
    BY <1>1, OpenersAre
  <2>2. ~Looking(t, k + 1, "star", "slash")
    BY <2>1 DEF Overlapping
  <2>3. Len(t) \in Nat /\ k \in Nat
    OBVIOUS
  <2>4. {n \in (k + 1)..(Len(t) - 2) : Looking(t, n, "star", "slash")}
          = {n \in (k + 2)..(Len(t) - 2) : Looking(t, n, "star", "slash")}
    <3>1. \A n \in (k + 1)..(Len(t) - 2) : n = k + 1 \/ n \in (k + 2)..(Len(t) - 2)
      BY <2>3
    <3>2. \A n \in (k + 2)..(Len(t) - 2) : n \in (k + 1)..(Len(t) - 2)
      BY <2>3
    <3>. QED
      BY <2>2, <3>1, <3>2
  <2>5. BlockEnd(t, k + 1) = BlockEnd(t, k + 2)
    BY <2>4 DEF BlockEnd
  <2>. QED
    BY <1>1, <2>5 DEF LiteralEnd
<1>2. CASE Opener(t, k) # "block"
  BY <1>2 DEF LiteralEnd
<1>. QED
  BY <1>1, <1>2

LiteralOf(t, k, e) ==
  [location |-> k, end |-> e, isComment |-> Opener(t, k) \in {"line", "block"}]

LiteralStops(t) == {k \in Stops(t) : k < Len(t) /\ Opener(t, k) # "code"}

LiteralsFrom(t, skip, f) ==
  f = [k \in 0..Len(t) |->
         IF k = Len(t) THEN {}
         ELSE IF Opener(t, k) = "code" THEN f[k + 1]
         ELSE {LiteralOf(t, k, LiteralEnd(t, k, skip))} \cup f[LiteralEnd(t, k, skip)]]

LEMMA LiteralsSteps ==
  ASSUME NEW t \in Seq(Unit), NEW skip \in {1, 2}
  PROVE  \E f : LiteralsFrom(t, skip, f) /\ Literals(t, skip) = f[0]
<1>1. PICK l : l \in Nat /\ l = Len(t)
  <2>1. Len(t) \in Nat
    OBVIOUS
  <2>. QED
    BY <2>1
<1>2. PICK S, none : /\ S = SUBSET [location : 0..l, end : 0..l, isComment : BOOLEAN]
                     /\ none = {}
  OBVIOUS
<1>. DEFINE code(k) == Opener(t, k) = "code"
            further == [k \in 0..(l - 1) |->
                          IF code(k) THEN k + 1 ELSE LiteralEnd(t, k, skip)]
            step == [k \in 0..(l - 1) |->
                       [s \in S |-> IF code(k) THEN s
                                    ELSE {LiteralOf(t, k, LiteralEnd(t, k, skip))} \cup s]]
<1>3. \A k \in 0..(l - 1) : ~code(k) => LiteralEnd(t, k, skip) \in (k + 1)..l
  BY <1>1, LiteralEndWithin
<1>4. \A k \in 0..(l - 1) : further[k] \in (k + 1)..l
  BY <1>1, <1>3
<1>5. step \in [0..(l - 1) -> [S -> S]]
  <2>1. ASSUME NEW k \in 0..(l - 1), ~code(k)
        PROVE  LiteralOf(t, k, LiteralEnd(t, k, skip))
                 \in [location : 0..l, end : 0..l, isComment : BOOLEAN]
    <3>1. k \in 0..l /\ LiteralEnd(t, k, skip) \in 0..l
      BY <1>1, <1>3, <2>1
    <3>. QED
      BY <3>1 DEF LiteralOf
  <2>2. \A k \in 0..(l - 1), s \in S :
          (IF code(k) THEN s ELSE {LiteralOf(t, k, LiteralEnd(t, k, skip))} \cup s) \in S
    <3>. HIDE DEF code
    <3>. QED
      BY <1>2, <2>1
  <2>. HIDE DEF code
  <2>. QED
    BY <2>2
<1>6. \E f : LiteralsFrom(t, skip, f)
  <2>1. none \in S
    BY <1>2
  <2>2. PICK f : Descends(f, l, S, none, further, step)
    <3>. HIDE DEF further, step
    <3>. QED
      BY <1>1, <1>4, <1>5, <2>1, DescentExists
  <2>3. f \in [0..l -> S] /\ f[l] = {}
    BY <1>2, <2>2 DEF Descends
  <2>4. ASSUME NEW k \in 0..(l - 1)
        PROVE  f[k] = IF code(k) THEN f[k + 1]
                      ELSE {LiteralOf(t, k, LiteralEnd(t, k, skip))} \cup f[LiteralEnd(t, k, skip)]
    <3>1. f[k] = step[k][f[further[k]]] /\ further[k] \in 0..l
      <4>. HIDE DEF further, step
      <4>. QED
        BY <1>1, <1>4, <2>2 DEF Descends
    <3>2. f[further[k]] \in S
      BY <2>3, <3>1
    <3>. QED
      BY <3>1, <3>2
  <2>5. f = [k \in 0..l |->
               IF k = l THEN {}
               ELSE IF code(k) THEN f[k + 1]
               ELSE {LiteralOf(t, k, LiteralEnd(t, k, skip))} \cup f[LiteralEnd(t, k, skip)]]
    <3>. HIDE DEF code
    <3>1. \A k \in 0..l : k = l \/ k \in 0..(l - 1)
      BY <1>1
    <3>. QED
      BY <1>1, <2>3, <2>4, <3>1
  <2>. QED
    BY <1>1, <2>5 DEF LiteralsFrom
<1>. DEFINE from == CHOOSE f : LiteralsFrom(t, skip, f)
<1>7. LiteralsFrom(t, skip, from)
  BY <1>6
<1>8. Literals(t, skip) = from[0]
  BY DEF Literals, LiteralsFrom, LiteralOf
<1>. QED
  BY <1>7, <1>8

\* A scanner finds the literals whose stops the splitter's reader passes.
LEMMA LiteralsAre ==
  ASSUME NEW t \in Seq(Unit), NEW skip \in {1, 2},
         \A k \in 0..(Len(t) - 1) : LiteralEnd(t, k, skip) = LiteralEnd(t, k, 1)
  PROVE  Literals(t, skip) = {LiteralOf(t, m, StopAfter(t, m)) : m \in LiteralStops(t)}
<1>1. PICK l : l = Len(t) /\ l \in Nat
  <2>1. Len(t) \in Nat
    OBVIOUS
  <2>. QED
    BY <2>1
<1>2. PICK f : LiteralsFrom(t, skip, f) /\ Literals(t, skip) = f[0]
  BY LiteralsSteps
<1>. DEFINE lit(m) == LiteralOf(t, m, StopAfter(t, m))
            onward(k) == {lit(m) : m \in {o \in LiteralStops(t) : o >= k}}
            P == {k \in 0..l : k \in Stops(t) => f[k] = onward(k)}
<1>3. Stops(t) \subseteq 0..l /\ 0 \in Stops(t)
      /\ \A k \in Stops(t) : k < l => StopAfter(t, k) \in Stops(t)
  BY <1>1, StopsHold DEF HoldsStops
<1>4. LiteralStops(t) \subseteq Stops(t) /\ \A m \in LiteralStops(t) : m \in Nat /\ m < l
  BY <1>1, <1>3 DEF LiteralStops
<1>5. l \in P
  <2>1. f[l] = {}
    BY <1>1, <1>2 DEF LiteralsFrom
  <2>2. {o \in LiteralStops(t) : o >= l} = {}
    BY <1>1, <1>4
  <2>3. onward(l) = {}
    BY <2>2
  <2>. QED
    BY <1>1, <2>1, <2>3
<1>6. ASSUME NEW k \in 0..(l - 1), \A j \in (k + 1)..l : j \in P
      PROVE  k \in P
  <2>. SUFFICES ASSUME k \in Stops(t)
                PROVE  f[k] = onward(k)
    BY <1>1
  <2>1. k \in 0..l /\ k # l /\ k < l /\ k \in 0..(Len(t) - 1)
    BY <1>1
  <2>2. PICK j : j = StopAfter(t, k) /\ j \in (k + 1)..l /\ j \in Stops(t)
    BY <1>1, <1>3, <2>1, StopAfterWithin
  <2>3. f[j] = onward(j)
    BY <1>6, <2>2
  <2>4. \A m \in Stops(t) : m >= k <=> m = k \/ m >= j
    <3>1. ASSUME NEW m \in Stops(t), m > k
          PROVE  m >= j
      <4>1. k < m /\ j \in Int /\ m \in Int
        BY <1>1, <1>3, <2>1, <2>2, <3>1
      <4>2. j <= m
        BY <2>2, <4>1, NoStopBetween
      <4>. QED
        BY <4>1, <4>2
    <3>2. \A m \in Stops(t) : m \in Int
      BY <1>3
    <3>. QED
      BY <2>1, <2>2, <3>1, <3>2
  <2>5. f[k] = IF Opener(t, k) = "code" THEN f[k + 1]
               ELSE {LiteralOf(t, k, LiteralEnd(t, k, skip))} \cup f[LiteralEnd(t, k, skip)]
    BY <1>1, <1>2, <2>1 DEF LiteralsFrom
  <2>6. CASE Opener(t, k) = "code"
    <3>1. j = k + 1 /\ f[k] = f[j]
      BY <2>2, <2>5, <2>6 DEF StopAfter
    <3>2. k \notin LiteralStops(t)
      BY <2>6 DEF LiteralStops
    <3>3. {o \in LiteralStops(t) : o >= k} = {o \in LiteralStops(t) : o >= j}
      BY <1>4, <2>4, <3>2
    <3>. QED
      BY <2>3, <3>1, <3>3
  <2>7. CASE Opener(t, k) # "code"
    <3>1. j = LiteralEnd(t, k, skip)
      BY <2>1, <2>2, <2>7 DEF StopAfter
    <3>2. f[k] = {lit(k)} \cup f[j]
      BY <2>2, <2>5, <2>7, <3>1
    <3>3. k \in LiteralStops(t)
      BY <1>1, <2>1, <2>7 DEF LiteralStops
    <3>4. {o \in LiteralStops(t) : o >= k} = {k} \cup {o \in LiteralStops(t) : o >= j}
      BY <1>4, <2>4, <3>3
    <3>. HIDE DEF lit
    <3>5. onward(k) = {lit(k)} \cup onward(j)
      BY <3>4
    <3>. QED
      BY <2>3, <3>2, <3>5
  <2>. QED
    BY <2>6, <2>7
<1>7. \A k \in 0..l : k \in P
  <2>. HIDE DEF P
  <2>. QED
    BY <1>1, <1>5, <1>6, InductionDownFrom
<1>8. f[0] = onward(0)
  BY <1>1, <1>3, <1>7
<1>9. {o \in LiteralStops(t) : o >= 0} = LiteralStops(t)
  BY <1>4
<1>. QED
  BY <1>2, <1>8, <1>9

\* What they leave is the splitter's code.
LEMMA OutsideIsCode ==
  ASSUME NEW t \in Seq(Unit), NEW skip \in {1, 2},
         \A k \in 0..(Len(t) - 1) : LiteralEnd(t, k, skip) = LiteralEnd(t, k, 1)
  PROVE  /\ \A k \in 0..(Len(t) - 1) :
              (\A r \in Literals(t, skip) : k < r.location \/ k >= r.end) <=> k \in CodeStops(t)
         /\ Outside(t, Literals(t, skip)) = CodeStops(t)
<1>1. PICK l : l = Len(t) /\ l \in Nat
  <2>1. Len(t) \in Nat
    OBVIOUS
  <2>. QED
    BY <2>1
<1>2. Stops(t) \subseteq 0..l /\ 0 \in Stops(t)
      /\ \A k \in Stops(t) : k < l => StopAfter(t, k) \in Stops(t)
  BY <1>1, StopsHold DEF HoldsStops
<1>3. CodeStops(t) \subseteq 0..(l - 1) /\ CodeStops(t) \subseteq Stops(t)
  BY <1>1, <1>2 DEF CodeStops
<1>4. Literals(t, skip) = {LiteralOf(t, m, StopAfter(t, m)) : m \in LiteralStops(t)}
  BY LiteralsAre
<1>. DEFINE Free(k) == \A m \in LiteralStops(t) : k < m \/ k >= StopAfter(t, m)
<1>5. \A k : (\A r \in Literals(t, skip) : k < r.location \/ k >= r.end) <=> Free(k)
  <2>1. \A m : /\ LiteralOf(t, m, StopAfter(t, m)).location = m
               /\ LiteralOf(t, m, StopAfter(t, m)).end = StopAfter(t, m)
    BY DEF LiteralOf
  <2>. QED
    BY <1>4, <2>1, Zenon
<1>6. ASSUME NEW k \in CodeStops(t)
      PROVE  Free(k)
  <2>1. ASSUME NEW m \in LiteralStops(t), ~(k < m)
        PROVE  k >= StopAfter(t, m)
    <3>1. m \in Stops(t) /\ k \in Stops(t) /\ m # k /\ m \in 0..(l - 1)
      BY <1>1, <1>2, <1>3 DEF LiteralStops, CodeStops
    <3>2. m < k /\ k \in Int /\ StopAfter(t, m) \in Int
      BY <1>1, <1>2, <2>1, <3>1, StopAfterWithin
    <3>3. StopAfter(t, m) <= k
      BY <3>1, <3>2, NoStopBetween
    <3>. QED
      BY <3>2, <3>3
  <2>. QED
    BY <2>1
<1>7. ASSUME NEW k \in 0..(l - 1), Free(k)
      PROVE  k \in CodeStops(t)
  <2>. DEFINE T == {s \in Stops(t) : s <= k}
  <2>1. PICK j \in T : \A y \in T : y <= j
    <3>1. T \in SUBSET Nat /\ 0 \in T /\ k \in Nat /\ \A x \in T : x <= k
      BY <1>1, <1>2
    <3>. HIDE DEF T
    <3>. QED
      BY <3>1, GreatestNatural
  <2>2. j \in Stops(t) /\ j <= k /\ j < l /\ j \in 0..(l - 1)
    BY <1>1, <1>2, <2>1
  <2>3. PICK e : e = StopAfter(t, j) /\ e \in (j + 1)..l /\ e \in Stops(t)
    BY <1>1, <1>2, <2>2, StopAfterWithin
  <2>4. ~(e <= k)
    <3>1. e <= k => e \in T
      BY <2>3
    <3>. QED
      BY <2>1, <2>2, <2>3, <3>1
  <2>5. j \notin LiteralStops(t)
    <3>1. ASSUME j \in LiteralStops(t)
          PROVE  FALSE
      <4>1. k < j \/ k >= e
        BY <1>7, <2>3, <3>1
      <4>. QED
        BY <2>2, <2>3, <2>4, <4>1
    <3>. QED
      BY <3>1
  <2>6. Opener(t, j) = "code"
    BY <1>1, <2>2, <2>5 DEF LiteralStops
  <2>7. e = j + 1
    BY <2>3, <2>6 DEF StopAfter
  <2>8. j = k
    BY <2>2, <2>4, <2>7
  <2>. QED
    BY <1>1, <2>2, <2>6, <2>8 DEF CodeStops
<1>8. \A k \in 0..(l - 1) : Free(k) <=> k \in CodeStops(t)
  BY <1>6, <1>7
<1>. HIDE DEF Free
<1>9. \A k \in 0..(l - 1) :
        (\A r \in Literals(t, skip) : k < r.location \/ k >= r.end) <=> k \in CodeStops(t)
  BY <1>5, <1>8
<1>10. Outside(t, Literals(t, skip)) = CodeStops(t)
  BY <1>1, <1>3, <1>9 DEF Outside
<1>. QED
  BY <1>1, <1>9, <1>10

-----------------------------------------------------------------------------
(* What an engine makes of a text it reads as src/core does.               *)

\* The stops where a token begins, and whether one is among those from a to b.
TokenStops(t) ==
  {k \in Stops(t) : /\ k < Len(t) /\ Opener(t, k) \notin {"line", "block"}
                    /\ t[k + 1] \notin Blank \cup {"semi"}}
TokenIn(t, a, b) == \E n \in TokenStops(t) : a <= n /\ n < b

\* Every unit belongs to what was begun at a stop.
LEMMA CoveringStop ==
  ASSUME NEW t \in Seq(Unit), NEW k \in 0..(Len(t) - 1)
  PROVE  \E j \in Stops(t) : /\ j <= k /\ k < StopAfter(t, j) /\ j \in 0..(Len(t) - 1)
                             /\ \A y \in Stops(t) : y <= k => y <= j
<1>1. PICK l : l = Len(t) /\ l \in Nat
  <2>1. Len(t) \in Nat
    OBVIOUS
  <2>. QED
    BY <2>1
<1>2. Stops(t) \subseteq 0..l /\ 0 \in Stops(t)
      /\ \A m \in Stops(t) : m < l => StopAfter(t, m) \in Stops(t)
  BY <1>1, StopsHold DEF HoldsStops
<1>. DEFINE T == {s \in Stops(t) : s <= k}
<1>3. PICK j \in T : \A y \in T : y <= j
  <2>1. T \in SUBSET Nat /\ 0 \in T /\ k \in Nat /\ \A x \in T : x <= k
    BY <1>1, <1>2
  <2>. HIDE DEF T
  <2>. QED
    BY <2>1, GreatestNatural
<1>4. j \in Stops(t) /\ j <= k /\ j < l /\ j \in 0..(l - 1)
  BY <1>1, <1>2, <1>3
<1>5. PICK e : e = StopAfter(t, j) /\ e \in (j + 1)..l /\ e \in Stops(t)
  BY <1>1, <1>2, <1>4, StopAfterWithin
<1>6. ~(e <= k)
  <2>1. e <= k => e \in T
    BY <1>5
  <2>. QED
    BY <1>3, <1>4, <1>5, <2>1
<1>. QED
  BY <1>1, <1>3, <1>4, <1>5, <1>6

\* From one stop to another, there is something solid where a token begins.
LEMMA SolidIsToken ==
  ASSUME NEW t \in Seq(Unit), NEW a \in Stops(t), NEW b \in Nat
  PROVE  (\E n \in Solid(t, Literals(t, 1)) : a <= n /\ n < b) <=> TokenIn(t, a, b)
<1>1. PICK l : l = Len(t) /\ l \in Nat /\ Stops(t) \subseteq 0..l
  <2>1. Len(t) \in Nat
    OBVIOUS
  <2>. QED
    BY <2>1, StopsHold
<1>. DEFINE comments == {r \in Literals(t, 1) : r.isComment}
            Free(k) == \A m \in LiteralStops(t) :
                         Opener(t, m) \in {"line", "block"} => k < m \/ k >= StopAfter(t, m)
<1>2. \A k : (\A r \in comments : k < r.location \/ k >= r.end) <=> Free(k)
  <2>1. Literals(t, 1) = {LiteralOf(t, m, StopAfter(t, m)) : m \in LiteralStops(t)}
    BY LiteralsAre
  <2>2. \A m : /\ LiteralOf(t, m, StopAfter(t, m)).location = m
               /\ LiteralOf(t, m, StopAfter(t, m)).end = StopAfter(t, m)
               /\ LiteralOf(t, m, StopAfter(t, m)).isComment <=> Opener(t, m) \in {"line", "block"}
    BY DEF LiteralOf
  <2>. QED
    BY <2>1, <2>2, Zenon
<1>3. \A n : n \in Solid(t, Literals(t, 1)) <=>
               n \in 0..(l - 1) /\ Free(n) /\ t[n + 1] \notin Blank \cup {"semi"}
  <2>. HIDE DEF Free
  <2>. QED
    BY <1>1, <1>2 DEF Solid, Outside
<1>4. ASSUME NEW n \in TokenStops(t)
      PROVE  n \in Solid(t, Literals(t, 1))
  <2>1. /\ n \in Stops(t) /\ n \in 0..(l - 1) /\ Opener(t, n) \notin {"line", "block"}
        /\ t[n + 1] \notin Blank \cup {"semi"}
    BY <1>1 DEF TokenStops
  <2>2. ASSUME NEW m \in LiteralStops(t), Opener(t, m) \in {"line", "block"}, ~(n < m)
        PROVE  n >= StopAfter(t, m)
    <3>1. m \in Stops(t) /\ m # n /\ m \in 0..(l - 1)
      BY <1>1, <2>1, <2>2 DEF LiteralStops
    <3>2. m < n /\ n \in Int /\ StopAfter(t, m) \in Int
      BY <1>1, <2>1, <2>2, <3>1, StopAfterWithin
    <3>3. StopAfter(t, m) <= n
      BY <2>1, <3>1, <3>2, NoStopBetween
    <3>. QED
      BY <3>2, <3>3
  <2>3. Free(n)
    BY <2>2
  <2>. HIDE DEF Free
  <2>. QED
    BY <1>3, <2>1, <2>3
<1>5. ASSUME NEW n \in Solid(t, Literals(t, 1)), a <= n, n < b
      PROVE  TokenIn(t, a, b)
  <2>1. n \in 0..(l - 1) /\ Free(n) /\ t[n + 1] \notin Blank \cup {"semi"}
    BY <1>3
  <2>2. PICK j \in Stops(t) : /\ j <= n /\ n < StopAfter(t, j) /\ j \in 0..(l - 1)
                              /\ \A y \in Stops(t) : y <= n => y <= j
    BY <1>1, <2>1, CoveringStop
  <2>3. a <= j /\ j < b
    BY <1>1, <1>5, <2>1, <2>2
  <2>4. Opener(t, j) \notin {"line", "block"}
    <3>1. ASSUME Opener(t, j) \in {"line", "block"}
          PROVE  FALSE
      <4>1. j \in LiteralStops(t)
        BY <1>1, <2>2, <3>1 DEF LiteralStops
      <4>2. n < j \/ n >= StopAfter(t, j)
        BY <2>1, <3>1, <4>1
      <4>3. StopAfter(t, j) \in Int
        BY <1>1, <2>2, StopAfterWithin
      <4>. QED
        BY <2>1, <2>2, <4>2, <4>3
    <3>. QED
      BY <3>1
  <2>5. t[j + 1] \notin Blank \cup {"semi"}
    <3>1. CASE Opener(t, j) = "code"
      <4>1. j = n
        BY <2>1, <2>2, <3>1 DEF StopAfter
      <4>. QED
        BY <2>1, <4>1
    <3>2. CASE Opener(t, j) # "code"
      <4>1. t[j + 1] \in {"dash", "slash", "quote", "dollar"}
        BY <3>2, Openers
      <4>. QED
        BY <4>1 DEF Blank
    <3>. QED
      BY <3>1, <3>2
  <2>6. j \in TokenStops(t)
    BY <1>1, <2>2, <2>4, <2>5 DEF TokenStops
  <2>. QED
    BY <2>3, <2>6 DEF TokenIn
<1>. QED
  BY <1>4, <1>5 DEF TokenIn

\* An engine that finds the same strings and comments, and no semicolon in a
\* name, ends its statements where the splitter does.
LEMMA AlikeReads ==
  ASSUME NEW e, NEW t \in Seq(Unit), Alike(e, t)
  PROVE  /\ ServerLiterals(e, t) = Literals(t, 1)
         /\ ServerEnds(e, t) = Semis(t)
<1>1. PICK l : l = Len(t) /\ l \in Nat /\ Stops(t) \subseteq 0..l
  <2>1. Len(t) \in Nat
    OBVIOUS
  <2>. QED
    BY <2>1, StopsHold
<1>2. PICK L, N : L = ServerLiterals(e, t) /\ N = ServerNames(e, t)
  OBVIOUS
<1>3. L = Literals(t, 1) /\ \A k \in 0..(l - 1) : t[k + 1] = "semi" => k \in Outside(t, N)
  BY <1>1, <1>2 DEF Alike
<1>4. Outside(t, L) = CodeStops(t)
  BY <1>3, OutsideIsCode
<1>5. \A k : k \in Outside(t, L \cup N) <=> k \in Outside(t, L) /\ k \in Outside(t, N)
  BY DEF Outside
<1>6. \A k : k \in ServerEnds(e, t) <=> k \in CodeStops(t) /\ t[k + 1] = "semi"
  <2>1. \A k \in CodeStops(t) : k \in 0..(l - 1)
    BY <1>1 DEF CodeStops
  <2>. QED
    BY <1>2, <1>3, <1>4, <1>5, <2>1 DEF ServerEnds
<1>7. \A k : k \in Semis(t) <=> k \in CodeStops(t) /\ t[k + 1] = "semi"
  <2>1. \A k \in Stops(t) : t[k + 1] = "semi" => Opener(t, k) = "code"
    BY Openers
  <2>. QED
    BY <2>1 DEF Semis, CodeStops
<1>. QED
  BY <1>2, <1>3, <1>6, <1>7

\* Where a semicolon lies and where what it ends does.
LEMMA LeastNext ==
  ASSUME NEW T \in SUBSET Nat, NEW l \in Nat
  PROVE  Least({k + 1 : k \in T}, l) = Least(T, l - 1) + 1
<1>. DEFINE U == {k + 1 : k \in T}
<1>1. CASE T = {}
  <2>1. Least(T, l - 1) = l - 1
    BY <1>1 DEF Least
  <2>2. Least(U, l) = l
    BY <1>1 DEF Least
  <2>. QED
    BY <2>1, <2>2
<1>2. CASE T # {}
  <2>1. PICK x \in T : \A y \in T : x <= y
    BY <1>2, LeastNatural
  <2>2. Least(T, l - 1) = x
    BY <2>1, LeastIs
  <2>3. x + 1 \in U /\ U \in SUBSET Nat /\ \A y \in U : x + 1 <= y
    BY <2>1
  <2>4. Least(U, l) = x + 1
    <3>. HIDE DEF U
    <3>. QED
      BY <2>3, LeastIs
  <2>. QED
    BY <2>2, <2>4
<1>. QED
  BY <1>1, <1>2

LEMMA CutAfterWithin ==
  ASSUME NEW t \in Seq(Unit), NEW k \in 0..(Len(t) - 1)
  PROVE  CutAfter(t, k) \in (k + 1)..Len(t)
<1>1. PICK l : l = Len(t) /\ l \in Nat
  <2>1. Len(t) \in Nat
    OBVIOUS
  <2>. QED
    BY <2>1
<1>. DEFINE T == {o + 1 : o \in {n \in Semis(t) : n >= k}}
<1>2. Stops(t) \subseteq 0..l
  BY <1>1, StopsHold
<1>3. \A o \in {n \in Semis(t) : n >= k} : o + 1 \in (k + 1)..l
  BY <1>1, <1>2 DEF Semis
<1>4. T \subseteq (k + 1)..l
  BY <1>3
<1>5. k + 1 \in Nat /\ k + 1 <= l
  BY <1>1
<1>6. Least(T, l) \in (k + 1)..l
  <2>. HIDE DEF T
  <2>. QED
    BY <1>1, <1>4, <1>5, LeastWithin
<1>. QED
  BY <1>1, <1>6 DEF CutAfter

LEMMA AppendConcat ==
  ASSUME NEW S, NEW s \in Seq(S), NEW e \in S, NEW r \in Seq(S)
  PROVE  Append(s, e) \o r = s \o (<<e>> \o r)
<1>1. PICK p, q : p = Append(s, e) /\ q = <<e>> \o r
  OBVIOUS
<1>2. /\ p \in Seq(S) /\ Len(p) = Len(s) + 1 /\ p[Len(s) + 1] = e
      /\ \A i0 \in 1..Len(s) : p[i0] = s[i0]
  BY <1>1, AppendFacts
<1>3. /\ q \in Seq(S) /\ Len(q) = Len(r) + 1 /\ q[1] = e
      /\ \A i0 \in 2..(Len(r) + 1) : q[i0] = r[i0 - 1]
  BY <1>1, PushFacts
<1>4. PICK u, v : u = p \o r /\ v = s \o q
  OBVIOUS
<1>5. /\ u \in Seq(S) /\ Len(u) = Len(p) + Len(r)
      /\ \A i0 \in 1..Len(p) : u[i0] = p[i0]
      /\ \A i0 \in (Len(p) + 1)..(Len(p) + Len(r)) : u[i0] = r[i0 - Len(p)]
  BY <1>2, <1>4, ConcatFacts
<1>6. /\ v \in Seq(S) /\ Len(v) = Len(s) + Len(q)
      /\ \A i0 \in 1..Len(s) : v[i0] = s[i0]
      /\ \A i0 \in (Len(s) + 1)..(Len(s) + Len(q)) : v[i0] = q[i0 - Len(s)]
  BY <1>3, <1>4, ConcatFacts
<1>7. PICK n, m : n = Len(s) /\ m = Len(r) /\ n \in Nat /\ m \in Nat
  <2>1. Len(s) \in Nat /\ Len(r) \in Nat
    OBVIOUS
  <2>. QED
    BY <2>1
<1>8. ASSUME NEW i0 \in 1..(n + 1 + m)
      PROVE  u[i0] = v[i0]
  <2>1. CASE i0 \in 1..n
    <3>1. i0 \in 1..Len(s) /\ i0 \in 1..Len(p)
      BY <1>2, <1>7, <2>1
    <3>. QED
      BY <1>2, <1>5, <1>6, <3>1
  <2>2. CASE i0 = n + 1
    <3>1. u[i0] = p[i0] /\ p[i0] = e
      BY <1>2, <1>5, <1>7, <2>2
    <3>2. i0 \in (Len(s) + 1)..(Len(s) + Len(q)) /\ i0 - Len(s) = 1
      BY <1>3, <1>7, <2>2
    <3>3. v[i0] = q[1]
      BY <1>6, <3>2
    <3>. QED
      BY <1>3, <3>1, <3>3
  <2>3. CASE i0 \in (n + 2)..(n + 1 + m)
    <3>1. u[i0] = r[i0 - (n + 1)]
      BY <1>2, <1>5, <1>7, <2>3
    <3>2. v[i0] = q[i0 - n]
      BY <1>3, <1>6, <1>7, <2>3
    <3>3. i0 - n \in 2..(m + 1) /\ i0 - n - 1 = i0 - (n + 1)
      BY <1>7, <2>3
    <3>. QED
      BY <1>3, <1>7, <3>1, <3>2, <3>3
  <2>. QED
    BY <1>7, <2>1, <2>2, <2>3
<1>9. Len(u) = n + 1 + m /\ Len(v) = n + 1 + m
  BY <1>2, <1>3, <1>5, <1>6, <1>7
<1>10. u = v
  BY <1>5, <1>6, <1>8, <1>9, SameSequence
<1>. QED
  BY <1>1, <1>4, <1>10

LEMMA TextsInTyped ==
  ASSUME NEW t \in Seq(Unit), NEW s, IsSplit(t, s)
  PROVE  /\ TextsIn(t, s) \in Seq(Seq(Unit)) /\ Len(TextsIn(t, s)) = Len(s) /\ Len(s) \in Nat \ {0}
         /\ \A n \in 1..Len(s) : TextsIn(t, s)[n] = Trim(SubSeq(t, s[n].start + 1, s[n].end))
<1>1. s \in Seq(Segment) /\ Len(s) \in Nat \ {0}
  BY DEF IsSplit
<1>2. ASSUME NEW n \in 1..Len(s)
      PROVE  Trim(SubSeq(t, s[n].start + 1, s[n].end)) \in Seq(Unit)
  <2>1. s[n].start \in Nat /\ s[n].end \in Nat /\ s[n].start <= s[n].end /\ s[n].end <= Len(t)
    <3>1. s[n] \in Segment
      BY <1>1
    <3>. QED
      BY <3>1 DEF IsSplit, Segment
  <2>2. PICK a, b : a = s[n].start + 1 /\ b = s[n].end
    OBVIOUS
  <2>3. a \in Int /\ b \in Int /\ a >= 1 /\ b <= Len(t) /\ a <= b + 1
    BY <2>1, <2>2
  <2>4. SubSeq(t, a, b) \in Seq(Unit)
    BY <2>3, SubSeqFacts
  <2>. QED
    BY <2>2, <2>4, TrimTyped
<1>. QED
  BY <1>1, <1>2 DEF TextsIn

\* Its statements, from every offset on.
ServerFrom(e, t, g) == CutFrom(t, ServerEnds(e, t), Solid(t, ServerLiterals(e, t)), g)

LEMMA ServerReads ==
  ASSUME NEW e, NEW t \in Seq(Unit)
  PROVE  \E g : /\ ServerFrom(e, t, g) /\ ServerStatements(e, t) = g[0]
                /\ \A k \in 0..Len(t) : g[k] \in Seq(Seq(Unit))
<1>1. PICK ends, tokens : ends = ServerEnds(e, t) /\ tokens = Solid(t, ServerLiterals(e, t))
  OBVIOUS
<1>2. /\ ServerStatements(e, t) = CutAt(t, ends, tokens)
      /\ ends \subseteq 0..(Len(t) - 1)
  BY <1>1, ServerStatementsCut
<1>3. PICK g : CutFrom(t, ends, tokens, g) /\ CutAt(t, ends, tokens) = g[0]
  BY <1>2, CutAtFrom
<1>4. \A k \in 0..Len(t) : g[k] \in Seq(Seq(Unit))
  BY <1>2, <1>3, CutFromTyped
<1>. QED
  BY <1>1, <1>2, <1>3, <1>4 DEF ServerFrom

LEMMA ServerSteps ==
  ASSUME NEW e, NEW t \in Seq(Unit), Alike(e, t), NEW g, ServerFrom(e, t, g),
         NEW k \in Stops(t), k < Len(t), NEW b, b = CutAfter(t, k)
  PROVE  g[k] = IF TokenIn(t, k, b) THEN <<Trim(SubSeq(t, k + 1, b))>> \o g[b] ELSE g[b]
<1>1. PICK l : l = Len(t) /\ l \in Nat
  <2>1. Len(t) \in Nat
    OBVIOUS
  <2>. QED
    BY <2>1
<1>2. Stops(t) \subseteq 0..l /\ k \in 0..(l - 1)
  <2>1. Stops(t) \subseteq 0..l
    BY <1>1, StopsHold
  <2>. QED
    BY <1>1, <2>1
<1>3. PICK T : T = {n \in ServerEnds(e, t) : n >= k}
  OBVIOUS
<1>4. PICK last : last = Least(T, Len(t) - 1)
  OBVIOUS
<1>5. T = {n \in Semis(t) : n >= k}
  BY <1>3, AlikeReads
<1>6. T \in SUBSET Nat
  BY <1>1, <1>2, <1>5 DEF Semis
<1>7. b = last + 1
  <2>1. CutAfter(t, k) = Least({j + 1 : j \in T}, Len(t))
    BY <1>5 DEF CutAfter
  <2>. QED
    BY <1>1, <1>4, <1>6, <2>1, LeastNext
<1>8. b \in (k + 1)..l /\ last \in Int
  <2>1. b \in (k + 1)..l
    BY <1>1, <1>2, CutAfterWithin
  <2>2. T = {} => last \in Int
    BY <1>1, <1>4 DEF Least
  <2>3. T # {} => last \in Nat
    <3>1. PICK d : d = Len(t) - 1
      OBVIOUS
    <3>2. T # {} => Least(T, d) \in T
      BY <1>6, LeastFacts
    <3>. QED
      BY <1>4, <1>6, <3>1, <3>2
  <2>. QED
    BY <2>1, <2>2, <2>3
<1>9. PICK tokens : tokens = Solid(t, Literals(t, 1))
  OBVIOUS
<1>10. g[k] = IF \E n \in tokens : k <= n /\ n <= last
              THEN <<Trim(SubSeq(t, k + 1, last + 1))>> \o g[last + 1]
              ELSE g[last + 1]
  <2>1. k \in 0..Len(t) /\ k # Len(t)
    BY <1>1, <1>2
  <2>2. tokens = Solid(t, ServerLiterals(e, t))
    BY <1>9, AlikeReads
  <2>. QED
    BY <1>3, <1>4, <2>1, <2>2 DEF ServerFrom, CutFrom
<1>11. TokenIn(t, k, b) <=> \E n \in tokens : k <= n /\ n <= last
  <2>1. \A n \in tokens : n \in Int
    BY <1>1, <1>9 DEF Solid, Outside
  <2>2. \A n \in tokens : n < b <=> n <= last
    BY <1>7, <1>8, <2>1
  <2>3. b \in Nat
    BY <1>1, <1>2, <1>8
  <2>4. TokenIn(t, k, b) <=> \E n \in tokens : k <= n /\ n < b
    BY <1>9, <2>3, SolidIsToken
  <2>. QED
    BY <2>2, <2>4
<1>. QED
  BY <1>7, <1>10, <1>11

\* It runs the texts of the segments that hold a token.
LEMMA ServerSegments ==
  ASSUME NEW e, NEW t \in Seq(Unit), Alike(e, t), NEW s, IsSplit(t, s), NEW dropped,
         \A n \in 1..Len(s) :
           TextsIn(t, s)[n] \in dropped <=> ~TokenIn(t, s[n].start, s[n].end)
  PROVE  ServerStatements(e, t) = Without(TextsIn(t, s), dropped)
<1>1. PICK l, c : l = Len(t) /\ l \in Nat /\ c = Len(s) /\ c \in Nat \ {0}
  <2>1. Len(t) \in Nat
    OBVIOUS
  <2>. QED
    BY <2>1, TextsInTyped
<1>2. PICK g : ServerFrom(e, t, g) /\ ServerStatements(e, t) = g[0]
               /\ \A k \in 0..l : g[k] \in Seq(Seq(Unit))
  BY <1>1, ServerReads
<1>3. PICK x : x = TextsIn(t, s)
  OBVIOUS
<1>4. /\ x \in Seq(Seq(Unit)) /\ Len(x) = c
      /\ \A n \in 1..c : x[n] = Trim(SubSeq(t, s[n].start + 1, s[n].end))
  BY <1>1, <1>3, TextsInTyped
<1>5. PICK f : WithoutBy(x, dropped, Seq(Unit), f)
  BY <1>4, WithoutSteps
<1>6. /\ f \in [0..c -> Seq(Seq(Unit))]
      /\ Without(x, dropped) = f[c] /\ f[0] = <<>>
      /\ \A n \in 1..c : f[n] = WithoutStep(x, dropped, n, f[n - 1])
  BY <1>4, <1>5 DEF WithoutBy
<1>. DEFINE pos(n) == IF n = 0 THEN 0 ELSE s[n].end
            good(n) == f[n] \o g[pos(n)] = g[0]
            P == {n \in 0..c : good(n)}
<1>7. 0 \in P
  <2>1. 0 \in 0..l
    BY <1>1
  <2>2. \A r \in Seq(Seq(Unit)) : <<>> \o r = r
    OBVIOUS
  <2>3. f[0] \o g[pos(0)] = g[0]
    BY <1>2, <1>6, <2>1, <2>2
  <2>4. good(0)
    BY <2>3
  <2>. HIDE DEF good
  <2>. QED
    BY <1>1, <2>4
<1>8. ASSUME NEW n \in 1..c, n - 1 \in P
      PROVE  n \in P
  <2>0. PICK a, b : a = s[n].start /\ b = s[n].end
    OBVIOUS
  <2>1. /\ a \in 0..l /\ b \in 0..l /\ a <= b /\ b = CutAfter(t, a)
        /\ a = pos(n - 1) /\ b = pos(n)
    <3>1. s[n] \in Segment
      BY <1>1 DEF IsSplit
    <3>2. /\ s[n].start = IF n = 1 THEN 0 ELSE s[n - 1].end
          /\ s[n].end = CutAfter(t, s[n].start)
          /\ s[n].start <= s[n].end /\ s[n].end <= Len(t)
      BY <1>1 DEF IsSplit
    <3>3. a \in Nat /\ b \in Nat
      BY <2>0, <3>1 DEF Segment
    <3>4. a <= b /\ b <= l /\ b = CutAfter(t, a)
      BY <1>1, <2>0, <3>2
    <3>5. a = pos(n - 1) /\ b = pos(n)
      BY <2>0, <3>2
    <3>. QED
      BY <1>1, <3>3, <3>4, <3>5
  <2>2. f[n - 1] \o g[a] = g[0]
    <3>1. good(n - 1)
      <4>. HIDE DEF good
      <4>. QED
        BY <1>8
    <3>. QED
      BY <2>1, <3>1
  <2>3. x[n] \in dropped <=> ~TokenIn(t, a, b)
    BY <1>1, <1>3, <2>0
  <2>4. x[n] = Trim(SubSeq(t, a + 1, b)) /\ x[n] \in Seq(Unit)
    BY <1>4, <2>0
  <2>5. f[n] = (IF x[n] \in dropped THEN f[n - 1] ELSE Append(f[n - 1], x[n]))
    BY <1>6 DEF WithoutStep
  <2>6. f[n - 1] \in Seq(Seq(Unit)) /\ g[b] \in Seq(Seq(Unit))
    <3>1. n - 1 \in 0..c
      BY <1>1
    <3>. QED
      BY <1>2, <1>6, <2>1, <3>1
  <2>7. f[n] \o g[b] = g[0]
    <3>. HIDE DEF P, pos
    <3>1. CASE a < l
      <4>1. a \in Stops(t) /\ a < Len(t)
        BY <1>1, <2>0, <3>1, SegmentsAtStops
      <4>2. g[a] = IF TokenIn(t, a, b) THEN <<Trim(SubSeq(t, a + 1, b))>> \o g[b] ELSE g[b]
        BY <1>2, <2>1, <4>1, ServerSteps
      <4>3. CASE TokenIn(t, a, b)
        <5>1. g[a] = <<x[n]>> \o g[b] /\ f[n] = Append(f[n - 1], x[n])
          BY <2>3, <2>4, <2>5, <4>2, <4>3
        <5>2. Append(f[n - 1], x[n]) \o g[b] = f[n - 1] \o (<<x[n]>> \o g[b])
          <6>1. PICK p, y, r, T : p = f[n - 1] /\ y = x[n] /\ r = g[b] /\ T = Seq(Unit)
            OBVIOUS
          <6>2. p \in Seq(T) /\ y \in T /\ r \in Seq(T)
            BY <2>4, <2>6, <6>1
          <6>3. Append(p, y) \o r = p \o (<<y>> \o r)
            <7>. HIDE <6>1
            <7>. QED
              BY <6>2, AppendConcat
          <6>. QED
            BY <6>1, <6>3
        <5>. QED
          BY <2>2, <5>1, <5>2
      <4>4. CASE ~TokenIn(t, a, b)
        BY <2>2, <2>3, <2>5, <4>2, <4>4
      <4>. QED
        BY <4>3, <4>4
    <3>2. CASE ~(a < l)
      <4>1. a = l /\ b = l
        BY <1>1, <2>1, <3>2
      <4>2. ~TokenIn(t, a, b)
        <5>1. \A k \in TokenStops(t) : k < l /\ k \in Nat
          <6>1. Stops(t) \subseteq 0..l
            BY <1>1, StopsHold
          <6>. QED
            BY <1>1, <6>1 DEF TokenStops
        <5>. QED
          BY <1>1, <4>1, <5>1 DEF TokenIn
      <4>. QED
        BY <2>2, <2>3, <2>5, <4>1, <4>2
    <3>. QED
      BY <3>1, <3>2
  <2>8. good(n)
    BY <2>1, <2>7
  <2>. HIDE DEF good
  <2>. QED
    BY <1>1, <2>8
<1>9. \A n \in 0..c : n \in P
  <2>. HIDE DEF P
  <2>. QED
    BY <1>1, <1>7, <1>8, InductionUpTo
<1>10. f[c] \o g[pos(c)] = g[0]
  <2>1. good(c)
    <3>. HIDE DEF good
    <3>. QED
      BY <1>1, <1>9
  <2>. QED
    BY <2>1
<1>11. pos(c) = l
  <2>0. PICK a : a = s[c].start
    OBVIOUS
  <2>1. c \in 1..c /\ c # 0
    BY <1>1
  <2>2. s[c].end = CutAfter(t, a) /\ ~\E o \in Semis(t) : o >= a
    BY <1>1, <2>0, <2>1 DEF IsSplit
  <2>3. {k + 1 : k \in {o \in Semis(t) : o >= a}} = {}
    BY <2>2
  <2>4. CutAfter(t, a) = Len(t)
    BY <2>3 DEF CutAfter, Least
  <2>. QED
    BY <1>1, <2>1, <2>2, <2>4
<1>12. g[l] = <<>>
  <2>1. l \in 0..Len(t)
    BY <1>1
  <2>. QED
    BY <1>1, <1>2, <2>1 DEF ServerFrom, CutFrom
<1>13. f[c] \o <<>> = f[c]
  <2>1. f[c] \in Seq(Seq(Unit))
    BY <1>1, <1>6
  <2>. QED
    BY <2>1
<1>. QED
  BY <1>2, <1>3, <1>6, <1>10, <1>11, <1>12, <1>13

\* The text of a segment, taken by itself.
LEMMA PieceAlone ==
  ASSUME NEW t \in Seq(Unit), NEW s, IsSplit(t, s), NEW n \in 1..Len(s),
         NEW x, NEW c, NEW d, Between(x, t, s[n], c, d)
  PROVE  /\ x \in Seq(Unit) /\ x # <<>> /\ Len(x) \in Nat \ {0}
         /\ CutAfter(x, 0) = Len(x)
         /\ TokenIn(x, 0, Len(x)) <=> TokenIn(t, s[n].start, s[n].end)
<1>1. PICK a, b : a = s[n].start /\ b = s[n].end
  OBVIOUS
<1>2. /\ a \in Nat /\ b \in Nat /\ \A o \in Semis(t) : o >= a => b <= o + 1
  BY <1>1, SegmentsAtStops
<1>3. /\ IsPiece(x, t, c, d) /\ c \in Stops(t) /\ a <= c /\ c < d /\ d <= b
      /\ \A k \in a..(b - 1) : k < c \/ k >= d => t[k + 1] \in Blank
  BY <1>1 DEF Between
<1>4. PICK l : l = d - c
  OBVIOUS
<1>5. /\ x \in Seq(Unit) /\ c \in Nat /\ d \in Nat /\ l \in Nat /\ l > 0 /\ Len(x) = l /\ d <= Len(t)
      /\ \A k \in 0..(l - 1) : x[k + 1] = t[c + k + 1]
  BY <1>3, <1>4 DEF IsPiece
<1>6. Len(t) \in Nat /\ Stops(t) \subseteq 0..Len(t) /\ Stops(x) \subseteq 0..l
  <2>1. Len(t) \in Nat
    OBVIOUS
  <2>. QED
    BY <1>5, <2>1, StopsHold
<1>7. \A k \in 0..(l - 1) : /\ c + k \in 0..(Len(t) - 1)
                            /\ Opener(x, k) = Opener(t, c + k)
                            /\ k \in Stops(x) <=> c + k \in Stops(t)
  <2>1. \A k \in 0..(l - 1) : Opener(x, k) = Opener(t, c + k)
    BY <1>3, <1>4, PieceOpener
  <2>2. \A k \in 0..(l - 1) : k \in Stops(x) <=> c + k \in Stops(t)
    BY <1>3, <1>4, PieceStops
  <2>3. \A k \in 0..(l - 1) : c + k \in 0..(Len(t) - 1)
    BY <1>4, <1>5, <1>6
  <2>. QED
    BY <2>1, <2>2, <2>3
<1>8. \A k \in 0..(l - 1) : k \in TokenStops(x) <=> c + k \in TokenStops(t)
  BY <1>5, <1>6, <1>7 DEF TokenStops
<1>9. CutAfter(x, 0) = l
  <2>. DEFINE T == {o + 1 : o \in {m \in Semis(x) : m >= 0}}
  <2>1. ASSUME NEW o \in Semis(x)
        PROVE  o + 1 = l
    <3>1. o \in 0..(l - 1) /\ x[o + 1] = "semi" /\ o \in Stops(x)
      BY <1>5, <1>6 DEF Semis
    <3>2. c + o \in Semis(t)
      BY <1>5, <1>6, <1>7, <3>1 DEF Semis
    <3>3. b <= c + o + 1
      BY <1>2, <1>3, <1>5, <3>1, <3>2
    <3>. QED
      BY <1>2, <1>3, <1>4, <1>5, <3>1, <3>3
  <2>2. \A y \in T : y = l
    BY <2>1
  <2>3. T \in SUBSET Nat
    BY <1>5, <2>2
  <2>4. Least(T, l) = l
    <3>. HIDE DEF T
    <3>1. CASE T = {}
      BY <3>1 DEF Least
    <3>2. CASE T # {}
      BY <2>2, <2>3, <3>2, LeastFacts
    <3>. QED
      BY <3>1, <3>2
  <2>. QED
    BY <1>5, <2>4 DEF CutAfter
<1>10. TokenIn(x, 0, l) => TokenIn(t, a, b)
  <2>. SUFFICES ASSUME NEW k \in TokenStops(x), 0 <= k, k < l
                PROVE  TokenIn(t, a, b)
    BY DEF TokenIn
  <2>1. k \in 0..(l - 1)
    BY <1>5, <1>6 DEF TokenStops
  <2>2. c + k \in TokenStops(t)
    BY <1>8, <2>1
  <2>3. a <= c + k /\ c + k < b
    BY <1>2, <1>3, <1>4, <1>5, <2>1
  <2>. QED
    BY <2>2, <2>3 DEF TokenIn
<1>11. TokenIn(t, a, b) => TokenIn(x, 0, l)
  <2>. SUFFICES ASSUME NEW m \in TokenStops(t), a <= m, m < b
                PROVE  TokenIn(x, 0, l)
    BY DEF TokenIn
  <2>1. m \in a..(b - 1) /\ m \in Nat
    <3>1. m \in Stops(t)
      BY DEF TokenStops
    <3>2. m \in Nat /\ a \in Nat /\ b \in Nat
      BY <1>2, <1>6, <3>1
    <3>. QED
      BY <3>2
  <2>2. c <= m /\ m < d
    <3>1. t[m + 1] \notin Blank
      BY DEF TokenStops
    <3>. QED
      BY <1>3, <1>5, <2>1, <3>1
  <2>3. PICK k : k = m - c /\ k \in 0..(l - 1) /\ c + k = m
    BY <1>4, <1>5, <2>1, <2>2
  <2>4. k \in TokenStops(x) /\ 0 <= k /\ k < l
    BY <1>5, <1>8, <2>3
  <2>. QED
    BY <2>4 DEF TokenIn
<1>12. x # <<>>
  BY DEF Between
<1>. QED
  BY <1>1, <1>5, <1>9, <1>10, <1>11, <1>12

\* It is one statement or none.
LEMMA ServerOne ==
  ASSUME NEW e, NEW t \in Seq(Unit), NEW s, IsSplit(t, s), NEW n \in 1..Len(s),
         NEW x, NEW c, NEW d, Between(x, t, s[n], c, d), Alike(e, x)
  PROVE  ServerStatements(e, x) \in {<<>>, <<x>>}
<1>1. PICK l : l = Len(x) /\ l \in Nat \ {0} /\ x \in Seq(Unit) /\ x # <<>> /\ CutAfter(x, 0) = l
  BY PieceAlone
<1>2. PICK g : ServerFrom(e, x, g) /\ ServerStatements(e, x) = g[0]
  BY <1>1, ServerReads
<1>3. 0 \in Stops(x) /\ 0 < Len(x)
  BY <1>1, StopsHold DEF HoldsStops
<1>4. g[0] = IF TokenIn(x, 0, l) THEN <<Trim(SubSeq(x, 0 + 1, l))>> \o g[l] ELSE g[l]
  BY <1>1, <1>2, <1>3, ServerSteps
<1>5. g[l] = <<>>
  <2>1. l \in 0..Len(x)
    BY <1>1
  <2>. QED
    BY <1>1, <1>2, <2>1 DEF ServerFrom, CutFrom
<1>6. Trim(SubSeq(x, 0 + 1, l)) = x
  <2>1. PICK u : u = SubSeq(x, 1, l)
    OBVIOUS
  <2>2. 1 \in Int /\ l \in Int /\ 1 >= 1 /\ l <= Len(x) /\ 1 <= l + 1
    BY <1>1
  <2>3. u \in Seq(Unit) /\ Len(u) = l + 1 - 1 /\ \A k \in 1..(l + 1 - 1) : u[k] = x[1 + k - 1]
    BY <1>1, <2>1, <2>2, SubSeqFacts
  <2>4. Len(u) = l /\ \A k \in 1..l : u[k] = x[k]
    BY <1>1, <2>3
  <2>5. u = x
    BY <1>1, <2>3, <2>4, SameSequence
  <2>6. Trim(x) = x
    BY <1>1, TrimSolid DEF Between
  <2>7. 0 + 1 = 1
    OBVIOUS
  <2>. QED
    BY <2>1, <2>5, <2>6, <2>7
<1>7. <<x>> \o <<>> = <<x>>
  <2>1. <<x>> \in Seq(Seq(Unit))
    BY <1>1
  <2>. QED
    BY <2>1
<1>. QED
  BY <1>2, <1>4, <1>5, <1>6, <1>7

\* What it runs is what the splitter makes of the text, without what has no token.
LEMMA ServerScriptIs ==
  ASSUME NEW e, NEW t \in Seq(Unit), Alike(e, t), NEW s, IsSplit(t, s), NEW judged,
         judged = StatementsIn(t, s)
  PROVE  ServerStatements(e, t) = Without(judged, {y \in EntriesOf(judged) : Solid(y, Literals(y, 1)) = {}})
<1>1. PICK x : x = TextsIn(t, s)
  OBVIOUS
<1>2. /\ x \in Seq(Seq(Unit)) /\ Len(x) = Len(s)
      /\ \A n \in 1..Len(s) : x[n] = Trim(SubSeq(t, s[n].start + 1, s[n].end))
  BY <1>1, TextsInTyped
<1>3. judged = Without(x, {<<>>})
  BY <1>1 DEF StatementsIn
<1>4. PICK D : D = {y \in EntriesOf(judged) : Solid(y, Literals(y, 1)) = {}}
  OBVIOUS
<1>5. PICK all : all = {<<>>} \cup D
  OBVIOUS
<1>6. ASSUME NEW n \in 1..Len(s)
      PROVE  x[n] \in all <=> ~TokenIn(t, s[n].start, s[n].end)
  <2>1. PICK y : y = x[n]
    OBVIOUS
  <2>2. y = Trim(SubSeq(t, s[n].start + 1, s[n].end))
    BY <1>2, <2>1
  <2>3. CASE y = <<>> /\ \A k \in s[n].start..(s[n].end - 1) : t[k + 1] \in Blank
    <3>1. PICK a, b : a = s[n].start /\ b = s[n].end
      OBVIOUS
    <3>2. a \in Nat /\ b \in Nat /\ \A k \in a..(b - 1) : t[k + 1] \in Blank
      BY <2>3, <3>1, SegmentsAtStops
    <3>3. \A k \in TokenStops(t) : k \in Int
      <4>1. Len(t) \in Nat /\ Stops(t) \subseteq 0..Len(t)
        <5>1. Len(t) \in Nat
          OBVIOUS
        <5>. QED
          BY <5>1, StopsHold
      <4>. QED
        BY <4>1 DEF TokenStops
    <3>4. ~TokenIn(t, a, b)
      BY <3>2, <3>3 DEF TokenIn, TokenStops
    <3>. QED
      BY <1>5, <2>1, <2>3, <3>1, <3>4
  <2>4. ASSUME NEW c, NEW d, Between(y, t, s[n], c, d)
        PROVE  x[n] \in all <=> ~TokenIn(t, s[n].start, s[n].end)
    <3>1. y # <<>>
      BY <2>4 DEF Between
    <3>2. Solid(y, Literals(y, 1)) # {} <=> TokenIn(t, s[n].start, s[n].end)
      <4>1. PICK l : l = Len(y) /\ l \in Nat \ {0} /\ y \in Seq(Unit)
                     /\ (TokenIn(y, 0, l) <=> TokenIn(t, s[n].start, s[n].end))
        BY <2>4, PieceAlone
      <4>2. 0 \in Stops(y)
        BY <4>1, StopsHold DEF HoldsStops
      <4>3. (\E k \in Solid(y, Literals(y, 1)) : 0 <= k /\ k < l) <=> TokenIn(y, 0, l)
        BY <4>1, <4>2, SolidIsToken
      <4>4. \A k \in Solid(y, Literals(y, 1)) : 0 <= k /\ k < l
        BY <4>1 DEF Solid, Outside
      <4>. QED
        BY <4>1, <4>3, <4>4
    <3>3. y \in EntriesOf(judged)
      <4>1. n \in 1..Len(x) /\ x[n] \notin {<<>>}
        BY <1>2, <2>1, <3>1
      <4>2. x[n] \in EntriesOf(Without(x, {<<>>}))
        BY <1>2, <4>1, EntriesLeft
      <4>. QED
        BY <1>3, <2>1, <4>2
    <3>4. y \in all <=> Solid(y, Literals(y, 1)) = {}
      BY <1>4, <1>5, <3>1, <3>3
    <3>. QED
      BY <2>1, <3>2, <3>4
  <2>. QED
    BY <2>2, <2>3, <2>4, SegmentIsPiece
<1>7. ServerStatements(e, t) = Without(x, all)
  BY <1>1, <1>6, ServerSegments
<1>8. Without(Without(x, {<<>>}), D) = Without(x, all)
  <2>1. PICK empty : empty = {<<>>}
    OBVIOUS
  <2>2. \A n \in 1..Len(x) : x[n] \in all <=> x[n] \in empty \/ x[n] \in D
    BY <1>5, <2>1
  <2>3. x \in Seq(Seq(Unit))
    BY <1>2
  <2>4. Without(Without(x, empty), D) = Without(x, all)
    BY <2>2, <2>3, WithoutTwice
  <2>. QED
    BY <2>1, <2>4
<1>. QED
  BY <1>3, <1>4, <1>7, <1>8

\* Whatever is run, on either engine, if the engine reads what it is handed as
\* src/core does (the same strings and comments, and no semicolon in a quoted
\* name): it runs the statements the guard has judged, in their order and cut the
\* same way, and in read-only mode none of them is one that classify calls a write.
THEOREM ScriptGuardSawAll == Spec => []GuardSawAll
<1>1. ScriptRunInv => GuardSawAll
  <2>. DEFINE handed == IF engine = "Sqlite" THEN {Joined(batch)} ELSE EntriesOf(script)
              unsent == {s \in EntriesOf(guarded) :
                           IF engine = "Sqlite" THEN Solid(s, Literals(s, 1)) = {} ELSE ~Sent(s)}
  <2>. SUFFICES ASSUME ScriptRunInv, pc \in {"execute", "done"},
                       \A t \in handed : Alike(engine, t)
                PROVE  /\ script = Without(guarded, unsent)
                       /\ Received \subseteq EntriesOf(script)
                       /\ readOnly => \A s \in Received : classify(s).kind # "Write"
    BY DEF GuardSawAll
  <2>1. /\ CommandInv /\ guarded \in Seq(Seq(Unit)) /\ batch \in Seq(Seq(Unit))
        /\ engine \in {"Sqlite", "Postgres"}
    <3>1. CommandInv /\ CommandTyped
      BY DEF ScriptRunInv, TypeInv
    <3>. QED
      BY <3>1 DEF CommandTyped, Engines
  <2>2. /\ HasSplit(Joined(batch)) /\ guarded = StatementsOf(Joined(batch))
        /\ ~(readOnly /\ AnyWrite(guarded))
        /\ script = IF engine = "Postgres"
                    THEN Without(guarded, {s \in EntriesOf(guarded) : ~Sent(s)})
                    ELSE ServerStatements("Sqlite", Joined(batch))
    BY <2>1 DEF CommandInv, JudgedInv, ScriptInv
  <2>3. PICK t, cuts : t = Joined(batch) /\ cuts = SplitOf(t)
    OBVIOUS
  <2>4. t \in Seq(Unit) /\ IsSplit(t, cuts) /\ guarded = StatementsIn(t, cuts)
    BY <2>1, <2>2, <2>3, JoinedTyped DEF HasSplit, StatementsOf
  <2>5. script = Without(guarded, unsent)
    <3>1. CASE engine = "Postgres"
      BY <2>2, <3>1
    <3>2. CASE engine = "Sqlite"
      <4>1. Alike("Sqlite", t)
        BY <2>3, <3>2
      <4>2. ServerStatements("Sqlite", t) =
              Without(guarded, {s \in EntriesOf(guarded) : Solid(s, Literals(s, 1)) = {}})
        BY <2>4, <4>1, ServerScriptIs
      <4>. QED
        BY <2>2, <2>3, <3>2, <4>2
    <3>. QED
      BY <2>1, <3>1, <3>2
  <2>6. EntriesOf(script) \subseteq EntriesOf(guarded)
    <3>1. \A n \in 1..Len(script) : script[n] \in EntriesOf(guarded)
      BY <2>1, <2>5, EntriesLeft
    <3>. QED
      BY <3>1 DEF EntriesOf
  <2>7. Received \subseteq EntriesOf(script)
    <3>1. CASE engine = "Sqlite"
      BY <3>1 DEF Received
    <3>2. CASE engine = "Postgres"
      <4>1. ASSUME NEW x \in EntriesOf(script)
            PROVE  EntriesOf(ServerStatements("Postgres", x)) \subseteq {x}
        <5>1. Alike("Postgres", x)
          BY <3>2, <4>1
        <5>2. PICK texts : /\ texts = TextsIn(t, cuts) /\ guarded = Without(texts, {<<>>})
                           /\ texts \in Seq(Seq(Unit)) /\ Len(texts) = Len(cuts)
                           /\ \A n \in 1..Len(cuts) :
                                texts[n] = Trim(SubSeq(t, cuts[n].start + 1, cuts[n].end))
          BY <2>4, TextsInTyped DEF StatementsIn
        <5>3. x \in EntriesOf(Without(texts, {<<>>}))
          BY <2>6, <5>2
        <5>4. PICK n \in 1..Len(texts) : texts[n] = x /\ x # <<>>
          <6>1. x \in EntriesOf(texts) /\ x \notin {<<>>}
            BY <5>2, <5>3, EntriesLeft DEF EntriesOf
          <6>. QED
            BY <6>1 DEF EntriesOf
        <5>5. n \in 1..Len(cuts) /\ x = Trim(SubSeq(t, cuts[n].start + 1, cuts[n].end))
          BY <5>2, <5>4
        <5>6. PICK c, d : Between(x, t, cuts[n], c, d)
          BY <2>4, <5>4, <5>5, SegmentIsPiece
        <5>7. ServerStatements("Postgres", x) \in {<<>>, <<x>>}
          BY <2>4, <5>1, <5>5, <5>6, ServerOne
        <5>. QED
          BY <5>7 DEF EntriesOf
      <4>. QED
        BY <3>2, <4>1 DEF Received
    <3>. QED
      BY <2>1, <3>1, <3>2
  <2>8. ASSUME readOnly, NEW s \in Received
        PROVE  classify(s).kind # "Write"
    <3>1. PICK m \in 1..Len(guarded) : s = guarded[m]
      BY <2>6, <2>7 DEF EntriesOf
    <3>2. ~AnyWrite(guarded)
      BY <2>2, <2>8
    <3>. QED
      BY <3>1, <3>2 DEF AnyWrite, Infos
  <2>. QED
    BY <2>5, <2>7, <2>8
<1>. QED
  BY <1>1, CommandInit, CommandStep, PTL DEF Spec


-----------------------------------------------------------------------------
(* Words.                                                                  *)

\* Runs of words are where the words are.
LEMMA SameRuns ==
  ASSUME NEW u, NEW v, Len(u) = Len(v), Len(u) \in Nat,
         \A n \in 1..Len(u) : u[n] \in Words <=> v[n] \in Words
  PROVE  WordRuns(u) = WordRuns(v)
<1>1. PICK l : l = Len(u) /\ l = Len(v) /\ l \in Nat
  OBVIOUS
<1>2. \A n \in 1..l : u[n] \in Words <=> v[n] \in Words
  BY <1>1
<1>. DEFINE Run(w, r) == /\ r[1] <= r[2]
                         /\ \A n \in r[1]..r[2] : w[n] \in Words
                         /\ r[1] > 1 => w[r[1] - 1] \notin Words
                         /\ r[2] < l => w[r[2] + 1] \notin Words
<1>3. ASSUME NEW r \in (1..l) \X (1..l)
      PROVE  Run(u, r) <=> Run(v, r)
  <2>1. r[1] \in 1..l /\ r[2] \in 1..l
    OBVIOUS
  <2>2. \A n \in r[1]..r[2] : n \in 1..l
    BY <1>1, <2>1
  <2>3. (\A n \in r[1]..r[2] : u[n] \in Words) <=> (\A n \in r[1]..r[2] : v[n] \in Words)
    BY <1>2, <2>2
  <2>4. r[1] > 1 => r[1] - 1 \in 1..l
    BY <1>1, <2>1
  <2>5. r[2] < l => r[2] + 1 \in 1..l
    BY <1>1, <2>1
  <2>. QED
    BY <1>2, <2>3, <2>4, <2>5
<1>4. WordRuns(u) = {r \in (1..l) \X (1..l) : Run(u, r)}
  BY <1>1 DEF WordRuns
<1>5. WordRuns(v) = {r \in (1..l) \X (1..l) : Run(v, r)}
  BY <1>1 DEF WordRuns
<1>. HIDE DEF Run
<1>. QED
  BY <1>3, <1>4, <1>5

\* No mark is a word.
LEMMA MarksAreNoWords ==
  \A x \in Marks : x \notin Words
  BY WordsAssumption

\* A string that ends before its text does ends with a quote.
LEMMA QuoteEnds ==
  ASSUME NEW t \in Seq(Unit), NEW k \in 0..Len(t), QuoteEnd(t, k) < Len(t)
  PROVE  QuoteEnd(t, k) \in 1..Len(t) /\ t[QuoteEnd(t, k)] = "quote"
<1>1. PICK l : l \in Nat /\ l = Len(t)
  <2>1. Len(t) \in Nat
    OBVIOUS
  <2>. QED
    BY <2>1
<1>. DEFINE Good(e) == e < l => e \in 1..l /\ t[e] = "quote"
            P == {j \in 0..l : Good(QuoteEnd(t, j))}
<1>2. l \in P
  BY <1>1, QuoteEndSteps
<1>3. ASSUME NEW j \in 0..(l - 1), \A m \in (j + 1)..l : m \in P
      PROVE  j \in P
  <2>1. QuoteEnd(t, j) = IF t[j + 1] # "quote" THEN QuoteEnd(t, j + 1)
                         ELSE IF Looking(t, j, "quote", "quote") THEN QuoteEnd(t, j + 2)
                         ELSE j + 1
    BY <1>1, QuoteEndSteps
  <2>2. Good(QuoteEnd(t, j + 1))
    BY <1>1, <1>3
  <2>3. Looking(t, j, "quote", "quote") => Good(QuoteEnd(t, j + 2))
    BY <1>1, <1>3 DEF Looking
  <2>4. t[j + 1] = "quote" => Good(j + 1)
    BY <1>1
  <2>. HIDE DEF Good
  <2>. QED
    BY <1>1, <2>1, <2>2, <2>3, <2>4
<1>4. \A j \in 0..l : j \in P
  <2>. HIDE DEF P
  <2>. QED
    BY <1>1, <1>2, <1>3, InductionDownFrom
<1>5. Good(QuoteEnd(t, k))
  BY <1>1, <1>4
<1>. QED
  BY <1>1, <1>5

\* A dollar tag ends with a dollar.
LEMMA TagEnds ==
  ASSUME NEW t \in Seq(Unit), NEW k \in Nat, k < Len(t), DollarTag(t, k) # <<>>
  PROVE  t[k + Len(DollarTag(t, k))] = "dollar"
<1>1. PICK l : l \in Nat /\ l = Len(t)
  <2>1. Len(t) \in Nat
    OBVIOUS
  <2>. QED
    BY <2>1
<1>2. t[k + 1] = "dollar" /\ Closers(t, k) # {}
  BY TagAt
<1>3. PICK j \in Closers(t, k) : DollarTag(t, k) = SubSeq(t, k + 1, j + 1)
  BY <1>2, TagAt
<1>4. j \in (k + 1)..(l - 1) /\ t[j + 1] = "dollar"
  BY <1>1 DEF Closers
<1>5. Len(SubSeq(t, k + 1, j + 1)) = j + 1 - k
  <2>1. k + 1 \in 1..(j + 2) /\ j + 1 \in 0..Len(t)
    BY <1>1, <1>4
  <2>. QED
    BY <1>1, <1>4, <2>1, SubSeqFacts
<1>6. k + Len(DollarTag(t, k)) = j + 1
  BY <1>3, <1>4, <1>5
<1>. QED
  BY <1>4, <1>6

\* Where a literal ends before its text does, no word ends with it and begins
\* again.
LEMMA LiteralParts ==
  ASSUME NEW t \in Seq(Unit), NEW k \in 0..(Len(t) - 1), Opener(t, k) # "code",
         NEW e, e = StopAfter(t, k), e < Len(t)
  PROVE  e \in (k + 1)..(Len(t) - 1) /\ (t[e] \notin Words \/ t[e + 1] \notin Words)
<1>1. PICK l : l \in Nat /\ l = Len(t)
  <2>1. Len(t) \in Nat
    OBVIOUS
  <2>. QED
    BY <2>1
<1>2. e = LiteralEnd(t, k, 1) /\ e \in (k + 1)..(l - 1) /\ k \in Nat
  <2>1. e \in (k + 1)..l
    BY <1>1, StopAfterWithin
  <2>. QED
    BY <1>1, <2>1 DEF StopAfter
<1>3. "newline" \notin Words /\ "slash" \notin Words /\ "quote" \notin Words /\ "dollar" \notin Words
  BY MarksAreNoWords DEF Marks
<1>4. CASE Opener(t, k) = "line"
  <2>. DEFINE T == {j \in k..(l - 1) : t[j + 1] = "newline"}
  <2>1. e = Least(T, l)
    BY <1>1, <1>2, <1>4 DEF LiteralEnd, LineEnd
  <2>2. T \in SUBSET Nat
    BY <1>1
  <2>3. e \in T
    <3>. HIDE DEF T
    <3>. QED
      BY <1>1, <1>2, <2>1, <2>2, LeastFacts
  <2>. QED
    BY <1>1, <1>2, <1>3, <2>3
<1>5. CASE Opener(t, k) = "block"
  <2>. DEFINE U == {n \in (k + 1)..(l - 2) : Looking(t, n, "star", "slash")}
              T == {j + 2 : j \in U}
  <2>1. e = Least(T, l)
    BY <1>1, <1>2, <1>5 DEF LiteralEnd, BlockEnd
  <2>2. T \in SUBSET Nat
    BY <1>1
  <2>3. e \in T
    <3>. HIDE DEF T
    <3>. QED
      BY <1>1, <1>2, <2>1, <2>2, LeastFacts
  <2>4. PICK j \in U : e = j + 2
    BY <2>3
  <2>5. t[e] = "slash"
    BY <1>1, <2>4 DEF Looking
  <2>. QED
    BY <1>1, <1>2, <1>3, <2>5
<1>6. CASE Opener(t, k) = "single"
  <2>1. e = QuoteEnd(t, k + 1) /\ k + 1 \in 0..Len(t)
    BY <1>1, <1>2, <1>6 DEF LiteralEnd
  <2>2. t[e] = "quote"
    BY <1>1, <1>2, <2>1, QuoteEnds
  <2>. QED
    BY <1>1, <1>2, <1>3, <2>2
<1>7. CASE Opener(t, k) = "dollar"
  <2>1. PICK open : open = DollarTag(t, k)
    OBVIOUS
  <2>2. open # <<>> /\ Len(open) \in Nat
    <3>1. open # <<>>
      BY <1>7, <2>1 DEF Opener
    <3>. QED
      BY <1>1, <1>2, <2>1, <3>1, TagInText
  <2>. DEFINE U == {n \in (k + Len(open))..(l - 1) : DollarTag(t, n) = open}
              T == {j + Len(open) : j \in U}
  <2>3. e = Least(T, l)
    BY <1>1, <1>2, <1>7, <2>1 DEF LiteralEnd, DollarEnd
  <2>4. T \in SUBSET Nat
    BY <1>1, <1>2, <2>2
  <2>5. e \in T
    <3>. HIDE DEF T
    <3>. QED
      BY <1>1, <1>2, <2>3, <2>4, LeastFacts
  <2>6. PICK j \in U : e = j + Len(open)
    BY <2>5
  <2>7. j \in Nat /\ j < Len(t) /\ DollarTag(t, j) = open
    BY <1>1, <1>2, <2>2
  <2>8. t[e] = "dollar"
    BY <2>2, <2>6, <2>7, TagEnds
  <2>. QED
    BY <1>1, <1>2, <1>3, <2>8
<1>. QED
  BY <1>4, <1>5, <1>6, <1>7, OpenersAre

\* What the classifier reads of a text is its words at code stops.
LEMMA StrippedWords ==
  ASSUME NEW t \in Seq(Unit)
  PROVE  /\ Len(strippedUppercasedCode(t)) = Len(t) /\ Len(t) \in Nat
         /\ \A n \in 1..Len(t) :
              strippedUppercasedCode(t)[n] \in Words <=> n - 1 \in CodeStops(t) /\ t[n] \in Words
<1>1. PICK l : l = Len(t) /\ l \in Nat
  <2>1. Len(t) \in Nat
    OBVIOUS
  <2>. QED
    BY <2>1
<1>2. Outside(t, Literals(t, 1)) = CodeStops(t)
  BY OutsideIsCode
<1>3. PICK s : s = [n \in 1..l |-> IF n - 1 \in CodeStops(t) THEN t[n] ELSE "space"]
  OBVIOUS
<1>4. strippedUppercasedCode(t) = s
  BY <1>1, <1>2, <1>3 DEF strippedUppercasedCode
<1>5. \A n \in 1..l : s[n] = IF n - 1 \in CodeStops(t) THEN t[n] ELSE "space"
  BY <1>3
<1>6. Len(s) = l
  <2>1. s \in [1..l -> Unit]
    <3>1. \A n \in 1..l : t[n] \in Unit
      BY <1>1
    <3>. QED
      BY <1>3, <3>1 DEF Unit, Marks
  <2>2. s \in Seq(Unit)
    BY <1>1, <2>1
  <2>. QED
    BY <1>1, <1>3, <2>2, SeqFacts
<1>7. "space" \notin Words
  BY MarksAreNoWords DEF Marks
<1>. QED
  BY <1>1, <1>4, <1>5, <1>6, <1>7

\* So is what the splitter has read as code, once it has returned.
LEMMA AsReadWords ==
  ASSUME SplitInv, ReadInv, ~scanning, NEW a \in Nat, NEW b \in Nat, a <= b, b <= Len(sql)
  PROVE  /\ Len(AsRead(a, b)) = b - a
         /\ \A m \in 1..(b - a) :
              AsRead(a, b)[m] \in Words <=> a + m - 1 \in CodeStops(sql) /\ sql[a + m] \in Words
<1>1. PICK l : l = Len(sql) /\ l \in Nat
  <2>1. Len(sql) \in Nat
    BY DEF SplitInv, SplitTypeOK
  <2>. QED
    BY <2>1
<1>2. /\ i = l /\ \A k \in plain : k \in Stops(sql) /\ k < i /\ Opener(sql, k) = "code"
      /\ \A k \in Stops(sql) :
           k < i /\ Opener(sql, k) = "code" /\ sql[k + 1] # "newline" => k \in plain
  BY <1>1 DEF ReadInv, PlainInv
<1>3. \A k \in plain : k \in CodeStops(sql)
  BY <1>1, <1>2 DEF CodeStops
<1>4. \A k \in CodeStops(sql) : sql[k + 1] # "newline" => k \in plain
  BY <1>1, <1>2 DEF CodeStops
<1>5. "space" \notin Words /\ "newline" \notin Words
  BY MarksAreNoWords DEF Marks
<1>6. PICK s : s = [m \in 1..(b - a) |-> IF a + m - 1 \in plain THEN sql[a + m] ELSE "space"]
  OBVIOUS
<1>7. AsRead(a, b) = s
  BY <1>6 DEF AsRead
<1>8. \A m \in 1..(b - a) : s[m] = IF a + m - 1 \in plain THEN sql[a + m] ELSE "space"
  BY <1>6
<1>9. Len(s) = b - a
  <2>1. PICK d : d = b - a /\ d \in Nat
    OBVIOUS
  <2>2. \A m \in 1..d : sql[a + m] \in Unit
    <3>1. \A m \in 1..d : a + m \in 1..Len(sql)
      BY <1>1, <2>1
    <3>2. sql \in Seq(Unit)
      BY DEF SplitInv, SplitTypeOK
    <3>. QED
      BY <3>1, <3>2
  <2>3. s \in [1..d -> Unit]
    BY <1>6, <2>1, <2>2 DEF Unit, Marks
  <2>4. s \in Seq(Unit) /\ DOMAIN s = 1..d
    BY <2>1, <2>3
  <2>. QED
    BY <2>1, <2>4, SeqFacts
<1>10. ASSUME NEW m \in 1..(b - a)
       PROVE  s[m] \in Words <=> a + m - 1 \in CodeStops(sql) /\ sql[a + m] \in Words
  <2>1. PICK k : k = a + m - 1 /\ k + 1 = a + m
    OBVIOUS
  <2>2. s[m] = IF k \in plain THEN sql[k + 1] ELSE "space"
    BY <1>8, <2>1
  <2>3. s[m] \in Words <=> k \in CodeStops(sql) /\ sql[k + 1] \in Words
    BY <1>3, <1>4, <1>5, <2>2
  <2>. QED
    BY <2>1, <2>3
<1>. QED
  BY <1>7, <1>9, <1>10

\* Words that touch are read alike.
LEMMA WordsTouch ==
  ASSUME NEW t \in Seq(Unit), NEW k \in CodeStops(t), t[k + 1] \in Words
  PROVE  /\ k \in 0..(Len(t) - 1)
         /\ k > 0 /\ t[k] \in Words => k - 1 \in CodeStops(t)
         /\ k + 1 < Len(t) /\ t[k + 2] \in Words => k + 1 \in CodeStops(t)
<1>1. PICK l : l = Len(t) /\ l \in Nat
  <2>1. Len(t) \in Nat
    OBVIOUS
  <2>. QED
    BY <2>1
<1>2. Stops(t) \subseteq 0..l /\ \A j \in Stops(t) : j < l => StopAfter(t, j) \in Stops(t)
  BY <1>1, StopsHold DEF HoldsStops
<1>3. k \in 0..(l - 1) /\ k \in Stops(t) /\ Opener(t, k) = "code" /\ k < Len(t)
  BY <1>1, <1>2 DEF CodeStops
<1>4. ASSUME k > 0, t[k] \in Words
      PROVE  k - 1 \in CodeStops(t)
  <2>1. PICK j \in Stops(t) : j < k /\ j < Len(t) /\ k = StopAfter(t, j)
    BY <1>3, <1>4, StopBefore
  <2>2. j \in 0..(Len(t) - 1)
    BY <1>1, <1>2, <2>1
  <2>3. Opener(t, j) = "code"
    <3>1. ASSUME Opener(t, j) # "code"
          PROVE  FALSE
      <4>1. t[k] \notin Words \/ t[k + 1] \notin Words
        BY <1>3, <2>1, <2>2, <3>1, LiteralParts
      <4>. QED
        BY <1>4, <4>1
    <3>. QED
      BY <3>1
  <2>4. k = j + 1
    BY <2>1, <2>3 DEF StopAfter
  <2>5. j \in CodeStops(t)
    BY <2>1, <2>3 DEF CodeStops
  <2>6. k - 1 = j
    BY <2>2, <2>4
  <2>. QED
    BY <2>5, <2>6
<1>5. ASSUME k + 1 < Len(t), t[k + 2] \in Words
      PROVE  k + 1 \in CodeStops(t)
  <2>1. PICK j : j = k + 1 /\ j + 1 = k + 2 /\ j < Len(t)
    BY <1>3, <1>5
  <2>2. j \in Stops(t)
    <3>1. StopAfter(t, k) = j
      BY <1>3, <2>1 DEF StopAfter
    <3>. QED
      BY <1>1, <1>2, <1>3, <3>1
  <2>3. Opener(t, j) = "code"
    <3>1. t[j + 1] \in Words
      BY <1>5, <2>1
    <3>2. t[j + 1] \notin {"dash", "slash", "quote", "dollar"}
      BY <3>1, MarksAreNoWords DEF Marks
    <3>. QED
      BY <3>2, Openers
  <2>. QED
    BY <2>1, <2>2, <2>3 DEF CodeStops
<1>. QED
  BY <1>1, <1>3, <1>4, <1>5

\* The words of one unit.
LoneAt(u, n) ==
  /\ u[n] \in Words
  /\ n > 1 => u[n - 1] \notin Words
  /\ n < Len(u) => u[n + 1] \notin Words

LEMMA LoneRuns ==
  ASSUME NEW u, Len(u) \in Nat
  PROVE  \A r : r \in WordRuns(u) /\ r[1] = r[2]
                  <=> r \in (1..Len(u)) \X (1..Len(u)) /\ r[1] = r[2] /\ LoneAt(u, r[1])
<1>1. PICK l : l = Len(u) /\ l \in Nat
  OBVIOUS
<1>2. ASSUME NEW r \in (1..l) \X (1..l), r[1] = r[2]
      PROVE  r \in WordRuns(u) <=> LoneAt(u, r[1])
  <2>1. PICK n : n = r[1] /\ n = r[2] /\ n \in 1..l
    <3>1. r[1] \in 1..l
      OBVIOUS
    <3>. QED
      BY <1>2, <3>1
  <2>2. (\A m \in n..n : u[m] \in Words) <=> u[n] \in Words
    <3>1. \A m \in n..n : m = n
      BY <1>1, <2>1
    <3>2. n \in n..n
      BY <1>1, <2>1
    <3>. QED
      BY <3>1, <3>2
  <2>3. n <= n
    BY <1>1, <2>1
  <2>4. r \in WordRuns(u) <=>
          /\ n <= n
          /\ \A m \in n..n : u[m] \in Words
          /\ n > 1 => u[n - 1] \notin Words
          /\ n < l => u[n + 1] \notin Words
    BY <1>1, <1>2, <2>1 DEF WordRuns
  <2>. QED
    BY <1>1, <2>1, <2>2, <2>3, <2>4 DEF LoneAt
<1>3. \A r : r \in WordRuns(u) => r \in (1..l) \X (1..l)
  BY <1>1 DEF WordRuns
<1>. QED
  BY <1>1, <1>2, <1>3

\* The editor colours the keywords among the words at code stops.
LEMMA KeywordsAre ==
  ASSUME NEW t \in Seq(Unit), ~Overlapping(t), NEW v, Len(v) = Len(t),
         \A n \in 1..Len(t) : v[n] \in Words <=> n - 1 \in CodeStops(t) /\ t[n] \in Words
  PROVE  KeywordSpans(t) = {r \in WordRuns(v) : r[1] = r[2] /\ t[r[1]] \in Keywords}
<1>1. PICK l : l = Len(t) /\ l = Len(v) /\ l \in Nat
  <2>1. Len(t) \in Nat
    OBVIOUS
  <2>. QED
    BY <2>1
<1>2. \A k \in 0..(l - 1) :
        (\A x \in Literals(t, 2) : k < x.location \/ k >= x.end) <=> k \in CodeStops(t)
  <2>1. \A k \in 0..(Len(t) - 1) : LiteralEnd(t, k, 2) = LiteralEnd(t, k, 1)
    BY SkipAgrees
  <2>. QED
    BY <1>1, <2>1, OutsideIsCode
<1>3. ASSUME NEW n \in 1..l
      PROVE  (\A x \in Literals(t, 2) : n - 1 >= x.end \/ x.location >= n)
               <=> n - 1 \in CodeStops(t)
  <2>1. \A x \in Literals(t, 2) : x.location \in Int
    <3>1. \A k \in 0..(Len(t) - 1) : LiteralEnd(t, k, 2) = LiteralEnd(t, k, 1)
      BY SkipAgrees
    <3>2. Literals(t, 2) = {LiteralOf(t, m, StopAfter(t, m)) : m \in LiteralStops(t)}
      BY <3>1, LiteralsAre
    <3>3. \A m \in LiteralStops(t) : m \in Int
      BY <1>1, StopsHold DEF LiteralStops
    <3>4. \A m : LiteralOf(t, m, StopAfter(t, m)).location = m
      BY DEF LiteralOf
    <3>. QED
      BY <3>2, <3>3, <3>4
  <2>2. \A x \in Literals(t, 2) : x.location >= n <=> n - 1 < x.location
    BY <1>1, <2>1
  <2>3. n - 1 \in 0..(l - 1)
    BY <1>1
  <2>. QED
    BY <1>2, <2>2, <2>3
<1>4. ASSUME NEW n \in 1..l
      PROVE  LoneAt(t, n) /\ n - 1 \in CodeStops(t) <=> LoneAt(v, n)
  <2>1. PICK k : k = n - 1 /\ n = k + 1 /\ k \in 0..(l - 1)
    BY <1>1
  <2>2. /\ v[n] \in Words <=> k \in CodeStops(t) /\ t[n] \in Words
        /\ n > 1 => (v[n - 1] \in Words <=> k - 1 \in CodeStops(t) /\ t[n - 1] \in Words)
        /\ n < l => (v[n + 1] \in Words <=> k + 1 \in CodeStops(t) /\ t[n + 1] \in Words)
    <3>1. n \in 1..Len(t) /\ (n > 1 => n - 1 \in 1..Len(t) /\ n - 1 - 1 = k - 1)
          /\ (n < l => n + 1 \in 1..Len(t) /\ n + 1 - 1 = k + 1)
      BY <1>1, <2>1
    <3>. QED
      BY <2>1, <3>1
  <2>3. k \in CodeStops(t) /\ t[n] \in Words =>
          /\ n > 1 /\ t[n - 1] \in Words => k - 1 \in CodeStops(t)
          /\ n < l /\ t[n + 1] \in Words => k + 1 \in CodeStops(t)
    <3>1. ASSUME k \in CodeStops(t), t[n] \in Words
          PROVE  /\ k > 0 /\ t[k] \in Words => k - 1 \in CodeStops(t)
                 /\ k + 1 < Len(t) /\ t[k + 2] \in Words => k + 1 \in CodeStops(t)
      BY <2>1, <3>1, WordsTouch
    <3>2. n - 1 = k /\ n + 1 = k + 2 /\ (n > 1 <=> k > 0) /\ (n < l <=> k + 1 < Len(t))
      BY <1>1, <2>1
    <3>. QED
      BY <3>1, <3>2
  <2>4. LoneAt(t, n) <=> /\ t[n] \in Words
                         /\ n > 1 => t[n - 1] \notin Words
                         /\ n < l => t[n + 1] \notin Words
    BY <1>1 DEF LoneAt
  <2>5. LoneAt(v, n) <=> /\ v[n] \in Words
                         /\ n > 1 => v[n - 1] \notin Words
                         /\ n < l => v[n + 1] \notin Words
    BY <1>1 DEF LoneAt
  <2>. QED
    BY <2>1, <2>2, <2>3, <2>4, <2>5
<1>5. \A r : r \in KeywordSpans(t) <=>
               /\ r \in WordRuns(t) /\ r[1] = r[2] /\ t[r[1]] \in Keywords
               /\ \A x \in Literals(t, 2) : r[1] - 1 >= x.end \/ x.location >= r[2]
  BY DEF KeywordSpans, literalAndCommentRanges
<1>6. ASSUME NEW r, r[1] = r[2]
      PROVE  r \in KeywordSpans(t) <=> r \in WordRuns(v) /\ t[r[1]] \in Keywords
  <2>1. r \in WordRuns(t) <=> r \in (1..l) \X (1..l) /\ LoneAt(t, r[1])
    BY <1>1, <1>6, LoneRuns
  <2>2. r \in WordRuns(v) <=> r \in (1..l) \X (1..l) /\ LoneAt(v, r[1])
    BY <1>1, <1>6, LoneRuns
  <2>3. CASE r \in (1..l) \X (1..l)
    <3>1. PICK n : n = r[1] /\ n = r[2] /\ n \in 1..l
      <4>1. r[1] \in 1..l
        BY <2>3
      <4>. QED
        BY <1>6, <4>1
    <3>2. (\A x \in Literals(t, 2) : r[1] - 1 >= x.end \/ x.location >= r[2])
            <=> n - 1 \in CodeStops(t)
      BY <1>3, <3>1
    <3>3. LoneAt(t, r[1]) /\ n - 1 \in CodeStops(t) <=> LoneAt(v, r[1])
      BY <1>4, <3>1
    <3>. QED
      BY <1>5, <1>6, <2>1, <2>2, <2>3, <3>2, <3>3, Zenon
  <2>4. CASE r \notin (1..l) \X (1..l)
    BY <1>5, <2>1, <2>2, <2>4
  <2>. QED
    BY <2>3, <2>4
<1>7. \A r : r \in KeywordSpans(t) <=> r \in WordRuns(v) /\ r[1] = r[2] /\ t[r[1]] \in Keywords
  BY <1>5, <1>6, Zenon
<1>. QED
  <2>1. KeywordSpans(t) \subseteq WordRuns(v)
    BY <1>7
  <2>. QED
    BY <1>7, <2>1, Zenon

\* A segment alone is a piece of its text.
LEMMA SegmentAlone ==
  ASSUME NEW t \in Seq(Unit), NEW s, IsSplit(t, s), NEW n \in 1..Len(s), NEW a, NEW b,
         a = s[n].start, b = s[n].end
  PROVE  IsPiece(SubSeq(t, a + 1, b), t, a, b) /\ a \in Stops(t)
<1>1. PICK l : l = Len(t) /\ l \in Nat
  <2>1. Len(t) \in Nat
    OBVIOUS
  <2>. QED
    BY <2>1
<1>2. /\ a \in Stops(t) /\ a \in Nat /\ b \in Nat
      /\ b < l => a < b /\ b - 1 \in Semis(t)
  BY <1>1, SegmentsAtStops
<1>3. a <= b /\ b <= l
  BY <1>1 DEF IsSplit
<1>4. /\ SubSeq(t, a + 1, b) \in Seq(Unit) /\ Len(SubSeq(t, a + 1, b)) = b - a
      /\ \A m \in 1..(b - a) : SubSeq(t, a + 1, b)[m] = t[a + m]
  <2>1. PICK u, f : u = SubSeq(t, f, b) /\ f = a + 1
    OBVIOUS
  <2>2. f \in Nat /\ f \in 1..(b + 1) /\ b + 1 - f = b - a
    <3>1. a + 1 \in Nat /\ a + 1 \in 1..(b + 1) /\ b + 1 - (a + 1) = b - a
      BY <1>2, <1>3
    <3>. QED
      BY <2>1, <3>1
  <2>3. b \in 0..Len(t)
    BY <1>1, <1>2, <1>3
  <2>4. /\ u \in Seq(Unit) /\ Len(u) = b + 1 - f
        /\ \A m \in 1..(b + 1 - f) : u[m] = t[f + m - 1]
    <3>1. /\ SubSeq(t, f, b) \in Seq(Unit) /\ Len(SubSeq(t, f, b)) = b + 1 - f
          /\ \A m \in 1..(b + 1 - f) : SubSeq(t, f, b)[m] = t[f + m - 1]
      <4>. HIDE <2>1
      <4>. QED
        BY <2>2, <2>3, SubSeqFacts
    <3>. QED
      BY <2>1, <3>1
  <2>5. \A m \in 1..(b - a) : f + m - 1 = a + m
    BY <1>2, <2>1
  <2>6. u \in Seq(Unit) /\ Len(u) = b - a
    BY <2>2, <2>4
  <2>7. \A m \in 1..(b - a) : u[m] = t[a + m]
    BY <2>2, <2>4, <2>5
  <2>8. SubSeq(t, a + 1, b) = u
    BY <2>1
  <2>. HIDE <2>1
  <2>. QED
    BY <2>6, <2>7, <2>8
<1>5. \A k \in 0..(b - a - 1) : SubSeq(t, a + 1, b)[k + 1] = t[a + k + 1]
  <2>1. ASSUME NEW k \in 0..(b - a - 1)
        PROVE  k + 1 \in 1..(b - a) /\ a + (k + 1) = a + k + 1
    <3>1. a \in Int /\ b \in Int
      BY <1>2
    <3>. QED
      BY <3>1
  <2>. QED
    BY <1>4, <2>1
<1>6. b < l => t[b] = "semi"
  <2>1. b < l => b - 1 + 1 = b
    BY <1>2
  <2>. QED
    BY <1>2, <2>1 DEF Semis
<1>. QED
  BY <1>1, <1>2, <1>3, <1>4, <1>5, <1>6 DEF IsPiece

\* Of a statement by itself the classifier reads what the splitter has read as
\* code in its text, and the editor colours as keywords what the classifier reads.
\* So all lexers of a text agree, in every call of a command.
LEMMA ScriptRunAgrees == ScriptRunInv => LexersAgree
<1>. SUFFICES ASSUME ScriptRunInv, ~scanning, segs # <<>>
              PROVE  /\ \A n \in 1..Len(segs) :
                          WordRuns(strippedUppercasedCode(Source(segs[n])))
                            = WordRuns(AsRead(segs[n].start, segs[n].end))
                     /\ ~Overlapping(sql) =>
                          KeywordSpans(sql) =
                            {r \in WordRuns(AsRead(0, Len(sql))) :
                               r[1] = r[2] /\ sql[r[1]] \in Keywords}
  BY DEF LexersAgree
<1>1. SplitInv /\ ReadInv
  BY DEF ScriptRunInv, TypeInv, SplitTyped
<1>2. sql \in Seq(Unit) /\ IsSplit(sql, segs)
  BY <1>1, LoopSplits DEF SplitInv, SplitTypeOK
<1>3. PICK l : l = Len(sql) /\ l \in Nat
  <2>1. Len(sql) \in Nat
    BY <1>2
  <2>. QED
    BY <2>1
<1>4. ASSUME NEW n \in 1..Len(segs)
      PROVE  WordRuns(strippedUppercasedCode(Source(segs[n])))
               = WordRuns(AsRead(segs[n].start, segs[n].end))
  <2>1. PICK a, b : a = segs[n].start /\ b = segs[n].end
    OBVIOUS
  <2>2. PICK p : p = SubSeq(sql, a + 1, b)
    OBVIOUS
  <2>3. IsPiece(p, sql, a, b) /\ a \in Stops(sql)
    BY <1>2, <2>1, <2>2, SegmentAlone
  <2>4. Source(segs[n]) = p
    BY <2>1, <2>2 DEF Source
  <2>5. /\ a \in Nat /\ b \in Nat /\ a <= b /\ b <= Len(sql) /\ p \in Seq(Unit) /\ Len(p) = b - a
        /\ \A k \in 0..(b - a - 1) : p[k + 1] = sql[a + k + 1]
    BY <2>3 DEF IsPiece
  <2>6. PICK c : c = b - a /\ c \in Nat
    BY <2>5
  <2>7. PICK u, v : u = strippedUppercasedCode(p) /\ v = AsRead(a, b)
    OBVIOUS
  <2>8. /\ Len(u) = c
        /\ \A m \in 1..c : u[m] \in Words <=> m - 1 \in CodeStops(p) /\ p[m] \in Words
    BY <2>5, <2>6, <2>7, StrippedWords
  <2>9. /\ Len(v) = c
        /\ \A m \in 1..c : v[m] \in Words <=> a + m - 1 \in CodeStops(sql) /\ sql[a + m] \in Words
    BY <1>1, <2>5, <2>6, <2>7, AsReadWords
  <2>10. ASSUME NEW m \in 1..c
         PROVE  u[m] \in Words <=> v[m] \in Words
    <3>1. PICK k : k = m - 1 /\ m = k + 1 /\ k \in 0..(b - a - 1) /\ a + m - 1 = a + k
                   /\ a + m = a + k + 1
      BY <2>5, <2>6
    <3>2. p[m] = sql[a + m]
      BY <2>5, <3>1
    <3>3. k \in Stops(p) <=> a + k \in Stops(sql)
      BY <2>3, <3>1, PieceStops
    <3>4. Opener(p, k) = Opener(sql, a + k)
      BY <2>3, <3>1, PieceOpener
    <3>5. k < Len(p) /\ a + k < Len(sql)
      BY <2>5, <3>1
    <3>6. k \in CodeStops(p) <=> a + k \in CodeStops(sql)
      BY <3>3, <3>4, <3>5 DEF CodeStops
    <3>7. u[m] \in Words <=> k \in CodeStops(p) /\ p[m] \in Words
      BY <2>8, <3>1
    <3>8. v[m] \in Words <=> a + k \in CodeStops(sql) /\ sql[a + m] \in Words
      BY <2>9, <3>1
    <3>. QED
      BY <3>2, <3>6, <3>7, <3>8
  <2>11. WordRuns(u) = WordRuns(v)
    BY <2>6, <2>8, <2>9, <2>10, SameRuns
  <2>. QED
    BY <2>1, <2>4, <2>7, <2>11
<1>5. ASSUME ~Overlapping(sql)
      PROVE  KeywordSpans(sql) = {r \in WordRuns(AsRead(0, Len(sql))) :
                                    r[1] = r[2] /\ sql[r[1]] \in Keywords}
  <2>1. PICK v : v = AsRead(0, l)
    OBVIOUS
  <2>2. /\ Len(v) = l - 0
        /\ \A m \in 1..(l - 0) : v[m] \in Words <=> 0 + m - 1 \in CodeStops(sql) /\ sql[0 + m] \in Words
    <3>1. 0 \in Nat /\ 0 <= l /\ l <= Len(sql)
      BY <1>3
    <3>2. /\ Len(AsRead(0, l)) = l - 0
          /\ \A m \in 1..(l - 0) :
               AsRead(0, l)[m] \in Words <=> 0 + m - 1 \in CodeStops(sql) /\ sql[0 + m] \in Words
      <4>. HIDE <2>1
      <4>. QED
        BY <1>1, <1>3, <3>1, AsReadWords
    <3>. QED
      BY <2>1, <3>2
  <2>3. Len(v) = Len(sql)
    BY <1>3, <2>2
  <2>4. \A m \in 1..Len(sql) : v[m] \in Words <=> m - 1 \in CodeStops(sql) /\ sql[m] \in Words
    <3>1. \A m \in 1..l : m \in 1..(l - 0) /\ 0 + m - 1 = m - 1 /\ 0 + m = m
      BY <1>3
    <3>2. ASSUME NEW m \in 1..l
          PROVE  v[m] \in Words <=> m - 1 \in CodeStops(sql) /\ sql[m] \in Words
      <4>1. m \in 1..(l - 0) /\ 0 + m - 1 = m - 1 /\ 0 + m = m
        BY <3>1
      <4>2. v[m] \in Words <=> 0 + m - 1 \in CodeStops(sql) /\ sql[0 + m] \in Words
        BY <2>2, <4>1
      <4>. QED
        BY <4>1, <4>2
    <3>. QED
      BY <1>3, <3>2
  <2>5. KeywordSpans(sql) = {r \in WordRuns(v) : r[1] = r[2] /\ sql[r[1]] \in Keywords}
    BY <1>2, <1>5, <2>3, <2>4, KeywordsAre
  <2>. QED
    BY <1>3, <2>1, <2>5
<1>. QED
  BY <1>4, <1>5

\* The splitter, the classifier and the editor's scanner agree on what is code, in
\* every text that a command splits.
THEOREM ScriptLexersAgree == Spec => []LexersAgree
<1>. QED
  BY CommandInit, CommandStep, ScriptRunAgrees, PTL DEF Spec
=============================================================================
