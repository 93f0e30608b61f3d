---------------------------- MODULE SqlSplitter ----------------------------
(***************************************************************************)
(* src/core/SqlStatementSplitter.cpp: segments() reads a text once, one    *)
(* turn of its loop an action, and emits a segment at every semicolon that *)
(* is in no string, comment or dollar quote, and one for what is left.     *)
(* The loop's four flags exclude each other and are the value of mode; the *)
(* text of a segment is the source between its offsets, trimmed.           *)
(***************************************************************************)
EXTENDS SqlText, Lists

VARIABLES
  sql,            \* the text being split
  i,              \* the next offset to read
  mode,           \* inLineComment, inBlockComment, inDollarQuote, inSingleQuote
  dollarTag,      \* the tag that closes the dollar quote
  segmentStart,   \* where the segment being read begins
  segs,           \* the segments emitted: their start and end offsets
  scanning,       \* segments() has not returned
  plain           \* history: the offsets read outside every literal

splitVars == <<sql, i, mode, dollarTag, segmentStart, segs, scanning, plain>>

Modes == {"code", "line", "block", "dollar", "single"}
Segment == [start : Nat, end : Nat]

Source(s) == SubSeq(sql, s.start + 1, s.end)
SegmentText(s) == Trim(Source(s))

\* What split returns: the texts of the segments that are not blank.
Statements == Without([n \in 1..Len(segs) |-> SegmentText(segs[n])], {<<>>})

-----------------------------------------------------------------------------
\* segments(t) is called.
Call(t) ==
  /\ sql' = t
  /\ i' = 0
  /\ mode' = "code"
  /\ dollarTag' = <<>>
  /\ segmentStart' = 0
  /\ segs' = <<>>
  /\ scanning' = TRUE
  /\ plain' = {}

More == scanning /\ i < Len(sql)
Tag == DollarTag(sql, i)

\* n units are read and the next turn begins in mode m.
Read(n, m) ==
  /\ i' = i + n
  /\ mode' = m
  /\ UNCHANGED <<sql, segmentStart, segs, scanning>>

LineCommentOpens ==
  /\ More
  /\ mode \in {"code", "line"}
  /\ Looking(sql, i, "dash", "dash")
  /\ Read(1, "line")
  /\ UNCHANGED <<dollarTag, plain>>

InLineComment ==
  /\ More
  /\ mode = "line"
  /\ ~Looking(sql, i, "dash", "dash")
  /\ Read(1, IF sql[i + 1] = "newline" THEN "code" ELSE "line")
  /\ UNCHANGED <<dollarTag, plain>>

\* Only the slash is read: the star after it may already be the closer's.
BlockCommentOpens ==
  /\ More
  /\ mode = "code"
  /\ Looking(sql, i, "slash", "star")
  /\ Read(1, "block")
  /\ UNCHANGED <<dollarTag, plain>>

\* Mutant of InBlockComment: a unit too many is read with the closer.
InBlockCommentSkips ==
  /\ More
  /\ mode = "block"
  /\ IF Looking(sql, i, "star", "slash") THEN Read(3, "code") ELSE Read(1, "block")
  /\ UNCHANGED <<dollarTag, plain>>

InBlockComment ==
  /\ More
  /\ mode = "block"
  /\ IF Looking(sql, i, "star", "slash") THEN Read(2, "code") ELSE Read(1, "block")
  /\ UNCHANGED <<dollarTag, plain>>

DollarQuoteOpens ==
  /\ More
  /\ mode = "code"
  /\ Tag # <<>>
  /\ Read(Len(Tag), "dollar")
  /\ dollarTag' = Tag
  /\ UNCHANGED plain

\* Mutant of DollarQuoteCloses: any tag closes.
DollarQuoteClosesAny ==
  /\ More
  /\ mode = "dollar"
  /\ Tag # <<>>
  /\ Read(Len(Tag), "code")
  /\ dollarTag' = <<>>
  /\ UNCHANGED plain

DollarQuoteCloses ==
  /\ More
  /\ mode = "dollar"
  /\ Tag # <<>> /\ Tag = dollarTag
  /\ Read(Len(Tag), "code")
  /\ dollarTag' = <<>>
  /\ UNCHANGED plain

InDollarQuote ==
  /\ More
  /\ mode = "dollar"
  /\ Tag = <<>> \/ Tag # dollarTag
  /\ Read(1, "dollar")
  /\ UNCHANGED <<dollarTag, plain>>

SingleQuote ==
  /\ More
  /\ mode \in {"code", "single"}
  /\ sql[i + 1] = "quote"
  /\ IF mode = "code" THEN Read(1, "single")
     ELSE IF Looking(sql, i, "quote", "quote") THEN Read(2, "single")
     ELSE Read(1, "code")
  /\ UNCHANGED <<dollarTag, plain>>

InSingleQuote ==
  /\ More
  /\ mode = "single"
  /\ sql[i + 1] # "quote"
  /\ Read(1, "single")
  /\ UNCHANGED <<dollarTag, plain>>

\* Code in which nothing opens.
AtCode ==
  /\ More
  /\ mode = "code"
  /\ Opener(sql, i) = "code"

\* Mutant of Emit: the next segment begins where this one did.
EmitForgets(end) ==
  /\ segs' = Append(segs, [start |-> segmentStart, end |-> end])
  /\ UNCHANGED segmentStart

\* emit(end)
Emit(end) ==
  /\ segs' = Append(segs, [start |-> segmentStart, end |-> end])
  /\ segmentStart' = end

Semicolon ==
  /\ AtCode
  /\ sql[i + 1] = "semi"
  /\ Emit(i + 1)
  /\ i' = i + 1
  /\ plain' = plain \cup {i}
  /\ UNCHANGED <<sql, mode, dollarTag, scanning>>

OtherUnit ==
  /\ AtCode
  /\ sql[i + 1] # "semi"
  /\ Read(1, "code")
  /\ plain' = plain \cup {i}
  /\ UNCHANGED dollarTag

\* The trailing run is emitted, blank or not, and segments() returns.
TrailingRun ==
  /\ scanning
  /\ i >= Len(sql)
  /\ Emit(Len(sql))
  /\ scanning' = FALSE
  /\ UNCHANGED <<sql, i, mode, dollarTag, plain>>

Split ==
  \/ LineCommentOpens \/ InLineComment
  \/ BlockCommentOpens \/ InBlockComment
  \/ DollarQuoteOpens \/ DollarQuoteCloses \/ InDollarQuote
  \/ SingleQuote \/ InSingleQuote
  \/ Semicolon \/ OtherUnit \/ TrailingRun

\* The range of the statement the editor's cursor is in: the segment that
\* strictly contains it, else the last one that touches it, else the last.
HitSegment(cursor) ==
  LET holding == {n \in 1..Len(segs) :
                    segs[n].start <= cursor /\ cursor < segs[n].end}
      touching == {n \in 1..Len(segs) :
                     segs[n].start <= cursor /\ cursor <= segs[n].end}
  IN  CASE holding # {} -> segs[Least(holding, 0)]
        [] holding = {} /\ touching # {} ->
             segs[CHOOSE n \in touching : \A o \in touching : o <= n]
        [] OTHER -> segs[Len(segs)]

\* Mutant of statementAtOffset: the statement and all that follows it.
StatementToEnd(cursor) ==
  IF segs = <<>> THEN <<>>
  ELSE Trim(SubSeq(sql, HitSegment(cursor).start + 1, Len(sql)))

\* statementAtOffset: the empty sequence stands for nullopt.
statementAtOffset(cursor) ==
  IF segs = <<>> THEN <<>> ELSE SegmentText(HitSegment(cursor))

-----------------------------------------------------------------------------
\* One call on its own: any text, from the start.
SplitInit ==
  /\ sql \in Seq(Unit)
  /\ i = 0
  /\ mode = "code"
  /\ dollarTag = <<>>
  /\ segmentStart = 0
  /\ segs = <<>>
  /\ scanning = TRUE
  /\ plain = {}

SplitSpec == SplitInit /\ [][Split]_splitVars

Tiled ==
  /\ \A n \in 1..Len(segs) :
       /\ segs[n].start <= segs[n].end
       /\ segs[n].start = IF n = 1 THEN 0 ELSE segs[n - 1].end
  /\ segmentStart = IF segs = <<>> THEN 0 ELSE segs[Len(segs)].end

\* The ends of the segments emitted for a semicolon: all but the trailing run's.
Cuts == {segs[n].end : n \in 1..(IF scanning THEN Len(segs) ELSE Len(segs) - 1)}

\* The segments of every split lie end to end from the start of the text, and
\* reach its end when the split returns; they are cut after the semicolons read
\* as code, all of them and no others.  So no stretch of a text is lost between
\* two statements or belongs to two, none is cut inside a string, comment or
\* dollar quote, and none holds a second statement.
Partition ==
  /\ Tiled
  /\ Cuts = {k + 1 : k \in {o \in plain : sql[o + 1] = "semi"}}
  /\ segs # <<>> /\ ~scanning => segmentStart = Len(sql)
=============================================================================
