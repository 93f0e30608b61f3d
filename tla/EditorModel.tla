----------------------------- MODULE EditorModel -----------------------------
(***************************************************************************)
(* src/editor/EditorModel.cpp: the text, the selection and the undo and    *)
(* redo stacks of the SQL editor, under the input SqlEditorControl feeds   *)
(* it: typed UTF-16 units, pastes, mouse and keyboard movements.           *)
(*                                                                         *)
(* A UTF-16 unit is known by what the code asks of it.  Offsets count      *)
(* units from 0, as in the code: the unit at offset i is text[i + 1].      *)
(***************************************************************************)
EXTENDS Integers, Sequences

CONSTANTS
  MaxUndo,    \* kMaxUndo
  Pasted,     \* what the clipboard and WM_SETTEXT can bring: strings
  Typed,      \* the units WM_CHAR can bring
  MaxText,    \* bound: the length of the text
  MaxOps      \* bound: edits and movements since the text was set

\* A letter or digit, another character, a blank, a line feed, a carriage
\* return, and the two halves of a surrogate pair.
Unit == {"w", "p", "s", "n", "r", "H", "L"}
White(c) == c \in {"s", "n", "r"}
WordChar(c) == c = "w"

\* Halves of surrogate pairs come in pairs.
WellFormed(t) ==
  /\ \A i \in 1..Len(t) : t[i] = "H" => i < Len(t) /\ t[i + 1] = "L"
  /\ \A i \in 1..Len(t) : t[i] = "L" => i > 1 /\ t[i - 1] = "H"

ASSUME EditorAssumption ==
  /\ MaxUndo \in Nat \ {0}
  /\ Pasted \subseteq Seq(Unit)
  /\ \A s \in Pasted : WellFormed(s)
  /\ Typed \subseteq Unit
  /\ MaxText \in Nat
  /\ MaxOps \in Nat

VARIABLES
  text,          \* text_
  sel,           \* sel_
  undo, redo,    \* undo_ and redo_, the latest snapshot last
  typingRun,     \* typingRun_
  pendingHigh,   \* the control holds the first half of a typed pair
  ops            \* how many edits and movements since the text was set

vars == <<text, sel, undo, redo, typingRun, pendingHigh, ops>>

Selection == [anchor : Nat, caret : Nat]
Snapshot == [text : Seq(Unit), sel : Selection]

-----------------------------------------------------------------------------
(* Selections and offsets.                                                 *)

SelAt(a, c) == [anchor |-> a, caret |-> c]
Bare(off) == SelAt(off, off)
Empty(s) == s.anchor = s.caret
Lo(s) == IF s.anchor < s.caret THEN s.anchor ELSE s.caret
Hi(s) == IF s.anchor < s.caret THEN s.caret ELSE s.anchor

Offsets(t) == 0..Len(t)
First(S) == CHOOSE i \in S : \A j \in S : i <= j
Final(S) == CHOOSE i \in S : \A j \in S : j <= i

Clamp(t, off) == IF off > Len(t) THEN Len(t) ELSE off

\* The offset lies between the halves of a surrogate pair.
Splits(t, off) ==
  off > 0 /\ off < Len(t) /\ t[off] = "H" /\ t[off + 1] = "L"

\* Mutant of Snap: the offset is only clamped.
SnapOnlyClamps(t, off) == Clamp(t, off)

Snap(t, off) ==
  LET c == Clamp(t, off) IN IF Splits(t, c) THEN c - 1 ELSE c

\* stepCodepoint, to the right and to the left.
StepRight(t, off) ==
  IF off >= Len(t) THEN Len(t)
  ELSE IF Splits(t, off + 1) THEN off + 2 ELSE off + 1

\* Mutant of StepLeft: one unit back, wherever it is.
StepLeftUnit(t, off) == off - 1

StepLeft(t, off) ==
  IF off = 0 THEN 0
  ELSE IF Splits(t, off - 1) THEN off - 2 ELSE off - 1

LineStart(t, off) == Final({i \in 0..off : i = 0 \/ t[i] = "n"})
LineEnd(t, off) == First({i \in off..Len(t) : i = Len(t) \/ t[i + 1] = "n"})

\* The units from offset a to offset b are one run: no blank among them, and
\* all word characters or none.
OneRun(t, a, b) ==
  /\ \A i \in (a + 1)..b : ~White(t[i])
  /\ \A i, j \in (a + 1)..b : WordChar(t[i]) = WordChar(t[j])

\* To the left over blanks, then over a run.
WordLeft(t, off) ==
  LET i == First({j \in 0..off : \A k \in (j + 1)..off : White(t[k])})
  IN First({j \in 0..i : OneRun(t, j, i)})

\* To the right over a run, then over blanks.
WordRight(t, off) ==
  LET i == Final({j \in off..Len(t) : OneRun(t, off, j)})
  IN Final({j \in i..Len(t) : \A k \in (i + 1)..j : White(t[k])})

\* normalizeNewlines: a carriage return becomes a line feed and takes a line
\* feed that follows it along.
Normalize(s) ==
  LET upTo[i \in 0..Len(s)] ==
        IF i = 0 THEN <<>>
        ELSE IF s[i] = "n" /\ i > 1 /\ s[i - 1] = "r" THEN upTo[i - 1]
        ELSE Append(upTo[i - 1], IF s[i] = "r" THEN "n" ELSE s[i])
  IN  upTo[Len(s)]

-----------------------------------------------------------------------------
Init ==
  /\ text = <<>>
  /\ sel = Bare(0)
  /\ undo = <<>>
  /\ redo = <<>>
  /\ typingRun = FALSE
  /\ pendingHigh = FALSE
  /\ ops = 0

\* Mutant of RecordPreEdit: an edit after an undo keeps what was undone.
RecordKeepsRedo(extendRun, s) ==
  IF extendRun /\ typingRun
    THEN UNCHANGED <<undo, redo>>
    ELSE /\ undo' = LET u == Append(undo, [text |-> text, sel |-> s])
                    IN IF Len(u) > MaxUndo THEN Tail(u) ELSE u
         /\ UNCHANGED redo

\* Keep the document before an edit, unless the edit goes on with the typing
\* that has been kept already.
RecordPreEdit(extendRun, s) ==
  IF extendRun /\ typingRun
    THEN UNCHANGED <<undo, redo>>
    ELSE /\ undo' = LET u == Append(undo, [text |-> text, sel |-> s])
                    IN IF Len(u) > MaxUndo THEN Tail(u) ELSE u
         /\ redo' = <<>>

\* The text with what lies between offsets a and b replaced by s.
Replace(a, b, s) == SubSeq(text, 1, a) \o s \o SubSeq(text, b + 1, Len(text))

Operate == ops < MaxOps /\ ops' = ops + 1

\* insertText of a string that is not empty.
Insert(s) ==
  LET run == Len(s) = 1 /\ s[1] # "n" /\ Empty(sel) IN
    /\ Len(text) + Len(s) <= MaxText
    /\ Operate
    /\ RecordPreEdit(run, sel)
    /\ text' = Replace(Lo(sel), Hi(sel), s)
    /\ sel' = Bare(Lo(sel) + Len(s))
    /\ typingRun' = run

\* Remove what lies between offsets a and b, s being the selection by then.
Erase(a, b, s) ==
  /\ Operate
  /\ RecordPreEdit(FALSE, s)
  /\ text' = Replace(a, b, <<>>)
  /\ sel' = Bare(a)
  /\ typingRun' = FALSE

-----------------------------------------------------------------------------
(* Edits.                                                                  *)

\* WM_CHAR.  The halves of a pair arrive one by one and are inserted together;
\* a low half alone is ignored.
TypeChar(c) ==
  \/ /\ c = "H"
     /\ pendingHigh' = TRUE
     /\ UNCHANGED <<text, sel, undo, redo, typingRun, ops>>
  \/ /\ c = "L"
     /\ pendingHigh
     /\ pendingHigh' = FALSE
     /\ Insert(<<"H", "L">>)
  \/ /\ c \notin {"H", "L"}
     /\ pendingHigh' = FALSE
     /\ Insert(<<IF c = "r" THEN "n" ELSE c>>)

Paste(s) ==
  /\ s # <<>>
  /\ Insert(Normalize(s))
  /\ UNCHANGED pendingHigh

\* deleteSelection (cut), and what every deletion does first.
DeleteSelection ==
  /\ ~Empty(sel)
  /\ Erase(Lo(sel), Hi(sel), sel)
  /\ UNCHANGED pendingHigh

Backspace ==
  /\ IF Empty(sel)
       THEN /\ sel.caret > 0
            /\ Erase(StepLeft(text, sel.caret), sel.caret, sel)
       ELSE Erase(Lo(sel), Hi(sel), sel)
  /\ UNCHANGED pendingHigh

DeleteForward ==
  /\ IF Empty(sel)
       THEN /\ sel.caret < Len(text)
            /\ Erase(sel.caret, StepRight(text, sel.caret), sel)
       ELSE Erase(Lo(sel), Hi(sel), sel)
  /\ UNCHANGED pendingHigh

\* deleteWordLeft and deleteWordRight select up to their target first.
DeleteWord(target) ==
  LET s == IF Empty(sel) THEN SelAt(Snap(text, sel.caret), Snap(text, target))
                         ELSE sel
  IN /\ \/ ~Empty(s) /\ Erase(Lo(s), Hi(s), s)
        \/ /\ Empty(s)
           /\ sel' = s
           /\ typingRun' = FALSE
           /\ UNCHANGED <<text, undo, redo, ops>>
     /\ UNCHANGED pendingHigh

DeleteWordLeft == DeleteWord(WordLeft(text, sel.caret))
DeleteWordRight == DeleteWord(WordRight(text, sel.caret))

\* WM_SETTEXT: setText, and the caret to the top.
SetText(s) ==
  /\ text' = Normalize(s)
  /\ sel' = Bare(0)
  /\ undo' = <<>>
  /\ redo' = <<>>
  /\ typingRun' = FALSE
  /\ pendingHigh' = FALSE
  /\ ops' = 0

-----------------------------------------------------------------------------
(* Movements.                                                              *)

\* Mutant of Select: a movement leaves the typing run open.
SelectKeepsRun(s) ==
  /\ sel' = s
  /\ Operate
  /\ UNCHANGED <<text, undo, redo, typingRun, pendingHigh>>

Select(s) ==
  /\ sel' = s
  /\ typingRun' = FALSE
  /\ Operate
  /\ UNCHANGED <<text, undo, redo, pendingHigh>>

SetCaret(off, extend) ==
  LET c == Snap(text, off)
  IN Select(SelAt(IF extend THEN sel.anchor ELSE c, c))

\* A click, a drag, or a movement to another line: any offset, and one past
\* the end.
PlaceCaret(extend) == \E off \in 0..(Len(text) + 1) : SetCaret(off, extend)

SetSelection(a, c) == Select(SelAt(Snap(text, a), Snap(text, c)))

\* The word with the unit at offset off in it, if that is a word character.
WordAt(off) ==
  LET inWord(a, c) == \A i \in (a + 1)..c : WordChar(text[i])
  IN [from |-> First({a \in 0..off : inWord(a, off)}),
      to |-> Final({c \in off..Len(text) : inWord(off, c)})]

\* Double click: the word at the offset, or the one that ends there.
SelectWordAt(off) ==
  IF WordAt(off).from = WordAt(off).to
    THEN SetCaret(off, FALSE)
    ELSE SetSelection(WordAt(off).from, WordAt(off).to)

SelectAll == Select(SelAt(0, Len(text)))

MoveLeft(extend, byWord) ==
  IF ~extend /\ ~byWord /\ ~Empty(sel)
    THEN Select(Bare(Lo(sel)))
    ELSE SetCaret(IF byWord THEN WordLeft(text, sel.caret)
                            ELSE StepLeft(text, sel.caret), extend)

MoveRight(extend, byWord) ==
  IF ~extend /\ ~byWord /\ ~Empty(sel)
    THEN Select(Bare(Hi(sel)))
    ELSE SetCaret(IF byWord THEN WordRight(text, sel.caret)
                            ELSE StepRight(text, sel.caret), extend)

MoveLineHome(extend) == SetCaret(LineStart(text, sel.caret), extend)
MoveLineEnd(extend) == SetCaret(LineEnd(text, sel.caret), extend)
MoveDocStart(extend) == SetCaret(0, extend)
MoveDocEnd(extend) == SetCaret(Len(text), extend)

-----------------------------------------------------------------------------
(* Undo and redo.                                                          *)

\* Take the last snapshot of a stack as the document.
Restore(stack) ==
  /\ text' = stack[Len(stack)].text
  /\ sel' = stack[Len(stack)].sel
  /\ typingRun' = FALSE
  /\ UNCHANGED <<pendingHigh, ops>>

Popped(stack) == SubSeq(stack, 1, Len(stack) - 1)

\* Mutant of Undo: the document is kept without what was typed last.
UndoForgets ==
  /\ undo # <<>>
  /\ redo' = Append(redo, undo[Len(undo)])
  /\ undo' = Popped(undo)
  /\ Restore(undo)

Undo ==
  /\ undo # <<>>
  /\ redo' = Append(redo, [text |-> text, sel |-> sel])
  /\ undo' = Popped(undo)
  /\ Restore(undo)

Redo ==
  /\ redo # <<>>
  /\ undo' = Append(undo, [text |-> text, sel |-> sel])
  /\ redo' = Popped(redo)
  /\ Restore(redo)

-----------------------------------------------------------------------------
EditNext ==
  \/ \E c \in Typed : TypeChar(c)
  \/ \E s \in Pasted : Paste(s) \/ SetText(s)
  \/ DeleteSelection \/ Backspace \/ DeleteForward
  \/ DeleteWordLeft \/ DeleteWordRight

MoveNext ==
  \/ SelectAll
  \/ \E off \in Offsets(text) : SelectWordAt(off)
  \/ \E extend \in BOOLEAN :
       \/ PlaceCaret(extend)
       \/ \E byWord \in BOOLEAN : MoveLeft(extend, byWord) \/ MoveRight(extend, byWord)
       \/ MoveLineHome(extend) \/ MoveLineEnd(extend)
       \/ MoveDocStart(extend) \/ MoveDocEnd(extend)

Next == EditNext \/ MoveNext \/ Undo \/ Redo

Spec == Init /\ [][Next]_vars

-----------------------------------------------------------------------------
(* Properties.                                                             *)

\* Every variable has its type.
TypeOK ==
  /\ text \in Seq(Unit)
  /\ sel \in Selection
  /\ undo \in Seq(Snapshot)
  /\ redo \in Seq(Snapshot)
  /\ typingRun \in BOOLEAN
  /\ pendingHigh \in BOOLEAN
  /\ ops \in 0..MaxOps

\* What may be on the screen: single line feeds, whole pairs, and a selection
\* inside the text whose ends lie between characters.
Sound(t, s) ==
  /\ "r" \notin {t[i] : i \in 1..Len(t)}
  /\ WellFormed(t)
  /\ {s.anchor, s.caret} \subseteq Offsets(t)
  /\ ~Splits(t, s.anchor) /\ ~Splits(t, s.caret)

\* "never land between a surrogate pair" (EditorModel.h:110) and "always uses
\* single '\n' line breaks" (EditorModel.h:13): so for the document and for
\* every document that undo and redo can bring back.
DocumentSound ==
  /\ Sound(text, sel)
  /\ \A i \in DOMAIN undo : Sound(undo[i].text, undo[i].sel)
  /\ \A i \in DOMAIN redo : Sound(redo[i].text, redo[i].sel)

\* Undo and redo hold kMaxUndo snapshots between them, though only an edit
\* looks at the cap and undo and redo move snapshots from one to the other.
StacksBounded == Len(undo) + Len(redo) <= MaxUndo

\* An open typing run has nothing to redo, so the edit that goes on with it
\* and clears nothing (recordPreEdit returns early) loses no consistency; and
\* one undo takes away only what was typed in one stretch before the caret.
RunIsOneStretch ==
  typingRun =>
    /\ redo = <<>>
    /\ undo # <<>>
    /\ Empty(sel)
    /\ \E n \in 0..sel.caret :
         /\ "n" \notin {text[i] : i \in (n + 1)..sel.caret}
         /\ undo[Len(undo)].text
              = LET before == undo[Len(undo)].sel
                IN SubSeq(text, 1, n)
                     \o SubSeq(undo[Len(undo)].text, n + 1, Hi(before))
                     \o SubSeq(text, sel.caret + 1, Len(text))

\* The texts from the oldest that undo reaches to the newest that redo reaches.
Timeline ==
  [i \in 1..Len(undo) |-> undo[i].text]
    \o <<text>>
    \o [i \in 1..Len(redo) |-> redo[Len(redo) + 1 - i].text]

\* What can be undone and redone is one line of texts in the order they were
\* written.  Undoing, redoing and moving leave it as it is; an edit cuts it off
\* after the present text and adds the new one, giving up the oldest at most; a
\* typing run rewrites the last; only setting the text empties it.
TimelineKept ==
  [][\/ Timeline' = Timeline
     \/ /\ redo' = <<>>
        /\ \E k \in {1, 2} :
             Timeline' = SubSeq(Timeline, k, Len(undo) + 1) \o <<text'>>
     \/ /\ typingRun
        /\ Timeline' = SubSeq(Timeline, 1, Len(undo)) \o <<text'>>
     \/ \E s \in Pasted : SetText(s) /\ Timeline' = <<text'>>]_vars
=============================================================================
