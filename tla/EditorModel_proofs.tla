------------------------- MODULE EditorModel_proofs -------------------------
(***************************************************************************)
(* Proofs about EditorModel, for every cap and every input: first the undo *)
(* and redo stacks, of whose contents nothing is assumed (what the stacks  *)
(* hold does not matter to how many snapshots they hold); then the texts,  *)
(* and what every edit and movement does to them.                          *)
(***************************************************************************)
EXTENDS EditorModel, SequenceLemmas

IsSequence(s) == \E S : s \in Seq(S)

\* An open typing run has kept a document to undo to, and nothing to redo.
RunHasUndo == typingRun => redo = <<>> /\ undo # <<>>

IInv ==
  /\ IsSequence(undo)
  /\ IsSequence(redo)
  /\ StacksBounded
  /\ RunHasUndo

-----------------------------------------------------------------------------
\* A stack holds a number of snapshots, none exactly when it is empty.
LEMMA LengthOfSequence ==
  ASSUME NEW s, IsSequence(s)
  PROVE  Len(s) \in Nat /\ (s # <<>> <=> Len(s) > 0)
  BY DEF IsSequence

\* Pushing a snapshot on a stack.
LEMMA PushSequence ==
  ASSUME NEW s, IsSequence(s), NEW e
  PROVE  /\ IsSequence(Append(s, e))
         /\ Len(Append(s, e)) = Len(s) + 1
  <1>1. PICK S : s \in Seq(S)
    BY DEF IsSequence
  <1>2. s \in Seq(S \cup {e})
    BY <1>1
  <1>3. Append(s, e) \in Seq(S \cup {e}) /\ Len(Append(s, e)) = Len(s) + 1
    BY <1>2
  <1> QED
    BY <1>3 DEF IsSequence

\* Dropping the oldest snapshot of a stack.
LEMMA TailSequence ==
  ASSUME NEW s, IsSequence(s), s # <<>>
  PROVE  IsSequence(Tail(s)) /\ Len(Tail(s)) = Len(s) - 1
  <1>1. PICK S : s \in Seq(S)
    BY DEF IsSequence
  <1>2. Tail(s) \in Seq(S) /\ Len(Tail(s)) = Len(s) - 1
    BY <1>1
  <1> QED
    BY <1>2 DEF IsSequence

\* The length of a sequence's first n elements.
LEMMA PrefixLength ==
  ASSUME NEW S, NEW s, NEW n \in Nat, \A i \in 1..n : s[i] \in S
  PROVE  Len(SubSeq(s, 1, n)) = n
  <1>1. Len(SubSeq(s, 1, n)) = IF 1 <= n THEN n - 1 + 1 ELSE 0
    BY SubSeqProperties
  <1> QED
    BY <1>1

\* Taking the latest snapshot off a stack.
LEMMA PoppedSequence ==
  ASSUME NEW s, IsSequence(s), s # <<>>
  PROVE  IsSequence(Popped(s)) /\ Len(Popped(s)) = Len(s) - 1
  <1>1. PICK S : s \in Seq(S)
    BY DEF IsSequence
  <1>2. Len(s) - 1 \in Nat
    BY <1>1
  <1>3. \A i \in 1..(Len(s) - 1) : s[i] \in S
    BY <1>1, <1>2
  <1>4. Len(Popped(s)) = Len(s) - 1
    BY <1>2, <1>3, PrefixLength DEF Popped
  <1>5. Popped(s) \in Seq(S)
    BY <1>1, <1>2 DEF Popped
  <1> QED
    BY <1>4, <1>5 DEF IsSequence

\* The stack a recorded edit leaves nothing to redo on.
LEMMA EmptySequence == IsSequence(<<>>) /\ Len(<<>>) = 0
  <1>1. <<>> \in Seq({})
    OBVIOUS
  <1> QED
    BY <1>1 DEF IsSequence

-----------------------------------------------------------------------------
\* Whatever the edit does to the text and the run, recording the document before
\* it keeps the invariant: either nothing is recorded, and the run that goes on
\* has nothing to redo, or one snapshot is pushed, the oldest given up above the
\* cap, and nothing can be redone.
LEMMA RecordKeepsInvariant ==
  ASSUME IInv, NEW extendRun, NEW s, RecordPreEdit(extendRun, s)
  PROVE  IInv'
  <1> DEFINE u == Append(undo, [text |-> text, sel |-> s])
  <1>0. MaxUndo \in Nat /\ MaxUndo > 0
    BY EditorAssumption
  <1>1. CASE extendRun /\ typingRun
    <2>1. undo' = undo /\ redo' = redo
      BY <1>1 DEF RecordPreEdit
    <2>2. redo = <<>> /\ undo # <<>>
      BY <1>1 DEF IInv, RunHasUndo
    <2> QED
      BY <2>1, <2>2 DEF IInv, StacksBounded, RunHasUndo
  <1>2. CASE ~(extendRun /\ typingRun)
    <2>1. /\ undo' = IF Len(u) > MaxUndo THEN Tail(u) ELSE u
          /\ redo' = <<>>
      BY <1>2 DEF RecordPreEdit
    <2>2. Len(undo) \in Nat /\ Len(redo) \in Nat /\ Len(undo) + Len(redo) <= MaxUndo
      BY LengthOfSequence DEF IInv, StacksBounded
    <2>3. IsSequence(u) /\ Len(u) = Len(undo) + 1
      BY PushSequence DEF IInv
    <2> HIDE DEF u
    <2>4. u # <<>> /\ IsSequence(Tail(u)) /\ Len(Tail(u)) = Len(undo)
      BY <2>2, <2>3, LengthOfSequence, TailSequence
    <2>5. IsSequence(undo') /\ Len(undo') \in 1..MaxUndo
      BY <1>0, <2>1, <2>2, <2>3, <2>4
    <2>6. undo' # <<>>
      BY <2>5, LengthOfSequence
    <2> QED
      BY <2>1, <2>5, <2>6, EmptySequence DEF IInv, StacksBounded, RunHasUndo
  <1> QED
    BY <1>1, <1>2

\* Leaving the stacks alone keeps the invariant, unless a run is opened.
LEMMA StillKeepsInvariant ==
  ASSUME IInv, UNCHANGED <<undo, redo>>, typingRun' = FALSE \/ typingRun' = typingRun
  PROVE  IInv'
  BY DEF IInv, StacksBounded, RunHasUndo

LEMMA InsertKeepsInvariant ==
  ASSUME IInv, NEW s, Insert(s)
  PROVE  IInv'
  BY RecordKeepsInvariant DEF Insert

LEMMA EraseKeepsInvariant ==
  ASSUME IInv, NEW a, NEW b, NEW s, Erase(a, b, s)
  PROVE  IInv'
  BY RecordKeepsInvariant DEF Erase

\* Every movement ends the run and leaves the stacks alone.
LEMMA MoveKeepsInvariant == IInv /\ MoveNext => IInv'
  <1> SUFFICES ASSUME IInv, MoveNext PROVE IInv'
    OBVIOUS
  <1>1. UNCHANGED <<undo, redo>> /\ typingRun' = FALSE
    <2>1. ASSUME NEW s, Select(s)
          PROVE  UNCHANGED <<undo, redo>> /\ typingRun' = FALSE
      BY <2>1 DEF Select
    <2>2. ASSUME NEW off, NEW extend, SetCaret(off, extend)
          PROVE  UNCHANGED <<undo, redo>> /\ typingRun' = FALSE
      BY <2>1, <2>2 DEF SetCaret
    <2>3. CASE SelectAll
      BY <2>1, <2>3 DEF SelectAll
    <2>4. ASSUME NEW off \in Offsets(text), SelectWordAt(off)
          PROVE  UNCHANGED <<undo, redo>> /\ typingRun' = FALSE
      BY <2>1, <2>2, <2>4 DEF SelectWordAt, SetSelection
    <2>5. ASSUME NEW extend \in BOOLEAN, PlaceCaret(extend)
          PROVE  UNCHANGED <<undo, redo>> /\ typingRun' = FALSE
      BY <2>2, <2>5 DEF PlaceCaret
    <2>6. ASSUME NEW extend \in BOOLEAN, NEW byWord \in BOOLEAN, MoveLeft(extend, byWord)
          PROVE  UNCHANGED <<undo, redo>> /\ typingRun' = FALSE
      BY <2>1, <2>2, <2>6 DEF MoveLeft
    <2>7. ASSUME NEW extend \in BOOLEAN, NEW byWord \in BOOLEAN, MoveRight(extend, byWord)
          PROVE  UNCHANGED <<undo, redo>> /\ typingRun' = FALSE
      BY <2>1, <2>2, <2>7 DEF MoveRight
    <2>8. ASSUME NEW extend \in BOOLEAN,
                 \/ MoveLineHome(extend) \/ MoveLineEnd(extend)
                 \/ MoveDocStart(extend) \/ MoveDocEnd(extend)
          PROVE  UNCHANGED <<undo, redo>> /\ typingRun' = FALSE
      BY <2>2, <2>8 DEF MoveLineHome, MoveLineEnd, MoveDocStart, MoveDocEnd
    <2> QED
      BY <2>3, <2>4, <2>5, <2>6, <2>7, <2>8 DEF MoveNext
  <1> QED
    BY <1>1, StillKeepsInvariant

\* Undo moves one snapshot's worth from one stack to the other, and so does redo.
LEMMA UndoKeepsInvariant == IInv /\ Undo => IInv'
  <1> SUFFICES ASSUME IInv, Undo PROVE IInv'
    OBVIOUS
  <1>1. /\ undo # <<>>
        /\ redo' = Append(redo, [text |-> text, sel |-> sel])
        /\ undo' = Popped(undo)
        /\ typingRun' = FALSE
    BY DEF Undo, Restore
  <1>2. IsSequence(undo') /\ Len(undo') = Len(undo) - 1
    BY <1>1, PoppedSequence DEF IInv
  <1>3. IsSequence(redo') /\ Len(redo') = Len(redo) + 1
    BY <1>1, PushSequence DEF IInv
  <1>4. Len(undo) \in Nat /\ Len(redo) \in Nat
    BY LengthOfSequence DEF IInv
  <1>5. StacksBounded'
    BY <1>2, <1>3, <1>4 DEF IInv, StacksBounded
  <1> QED
    BY <1>1, <1>2, <1>3, <1>5 DEF IInv, RunHasUndo

LEMMA RedoKeepsInvariant == IInv /\ Redo => IInv'
  <1> SUFFICES ASSUME IInv, Redo PROVE IInv'
    OBVIOUS
  <1>1. /\ redo # <<>>
        /\ undo' = Append(undo, [text |-> text, sel |-> sel])
        /\ redo' = Popped(redo)
        /\ typingRun' = FALSE
    BY DEF Redo, Restore
  <1>2. IsSequence(redo') /\ Len(redo') = Len(redo) - 1
    BY <1>1, PoppedSequence DEF IInv
  <1>3. IsSequence(undo') /\ Len(undo') = Len(undo) + 1
    BY <1>1, PushSequence DEF IInv
  <1>4. Len(undo) \in Nat /\ Len(redo) \in Nat
    BY LengthOfSequence DEF IInv
  <1>5. StacksBounded'
    BY <1>2, <1>3, <1>4 DEF IInv, StacksBounded
  <1> QED
    BY <1>1, <1>2, <1>3, <1>5 DEF IInv, RunHasUndo

-----------------------------------------------------------------------------
LEMMA InitInvariant == Init => IInv
  <1> SUFFICES ASSUME Init PROVE IInv
    OBVIOUS
  <1>1. undo = <<>> /\ redo = <<>> /\ typingRun = FALSE
    BY DEF Init
  <1> QED
    BY <1>1, EmptySequence, EditorAssumption DEF IInv, StacksBounded, RunHasUndo

LEMMA EditKeepsInvariant == IInv /\ EditNext => IInv'
  <1> SUFFICES ASSUME IInv, EditNext PROVE IInv'
    OBVIOUS
  <1>1. ASSUME NEW c \in Typed, TypeChar(c)
        PROVE  IInv'
    <2>1. CASE UNCHANGED <<text, sel, undo, redo, typingRun, ops>>
      BY <2>1, StillKeepsInvariant
    <2>2. CASE Insert(<<"H", "L">>) \/ Insert(<<IF c = "r" THEN "n" ELSE c>>)
      BY <2>2, InsertKeepsInvariant
    <2> QED
      BY <1>1, <2>1, <2>2 DEF TypeChar
  <1>2. ASSUME NEW s \in Pasted, Paste(s)
        PROVE  IInv'
    BY <1>2, InsertKeepsInvariant DEF Paste
  <1>3. ASSUME NEW s \in Pasted, SetText(s)
        PROVE  IInv'
    <2>1. undo' = <<>> /\ redo' = <<>> /\ typingRun' = FALSE
      BY <1>3 DEF SetText
    <2> QED
      BY <2>1, EmptySequence, EditorAssumption DEF IInv, StacksBounded, RunHasUndo
  <1>4. CASE DeleteSelection
    BY <1>4, EraseKeepsInvariant DEF DeleteSelection
  <1>5. CASE Backspace
    BY <1>5, EraseKeepsInvariant DEF Backspace
  <1>6. CASE DeleteForward
    BY <1>6, EraseKeepsInvariant DEF DeleteForward
  <1>7. ASSUME NEW target, DeleteWord(target)
        PROVE  IInv'
    BY <1>7, EraseKeepsInvariant, StillKeepsInvariant DEF DeleteWord
  <1> QED
    BY <1>1, <1>2, <1>3, <1>4, <1>5, <1>6, <1>7
       DEF EditNext, DeleteWordLeft, DeleteWordRight

\* IInv holds in every reachable state.
THEOREM EditorInvariant == Spec => []IInv
  <1>1. IInv /\ [Next]_vars => IInv'
    <2> SUFFICES ASSUME IInv, [Next]_vars PROVE IInv'
      OBVIOUS
    <2>1. CASE UNCHANGED vars
      BY <2>1, StillKeepsInvariant DEF vars
    <2> QED
      BY <2>1, EditKeepsInvariant, MoveKeepsInvariant, UndoKeepsInvariant,
         RedoKeepsInvariant DEF Next
  <1> QED
    BY <1>1, InitInvariant, PTL DEF Spec

\* However edits, undo and redo are mixed, EditorModel keeps at most kMaxUndo
\* snapshots in its two stacks together.
THEOREM EditorStacksBounded == Spec => []StacksBounded
  <1>1. IInv => StacksBounded
    BY DEF IInv
  <1> QED
    BY <1>1, EditorInvariant, PTL

\* recordPreEdit's early return, which clears no redo stack, is taken only when
\* there is nothing to redo and something to undo.
THEOREM EditorRunHasUndo == Spec => []RunHasUndo
  <1>1. IInv => RunHasUndo
    BY DEF IInv
  <1> QED
    BY <1>1, EditorInvariant, PTL

-----------------------------------------------------------------------------
(* Texts and places in them.                                               *)

\* A text that may be on the screen, and a place in it between two characters.
TextSound(t) ==
  /\ t \in Seq(Unit)
  /\ \A i \in 1..Len(t) : t[i] # "r"
  /\ WellFormed(t)

PlaceSound(t, off) == off \in 0..Len(t) /\ ~Splits(t, off)

\* The least and the greatest of a set of offsets.
LEMMA FirstIsIn ==
  ASSUME NEW S \in SUBSET Nat, S # {}
  PROVE  First(S) \in S
  BY LeastNatural DEF First

LEMMA FinalIsIn ==
  ASSUME NEW S \in SUBSET Nat, S # {}, NEW n \in Nat, \A i \in S : i <= n
  PROVE  Final(S) \in S
  BY GreatestNatural DEF Final

\* snap: wherever the offset was, it lies between characters afterwards.
LEMMA SnapSound ==
  ASSUME NEW t \in Seq(Unit), NEW off \in Nat
  PROVE  PlaceSound(t, Snap(t, off))
  <1>1. Len(t) \in Nat
    OBVIOUS
  <1>2. PICK c : c = Clamp(t, off)
    OBVIOUS
  <1>3. c \in 0..Len(t)
    BY <1>1, <1>2 DEF Clamp
  <1>4. CASE Splits(t, c)
    <2>1. c - 1 \in 0..Len(t) /\ t[c] = "H"
      BY <1>1, <1>3, <1>4 DEF Splits
    <2>2. ~Splits(t, c - 1)
      BY <1>3, <2>1 DEF Splits
    <2> QED
      BY <1>2, <1>4, <2>1, <2>2 DEF Snap, PlaceSound
  <1>5. CASE ~Splits(t, c)
    BY <1>2, <1>3, <1>5 DEF Snap, PlaceSound
  <1> QED
    BY <1>4, <1>5

\* stepCodepoint moves by one character.
LEMMA StepLeftSound ==
  ASSUME NEW t \in Seq(Unit), NEW off, PlaceSound(t, off), off > 0
  PROVE  PlaceSound(t, StepLeft(t, off)) /\ StepLeft(t, off) < off
  <1>1. Len(t) \in Nat /\ off \in 1..Len(t)
    BY DEF PlaceSound
  <1>2. CASE Splits(t, off - 1)
    <2>1. off - 2 \in 0..Len(t) /\ t[off - 1] = "H"
      BY <1>1, <1>2 DEF Splits
    <2>2. ~Splits(t, off - 2)
      BY <1>1, <2>1 DEF Splits
    <2> QED
      BY <1>1, <1>2, <2>1, <2>2 DEF StepLeft, PlaceSound
  <1>3. CASE ~Splits(t, off - 1)
    BY <1>1, <1>3 DEF StepLeft, PlaceSound
  <1> QED
    BY <1>2, <1>3

LEMMA StepRightSound ==
  ASSUME NEW t \in Seq(Unit), NEW off, PlaceSound(t, off), off < Len(t)
  PROVE  PlaceSound(t, StepRight(t, off)) /\ off < StepRight(t, off)
  <1>1. Len(t) \in Nat /\ off \in 0..Len(t)
    BY DEF PlaceSound
  <1>2. CASE Splits(t, off + 1)
    <2>1. off + 2 \in 0..Len(t) /\ t[off + 2] = "L"
      BY <1>1, <1>2 DEF Splits
    <2>2. ~Splits(t, off + 2)
      BY <1>1, <2>1 DEF Splits
    <2> QED
      BY <1>1, <1>2, <2>1, <2>2 DEF StepRight, PlaceSound
  <1>3. CASE ~Splits(t, off + 1)
    BY <1>1, <1>3 DEF StepRight, PlaceSound
  <1> QED
    BY <1>2, <1>3

\* Movements by words and lines stay inside the text.
LEMMA WordLeftInText ==
  ASSUME NEW t \in Seq(Unit), NEW off \in 0..Len(t)
  PROVE  WordLeft(t, off) \in 0..off
  <1> DEFINE B == {j \in 0..off : \A k \in (j + 1)..off : White(t[k])}
  <1>1. PICK i : i = First(B)
    OBVIOUS
  <1>2. i \in 0..off
    <2>1. off \in B /\ B \in SUBSET Nat
      OBVIOUS
    <2>2. First(B) \in B
      BY <2>1, FirstIsIn
    <2> QED
      BY <1>1, <2>2
  <1> DEFINE R == {j \in 0..i : OneRun(t, j, i)}
  <1>3. First(R) \in R
    <2>1. i \in R /\ R \in SUBSET Nat
      BY <1>2 DEF OneRun
    <2> QED
      BY <2>1, FirstIsIn
  <1> QED
    BY <1>1, <1>2, <1>3 DEF WordLeft

LEMMA WordRightInText ==
  ASSUME NEW t \in Seq(Unit), NEW off \in 0..Len(t)
  PROVE  WordRight(t, off) \in off..Len(t)
  <1>1. Len(t) \in Nat
    OBVIOUS
  <1> DEFINE R == {j \in off..Len(t) : OneRun(t, off, j)}
  <1>2. PICK i : i = Final(R)
    OBVIOUS
  <1>3. i \in off..Len(t)
    <2>1. off \in R /\ R \in SUBSET Nat /\ \A j \in R : j <= Len(t)
      BY <1>1 DEF OneRun
    <2>2. Final(R) \in R
      BY <1>1, <2>1, FinalIsIn
    <2> QED
      BY <1>2, <2>2
  <1> DEFINE B == {j \in i..Len(t) : \A k \in (i + 1)..j : White(t[k])}
  <1>4. Final(B) \in B
    <2>1. i \in B /\ B \in SUBSET Nat /\ \A j \in B : j <= Len(t)
      BY <1>1, <1>3
    <2> QED
      BY <1>1, <2>1, FinalIsIn
  <1> QED
    BY <1>1, <1>2, <1>3, <1>4 DEF WordRight

LEMMA LineInText ==
  ASSUME NEW t \in Seq(Unit), NEW off \in 0..Len(t)
  PROVE  LineStart(t, off) \in 0..off /\ LineEnd(t, off) \in off..Len(t)
  <1>1. Len(t) \in Nat
    OBVIOUS
  <1> DEFINE A == {i \in 0..off : i = 0 \/ t[i] = "n"}
             B == {i \in off..Len(t) : i = Len(t) \/ t[i + 1] = "n"}
  <1>2. Final(A) \in A
    <2>1. off \in Nat /\ 0 \in A /\ A \in SUBSET Nat /\ \A i \in A : i <= off
      OBVIOUS
    <2> QED
      BY <2>1, FinalIsIn
  <1>3. First(B) \in B
    <2>1. Len(t) \in B /\ B \in SUBSET Nat
      BY <1>1
    <2> QED
      BY <2>1, FirstIsIn
  <1> QED
    BY <1>2, <1>3 DEF LineStart, LineEnd

LEMMA WordAtInText ==
  ASSUME NEW off \in 0..Len(text), text \in Seq(Unit)
  PROVE  WordAt(off).from \in Nat /\ WordAt(off).to \in Nat
  <1>1. Len(text) \in Nat
    OBVIOUS
  <1> DEFINE A == {a \in 0..off : \A i \in (a + 1)..off : WordChar(text[i])}
             B == {c \in off..Len(text) : \A i \in (off + 1)..c : WordChar(text[i])}
  <1>2. First(A) \in A
    <2>1. off \in A /\ A \in SUBSET Nat
      OBVIOUS
    <2> QED
      BY <2>1, FirstIsIn
  <1>3. Final(B) \in B
    <2>1. off \in B /\ B \in SUBSET Nat /\ \A i \in B : i <= Len(text)
      BY <1>1
    <2> QED
      BY <1>1, <2>1, FinalIsIn
  <1>4. WordAt(off) = [from |-> First(A), to |-> Final(B)]
    BY DEF WordAt
  <1> QED
    BY <1>2, <1>3, <1>4

-----------------------------------------------------------------------------
(* normalizeNewlines.                                                      *)

\* What each turn of its loop adds to the text so far.
NormalizeStep(s, i, t) ==
  IF s[i] = "n" /\ i > 1 /\ s[i - 1] = "r" THEN t
  ELSE Append(t, IF s[i] = "r" THEN "n" ELSE s[i])

\* f[i] is the text after i turns.
NormalizesBy(s, f) ==
  /\ f \in [0..Len(s) -> Seq(Unit)]
  /\ Normalize(s) = f[Len(s)]
  /\ f[0] = <<>>
  /\ \A i \in 1..Len(s) : f[i] = NormalizeStep(s, i, f[i - 1])

LEMMA NormalizeSteps ==
  ASSUME NEW s \in Seq(Unit)
  PROVE  \E f : NormalizesBy(s, f)
  <1> DEFINE Is(f) == f = [i \in 0..Len(s) |-> IF i = 0 THEN <<>>
                                               ELSE NormalizeStep(s, i, f[i - 1])]
  <1>1. PICK n \in Nat : n = Len(s)
    OBVIOUS
  <1>2. PICK Q, e : Q = Seq(Unit) /\ e = <<>>
    OBVIOUS
  <1>3. e \in Q
    BY <1>2
  <1>4. PICK step : step = [i \in 1..n |-> [t \in Q |-> NormalizeStep(s, i, t)]]
    OBVIOUS
  <1>5. \A i \in 1..n, t \in Q : NormalizeStep(s, i, t) \in Q
    <2>1. \A i \in 1..n : s[i] \in Unit /\ "n" \in Unit
      BY <1>1 DEF Unit
    <2> QED
      BY <1>2, <2>1 DEF NormalizeStep
  <1>6. step \in [1..n -> [Q -> Q]]
        /\ \A i \in 1..n, t \in Q : step[i][t] = NormalizeStep(s, i, t)
    BY <1>4, <1>5
  <1>7. PICK f : Iterates(f, n, Q, e, step)
    BY <1>3, <1>6, IterationExists
  <1>8. \A i \in 1..n : f[i] = NormalizeStep(s, i, f[i - 1])
    BY <1>6, <1>7 DEF Iterates
  <1>9. Is(f)
    BY <1>1, <1>2, <1>7, <1>8 DEF Iterates
  <1>10. PICK g : g = CHOOSE h : Is(h)
    OBVIOUS
  <1>11. Is(g)
    BY <1>9, <1>10
  <1>12. Normalize(s) = g[n]
    BY <1>1, <1>10 DEF Normalize, NormalizeStep
  <1>13. g[0] = e /\ \A i \in 1..n : g[i] = NormalizeStep(s, i, g[i - 1])
    BY <1>1, <1>2, <1>11
  <1>14. \A i \in 0..n : g[i] \in Q
    <2> DEFINE P == {i \in 0..n : g[i] \in Q}
    <2>1. 0 \in P /\ \A i \in 1..n : i - 1 \in P => i \in P
      BY <1>3, <1>5, <1>13
    <2> HIDE DEF P
    <2>2. \A i \in 0..n : i \in P
      BY <2>1, InductionUpTo
    <2> QED
      BY <2>2 DEF P
  <1>15. g \in [0..n -> Q]
    BY <1>1, <1>11, <1>14
  <1> QED
    BY <1>1, <1>2, <1>12, <1>13, <1>15 DEF NormalizesBy

\* The text t that i turns have made of s: sound, but that a pair whose first
\* half was read last is open.
NormalizedSoFar(s, i, t) ==
  /\ t \in Seq(Unit)
  /\ \A k \in 1..Len(t) : t[k] # "r"
  /\ \A k \in 1..Len(t) : t[k] = "L" => k > 1 /\ t[k - 1] = "H"
  /\ \A k \in 1..Len(t) : t[k] = "H" =>
       \/ k < Len(t) /\ t[k + 1] = "L"
       \/ k = Len(t) /\ i > 0 /\ s[i] = "H"
  /\ i > 0 /\ s[i] = "H" => Len(t) > 0 /\ t[Len(t)] = "H"

LEMMA NormalizeStepSound ==
  ASSUME NEW s \in Seq(Unit), WellFormed(s), NEW i \in 1..Len(s), NEW t,
         NormalizedSoFar(s, i - 1, t)
  PROVE  NormalizedSoFar(s, i, NormalizeStep(s, i, t))
  <1>1. Len(s) \in Nat /\ s[i] \in Unit
    OBVIOUS
  <1>2. t \in Seq(Unit) /\ Len(t) \in Nat
    BY DEF NormalizedSoFar
  <1>3. CASE s[i] = "n" /\ i > 1 /\ s[i - 1] = "r"
    <2>1. NormalizeStep(s, i, t) = t
      BY <1>3 DEF NormalizeStep
    <2> QED
      BY <1>1, <1>2, <1>3, <2>1 DEF NormalizedSoFar
  <1>4. CASE ~(s[i] = "n" /\ i > 1 /\ s[i - 1] = "r")
    <2>1. PICK c \in Unit : c = IF s[i] = "r" THEN "n" ELSE s[i]
      BY <1>1 DEF Unit
    <2>2. PICK u : u = Append(t, c)
      OBVIOUS
    <2>3. NormalizeStep(s, i, t) = u
      BY <1>4, <2>1, <2>2 DEF NormalizeStep
    <2>4. /\ u \in Seq(Unit)
          /\ Len(u) = Len(t) + 1
          /\ \A k \in 1..Len(t) : u[k] = t[k]
          /\ u[Len(t) + 1] = c
      BY <1>2, <2>2, AppendFacts
    <2>5. /\ c # "r"
          /\ c = "H" <=> s[i] = "H"
          /\ c = "L" <=> s[i] = "L"
      BY <2>1
    <2>6. c = "L" => Len(t) > 0 /\ t[Len(t)] = "H"
      BY <2>5 DEF NormalizedSoFar, WellFormed
    <2>7. \A k \in 1..Len(u) : u[k] # "r"
      BY <1>2, <2>4, <2>5 DEF NormalizedSoFar
    <2>8. ASSUME NEW k \in 1..Len(u), u[k] = "L" PROVE k > 1 /\ u[k - 1] = "H"
      <3>1. CASE k = Len(t) + 1
        BY <1>2, <2>4, <2>6, <2>8, <3>1
      <3>2. CASE k \in 1..Len(t)
        <4>1. t[k] = "L"
          BY <2>4, <2>8, <3>2
        <4>2. k > 1 /\ t[k - 1] = "H"
          BY <3>2, <4>1 DEF NormalizedSoFar
        <4>3. k - 1 \in 1..Len(t)
          BY <1>2, <3>2, <4>2
        <4> QED
          BY <2>4, <4>2, <4>3
      <3> QED
        BY <1>2, <2>4, <3>1, <3>2
    <2>9. ASSUME NEW k \in 1..Len(u), u[k] = "H"
          PROVE  \/ k < Len(u) /\ u[k + 1] = "L"
                 \/ k = Len(u) /\ i > 0 /\ s[i] = "H"
      <3>1. CASE k = Len(t) + 1
        BY <1>2, <2>4, <2>5, <2>9, <3>1
      <3>2. CASE k \in 1..Len(t)
        <4>1. t[k] = "H"
          BY <2>4, <2>9, <3>2
        <4>2. CASE k < Len(t) /\ t[k + 1] = "L"
          BY <1>2, <2>4, <3>2, <4>2
        <4>3. CASE k = Len(t) /\ i - 1 > 0 /\ s[i - 1] = "H"
          <5>1. s[i] = "L"
            BY <1>1, <4>3 DEF WellFormed
          <5> QED
            BY <1>2, <2>4, <2>5, <4>3, <5>1
        <4> QED
          BY <3>2, <4>1, <4>2, <4>3 DEF NormalizedSoFar
      <3> QED
        BY <1>2, <2>4, <3>1, <3>2
    <2>10. s[i] = "H" => Len(u) > 0 /\ u[Len(u)] = "H"
      BY <1>2, <2>4, <2>5
    <2> QED
      BY <2>3, <2>4, <2>7, <2>8, <2>9, <2>10 DEF NormalizedSoFar
  <1> QED
    BY <1>3, <1>4

\* Whole pairs stay whole, and no carriage return is left.
LEMMA NormalizeSound ==
  ASSUME NEW s \in Seq(Unit), WellFormed(s)
  PROVE  TextSound(Normalize(s))
  <1>1. PICK f : NormalizesBy(s, f)
    BY NormalizeSteps
  <1>2. PICK n \in Nat : n = Len(s)
    OBVIOUS
  <1> DEFINE P == {i \in 0..n : NormalizedSoFar(s, i, f[i])}
  <1>3. 0 \in P
    BY <1>1 DEF NormalizesBy, NormalizedSoFar
  <1>4. ASSUME NEW i \in 1..n, i - 1 \in P PROVE i \in P
    BY <1>1, <1>2, <1>4, NormalizeStepSound DEF NormalizesBy
  <1>5. \A i \in 0..n : i \in P
    <2> HIDE DEF P
    <2> QED
      BY <1>3, <1>4, InductionUpTo
  <1>6. NormalizedSoFar(s, n, f[n])
    BY <1>5
  <1>7. n > 0 => s[n] # "H"
    BY <1>2 DEF WellFormed
  <1>8. TextSound(f[n])
    BY <1>6, <1>7 DEF NormalizedSoFar, TextSound, WellFormed
  <1> QED
    BY <1>1, <1>2, <1>8 DEF NormalizesBy

-----------------------------------------------------------------------------
(* Edits of the text.                                                      *)

\* t with what lies between offsets a and b replaced by s, unit by unit.
Replaced(t, a, b, s) == SubSeq(t, 1, a) \o s \o SubSeq(t, b + 1, Len(t))

IsReplaced(r, t, a, b, s) ==
  /\ r \in Seq(Unit)
  /\ Len(r) = Len(t) - (b - a) + Len(s)
  /\ \A i \in 1..a : r[i] = t[i]
  /\ \A i \in (a + 1)..(a + Len(s)) : r[i] = s[i - a]
  /\ \A i \in (a + Len(s) + 1)..Len(r) : r[i] = t[i - a - Len(s) + b]

LEMMA ReplacedFacts ==
  ASSUME NEW t \in Seq(Unit), NEW s \in Seq(Unit),
         NEW a \in 0..Len(t), NEW b \in a..Len(t), NEW r, r = Replaced(t, a, b, s)
  PROVE  IsReplaced(r, t, a, b, s)
  <1>1. PICK n \in Nat, m \in Nat : n = Len(t) /\ m = Len(s)
    OBVIOUS
  <1>2. PICK p : p = SubSeq(t, 1, a)
    OBVIOUS
  <1>3. PICK q : q = SubSeq(t, b + 1, Len(t))
    OBVIOUS
  <1>4. p \in Seq(Unit) /\ Len(p) = a /\ \A i \in 1..a : p[i] = t[i]
    BY <1>1, <1>2, SubSeqFacts
  <1>5. /\ q \in Seq(Unit)
        /\ Len(q) = n - b
        /\ \A i \in 1..(n - b) : q[i] = t[b + i]
    <2>1. /\ SubSeq(t, b + 1, n) \in Seq(Unit)
          /\ Len(SubSeq(t, b + 1, n)) = n + 1 - (b + 1)
          /\ \A i \in 1..(n + 1 - (b + 1)) : SubSeq(t, b + 1, n)[i] = t[(b + 1) + i - 1]
      BY <1>1, SubSeqFacts
    <2>2. n + 1 - (b + 1) = n - b /\ \A i \in 1..(n - b) : (b + 1) + i - 1 = b + i
      BY <1>1
    <2> QED
      BY <1>1, <1>3, <2>1, <2>2
  <1>6. PICK h : h = p \o s
    OBVIOUS
  <1>7. /\ h \in Seq(Unit)
        /\ Len(h) = a + m
        /\ \A i \in 1..a : h[i] = t[i]
        /\ \A i \in (a + 1)..(a + m) : h[i] = s[i - a]
    <2>1. /\ p \o s \in Seq(Unit)
          /\ Len(p \o s) = Len(p) + Len(s)
          /\ \A i \in 1..Len(p) : (p \o s)[i] = p[i]
          /\ \A i \in (Len(p) + 1)..(Len(p) + Len(s)) : (p \o s)[i] = s[i - Len(p)]
      <3>1. p \in Seq(Unit) /\ s \in Seq(Unit)
        BY <1>4
      <3> QED
        BY <3>1, ConcatFacts
    <2> QED
      BY <1>1, <1>4, <1>6, <2>1
  <1>8. r = h \o q
    BY <1>2, <1>3, <1>6 DEF Replaced
  <1>9. /\ r \in Seq(Unit)
        /\ Len(r) = a + m + (n - b)
        /\ \A i \in 1..(a + m) : r[i] = h[i]
        /\ \A i \in (a + m + 1)..(a + m + (n - b)) : r[i] = q[i - (a + m)]
    <2>1. /\ h \o q \in Seq(Unit)
          /\ Len(h \o q) = Len(h) + Len(q)
          /\ \A i \in 1..Len(h) : (h \o q)[i] = h[i]
          /\ \A i \in (Len(h) + 1)..(Len(h) + Len(q)) : (h \o q)[i] = q[i - Len(h)]
      BY <1>5, <1>7, ConcatFacts
    <2> QED
      BY <1>5, <1>7, <1>8, <2>1
  <1>10. ASSUME NEW i \in (a + m + 1)..(a + m + (n - b))
         PROVE  r[i] = t[i - a - m + b]
    <2>1. i - (a + m) \in 1..(n - b) /\ b + (i - (a + m)) = i - a - m + b
      BY <1>1
    <2> QED
      BY <1>5, <1>9, <2>1
  <1>11. Len(r) = n - (b - a) + m
    BY <1>1, <1>9
  <1>12. (\A i \in 1..a : r[i] = t[i]) /\ \A i \in (a + 1)..(a + m) : r[i] = s[i - a]
    <2>1. 1..a \subseteq 1..(a + m) /\ (a + 1)..(a + m) \subseteq 1..(a + m)
      BY <1>1
    <2> QED
      BY <1>7, <1>9, <2>1
  <1> QED
    BY <1>1, <1>9, <1>10, <1>11, <1>12 DEF IsReplaced

\* A sound text, put between two places of one, leaves it sound, and ends at a
\* place of it.
LEMMA ReplacedSound ==
  ASSUME NEW t, TextSound(t), NEW s, TextSound(s),
         NEW a, PlaceSound(t, a), NEW b, PlaceSound(t, b), a <= b
  PROVE  /\ TextSound(Replaced(t, a, b, s))
         /\ PlaceSound(Replaced(t, a, b, s), a + Len(s))
  <1>1. PICK n \in Nat, m \in Nat : n = Len(t) /\ m = Len(s)
    BY DEF TextSound
  <1>2. t \in Seq(Unit) /\ s \in Seq(Unit) /\ a \in 0..n /\ b \in a..n
    BY <1>1 DEF TextSound, PlaceSound
  <1>3. PICK r : r = Replaced(t, a, b, s)
    OBVIOUS
  <1>4. PICK l : l = n - (b - a) + m
    OBVIOUS
  <1>5. l \in Nat /\ a + m \in 0..l
    BY <1>1, <1>2, <1>4
  <1>6. /\ r \in Seq(Unit)
        /\ Len(r) = l
        /\ \A i \in 1..a : r[i] = t[i]
        /\ \A i \in (a + 1)..(a + m) : r[i] = s[i - a]
        /\ \A i \in (a + m + 1)..l : r[i] = t[i - a - m + b]
    <2>1. IsReplaced(r, t, a, b, s)
      <3>1. /\ t \in Seq(Unit) /\ s \in Seq(Unit)
            /\ a \in 0..Len(t) /\ b \in a..Len(t)
        BY <1>1, <1>2
      <3> QED
        BY <1>3, <3>1, ReplacedFacts
    <2> QED
      BY <1>1, <1>4, <2>1 DEF IsReplaced
  <1>7. \A i \in (a + m + 1)..l : i - a - m + b \in (b + 1)..n
    BY <1>1, <1>2, <1>4
  <1>8. \A i \in (a + 1)..(a + m) : i - a \in 1..m
    BY <1>1, <1>2
  <1>9. ASSUME NEW i \in 1..l
        PROVE  i \in 1..a \/ i \in (a + 1)..(a + m) \/ i \in (a + m + 1)..l
    BY <1>1, <1>2
  <1>10. ASSUME NEW i \in 1..l PROVE r[i] # "r"
    <2>1. (\A j \in 1..n : t[j] # "r") /\ \A j \in 1..m : s[j] # "r"
      BY <1>1 DEF TextSound
    <2>2. CASE i \in 1..a
      BY <1>1, <1>2, <1>6, <2>1, <2>2
    <2>3. CASE i \in (a + 1)..(a + m)
      BY <1>6, <1>8, <2>1, <2>3
    <2>4. CASE i \in (a + m + 1)..l
      <3>1. PICK j \in (b + 1)..n : j = i - a - m + b
        BY <1>7, <2>4
      <3> QED
        BY <1>1, <1>2, <1>6, <2>1, <2>4, <3>1
    <2> QED
      BY <1>9, <2>2, <2>3, <2>4
  <1>11. ASSUME NEW i \in 1..l, r[i] = "H" PROVE i < l /\ r[i + 1] = "L"
    <2>1. CASE i \in 1..a
      <3>1. i < n /\ t[i] = "H" /\ t[i + 1] = "L"
        BY <1>1, <1>2, <1>6, <1>11, <2>1 DEF TextSound, WellFormed
      <3>2. i # a
        BY <1>1, <1>2, <3>1 DEF PlaceSound, Splits
      <3> QED
        BY <1>1, <1>2, <1>5, <1>6, <2>1, <3>1, <3>2
    <2>2. CASE i \in (a + 1)..(a + m)
      <3>1. i - a < m /\ s[(i - a) + 1] = "L"
        BY <1>1, <1>6, <1>8, <1>11, <2>2 DEF TextSound, WellFormed
      <3>2. i + 1 \in (a + 1)..(a + m) /\ (i + 1) - a = (i - a) + 1
        BY <1>1, <1>2, <2>2, <3>1
      <3> QED
        BY <1>1, <1>2, <1>5, <1>6, <3>1, <3>2
    <2>3. CASE i \in (a + m + 1)..l
      <3>1. PICK j \in (b + 1)..n : j = i - a - m + b
        BY <1>7, <2>3
      <3>2. t[j] = "H"
        BY <1>6, <1>11, <2>3, <3>1
      <3>3. j < n /\ t[j + 1] = "L"
        BY <1>1, <1>2, <3>2 DEF TextSound, WellFormed
      <3>4. i + 1 \in (a + m + 1)..l /\ (i + 1) - a - m + b = j + 1
        BY <1>1, <1>2, <1>4, <2>3, <3>1, <3>3
      <3> QED
        BY <1>1, <1>2, <1>5, <1>6, <3>3, <3>4
    <2> QED
      BY <1>9, <2>1, <2>2, <2>3
  <1>12. ASSUME NEW i \in 1..l, r[i] = "L" PROVE i > 1 /\ r[i - 1] = "H"
    <2>1. CASE i \in 1..a
      <3>1. i > 1 /\ t[i - 1] = "H"
        BY <1>1, <1>2, <1>6, <1>12, <2>1 DEF TextSound, WellFormed
      <3> QED
        BY <1>2, <1>6, <2>1, <3>1
    <2>2. CASE i \in (a + 1)..(a + m)
      <3>1. i - a > 1 /\ s[(i - a) - 1] = "H"
        BY <1>1, <1>6, <1>8, <1>12, <2>2 DEF TextSound, WellFormed
      <3>2. i - 1 \in (a + 1)..(a + m) /\ (i - 1) - a = (i - a) - 1 /\ i > 1
        BY <1>1, <1>2, <2>2, <3>1
      <3> QED
        BY <1>6, <3>1, <3>2
    <2>3. CASE i \in (a + m + 1)..l
      <3>1. PICK j \in (b + 1)..n : j = i - a - m + b
        BY <1>7, <2>3
      <3>2. t[j] = "L"
        BY <1>6, <1>12, <2>3, <3>1
      <3>3. j > 1 /\ t[j - 1] = "H"
        BY <1>1, <1>2, <3>1, <3>2 DEF TextSound, WellFormed
      <3>4. j # b + 1
        <4> SUFFICES ASSUME j = b + 1 PROVE FALSE
          OBVIOUS
        <4>1. b > 0 /\ b < Len(t) /\ t[b] = "H" /\ t[b + 1] = "L"
          BY <1>1, <1>2, <3>2, <3>3
        <4> QED
          BY <4>1 DEF PlaceSound, Splits
      <3>5. i - 1 \in (a + m + 1)..l /\ (i - 1) - a - m + b = j - 1 /\ i > 1
        BY <1>1, <1>2, <1>4, <2>3, <3>1, <3>4
      <3> QED
        BY <1>6, <3>3, <3>5
    <2> QED
      BY <1>9, <2>1, <2>2, <2>3
  <1>13. TextSound(r)
    BY <1>5, <1>6, <1>10, <1>11, <1>12 DEF TextSound, WellFormed
  <1>14. ~Splits(r, a + m)
    <2> SUFFICES ASSUME a + m > 0, a + m < l, r[a + m] = "H", r[a + m + 1] = "L"
                 PROVE  FALSE
      BY <1>6 DEF Splits
    <2>1. CASE m = 0
      <3>1. a > 0 /\ t[a] = "H"
        BY <1>2, <1>6, <2>1
      <3>2. t[b + 1] = "L" /\ b < n
        <4>1. a + m + 1 \in (a + m + 1)..l /\ (a + m + 1) - a - m + b = b + 1
          BY <1>1, <1>2, <1>5
        <4> QED
          BY <1>1, <1>2, <1>6, <1>7, <4>1
      <3>3. b > 0 /\ t[b] = "H"
        BY <1>1, <1>2, <3>1, <3>2 DEF TextSound, WellFormed
      <3> QED
        BY <1>1, <3>2, <3>3 DEF PlaceSound, Splits
    <2>2. CASE m > 0
      <3>1. a + m \in (a + 1)..(a + m) /\ (a + m) - a = m
        BY <1>1, <1>2, <2>2
      <3>2. s[m] = "H" /\ m \in 1..Len(s)
        BY <1>1, <1>6, <2>2, <3>1
      <3> QED
        BY <1>1, <3>2 DEF TextSound, WellFormed
    <2> QED
      BY <1>1, <2>1, <2>2
  <1> QED
    BY <1>1, <1>3, <1>5, <1>6, <1>13, <1>14 DEF PlaceSound

-----------------------------------------------------------------------------
(* The document, and the documents that undo and redo can bring back.      *)

SelectionSound(t, s) ==
  s \in Selection /\ PlaceSound(t, s.anchor) /\ PlaceSound(t, s.caret)

SoundSnapshot == {x \in Snapshot : TextSound(x.text) /\ SelectionSound(x.text, x.sel)}

Now == [text |-> text, sel |-> sel]

\* DocumentsInv: all of them are sound.  ControlInv: the flags and the bound.
DocumentsInv ==
  /\ Now \in SoundSnapshot
  /\ undo \in Seq(SoundSnapshot)
  /\ redo \in Seq(SoundSnapshot)

ControlInv ==
  /\ typingRun \in BOOLEAN
  /\ pendingHigh \in BOOLEAN
  /\ ops \in 0..MaxOps

DocInv == DocumentsInv /\ ControlInv /\ RunIsOneStretch

LEMMA SoundSnapshotIs ==
  ASSUME NEW t, NEW s
  PROVE  [text |-> t, sel |-> s] \in SoundSnapshot
           <=> TextSound(t) /\ SelectionSound(t, s)
  BY DEF SoundSnapshot, Snapshot, TextSound, SelectionSound

\* What a sound selection spans lies between two places, in this order.
LEMMA LoHiSound ==
  ASSUME NEW t, NEW s, SelectionSound(t, s)
  PROVE  /\ PlaceSound(t, Lo(s)) /\ PlaceSound(t, Hi(s))
         /\ Lo(s) \in Nat /\ Hi(s) \in Nat /\ Lo(s) <= Hi(s)
  BY DEF SelectionSound, Selection, Lo, Hi

LEMMA SelAtSound ==
  ASSUME NEW t, NEW a, PlaceSound(t, a), NEW c, PlaceSound(t, c)
  PROVE  SelectionSound(t, SelAt(a, c))
  BY DEF SelectionSound, Selection, SelAt, PlaceSound

LEMMA BareSound ==
  ASSUME NEW t, NEW a, PlaceSound(t, a)
  PROVE  SelectionSound(t, Bare(a))
  BY SelAtSound DEF Bare

LEMMA EmptyTextSound == TextSound(<<>>) /\ PlaceSound(<<>>, 0)
  BY DEF TextSound, PlaceSound, WellFormed, Splits

\* The ends of a text are places in it.
LEMMA EndsSound ==
  ASSUME NEW t \in Seq(Unit)
  PROVE  PlaceSound(t, 0) /\ PlaceSound(t, Len(t))
  BY DEF PlaceSound, Splits

\* recordPreEdit keeps a sound document, and keeps it last.
LEMMA RecordSound ==
  ASSUME DocumentsInv, NEW e, NEW s, SelectionSound(text, s), RecordPreEdit(e, s)
  PROVE  /\ undo' \in Seq(SoundSnapshot)
         /\ redo' \in Seq(SoundSnapshot)
         /\ \/ e /\ typingRun /\ UNCHANGED <<undo, redo>>
            \/ /\ undo' # <<>>
               /\ undo'[Len(undo')] = [text |-> text, sel |-> s]
               /\ redo' = <<>>
  <1>1. CASE e /\ typingRun
    BY <1>1 DEF RecordPreEdit, DocumentsInv
  <1>2. CASE ~(e /\ typingRun)
    <2>1. PICK d \in SoundSnapshot : d = [text |-> text, sel |-> s]
      BY SoundSnapshotIs DEF DocumentsInv, Now
    <2>2. PICK u : u = Append(undo, d)
      OBVIOUS
    <2>3. undo' = (IF Len(u) > MaxUndo THEN Tail(u) ELSE u) /\ redo' = <<>>
      BY <1>2, <2>1, <2>2 DEF RecordPreEdit
    <2>4. u \in Seq(SoundSnapshot) /\ u # <<>> /\ Len(u) = Len(undo) + 1 /\ u[Len(u)] = d
      BY <2>1, <2>2, AppendFacts, SeqFacts DEF DocumentsInv
    <2>5. CASE Len(u) > MaxUndo
      <3>1. PICK v : v = Tail(u)
        OBVIOUS
      <3>2. /\ v \in Seq(SoundSnapshot)
            /\ Len(u) \in Nat \ {0}
            /\ Len(v) = Len(u) - 1
            /\ \A i \in 1..(Len(u) - 1) : v[i] = u[i + 1]
        BY <2>4, <3>1, TailFacts
      <3>3. Len(u) > 1
        BY <2>5, <3>2, EditorAssumption
      <3>4. v # <<>> /\ v[Len(v)] = d
        BY <2>4, <3>2, <3>3
      <3> QED
        BY <2>1, <2>3, <2>5, <3>1, <3>2, <3>4
    <2>6. CASE ~(Len(u) > MaxUndo)
      BY <2>1, <2>3, <2>4, <2>6
    <2> QED
      BY <2>5, <2>6
  <1> QED
    BY <1>1, <1>2

\* An operation under the bound.
LEMMA OperateBounded ==
  ASSUME ControlInv, Operate
  PROVE  ops' \in 0..MaxOps
  BY EditorAssumption DEF ControlInv, Operate

\* A new text with a bare caret at a place in it, no run, and stacks of sound
\* documents.
LEMMA ErasedSound ==
  ASSUME DocInv, NEW a, PlaceSound(text, a), NEW b, PlaceSound(text, b), a <= b,
         NEW s, SelectionSound(text, s), Erase(a, b, s), UNCHANGED pendingHigh
  PROVE  DocInv'
  <1>1. PICK r : r = Replaced(text, a, b, <<>>)
    OBVIOUS
  <1>2. text' = r /\ sel' = Bare(a) /\ typingRun' = FALSE
    BY <1>1 DEF Erase, Replace, Replaced
  <1>3. TextSound(text)
    BY SoundSnapshotIs DEF DocInv, DocumentsInv, Now
  <1>4. TextSound(r) /\ PlaceSound(r, a)
    <2>1. a \in Nat /\ Len(<<>>) = 0
      BY DEF PlaceSound
    <2>2. TextSound(r) /\ PlaceSound(r, a + Len(<<>>))
      BY <1>1, <1>3, EmptyTextSound, ReplacedSound
    <2> QED
      BY <2>1, <2>2
  <1>5. Now' \in SoundSnapshot
    BY <1>2, <1>4, BareSound, SoundSnapshotIs DEF Now
  <1>6. undo' \in Seq(SoundSnapshot) /\ redo' \in Seq(SoundSnapshot)
    BY RecordSound DEF DocInv, Erase
  <1>7. ops' \in 0..MaxOps
    BY OperateBounded DEF DocInv, Erase
  <1> QED
    BY <1>2, <1>5, <1>6, <1>7 DEF DocInv, DocumentsInv, ControlInv, RunIsOneStretch

\* A movement to a sound selection.
LEMMA SelectSound ==
  ASSUME DocInv, NEW s, SelectionSound(text, s), Select(s)
  PROVE  DocInv'
  <1>1. /\ sel' = s /\ text' = text /\ undo' = undo /\ redo' = redo
        /\ typingRun' = FALSE /\ pendingHigh' = pendingHigh
    BY DEF Select
  <1>2. Now' \in SoundSnapshot
    BY <1>1, SoundSnapshotIs DEF DocInv, DocumentsInv, Now
  <1>3. ops' \in 0..MaxOps
    BY OperateBounded DEF DocInv, Select
  <1> QED
    BY <1>1, <1>2, <1>3 DEF DocInv, DocumentsInv, ControlInv, RunIsOneStretch

LEMMA SetCaretSound ==
  ASSUME DocInv, NEW off \in Nat, NEW extend, SetCaret(off, extend)
  PROVE  DocInv'
  <1>1. TextSound(text) /\ SelectionSound(text, sel)
    BY SoundSnapshotIs DEF DocInv, DocumentsInv, Now
  <1>2. PICK c : c = Snap(text, off)
    OBVIOUS
  <1>3. PlaceSound(text, c)
    BY <1>1, <1>2, SnapSound DEF TextSound
  <1>4. PICK a : a = IF extend THEN sel.anchor ELSE c
    OBVIOUS
  <1>5. PlaceSound(text, a)
    BY <1>1, <1>3, <1>4 DEF SelectionSound
  <1>6. Select(SelAt(a, c))
    BY <1>2, <1>4 DEF SetCaret
  <1> QED
    BY <1>3, <1>5, <1>6, SelAtSound, SelectSound

\* One unit more before the caret: what lies before and what lies after it stay
\* what they were.
LEMMA InsertedAround ==
  ASSUME NEW t \in Seq(Unit), NEW s \in Seq(Unit), NEW a \in 0..Len(t), Len(s) = 1,
         NEW r, r = Replaced(t, a, a, s), NEW n \in 0..a
  PROVE  /\ SubSeq(r, 1, n) = SubSeq(t, 1, n)
         /\ SubSeq(r, a + 2, Len(r)) = SubSeq(t, a + 1, Len(t))
  <1>1. PICK m \in Nat : m = Len(t)
    OBVIOUS
  <1>2. /\ r \in Seq(Unit)
        /\ Len(r) = m + 1
        /\ \A i \in 1..a : r[i] = t[i]
        /\ \A i \in (a + 2)..(m + 1) : r[i] = t[i - 1]
    <2>1. IsReplaced(r, t, a, a, s)
      BY ReplacedFacts
    <2>2. Len(r) = m + 1
      BY <1>1, <2>1 DEF IsReplaced
    <2>3. \A i \in (a + 2)..(m + 1) : i - a - 1 + a = i - 1
      BY <1>1
    <2> QED
      BY <2>1, <2>2, <2>3 DEF IsReplaced
  <1>3. SubSeq(r, 1, n) = SubSeq(t, 1, n)
    <2>1. PICK p, q : p = SubSeq(r, 1, n) /\ q = SubSeq(t, 1, n)
      OBVIOUS
    <2>2. p \in Seq(Unit) /\ Len(p) = n /\ \A i \in 1..n : p[i] = r[i]
      BY <1>1, <1>2, <2>1, SubSeqFacts
    <2>3. q \in Seq(Unit) /\ Len(q) = n /\ \A i \in 1..n : q[i] = t[i]
      BY <1>1, <2>1, SubSeqFacts
    <2>4. ASSUME NEW i \in 1..n PROVE p[i] = q[i]
      <3>1. i \in 1..a
        OBVIOUS
      <3> QED
        BY <1>2, <2>2, <2>3, <3>1
    <2> QED
      BY <2>1, <2>2, <2>3, <2>4, SameSequence
  <1>4. SubSeq(r, a + 2, m + 1) = SubSeq(t, a + 1, m)
    <2>1. PICK p, q : p = SubSeq(r, a + 2, m + 1) /\ q = SubSeq(t, a + 1, m)
      OBVIOUS
    <2>2. p \in Seq(Unit) /\ Len(p) = m - a /\ \A i \in 1..(m - a) : p[i] = r[a + 1 + i]
      <3>1. /\ SubSeq(r, a + 2, m + 1) \in Seq(Unit)
            /\ Len(SubSeq(r, a + 2, m + 1)) = (m + 1) + 1 - (a + 2)
            /\ \A i \in 1..((m + 1) + 1 - (a + 2)) :
                 SubSeq(r, a + 2, m + 1)[i] = r[(a + 2) + i - 1]
        BY <1>1, <1>2, SubSeqFacts
      <3>2. (m + 1) + 1 - (a + 2) = m - a /\ \A i \in 1..(m - a) : (a + 2) + i - 1 = a + 1 + i
        BY <1>1
      <3> QED
        BY <2>1, <3>1, <3>2
    <2>3. q \in Seq(Unit) /\ Len(q) = m - a /\ \A i \in 1..(m - a) : q[i] = t[a + i]
      <3>1. /\ SubSeq(t, a + 1, m) \in Seq(Unit)
            /\ Len(SubSeq(t, a + 1, m)) = m + 1 - (a + 1)
            /\ \A i \in 1..(m + 1 - (a + 1)) : SubSeq(t, a + 1, m)[i] = t[(a + 1) + i - 1]
        BY <1>1, SubSeqFacts
      <3>2. m + 1 - (a + 1) = m - a /\ \A i \in 1..(m - a) : (a + 1) + i - 1 = a + i
        BY <1>1
      <3> QED
        BY <2>1, <3>1, <3>2
    <2>4. ASSUME NEW i \in 1..(m - a) PROVE p[i] = q[i]
      <3>1. a + 1 + i \in (a + 2)..(m + 1) /\ (a + 1 + i) - 1 = a + i
        BY <1>1
      <3> QED
        BY <1>2, <2>2, <2>3, <3>1
    <2> QED
      BY <2>1, <2>2, <2>3, <2>4, SameSequence
  <1> QED
    BY <1>1, <1>2, <1>3, <1>4

\* A text is what lies before a place, nothing, and what lies after it.
LEMMA TextAround ==
  ASSUME NEW t \in Seq(Unit), NEW a \in 0..Len(t)
  PROVE  t = SubSeq(t, 1, a) \o SubSeq(t, a + 1, a) \o SubSeq(t, a + 1, Len(t))
  <1>1. PICK z : z = SubSeq(t, a + 1, a)
    OBVIOUS
  <1>2. Len(t) \in Nat
    OBVIOUS
  <1>3. z \in Seq(Unit) /\ Len(z) = 0
    <2>1. /\ SubSeq(t, a + 1, a) \in Seq(Unit)
          /\ Len(SubSeq(t, a + 1, a)) = a + 1 - (a + 1)
      BY <1>2, SubSeqFacts
    <2> QED
      BY <1>1, <2>1
  <1>4. PICK r : r = Replaced(t, a, a, z)
    OBVIOUS
  <1>5. IsReplaced(r, t, a, a, z)
    <2>1. a \in a..Len(t)
      BY <1>2
    <2> QED
      BY <1>3, <1>4, <2>1, ReplacedFacts
  <1>6. /\ r \in Seq(Unit)
        /\ Len(r) = Len(t)
        /\ \A i \in 1..a : r[i] = t[i]
        /\ \A i \in (a + 1)..Len(t) : r[i] = t[i]
    <2>1. Len(r) = Len(t)
      BY <1>2, <1>3, <1>5 DEF IsReplaced
    <2>2. \A i \in (a + 1)..Len(t) : i - a - 0 + a = i
      BY <1>2
    <2> QED
      BY <1>3, <1>5, <2>1, <2>2 DEF IsReplaced
  <1>7. \A i \in 1..Len(t) : r[i] = t[i]
    BY <1>2, <1>6
  <1>8. t = r
    BY <1>6, <1>7, SameSequence
  <1> QED
    BY <1>1, <1>4, <1>8 DEF Replaced

\* d is the document with what lies between n and the caret c of t taken back.
Stretch(t, c, d, n) ==
  /\ "n" \notin {t[i] : i \in (n + 1)..c}
  /\ d.text = SubSeq(t, 1, n) \o SubSeq(d.text, n + 1, Hi(d.sel))
                \o SubSeq(t, c + 1, Len(t))

LEMMA RunIsStretch ==
  RunIsOneStretch <=>
    (typingRun => /\ redo = <<>> /\ undo # <<>> /\ Empty(sel)
                  /\ \E n \in 0..sel.caret : Stretch(text, sel.caret, undo[Len(undo)], n))
  BY DEF RunIsOneStretch, Stretch

\* insertText of a sound text.
LEMMA InsertSound ==
  ASSUME DocInv, NEW s, TextSound(s), Insert(s), pendingHigh' \in BOOLEAN
  PROVE  DocInv'
  <1>1. TextSound(text) /\ SelectionSound(text, sel)
    BY SoundSnapshotIs DEF DocInv, DocumentsInv, Now
  <1>2. PICK a, b : a = Lo(sel) /\ b = Hi(sel)
    OBVIOUS
  <1>3. PlaceSound(text, a) /\ PlaceSound(text, b) /\ a \in Nat /\ b \in Nat /\ a <= b
    BY <1>1, <1>2, LoHiSound
  <1>4. PICK r : r = Replaced(text, a, b, s)
    OBVIOUS
  <1>5. TextSound(r) /\ PlaceSound(r, a + Len(s))
    BY <1>1, <1>3, <1>4, ReplacedSound
  <1>6. PICK run \in BOOLEAN : run = (Len(s) = 1 /\ s[1] # "n" /\ Empty(sel))
    OBVIOUS
  <1>7. /\ text' = r
        /\ sel' = Bare(a + Len(s))
        /\ typingRun' = run
        /\ RecordPreEdit(run, sel)
        /\ Operate
    BY <1>2, <1>4, <1>6 DEF Insert, Replace, Replaced
  <1>8. Now' \in SoundSnapshot
    BY <1>5, <1>7, BareSound, SoundSnapshotIs DEF Now
  <1>9. /\ undo' \in Seq(SoundSnapshot)
        /\ redo' \in Seq(SoundSnapshot)
        /\ \/ run /\ typingRun /\ UNCHANGED <<undo, redo>>
           \/ /\ undo' # <<>>
              /\ undo'[Len(undo')] = [text |-> text, sel |-> sel]
              /\ redo' = <<>>
    BY <1>1, <1>7, RecordSound DEF DocInv
  <1>10. ops' \in 0..MaxOps
    BY <1>7, OperateBounded DEF DocInv
  <1>11. ASSUME run PROVE RunIsOneStretch'
    <2>1. Len(s) = 1 /\ s[1] # "n" /\ a = b /\ a = sel.caret /\ b = sel.caret
      BY <1>1, <1>2, <1>6, <1>11 DEF Empty, Lo, Hi
    <2>2. Empty(sel') /\ sel'.caret = a + 1
      BY <1>7, <2>1 DEF Bare, SelAt, Empty
    <2>3. text \in Seq(Unit) /\ s \in Seq(Unit) /\ a \in 0..Len(text)
      BY <1>1, <1>3 DEF TextSound, PlaceSound
    <2>4. IsReplaced(r, text, a, a, s)
      BY <1>4, <2>1, <2>3, ReplacedFacts
    <2>5. \A i \in 1..a : r[i] = text[i]
      BY <2>4 DEF IsReplaced
    <2>6. r[a + 1] = s[1]
      <3>1. a + 1 \in (a + 1)..(a + Len(s)) /\ (a + 1) - a = 1
        BY <1>3, <2>1
      <3> QED
        BY <2>4, <3>1 DEF IsReplaced
    <2>7. ASSUME NEW n \in 0..a
          PROVE  /\ SubSeq(r, 1, n) = SubSeq(text, 1, n)
                 /\ SubSeq(r, (a + 1) + 1, Len(r)) = SubSeq(text, a + 1, Len(text))
      <3>1. (a + 1) + 1 = a + 2
        BY <1>3
      <3>2. r = Replaced(text, a, a, s) /\ Len(s) = 1
        BY <1>4, <2>1
      <3>3. SubSeq(r, 1, n) = SubSeq(text, 1, n)
        BY <2>3, <3>2, InsertedAround
      <3>4. SubSeq(r, a + 2, Len(r)) = SubSeq(text, a + 1, Len(text))
        BY <2>3, <3>2, InsertedAround
      <3> QED
        BY <3>1, <3>3, <3>4
    <2>8. CASE run /\ typingRun /\ UNCHANGED <<undo, redo>>
      <3>1. /\ redo = <<>> /\ undo # <<>>
            /\ \E n \in 0..a : Stretch(text, a, undo[Len(undo)], n)
        BY <2>1, <2>8, RunIsStretch DEF DocInv
      <3>2. PICK d : d = undo[Len(undo)]
        OBVIOUS
      <3>3. PICK n \in 0..a : Stretch(text, a, d, n)
        BY <3>1, <3>2
      <3>4. \A i \in (n + 1)..(a + 1) : r[i] # "n"
        <4>1. ASSUME NEW i \in (n + 1)..(a + 1), i # a + 1
              PROVE  r[i] # "n"
          <5>1. i \in (n + 1)..a /\ i \in 1..a
            BY <1>3, <4>1
          <5> QED
            BY <2>5, <3>3, <5>1 DEF Stretch
        <4> QED
          BY <2>1, <2>6, <4>1
      <3>5. Stretch(r, a + 1, d, n)
        BY <2>7, <3>3, <3>4 DEF Stretch
      <3>6. n \in 0..(a + 1)
        BY <1>3
      <3>7. undo' = undo /\ redo' = redo
        BY <2>8
      <3> QED
        BY <1>7, <2>2, <3>1, <3>2, <3>5, <3>6, <3>7 DEF RunIsOneStretch, Stretch
    <2>9. CASE /\ undo' # <<>>
               /\ undo'[Len(undo')] = [text |-> text, sel |-> sel]
               /\ redo' = <<>>
      <3>1. PICK d : d = [text |-> text, sel |-> sel]
        OBVIOUS
      <3>2. d.text = text /\ Hi(d.sel) = a
        BY <1>2, <2>1, <3>1
      <3>3. \A i \in (a + 1)..(a + 1) : r[i] # "n"
        BY <1>3, <2>1, <2>6
      <3>4. text = SubSeq(text, 1, a) \o SubSeq(text, a + 1, a)
                     \o SubSeq(text, a + 1, Len(text))
        BY <2>3, TextAround
      <3>5. a \in 0..a /\ a \in 0..(a + 1)
        BY <1>3
      <3>6. Stretch(r, a + 1, d, a)
        BY <2>7, <3>2, <3>3, <3>4, <3>5 DEF Stretch
      <3> QED
        BY <1>7, <2>2, <2>9, <3>1, <3>5, <3>6 DEF RunIsOneStretch, Stretch
    <2> QED
      BY <1>9, <2>8, <2>9
  <1>12. ~run => RunIsOneStretch'
    BY <1>7 DEF RunIsOneStretch
  <1> QED
    BY <1>7, <1>8, <1>9, <1>10, <1>11, <1>12 DEF DocInv, DocumentsInv, ControlInv

\* A document taken back from a stack.
LEMMA RestoredSound ==
  ASSUME DocInv, NEW stack \in Seq(SoundSnapshot), stack # <<>>, Restore(stack)
  PROVE  /\ Now' \in SoundSnapshot
         /\ Popped(stack) \in Seq(SoundSnapshot)
         /\ Append(stack, Now) \in Seq(SoundSnapshot)
         /\ typingRun' = FALSE
         /\ UNCHANGED <<pendingHigh, ops>>
  <1>1. PICK n \in Nat \ {0} : n = Len(stack)
    OBVIOUS
  <1>2. PICK d \in SoundSnapshot : d = stack[n]
    BY <1>1
  <1>3. d = [text |-> d.text, sel |-> d.sel]
    BY DEF SoundSnapshot, Snapshot
  <1>4. text' = d.text /\ sel' = d.sel
    BY <1>1, <1>2 DEF Restore
  <1>5. Now' \in SoundSnapshot
    BY <1>3, <1>4 DEF Now
  <1>6. Popped(stack) \in Seq(SoundSnapshot)
    BY <1>1, SubSeqFacts DEF Popped
  <1> QED
    BY <1>5, <1>6 DEF Restore, DocInv, DocumentsInv

LEMMA UndoSound == DocInv /\ Undo => DocInv'
  <1> SUFFICES ASSUME DocInv, Undo PROVE DocInv'
    OBVIOUS
  <1>1. undo # <<>> /\ Restore(undo) /\ undo' = Popped(undo)
    BY DEF Undo
  <1>2. redo' = Append(redo, Now)
    BY DEF Undo, Now
  <1>3. redo' \in Seq(SoundSnapshot)
    BY <1>2 DEF DocInv, DocumentsInv
  <1> QED
    BY <1>1, <1>3, RestoredSound DEF DocInv, DocumentsInv, ControlInv, RunIsOneStretch

LEMMA RedoSound == DocInv /\ Redo => DocInv'
  <1> SUFFICES ASSUME DocInv, Redo PROVE DocInv'
    OBVIOUS
  <1>1. redo # <<>> /\ Restore(redo) /\ redo' = Popped(redo)
    BY DEF Redo
  <1>2. undo' = Append(undo, Now)
    BY DEF Redo, Now
  <1>3. undo' \in Seq(SoundSnapshot)
    BY <1>2 DEF DocInv, DocumentsInv
  <1> QED
    BY <1>1, <1>3, RestoredSound DEF DocInv, DocumentsInv, ControlInv, RunIsOneStretch

LEMMA TypeCharSound ==
  ASSUME DocInv, NEW c \in Typed, TypeChar(c)
  PROVE  DocInv'
  <1>1. CASE pendingHigh' = TRUE /\ UNCHANGED <<text, sel, undo, redo, typingRun, ops>>
    BY <1>1 DEF DocInv, DocumentsInv, ControlInv, RunIsOneStretch, Now, Empty
  <1>2. CASE pendingHigh' = FALSE /\ Insert(<<"H", "L">>)
    <2>1. PICK p : p = <<"H", "L">>
      OBVIOUS
    <2>2. p \in Seq(Unit) /\ Len(p) = 2 /\ p[1] = "H" /\ p[2] = "L"
      BY <2>1 DEF Unit
    <2>3. TextSound(p)
      BY <2>2 DEF TextSound, WellFormed
    <2> QED
      BY <1>2, <2>1, <2>3, InsertSound
  <1>3. CASE /\ c \notin {"H", "L"}
             /\ pendingHigh' = FALSE
             /\ Insert(<<IF c = "r" THEN "n" ELSE c>>)
    <2>1. PICK d : d = IF c = "r" THEN "n" ELSE c
      OBVIOUS
    <2>2. d \in Unit \ {"r", "H", "L"}
      BY <1>3, <2>1, EditorAssumption DEF Unit
    <2>3. PICK p : p = <<d>>
      OBVIOUS
    <2>4. p \in Seq(Unit) /\ Len(p) = 1 /\ p[1] = d
      BY <2>2, <2>3
    <2>5. TextSound(p)
      BY <2>2, <2>4 DEF TextSound, WellFormed
    <2> QED
      BY <1>3, <2>1, <2>3, <2>5, InsertSound
  <1> QED
    BY <1>1, <1>2, <1>3 DEF TypeChar

\* The selection that deleteWordLeft and deleteWordRight delete.
LEMMA TargetSound ==
  ASSUME TextSound(text), SelectionSound(text, sel), NEW target \in Nat,
         NEW s, s = IF Empty(sel) THEN SelAt(Snap(text, sel.caret), Snap(text, target))
                                  ELSE sel
  PROVE  SelectionSound(text, s)
  <1>1. PICK a, c : a = Snap(text, sel.caret) /\ c = Snap(text, target)
    OBVIOUS
  <1>2. text \in Seq(Unit) /\ sel.caret \in Nat
    BY DEF TextSound, SelectionSound, Selection
  <1>3. PlaceSound(text, a) /\ PlaceSound(text, c)
    BY <1>1, <1>2, SnapSound
  <1> QED
    BY <1>1, <1>3, SelAtSound

LEMMA CaretWords ==
  ASSUME TextSound(text), SelectionSound(text, sel)
  PROVE  WordLeft(text, sel.caret) \in Nat /\ WordRight(text, sel.caret) \in Nat
  <1>1. text \in Seq(Unit) /\ Len(text) \in Nat /\ sel.caret \in 0..Len(text)
    BY DEF TextSound, SelectionSound, PlaceSound
  <1> QED
    BY <1>1, WordLeftInText, WordRightInText

LEMMA DeleteWordSound ==
  ASSUME DocInv, NEW target \in Nat, DeleteWord(target)
  PROVE  DocInv'
  <1>1. TextSound(text) /\ SelectionSound(text, sel)
    BY SoundSnapshotIs DEF DocInv, DocumentsInv, Now
  <1>2. PICK s : s = IF Empty(sel) THEN SelAt(Snap(text, sel.caret), Snap(text, target))
                                   ELSE sel
    OBVIOUS
  <1>3. SelectionSound(text, s)
    BY <1>1, <1>2, TargetSound
  <1>4. CASE ~Empty(s) /\ Erase(Lo(s), Hi(s), s) /\ UNCHANGED pendingHigh
    <2>1. /\ PlaceSound(text, Lo(s)) /\ PlaceSound(text, Hi(s))
          /\ Lo(s) <= Hi(s)
      BY <1>3, LoHiSound
    <2> QED
      BY <1>3, <1>4, <2>1, ErasedSound
  <1>5. CASE sel' = s /\ typingRun' = FALSE /\ UNCHANGED <<text, undo, redo, ops, pendingHigh>>
    <2>1. Now' \in SoundSnapshot
      BY <1>1, <1>3, <1>5, SoundSnapshotIs DEF Now
    <2> QED
      BY <1>5, <2>1 DEF DocInv, DocumentsInv, ControlInv, RunIsOneStretch
  <1> QED
    BY <1>2, <1>4, <1>5 DEF DeleteWord

LEMMA EditSound == DocInv /\ EditNext => DocInv'
  <1> SUFFICES ASSUME DocInv, EditNext PROVE DocInv'
    OBVIOUS
  <1>1. TextSound(text) /\ SelectionSound(text, sel)
    BY SoundSnapshotIs DEF DocInv, DocumentsInv, Now
  <1>2. text \in Seq(Unit) /\ sel.caret \in 0..Len(text) /\ PlaceSound(text, sel.caret)
    BY <1>1 DEF TextSound, SelectionSound, PlaceSound
  <1>3. ASSUME Erase(Lo(sel), Hi(sel), sel), UNCHANGED pendingHigh PROVE DocInv'
    <2>1. /\ PlaceSound(text, Lo(sel)) /\ PlaceSound(text, Hi(sel))
          /\ Lo(sel) <= Hi(sel)
      BY <1>1, LoHiSound
    <2> QED
      BY <1>1, <1>3, <2>1, ErasedSound
  <1>4. ASSUME NEW s \in Pasted, Paste(s) PROVE DocInv'
    <2>1. TextSound(Normalize(s))
      BY NormalizeSound, EditorAssumption
    <2> QED
      BY <1>4, <2>1, InsertSound DEF Paste, DocInv, ControlInv
  <1>5. ASSUME NEW s \in Pasted, SetText(s) PROVE DocInv'
    <2>1. PICK t : t = Normalize(s)
      OBVIOUS
    <2>2. TextSound(t)
      BY <2>1, NormalizeSound, EditorAssumption
    <2>3. PlaceSound(t, 0)
      BY <2>2, EndsSound DEF TextSound
    <2>4. /\ text' = t /\ sel' = Bare(0) /\ undo' = <<>> /\ redo' = <<>>
          /\ typingRun' = FALSE /\ pendingHigh' = FALSE /\ ops' = 0
      BY <1>5, <2>1 DEF SetText
    <2>5. Now' \in SoundSnapshot
      BY <2>2, <2>3, <2>4, BareSound, SoundSnapshotIs DEF Now
    <2>6. undo' \in Seq(SoundSnapshot) /\ redo' \in Seq(SoundSnapshot)
      BY <2>4
    <2>7. ops' \in 0..MaxOps
      BY <2>4, EditorAssumption
    <2> QED
      BY <2>4, <2>5, <2>6, <2>7 DEF DocInv, DocumentsInv, ControlInv, RunIsOneStretch
  <1>6. CASE Backspace
    <2>1. CASE Empty(sel)
      <3>1. sel.caret > 0 /\ Erase(StepLeft(text, sel.caret), sel.caret, sel)
        BY <1>6, <2>1 DEF Backspace
      <3>2. PICK a : a = StepLeft(text, sel.caret)
        OBVIOUS
      <3>3. PlaceSound(text, a) /\ a < sel.caret
        BY <1>2, <3>1, <3>2, StepLeftSound
      <3>4. a <= sel.caret
        BY <1>2, <3>3 DEF PlaceSound
      <3> QED
        BY <1>1, <1>2, <1>6, <3>1, <3>2, <3>3, <3>4, ErasedSound DEF Backspace
    <2> QED
      BY <1>3, <1>6, <2>1 DEF Backspace
  <1>7. CASE DeleteForward
    <2>1. CASE Empty(sel)
      <3>1. sel.caret < Len(text) /\ Erase(sel.caret, StepRight(text, sel.caret), sel)
        BY <1>7, <2>1 DEF DeleteForward
      <3>2. PICK b : b = StepRight(text, sel.caret)
        OBVIOUS
      <3>3. PlaceSound(text, b) /\ sel.caret < b
        BY <1>2, <3>1, <3>2, StepRightSound
      <3>4. sel.caret <= b
        BY <1>2, <3>3 DEF PlaceSound
      <3> QED
        BY <1>1, <1>2, <1>7, <3>1, <3>2, <3>3, <3>4, ErasedSound DEF DeleteForward
    <2> QED
      BY <1>3, <1>7, <2>1 DEF DeleteForward
  <1>8. CASE DeleteWordLeft
    <2>1. WordLeft(text, sel.caret) \in Nat
      BY <1>1, CaretWords
    <2> QED
      BY <1>8, <2>1, DeleteWordSound DEF DeleteWordLeft
  <1>9. CASE DeleteWordRight
    <2>1. WordRight(text, sel.caret) \in Nat
      BY <1>1, CaretWords
    <2> QED
      BY <1>9, <2>1, DeleteWordSound DEF DeleteWordRight
  <1>10. CASE DeleteSelection
    BY <1>3, <1>10 DEF DeleteSelection
  <1> QED
    BY <1>4, <1>5, <1>6, <1>7, <1>8, <1>9, <1>10, TypeCharSound DEF EditNext

LEMMA MoveSound == DocInv /\ MoveNext => DocInv'
  <1> SUFFICES ASSUME DocInv, MoveNext PROVE DocInv'
    OBVIOUS
  <1>1. TextSound(text) /\ SelectionSound(text, sel)
    BY SoundSnapshotIs DEF DocInv, DocumentsInv, Now
  <1>2. /\ text \in Seq(Unit) /\ Len(text) \in Nat
        /\ sel.caret \in 0..Len(text) /\ PlaceSound(text, sel.caret)
    BY <1>1 DEF TextSound, SelectionSound, PlaceSound
  <1>3. ASSUME NEW a, PlaceSound(text, a), Select(Bare(a)) PROVE DocInv'
    BY <1>3, BareSound, SelectSound
  <1>4. PlaceSound(text, Lo(sel)) /\ PlaceSound(text, Hi(sel))
    BY <1>1, LoHiSound
  <1>5. CASE SelectAll
    <2>1. SelectionSound(text, SelAt(0, Len(text)))
      BY <1>2, EndsSound, SelAtSound
    <2> QED
      BY <1>5, <2>1, SelectSound DEF SelectAll
  <1>6. ASSUME NEW off \in Offsets(text), SelectWordAt(off) PROVE DocInv'
    <2>1. off \in 0..Len(text) /\ off \in Nat
      BY <1>2 DEF Offsets
    <2>2. PICK a, c : a = WordAt(off).from /\ c = WordAt(off).to
      OBVIOUS
    <2>3. a \in Nat /\ c \in Nat
      BY <1>2, <2>1, <2>2, WordAtInText
    <2>4. SelectionSound(text, SelAt(Snap(text, a), Snap(text, c)))
      BY <1>2, <2>3, SnapSound, SelAtSound
    <2>5. CASE SetCaret(off, FALSE)
      BY <2>1, <2>5, SetCaretSound
    <2>6. CASE Select(SelAt(Snap(text, a), Snap(text, c)))
      BY <2>4, <2>6, SelectSound
    <2> QED
      BY <1>6, <2>2, <2>5, <2>6 DEF SelectWordAt, SetSelection
  <1>7. ASSUME NEW extend \in BOOLEAN, PlaceCaret(extend) PROVE DocInv'
    BY <1>2, <1>7, SetCaretSound DEF PlaceCaret
  <1>8. ASSUME NEW extend \in BOOLEAN, NEW byWord \in BOOLEAN, MoveLeft(extend, byWord)
        PROVE  DocInv'
    <2>1. WordLeft(text, sel.caret) \in Nat
      BY <1>1, CaretWords
    <2>2. StepLeft(text, sel.caret) \in Nat
      <3>1. CASE sel.caret = 0
        BY <3>1 DEF StepLeft
      <3>2. CASE sel.caret > 0
        BY <1>2, <3>2, StepLeftSound DEF PlaceSound
      <3> QED
        BY <1>2, <3>1, <3>2
    <2>3. PICK off \in Nat : off = IF byWord THEN WordLeft(text, sel.caret)
                                             ELSE StepLeft(text, sel.caret)
      BY <2>1, <2>2
    <2>4. Select(Bare(Lo(sel))) \/ SetCaret(off, extend)
      BY <1>8, <2>3 DEF MoveLeft
    <2> QED
      BY <1>3, <1>4, <2>4, SetCaretSound
  <1>9. ASSUME NEW extend \in BOOLEAN, NEW byWord \in BOOLEAN, MoveRight(extend, byWord)
        PROVE  DocInv'
    <2>1. WordRight(text, sel.caret) \in Nat
      BY <1>1, CaretWords
    <2>2. StepRight(text, sel.caret) \in Nat
      BY <1>2 DEF StepRight
    <2>3. PICK off \in Nat : off = IF byWord THEN WordRight(text, sel.caret)
                                             ELSE StepRight(text, sel.caret)
      BY <2>1, <2>2
    <2>4. Select(Bare(Hi(sel))) \/ SetCaret(off, extend)
      BY <1>9, <2>3 DEF MoveRight
    <2> QED
      BY <1>3, <1>4, <2>4, SetCaretSound
  <1>10. ASSUME NEW extend \in BOOLEAN, MoveLineHome(extend) \/ MoveLineEnd(extend)
         PROVE  DocInv'
    <2>1. LineStart(text, sel.caret) \in Nat /\ LineEnd(text, sel.caret) \in Nat
      BY <1>2, LineInText
    <2> QED
      BY <1>10, <2>1, SetCaretSound DEF MoveLineHome, MoveLineEnd
  <1>11. ASSUME NEW extend \in BOOLEAN, MoveDocStart(extend) \/ MoveDocEnd(extend)
         PROVE  DocInv'
    BY <1>2, <1>11, SetCaretSound DEF MoveDocStart, MoveDocEnd
  <1> QED
    BY <1>5, <1>6, <1>7, <1>8, <1>9, <1>10, <1>11 DEF MoveNext

LEMMA InitSound == Init => DocInv
  <1> SUFFICES ASSUME Init PROVE DocInv
    OBVIOUS
  <1>1. /\ text = <<>> /\ sel = Bare(0) /\ undo = <<>> /\ redo = <<>>
        /\ typingRun = FALSE /\ pendingHigh = FALSE /\ ops = 0
    BY DEF Init
  <1>2. Now \in SoundSnapshot
    BY <1>1, EmptyTextSound, BareSound, SoundSnapshotIs DEF Now
  <1>3. undo \in Seq(SoundSnapshot) /\ redo \in Seq(SoundSnapshot)
    BY <1>1
  <1>4. ControlInv
    <2>1. ops \in 0..MaxOps
      BY <1>1, EditorAssumption
    <2> QED
      BY <1>1, <2>1 DEF ControlInv
  <1>5. RunIsOneStretch
    BY <1>1 DEF RunIsOneStretch
  <1> QED
    BY <1>2, <1>3, <1>4, <1>5 DEF DocInv, DocumentsInv

\* DocInv holds in every reachable state.
THEOREM EditorDocumentInvariant == Spec => []DocInv
  <1>1. DocInv /\ [Next]_vars => DocInv'
    <2> SUFFICES ASSUME DocInv, [Next]_vars PROVE DocInv'
      OBVIOUS
    <2>1. CASE UNCHANGED vars
      BY <2>1 DEF vars, DocInv, DocumentsInv, ControlInv, RunIsOneStretch, Now, Empty
    <2> QED
      BY <2>1, EditSound, MoveSound, UndoSound, RedoSound DEF Next
  <1> QED
    BY <1>1, InitSound, PTL DEF Spec

LEMMA SoundSnapshotSound ==
  ASSUME NEW x \in SoundSnapshot
  PROVE  Sound(x.text, x.sel) /\ x \in Snapshot
  BY DEF SoundSnapshot, Sound, TextSound, SelectionSound, PlaceSound, Offsets

\* Every variable of the editor has its type.
THEOREM EditorTypeCorrect == Spec => []TypeOK
  <1>1. DocInv => TypeOK
    <2> SUFFICES ASSUME DocInv PROVE TypeOK
      OBVIOUS
    <2>1. SoundSnapshot \subseteq Snapshot
      BY DEF SoundSnapshot
    <2>2. undo \in Seq(Snapshot) /\ redo \in Seq(Snapshot)
      BY <2>1 DEF DocInv, DocumentsInv
    <2>3. TextSound(text) /\ SelectionSound(text, sel)
      BY SoundSnapshotIs DEF DocInv, DocumentsInv, Now
    <2> QED
      BY <2>2, <2>3 DEF DocInv, ControlInv, TypeOK, TextSound, SelectionSound
  <1> QED
    BY <1>1, EditorDocumentInvariant, PTL

\* Whatever is typed, pasted, deleted, selected, undone and redone: the text has
\* single line feeds and whole surrogate pairs, neither end of the selection lies
\* inside a pair, and so it is with every document that undo and redo can bring
\* back ("never land between a surrogate pair", EditorModel.h:110).
THEOREM EditorDocumentSound == Spec => []DocumentSound
  <1>1. DocInv => DocumentSound
    <2> SUFFICES ASSUME DocInv PROVE DocumentSound
      OBVIOUS
    <2>1. Sound(text, sel)
      <3>1. Now.text = text /\ Now.sel = sel
        BY DEF Now
      <3> QED
        BY <3>1, SoundSnapshotSound DEF DocInv, DocumentsInv
    <2>2. \A i \in DOMAIN undo : undo[i] \in SoundSnapshot
      BY SeqFacts DEF DocInv, DocumentsInv
    <2>3. \A i \in DOMAIN redo : redo[i] \in SoundSnapshot
      BY SeqFacts DEF DocInv, DocumentsInv
    <2> QED
      BY <2>1, <2>2, <2>3, SoundSnapshotSound DEF DocumentSound
  <1> QED
    BY <1>1, EditorDocumentInvariant, PTL

\* While typing goes on without a new snapshot, the last snapshot is the text
\* without what was typed in one stretch before the caret, within a line; so the
\* early return of recordPreEdit lets one undo take away that and no more.
THEOREM EditorRunIsOneStretch == Spec => []RunIsOneStretch
  <1>1. DocInv => RunIsOneStretch
    BY DEF DocInv
  <1> QED
    BY <1>1, EditorDocumentInvariant, PTL

-----------------------------------------------------------------------------
(* The line of texts that undo and redo walk on.                           *)

Line(u, t, r) ==
  [i \in 1..Len(u) |-> u[i].text] \o <<t>> \o [i \in 1..Len(r) |-> r[Len(r) + 1 - i].text]

\* T is that line, text by text.
IsLine(T, u, t, r) ==
  /\ T \in Seq(Seq(Unit))
  /\ Len(T) = Len(u) + 1 + Len(r)
  /\ \A i \in 1..Len(u) : T[i] = u[i].text
  /\ T[Len(u) + 1] = t
  /\ \A i \in (Len(u) + 2)..Len(T) : T[i] = r[Len(u) + Len(r) + 2 - i].text

LEMMA LineFacts ==
  ASSUME NEW u \in Seq(SoundSnapshot), NEW t \in Seq(Unit), NEW r \in Seq(SoundSnapshot),
         NEW T, T = Line(u, t, r)
  PROVE  IsLine(T, u, t, r)
  <1>1. PICK n \in Nat, m \in Nat : n = Len(u) /\ m = Len(r)
    OBVIOUS
  <1>2. PICK X : X = Seq(Unit)
    OBVIOUS
  <1>3. \A x \in SoundSnapshot : x.text \in X
    BY <1>2 DEF SoundSnapshot, Snapshot
  <1>4. (\A i \in 1..n : u[i] \in SoundSnapshot) /\ \A i \in 1..m : r[i] \in SoundSnapshot
    BY <1>1
  <1>5. PICK a, c : a = [i \in 1..n |-> u[i].text] /\ c = [i \in 1..m |-> r[m + 1 - i].text]
    OBVIOUS
  <1>6. a \in Seq(X) /\ Len(a) = n /\ \A i \in 1..n : a[i] = u[i].text
    BY <1>3, <1>4, <1>5
  <1>7. c \in Seq(X) /\ Len(c) = m /\ \A i \in 1..m : c[i] = r[m + 1 - i].text
    <2>1. \A i \in 1..m : r[m + 1 - i].text \in X
      BY <1>3, <1>4
    <2> QED
      BY <1>5, <2>1
  <1>8. PICK b : b = <<t>>
    OBVIOUS
  <1>9. b \in Seq(X) /\ Len(b) = 1 /\ b[1] = t
    BY <1>2, <1>8
  <1>10. PICK h : h = a \o b
    OBVIOUS
  <1>11. /\ h \in Seq(X)
         /\ Len(h) = n + 1
         /\ \A i \in 1..n : h[i] = u[i].text
         /\ h[n + 1] = t
    <2>1. /\ a \o b \in Seq(X)
          /\ Len(a \o b) = Len(a) + Len(b)
          /\ \A i \in 1..Len(a) : (a \o b)[i] = a[i]
          /\ \A i \in (Len(a) + 1)..(Len(a) + Len(b)) : (a \o b)[i] = b[i - Len(a)]
      BY <1>6, <1>9, ConcatFacts
    <2>2. n + 1 \in (n + 1)..(n + 1) /\ (n + 1) - n = 1
      OBVIOUS
    <2> QED
      BY <1>6, <1>9, <1>10, <2>1, <2>2
  <1>12. T = h \o c
    BY <1>1, <1>5, <1>8, <1>10 DEF Line
  <1>13. /\ T \in Seq(X)
         /\ Len(T) = n + 1 + m
         /\ \A i \in 1..(n + 1) : T[i] = h[i]
         /\ \A i \in (n + 2)..(n + 1 + m) : T[i] = c[i - (n + 1)]
    <2>1. /\ h \o c \in Seq(X)
          /\ Len(h \o c) = Len(h) + Len(c)
          /\ \A i \in 1..Len(h) : (h \o c)[i] = h[i]
          /\ \A i \in (Len(h) + 1)..(Len(h) + Len(c)) : (h \o c)[i] = c[i - Len(h)]
      <3>1. h \in Seq(X) /\ c \in Seq(X)
        BY <1>7, <1>11
      <3> QED
        BY <3>1, ConcatFacts
    <2> QED
      BY <1>7, <1>11, <1>12, <2>1
  <1>14. ASSUME NEW i \in (n + 2)..(n + 1 + m) PROVE T[i] = r[n + m + 2 - i].text
    <2>1. i - (n + 1) \in 1..m /\ m + 1 - (i - (n + 1)) = n + m + 2 - i
      OBVIOUS
    <2> QED
      BY <1>7, <1>13, <2>1
  <1>15. \A i \in 1..n : T[i] = u[i].text
    <2>1. 1..n \subseteq 1..(n + 1)
      OBVIOUS
    <2> QED
      BY <1>11, <1>13, <2>1
  <1>16. T[n + 1] = t
    BY <1>11, <1>13
  <1> QED
    BY <1>1, <1>2, <1>13, <1>14, <1>15, <1>16 DEF IsLine

\* Two lines of the same texts are one.
LEMMA SameLine ==
  ASSUME NEW T \in Seq(Seq(Unit)), NEW U \in Seq(Seq(Unit)), Len(T) = Len(U),
         \A i \in 1..Len(T) : T[i] = U[i]
  PROVE  T = U
  BY SameSequence

\* The document moves from one stack to the other and the next one takes its
\* place: u and v are the stack left and the stack joined.
LEMMA UndoLine ==
  ASSUME NEW u \in Seq(SoundSnapshot), u # <<>>, NEW t \in Seq(Unit),
         NEW r \in Seq(SoundSnapshot), NEW s, [text |-> t, sel |-> s] \in SoundSnapshot
  PROVE  Line(Popped(u), u[Len(u)].text, Append(r, [text |-> t, sel |-> s])) = Line(u, t, r)
  <1>1. PICK n \in Nat \ {0}, m \in Nat : n = Len(u) /\ m = Len(r)
    OBVIOUS
  <1>2. PICK d \in SoundSnapshot : d = [text |-> t, sel |-> s]
    OBVIOUS
  <1>3. PICK p, q, x : p = Popped(u) /\ q = Append(r, d) /\ x = u[n].text
    OBVIOUS
  <1>4. p \in Seq(SoundSnapshot) /\ Len(p) = n - 1 /\ \A i \in 1..(n - 1) : p[i] = u[i]
    <2>1. /\ SubSeq(u, 1, n - 1) \in Seq(SoundSnapshot)
          /\ Len(SubSeq(u, 1, n - 1)) = n - 1 + 1 - 1
          /\ \A i \in 1..(n - 1 + 1 - 1) : SubSeq(u, 1, n - 1)[i] = u[1 + i - 1]
      BY <1>1, SubSeqFacts
    <2>2. n - 1 + 1 - 1 = n - 1 /\ \A i \in 1..(n - 1) : 1 + i - 1 = i
      OBVIOUS
    <2> QED
      BY <1>1, <1>3, <2>1, <2>2 DEF Popped
  <1>5. /\ q \in Seq(SoundSnapshot)
        /\ Len(q) = m + 1
        /\ \A i \in 1..m : q[i] = r[i]
        /\ q[m + 1] = d
    BY <1>1, <1>2, <1>3, AppendFacts
  <1>6. x \in Seq(Unit)
    BY <1>1, <1>3 DEF SoundSnapshot, Snapshot
  <1>7. PICK T, U : T = Line(p, x, q) /\ U = Line(u, t, r)
    OBVIOUS
  <1>8. IsLine(T, p, x, q) /\ IsLine(U, u, t, r)
    BY <1>4, <1>5, <1>6, <1>7, LineFacts
  <1>9. /\ T \in Seq(Seq(Unit))
        /\ Len(T) = n + 1 + m
        /\ \A i \in 1..(n - 1) : T[i] = p[i].text
        /\ T[n] = x
        /\ \A i \in (n + 1)..(n + 1 + m) : T[i] = q[n + m + 2 - i].text
    <2>1. Len(T) = n + 1 + m /\ (n - 1) + 2 = n + 1 /\ (n - 1) + 1 = n
      BY <1>1, <1>4, <1>5, <1>8 DEF IsLine
    <2>2. \A i \in (n + 1)..(n + 1 + m) : (n - 1) + (m + 1) + 2 - i = n + m + 2 - i
      OBVIOUS
    <2> QED
      BY <1>4, <1>5, <1>8, <2>1, <2>2 DEF IsLine
  <1>10. /\ U \in Seq(Seq(Unit))
         /\ Len(U) = n + 1 + m
         /\ \A i \in 1..n : U[i] = u[i].text
         /\ U[n + 1] = t
         /\ \A i \in (n + 2)..(n + 1 + m) : U[i] = r[n + m + 2 - i].text
    BY <1>1, <1>8 DEF IsLine
  <1>11. ASSUME NEW i \in 1..(n + 1 + m) PROVE T[i] = U[i]
    <2>1. CASE i \in 1..(n - 1)
      <3>1. i \in 1..n
        BY <2>1
      <3> QED
        BY <1>4, <1>9, <1>10, <2>1, <3>1
    <2>2. CASE i = n
      <3>1. n \in 1..n
        OBVIOUS
      <3> QED
        BY <1>3, <1>9, <1>10, <2>2, <3>1
    <2>3. CASE i = n + 1
      <3>1. n + m + 2 - i = m + 1 /\ i \in (n + 1)..(n + 1 + m)
        BY <2>3
      <3>2. T[i] = q[m + 1].text
        BY <1>9, <3>1
      <3>3. q[m + 1].text = t
        BY <1>2, <1>5
      <3> QED
        BY <1>10, <2>3, <3>2, <3>3
    <2>4. CASE i \in (n + 2)..(n + 1 + m)
      <3>1. n + m + 2 - i \in 1..m /\ i \in (n + 1)..(n + 1 + m)
        BY <2>4
      <3>2. T[i] = q[n + m + 2 - i].text
        BY <1>9, <3>1
      <3>3. q[n + m + 2 - i] = r[n + m + 2 - i]
        BY <1>5, <3>1
      <3> QED
        BY <1>10, <2>4, <3>2, <3>3
    <2> QED
      BY <2>1, <2>2, <2>3, <2>4
  <1>12. T = U
    BY <1>9, <1>10, <1>11, SameLine
  <1> QED
    BY <1>1, <1>2, <1>3, <1>7, <1>12

LEMMA RedoLine ==
  ASSUME NEW u \in Seq(SoundSnapshot), NEW t \in Seq(Unit),
         NEW r \in Seq(SoundSnapshot), r # <<>>, NEW s, [text |-> t, sel |-> s] \in SoundSnapshot
  PROVE  Line(Append(u, [text |-> t, sel |-> s]), r[Len(r)].text, Popped(r)) = Line(u, t, r)
  <1>1. PICK p, q, x : /\ p = Popped(r) /\ q = Append(u, [text |-> t, sel |-> s])
                       /\ x = r[Len(r)]
    OBVIOUS
  <1>2. PICK n \in Nat, m \in Nat \ {0} : n = Len(u) /\ m = Len(r)
    OBVIOUS
  <1>3. x \in SoundSnapshot /\ x = [text |-> x.text, sel |-> x.sel]
    BY <1>1, <1>2 DEF SoundSnapshot, Snapshot
  <1>4. p \in Seq(SoundSnapshot) /\ Len(p) = m - 1 /\ \A i \in 1..(m - 1) : p[i] = r[i]
    <2>1. /\ SubSeq(r, 1, m - 1) \in Seq(SoundSnapshot)
          /\ Len(SubSeq(r, 1, m - 1)) = m - 1 + 1 - 1
          /\ \A i \in 1..(m - 1 + 1 - 1) : SubSeq(r, 1, m - 1)[i] = r[1 + i - 1]
      BY <1>2, SubSeqFacts
    <2>2. m - 1 + 1 - 1 = m - 1 /\ \A i \in 1..(m - 1) : 1 + i - 1 = i
      OBVIOUS
    <2> QED
      BY <1>1, <1>2, <2>1, <2>2 DEF Popped
  <1>5. /\ q \in Seq(SoundSnapshot)
        /\ Len(q) = n + 1
        /\ \A i \in 1..n : q[i] = u[i]
        /\ q[n + 1] = [text |-> t, sel |-> s]
    BY <1>1, <1>2, AppendFacts
  <1>6. Append(p, x) = r
    <2>1. PICK z : z = Append(p, x)
      OBVIOUS
    <2>2. /\ z \in Seq(SoundSnapshot)
          /\ Len(z) = m
          /\ \A i \in 1..(m - 1) : z[i] = p[i]
          /\ z[m] = x
      <3>1. /\ Append(p, x) \in Seq(SoundSnapshot)
            /\ Len(Append(p, x)) = Len(p) + 1
            /\ \A i \in 1..Len(p) : Append(p, x)[i] = p[i]
            /\ Append(p, x)[Len(p) + 1] = x
        BY <1>3, <1>4, AppendFacts
      <3> QED
        BY <1>4, <2>1, <3>1
    <2>3. \A i \in 1..m : z[i] = r[i]
      BY <1>1, <1>2, <1>4, <2>2
    <2> QED
      BY <1>2, <2>1, <2>2, <2>3, SameSequence
  <1>7. Popped(q) = u
    <2>1. PICK z : z = Popped(q)
      OBVIOUS
    <2>2. z \in Seq(SoundSnapshot) /\ Len(z) = n /\ \A i \in 1..n : z[i] = q[i]
      <3>1. /\ SubSeq(q, 1, n) \in Seq(SoundSnapshot)
            /\ Len(SubSeq(q, 1, n)) = n + 1 - 1
            /\ \A i \in 1..(n + 1 - 1) : SubSeq(q, 1, n)[i] = q[1 + i - 1]
        BY <1>5, SubSeqFacts
      <3>2. n + 1 - 1 = n /\ \A i \in 1..n : 1 + i - 1 = i
        OBVIOUS
      <3> QED
        BY <1>5, <2>1, <3>1, <3>2 DEF Popped
    <2>3. \A i \in 1..n : z[i] = u[i]
      BY <1>5, <2>2
    <2> QED
      BY <1>2, <2>1, <2>2, <2>3, SameSequence
  <1>8. q # <<>> /\ q[Len(q)].text = t
    BY <1>5
  <1>9. x.text \in Seq(Unit)
    BY <1>3 DEF SoundSnapshot, Snapshot
  <1>10. Line(Popped(q), q[Len(q)].text, Append(p, [text |-> x.text, sel |-> x.sel]))
           = Line(q, x.text, p)
    BY <1>3, <1>4, <1>5, <1>8, <1>9, UndoLine
  <1>11. Append(p, [text |-> x.text, sel |-> x.sel]) = r
    BY <1>3, <1>6
  <1> QED
    BY <1>1, <1>7, <1>8, <1>10, <1>11

\* The stack v holds m texts of the line T, from the text k on.
Holds(v, T, k, m) ==
  /\ v \in Seq(SoundSnapshot)
  /\ Len(v) = m
  /\ \A i \in 1..m : v[i].text = T[k - 1 + i]

\* The line of the stack v and a new text x, with nothing to redo, is the texts k
\* to l of T and x.
GoesOn(v, x, T, k, l) == Line(v, x, <<>>) = SubSeq(T, k, l) \o <<x>>

LEMMA KeptLine ==
  ASSUME NEW T \in Seq(Seq(Unit)), NEW k \in Nat \ {0}, NEW m \in Nat, NEW v,
         Holds(v, T, k, m), NEW l, l = k - 1 + m, l <= Len(T), NEW x \in Seq(Unit)
  PROVE  GoesOn(v, x, T, k, l)
  <1>1. PICK X : X = Seq(Unit)
    OBVIOUS
  <1>2. PICK e : e = <<>>
    OBVIOUS
  <1>3. e \in Seq(SoundSnapshot) /\ Len(e) = 0
    BY <1>2
  <1>4. PICK U : U = Line(v, x, e)
    OBVIOUS
  <1>5. IsLine(U, v, x, e)
    BY <1>3, <1>4, LineFacts DEF Holds
  <1>6. /\ U \in Seq(X)
        /\ Len(U) = m + 1
        /\ \A i \in 1..m : U[i] = T[k - 1 + i]
        /\ U[m + 1] = x
    <2>1. Len(v) = m /\ \A i \in 1..m : v[i].text = T[k - 1 + i]
      BY DEF Holds
    <2>2. U \in Seq(X)
      BY <1>1, <1>5 DEF IsLine
    <2>3. Len(U) = m + 1 /\ (\A i \in 1..m : U[i] = v[i].text) /\ U[m + 1] = x
      BY <1>3, <1>5, <2>1 DEF IsLine
    <2> QED
      BY <2>1, <2>2, <2>3
  <1>7. PICK a : a = SubSeq(T, k, l)
    OBVIOUS
  <1>8. a \in Seq(X) /\ Len(a) = m /\ \A i \in 1..m : a[i] = T[k - 1 + i]
    <2>1. k \in Int /\ l \in Int /\ k >= 1 /\ l <= Len(T) /\ k <= l + 1
      OBVIOUS
    <2>2. /\ SubSeq(T, k, l) \in Seq(X)
          /\ Len(SubSeq(T, k, l)) = l + 1 - k
          /\ \A i \in 1..(l + 1 - k) : SubSeq(T, k, l)[i] = T[k + i - 1]
      BY <1>1, <2>1, SubSeqFacts
    <2>3. l + 1 - k = m /\ \A i \in 1..m : k + i - 1 = k - 1 + i
      OBVIOUS
    <2> QED
      BY <1>7, <2>2, <2>3
  <1>9. PICK w : w = Append(a, x)
    OBVIOUS
  <1>10. w \in Seq(X) /\ Len(w) = m + 1 /\ (\A i \in 1..m : w[i] = a[i]) /\ w[m + 1] = x
    <2>1. x \in X /\ a \in Seq(X)
      BY <1>1, <1>8
    <2>2. /\ Append(a, x) \in Seq(X)
          /\ Len(Append(a, x)) = Len(a) + 1
          /\ \A i \in 1..Len(a) : Append(a, x)[i] = a[i]
          /\ Append(a, x)[Len(a) + 1] = x
      BY <2>1, AppendFacts
    <2> QED
      BY <1>8, <1>9, <2>2
  <1>11. a \o <<x>> = w
    BY <1>1, <1>8, <1>9
  <1>12. ASSUME NEW i \in 1..(m + 1) PROVE U[i] = w[i]
    <2>1. CASE i \in 1..m
      BY <1>6, <1>8, <1>10, <2>1
    <2>2. CASE i = m + 1
      BY <1>6, <1>10, <2>2
    <2> QED
      BY <2>1, <2>2
  <1>13. U = w
    BY <1>1, <1>6, <1>10, <1>12, SameLine
  <1> QED
    BY <1>2, <1>4, <1>7, <1>11, <1>13 DEF GoesOn

\* What TimelineKept allows a step.
TimelineStep ==
  \/ Timeline' = Timeline
  \/ /\ redo' = <<>>
     /\ \E k \in {1, 2} :
          Timeline' = SubSeq(Timeline, k, Len(undo) + 1) \o <<text'>>
  \/ /\ typingRun
     /\ Timeline' = SubSeq(Timeline, 1, Len(undo)) \o <<text'>>
  \/ \E s \in Pasted : SetText(s) /\ Timeline' = <<text'>>

LEMMA TimelineIs ==
  /\ Timeline = Line(undo, text, redo)
  /\ Timeline' = Line(undo', text', redo')
  BY DEF Timeline, Line

\* recordPreEdit, whatever the edit then makes of the text.
LEMMA RecordTimeline ==
  ASSUME DocInv, NEW e, NEW s, SelectionSound(text, s), RecordPreEdit(e, s),
         text' \in Seq(Unit)
  PROVE  TimelineStep
  <1>1. text \in Seq(Unit) /\ undo \in Seq(SoundSnapshot) /\ redo \in Seq(SoundSnapshot)
    BY SoundSnapshotIs DEF DocInv, DocumentsInv, Now, TextSound
  <1>2. PICK n \in Nat : n = Len(undo)
    BY <1>1
  <1>3. PICK x \in Seq(Unit) : x = text'
    OBVIOUS
  <1>4. PICK T : T = Line(undo, text, redo)
    OBVIOUS
  <1>5. /\ T \in Seq(Seq(Unit))
        /\ Len(T) \in Nat /\ n + 1 <= Len(T)
        /\ \A i \in 1..n : T[i] = undo[i].text
        /\ T[n + 1] = text
    <2>1. IsLine(T, undo, text, redo)
      BY <1>1, <1>4, LineFacts
    <2>2. Len(redo) \in Nat
      BY <1>1
    <2> QED
      BY <1>2, <2>1, <2>2 DEF IsLine
  <1>6. CASE e /\ typingRun
    <2>1. undo' = undo /\ redo' = redo
      BY <1>6 DEF RecordPreEdit
    <2>2. redo = <<>>
      BY <1>6 DEF DocInv, RunIsOneStretch
    <2>3. Holds(undo, T, 1, n)
      <3>1. \A i \in 1..n : 1 - 1 + i = i
        OBVIOUS
      <3> QED
        BY <1>1, <1>2, <1>5, <3>1 DEF Holds
    <2>4. n = 1 - 1 + n /\ n <= Len(T)
      BY <1>5
    <2>5. GoesOn(undo, x, T, 1, n)
      BY <1>5, <2>3, <2>4, KeptLine
    <2> QED
      BY <1>2, <1>3, <1>4, <1>6, <2>1, <2>2, <2>5, TimelineIs DEF TimelineStep, GoesOn
  <1>7. CASE ~(e /\ typingRun)
    <2>1. PICK d \in SoundSnapshot : d = [text |-> text, sel |-> s]
      BY SoundSnapshotIs DEF DocInv, DocumentsInv, Now
    <2>2. PICK u : u = Append(undo, d)
      OBVIOUS
    <2>3. undo' = (IF Len(u) > MaxUndo THEN Tail(u) ELSE u) /\ redo' = <<>>
      BY <1>7, <2>1, <2>2 DEF RecordPreEdit
    <2>4. /\ u \in Seq(SoundSnapshot)
          /\ u # <<>>
          /\ Len(u) = n + 1
          /\ \A i \in 1..n : u[i] = undo[i]
          /\ u[n + 1] = d
      BY <1>1, <1>2, <2>2, AppendFacts
    <2>5. ASSUME NEW i \in 1..(n + 1) PROVE u[i].text = T[i]
      <3>1. CASE i \in 1..n
        BY <1>5, <2>4, <3>1
      <3>2. CASE i = n + 1
        BY <1>5, <2>1, <2>4, <3>2
      <3> QED
        BY <3>1, <3>2
    <2>6. n + 1 \in Nat /\ n + 1 <= Len(T)
      BY <1>5
    <2>7. GoesOn(u, x, T, 1, n + 1)
      <3>1. Holds(u, T, 1, n + 1)
        <4>1. \A i \in 1..(n + 1) : 1 - 1 + i = i
          OBVIOUS
        <4> QED
          BY <2>4, <2>5, <4>1 DEF Holds
      <3>2. PICK l \in Nat : l = n + 1
        OBVIOUS
      <3>3. l = 1 - 1 + l /\ l <= Len(T) /\ Holds(u, T, 1, l) /\ 1 \in Nat \ {0}
        BY <2>6, <3>1, <3>2
      <3>4. GoesOn(u, x, T, 1, l)
        BY <1>5, <3>3, KeptLine
      <3> QED
        BY <3>2, <3>4
    <2>8. GoesOn(Tail(u), x, T, 2, n + 1)
      <3>1. PICK v : v = Tail(u)
        OBVIOUS
      <3>2. v \in Seq(SoundSnapshot) /\ Len(v) = n /\ \A i \in 1..n : v[i] = u[i + 1]
        BY <2>4, <3>1, TailFacts
      <3>3. \A i \in 1..n : 2 - 1 + i = i + 1 /\ i + 1 \in 1..(n + 1)
        OBVIOUS
      <3>4. Holds(v, T, 2, n)
        BY <2>5, <3>2, <3>3 DEF Holds
      <3>5. n + 1 = 2 - 1 + n
        OBVIOUS
      <3> QED
        BY <1>5, <2>6, <3>1, <3>4, <3>5, KeptLine
    <2>9. \E k \in {1, 2} : Line(undo', x, redo') = SubSeq(T, k, n + 1) \o <<x>>
      BY <2>3, <2>7, <2>8 DEF GoesOn
    <2> QED
      BY <1>2, <1>3, <1>4, <2>3, <2>9, TimelineIs DEF TimelineStep
  <1> QED
    BY <1>6, <1>7

LEMMA StillTimeline ==
  ASSUME UNCHANGED <<text, undo, redo>>
  PROVE  TimelineStep
  BY TimelineIs DEF TimelineStep

LEMMA SetTextTimeline ==
  ASSUME NEW s \in Pasted, SetText(s), text' \in Seq(Unit)
  PROVE  TimelineStep
  <1>1. PICK x, e : x = text' /\ e = <<>>
    OBVIOUS
  <1>2. /\ undo' = e /\ redo' = e
        /\ x \in Seq(Unit) /\ e \in Seq(SoundSnapshot) /\ Len(e) = 0
    BY <1>1 DEF SetText
  <1>3. PICK U : U = Line(e, x, e)
    OBVIOUS
  <1>4. IsLine(U, e, x, e)
    BY <1>2, <1>3, LineFacts
  <1>5. U \in Seq(Seq(Unit)) /\ Len(U) = 1 /\ U[1] = x
    BY <1>2, <1>4 DEF IsLine
  <1>6. PICK w : w = <<x>>
    OBVIOUS
  <1>7. w \in Seq(Seq(Unit)) /\ Len(w) = 1 /\ w[1] = x
    BY <1>2, <1>6
  <1>8. \A i \in 1..1 : U[i] = w[i]
    BY <1>5, <1>7
  <1>9. U = w
    BY <1>5, <1>7, <1>8, SameLine
  <1> QED
    BY <1>1, <1>2, <1>3, <1>6, <1>9, TimelineIs DEF TimelineStep

LEMMA UndoTimeline == DocInv /\ (Undo \/ Redo) => TimelineStep
  <1> SUFFICES ASSUME DocInv, Undo \/ Redo PROVE TimelineStep
    OBVIOUS
  <1>1. /\ text \in Seq(Unit) /\ undo \in Seq(SoundSnapshot) /\ redo \in Seq(SoundSnapshot)
        /\ [text |-> text, sel |-> sel] \in SoundSnapshot
    BY SoundSnapshotIs DEF DocInv, DocumentsInv, Now, TextSound
  <1>2. CASE Undo
    <2>1. /\ undo # <<>>
          /\ redo' = Append(redo, [text |-> text, sel |-> sel])
          /\ undo' = Popped(undo)
          /\ text' = undo[Len(undo)].text
      BY <1>2 DEF Undo, Restore
    <2>2. Line(undo', text', redo') = Line(undo, text, redo)
      BY <1>1, <2>1, UndoLine
    <2> QED
      BY <2>2, TimelineIs DEF TimelineStep
  <1>3. CASE Redo
    <2>1. /\ redo # <<>>
          /\ undo' = Append(undo, [text |-> text, sel |-> sel])
          /\ redo' = Popped(redo)
          /\ text' = redo[Len(redo)].text
      BY <1>3 DEF Redo, Restore
    <2>2. Line(undo', text', redo') = Line(undo, text, redo)
      BY <1>1, <2>1, RedoLine
    <2> QED
      BY <2>2, TimelineIs DEF TimelineStep
  <1> QED
    BY <1>2, <1>3

LEMMA MoveTimeline == MoveNext => TimelineStep
  <1> SUFFICES ASSUME MoveNext PROVE TimelineStep
    OBVIOUS
  <1>1. ASSUME NEW s, Select(s) PROVE TimelineStep
    BY <1>1, StillTimeline DEF Select
  <1>2. ASSUME NEW off, NEW extend, SetCaret(off, extend) PROVE TimelineStep
    BY <1>1, <1>2 DEF SetCaret
  <1> QED
    BY <1>1, <1>2 DEF MoveNext, SelectAll, SelectWordAt, SetSelection, PlaceCaret,
                      MoveLeft, MoveRight, MoveLineHome, MoveLineEnd,
                      MoveDocStart, MoveDocEnd

LEMMA EditTimeline == DocInv /\ DocInv' /\ EditNext => TimelineStep
  <1> SUFFICES ASSUME DocInv, DocInv', EditNext PROVE TimelineStep
    OBVIOUS
  <1>1. TextSound(text) /\ SelectionSound(text, sel)
    BY SoundSnapshotIs DEF DocInv, DocumentsInv, Now
  <1>2. text' \in Seq(Unit)
    <2>1. Now' \in SoundSnapshot
      BY DEF DocInv, DocumentsInv
    <2>2. [text |-> text', sel |-> sel'] \in SoundSnapshot
      BY <2>1 DEF Now
    <2> QED
      BY <2>2, SoundSnapshotIs DEF TextSound
  <1>3. ASSUME NEW s, Insert(s) PROVE TimelineStep
    BY <1>1, <1>2, <1>3, RecordTimeline DEF Insert
  <1>4. ASSUME NEW a, NEW b, Erase(a, b, sel) PROVE TimelineStep
    BY <1>1, <1>2, <1>4, RecordTimeline DEF Erase
  <1>5. ASSUME NEW c \in Typed, TypeChar(c) PROVE TimelineStep
    BY <1>3, <1>5, StillTimeline DEF TypeChar
  <1>6. ASSUME NEW s \in Pasted, Paste(s) PROVE TimelineStep
    BY <1>3, <1>6 DEF Paste
  <1>7. ASSUME NEW s \in Pasted, SetText(s) PROVE TimelineStep
    BY <1>2, <1>7, SetTextTimeline
  <1>8. CASE DeleteSelection \/ Backspace \/ DeleteForward
    BY <1>4, <1>8 DEF DeleteSelection, Backspace, DeleteForward
  <1>9. ASSUME NEW target \in Nat, DeleteWord(target) PROVE TimelineStep
    <2>1. PICK s : s = IF Empty(sel) THEN SelAt(Snap(text, sel.caret), Snap(text, target))
                                     ELSE sel
      OBVIOUS
    <2>2. SelectionSound(text, s)
      BY <1>1, <1>9, <2>1, TargetSound
    <2>3. Erase(Lo(s), Hi(s), s) \/ UNCHANGED <<text, undo, redo>>
      BY <1>9, <2>1 DEF DeleteWord
    <2> QED
      BY <1>2, <2>2, <2>3, RecordTimeline, StillTimeline DEF Erase
  <1>10. WordLeft(text, sel.caret) \in Nat /\ WordRight(text, sel.caret) \in Nat
    BY <1>1, CaretWords
  <1> QED
    BY <1>5, <1>6, <1>7, <1>8, <1>9, <1>10 DEF EditNext, DeleteWordLeft, DeleteWordRight

\* What can be undone and redone is one line of texts, in the order they were
\* written: undo, redo and movements leave it alone, an edit cuts it off after
\* the present text, giving up the oldest at most, and adds the new one, a typing
\* run rewrites the last, and only setting the text empties it.
THEOREM EditorTimelineKept == Spec => TimelineKept
  <1>1. DocInv /\ DocInv' /\ [Next]_vars => [TimelineStep]_vars
    BY EditTimeline, MoveTimeline, UndoTimeline DEF Next
  <1>2. [][TimelineStep]_vars => TimelineKept
    BY DEF TimelineKept, TimelineStep
  <1> QED
    BY <1>1, <1>2, EditorDocumentInvariant, PTL DEF Spec
=============================================================================
