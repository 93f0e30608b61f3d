------------------------------- MODULE Lists -------------------------------
(***************************************************************************)
(* What the vectors of several components have in common.                  *)
(***************************************************************************)
EXTENDS Integers, Sequences

EntriesOf(list) == {list[n] : n \in 1..Len(list)}

\* The list with the entries of a set left out.
Without(list, dropped) ==
  LET upTo[n \in 0..Len(list)] ==
        IF n = 0 THEN <<>>
        ELSE IF list[n] \in dropped THEN upTo[n - 1]
        ELSE Append(upTo[n - 1], list[n])
  IN  upTo[Len(list)]
=============================================================================
