--------------------------- MODULE ResultsGridMC ---------------------------
(* The first result has texts with numbers and a NULL, and beside them the  *)
(* equal numbers 01 and 1 and a row too short to have one; the second is    *)
(* the cycle -3 < -3a < -5 < -3.                                            *)
EXTENDS ResultsGrid

a == 10
MCNull == <<14>>
MCResults ==
  {[columns |-> 2, rows |-> << <<<<a + 1, 1, 0>>, <<0, 1>>>>, <<<<a, 2>>, <<1>>>>,
                               <<MCNull>> >>],
   [columns |-> 1, rows |-> << <<<<-1, 3>>>>, <<<<-1, 5>>>>, <<<<-1, 3, a>>>> >>]}
MCTexts == {<<>>, <<a>>, <<a + 1>>}
MCSizes == {[w |-> 7, h |-> 5], [w |-> 4, h |-> 2]}
=============================================================================
