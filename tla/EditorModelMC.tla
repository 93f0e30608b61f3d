---------------------------- MODULE EditorModelMC ----------------------------
(* The editor with short pastes and two undo steps.                        *)
EXTENDS EditorModel

\* Two words and a blank, a pair beside punctuation, and the line breaks that
\* are normalised.
MCPasted == {<<"s", "w">>, <<"H", "L">>, <<"r", "n">>}
MCTyped == {"w", "H", "L"}
=============================================================================
