------------------------------ MODULE StoresMC ------------------------------
(* Two processes that start on stores that are empty, or hold two entries   *)
(* each where two is the cap.                                               *)
EXTENDS Stores, TLC

MCConns == {[engine |-> "Postgres", target |-> "x", sslMode |-> "require"],
            [engine |-> "Sqlite", target |-> "x", sslMode |-> "off"]}
A == [letter |-> 1, upper |-> TRUE]
B == [letter |-> 2, upper |-> FALSE]
MCNames == {[A EXCEPT !.upper = FALSE], [B EXCEPT !.letter = 3]}

Named(name, target) ==
  [name |-> name, engine |-> "Postgres", target |-> target, sslMode |-> "prefer"]
Entry(sql, id) == [id |-> id, sql |-> sql, runCount |-> 1]
Snippet(name, sql, id) == [id |-> id, name |-> name, sql |-> sql]

CONSTANTS q1, q2, q3
MCKept ==
  {[f \in Files |-> <<>>],
   [recents |-> <<[Named(None, "y") EXCEPT !.sslMode = None], Named(None, "x")>>,
    profiles |-> <<Named(A, "x"), Named(B, "y")>>,
    history |-> <<Entry(q1, -1), Entry(q2, -2)>>,
    snippets |-> <<Snippet(A, q1, -1), Snippet(B, q2, -2)>>]}

Alike == Permutations(Processes)
=============================================================================
