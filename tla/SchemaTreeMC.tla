---------------------------- MODULE SchemaTreeMC ----------------------------
(* Two databases, of the two engines, that have a table name in common.     *)
EXTENDS SchemaTree, TLC

MCConns == {[engine |-> "Sqlite", tables |-> {"t", "u"}],
            [engine |-> "Postgres", tables |-> {"t"}]}
Alike == Permutations(Handles)
=============================================================================
