-------------------------- MODULE MCEmbeddingQueue --------------------------
(* A small instance of EmbeddingQueue for TLC. *)
EXTENDS EmbeddingQueue, TLC


MCRows == 1..2
MCOneTable == [r \in Rows |-> "matrix_nodes"]
MCTables == [r \in Rows |-> IF r = 1 THEN "matrix_nodes" ELSE "ledger_events"]

Symmetry == Permutations(Workers) \cup Permutations(Writers)
=============================================================================
