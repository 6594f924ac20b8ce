----------------------------- MODULE MCPidTable -----------------------------
(* PidTable for TLC: the memory cells are interchangeable. *)
EXTENDS PidTable, TLC

Symmetry == Permutations(Cell)

=============================================================================
