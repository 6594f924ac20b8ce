---------------------------- MODULE MCFileTable ----------------------------
(* FileTable for TLC: the processes are interchangeable. *)
EXTENDS FileTable, TLC

\* A descriptor that programs close, and one that they do not, both ways; one
\* that is out of range.
MCDup2Args == {<<1, 2>>, <<2, 1>>, <<2, OPEN_MAX>>}

Symmetry == Permutations(Proc)

============================================================================
