------------------------------ MODULE MCSemfs ------------------------------
(* Semfs for TLC: threads are interchangeable. *)
EXTENDS Semfs, TLC

Symmetry == Permutations(Thread)

============================================================================
