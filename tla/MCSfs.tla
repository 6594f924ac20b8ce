------------------------------- MODULE MCSfs -------------------------------
(* Instances of Sfs for TLC: two names a file can have, and one too long.  *)
EXTENDS Sfs

CONSTANTS f1, f2, long

Names == {f1, f2, long}
LongNames == {long}
Symmetry == Permutations({f1, f2})
=============================================================================
