---- MODULE MCDumbvm ----
EXTENDS Dumbvm
Seg(b, n, f, t) == [base |-> b, pages |-> n, filepages |-> f, text |-> t]
MCProgram == { <<Seg(1, 1, 1, "x"), Seg(2, 1, 0, "x")>>,
               <<Seg(1, 1, 1, "y")>>,
               <<Seg(1, 1, 1, "z"), Seg(2, 1, 1, "z"), Seg(3, 1, 1, "z")>> }
CONSTANTS c1, c2
MCMachines == {[cpus |-> {c1}, spaces |-> 3], [cpus |-> {c1, c2}, spaces |-> 2]}
====
