---------------------------- MODULE FileHandles ----------------------------
(***************************************************************************)
(* What the file system calls promise to programs, without locks, counts   *)
(* or tables of slots: a descriptor is closed or leads to a handle, a      *)
(* handle has a position, a new handle starts at 0 and is shared by nobody *)
(* else, and only fork and dup2 make two descriptors share one.            *)
(***************************************************************************)
EXTENDS Integers

CONSTANTS Proc, FD, Handle, Offset, Closed

VARIABLES table, pos

vars == <<table, pos>>

Leads(t, h) == \E p \in Proc, f \in FD : t[p][f] = h

\* The position of a handle that nobody can reach is forgotten.
Settle(t, q) == pos' = [h \in Handle |-> IF Leads(t, h) THEN q[h] ELSE 0]

Update(p, row) ==
    /\ table' = [table EXCEPT ![p] = row]
    /\ Settle(table', pos)

Init ==
    /\ table = [p \in Proc |-> [f \in FD |-> Closed]]
    /\ pos = [h \in Handle |-> 0]

\* The lowest closed descriptor leads to a handle that nobody had.
Open(p) ==
    \E f \in FD, h \in Handle :
        /\ table[p][f] = Closed /\ \A g \in FD : g < f => table[p][g] # Closed
        /\ ~Leads(table, h)
        /\ table' = [table EXCEPT ![p][f] = h]
        /\ Settle(table', [pos EXCEPT ![h] = 0])

Close(p) == \E f \in FD : Update(p, [table[p] EXCEPT ![f] = Closed])

Dup(p) ==
    \E old, new \in FD :
        /\ table[p][old] # Closed
        /\ Update(p, [table[p] EXCEPT ![new] = table[p][old]])

\* Reading, writing and seeking move a handle that the process holds.
Move(p) ==
    \E f \in FD :
        /\ table[p][f] # Closed
        /\ \E o \in Offset : pos' = [pos EXCEPT ![table[p][f]] = o]
        /\ UNCHANGED table

\* A child starts with its parent's handles.
Fork(p) ==
    \E c \in Proc \ {p} :
        /\ \A f \in FD : table[c][f] = Closed
        /\ Update(c, table[p])

Next == \E p \in Proc : Open(p) \/ Close(p) \/ Dup(p) \/ Move(p) \/ Fork(p)

Spec == Init /\ [][Next]_vars

============================================================================
