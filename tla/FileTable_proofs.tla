------------------------- MODULE FileTable_proofs --------------------------
(***************************************************************************)
(* Theorems about FileTable, for any number of processes, files and table  *)
(* entries: reference counts, vnode references and dangling entries.       *)
(***************************************************************************)
EXTENDS FileTable, FiniteSetTheorems, TLAPS

\* Most leaves are first-order; the others ask for SMT.
USE Zenon

Callers == {"open", "run", "exec"}

\* Where a process can be: the values of sys.
Sys ==
    {None, User, [op |-> "embryo"]}
    \cup [op : {"open", "install"}, vn : Vnode, am : Mode, std : 0 .. 3, by : Callers]
    \cup [op : {"close", "read", "write"}, fd : Int]
    \cup [op : {"dup2", "dup2set"}, old : Int, new : Int]
    \cup [op : {"lseek"}, fd : Int, to : -1 .. MaxOff]
    \cup [op : {"fork", "execv"}]
    \cup [op : {"exit"}, i : Nat]
    \cup [op : {"io"}, slot : Slot]
    \cup [op : {"forking"}, child : Proc, i : Nat]
    \cup [op : {"load"}, by : {"run", "exec"}]

\* The types of the variables; positions stay within the bound on them.
TypeOK ==
    /\ openfiles \in [Slot -> OpenFile \cup {NULL}]
    /\ \A s \in Slot : openfiles[s] # NULL => openfiles[s].os <= MaxOff
    /\ oft_l \in Proc \cup {NoProc}
    /\ fd_t \in [Proc -> [FD -> Slot \cup {FILE_CLOSED}]]
    /\ freed \in SUBSET Proc
    /\ sys \in [Proc -> Sys]
    /\ vn_refs \in [Vnode -> Int]
    /\ crashed \in {"no", "panic", "undefined"}
    /\ lost \in [Slot -> Nat]

\* Between ForkCopy and thread_fork a child belongs to one parent, whose table
\* does not change meanwhile.
ForkShape ==
    /\ \A p \in Proc : sys[p].op = "forking" =>
           /\ sys[sys[p].child].op = "embryo"
           /\ fd_t[sys[p].child] = fd_t[p]
           /\ \A q \in Proc :
                  sys[q].op = "forking" /\ sys[q].child = sys[p].child => q = p
    /\ \A c \in Proc : sys[c].op = "embryo" =>
           \E p \in Proc : sys[p].op = "forking" /\ sys[p].child = c

\* Between the two halves of sys_dup2 newfd is closed and oldfd is open.
Dup2Shape ==
    \A p \in Proc : sys[p].op = "dup2set" =>
        /\ sys[p].old \in FD /\ sys[p].new \in FD
        /\ fd_t[p][sys[p].old] \in Slot /\ fd_t[p][sys[p].new] = FILE_CLOSED

\* Who reads or writes holds oft_l, and a descriptor of the open file.
IoShape ==
    \A p \in Proc : sys[p].op = "io" =>
        oft_l = p /\ \E f \in FD : fd_t[p][f] = sys[p].slot

\* A process that is not there has no open
\* descriptor; one that exits has none below the index it has reached.
ClosedShape ==
    \A p \in Proc, f \in FD :
        \/ sys[p].op = "none"
        \/ sys[p].op = "exit" /\ f < sys[p].i
        => fd_t[p][f] = FILE_CLOSED

\* A table that is gone belongs to a process that is still there.
FreedShape == \A p \in freed : sys[p].op \notin {"none", "embryo"}

Shape == ForkShape /\ Dup2Shape /\ IoShape /\ ClosedShape /\ FreedShape

\* The inductive invariant.
IInv == TypeOK /\ Shape /\ RefCount /\ VnodeRefs

----------------------------------------------------------------------------
(* Facts about the operators *)

\* What the fields of a process's state are, by the call it is in.
LEMMA SysFields ==
    ASSUME NEW r \in Sys
    PROVE  /\ r.op \in {"open", "install"} =>
                  r \in [op : {"open", "install"}, vn : Vnode, am : Mode,
                         std : 0 .. 3, by : Callers]
           /\ r.op \in {"close", "read", "write"} =>
                  r \in [op : {"close", "read", "write"}, fd : Int]
           /\ r.op \in {"dup2", "dup2set"} =>
                  r \in [op : {"dup2", "dup2set"}, old : Int, new : Int]
           /\ r.op = "lseek" => r \in [op : {"lseek"}, fd : Int, to : -1 .. MaxOff]
           /\ r.op = "exit" => r \in [op : {"exit"}, i : Nat]
           /\ r.op = "io" => r \in [op : {"io"}, slot : Slot]
           /\ r.op = "forking" => r \in [op : {"forking"}, child : Proc, i : Nat]
           /\ r.op = "load" => r \in [op : {"load"}, by : {"run", "exec"}]
  BY SMT DEF Sys, None, User

\* The child that a process is making is a process.
LEMMA ChildProc ==
    ASSUME TypeOK, NEW p \in Proc, sys[p].op = "forking"
    PROVE  sys[p].child \in Proc /\ sys[p].i \in Nat
  BY SysFields, SMT DEF TypeOK

\* A program's request is a state of its process.
LEMMA RequestSys ==
    ASSUME NEW r \in Request
    PROVE  /\ r \in Sys
           /\ r.op \in {"open", "close", "read", "write", "dup2", "lseek", "fork",
                        "execv", "exit"}
           /\ r.op = "exit" => r.i = 0
<1>1. CASE r \in [op : {"open"} \cap Calls, vn : File, am : Modes, std : {0}, by : {"open"}]
  BY <1>1, SizeAssumption, SMT DEF Sys, Vnode, Callers
<1>2. CASE r \in [op : {"close", "read", "write"} \cap Calls, fd : ArgFd]
  BY <1>2, ArgAssumption DEF Sys
<1>3. CASE r \in {[op |-> "dup2", old |-> a[1], new |-> a[2]] :
                      a \in {b \in Dup2Args : "dup2" \in Calls}}
  <2>1. PICK a \in Int \X Int : r = [op |-> "dup2", old |-> a[1], new |-> a[2]]
    BY <1>3, ArgAssumption
  <2> QED
    BY <2>1 DEF Sys
<1>4. CASE r \in [op : {"lseek"} \cap Calls, fd : ArgFd, to : -1 .. MaxOff]
  BY <1>4, ArgAssumption DEF Sys
<1>5. CASE r \in [op : {"fork", "execv"} \cap Calls]
  BY <1>5 DEF Sys
<1>6. CASE r \in [op : {"exit"} \cap Calls, i : {0}]
  BY <1>6, SMT DEF Sys
<1> QED
  BY <1>1, <1>2, <1>3, <1>4, <1>5, <1>6 DEF Request

\* There are finitely many descriptors.
LEMMA DescriptorsFinite ==
    ASSUME NEW H \in SUBSET (Proc \X FD)
    PROVE  IsFiniteSet(H) /\ Cardinality(H) \in Nat
<1>1. IsFiniteSet(FD)
  BY SizeAssumption, FS_Interval, SMT DEF FD
<1>2. IsFiniteSet(Proc \X FD)
  BY <1>1, ProcAssumption, FS_Product
<1>3. IsFiniteSet(H)
  BY <1>2, FS_Subset
<1> QED
  BY <1>3, FS_CardinalityType

\* Membership in a set of holders.
LEMMA HoldersSet ==
    ASSUME NEW s
    PROVE  /\ Holders(s) \in SUBSET (Proc \X FD)
           /\ \A p \in Proc, f \in FD : <<p, f>> \in Holders(s) <=> Holds(p, f, s)
  BY DEF Holders, Holds

\* The same, in the next state.
LEMMA HoldersSetNext ==
    ASSUME NEW s
    PROVE  /\ Holders(s)' \in SUBSET (Proc \X FD)
           /\ \A p \in Proc, f \in FD : <<p, f>> \in Holders(s)' <=> Holds(p, f, s)'
  BY DEF Holders, Holds, Counted, Entry

\* A step after which the same descriptors hold slot s.
LEMMA HoldersSame ==
    ASSUME NEW s, \A q \in Proc, g \in FD : Holds(q, g, s)' <=> Holds(q, g, s)
    PROVE  Holders(s)' = Holders(s)
<1>1. \A x \in Proc \X FD : x = <<x[1], x[2]>> /\ x[1] \in Proc /\ x[2] \in FD
  BY SMT
<1>2. \A x \in Proc \X FD : x \in Holders(s)' <=> x \in Holders(s)
  BY <1>1, HoldersSet, HoldersSetNext, SMT
<1> QED
  BY <1>2, HoldersSet, HoldersSetNext

\* A step after which f of p holds slot s, too.
LEMMA HoldersGain ==
    ASSUME NEW s, NEW p \in Proc, NEW f \in FD, ~Holds(p, f, s),
           \A q \in Proc, g \in FD :
               Holds(q, g, s)' <=> Holds(q, g, s) \/ (q = p /\ g = f)
    PROVE  Cardinality(Holders(s)') = Cardinality(Holders(s)) + 1
<1>1. \A x \in Proc \X FD : x = <<x[1], x[2]>> /\ x[1] \in Proc /\ x[2] \in FD
  BY SMT
<1>2. \A x \in Proc \X FD : x \in Holders(s)' <=> x \in Holders(s) \cup {<<p, f>>}
  BY <1>1, HoldersSet, HoldersSetNext, SMT
<1>3. Holders(s)' = Holders(s) \cup {<<p, f>>} /\ <<p, f>> \notin Holders(s)
  BY <1>2, HoldersSet, HoldersSetNext
<1>4. IsFiniteSet(Holders(s))
  BY HoldersSet, DescriptorsFinite
<1> QED
  BY <1>3, <1>4, FS_AddElement

\* A step after which f of p no longer holds slot s.
LEMMA HoldersLoss ==
    ASSUME NEW s, NEW p \in Proc, NEW f \in FD, Holds(p, f, s),
           \A q \in Proc, g \in FD :
               Holds(q, g, s)' <=> Holds(q, g, s) /\ ~(q = p /\ g = f)
    PROVE  Cardinality(Holders(s)') = Cardinality(Holders(s)) - 1
<1>1. \A x \in Proc \X FD : x = <<x[1], x[2]>> /\ x[1] \in Proc /\ x[2] \in FD
  BY SMT
<1>2. \A x \in Proc \X FD : x \in Holders(s)' <=> x \in Holders(s) \ {<<p, f>>}
  BY <1>1, HoldersSet, HoldersSetNext, SMT
<1>3. Holders(s)' = Holders(s) \ {<<p, f>>} /\ <<p, f>> \in Holders(s)
  BY <1>2, HoldersSet, HoldersSetNext
<1>4. IsFiniteSet(Holders(s))
  BY HoldersSet, DescriptorsFinite
<1> QED
  BY <1>3, <1>4, FS_RemoveElement

\* A step in which a process gives up its whole table.
LEMMA HoldersLoseTable ==
    ASSUME NEW s, NEW p \in Proc,
           \A g \in FD : Holds(p, g, s) <=> fd_t[p][g] = s,
           \A q \in Proc, g \in FD : Holds(q, g, s)' <=> Holds(q, g, s) /\ q # p
    PROVE  /\ Cardinality(Holders(s)) = Cardinality(Holders(s)') + Refs(p, s)
           /\ Refs(p, s) \in Nat
<1> DEFINE F == {f \in FD : fd_t[p][f] = s}
<1>1. \A x \in Proc \X FD : x = <<x[1], x[2]>> /\ x[1] \in Proc /\ x[2] \in FD
  BY SMT
<1>2. \A x \in Proc \X FD : x \in Holders(s) \cap ({p} \X F) <=> x \in {p} \X F
  BY <1>1, HoldersSet, SMT
<1>3. Holders(s) \cap ({p} \X F) = {p} \X F
  BY <1>2
<1>4. \A x \in Proc \X FD : x \in Holders(s)' <=> x \in Holders(s) \ ({p} \X F)
  <2> SUFFICES ASSUME NEW q \in Proc, NEW g \in FD
               PROVE  <<q, g>> \in Holders(s)' <=> <<q, g>> \in Holders(s) \ ({p} \X F)
    BY <1>1, SMT
  <2> QED
    BY HoldersSet, HoldersSetNext
<1>5. Holders(s)' = Holders(s) \ ({p} \X F)
  BY <1>4, HoldersSet, HoldersSetNext
<1>6. IsFiniteSet(Holders(s))
  BY HoldersSet, DescriptorsFinite
<1>7. IsFiniteSet(F) /\ Cardinality(F) \in Nat
  <2>1. IsFiniteSet(FD) /\ F \in SUBSET FD
    BY SizeAssumption, FS_Interval, SMT DEF FD
  <2>2. IsFiniteSet(F)
    BY <2>1, FS_Subset
  <2> QED
    BY <2>2, FS_CardinalityType
<1>8. Cardinality({p} \X F) = Cardinality(F)
  <2>1. IsFiniteSet({p}) /\ Cardinality({p}) = 1
    BY FS_Singleton
  <2> HIDE DEF F
  <2>2. Cardinality({p} \X F) = Cardinality({p}) * Cardinality(F)
    BY <1>7, <2>1, FS_Product
  <2> QED
    BY <1>7, <2>1, <2>2, SMT
<1>9. Cardinality(Holders(s)') = Cardinality(Holders(s)) - Cardinality(F)
  <2> DEFINE P == {p} \X F
  <2>1. /\ Holders(s)' = Holders(s) \ P /\ Holders(s) \cap P = P
        /\ Cardinality(P) = Cardinality(F)
    BY <1>3, <1>5, <1>8
  <2> HIDE DEF P
  <2>2. Cardinality(Holders(s) \ P) = Cardinality(Holders(s)) - Cardinality(Holders(s) \cap P)
    BY <1>6, FS_Difference
  <2> QED
    BY <2>1, <2>2
<1>10. Cardinality(Holders(s)) \in Nat /\ Refs(p, s) = Cardinality(F)
  BY <1>6, FS_CardinalityType DEF Refs
<1> QED
  BY <1>7, <1>9, <1>10, SMT

----------------------------------------------------------------------------
(* Steps that leave the descriptor tables alone *)

Special == {"embryo", "forking", "dup2set"}

\* oft_l, when process p goes on to state r.
LockStep(p, r) ==
    \/ sys[p].op # "io" /\ r.op # "io" /\ UNCHANGED oft_l
    \/ /\ sys[p].op # "io" /\ r.op = "io" /\ oft_l = NoProc /\ oft_l' = p
       /\ \E f \in FD : fd_t[p][f] = r.slot
    \/ sys[p].op = "io" /\ r.op # "io"

\* A process goes on within a call, begins one or ends one: nobody gains or loses
\* a reference.
LEMMA QuietHolders ==
    ASSUME TypeOK, NEW p \in Proc, NEW r \in Sys,
           sys' = [sys EXCEPT ![p] = r], UNCHANGED fd_t,
           sys[p].op \notin Special, r.op \notin Special
    PROVE  \A s : Holders(s)' = Holders(s)
<1> SUFFICES ASSUME NEW s, NEW q \in Proc, NEW g \in FD
             PROVE  Holds(q, g, s)' <=> Holds(q, g, s)
  BY HoldersSame
<1>1. \A u \in Proc : u # p => sys'[u] = sys[u]
  BY DEF TypeOK
<1>2. sys'[p] = r
  BY DEF TypeOK
<1>3. Entry(q, g)' = Entry(q, g)
  BY <1>1, <1>2, SMT DEF Entry, Special
<1>4. Counted(q, g)' <=> Counted(q, g)
  BY <1>1, <1>2 DEF Counted, Special
<1> QED
  BY <1>3, <1>4 DEF Holds

\* The shape of the state stays, too.
LEMMA QuietShape ==
    ASSUME TypeOK, Shape, NEW p \in Proc, NEW r \in Sys,
           sys' = [sys EXCEPT ![p] = r], UNCHANGED <<fd_t, freed>>,
           sys[p].op \notin Special, r.op \notin Special,
           r.op = "none" => p \notin freed /\ \A f \in FD : fd_t[p][f] = FILE_CLOSED,
           r.op = "exit" => r.i = 0,
           LockStep(p, r)
    PROVE  Shape'
<1>1. \A u \in Proc : u # p => sys'[u] = sys[u]
  BY DEF TypeOK
<1>2. sys'[p] = r
  BY DEF TypeOK
<1>3. ForkShape'
  BY <1>1, <1>2, SMT DEF Shape, ForkShape, Special
<1>4. Dup2Shape'
  BY <1>1, <1>2 DEF Shape, Dup2Shape, Special
<1>5. IoShape'
  BY <1>1, <1>2, ProcAssumption, SMT DEF Shape, IoShape, LockStep
<1>6. ClosedShape'
  BY <1>1, <1>2, SizeAssumption, SMT DEF Shape, ClosedShape, FD
<1>7. FreedShape'
  BY <1>1, <1>2 DEF Shape, FreedShape, Special, TypeOK
<1> QED
  BY <1>3, <1>4, <1>5, <1>6, <1>7 DEF Shape

\* So it does when a call returns that has freed the table of its process.
LEMMA FreeShape ==
    ASSUME TypeOK, Shape, NEW p \in Proc, User \in Sys, User.op = "user",
           sys' = [sys EXCEPT ![p] = User], sys[p].op \in {"open", "install"},
           freed' \in {freed, freed \cup {p}}, UNCHANGED <<fd_t, oft_l>>
    PROVE  Shape'
<1>1. \A u \in Proc : u # p => sys'[u] = sys[u]
  BY DEF TypeOK
<1>2. sys'[p].op = "user"
  BY DEF TypeOK
<1>3. ForkShape'
  BY <1>1, <1>2, SMT DEF Shape, ForkShape
<1>4. Dup2Shape'
  BY <1>1, <1>2 DEF Shape, Dup2Shape
<1>5. IoShape'
  BY <1>1, <1>2 DEF Shape, IoShape
<1>6. ClosedShape'
  BY <1>1, <1>2 DEF Shape, ClosedShape
<1>7. FreedShape'
  <2>1. \A q \in freed' : q # p => q \in freed /\ q \in Proc
    BY DEF TypeOK
  <2>2. \A q \in freed' : sys'[q].op \notin {"none", "embryo"}
    BY <1>1, <1>2, <2>1, SMT DEF Shape, FreedShape
  <2> QED BY <2>2 DEF FreedShape
<1> QED
  BY <1>3, <1>4, <1>5, <1>6, <1>7 DEF Shape

----------------------------------------------------------------------------
(* Counting *)

\* The counts stay right when nobody gains or loses a reference.
LEMMA SameCounts ==
    ASSUME RefCount,
           \A s \in Slot : /\ Holders(s)' = Holders(s) /\ lost'[s] = lost[s]
                           /\ openfiles'[s] = NULL <=> openfiles[s] = NULL
                           /\ openfiles[s] # NULL => openfiles'[s].rc = openfiles[s].rc
    PROVE  RefCount'
  BY DEF RefCount

\* The open files on v, and the processes that are about to install one.
OnVnode(v) == {s \in Slot : openfiles[s] # NULL /\ openfiles[s].vn = v}
Pending(v) == {p \in Proc : sys[p].op = "install" /\ sys[p].vn = v}

\* VnodeRefs, in these terms.
LEMMA VnodeRefsIs ==
    VnodeRefs <=>
        \A v \in Vnode : vn_refs[v] = Cardinality(OnVnode(v)) + Cardinality(Pending(v))
  BY DEF VnodeRefs, OnVnode, Pending

\* The same, in the next state.
LEMMA VnodeRefsNext ==
    VnodeRefs' <=>
        \A v \in Vnode : vn_refs'[v] = Cardinality(OnVnode(v)') + Cardinality(Pending(v)')
  BY DEF VnodeRefs, OnVnode, Pending

\* Membership of one element decides the cardinality.
LEMMA OneElement ==
    ASSUME NEW S, NEW T, NEW x, IsFiniteSet(S), NEW b \in BOOLEAN,
           \A y : y # x => (y \in T <=> y \in S), x \in T <=> b
    PROVE  /\ Cardinality(S) \in Nat
           /\ Cardinality(T) = Cardinality(S) - (IF x \in S THEN 1 ELSE 0)
                                              + (IF b THEN 1 ELSE 0)
<1>1. Cardinality(S) \in Nat
  BY FS_CardinalityType
<1>2. CASE b
  <2>1. T = S \cup {x}
    BY <1>2
  <2> QED
    BY <1>1, <1>2, <2>1, FS_AddElement, SMT
<1>3. CASE ~b
  <2>1. T = S \ {x}
    BY <1>3
  <2> QED
    BY <1>1, <1>3, <2>1, FS_RemoveElement, SMT
<1> QED
  BY <1>2, <1>3, <1>1

\* One process moves from one state to another.
LEMMA PendingStep ==
    ASSUME NEW p \in Proc, \A q \in Proc : q # p => sys'[q] = sys[q], NEW v
    PROVE  /\ Cardinality(Pending(v)) \in Nat
           /\ Cardinality(Pending(v)') =
                  Cardinality(Pending(v))
                  - (IF sys[p].op = "install" /\ sys[p].vn = v THEN 1 ELSE 0)
                  + (IF sys'[p].op = "install" /\ sys'[p].vn = v THEN 1 ELSE 0)
<1> DEFINE b == sys'[p].op = "install" /\ sys'[p].vn = v
<1>1. IsFiniteSet(Pending(v))
  <2>1. Pending(v) \in SUBSET Proc
    BY DEF Pending
  <2> QED
    BY <2>1, ProcAssumption, FS_Subset
<1>2. \A y : y # p => (y \in Pending(v)' <=> y \in Pending(v))
  BY DEF Pending
<1>3. p \in Pending(v)' <=> b
  BY DEF Pending
<1>4. p \in Pending(v) <=> sys[p].op = "install" /\ sys[p].vn = v
  BY DEF Pending
<1>5. b \in BOOLEAN
  OBVIOUS
<1> HIDE DEF b
<1>6. /\ Cardinality(Pending(v)) \in Nat
      /\ Cardinality(Pending(v)') = Cardinality(Pending(v))
             - (IF p \in Pending(v) THEN 1 ELSE 0) + (IF b THEN 1 ELSE 0)
  BY <1>1, <1>2, <1>3, <1>5, OneElement, SMT
<1> QED
  BY <1>4, <1>6 DEF b

\* A process that neither begins nor ends to install an open file.
LEMMA PendingQuiet ==
    ASSUME NEW p \in Proc, \A q \in Proc : q # p => sys'[q] = sys[q], NEW v,
           sys[p].op # "install", sys'[p].op # "install"
    PROVE  Cardinality(Pending(v)') = Cardinality(Pending(v))
<1>1. Pending(v)' = Pending(v)
  BY DEF Pending
<1> QED
  BY <1>1

\* There are finitely many open files.
LEMMA OnVnodeFinite ==
    ASSUME NEW v PROVE IsFiniteSet(OnVnode(v)) /\ Cardinality(OnVnode(v)) \in Nat
<1>1. OnVnode(v) \in SUBSET Slot /\ IsFiniteSet(Slot)
  BY SizeAssumption, FS_Interval, SMT DEF OnVnode, Slot
<1> QED
  BY <1>1, FS_Subset, FS_CardinalityType

\* One slot of the open file table is filled or emptied.
LEMMA OnVnodeStep ==
    ASSUME NEW s \in Slot, NEW v,
           \A u \in Slot : u # s =>
               /\ openfiles'[u] = NULL <=> openfiles[u] = NULL
               /\ openfiles[u] # NULL => openfiles'[u].vn = openfiles[u].vn
    PROVE  /\ Cardinality(OnVnode(v)) \in Nat
           /\ Cardinality(OnVnode(v)') =
                  Cardinality(OnVnode(v))
                  - (IF openfiles[s] # NULL /\ openfiles[s].vn = v THEN 1 ELSE 0)
                  + (IF openfiles'[s] # NULL /\ openfiles'[s].vn = v THEN 1 ELSE 0)
<1> DEFINE b == openfiles'[s] # NULL /\ openfiles'[s].vn = v
<1>1. IsFiniteSet(OnVnode(v))
  BY OnVnodeFinite
<1>2. \A y : y # s => (y \in OnVnode(v)' <=> y \in OnVnode(v))
  BY DEF OnVnode
<1>3. s \in OnVnode(v)' <=> b
  BY DEF OnVnode
<1>4. s \in OnVnode(v) <=> openfiles[s] # NULL /\ openfiles[s].vn = v
  BY DEF OnVnode
<1>5. b \in BOOLEAN
  OBVIOUS
<1> HIDE DEF b
<1>6. /\ Cardinality(OnVnode(v)) \in Nat
      /\ Cardinality(OnVnode(v)') = Cardinality(OnVnode(v))
             - (IF s \in OnVnode(v) THEN 1 ELSE 0) + (IF b THEN 1 ELSE 0)
  BY <1>1, <1>2, <1>3, <1>5, OneElement
<1> QED
  BY <1>4, <1>6 DEF b

----------------------------------------------------------------------------
(* The invariant, step by step *)

Crashes == {"no", "panic", "undefined"}

\* A step that only ends in a panic, or in undefined behaviour.
LEMMA CrashInv ==
    ASSUME IInv, crashed' \in Crashes,
           UNCHANGED <<openfiles, oft_l, fd_t, freed, sys, vn_refs, lost>>
    PROVE  IInv'
<1>1. TypeOK'
  BY DEF IInv, TypeOK, Crashes
<1>2. Shape'
  BY SMT DEF IInv, Shape, ForkShape, Dup2Shape, IoShape, ClosedShape, FreedShape
<1>3. \A s : Holders(s)' = Holders(s)
  BY DEF Holders, Holds, Counted, Entry
<1>4. RefCount'
  BY <1>3, SameCounts DEF IInv
<1>5. VnodeRefs'
  BY DEF IInv, VnodeRefs
<1> QED
  BY <1>1, <1>2, <1>4, <1>5 DEF IInv

\* What a step does to the state of its process, besides the tables.
Moves(p, r) ==
    /\ sys' = [sys EXCEPT ![p] = r]
    /\ sys[p].op \notin Special /\ r.op \notin Special
    /\ r.op = "none" => p \notin freed /\ \A f \in FD : fd_t[p][f] = FILE_CLOSED
    /\ r.op = "exit" => r.i = 0
    /\ LockStep(p, r) /\ oft_l' \in Proc \cup {NoProc}
    /\ crashed' \in Crashes
    /\ UNCHANGED <<fd_t, freed, lost>>

\* The tables of open files and of vnodes do not change either.
LEMMA QuietInv ==
    ASSUME IInv, NEW p \in Proc, NEW r \in Sys, Moves(p, r),
           sys[p].op # "install", r.op # "install", UNCHANGED <<openfiles, vn_refs>>
    PROVE  IInv'
<1>0. sys'[p] = r /\ \A q \in Proc : q # p => sys'[q] = sys[q]
  BY DEF IInv, TypeOK, Moves
<1>1. TypeOK'
  BY DEF IInv, TypeOK, Crashes, Moves
<1>2. Shape'
  BY QuietShape DEF IInv, Moves
<1>3. \A s : Holders(s)' = Holders(s)
  BY QuietHolders DEF IInv, Moves
<1>4. RefCount'
  BY <1>3, SameCounts DEF IInv, Moves
<1>5. VnodeRefs'
  <2>1. \A v \in Vnode : OnVnode(v)' = OnVnode(v)
    BY DEF OnVnode
  <2>2. \A v \in Vnode : Cardinality(Pending(v)') = Cardinality(Pending(v))
    BY <1>0, PendingQuiet DEF IInv, Moves
  <2> QED
    BY <2>1, <2>2, VnodeRefsIs, VnodeRefsNext DEF IInv
<1> QED
  BY <1>1, <1>2, <1>4, <1>5 DEF IInv

\* The position of an open file changes.
LEMMA SeekInv ==
    ASSUME IInv, NEW p \in Proc, NEW r \in Sys, Moves(p, r),
           sys[p].op # "install", r.op # "install", UNCHANGED vn_refs,
           NEW s \in Slot, NEW o \in 0 .. MaxOff, openfiles[s] # NULL,
           openfiles' = [openfiles EXCEPT ![s].os = o]
    PROVE  IInv'
<1>0. sys'[p] = r /\ \A q \in Proc : q # p => sys'[q] = sys[q]
  BY DEF IInv, TypeOK, Moves
<1> DEFINE x == [openfiles[s] EXCEPT !.os = o]
<1>1. /\ openfiles[s] \in OpenFile /\ x \in OpenFile /\ x # NULL
      /\ x.rc = openfiles[s].rc /\ x.vn = openfiles[s].vn /\ x.os = o
  BY BoundAssumption, NullAssumption, SMT DEF IInv, TypeOK, OpenFile
<1>2. openfiles' = [openfiles EXCEPT ![s] = x]
  OBVIOUS
<1> HIDE DEF x
<1>3. \A u \in Slot : openfiles'[u] = IF u = s THEN x ELSE openfiles[u]
  BY <1>2 DEF IInv, TypeOK
<1>4. TypeOK'
  <2>1. openfiles' \in [Slot -> OpenFile \cup {NULL}]
    BY <1>1, <1>2 DEF IInv, TypeOK
  <2>2. \A u \in Slot : openfiles'[u] # NULL => openfiles'[u].os <= MaxOff
    BY <1>1, <1>3, BoundAssumption, SMT DEF IInv, TypeOK
  <2> QED
    BY <2>1, <2>2 DEF IInv, TypeOK, Crashes, Moves
<1>5. Shape'
  BY QuietShape DEF IInv, Moves
<1>6. \A u : Holders(u)' = Holders(u)
  BY QuietHolders DEF IInv, Moves
<1>7. RefCount'
  BY <1>1, <1>3, <1>6, SameCounts DEF IInv, Moves
<1>8. VnodeRefs'
  <2>1. \A v \in Vnode : OnVnode(v)' = OnVnode(v)
    BY <1>1, <1>3, SMT DEF OnVnode
  <2>2. \A v \in Vnode : Cardinality(Pending(v)') = Cardinality(Pending(v))
    BY <1>0, PendingQuiet DEF IInv, Moves
  <2> QED
    BY <2>1, <2>2, VnodeRefsIs, VnodeRefsNext DEF IInv
<1> QED
  BY <1>4, <1>5, <1>7, <1>8 DEF IInv

\* vfs_open has taken a reference to the vnode.
LEMMA OpenVnodeInv == ASSUME IInv, NEW p \in Proc, OpenVnode(p) PROVE IInv'
<1> DEFINE r == [sys[p] EXCEPT !.op = "install"]
<1>1. sys[p] \in [op : {"open", "install"}, vn : Vnode, am : Mode, std : 0 .. 3, by : Callers]
  BY SysFields DEF OpenVnode, IInv, TypeOK
<1>2. r \in Sys /\ r.op = "install" /\ r.vn = sys[p].vn
  BY <1>1 DEF Sys
<1> HIDE DEF r
<1>3. /\ sys[p].op = "open" /\ sys' = [sys EXCEPT ![p] = r]
      /\ vn_refs' = [vn_refs EXCEPT ![sys[p].vn] = @ + 1]
      /\ UNCHANGED <<openfiles, oft_l, fd_t, freed, crashed, lost>>
  BY DEF OpenVnode, Goto, Incref, r
<1>4. sys'[p] = r /\ \A q \in Proc : q # p => sys'[q] = sys[q]
  BY <1>3 DEF IInv, TypeOK
<1>5. TypeOK'
  BY <1>1, <1>2, <1>3, SMT DEF IInv, TypeOK
<1>6. Shape'
  <2>1. sys[p].op \notin Special /\ r.op \notin Special /\ LockStep(p, r)
    BY <1>2, <1>3 DEF Special, LockStep
  <2> QED
    BY <1>2, <1>3, <2>1, QuietShape DEF IInv
<1>7. \A s : Holders(s)' = Holders(s)
  BY <1>2, <1>3, QuietHolders DEF IInv, Special
<1>8. RefCount'
  BY <1>3, <1>7, SameCounts DEF IInv
<1>9. VnodeRefs'
  <2> SUFFICES ASSUME NEW v \in Vnode
               PROVE  vn_refs'[v] = Cardinality(OnVnode(v)') + Cardinality(Pending(v)')
    BY VnodeRefsNext
  <2>1. OnVnode(v)' = OnVnode(v)
    BY <1>3 DEF OnVnode
  <2>2. /\ Cardinality(Pending(v)) \in Nat
        /\ Cardinality(Pending(v)') =
               Cardinality(Pending(v)) + (IF sys[p].vn = v THEN 1 ELSE 0)
    BY <1>2, <1>3, <1>4, PendingStep, SMT
  <2>3. vn_refs[v] = Cardinality(OnVnode(v)) + Cardinality(Pending(v))
    BY VnodeRefsIs DEF IInv
  <2>4. vn_refs'[v] = vn_refs[v] + (IF sys[p].vn = v THEN 1 ELSE 0) /\ vn_refs[v] \in Int
    BY <1>1, <1>3, SMT DEF IInv, TypeOK
  <2>5. Cardinality(OnVnode(v)) \in Nat
    BY OnVnodeFinite
  <2> QED
    BY <2>1, <2>2, <2>3, <2>4, <2>5, SMT
<1> QED
  BY <1>5, <1>6, <1>8, <1>9 DEF IInv

\* The counts stay right when a process gives up its table, and what it held is lost.
LEMMA LostCounts ==
    ASSUME TypeOK, RefCount, NEW p \in Proc, UNCHANGED openfiles,
           \A s \in Slot : lost'[s] = lost[s] + Refs(p, s),
           \A s \in Slot : /\ Cardinality(Holders(s)) = Cardinality(Holders(s)') + Refs(p, s)
                           /\ Refs(p, s) \in Nat
    PROVE  RefCount'
<1> SUFFICES ASSUME NEW s \in Slot
             PROVE  IF openfiles'[s] = NULL
                      THEN Holders(s)' = {} /\ lost'[s] = 0
                      ELSE openfiles'[s].rc = Cardinality(Holders(s)') + lost'[s]
  BY DEF RefCount
<1>1. Cardinality(Holders(s)') \in Nat /\ IsFiniteSet(Holders(s)')
  BY HoldersSetNext, DescriptorsFinite
<1>2. lost[s] \in Nat
  BY DEF TypeOK
<1>3. CASE openfiles[s] = NULL
  <2>1. Cardinality(Holders(s)) = 0 /\ lost[s] = 0
    BY <1>3, FS_EmptySet DEF RefCount
  <2>2. Cardinality(Holders(s)') = 0 /\ Refs(p, s) = 0
    BY <1>1, <2>1, SMT
  <2> QED
    BY <1>1, <1>3, <2>1, <2>2, FS_EmptySet
<1>4. CASE openfiles[s] # NULL
  <2>1. openfiles[s].rc = Cardinality(Holders(s)) + lost[s]
    BY <1>4 DEF RefCount
  <2> QED
    BY <1>1, <1>2, <1>4, <2>1, SMT
<1> QED
  BY <1>3, <1>4

\* LoseTable, in a call of process p: what p held is now lost.
LEMMA LoseTableInv ==
    ASSUME TypeOK, Shape, RefCount, NEW p \in Proc, NEW r \in Sys,
           LoseTable(p), sys' = [sys EXCEPT ![p] = r],
           sys[p].op \notin Special \cup {"io"}, r.op = "open",
           freed' = freed \ {p}, UNCHANGED <<openfiles, oft_l>>
    PROVE  /\ fd_t' \in [Proc -> [FD -> Slot \cup {FILE_CLOSED}]]
           /\ lost' \in [Slot -> Nat] /\ freed' \in SUBSET Proc /\ sys' \in [Proc -> Sys]
           /\ Shape' /\ RefCount'
<1>1. sys'[p] = r /\ \A u \in Proc : u # p => sys'[u] = sys[u]
  BY DEF TypeOK
<1>2. \A u \in Proc, f \in FD : fd_t'[u][f] = IF u = p THEN FILE_CLOSED ELSE fd_t[u][f]
  BY DEF LoseTable, Closed, TypeOK
<1>3. \A u \in Proc : u # p => fd_t'[u] = fd_t[u]
  BY DEF LoseTable, TypeOK
<1>4. fd_t' \in [Proc -> [FD -> Slot \cup {FILE_CLOSED}]]
  BY DEF LoseTable, Closed, TypeOK
<1>5. Shape'
  <2>1. ForkShape'
    <3>1. \A q \in Proc : sys[q].op = "forking" => sys[q].child \in Proc \ {p}
      BY ChildProc, SMT DEF Shape, ForkShape, Special
    <3> QED
      BY <1>1, <1>3, <3>1, SMT DEF Shape, ForkShape, Special
  <2>2. Dup2Shape'
    BY <1>1, <1>2, SMT DEF Shape, Dup2Shape, Special
  <2>3. IoShape'
    BY <1>1, <1>2, SMT DEF Shape, IoShape
  <2>4. ClosedShape'
    BY <1>1, <1>2, SMT DEF Shape, ClosedShape
  <2>5. FreedShape'
    BY <1>1 DEF Shape, FreedShape, TypeOK
  <2> QED
    BY <2>1, <2>2, <2>3, <2>4, <2>5 DEF Shape
<1>6. ASSUME NEW s \in Slot
      PROVE  /\ Cardinality(Holders(s)) = Cardinality(Holders(s)') + Refs(p, s)
             /\ Refs(p, s) \in Nat
  <2>1. \A g \in FD : Holds(p, g, s) <=> fd_t[p][g] = s
    BY DEF Holds, Counted, Entry, Special
  <2>2. ASSUME NEW q \in Proc, NEW g \in FD
        PROVE  Holds(q, g, s)' <=> Holds(q, g, s) /\ q # p
    <3>1. FILE_CLOSED # s
      BY SMT DEF FILE_CLOSED, Slot
    <3>2. CASE q = p
      BY <1>1, <1>2, <3>1, <3>2 DEF Holds, Counted, Entry
    <3>3. CASE q # p
      <4>1. Entry(q, g)' = Entry(q, g)
        BY <1>1, <1>3, <3>3, SMT DEF Entry
      <4>2. Counted(q, g)' <=> Counted(q, g)
        BY <1>1, <3>3 DEF Counted, Special
      <4> QED
        BY <3>3, <4>1, <4>2 DEF Holds
    <3> QED
      BY <3>2, <3>3
  <2> QED
    BY <2>1, <2>2, HoldersLoseTable
<1>7. \A s \in Slot : lost'[s] = lost[s] + Refs(p, s)
  BY DEF LoseTable
<1>8. lost' \in [Slot -> Nat]
  BY <1>6, SMT DEF LoseTable, TypeOK
<1>9. RefCount'
  BY <1>6, <1>7, LostCounts
<1> QED
  BY <1>4, <1>5, <1>8, <1>9 DEF TypeOK

\* An error of file_open on its way back to the program.
LEMMA OpenErrorInv ==
    ASSUME IInv, NEW p \in Proc, OpenError(p), sys[p].op \in {"open", "install"},
           UNCHANGED <<openfiles, oft_l>>
    PROVE  /\ User \in Sys /\ User.op = "user" /\ sys' = [sys EXCEPT ![p] = User]
           /\ sys' \in [Proc -> Sys] /\ freed' \in SUBSET Proc /\ crashed' \in Crashes
           /\ UNCHANGED <<fd_t, lost>> /\ Shape' /\ RefCount'
<1>1. User \in Sys /\ User.op = "user"
  BY DEF Sys, User
<1>2. sys' = [sys EXCEPT ![p] = User] /\ UNCHANGED <<fd_t, lost>>
  BY DEF OpenError, Return, Goto
<1>3. freed' \in {freed, freed \cup {p}} /\ crashed' \in Crashes
  BY DEF OpenError, IInv, TypeOK, Crashes
<1>4. Shape'
  BY <1>1, <1>2, <1>3, FreeShape DEF IInv
<1>5. \A s : Holders(s)' = Holders(s)
  BY <1>1, <1>2, QuietHolders DEF IInv, Special
<1>6. RefCount'
  BY <1>2, <1>5, SameCounts DEF IInv
<1> QED
  BY <1>1, <1>2, <1>3, <1>4, <1>6 DEF IInv, TypeOK

\* vfs_open fails.
LEMMA OpenVnodeFailsInv == ASSUME IInv, NEW p \in Proc, OpenVnodeFails(p) PROVE IInv'
<1>1. /\ sys[p].op = "open" /\ OpenError(p) /\ UNCHANGED <<openfiles, oft_l, vn_refs>>
  BY DEF OpenVnodeFails
<1>2. /\ User.op = "user" /\ sys' = [sys EXCEPT ![p] = User]
      /\ sys' \in [Proc -> Sys] /\ freed' \in SUBSET Proc /\ crashed' \in Crashes
      /\ UNCHANGED <<fd_t, lost>> /\ Shape' /\ RefCount'
  BY <1>1, OpenErrorInv
<1>3. TypeOK'
  BY <1>1, <1>2 DEF IInv, TypeOK, Crashes
<1>4. VnodeRefs'
  <2>1. \A v \in Vnode : OnVnode(v)' = OnVnode(v)
    BY <1>1 DEF OnVnode
  <2>2. sys'[p].op = "user" /\ \A q \in Proc : q # p => sys'[q] = sys[q]
    BY <1>2 DEF IInv, TypeOK
  <2>3. \A v \in Vnode : Cardinality(Pending(v)') = Cardinality(Pending(v))
    BY <1>1, <2>2, PendingQuiet
  <2> QED
    BY <1>1, <2>1, <2>3, VnodeRefsIs, VnodeRefsNext DEF IInv
<1> QED
  BY <1>2, <1>3, <1>4 DEF IInv

\* file_open finds no descriptor, no slot or no memory, and closes the vnode.
LEMMA InstallFailsInv == ASSUME IInv, NEW p \in Proc, InstallFails(p) PROVE IInv'
<1>1. /\ sys[p].op = "install" /\ OpenError(p)
      /\ vn_refs' = [vn_refs EXCEPT ![sys[p].vn] = @ - 1]
      /\ UNCHANGED <<openfiles, oft_l>>
  BY DEF InstallFails, Decref, In
<1>2. /\ User.op = "user" /\ sys' = [sys EXCEPT ![p] = User]
      /\ sys' \in [Proc -> Sys] /\ freed' \in SUBSET Proc /\ crashed' \in Crashes
      /\ UNCHANGED <<fd_t, lost>> /\ Shape' /\ RefCount'
  BY <1>1, OpenErrorInv
<1>3. sys[p].vn \in Vnode
  BY <1>1, SysFields, SMT DEF IInv, TypeOK
<1>4. sys'[p].op = "user" /\ \A q \in Proc : q # p => sys'[q] = sys[q]
  BY <1>2 DEF IInv, TypeOK
<1>5. vn_refs' \in [Vnode -> Int]
  BY <1>1, <1>3, SMT DEF IInv, TypeOK
<1>6. TypeOK'
  BY <1>1, <1>2, <1>5 DEF IInv, TypeOK, Crashes
<1>7. VnodeRefs'
  <2> SUFFICES ASSUME NEW v \in Vnode
               PROVE  vn_refs'[v] = Cardinality(OnVnode(v)') + Cardinality(Pending(v)')
    BY VnodeRefsNext
  <2>1. OnVnode(v)' = OnVnode(v)
    BY <1>1 DEF OnVnode
  <2>2. /\ Cardinality(Pending(v)) \in Nat
        /\ Cardinality(Pending(v)') =
               Cardinality(Pending(v)) - (IF sys[p].vn = v THEN 1 ELSE 0)
    BY <1>1, <1>4, PendingStep, SMT
  <2>3. vn_refs[v] = Cardinality(OnVnode(v)) + Cardinality(Pending(v))
    BY VnodeRefsIs DEF IInv
  <2>4. vn_refs'[v] = vn_refs[v] - (IF sys[p].vn = v THEN 1 ELSE 0) /\ vn_refs[v] \in Int
    BY <1>1, <1>3, SMT DEF IInv, TypeOK
  <2>5. Cardinality(OnVnode(v)) \in Nat
    BY OnVnodeFinite
  <2> QED
    BY <2>1, <2>2, <2>3, <2>4, <2>5, SMT
<1> QED
  BY <1>2, <1>7, <1>6 DEF IInv

\* file_table_init puts a new table in the place of the old one.
LEMMA ExecvInitInv == ASSUME IInv, NEW p \in Proc, ExecvInit(p) PROVE IInv'
<1> DEFINE r == StdOpen(1, "exec")
<1>1. r \in Sys /\ r.op = "open"
  BY SMT DEF StdOpen, Sys, Vnode, Mode, Callers
<1> HIDE DEF r
<1>2. /\ sys[p].op = "execv" /\ sys' = [sys EXCEPT ![p] = r]
      /\ LoseTable(p) /\ freed' = freed \ {p}
      /\ UNCHANGED <<openfiles, oft_l, vn_refs, crashed>>
  BY DEF ExecvInit, Goto, r
<1>3. /\ fd_t' \in [Proc -> [FD -> Slot \cup {FILE_CLOSED}]]
      /\ lost' \in [Slot -> Nat] /\ freed' \in SUBSET Proc /\ sys' \in [Proc -> Sys]
      /\ Shape' /\ RefCount'
  BY <1>1, <1>2, LoseTableInv DEF IInv, Special
<1>4. TypeOK'
  BY <1>2, <1>3 DEF IInv, TypeOK
<1>5. VnodeRefs'
  <2>1. \A v \in Vnode : OnVnode(v)' = OnVnode(v)
    BY <1>2 DEF OnVnode
  <2>2. sys'[p].op = "open" /\ \A q \in Proc : q # p => sys'[q] = sys[q]
    BY <1>1, <1>2 DEF IInv, TypeOK
  <2>3. \A v \in Vnode : Cardinality(Pending(v)') = Cardinality(Pending(v))
    BY <1>2, <2>2, PendingQuiet
  <2> QED
    BY <1>2, <2>1, <2>3, VnodeRefsIs, VnodeRefsNext DEF IInv
<1> QED
  BY <1>3, <1>4, <1>5 DEF IInv

\* One entry of the table of p changes, between two calls or within one.
LEMMA EntryShape ==
    ASSUME TypeOK, Shape, NEW p \in Proc, NEW r \in Sys, NEW f \in FD,
           NEW s \in Slot \cup {FILE_CLOSED},
           sys' = [sys EXCEPT ![p] = r], fd_t' = [fd_t EXCEPT ![p][f] = s],
           UNCHANGED <<freed, oft_l>>, p \notin freed,
           sys[p].op \notin {"embryo", "forking", "io"},
           r.op \notin {"embryo", "forking", "io", "none"},
           r.op = "dup2set" =>
               /\ r.old \in FD /\ r.new \in FD
               /\ fd_t'[p][r.old] \in Slot /\ fd_t'[p][r.new] = FILE_CLOSED,
           r.op = "exit" => \A g \in FD : g < r.i => fd_t'[p][g] = FILE_CLOSED
    PROVE  Shape' /\ fd_t' \in [Proc -> [FD -> Slot \cup {FILE_CLOSED}]]
<1>1. sys'[p] = r /\ \A u \in Proc : u # p => sys'[u] = sys[u]
  BY DEF TypeOK
<1>2. \A u \in Proc : u # p => fd_t'[u] = fd_t[u]
  BY DEF TypeOK
<1>3. fd_t' \in [Proc -> [FD -> Slot \cup {FILE_CLOSED}]]
  BY DEF TypeOK
<1>4. ForkShape'
  <2>1. \A q \in Proc : sys[q].op = "forking" => sys[q].child \in Proc \ {p}
    BY ChildProc, SMT DEF Shape, ForkShape
  <2> QED
    BY <1>1, <1>2, <2>1, SMT DEF Shape, ForkShape
<1>5. Dup2Shape'
  BY <1>1, <1>2, SMT DEF Shape, Dup2Shape
<1>6. IoShape'
  BY <1>1, <1>2, SMT DEF Shape, IoShape
<1>7. ClosedShape'
  BY <1>1, <1>2, SMT DEF Shape, ClosedShape
<1>8. FreedShape'
  BY <1>1 DEF Shape, FreedShape, TypeOK
<1> QED
  BY <1>3, <1>4, <1>5, <1>6, <1>7, <1>8 DEF Shape

\* Of the other processes nothing changes.
LEMMA OthersHold ==
    ASSUME NEW p \in Proc, \A u \in Proc : u # p => sys'[u] = sys[u] /\ fd_t'[u] = fd_t[u],
           sys[p].op \notin {"embryo", "forking"}, sys'[p].op \notin {"embryo", "forking"},
           NEW q \in Proc, q # p, NEW g \in FD, NEW s
    PROVE  Holds(q, g, s)' <=> Holds(q, g, s)
<1>1. Entry(q, g)' = Entry(q, g)
  BY DEF Entry
<1>2. Counted(q, g)' <=> Counted(q, g)
  BY DEF Counted
<1> QED
  BY <1>1, <1>2 DEF Holds

\* The lowest closed descriptor and the lowest empty slot are taken.
LEMMA InstallInv == ASSUME IInv, NEW p \in Proc, Install(p) PROVE IInv'
<1> DEFINE r == CASE sys[p].by = "open" -> User
                  [] sys[p].by # "open" /\ sys[p].std < 3
                         -> StdOpen(sys[p].std + 1, sys[p].by)
                  [] OTHER -> [op |-> "load", by |-> sys[p].by]
           x == [vn |-> sys[p].vn, am |-> sys[p].am, rc |-> 1, os |-> 0]
<1>1. sys[p].op = "install" /\ p \notin freed
  BY DEF Install, In
<1>2. sys[p] \in [op : {"open", "install"}, vn : Vnode, am : Mode, std : 0 .. 3, by : Callers]
  BY <1>1, SysFields DEF IInv, TypeOK
<1>3. r \in Sys /\ r.op \in {"user", "open", "load"}
  <2>1. CASE sys[p].by = "open"
    BY <2>1 DEF Sys, User
  <2>2. CASE sys[p].by # "open" /\ sys[p].std < 3
    <3>1. StdOpen(sys[p].std + 1, sys[p].by) \in Sys
      BY <1>2, <2>2, SMT DEF StdOpen, Sys, Vnode, Mode
    <3> QED
      BY <2>2, <3>1 DEF StdOpen
  <2>3. CASE sys[p].by # "open" /\ ~(sys[p].std < 3)
    BY <1>2, <2>3 DEF Sys, Callers
  <2> QED
    BY <2>1, <2>2, <2>3
<1>4. x \in OpenFile /\ x # NULL /\ x.vn = sys[p].vn /\ x.rc = 1 /\ x.os = 0
  BY <1>2, NullAssumption, SMT DEF OpenFile
<1>5. PICK f \in FD, s \in Slot :
          /\ IsLowest(f, FreeFds(p)) /\ IsLowest(s, FreeSlots)
          /\ fd_t' = [fd_t EXCEPT ![p][f] = s]
          /\ openfiles' = [openfiles EXCEPT ![s] = x]
  BY DEF Install
<1>6. sys' = [sys EXCEPT ![p] = r] /\ UNCHANGED <<oft_l, freed, vn_refs, crashed, lost>>
  BY DEF Install, Goto
<1> HIDE DEF r, x
<1>7. fd_t[p][f] = FILE_CLOSED /\ openfiles[s] = NULL
  BY <1>5 DEF IsLowest, FreeFds, FreeSlots
<1>8. Shape' /\ fd_t' \in [Proc -> [FD -> Slot \cup {FILE_CLOSED}]]
  BY <1>1, <1>3, <1>5, <1>6, EntryShape DEF IInv
<1>9. sys'[p] = r /\ \A u \in Proc : u # p => sys'[u] = sys[u] /\ fd_t'[u] = fd_t[u]
  BY <1>5, <1>6 DEF IInv, TypeOK
<1>10. openfiles'[s] = x /\ \A u \in Slot : u # s => openfiles'[u] = openfiles[u]
  BY <1>5 DEF IInv, TypeOK
<1>11. TypeOK'
  <2>1. openfiles' \in [Slot -> OpenFile \cup {NULL}]
    BY <1>4, <1>5 DEF IInv, TypeOK
  <2>2. \A u \in Slot : openfiles'[u] # NULL => openfiles'[u].os <= MaxOff
    BY <1>4, <1>10, BoundAssumption, SMT DEF IInv, TypeOK
  <2>3. sys' \in [Proc -> Sys]
    BY <1>3, <1>6 DEF IInv, TypeOK
  <2> QED
    BY <1>6, <1>8, <2>1, <2>2, <2>3 DEF IInv, TypeOK
<1>12. \A u : \A g \in FD : /\ Holds(p, g, u) <=> fd_t[p][g] = u
                            /\ Holds(p, g, u)' <=> fd_t'[p][g] = u
  BY <1>1, <1>3, <1>9 DEF Holds, Counted, Entry
<1>13. \A g \in FD : fd_t'[p][g] = IF g = f THEN s ELSE fd_t[p][g]
  BY <1>5 DEF IInv, TypeOK
<1>14. \A u : \A q \in Proc, g \in FD : q # p => (Holds(q, g, u)' <=> Holds(q, g, u))
  BY <1>1, <1>3, <1>9, OthersHold
<1>15. FILE_CLOSED \notin Slot
  BY SMT DEF FILE_CLOSED, Slot
<1>16. Cardinality(Holders(s)') = Cardinality(Holders(s)) + 1
  BY <1>7, <1>12, <1>13, <1>14, <1>15, HoldersGain, SMT
<1>17. \A u \in Slot : u # s => Holders(u)' = Holders(u)
  BY <1>7, <1>12, <1>13, <1>14, <1>15, HoldersSame, SMT
<1>18. RefCount'
  <2>1. Holders(s) = {} /\ lost[s] = 0
    BY <1>7 DEF IInv, RefCount
  <2>2. Cardinality(Holders(s)') = 1
    BY <1>16, <2>1, FS_EmptySet, SMT
  <2> QED
    BY <1>4, <1>6, <1>10, <1>17, <2>1, <2>2, SMT DEF IInv, RefCount
<1>19. VnodeRefs'
  <2> SUFFICES ASSUME NEW v \in Vnode
               PROVE  vn_refs'[v] = Cardinality(OnVnode(v)') + Cardinality(Pending(v)')
    BY VnodeRefsNext
  <2>1. /\ Cardinality(OnVnode(v)) \in Nat
        /\ Cardinality(OnVnode(v)') =
               Cardinality(OnVnode(v)) + (IF sys[p].vn = v THEN 1 ELSE 0)
    BY <1>4, <1>7, <1>10, OnVnodeStep, SMT
  <2>2. /\ Cardinality(Pending(v)) \in Nat
        /\ Cardinality(Pending(v)') =
               Cardinality(Pending(v)) - (IF sys[p].vn = v THEN 1 ELSE 0)
    BY <1>1, <1>3, <1>9, PendingStep, SMT
  <2> QED
    BY <1>6, <2>1, <2>2, VnodeRefsIs, SMT DEF IInv
<1> QED
  BY <1>8, <1>11, <1>18, <1>19 DEF IInv

----------------------------------------------------------------------------
(* Closing *)

\* The open file that a descriptor leads to is there, and counts it.
LEMMA OpenFileThere ==
    ASSUME TypeOK, Shape, RefCount, NEW p \in Proc, NEW f \in FD, fd_t[p][f] \in Slot
    PROVE  /\ openfiles[fd_t[p][f]] \in OpenFile /\ openfiles[fd_t[p][f]] # NULL
           /\ openfiles[fd_t[p][f]].rc \in Nat \ {0}
<1> DEFINE s == fd_t[p][f]
<1>1. FILE_CLOSED \notin Slot
  BY SMT DEF FILE_CLOSED, Slot
<1>2. \E q \in Proc : Holds(q, f, s)
  <2>1. CASE sys[p].op = "embryo"
    <3>1. PICK q \in Proc : sys[q].op = "forking" /\ fd_t[q] = fd_t[p]
      BY <2>1, SMT DEF Shape, ForkShape
    <3>2. Holds(q, f, s)
      BY <3>1 DEF Holds, Counted, Entry
    <3> QED
      BY <3>2
  <2>2. CASE sys[p].op # "embryo"
    <3>1. ~(sys[p].op = "dup2set" /\ f = sys[p].new)
      BY <1>1 DEF Shape, Dup2Shape
    <3>2. Holds(p, f, s)
      BY <2>2, <3>1 DEF Holds, Counted, Entry
    <3> QED
      BY <3>2
  <2> QED
    BY <2>1, <2>2
<1> HIDE DEF s
<1>3. Holders(s) # {}
  BY <1>2, HoldersSet
<1>4. s \in Slot
  BY DEF s
<1>5. openfiles[s] # NULL /\ openfiles[s].rc = Cardinality(Holders(s)) + lost[s]
  BY <1>3, <1>4 DEF RefCount
<1>6. Cardinality(Holders(s)) \in Nat /\ Cardinality(Holders(s)) # 0
  <2>1. IsFiniteSet(Holders(s)) /\ Cardinality(Holders(s)) \in Nat
    BY HoldersSet, DescriptorsFinite
  <2> QED
    BY <1>3, <2>1, FS_EmptySet
<1>7. lost[s] \in Nat /\ openfiles[s] \in OpenFile
  BY <1>4, <1>5 DEF TypeOK
<1> QED
  BY <1>5, <1>6, <1>7, SMT DEF s

\* No descriptor leads to an empty slot.
LEMMA Dangling == IInv => NoDangling
<1> SUFFICES ASSUME IInv PROVE NoDangling
  OBVIOUS
<1>1. \A p \in Proc, f \in FD : fd_t[p][f] \in Slot => openfiles[fd_t[p][f]] # NULL
  BY OpenFileThere DEF IInv
<1>2. ASSUME NEW p \in Proc, sys[p].op = "io"
      PROVE  oft_l = p /\ openfiles[sys[p].slot] # NULL
  <2>1. oft_l = p /\ \E f \in FD : fd_t[p][f] = sys[p].slot
    BY <1>2 DEF IInv, Shape, IoShape
  <2>2. sys[p].slot \in Slot
    BY <1>2, SysFields, SMT DEF IInv, TypeOK
  <2> QED
    BY <1>1, <2>1, <2>2
<1> QED
  BY <1>1, <1>2 DEF NoDangling

\* A reference to slot s is given up: the count goes down, or the slot is emptied.
LEMMA DroppedSlot ==
    ASSUME NEW of, of \in [Slot -> OpenFile \cup {NULL}], NEW s \in Slot,
           of[s] \in OpenFile, of[s].rc \in Nat \ {0}
    PROVE  /\ Dropped(of, s) \in [Slot -> OpenFile \cup {NULL}]
           /\ \A u \in Slot : u # s => Dropped(of, s)[u] = of[u]
           /\ of[s].rc = 1 => Dropped(of, s)[s] = NULL
           /\ of[s].rc # 1 => /\ Dropped(of, s)[s] \in OpenFile
                              /\ Dropped(of, s)[s] # NULL
                              /\ Dropped(of, s)[s].rc = of[s].rc - 1
                              /\ Dropped(of, s)[s].vn = of[s].vn
                              /\ Dropped(of, s)[s].os = of[s].os
<1> DEFINE x == [of[s] EXCEPT !.rc = @ - 1]
<1>1. of[s].rc # 1 => /\ x \in OpenFile /\ x.rc = of[s].rc - 1
                      /\ x.vn = of[s].vn /\ x.os = of[s].os
  BY SMT DEF OpenFile
<1>2. Dropped(of, s) = [of EXCEPT ![s] = IF of[s].rc = 1 THEN NULL ELSE x]
  BY DEF Dropped
<1> HIDE DEF x
<1> QED
  BY <1>1, <1>2, NullAssumption

\* file_close, by sys_close and by file_table_destroy.
LEMMA FileCloseInv ==
    ASSUME IInv, NEW p \in Proc, NEW f \in FD, NEW s \in Slot, fd_t[p][f] = s, FileClose(p, f),
           NEW r \in Sys, sys' = [sys EXCEPT ![p] = r],
           sys[p].op \in {"close", "exit"}, r.op \in {"user", "exit"},
           r.op = "exit" => \A g \in FD : g < r.i => g = f \/ fd_t[p][g] = FILE_CLOSED,
           p \notin freed, UNCHANGED <<oft_l, freed, crashed, lost>>
    PROVE  IInv'
<1>1. openfiles[s] \in OpenFile /\ openfiles[s] # NULL /\ openfiles[s].rc \in Nat \ {0}
  BY OpenFileThere DEF IInv
<1>2. /\ fd_t' = [fd_t EXCEPT ![p][f] = FILE_CLOSED]
      /\ openfiles' = Dropped(openfiles, s)
      /\ vn_refs' = DroppedRefs(openfiles, s)
  BY <1>1 DEF FileClose
<1>3. \A g \in FD : fd_t'[p][g] = IF g = f THEN FILE_CLOSED ELSE fd_t[p][g]
  BY <1>2 DEF IInv, TypeOK
<1>4. Shape' /\ fd_t' \in [Proc -> [FD -> Slot \cup {FILE_CLOSED}]]
  BY <1>2, <1>3, EntryShape DEF IInv
<1>5. sys'[p] = r /\ \A u \in Proc : u # p => sys'[u] = sys[u] /\ fd_t'[u] = fd_t[u]
  BY <1>2 DEF IInv, TypeOK
<1>6. /\ openfiles' \in [Slot -> OpenFile \cup {NULL}]
      /\ \A u \in Slot : u # s => openfiles'[u] = openfiles[u]
      /\ openfiles[s].rc = 1 => openfiles'[s] = NULL
      /\ openfiles[s].rc # 1 => /\ openfiles'[s] \in OpenFile /\ openfiles'[s] # NULL
                                /\ openfiles'[s].rc = openfiles[s].rc - 1
                                /\ openfiles'[s].vn = openfiles[s].vn
                                /\ openfiles'[s].os = openfiles[s].os
  BY <1>1, <1>2, DroppedSlot, SMT DEF IInv, TypeOK
<1>7. openfiles[s].vn \in Vnode
  BY <1>1 DEF OpenFile
<1>8. TypeOK'
  <2>1. \A u \in Slot : openfiles'[u] # NULL => openfiles'[u].os <= MaxOff
    BY <1>1, <1>6 DEF IInv, TypeOK
  <2>2. vn_refs' \in [Vnode -> Int]
    BY <1>2, <1>7, SMT DEF IInv, TypeOK, DroppedRefs
  <2>3. sys' \in [Proc -> Sys]
    BY DEF IInv, TypeOK
  <2> QED
    BY <1>4, <1>6, <2>1, <2>2, <2>3 DEF IInv, TypeOK
<1>9. \A u : \A g \in FD : /\ Holds(p, g, u) <=> fd_t[p][g] = u
                           /\ Holds(p, g, u)' <=> fd_t'[p][g] = u
  BY <1>5 DEF Holds, Counted, Entry
<1>10. \A u : \A q \in Proc, g \in FD : q # p => (Holds(q, g, u)' <=> Holds(q, g, u))
  BY <1>5, OthersHold
<1>11. FILE_CLOSED \notin Slot
  BY SMT DEF FILE_CLOSED, Slot
<1>12. Cardinality(Holders(s)') = Cardinality(Holders(s)) - 1
  <2>1. Holds(p, f, s)
    BY <1>9
  <2>2. ASSUME NEW q \in Proc, NEW g \in FD
        PROVE  Holds(q, g, s)' <=> Holds(q, g, s) /\ ~(q = p /\ g = f)
    <3>1. CASE q = p
      BY <1>3, <1>9, <1>11, <3>1
    <3>2. CASE q # p
      BY <1>10, <3>2
    <3> QED
      BY <3>1, <3>2
  <2> QED
    BY <2>1, <2>2, HoldersLoss
<1>13. \A u \in Slot : u # s => Holders(u)' = Holders(u)
  <2> SUFFICES ASSUME NEW u \in Slot, u # s, NEW q \in Proc, NEW g \in FD
               PROVE  Holds(q, g, u)' <=> Holds(q, g, u)
    BY HoldersSame
  <2> QED
    BY <1>3, <1>9, <1>10, <1>11, SMT
<1>14. RefCount'
  <2>1. openfiles[s].rc = Cardinality(Holders(s)) + lost[s]
    BY <1>1 DEF IInv, RefCount
  <2>2. /\ Cardinality(Holders(s)') \in Nat /\ IsFiniteSet(Holders(s)')
        /\ Cardinality(Holders(s)) \in Nat
    BY HoldersSet, HoldersSetNext, DescriptorsFinite
  <2>3. lost[s] \in Nat
    BY <1>1 DEF IInv, TypeOK
  <2>4. CASE openfiles[s].rc = 1
    <3>1. Cardinality(Holders(s)') = 0 /\ lost[s] = 0
      BY <1>12, <2>1, <2>2, <2>3, <2>4, SMT
    <3>2. Holders(s)' = {}
      BY <2>2, <3>1, FS_EmptySet
    <3> QED
      BY <1>6, <1>13, <2>4, <3>1, <3>2 DEF IInv, RefCount
  <2>5. CASE openfiles[s].rc # 1
    <3>1. openfiles'[s].rc = Cardinality(Holders(s)') + lost[s]
      BY <1>6, <1>12, <2>1, <2>2, <2>3, <2>5, SMT
    <3> QED
      BY <1>6, <1>13, <2>5, <3>1 DEF IInv, RefCount
  <2> QED
    BY <2>4, <2>5
<1>15. VnodeRefs'
  <2> SUFFICES ASSUME NEW v \in Vnode
               PROVE  vn_refs'[v] = Cardinality(OnVnode(v)') + Cardinality(Pending(v)')
    BY VnodeRefsNext
  <2>1. /\ Cardinality(OnVnode(v)) \in Nat
        /\ Cardinality(OnVnode(v)') = Cardinality(OnVnode(v))
               - (IF openfiles[s].rc = 1 /\ openfiles[s].vn = v THEN 1 ELSE 0)
    BY <1>1, <1>6, OnVnodeStep, SMT
  <2>2. Cardinality(Pending(v)') = Cardinality(Pending(v)) /\ Cardinality(Pending(v)) \in Nat
    BY <1>5, PendingQuiet, PendingStep
  <2>3. /\ vn_refs[v] \in Int
        /\ vn_refs'[v] = vn_refs[v]
               - (IF openfiles[s].rc = 1 /\ openfiles[s].vn = v THEN 1 ELSE 0)
    BY <1>2, <1>7, SMT DEF IInv, TypeOK, DroppedRefs
  <2>4. vn_refs[v] = Cardinality(OnVnode(v)) + Cardinality(Pending(v))
    BY VnodeRefsIs DEF IInv
  <2> QED
    BY <2>1, <2>2, <2>3, <2>4, SMT
<1> QED
  BY <1>4, <1>8, <1>14, <1>15 DEF IInv

\* sys_close.
LEMMA CloseInv == ASSUME IInv, NEW p \in Proc, Close(p) PROVE IInv'
<1>1. /\ sys[p].op = "close" /\ p \notin freed /\ sys[p].fd \in FD
      /\ fd_t[p][sys[p].fd] \in Slot /\ FileClose(p, sys[p].fd)
      /\ sys' = [sys EXCEPT ![p] = User] /\ UNCHANGED <<oft_l, freed, crashed, lost>>
  BY DEF Close, In, Opened, Return, Goto
<1>2. User \in Sys /\ User.op = "user"
  BY DEF Sys, User
<1> QED
  BY <1>1, <1>2, FileCloseInv

\* One turn of file_table_destroy.
LEMMA ExitCloseInv == ASSUME IInv, NEW p \in Proc, ExitClose(p) PROVE IInv'
<1>1. PICK f \in FD : /\ IsLowest(f, OpenFrom(p, sys[p].i)) /\ FileClose(p, f)
                      /\ sys' = [sys EXCEPT ![p] = [sys[p] EXCEPT !.i = f + 1]]
  BY DEF ExitClose, Goto
<1>2. sys[p].op = "exit" /\ p \notin freed /\ UNCHANGED <<oft_l, freed, crashed, lost>>
  BY DEF ExitClose, In
<1>3. sys[p] \in [op : {"exit"}, i : Nat]
  BY <1>2, SysFields DEF IInv, TypeOK
<1> DEFINE r == [sys[p] EXCEPT !.i = f + 1]
<1>4. f \in Nat
  BY SMT DEF FD
<1>5. r \in Sys /\ r.op = "exit" /\ r.i = f + 1
  BY <1>3, <1>4, SMT DEF Sys
<1> HIDE DEF r
<1>6. sys' = [sys EXCEPT ![p] = r]
  BY <1>1 DEF r
<1>7. fd_t[p][f] \in Slot
  BY <1>1, SMT DEF IsLowest, OpenFrom, IInv, TypeOK
<1>8. ASSUME NEW g \in FD, g < r.i PROVE g = f \/ fd_t[p][g] = FILE_CLOSED
  <2>1. g \in Int /\ f \in Int /\ sys[p].i \in Int
    BY <1>3, SMT DEF FD
  <2>2. CASE g < sys[p].i
    BY <1>2, <2>2 DEF IInv, Shape, ClosedShape
  <2>3. CASE g >= sys[p].i
    BY <1>1, <1>5, <1>8, <2>1, <2>3, SMT DEF IsLowest, OpenFrom
  <2> QED
    BY <2>1, <2>2, <2>3, SMT
<1> QED
  BY <1>1, <1>2, <1>5, <1>6, <1>7, <1>8, FileCloseInv

----------------------------------------------------------------------------
(* sys_dup2 *)

\* The open file of oldfd gains a reference, that of newfd loses one.
LEMMA Dup2LockedInv == ASSUME IInv, NEW p \in Proc, Dup2Locked(p) PROVE IInv'
<1>1. /\ sys[p].op = "dup2" /\ p \notin freed
      /\ sys[p].old \in FD /\ sys[p].new \in FD /\ sys[p].old # sys[p].new
      /\ UNCHANGED <<oft_l, freed, lost>>
  BY DEF Dup2Locked, In, Trivial
<1>2. sys[p] \in [op : {"dup2", "dup2set"}, old : Int, new : Int]
  BY <1>1, SysFields DEF IInv, TypeOK
<1>3. PICK a \in FD, b \in FD : a = sys[p].old /\ b = sys[p].new /\ a # b
  BY <1>1
<1>4. PICK o, n \in Slot \cup {FILE_CLOSED} : o = fd_t[p][a] /\ n = fd_t[p][b]
  BY DEF IInv, TypeOK
<1>5. CASE o = FILE_CLOSED
  <2>1. sys' = [sys EXCEPT ![p] = User] /\ UNCHANGED <<openfiles, fd_t, vn_refs, crashed>>
    BY <1>3, <1>4, <1>5 DEF Dup2Locked, Return, Goto
  <2>2. User \in Sys /\ User.op = "user"
    BY DEF Sys, User
  <2>3. Moves(p, User)
    BY <1>1, <2>1, <2>2 DEF Moves, Special, LockStep, Crashes, IInv, TypeOK
  <2> QED
    BY <1>1, <2>1, <2>2, <2>3, QuietInv
<1>6. CASE o # FILE_CLOSED
  <2> DEFINE r == [sys[p] EXCEPT !.op = "dup2set"]
             x == [openfiles[o] EXCEPT !.rc = @ + 1]
             of == [openfiles EXCEPT ![o] = x]
  <2>1. FILE_CLOSED \notin Slot /\ o \in Slot
    BY <1>6, SMT DEF FILE_CLOSED, Slot
  <2>2. openfiles[o] \in OpenFile /\ openfiles[o] # NULL /\ openfiles[o].rc \in Nat \ {0}
    BY <1>4, <2>1, OpenFileThere DEF IInv
  <2>3. n # FILE_CLOSED => /\ n \in Slot /\ openfiles[n] \in OpenFile
                           /\ openfiles[n] # NULL /\ openfiles[n].rc \in Nat \ {0}
    BY <1>4, OpenFileThere DEF IInv
  <2>4. /\ openfiles' = IF n = FILE_CLOSED THEN of ELSE Dropped(of, n)
        /\ vn_refs' = IF n = FILE_CLOSED THEN vn_refs ELSE DroppedRefs(of, n)
        /\ fd_t' = [fd_t EXCEPT ![p][b] = FILE_CLOSED]
        /\ sys' = [sys EXCEPT ![p] = r]
        /\ UNCHANGED crashed
    BY <1>3, <1>4, <1>6, <2>2, <2>3 DEF Dup2Locked, Goto
  <2>5. r \in Sys /\ r.op = "dup2set" /\ r.old = a /\ r.new = b
    BY <1>2, <1>3 DEF Sys
  <2>6. /\ x \in OpenFile /\ x # NULL /\ x.rc = openfiles[o].rc + 1
        /\ x.vn = openfiles[o].vn /\ x.os = openfiles[o].os
    BY <2>2, NullAssumption, SMT DEF OpenFile
  <2> HIDE DEF r, x
  <2>7. /\ of \in [Slot -> OpenFile \cup {NULL}] /\ of[o] = x
        /\ \A u \in Slot : u # o => of[u] = openfiles[u]
    BY <2>1, <2>6 DEF IInv, TypeOK
  <2> HIDE DEF of
  <2>8. \A g \in FD : fd_t'[p][g] = IF g = b THEN FILE_CLOSED ELSE fd_t[p][g]
    BY <2>4 DEF IInv, TypeOK
  <2>9. Shape' /\ fd_t' \in [Proc -> [FD -> Slot \cup {FILE_CLOSED}]]
    <3>1. fd_t'[p][r.old] \in Slot /\ fd_t'[p][r.new] = FILE_CLOSED
      BY <1>3, <1>4, <2>1, <2>5, <2>8
    <3> QED
      BY <1>1, <2>4, <2>5, <3>1, EntryShape DEF IInv
  <2>10. sys'[p] = r /\ \A u \in Proc : u # p => sys'[u] = sys[u] /\ fd_t'[u] = fd_t[u]
    BY <2>4 DEF IInv, TypeOK
  \* What the open files become.
  <2>11. /\ openfiles' \in [Slot -> OpenFile \cup {NULL}]
         /\ \A u \in Slot : u # o /\ u # n => openfiles'[u] = openfiles[u]
         /\ openfiles'[o] \in OpenFile /\ openfiles'[o] # NULL
         /\ openfiles'[o].vn = openfiles[o].vn /\ openfiles'[o].os = openfiles[o].os
         /\ openfiles'[o].rc = IF n = o THEN openfiles[o].rc ELSE openfiles[o].rc + 1
         /\ n # o /\ n # FILE_CLOSED =>
                IF openfiles[n].rc = 1
                  THEN openfiles'[n] = NULL
                  ELSE /\ openfiles'[n] \in OpenFile /\ openfiles'[n] # NULL
                       /\ openfiles'[n].rc = openfiles[n].rc - 1
                       /\ openfiles'[n].vn = openfiles[n].vn
                       /\ openfiles'[n].os = openfiles[n].os
    <3>1. CASE n = FILE_CLOSED
      BY <2>1, <2>4, <2>6, <2>7, <3>1
    <3>2. CASE n = o
      <4>1. of[o].rc \in Nat \ {0} /\ of[o].rc # 1
        BY <2>2, <2>6, <2>7, SMT
      <4>2. openfiles' = Dropped(of, o)
        BY <2>1, <2>4, <3>2
      <4> QED
        BY <2>1, <2>2, <2>6, <2>7, <3>2, <4>1, <4>2, DroppedSlot, SMT
    <3>3. CASE n # o /\ n # FILE_CLOSED
      <4>1. n \in Slot /\ of[n] = openfiles[n] /\ openfiles' = Dropped(of, n)
        BY <2>3, <2>4, <2>7, <3>3
      <4> QED
        BY <2>1, <2>3, <2>6, <2>7, <3>3, <4>1, DroppedSlot, SMT
    <3> QED
      BY <3>1, <3>2, <3>3
  <2>12. vn_refs' \in [Vnode -> Int] /\ \A v \in Vnode :
             vn_refs'[v] = vn_refs[v] - (IF /\ n # o /\ n # FILE_CLOSED
                                            /\ openfiles[n].rc = 1 /\ openfiles[n].vn = v
                                           THEN 1 ELSE 0)
    <3>1. CASE n = FILE_CLOSED
      BY <2>4, <3>1, SMT DEF IInv, TypeOK
    <3>2. CASE n = o
      <4>1. of[o].rc # 1
        BY <2>2, <2>6, <2>7, SMT
      <4> QED
        BY <2>1, <2>4, <3>2, <4>1, SMT DEF IInv, TypeOK, DroppedRefs
    <3>3. CASE n # o /\ n # FILE_CLOSED
      <4>1. of[n] = openfiles[n] /\ openfiles[n].vn \in Vnode
        BY <2>3, <2>7, <3>3 DEF OpenFile
      <4> QED
        BY <2>4, <3>3, <4>1, SMT DEF IInv, TypeOK, DroppedRefs
    <3> QED
      BY <3>1, <3>2, <3>3
  <2>13. TypeOK'
    <3>1. \A u \in Slot : openfiles'[u] # NULL => openfiles'[u].os <= MaxOff
      <4> SUFFICES ASSUME NEW u \in Slot, openfiles'[u] # NULL
                   PROVE  openfiles[u] # NULL /\ openfiles'[u].os = openfiles[u].os
        BY DEF IInv, TypeOK
      <4> QED
        BY <2>1, <2>2, <2>3, <2>11
    <3>2. sys' \in [Proc -> Sys]
      BY <2>4, <2>5 DEF IInv, TypeOK
    <3> QED
      BY <1>1, <2>4, <2>9, <2>11, <2>12, <3>1, <3>2 DEF IInv, TypeOK
  \* Who holds what.
  <2>14. \A u : \A g \in FD : Holds(p, g, u) <=> fd_t[p][g] = u
    BY <1>1 DEF Holds, Counted, Entry
  <2>15. \A u : \A g \in FD :
             Holds(p, g, u)' <=> (IF g = b THEN o ELSE fd_t[p][g]) = u
    <3>1. \A g \in FD : Counted(p, g)'
      BY <2>5, <2>10 DEF Counted
    <3>2. \A g \in FD : Entry(p, g)' = IF g = b THEN o ELSE fd_t[p][g]
      BY <1>3, <1>4, <2>5, <2>8, <2>10 DEF Entry
    <3> QED
      BY <3>1, <3>2 DEF Holds
  <2>16. \A u : \A q \in Proc, g \in FD : q # p => (Holds(q, g, u)' <=> Holds(q, g, u))
    BY <1>1, <2>5, <2>10, OthersHold
  <2>17. n # o => Cardinality(Holders(o)') = Cardinality(Holders(o)) + 1
    <3> SUFFICES ASSUME n # o PROVE Cardinality(Holders(o)') = Cardinality(Holders(o)) + 1
      OBVIOUS
    <3>1. ~Holds(p, b, o)
      BY <1>4, <2>14
    <3>2. ASSUME NEW q \in Proc, NEW g \in FD
          PROVE  Holds(q, g, o)' <=> Holds(q, g, o) \/ (q = p /\ g = b)
      BY <2>14, <2>15, <2>16, SMT
    <3> QED
      BY <3>1, <3>2, HoldersGain
  <2>18. n # o => Cardinality(Holders(n)') = Cardinality(Holders(n)) - 1
    <3> SUFFICES ASSUME n # o PROVE Cardinality(Holders(n)') = Cardinality(Holders(n)) - 1
      OBVIOUS
    <3>1. Holds(p, b, n)
      BY <1>4, <2>14
    <3>2. ASSUME NEW q \in Proc, NEW g \in FD
          PROVE  Holds(q, g, n)' <=> Holds(q, g, n) /\ ~(q = p /\ g = b)
      <4>1. CASE q = p
        BY <2>14, <2>15, <4>1, SMT
      <4>2. CASE q # p
        BY <2>16, <4>2
      <4> QED
        BY <4>1, <4>2
    <3> QED
      BY <3>1, <3>2, HoldersLoss
  <2>19. ASSUME NEW u \in Slot, (u # o /\ u # n) \/ n = o PROVE Holders(u)' = Holders(u)
    <3> SUFFICES ASSUME NEW q \in Proc, NEW g \in FD
                 PROVE  Holds(q, g, u)' <=> Holds(q, g, u)
      BY HoldersSame
    <3>1. CASE q = p
      BY <1>4, <2>14, <2>15, <2>19, <3>1
    <3>2. CASE q # p
      BY <2>16, <3>2
    <3> QED
      BY <3>1, <3>2
  <2>20. RefCount'
    <3>1. \A u \in Slot : /\ openfiles[u] # NULL =>
                                 openfiles[u].rc = Cardinality(Holders(u)) + lost[u]
                          /\ openfiles[u] = NULL => Holders(u) = {} /\ lost[u] = 0
      BY DEF IInv, RefCount
    <3>2. \A u \in Slot : /\ Cardinality(Holders(u)') \in Nat /\ IsFiniteSet(Holders(u)')
                          /\ Cardinality(Holders(u)) \in Nat /\ lost[u] \in Nat
      BY HoldersSet, HoldersSetNext, DescriptorsFinite DEF IInv, TypeOK
    <3> SUFFICES ASSUME NEW u \in Slot
                 PROVE  IF openfiles'[u] = NULL
                          THEN Holders(u)' = {} /\ lost'[u] = 0
                          ELSE openfiles'[u].rc = Cardinality(Holders(u)') + lost'[u]
      BY DEF RefCount
    <3>3. CASE u # o /\ u # n
      BY <1>1, <2>11, <2>19, <3>1, <3>3
    <3>4. CASE u = o
      <4>1. CASE n = o
        BY <1>1, <2>2, <2>11, <2>19, <3>1, <3>4, <4>1
      <4>2. CASE n # o
        BY <1>1, <2>2, <2>11, <2>17, <3>1, <3>2, <3>4, <4>2, SMT
      <4> QED
        BY <4>1, <4>2
    <3>5. CASE u = n /\ u # o
      <4>1. n # FILE_CLOSED /\ openfiles[u].rc = Cardinality(Holders(u)) + lost[u]
        BY <2>1, <2>3, <3>1, <3>5
      <4>2. CASE openfiles[u].rc = 1
        <5>1. Cardinality(Holders(u)') = 0 /\ lost[u] = 0
          BY <2>18, <3>2, <3>5, <4>1, <4>2, SMT
        <5>2. Holders(u)' = {}
          BY <3>2, <5>1, FS_EmptySet
        <5> QED
          BY <1>1, <2>11, <3>5, <4>1, <4>2, <5>1, <5>2
      <4>3. CASE openfiles[u].rc # 1
        BY <1>1, <2>11, <2>18, <3>2, <3>5, <4>1, <4>3, SMT
      <4> QED
        BY <4>2, <4>3
    <3> QED
      BY <3>3, <3>4, <3>5
  <2>21. VnodeRefs'
    <3> SUFFICES ASSUME NEW v \in Vnode
                 PROVE  vn_refs'[v] = Cardinality(OnVnode(v)') + Cardinality(Pending(v)')
      BY VnodeRefsNext
    <3>1. /\ Cardinality(OnVnode(v)) \in Nat
          /\ Cardinality(OnVnode(v)') = Cardinality(OnVnode(v))
                 - (IF /\ n # o /\ n # FILE_CLOSED
                       /\ openfiles[n].rc = 1 /\ openfiles[n].vn = v THEN 1 ELSE 0)
      <4>1. CASE n = o \/ n = FILE_CLOSED
        <5>1. OnVnode(v)' = OnVnode(v)
          BY <2>1, <2>2, <2>11, <4>1 DEF OnVnode
        <5> QED
          BY <4>1, <5>1, OnVnodeFinite, SMT
      <4>2. CASE n # o /\ n # FILE_CLOSED
        <5>1. \A u \in Slot : u # n =>
                  /\ openfiles'[u] = NULL <=> openfiles[u] = NULL
                  /\ openfiles[u] # NULL => openfiles'[u].vn = openfiles[u].vn
          BY <2>2, <2>11
        <5> QED
          BY <2>3, <2>11, <4>2, <5>1, OnVnodeStep, SMT
      <4> QED
        BY <4>1, <4>2
    <3>2. Cardinality(Pending(v)') = Cardinality(Pending(v)) /\ Cardinality(Pending(v)) \in Nat
      BY <1>1, <2>5, <2>10, PendingQuiet, PendingStep
    <3>3. vn_refs[v] = Cardinality(OnVnode(v)) + Cardinality(Pending(v)) /\ vn_refs[v] \in Int
      BY VnodeRefsIs DEF IInv, TypeOK
    <3> QED
      BY <2>12, <3>1, <3>2, <3>3, SMT
  <2> QED
    BY <2>9, <2>13, <2>20, <2>21 DEF IInv
<1> QED
  BY <1>5, <1>6

\* newfd gets the entry that it already counts for.
LEMMA Dup2AssignInv == ASSUME IInv, NEW p \in Proc, Dup2Assign(p) PROVE IInv'
<1>1. /\ sys[p].op = "dup2set" /\ p \notin freed /\ sys' = [sys EXCEPT ![p] = User]
      /\ UNCHANGED <<openfiles, oft_l, freed, vn_refs, crashed, lost>>
  BY DEF Dup2Assign, In, Return, Goto
<1>2. User \in Sys /\ User.op = "user"
  BY DEF Sys, User
<1>3. PICK a \in FD, b \in FD : a = sys[p].old /\ b = sys[p].new
  BY <1>1 DEF IInv, Shape, Dup2Shape
<1>4. PICK o \in Slot : o = fd_t[p][a]
  BY <1>1, <1>3 DEF IInv, Shape, Dup2Shape
<1>5. fd_t' = [fd_t EXCEPT ![p][b] = o]
  BY <1>3, <1>4 DEF Dup2Assign
<1>6. Shape' /\ fd_t' \in [Proc -> [FD -> Slot \cup {FILE_CLOSED}]]
  BY <1>1, <1>2, <1>5, EntryShape DEF IInv
<1>7. sys'[p] = User /\ \A u \in Proc : u # p => sys'[u] = sys[u] /\ fd_t'[u] = fd_t[u]
  BY <1>1, <1>5 DEF IInv, TypeOK
<1>8. TypeOK'
  BY <1>1, <1>2, <1>6 DEF IInv, TypeOK
<1>9. ASSUME NEW u PROVE Holders(u)' = Holders(u)
  <2> SUFFICES ASSUME NEW q \in Proc, NEW g \in FD
               PROVE  Holds(q, g, u)' <=> Holds(q, g, u)
    BY HoldersSame
  <2>1. CASE q = p
    <3>1. fd_t'[p][g] = IF g = b THEN o ELSE fd_t[p][g]
      BY <1>5 DEF IInv, TypeOK
    <3>2. Entry(p, g)' = fd_t'[p][g] /\ Counted(p, g)' /\ Counted(p, g)
      BY <1>1, <1>2, <1>7 DEF Entry, Counted
    <3>3. Entry(p, g) = IF g = b THEN o ELSE fd_t[p][g]
      BY <1>1, <1>3, <1>4 DEF Entry
    <3> QED
      BY <2>1, <3>1, <3>2, <3>3 DEF Holds
  <2>2. CASE q # p
    BY <1>1, <1>2, <1>7, <2>2, OthersHold
  <2> QED
    BY <2>1, <2>2
<1>10. RefCount'
  BY <1>1, <1>9, SameCounts DEF IInv
<1>11. VnodeRefs'
  <2>1. \A v \in Vnode : OnVnode(v)' = OnVnode(v)
    BY <1>1 DEF OnVnode
  <2>2. \A v \in Vnode : Cardinality(Pending(v)') = Cardinality(Pending(v))
    BY <1>1, <1>2, <1>7, PendingQuiet
  <2> QED
    BY <1>1, <2>1, <2>2, VnodeRefsIs, VnodeRefsNext DEF IInv
<1> QED
  BY <1>6, <1>8, <1>10, <1>11 DEF IInv

----------------------------------------------------------------------------
(* sys_fork *)

\* The pending vnode references do not change when no call begins or ends to
\* install an open file.
LEMMA SameVnodeRefs ==
    ASSUME VnodeRefs, UNCHANGED vn_refs,
           \A s \in Slot : /\ openfiles'[s] = NULL <=> openfiles[s] = NULL
                           /\ openfiles[s] # NULL => openfiles'[s].vn = openfiles[s].vn,
           \A q \in Proc : \/ sys'[q] = sys[q]
                           \/ sys[q].op # "install" /\ sys'[q].op # "install"
    PROVE  VnodeRefs'
<1>1. \A v \in Vnode : OnVnode(v)' = OnVnode(v)
  BY DEF OnVnode
<1>2. \A v \in Vnode : Pending(v)' = Pending(v)
  BY DEF Pending
<1> QED
  BY <1>1, <1>2, VnodeRefsIs, VnodeRefsNext

\* The child's table is copied and none of it is counted.
LEMMA ForkCopyInv == ASSUME IInv, NEW p \in Proc, ForkCopy(p) PROVE IInv'
<1>1. PICK c \in Proc :
          /\ sys[c] = None /\ fd_t' = [fd_t EXCEPT ![c] = fd_t[p]]
          /\ sys' = [sys EXCEPT ![p] = [op |-> "forking", child |-> c, i |-> 0],
                               ![c] = [op |-> "embryo"]]
  BY DEF ForkCopy
<1>2. /\ sys[p].op = "fork" /\ p \notin freed
      /\ UNCHANGED <<openfiles, oft_l, freed, vn_refs, crashed, lost>>
  BY DEF ForkCopy, In
<1> DEFINE r == [op |-> "forking", child |-> c, i |-> 0]
           e == [op |-> "embryo"]
<1>3. /\ r \in Sys /\ e \in Sys /\ r.op = "forking" /\ r.child = c /\ r.i = 0
      /\ e.op = "embryo" /\ sys[c].op = "none"
  BY <1>1, SMT DEF Sys, None
<1>4. c # p
  BY <1>2, <1>3
<1> HIDE DEF r, e
<1>5. /\ sys'[p] = r /\ sys'[c] = e /\ \A u \in Proc : u # p /\ u # c => sys'[u] = sys[u]
      /\ sys' \in [Proc -> Sys]
  BY <1>1, <1>3, <1>4 DEF IInv, TypeOK, r, e
<1>6. /\ fd_t' \in [Proc -> [FD -> Slot \cup {FILE_CLOSED}]]
      /\ fd_t'[c] = fd_t[p] /\ \A u \in Proc : u # c => fd_t'[u] = fd_t[u]
  BY <1>1 DEF IInv, TypeOK
<1>7. TypeOK'
  BY <1>2, <1>5, <1>6 DEF IInv, TypeOK
<1>8. \A u \in Proc : sys[u].op = "forking" => sys[u].child # c /\ sys[u].child # p
  BY <1>2, <1>3 DEF IInv, Shape, ForkShape
<1>9. Shape'
  <2>1. ForkShape'
    <3>1. \A q \in Proc : sys[q].op = "forking" => sys[q].child \in Proc
      BY ChildProc DEF IInv
    <3>2. \A q \in Proc : sys'[q].op = "forking" /\ q # p =>
              q # c /\ sys'[q] = sys[q] /\ sys[q].child # c /\ sys[q].child # p
      BY <1>3, <1>5, <1>8
    <3>3. ASSUME NEW u \in Proc, sys'[u].op = "forking"
          PROVE  /\ sys'[sys'[u].child].op = "embryo"
                 /\ fd_t'[sys'[u].child] = fd_t'[u]
                 /\ \A q \in Proc :
                        sys'[q].op = "forking" /\ sys'[q].child = sys'[u].child => q = u
      <4>1. CASE u = p
        BY <1>3, <1>4, <1>5, <1>6, <3>2, <4>1
      <4>2. CASE u # p
        <5>1. sys[u].op = "forking" /\ sys'[u] = sys[u] /\ sys[u].child \in Proc \ {p, c} /\ u # c
          BY <3>1, <3>2, <3>3, <4>2
        <5>2. sys'[sys[u].child] = sys[sys[u].child] /\ fd_t'[sys[u].child] = fd_t'[u]
          BY <1>5, <1>6, <5>1, SMT DEF IInv, Shape, ForkShape
        <5>3. sys[sys[u].child].op = "embryo"
          BY <5>1 DEF IInv, Shape, ForkShape
        <5>4. \A q \in Proc : sys'[q].op = "forking" /\ sys'[q].child = sys'[u].child => q = u
          <6>1. \A q \in Proc : sys[q].op = "forking" /\ sys[q].child = sys[u].child => q = u
            BY <5>1 DEF IInv, Shape, ForkShape
          <6> SUFFICES ASSUME NEW q \in Proc, sys'[q].op = "forking",
                              sys'[q].child = sys'[u].child
                       PROVE  q = u
            OBVIOUS
          <6>2. q # p
            BY <1>3, <1>5, <5>1
          <6> QED
            BY <3>2, <5>1, <6>1, <6>2
        <5> QED
          BY <5>1, <5>2, <5>3, <5>4
      <4> QED
        BY <4>1, <4>2
    <3>4. ASSUME NEW u \in Proc, sys'[u].op = "embryo"
          PROVE  \E q \in Proc : sys'[q].op = "forking" /\ sys'[q].child = u
      <4>1. CASE u = c
        BY <1>3, <1>5, <4>1
      <4>2. CASE u # c
        <5>1. u # p /\ sys[u].op = "embryo"
          BY <1>3, <1>5, <3>4, <4>2
        <5>2. PICK q \in Proc : sys[q].op = "forking" /\ sys[q].child = u
          BY <5>1 DEF IInv, Shape, ForkShape
        <5> QED
          BY <1>2, <1>3, <1>5, <5>2
      <4> QED
        BY <4>1, <4>2
    <3> QED
      BY <3>3, <3>4 DEF ForkShape
  <2>2. Dup2Shape'
    BY <1>3, <1>5, <1>6 DEF IInv, Shape, Dup2Shape
  <2>3. IoShape'
    BY <1>2, <1>3, <1>5, <1>6 DEF IInv, Shape, IoShape
  <2>4. c \notin freed
    BY <1>3 DEF IInv, Shape, FreedShape
  <2>5. ClosedShape'
    BY <1>2, <1>3, <1>5, <1>6, <2>4, SMT DEF IInv, Shape, ClosedShape
  <2>6. FreedShape'
    BY <1>2, <1>3, <1>5, <2>4 DEF IInv, Shape, FreedShape, TypeOK
  <2> QED
    BY <2>1, <2>2, <2>3, <2>5, <2>6 DEF Shape
<1>10. ASSUME NEW s \in Slot PROVE Holders(s)' = Holders(s)
  <2> SUFFICES ASSUME NEW q \in Proc, NEW g \in FD
               PROVE  Holds(q, g, s)' <=> Holds(q, g, s)
    BY HoldersSame
  <2>1. CASE q = c
    <3>1. ~Counted(c, g)'
      <4>1. ~(g < 0)
        BY SMT DEF FD
      <4> QED
        BY <1>3, <1>5, <1>8, <4>1 DEF Counted
    <3>2. Entry(c, g) # s
      <4>1. fd_t[c][g] = FILE_CLOSED
        BY <1>3 DEF IInv, Shape, ClosedShape
      <4> QED
        BY <1>3, <4>1, SMT DEF Entry, FILE_CLOSED, Slot
    <3> QED
      BY <2>1, <3>1, <3>2 DEF Holds
  <2>2. CASE q = p
    BY <1>2, <1>3, <1>4, <1>5, <1>6, <2>2 DEF Holds, Entry, Counted
  <2>3. CASE q # p /\ q # c
    <3>1. Entry(q, g)' = Entry(q, g)
      BY <1>5, <1>6, <2>3 DEF Entry
    <3>2. Counted(q, g)' <=> Counted(q, g)
      BY <1>2, <1>3, <1>5, <2>3 DEF Counted
    <3> QED
      BY <3>1, <3>2 DEF Holds
  <2> QED
    BY <2>1, <2>2, <2>3
<1>11. RefCount'
  BY <1>2, <1>10, SameCounts DEF IInv
<1>12. VnodeRefs'
  BY <1>2, <1>3, <1>5, SameVnodeRefs DEF IInv
<1> QED
  BY <1>7, <1>9, <1>11, <1>12 DEF IInv

\* One turn of the counting loop: the child's next open descriptor is counted.
LEMMA ForkCountInv == ASSUME IInv, NEW p \in Proc, ForkCount(p) PROVE IInv'
<1>1. /\ sys[p].op = "forking" /\ p \notin freed
      /\ UNCHANGED <<oft_l, fd_t, freed, vn_refs, lost>>
  BY DEF ForkCount, In
<1>2. sys[p] \in [op : {"forking"}, child : Proc, i : Nat]
  BY <1>1, SysFields DEF IInv, TypeOK
<1>3. PICK c \in Proc : c = sys[p].child
  BY <1>2
<1>4. PICK f \in FD :
          /\ IsLowest(f, OpenFrom(c, sys[p].i))
          /\ IF openfiles[fd_t[c][f]] = NULL
               THEN crashed' = "panic" /\ UNCHANGED <<openfiles, sys>>
               ELSE /\ openfiles' = [openfiles EXCEPT ![fd_t[c][f]].rc = @ + 1]
                    /\ sys' = [sys EXCEPT ![p] = [sys[p] EXCEPT !.i = f + 1]]
                    /\ UNCHANGED crashed
  BY <1>3 DEF ForkCount, Goto
<1>5. PICK s \in Slot : s = fd_t[c][f]
  BY <1>4, SMT DEF IsLowest, OpenFrom, IInv, TypeOK
<1>6. openfiles[s] \in OpenFile /\ openfiles[s] # NULL /\ openfiles[s].rc \in Nat \ {0}
  BY <1>5, OpenFileThere DEF IInv
<1> DEFINE r == [sys[p] EXCEPT !.i = f + 1]
           x == [openfiles[s] EXCEPT !.rc = @ + 1]
<1>7. /\ openfiles' = [openfiles EXCEPT ![s] = x]
      /\ sys' = [sys EXCEPT ![p] = r] /\ UNCHANGED crashed
  BY <1>4, <1>5, <1>6
<1>8. r \in Sys /\ r.op = "forking" /\ r.child = c /\ r.i = f + 1
  <2>1. f + 1 \in Nat
    BY SMT DEF FD
  <2> QED
    BY <1>2, <1>3, <2>1 DEF Sys
<1>9. /\ x \in OpenFile /\ x # NULL /\ x.rc = openfiles[s].rc + 1
      /\ x.vn = openfiles[s].vn /\ x.os = openfiles[s].os
  BY <1>6, NullAssumption, SMT DEF OpenFile
<1> HIDE DEF r, x
<1>10. /\ sys'[p] = r /\ (\A u \in Proc : u # p => sys'[u] = sys[u])
       /\ sys' \in [Proc -> Sys]
  BY <1>7, <1>8 DEF IInv, TypeOK
<1>11. /\ openfiles'[s] = x /\ (\A u \in Slot : u # s => openfiles'[u] = openfiles[u])
       /\ openfiles' \in [Slot -> OpenFile \cup {NULL}]
  BY <1>7, <1>9 DEF IInv, TypeOK
<1>12. TypeOK'
  <2>1. \A u \in Slot : openfiles'[u] # NULL => openfiles'[u].os <= MaxOff
    BY <1>6, <1>9, <1>11 DEF IInv, TypeOK
  <2> QED
    BY <1>1, <1>7, <1>10, <1>11, <2>1 DEF IInv, TypeOK
<1>13. c # p /\ sys[c].op = "embryo" /\ fd_t[c] = fd_t[p]
  BY <1>1, <1>3 DEF IInv, Shape, ForkShape
<1>14. \A q \in Proc : sys[q].op = "forking" /\ sys[q].child = c => q = p
  BY <1>1, <1>3 DEF IInv, Shape, ForkShape
<1>15. Shape'
  <2>1. ForkShape'
    <3>1. \A q \in Proc : sys'[q].op = sys[q].op
      BY <1>1, <1>8, <1>10
    <3>2. \A q \in Proc : sys[q].op = "forking" => sys[q].child \in Proc /\ sys'[q].child = sys[q].child
      BY <1>3, <1>8, <1>10, ChildProc DEF IInv
    <3> QED
      BY <1>1, <3>1, <3>2, SMT DEF IInv, Shape, ForkShape
  <2>2. Dup2Shape'
    BY <1>1, <1>8, <1>10 DEF IInv, Shape, Dup2Shape
  <2>3. IoShape'
    BY <1>1, <1>8, <1>10, SMT DEF IInv, Shape, IoShape
  <2>4. ClosedShape'
    BY <1>1, <1>8, <1>10 DEF IInv, Shape, ClosedShape
  <2>5. FreedShape'
    BY <1>1, <1>8, <1>10 DEF IInv, Shape, FreedShape, TypeOK
  <2> QED
    BY <2>1, <2>2, <2>3, <2>4, <2>5 DEF Shape
\* Which entries of the child are counted.
<1>16. \A g \in FD : /\ Counted(c, g) <=> g < sys[p].i
                     /\ Counted(c, g)' <=> g < f + 1
  <2>1. \A q \in Proc : sys'[q].op = "forking" /\ sys'[q].child = c => q = p
    BY <1>10, <1>14
  <2> QED
    BY <1>1, <1>3, <1>8, <1>10, <1>13, <1>14, <2>1 DEF Counted
<1>17. \A g \in FD : Entry(c, g)' = Entry(c, g) /\ Entry(c, g) = fd_t[c][g]
  BY <1>1, <1>10, <1>13 DEF Entry
<1>18. \A u : \A q \in Proc, g \in FD : q # c => (Holds(q, g, u)' <=> Holds(q, g, u))
  <2> SUFFICES ASSUME NEW u, NEW q \in Proc, NEW g \in FD, q # c
               PROVE  Holds(q, g, u)' <=> Holds(q, g, u)
    OBVIOUS
  <2>1. Entry(q, g)' = Entry(q, g)
    BY <1>1, <1>8, <1>10 DEF Entry
  <2>2. Counted(q, g)' <=> Counted(q, g)
    BY <1>1, <1>3, <1>8, <1>10 DEF Counted
  <2> QED
    BY <2>1, <2>2 DEF Holds
<1>19. ASSUME NEW u \in Slot, NEW g \in FD
       PROVE  Holds(c, g, u)' <=> Holds(c, g, u) \/ (g = f /\ u = s)
  <2>1. g \in Int /\ f \in Int /\ sys[p].i \in Int
    BY <1>2, SMT DEF FD
  <2>2. sys[p].i <= f /\ (g >= sys[p].i /\ g < f => fd_t[c][g] = FILE_CLOSED)
    BY <1>4, <2>1, SMT DEF IsLowest, OpenFrom
  <2>3. u # FILE_CLOSED
    BY SMT DEF Slot, FILE_CLOSED
  <2>4. /\ Holds(c, g, u) <=> g < sys[p].i /\ fd_t[c][g] = u
        /\ Holds(c, g, u)' <=> g < f + 1 /\ fd_t[c][g] = u
    BY <1>16, <1>17 DEF Holds
  <2>5. CASE g < f
    BY <2>1, <2>2, <2>3, <2>4, <2>5, SMT
  <2>6. CASE g >= f
    BY <1>5, <2>1, <2>2, <2>4, <2>6, SMT
  <2> QED
    BY <2>1, <2>5, <2>6, SMT
<1>20. ~Holds(c, f, s)
  <2>1. f \in Int /\ sys[p].i \in Int /\ sys[p].i <= f
    BY <1>2, <1>4, SMT DEF FD, IsLowest, OpenFrom
  <2> QED
    BY <1>16, <2>1, SMT DEF Holds
<1>21. Cardinality(Holders(s)') = Cardinality(Holders(s)) + 1
  <2>1. ASSUME NEW q \in Proc, NEW g \in FD
        PROVE  Holds(q, g, s)' <=> Holds(q, g, s) \/ (q = c /\ g = f)
    <3>1. CASE q = c
      BY <1>19, <3>1
    <3>2. CASE q # c
      BY <1>18, <3>2
    <3> QED
      BY <3>1, <3>2
  <2> QED
    BY <1>20, <2>1, HoldersGain
<1>22. ASSUME NEW u \in Slot, u # s PROVE Holders(u)' = Holders(u)
  <2> SUFFICES ASSUME NEW q \in Proc, NEW g \in FD
               PROVE  Holds(q, g, u)' <=> Holds(q, g, u)
    BY HoldersSame
  <2>1. CASE q = c
    BY <1>19, <1>22, <2>1
  <2>2. CASE q # c
    BY <1>18, <2>2
  <2> QED
    BY <2>1, <2>2
<1>23. RefCount'
  <2>1. openfiles[s].rc = Cardinality(Holders(s)) + lost[s]
    BY <1>6 DEF IInv, RefCount
  <2>2. Cardinality(Holders(s)) \in Nat /\ lost[s] \in Nat
    BY HoldersSet, DescriptorsFinite DEF IInv, TypeOK
  <2>3. openfiles'[s] # NULL /\ openfiles'[s].rc = Cardinality(Holders(s)') + lost'[s]
    BY <1>1, <1>9, <1>11, <1>21, <2>1, <2>2, SMT
  <2> QED
    BY <1>1, <1>11, <1>22, <2>3 DEF IInv, RefCount
<1>24. VnodeRefs'
  BY <1>1, <1>6, <1>8, <1>9, <1>10, <1>11, SameVnodeRefs DEF IInv
<1> QED
  BY <1>12, <1>15, <1>23, <1>24 DEF IInv

\* When the loop of sys_fork is done, all that the child's table leads to is counted.
LEMMA AllCounted ==
    ASSUME IInv, NEW p \in Proc, NEW c \in Proc, sys[p].op = "forking", sys[p].child = c,
           OpenFrom(c, sys[p].i) = {}, NEW g \in FD, NEW s \in Slot
    PROVE  Holds(c, g, s) <=> fd_t[c][g] = s
<1>1. sys[c].op = "embryo"
  BY DEF IInv, Shape, ForkShape
<1>2. Entry(c, g) = fd_t[c][g]
  BY <1>1 DEF Entry
<1>3. g \in Int /\ sys[p].i \in Int /\ s # FILE_CLOSED
  BY ChildProc, SMT DEF IInv, FD, Slot, FILE_CLOSED
<1>4. fd_t[c][g] = s => g < sys[p].i
  BY <1>3, SMT DEF OpenFrom
<1>5. g < sys[p].i => Counted(c, g)
  BY <1>1 DEF Counted
<1> QED
  BY <1>2, <1>4, <1>5 DEF Holds

\* sys_fork comes to its end, with the child in state r.
LEMMA ForkEnds ==
    ASSUME IInv, NEW p \in Proc, NEW c \in Proc, sys[p].op = "forking", sys[p].child = c,
           sys'[p] = User, sys'[c] \in {User, None},
           \A u \in Proc : u # p /\ u # c => sys'[u] = sys[u],
           UNCHANGED <<freed, oft_l>>, \A u \in Proc : u # c => fd_t'[u] = fd_t[u],
           sys'[c] = User \/ \A f \in FD : fd_t'[c][f] = FILE_CLOSED
    PROVE  /\ Shape'
           /\ \A q \in Proc, g \in FD, s \in Slot :
                  q # c => (Holds(q, g, s)' <=> Holds(q, g, s))
<1> DEFINE r == sys'[c]
<1>1. c # p /\ sys[c].op = "embryo"
  BY DEF IInv, Shape, ForkShape
<1>2. r.op \in {"user", "none"} /\ (r.op = "none" => r # User)
  BY SMT DEF User, None
<1>3. User.op = "user"
  BY DEF User
<1>4. /\ sys'[p] = User /\ sys'[c] = r
      /\ \A u \in Proc : u # p /\ u # c => sys'[u] = sys[u]
  OBVIOUS
<1>5. \A q \in Proc : sys[q].op = "forking" /\ q # p =>
          sys[q].child \in Proc \ {p, c} /\ q # c
  <2>1. \A q \in Proc : sys[q].op = "forking" => sys[q].child \in Proc
    BY ChildProc DEF IInv
  <2> QED
    BY <1>1, <2>1, SMT DEF IInv, Shape, ForkShape
<1>6. Shape'
  <2>1. ForkShape'
    <3>1. ASSUME NEW u \in Proc, sys'[u].op = "forking"
          PROVE  /\ sys'[sys'[u].child].op = "embryo"
                 /\ fd_t'[sys'[u].child] = fd_t'[u]
                 /\ \A q \in Proc :
                        sys'[q].op = "forking" /\ sys'[q].child = sys'[u].child => q = u
      <4>1. u # p /\ u # c /\ sys'[u] = sys[u]
        BY <1>2, <1>3, <1>4, <3>1
      <4>2. sys[u].child \in Proc \ {p, c}
        BY <1>5, <3>1, <4>1
      <4>3. sys'[sys[u].child] = sys[sys[u].child] /\ fd_t'[sys[u].child] = fd_t'[u]
        BY <1>4, <3>1, <4>1, <4>2, SMT DEF IInv, Shape, ForkShape
      <4>4. sys[sys[u].child].op = "embryo"
        BY <3>1, <4>1, SMT DEF IInv, Shape, ForkShape
      <4>5. \A q \in Proc : sys'[q].op = "forking" /\ sys'[q].child = sys'[u].child => q = u
        BY <1>2, <1>3, <1>4, <3>1, <4>1, SMT DEF IInv, Shape, ForkShape
      <4> QED
        BY <4>1, <4>3, <4>4, <4>5
    <3>2. ASSUME NEW u \in Proc, sys'[u].op = "embryo"
          PROVE  \E q \in Proc : sys'[q].op = "forking" /\ sys'[q].child = u
      <4>1. u # p /\ u # c /\ sys[u].op = "embryo"
        BY <1>2, <1>3, <1>4, <3>2
      <4>2. PICK q \in Proc : sys[q].op = "forking" /\ sys[q].child = u
        BY <4>1 DEF IInv, Shape, ForkShape
      <4>3. q # p /\ q # c
        BY <1>1, <4>1, <4>2
      <4> QED
        BY <1>4, <4>2, <4>3
    <3> QED
      BY <3>1, <3>2 DEF ForkShape
  <2>2. Dup2Shape'
    BY <1>2, <1>3, <1>4, SMT DEF IInv, Shape, Dup2Shape
  <2>3. IoShape'
    BY <1>2, <1>3, <1>4 DEF IInv, Shape, IoShape
  <2>4. c \notin freed
    BY <1>1 DEF IInv, Shape, FreedShape
  <2>5. ClosedShape'
    BY <1>2, <1>3, <1>4, <2>4, SMT DEF IInv, Shape, ClosedShape
  <2>6. FreedShape'
    BY <1>2, <1>3, <1>4, <2>4 DEF IInv, Shape, FreedShape, TypeOK
  <2> QED
    BY <2>1, <2>2, <2>3, <2>5, <2>6 DEF Shape
<1>7. ASSUME NEW q \in Proc, NEW g \in FD, NEW s \in Slot, q # c
      PROVE  Holds(q, g, s)' <=> Holds(q, g, s)
  <2>1. Entry(q, g)' = Entry(q, g)
    BY <1>3, <1>4, <1>7 DEF Entry
  <2>2. Counted(q, g)' <=> Counted(q, g)
    BY <1>1, <1>2, <1>3, <1>4, <1>7 DEF Counted
  <2> QED
    BY <2>1, <2>2 DEF Holds
<1> QED
  BY <1>6, <1>7

\* thread_fork makes the child runnable.
LEMMA ForkThreadInv == ASSUME IInv, NEW p \in Proc, ForkThread(p) PROVE IInv'
<1>1. /\ sys[p].op = "forking" /\ OpenFrom(sys[p].child, sys[p].i) = {}
      /\ UNCHANGED <<openfiles, oft_l, fd_t, freed, vn_refs, crashed, lost>>
  BY DEF ForkThread, In
<1>2. PICK c \in Proc : c = sys[p].child
  BY <1>1, ChildProc DEF IInv
<1>3. sys' = [sys EXCEPT ![p] = User, ![c] = User]
  BY <1>2 DEF ForkThread
<1>4. /\ c # p /\ sys'[p] = User /\ sys'[c] = User /\ User.op = "user"
      /\ \A u \in Proc : u # p /\ u # c => sys'[u] = sys[u]
      /\ sys' \in [Proc -> Sys] /\ Shape'
      /\ \A q \in Proc, g \in FD, s \in Slot :
             q # c => (Holds(q, g, s)' <=> Holds(q, g, s))
  <2>1. c # p /\ sys'[p] = User /\ sys'[c] = User /\ sys' \in [Proc -> Sys]
    <3>1. c # p
      BY <1>1, <1>2 DEF IInv, Shape, ForkShape
    <3>2. sys \in [Proc -> Sys] /\ User \in Sys /\ None \in Sys
      BY DEF IInv, TypeOK, Sys
    <3> QED
      BY <1>3, <3>1, <3>2
  <2>2. \A u \in Proc : u # p /\ u # c => sys'[u] = sys[u]
    BY <1>3 DEF IInv, TypeOK
  <2>3. User.op = "user"
    BY DEF User
  <2>4. /\ Shape'
        /\ \A q \in Proc, g \in FD, s \in Slot :
               q # c => (Holds(q, g, s)' <=> Holds(q, g, s))
    BY <1>1, <1>2, <2>1, <2>2, ForkEnds, SMT
  <2> QED
    BY <2>1, <2>2, <2>3, <2>4
<1>5. TypeOK'
  BY <1>1, <1>4 DEF IInv, TypeOK
<1>6. ASSUME NEW s \in Slot PROVE Holders(s)' = Holders(s)
  <2> SUFFICES ASSUME NEW q \in Proc, NEW g \in FD
               PROVE  Holds(q, g, s)' <=> Holds(q, g, s)
    BY HoldersSame
  <2>1. Holds(c, g, s)' <=> fd_t[c][g] = s
    BY <1>1, <1>4 DEF Holds, Counted, Entry
  <2>2. Holds(c, g, s) <=> fd_t[c][g] = s
    BY <1>1, <1>2, AllCounted
  <2> QED
    BY <1>4, <2>1, <2>2
<1>7. RefCount'
  BY <1>1, <1>6, SameCounts DEF IInv
<1>8. sys[c].op = "embryo"
  BY <1>1, <1>2 DEF IInv, Shape, ForkShape
<1>9. VnodeRefs'
  BY <1>1, <1>4, <1>8, SameVnodeRefs DEF IInv
<1> QED
  BY <1>4, <1>5, <1>7, <1>9 DEF IInv

\* thread_fork fails: what the child's table held is lost.
LEMMA ForkThreadFailsInv == ASSUME IInv, NEW p \in Proc, ForkThreadFails(p) PROVE IInv'
<1>1. /\ sys[p].op = "forking" /\ OpenFrom(sys[p].child, sys[p].i) = {}
      /\ UNCHANGED <<openfiles, oft_l, freed, vn_refs, crashed>>
  BY DEF ForkThreadFails, In
<1>2. PICK c \in Proc : c = sys[p].child
  BY <1>1, ChildProc DEF IInv
<1>3. sys' = [sys EXCEPT ![p] = User, ![c] = None] /\ LoseTable(c)
  BY <1>2 DEF ForkThreadFails
<1>4. /\ fd_t' \in [Proc -> [FD -> Slot \cup {FILE_CLOSED}]]
      /\ \A f \in FD : fd_t'[c][f] = FILE_CLOSED
      /\ \A u \in Proc : u # c => fd_t'[u] = fd_t[u]
  BY <1>3 DEF LoseTable, Closed, IInv, TypeOK
<1>5. /\ c # p /\ sys'[p] = User /\ sys'[c] = None /\ User.op = "user"
      /\ \A u \in Proc : u # p /\ u # c => sys'[u] = sys[u]
      /\ sys' \in [Proc -> Sys] /\ Shape'
      /\ \A q \in Proc, g \in FD, s \in Slot :
             q # c => (Holds(q, g, s)' <=> Holds(q, g, s))
  <2>1. c # p /\ sys'[p] = User /\ sys'[c] = None /\ sys' \in [Proc -> Sys]
    <3>1. c # p
      BY <1>1, <1>2 DEF IInv, Shape, ForkShape
    <3>2. sys \in [Proc -> Sys] /\ User \in Sys /\ None \in Sys
      BY DEF IInv, TypeOK, Sys
    <3> QED
      BY <1>3, <3>1, <3>2
  <2>2. \A u \in Proc : u # p /\ u # c => sys'[u] = sys[u]
    BY <1>3 DEF IInv, TypeOK
  <2>3. User.op = "user"
    BY DEF User
  <2>4. /\ Shape'
        /\ \A q \in Proc, g \in FD, s \in Slot :
               q # c => (Holds(q, g, s)' <=> Holds(q, g, s))
    BY <1>1, <1>2, <1>4, <2>1, <2>2, ForkEnds
  <2> QED
    BY <2>1, <2>2, <2>3, <2>4
<1>6. None.op = "none"
  BY DEF None
<1>7. ASSUME NEW s \in Slot
      PROVE  /\ Cardinality(Holders(s)) = Cardinality(Holders(s)') + Refs(c, s)
             /\ Refs(c, s) \in Nat
  <2>1. \A g \in FD : Holds(c, g, s) <=> fd_t[c][g] = s
    BY <1>1, <1>2, AllCounted
  <2>2. \A g \in FD : ~Holds(c, g, s)'
    BY <1>4, <1>5, <1>6, SMT DEF Holds, Entry, FILE_CLOSED, Slot
  <2>3. \A q \in Proc, g \in FD : Holds(q, g, s)' <=> Holds(q, g, s) /\ q # c
    BY <1>5, <2>2
  <2> QED
    BY <2>1, <2>3, HoldersLoseTable
<1>8. (\A s \in Slot : lost'[s] = lost[s] + Refs(c, s)) /\ lost' \in [Slot -> Nat]
  BY <1>3, <1>7, SMT DEF LoseTable, IInv, TypeOK
<1>9. TypeOK'
  BY <1>1, <1>4, <1>5, <1>8 DEF IInv, TypeOK
<1>10. RefCount'
  BY <1>1, <1>7, <1>8, LostCounts DEF IInv
<1>11. sys[c].op = "embryo"
  BY <1>1, <1>2 DEF IInv, Shape, ForkShape
<1>12. VnodeRefs'
  BY <1>1, <1>5, <1>6, <1>11, SameVnodeRefs DEF IInv
<1> QED
  BY <1>5, <1>9, <1>10, <1>12 DEF IInv

----------------------------------------------------------------------------
(* The other steps *)

\* A system call returns without having changed anything.
LEMMA ReturnInv ==
    ASSUME IInv, NEW p \in Proc, Return(p), crashed' \in Crashes,
           sys[p].op \notin Special \cup {"install", "io"},
           UNCHANGED <<openfiles, oft_l, fd_t, freed, vn_refs, lost>>
    PROVE  IInv'
<1>1. User \in Sys /\ User.op = "user" /\ sys' = [sys EXCEPT ![p] = User]
  BY DEF Sys, User, Return, Goto
<1>2. Moves(p, User)
  BY <1>1 DEF Moves, Special, LockStep, IInv, TypeOK
<1> QED
  BY <1>1, <1>2, QuietInv

\* The calls that are refused, and the end of a successful execv.
LEMMA RefusedInv ==
    ASSUME IInv, NEW p \in Proc,
           \/ IoBad(p) \/ CloseBad(p) \/ Dup2Trivial(p) \/ LseekBad(p)
           \/ ForkFails(p) \/ ExecvRefused(p) \/ Load(p)
    PROVE  IInv'
<1>1. /\ Return(p) /\ UNCHANGED <<openfiles, oft_l, fd_t, freed, vn_refs, lost>>
      /\ sys[p].op \in {"read", "write", "close", "dup2", "lseek", "fork", "execv", "load"}
  BY DEF IoBad, CloseBad, Dup2Trivial, LseekBad, ForkFails, ExecvRefused, Load, In
<1>2. crashed \in Crashes
  BY DEF IInv, TypeOK, Crashes
<1>3. crashed' \in Crashes
  BY <1>2 DEF IoBad, CloseBad, Dup2Trivial, LseekBad, ForkFails, ExecvRefused, Load, Crashes
<1> QED
  BY <1>1, <1>3, ReturnInv DEF Special

\* A program makes a system call.
LEMMA CallInv == ASSUME IInv, NEW p \in Proc, Call(p) PROVE IInv'
<1>1. PICK r \in Request : sys' = [sys EXCEPT ![p] = r]
  BY DEF Call, Goto
<1>2. /\ sys[p].op = "user"
      /\ UNCHANGED <<openfiles, oft_l, fd_t, freed, vn_refs, crashed, lost>>
  <2>1. sys[p] = User /\ UNCHANGED <<openfiles, oft_l, fd_t, freed, vn_refs, crashed, lost>>
    BY DEF Call
  <2>2. User.op = "user"
    BY DEF User
  <2> QED
    BY <2>1, <2>2
<1>3. /\ r \in Sys
      /\ r.op \in {"open", "close", "read", "write", "dup2", "lseek", "fork", "execv", "exit"}
      /\ r.op = "exit" => r.i = 0
  BY RequestSys
<1>4. Moves(p, r)
  BY <1>1, <1>2, <1>3 DEF Moves, Special, LockStep, Crashes, IInv, TypeOK
<1> QED
  BY <1>2, <1>3, <1>4, QuietInv

\* The menu starts a program.
LEMMA RunProgramInv == ASSUME IInv, NEW p \in Proc, RunProgram(p) PROVE IInv'
<1> DEFINE r == StdOpen(1, "run")
<1>1. r \in Sys /\ r.op = "open"
  BY SMT DEF StdOpen, Sys, Vnode, Mode, Callers
<1> HIDE DEF r
<1>2. /\ sys[p].op = "none" /\ sys' = [sys EXCEPT ![p] = r]
      /\ UNCHANGED <<openfiles, oft_l, vn_refs, crashed, lost>>
  BY SMT DEF RunProgram, Goto, None, r
<1>3. fd_t' = fd_t
  <2>1. fd_t[p] \in [FD -> Slot \cup {FILE_CLOSED}] /\ \A f \in FD : fd_t[p][f] = FILE_CLOSED
    BY <1>2 DEF IInv, Shape, ClosedShape, TypeOK
  <2>2. fd_t[p] = Closed
    BY <2>1 DEF Closed
  <2> QED
    BY <2>2 DEF RunProgram, IInv, TypeOK
<1>4. freed' = freed
  <2>1. p \notin freed
    BY <1>2 DEF IInv, Shape, FreedShape
  <2> QED
    BY <2>1 DEF RunProgram
<1>5. Moves(p, r)
  BY <1>1, <1>2, <1>3, <1>4 DEF Moves, Special, LockStep, Crashes, IInv, TypeOK
<1> QED
  BY <1>1, <1>2, <1>5, QuietInv

\* A read or a write takes oft_l.
LEMMA IoBeginInv == ASSUME IInv, NEW p \in Proc, IoBegin(p) PROVE IInv'
<1>1. /\ sys[p].op \in {"read", "write"} /\ sys[p].fd \in FD /\ fd_t[p][sys[p].fd] \in Slot
      /\ oft_l = NoProc /\ oft_l' = p
      /\ UNCHANGED <<openfiles, fd_t, freed, vn_refs, crashed, lost>>
  BY DEF IoBegin, Opened
<1>2. PICK s \in Slot : s = fd_t[p][sys[p].fd]
  BY <1>1
<1> DEFINE r == [op |-> "io", slot |-> s]
<1>3. sys' = [sys EXCEPT ![p] = r]
  BY <1>2 DEF IoBegin, Goto
<1>4. r \in Sys /\ r.op = "io" /\ r.slot = s
  BY DEF Sys
<1> HIDE DEF r
<1>5. Moves(p, r)
  BY <1>1, <1>2, <1>3, <1>4 DEF Moves, Special, LockStep, Crashes, IInv, TypeOK
<1> QED
  BY <1>1, <1>4, <1>5, QuietInv

\* VOP_READ or VOP_WRITE returns.
LEMMA IoEndInv == ASSUME IInv, NEW p \in Proc, IoEnd(p) PROVE IInv'
<1>1. /\ sys[p].op = "io" /\ sys' = [sys EXCEPT ![p] = User] /\ oft_l' = NoProc
      /\ UNCHANGED <<fd_t, freed, vn_refs, crashed, lost>>
  BY DEF IoEnd, In, Return, Goto
<1>2. PICK s \in Slot : s = sys[p].slot
  BY <1>1, SysFields, SMT DEF IInv, TypeOK
<1>3. openfiles[s] # NULL
  BY <1>1, <1>2, Dangling DEF NoDangling
<1>4. openfiles[s].os \in Nat
  BY <1>3 DEF IInv, TypeOK, OpenFile
<1>5. PICK os \in openfiles[s].os .. MaxOff : openfiles' = [openfiles EXCEPT ![s].os = os]
  BY <1>2 DEF IoEnd
<1>6. os \in 0 .. MaxOff
  BY <1>4, <1>5, BoundAssumption, SMT
<1>7. User \in Sys /\ User.op = "user"
  BY DEF Sys, User
<1>8. Moves(p, User)
  BY <1>1, <1>7 DEF Moves, Special, LockStep, Crashes, IInv, TypeOK
<1> QED
  BY <1>1, <1>3, <1>5, <1>6, <1>7, <1>8, SeekInv

\* sys_lseek finds the open file.
LEMMA LseekInv == ASSUME IInv, NEW p \in Proc, Lseek(p) PROVE IInv'
<1>1. /\ sys[p].op = "lseek" /\ sys[p].fd \in FD /\ fd_t[p][sys[p].fd] \in Slot
      /\ UNCHANGED <<oft_l, fd_t, freed, vn_refs, lost>>
  BY DEF Lseek, In, Opened
<1>2. PICK s \in Slot : s = fd_t[p][sys[p].fd]
  BY <1>1
<1>3. openfiles[s] # NULL
  BY <1>1, <1>2, Dangling DEF NoDangling
<1>4. /\ sys' = [sys EXCEPT ![p] = User] /\ UNCHANGED crashed
      /\ openfiles' = IF openfiles[s].vn # Con /\ sys[p].to >= 0
                        THEN [openfiles EXCEPT ![s].os = sys[p].to] ELSE openfiles
  BY <1>2, <1>3 DEF Lseek, Return, Goto
<1>5. User \in Sys /\ User.op = "user"
  BY DEF Sys, User
<1>6. Moves(p, User)
  BY <1>1, <1>4, <1>5 DEF Moves, Special, LockStep, Crashes, IInv, TypeOK
<1>7. sys[p].to \in -1 .. MaxOff
  BY <1>1, SysFields, SMT DEF IInv, TypeOK
<1>8. CASE openfiles[s].vn # Con /\ sys[p].to >= 0
  <2>1. PICK o \in 0 .. MaxOff : o = sys[p].to
    BY <1>7, <1>8, BoundAssumption, SMT
  <2>2. openfiles' = [openfiles EXCEPT ![s].os = o]
    BY <1>4, <1>8, <2>1
  <2> QED
    BY <1>1, <1>3, <1>5, <1>6, <2>2, SeekInv
<1>9. CASE ~(openfiles[s].vn # Con /\ sys[p].to >= 0)
  BY <1>1, <1>4, <1>5, <1>6, <1>9, QuietInv
<1> QED
  BY <1>8, <1>9

\* The process is destroyed.
LEMMA ExitDoneInv == ASSUME IInv, NEW p \in Proc, ExitDone(p) PROVE IInv'
<1>1. /\ sys[p].op = "exit" /\ p \notin freed /\ OpenFrom(p, sys[p].i) = {}
      /\ sys' = [sys EXCEPT ![p] = None] /\ crashed' \in Crashes
      /\ UNCHANGED <<openfiles, oft_l, fd_t, freed, vn_refs, lost>>
  BY DEF ExitDone, In, Goto, Crashes
<1>2. None \in Sys /\ None.op = "none"
  BY DEF Sys, None
<1>3. ASSUME NEW f \in FD PROVE fd_t[p][f] = FILE_CLOSED
  <2>1. sys[p].i \in Int /\ f \in Int
    <3>1. sys[p] \in Sys
      BY DEF IInv, TypeOK
    <3>2. sys[p] \in [op : {"exit"}, i : Nat]
      BY <1>1, <3>1, SysFields
    <3>3. f \in Int
      BY SMT DEF FD
    <3> QED
      BY <3>2, <3>3, SMT
  <2>2. CASE f < sys[p].i
    BY <1>1, <2>2 DEF IInv, Shape, ClosedShape
  <2>3. CASE f >= sys[p].i
    BY <1>1, <2>3 DEF OpenFrom
  <2> QED
    BY <2>1, <2>2, <2>3, SMT
<1>4. Moves(p, None)
  BY <1>1, <1>2, <1>3 DEF Moves, Special, LockStep, IInv, TypeOK
<1> QED
  BY <1>1, <1>2, <1>4, QuietInv

\* A panic, or the use of a table that is not there.
LEMMA FailsInv ==
    ASSUME IInv, NEW p \in Proc, ForkNoTable(p) \/ UseFreed(p) PROVE IInv'
<1>1. crashed' \in Crashes /\ UNCHANGED <<openfiles, oft_l, fd_t, freed, sys, vn_refs, lost>>
  BY DEF ForkNoTable, UseFreed, Crashes
<1> QED
  BY <1>1, CrashInv

----------------------------------------------------------------------------
(* The theorems *)

\* The invariant holds initially.
LEMMA InitInv == FileInit => IInv
<1> SUFFICES ASSUME FileInit PROVE IInv
  OBVIOUS
<1>1. None \in Sys /\ None.op = "none"
  BY DEF Sys, None
<1>2. TypeOK
  BY <1>1, SMT DEF FileInit, TypeOK, Closed
<1>3. Shape
  BY <1>1 DEF FileInit, Shape, ForkShape, Dup2Shape, IoShape, ClosedShape, FreedShape, Closed
<1>4. \A s \in Slot : Holders(s) = {}
  <2> SUFFICES ASSUME NEW s \in Slot, NEW h \in Proc \X FD PROVE ~Holds(h[1], h[2], s)
    BY DEF Holders
  <2>1. h[1] \in Proc /\ h[2] \in FD
    OBVIOUS
  <2> QED
    BY <1>1, <2>1, SMT DEF FileInit, Holds, Entry, Closed, FILE_CLOSED, Slot
<1>5. RefCount
  BY <1>4 DEF FileInit, RefCount
<1>6. \A v \in Vnode : OnVnode(v) = {} /\ Pending(v) = {}
  BY <1>1 DEF FileInit, OnVnode, Pending
<1>7. VnodeRefs
  <2>1. Cardinality({}) = 0
    BY FS_EmptySet
  <2>2. \A v \in Vnode : vn_refs[v] = 0
    BY DEF FileInit
  <2> QED
    BY <1>6, <2>1, <2>2, VnodeRefsIs, SMT
<1> QED
  BY <1>2, <1>3, <1>5, <1>7 DEF IInv

\* Every step keeps it.
LEMMA NextInv == IInv /\ [FileNext]_fileVars => IInv'
<1> SUFFICES ASSUME IInv, [FileNext]_fileVars PROVE IInv'
  OBVIOUS
<1>1. ASSUME NEW p \in Proc, Call(p) \/ RunProgram(p) \/ IoEnd(p) PROVE IInv'
  BY <1>1, CallInv, RunProgramInv, IoEndInv
<1>2. ASSUME NEW p \in Proc, Step(p) PROVE IInv'
  <2>1. CASE OpenVnode(p) \/ OpenVnodeFails(p) \/ Install(p) \/ InstallFails(p)
    BY <2>1, OpenVnodeInv, OpenVnodeFailsInv, InstallInv, InstallFailsInv
  <2>2. CASE IoBegin(p) \/ Close(p) \/ Dup2Locked(p) \/ Dup2Assign(p) \/ Lseek(p)
    BY <2>2, IoBeginInv, CloseInv, Dup2LockedInv, Dup2AssignInv, LseekInv
  <2>3. CASE \/ IoBad(p) \/ CloseBad(p) \/ Dup2Trivial(p) \/ LseekBad(p)
             \/ ForkFails(p) \/ ExecvRefused(p) \/ Load(p)
    BY <2>3, RefusedInv
  <2>4. CASE ForkNoTable(p) \/ UseFreed(p)
    BY <2>4, FailsInv
  <2>5. CASE ForkCopy(p) \/ ForkCount(p) \/ ForkThread(p) \/ ForkThreadFails(p)
    BY <2>5, ForkCopyInv, ForkCountInv, ForkThreadInv, ForkThreadFailsInv
  <2>6. CASE ExecvInit(p) \/ ExitClose(p) \/ ExitDone(p)
    BY <2>6, ExecvInitInv, ExitCloseInv, ExitDoneInv
  <2> QED
    BY <1>2, <2>1, <2>2, <2>3, <2>4, <2>5, <2>6 DEF Step
<1>3. CASE UNCHANGED fileVars
  <2>1. crashed' \in Crashes /\ UNCHANGED <<openfiles, oft_l, fd_t, freed, sys, vn_refs, lost>>
    BY <1>3 DEF fileVars, IInv, TypeOK, Crashes
  <2> QED
    BY <2>1, CrashInv
<1> QED
  BY <1>1, <1>2, <1>3 DEF FileNext, Halted

\* The variables keep their types, the tables their shape and the counts their
\* meaning: IInv is an inductive invariant of the file tables.
THEOREM Invariance == FileSpec => []IInv
<1>1. FileInit => IInv
  BY InitInv
<1>2. IInv /\ [FileNext]_fileVars => IInv'
  BY NextInv
<1> QED
  BY <1>1, <1>2, PTL DEF FileSpec

\* The reference count of an open file is the number of descriptors that lead to
\* it plus the references that execv and a failed fork gave up, whatever the
\* number of processes and the length of the tables.
THEOREM CountsAreRight == FileSpec => []RefCount
<1>1. IInv => RefCount
  BY DEF IInv
<1> QED
  BY <1>1, Invariance, PTL

\* No descriptor leads to an empty slot, and what a thread reads or writes under
\* oft_l stays open: file_close frees an open file only with its last descriptor.
THEOREM NothingDangles == FileSpec => []NoDangling
  BY Dangling, Invariance, PTL

\* Every vnode has one reference for each open file on it and for each open()
\* that is about to install one: none is dropped twice or forgotten.
THEOREM VnodesBalance == FileSpec => []VnodeRefs
<1>1. IInv => VnodeRefs
  BY DEF IInv
<1> QED
  BY <1>1, Invariance, PTL

============================================================================
