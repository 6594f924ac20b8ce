----------------------------- MODULE FileTable -----------------------------
(***************************************************************************)
(* The two-level file tables of the kernel: every process has a table of   *)
(* descriptors (struct fd_table) whose entries index one global table of   *)
(* open files (struct file_table), guarded by one sleep lock, oft_l.       *)
(*                                                                         *)
(* A process has one thread, so a descriptor table is read and written by  *)
(* its own process only (a child's table by the parent until thread_fork). *)
(* Everything the processes share is touched with oft_l held, so a whole   *)
(* critical section is one action, enabled when oft_l is free.  Only read  *)
(* and write are two actions each: they keep oft_l while VOP_READ or       *)
(* VOP_WRITE sleeps, for as long as the device has nothing to deliver.     *)
(***************************************************************************)
EXTENDS Integers, FiniteSets

CONSTANTS
    Proc,       \* the process structures
    File,       \* the files that open() can name
    Con,        \* the console vnode "con:"
    OPEN_MAX,   \* the length of both tables
    Modes,      \* the access modes that programs open files with
    ArgFd,      \* the descriptor numbers that programs pass to the kernel
    Dup2Args,   \* the pairs of them that they pass to dup2
    Calls,      \* the system calls that programs make
    MaxRc,      \* bound: fork and dup2 are called while all counts are below it
    MaxOff,     \* bound: the largest offset
    OutOfMemory,\* whether kmalloc can fail
    NULL,       \* the null pointer
    NoProc      \* no thread holds oft_l

FD == 0 .. OPEN_MAX - 1
Slot == 0 .. OPEN_MAX - 1
FILE_CLOSED == -1
Vnode == File \cup {Con}
Mode == {"O_RDONLY", "O_WRONLY", "O_RDWR"}
OpenFile == [vn : Vnode, am : Mode, rc : Nat, os : Nat]

ASSUME ProcAssumption == NoProc \notin Proc /\ IsFiniteSet(Proc)
ASSUME FileAssumption == Con \notin File
ASSUME SizeAssumption == OPEN_MAX \in Nat /\ Modes \subseteq Mode
ASSUME ArgAssumption == ArgFd \subseteq Int /\ Dup2Args \subseteq Int \X Int
ASSUME BoundAssumption == MaxRc \in Nat /\ MaxOff \in Nat /\ OutOfMemory \in BOOLEAN
ASSUME NullAssumption == NULL \notin OpenFile

VARIABLES
    openfiles,  \* of_t->openfiles
    oft_l,      \* the thread that holds of_t->oft_l
    fd_t,       \* the descriptor table of each process
    freed,      \* the processes whose fd_t points to freed memory, or nowhere
    sys,        \* where each process is: in user mode, or in which system call
    vn_refs,    \* the references to each vnode held through these tables
    crashed,    \* "no", or "panic", or "undefined"
    lost        \* ghost: for each slot, the counted references nobody holds

fileVars == <<openfiles, oft_l, fd_t, freed, sys, vn_refs, crashed, lost>>

None == [op |-> "none"]
User == [op |-> "user"]

\* What a program may ask the kernel for.
Request ==
    [op : {"open"} \cap Calls, vn : File, am : Modes, std : {0}, by : {"open"}]
    \cup [op : {"close", "read", "write"} \cap Calls, fd : ArgFd]
    \cup {[op |-> "dup2", old |-> a[1], new |-> a[2]] :
              a \in {b \in Dup2Args : "dup2" \in Calls}}
    \cup [op : {"lseek"} \cap Calls, fd : ArgFd, to : -1 .. MaxOff]
    \cup [op : {"fork", "execv"} \cap Calls]
    \cup [op : {"exit"} \cap Calls, i : {0}]

\* The k-th open of file_table_init; k = 1 is stdin, 2 stdout, 3 stderr.
StdOpen(k, caller) ==
    [op |-> "open", vn |-> Con, std |-> k, by |-> caller,
     am |-> IF k = 1 THEN "O_RDONLY" ELSE "O_WRONLY"]

Running == crashed = "no"
Closed == [f \in FD |-> FILE_CLOSED]
Goto(p, r) == sys' = [sys EXCEPT ![p] = r]
Return(p) == Goto(p, User)
IsLowest(i, S) == i \in S /\ \A j \in S : i <= j
Refs(p, s) == Cardinality({f \in FD : fd_t[p][f] = s})
Incref(v) == vn_refs' = [vn_refs EXCEPT ![v] = @ + 1]
Decref(v) == vn_refs' = [vn_refs EXCEPT ![v] = @ - 1]

FileInit ==
    /\ openfiles = [s \in Slot |-> NULL]
    /\ oft_l = NoProc
    /\ fd_t = [p \in Proc |-> Closed]
    /\ freed = {}
    /\ sys = [p \in Proc |-> None]
    /\ vn_refs = [v \in Vnode |-> 0]
    /\ crashed = "no"
    /\ lost = [s \in Slot |-> 0]

----------------------------------------------------------------------------
(* Programs *)

\* A program traps into the kernel.
Call(p) ==
    /\ Running /\ sys[p] = User
    /\ \E r \in Request :
           /\ r.op \in {"fork", "dup2"} =>
                  \A s \in Slot : openfiles[s] # NULL => openfiles[s].rc < MaxRc
           /\ Goto(p, r)
    /\ UNCHANGED <<openfiles, oft_l, fd_t, freed, vn_refs, crashed, lost>>

\* dup2 between descriptors out of range, or of a descriptor to itself.
Trivial(p) == {sys[p].old, sys[p].new} \subseteq FD => sys[p].old = sys[p].new

\* A thread dereferences a descriptor table that kfree has reclaimed or that
\* was never allocated: what it then does is not defined by the source.
UseFreed(p) ==
    /\ Running /\ p \in freed
    /\ \/ sys[p].op \in {"install", "fork", "exit"}
       \/ sys[p].op \in {"close", "read", "write", "lseek"} /\ sys[p].fd \in FD
       \/ sys[p].op = "dup2" /\ ~Trivial(p)
    /\ crashed' = "undefined"
    /\ UNCHANGED <<openfiles, oft_l, fd_t, freed, sys, vn_refs, lost>>

\* A thread of p is inside a system call, with a table it may use.
In(p, op) == Running /\ sys[p].op = op /\ p \notin freed

----------------------------------------------------------------------------
(* file_open *)

\* The call of vfs_open, made before oft_l is taken.
OpenVnode(p) ==
    /\ Running /\ sys[p].op = "open"
    /\ Goto(p, [sys[p] EXCEPT !.op = "install"])
    /\ Incref(sys[p].vn)
    /\ UNCHANGED <<openfiles, oft_l, fd_t, freed, crashed, lost>>

\* The table of p is dropped without file_close: its references stay counted.
LoseTable(p) ==
    /\ fd_t' = [fd_t EXCEPT ![p] = Closed]
    /\ lost' = [s \in Slot |-> lost[s] + Refs(p, s)]

\* What an error of file_open leads to in its caller: sys_open returns it;
\* file_table_init frees the new table (at k = 1 this stands for the failure
\* to allocate it, too) and returns it, to sys_execv, which returns to the old
\* program, or to runprogram, whose thread then returns to thread_startup and
\* fails thread_exit's assertion that it has no process.  What the freed table
\* referred to stays counted.
OpenError(p) ==
    /\ Return(p)
    /\ IF sys[p].by = "open"
          THEN UNCHANGED <<freed, crashed>>
          ELSE /\ freed' = freed \cup {p}
               /\ crashed' = IF sys[p].by = "run" THEN "panic" ELSE crashed
    /\ UNCHANGED <<fd_t, lost>>

\* The console is always there.
OpenVnodeFails(p) ==
    /\ Running /\ sys[p].op = "open"
    /\ sys[p].vn # Con \/ OutOfMemory
    /\ OpenError(p)
    /\ UNCHANGED <<openfiles, oft_l, vn_refs>>

FreeFds(p) == {f \in FD : fd_t[p][f] = FILE_CLOSED}
FreeSlots == {s \in Slot : openfiles[s] = NULL}

\* Mutant of Install: the offset of the new open file is not reset.
InstallStale(p) ==
    /\ In(p, "install") /\ oft_l = NoProc
    /\ \E f \in FD, s \in Slot :
           /\ IsLowest(f, FreeFds(p)) /\ IsLowest(s, FreeSlots)
           /\ fd_t' = [fd_t EXCEPT ![p][f] = s]
           /\ openfiles' = [openfiles EXCEPT ![s] =
                  [vn |-> sys[p].vn, am |-> sys[p].am, rc |-> 1, os |-> MaxOff]]
    /\ Goto(p, CASE sys[p].by = "open" -> User
                 [] sys[p].by # "open" /\ sys[p].std < 3
                        -> StdOpen(sys[p].std + 1, sys[p].by)
                 [] OTHER -> [op |-> "load", by |-> sys[p].by])
    /\ UNCHANGED <<oft_l, freed, vn_refs, crashed, lost>>

\* The rest of file_open, under oft_l: the lowest closed descriptor gets the
\* lowest empty slot.
Install(p) ==
    /\ In(p, "install") /\ oft_l = NoProc
    /\ \E f \in FD, s \in Slot :
           /\ IsLowest(f, FreeFds(p)) /\ IsLowest(s, FreeSlots)
           /\ fd_t' = [fd_t EXCEPT ![p][f] = s]
           /\ openfiles' = [openfiles EXCEPT ![s] =
                  [vn |-> sys[p].vn, am |-> sys[p].am, rc |-> 1, os |-> 0]]
    /\ Goto(p, CASE sys[p].by = "open" -> User
                 [] sys[p].by # "open" /\ sys[p].std < 3
                        -> StdOpen(sys[p].std + 1, sys[p].by)
                 [] OTHER -> [op |-> "load", by |-> sys[p].by])
    /\ UNCHANGED <<oft_l, freed, vn_refs, crashed, lost>>

\* Mutant of InstallFails: the vnode is not closed on the error path.
InstallFailsLeaks(p) ==
    /\ In(p, "install") /\ oft_l = NoProc
    /\ FreeFds(p) = {} \/ FreeSlots = {} \/ OutOfMemory
    /\ OpenError(p)
    /\ UNCHANGED <<openfiles, oft_l, vn_refs>>

\* EMFILE when either table is full, ENOMEM when kmalloc fails; both close
\* the vnode again.
InstallFails(p) ==
    /\ In(p, "install") /\ oft_l = NoProc
    /\ FreeFds(p) = {} \/ FreeSlots = {} \/ OutOfMemory
    /\ Decref(sys[p].vn)
    /\ OpenError(p)
    /\ UNCHANGED <<openfiles, oft_l>>

----------------------------------------------------------------------------
(* file_read and file_write *)

Opened(p, f) == f \in FD /\ fd_t[p][f] \in Slot
\* The descriptor of the call is out of range, or its entry says closed.
BadFd(p) == sys[p].fd \in FD => p \notin freed /\ ~Opened(p, sys[p].fd)
Forbidden == [read |-> "O_WRONLY", write |-> "O_RDONLY"]

\* Mutant of IoBegin: oft_l is released before VOP_READ is called.
IoBeginUnlocked(p) ==
    /\ Running /\ sys[p].op \in {"read", "write"} /\ p \notin freed
    /\ Opened(p, sys[p].fd) /\ oft_l = NoProc
    /\ LET s == fd_t[p][sys[p].fd]
       IN  /\ openfiles[s] # NULL
           /\ openfiles[s].am # Forbidden[sys[p].op]
           /\ Goto(p, [op |-> "io", slot |-> s])
    /\ UNCHANGED <<openfiles, oft_l, fd_t, freed, vn_refs, crashed, lost>>

\* oft_l is taken, the checks pass, VOP_READ or VOP_WRITE is called.
IoBegin(p) ==
    /\ Running /\ sys[p].op \in {"read", "write"} /\ p \notin freed
    /\ Opened(p, sys[p].fd) /\ oft_l = NoProc
    /\ LET s == fd_t[p][sys[p].fd]
       IN  /\ openfiles[s] # NULL
           /\ openfiles[s].am # Forbidden[sys[p].op]
           /\ Goto(p, [op |-> "io", slot |-> s])
    /\ oft_l' = p
    /\ UNCHANGED <<openfiles, fd_t, freed, vn_refs, crashed, lost>>

\* EBADF, before oft_l is taken or under it.
IoBad(p) ==
    /\ Running /\ sys[p].op \in {"read", "write"}
    /\ \/ BadFd(p)
       \/ /\ p \notin freed /\ Opened(p, sys[p].fd) /\ oft_l = NoProc
          /\ LET of == openfiles[fd_t[p][sys[p].fd]]
             IN  of # NULL => of.am = Forbidden[sys[p].op]
    /\ Return(p)
    /\ UNCHANGED <<openfiles, oft_l, fd_t, freed, vn_refs, crashed, lost>>

\* VOP_READ or VOP_WRITE returns: with an error, or having moved some bytes,
\* by which the offset of the open file advances.
IoEnd(p) ==
    /\ In(p, "io")
    /\ LET s == sys[p].slot
       IN  \E os \in openfiles[s].os .. MaxOff :
               openfiles' = [openfiles EXCEPT ![s].os = os]
    /\ oft_l' = NoProc
    /\ Return(p)
    /\ UNCHANGED <<fd_t, freed, vn_refs, crashed, lost>>

----------------------------------------------------------------------------
(* file_close, called by sys_close, sys_dup2 and file_table_destroy *)

\* Mutant of Dropped: the count is not decremented.
DroppedKeeps(of, s) == [of EXCEPT ![s] = IF @.rc = 1 THEN NULL ELSE @]

\* What file_close makes of the open files when a reference to slot s goes.
Dropped(of, s) ==
    IF of[s].rc = 1 THEN [of EXCEPT ![s] = NULL] ELSE [of EXCEPT ![s].rc = @ - 1]

\* The last reference also closes the vnode.
DroppedRefs(of, s) ==
    IF of[s].rc = 1 THEN [vn_refs EXCEPT ![of[s].vn] = @ - 1] ELSE vn_refs

\* file_close(f) in process p, from the point where oft_l is held.
FileClose(p, f) ==
    LET s == fd_t[p][f]
    IN  IF openfiles[s] = NULL
          THEN UNCHANGED <<fd_t, openfiles, vn_refs>>
          ELSE /\ fd_t' = [fd_t EXCEPT ![p][f] = FILE_CLOSED]
               /\ openfiles' = Dropped(openfiles, s)
               /\ vn_refs' = DroppedRefs(openfiles, s)

Close(p) ==
    /\ In(p, "close") /\ Opened(p, sys[p].fd) /\ oft_l = NoProc
    /\ FileClose(p, sys[p].fd)
    /\ Return(p)
    /\ UNCHANGED <<oft_l, freed, crashed, lost>>

CloseBad(p) ==
    /\ Running /\ sys[p].op = "close" /\ BadFd(p)
    /\ Return(p)
    /\ UNCHANGED <<openfiles, oft_l, fd_t, freed, vn_refs, crashed, lost>>

----------------------------------------------------------------------------
(* sys_dup2 *)

\* Nothing is looked up.
Dup2Trivial(p) ==
    /\ Running /\ sys[p].op = "dup2" /\ Trivial(p)
    /\ Return(p)
    /\ UNCHANGED <<openfiles, oft_l, fd_t, freed, vn_refs, crashed, lost>>

\* Under oft_l: the open file of oldfd gains a reference, newfd is closed.
\* A table entry that led to no open file would be dereferenced, or would make
\* file_close release oft_l under sys_dup2's feet: a panic either way.
Dup2Locked(p) ==
    /\ In(p, "dup2") /\ ~Trivial(p) /\ oft_l = NoProc
    /\ LET o == fd_t[p][sys[p].old]
           n == fd_t[p][sys[p].new]
           of == [openfiles EXCEPT ![o].rc = @ + 1]
       IN  IF o = FILE_CLOSED
             THEN Return(p) /\ UNCHANGED <<openfiles, fd_t, vn_refs, crashed>>
             ELSE IF openfiles[o] = NULL \/ (n # FILE_CLOSED /\ openfiles[n] = NULL)
             THEN crashed' = "panic" /\ UNCHANGED <<openfiles, fd_t, vn_refs, sys>>
             ELSE /\ openfiles' = IF n = FILE_CLOSED THEN of ELSE Dropped(of, n)
                  /\ vn_refs' = IF n = FILE_CLOSED THEN vn_refs ELSE DroppedRefs(of, n)
                  /\ fd_t' = [fd_t EXCEPT ![p][sys[p].new] = FILE_CLOSED]
                  /\ Goto(p, [sys[p] EXCEPT !.op = "dup2set"])
                  /\ UNCHANGED crashed
    /\ UNCHANGED <<oft_l, freed, lost>>

\* After oft_l is released, newfd takes the entry that oldfd has now.
Dup2Assign(p) ==
    /\ In(p, "dup2set")
    /\ fd_t' = [fd_t EXCEPT ![p][sys[p].new] = fd_t[p][sys[p].old]]
    /\ Return(p)
    /\ UNCHANGED <<openfiles, oft_l, freed, vn_refs, crashed, lost>>

----------------------------------------------------------------------------
(* sys_lseek; "to" is the position that whence and pos add up to, -1 one that *)
(* is negative or a whence that is not one *)

Lseek(p) ==
    /\ In(p, "lseek") /\ Opened(p, sys[p].fd) /\ oft_l = NoProc
    /\ LET s == fd_t[p][sys[p].fd]
       IN  IF openfiles[s] = NULL
             THEN crashed' = "panic" /\ UNCHANGED <<openfiles, sys>>
             ELSE /\ openfiles' =
                         IF openfiles[s].vn # Con /\ sys[p].to >= 0
                           THEN [openfiles EXCEPT ![s].os = sys[p].to]
                           ELSE openfiles
                  /\ Return(p)
                  /\ UNCHANGED crashed
    /\ UNCHANGED <<oft_l, fd_t, freed, vn_refs, lost>>

LseekBad(p) ==
    /\ Running /\ sys[p].op = "lseek"
    /\ BadFd(p) \/ sys[p].to = -1
    /\ Return(p)
    /\ UNCHANGED <<openfiles, oft_l, fd_t, freed, vn_refs, crashed, lost>>

----------------------------------------------------------------------------
(* sys_fork *)

\* ENOMEM from kmalloc, as_copy or proc_create_runprogram.
ForkFails(p) ==
    /\ Running /\ sys[p].op = "fork"
    /\ OutOfMemory \/ \A c \in Proc : sys[c] # None
    /\ Return(p)
    /\ UNCHANGED <<openfiles, oft_l, fd_t, freed, vn_refs, crashed, lost>>

\* The result of kmalloc is not checked before the table is copied into it.
ForkNoTable(p) ==
    /\ In(p, "fork") /\ OutOfMemory
    /\ crashed' = "panic"
    /\ UNCHANGED <<openfiles, oft_l, fd_t, freed, sys, vn_refs, lost>>

\* The child's table is copied whole; its references are not counted yet.
ForkCopy(p) ==
    /\ In(p, "fork")
    /\ \E c \in Proc :
           /\ sys[c] = None
           /\ fd_t' = [fd_t EXCEPT ![c] = fd_t[p]]
           /\ sys' = [sys EXCEPT ![p] = [op |-> "forking", child |-> c, i |-> 0],
                                ![c] = [op |-> "embryo"]]
    /\ UNCHANGED <<openfiles, oft_l, freed, vn_refs, crashed, lost>>

\* The entries of the table of p at index i and beyond that are not closed.
OpenFrom(p, i) == {f \in FD : f >= i /\ fd_t[p][f] # FILE_CLOSED}

\* One turn of the counting loop, which takes oft_l anew for each entry.
ForkCount(p) ==
    /\ In(p, "forking") /\ oft_l = NoProc
    /\ \E f \in FD :
           /\ IsLowest(f, OpenFrom(sys[p].child, sys[p].i))
           /\ LET s == fd_t[sys[p].child][f]
              IN  IF openfiles[s] = NULL
                    THEN crashed' = "panic" /\ UNCHANGED <<openfiles, sys>>
                    ELSE /\ openfiles' = [openfiles EXCEPT ![s].rc = @ + 1]
                         /\ Goto(p, [sys[p] EXCEPT !.i = f + 1])
                         /\ UNCHANGED crashed
    /\ UNCHANGED <<oft_l, fd_t, freed, vn_refs, lost>>

\* thread_fork makes the child runnable.
ForkThread(p) ==
    /\ In(p, "forking") /\ OpenFrom(sys[p].child, sys[p].i) = {}
    /\ sys' = [sys EXCEPT ![p] = User, ![sys[p].child] = User]
    /\ UNCHANGED <<openfiles, oft_l, fd_t, freed, vn_refs, crashed, lost>>

\* thread_fork fails: sys_fork returns the error and forgets the new process.
ForkThreadFails(p) ==
    /\ In(p, "forking") /\ OutOfMemory /\ OpenFrom(sys[p].child, sys[p].i) = {}
    /\ sys' = [sys EXCEPT ![p] = User, ![sys[p].child] = None]
    /\ LoseTable(sys[p].child)
    /\ UNCHANGED <<openfiles, oft_l, freed, vn_refs, crashed>>

----------------------------------------------------------------------------
(* runprogram, sys_execv and pid_exit *)

\* The menu's thread for a new program enters file_table_init.
RunProgram(p) ==
    /\ Running /\ sys[p] = None
    /\ Goto(p, StdOpen(1, "run"))
    /\ fd_t' = [fd_t EXCEPT ![p] = Closed]
    /\ freed' = freed \ {p}
    /\ UNCHANGED <<openfiles, oft_l, vn_refs, crashed, lost>>

\* sys_execv returns an error while it reads its arguments.
ExecvRefused(p) ==
    /\ Running /\ sys[p].op = "execv"
    /\ Return(p)
    /\ UNCHANGED <<openfiles, oft_l, fd_t, freed, vn_refs, crashed, lost>>

\* file_table_init puts a new table in the place of the old one.
ExecvInit(p) ==
    /\ Running /\ sys[p].op = "execv"
    /\ LoseTable(p)
    /\ freed' = freed \ {p}
    /\ Goto(p, StdOpen(1, "exec"))
    /\ UNCHANGED <<openfiles, oft_l, vn_refs, crashed>>

\* The program is loaded, or it is not: sys_execv then returns to the old one.
Load(p) ==
    /\ In(p, "load")
    /\ Return(p)
    /\ crashed' \in IF sys[p].by = "run" THEN {"no", "panic"} ELSE {"no"}
    /\ UNCHANGED <<openfiles, oft_l, fd_t, freed, vn_refs, lost>>

\* One turn of file_table_destroy.
ExitClose(p) ==
    /\ In(p, "exit") /\ oft_l = NoProc
    /\ \E f \in FD :
           /\ IsLowest(f, OpenFrom(p, sys[p].i))
           /\ FileClose(p, f)
           /\ Goto(p, [sys[p] EXCEPT !.i = f + 1])
    /\ UNCHANGED <<oft_l, freed, crashed, lost>>

\* file_table_destroy's loop runs on past the table, up to PID_MAX: file_close
\* returns EBADF for what it reads there, or there is no memory.  The process is
\* destroyed; its descriptor table is not freed.
ExitDone(p) ==
    /\ In(p, "exit") /\ OpenFrom(p, sys[p].i) = {}
    /\ Goto(p, None)
    /\ crashed' \in {"no", "panic"}
    /\ UNCHANGED <<openfiles, oft_l, fd_t, freed, vn_refs, lost>>

----------------------------------------------------------------------------

Halted == ~Running /\ UNCHANGED fileVars

\* The steps of a thread inside the kernel that need no event from outside.
Step(p) ==
    \/ OpenVnode(p) \/ OpenVnodeFails(p) \/ Install(p) \/ InstallFails(p)
    \/ IoBegin(p) \/ IoBad(p) \/ Close(p) \/ CloseBad(p)
    \/ Dup2Trivial(p) \/ Dup2Locked(p) \/ Dup2Assign(p)
    \/ Lseek(p) \/ LseekBad(p)
    \/ ForkFails(p) \/ ForkNoTable(p) \/ ForkCopy(p) \/ ForkCount(p)
    \/ ForkThread(p) \/ ForkThreadFails(p)
    \/ ExecvRefused(p) \/ ExecvInit(p) \/ Load(p)
    \/ ExitClose(p) \/ ExitDone(p) \/ UseFreed(p)

FileNext ==
    \/ \E p \in Proc : Call(p) \/ RunProgram(p) \/ Step(p) \/ IoEnd(p)
    \/ Halted

FileSpec == FileInit /\ [][FileNext]_fileVars

----------------------------------------------------------------------------
(* Properties *)

\* The slot that descriptor f of p counts for; between the two halves of
\* sys_dup2 the new descriptor already counts for the old one's open file.
Entry(p, f) ==
    IF sys[p].op = "dup2set" /\ f = sys[p].new
      THEN fd_t[p][sys[p].old] ELSE fd_t[p][f]

\* The loop of sys_fork has not yet counted the entries at i and beyond.
Counted(p, f) ==
    sys[p].op = "embryo" =>
        \E q \in Proc : sys[q].op = "forking" /\ sys[q].child = p /\ f < sys[q].i

\* Descriptor f of p holds a counted reference to slot s.
Holds(p, f, s) == Counted(p, f) /\ Entry(p, f) = s
Holders(s) == {h \in Proc \X FD : Holds(h[1], h[2], s)}

\* The reference count of an open file is exactly the number of descriptors
\* that lead to it, over all processes, plus the references that execv and a
\* failed fork gave up without closing them; an empty slot has neither.  (That
\* execv gives them up at all is what ImplementsHandles is about.)
\* (file_open, file_close, sys_dup2, sys_fork and file_table_destroy agree on
\* who owns a reference at every interleaving of their critical sections.)
RefCount ==
    \A s \in Slot :
        IF openfiles[s] = NULL
          THEN Holders(s) = {} /\ lost[s] = 0
          ELSE openfiles[s].rc = Cardinality(Holders(s)) + lost[s]

\* No descriptor of any process, a half-made child's included, leads to an
\* empty slot, and the open file that a thread reads or writes while it holds
\* oft_l stays there until it is done.
NoDangling ==
    /\ \A p \in Proc, f \in FD :
           fd_t[p][f] \in Slot => openfiles[fd_t[p][f]] # NULL
    /\ \A p \in Proc :
           sys[p].op = "io" => oft_l = p /\ openfiles[sys[p].slot] # NULL

\* Each vnode carries one reference for each open file on it and one for each
\* open() between vfs_open and the installation of its result: file_open's
\* error paths and file_close give back what vfs_open took, once.
VnodeRefs ==
    \A v \in Vnode :
        vn_refs[v] =
            Cardinality({s \in Slot : openfiles[s] # NULL /\ openfiles[s].vn = v})
            + Cardinality({p \in Proc : sys[p].op = "install" /\ sys[p].vn = v})

----------------------------------------------------------------------------
(* Refinement, liveness, and what the documentation says *)

\* What descriptor f of p leads to, as programs see it: a child's table is
\* nobody's until thread_fork.
Seen(p, f) == IF sys[p].op = "embryo" THEN FILE_CLOSED ELSE Entry(p, f)
Table == [p \in Proc |-> [f \in FD |-> Seen(p, f)]]

\* A slot is a handle while a descriptor leads to it.
Reached(s) == \E p \in Proc, f \in FD : Seen(p, f) = s
Position ==
    [s \in Slot |-> IF openfiles[s] # NULL /\ Reached(s) THEN openfiles[s].os ELSE 0]

Handles ==
    INSTANCE FileHandles
    WITH Handle <- Slot, Offset <- 0 .. MaxOff, Closed <- FILE_CLOSED,
         table <- Table, pos <- Position

\* man/syscall/execv.html: "The process file table and current working directory
\* are not modified by execv."  Then the system calls do what the handle
\* specification does, in which no call replaces a table.
ImplementsHandles == Handles!Spec

\* file_table_init, called by sys_execv, drops every handle of the process, and
\* touches nobody else's.
ExecvDrops == \E p \in Proc : ExecvInit(p) /\ Handles!Update(p, Closed)

\* Most steps are none to the handles.
Invisible == UNCHANGED fileVars \/ UNCHANGED Handles!vars

\* The system calls, interleaved at their critical sections, do what the handle
\* specification does in single steps, but for the one step of sys_execv that
\* drops the table: an open gets a handle no other descriptor leads to (although
\* slots are reused), sys_dup2's window between lock_release and the assignment
\* and sys_fork's counting loop are invisible, an exit closes what it had.
HandlesBarExecv ==
    Handles!Init /\ [][Invisible \/ Handles!Next \/ ExecvDrops]_Handles!vars

\* Threads inside the kernel keep running, and a read or a write of a file other
\* than the console completes; the console may never have input.
QuietSpec ==
    /\ FileSpec
    /\ \A p \in Proc :
           /\ SF_fileVars(Step(p))
           /\ WF_fileVars(IoEnd(p) /\ openfiles[sys[p].slot].vn # Con)

\* README.md: a lock per open file prevents "the entire open file table / file
\* descriptor table being locked" while a file is read.  Then a close() would
\* return whatever other processes are waiting for.
CloseReturns == \A p \in Proc : sys[p].op = "close" ~> sys[p].op # "close" \/ ~Running

============================================================================
