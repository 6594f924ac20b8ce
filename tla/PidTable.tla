------------------------------ MODULE PidTable ------------------------------
(***************************************************************************)
(* Processes, their pids and their exit codes: the pid table of            *)
(* thread/pid.c under its lock pt_lock, struct proc of proc/proc.c, and    *)
(* the paths through fork, _exit, waitpid and the menu that use them.      *)
(*                                                                         *)
(* A process is the memory cell of its struct proc, which kfree and        *)
(* kmalloc recycle; each process has one thread.  pt_lock is never held    *)
(* across a sleep (cv_wait releases it), so each critical section is one   *)
(* action, and a thread asleep on the condition variable of a pid is       *)
(* "asleep" until the broadcast and "woken" until it has pt_lock again.    *)
(***************************************************************************)
EXTENDS Integers

CONSTANTS
    Cell,       \* memory for struct proc
    KProc,      \* the kernel's own process, in which the menu runs
    PID_MIN, PID_MAX,
    Status,     \* exit codes
    OutOfMemory,\* whether kmalloc can fail
    NULL,       \* the null pointer
    Garbage     \* a word of uninitialised memory that is not zero

Pid == PID_MIN .. PID_MAX
KPid == 1               \* proc_bootstrap gives the kernel pid 1
NoPid == -1             \* what pid_create returns when the table is full
Beef == -559038737      \* 0xdeadbeef: kfree's fill
Entry == [ppid : Int, exited : BOOLEAN, estatus : Status, cv : BOOLEAN]
Thread == Cell \cup {KProc}

ASSUME CellAssumption == KProc \notin Cell
ASSUME PidAssumption == PID_MIN = 2 /\ PID_MAX \in Nat /\ PID_MAX >= PID_MIN
ASSUME NullAssumption == NULL \notin Entry /\ Garbage \notin Entry /\ NULL # Garbage
ASSUME FlagAssumption == OutOfMemory \in BOOLEAN /\ 0 \in Status

VARIABLES
    pid_table,  \* the table of pid entries
    p_pid,      \* the p_pid word of each struct proc
    sys,        \* where each thread is
    crashed,    \* "no", or "panic", or "undefined"
    kids        \* ghost: the pids each process created and did not collect

pidVars == <<pid_table, p_pid, sys, crashed, kids>>

None == [op |-> "none"]
User == [op |-> "user"]
Running == crashed = "no"
Goto(t, r) == sys' = [sys EXCEPT ![t] = r]

\* pidtable_init's loop stops short of the last slot, which keeps what the
\* allocator left there.
PidInit ==
    /\ \E w \in {NULL, Garbage} :
           pid_table = [k \in Pid |-> IF k = PID_MAX THEN w ELSE NULL]
    /\ p_pid = [t \in Thread |-> IF t = KProc THEN KPid ELSE Beef]
    /\ sys = [t \in Thread |-> IF t = KProc THEN User ELSE None]
    /\ crashed = "no"
    /\ kids = [t \in Thread |-> {}]

----------------------------------------------------------------------------
(* Creating a process: proc_create_runprogram, from sys_fork or the menu *)

\* Mutant of FreePids: the entry of an exited process is taken as free before
\* its parent has collected the exit code.
FreePidsExited ==
    {k \in Pid : pid_table[k] \in Entry => pid_table[k].exited} \ {k \in Pid : pid_table[k] = Garbage}

FreePids == {k \in Pid : pid_table[k] = NULL}

\* The lowest free pid, or -1 when the table is full.
pid_next(k) ==
    \/ k \in FreePids /\ \A j \in FreePids : k <= j
    \/ k = NoPid /\ FreePids = {}

\* A struct proc is allocated and pid_create gives it a pid; that it may be -1
\* is not checked, nor whether cv_create failed.  A table of descriptors and an
\* address space follow (see FileTable); the thread does not exist yet.
Create(t) ==
    /\ Running /\ sys[t] = User
    /\ \E c \in Cell, k \in Pid \cup {NoPid}, cv \in {TRUE, ~OutOfMemory} :
           /\ sys[c] = None
           /\ pid_next(k)
           /\ p_pid' = [p_pid EXCEPT ![c] = k]
           /\ pid_table' = [j \in Pid |-> IF j = k
                  THEN [ppid |-> p_pid[t], exited |-> FALSE, estatus |-> 0, cv |-> cv]
                  ELSE pid_table[j]]
           /\ sys' = [sys EXCEPT ![t] = [op |-> "fork", child |-> c, pid |-> k],
                                 ![c] = [op |-> "embryo"]]
           /\ kids' = [kids EXCEPT ![t] = @ \cup ({k} \cap Pid)]
    /\ UNCHANGED crashed

\* kmalloc fails in pid_create, which uses its result unchecked.
CreatePanics(t) ==
    /\ Running /\ sys[t] = User /\ FreePids # {} /\ OutOfMemory
    /\ crashed' = "panic"
    /\ UNCHANGED <<pid_table, p_pid, sys, kids>>

\* thread_fork makes the child runnable; it may run before the parent goes on.
ForkThread(t) ==
    /\ Running /\ sys[t].op = "fork"
    /\ sys' = [sys EXCEPT ![t] =
                              [op |-> "forked", child |-> sys[t].child, pid |-> sys[t].pid],
                          ![sys[t].child] = User]
    /\ UNCHANGED <<pid_table, p_pid, crashed, kids>>

\* thread_fork fails: the menu destroys the process, sys_fork leaks it;
\* neither gives the pid back.
ForkThreadFails(t) ==
    /\ Running /\ sys[t].op = "fork" /\ OutOfMemory
    /\ sys' = [sys EXCEPT ![t] = User,
                   ![sys[t].child] = IF t = KProc THEN None ELSE [op |-> "leaked"]]
    /\ p_pid' = IF t = KProc THEN [p_pid EXCEPT ![sys[t].child] = Beef] ELSE p_pid
    /\ UNCHANGED <<pid_table, crashed, kids>>

\* sys_fork reads the pid of the child out of its struct proc, and returns.
ForkReturn(t) ==
    /\ Running /\ sys[t].op = "forked" /\ t # KProc
    /\ Goto(t, User)
    /\ UNCHANGED <<pid_table, p_pid, crashed, kids>>

----------------------------------------------------------------------------
(* pid_wait *)

\* pid_wait's last part: the entry of pid k leaves the table and is freed,
\* under the feet of any other thread that woke up on it.
Collect(t, k) ==
    /\ pid_table' = [pid_table EXCEPT ![k] = NULL]
    /\ kids' = [kids EXCEPT ![t] = @ \ {k}]
    /\ sys' = [u \in Thread |->
                  IF u = t THEN User
                  ELSE IF sys[u] = [op |-> "woken", pid |-> k]
                         THEN [op |-> "stale", pid |-> k]
                  ELSE sys[u]]

\* Mutants of PidWait: it does not wait for the exit; it takes any process for
\* a child of the caller.
PidWaitNot(t, k) ==
    /\ pid_table[k] \in Entry /\ pid_table[k].ppid = p_pid[t]
    /\ Collect(t, k) /\ UNCHANGED crashed
PidWaitAny(t, k) ==
    /\ pid_table[k] \in Entry
    /\ IF pid_table[k].exited THEN Collect(t, k)
         ELSE Goto(t, [op |-> "asleep", pid |-> k]) /\ UNCHANGED <<pid_table, kids>>
    /\ UNCHANGED crashed

\* pid_wait(k, ...) in thread t: ESRCH, ECHILD, the exit code at once, or sleep
\* (on a null pointer when cv_create had failed).
PidWait(t, k) ==
    IF pid_table[k] = NULL THEN Goto(t, User) /\ UNCHANGED <<pid_table, kids, crashed>>
    ELSE IF pid_table[k] = Garbage
           THEN crashed' = "undefined" /\ UNCHANGED <<pid_table, kids, sys>>
    ELSE IF pid_table[k].ppid # p_pid[t]
           THEN Goto(t, User) /\ UNCHANGED <<pid_table, kids, crashed>>
    ELSE IF pid_table[k].exited THEN Collect(t, k) /\ UNCHANGED crashed
    ELSE IF ~pid_table[k].cv
           THEN crashed' = "panic" /\ UNCHANGED <<pid_table, kids, sys>>
    ELSE Goto(t, [op |-> "asleep", pid |-> k]) /\ UNCHANGED <<pid_table, kids, crashed>>

\* A program traps into waitpid or _exit; arguments out of range come back.
CallWait(t) ==
    /\ Running /\ sys[t] = User
    /\ \E k \in Pid : Goto(t, [op |-> "wait", pid |-> k])
    /\ UNCHANGED <<pid_table, p_pid, crashed, kids>>

Wait(t) ==
    /\ Running /\ sys[t].op = "wait"
    /\ PidWait(t, sys[t].pid)
    /\ UNCHANGED p_pid

\* The menu waits for pid 2, whatever pid its program has.
MenuWait ==
    /\ Running /\ sys[KProc].op = "forked"
    /\ PidWait(KProc, PID_MIN)
    /\ UNCHANGED p_pid

\* Back from cv_wait with pt_lock held; neither the exit flag nor the table is
\* looked at again.
WaitWoken(t) ==
    /\ Running /\ sys[t].op = "woken"
    /\ Collect(t, sys[t].pid)
    /\ UNCHANGED <<p_pid, crashed>>

\* The same, when another thread has freed the entry.
WaitStale(t) ==
    /\ Running /\ sys[t].op = "stale"
    /\ crashed' = "undefined"
    /\ UNCHANGED <<pid_table, p_pid, sys, kids>>

----------------------------------------------------------------------------
(* pid_exit *)

CallExit(t) ==
    /\ Running /\ sys[t] = User
    /\ Goto(t, [op |-> "exit"])
    /\ UNCHANGED <<pid_table, p_pid, crashed, kids>>

\* Mutant of ExitAnnounce: the exit code is published, nobody is woken.
ExitAnnounceSilent(t) ==
    /\ Running /\ sys[t].op = "exit" /\ p_pid[t] \in Pid
    /\ pid_table[p_pid[t]] \in Entry /\ pid_table[p_pid[t]].cv
    /\ \E e \in Status : pid_table' =
           [pid_table EXCEPT ![p_pid[t]] = [@ EXCEPT !.exited = TRUE, !.estatus = e]]
    /\ Goto(t, [op |-> "exiting"])
    /\ kids' = [kids EXCEPT ![t] = {}]
    /\ UNCHANGED <<p_pid, crashed>>

\* Under pt_lock: the exit code is published and the sleepers are woken.
ExitAnnounce(t) ==
    /\ Running /\ sys[t].op = "exit" /\ p_pid[t] \in Pid
    /\ pid_table[p_pid[t]] \in Entry /\ pid_table[p_pid[t]].cv
    /\ \E e \in Status : pid_table' =
           [pid_table EXCEPT ![p_pid[t]] = [@ EXCEPT !.exited = TRUE, !.estatus = e]]
    /\ sys' = [u \in Thread |->
                  IF u = t THEN [op |-> "exiting"]
                  ELSE IF sys[u] = [op |-> "asleep", pid |-> p_pid[t]]
                         THEN [op |-> "woken", pid |-> p_pid[t]]
                  ELSE sys[u]]
    /\ kids' = [kids EXCEPT ![t] = {}]
    /\ UNCHANGED <<p_pid, crashed>>

\* A process with no pid, or without an entry, writes through a wild pointer.
ExitWild(t) ==
    /\ Running /\ sys[t].op = "exit"
    /\ p_pid[t] \in Pid => pid_table[p_pid[t]] \notin Entry
    /\ crashed' = "undefined"
    /\ UNCHANGED <<pid_table, p_pid, sys, kids>>

\* cv_broadcast on the null pointer of a failed cv_create.
ExitPanics(t) ==
    /\ Running /\ sys[t].op = "exit" /\ p_pid[t] \in Pid
    /\ pid_table[p_pid[t]] \in Entry /\ ~pid_table[p_pid[t]].cv
    /\ crashed' = "panic"
    /\ UNCHANGED <<pid_table, p_pid, sys, kids>>

\* With its files closed, the process is destroyed and its struct proc freed.
ExitDestroy(t) ==
    /\ Running /\ sys[t].op = "exiting"
    /\ Goto(t, None)
    /\ p_pid' = [p_pid EXCEPT ![t] = Beef]
    /\ UNCHANGED <<pid_table, crashed, kids>>

----------------------------------------------------------------------------

Halted == ~Running /\ UNCHANGED pidVars

\* The steps that a thread inside the kernel takes by itself.
Step(t) ==
    \/ ForkThread(t) \/ ForkThreadFails(t) \/ ForkReturn(t)
    \/ Wait(t) \/ WaitWoken(t) \/ WaitStale(t)
    \/ ExitAnnounce(t) \/ ExitWild(t) \/ ExitPanics(t) \/ ExitDestroy(t)

PidNext ==
    \/ \E t \in Thread : Create(t) \/ CreatePanics(t) \/ Step(t)
    \/ \E t \in Cell : CallWait(t) \/ CallExit(t)
    \/ MenuWait
    \/ Halted

PidSpec == PidInit /\ [][PidNext]_pidVars

----------------------------------------------------------------------------
(* Properties *)

Sys ==
    [op : {"none", "user", "embryo", "leaked", "exit", "exiting"}]
    \cup [op : {"fork", "forked"}, child : Cell, pid : Pid \cup {NoPid}]
    \cup [op : {"wait", "asleep", "woken", "stale"}, pid : Pid]

\* Every variable holds a value of its type.
TypeOK ==
    /\ pid_table \in [Pid -> Entry \cup {NULL, Garbage}]
    /\ p_pid \in [Thread -> Pid \cup {KPid, NoPid, Beef}]
    /\ sys \in [Thread -> Sys]
    /\ crashed \in {"no", "panic", "undefined"}
    /\ kids \in [Thread -> SUBSET Pid]

\* The processes that have not announced their exit; from then on a process
\* does not use its pid any more.
Alive(t) == sys[t].op \notin {"none", "leaked", "exiting"}

\* A process that has not announced its exit owns the entry of its pid, if it
\* got one: the entry is there, it is not marked exited, and no other such
\* process has the same pid.  (pid_exit dereferences pid_table[p_pid] without a
\* check; the pid of a process that is still being torn down may already belong
\* to a new one.)
OwnsPid ==
    \A t \in Cell : Alive(t) /\ p_pid[t] \in Pid =>
        /\ pid_table[p_pid[t]] \in Entry /\ ~pid_table[p_pid[t]].exited
        /\ \A u \in Cell : Alive(u) /\ p_pid[u] = p_pid[t] => u = t

\* No process runs that was created when the table was full.
AllHavePids ==
    \A t \in Cell : Alive(t) /\ sys[t].op # "embryo" => p_pid[t] \in Pid

\* _exit's manual page: a pid is "not reused until all processes expected to
\* collect the exit code with waitpid have done so".  A child that its parent
\* has not collected keeps its entry, under the parent's pid, whoever else
\* calls waitpid.  (Two processes with pid -1 could collect each other's.)
ChildrenKept ==
    AllHavePids => \A t \in Thread : \A k \in kids[t] :
        pid_table[k] \in Entry /\ pid_table[k].ppid = p_pid[t]

\* pid_wait tests the exit flag before cv_wait and never again: a thread comes
\* back from cv_wait only when the entry it slept on is in the table and marked
\* exited, and sleeps only while it is not; it shares the entry with no other
\* waiter, so that no entry is freed under a waiter.
WaiterSafe ==
    \A t \in Thread :
        /\ sys[t].op \in {"asleep", "woken"} =>
               /\ pid_table[sys[t].pid] \in Entry
               /\ pid_table[sys[t].pid].ppid = p_pid[t]
               /\ pid_table[sys[t].pid].exited <=> sys[t].op = "woken"
        /\ AllHavePids =>
               /\ sys[t].op # "stale"
               /\ \A u \in Thread :
                      /\ {sys[t].op, sys[u].op} \subseteq {"asleep", "woken"}
                      /\ sys[u].pid = sys[t].pid
                      => u = t

\* Threads inside the kernel keep running.
PidFairness == (\A t \in Thread : WF_pidVars(Step(t))) /\ WF_pidVars(MenuWait)

\* Whoever sleeps in pid_wait on a process that calls _exit gets its exit code.
ExitWakesWaiter ==
    \A t \in Thread :
        (\E u \in Cell : /\ sys[t].op = "asleep" /\ sys[u].op = "exit"
                         /\ sys[t].pid = p_pid[u]) ~> (sys[t] = User \/ ~Running)

\* proc_syscalls.c: waitpid is to "wait for a process to exit, which has to be a
\* child process of the calling process".
WaitsForOwnChild ==
    \A t \in Thread : sys[t].op \in {"asleep", "woken"} => sys[t].pid \in kids[t]

\* fork's manual page: "In the parent process, the process id of the new child
\* process is returned."  The parent reads it when it returns from sys_fork.
ForkReturnsChildPid ==
    [][\A t \in Cell : sys[t].op = "forked" /\ sys'[t] = User
                          => p_pid[sys[t].child] = sys[t].pid]_pidVars

============================================================================
