------------------------------ MODULE MCThread ------------------------------
(* Processes with their pids, and the scheduler, for TLC.  They share no     *)
(* state here: the first state of a behaviour chooses the part it exercises, *)
(* the other stays as it begins.                                             *)
EXTENDS PidTable

CONSTANTS w1, NoCPU     \* a thread, and no processor

VARIABLES
    which,      \* the part that this behaviour exercises
    sc_cpu, sc_th, sc_wc, sc_lk, sc_crashed

schedVars == <<sc_cpu, sc_th, sc_wc, sc_lk, sc_crashed>>
vars == <<which, pidVars, schedVars>>

\* Two processors, their threads, and one that is created.
Cpus == INSTANCE Sched WITH
    NCPU <- 2, Worker <- {w1}, MIGRATE_HARDCLOCKS <- 2, Device <- TRUE,
    Shutdown <- TRUE, NoCPU <- NoCPU, cpu <- sc_cpu, th <- sc_th, wc <- sc_wc,
    lk <- sc_lk, crashed <- sc_crashed

------------------------------------------------------------------------------

Init ==
    /\ which \in {"pids", "sched"}
    /\ PidInit /\ Cpus!Init
    /\ pid_table[PID_MAX] # NULL => which = "pids"

Next ==
    \/ which = "pids" /\ PidNext /\ UNCHANGED <<which, schedVars>>
    \/ which = "sched" /\ Cpus!Next /\ UNCHANGED <<which, pidVars>>

\* Threads inside the kernel keep running; CPUs keep executing, and their timers
\* and each other's signals keep interrupting them.
Fairness ==
    /\ PidFairness
    /\ \A c \in Cpus!CPU :
          /\ SF_schedVars(which = "sched" /\ Cpus!Step(c))
          /\ SF_schedVars(which = "sched" /\ Cpus!hardclock(c))
          /\ SF_schedVars(which = "sched" /\ Cpus!interprocessor_interrupt(c))

Spec == Init /\ [][Next]_vars /\ Fairness

------------------------------------------------------------------------------
(* The properties of the scheduler, each explained in its module; the others *)
(* are named in theirs.                                                      *)

\* thread.c: a thread runs on one CPU, or is on one list, of its own CPU.
OnePlace == Cpus!OnePlace
\* thread.c: no two CPUs are on one stack, and none is on a destroyed one.
OneCpuPerStack == Cpus!OneCpuPerStack
\* thread.c: a CPU in the idle loop has nothing to do, or an interrupt coming.
IdleHasNoWork == Cpus!IdleHasNoWork
\* spl.c: interrupts are on exactly when the running thread has no level raised.
LevelsBalance == Cpus!LevelsBalance
\* thread.c: a thread that is ready runs again.
ReadyRuns == Cpus!ReadyRuns

=============================================================================
