------------------------------- MODULE Sched -------------------------------
(***************************************************************************)
(* Threads and CPUs: run queues, context switches, the idle loop, wait     *)
(* channels, interrupts, interprocessor interrupts and the migration of    *)
(* threads between CPUs.                                                   *)
(*                                                                         *)
(* What a CPU does while it holds a spinlock and touches only what that    *)
(* lock guards is one action.  The lock of a run queue is held across a    *)
(* context switch, from the old thread into the new one, and so it is a    *)
(* variable; so is the lock of the wait channel, which thread_switch gives *)
(* up in the middle.  Each CPU runs its current thread; an interrupt       *)
(* handler runs on top of that thread, also when the CPU idles in it.      *)
(***************************************************************************)
EXTENDS Integers, Sequences, SequencesExt, FiniteSets

CONSTANTS
    NCPU,               \* the number of CPUs
    Worker,             \* threads that thread_fork can create
    MIGRATE_HARDCLOCKS, \* a CPU considers migration at every so many clock ticks
    Device,             \* whether devices interrupt
    Shutdown,           \* whether the machine is shut down
    NoCPU               \* the holder of a free spinlock

CPU == 0 .. NCPU - 1
\* Each CPU starts with a thread of its own, which has the CPU's number.
Thread == CPU \cup Worker

VARIABLES
    cpu,     \* struct cpu, with its lock, its interrupt line and its phase
    th,      \* struct thread, with where the thread and its handler are
    wc,      \* the threads on the wait channel
    lk,      \* the CPU that has the spinlock of the wait channel
    crashed  \* whether an assertion has failed

vars == <<cpu, th, wc, lk, crashed>>

\* A thread that does not exist.
Free == [state |-> "free", cpu |-> NoCPU, ipl |-> 0, spl |-> 0, proc |-> FALSE,
         at |-> "none", intr |-> "none", adjust |-> FALSE, list |-> <<>>,
         mig |-> <<>>]

\* cpu_create; thread_start_cpus has started the CPUs, and the thread of a
\* secondary CPU is in cpu_hatch, after spl0.
NewCpu(c) ==
    [curthread |-> c, runqueue |-> <<>>, zombies |-> {}, isidle |-> FALSE,
     lock |-> NoCPU, ipi_pending |-> {}, ipi |-> FALSE, hardclocks |-> 0,
     irq |-> TRUE, phase |-> "code"]
Init ==
    /\ cpu = [c \in CPU |-> NewCpu(c)]
    /\ th = [t \in Thread |->
                IF t \in Worker THEN Free
                ELSE [Free EXCEPT !.state = "run", !.cpu = t, !.proc = TRUE,
                                  !.at = IF t = 0 THEN "run" ELSE "hatch"]]
    /\ wc = <<>> /\ lk = NoCPU /\ crashed = FALSE

----------------------------------------------------------------------------
(* Where CPU c is *)

Cur(c) == cpu[c].curthread
InHandler(t) == th[t].intr # "none"
\* The innermost function of t: an interrupt handler or the thread's own code.
Top(t) == IF InHandler(t) THEN th[t].intr ELSE th[t].at
\* r, with its innermost function at place p.
Move(r, p) == IF r.intr # "none" THEN [r EXCEPT !.intr = p] ELSE [r EXCEPT !.at = p]
\* CPU c executes thread code or a handler, at place p.
At(c, p) ==
    /\ ~crashed
    /\ cpu[c].phase = "code" \/ (cpu[c].phase = "idle" /\ InHandler(Cur(c)))
    /\ Top(Cur(c)) = p

\* splraise and spllower of the thread in r, by n levels.
splraise(r, n) == [r EXCEPT !.ipl = @ + n]
spllower(r, n) == [r EXCEPT !.ipl = @ - n]
\* splx
splx(r, level) ==
    IF r.spl < level THEN splraise([r EXCEPT !.spl = level], 1)
    ELSE IF r.spl > level THEN spllower([r EXCEPT !.spl = level], 1)
    ELSE r
\* cpu_irqon and cpu_irqoff: interrupts are off while the count is not 0.
Irq(r) == r.ipl = 0

Unlocked(c) == cpu[c].lock = NoCPU
Crash == crashed' = TRUE /\ UNCHANGED <<cpu, th, wc, lk>>

----------------------------------------------------------------------------
(* thread_make_runnable, ipi_send *)

\* The CPUs s, after an interprocessor interrupt is sent to d, or to all but c.
ipi_send(s, d, code) ==
    [s EXCEPT ![d].ipi_pending = @ \cup {code}, ![d].ipi = TRUE]
ipi_broadcast(s, c, code) == [d \in CPU |-> IF d = c THEN s[d] ELSE ipi_send(s, d, code)[d]]

\* t at the end of the run queue of its CPU, in CPU state s; an idle CPU gets an
\* interprocessor interrupt, unless it is the one that does this.
thread_make_runnable(s, c, t) ==
    LET d == th[t].cpu
        queued == [s EXCEPT ![d].runqueue = Append(@, t)]
    IN  IF s[d].isidle /\ d # c
          THEN ipi_send(queued, d, "unidle")
          ELSE queued

\* Mutant of thread_fork: no level for the lock of the run queue.
thread_forkLevel(c) ==
    /\ At(c, "run") /\ ~InHandler(Cur(c)) /\ Unlocked(c)
    /\ \E t \in Worker :
           /\ th[t].state = "free"
           /\ th' = [th EXCEPT ![t] = [Free EXCEPT !.state = "ready", !.cpu = c, !.ipl = 1,
                                                   !.spl = 1, !.proc = TRUE, !.at = "new"]]
           /\ cpu' = [cpu EXCEPT ![c].runqueue = Append(@, t)]
    /\ UNCHANGED <<wc, lk, crashed>>

\* thread_fork.  The new thread will come out of thread_switch with the lock of
\* the run queue, and has a level for it.
thread_fork(c) ==
    /\ At(c, "run") /\ ~InHandler(Cur(c)) /\ Unlocked(c)
    /\ \E t \in Worker :
           /\ th[t].state = "free"
           /\ th' = [th EXCEPT ![t] = [Free EXCEPT !.state = "ready", !.cpu = c, !.ipl = 2,
                                                   !.spl = 1, !.proc = TRUE, !.at = "new"]]
           /\ cpu' = [cpu EXCEPT ![c].runqueue = Append(@, t)]
    /\ UNCHANGED <<wc, lk, crashed>>

----------------------------------------------------------------------------
(* thread_switch *)

\* cpu_hatch: the boot thread of a secondary CPU wakes up the first CPU and
\* calls thread_exit, still attached to kproc; thread_exit asserts that it is not.
cpu_hatch(c) == At(c, "hatch") /\ ~InHandler(Cur(c)) /\ Crash

\* The end of mips_trap: what the interrupt did to the recorded level is undone.
Eoi(r) ==
    [r EXCEPT !.intr = "none", !.adjust = FALSE,
              !.spl = IF r.adjust THEN 0 ELSE @,
              !.ipl = IF r.adjust THEN @ - 1 ELSE @]

\* What the function that called thread_switch does when it returns: a handler is
\* finished; wchan_sleep takes its lock again.
Resumed(r) ==
    IF r.intr # "none" THEN Eoi(r)
    ELSE [splx(r, 0) EXCEPT !.at = IF r.at = "sleep" THEN "relock" ELSE "run"]

\* The CPU after the end of an interrupt, when its thread has become r.
AfterInterrupt(s, r) ==
    [s EXCEPT !.irq = Irq(r), !.phase = IF @ = "idle" THEN "wake" ELSE @]

\* The clock finds an idle CPU, which does not switch, or no other thread.
SwitchReturns(c) ==
    LET r == Eoi(th[Cur(c)])
    IN  /\ At(c, "yield")
        /\ cpu[c].isidle \/ (Unlocked(c) /\ cpu[c].runqueue = <<>>)
        /\ th' = [th EXCEPT ![Cur(c)] = r]
        /\ cpu' = [cpu EXCEPT ![c] = AfterInterrupt(@, r)]
        /\ UNCHANGED <<wc, lk, crashed>>

\* Mutant of SwitchOut: a thread that yields goes to the front of the queue.
SwitchOutFront(c, r) ==
    LET t == Cur(c)
        s == r.state
    IN  /\ ~cpu[c].isidle /\ Unlocked(c)
        /\ th' = [th EXCEPT ![t] = splraise(splx(r, 1), 1)]
        /\ cpu' = [cpu EXCEPT ![c].lock = c, ![c].isidle = TRUE, ![c].phase = "pick",
                              ![c].irq = FALSE,
                              ![c].runqueue = IF s = "ready" THEN <<t>> \o @ ELSE @,
                              ![c].zombies = IF s = "zombie" THEN @ \cup {t} ELSE @]
        /\ wc' = IF s = "sleep" THEN Append(wc, t) ELSE wc
        /\ UNCHANGED crashed

\* The first half of thread_switch: interrupts off, lock the run queue, put the
\* thread, as r, where it belongs.
SwitchOut(c, r) ==
    LET t == Cur(c)
        s == r.state
    IN  /\ ~cpu[c].isidle /\ Unlocked(c)
        /\ th' = [th EXCEPT ![t] = splraise(splx(r, 1), 1)]
        /\ cpu' = [cpu EXCEPT ![c].lock = c, ![c].isidle = TRUE, ![c].phase = "pick",
                              ![c].irq = FALSE,
                              ![c].runqueue = IF s = "ready" THEN Append(@, t) ELSE @,
                              ![c].zombies = IF s = "zombie" THEN @ \cup {t} ELSE @]
        /\ wc' = IF s = "sleep" THEN Append(wc, t) ELSE wc
        /\ UNCHANGED crashed

\* thread_yield, called by the thread or by hardclock.
thread_yield(c) ==
    /\ (At(c, "run") /\ ~InHandler(Cur(c))) \/ At(c, "yield")
    /\ cpu[c].runqueue # <<>>
    /\ SwitchOut(c, [th[Cur(c)] EXCEPT !.state = "ready"])
    /\ UNCHANGED lk

\* thread_exit, after pid_exit has detached the thread from its process.  The
\* menu's thread never exits.
thread_exit(c) ==
    /\ At(c, "run") /\ ~InHandler(Cur(c)) /\ Cur(c) \in Worker
    /\ SwitchOut(c, [th[Cur(c)] EXCEPT !.state = "zombie", !.proc = FALSE])
    /\ UNCHANGED lk

\* wchan_sleep goes on in thread_switch: the lock of the channel is given up when
\* the thread is on the channel.
Sleep(c) ==
    /\ At(c, "sleep")
    /\ SwitchOut(c, spllower([th[Cur(c)] EXCEPT !.state = "sleep"], 1))
    /\ lk' = NoCPU

\* The loop in the middle: the next thread, or the idle loop without the lock.
Pick(c) ==
    /\ ~crashed /\ cpu[c].phase = "pick"
    /\ IF cpu[c].runqueue = <<>>
         THEN /\ cpu' = [cpu EXCEPT ![c].lock = NoCPU, ![c].phase = "idle"]
              /\ th' = [th EXCEPT ![Cur(c)] = spllower(@, 1)]
         ELSE /\ cpu' = [cpu EXCEPT ![c].curthread = Head(cpu[c].runqueue),
                                    ![c].runqueue = Tail(@),
                                    ![c].isidle = FALSE, ![c].phase = "in"]
              /\ UNCHANGED th
    /\ UNCHANGED <<wc, lk, crashed>>

\* After an interrupt the idle loop takes the lock and looks again.
Unidle(c) ==
    /\ ~crashed /\ cpu[c].phase = "wake" /\ Unlocked(c)
    /\ cpu' = [cpu EXCEPT ![c].lock = c, ![c].phase = "pick"]
    /\ th' = [th EXCEPT ![Cur(c)] = splraise(@, 1)]
    /\ UNCHANGED <<wc, lk, crashed>>

\* exorcise: the threads, with the zombies of c destroyed.
Exorcised(c) == [t \in Thread |-> IF t \in cpu[c].zombies THEN Free ELSE th[t]]

\* The second half, in the new thread (thread_startup, if it is new): unlock,
\* destroy the zombies, restore the interrupt level.
SwitchIn(c) ==
    /\ ~crashed /\ cpu[c].phase = "in"
    /\ th' = [Exorcised(c) EXCEPT ![Cur(c)] =
                  Resumed([spllower(th[Cur(c)], 1) EXCEPT !.state = "run"])]
    /\ cpu' = [cpu EXCEPT ![c].lock = NoCPU, ![c].phase = "code", ![c].zombies = {},
                          ![c].irq = Irq(th'[Cur(c)])]
    /\ UNCHANGED <<wc, lk, crashed>>

----------------------------------------------------------------------------
(* Wait channels: wchan_sleep, wchan_wakeone, wchan_wakeall *)

\* A thread locks the channel, finds that it has to wait, and calls wchan_sleep.
wchan_sleep(c) ==
    /\ At(c, "run") /\ ~InHandler(Cur(c)) /\ lk = NoCPU
    /\ lk' = c
    /\ th' = [th EXCEPT ![Cur(c)] = splraise([@ EXCEPT !.at = "sleep"], 1)]
    /\ cpu' = [cpu EXCEPT ![c].irq = FALSE]
    /\ UNCHANGED <<wc, crashed>>

\* wchan_sleep takes the lock again, and its caller gives it back.
Relock(c) ==
    /\ At(c, "relock") /\ lk = NoCPU
    /\ th' = [th EXCEPT ![Cur(c)].at = "run"]
    /\ UNCHANGED <<cpu, wc, lk, crashed>>

\* A thread, or the handler of a device, locks the channel and takes one thread
\* or all of them off it.
Wake(c) ==
    /\ (At(c, "run") /\ ~InHandler(Cur(c))) \/ At(c, "device")
    /\ lk = NoCPU /\ wc # <<>>
    /\ \E n \in {1, Len(wc)} :
           /\ th' = [th EXCEPT ![Cur(c)] =
                        Move(splraise([@ EXCEPT !.list = SubSeq(wc, 1, n)], 1), "waking")]
           /\ wc' = SubSeq(wc, n + 1, Len(wc))
    /\ lk' = c
    /\ cpu' = [cpu EXCEPT ![c].irq = FALSE]
    /\ UNCHANGED crashed

\* Mutant of Waking: idle CPUs are not interrupted.
WakingQuiet(c) ==
    LET t == Head(th[Cur(c)].list)
    IN  /\ At(c, "waking") /\ th[Cur(c)].list # <<>> /\ Unlocked(th[t].cpu)
        /\ th' = [th EXCEPT ![Cur(c)].list = Tail(@), ![t].state = "ready"]
        /\ cpu' = [cpu EXCEPT ![th[t].cpu].runqueue = Append(@, t)]
        /\ UNCHANGED <<wc, lk, crashed>>

\* thread_make_runnable of the next of them, under the lock of its run queue.
Waking(c) ==
    LET t == Head(th[Cur(c)].list)
    IN  /\ At(c, "waking") /\ th[Cur(c)].list # <<>> /\ Unlocked(th[t].cpu)
        /\ th' = [th EXCEPT ![Cur(c)].list = Tail(@), ![t].state = "ready"]
        /\ cpu' = thread_make_runnable(cpu, c, t)
        /\ UNCHANGED <<wc, lk, crashed>>

WakeDone(c) ==
    LET t == Cur(c)
        r == spllower(th[t], 1)
        after == IF InHandler(t) THEN Eoi(r) ELSE [r EXCEPT !.at = "run"]
    IN  /\ At(c, "waking") /\ th[t].list = <<>>
        /\ th' = [th EXCEPT ![t] = after]
        /\ cpu' = [cpu EXCEPT ![c] = AfterInterrupt(@, after)]
        /\ lk' = NoCPU
        /\ UNCHANGED <<wc, crashed>>

----------------------------------------------------------------------------
(* Interrupts: mips_trap, mainbus_interrupt *)

\* The CPU can be interrupted; in the idle loop it is, although the recorded level
\* says that interrupts are off.
Interruptible(c) ==
    /\ ~crashed /\ ~InHandler(Cur(c))
    /\ (cpu[c].phase = "code" /\ cpu[c].irq) \/ cpu[c].phase = "idle"

\* The processor turns interrupts off, and mips_trap adjusts the recorded level, if
\* that says they are on; the handler is then at place p.
Enter(r, p) ==
    LET adjust == r.spl = 0
    IN  [r EXCEPT !.intr = p, !.adjust = adjust, !.spl = 1,
                  !.ipl = IF adjust THEN @ + 1 ELSE @]

\* A device has an answer for a thread that waits.
DeviceInterrupt(c) ==
    /\ Device /\ Interruptible(c) /\ lk = NoCPU /\ wc # <<>>
    /\ th' = [th EXCEPT ![Cur(c)] = Enter(@, "device")]
    /\ cpu' = [cpu EXCEPT ![c].irq = FALSE]
    /\ UNCHANGED <<wc, lk, crashed>>

\* The device's handler finds that somebody else has woken the threads.
NoneToWake(c) ==
    LET r == Eoi(th[Cur(c)])
    IN  /\ At(c, "device") /\ lk = NoCPU /\ wc = <<>>
        /\ th' = [th EXCEPT ![Cur(c)] = r]
        /\ cpu' = [cpu EXCEPT ![c] = AfterInterrupt(@, r)]
        /\ UNCHANGED <<wc, lk, crashed>>

\* interprocessor_interrupt, which handles what is pending.
interprocessor_interrupt(c) ==
    /\ Interruptible(c) /\ cpu[c].ipi
    /\ IF "offline" \in cpu[c].ipi_pending
         THEN cpu' = [cpu EXCEPT ![c].phase = "halted"] /\ UNCHANGED th
         ELSE /\ cpu' = [cpu EXCEPT ![c].ipi_pending = {}, ![c].irq = FALSE]
              /\ th' = [th EXCEPT ![Cur(c)] = Enter(@, "clear")]
    /\ UNCHANGED <<wc, lk, crashed>>

\* After that, and without a lock, mainbus_interrupt clears the interrupt line.
lamebus_clear_ipi(c) ==
    LET r == Eoi(th[Cur(c)])
    IN  /\ At(c, "clear")
        /\ th' = [th EXCEPT ![Cur(c)] = r]
        /\ cpu' = [cpu EXCEPT ![c] = [AfterInterrupt(@, r) EXCEPT !.ipi = FALSE]]
        /\ UNCHANGED <<wc, lk, crashed>>

\* thread_shutdown: the menu asks the other CPUs to go off line, and halts.
thread_shutdown(c) ==
    /\ Shutdown /\ At(c, "run") /\ ~InHandler(Cur(c)) /\ Cur(c) = 0
    /\ cpu' = [ipi_broadcast(cpu, c, "offline") EXCEPT ![c].phase = "halted"]
    /\ UNCHANGED <<th, wc, lk, crashed>>

----------------------------------------------------------------------------
(* hardclock, thread_consider_migration *)

\* The timer interrupts: every so many times, consider migration; then yield.
hardclock(c) ==
    LET n == (cpu[c].hardclocks + 1) % MIGRATE_HARDCLOCKS
    IN  /\ Interruptible(c)
        /\ cpu' = [cpu EXCEPT ![c].hardclocks = n, ![c].irq = FALSE]
        /\ th' = [th EXCEPT ![Cur(c)] =
                     IF n = 0 THEN [Enter(@, "count") EXCEPT
                                        !.mig = [i |-> 0, my |-> 0, total |-> 0]]
                     ELSE Enter(@, "yield")]
        /\ UNCHANGED <<wc, lk, crashed>>

\* The thread's handler goes on to place p, with migration data m.
Migrate(c, p, m) == th' = [th EXCEPT ![Cur(c)].intr = p, ![Cur(c)].mig = m]

DIVROUNDUP(a, b) == (a + b - 1) \div b

\* Count one run queue after the other; with no more than its share, the CPU
\* keeps its threads.
CountQueue(c) ==
    LET m == th[Cur(c)].mig
        n == Len(cpu[m.i].runqueue)
        my == IF m.i = c THEN n ELSE m.my
        total == m.total + n
        share == DIVROUNDUP(total, NCPU)
    IN  /\ At(c, "count") /\ Unlocked(m.i)
        /\ IF m.i + 1 < NCPU
             THEN Migrate(c, "count", [i |-> m.i + 1, my |-> my, total |-> total])
             ELSE IF my <= share THEN Migrate(c, "yield", <<>>)
             ELSE Migrate(c, "take", [i |-> 0, share |-> share, send |-> my - share])
        /\ UNCHANGED <<cpu, wc, lk, crashed>>

\* Take what is too much from the end of the run queue, as it is now.
TakeVictims(c) ==
    LET t == Cur(c)
        q == cpu[c].runqueue
        rest == Len(q) - th[t].mig.send
    IN  /\ At(c, "take") /\ Unlocked(c)
        /\ IF rest < 0 THEN Crash
           ELSE /\ cpu' = [cpu EXCEPT ![c].runqueue = SubSeq(q, 1, rest)]
                /\ th' = [th EXCEPT ![t].list = SubSeq(q, rest + 1, Len(q)),
                                    ![t].intr = "give"]
                /\ UNCHANGED <<wc, lk, crashed>>

\* Mutant of GiveOne: the current thread is given away as well.
GiveAny(cur, share, s, v) ==
    IF Len(s.q) >= share \/ s.send = 0 THEN [s EXCEPT !.rest = Append(@, v)]
    ELSE [s EXCEPT !.send = @ - 1, !.q = Append(@, v)]

\* One round of the inner loop, for victim v: d's queue is filled up to a share;
\* the current thread of this CPU is passed over, to the end of the victims.
GiveOne(cur, share, s, v) ==
    IF Len(s.q) >= share \/ s.send = 0 THEN [s EXCEPT !.rest = Append(@, v)]
    ELSE IF v = cur THEN [s EXCEPT !.send = @ - 1, !.back = Append(@, v)]
    ELSE [s EXCEPT !.send = @ - 1, !.q = Append(@, v)]

\* Give victims to the next CPU, under the lock of its run queue.
Give(c) ==
    LET t == Cur(c)
        m == th[t].mig
        d == m.i
        r == FoldLeft(LAMBDA s, v : GiveOne(t, m.share, s, v),
                      [q |-> cpu[d].runqueue, send |-> m.send, rest |-> <<>>, back |-> <<>>],
                      th[t].list)
        moved == Range(th[t].list) \cap Range(r.q)
    IN  /\ At(c, "give") /\ d < NCPU /\ m.send > 0
        /\ IF d = c THEN th' = [th EXCEPT ![t].mig.i = @ + 1] /\ UNCHANGED cpu
           ELSE /\ Unlocked(d)
                /\ cpu' = LET s == [cpu EXCEPT ![d].runqueue = r.q]
                          IN  IF moved # {} /\ cpu[d].isidle THEN ipi_send(s, d, "unidle") ELSE s
                /\ th' = [u \in Thread |->
                             [IF u = t THEN [th[t] EXCEPT !.mig.i = @ + 1, !.mig.send = r.send,
                                                          !.list = r.rest \o r.back]
                              ELSE th[u] EXCEPT !.cpu = IF u \in moved THEN d ELSE @]]
        /\ UNCHANGED <<wc, lk, crashed>>

\* Mutant of TakeBack: nothing is expected to be left.
TakeBackNone(c) ==
    LET t == Cur(c)
    IN  /\ At(c, "give") /\ (th[t].mig.i = NCPU \/ th[t].mig.send = 0)
        /\ th' = [th EXCEPT ![t].list = <<>>, ![t].intr = "yield", ![t].mig = <<>>]
        /\ UNCHANGED <<cpu, wc, lk, crashed>>

\* What is left goes back to the CPU's own run queue.
TakeBack(c) ==
    LET t == Cur(c)
    IN  /\ At(c, "give") /\ (th[t].mig.i = NCPU \/ th[t].mig.send = 0) /\ Unlocked(c)
        /\ cpu' = [cpu EXCEPT ![c].runqueue = @ \o th[t].list]
        /\ th' = [th EXCEPT ![t].list = <<>>, ![t].intr = "yield", ![t].mig = <<>>]
        /\ UNCHANGED <<wc, lk, crashed>>

----------------------------------------------------------------------------

\* A CPU does the next thing that its code says.
Step(c) ==
    \/ SwitchReturns(c) \/ (thread_yield(c) /\ InHandler(Cur(c)))
    \/ Sleep(c) \/ Pick(c) \/ Unidle(c) \/ SwitchIn(c)
    \/ Relock(c) \/ Waking(c) \/ WakeDone(c) \/ NoneToWake(c) \/ lamebus_clear_ipi(c)
    \/ CountQueue(c) \/ TakeVictims(c) \/ Give(c) \/ TakeBack(c)
    \/ (Wake(c) /\ InHandler(Cur(c)))

\* What its current thread chooses to do.
Choose(c) ==
    \/ thread_fork(c) \/ thread_exit(c) \/ cpu_hatch(c) \/ wchan_sleep(c)
    \/ (thread_yield(c) /\ ~InHandler(Cur(c)))
    \/ (Wake(c) /\ ~InHandler(Cur(c)))
    \/ thread_shutdown(c)

Interrupt(c) == DeviceInterrupt(c) \/ interprocessor_interrupt(c) \/ hardclock(c)

Stopped == crashed /\ UNCHANGED vars

Next == Stopped \/ \E c \in CPU : Step(c) \/ Choose(c) \/ Interrupt(c)

Spec == Init /\ [][Next]_vars

----------------------------------------------------------------------------
(* Properties *)

\* How often t is on a run queue, a wait channel, a list of zombies or a list on
\* some handler's stack.
Times(t, s) == Cardinality({i \in DOMAIN s : s[i] = t})
Listed(t) ==
    LET c == th[t].cpu
    IN  Times(t, cpu[c].runqueue) + Times(t, wc)
        + (IF t \in cpu[c].zombies THEN 1 ELSE 0)
        + Cardinality({u \in Thread : t \in Range(th[u].list)})

\* Every thread has one place: it runs on one CPU, or it is on one list, of its
\* own CPU if it is a run queue (the list node of a thread has room for one).  No
\* thread is lost or doubled while CPUs switch, wake and migrate threads at the
\* same time.
OnePlace ==
    \A t \in Thread :
        IF th[t].state = "free" THEN \A c \in CPU : Times(t, cpu[c].runqueue) = 0
        ELSE /\ Listed(t) = (IF th[t].state = "run" \/
                                (\E c \in CPU : Cur(c) = t /\ cpu[c].phase = "in")
                               THEN 0 ELSE 1)
             /\ \A c \in CPU \ {th[t].cpu} : Times(t, cpu[c].runqueue) = 0

\* No two CPUs are on the stack of one thread, also not while one of them idles
\* on it and the thread has been woken (the comment in thread_consider_migration
\* asks why the current thread must not migrate); and no CPU is on the stack of a
\* thread that has been destroyed.
OneCpuPerStack ==
    /\ \A c, d \in CPU : c # d => Cur(c) # Cur(d)
    /\ \A c \in CPU : th[Cur(c)].state # "free" /\ th[Cur(c)].cpu = c

\* A CPU that waits in the idle loop has nothing to do, or an interrupt on its
\* way: no wakeup and no migration leaves a thread on the queue of a CPU that
\* sleeps.
IdleHasNoWork ==
    \A c \in CPU :
        cpu[c].phase = "idle" /\ ~InHandler(Cur(c)) =>
            cpu[c].runqueue = <<>> \/ cpu[c].ipi

\* Interrupts are on exactly when the running thread has no level raised, although
\* the lock of the run queue is taken by one thread and released by the next; a
\* thread that does not run keeps the two levels with which it will come back.
LevelsBalance ==
    ~crashed =>
        /\ \A c \in CPU :
               cpu[c].phase = "code" /\ ~InHandler(Cur(c)) =>
                   (cpu[c].irq <=> th[Cur(c)].ipl = 0)
        /\ \A t \in Thread :
               th[t].state \in {"ready", "sleep"} /\ (\A c \in CPU : Cur(c) # t) =>
                   th[t].ipl = 2 /\ th[t].spl = 1

\* "It went to sleep; it was reawakened": a thread that is ready runs again, as long
\* as CPUs keep executing and the timer of each keeps interrupting.
ReadyRuns ==
    \A t \in Thread :
        th[t].state = "ready" ~> th[t].state = "run" \/ crashed
                                 \/ \E c \in CPU : cpu[c].phase = "halted"

============================================================================
