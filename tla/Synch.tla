------------------------------- MODULE Synch -------------------------------
(***************************************************************************)
(* The sleep primitives of thread/synch.c on the wait channels of          *)
(* thread/thread.c: one lock, one condition variable used with it, one     *)
(* semaphore, and threads that call them in any order their assertions     *)
(* allow (P only outside the lock: nothing depends on the two together).   *)
(*                                                                         *)
(* Code between spinlock_acquire and spinlock_release of one spinlock is   *)
(* one action, wchan_sleep ending it (thread_switch puts the thread on the *)
(* channel before it releases the spinlock).  cv_wait is several actions:  *)
(* it keeps the condition variable's spinlock while it releases the lock.  *)
(* A woken thread runs whenever the scheduler says so, and others may be   *)
(* faster.                                                                 *)
(***************************************************************************)
EXTENDS Naturals, Sequences, FiniteSets

CONSTANTS
    Thread,
    Nobody,     \* what lk_holder has when it is NULL
    MaxCount    \* bound: V is called while the semaphore is below it

ASSUME ThreadAssumption == Nobody \notin Thread /\ IsFiniteSet(Thread)
ASSUME CountAssumption == MaxCount \in Nat

VARIABLES
    lk_holder,
    lk_wchan,       \* the threads on the lock's wait channel, first come first
    cv_wchanlock,   \* the thread whose cpu holds this spinlock
    cv_wchan,
    sem_count,
    sem_wchan,
    pc,             \* where each thread is
    flip            \* ghost: changes with every cv_signal and cv_broadcast

synchVars == <<lk_holder, lk_wchan, cv_wchanlock, cv_wchan, sem_count, sem_wchan, pc, flip>>
lkVars == <<lk_holder, lk_wchan>>
cvVars == <<cv_wchanlock, cv_wchan, flip>>
semVars == <<sem_count, sem_wchan>>

SynchInit ==
    /\ lk_holder = Nobody /\ lk_wchan = <<>>
    /\ cv_wchanlock = Nobody /\ cv_wchan = <<>>
    /\ sem_count \in 0 .. MaxCount /\ sem_wchan = <<>>
    /\ pc = [t \in Thread |-> "out"]
    /\ flip = FALSE

----------------------------------------------------------------------------
(* Wait channels *)

\* What wchan_wakeone makes of a channel, and of the threads: the first one
\* that sleeps there becomes runnable, at the point "to".
Woken(wc) == IF wc = <<>> THEN <<>> ELSE Tail(wc)
WakeOne(threads, wc, to) ==
    IF wc = <<>> THEN threads ELSE [threads EXCEPT ![Head(wc)] = to]

SynchGoto(t, to) == [pc EXCEPT ![t] = to]

----------------------------------------------------------------------------
(* Locks *)

\* Mutant of lock_acquire: a woken thread takes the lock without a second test.
lock_acquireOnce(t) ==
    /\ pc[t] \in {"out", "lk_awake", "cv_relock"}
    /\ IF lk_holder = Nobody \/ pc[t] = "lk_awake"
         THEN /\ lk_holder' = t
              /\ pc' = SynchGoto(t, "in")
              /\ UNCHANGED lk_wchan
         ELSE /\ lk_wchan' = Append(lk_wchan, t)
              /\ pc' = SynchGoto(t, "lk_sleep")
              /\ UNCHANGED lk_holder
    /\ UNCHANGED <<cvVars, semVars>>

\* lock_acquire, from the call or from the return of wchan_sleep: the holder is
\* tested again each time.  cv_wait calls it, too, when it is done.
lock_acquire(t) ==
    /\ pc[t] \in {"out", "lk_awake", "cv_relock"}
    /\ IF lk_holder = Nobody
         THEN /\ lk_holder' = t
              /\ pc' = SynchGoto(t, "in")
              /\ UNCHANGED lk_wchan
         ELSE /\ lk_wchan' = Append(lk_wchan, t)
              /\ pc' = SynchGoto(t, "lk_sleep")
              /\ UNCHANGED lk_holder
    /\ UNCHANGED <<cvVars, semVars>>

\* Mutant of Unlock: nobody is woken.
UnlockQuietly(t, to) ==
    /\ lk_holder' = Nobody
    /\ lk_wchan' = lk_wchan
    /\ pc' = SynchGoto(t, to)

\* The body of lock_release, called at the end of which the thread is at "to".
Unlock(t, to) ==
    /\ lk_holder' = Nobody
    /\ lk_wchan' = Woken(lk_wchan)
    /\ pc' = WakeOne(SynchGoto(t, to), lk_wchan, "lk_awake")

lock_release(t) ==
    /\ pc[t] = "in"
    /\ Unlock(t, "out")
    /\ UNCHANGED <<cvVars, semVars>>

----------------------------------------------------------------------------
(* Condition variables *)

\* Mutant of cv_wait: the lock is released before the spinlock is taken.
cv_waitUnlocked(t) ==
    /\ pc[t] = "in"
    /\ Unlock(t, "cv_unlocked")
    /\ UNCHANGED <<cvVars, semVars>>

\* cv_wait takes the spinlock of the wait channel ...
cv_wait(t) ==
    /\ pc[t] = "in" /\ cv_wchanlock = Nobody
    /\ cv_wchanlock' = t
    /\ pc' = SynchGoto(t, "cv_enter")
    /\ UNCHANGED <<lkVars, cv_wchan, semVars, flip>>

\* ... releases the lock ...
cv_wait_release(t) ==
    /\ pc[t] = "cv_enter"
    /\ Unlock(t, "cv_unlocked")
    /\ UNCHANGED <<cvVars, semVars>>

\* ... sleeps, which releases the spinlock ...
cv_wait_sleep(t) ==
    /\ pc[t] = "cv_unlocked"
    /\ cv_wchan' = Append(cv_wchan, t)
    /\ cv_wchanlock' = Nobody
    /\ pc' = SynchGoto(t, "cv_sleep")
    /\ UNCHANGED <<lkVars, semVars, flip>>

\* ... and, woken, takes and releases the spinlock, before it wants the lock.
cv_wait_awake(t) ==
    /\ pc[t] = "cv_awake" /\ cv_wchanlock = Nobody
    /\ pc' = SynchGoto(t, "cv_relock")
    /\ UNCHANGED <<lkVars, cvVars, semVars>>

cv_signal(t) ==
    /\ pc[t] = "in" /\ cv_wchanlock = Nobody
    /\ cv_wchan' = Woken(cv_wchan)
    /\ pc' = WakeOne(pc, cv_wchan, "cv_awake")
    /\ flip' = ~flip
    /\ UNCHANGED <<lkVars, cv_wchanlock, semVars>>

cv_broadcast(t) ==
    /\ pc[t] = "in" /\ cv_wchanlock = Nobody
    /\ cv_wchan' = <<>>
    /\ pc' = [u \in Thread |->
                 IF u \in {cv_wchan[i] : i \in 1 .. Len(cv_wchan)} THEN "cv_awake" ELSE pc[u]]
    /\ flip' = ~flip
    /\ UNCHANGED <<lkVars, cv_wchanlock, semVars>>

----------------------------------------------------------------------------
(* Semaphores *)

\* P, from the call or from the return of wchan_sleep.
P(t) ==
    /\ pc[t] \in {"out", "sem_awake"}
    /\ IF sem_count > 0
         THEN /\ sem_count' = sem_count - 1
              /\ pc' = SynchGoto(t, "out")
              /\ UNCHANGED sem_wchan
         ELSE /\ sem_wchan' = Append(sem_wchan, t)
              /\ pc' = SynchGoto(t, "sem_sleep")
              /\ UNCHANGED sem_count
    /\ UNCHANGED <<lkVars, cvVars>>

\* Mutant of V: a thread is woken only when the count was zero.
VFromZero ==
    /\ sem_count < MaxCount
    /\ sem_count' = sem_count + 1
    /\ IF sem_count = 0
         THEN /\ sem_wchan' = Woken(sem_wchan)
              /\ pc' = WakeOne(pc, sem_wchan, "sem_awake")
         ELSE UNCHANGED <<sem_wchan, pc>>
    /\ UNCHANGED <<lkVars, cvVars>>

\* V, by a thread or by an interrupt handler, whatever the threads are doing.
V ==
    /\ sem_count < MaxCount
    /\ sem_count' = sem_count + 1
    /\ sem_wchan' = Woken(sem_wchan)
    /\ pc' = WakeOne(pc, sem_wchan, "sem_awake")
    /\ UNCHANGED <<lkVars, cvVars>>

----------------------------------------------------------------------------

SynchNext ==
    \/ \E t \in Thread :
           \/ lock_acquire(t) \/ lock_release(t)
           \/ cv_wait(t) \/ cv_wait_release(t) \/ cv_wait_sleep(t) \/ cv_wait_awake(t)
           \/ cv_signal(t) \/ cv_broadcast(t)
           \/ P(t)
    \/ V

SynchSpec == SynchInit /\ [][SynchNext]_synchVars

----------------------------------------------------------------------------
(* Properties *)

Pc == {"out", "in", "lk_sleep", "lk_awake", "cv_enter", "cv_unlocked", "cv_sleep",
       "cv_awake", "cv_relock", "sem_sleep", "sem_awake"}

At(p) == {t \in Thread : pc[t] = p}

\* The channel wc holds exactly the threads of S, each once.
Lists(wc, S) ==
    /\ wc \in Seq(Thread)
    /\ \A i, j \in 1 .. Len(wc) : wc[i] = wc[j] => i = j
    /\ S = {wc[i] : i \in 1 .. Len(wc)}

\* Every variable has its type, and a thread that sleeps is on the one channel
\* it sleeps on, once.
TypeOK ==
    /\ lk_holder \in Thread \cup {Nobody}
    /\ cv_wchanlock \in Thread \cup {Nobody}
    /\ sem_count \in Nat
    /\ pc \in [Thread -> Pc]
    /\ flip \in BOOLEAN
    /\ Lists(lk_wchan, At("lk_sleep"))
    /\ Lists(cv_wchan, At("cv_sleep"))
    /\ Lists(sem_wchan, At("sem_sleep"))

\* The thread between lock_acquire and lock_release (or cv_wait's release) is
\* the holder that the lock records: there is one at most, and lock_acquire's
\* and lock_release's assertions about the holder never fail.
MutualExclusion == \A t \in Thread : pc[t] \in {"in", "cv_enter"} <=> lk_holder = t

\* lock_release clears the holder and wakes one thread, which anybody may
\* overtake: a free lock with sleepers still has a thread awake that will take
\* it, or fail because another one did and will release it.
LockNotForgotten ==
    lk_holder = Nobody /\ lk_wchan # <<>> => At("lk_awake") # {}

\* V wakes one thread for each count, which anybody may overtake: as long as
\* threads sleep in P there is one on its way for every count that is left.
SemNotForgotten ==
    sem_wchan # <<>> => sem_count <= Cardinality(At("sem_awake"))

\* A thread that has released the lock inside cv_wait waits, although it is not
\* on the channel yet.
Abstract ==
    INSTANCE Monitor
    WITH holder <- lk_holder, count <- sem_count,
         waiting <- At("cv_unlocked") \cup At("cv_sleep")

\* The primitives implement the monitor, in which cv_wait releases the lock and
\* waits in one step: no signal or broadcast by a later holder misses a waiter.
\* (What leaves these variables alone is no step of theirs.)
ImplementsMonitor ==
    Abstract!Init /\ [][UNCHANGED synchVars \/ Abstract!Next]_Abstract!vars

============================================================================
