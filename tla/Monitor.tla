------------------------------ MODULE Monitor ------------------------------
(***************************************************************************)
(* What the kernel expects of its sleep locks, condition variables and     *)
(* semaphores: cv_wait gives up the lock and starts to wait in one step,   *)
(* so a signal sent by a later holder of the lock finds the waiter.  The   *)
(* modules PidTable and FileTable are written on top of this behaviour.    *)
(***************************************************************************)
EXTENDS Naturals

CONSTANTS Thread, Nobody

VARIABLES
    holder,     \* who has the lock
    waiting,    \* who waits on the condition variable
    flip,       \* changes with every signal, so that one that wakes nobody shows
    count       \* the semaphore

vars == <<holder, waiting, flip, count>>

Init == holder = Nobody /\ waiting = {} /\ flip = FALSE /\ count \in Nat

Acquire(t) ==
    /\ holder = Nobody /\ t \notin waiting
    /\ holder' = t
    /\ UNCHANGED <<waiting, flip, count>>

Release(t) ==
    /\ holder = t
    /\ holder' = Nobody
    /\ UNCHANGED <<waiting, flip, count>>

Wait(t) ==
    /\ holder = t
    /\ holder' = Nobody
    /\ waiting' = waiting \cup {t}
    /\ UNCHANGED <<flip, count>>

\* A signal wakes one waiter if there is one, a broadcast all.
Signal(t) ==
    /\ holder = t
    /\ \/ waiting = {} /\ waiting' = {}
       \/ \E u \in waiting : waiting' = waiting \ {u}
    /\ flip' = ~flip
    /\ UNCHANGED <<holder, count>>

Broadcast(t) ==
    /\ holder = t
    /\ waiting' = {}
    /\ flip' = ~flip
    /\ UNCHANGED <<holder, count>>

Down == count > 0 /\ count' = count - 1 /\ UNCHANGED <<holder, waiting, flip>>
Up == count' = count + 1 /\ UNCHANGED <<holder, waiting, flip>>

Next ==
    \/ \E t \in Thread :
           Acquire(t) \/ Release(t) \/ Wait(t) \/ Signal(t) \/ Broadcast(t)
    \/ Down \/ Up

Spec == Init /\ [][Next]_vars

============================================================================
