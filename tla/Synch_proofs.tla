---------------------------- MODULE Synch_proofs ----------------------------
(* Theorems about Synch, for any number of threads. *)
EXTENDS Synch, FiniteSetTheorems, TLAPS

\* Most leaves are first-order; the others ask for SMT.
USE Zenon

----------------------------------------------------------------------------
(* Wait channels as lists of sets of threads *)

\* An empty channel lists nobody.
LEMMA EmptyLists == Lists(<<>>, {})
BY SMT DEF Lists

\* Only an empty channel lists nobody.
LEMMA ListsEmpty ==
    ASSUME NEW wc \in Seq(Thread), NEW S \in SUBSET Thread, Lists(wc, S)
    PROVE  wc = <<>> <=> S = {}
<1>1. CASE wc = <<>>
  BY <1>1, SMT DEF Lists
<1>2. CASE wc # <<>>
  <2>1. 1 \in 1 .. Len(wc)
    BY <1>2, SMT
  <2>2. wc[1] \in S
    BY <2>1 DEF Lists
  <2> QED
    BY <1>2, <2>2
<1> QED
  BY <1>1, <1>2

\* wchan_sleep puts a thread that is not on the channel at its end.
LEMMA ListsAppend ==
    ASSUME NEW wc \in Seq(Thread), NEW S \in SUBSET Thread, NEW t \in Thread, Lists(wc, S), t \notin S
    PROVE  Lists(Append(wc, t), S \cup {t})
<1> DEFINE new == Append(wc, t)
           n == Len(wc)
<1>1. /\ n \in Nat /\ new \in Seq(Thread) /\ Len(new) = n + 1
      /\ \A i \in 1 .. n : new[i] = wc[i] /\ wc[i] \in S
      /\ new[n + 1] = t
  BY SMT DEF Lists
<1>2. \A i, j \in 1 .. Len(new) : new[i] = new[j] => i = j
  <2> SUFFICES ASSUME NEW i \in 1 .. n + 1, NEW j \in 1 .. n + 1, new[i] = new[j] PROVE i = j
    BY <1>1
  <2>1. CASE i = n + 1 /\ j # n + 1
    <3>1. j \in 1 .. n
      BY <1>1, <2>1, SMT
    <3> QED
      BY <1>1, <2>1, <3>1
  <2>2. CASE i # n + 1 /\ j = n + 1
    <3>1. i \in 1 .. n
      BY <1>1, <2>2, SMT
    <3> QED
      BY <1>1, <2>2, <3>1
  <2>3. CASE i # n + 1 /\ j # n + 1
    <3>1. i \in 1 .. n /\ j \in 1 .. n
      BY <1>1, <2>3, SMT
    <3> QED
      BY <1>1, <3>1 DEF Lists
  <2> QED
    BY <2>1, <2>2, <2>3
<1>3. S \cup {t} = {new[i] : i \in 1 .. Len(new)}
  <2>1. ASSUME NEW u \in S \cup {t} PROVE \E i \in 1 .. Len(new) : new[i] = u
    <3>1. CASE u = t
      <4>1. n + 1 \in 1 .. Len(new)
        BY <1>1, SMT
      <4> QED
        BY <1>1, <3>1, <4>1
    <3>2. CASE u # t
      <4>1. PICK i \in 1 .. n : wc[i] = u
        BY <3>2 DEF Lists
      <4>2. i \in 1 .. Len(new)
        BY <1>1, SMT
      <4> QED
        BY <1>1, <4>1, <4>2
    <3> QED
      BY <3>1, <3>2
  <2>2. ASSUME NEW i \in 1 .. Len(new) PROVE new[i] \in S \cup {t}
    <3>1. i \in 1 .. n \/ i = n + 1
      BY <1>1, SMT
    <3> QED
      BY <1>1, <3>1
  <2> QED
    BY <2>1, <2>2
<1> QED
  BY <1>1, <1>2, <1>3 DEF Lists

\* wchan_wakeone takes the first thread off the channel.
LEMMA ListsTail ==
    ASSUME NEW wc \in Seq(Thread), NEW S \in SUBSET Thread, Lists(wc, S), wc # <<>>
    PROVE  Head(wc) \in S /\ Head(wc) \in Thread /\ Lists(Tail(wc), S \ {Head(wc)})
<1> DEFINE new == Tail(wc)
           n == Len(wc)
<1>1. /\ n \in Nat /\ n >= 1 /\ new \in Seq(Thread) /\ Len(new) = n - 1
      /\ \A i \in 1 .. n - 1 : new[i] = wc[i + 1]
      /\ Head(wc) = wc[1] /\ 1 \in 1 .. n /\ wc[1] \in Thread
  BY SMT DEF Lists
<1>2. Head(wc) \in S
  BY <1>1, SMT DEF Lists
<1>3. \A i \in 1 .. n - 1 : i + 1 \in 1 .. n /\ i + 1 # 1
  BY <1>1, SMT
<1>4. \A i, j \in 1 .. Len(new) : new[i] = new[j] => i = j
  <2> SUFFICES ASSUME NEW i \in 1 .. n - 1, NEW j \in 1 .. n - 1, new[i] = new[j] PROVE i = j
    BY <1>1
  <2>1. i + 1 = j + 1
    BY <1>1, <1>3, SMT DEF Lists
  <2> QED
    BY <1>1, <2>1, SMT
<1>5. S \ {Head(wc)} = {new[i] : i \in 1 .. Len(new)}
  <2>1. ASSUME NEW u \in S \ {Head(wc)} PROVE \E i \in 1 .. Len(new) : new[i] = u
    <3>1. PICK k \in 1 .. n : wc[k] = u
      BY DEF Lists
    <3>2. k - 1 \in 1 .. n - 1 /\ (k - 1) + 1 = k
      BY <1>1, <2>1, <3>1, SMT
    <3>3. new[k - 1] = u
      BY <1>1, <3>1, <3>2
    <3> QED
      BY <1>1, <3>2, <3>3
  <2>2. ASSUME NEW i \in 1 .. Len(new) PROVE new[i] \in S \ {Head(wc)}
    <3>1. i \in 1 .. n - 1 /\ i + 1 \in 1 .. n /\ i + 1 # 1
      BY <1>1, <1>3
    <3>2. new[i] = wc[i + 1] /\ wc[i + 1] # wc[1]
      BY <1>1, <3>1 DEF Lists
    <3> QED
      BY <1>1, <3>1, <3>2 DEF Lists
  <2> QED
    BY <2>1, <2>2
<1> QED
  BY <1>1, <1>2, <1>4, <1>5 DEF Lists

----------------------------------------------------------------------------
(* The inductive invariant *)

\* The spinlock is held by the thread inside cv_wait, from before it releases
\* the lock until it is on the channel.
SpinHeld == \A t \in Thread : pc[t] \in {"cv_enter", "cv_unlocked"} <=> cv_wchanlock = t

IInv == TypeOK /\ MutualExclusion /\ SpinHeld /\ LockNotForgotten /\ SemNotForgotten

\* A step that leaves the semaphore and its threads alone keeps its invariant.
LEMMA SemKept ==
    ASSUME SemNotForgotten, UNCHANGED semVars, At("sem_awake")' = At("sem_awake")
    PROVE  SemNotForgotten'
BY DEF SemNotForgotten, semVars

\* A step that leaves the lock and its threads alone keeps its invariant.
LEMMA LockKept ==
    ASSUME LockNotForgotten, UNCHANGED lkVars, At("lk_awake")' = At("lk_awake")
    PROVE  LockNotForgotten'
BY DEF LockNotForgotten, lkVars

\* All the program points are empty but one, and so are the channels.
LEMMA InitInv == SynchInit => IInv
<1> SUFFICES ASSUME SynchInit PROVE IInv
  OBVIOUS
<1>1. pc \in [Thread -> Pc] /\ \A t \in Thread : pc[t] = "out"
  BY DEF SynchInit, Pc
<1>2. At("lk_sleep") = {} /\ At("cv_sleep") = {} /\ At("sem_sleep") = {}
  BY <1>1 DEF At
<1>3. TypeOK
  <2>1. /\ Lists(lk_wchan, At("lk_sleep"))
        /\ Lists(cv_wchan, At("cv_sleep"))
        /\ Lists(sem_wchan, At("sem_sleep"))
    BY <1>2, EmptyLists DEF SynchInit
  <2>2. sem_count \in Nat
    BY CountAssumption, SMT DEF SynchInit
  <2>3. /\ lk_holder \in Thread \cup {Nobody} /\ cv_wchanlock \in Thread \cup {Nobody}
        /\ flip \in BOOLEAN
    BY DEF SynchInit
  <2> QED
    BY <1>1, <2>1, <2>2, <2>3 DEF TypeOK
<1>4. MutualExclusion /\ SpinHeld
  BY <1>1, ThreadAssumption DEF SynchInit, MutualExclusion, SpinHeld
<1>5. LockNotForgotten /\ SemNotForgotten
  BY DEF SynchInit, LockNotForgotten, SemNotForgotten
<1> QED
  BY <1>3, <1>4, <1>5 DEF IInv

----------------------------------------------------------------------------
(* One lemma per action *)

\* lock_acquire: the thread becomes the holder or goes on the channel.
LEMMA AcquireInv == ASSUME IInv, NEW t \in Thread, lock_acquire(t) PROVE IInv'
<1> USE DEF IInv
<1>1. /\ pc \in [Thread -> Pc] /\ lk_holder \in Thread \cup {Nobody}
      /\ pc[t] \in {"out", "lk_awake", "cv_relock"}
      /\ UNCHANGED <<cvVars, semVars>>
  BY DEF TypeOK, lock_acquire
<1>2. Lists(lk_wchan, At("lk_sleep")) /\ lk_wchan \in Seq(Thread)
  BY DEF TypeOK, Lists
<1>3. CASE lk_holder = Nobody
  <2>1. lk_holder' = t /\ lk_wchan' = lk_wchan /\ pc' = SynchGoto(t, "in")
    BY <1>3 DEF lock_acquire
  <2>2. /\ pc' \in [Thread -> Pc]
        /\ \A u \in Thread : pc'[u] = IF u = t THEN "in" ELSE pc[u]
    BY <1>1, <2>1 DEF SynchGoto, Pc
  <2>3. /\ At("lk_sleep")' = At("lk_sleep") /\ At("cv_sleep")' = At("cv_sleep")
        /\ At("sem_sleep")' = At("sem_sleep") /\ At("sem_awake")' = At("sem_awake")
    BY <1>1, <2>2 DEF At
  <2>4. TypeOK'
    BY <1>1, <2>1, <2>2, <2>3 DEF TypeOK, cvVars, semVars
  <2>5. MutualExclusion'
    BY <1>1, <1>3, <2>1, <2>2, ThreadAssumption DEF MutualExclusion
  <2>6. SpinHeld'
    BY <1>1, <2>2 DEF SpinHeld, cvVars
  <2>7. LockNotForgotten'
    BY <2>1, ThreadAssumption DEF LockNotForgotten
  <2>8. SemNotForgotten'
    BY <1>1, <2>3, SemKept
  <2> QED
    BY <2>4, <2>5, <2>6, <2>7, <2>8
<1>4. CASE lk_holder # Nobody
  <2>1. lk_holder' = lk_holder /\ lk_wchan' = Append(lk_wchan, t) /\ pc' = SynchGoto(t, "lk_sleep")
    BY <1>4 DEF lock_acquire
  <2>2. /\ pc' \in [Thread -> Pc]
        /\ \A u \in Thread : pc'[u] = IF u = t THEN "lk_sleep" ELSE pc[u]
    BY <1>1, <2>1 DEF SynchGoto, Pc
  <2>3. /\ At("lk_sleep")' = At("lk_sleep") \cup {t} /\ At("cv_sleep")' = At("cv_sleep")
        /\ At("sem_sleep")' = At("sem_sleep") /\ At("sem_awake")' = At("sem_awake")
        /\ At("lk_sleep") \in SUBSET Thread /\ t \notin At("lk_sleep")
    BY <1>1, <2>2 DEF At
  <2>4. Lists(Append(lk_wchan, t), At("lk_sleep") \cup {t})
    BY <1>2, <2>3, ListsAppend
  <2>5. TypeOK'
    BY <1>1, <2>1, <2>2, <2>3, <2>4 DEF TypeOK, cvVars, semVars
  <2>6. MutualExclusion'
    BY <1>1, <2>1, <2>2 DEF MutualExclusion
  <2>7. SpinHeld'
    BY <1>1, <2>2 DEF SpinHeld, cvVars
  <2>8. LockNotForgotten'
    BY <1>4, <2>1 DEF LockNotForgotten
  <2>9. SemNotForgotten'
    BY <1>1, <2>3, SemKept
  <2> QED
    BY <2>5, <2>6, <2>7, <2>8, <2>9
<1> QED
  BY <1>3, <1>4

\* The body of lock_release, from either caller: the first sleeper is awake.
LEMMA UnlockInv ==
    ASSUME IInv, NEW t \in Thread, NEW to \in {"out", "cv_unlocked"},
           Unlock(t, to), UNCHANGED <<cvVars, semVars>>,
           \/ pc[t] = "in" /\ to = "out"
           \/ pc[t] = "cv_enter" /\ to = "cv_unlocked"
    PROVE  /\ IInv'
           /\ lk_holder = t
           /\ \A u \in Thread : pc'[u] = IF u = t THEN to
                                         ELSE IF pc[u] = "lk_sleep" THEN pc'[u] ELSE pc[u]
           /\ \A u \in Thread : pc[u] = "lk_sleep" => pc'[u] \in {"lk_sleep", "lk_awake"}
<1> DEFINE S == At("lk_sleep")
           mid == SynchGoto(t, to)
           first == Head(lk_wchan)
<1>1. pc \in [Thread -> Pc] /\ pc[t] \in {"in", "cv_enter"} /\ lk_holder = t
  BY DEF IInv, TypeOK, MutualExclusion
<1>2. lk_wchan \in Seq(Thread) /\ S \in SUBSET Thread /\ Lists(lk_wchan, S)
  BY DEF IInv, TypeOK, Lists, At
<1>3. mid \in [Thread -> Pc] /\ \A u \in Thread : mid[u] = IF u = t THEN to ELSE pc[u]
  BY <1>1 DEF SynchGoto, Pc
<1>4. lk_holder' = Nobody /\ lk_wchan' = Woken(lk_wchan) /\ pc' = WakeOne(mid, lk_wchan, "lk_awake")
  BY DEF Unlock
<1>5. "lk_awake" \in Pc
  BY DEF Pc
<1> HIDE DEF mid
<1>6. /\ pc' \in [Thread -> Pc]
      /\ lk_wchan = <<>> => lk_wchan' = lk_wchan /\ pc' = mid
      /\ lk_wchan # <<>> =>
            /\ first \in S /\ Lists(lk_wchan', S \ {first})
            /\ \A u \in Thread : pc'[u] = IF u = first THEN "lk_awake" ELSE mid[u]
  <2> HIDE DEF S
  <2>1. CASE lk_wchan = <<>>
    BY <1>3, <1>4, <2>1 DEF Woken, WakeOne
  <2>2. CASE lk_wchan # <<>>
    <3>1. lk_wchan' = Tail(lk_wchan) /\ pc' = [mid EXCEPT ![first] = "lk_awake"]
      BY <1>4, <2>2 DEF Woken, WakeOne
    <3>2. first \in S /\ first \in Thread /\ Lists(Tail(lk_wchan), S \ {first})
      BY <1>2, <2>2, ListsTail
    <3> QED
      BY <1>3, <1>5, <2>2, <3>1, <3>2
  <2> QED
    BY <2>1, <2>2
<1>7. \A u \in Thread : /\ pc'[u] = IF u = t THEN to
                                      ELSE IF pc[u] = "lk_sleep" THEN pc'[u] ELSE pc[u]
                        /\ pc[u] = "lk_sleep" => pc'[u] \in {"lk_sleep", "lk_awake"}
  <2>1. CASE lk_wchan = <<>>
    BY <1>1, <1>3, <1>6, <2>1
  <2>2. CASE lk_wchan # <<>>
    BY <1>1, <1>3, <1>6, <2>2 DEF At
  <2> QED
    BY <2>1, <2>2
<1>8. Lists(lk_wchan', At("lk_sleep")')
  <2>1. CASE lk_wchan = <<>>
    <3>1. At("lk_sleep")' = S
      BY <1>1, <1>3, <1>6, <2>1 DEF At
    <3> QED
      BY <1>2, <1>6, <2>1, <3>1
  <2>2. CASE lk_wchan # <<>>
    <3>1. At("lk_sleep")' = S \ {first}
      BY <1>1, <1>3, <1>6, <2>2 DEF At
    <3> QED
      BY <1>6, <2>2, <3>1
  <2> QED
    BY <2>1, <2>2
<1>9. /\ At("cv_sleep")' = At("cv_sleep") /\ At("sem_sleep")' = At("sem_sleep")
      /\ At("sem_awake")' = At("sem_awake")
  BY <1>1, <1>7 DEF At
<1>10. TypeOK'
  BY <1>4, <1>6, <1>8, <1>9 DEF IInv, TypeOK, cvVars, semVars
<1>11. MutualExclusion'
  BY <1>1, <1>4, <1>7, ThreadAssumption DEF IInv, MutualExclusion
<1>12. SpinHeld'
  BY <1>1, <1>7 DEF IInv, SpinHeld, cvVars
<1>13. LockNotForgotten'
  <2>1. CASE lk_wchan = <<>>
    BY <1>6, <2>1 DEF LockNotForgotten
  <2>2. CASE lk_wchan # <<>>
    <3>1. first \in At("lk_awake")'
      BY <1>2, <1>6, <2>2 DEF At
    <3> QED
      BY <3>1 DEF LockNotForgotten
  <2> QED
    BY <2>1, <2>2
<1>14. SemNotForgotten'
  BY <1>9, SemKept DEF IInv
<1> QED
  BY <1>1, <1>7, <1>10, <1>11, <1>12, <1>13, <1>14 DEF IInv

\* cv_wait takes the spinlock.
LEMMA WaitInv == ASSUME IInv, NEW t \in Thread, cv_wait(t) PROVE IInv'
<1>1. /\ pc \in [Thread -> Pc] /\ pc[t] = "in" /\ cv_wchanlock = Nobody /\ cv_wchanlock' = t
      /\ UNCHANGED <<lkVars, cv_wchan, semVars, flip>>
  BY DEF IInv, TypeOK, cv_wait
<1>2. /\ pc' \in [Thread -> Pc]
      /\ \A u \in Thread : pc'[u] = IF u = t THEN "cv_enter" ELSE pc[u]
  BY <1>1 DEF cv_wait, SynchGoto, Pc
<1>3. /\ At("lk_sleep")' = At("lk_sleep") /\ At("cv_sleep")' = At("cv_sleep")
      /\ At("sem_sleep")' = At("sem_sleep") /\ At("sem_awake")' = At("sem_awake")
      /\ At("lk_awake")' = At("lk_awake")
  BY <1>1, <1>2 DEF At
<1>4. TypeOK'
  BY <1>1, <1>2, <1>3 DEF IInv, TypeOK, lkVars, semVars
<1>5. MutualExclusion'
  BY <1>1, <1>2 DEF IInv, MutualExclusion, lkVars
<1>6. SpinHeld'
  BY <1>1, <1>2, ThreadAssumption DEF IInv, SpinHeld
<1>7. LockNotForgotten' /\ SemNotForgotten'
  BY <1>1, <1>3, LockKept, SemKept DEF IInv
<1> QED
  BY <1>4, <1>5, <1>6, <1>7 DEF IInv

\* cv_wait sleeps: the thread is on the channel and the spinlock is free.
LEMMA WaitSleepInv == ASSUME IInv, NEW t \in Thread, cv_wait_sleep(t) PROVE IInv'
<1>1. /\ pc \in [Thread -> Pc] /\ pc[t] = "cv_unlocked" /\ cv_wchanlock' = Nobody
      /\ cv_wchan' = Append(cv_wchan, t)
      /\ UNCHANGED <<lkVars, semVars, flip>>
  BY DEF IInv, TypeOK, cv_wait_sleep
<1>2. /\ pc' \in [Thread -> Pc]
      /\ \A u \in Thread : pc'[u] = IF u = t THEN "cv_sleep" ELSE pc[u]
  BY <1>1 DEF cv_wait_sleep, SynchGoto, Pc
<1>3. /\ At("lk_sleep")' = At("lk_sleep") /\ At("cv_sleep")' = At("cv_sleep") \cup {t}
      /\ At("sem_sleep")' = At("sem_sleep") /\ At("sem_awake")' = At("sem_awake")
      /\ At("lk_awake")' = At("lk_awake")
      /\ At("cv_sleep") \in SUBSET Thread /\ t \notin At("cv_sleep")
  BY <1>1, <1>2 DEF At
<1>4. TypeOK'
  <2>1. cv_wchan \in Seq(Thread) /\ Lists(cv_wchan, At("cv_sleep"))
    BY DEF IInv, TypeOK, Lists
  <2>2. Lists(Append(cv_wchan, t), At("cv_sleep") \cup {t})
    BY <1>3, <2>1, ListsAppend
  <2> QED
    BY <1>1, <1>2, <1>3, <2>2 DEF IInv, TypeOK, lkVars, semVars
<1>5. MutualExclusion'
  BY <1>1, <1>2 DEF IInv, MutualExclusion, lkVars
<1>6. SpinHeld'
  BY <1>1, <1>2, ThreadAssumption DEF IInv, SpinHeld
<1>7. LockNotForgotten' /\ SemNotForgotten'
  BY <1>1, <1>3, LockKept, SemKept DEF IInv
<1> QED
  BY <1>4, <1>5, <1>6, <1>7 DEF IInv

\* cv_wait, woken, has passed the spinlock.
LEMMA WaitAwakeInv == ASSUME IInv, NEW t \in Thread, cv_wait_awake(t) PROVE IInv'
<1>1. /\ pc \in [Thread -> Pc] /\ pc[t] = "cv_awake"
      /\ UNCHANGED <<lkVars, cvVars, semVars>>
  BY DEF IInv, TypeOK, cv_wait_awake
<1>2. /\ pc' \in [Thread -> Pc]
      /\ \A u \in Thread : pc'[u] = IF u = t THEN "cv_relock" ELSE pc[u]
  BY <1>1 DEF cv_wait_awake, SynchGoto, Pc
<1>3. /\ At("lk_sleep")' = At("lk_sleep") /\ At("cv_sleep")' = At("cv_sleep")
      /\ At("sem_sleep")' = At("sem_sleep") /\ At("sem_awake")' = At("sem_awake")
      /\ At("lk_awake")' = At("lk_awake")
  BY <1>1, <1>2 DEF At
<1>4. TypeOK'
  BY <1>1, <1>2, <1>3 DEF IInv, TypeOK, lkVars, cvVars, semVars
<1>5. MutualExclusion' /\ SpinHeld'
  BY <1>1, <1>2 DEF IInv, MutualExclusion, SpinHeld, lkVars, cvVars
<1>6. LockNotForgotten' /\ SemNotForgotten'
  BY <1>1, <1>3, LockKept, SemKept DEF IInv
<1> QED
  BY <1>4, <1>5, <1>6 DEF IInv

\* What cv_signal does to the sleepers: the first one is awake.
LEMMA SignalWakes ==
    ASSUME IInv, NEW t \in Thread, cv_signal(t)
    PROVE  /\ pc' \in [Thread -> Pc]
           /\ \A u \in Thread : pc'[u] = pc[u] \/ (pc[u] = "cv_sleep" /\ pc'[u] = "cv_awake")
           /\ Lists(cv_wchan', At("cv_sleep")')
           /\ \/ At("cv_sleep") = {} /\ At("cv_sleep")' = {}
              \/ \E u \in At("cv_sleep") : At("cv_sleep")' = At("cv_sleep") \ {u}
<1> DEFINE first == Head(cv_wchan)
<1>1. /\ pc \in [Thread -> Pc] /\ cv_wchan \in Seq(Thread) /\ Lists(cv_wchan, At("cv_sleep"))
      /\ At("cv_sleep") \in SUBSET Thread
  BY DEF IInv, TypeOK, Lists, At
<1>2. CASE cv_wchan = <<>>
  <2>1. pc' = pc /\ cv_wchan' = cv_wchan
    BY <1>2 DEF cv_signal, Woken, WakeOne
  <2>2. At("cv_sleep") = {}
    BY <1>1, <1>2, ListsEmpty
  <2>3. At("cv_sleep")' = At("cv_sleep")
    BY <2>1 DEF At
  <2> QED
    BY <1>1, <2>1, <2>2, <2>3
<1>3. CASE cv_wchan # <<>>
  <2>1. pc' = [pc EXCEPT ![first] = "cv_awake"] /\ cv_wchan' = Tail(cv_wchan)
    BY <1>3 DEF cv_signal, Woken, WakeOne
  <2>2. /\ first \in At("cv_sleep") /\ first \in Thread
        /\ Lists(Tail(cv_wchan), At("cv_sleep") \ {first})
    BY <1>1, <1>3, ListsTail
  <2>3. /\ pc' \in [Thread -> Pc] /\ pc[first] = "cv_sleep"
        /\ \A u \in Thread : pc'[u] = IF u = first THEN "cv_awake" ELSE pc[u]
    BY <1>1, <2>1, <2>2 DEF At, Pc
  <2>4. At("cv_sleep")' = At("cv_sleep") \ {first}
    BY <2>2, <2>3 DEF At
  <2> QED
    BY <2>1, <2>2, <2>3, <2>4
<1> QED
  BY <1>2, <1>3

\* What cv_broadcast does to the sleepers: all of them are awake.
LEMMA BroadcastWakes ==
    ASSUME IInv, NEW t \in Thread, cv_broadcast(t)
    PROVE  /\ pc' \in [Thread -> Pc]
           /\ \A u \in Thread : pc'[u] = pc[u] \/ (pc[u] = "cv_sleep" /\ pc'[u] = "cv_awake")
           /\ Lists(cv_wchan', At("cv_sleep")')
           /\ At("cv_sleep")' = {}
<1>1. pc \in [Thread -> Pc] /\ At("cv_sleep") = {cv_wchan[i] : i \in 1 .. Len(cv_wchan)}
  BY DEF IInv, TypeOK, Lists
<1>2. pc' = [u \in Thread |-> IF u \in At("cv_sleep") THEN "cv_awake" ELSE pc[u]]
  BY <1>1 DEF cv_broadcast
<1>3. /\ pc' \in [Thread -> Pc]
      /\ \A u \in Thread : pc'[u] = IF pc[u] = "cv_sleep" THEN "cv_awake" ELSE pc[u]
  BY <1>1, <1>2 DEF At, Pc
<1>4. At("cv_sleep")' = {}
  BY <1>3 DEF At
<1>5. cv_wchan' = <<>>
  BY DEF cv_broadcast
<1> QED
  BY <1>3, <1>4, <1>5, EmptyLists

\* Waking sleepers of the condition variable touches nothing else.
LEMMA CvWakeInv ==
    ASSUME IInv, UNCHANGED <<lkVars, cv_wchanlock, semVars>>, flip' \in BOOLEAN,
           pc' \in [Thread -> Pc], Lists(cv_wchan', At("cv_sleep")'),
           \A u \in Thread : pc'[u] = pc[u] \/ (pc[u] = "cv_sleep" /\ pc'[u] = "cv_awake")
    PROVE  IInv'
<1>1. /\ At("lk_sleep")' = At("lk_sleep") /\ At("sem_sleep")' = At("sem_sleep")
      /\ At("sem_awake")' = At("sem_awake") /\ At("lk_awake")' = At("lk_awake")
  BY DEF At
<1>2. TypeOK'
  BY <1>1 DEF IInv, TypeOK, lkVars, semVars
<1>3. MutualExclusion' /\ SpinHeld'
  BY DEF IInv, MutualExclusion, SpinHeld, lkVars
<1>4. LockNotForgotten' /\ SemNotForgotten'
  BY <1>1, LockKept, SemKept DEF IInv
<1> QED
  BY <1>2, <1>3, <1>4 DEF IInv

\* The sets of threads that SemNotForgotten counts are finite.
LEMMA AtFinite ==
    ASSUME NEW p \in Pc
    PROVE  IsFiniteSet(At(p)) /\ Cardinality(At(p)) \in Nat
<1>1. At(p) \subseteq Thread
  BY DEF At
<1> QED
  BY <1>1, ThreadAssumption, FS_Subset, FS_CardinalityType

\* P: the thread takes a count, its own wakeup with it, or goes on the channel.
LEMMA PInv == ASSUME IInv, NEW t \in Thread, P(t) PROVE IInv'
<1>1. /\ pc \in [Thread -> Pc] /\ sem_count \in Nat
      /\ pc[t] \in {"out", "sem_awake"} /\ UNCHANGED <<lkVars, cvVars>>
  BY DEF IInv, TypeOK, P
<1>2. At("sem_awake") \in SUBSET Thread /\ "sem_awake" \in Pc
  BY DEF At, Pc
<1>3. CASE sem_count > 0
  <2>1. sem_count' = sem_count - 1 /\ sem_wchan' = sem_wchan /\ pc' = SynchGoto(t, "out")
    BY <1>3 DEF P
  <2>2. /\ pc' \in [Thread -> Pc]
        /\ \A u \in Thread : pc'[u] = IF u = t THEN "out" ELSE pc[u]
    BY <1>1, <2>1 DEF SynchGoto, Pc
  <2>3. /\ At("lk_sleep")' = At("lk_sleep") /\ At("cv_sleep")' = At("cv_sleep")
        /\ At("sem_sleep")' = At("sem_sleep") /\ At("lk_awake")' = At("lk_awake")
        /\ At("sem_awake")' = At("sem_awake") \ {t}
    BY <1>1, <2>2 DEF At
  <2>4. sem_count' \in Nat
    BY <1>1, <1>3, <2>1, SMT
  <2>5. TypeOK'
    BY <1>1, <2>1, <2>2, <2>3, <2>4 DEF IInv, TypeOK, lkVars, cvVars
  <2>6. MutualExclusion' /\ SpinHeld'
    BY <1>1, <2>2 DEF IInv, MutualExclusion, SpinHeld, lkVars, cvVars
  <2>7. LockNotForgotten'
    BY <1>1, <2>3, LockKept DEF IInv
  <2>8. SemNotForgotten'
    <3>1. /\ Cardinality(At("sem_awake")) \in Nat
          /\ Cardinality(At("sem_awake") \ {t}) >= Cardinality(At("sem_awake")) - 1
      BY <1>2, AtFinite, FS_RemoveElement, SMT
    <3>2. sem_wchan # <<>> => sem_count <= Cardinality(At("sem_awake"))
      BY DEF IInv, SemNotForgotten
    <3>3. Cardinality(At("sem_awake") \ {t}) \in Int
      BY <1>2, AtFinite, FS_RemoveElement, SMT
    <3>4. sem_wchan # <<>> => sem_count - 1 <= Cardinality(At("sem_awake") \ {t})
      BY <1>1, <3>1, <3>2, <3>3, SMT
    <3> QED
      BY <2>1, <2>3, <3>4 DEF SemNotForgotten
  <2> QED
    BY <2>5, <2>6, <2>7, <2>8 DEF IInv
<1>4. CASE ~(sem_count > 0)
  <2>1. sem_count' = sem_count /\ sem_wchan' = Append(sem_wchan, t) /\ pc' = SynchGoto(t, "sem_sleep")
    BY <1>4 DEF P
  <2>2. /\ pc' \in [Thread -> Pc]
        /\ \A u \in Thread : pc'[u] = IF u = t THEN "sem_sleep" ELSE pc[u]
    BY <1>1, <2>1 DEF SynchGoto, Pc
  <2>3. /\ At("lk_sleep")' = At("lk_sleep") /\ At("cv_sleep")' = At("cv_sleep")
        /\ At("sem_sleep")' = At("sem_sleep") \cup {t} /\ At("lk_awake")' = At("lk_awake")
        /\ At("sem_awake")' = At("sem_awake") \ {t}
        /\ At("sem_sleep") \in SUBSET Thread /\ t \notin At("sem_sleep")
    BY <1>1, <2>2 DEF At
  <2>4. TypeOK'
    <3>1. sem_wchan \in Seq(Thread) /\ Lists(sem_wchan, At("sem_sleep"))
      BY DEF IInv, TypeOK, Lists
    <3>2. Lists(Append(sem_wchan, t), At("sem_sleep") \cup {t})
      BY <2>3, <3>1, ListsAppend
    <3> QED
      BY <1>1, <2>1, <2>2, <2>3, <3>2 DEF IInv, TypeOK, lkVars, cvVars
  <2>5. MutualExclusion' /\ SpinHeld'
    BY <1>1, <2>2 DEF IInv, MutualExclusion, SpinHeld, lkVars, cvVars
  <2>6. LockNotForgotten'
    BY <1>1, <2>3, LockKept DEF IInv
  <2>7. SemNotForgotten'
    <3>1. sem_count' = 0
      BY <1>1, <1>4, <2>1, SMT
    <3>2. Cardinality(At("sem_awake") \ {t}) \in Nat
      BY <1>2, AtFinite, FS_RemoveElement, FS_CardinalityType
    <3> QED
      BY <2>3, <3>1, <3>2, SMT DEF SemNotForgotten
  <2> QED
    BY <2>4, <2>5, <2>6, <2>7 DEF IInv
<1> QED
  BY <1>3, <1>4

\* V: one more count, and one more thread on its way to it if one slept.
LEMMA VInv == ASSUME IInv, V PROVE IInv'
<1> DEFINE first == Head(sem_wchan)
<1>1. /\ pc \in [Thread -> Pc] /\ sem_count \in Nat /\ sem_count' = sem_count + 1
      /\ sem_wchan \in Seq(Thread) /\ Lists(sem_wchan, At("sem_sleep"))
      /\ At("sem_sleep") \in SUBSET Thread /\ UNCHANGED <<lkVars, cvVars>>
  BY DEF IInv, TypeOK, Lists, At, V
<1>2. sem_count' \in Nat
  BY <1>1, SMT
<1>3. CASE sem_wchan = <<>>
  <2>1. pc' = pc /\ sem_wchan' = sem_wchan
    BY <1>3 DEF V, Woken, WakeOne
  <2>2. /\ At("lk_sleep")' = At("lk_sleep") /\ At("cv_sleep")' = At("cv_sleep")
        /\ At("sem_sleep")' = At("sem_sleep") /\ At("lk_awake")' = At("lk_awake")
    BY <2>1 DEF At
  <2>3. TypeOK'
    BY <1>1, <1>2, <2>1, <2>2 DEF IInv, TypeOK, lkVars, cvVars
  <2>4. MutualExclusion' /\ SpinHeld'
    BY <1>1, <2>1 DEF IInv, MutualExclusion, SpinHeld, lkVars, cvVars
  <2>5. LockNotForgotten'
    BY <1>1, <2>2, LockKept DEF IInv
  <2>6. SemNotForgotten'
    BY <1>3, <2>1 DEF SemNotForgotten
  <2> QED
    BY <2>3, <2>4, <2>5, <2>6 DEF IInv
<1>4. CASE sem_wchan # <<>>
  <2>1. pc' = [pc EXCEPT ![first] = "sem_awake"] /\ sem_wchan' = Tail(sem_wchan)
    BY <1>4 DEF V, Woken, WakeOne
  <2>2. /\ first \in At("sem_sleep") /\ first \in Thread
        /\ Lists(Tail(sem_wchan), At("sem_sleep") \ {first})
    BY <1>1, <1>4, ListsTail
  <2>3. /\ pc' \in [Thread -> Pc] /\ pc[first] = "sem_sleep"
        /\ \A u \in Thread : pc'[u] = IF u = first THEN "sem_awake" ELSE pc[u]
    BY <1>1, <2>1, <2>2 DEF At, Pc
  <2>4. /\ At("lk_sleep")' = At("lk_sleep") /\ At("cv_sleep")' = At("cv_sleep")
        /\ At("sem_sleep")' = At("sem_sleep") \ {first} /\ At("lk_awake")' = At("lk_awake")
        /\ At("sem_awake")' = At("sem_awake") \cup {first} /\ first \notin At("sem_awake")
    BY <2>2, <2>3 DEF At
  <2>5. TypeOK'
    BY <1>1, <1>2, <2>1, <2>2, <2>3, <2>4 DEF IInv, TypeOK, lkVars, cvVars
  <2>6. MutualExclusion' /\ SpinHeld'
    BY <1>1, <2>3 DEF IInv, MutualExclusion, SpinHeld, lkVars, cvVars
  <2>7. LockNotForgotten'
    BY <1>1, <2>4, LockKept DEF IInv
  <2>8. SemNotForgotten'
    <3>1. sem_count <= Cardinality(At("sem_awake"))
      BY <1>4 DEF IInv, SemNotForgotten
    <3>2. "sem_awake" \in Pc
      BY DEF Pc
    <3>3. /\ Cardinality(At("sem_awake")) \in Nat
          /\ Cardinality(At("sem_awake") \cup {first}) = Cardinality(At("sem_awake")) + 1
      BY <2>4, <3>2, AtFinite, FS_AddElement
    <3>4. sem_count + 1 <= Cardinality(At("sem_awake") \cup {first})
      BY <1>1, <3>1, <3>3, SMT
    <3>5. sem_count' = sem_count + 1 /\ At("sem_awake")' = At("sem_awake") \cup {first}
      BY <1>1, <2>4
    <3> QED
      BY <3>4, <3>5 DEF SemNotForgotten
  <2> QED
    BY <2>5, <2>6, <2>7, <2>8 DEF IInv
<1> QED
  BY <1>3, <1>4

----------------------------------------------------------------------------
(* Invariance *)

\* Every step keeps the inductive invariant.
LEMMA NextInv == IInv /\ [SynchNext]_synchVars => IInv'
<1> SUFFICES ASSUME IInv, [SynchNext]_synchVars PROVE IInv'
  OBVIOUS
<1>1. ASSUME NEW t \in Thread, lock_acquire(t) PROVE IInv'
  BY <1>1, AcquireInv
<1>2. ASSUME NEW t \in Thread, lock_release(t) PROVE IInv'
  BY <1>2, UnlockInv DEF lock_release
<1>3. ASSUME NEW t \in Thread, cv_wait(t) PROVE IInv'
  BY <1>3, WaitInv
<1>4. ASSUME NEW t \in Thread, cv_wait_release(t) PROVE IInv'
  BY <1>4, UnlockInv DEF cv_wait_release
<1>5. ASSUME NEW t \in Thread, cv_wait_sleep(t) PROVE IInv'
  BY <1>5, WaitSleepInv
<1>6. ASSUME NEW t \in Thread, cv_wait_awake(t) PROVE IInv'
  BY <1>6, WaitAwakeInv
<1>7. ASSUME NEW t \in Thread, cv_signal(t) PROVE IInv'
  <2>1. UNCHANGED <<lkVars, cv_wchanlock, semVars>> /\ flip' \in BOOLEAN
    BY <1>7 DEF cv_signal
  <2> QED
    BY <1>7, <2>1, SignalWakes, CvWakeInv
<1>8. ASSUME NEW t \in Thread, cv_broadcast(t) PROVE IInv'
  <2>1. UNCHANGED <<lkVars, cv_wchanlock, semVars>> /\ flip' \in BOOLEAN
    BY <1>8 DEF cv_broadcast
  <2> QED
    BY <1>8, <2>1, BroadcastWakes, CvWakeInv
<1>9. ASSUME NEW t \in Thread, P(t) PROVE IInv'
  BY <1>9, PInv
<1>10. ASSUME V PROVE IInv'
  BY <1>10, VInv
<1>11. ASSUME UNCHANGED synchVars PROVE IInv'
  <2>1. \A p \in Pc : At(p)' = At(p)
    BY <1>11 DEF At, synchVars
  <2>2. /\ At("lk_sleep")' = At("lk_sleep") /\ At("cv_sleep")' = At("cv_sleep")
        /\ At("sem_sleep")' = At("sem_sleep") /\ At("sem_awake")' = At("sem_awake")
        /\ At("lk_awake")' = At("lk_awake")
    BY <2>1 DEF Pc
  <2>3. TypeOK'
    BY <1>11, <2>2 DEF IInv, TypeOK, synchVars
  <2>4. MutualExclusion' /\ SpinHeld'
    BY <1>11 DEF IInv, MutualExclusion, SpinHeld, synchVars
  <2>5. LockNotForgotten' /\ SemNotForgotten'
    BY <1>11, <2>2 DEF IInv, LockNotForgotten, SemNotForgotten, synchVars
  <2> QED
    BY <2>3, <2>4, <2>5 DEF IInv
<1> QED
  BY <1>1, <1>2, <1>3, <1>4, <1>5, <1>6, <1>7, <1>8, <1>9, <1>10, <1>11 DEF SynchNext

\* The inductive invariant holds in every reachable state.
LEMMA Invariance == SynchSpec => []IInv
BY InitInv, NextInv, PTL DEF SynchSpec

\* TypeOK: every variable keeps its type, and the wait channels list exactly
\* the threads that sleep in lock_acquire, cv_wait and P.
THEOREM TypeCorrect == SynchSpec => []TypeOK
<1>1. IInv => TypeOK
  BY DEF IInv
<1> QED
  BY <1>1, Invariance, PTL

\* MutualExclusion: at most one thread is between lock_acquire and
\* lock_release, the one lk_holder records, for any number of threads.
THEOREM LockExcludes == SynchSpec => []MutualExclusion
<1>1. IInv => MutualExclusion
  BY DEF IInv
<1> QED
  BY <1>1, Invariance, PTL

\* LockNotForgotten: lock_release never leaves a free lock with sleepers and
\* nobody awake to take it.
THEOREM LockWakesEnough == SynchSpec => []LockNotForgotten
<1>1. IInv => LockNotForgotten
  BY DEF IInv
<1> QED
  BY <1>1, Invariance, PTL

\* SemNotForgotten: V never leaves a count for which nobody is awake while
\* threads sleep in P.
THEOREM SemWakesEnough == SynchSpec => []SemNotForgotten
<1>1. IInv => SemNotForgotten
  BY DEF IInv
<1> QED
  BY <1>1, Invariance, PTL

----------------------------------------------------------------------------
(* Refinement *)

Waiting == At("cv_unlocked") \cup At("cv_sleep")

\* Initially nobody holds the lock and nobody waits.
LEMMA InitRefines == SynchInit => Abstract!Init
<1> SUFFICES ASSUME SynchInit PROVE Abstract!Init
  OBVIOUS
<1>1. At("cv_unlocked") \cup At("cv_sleep") = {}
  BY DEF SynchInit, At
<1>2. sem_count \in Nat
  BY CountAssumption, SMT DEF SynchInit
<1> QED
  BY <1>1, <1>2 DEF SynchInit, Abstract!Init

\* A step that moves nobody to or from the waiting points leaves the waiters.
LEMMA WaitingSame ==
    ASSUME \A u \in Thread : pc'[u] \in {"cv_unlocked", "cv_sleep"}
                          <=> pc[u] \in {"cv_unlocked", "cv_sleep"}
    PROVE  Waiting' = Waiting
BY DEF Waiting, At

\* Each step is a step of the monitor or leaves it alone.  A signal finds every
\* waiter on the channel because the spinlock it takes is free, so that nobody
\* is between releasing the lock and sleeping.
LEMMA NextRefines == IInv /\ [SynchNext]_synchVars => [Abstract!Next]_(Abstract!vars)
<1> SUFFICES ASSUME IInv, [SynchNext]_synchVars PROVE [Abstract!Next]_(Abstract!vars)
  OBVIOUS
<1>0. pc \in [Thread -> Pc] /\ sem_count \in Nat
  BY DEF IInv, TypeOK
<1>1. ASSUME NEW t \in Thread, lock_acquire(t) PROVE [Abstract!Next]_(Abstract!vars)
  <2>1. /\ pc[t] \in {"out", "lk_awake", "cv_relock"} /\ flip' = flip /\ sem_count' = sem_count
        /\ \/ lk_holder = Nobody /\ lk_holder' = t /\ pc' = SynchGoto(t, "in")
           \/ lk_holder' = lk_holder /\ pc' = SynchGoto(t, "lk_sleep")
    BY <1>1 DEF lock_acquire, cvVars, semVars
  <2>2. Waiting' = Waiting
    BY <1>0, <2>1, WaitingSame DEF SynchGoto
  <2>3. t \notin Waiting
    BY <2>1 DEF Waiting, At
  <2>4. CASE lk_holder = Nobody /\ lk_holder' = t
    <3>1. Abstract!Acquire(t)
      BY <2>1, <2>2, <2>3, <2>4 DEF Abstract!Acquire, Waiting
    <3> QED
      BY <3>1 DEF Abstract!Next
  <2>5. CASE lk_holder' = lk_holder
    BY <2>1, <2>2, <2>5 DEF Abstract!vars, Waiting
  <2> QED
    BY <2>1, <2>4, <2>5
<1>2. ASSUME NEW t \in Thread, lock_release(t) PROVE [Abstract!Next]_(Abstract!vars)
  <2>1. /\ pc[t] = "in" /\ Unlock(t, "out") /\ UNCHANGED <<cvVars, semVars>>
        /\ lk_holder' = Nobody /\ flip' = flip /\ sem_count' = sem_count
    BY <1>2, SMT DEF lock_release, Unlock, cvVars, semVars
  <2>2. /\ lk_holder = t
        /\ \A u \in Thread : pc'[u] = IF u = t THEN "out"
                                      ELSE IF pc[u] = "lk_sleep" THEN pc'[u] ELSE pc[u]
        /\ \A u \in Thread : pc[u] = "lk_sleep" => pc'[u] \in {"lk_sleep", "lk_awake"}
    BY <2>1, UnlockInv
  <2>3. Waiting' = Waiting
    BY <2>1, <2>2, WaitingSame
  <2>4. Abstract!Release(t)
    BY <2>1, <2>2, <2>3 DEF Abstract!Release, Waiting
  <2> QED
    BY <2>4 DEF Abstract!Next
<1>3. ASSUME NEW t \in Thread, cv_wait(t) PROVE [Abstract!Next]_(Abstract!vars)
  <2>1. /\ pc[t] = "in" /\ pc' = SynchGoto(t, "cv_enter")
        /\ lk_holder' = lk_holder /\ flip' = flip /\ sem_count' = sem_count
    BY <1>3 DEF cv_wait, lkVars, semVars
  <2>2. Waiting' = Waiting
    BY <1>0, <2>1, WaitingSame DEF SynchGoto
  <2> QED
    BY <2>1, <2>2 DEF Abstract!vars, Waiting
<1>4. ASSUME NEW t \in Thread, cv_wait_release(t) PROVE [Abstract!Next]_(Abstract!vars)
  <2>1. /\ pc[t] = "cv_enter" /\ Unlock(t, "cv_unlocked") /\ UNCHANGED <<cvVars, semVars>>
        /\ lk_holder' = Nobody /\ flip' = flip /\ sem_count' = sem_count
    BY <1>4 DEF cv_wait_release, Unlock, cvVars, semVars
  <2>2. /\ lk_holder = t
        /\ \A u \in Thread : pc'[u] = IF u = t THEN "cv_unlocked"
                                      ELSE IF pc[u] = "lk_sleep" THEN pc'[u] ELSE pc[u]
        /\ \A u \in Thread : pc[u] = "lk_sleep" => pc'[u] \in {"lk_sleep", "lk_awake"}
    BY <2>1, UnlockInv
  <2>3. Waiting' = Waiting \cup {t}
    BY <2>1, <2>2 DEF Waiting, At
  <2>4. Abstract!Wait(t)
    BY <2>1, <2>2, <2>3 DEF Abstract!Wait, Waiting
  <2> QED
    BY <2>4 DEF Abstract!Next
<1>5. ASSUME NEW t \in Thread, cv_wait_sleep(t) PROVE [Abstract!Next]_(Abstract!vars)
  <2>1. /\ pc[t] = "cv_unlocked" /\ pc' = SynchGoto(t, "cv_sleep")
        /\ lk_holder' = lk_holder /\ flip' = flip /\ sem_count' = sem_count
    BY <1>5 DEF cv_wait_sleep, lkVars, semVars
  <2>2. Waiting' = Waiting
    BY <1>0, <2>1, WaitingSame DEF SynchGoto
  <2> QED
    BY <2>1, <2>2 DEF Abstract!vars, Waiting
<1>6. ASSUME NEW t \in Thread, cv_wait_awake(t) PROVE [Abstract!Next]_(Abstract!vars)
  <2>1. /\ pc[t] = "cv_awake" /\ pc' = SynchGoto(t, "cv_relock")
        /\ lk_holder' = lk_holder /\ flip' = flip /\ sem_count' = sem_count
    BY <1>6 DEF cv_wait_awake, lkVars, cvVars, semVars
  <2>2. Waiting' = Waiting
    BY <1>0, <2>1, WaitingSame DEF SynchGoto
  <2> QED
    BY <2>1, <2>2 DEF Abstract!vars, Waiting
<1>7. ASSUME NEW t \in Thread, cv_signal(t) PROVE [Abstract!Next]_(Abstract!vars)
  <2>1. /\ pc[t] = "in" /\ cv_wchanlock = Nobody /\ lk_holder' = lk_holder
        /\ flip' = ~flip /\ sem_count' = sem_count /\ lk_holder = t
    BY <1>7 DEF IInv, MutualExclusion, cv_signal, lkVars, semVars
  <2>2. /\ \A u \in Thread : pc'[u] = pc[u] \/ (pc[u] = "cv_sleep" /\ pc'[u] = "cv_awake")
        /\ \/ At("cv_sleep") = {} /\ At("cv_sleep")' = {}
           \/ \E u \in At("cv_sleep") : At("cv_sleep")' = At("cv_sleep") \ {u}
    BY <1>7, SignalWakes
  <2>3. At("cv_unlocked") = {} /\ At("cv_unlocked")' = {}
    BY <2>1, <2>2, ThreadAssumption, SMT DEF IInv, SpinHeld, At
  <2>4. Waiting = At("cv_sleep") /\ Waiting' = At("cv_sleep")'
    BY <2>3 DEF Waiting
  <2>5. \/ Waiting = {} /\ Waiting' = {}
        \/ \E u \in Waiting : Waiting' = Waiting \ {u}
    BY <2>2, <2>4
  <2>6. Abstract!Signal(t)
    BY <2>1, <2>5 DEF Abstract!Signal, Waiting
  <2> QED
    BY <2>6 DEF Abstract!Next
<1>8. ASSUME NEW t \in Thread, cv_broadcast(t) PROVE [Abstract!Next]_(Abstract!vars)
  <2>1. /\ pc[t] = "in" /\ cv_wchanlock = Nobody /\ lk_holder' = lk_holder
        /\ flip' = ~flip /\ sem_count' = sem_count /\ lk_holder = t
    BY <1>8 DEF IInv, MutualExclusion, cv_broadcast, lkVars, semVars
  <2>2. /\ \A u \in Thread : pc'[u] = pc[u] \/ (pc[u] = "cv_sleep" /\ pc'[u] = "cv_awake")
        /\ At("cv_sleep")' = {}
    BY <1>8, BroadcastWakes
  <2>3. At("cv_unlocked")' = {}
    BY <2>1, <2>2, ThreadAssumption DEF IInv, SpinHeld, At
  <2>4. Waiting' = {}
    BY <2>2, <2>3 DEF Waiting
  <2>5. Abstract!Broadcast(t)
    BY <2>1, <2>4 DEF Abstract!Broadcast, Waiting
  <2> QED
    BY <2>5 DEF Abstract!Next
<1>9. ASSUME NEW t \in Thread, P(t) PROVE [Abstract!Next]_(Abstract!vars)
  <2>1. /\ pc[t] \in {"out", "sem_awake"} /\ lk_holder' = lk_holder /\ flip' = flip
        /\ \/ sem_count > 0 /\ sem_count' = sem_count - 1 /\ pc' = SynchGoto(t, "out")
           \/ sem_count' = sem_count /\ pc' = SynchGoto(t, "sem_sleep")
    BY <1>9 DEF P, lkVars, cvVars
  <2>2. Waiting' = Waiting
    BY <1>0, <2>1, WaitingSame DEF SynchGoto
  <2>3. CASE sem_count > 0 /\ sem_count' = sem_count - 1
    BY <2>1, <2>2, <2>3 DEF Abstract!Next, Abstract!Down, Waiting
  <2>4. CASE sem_count' = sem_count
    BY <2>1, <2>2, <2>4 DEF Abstract!vars, Waiting
  <2> QED
    BY <2>1, <2>3, <2>4
<1>10. ASSUME V PROVE [Abstract!Next]_(Abstract!vars)
  <2>1. sem_count' = sem_count + 1 /\ lk_holder' = lk_holder /\ flip' = flip
    BY <1>10 DEF V, lkVars, cvVars
  <2>2. \A u \in Thread : pc'[u] = pc[u] \/ (pc[u] = "sem_sleep" /\ pc'[u] = "sem_awake")
    <3>1. CASE sem_wchan = <<>>
      BY <1>10, <3>1 DEF V, WakeOne
    <3>2. CASE sem_wchan # <<>>
      <4>1. /\ sem_wchan \in Seq(Thread) /\ Lists(sem_wchan, At("sem_sleep"))
            /\ At("sem_sleep") \in SUBSET Thread
        BY DEF IInv, TypeOK, Lists, At
      <4>2. Head(sem_wchan) \in At("sem_sleep")
        BY <3>2, <4>1, ListsTail
      <4>3. pc' = [pc EXCEPT ![Head(sem_wchan)] = "sem_awake"]
        BY <1>10, <3>2 DEF V, WakeOne
      <4> QED
        BY <1>0, <4>2, <4>3 DEF At
    <3> QED
      BY <3>1, <3>2
  <2>3. Waiting' = Waiting
    BY <2>2, WaitingSame
  <2> QED
    BY <2>1, <2>3 DEF Abstract!Next, Abstract!Up, Waiting
<1>11. ASSUME UNCHANGED synchVars PROVE [Abstract!Next]_(Abstract!vars)
  <2>1. Waiting' = Waiting
    BY <1>11 DEF Waiting, At, synchVars
  <2> QED
    BY <1>11, <2>1 DEF Abstract!vars, Waiting, synchVars
<1> QED
  BY <1>1, <1>2, <1>3, <1>4, <1>5, <1>6, <1>7, <1>8, <1>9, <1>10, <1>11 DEF SynchNext

\* ImplementsMonitor: the primitives of synch.c behave as the monitor, whatever
\* the number of threads: cv_wait's release and sleep are one step to everyone
\* who takes the lock.
THEOREM Refinement == SynchSpec => ImplementsMonitor
<1>1. IInv /\ [SynchNext]_synchVars => [UNCHANGED synchVars \/ Abstract!Next]_Abstract!vars
  BY NextRefines
<1> QED
  BY <1>1, InitRefines, Invariance, PTL DEF SynchSpec, ImplementsMonitor

============================================================================
