-------------------------- MODULE PidTable_proofs --------------------------
(* Theorems about PidTable, for any number of cells and any PID_MAX. *)
EXTENDS PidTable, TLAPS

\* The initial state, with the last slot uninitialised, is well typed.
LEMMA InitType == PidInit => TypeOK
  BY PidAssumption, FlagAssumption, CellAssumption
  DEF PidInit, TypeOK, Sys, Thread, User, None, Pid, KPid, Beef

\* Every step of the kernel keeps the types.
LEMMA NextType == TypeOK /\ [PidNext]_pidVars => TypeOK'
<1> SUFFICES ASSUME TypeOK, [PidNext]_pidVars PROVE TypeOK'
  OBVIOUS
<1> USE DEF TypeOK, Goto
<1>1. ASSUME NEW t \in Thread, Create(t) PROVE TypeOK'
  <2>1. PICK c \in Cell, k \in Pid \cup {NoPid}, cv \in {TRUE, ~OutOfMemory} :
          /\ sys[c] = None
          /\ pid_next(k)
          /\ p_pid' = [p_pid EXCEPT ![c] = k]
          /\ pid_table' = [j \in Pid |-> IF j = k
                 THEN [ppid |-> p_pid[t], exited |-> FALSE, estatus |-> 0, cv |-> cv]
                 ELSE pid_table[j]]
          /\ sys' = [sys EXCEPT ![t] = [op |-> "fork", child |-> c, pid |-> k],
                                ![c] = [op |-> "embryo"]]
          /\ kids' = [kids EXCEPT ![t] = @ \cup ({k} \cap Pid)]
    <3> HIDE DEF TypeOK, Goto
    <3> QED
      BY <1>1, Zenon DEF Create
  <2> DEFINE new == [ppid |-> p_pid[t], exited |-> FALSE, estatus |-> 0, cv |-> cv]
  <2>2. new \in Entry
    <3>1. p_pid[t] \in Int
      BY PidAssumption DEF Pid, KPid, NoPid, Beef
    <3> QED
      BY <3>1, FlagAssumption, Zenon DEF Entry
  <2> HIDE DEF new
  <2>3. pid_table' \in [Pid -> Entry \cup {NULL, Garbage}]
    <3>1. pid_table' = [j \in Pid |-> IF j = k THEN new ELSE pid_table[j]]
      BY <2>1 DEF new
    <3> QED
      BY <2>2, <3>1
  <2>4. p_pid' \in [Thread -> Pid \cup {KPid, NoPid, Beef}]
    BY <2>1, Zenon
  <2>5. sys' \in [Thread -> Sys]
    BY <2>1 DEF Sys, Thread
  <2>6. kids' \in [Thread -> SUBSET Pid]
    BY <2>1
  <2>7. crashed' \in {"no", "panic", "undefined"}
    BY <1>1 DEF Create
  <2> QED
    BY <2>3, <2>4, <2>5, <2>6, <2>7
<1>2. ASSUME NEW t \in Thread, CreatePanics(t) PROVE TypeOK'
  BY <1>2 DEF CreatePanics
<1>3. ASSUME NEW t \in Thread, ForkThread(t) PROVE TypeOK'
  BY <1>3 DEF ForkThread, Sys, User, Thread
<1>4. ASSUME NEW t \in Thread, ForkThreadFails(t) PROVE TypeOK'
  BY <1>4 DEF ForkThreadFails, Sys, User, None, Thread
<1>5. ASSUME NEW t \in Thread, ForkReturn(t) PROVE TypeOK'
  BY <1>5 DEF ForkReturn, Sys, User
<1>6. ASSUME NEW t \in Thread, Wait(t) PROVE TypeOK'
  BY <1>6 DEF Wait, PidWait, Collect, Sys, User
<1>7. ASSUME NEW t \in Thread, WaitWoken(t) PROVE TypeOK'
  BY <1>7 DEF WaitWoken, Collect, Sys, User
<1>8. ASSUME NEW t \in Thread, WaitStale(t) PROVE TypeOK'
  BY <1>8 DEF WaitStale
<1>9. ASSUME NEW t \in Thread, ExitAnnounce(t) PROVE TypeOK'
  <2>1. PICK e \in Status : pid_table' =
            [pid_table EXCEPT ![p_pid[t]] = [@ EXCEPT !.exited = TRUE, !.estatus = e]]
    BY <1>9 DEF ExitAnnounce
  <2>2. [pid_table[p_pid[t]] EXCEPT !.exited = TRUE, !.estatus = e] \in Entry
    BY <1>9, Zenon DEF ExitAnnounce, Entry
  <2> QED
    BY <1>9, <2>1, <2>2 DEF ExitAnnounce, Sys
<1>10. ASSUME NEW t \in Thread, ExitWild(t) PROVE TypeOK'
  BY <1>10 DEF ExitWild
<1>11. ASSUME NEW t \in Thread, ExitPanics(t) PROVE TypeOK'
  BY <1>11 DEF ExitPanics
<1>12. ASSUME NEW t \in Thread, ExitDestroy(t) PROVE TypeOK'
  BY <1>12 DEF ExitDestroy, Sys, None
<1>13. ASSUME NEW t \in Cell, CallWait(t) PROVE TypeOK'
  BY <1>13 DEF CallWait, Sys, Thread
<1>14. ASSUME NEW t \in Cell, CallExit(t) PROVE TypeOK'
  BY <1>14 DEF CallExit, Sys, Thread
<1>15. CASE MenuWait
  <2>1. PID_MIN \in Pid /\ KProc \in Thread
    BY PidAssumption DEF Pid, Thread
  <2> QED
    BY <1>15, <2>1 DEF MenuWait, PidWait, Collect, Sys, User
<1>16. CASE Halted \/ UNCHANGED pidVars
  BY <1>16 DEF Halted, pidVars
<1> QED
  BY <1>1, <1>2, <1>3, <1>4, <1>5, <1>6, <1>7, <1>8, <1>9, <1>10, <1>11, <1>12,
     <1>13, <1>14, <1>15, <1>16
  DEF PidNext, Step

\* The types of the pid table, of the process structures and of the threads are
\* kept by fork, waitpid, _exit and the menu, whatever the sizes.
THEOREM TypeCorrect == PidSpec => []TypeOK
  BY InitType, NextType, PTL DEF PidSpec

----------------------------------------------------------------------------
(* Ownership of the entries of the table *)

\* Between pid_create and thread_fork a new process belongs to one creator.
OneCreator ==
    \A t \in Thread : sys[t].op = "fork" =>
        /\ sys[sys[t].child].op = "embryo"
        /\ \A u \in Thread : sys[u].op = "fork" /\ sys[u].child = sys[t].child => u = t

\* The menu's thread runs in the kernel process, which never exits.
MenuAlive ==
    /\ p_pid[KProc] = KPid
    /\ sys[KProc].op \in {"user", "fork", "forked", "asleep", "woken", "stale"}

\* Only a running process has children to collect.
Childless == \A t \in Thread : ~Alive(t) \/ sys[t].op = "embryo" => kids[t] = {}

\* The inductive invariant.
IInv ==
    /\ TypeOK /\ OneCreator /\ MenuAlive /\ Childless
    /\ OwnsPid /\ ChildrenKept /\ WaiterSafe

\* Two running processes have different pids, if they have one.
LEMMA LivePidsDiffer ==
    ASSUME IInv, AllHavePids, NEW t \in Thread, NEW u \in Thread,
           Alive(t), sys[t].op # "embryo", Alive(u), sys[u].op # "embryo",
           p_pid[t] = p_pid[u]
    PROVE  t = u
  BY PidAssumption DEF IInv, AllHavePids, OwnsPid, MenuAlive, Thread, Pid, KPid

\* pid_create gives a new process the lowest pid whose slot is empty, so it
\* takes an entry that no living process, parent or waiter uses.
LEMMA CreateInv ==
    ASSUME IInv, TypeOK', NEW t \in Thread, Create(t) PROVE IInv'
<1>1. PICK c \in Cell, k \in Pid \cup {NoPid}, cv \in {TRUE, ~OutOfMemory} :
        /\ sys[c] = None
        /\ pid_next(k)
        /\ p_pid' = [p_pid EXCEPT ![c] = k]
        /\ pid_table' = [j \in Pid |-> IF j = k
               THEN [ppid |-> p_pid[t], exited |-> FALSE, estatus |-> 0, cv |-> cv]
               ELSE pid_table[j]]
        /\ sys' = [sys EXCEPT ![t] = [op |-> "fork", child |-> c, pid |-> k],
                              ![c] = [op |-> "embryo"]]
        /\ kids' = [kids EXCEPT ![t] = @ \cup ({k} \cap Pid)]
  BY Zenon DEF Create
<1> DEFINE new == [ppid |-> p_pid[t], exited |-> FALSE, estatus |-> 0, cv |-> cv]
<1>2. k \in Pid => pid_table[k] = NULL
  BY <1>1, PidAssumption DEF pid_next, FreePids, NoPid, Pid
<1>3. sys[t] = User /\ c # t /\ c # KProc /\ c \in Thread
  BY <1>1, CellAssumption DEF Create, User, None, Thread
<1>4. \A u \in Thread :
        /\ sys'[u] = IF u = c THEN [op |-> "embryo"]
                     ELSE IF u = t THEN [op |-> "fork", child |-> c, pid |-> k]
                     ELSE sys[u]
        /\ p_pid'[u] = IF u = c THEN k ELSE p_pid[u]
        /\ kids'[u] = IF u = t THEN kids[t] \cup ({k} \cap Pid) ELSE kids[u]
  BY <1>1, <1>3, Zenon DEF IInv, TypeOK
<1>5. \A j \in Pid : pid_table'[j] = IF j = k THEN new ELSE pid_table[j]
  BY <1>1
<1>6. new \in Entry
  <2>1. p_pid[t] \in Int
    BY PidAssumption DEF IInv, TypeOK, Pid, KPid, NoPid, Beef
  <2> QED
    BY <2>1, FlagAssumption, Zenon DEF Entry
<1>7. \A u \in Thread : u # c => (Alive(u)' <=> Alive(u))
  BY <1>3, <1>4 DEF Alive, User
<1>8. AllHavePids' => AllHavePids
  <2>1. ~Alive(c)
    BY <1>1 DEF Alive, None
  <2>2. \A u \in Cell : u # c =>
          p_pid'[u] = p_pid[u] /\ (sys'[u].op = "embryo" => sys[u].op = "embryo")
    BY <1>4 DEF Thread
  <2> QED
    BY <1>7, <2>1, <2>2 DEF AllHavePids, Thread
<1>b. OneCreator'
  <2>1. \A u \in Thread : sys[u].op = "fork" => sys[u].child \in Thread /\ sys[u].child # c
    BY <1>1 DEF IInv, OneCreator, None, TypeOK, Sys, Thread
  <2>2. \A u \in Thread : u # t /\ sys'[u].op = "fork" => u # c /\ sys'[u] = sys[u]
    BY <1>4
  <2>3. \A u \in Thread : sys[u].op \in {"fork", "embryo"} => u # t
    BY <1>3 DEF User
  <2> QED
    BY <1>3, <1>4, <2>1, <2>2, <2>3 DEF IInv, OneCreator
<1>c. MenuAlive'
  BY <1>3, <1>4 DEF IInv, MenuAlive, Thread
<1>d. Childless'
  BY <1>1, <1>3, <1>4, <1>7 DEF IInv, Childless, Alive, None
<1>e. OwnsPid'
  <2> SUFFICES ASSUME NEW u \in Cell, Alive(u)', p_pid'[u] \in Pid
               PROVE  /\ pid_table'[p_pid'[u]] \in Entry /\ ~pid_table'[p_pid'[u]].exited
                      /\ \A v \in Cell : Alive(v)' /\ p_pid'[v] = p_pid'[u] => v = u
    BY DEF OwnsPid
  <2>1. \A v \in Cell : v # c /\ Alive(v)' /\ p_pid'[v] \in Pid => p_pid'[v] # k
    BY <1>2, <1>4, <1>7, NullAssumption DEF IInv, OwnsPid, Thread
  <2>2. CASE u = c
    BY <1>2, <1>4, <1>5, <1>6, <2>1, <2>2 DEF Thread
  <2>3. CASE u # c
    BY <1>4, <1>5, <1>7, <2>1, <2>3 DEF IInv, OwnsPid, Thread
  <2> QED
    BY <2>2, <2>3
<1>f. ChildrenKept'
  <2> SUFFICES ASSUME AllHavePids, NEW u \in Thread, NEW j \in kids'[u]
               PROVE  pid_table'[j] \in Entry /\ pid_table'[j].ppid = p_pid'[u]
    BY <1>8 DEF ChildrenKept
  <2>1. j \in Pid
    BY <1>4 DEF IInv, TypeOK
  <2>2. CASE j = k
    <3>1. u = t
      BY <1>2, <1>4, <2>1, <2>2, NullAssumption DEF IInv, ChildrenKept
    <3> QED
      BY <1>3, <1>4, <1>5, <1>6, <2>1, <2>2, <3>1
  <2>3. CASE j # k
    <3>1. j \in kids[u]
      BY <1>4, <2>3
    <3>2. u # c
      BY <1>1, <3>1 DEF IInv, Childless, Alive, None
    <3> QED
      BY <1>4, <1>5, <2>1, <2>3, <3>1, <3>2 DEF IInv, ChildrenKept
  <2> QED
    BY <2>2, <2>3
<1>g. WaiterSafe'
  <2>1. \A u \in Thread : sys'[u].op \in {"asleep", "woken", "stale"} =>
          u # c /\ sys'[u] = sys[u] /\ p_pid'[u] = p_pid[u] /\ sys[u].pid \in Pid
    BY <1>3, <1>4 DEF IInv, TypeOK, Sys
  <2>2. \A u \in Thread : sys[u].op \in {"asleep", "woken"} => sys[u].pid # k
    BY <1>2, NullAssumption DEF IInv, WaiterSafe, TypeOK, Sys
  <2> QED
    BY <1>5, <1>8, <2>1, <2>2 DEF IInv, WaiterSafe
<1> QED
  BY <1>b, <1>c, <1>d, <1>e, <1>f, <1>g DEF IInv

\* A step that only moves a running thread from one place in its own call to
\* another keeps the invariant.
LEMMA QuietStep ==
    ASSUME IInv, TypeOK', NEW t \in Thread,
           sys[t].op \in {"user", "forked", "wait"},
           sys'[t].op \in {"user", "wait", "exit"}, t = KProc => sys'[t].op = "user",
           \A u \in Thread : u # t => sys'[u] = sys[u],
           UNCHANGED <<pid_table, p_pid, kids>>
    PROVE  IInv'
<1>1. \A u \in Thread : Alive(u)' <=> Alive(u)
  BY DEF Alive
<1>2. AllHavePids' <=> AllHavePids
  BY <1>1 DEF AllHavePids, Thread
<1>a. MenuAlive' /\ Childless'
  BY <1>1 DEF IInv, MenuAlive, Childless, Thread
<1>b. OneCreator'
  BY DEF IInv, OneCreator, TypeOK, Sys, Thread
<1>c. OwnsPid' /\ ChildrenKept'
  BY <1>1, <1>2 DEF IInv, OwnsPid, ChildrenKept, Thread
<1>d. WaiterSafe'
  BY <1>2 DEF IInv, WaiterSafe
<1> QED
  BY <1>a, <1>b, <1>c, <1>d DEF IInv

\* thread_fork turns the one process its caller is making into a running one.
LEMMA ForkThreadInv ==
    ASSUME IInv, TypeOK', NEW t \in Thread, ForkThread(t) PROVE IInv'
<1> DEFINE c == sys[t].child
<1>1. sys[t].op = "fork" /\ c \in Cell /\ sys[c].op = "embryo" /\ c # t
  BY DEF ForkThread, IInv, OneCreator, TypeOK, Sys
<1>2. \A u \in Thread :
        sys'[u] = IF u = c THEN User
                  ELSE IF u = t THEN [op |-> "forked", child |-> c, pid |-> sys[t].pid]
                  ELSE sys[u]
  BY <1>1 DEF ForkThread, IInv, TypeOK
<1>3. \A u \in Thread : Alive(u)' <=> Alive(u)
  BY <1>1, <1>2 DEF Alive, User
<1>4. UNCHANGED <<pid_table, p_pid, kids>>
  BY DEF ForkThread
<1>5. AllHavePids' => AllHavePids
  BY <1>1, <1>2, <1>3, <1>4 DEF AllHavePids, User, Thread
<1>a. Childless'
  BY <1>1, <1>2, <1>3, <1>4 DEF IInv, Childless, Thread
<1>b. OneCreator'
  <2>1. \A u \in Thread : sys'[u].op = "fork" =>
          /\ u # t /\ sys'[u] = sys[u]
          /\ sys[u].child \in Thread /\ sys[u].child \notin {c, t}
    BY <1>1, <1>2 DEF IInv, OneCreator, TypeOK, Sys, User, Thread
  <2> QED
    BY <1>2, <2>1 DEF IInv, OneCreator
<1>c. MenuAlive'
  BY <1>1, <1>2, <1>4, CellAssumption DEF IInv, MenuAlive, Thread
<1>d. OwnsPid' /\ ChildrenKept'
  BY <1>3, <1>4, <1>5 DEF IInv, OwnsPid, ChildrenKept, Thread
<1>e. WaiterSafe'
  BY <1>1, <1>2, <1>4, <1>5 DEF IInv, WaiterSafe, User
<1> QED
  BY <1>a, <1>b, <1>c, <1>d, <1>e DEF IInv

\* A failed thread_fork leaves the pid in the table, with nobody alive behind it.
LEMMA ForkThreadFailsInv ==
    ASSUME IInv, TypeOK', NEW t \in Thread, ForkThreadFails(t) PROVE IInv'
<1> DEFINE c == sys[t].child
<1>1. sys[t].op = "fork" /\ c \in Cell /\ sys[c].op = "embryo" /\ c # t /\ kids[c] = {}
  BY DEF ForkThreadFails, IInv, OneCreator, Childless, TypeOK, Sys, Thread
<1>2. \A u \in Thread :
        /\ u # c => sys'[u] = (IF u = t THEN User ELSE sys[u]) /\ p_pid'[u] = p_pid[u]
        /\ u = c => sys'[u].op \in {"none", "leaked"}
  BY <1>1 DEF ForkThreadFails, IInv, TypeOK, None
<1>3. \A u \in Thread : Alive(u)' <=> Alive(u) /\ u # c
  BY <1>1, <1>2 DEF Alive, User
<1>4. UNCHANGED <<pid_table, kids>>
  BY DEF ForkThreadFails
<1>5. AllHavePids' => AllHavePids
  BY <1>1, <1>2, <1>3 DEF AllHavePids, User, Thread
<1>a. MenuAlive'
  BY <1>1, <1>2, CellAssumption DEF IInv, MenuAlive, Thread, User
<1>b. OneCreator'
  <2>1. \A u \in Thread : sys'[u].op = "fork" =>
          /\ u # t /\ sys'[u] = sys[u]
          /\ sys[u].child \in Thread /\ sys[u].child \notin {c, t}
    BY <1>1, <1>2 DEF IInv, OneCreator, TypeOK, Sys, User, Thread
  <2> QED
    BY <1>2, <2>1 DEF IInv, OneCreator
<1>c. Childless'
  <2>1. \A u \in Thread : u # c /\ (~Alive(u)' \/ sys'[u].op = "embryo")
                            => ~Alive(u) \/ sys[u].op = "embryo"
    BY <1>2, <1>3 DEF User
  <2> QED
    BY <1>1, <1>4, <2>1 DEF IInv, Childless
<1>d. OwnsPid'
  BY <1>2, <1>3, <1>4 DEF IInv, OwnsPid, Thread
<1>e. ChildrenKept'
  BY <1>1, <1>2, <1>4, <1>5 DEF IInv, ChildrenKept
<1>f. WaiterSafe'
  BY <1>1, <1>2, <1>4, <1>5 DEF IInv, WaiterSafe, User
<1> QED
  BY <1>a, <1>b, <1>c, <1>d, <1>e, <1>f DEF IInv

\* Collecting the exit code of an exited process whose entry is the caller's
\* disturbs nobody: no living process and no other waiter uses the entry.
LEMMA CollectInv ==
    ASSUME IInv, TypeOK', NEW t \in Thread, NEW k \in Pid,
           sys[t].op \in {"forked", "wait", "woken"},
           pid_table[k] \in Entry, pid_table[k].exited, pid_table[k].ppid = p_pid[t],
           Collect(t, k), UNCHANGED p_pid
    PROVE  IInv'
<1>1. \A u \in Thread :
        sys'[u] = IF u = t THEN User
                  ELSE IF sys[u] = [op |-> "woken", pid |-> k] THEN [op |-> "stale", pid |-> k]
                  ELSE sys[u]
  BY DEF Collect
<1>2. \A u \in Thread : /\ Alive(u)' <=> Alive(u)
                        /\ sys'[u].op = "embryo" <=> sys[u].op = "embryo"
  BY <1>1 DEF Alive, User
<1>3. AllHavePids' <=> AllHavePids
  BY <1>2 DEF AllHavePids, Thread
<1>4. \A u \in Thread : kids'[u] = IF u = t THEN kids[t] \ {k} ELSE kids[u]
  BY DEF Collect, IInv, TypeOK
<1>5. \A j \in Pid : pid_table'[j] = IF j = k THEN NULL ELSE pid_table[j]
  BY DEF Collect, IInv, TypeOK
<1>a. MenuAlive'
  BY <1>1 DEF IInv, MenuAlive, Thread, User
<1>b. OneCreator'
  <2>1. \A u \in Thread : sys'[u].op = "fork" => sys'[u] = sys[u] /\ sys[u].child \in Thread
    BY <1>1 DEF IInv, TypeOK, Sys, Thread, User
  <2> QED
    BY <1>2, <2>1 DEF IInv, OneCreator
<1>c. Childless'
  BY <1>2, <1>4 DEF IInv, Childless
<1>d. OwnsPid'
  BY <1>2, <1>5 DEF IInv, OwnsPid, Thread
<1>e. ChildrenKept'
  <2> SUFFICES ASSUME AllHavePids, NEW u \in Thread, NEW j \in kids'[u]
               PROVE  pid_table'[j] \in Entry /\ pid_table'[j].ppid = p_pid[u]
    BY <1>3 DEF ChildrenKept
  <2>1. j \in kids[u] /\ j \in Pid
    BY <1>4 DEF IInv, TypeOK
  <2>2. Alive(u) /\ sys[u].op # "embryo" /\ Alive(t) /\ sys[t].op # "embryo"
    BY <2>1 DEF IInv, Childless, Alive
  <2>3. j # k
    BY <1>4, <2>1, <2>2, LivePidsDiffer DEF IInv, ChildrenKept
  <2> QED
    BY <1>5, <2>1, <2>3 DEF IInv, ChildrenKept
<1>f. WaiterSafe'
  <2>1. ASSUME NEW u \in Thread, sys'[u].op \in {"asleep", "woken"}
        PROVE  u # t /\ sys'[u] = sys[u] /\ sys[u].pid \in Pid /\ sys[u].pid # k
    <3>1. u # t /\ sys'[u] = sys[u] /\ sys[u] # [op |-> "woken", pid |-> k]
      BY <1>1, <2>1 DEF User
    <3>2. sys[u] \in [op : {"wait", "asleep", "woken", "stale"}, pid : Pid]
      BY <2>1, <3>1 DEF IInv, TypeOK, Sys
    <3> QED
      BY <2>1, <3>1, <3>2 DEF IInv, WaiterSafe
  <2>2. ASSUME AllHavePids, NEW u \in Thread PROVE sys'[u].op # "stale"
    <3>1. CASE u # t /\ sys[u] = [op |-> "woken", pid |-> k]
      <4>1. sys[u].op = "woken" /\ sys[u].pid = k
        BY <3>1
      <4>2. p_pid[u] = p_pid[t]
        BY <4>1 DEF IInv, WaiterSafe
      <4>3. Alive(u) /\ sys[u].op # "embryo" /\ Alive(t) /\ sys[t].op # "embryo"
        BY <4>1 DEF Alive
      <4> QED
        BY <2>2, <3>1, <4>2, <4>3, LivePidsDiffer
    <3>2. CASE u = t
      BY <1>1, <3>2 DEF User
    <3>3. CASE u # t /\ sys[u] # [op |-> "woken", pid |-> k]
      BY <1>1, <2>2, <3>3 DEF IInv, WaiterSafe
    <3> QED
      BY <3>1, <3>2, <3>3
  <2> QED
    BY <1>3, <1>5, <2>1, <2>2 DEF IInv, WaiterSafe
<1> QED
  BY <1>a, <1>b, <1>c, <1>d, <1>e, <1>f DEF IInv

\* pid_wait up to cv_wait: an error, an uninitialised slot, the exit code of a
\* process that has exited, or sleep on an entry nobody else waits on.
LEMMA PidWaitInv ==
    ASSUME IInv, TypeOK', NEW t \in Thread, NEW k \in Pid,
           sys[t].op \in {"wait", "forked"}, sys[t].op = "forked" => t = KProc,
           PidWait(t, k), UNCHANGED p_pid
    PROVE  IInv'
<1>0. pid_table[k] \in Entry \cup {NULL, Garbage}
  BY DEF IInv, TypeOK
<1>1. CASE \/ pid_table[k] = NULL
           \/ pid_table[k] \in Entry /\ pid_table[k].ppid # p_pid[t]
  <2>1. sys' = [sys EXCEPT ![t] = User] /\ UNCHANGED <<pid_table, kids>>
    BY <1>1, NullAssumption, SMTT(30) DEF PidWait, Goto
  <2> QED
    BY <2>1, QuietStep DEF IInv, TypeOK, User
<1>2. CASE \/ pid_table[k] = Garbage
           \/ /\ pid_table[k] \in Entry /\ pid_table[k].ppid = p_pid[t]
              /\ ~pid_table[k].exited /\ ~pid_table[k].cv
  <2>1. UNCHANGED <<pid_table, kids, sys>>
    BY <1>2, NullAssumption DEF PidWait
  <2> QED
    BY <2>1
    DEF IInv, OneCreator, MenuAlive, Childless, OwnsPid, ChildrenKept,
        WaiterSafe, AllHavePids, Alive
<1>3. CASE pid_table[k] \in Entry /\ pid_table[k].ppid = p_pid[t] /\ pid_table[k].exited
  <2>1. Collect(t, k)
    BY <1>3, NullAssumption DEF PidWait
  <2> QED
    BY <1>3, <2>1, CollectInv
<1>4. CASE /\ pid_table[k] \in Entry /\ pid_table[k].ppid = p_pid[t]
           /\ ~pid_table[k].exited /\ pid_table[k].cv
  <2>1. /\ \A u \in Thread : sys'[u] = IF u = t THEN [op |-> "asleep", pid |-> k] ELSE sys[u]
        /\ UNCHANGED <<pid_table, kids>>
    BY <1>4, NullAssumption DEF PidWait, Goto, IInv, TypeOK
  <2>2. \A u \in Thread : Alive(u)' <=> Alive(u)
    BY <2>1 DEF Alive
  <2>3. AllHavePids' <=> AllHavePids
    BY <2>1, <2>2 DEF AllHavePids, Thread
  <2>a. MenuAlive' /\ Childless'
    BY <2>1, <2>2 DEF IInv, MenuAlive, Childless, Thread
  <2>b. OneCreator'
    BY <2>1 DEF IInv, OneCreator, TypeOK, Sys, Thread
  <2>c. OwnsPid' /\ ChildrenKept'
    BY <2>1, <2>2, <2>3 DEF IInv, OwnsPid, ChildrenKept, Thread
  <2>d. WaiterSafe'
    <3>1. ASSUME AllHavePids, NEW u \in Thread, u # t, sys[u].op \in {"asleep", "woken"}
          PROVE  sys[u].pid # k
      <4>1. Alive(u) /\ sys[u].op # "embryo" /\ Alive(t) /\ sys[t].op # "embryo"
        BY <3>1 DEF Alive
      <4> QED
        BY <1>4, <3>1, <4>1, LivePidsDiffer DEF IInv, WaiterSafe
    <3> QED
      BY <1>4, <2>1, <2>3, <3>1 DEF IInv, WaiterSafe
  <2> QED
    BY <2>a, <2>b, <2>c, <2>d DEF IInv
<1> QED
  BY <1>0, <1>1, <1>2, <1>3, <1>4

\* pid_exit marks the caller's own entry and wakes exactly who sleeps on it.
LEMMA ExitAnnounceInv ==
    ASSUME IInv, TypeOK', NEW t \in Thread, ExitAnnounce(t) PROVE IInv'
<1> DEFINE k == p_pid[t]
<1>1. t \in Cell /\ Alive(t) /\ k \in Pid /\ pid_table[k] \in Entry /\ ~pid_table[k].exited
  BY DEF ExitAnnounce, IInv, MenuAlive, OwnsPid, Alive, Thread
<1>2. PICK e \in Status :
        pid_table' = [pid_table EXCEPT ![k] = [@ EXCEPT !.exited = TRUE, !.estatus = e]]
  BY DEF ExitAnnounce
<1>3. /\ \A j \in Pid : j # k => pid_table'[j] = pid_table[j]
      /\ pid_table'[k] \in Entry /\ pid_table'[k].exited
      /\ pid_table'[k].ppid = pid_table[k].ppid
  BY <1>1, <1>2, Zenon DEF IInv, TypeOK, Entry
<1>4. \A u \in Thread :
        sys'[u] = IF u = t THEN [op |-> "exiting"]
                  ELSE IF sys[u] = [op |-> "asleep", pid |-> k]
                         THEN [op |-> "woken", pid |-> k]
                  ELSE sys[u]
  BY DEF ExitAnnounce
<1>5. p_pid' = p_pid /\ \A u \in Thread : kids'[u] = IF u = t THEN {} ELSE kids[u]
  BY DEF ExitAnnounce, IInv, TypeOK
<1>6. \A u \in Thread : Alive(u)' <=> Alive(u) /\ u # t
  BY <1>4 DEF Alive
<1>7. \A u \in Thread : u # t => (sys'[u].op = "embryo" <=> sys[u].op = "embryo")
  BY <1>4
<1>8. AllHavePids' => AllHavePids
  BY <1>1, <1>5, <1>6, <1>7 DEF AllHavePids, Thread
<1>a. MenuAlive'
  BY <1>1, <1>4, <1>5, CellAssumption DEF IInv, MenuAlive, Thread
<1>b. OneCreator'
  <2>1. \A u \in Thread : sys'[u].op = "fork" => sys'[u] = sys[u] /\ sys[u].child \in Thread
    BY <1>4 DEF IInv, TypeOK, Sys, Thread
  <2>2. \A u \in Thread : sys[u].op = "embryo" => sys'[u].op = "embryo"
    BY <1>4, SMTT(30) DEF ExitAnnounce
  <2> QED
    BY <2>1, <2>2 DEF IInv, OneCreator
<1>c. Childless'
  BY <1>4, <1>5, <1>6 DEF IInv, Childless
<1>d. OwnsPid'
  BY <1>1, <1>3, <1>5, <1>6 DEF IInv, OwnsPid, Thread
<1>e. ChildrenKept'
  <2> SUFFICES ASSUME AllHavePids, NEW u \in Thread, NEW j \in kids'[u]
               PROVE  pid_table'[j] \in Entry /\ pid_table'[j].ppid = p_pid[u]
    BY <1>5, <1>8 DEF ChildrenKept
  <2>1. j \in kids[u] /\ j \in Pid
    BY <1>5 DEF IInv, TypeOK
  <2> QED
    BY <1>3, <2>1 DEF IInv, ChildrenKept
<1>f. WaiterSafe'
  <2>1. ASSUME NEW u \in Thread, sys'[u].op \in {"asleep", "woken"}
        PROVE  /\ sys[u].op \in {"asleep", "woken"}
               /\ sys'[u].pid = sys[u].pid /\ sys[u].pid \in Pid
               /\ sys[u].pid = k <=> sys'[u].op = "woken" /\ sys[u].op = "asleep"
               /\ sys[u].pid # k => sys'[u] = sys[u]
    <3>1. u # t
      BY <1>4, <2>1
    <3>2. CASE sys[u] = [op |-> "asleep", pid |-> k]
      BY <1>1, <1>4, <3>1, <3>2
    <3>3. CASE sys[u] # [op |-> "asleep", pid |-> k]
      <4>1. sys'[u] = sys[u]
        BY <1>4, <3>1, <3>3
      <4>2. sys[u] \in [op : {"wait", "asleep", "woken", "stale"}, pid : Pid]
        BY <2>1, <4>1 DEF IInv, TypeOK, Sys
      <4>3. sys[u].pid # k
        BY <1>1, <2>1, <3>3, <4>1, <4>2 DEF IInv, WaiterSafe
      <4> QED
        BY <2>1, <4>1, <4>2, <4>3
    <3> QED
      BY <3>2, <3>3
  <2>2. \A u \in Thread : sys'[u].op = "stale" => sys[u].op = "stale"
    BY <1>4
  <2> QED
    BY <1>3, <1>5, <1>8, <2>1, <2>2 DEF IInv, WaiterSafe
<1> QED
  BY <1>a, <1>b, <1>c, <1>d, <1>e, <1>f DEF IInv

\* The last part of pid_exit frees a process that has given up its pid.
LEMMA ExitDestroyInv ==
    ASSUME IInv, TypeOK', NEW t \in Thread, ExitDestroy(t) PROVE IInv'
<1>1. sys[t].op = "exiting" /\ t \in Cell /\ t # KProc
  BY CellAssumption DEF ExitDestroy, IInv, MenuAlive, Thread
<1>2. \A u \in Thread :
        /\ sys'[u] = IF u = t THEN None ELSE sys[u]
        /\ u # t => p_pid'[u] = p_pid[u]
  BY DEF ExitDestroy, Goto, IInv, TypeOK
<1>3. \A u \in Thread : Alive(u)' <=> Alive(u)
  BY <1>1, <1>2 DEF Alive, None
<1>4. UNCHANGED <<pid_table, kids>> /\ ~Alive(t)
  BY <1>1 DEF ExitDestroy, Alive
<1>5. AllHavePids' <=> AllHavePids
  BY <1>2, <1>3, <1>4 DEF AllHavePids, Thread
<1>a. MenuAlive' /\ Childless'
  BY <1>1, <1>2, <1>3, <1>4 DEF IInv, MenuAlive, Childless, Thread, None
<1>b. OneCreator'
  BY <1>1, <1>2 DEF IInv, OneCreator, TypeOK, Sys, Thread, None
<1>c. OwnsPid'
  BY <1>2, <1>3, <1>4 DEF IInv, OwnsPid, Thread
<1>d. ChildrenKept'
  BY <1>2, <1>4, <1>5 DEF IInv, ChildrenKept, Childless
<1>e. WaiterSafe'
  BY <1>1, <1>2, <1>4, <1>5 DEF IInv, WaiterSafe, None
<1> QED
  BY <1>a, <1>b, <1>c, <1>d, <1>e DEF IInv

\* Nothing is running but the menu.
LEMMA InitInv == PidInit => IInv
<1> SUFFICES ASSUME PidInit PROVE IInv
  OBVIOUS
<1>1. TypeOK
  BY InitType
<1>2. \A t \in Cell : sys[t].op = "none"
  BY CellAssumption DEF PidInit, Thread, None
<1>3. sys[KProc].op = "user" /\ p_pid[KProc] = KPid /\ \A t \in Thread : kids[t] = {}
  BY DEF PidInit, Thread, User
<1> QED
  BY <1>1, <1>2, <1>3
  DEF IInv, OneCreator, MenuAlive, Childless, OwnsPid, ChildrenKept, WaiterSafe,
      Alive, Thread

\* The invariant is inductive.
LEMMA NextInv == ASSUME IInv, [PidNext]_pidVars PROVE IInv'
<1>0. TypeOK'
  BY NextType DEF IInv
<1>1. ASSUME NEW t \in Thread, Create(t) PROVE IInv'
  BY <1>0, <1>1, CreateInv
<1>2. ASSUME UNCHANGED <<pid_table, p_pid, sys, kids>> PROVE IInv'
  BY <1>0, <1>2
  DEF IInv, OneCreator, MenuAlive, Childless, OwnsPid, ChildrenKept, WaiterSafe,
      AllHavePids, Alive
<1>3. ASSUME NEW t \in Thread, ForkThread(t) \/ ForkThreadFails(t) PROVE IInv'
  BY <1>0, <1>3, ForkThreadInv, ForkThreadFailsInv
<1>4. ASSUME NEW t \in Thread, ForkReturn(t) PROVE IInv'
  <2>1. /\ sys[t].op = "forked" /\ sys'[t].op = "user"
        /\ \A u \in Thread : u # t => sys'[u] = sys[u]
        /\ UNCHANGED <<pid_table, p_pid, kids>>
    BY <1>4 DEF ForkReturn, Goto, IInv, TypeOK, User
  <2> QED
    BY <1>0, <2>1, QuietStep
<1>5. ASSUME NEW t \in Thread, Wait(t) PROVE IInv'
  <2>1. sys[t].op = "wait" /\ sys[t].pid \in Pid /\ PidWait(t, sys[t].pid) /\ UNCHANGED p_pid
    BY <1>5 DEF Wait, IInv, TypeOK, Sys
  <2> QED
    BY <1>0, <2>1, PidWaitInv
<1>6. ASSUME NEW t \in Thread, WaitWoken(t) PROVE IInv'
  <2> DEFINE k == sys[t].pid
  <2>1. sys[t].op = "woken" /\ k \in Pid /\ Collect(t, k) /\ UNCHANGED p_pid
    BY <1>6 DEF WaitWoken, IInv, TypeOK, Sys
  <2>2. pid_table[k] \in Entry /\ pid_table[k].exited /\ pid_table[k].ppid = p_pid[t]
    BY <2>1 DEF IInv, WaiterSafe
  <2> QED
    BY <1>0, <2>1, <2>2, CollectInv
<1>7. ASSUME NEW t \in Thread, ExitAnnounce(t) \/ ExitDestroy(t) PROVE IInv'
  BY <1>0, <1>7, ExitAnnounceInv, ExitDestroyInv
<1>8. ASSUME NEW t \in Cell, CallWait(t) PROVE IInv'
  <2>1. PICK k \in Pid : sys' = [sys EXCEPT ![t] = [op |-> "wait", pid |-> k]]
    BY <1>8, Zenon DEF CallWait, Goto
  <2>2. /\ sys[t].op = "user" /\ sys'[t].op = "wait"
        /\ \A u \in Thread : u # t => sys'[u] = sys[u]
        /\ UNCHANGED <<pid_table, p_pid, kids>>
    BY <1>8, <2>1 DEF CallWait, IInv, TypeOK, User, Thread
  <2>3. t \in Thread /\ t # KProc
    BY CellAssumption DEF Thread
  <2> QED
    BY <1>0, <2>2, <2>3, QuietStep
<1>9. ASSUME NEW t \in Cell, CallExit(t) PROVE IInv'
  <2>1. /\ sys[t].op = "user" /\ sys'[t].op = "exit"
        /\ \A u \in Thread : u # t => sys'[u] = sys[u]
        /\ UNCHANGED <<pid_table, p_pid, kids>>
    BY <1>9 DEF CallExit, Goto, IInv, TypeOK, User, Thread
  <2>2. t \in Thread /\ t # KProc
    BY CellAssumption DEF Thread
  <2> QED
    BY <1>0, <2>1, <2>2, QuietStep
<1>10. CASE MenuWait
  <2>1. PID_MIN \in Pid /\ KProc \in Thread
    BY PidAssumption DEF Pid, Thread
  <2> QED
    BY <1>0, <1>10, <2>1, PidWaitInv DEF MenuWait
<1> QED
  BY <1>1, <1>2, <1>3, <1>4, <1>5, <1>6, <1>7, <1>8, <1>9, <1>10
  DEF PidNext, Step, CreatePanics, WaitStale, ExitWild, ExitPanics, Halted, pidVars

\* Whatever the number of processes and of pids, a living process that got a
\* pid owns its entry: pid_exit marks its own entry and wakes its own waiters.
THEOREM PidOwnership == PidSpec => []OwnsPid
<1>1. IInv => OwnsPid
  BY DEF IInv
<1> QED
  BY InitInv, NextInv, <1>1, PTL DEF PidSpec

\* As long as no process runs that was created with the pid table full, the
\* entry of a child stays until its parent has collected it, so that its pid is
\* not reused before that.
THEOREM PidKept == PidSpec => []ChildrenKept
<1>1. IInv => ChildrenKept
  BY DEF IInv
<1> QED
  BY InitInv, NextInv, <1>1, PTL DEF PidSpec

\* pid_wait needs no second look at the exit flag after cv_wait; and as long as
\* no process runs that was created with the pid table full, no entry is
\* destroyed while another thread waits on it.
THEOREM WaitSafety == PidSpec => []WaiterSafe
<1>1. IInv => WaiterSafe
  BY DEF IInv
<1> QED
  BY InitInv, NextInv, <1>1, PTL DEF PidSpec

============================================================================
