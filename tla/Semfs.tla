------------------------------- MODULE Semfs -------------------------------
(***************************************************************************)
(* The semaphore file system "sem:" under the calls that kernel threads    *)
(* make of it: vfs_open, VOP_READ (P), VOP_WRITE (V), vfs_close and        *)
(* vfs_remove, with the reference counts of its vnodes.                    *)
(*                                                                         *)
(* Two sleep locks guard the file system: dirlock the directory, tablelock *)
(* the arrays of semaphores and of vnodes; each semaphore has a lock of    *)
(* its own, sems_lock, for its count.  The locks are taken in the order    *)
(* vfs_biglock, dirlock, sems_lock, tablelock.  A section that holds a     *)
(* lock and touches only what the lock guards is one action.  The flags    *)
(* hasvnode and linked of a semaphore are read and written under different *)
(* locks, so semfs_remove and semfs_reclaim are several actions each.      *)
(***************************************************************************)
EXTENDS Integers, Sequences, FiniteSets, FiniteSetsExt

CONSTANTS
    Thread,        \* the threads that use the file system
    Name,          \* the names of semaphores
    SEMFS_ROOTDIR, \* the number the root directory has, and so the limit of the table
    UINT_MAX,      \* the largest count
    Amount,        \* how much a thread reads or writes at once
    OutOfMemory,   \* whether kmalloc can fail
    NULL,          \* the null pointer
    NoThread       \* no thread holds the lock

\* Semaphores are numbered from 1 here, and the root directory is 0.
SemNum == 1 .. SEMFS_ROOTDIR
Root == 0
VnodeNum == SemNum \cup {Root}
\* O_CREAT; O_CREAT|O_EXCL; O_CREAT|O_TRUNC for writing; O_TRUNC for reading
\* only, which vfs_open refuses; none of these.
How == {"creat", "excl", "trunc", "rdtrunc", "plain"}

VARIABLES
    sems,       \* semfs_sems: a semaphore or NULL in each place
    dents,      \* semfs_dents: a directory entry or NULL in each place
    vn_refcount,\* for each number, the count of its vnode, 0 if it has none
    tablelock, dirlock, vfs_biglock,
    th,         \* what each thread is doing, and the vnode it has open
    crashed     \* "no"; "assert" after a KASSERT of semfs; "held" after that of
                \* lock_destroy; "panic" after that of vfs_open

vars == <<sems, dents, vn_refcount, tablelock, dirlock, vfs_biglock, th, crashed>>

Idle == [op |-> "idle", vn |-> NULL]
NewSem == [count |-> 0, hasvnode |-> FALSE, linked |-> FALSE, lock |-> NoThread]

Init ==
    /\ sems = <<>> /\ dents = <<>>
    /\ vn_refcount = [v \in VnodeNum |-> 0]
    /\ tablelock = NoThread /\ dirlock = NoThread /\ vfs_biglock = NoThread
    /\ th = [t \in Thread |-> Idle]
    /\ crashed = "no"

Running == crashed = "no"
At(t, op) == Running /\ th[t].op = op
Goto(t, r) == th' = [th EXCEPT ![t] = r]
TableFree == tablelock = NoThread
DirFree == dirlock = NoThread

\* Where array_add or the first empty place puts a new element.
Place(s) ==
    LET free == {i \in DOMAIN s : s[i] = NULL}
    IN  IF free = {} THEN Len(s) + 1 ELSE CHOOSE i \in free : \A j \in free : i <= j
Put(s, i, x) == IF i > Len(s) THEN Append(s, x) ELSE [s EXCEPT ![i] = x]
Entries(n) == {i \in DOMAIN dents : dents[i] # NULL /\ dents[i].name = n}

----------------------------------------------------------------------------
(* Vnodes: semfs_getvnode, vnode_incref, vnode_decref, semfs_reclaim *)

\* VOP_DECREF of v, after which t goes on as r; the last reference is not
\* dropped here but passed on to VOP_RECLAIM.
Decref(t, v, r) ==
    IF vn_refcount[v] > 1
      THEN Goto(t, r) /\ vn_refcount' = [vn_refcount EXCEPT ![v] = @ - 1]
      ELSE /\ Goto(t, [op |-> "reclaim", target |-> v, vn |-> r.vn, then |-> r])
           /\ UNCHANGED vn_refcount

\* The lookup of a path ends after the reference to its directory is dropped.
Unbiglock(t) == vfs_biglock' = IF vfs_biglock = t THEN NoThread ELSE vfs_biglock

\* Mutant of ReclaimBegin: a vnode that is found to be in use is left with
\* tablelock held.
ReclaimBeginLocked(t) ==
    LET v == th[t].target
    IN  /\ At(t, "reclaim") /\ TableFree /\ vn_refcount[v] > 1
        /\ vn_refcount' = [vn_refcount EXCEPT ![v] = @ - 1]
        /\ tablelock' = t
        /\ Goto(t, th[t].then) /\ Unbiglock(t)
        /\ UNCHANGED <<sems, dents, dirlock, crashed>>

\* semfs_reclaim up to the test of sems_linked.  A lookup may have found the
\* vnode again: then only the reference goes.
ReclaimBegin(t) ==
    LET v == th[t].target
    IN  /\ At(t, "reclaim") /\ TableFree
        /\ vn_refcount' = [vn_refcount EXCEPT ![v] = @ - 1]
        /\ IF vn_refcount[v] > 1 \/ v = Root
             THEN /\ Goto(t, th[t].then) /\ Unbiglock(t)
                  /\ UNCHANGED <<sems, tablelock, crashed>>
             ELSE IF sems[v] # NULL => ~sems[v].hasvnode
             THEN /\ crashed' = "assert"
                  /\ UNCHANGED <<sems, tablelock, th, vfs_biglock>>
             ELSE /\ Goto(t, [th[t] EXCEPT !.op = "reclaimed"])
                  /\ sems' = [sems EXCEPT ![v].hasvnode = FALSE]
                  /\ tablelock' = t
                  /\ UNCHANGED <<vfs_biglock, crashed>>
        /\ UNCHANGED <<dents, dirlock>>

\* Mutant of ReclaimEnd: the semaphore is left to semfs_remove.
ReclaimEndKeeps(t) ==
    /\ At(t, "reclaimed")
    /\ tablelock' = NoThread
    /\ Goto(t, th[t].then) /\ Unbiglock(t)
    /\ UNCHANGED <<sems, dents, vn_refcount, dirlock, crashed>>

\* The rest: the semaphore goes too if it is no longer in the directory.
\* lock_destroy asserts that nobody holds sems_lock.
ReclaimEnd(t) ==
    LET v == th[t].target
    IN  /\ At(t, "reclaimed")
        /\ IF ~sems[v].linked /\ sems[v].lock # NoThread
             THEN /\ crashed' = "held"
                  /\ UNCHANGED <<sems, dents, vn_refcount, tablelock, dirlock, vfs_biglock, th>>
             ELSE /\ sems' = IF sems[v].linked THEN sems ELSE [sems EXCEPT ![v] = NULL]
                  /\ tablelock' = NoThread
                  /\ Goto(t, th[t].then) /\ Unbiglock(t)
                  /\ UNCHANGED <<dents, vn_refcount, dirlock, crashed>>

\* semfs_getvnode(v), in the middle of a section that holds dirlock and has
\* made s of the semaphores, returns the vnode: there is one already, or a
\* new one takes the place that the flag of the semaphore reserves.
GetVnode(t, s, v, r) ==
    LET new == vn_refcount[v] = 0
    IN  IF new /\ (s[v] # NULL => s[v].hasvnode)
          THEN crashed' = "assert" /\ UNCHANGED <<sems, vn_refcount, th>>
          ELSE /\ sems' = IF new THEN [s EXCEPT ![v].hasvnode = TRUE] ELSE s
               /\ vn_refcount' = [vn_refcount EXCEPT ![v] = @ + 1]
               /\ Goto(t, r)
               /\ UNCHANGED crashed

----------------------------------------------------------------------------
(* vfs_open *)

\* vfs_lookparent, or vfs_lookup up to VOP_LOOKUP: semfs_getroot under
\* vfs_biglock.  lookparent gives the lock back with a reference to the
\* root; a path that is only "sem:" names the root itself.
OpenStart(t) ==
    /\ At(t, "idle") /\ th[t].vn = NULL
    /\ vfs_biglock = NoThread /\ TableFree
    /\ \/ \E n \in Name, h \in How :
              /\ Goto(t, [op |-> IF h \in {"plain", "rdtrunc"} THEN "lookup" ELSE "creat",
                          vn |-> NULL, name |-> n, how |-> h])
              /\ vfs_biglock' = IF h \in {"plain", "rdtrunc"} THEN t ELSE NoThread
       \/ \E n \in Name :
              /\ Goto(t, [op |-> "remove", vn |-> NULL, name |-> n])
              /\ UNCHANGED vfs_biglock
       \/ Goto(t, [op |-> "idle", vn |-> Root]) /\ UNCHANGED vfs_biglock
    /\ vn_refcount' = [vn_refcount EXCEPT ![Root] = @ + 1]
    /\ UNCHANGED <<sems, dents, tablelock, dirlock, crashed>>

\* semfs_getroot runs out of memory.
OpenStartFails(t) ==
    /\ At(t, "idle") /\ th[t].vn = NULL
    /\ vfs_biglock = NoThread /\ TableFree
    /\ OutOfMemory /\ vn_refcount[Root] = 0
    /\ UNCHANGED vars

\* The vnode is there, or is not; vfs_open still has to drop the directory.
Found(t, v) == [op |-> "unroot", vn |-> v, how |-> th[t].how]
NotFound == [op |-> "unroot", vn |-> NULL, how |-> "plain"]

\* VOP_LOOKUP, and VOP_CREAT of a name that is there.
LookupFinds(t) ==
    /\ At(t, "lookup") \/ (At(t, "creat") /\ th[t].how # "excl")
    /\ DirFree /\ TableFree
    /\ \E i \in Entries(th[t].name) :
           GetVnode(t, sems, dents[i].semnum, Found(t, dents[i].semnum))
    /\ UNCHANGED <<dents, tablelock, dirlock, vfs_biglock>>

\* ENOENT, EEXIST, or no memory for a vnode.
LookupFails(t) ==
    /\ At(t, "lookup") \/ At(t, "creat")
    /\ DirFree /\ TableFree
    /\ LET e == Entries(th[t].name)
       IN  \/ th[t].op = "lookup" /\ e = {}
           \/ th[t].how = "excl" /\ e # {}
           \/ OutOfMemory /\ \E i \in e : vn_refcount[dents[i].semnum] = 0
    /\ Goto(t, NotFound)
    /\ UNCHANGED <<sems, dents, vn_refcount, tablelock, dirlock, vfs_biglock, crashed>>

\* VOP_CREAT of a new name: a semaphore, its directory entry and its vnode.
\* The semaphore is nobody else's until dirlock is released, so the sections
\* under tablelock in it are one step.
semfs_creat(t) ==
    LET v == Place(sems)
    IN  /\ At(t, "creat") /\ DirFree /\ TableFree /\ Entries(th[t].name) = {}
        /\ Len(sems) < SEMFS_ROOTDIR
        /\ dents' = Put(dents, Place(dents), [name |-> th[t].name, semnum |-> v])
        /\ GetVnode(t, Put(sems, v, [NewSem EXCEPT !.linked = TRUE]), v, Found(t, v))
        /\ UNCHANGED <<tablelock, dirlock, vfs_biglock>>

\* semfs_sem_insert refuses when the array has its full length, even with empty
\* places in it.
CreatFull(t) ==
    /\ At(t, "creat") /\ DirFree /\ TableFree /\ Entries(th[t].name) = {}
    /\ Len(sems) = SEMFS_ROOTDIR
    /\ Goto(t, NotFound)
    /\ UNCHANGED <<sems, dents, vn_refcount, tablelock, dirlock, vfs_biglock, crashed>>

Grown(s) == Put(s, Place(s), NULL)

\* There is no memory: for the semaphore; for its directory entry, and then
\* semfs_creat returns 0 without a vnode, which vfs_open asserts it has; for the
\* directory to grow; or for the vnode.  The arrays keep their new length.
CreatNoMemory(t) ==
    /\ At(t, "creat") /\ DirFree /\ TableFree /\ Entries(th[t].name) = {}
    /\ OutOfMemory /\ Len(sems) < SEMFS_ROOTDIR
    /\ \/ UNCHANGED <<sems, dents, crashed>>
       \/ sems' = Grown(sems) /\ crashed' = "panic" /\ UNCHANGED dents
       \/ /\ sems' = Grown(sems) /\ UNCHANGED crashed
          /\ dents' = Grown(dents) \/ (Place(dents) > Len(dents) /\ dents' = dents)
    /\ Goto(t, NotFound)
    /\ UNCHANGED <<vn_refcount, tablelock, dirlock, vfs_biglock>>

\* vfs_open, vfs_lookup and vfs_remove drop their reference to the directory.
\* vfs_open then truncates the file, or refuses to truncate it.
Unroot(t) ==
    /\ At(t, "unroot")
    /\ Decref(t, Root,
           [op |-> CASE th[t].how = "trunc" -> "truncate"
                     [] th[t].how = "rdtrunc" -> "close"
                     [] OTHER -> "idle",
            vn |-> th[t].vn])
    /\ IF vn_refcount[Root] > 1 THEN Unbiglock(t) ELSE UNCHANGED vfs_biglock
    /\ UNCHANGED <<sems, dents, tablelock, dirlock, crashed>>

----------------------------------------------------------------------------
(* Semaphores: semfs_read, semfs_write, semfs_truncate *)

Asleep(v) == {t \in Thread : th[t].op = "asleep" /\ th[t].vn = v}
Unlocked(v) == sems[v].lock = NoThread

\* semfs_wakeup: the sets of sleepers it may wake when the count becomes new.
Wakeups(v, new) ==
    IF sems[v].count > 0 \/ new = 0 \/ Asleep(v) = {} THEN {{}}
    ELSE IF new = 1 THEN {{w} : w \in Asleep(v)} ELSE {Asleep(v)}

\* The count becomes new, sleepers wake up, and t goes on as r.
SetCount(t, v, new, r) ==
    /\ sems' = [sems EXCEPT ![v].count = new]
    /\ \E woken \in Wakeups(v, new) :
           th' = [u \in Thread |-> IF u = t THEN r
                                  ELSE IF u \in woken THEN [th[u] EXCEPT !.op = "woken"]
                                  ELSE th[u]]

\* A thread with an open semaphore reads it, writes it or closes it.
Use(t) ==
    /\ At(t, "idle") /\ th[t].vn # NULL
    /\ \/ Goto(t, [op |-> "close", vn |-> th[t].vn])
       \/ /\ th[t].vn # Root
          /\ \E o \in {"read", "write"}, n \in Amount :
                 Goto(t, [op |-> o, vn |-> th[t].vn, resid |-> n])
    /\ UNCHANGED <<sems, dents, vn_refcount, tablelock, dirlock, vfs_biglock, crashed>>

\* Open for the next call, with the same vnode.
Done(t) == [op |-> "idle", vn |-> th[t].vn]

\* VOP_TRUNCATE(vn, 0), for O_TRUNC.
semfs_truncate(t) ==
    /\ At(t, "truncate") /\ TableFree /\ Unlocked(th[t].vn)
    /\ SetCount(t, th[t].vn, 0, Done(t))
    /\ UNCHANGED <<dents, vn_refcount, tablelock, dirlock, vfs_biglock, crashed>>

\* VOP_WRITE.  The sum is unsigned: when it wraps, the write fails.
semfs_write(t) ==
    LET old == sems[th[t].vn].count
        new == (old + th[t].resid) % (UINT_MAX + 1)
    IN  /\ At(t, "write") /\ TableFree /\ Unlocked(th[t].vn)
        /\ IF new < old THEN Goto(t, Done(t)) /\ UNCHANGED sems
           ELSE SetCount(t, th[t].vn, new, Done(t))
        /\ UNCHANGED <<dents, vn_refcount, tablelock, dirlock, vfs_biglock, crashed>>

\* VOP_READ: takes what there is, and sleeps on sems_cv until it has it all.
semfs_read(t) ==
    LET v == th[t].vn
        have == sems[v].count
    IN  /\ (At(t, "read") /\ TableFree) \/ At(t, "woken")
        /\ Unlocked(v)
        /\ IF have >= th[t].resid
             THEN /\ sems' = [sems EXCEPT ![v].count = @ - th[t].resid]
                  /\ Goto(t, Done(t))
             ELSE /\ sems' = [sems EXCEPT ![v].count = 0]
                  /\ Goto(t, [op |-> "asleep", vn |-> v, resid |-> th[t].resid - have])
        /\ UNCHANGED <<dents, vn_refcount, tablelock, dirlock, vfs_biglock, crashed>>

\* vfs_close
Close(t) ==
    /\ At(t, "close")
    /\ Decref(t, th[t].vn, Idle)
    /\ UNCHANGED <<sems, dents, tablelock, dirlock, vfs_biglock, crashed>>

----------------------------------------------------------------------------
(* semfs_remove *)

\* Up to the test of sems_hasvnode, which is made with dirlock and sems_lock.
RemoveFind(t) ==
    /\ At(t, "remove") /\ DirFree /\ TableFree
    /\ \E i \in Entries(th[t].name) :
           LET v == dents[i].semnum
           IN  /\ Unlocked(v)
               /\ IF ~sems[v].linked
                    THEN crashed' = "assert" /\ UNCHANGED <<sems, dirlock, th>>
                    ELSE /\ sems' = [sems EXCEPT ![v].linked = FALSE, ![v].lock = t]
                         /\ dirlock' = t
                         /\ Goto(t, [op |-> "unlink", vn |-> NULL, dent |-> i])
                         /\ UNCHANGED crashed
    /\ UNCHANGED <<dents, vn_refcount, tablelock, vfs_biglock>>

\* ENOENT
RemoveNone(t) ==
    /\ At(t, "remove") /\ DirFree /\ Entries(th[t].name) = {}
    /\ Goto(t, NotFound)
    /\ UNCHANGED <<sems, dents, vn_refcount, tablelock, dirlock, vfs_biglock, crashed>>

\* The semaphore is in use, and stays until semfs_reclaim.
RemoveInUse(t) ==
    /\ At(t, "unlink") /\ sems[dents[th[t].dent].semnum].hasvnode
    /\ sems' = [sems EXCEPT ![dents[th[t].dent].semnum].lock = NoThread]
    /\ dents' = [dents EXCEPT ![th[t].dent] = NULL]
    /\ dirlock' = NoThread
    /\ Goto(t, NotFound)
    /\ UNCHANGED <<vn_refcount, tablelock, vfs_biglock, crashed>>

\* The semaphore is not in use: it will go, once tablelock is free.
RemoveUnused(t) ==
    /\ At(t, "unlink") /\ ~sems[dents[th[t].dent].semnum].hasvnode
    /\ Goto(t, [th[t] EXCEPT !.op = "destroy"])
    /\ UNCHANGED <<sems, dents, vn_refcount, tablelock, dirlock, vfs_biglock, crashed>>

RemoveDestroy(t) ==
    /\ At(t, "destroy") /\ TableFree
    /\ sems' = [sems EXCEPT ![dents[th[t].dent].semnum] = NULL]
    /\ dents' = [dents EXCEPT ![th[t].dent] = NULL]
    /\ dirlock' = NoThread
    /\ Goto(t, NotFound)
    /\ UNCHANGED <<vn_refcount, tablelock, vfs_biglock, crashed>>

----------------------------------------------------------------------------

Halted == ~Running /\ UNCHANGED vars

\* The steps of a thread inside a call.
Step(t) ==
    \/ LookupFinds(t) \/ LookupFails(t) \/ semfs_creat(t) \/ CreatFull(t)
    \/ CreatNoMemory(t) \/ Unroot(t) \/ semfs_truncate(t) \/ semfs_write(t)
    \/ semfs_read(t) \/ Close(t) \/ RemoveFind(t) \/ RemoveNone(t)
    \/ RemoveInUse(t) \/ RemoveUnused(t) \/ RemoveDestroy(t)
    \/ ReclaimBegin(t) \/ ReclaimEnd(t)

Next ==
    \/ \E t \in Thread : OpenStart(t) \/ OpenStartFails(t) \/ Use(t) \/ Step(t)
    \/ Halted

Spec == Init /\ [][Next]_vars

----------------------------------------------------------------------------
(* Properties *)

\* The references thread t has to the vnode with number v: the one it has
\* open, the directory during a call, and the last one on its way to
\* semfs_reclaim.
Holds(t, v) ==
    (IF th[t].vn = v THEN 1 ELSE 0)
    + (IF v = Root /\ th[t].op \in {"lookup", "creat", "remove", "unlink",
                                    "destroy", "unroot"} THEN 1 ELSE 0)
    + (IF th[t].op = "reclaim" /\ th[t].target = v THEN 1 ELSE 0)

\* The count of a vnode is the number of references that threads have to it,
\* although vnode_decref decides to reclaim it before the file system looks, and
\* lookups find it again in between.
VnodeRefs ==
    Running => \A v \in VnodeNum :
                   vn_refcount[v] = MapThenSumSet(LAMBDA t : Holds(t, v), Thread)

\* A semaphore has its hasvnode flag exactly while it has a vnode, except for the
\* thread in semfs_reclaim: so a semaphore that some thread has open is not
\* destroyed under it, whoever removes its name, and its number is not reused.
\* What semfs asserts of the two flags is true; what lock_destroy asserts of
\* sems_lock is not (DestroyedUnheld).
OpenSemsStay ==
    /\ crashed # "assert"
    /\ Running => \A v \in SemNum :
        vn_refcount[v] > 0 <=> (v \in DOMAIN sems /\ sems[v] # NULL /\ sems[v].hasvnode)

Removing(v) ==
    {t \in Thread : th[t].op \in {"unlink", "destroy"} /\ dents[th[t].dent].semnum = v}

\* The directory names each linked semaphore once and nothing else; a semaphore
\* that is neither named nor open is being destroyed by somebody.  (semfs_creat's
\* error paths undo what they did; semfs_remove and semfs_reclaim, which look at
\* each other's flag under different locks, never both leave the semaphore to
\* the other.)
NothingLeaks ==
    Running =>
        /\ \A n \in Name : Cardinality(Entries(n)) <= 1
        /\ \A v \in DOMAIN sems :
               LET names == {i \in DOMAIN dents : dents[i] # NULL /\ dents[i].semnum = v}
               IN  IF sems[v] = NULL THEN names = {}
                   ELSE /\ Cardinality(names) =
                               (IF sems[v].linked THEN 1 ELSE Cardinality(Removing(v)))
                        /\ \/ sems[v].linked \/ sems[v].hasvnode \/ Removing(v) # {}
                           \/ \E t \in Thread : th[t].op = "reclaimed" /\ th[t].target = v

\* Calls never all wait for each other: the order in which vfs_biglock, dirlock,
\* sems_lock and tablelock are taken excludes deadlock.  (A read that waits for a
\* write is asleep, and holds none of them.)
NoDeadlock ==
    Running /\ (\E t \in Thread : th[t].op \notin {"idle", "asleep"})
        => \E t \in Thread : ENABLED Step(t)

\* thread/synch.c, lock_destroy: "KASSERT(lock->lk_holder == NULL);".  When
\* semfs_reclaim destroys a semaphore, nobody is inside its lock.
DestroyedUnheld == crashed # "held"

\* man/misc/semfs.html: reads that would take the count below zero "will block
\* until other concurrent write operations raise the count again".  Then nobody
\* sleeps on a positive count, unless somebody is awake who will take it.
BlocksUntilRaised ==
    \A v \in SemNum :
        Asleep(v) # {} => \/ sems[v].count = 0
                         \/ \E t \in Thread : th[t].op \in {"read", "woken"} /\ th[t].vn = v

============================================================================
