------------------------------- MODULE Emufs -------------------------------
(***************************************************************************)
(* The emulator's pass-through file system (dev/lamebus/emu.c).  The card  *)
(* knows files by handle: a file is opened on the card when it is looked   *)
(* up, its vnode keeps the handle, and VOP_RECLAIM closes it.  e_lock      *)
(* covers one operation of the card, from its registers to its result;     *)
(* vfs_biglock (recursive) and then e_lock cover the vnodes.  emu_open     *)
(* lets go of e_lock before emufs_loadvnode takes both.                    *)
(***************************************************************************)
EXTENDS Integers, Sequences, FiniteSets

CONSTANTS
    Thread,
    Cell,       \* bound: the memory for vnodes
    Hand,       \* the handles of the card, besides the root's
    MaxRetry,   \* emu_close's 10
    None

NoVnode == [handle |-> None, refs |-> 0]

VARIABLES
    big,        \* vfs_biglock: its holder and depth
    e_lock, e_sem, e_result,
    emu,        \* external: the operation the card has been given
    opened,     \* external: the handles that are open
    vnodes,     \* ef_vnodes
    th,         \* per thread: where it is, its handle, the vnode it has
    lost,       \* history: handles that could not be closed
    nomem,      \* history: emufs_loadvnode's kmalloc has failed
    emu_panicked

emuVars == <<big, e_lock, e_sem, e_result, emu, opened, vnodes, th, lost, nomem, emu_panicked>>

EmuInit ==
    /\ big = [who |-> None, depth |-> 0]
    /\ e_lock = None /\ e_sem = 0 /\ e_result = "ok"
    /\ emu = [stat |-> "idle", op |-> None, handle |-> None]
    /\ opened = {}
    /\ vnodes = [c \in Cell |-> NoVnode]
    /\ th = [t \in Thread |-> [pc |-> "idle", call |-> None, h |-> None, v |-> None, n |-> 0]]
    /\ lost = {}
    /\ nomem = FALSE
    /\ emu_panicked = FALSE

----------------------------------------------------------------------------
(* Locks *)

BigFree(t) == big.who \in {t, None}
Acquired(t) == [who |-> t, depth |-> big.depth + 1]
Released(b, n) == IF b.depth = n THEN [who |-> None, depth |-> 0] ELSE [b EXCEPT !.depth = @ - n]
Enter(t, pc) == th' = [th EXCEPT ![t].pc = pc]

\* A call returns; vfs_lookup made it under vfs_biglock, and lets go of that too.
Leave(t, v) ==
    th' = [th EXCEPT ![t] = [pc |-> "idle", call |-> None, h |-> None, v |-> v, n |-> 0]]
Inner(t) == IF th[t].call = "lookup" THEN 1 ELSE 0

----------------------------------------------------------------------------
(* The card *)

Issue(op, h) == emu' = [stat |-> "working", op |-> op, handle |-> h]

\* The card finishes: it opens a handle that is not in use, closes one, or does
\* something to a file that is open; or it fails (EIO stands for every error).
EmuComplete ==
    /\ emu.stat = "working"
    /\ \/ /\ emu.op = "open"
          /\ \E h \in Hand \ opened : /\ opened' = opened \cup {h}
                                      /\ emu' = [emu EXCEPT !.stat = "ok", !.handle = h]
       \/ /\ emu.op # "open" /\ emu.handle \in opened
          /\ opened' = IF emu.op = "close" THEN opened \ {emu.handle} ELSE opened
          /\ emu' = [emu EXCEPT !.stat = "ok"]
       \/ /\ emu.op = "open" \/ emu.handle \in opened
          /\ emu' = [emu EXCEPT !.stat = "EIO"]
          /\ UNCHANGED opened
       \/ /\ emu.op # "open" /\ emu.handle \notin opened
          /\ emu' = [emu EXCEPT !.stat = "BADHANDLE"]
          /\ UNCHANGED opened
    /\ UNCHANGED <<big, e_lock, e_sem, e_result, vnodes, th, lost, nomem, emu_panicked>>

emu_irq ==
    /\ emu.stat \notin {"idle", "working"}
    /\ e_result' = emu.stat
    /\ emu' = [emu EXCEPT !.stat = "idle"]
    /\ e_sem' = e_sem + 1
    /\ UNCHANGED <<big, e_lock, opened, vnodes, th, lost, nomem, emu_panicked>>

\* emu_waitdone: P(e_sem); translate_err panics on what only a bug can cause.
emu_waitdone(t, pc) ==
    /\ th[t].pc = pc /\ e_sem > 0
    /\ e_sem' = e_sem - 1
    /\ emu_panicked' = (emu_panicked \/ e_result = "BADHANDLE")

----------------------------------------------------------------------------
(* Lookup and creat: emu_open, then emufs_loadvnode *)

\* vfs_lookup calls with vfs_biglock held, VOP_CREAT comes without.
Lookup(t) ==
    /\ th[t].pc = "idle" /\ th[t].v = None /\ BigFree(t)
    /\ big' = Acquired(t)
    /\ th' = [th EXCEPT ![t].pc = "open", ![t].call = "lookup"]
    /\ UNCHANGED <<e_lock, e_sem, e_result, emu, opened, vnodes, lost, nomem, emu_panicked>>

Creat(t) ==
    /\ th[t].pc = "idle" /\ th[t].v = None
    /\ th' = [th EXCEPT ![t].pc = "open", ![t].call = "creat"]
    /\ UNCHANGED <<big, e_lock, e_sem, e_result, emu, opened, vnodes, lost, nomem, emu_panicked>>

\* Mutant of OpenBegin: the registers are written without e_lock.
OpenBeginUnlocked(t) ==
    /\ th[t].pc = "open"
    /\ Issue("open", None)
    /\ Enter(t, "opening")
    /\ UNCHANGED <<big, e_lock, e_sem, e_result, opened, vnodes, lost, nomem, emu_panicked>>

OpenBegin(t) ==
    /\ th[t].pc = "open" /\ e_lock = None
    /\ e_lock' = t
    /\ Issue("open", None)
    /\ Enter(t, "opening")
    /\ UNCHANGED <<big, e_sem, e_result, opened, vnodes, lost, nomem, emu_panicked>>

\* Mutant of OpenEnd: emu_open returns its error without giving e_lock back.
OpenEndKeeps(t) ==
    /\ emu_waitdone(t, "opening")
    /\ IF e_result = "ok"
         THEN /\ th' = [th EXCEPT ![t].pc = "load", ![t].h = emu.handle]
              /\ e_lock' = None /\ UNCHANGED big
         ELSE Leave(t, None) /\ big' = Released(big, Inner(t)) /\ UNCHANGED e_lock
    /\ UNCHANGED <<e_result, emu, opened, vnodes, lost, nomem>>

OpenEnd(t) ==
    /\ emu_waitdone(t, "opening")
    /\ e_lock' = None
    /\ IF e_result = "ok"
         THEN th' = [th EXCEPT ![t].pc = "load", ![t].h = emu.handle] /\ UNCHANGED big
         ELSE Leave(t, None) /\ big' = Released(big, Inner(t))
    /\ UNCHANGED <<e_result, emu, opened, vnodes, lost, nomem>>

LoadBegin(t) ==
    /\ th[t].pc = "load" /\ BigFree(t)
    /\ big' = Acquired(t)
    /\ Enter(t, "loading")
    /\ UNCHANGED <<e_lock, e_sem, e_result, emu, opened, vnodes, lost, nomem, emu_panicked>>

\* emufs_loadvnode under both locks fails, and the handle has to be closed:
\* vnodearray_add gives vfs_biglock back, the failed kmalloc (bound: once) does not.
LoadFails(t) ==
    /\ th[t].pc = "loading" /\ e_lock = None
    /\ \A c \in Cell : vnodes[c].handle # th[t].h
    /\ Enter(t, "undo")
    /\ \/ ~nomem /\ nomem' = TRUE /\ UNCHANGED big
       \/ big' = Released(big, 1) /\ UNCHANGED nomem
    /\ UNCHANGED <<e_lock, e_sem, e_result, emu, opened, vnodes, lost, emu_panicked>>

\* It finds the vnode of this handle, or makes one.
Load(t) ==
    /\ th[t].pc = "loading" /\ e_lock = None
    /\ \E c \in Cell :
           /\ \/ vnodes[c].handle = th[t].h
              \/ vnodes[c] = NoVnode /\ \A d \in Cell : vnodes[d].handle # th[t].h
           /\ vnodes' = [vnodes EXCEPT ![c] = [handle |-> th[t].h, refs |-> @.refs + 1]]
           /\ Leave(t, c)
    /\ big' = Released(big, 1 + Inner(t))
    /\ UNCHANGED <<e_lock, e_sem, e_result, emu, opened, lost, nomem, emu_panicked>>

\* emu_close, of a handle that got no vnode.
UndoBegin(t) ==
    /\ th[t].pc = "undo" /\ e_lock = None
    /\ e_lock' = t
    /\ Issue("close", th[t].h)
    /\ Enter(t, "undoing")
    /\ UNCHANGED <<big, e_sem, e_result, opened, vnodes, lost, nomem, emu_panicked>>

Again(t) == e_result = "EIO" /\ th[t].n < MaxRetry

UndoEnd(t) ==
    /\ emu_waitdone(t, "undoing")
    /\ IF Again(t)
         THEN /\ Issue("close", th[t].h)
              /\ th' = [th EXCEPT ![t].n = @ + 1]
              /\ UNCHANGED <<big, e_lock, lost>>
         ELSE /\ e_lock' = None
              /\ lost' = IF e_result = "ok" THEN lost ELSE lost \cup {th[t].h}
              /\ Leave(t, None)
              /\ big' = Released(big, Inner(t))
              /\ UNCHANGED emu
    /\ UNCHANGED <<e_result, opened, vnodes, nomem>>

----------------------------------------------------------------------------
(* Reads, writes, directories, sizes and truncation: one piece at a time *)

IoBegin(t) ==
    /\ th[t].pc \in {"idle", "more"} /\ th[t].v # None /\ e_lock = None
    /\ e_lock' = t
    /\ Issue("io", vnodes[th[t].v].handle)
    /\ Enter(t, "io")
    /\ UNCHANGED <<big, e_sem, e_result, opened, vnodes, lost, nomem, emu_panicked>>

\* emufs_read and emufs_write go on after a full piece.
IoEnd(t) ==
    /\ emu_waitdone(t, "io")
    /\ e_lock' = None
    /\ \/ Enter(t, "idle")
       \/ e_result = "ok" /\ th[t].n < 1
          /\ th' = [th EXCEPT ![t].pc = "more", ![t].n = @ + 1]
    /\ UNCHANGED <<big, e_result, emu, opened, vnodes, lost, nomem>>

----------------------------------------------------------------------------
(* References: another thread gets one, and the last one reclaims. *)

VnodeIncref(t, u) ==
    /\ th[t].pc = "idle" /\ th[t].v # None
    /\ th[u].pc = "idle" /\ th[u].v = None
    /\ vnodes' = [vnodes EXCEPT ![th[t].v].refs = @ + 1]
    /\ th' = [th EXCEPT ![u].v = th[t].v]
    /\ UNCHANGED <<big, e_lock, e_sem, e_result, emu, opened, lost, nomem, emu_panicked>>

VnodeDecref(t) ==
    /\ th[t].pc = "idle" /\ th[t].v # None
    /\ IF vnodes[th[t].v].refs > 1
         THEN /\ vnodes' = [vnodes EXCEPT ![th[t].v].refs = @ - 1]
              /\ Leave(t, None)
         ELSE th' = [th EXCEPT ![t].pc = "reclaim", ![t].n = 0] /\ UNCHANGED vnodes
    /\ UNCHANGED <<big, e_lock, e_sem, e_result, emu, opened, lost, nomem, emu_panicked>>

ReclaimBegin(t) ==
    /\ th[t].pc = "reclaim" /\ BigFree(t)
    /\ big' = Acquired(t)
    /\ Enter(t, "reclaiming")
    /\ UNCHANGED <<e_lock, e_sem, e_result, emu, opened, vnodes, lost, nomem, emu_panicked>>

\* Somebody has the vnode again, or it is the last reference and emu_close begins.
ReclaimClose(t) ==
    /\ th[t].pc = "reclaiming" /\ e_lock = None
    /\ IF vnodes[th[t].v].refs > 1
         THEN /\ vnodes' = [vnodes EXCEPT ![th[t].v].refs = @ - 1]
              /\ Leave(t, None)
              /\ big' = Released(big, 1)
              /\ UNCHANGED <<e_lock, emu>>
         ELSE /\ e_lock' = t
              /\ Issue("close", vnodes[th[t].v].handle)
              /\ Enter(t, "closing")
              /\ UNCHANGED <<big, vnodes>>
    /\ UNCHANGED <<e_sem, e_result, opened, lost, nomem, emu_panicked>>

\* emu_close has answered: again, or the vnode goes, or (after a hard error) it
\* stays with a reference that nobody has.
ReclaimEnd(t) ==
    /\ emu_waitdone(t, "closing")
    /\ IF Again(t)
         THEN /\ Issue("close", vnodes[th[t].v].handle)
              /\ th' = [th EXCEPT ![t].n = @ + 1]
              /\ UNCHANGED <<big, e_lock, vnodes, lost>>
         ELSE /\ IF e_result = "ok"
                   THEN vnodes' = [vnodes EXCEPT ![th[t].v] = NoVnode] /\ UNCHANGED lost
                   ELSE lost' = lost \cup {vnodes[th[t].v].handle} /\ UNCHANGED vnodes
              /\ Leave(t, None)
              /\ e_lock' = None
              /\ big' = Released(big, 1)
              /\ UNCHANGED emu
    /\ UNCHANGED <<e_result, opened, nomem>>

Steps(t) ==
    \/ OpenEnd(t) \/ LoadFails(t) \/ Load(t) \/ UndoEnd(t) \/ IoEnd(t) \/ ReclaimEnd(t)
    \/ OpenBegin(t) \/ LoadBegin(t) \/ UndoBegin(t)
    \/ ReclaimBegin(t) \/ ReclaimClose(t)
    \/ th[t].pc = "more" /\ IoBegin(t)

EmuNext ==
    \/ EmuComplete \/ emu_irq
    \/ \E t \in Thread :
           \/ Lookup(t) \/ Creat(t) \/ IoBegin(t) \/ VnodeDecref(t)
           \/ \E u \in Thread : VnodeIncref(t, u)
           \/ Steps(t)

EmuSpec == EmuInit /\ [][EmuNext]_emuVars

\* The card answers, and a call goes on when it can.  Taking a lock is only
\* weakly fair: lock_release wakes a sleeper, but lock_acquire lets a thread that
\* comes by take the lock before it.
EmuFairness ==
    /\ WF_emuVars(EmuComplete) /\ WF_emuVars(emu_irq)
    /\ \A t \in Thread : WF_emuVars(Steps(t))

----------------------------------------------------------------------------
(* Properties *)

\* translate_err's panics are never reached: every operation names a handle that
\* is open, although emu_open and emufs_loadvnode are two critical sections.
HandlesValid ==
    /\ ~emu_panicked
    /\ \A c \in Cell : vnodes[c] # NoVnode /\ vnodes[c].handle \notin opened =>
           \E t \in Thread : th[t].pc = "closing" /\ th[t].v = c

Waiting == {"opening", "undoing", "io", "closing"}

\* The card works for whoever has e_lock and nobody else: the answer that
\* emu_waitdone takes is the answer to its own operation.
AnswerMine ==
    /\ \A t \in Thread : th[t].pc \in Waiting => e_lock = t
    /\ emu.stat # "idle" \/ e_sem > 0 => e_lock # None /\ th[e_lock].pc \in Waiting
    /\ e_sem + (IF emu.stat = "idle" THEN 0 ELSE 1) <= 1

\* Every handle the card has open is accounted for: one vnode has it, or the
\* thread that opened it is still on its way, or its close failed for good.
HandlesAccounted ==
    \A h \in opened :
        \/ Cardinality({c \in Cell : vnodes[c].handle = h}) = 1
        \/ \E t \in Thread : th[t].h = h
        \/ e_lock # None /\ th[e_lock].pc = "opening" /\ emu.handle = h
        \/ h \in lost

\* emu.c as a whole: an operation names a handle that is open and takes the answer
\* to itself, and every open handle belongs to one vnode or one call.
HandlesSound == HandlesValid /\ AnswerMine /\ HandlesAccounted

\* A call returns, or another thread keeps taking the locks from under it, call
\* after call: no lock is left taken by a call that has returned, and no two calls
\* wait for each other.  The exception is a call of emufs_loadvnode that runs out
\* of memory and keeps vfs_biglock.
CallsReturn ==
    \A t \in Thread :
        \/ []<>(th[t].pc = "idle" \/ nomem)
        \/ \E u \in Thread \ {t} : []<>(th[u].pc = "idle") /\ []<>(th[u].pc # "idle")

============================================================================
