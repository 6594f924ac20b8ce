---------------------------- MODULE Emufs_proofs ---------------------------
(***************************************************************************)
(* The handles of the emulator's file system: for any number of threads,   *)
(* vnodes and handles, every operation of the card names an open handle,   *)
(* its answer goes to whoever asked, and no open handle is forgotten.      *)
(***************************************************************************)
EXTENDS Emufs, FiniteSetTheorems, TLAPS

\* Most leaves are first-order; the others ask for SMT.
USE Zenon

Names == None \notin Thread /\ None \notin Cell /\ None \notin Hand /\ IsFiniteSet(Thread)

\* Where a thread has a handle of its own, a vnode, or neither.
Handing == {"load", "loading", "undo", "undoing"}
Reclaiming == {"reclaim", "reclaiming", "closing"}
Holding == {"io", "more"} \cup Reclaiming

Place == [pc : {"idle", "open", "opening"} \cup Handing \cup Holding,
          call : {"lookup", "creat", None}, h : Hand \cup {None},
          v : Cell \cup {None}, n : Nat]

TypeOK ==
    /\ e_lock \in Thread \cup {None} /\ e_sem \in {0, 1}
    /\ e_result \in {"ok", "EIO", "BADHANDLE"}
    /\ emu \in [stat : {"idle", "working", "ok", "EIO", "BADHANDLE"},
                 op : {"open", "close", "io", None}, handle : Hand \cup {None}]
    /\ opened \in SUBSET Hand
    /\ vnodes \in [Cell -> [handle : Hand \cup {None}, refs : Nat]]
    /\ th \in [Thread -> Place]
    /\ emu_panicked = FALSE

\* The handle is nobody's yet.
Unclaimed(h) == (\A c \in Cell : vnodes[c].handle # h) /\ \A t \in Thread : th[t].h # h

\* What the card has to say, until emu_waitdone has taken it.
Answer == IF emu.stat = "idle" THEN e_result ELSE emu.stat

OpOf(pc) == IF pc = "opening" THEN "open" ELSE IF pc = "io" THEN "io" ELSE "close"
Asked(t) == IF th[t].pc = "undoing" THEN th[t].h ELSE vnodes[th[t].v].handle

\* Whoever has e_lock waits for the card, which has its operation; nobody else
\* waits, and without e_lock the card is at rest.
LockShape ==
    /\ \A t \in Thread : th[t].pc \in Waiting <=> e_lock = t
    /\ e_sem = 1 => emu.stat = "idle"
    /\ emu.stat = "idle" => (e_sem = 1 <=> e_lock # None)
    /\ emu.stat # "idle" => e_lock # None

\* The card does for t what t waits for: a handle that it opens is new, one that
\* it is asked about is open until it is closed.
Serves(t) ==
    /\ emu.op = OpOf(th[t].pc) /\ Answer \in {"working", "ok", "EIO"}
    /\ th[t].pc = "opening" /\ Answer = "ok" => emu.handle \in opened /\ Unclaimed(emu.handle)
    /\ th[t].pc = "opening" /\ Answer # "ok" => emu.handle = None
    /\ th[t].pc # "opening" =>
           /\ emu.handle = Asked(t) /\ emu.handle # None
           /\ emu.handle \in opened <=> ~(emu.op = "close" /\ Answer = "ok")

\* A handle between emu_open and emufs_loadvnode belongs to one thread.
HandShape ==
    \A t \in Thread :
        /\ th[t].h # None <=> th[t].pc \in Handing
        /\ th[t].h # None =>
               /\ th[t].h \in opened \/ th[t].pc = "undoing"
               /\ \A c \in Cell : vnodes[c].handle # th[t].h
               /\ \A u \in Thread : th[u].h = th[t].h => u = t

\* The threads that have vnode c.
Users(c) == {t \in Thread : th[t].v = c}

\* A vnode has a handle of its own, which is open until it is being closed, and
\* counts those who have it; who reclaims it is the only one of them.
VnodeShape ==
    /\ \A c \in Cell :
           /\ vnodes[c].handle = None => vnodes[c].refs = 0
           /\ Cardinality(Users(c)) <= vnodes[c].refs
           /\ \/ vnodes[c].handle \in opened \cup {None}
              \/ \E t \in Thread : th[t].pc = "closing" /\ th[t].v = c
           /\ \A d \in Cell : vnodes[d].handle = vnodes[c].handle /\ d # c =>
                                  vnodes[c].handle = None
    /\ \A t \in Thread :
           /\ th[t].pc \in Holding => th[t].v # None
           /\ th[t].pc # "idle" /\ th[t].pc \notin Holding => th[t].v = None
           /\ th[t].pc \in Reclaiming =>
                  \A u \in Thread : th[u].v = th[t].v => u = t

\* Somebody answers for handle h.
Claimed(h) ==
    \/ \E c \in Cell : vnodes[c].handle = h
    \/ \E t \in Thread : th[t].h = h
    \/ e_lock # None /\ th[e_lock].pc = "opening" /\ emu.handle = h
    \/ h \in lost

\* The inductive invariant.
IInv ==
    /\ TypeOK /\ LockShape /\ HandShape /\ VnodeShape
    /\ e_lock # None => Serves(e_lock)
    /\ \A h \in opened : Claimed(h)
----------------------------------------------------------------------------
(* Facts about the operators *)

\* What a thread's place is made of.
LEMMA PlaceFields ==
    ASSUME NEW r \in Place
    PROVE  /\ r.pc \in {"idle", "open", "opening"} \cup Handing \cup Holding
           /\ r.h \in Hand \cup {None} /\ r.v \in Cell \cup {None} /\ r.n \in Nat
  BY DEF Place

\* A thread goes to another place in its call, with what it has.
LEMMA GotoStep ==
    ASSUME TypeOK, NEW t \in Thread, NEW p \in {"idle", "opening"} \cup Handing \cup Holding,
           Enter(t, p)
    PROVE  /\ th' \in [Thread -> Place]
           /\ th'[t].pc = p /\ th'[t].h = th[t].h /\ th'[t].v = th[t].v
           /\ \A u \in Thread : u # t => th'[u] = th[u]
<1>1. th' = [th EXCEPT ![t].pc = p] /\ th \in [Thread -> Place] /\ th[t] \in Place
  BY DEF Enter, TypeOK
<1> DEFINE r == [th[t] EXCEPT !.pc = p]
<1>2. r \in Place /\ r.pc = p /\ r.h = th[t].h /\ r.v = th[t].v
  BY <1>1 DEF Place
<1>3. th' = [th EXCEPT ![t] = r]
  BY <1>1
<1> HIDE DEF r
<1> QED
  BY <1>1, <1>2, <1>3

\* A call returns, with a vnode or without.
LEMMA ReturnStep ==
    ASSUME TypeOK, NEW t \in Thread, NEW v \in Cell \cup {None}, Leave(t, v)
    PROVE  /\ th' \in [Thread -> Place]
           /\ th'[t].pc = "idle" /\ th'[t].h = None /\ th'[t].v = v
           /\ \A u \in Thread : u # t => th'[u] = th[u]
  BY DEF Leave, TypeOK, Place

\* The users of a vnode can be counted.
LEMMA UsersFinite ==
    ASSUME Names, NEW c
    PROVE  IsFiniteSet(Users(c)) /\ Cardinality(Users(c)) \in Nat
<1>1. Users(c) \subseteq Thread
  BY DEF Users
<1> QED
  BY <1>1, FS_Subset, FS_CardinalityType DEF Names

\* One thread more has the vnode.
LEMMA UsersGain ==
    ASSUME Names, NEW c, NEW t \in Thread, th[t].v # c, th'[t].v = c,
           \A u \in Thread : u # t => th'[u] = th[u]
    PROVE  Cardinality(Users(c)') = Cardinality(Users(c)) + 1
<1>1. Users(c)' = Users(c) \cup {t} /\ t \notin Users(c)
  BY DEF Users
<1> QED
  BY <1>1, UsersFinite, FS_AddElement

\* One thread less has the vnode.
LEMMA UsersLoss ==
    ASSUME Names, NEW c, NEW t \in Thread, th[t].v = c, th'[t].v # c,
           \A u \in Thread : u # t => th'[u] = th[u]
    PROVE  /\ Cardinality(Users(c)') = Cardinality(Users(c)) - 1
           /\ Cardinality(Users(c)) > 0
<1>1. Users(c)' = Users(c) \ {t} /\ t \in Users(c)
  BY SMT DEF Users
<1>2. Cardinality(Users(c) \ {t}) = Cardinality(Users(c)) - 1
  BY <1>1, UsersFinite, FS_RemoveElement
<1>3. Cardinality(Users(c)) # 0
  BY <1>1, UsersFinite, FS_EmptySet
<1> QED
  BY <1>1, <1>2, <1>3, UsersFinite, SMT

\* The same threads have it.
LEMMA UsersSame ==
    ASSUME NEW c, \A u \in Thread : th'[u].v = c <=> th[u].v = c
    PROVE  Users(c)' = Users(c)
  BY DEF Users

\* Whoever has a vnode is counted, and alone if the count is 1.
LEMMA UsersCount ==
    ASSUME Names, NEW c, NEW t \in Thread, th[t].v = c
    PROVE  /\ Cardinality(Users(c)) > 0
           /\ Cardinality(Users(c)) <= 1 => \A u \in Thread : th[u].v = c => u = t
<1>1. t \in Users(c) /\ IsFiniteSet(Users(c)) /\ Cardinality(Users(c)) \in Nat
  BY UsersFinite DEF Users
<1>2. Cardinality(Users(c)) # 0
  BY <1>1, FS_EmptySet
<1>3. ASSUME Cardinality(Users(c)) <= 1, NEW u \in Thread, th[u].v = c, u # t PROVE FALSE
  <2>1. u \in Users(c) \ {t}
    BY <1>3 DEF Users
  <2>2. Cardinality(Users(c) \ {t}) = 0 /\ IsFiniteSet(Users(c) \ {t})
    <3>1. /\ IsFiniteSet(Users(c) \ {t})
          /\ Cardinality(Users(c) \ {t}) = Cardinality(Users(c)) - 1
      BY <1>1, FS_RemoveElement
    <3> QED
      BY <1>1, <1>2, <1>3, <3>1, SMT
  <2> QED
    BY <2>1, <2>2, FS_EmptySet
<1> QED
  BY <1>1, <1>2, <1>3, SMT

\* While nobody has e_lock every handle that somebody has is open.
LEMMA Quiet ==
    ASSUME Names, IInv, e_lock = None
    PROVE  /\ emu.stat = "idle" /\ e_sem = 0
           /\ \A t \in Thread : th[t].pc \notin Waiting
           /\ \A c \in Cell : vnodes[c].handle \in opened \cup {None}
           /\ \A t \in Thread : th[t].h \in opened \cup {None}
<1>1. emu.stat = "idle" /\ e_sem = 0
  BY DEF IInv, LockShape, TypeOK
<1>2. \A t \in Thread : th[t].pc \notin Waiting
  BY DEF IInv, LockShape, Names
<1> QED
  BY <1>1, <1>2 DEF IInv, VnodeShape, HandShape, Waiting

\* The card keeps serving a thread that is left alone.
LEMMA ServesSame ==
    ASSUME Names, IInv, NEW u \in Thread, e_lock = u, th'[u] = th[u],
           UNCHANGED <<e_result, emu, opened>>,
           \A c \in Cell : vnodes'[c].handle = vnodes[c].handle,
           \A t \in Thread : th'[t].h = th[t].h
    PROVE  Serves(u)'
<1>1. Serves(u) /\ th[u].pc \in Waiting
  BY DEF IInv, LockShape, Names
<1>2. th[u].pc \in Holding => th[u].v \in Cell
  BY PlaceFields DEF IInv, TypeOK, VnodeShape
<1>3. th[u].pc # "opening" => Asked(u)' = Asked(u)
  BY <1>1, <1>2 DEF Asked, Waiting, Holding, Reclaiming
<1>4. Unclaimed(emu.handle) => Unclaimed(emu.handle)'
  BY DEF Unclaimed
<1>5. Answer' = Answer
  BY DEF Answer
<1> QED
  BY <1>1, <1>3, <1>4, <1>5 DEF Serves

\* A thread that does not wait for the card goes on with the handle that it has;
\* vnodes keep their handles, and count those who have them.
LEMMA RefInv ==
    ASSUME Names, IInv, NEW t \in Thread, th' \in [Thread -> Place],
           \A u \in Thread : u # t => th'[u] = th[u],
           th[t].pc \notin Waiting, th'[t].pc \notin Waiting, th'[t].h = th[t].h,
           th'[t].pc \in Handing <=> th[t].pc \in Handing,
           th'[t].pc \in Holding => th'[t].v # None,
           th'[t].pc \notin Holding \cup {"idle"} => th'[t].v = None,
           th'[t].pc \in Reclaiming => \A u \in Thread : th'[u].v = th'[t].v => u = t,
           \A u \in Thread : th[u].pc \in Reclaiming /\ u # t => th'[t].v # th[u].v,
           vnodes' \in [Cell -> [handle : Hand \cup {None}, refs : Nat]],
           \A c \in Cell : /\ vnodes'[c].handle = vnodes[c].handle
                           /\ vnodes[c].handle = None => vnodes'[c].refs = 0
                           /\ Cardinality(Users(c)') <= vnodes'[c].refs,
           UNCHANGED <<e_lock, e_sem, e_result, emu, opened, lost, emu_panicked>>
    PROVE  IInv'
<1>1. TypeOK'
  BY DEF IInv, TypeOK
<1>2. \A u \in Thread : th'[u].pc \in Waiting <=> th[u].pc \in Waiting
  OBVIOUS
<1>3. LockShape'
  BY <1>2 DEF IInv, LockShape
<1>4. \A u \in Thread : th'[u].h = th[u].h
  OBVIOUS
<1>5. HandShape'
  <2>1. \A u \in Thread : /\ th'[u].pc \in Handing <=> th[u].pc \in Handing
                          /\ th'[u].pc = "undoing" <=> th[u].pc = "undoing"
    BY DEF Waiting
  <2> QED
    BY <1>4, <2>1, SMT DEF IInv, HandShape
<1>6. VnodeShape'
  <2>1. \A u \in Thread : /\ th'[u].pc = "closing" <=> th[u].pc = "closing"
                          /\ th[u].pc = "closing" => th'[u].v = th[u].v
    BY DEF Waiting
  <2>2. ASSUME NEW c \in Cell
        PROVE  /\ vnodes'[c].handle = None => vnodes'[c].refs = 0
               /\ Cardinality(Users(c)') <= vnodes'[c].refs
               /\ \/ vnodes'[c].handle \in opened' \cup {None}
                  \/ \E u \in Thread : th'[u].pc = "closing" /\ th'[u].v = c
               /\ \A d \in Cell : vnodes'[d].handle = vnodes'[c].handle /\ d # c =>
                                      vnodes'[c].handle = None
    <3>1. \/ vnodes'[c].handle \in opened' \cup {None}
          \/ \E u \in Thread : th'[u].pc = "closing" /\ th'[u].v = c
      BY <2>1, SMT DEF IInv, VnodeShape
    <3>2. \A d \in Cell : vnodes'[d].handle = vnodes'[c].handle /\ d # c =>
                              vnodes'[c].handle = None
      BY SMT DEF IInv, VnodeShape
    <3> QED
      BY <3>1, <3>2
  <2>3. ASSUME NEW u \in Thread
        PROVE  /\ th'[u].pc \in Holding => th'[u].v # None
               /\ th'[u].pc # "idle" /\ th'[u].pc \notin Holding => th'[u].v = None
               /\ th'[u].pc \in Reclaiming =>
                      \A w \in Thread : th'[w].v = th'[u].v => w = u
    <3>1. CASE u = t
      BY <3>1
    <3>2. CASE u # t
      BY <3>2, SMT DEF IInv, VnodeShape
    <3> QED
      BY <3>1, <3>2
  <2> QED
    BY <2>2, <2>3 DEF VnodeShape
<1>7. ASSUME e_lock' # None PROVE Serves(e_lock)'
  <2>1. PICK u \in Thread : u = e_lock
    BY <1>7 DEF IInv, TypeOK
  <2>2. u # t
    BY <2>1 DEF IInv, LockShape
  <2>3. Serves(u)'
    BY <1>4, <2>1, <2>2, ServesSame
  <2> QED
    BY <2>1, <2>3
<1>8. ASSUME NEW h \in opened' PROVE Claimed(h)'
  <2>1. Claimed(h)
    BY DEF IInv
  <2>2. e_lock # None => e_lock # t /\ e_lock \in Thread
    BY DEF IInv, LockShape, TypeOK
  <2> QED
    BY <1>4, <2>1, <2>2 DEF Claimed
<1> QED
  BY <1>1, <1>3, <1>5, <1>6, <1>7, <1>8 DEF IInv

\* A thread takes e_lock and gives the card an operation, on a handle that it has.
LEMMA BeginInv ==
    ASSUME Names, IInv, NEW t \in Thread, e_lock = None, e_lock' = t,
           NEW h \in Hand \cup {None}, th'[t].pc \in Waiting,
           emu' = [stat |-> "working", op |-> OpOf(th'[t].pc), handle |-> h],
           th' \in [Thread -> Place], th'[t].h = th[t].h, th'[t].v = th[t].v,
           \A u \in Thread : u # t => th'[u] = th[u],
           th'[t].pc \in Handing <=> th[t].pc \in Handing,
           th'[t].pc \in Holding <=> th[t].v # None,
           th'[t].pc \in Reclaiming => th[t].pc \in Reclaiming,
           IF th'[t].pc = "opening" THEN h = None
           ELSE h # None /\ h = (IF th'[t].pc = "undoing" THEN th[t].h ELSE vnodes[th[t].v].handle),
           UNCHANGED <<e_sem, e_result, opened, vnodes, lost, emu_panicked>>
    PROVE  IInv'
<1>1. /\ e_sem = 0 /\ \A u \in Thread : th[u].pc \notin Waiting
      /\ \A c \in Cell : vnodes[c].handle \in opened \cup {None}
      /\ \A u \in Thread : th[u].h \in opened \cup {None}
  BY Quiet
<1>2. emu'.stat = "working" /\ emu'.op = OpOf(th'[t].pc) /\ emu'.handle = h
  OBVIOUS
<1>3. TypeOK'
  <2>1. emu' \in [stat : {"idle", "working", "ok", "EIO", "BADHANDLE"},
                   op : {"open", "close", "io", None}, handle : Hand \cup {None}]
    BY DEF OpOf
  <2> QED
    BY <2>1 DEF IInv, TypeOK
<1>4. LockShape'
  BY <1>1, <1>2, SMT DEF LockShape, Names
<1>5. \A u \in Thread : th'[u].h = th[u].h /\ th'[u].v = th[u].v
  OBVIOUS
<1>6. HandShape'
  <2>1. \A u \in Thread : th'[u].pc \in Handing <=> th[u].pc \in Handing
    OBVIOUS
  <2> QED
    BY <1>1, <1>5, <2>1, SMT DEF IInv, HandShape
<1>7. VnodeShape'
  <2>1. ASSUME NEW c \in Cell
        PROVE  /\ vnodes'[c].handle = None => vnodes'[c].refs = 0
               /\ Cardinality(Users(c)') <= vnodes'[c].refs
               /\ vnodes'[c].handle \in opened' \cup {None}
               /\ \A d \in Cell : vnodes'[d].handle = vnodes'[c].handle /\ d # c =>
                                      vnodes'[c].handle = None
    <3>1. Users(c)' = Users(c)
      BY <1>5, UsersSame
    <3> QED
      BY <1>1, <3>1 DEF IInv, VnodeShape
  <2>2. ASSUME NEW u \in Thread
        PROVE  /\ th'[u].pc \in Holding => th'[u].v # None
               /\ th'[u].pc # "idle" /\ th'[u].pc \notin Holding => th'[u].v = None
               /\ th'[u].pc \in Reclaiming =>
                      \A w \in Thread : th'[w].v = th'[u].v => w = u
    <3>1. CASE u = t
      BY <1>5, <3>1, SMT DEF IInv, VnodeShape
    <3>2. CASE u # t
      BY <1>5, <3>2, SMT DEF IInv, VnodeShape
    <3> QED
      BY <3>1, <3>2
  <2> QED
    BY <2>1, <2>2 DEF VnodeShape
<1>8. Serves(t)'
  <2>1. Answer' = "working"
    BY <1>2 DEF Answer
  <2>2. CASE th'[t].pc = "opening"
    BY <1>2, <2>1, <2>2 DEF Serves
  <2>3. CASE th'[t].pc # "opening"
    <3>1. h = Asked(t)'
      BY <2>3 DEF Asked
    <3>2. h \in opened
      <4>1. CASE th'[t].pc = "undoing"
        BY <1>1, <4>1, <2>3
      <4>2. CASE th'[t].pc # "undoing"
        <5>1. th[t].v \in Cell
          BY <2>3, <4>2, PlaceFields DEF Waiting, Holding, Reclaiming, IInv, TypeOK
        <5> QED
          BY <1>1, <2>3, <4>2, <5>1
      <4> QED
        BY <4>1, <4>2
    <3> QED
      BY <1>2, <2>1, <2>3, <3>1, <3>2 DEF Serves
  <2> QED
    BY <2>2, <2>3
<1>9. ASSUME NEW k \in opened' PROVE Claimed(k)'
  <2>1. Claimed(k)
    BY DEF IInv
  <2> QED
    BY <1>5, <2>1 DEF Claimed
<1> QED
  BY <1>3, <1>4, <1>6, <1>7, <1>8, <1>9 DEF IInv

\* emu_open, emu_close, and the others begin.
LEMMA BeginsInv ==
    ASSUME Names, IInv, NEW t \in Thread, OpenBegin(t) \/ UndoBegin(t) \/ IoBegin(t)
    PROVE  IInv'
<1>1. /\ e_lock = None /\ e_lock' = t
      /\ UNCHANGED <<e_sem, e_result, opened, vnodes, lost, emu_panicked>>
  BY DEF OpenBegin, UndoBegin, IoBegin
<1>2. th[t] \in Place /\ TypeOK
  BY DEF IInv, TypeOK
<1>3. CASE OpenBegin(t)
  <2>1. th[t].pc = "open" /\ Enter(t, "opening")
        /\ emu' = [stat |-> "working", op |-> "open", handle |-> None]
    BY <1>3 DEF OpenBegin, Issue
  <2>2. /\ th' \in [Thread -> Place] /\ th'[t].pc = "opening"
        /\ th'[t].h = th[t].h /\ th'[t].v = th[t].v
        /\ \A u \in Thread : u # t => th'[u] = th[u]
    BY <1>2, <2>1, GotoStep
  <2>3. th[t].v = None
    BY <2>1 DEF IInv, VnodeShape, Holding, Reclaiming
  <2> QED
    BY <1>1, <2>1, <2>2, <2>3, BeginInv DEF Waiting, Handing, Holding, Reclaiming, OpOf
<1>4. CASE UndoBegin(t)
  <2>1. th[t].pc = "undo" /\ Enter(t, "undoing")
        /\ emu' = [stat |-> "working", op |-> "close", handle |-> th[t].h]
    BY <1>4 DEF UndoBegin, Issue
  <2>2. /\ th' \in [Thread -> Place] /\ th'[t].pc = "undoing"
        /\ th'[t].h = th[t].h /\ th'[t].v = th[t].v
        /\ \A u \in Thread : u # t => th'[u] = th[u]
    BY <1>2, <2>1, GotoStep DEF Handing
  <2>3. th[t].v = None /\ th[t].h # None /\ th[t].h \in Hand \cup {None}
    BY <1>2, <2>1, PlaceFields DEF IInv, VnodeShape, HandShape, Holding, Reclaiming, Handing
  <2> QED
    BY <1>1, <2>1, <2>2, <2>3, BeginInv DEF Waiting, Handing, Holding, Reclaiming, OpOf
<1>5. CASE IoBegin(t)
  <2>1. th[t].pc \in {"idle", "more"} /\ th[t].v # None /\ Enter(t, "io")
        /\ emu' = [stat |-> "working", op |-> "io", handle |-> vnodes[th[t].v].handle]
    BY <1>5 DEF IoBegin, Issue
  <2>2. /\ th' \in [Thread -> Place] /\ th'[t].pc = "io"
        /\ th'[t].h = th[t].h /\ th'[t].v = th[t].v
        /\ \A u \in Thread : u # t => th'[u] = th[u]
    BY <1>2, <2>1, GotoStep DEF Holding
  <2>3. PICK c \in Cell : c = th[t].v
    BY <1>2, <2>1, PlaceFields
  <2>4. vnodes[c].handle # None /\ vnodes[c].handle \in Hand \cup {None}
    BY <1>2, <2>3, UsersCount, UsersFinite, SMT DEF IInv, VnodeShape, TypeOK
  <2> QED
    BY <1>1, <2>1, <2>2, <2>3, <2>4, BeginInv DEF Waiting, Handing, Holding, Reclaiming, OpOf
<1> QED
  BY <1>3, <1>4, <1>5

\* A vnode that somebody has is there, and counts at least that.
LEMMA HasVnode ==
    ASSUME Names, IInv, NEW t \in Thread, th[t].v # None
    PROVE  /\ th[t].v \in Cell /\ vnodes[th[t].v].handle \in Hand
           /\ vnodes[th[t].v].refs \in Nat \ {0}
           /\ vnodes[th[t].v].refs = 1 => \A u \in Thread : th[u].v = th[t].v => u = t
<1>1. PICK c \in Cell : c = th[t].v
  BY PlaceFields DEF IInv, TypeOK
<1>2. Cardinality(Users(c)) > 0 /\ Cardinality(Users(c)) \in Nat
      /\ (Cardinality(Users(c)) <= 1 => \A u \in Thread : th[u].v = c => u = t)
  BY <1>1, UsersCount, UsersFinite
<1>3. vnodes[c].refs \in Nat /\ vnodes[c].handle \in Hand \cup {None}
  BY DEF IInv, TypeOK
<1>4. /\ Cardinality(Users(c)) <= vnodes[c].refs
      /\ vnodes[c].handle = None => vnodes[c].refs = 0
  BY DEF IInv, VnodeShape
<1> QED
  BY <1>1, <1>2, <1>3, <1>4, SMT

\* A thread goes on, with the vnode that it has, and counts nothing.
LEMMA MoveInv ==
    ASSUME Names, IInv, NEW t \in Thread, th' \in [Thread -> Place],
           \A u \in Thread : u # t => th'[u] = th[u],
           th[t].pc \notin Waiting, th'[t].pc \notin Waiting,
           th'[t].h = th[t].h, th'[t].v = th[t].v,
           th'[t].pc \in Handing <=> th[t].pc \in Handing,
           th'[t].pc \in Holding => th[t].v # None,
           th'[t].pc \notin Holding \cup {"idle"} => th[t].v = None,
           th'[t].pc \in Reclaiming => \A u \in Thread : th[u].v = th[t].v => u = t,
           UNCHANGED <<e_lock, e_sem, e_result, emu, opened, vnodes, lost, emu_panicked>>
    PROVE  IInv'
<1>1. \A u \in Thread : th'[u].v = th[u].v
  OBVIOUS
<1>2. \A c \in Cell : /\ vnodes'[c].handle = vnodes[c].handle
                      /\ vnodes[c].handle = None => vnodes'[c].refs = 0
                      /\ Cardinality(Users(c)') <= vnodes'[c].refs
  BY <1>1, UsersSame, SMT DEF IInv, VnodeShape
<1>3. \A u \in Thread : th[u].pc \in Reclaiming /\ u # t => th'[t].v # th[u].v
  BY <1>1, SMT DEF IInv, VnodeShape
<1>4. vnodes' \in [Cell -> [handle : Hand \cup {None}, refs : Nat]]
  BY DEF IInv, TypeOK
<1>5. th'[t].pc \in Reclaiming => \A u \in Thread : th'[u].v = th'[t].v => u = t
  BY <1>1
<1> QED
  BY <1>1, <1>2, <1>3, <1>4, <1>5, RefInv

\* Steps that leave the vnodes and the threads' references to them alone.
LEMMA VnodesKept ==
    ASSUME IInv, UNCHANGED <<opened, vnodes>>,
           \A u \in Thread :
               /\ th'[u].v = th[u].v
               /\ th'[u].pc = "closing" <=> th[u].pc = "closing"
               /\ th'[u].pc \in Reclaiming => th[u].pc \in Reclaiming
               /\ th'[u].pc \in Holding => th'[u].v # None
               /\ th'[u].pc # "idle" /\ th'[u].pc \notin Holding => th'[u].v = None
    PROVE  VnodeShape'
<1>1. \A c : Users(c)' = Users(c)
  BY UsersSame
<1>2. VnodeShape
  BY DEF IInv
<1>3. ASSUME NEW c \in Cell
      PROVE  /\ vnodes[c].handle = None => vnodes[c].refs = 0
             /\ Cardinality(Users(c)') <= vnodes[c].refs
             /\ \/ vnodes[c].handle \in opened \cup {None}
                \/ \E t \in Thread : th'[t].pc = "closing" /\ th'[t].v = c
             /\ \A d \in Cell : vnodes[d].handle = vnodes[c].handle /\ d # c =>
                                    vnodes[c].handle = None
  BY <1>1, <1>2, SMT DEF VnodeShape
<1>4. ASSUME NEW t \in Thread, th'[t].pc \in Reclaiming, NEW u \in Thread, th'[u].v = th'[t].v
      PROVE  u = t
  BY <1>2, <1>4, SMT DEF VnodeShape
<1> QED
  BY <1>3, <1>4 DEF VnodeShape

\* Steps of the card leave handles and vnodes with who has them.
LEMMA ShapesKept ==
    ASSUME IInv, UNCHANGED <<opened, vnodes, th>>
    PROVE  HandShape' /\ VnodeShape'
<1>1. HandShape'
  <2>1. HandShape /\ opened' = opened /\ vnodes' = vnodes /\ th' = th
    BY DEF IInv
  <2> QED
    BY <2>1 DEF HandShape
<1>2. \A u \in Thread :
          /\ th[u].pc \in Holding => th[u].v # None
          /\ th[u].pc # "idle" /\ th[u].pc \notin Holding => th[u].v = None
  BY DEF IInv, VnodeShape
<1>3. VnodeShape'
  BY <1>2, VnodesKept
<1> QED
  BY <1>1, <1>3

\* vfs_lookup or VOP_CREAT calls emu_open.
LEMMA CallInv == ASSUME Names, IInv, NEW t \in Thread, Lookup(t) \/ Creat(t) PROVE IInv'
<1>1. /\ th[t].pc = "idle" /\ th[t].v = None
      /\ UNCHANGED <<e_lock, e_sem, e_result, emu, opened, vnodes, lost, emu_panicked>>
  BY DEF Lookup, Creat
<1>2. PICK k \in {"lookup", "creat"} : th' = [th EXCEPT ![t].pc = "open", ![t].call = k]
  BY DEF Lookup, Creat
<1> DEFINE w == [th[t] EXCEPT !.pc = "open"]
           r == [w EXCEPT !.call = k]
<1>3. th \in [Thread -> Place] /\ th[t] \in Place
  BY DEF IInv, TypeOK
<1>4. w \in Place /\ w.pc = "open" /\ w.h = th[t].h /\ w.v = th[t].v
  BY <1>3 DEF Place
<1> HIDE DEF w
<1>5. r \in Place /\ r.pc = "open" /\ r.h = th[t].h /\ r.v = th[t].v
  BY <1>4 DEF Place
<1>6. th' = [th EXCEPT ![t] = r]
  BY <1>2, <1>3 DEF w
<1> HIDE DEF r
<1>7. /\ th' \in [Thread -> Place] /\ th'[t] = r /\ \A u \in Thread : u # t => th'[u] = th[u]
  BY <1>3, <1>5, <1>6
<1> QED
  BY <1>1, <1>5, <1>7, MoveInv DEF Waiting, Handing, Holding, Reclaiming

\* emufs_loadvnode and emufs_reclaim take vfs_biglock; emufs_loadvnode fails.
LEMMA GoesInv ==
    ASSUME Names, IInv, NEW t \in Thread, LoadBegin(t) \/ LoadFails(t) \/ ReclaimBegin(t)
    PROVE  IInv'
<1>1. UNCHANGED <<e_lock, e_sem, e_result, emu, opened, vnodes, lost, emu_panicked>>
  BY DEF LoadBegin, LoadFails, ReclaimBegin
<1>2. TypeOK
  BY DEF IInv
<1>3. CASE LoadBegin(t) \/ LoadFails(t)
  <2>1. PICK p \in {"loading", "undo"} : Enter(t, p) /\ th[t].pc \in {"load", "loading"}
    BY <1>3 DEF LoadBegin, LoadFails
  <2>2. /\ th' \in [Thread -> Place]
        /\ th'[t].pc = p /\ th'[t].h = th[t].h /\ th'[t].v = th[t].v
        /\ \A u \in Thread : u # t => th'[u] = th[u]
    BY <1>2, <2>1, GotoStep DEF Handing
  <2>3. th[t].v = None
    BY <2>1 DEF IInv, VnodeShape, Holding, Reclaiming
  <2> QED
    BY <1>1, <2>1, <2>2, <2>3, MoveInv DEF Waiting, Handing, Holding, Reclaiming
<1>4. CASE ReclaimBegin(t)
  <2>1. Enter(t, "reclaiming") /\ th[t].pc = "reclaim"
    BY <1>4 DEF ReclaimBegin
  <2>2. /\ th' \in [Thread -> Place]
        /\ th'[t].pc = "reclaiming" /\ th'[t].h = th[t].h /\ th'[t].v = th[t].v
        /\ \A u \in Thread : u # t => th'[u] = th[u]
    BY <1>2, <2>1, GotoStep DEF Holding, Reclaiming
  <2>3. th[t].v # None /\ \A u \in Thread : th[u].v = th[t].v => u = t
    BY <2>1 DEF IInv, VnodeShape, Holding, Reclaiming
  <2> QED
    BY <1>1, <2>1, <2>2, <2>3, MoveInv DEF Waiting, Handing, Holding, Reclaiming
<1> QED
  BY <1>3, <1>4

\* A reference goes that is not the last.
LEMMA DropInv ==
    ASSUME Names, IInv, NEW t \in Thread, th[t].pc \in {"idle", "reclaiming"}, th[t].v # None,
           vnodes[th[t].v].refs > 1,
           vnodes' = [vnodes EXCEPT ![th[t].v].refs = @ - 1], Leave(t, None),
           UNCHANGED <<e_lock, e_sem, e_result, emu, opened, lost, emu_panicked>>
    PROVE  IInv'
<1>1. PICK c \in Cell : c = th[t].v
  BY HasVnode
<1>2. /\ th' \in [Thread -> Place]
      /\ th'[t].pc = "idle" /\ th'[t].h = None /\ th'[t].v = None
      /\ \A u \in Thread : u # t => th'[u] = th[u]
  BY ReturnStep DEF IInv
<1>3. vnodes \in [Cell -> [handle : Hand \cup {None}, refs : Nat]]
  BY DEF IInv, TypeOK
<1>4. /\ vnodes' \in [Cell -> [handle : Hand \cup {None}, refs : Nat]]
      /\ vnodes'[c].handle = vnodes[c].handle /\ vnodes'[c].refs = vnodes[c].refs - 1
      /\ \A d \in Cell : d # c => vnodes'[d] = vnodes[d]
  BY <1>1, <1>3, SMT
<1>5. th[t].h = None /\ vnodes[c].handle # None
  BY <1>1, HasVnode DEF IInv, HandShape, Handing, Names
<1>6. ASSUME NEW d \in Cell
      PROVE  /\ vnodes'[d].handle = vnodes[d].handle
             /\ vnodes[d].handle = None => vnodes'[d].refs = 0
             /\ Cardinality(Users(d)') <= vnodes'[d].refs
  <2>1. CASE d = c
    <3>1. Cardinality(Users(c)') = Cardinality(Users(c)) - 1 /\ Cardinality(Users(c)) \in Nat
      BY <1>1, <1>2, UsersLoss, UsersFinite DEF Names
    <3>2. Cardinality(Users(c)) <= vnodes[c].refs /\ vnodes[c].refs \in Nat
      BY <1>3 DEF IInv, VnodeShape
    <3> QED
      BY <1>4, <1>5, <2>1, <3>1, <3>2, SMT
  <2>2. CASE d # c
    <3>1. Users(d)' = Users(d)
      BY <1>1, <1>2, <2>2, UsersSame DEF Names
    <3> QED
      BY <1>4, <2>2, <3>1, SMT DEF IInv, VnodeShape
  <2> QED
    BY <2>1, <2>2
<1>7. \A u \in Thread : th[u].pc \in Reclaiming /\ u # t => th'[t].v # th[u].v
  BY <1>2 DEF IInv, VnodeShape, Holding
<1> QED
  BY <1>2, <1>4, <1>5, <1>6, <1>7, RefInv DEF Waiting, Handing, Holding, Reclaiming

\* vnode_decref: a reference goes, or the last one is about to be reclaimed.
LEMMA VnodeDecrefInv == ASSUME Names, IInv, NEW t \in Thread, VnodeDecref(t) PROVE IInv'
<1>1. /\ th[t].pc = "idle" /\ th[t].v # None
      /\ UNCHANGED <<e_lock, e_sem, e_result, emu, opened, lost, emu_panicked>>
  BY DEF VnodeDecref
<1>2. CASE vnodes[th[t].v].refs > 1
  BY <1>1, <1>2, DropInv DEF VnodeDecref
<1>3. CASE ~(vnodes[th[t].v].refs > 1)
  <2>1. th' = [th EXCEPT ![t].pc = "reclaim", ![t].n = 0] /\ UNCHANGED vnodes
    BY <1>3 DEF VnodeDecref
  <2>2. \A u \in Thread : th[u].v = th[t].v => u = t
    <3>1. vnodes[th[t].v].refs = 1
      BY <1>1, <1>3, HasVnode, SMT
    <3> QED
      BY <1>1, <3>1, HasVnode
  <2> DEFINE w == [th[t] EXCEPT !.pc = "reclaim"]
             r == [w EXCEPT !.n = 0]
  <2>3. th \in [Thread -> Place] /\ th[t] \in Place
    BY DEF IInv, TypeOK
  <2>4. w \in Place /\ w.pc = "reclaim" /\ w.h = th[t].h /\ w.v = th[t].v
    BY <2>3 DEF Place, Holding, Reclaiming
  <2> HIDE DEF w
  <2>5. r \in Place /\ r.pc = "reclaim" /\ r.h = th[t].h /\ r.v = th[t].v
    BY <2>4 DEF Place
  <2>6. th' = [th EXCEPT ![t] = r]
    BY <2>1, <2>3 DEF w
  <2> HIDE DEF r
  <2>7. /\ th' \in [Thread -> Place] /\ th'[t] = r
        /\ \A u \in Thread : u # t => th'[u] = th[u]
    BY <2>3, <2>5, <2>6
  <2> QED
    BY <1>1, <2>1, <2>2, <2>5, <2>7, MoveInv DEF Waiting, Handing, Holding, Reclaiming
<1> QED
  BY <1>2, <1>3

\* Another thread gets a reference from one that has the vnode.
LEMMA VnodeIncrefInv ==
    ASSUME Names, IInv, NEW t \in Thread, NEW u \in Thread, VnodeIncref(t, u) PROVE IInv'
<1>1. /\ th[t].pc = "idle" /\ th[t].v # None /\ th[u].pc = "idle" /\ th[u].v = None
      /\ vnodes' = [vnodes EXCEPT ![th[t].v].refs = @ + 1]
      /\ th' = [th EXCEPT ![u].v = th[t].v]
      /\ UNCHANGED <<e_lock, e_sem, e_result, emu, opened, lost, emu_panicked>>
  BY DEF VnodeIncref
<1>2. PICK c \in Cell : c = th[t].v
  BY <1>1, HasVnode
<1>3. /\ vnodes \in [Cell -> [handle : Hand \cup {None}, refs : Nat]]
      /\ th \in [Thread -> Place] /\ th[u] \in Place
  BY DEF IInv, TypeOK
<1>4. /\ vnodes' \in [Cell -> [handle : Hand \cup {None}, refs : Nat]]
      /\ vnodes'[c].handle = vnodes[c].handle /\ vnodes'[c].refs = vnodes[c].refs + 1
      /\ \A d \in Cell : d # c => vnodes'[d] = vnodes[d]
  BY <1>1, <1>2, <1>3, SMT
<1> DEFINE r == [th[u] EXCEPT !.v = c]
<1>5. r \in Place /\ r.pc = "idle" /\ r.h = th[u].h /\ r.v = c
  BY <1>1, <1>3 DEF Place
<1>6. th' = [th EXCEPT ![u] = r]
  BY <1>1, <1>2, <1>3
<1> HIDE DEF r
<1>7. th' \in [Thread -> Place] /\ th'[u] = r /\ \A w \in Thread : w # u => th'[w] = th[w]
  BY <1>3, <1>5, <1>6
<1>8. vnodes[c].handle # None
  BY <1>1, <1>2, HasVnode DEF Names
<1>9. ASSUME NEW d \in Cell
      PROVE  /\ vnodes'[d].handle = vnodes[d].handle
             /\ vnodes[d].handle = None => vnodes'[d].refs = 0
             /\ Cardinality(Users(d)') <= vnodes'[d].refs
  <2>1. CASE d = c
    <3>1. Cardinality(Users(c)') = Cardinality(Users(c)) + 1 /\ Cardinality(Users(c)) \in Nat
      BY <1>1, <1>5, <1>7, UsersGain, UsersFinite DEF Names
    <3>2. Cardinality(Users(c)) <= vnodes[c].refs /\ vnodes[c].refs \in Nat
      BY <1>3 DEF IInv, VnodeShape
    <3> QED
      BY <1>4, <1>8, <2>1, <3>1, <3>2, SMT
  <2>2. CASE d # c
    <3>1. Users(d)' = Users(d)
      BY <1>1, <1>5, <1>7, <2>2, UsersSame DEF Names
    <3> QED
      BY <1>4, <2>2, <3>1 DEF IInv, VnodeShape
  <2> QED
    BY <2>1, <2>2
<1>10. \A w \in Thread : th[w].pc \in Reclaiming /\ w # u => th'[u].v # th[w].v
  BY <1>1, <1>2, <1>5, <1>7, SMT DEF IInv, VnodeShape, Reclaiming
<1>11. /\ th[u].pc \notin Waiting /\ th'[u].pc \notin Waiting /\ th'[u].h = th[u].h
       /\ th'[u].pc \notin Handing \cup Holding /\ th[u].pc \notin Handing
       /\ th'[u].pc = "idle" /\ th'[u].pc \notin Reclaiming
  BY <1>1, <1>5, <1>7 DEF Waiting, Handing, Holding, Reclaiming
<1> QED
  BY <1>1, <1>4, <1>7, <1>9, <1>10, <1>11, RefInv, SMT

\* emufs_loadvnode makes a vnode for the handle that its caller has opened: no
\* vnode has that handle yet.
LEMMA LoadInv == ASSUME Names, IInv, NEW t \in Thread, Load(t) PROVE IInv'
<1>1. /\ th[t].pc = "loading" /\ e_lock = None
      /\ UNCHANGED <<e_lock, e_sem, e_result, emu, opened, lost, emu_panicked>>
  BY DEF Load
<1>2. PICK h \in opened : h = th[t].h /\ h # None
  BY <1>1 DEF IInv, HandShape, Handing, Names
<1>3. h \in Hand /\ (\A c \in Cell : vnodes[c].handle # h) /\ \A u \in Thread : th[u].h = h => u = t
  BY <1>1, <1>2 DEF IInv, HandShape, TypeOK
<1>4. PICK c \in Cell :
          /\ vnodes[c] = NoVnode /\ Leave(t, c)
          /\ vnodes' = [vnodes EXCEPT ![c] = [handle |-> h, refs |-> vnodes[c].refs + 1]]
  <2>1. PICK c \in Cell :
            /\ \/ vnodes[c].handle = th[t].h
               \/ vnodes[c] = NoVnode /\ \A d \in Cell : vnodes[d].handle # th[t].h
            /\ vnodes' = [vnodes EXCEPT ![c] = [handle |-> th[t].h, refs |-> @.refs + 1]]
            /\ Leave(t, c)
    BY DEF Load
  <2> QED
    BY <1>2, <1>3, <2>1
<1>5. /\ th' \in [Thread -> Place] /\ th'[t].pc = "idle" /\ th'[t].h = None /\ th'[t].v = c
      /\ \A u \in Thread : u # t => th'[u] = th[u]
  BY <1>4, ReturnStep DEF IInv
<1>6. /\ vnodes' \in [Cell -> [handle : Hand \cup {None}, refs : Nat]]
      /\ vnodes[c].handle = None /\ vnodes[c].refs = 0
      /\ vnodes'[c].handle = h /\ vnodes'[c].refs = 1
      /\ \A d \in Cell : d # c => vnodes'[d] = vnodes[d]
  BY <1>3, <1>4, SMT DEF IInv, TypeOK, NoVnode
<1>7. \A u \in Thread : th[u].v # c
  BY <1>6, HasVnode DEF Names
<1>8. TypeOK'
  BY <1>1, <1>5, <1>6 DEF IInv, TypeOK
<1>9. LockShape'
  <2>1. \A u \in Thread : th'[u].pc \in Waiting <=> th[u].pc \in Waiting
    BY <1>1, <1>5 DEF Waiting
  <2> QED
    BY <1>1, <2>1 DEF IInv, LockShape
<1>10. HandShape'
  <2> SUFFICES ASSUME NEW u \in Thread
               PROVE  /\ th'[u].h # None <=> th'[u].pc \in Handing
                      /\ th'[u].h # None =>
                             /\ th'[u].h \in opened' \/ th'[u].pc = "undoing"
                             /\ \A d \in Cell : vnodes'[d].handle # th'[u].h
                             /\ \A w \in Thread : th'[w].h = th'[u].h => w = u
    BY DEF HandShape
  <2>1. CASE u = t
    BY <1>5, <2>1 DEF Handing
  <2>2. CASE u # t
    <3>1. th'[u] = th[u] /\ th[u].h # h
      BY <1>3, <1>5, <2>2
    <3>2. /\ th[u].h # None <=> th[u].pc \in Handing
          /\ th[u].h # None =>
                 /\ th[u].h \in opened \/ th[u].pc = "undoing"
                 /\ \A d \in Cell : vnodes[d].handle # th[u].h
                 /\ \A w \in Thread : th[w].h = th[u].h => w = u
      BY DEF IInv, HandShape
    <3> QED
      BY <1>1, <1>5, <1>6, <2>2, <3>1, <3>2
  <2> QED
    BY <2>1, <2>2
<1>11. VnodeShape'
  <2>1. ASSUME NEW d \in Cell
        PROVE  /\ vnodes'[d].handle = None => vnodes'[d].refs = 0
               /\ Cardinality(Users(d)') <= vnodes'[d].refs
               /\ vnodes'[d].handle \in opened' \cup {None}
               /\ \A e \in Cell : vnodes'[e].handle = vnodes'[d].handle /\ e # d =>
                                      vnodes'[d].handle = None
    <3>1. CASE d = c
      <4>1. Cardinality(Users(c)') = Cardinality(Users(c)) + 1
        BY <1>5, <1>7, UsersGain
      <4>2. Cardinality(Users(c)) <= 0 /\ Cardinality(Users(c)) \in Nat
        BY <1>6, UsersFinite DEF IInv, VnodeShape
      <4> QED
        BY <1>1, <1>2, <1>3, <1>6, <3>1, <4>1, <4>2, SMT
    <3>2. CASE d # c
      <4>1. Users(d)' = Users(d)
        <5>1. th[t].v = None
          BY <1>1 DEF IInv, VnodeShape, Holding, Reclaiming
        <5> QED
          BY <1>5, <3>2, <5>1, UsersSame DEF Names
      <4>2. vnodes[d].handle \in opened \cup {None} /\ vnodes[d].handle # h
        BY <1>1, <1>3, Quiet
      <4>3. /\ vnodes[d].handle = None => vnodes[d].refs = 0
            /\ Cardinality(Users(d)) <= vnodes[d].refs
            /\ \A e \in Cell : vnodes[e].handle = vnodes[d].handle /\ e # d =>
                                   vnodes[d].handle = None
        BY DEF IInv, VnodeShape
      <4> QED
        BY <1>1, <1>6, <3>2, <4>1, <4>2, <4>3
    <3> QED
      BY <3>1, <3>2
  <2>2. ASSUME NEW u \in Thread
        PROVE  /\ th'[u].pc \in Holding => th'[u].v # None
               /\ th'[u].pc # "idle" /\ th'[u].pc \notin Holding => th'[u].v = None
               /\ th'[u].pc \in Reclaiming =>
                      \A w \in Thread : th'[w].v = th'[u].v => w = u
    <3>1. CASE u = t
      BY <1>5, <3>1 DEF Holding, Reclaiming
    <3>2. CASE u # t
      BY <1>5, <1>7, <3>2, SMT DEF IInv, VnodeShape
    <3> QED
      BY <3>1, <3>2
  <2> QED
    BY <2>1, <2>2 DEF VnodeShape
<1>12. ASSUME NEW k \in opened' PROVE Claimed(k)'
  <2>1. Claimed(k) /\ k # None
    BY <1>1 DEF IInv, TypeOK, Names
  <2> QED
    BY <1>1, <1>2, <1>5, <1>6, <2>1, SMT DEF Claimed
<1> QED
  BY <1>1, <1>8, <1>9, <1>10, <1>11, <1>12 DEF IInv

\* Somebody has the vnode again, or emu_close of its handle begins.
LEMMA ReclaimCloseInv == ASSUME Names, IInv, NEW t \in Thread, ReclaimClose(t) PROVE IInv'
<1>1. /\ th[t].pc = "reclaiming" /\ e_lock = None
      /\ UNCHANGED <<e_sem, e_result, opened, lost, emu_panicked>>
  BY DEF ReclaimClose
<1>2. th[t].v # None
  BY <1>1 DEF IInv, VnodeShape, Holding, Reclaiming
<1>3. CASE vnodes[th[t].v].refs > 1
  <2>1. /\ vnodes' = [vnodes EXCEPT ![th[t].v].refs = @ - 1] /\ Leave(t, None)
        /\ UNCHANGED <<e_lock, emu>>
    BY <1>3 DEF ReclaimClose
  <2> QED
    BY <1>1, <1>2, <1>3, <2>1, DropInv
<1>4. CASE ~(vnodes[th[t].v].refs > 1)
  <2>1. /\ e_lock' = t /\ Enter(t, "closing") /\ UNCHANGED vnodes
        /\ emu' = [stat |-> "working", op |-> "close", handle |-> vnodes[th[t].v].handle]
    BY <1>4 DEF ReclaimClose, Issue
  <2>2. /\ th' \in [Thread -> Place] /\ th'[t].pc = "closing"
        /\ th'[t].h = th[t].h /\ th'[t].v = th[t].v
        /\ \A u \in Thread : u # t => th'[u] = th[u]
    BY <2>1, GotoStep DEF IInv, Holding, Reclaiming
  <2>3. vnodes[th[t].v].handle \in Hand /\ vnodes[th[t].v].handle # None
    BY <1>2, HasVnode DEF Names
  <2> QED
    BY <1>1, <1>2, <2>1, <2>2, <2>3, BeginInv DEF Waiting, Handing, Holding, Reclaiming, OpOf
<1> QED
  BY <1>3, <1>4

----------------------------------------------------------------------------
(* The card answers *)

\* emu_irq hands the answer on to whoever has e_lock.
LEMMA emu_irqInv == ASSUME Names, IInv, emu_irq PROVE IInv'
<1>1. /\ emu.stat \notin {"idle", "working"} /\ e_result' = emu.stat
      /\ emu' = [emu EXCEPT !.stat = "idle"] /\ e_sem' = e_sem + 1
      /\ UNCHANGED <<e_lock, opened, vnodes, th, lost, emu_panicked>>
  BY DEF emu_irq
<1>2. /\ emu'.stat = "idle" /\ emu'.op = emu.op /\ emu'.handle = emu.handle
      /\ emu' \in [stat : {"idle", "working", "ok", "EIO", "BADHANDLE"},
                    op : {"open", "close", "io", None}, handle : Hand \cup {None}]
      /\ e_result' \in {"ok", "EIO", "BADHANDLE"}
  BY <1>1 DEF IInv, TypeOK
<1>3. e_sem = 0 /\ e_lock # None
  BY <1>1 DEF IInv, LockShape, TypeOK
<1>4. TypeOK'
  BY <1>1, <1>2, <1>3, SMT DEF IInv, TypeOK
<1>5. LockShape'
  BY <1>1, <1>2, <1>3, SMT DEF IInv, LockShape
<1>6. HandShape' /\ VnodeShape'
  BY <1>1, ShapesKept
<1>7. Answer' = Answer
  BY <1>1, <1>2 DEF Answer
<1>8. Unclaimed(emu.handle)' <=> Unclaimed(emu.handle)
  BY <1>1, <1>2 DEF Unclaimed
<1>9. Asked(e_lock)' = Asked(e_lock)
  BY <1>1 DEF Asked
<1>10. Serves(e_lock)'
  <2>1. Serves(e_lock)
    BY <1>3 DEF IInv
  <2> QED
    BY <1>1, <1>2, <1>7, <1>8, <1>9, <2>1 DEF Serves
<1>11. \A h \in opened' : Claimed(h)'
  BY <1>1, <1>2 DEF IInv, Claimed
<1> QED
  BY <1>4, <1>5, <1>6, <1>10, <1>11 DEF IInv

\* The card does the operation of whoever has e_lock: the handle of that is open.
LEMMA CompleteInv == ASSUME Names, IInv, EmuComplete PROVE IInv'
<1> DEFINE Cards == [stat : {"idle", "working", "ok", "EIO", "BADHANDLE"},
                     op : {"open", "close", "io", None}, handle : Hand \cup {None}]
<1>1. emu.stat = "working" /\ UNCHANGED <<e_lock, e_sem, e_result, vnodes, th, lost, emu_panicked>>
  BY DEF EmuComplete
<1>2. PICK t \in Thread : t = e_lock /\ th[t].pc \in Waiting /\ Serves(t)
  BY <1>1 DEF IInv, LockShape, TypeOK
<1>3. emu \in Cards /\ opened \in SUBSET Hand
  BY DEF IInv, TypeOK
<1>4. /\ Answer = "working" /\ emu.op = OpOf(th[t].pc)
      /\ th[t].pc = "opening" => emu.handle = None
      /\ th[t].pc # "opening" => emu.handle = Asked(t) /\ emu.handle \in opened
  BY <1>1, <1>2 DEF Serves, Answer
<1>5. emu.op = "open" <=> th[t].pc = "opening"
  BY <1>4 DEF OpOf
<1>6. \A u \in Thread : th[u].pc \in Waiting => u = t
  BY <1>2 DEF IInv, LockShape
<1>7. ASSUME emu'.stat \in {"ok", "EIO"}, emu' \in Cards, opened' \in SUBSET Hand,
             HandShape', VnodeShape', Serves(t)', \A k \in opened' : Claimed(k)'
      PROVE  IInv'
  <2>1. TypeOK'
    BY <1>1, <1>7 DEF IInv, TypeOK
  <2>2. LockShape'
    BY <1>1, <1>2, <1>7 DEF IInv, LockShape
  <2> QED
    BY <1>1, <1>2, <1>7, <2>1, <2>2 DEF IInv
<1>8. ASSUME NEW h \in Hand \ opened, emu.op = "open", opened' = opened \cup {h},
             emu' = [emu EXCEPT !.stat = "ok", !.handle = h]
      PROVE  IInv'
  <2>1. /\ emu'.stat = "ok" /\ emu'.op = emu.op /\ emu'.handle = h /\ emu' \in Cards
        /\ opened' \in SUBSET Hand /\ th[t].pc = "opening"
    <3> DEFINE w == [emu EXCEPT !.stat = "ok"]
    <3>1. w \in Cards /\ w.stat = "ok" /\ w.op = emu.op
      BY <1>3
    <3>2. emu' = [w EXCEPT !.handle = h]
      BY <1>8
    <3> HIDE DEF w
    <3> QED
      BY <1>3, <1>5, <1>8, <3>1, <3>2
  <2>2. \A u \in Thread : th[u].pc # "closing" /\ th[u].pc # "undoing"
    BY <1>6, <2>1 DEF Waiting
  <2>3. (\A c \in Cell : vnodes[c].handle # h) /\ \A u \in Thread : th[u].h # h
    BY <2>2 DEF IInv, VnodeShape, HandShape, Names
  <2>4. HandShape' /\ VnodeShape'
    BY <1>1, <1>8, SMT DEF IInv, HandShape, VnodeShape, Users
  <2>5. Serves(t)'
    BY <1>1, <1>4, <1>8, <2>1, <2>3 DEF Serves, Answer, Unclaimed, Asked
  <2>6. ASSUME NEW k \in opened' PROVE Claimed(k)'
    <3>1. CASE k = h
      BY <1>1, <1>2, <2>1, <3>1 DEF Claimed, Names
    <3>2. CASE k # h
      <4>1. Claimed(k) /\ k # None
        BY <1>8, <3>2 DEF IInv, TypeOK, Names
      <4> QED
        BY <1>1, <1>2, <1>4, <2>1, <4>1, SMT DEF Claimed
    <3> QED
      BY <3>1, <3>2
  <2> QED
    BY <1>7, <2>1, <2>4, <2>5, <2>6
<1>9. ASSUME emu.op # "open", emu' = [emu EXCEPT !.stat = "ok"],
             opened' = IF emu.op = "close" THEN opened \ {emu.handle} ELSE opened
      PROVE  IInv'
  <2>1. /\ emu'.stat = "ok" /\ emu'.op = emu.op /\ emu'.handle = emu.handle
        /\ emu' \in Cards /\ opened' \in SUBSET Hand /\ opened' \subseteq opened
        /\ th[t].pc # "opening" /\ emu.handle = Asked(t) /\ emu.handle \in opened
    BY <1>3, <1>4, <1>5, <1>9
  <2>2. emu.op = "close" <=> th[t].pc \in {"undoing", "closing"}
    BY <1>2, <1>4, <2>1 DEF OpOf, Waiting
  <2>3. th[t].pc \in {"io", "closing"} => th[t].v \in Cell /\ emu.handle = vnodes[th[t].v].handle
    BY <2>1, HasVnode DEF IInv, VnodeShape, Holding, Reclaiming, Asked
  <2>4. HandShape'
    <3> SUFFICES ASSUME NEW u \in Thread, th[u].h # None
                 PROVE  th[u].h \in opened' \/ th[u].pc = "undoing"
      BY <1>1 DEF IInv, HandShape
    <3>1. CASE th[t].pc = "undoing"
      <4>1. emu.handle = th[t].h
        BY <2>1, <3>1 DEF Asked
      <4> QED
        BY <1>9, <3>1, <4>1 DEF IInv, HandShape
    <3>2. CASE th[t].pc \in {"io", "closing"}
      BY <1>9, <2>3, <3>2 DEF IInv, HandShape
    <3> QED
      BY <1>2, <2>1, <3>1, <3>2 DEF Waiting
  <2>5. VnodeShape'
    <3> SUFFICES ASSUME NEW c \in Cell
                 PROVE  \/ vnodes[c].handle \in opened' \cup {None}
                        \/ \E u \in Thread : th[u].pc = "closing" /\ th[u].v = c
      BY <1>1 DEF IInv, VnodeShape, Users
    <3>1. CASE th[t].pc = "undoing"
      <4>1. emu.handle = th[t].h /\ vnodes[c].handle # th[t].h
        BY <2>1, <3>1 DEF Asked, IInv, HandShape, Handing
      <4> QED
        BY <1>9, <4>1 DEF IInv, VnodeShape
    <3>2. CASE th[t].pc = "closing"
      BY <1>9, <2>3, <3>2, SMT DEF IInv, VnodeShape
    <3>3. CASE th[t].pc = "io"
      BY <1>9, <2>2, <3>3 DEF IInv, VnodeShape
    <3> QED
      BY <1>2, <2>1, <3>1, <3>2, <3>3 DEF Waiting
  <2>6. Serves(t)'
    <3>1. Asked(t)' = Asked(t) /\ Answer' = "ok"
      BY <1>1, <2>1 DEF Asked, Answer
    <3>2. emu'.handle \in opened' <=> ~(emu'.op = "close")
      BY <1>9, <2>1
    <3>3. emu'.handle # None
      BY <1>3, <2>1 DEF Names
    <3> QED
      BY <1>1, <1>4, <2>1, <3>1, <3>2, <3>3 DEF Serves
  <2>7. ASSUME NEW k \in opened' PROVE Claimed(k)'
    <3>1. Claimed(k)
      BY <2>1 DEF IInv
    <3> QED
      BY <1>1, <2>1, <3>1 DEF Claimed
  <2> QED
    BY <1>7, <2>1, <2>4, <2>5, <2>6, <2>7
<1>10. ASSUME emu' = [emu EXCEPT !.stat = "EIO"], opened' = opened PROVE IInv'
  <2>1. /\ emu'.stat = "EIO" /\ emu'.op = emu.op /\ emu'.handle = emu.handle
        /\ emu' \in Cards
    BY <1>3, <1>10
  <2>2. HandShape' /\ VnodeShape'
    BY <1>1, <1>10, ShapesKept
  <2>3. Serves(t)'
    <3>1. Asked(t)' = Asked(t) /\ Answer' = "EIO"
      BY <1>1, <2>1 DEF Asked, Answer
    <3>2. th[t].pc # "opening" => emu.handle # None
      BY <1>3, <1>4 DEF Names
    <3> QED
      BY <1>1, <1>4, <1>10, <2>1, <3>1, <3>2 DEF Serves
  <2>4. \A k \in opened' : Claimed(k)'
    BY <1>1, <1>10, <2>1 DEF IInv, Claimed
  <2> QED
    BY <1>3, <1>7, <1>10, <2>1, <2>2, <2>3, <2>4
<1>11. \/ /\ emu.op = "open"
          /\ \E h \in Hand \ opened : /\ opened' = opened \cup {h}
                                      /\ emu' = [emu EXCEPT !.stat = "ok", !.handle = h]
       \/ /\ emu.op # "open" /\ emu' = [emu EXCEPT !.stat = "ok"]
          /\ opened' = IF emu.op = "close" THEN opened \ {emu.handle} ELSE opened
       \/ emu' = [emu EXCEPT !.stat = "EIO"] /\ opened' = opened
  BY <1>4, <1>5 DEF EmuComplete
<1> QED
  BY <1>8, <1>9, <1>10, <1>11

----------------------------------------------------------------------------
(* emu_waitdone *)

\* Whoever comes out of emu_waitdone has e_lock and the answer to its operation,
\* which is no panic of translate_err.
LEMMA Answered ==
    ASSUME Names, IInv, NEW t \in Thread, NEW pc \in Waiting, emu_waitdone(t, pc)
    PROVE  /\ th[t].pc = pc /\ e_lock = t /\ e_sem' = 0 /\ emu.stat = "idle"
           /\ Serves(t) /\ e_result \in {"ok", "EIO"} /\ Answer = e_result
           /\ emu_panicked' = emu_panicked
           /\ \A u \in Thread : th[u].pc \in Waiting => u = t
<1>1. /\ th[t].pc = pc /\ e_sem > 0 /\ e_sem' = e_sem - 1
      /\ emu_panicked' = (emu_panicked \/ e_result = "BADHANDLE")
  BY DEF emu_waitdone
<1>2. /\ e_lock = t /\ e_sem = 1 /\ emu.stat = "idle"
      /\ \A u \in Thread : th[u].pc \in Waiting => u = t
  BY <1>1, SMT DEF IInv, LockShape, TypeOK
<1>3. Serves(t) /\ Answer = e_result
  BY <1>2 DEF IInv, Names, Answer
<1>4. e_result \in {"ok", "EIO"}
  BY <1>2, <1>3 DEF Serves, IInv, TypeOK
<1>5. emu_panicked = FALSE
  BY DEF IInv, TypeOK
<1>6. e_result # "BADHANDLE" /\ e_sem' = 0
  BY <1>1, <1>2, <1>4, SMT
<1>7. emu_panicked' = emu_panicked
  BY <1>1, <1>5, <1>6
<1> QED
  BY <1>1, <1>2, <1>3, <1>4, <1>6, <1>7

\* A thread gives e_lock up, with the card at rest.
LEMMA ReleaseInv ==
    ASSUME Names, IInv, NEW t \in Thread, e_lock = t, emu.stat = "idle", e_lock' = None,
           e_sem' = 0, UNCHANGED <<e_result, emu, opened, emu_panicked>>,
           th' \in [Thread -> Place], th'[t].pc \notin Waiting,
           \A u \in Thread : u # t => th'[u] = th[u],
           vnodes' \in [Cell -> [handle : Hand \cup {None}, refs : Nat]],
           HandShape', VnodeShape', \A h \in opened : Claimed(h)'
    PROVE  IInv'
<1>1. TypeOK'
  BY DEF IInv, TypeOK
<1>2. LockShape'
  BY SMT DEF IInv, LockShape, Names
<1> QED
  BY <1>1, <1>2 DEF IInv

\* A thread asks the card for the same again.
LEMMA AgainInv ==
    ASSUME Names, IInv, NEW t \in Thread, th[t].pc \in {"undoing", "closing"},
           emu_waitdone(t, th[t].pc), e_result # "ok", Issue("close", Asked(t)),
           th' = [th EXCEPT ![t].n = @ + 1],
           UNCHANGED <<e_lock, e_result, opened, vnodes, lost>>
    PROVE  IInv'
<1>1. /\ e_lock = t /\ e_sem' = 0 /\ Serves(t) /\ Answer # "ok"
      /\ emu_panicked' = emu_panicked /\ \A u \in Thread : th[u].pc \in Waiting => u = t
  BY Answered DEF Waiting
<1>2. /\ emu.handle = Asked(t) /\ emu.handle \in opened /\ emu.handle # None
      /\ emu.handle \in Hand \cup {None}
  BY <1>1 DEF Serves, IInv, TypeOK
<1>3. /\ emu'.stat = "working" /\ emu'.op = "close" /\ emu'.handle = Asked(t)
      /\ emu' \in [stat : {"idle", "working", "ok", "EIO", "BADHANDLE"},
                    op : {"open", "close", "io", None}, handle : Hand \cup {None}]
  BY <1>2 DEF Issue
<1> DEFINE r == [th[t] EXCEPT !.n = @ + 1]
<1>4. th \in [Thread -> Place] /\ th[t] \in Place
  BY DEF IInv, TypeOK
<1>5. r \in Place /\ r.pc = th[t].pc /\ r.h = th[t].h /\ r.v = th[t].v
  BY <1>4, SMT DEF Place
<1>6. th' = [th EXCEPT ![t] = r]
  BY <1>4
<1> HIDE DEF r
<1>7. /\ th' \in [Thread -> Place]
      /\ \A u \in Thread : th'[u].pc = th[u].pc /\ th'[u].h = th[u].h /\ th'[u].v = th[u].v
  BY <1>4, <1>5, <1>6
<1>8. TypeOK'
  BY <1>1, <1>3, <1>7 DEF IInv, TypeOK
<1>9. LockShape'
  BY <1>1, <1>3, <1>7, SMT DEF IInv, LockShape, Names
<1>10. HandShape'
  BY <1>7, SMT DEF IInv, HandShape
<1>11. VnodeShape'
  <2>1. \A c \in Cell : Users(c)' = Users(c)
    BY <1>7, UsersSame
  <2> QED
    BY <1>7, <2>1, SMT DEF IInv, VnodeShape
<1>12. Serves(t)'
  <2>1. Asked(t)' = Asked(t) /\ Answer' = "working"
    BY <1>3, <1>7 DEF Asked, Answer
  <2> QED
    BY <1>2, <1>3, <1>7, <2>1 DEF Serves, OpOf
<1>13. ASSUME NEW k \in opened' PROVE Claimed(k)'
  <2>1. Claimed(k)
    BY DEF IInv
  <2> QED
    BY <1>1, <1>7, <2>1 DEF Claimed
<1> QED
  BY <1>1, <1>8, <1>9, <1>10, <1>11, <1>12, <1>13 DEF IInv

\* emu_open has a new handle for the thread, or the call is over.
LEMMA OpenEndInv == ASSUME Names, IInv, NEW t \in Thread, OpenEnd(t) PROVE IInv'
<1>1. /\ th[t].pc = "opening" /\ e_lock = t /\ e_sem' = 0 /\ emu.stat = "idle"
      /\ Serves(t) /\ Answer = e_result /\ emu_panicked' = emu_panicked
      /\ \A u \in Thread : th[u].pc \in Waiting => u = t
  BY Answered DEF OpenEnd, Waiting
<1>2. e_lock' = None /\ UNCHANGED <<e_result, emu, opened, vnodes, lost>>
  BY DEF OpenEnd
<1>3. th[t].h = None /\ th[t].v = None
  BY <1>1 DEF IInv, HandShape, VnodeShape, Handing, Holding, Reclaiming
<1>4. /\ th \in [Thread -> Place] /\ th[t] \in Place
      /\ vnodes' \in [Cell -> [handle : Hand \cup {None}, refs : Nat]]
  BY <1>2 DEF IInv, TypeOK
<1>5. CASE e_result = "ok"
  <2>1. th' = [th EXCEPT ![t].pc = "load", ![t].h = emu.handle]
    BY <1>5 DEF OpenEnd
  <2>2. emu.handle \in opened /\ emu.handle \in Hand /\ Unclaimed(emu.handle)
    BY <1>1, <1>5 DEF Serves, IInv, TypeOK
  <2> DEFINE w == [th[t] EXCEPT !.pc = "load"]
             r == [w EXCEPT !.h = emu.handle]
  <2>3. w \in Place /\ w.pc = "load" /\ w.v = th[t].v
    BY <1>4 DEF Place, Handing
  <2> HIDE DEF w
  <2>4. r \in Place /\ r.pc = "load" /\ r.h = emu.handle /\ r.v = None
    BY <1>3, <2>2, <2>3 DEF Place
  <2>5. th' = [th EXCEPT ![t] = r]
    BY <1>4, <2>1 DEF w
  <2> HIDE DEF r
  <2>6. /\ th' \in [Thread -> Place] /\ th'[t] = r
        /\ \A u \in Thread : u # t => th'[u] = th[u]
    BY <1>4, <2>4, <2>5
  <2>7. HandShape'
    <3> SUFFICES ASSUME NEW u \in Thread
                 PROVE  /\ th'[u].h # None <=> th'[u].pc \in Handing
                        /\ th'[u].h # None =>
                               /\ th'[u].h \in opened' \/ th'[u].pc = "undoing"
                               /\ \A d \in Cell : vnodes'[d].handle # th'[u].h
                               /\ \A x \in Thread : th'[x].h = th'[u].h => x = u
      BY DEF HandShape
    <3>1. CASE u = t
      BY <1>2, <2>2, <2>4, <2>6, <3>1 DEF Handing, Unclaimed, Names
    <3>2. CASE u # t
      BY <1>2, <2>2, <2>4, <2>6, <3>2, SMT DEF IInv, HandShape, Unclaimed
    <3> QED
      BY <3>1, <3>2
  <2>8. VnodeShape'
    <3>1. ASSUME NEW u \in Thread
          PROVE  /\ th'[u].v = th[u].v
                 /\ th'[u].pc = "closing" <=> th[u].pc = "closing"
                 /\ th'[u].pc \in Reclaiming => th[u].pc \in Reclaiming
                 /\ th'[u].pc \in Holding => th'[u].v # None
                 /\ th'[u].pc # "idle" /\ th'[u].pc \notin Holding => th'[u].v = None
      <4>1. CASE u = t
        BY <1>1, <1>3, <2>4, <2>6, <4>1 DEF Holding, Reclaiming
      <4>2. CASE u # t
        BY <2>6, <4>2 DEF IInv, VnodeShape
      <4> QED
        BY <4>1, <4>2
    <3> QED
      BY <1>2, <3>1, VnodesKept
  <2>9. ASSUME NEW k \in opened PROVE Claimed(k)'
    <3>1. Claimed(k)
      BY DEF IInv
    <3> QED
      BY <1>1, <1>2, <1>3, <2>4, <2>6, <3>1, SMT DEF Claimed, IInv, TypeOK, Names
  <2> QED
    BY <1>1, <1>2, <1>4, <2>4, <2>6, <2>7, <2>8, <2>9, ReleaseInv DEF Waiting
<1>6. CASE e_result # "ok"
  <2>1. Leave(t, None)
    BY <1>6 DEF OpenEnd
  <2>2. /\ th' \in [Thread -> Place] /\ th'[t].pc = "idle" /\ th'[t].h = None /\ th'[t].v = None
        /\ \A u \in Thread : u # t => th'[u] = th[u]
    BY <2>1, ReturnStep DEF IInv
  <2>3. \A u \in Thread : th'[u].h = th[u].h /\ th'[u].v = th[u].v
    BY <1>3, <2>2
  <2>4. HandShape'
    <3>1. \A u \in Thread : /\ th'[u].pc \in Handing <=> th[u].pc \in Handing
                            /\ th'[u].pc = "undoing" <=> th[u].pc = "undoing"
      BY <1>1, <2>2 DEF Handing
    <3> QED
      BY <1>2, <2>3, <3>1, SMT DEF IInv, HandShape
  <2>5. VnodeShape'
    <3>1. \A c : Users(c)' = Users(c)
      BY <2>3, UsersSame
    <3>2. \A u \in Thread : th'[u].pc = "closing" <=> th[u].pc = "closing"
      BY <1>1, <2>2
    <3> QED
      BY <1>2, <2>2, <2>3, <3>1, <3>2, SMT DEF IInv, VnodeShape, Holding, Reclaiming
  <2>6. emu.handle = None
    BY <1>1, <1>6 DEF Serves
  <2>7. ASSUME NEW k \in opened PROVE Claimed(k)'
    <3>1. Claimed(k) /\ k # None
      BY DEF IInv, TypeOK, Names
    <3> QED
      BY <1>2, <2>3, <2>6, <3>1 DEF Claimed
  <2> QED
    BY <1>1, <1>2, <1>4, <2>2, <2>4, <2>5, <2>7, ReleaseInv DEF Waiting
<1> QED
  BY <1>5, <1>6

\* emu_close after a failed emufs_loadvnode: again, or the handle is closed, or
\* it is given up.
LEMMA UndoEndInv == ASSUME Names, IInv, NEW t \in Thread, UndoEnd(t) PROVE IInv'
<1>1. /\ th[t].pc = "undoing" /\ e_lock = t /\ e_sem' = 0 /\ emu.stat = "idle"
      /\ Serves(t) /\ Answer = e_result /\ emu_panicked' = emu_panicked
      /\ \A u \in Thread : th[u].pc \in Waiting => u = t
  BY Answered DEF UndoEnd, Waiting
<1>2. UNCHANGED <<e_result, opened, vnodes>>
  BY DEF UndoEnd
<1>3. CASE Again(t)
  <2>1. Issue("close", Asked(t)) /\ emu_waitdone(t, th[t].pc) /\ e_result # "ok"
    BY <1>1, <1>3 DEF UndoEnd, Again, Asked
  <2> QED
    BY <1>1, <1>2, <1>3, <2>1, AgainInv DEF UndoEnd
<1>4. CASE ~Again(t)
  <2>1. /\ e_lock' = None /\ Leave(t, None) /\ emu' = emu
        /\ lost' = IF e_result = "ok" THEN lost ELSE lost \cup {th[t].h}
    BY <1>4 DEF UndoEnd
  <2>2. /\ th' \in [Thread -> Place] /\ th'[t].pc = "idle" /\ th'[t].h = None /\ th'[t].v = None
        /\ \A u \in Thread : u # t => th'[u] = th[u]
    BY <2>1, ReturnStep DEF IInv
  <2>3. /\ th[t].v = None
        /\ vnodes' \in [Cell -> [handle : Hand \cup {None}, refs : Nat]]
    BY <1>1, <1>2 DEF IInv, VnodeShape, Holding, Reclaiming, TypeOK
  <2>4. HandShape'
    BY <1>2, <2>2, SMT DEF IInv, HandShape, Handing
  <2>5. VnodeShape'
    <3>1. ASSUME NEW u \in Thread
          PROVE  /\ th'[u].v = th[u].v
                 /\ th'[u].pc = "closing" <=> th[u].pc = "closing"
                 /\ th'[u].pc \in Reclaiming => th[u].pc \in Reclaiming
                 /\ th'[u].pc \in Holding => th'[u].v # None
                 /\ th'[u].pc # "idle" /\ th'[u].pc \notin Holding => th'[u].v = None
      <4>1. CASE u = t
        BY <1>1, <2>2, <2>3, <4>1 DEF Holding, Reclaiming
      <4>2. CASE u # t
        BY <2>2, <4>2 DEF IInv, VnodeShape
      <4> QED
        BY <4>1, <4>2
    <3> QED
      BY <1>2, <3>1, VnodesKept
  <2>6. th[t].h \in opened <=> e_result # "ok"
    BY <1>1 DEF Serves, OpOf, Asked
  <2>7. ASSUME NEW k \in opened PROVE Claimed(k)'
    <3>1. Claimed(k) /\ k # None
      BY DEF IInv, TypeOK, Names
    <3>2. lost \subseteq lost' /\ (k = th[t].h => k \in lost')
      BY <2>1, <2>6
    <3> QED
      BY <1>1, <1>2, <2>2, <3>1, <3>2 DEF Claimed
  <2> QED
    BY <1>1, <1>2, <2>1, <2>2, <2>3, <2>4, <2>5, <2>7, ReleaseInv DEF Waiting
<1> QED
  BY <1>3, <1>4

\* A piece of a read or a write is done.
LEMMA IoEndInv == ASSUME Names, IInv, NEW t \in Thread, IoEnd(t) PROVE IInv'
<1>1. /\ th[t].pc = "io" /\ e_lock = t /\ e_sem' = 0 /\ emu.stat = "idle"
      /\ emu_panicked' = emu_panicked
  BY Answered DEF IoEnd, Waiting
<1>2. e_lock' = None /\ UNCHANGED <<e_result, emu, opened, vnodes, lost>>
  BY DEF IoEnd
<1>3. /\ th \in [Thread -> Place] /\ th[t] \in Place /\ th[t].v # None
      /\ vnodes' \in [Cell -> [handle : Hand \cup {None}, refs : Nat]]
  BY <1>1, <1>2 DEF IInv, TypeOK, VnodeShape, Holding
<1>4. /\ th' \in [Thread -> Place] /\ th'[t].pc \in {"idle", "more"}
      /\ th'[t].h = th[t].h /\ th'[t].v = th[t].v
      /\ \A u \in Thread : u # t => th'[u] = th[u]
  <2>1. CASE Enter(t, "idle")
    BY <2>1, GotoStep DEF IInv
  <2>2. CASE th' = [th EXCEPT ![t].pc = "more", ![t].n = @ + 1]
    <3> DEFINE w == [th[t] EXCEPT !.pc = "more"]
               r == [w EXCEPT !.n = @ + 1]
    <3>1. w \in Place /\ w.pc = "more" /\ w.h = th[t].h /\ w.v = th[t].v /\ w.n = th[t].n
      BY <1>3 DEF Place, Holding
    <3>2. th' = [th EXCEPT ![t] = r]
      BY <1>3, <2>2
    <3> HIDE DEF w
    <3>3. r \in Place /\ r.pc = "more" /\ r.h = th[t].h /\ r.v = th[t].v
      BY <3>1, SMT DEF Place
    <3> HIDE DEF r
    <3> QED
      BY <1>3, <3>2, <3>3
  <2> QED
    BY <2>1, <2>2 DEF IoEnd
<1>5. \A u \in Thread : /\ th'[u].h = th[u].h /\ th'[u].v = th[u].v
                        /\ th'[u].pc \in Handing <=> th[u].pc \in Handing
                        /\ th'[u].pc = "undoing" <=> th[u].pc = "undoing"
                        /\ th'[u].pc = "closing" <=> th[u].pc = "closing"
                        /\ th'[u].pc \in Reclaiming <=> th[u].pc \in Reclaiming
  BY <1>1, <1>4 DEF Handing, Reclaiming
<1>6. HandShape'
  BY <1>2, <1>5, SMT DEF IInv, HandShape
<1>7. VnodeShape'
  <2>1. \A u \in Thread : /\ th'[u].pc \in Holding => th'[u].v # None
                          /\ th'[u].pc # "idle" /\ th'[u].pc \notin Holding => th'[u].v = None
    BY <1>3, <1>4, SMT DEF IInv, VnodeShape, Holding
  <2> QED
    BY <1>2, <1>5, <2>1, VnodesKept
<1>8. ASSUME NEW k \in opened PROVE Claimed(k)'
  <2>1. Claimed(k)
    BY DEF IInv
  <2> QED
    BY <1>1, <1>2, <1>5, <2>1 DEF Claimed
<1> QED
  BY <1>1, <1>2, <1>3, <1>4, <1>6, <1>7, <1>8, ReleaseInv DEF Waiting

\* emu_close of the last reference: again, or the vnode goes, or it stays with a
\* reference that nobody has.
LEMMA ReclaimEndInv == ASSUME Names, IInv, NEW t \in Thread, ReclaimEnd(t) PROVE IInv'
<1>1. /\ th[t].pc = "closing" /\ e_lock = t /\ e_sem' = 0 /\ emu.stat = "idle"
      /\ Serves(t) /\ Answer = e_result /\ emu_panicked' = emu_panicked
      /\ \A u \in Thread : th[u].pc \in Waiting => u = t
  BY Answered DEF ReclaimEnd, Waiting
<1>2. UNCHANGED <<e_result, opened>>
  BY DEF ReclaimEnd
<1>3. CASE Again(t)
  <2>1. Issue("close", Asked(t)) /\ emu_waitdone(t, th[t].pc) /\ e_result # "ok"
    BY <1>1, <1>3 DEF ReclaimEnd, Again, Asked
  <2> QED
    BY <1>1, <1>2, <1>3, <2>1, AgainInv DEF ReclaimEnd
<1>4. CASE ~Again(t)
  <2>1. PICK v \in Cell : v = th[t].v
    BY <1>1, PlaceFields DEF IInv, TypeOK, VnodeShape, Holding, Reclaiming
  <2>2. /\ e_lock' = None /\ Leave(t, None) /\ emu' = emu
        /\ \/ e_result = "ok" /\ vnodes' = [vnodes EXCEPT ![v] = NoVnode] /\ lost' = lost
           \/ e_result # "ok" /\ vnodes' = vnodes /\ lost' = lost \cup {vnodes[v].handle}
    BY <1>4, <2>1 DEF ReclaimEnd
  <2>3. /\ th' \in [Thread -> Place] /\ th'[t].pc = "idle" /\ th'[t].h = None /\ th'[t].v = None
        /\ \A u \in Thread : u # t => th'[u] = th[u]
    BY <2>2, ReturnStep DEF IInv
  <2>4. v # None /\ th[t].h = None /\ \A u \in Thread : th[u].v = v => u = t
    BY <1>1, <2>1 DEF IInv, VnodeShape, HandShape, Reclaiming, Handing, Names
  <2>5. vnodes[v].handle \in opened <=> e_result # "ok"
    BY <1>1, <2>1 DEF Serves, OpOf, Asked
  <2>6. /\ vnodes' \in [Cell -> [handle : Hand \cup {None}, refs : Nat]]
        /\ \A d \in Cell : d # v => vnodes'[d] = vnodes[d]
        /\ e_result = "ok" => vnodes'[v].handle = None /\ vnodes'[v].refs = 0
        /\ e_result # "ok" => vnodes'[v] = vnodes[v]
    BY <2>2, <2>4, SMT DEF IInv, TypeOK, NoVnode
  <2>7. \A u \in Thread : th'[u].h = th[u].h
    BY <2>3, <2>4
  <2>8. HandShape'
    <3>1. \A u \in Thread : /\ th'[u].pc \in Handing <=> th[u].pc \in Handing
                            /\ th'[u].pc = "undoing" <=> th[u].pc = "undoing"
      BY <1>1, <2>3 DEF Handing
    <3>2. \A d \in Cell : vnodes'[d].handle \in {vnodes[d].handle, None}
      BY <2>6
    <3> QED
      BY <1>2, <2>7, <3>1, <3>2, SMT DEF IInv, HandShape
  <2>9. VnodeShape'
    <3>1. Users(v)' = {} /\ Cardinality(Users(v)') = 0
      <4>1. Users(v)' = {}
        BY <2>3, <2>4 DEF Users
      <4> QED
        BY <4>1, FS_EmptySet
    <3>2. ASSUME NEW d \in Cell, d # v PROVE Users(d)' = Users(d)
      <4>1. \A u \in Thread : th'[u].v = d <=> th[u].v = d
        BY <2>1, <2>3, <3>2 DEF Names
      <4> QED
        BY <4>1, UsersSame
    <3>3. ASSUME NEW d \in Cell
          PROVE  /\ vnodes'[d].handle = None => vnodes'[d].refs = 0
                 /\ Cardinality(Users(d)') <= vnodes'[d].refs
                 /\ \/ vnodes'[d].handle \in opened' \cup {None}
                    \/ \E u \in Thread : th'[u].pc = "closing" /\ th'[u].v = d
      <4>1. CASE d = v
        <5>1. Cardinality(Users(d)') = 0
          BY <3>1, <4>1
        <5>2. vnodes'[d].refs \in Nat
          BY <2>6
        <5> QED
          BY <1>2, <2>5, <2>6, <4>1, <5>1, <5>2, SMT DEF IInv, VnodeShape
      <4>2. CASE d # v
        BY <1>1, <1>2, <2>1, <2>3, <2>6, <3>2, <4>2, SMT DEF IInv, VnodeShape
      <4> QED
        BY <4>1, <4>2
    <3>4. ASSUME NEW c \in Cell, NEW d \in Cell,
                 vnodes'[d].handle = vnodes'[c].handle, d # c
          PROVE  vnodes'[c].handle = None
      BY <2>6, <3>4, SMT DEF IInv, VnodeShape
    <3>5. ASSUME NEW u \in Thread
          PROVE  /\ th'[u].pc \in Holding => th'[u].v # None
                 /\ th'[u].pc # "idle" /\ th'[u].pc \notin Holding => th'[u].v = None
                 /\ th'[u].pc \in Reclaiming => \A x \in Thread : th'[x].v = th'[u].v => x = u
      <4>1. CASE u = t
        BY <2>3, <4>1 DEF Holding, Reclaiming
      <4>2. CASE u # t
        <5>1. /\ th'[u] = th[u]
              /\ th[u].pc \in Holding => th[u].v # None
              /\ th[u].pc # "idle" /\ th[u].pc \notin Holding => th[u].v = None
          BY <2>3, <4>2 DEF IInv, VnodeShape
        <5>2. ASSUME th[u].pc \in Reclaiming, NEW x \in Thread, th'[x].v = th[u].v
              PROVE  x = u
          <6>1. x # t
            BY <2>3, <5>1, <5>2 DEF Holding
          <6> QED
            BY <2>3, <5>2, <6>1, SMT DEF IInv, VnodeShape
        <5> QED
          BY <5>1, <5>2
      <4> QED
        BY <4>1, <4>2
    <3> QED
      BY <3>3, <3>4, <3>5 DEF VnodeShape
  <2>10. ASSUME NEW k \in opened PROVE Claimed(k)'
    <3>1. Claimed(k)
      BY DEF IInv
    <3>2. lost \subseteq lost' /\ (k = vnodes[v].handle => k \in lost')
      BY <2>2, <2>5
    <3> QED
      BY <1>1, <2>6, <2>7, <3>1, <3>2 DEF Claimed
  <2> QED
    BY <1>1, <1>2, <2>2, <2>3, <2>6, <2>8, <2>9, <2>10, ReleaseInv DEF Waiting
<1> QED
  BY <1>3, <1>4

----------------------------------------------------------------------------
(* The theorem *)

\* The kernel starts with every handle closed and the card at rest.
LEMMA InitInv == ASSUME Names, EmuInit PROVE IInv
<1>1. TypeOK
  BY DEF EmuInit, TypeOK, Place, NoVnode
<1>2. \A t \in Thread : th[t].pc = "idle" /\ th[t].h = None /\ th[t].v = None
  BY DEF EmuInit
<1>3. \A c \in Cell : vnodes[c].handle = None /\ vnodes[c].refs = 0
  BY DEF EmuInit, NoVnode
<1>4. \A c \in Cell : Cardinality(Users(c)) = 0
  <2>1. \A c \in Cell : Users(c) = {}
    BY <1>2 DEF Users, Names
  <2> QED
    BY <2>1, FS_EmptySet
<1>5. e_lock = None /\ e_sem = 0 /\ emu.stat = "idle" /\ opened = {}
  BY DEF EmuInit
<1>6. LockShape
  BY <1>2, <1>5, SMT DEF LockShape, Waiting, Names
<1>7. HandShape
  BY <1>2 DEF HandShape, Handing
<1>8. VnodeShape
  BY <1>2, <1>3, <1>4, SMT DEF VnodeShape, Holding, Reclaiming
<1> QED
  BY <1>1, <1>5, <1>6, <1>7, <1>8 DEF IInv

\* Every step keeps the inductive invariant.
LEMMA NextInv == ASSUME Names PROVE IInv /\ [EmuNext]_emuVars => IInv'
<1> SUFFICES ASSUME IInv, [EmuNext]_emuVars PROVE IInv'
  OBVIOUS
<1>1. CASE UNCHANGED emuVars
  <2>1. HandShape' /\ VnodeShape'
    BY <1>1, ShapesKept DEF emuVars
  <2>2. TypeOK' /\ LockShape'
    BY <1>1 DEF emuVars, IInv, TypeOK, LockShape
  <2>3. (e_lock # None => Serves(e_lock))'
    BY <1>1 DEF emuVars, IInv, Serves, Answer, Asked, Unclaimed
  <2>4. ASSUME NEW h \in opened' PROVE Claimed(h)'
    BY <1>1 DEF emuVars, IInv, Claimed
  <2> QED
    BY <2>1, <2>2, <2>3, <2>4 DEF IInv
<1>2. CASE EmuComplete \/ emu_irq
  BY <1>2, CompleteInv, emu_irqInv
<1>3. ASSUME NEW t \in Thread, NEW u \in Thread, VnodeIncref(t, u) PROVE IInv'
  BY <1>3, VnodeIncrefInv
<1>4. ASSUME NEW t \in Thread, Lookup(t) \/ Creat(t) \/ IoBegin(t) \/ VnodeDecref(t) PROVE IInv'
  BY <1>4, CallInv, BeginsInv, VnodeDecrefInv
<1>5. ASSUME NEW t \in Thread, Steps(t) PROVE IInv'
  <2>1. CASE OpenEnd(t) \/ UndoEnd(t) \/ IoEnd(t) \/ ReclaimEnd(t)
    BY <2>1, OpenEndInv, UndoEndInv, IoEndInv, ReclaimEndInv
  <2>2. CASE LoadFails(t) \/ LoadBegin(t) \/ ReclaimBegin(t)
    BY <2>2, GoesInv
  <2>3. CASE Load(t) \/ ReclaimClose(t)
    BY <2>3, LoadInv, ReclaimCloseInv
  <2>4. CASE OpenBegin(t) \/ UndoBegin(t) \/ IoBegin(t)
    BY <2>4, BeginsInv
  <2> QED
    BY <1>5, <2>1, <2>2, <2>3, <2>4 DEF Steps
<1> QED
  BY <1>1, <1>2, <1>3, <1>4, <1>5 DEF EmuNext

\* What the inductive invariant says of the handles.
LEMMA InvSound == ASSUME Names, IInv PROVE HandlesSound
<1>1. HandlesValid
  BY DEF IInv, TypeOK, VnodeShape, HandlesValid, NoVnode
<1>2. AnswerMine
  BY SMT DEF IInv, TypeOK, LockShape, AnswerMine, Names
<1>3. HandlesAccounted
  <2> SUFFICES ASSUME NEW h \in opened, NEW c \in Cell, vnodes[c].handle = h
               PROVE  Cardinality({d \in Cell : vnodes[d].handle = h}) = 1
    BY DEF IInv, Claimed, HandlesAccounted
  <2>1. h # None
    BY DEF IInv, TypeOK, Names
  <2>2. {d \in Cell : vnodes[d].handle = h} = {c}
    BY <2>1 DEF IInv, VnodeShape
  <2> QED
    BY <2>2, FS_Singleton
<1> QED
  BY <1>1, <1>2, <1>3 DEF HandlesSound

\* However many threads open, read, share and reclaim files of the emulator, and
\* wherever the card, emu_close or emufs_loadvnode fails: no operation names a
\* handle that is not open, the answer that emu_waitdone takes is its own, and
\* every open handle is some vnode's, or on its way to one, or given up.
THEOREM HandlesAreSound == ASSUME Names PROVE EmuSpec => []HandlesSound
<1>1. EmuInit => IInv
  BY InitInv
<1>2. IInv /\ [EmuNext]_emuVars => IInv'
  BY NextInv
<1>3. IInv => HandlesSound
  BY InvSound
<1> QED
  BY <1>1, <1>2, <1>3, PTL DEF EmuSpec

============================================================================
