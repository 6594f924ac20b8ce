-------------------------------- MODULE Sfs --------------------------------
(***************************************************************************)
(* SFS (kern/fs/sfs), the kernel's disk file system, over a volume that    *)
(* can lose power between any two block writes and be repaired by sfsck.   *)
(*                                                                         *)
(* Directory entries, indirect blocks and file data are written through;   *)
(* inodes and the freemap stay in memory until a sync, an unmount or the   *)
(* last reference to a vnode puts them on disk.                            *)
(*                                                                         *)
(* Every operation holds the big VFS lock from start to end, so it is one  *)
(* step here, except for the release of a reference: vnode_decref decides  *)
(* under the vnode's own spinlock to reclaim it and sfs_reclaim takes the  *)
(* big lock afterwards.  An operation is an operator from machine to       *)
(* machine, a record of all it works on:                                   *)
(*   disk               the blocks;                                        *)
(*   map, mapdirty      sfs_freemap (the set of used blocks), and whether  *)
(*                      it must be written back;                           *)
(*   vnodes, vn         sfs_vnodes, in order, and for each inode in it     *)
(*                      sv_i, sv_dirty and vn_refcount;                    *)
(*   err, ret           the result of the last call, and what it handed    *)
(*                      back;                                              *)
(*   cut, dead          the writes left before the power fails, and        *)
(*                      whether it failed;                                 *)
(*   flt, hit           the fallible steps (I/O, kmalloc) up to the one    *)
(*                      that fails, and whether it did (0: none will);     *)
(*   panic              a panic or failed KASSERT on the way.              *)
(***************************************************************************)
EXTENDS Sfsck, FiniteSetsExt, SequencesExt

CONSTANTS
  TooLong,     \* the names longer than SFS_NAMELEN allows
  MaxHeld,     \* bound: references users hold to one vnode
  MaxTrouble,  \* bound: failing steps and power failures in a behaviour
  MaxChecks,   \* bound: runs of sfsck
  MaxWork,     \* bound: operations that change the volume
  MaxSteps     \* bound: writes or fallible steps of an operation before one fails

VARIABLES
  disk,        \* the volume
  core,        \* the mounted file system: map, mapdirty, vnodes, vn
  status,      \* "up" (mounted), "clean" (unmounted or repaired), "crashed", "unrecov"
  held,        \* references to vnodes held by open files and callers
  dying,       \* vnode_decref calls that decided to reclaim and wait for the lock
  work, faults, crashes, checks, panicked,
  synced       \* history: the files as of the last sync, until touched again

vars == <<disk, core, status, held, dying, work, faults, crashes, checks, panicked, synced>>

NoCore == [map |-> {}, mapdirty |-> FALSE, vnodes |-> <<>>, vn |-> << >>]
Nobody == [b \in Block |-> 0]

Machine(cut, flt) ==
  [disk |-> disk, map |-> core.map, mapdirty |-> core.mapdirty, vnodes |-> core.vnodes,
   vn |-> core.vn, err |-> "", ret |-> 0, cut |-> cut, cut0 |-> cut, dead |-> FALSE, flt |-> flt,
   hit |-> FALSE, panic |-> FALSE]

Fail(m, e) == [m EXCEPT !.err = e]
Then(m, Op(_)) == IF m.err # "" THEN m ELSE Op(m)
Kassert(m, p) == [m EXCEPT !.panic = @ \/ ~p]

-----------------------------------------------------------------------------
(* Block I/O and block allocation.                                         *)

\* A step that may fail with error e.
Fallible(m, e) ==
  LET t == [m EXCEPT !.flt = IF @ > 0 THEN @ - 1 ELSE 0]
  IN  IF m.flt = 1 THEN [t EXCEPT !.err = e, !.hit = TRUE] ELSE t

\* sfs_rwblock gives up after its retries.
sfs_readblock(m) == Fallible(m, "EIO")

sfs_writeblock(m, b, v) ==
  LET Put(t) == IF t.dead \/ t.cut = 0 THEN [t EXCEPT !.dead = TRUE, !.err = "dead"]
                ELSE [t EXCEPT !.disk[b] = v, !.cut = @ - 1]
  IN  Then(Fallible(m, "EIO"), Put)

\* Mutant: a block is handed out with its old contents.
sfs_ballocDirty(m) ==
  IF m.map = Block THEN Fail(m, "ENOSPC")
  ELSE [m EXCEPT !.map = @ \union {Min(Block \ m.map)}, !.mapdirty = TRUE,
                 !.ret = Min(Block \ m.map)]

sfs_balloc(m) ==
  LET Cleared(t, b) == IF t.err # "" THEN [t EXCEPT !.map = @ \ {b}] ELSE [t EXCEPT !.ret = b]
      Clear(b) == Cleared(sfs_writeblock([m EXCEPT !.map = @ \union {b}, !.mapdirty = TRUE],
                                         b, Zero), b)
  IN  IF m.map = Block THEN Fail(m, "ENOSPC") ELSE Clear(Min(Block \ m.map))

\* sfs_bfree of every block of B; bitmap_unmark insists that it is marked.
sfs_bfree(m, B) ==
  [Kassert(m, B \subseteq m.map) EXCEPT !.map = @ \ B, !.mapdirty = @ \/ B # {}]

SetInode(m, ino, i) == [m EXCEPT !.vn[ino].i = i, !.vn[ino].dirty = TRUE]

-----------------------------------------------------------------------------
(* Block mapping and truncation.                                           *)

\* Hand back block b; a block in use but marked free is a panic.
Mapped(m, b) == [Kassert(m, b = 0 \/ b \in m.map) EXCEPT !.ret = b]

BmapIndirect(m, idblock, idoff, doalloc) ==
  LET idbuf == AsIndirect(m.disk[idblock])
      Fill(t) == Then(sfs_writeblock(t, idblock,
                        [k |-> "indirect", e |-> [idbuf EXCEPT ![idoff] = t.ret]]),
                      LAMBDA u : Mapped(u, t.ret))
  IN  IF idbuf[idoff] # 0 \/ ~doalloc THEN Mapped(m, idbuf[idoff])
      ELSE Then(sfs_balloc(m), Fill)

sfs_bmap(m, ino, fb, doalloc) ==
  LET i == m.vn[ino].i
      off == fb - NDIRECT
  IN  CASE fb < NDIRECT /\ (i.direct[fb] # 0 \/ ~doalloc) -> Mapped(m, i.direct[fb])
        [] fb < NDIRECT /\ i.direct[fb] = 0 /\ doalloc ->
             Then(sfs_balloc(m), LAMBDA t :
               Mapped(SetInode(t, ino, [i EXCEPT !.direct[fb] = t.ret]), t.ret))
        [] off >= DBPERIDB -> Fail(m, "EFBIG")
        [] off \in Entry /\ i.indirect = 0 /\ ~doalloc -> Mapped(m, 0)
        [] off \in Entry /\ i.indirect = 0 /\ doalloc ->
             Then(sfs_balloc(m), LAMBDA t :
               BmapIndirect(SetInode(t, ino, [i EXCEPT !.indirect = t.ret]), t.ret, off, doalloc))
        [] off \in Entry /\ i.indirect # 0 ->
             Then(sfs_readblock(m), LAMBDA t : BmapIndirect(t, i.indirect, off, doalloc))

\* The indirect part of a truncation to len blocks, with the comparisons of
\* the code: block number len itself is not discarded.
TruncIndirect(m, ino, len) ==
  LET i == m.vn[ino].i
      idbuf == AsIndirect(m.disk[i.indirect])
      drop == {j \in Entry : len < NDIRECT + j /\ idbuf[j] # 0}
      Rest(t, left) ==
        IF \A j \in Entry : left[j] = 0
        THEN SetInode(sfs_bfree(t, {i.indirect}), ino, [i EXCEPT !.indirect = 0])
        ELSE IF drop # {} THEN sfs_writeblock(t, i.indirect, [k |-> "indirect", e |-> left])
        ELSE t
  IN  Rest(sfs_bfree(m, {idbuf[j] : j \in drop}),
           [j \in Entry |-> IF j \in drop THEN 0 ELSE idbuf[j]])

sfs_itrunc(m, ino, len) ==
  LET i == m.vn[ino].i
      drop == {p \in Direct : p >= len /\ i.direct[p] # 0}
      t == IF drop = {} THEN m
           ELSE SetInode(sfs_bfree(m, {i.direct[p] : p \in drop}), ino,
                         [i EXCEPT !.direct = [p \in Direct |-> IF p \in drop THEN 0 ELSE @[p]]])
      Indirect(u) == IF len < NDIRECT + DBPERIDB - 1 /\ i.indirect # 0
                     THEN Then(sfs_readblock(u), LAMBDA x : TruncIndirect(x, ino, len))
                     ELSE u
  IN  Then(Indirect(t), LAMBDA x : SetInode(x, ino, [x.vn[ino].i EXCEPT !.size = len]))

-----------------------------------------------------------------------------
(* Vnodes.                                                                 *)

sfs_sync_inode(m, ino) ==
  IF ~m.vn[ino].dirty THEN m
  ELSE Then(sfs_writeblock(m, ino, m.vn[ino].i), LAMBDA t : [t EXCEPT !.vn[ino].dirty = FALSE])

\* The vnode leaves the table.
Forget(m, ino) ==
  [m EXCEPT !.vnodes = SelectSeq(@, LAMBDA x : x # ino),
            !.vn = [x \in DOMAIN @ \ {ino} |-> @[x]]]

\* Mutant: the reference count is not looked at again under the big lock.
sfs_reclaimBlind(m, ino) ==
  Then(sfs_sync_inode(IF m.vn[ino].i.links = 0 THEN sfs_itrunc(m, ino, 0) ELSE m, ino),
       LAMBDA x : Forget(IF m.vn[ino].i.links = 0 THEN sfs_bfree(x, {ino}) ELSE x, ino))

\* Erase a file with no name left, write the inode back, drop the vnode;
\* unless someone picked it up since the decision to reclaim it.
sfs_reclaim(m, ino) ==
  LET gone == m.vn[ino].i.links = 0
      t == IF gone THEN sfs_itrunc(m, ino, 0) ELSE m
  IN  IF m.vn[ino].refs # 1 THEN Fail([m EXCEPT !.vn[ino].refs = @ - 1], "EBUSY")
      ELSE Then(Then(t, LAMBDA x : sfs_sync_inode(x, ino)),
                LAMBDA x : Forget(IF gone THEN sfs_bfree(x, {ino}) ELSE x, ino))

\* VOP_DECREF under the big lock; the result of the reclaim is ignored.
Decref(m, ino) ==
  IF m.vn[ino].refs > 1 THEN [m EXCEPT !.vn[ino].refs = @ - 1]
  ELSE [sfs_reclaim([m EXCEPT !.err = ""], ino) EXCEPT !.err = m.err]

\* Get the vnode of inode ino, from the table or from disk.
sfs_loadvnode(m, ino, forcetype) ==
  LET i == AsInode(m.disk[ino])
      loaded == Kassert(m, DOMAIN m.vn \subseteq m.map)
      Add(t) == [Kassert(t, (forcetype # "inval" => i.type = "inval")
                            /\ (forcetype = "inval" => i.type # "inval"))
                 EXCEPT !.vnodes = Append(@, ino),
                        !.vn = [x \in DOMAIN @ \union {ino} |->
                                  IF x # ino THEN @[x]
                                  ELSE [i |-> IF forcetype = "inval" THEN i
                                              ELSE [i EXCEPT !.type = forcetype],
                                        dirty |-> forcetype # "inval", refs |-> 1]]]
  IN  IF ino \in DOMAIN m.vn
      THEN [Kassert(loaded, forcetype = "inval") EXCEPT !.vn[ino].refs = @ + 1, !.ret = ino]
      ELSE Then(Then(Fallible(Kassert(loaded, ino \in m.map), "ENOMEM"),
                     LAMBDA t : Fallible(sfs_readblock(t), "ENOMEM")),
                LAMBDA t : [Add(t) EXCEPT !.ret = ino])

sfs_makeobj(m, type) ==
  LET Loaded(u, b) == IF u.err # "" THEN sfs_bfree(u, {b}) ELSE u
  IN  Then(sfs_balloc(m), LAMBDA t : Loaded(sfs_loadvnode(t, t.ret, type), t.ret))

sfs_getroot(m) == Then(sfs_loadvnode(m, ROOT, "inval"),
                       LAMBDA t : IF t.vn[ROOT].i.type # "dir" THEN Fail(t, "EINVAL") ELSE t)

-----------------------------------------------------------------------------
(* The directory.                                                          *)

Dir(m) == Entries(m.disk, m.vn[ROOT].i)

\* Hand back the slot that holds name; a name appears only once.
sfs_dir_findname(m, name) ==
  LET At(t, at) == IF at = {} THEN Fail(t, "ENOENT")
                   ELSE [Kassert(t, Cardinality(at) = 1) EXCEPT !.ret = Min(at)]
      Among(t, e) == At(t, {s \in DOMAIN e : e[s].ino # NOINO /\ e[s].name = name})
  IN  Then(IF m.vn[ROOT].i.size = 0 THEN m ELSE sfs_readblock(m), LAMBDA t : Among(t, Dir(m)))

\* sfs_metaio: write entry x into slot s, growing the directory if needed.
sfs_metaio(m, s, x) ==
  LET Store(t) == sfs_writeblock(t, t.ret,
        [k |-> "dir", slot |-> [AsDir(t.disk[t.ret]) EXCEPT ![s % DIRPERBLK] = x]])
      Grow(t) == IF s < t.vn[ROOT].i.size THEN t
                 ELSE SetInode(t, ROOT, [t.vn[ROOT].i EXCEPT !.size = s + 1])
  IN  Then(Then(Then(sfs_bmap(m, ROOT, s \div DIRPERBLK, TRUE), sfs_readblock), Store), Grow)

\* The last free slot, or a new one at the end.
EmptySlot(m) ==
  LET Free(e) == {s \in DOMAIN e : e[s].ino = NOINO}
      Final(free) == IF free = {} THEN m.vn[ROOT].i.size ELSE Max(free)
  IN  Final(Free(Dir(m)))

sfs_dir_link(m, name, ino) ==
  LET Add(f) ==
        CASE f.err = ""                             -> Fail(f, "EEXIST")
          [] f.err \notin {"", "ENOENT"}            -> f
          [] f.err = "ENOENT" /\ name \in TooLong   -> Fail(f, "ENAMETOOLONG")
          [] OTHER -> sfs_metaio([f EXCEPT !.err = ""], EmptySlot(m), [name |-> name, ino |-> ino])
  IN  Add(sfs_dir_findname(m, name))

sfs_dir_unlink(m, slot) == sfs_metaio(m, slot, FreeSlot)

\* A name whose inode has no links is a panic.
sfs_lookonce(m, name) ==
  Then(Then(sfs_dir_findname(m, name), LAMBDA t : sfs_loadvnode(t, Dir(t)[t.ret].ino, "inval")),
       LAMBDA t : Kassert(t, t.vn[t.ret].i.links > 0))

Links(m, ino, n) == SetInode(m, ino, [m.vn[ino].i EXCEPT !.links = @ + n])

-----------------------------------------------------------------------------
(* Vnode operations.                                                       *)

sfs_creat(m, name, excl) ==
  LET Linked(u, ino) == IF u.err # "" THEN Decref(u, ino)
                        ELSE [Links(u, ino, 1) EXCEPT !.ret = ino]
      Enter(t) == Linked(sfs_dir_link(t, name, t.ret), t.ret)
      Make(f) ==
        CASE f.err = "" /\ excl -> Fail(f, "EEXIST")
          [] f.err = "" /\ ~excl -> sfs_loadvnode(f, Dir(f)[f.ret].ino, "inval")
          [] f.err = "ENOENT" -> Then(sfs_makeobj([f EXCEPT !.err = ""], "file"), Enter)
          [] OTHER -> f
  IN  Make(sfs_dir_findname(m, name))

sfs_link(m, name, ino) ==
  IF m.vn[ino].i.type = "dir" THEN Fail(m, "EINVAL")
  ELSE Then(sfs_dir_link(m, name, ino), LAMBDA t : Links(t, ino, 1))

\* Mutant: the link count is left alone.
sfs_removeUncounted(m, name) ==
  Then(sfs_lookonce(m, name), LAMBDA t :
    Decref(sfs_dir_unlink(t, sfs_dir_findname(m, name).ret), t.ret))

sfs_remove(m, name) ==
  LET slot == sfs_dir_findname(m, name).ret
      Unlinked(u, ino) == IF u.err # "" THEN u
                          ELSE Links(Kassert(u, u.vn[ino].i.links > 0), ino, -1)
  IN  Then(sfs_lookonce(m, name),
           LAMBDA t : Decref(Unlinked(sfs_dir_unlink(t, slot), t.ret), t.ret))

\* Link under the new name, then unlink the old one; if that fails, unlink
\* the new one again, and panic when even that fails.
sfs_rename(m, n1, n2) ==
  LET slot1 == sfs_dir_findname(m, n1).ret
      Undone(u, g, err) ==
        [Kassert(u, u.err \in {"", "dead"}) EXCEPT !.err = err, !.vn[g].i.links = @ - 1]
      Dropped(u, g, slot2) ==
        IF u.err = "" THEN Links(u, g, -1)
        ELSE Undone(sfs_dir_unlink([u EXCEPT !.err = ""], slot2), g, u.err)
      Linked(u, g, slot2) ==
        IF u.err # "" THEN u ELSE Dropped(sfs_dir_unlink(Links(u, g, 1), slot1), g, slot2)
      Move(t, g) ==
        Decref(Linked(sfs_dir_link(Kassert(t, t.vn[g].i.type = "file"), n2, g),
                      g, EmptySlot(t)), g)
  IN  Then(sfs_lookonce(m, n1), LAMBDA t : Move(t, t.ret))

\* Write a whole block: find or allocate it, then overwrite it.
sfs_blockio(m, ino, fb) ==
  Then(sfs_bmap(m, ino, fb, TRUE), LAMBDA t : sfs_writeblock(t, t.ret, [k |-> "data", of |-> ino]))

\* sfs_io writing n blocks from block fb on: the size is adjusted for what
\* was done, even if a later block failed.
sfs_io(m, ino, fb, n) ==
  LET Grow(t, x) == IF x < t.vn[ino].i.size THEN t
                    ELSE SetInode(t, ino, [t.vn[ino].i EXCEPT !.size = x + 1])
      One(t, x) == Then(t, LAMBDA u : Then(sfs_blockio(u, ino, x), LAMBDA w : Grow(w, x)))
  IN  FoldLeft(One, m, [x \in 1 .. n |-> fb + x - 1])

-----------------------------------------------------------------------------
(* File system operations.                                                 *)

\* Mutant: the last vnode of the table is not written.
sfs_syncShort(m) ==
  LET SyncOne(t, ino) == [sfs_sync_inode(t, ino) EXCEPT !.err = ""]
      SyncMap(t) == Then(sfs_writeblock(t, FREEMAP, FreemapBlock(t.map)),
                         LAMBDA u : [u EXCEPT !.mapdirty = FALSE])
  IN  SyncMap(FoldLeft(SyncOne, m, SubSeq(m.vnodes, 1, Len(m.vnodes) - 1)))

\* Errors on single inodes are ignored.
sfs_sync(m) ==
  LET SyncOne(t, ino) == [sfs_sync_inode(t, ino) EXCEPT !.err = ""]
      SyncMap(t) == IF ~t.mapdirty THEN t
                    ELSE Then(sfs_writeblock(t, FREEMAP, FreemapBlock(t.map)),
                              LAMBDA u : [u EXCEPT !.mapdirty = FALSE])
  IN  SyncMap(FoldLeft(SyncOne, m, m.vnodes))

\* vfs_unmount syncs first.
sfs_unmount(m) ==
  Then(sfs_sync(m), LAMBDA t : IF t.vnodes # <<>> THEN Fail(t, "EBUSY")
                               ELSE Kassert(t, ~t.mapdirty))

\* sfs_domount reads the superblock and the freemap.
sfs_domount(m) ==
  Then(Then(Fallible(m, "ENOMEM"), LAMBDA t : sfs_readblock(sfs_readblock(t))),
       LAMBDA t : [t EXCEPT !.map = t.disk[FREEMAP].used])

-----------------------------------------------------------------------------
(* The system: callers of the file system, the power supply and the        *)
(* administrator, who runs sfsck on a volume after a crash before it is    *)
(* mounted again and makes a new one when sfsck gives up.                  *)

\* A volume that holds one file, of one block, after a clean unmount.
Populated(name) ==
  LET m == [map |-> {SUPER, ROOT, FREEMAP}, disk |-> mksfs, mapdirty |-> FALSE,
            vnodes |-> <<>>, vn |-> << >>, err |-> "", ret |-> 0, cut |-> 100, cut0 |-> 100,
            dead |-> FALSE, flt |-> 0, hit |-> FALSE, panic |-> FALSE]
      Filled(c) == Decref(Decref(sfs_io(c, c.ret, 0, 1), c.ret), ROOT)
  IN  sfs_sync(Filled(sfs_creat(sfs_getroot(m), name, TRUE))).disk

Init ==
  /\ disk \in {mksfs} \union {Populated(n) : n \in Name \ TooLong}
  /\ core = NoCore /\ status = "clean"
  /\ held = Nobody /\ dying = Nobody
  /\ work = 0 /\ faults = 0 /\ crashes = 0 /\ checks = 0 /\ panicked = FALSE /\ synced = {}

\* Where an operation goes wrong: a power failure, a failing step, or nothing.
Fates ==
  {<<MaxSteps, 0>>} \union
  IF faults + crashes < MaxTrouble
  THEN ((0 .. MaxSteps - 1) \X {0}) \union ({MaxSteps} \X (1 .. MaxSteps)) ELSE {}

\* The operation that took the machine to m is over, or the power failed in it.
Finish(machine, h, dy, st) == \E m \in {machine} :
  /\ m.dead \/ m.hit \/ (m.cut0 = MaxSteps /\ m.flt = 0)
  /\ disk' = m.disk
  /\ faults' = faults + (IF m.hit THEN 1 ELSE 0)
  /\ panicked' = (panicked \/ (m.panic /\ ~m.dead))
  /\ crashes' = crashes + (IF m.dead THEN 1 ELSE 0)
  /\ core' = IF m.dead THEN NoCore
             ELSE [map |-> m.map, mapdirty |-> m.mapdirty, vnodes |-> m.vnodes, vn |-> m.vn]
  /\ held' = IF m.dead THEN Nobody ELSE h
  /\ dying' = IF m.dead THEN Nobody ELSE dy
  /\ status' = IF m.dead THEN "crashed" ELSE st

\* The caller of a successful operation keeps a reference to what it got.
Holding(m) == IF m.err = "" THEN [held EXCEPT ![m.ret] = @ + 1] ELSE held
MayHold(m) == m.err = "" => held[m.ret] < MaxHeld
FinishHolding(machine) ==
  \E m \in {machine} : MayHold(m) /\ Finish(m, Holding(m), dying, "up")

Untouched(names, ino) == {r \in synced : r.name \notin names /\ r.ino # ino}

\* A file as the volume d has it.
FileData(d, i) ==
  [fb \in 0 .. i.size - 1 |-> LET b == Bmap(d, i, fb) IN IF b = 0 THEN Zero ELSE d[b]]
\* The files as the users of machine m see them: inodes in memory first.
Snapshot(m) ==
  LET InodeOf(f) == IF f \in DOMAIN m.vn THEN m.vn[f].i ELSE AsInode(m.disk[f])
      e == Entries(m.disk, InodeOf(ROOT))
  IN  {[name |-> e[s].name, ino |-> e[s].ino, data |-> FileData(m.disk, InodeOf(e[s].ino))] :
         s \in {x \in DOMAIN e : e[x].ino # NOINO /\ e[x].name \notin Dots}}

Mounted == status = "up"
\* An operation that changes the volume.
Working == work < MaxWork /\ work' = work + 1

InRoot == Mounted /\ held[ROOT] > 0
Files == {f \in DOMAIN core.vn \ {ROOT} : held[f] > 0}

GetRoot(f) ==
  /\ Mounted
  /\ FinishHolding(sfs_getroot(Machine(f[1], f[2])))
  /\ UNCHANGED <<work, checks, synced>>

Lookup(f, name) ==
  /\ InRoot
  /\ FinishHolding(sfs_lookonce(Machine(f[1], f[2]), name))
  /\ UNCHANGED <<work, checks, synced>>

Creat(f, name, excl) ==
  /\ InRoot /\ Working
  /\ FinishHolding(sfs_creat(Machine(f[1], f[2]), name, excl))
  /\ UNCHANGED <<checks, synced>>

Link(f, name, ino) ==
  /\ InRoot /\ Working
  /\ Finish(sfs_link(Machine(f[1], f[2]), name, ino), held, dying, "up")
  /\ UNCHANGED <<checks, synced>>

Unlink(f, name) ==
  /\ InRoot /\ Working
  /\ Finish(sfs_remove(Machine(f[1], f[2]), name), held, dying, "up")
  /\ synced' = Untouched({name}, NOINO)
  /\ UNCHANGED checks

Rename(f, n1, n2) ==
  /\ InRoot /\ Working
  /\ Finish(sfs_rename(Machine(f[1], f[2]), n1, n2), held, dying, "up")
  /\ synced' = Untouched({n1}, NOINO)
  /\ UNCHANGED checks

Write(f, ino, fb, n) ==
  /\ Mounted /\ Working
  /\ Finish(sfs_io(Machine(f[1], f[2]), ino, fb, n), held, dying, "up")
  /\ synced' = Untouched({}, ino)
  /\ UNCHANGED checks

\* vfs_open with O_TRUNC truncates to nothing.
Truncate(f, ino) ==
  /\ Mounted /\ Working
  /\ Finish(sfs_itrunc(Machine(f[1], f[2]), ino, 0), held, dying, "up")
  /\ synced' = Untouched({}, ino)
  /\ UNCHANGED checks

\* VOP_DECREF by a caller: the last reference is handed to sfs_reclaim.
vnode_decref(ino) ==
  /\ Mounted /\ held[ino] > 0
  /\ held' = [held EXCEPT ![ino] = @ - 1]
  /\ \/ /\ core.vn[ino].refs > 1
        /\ core' = [core EXCEPT !.vn[ino].refs = @ - 1]
        /\ UNCHANGED dying
     \/ /\ core.vn[ino].refs = 1
        /\ dying' = [dying EXCEPT ![ino] = @ + 1]
        /\ UNCHANGED core
  /\ UNCHANGED <<disk, status, work, faults, crashes, checks, panicked, synced>>

\* A reclaim that fails leaves the vnode with a reference nobody has.
Reclaim(f, ino) ==
  /\ Mounted /\ dying[ino] > 0
  /\ Finish(sfs_reclaim(Machine(f[1], f[2]), ino), held, [dying EXCEPT ![ino] = @ - 1], "up")
  /\ UNCHANGED <<work, checks, synced>>

Sync(f) ==
  /\ Mounted
  /\ \E m \in {sfs_sync(Machine(f[1], f[2]))} :
       /\ Finish(m, held, dying, "up")
       /\ synced' = IF m.err = "" /\ ~m.hit /\ ~m.dead THEN Snapshot(m) ELSE synced
  /\ UNCHANGED <<work, checks>>

\* vfs_unmount: the volume is left when no vnode is in use.
Unmount(f) ==
  /\ Mounted
  /\ \E m \in {sfs_unmount(Machine(f[1], f[2]))} :
       /\ Finish(IF m.err = "" THEN [m EXCEPT !.map = {}, !.mapdirty = FALSE] ELSE m,
                 held, dying, IF m.err = "" THEN "clean" ELSE "up")
       /\ synced' = IF m.err = "" /\ ~m.hit THEN Snapshot(m) ELSE synced
  /\ UNCHANGED <<work, checks>>

Mount(f) ==
  /\ status = "clean"
  /\ \E m \in {sfs_domount(Machine(f[1], f[2]))} :
       Finish(m, held, dying, IF m.err = "" THEN "up" ELSE "clean")
  /\ UNCHANGED <<work, checks, synced>>

PowerFails ==
  /\ Mounted /\ faults + crashes < MaxTrouble
  /\ core' = NoCore /\ held' = Nobody /\ dying' = Nobody
  /\ status' = "crashed" /\ crashes' = crashes + 1
  /\ UNCHANGED <<disk, work, faults, checks, panicked, synced>>

Check ==
  /\ status \in {"crashed", "clean"} /\ checks < MaxChecks /\ checks' = checks + 1
  /\ \E r \in {sfsck(disk)} :
       disk' = r.disk /\ status' = IF r.exit = "unrecov" THEN "unrecov" ELSE "clean"
  /\ UNCHANGED <<core, held, dying, work, faults, crashes, panicked, synced>>

Remake ==
  /\ status = "unrecov"
  /\ disk' = mksfs /\ status' = "clean" /\ synced' = {}
  /\ UNCHANGED <<core, held, dying, work, faults, crashes, checks, panicked>>

\* Names to look up: no entry has one that is too long, so it is found no more than
\* a short one that is free.
Known == Name \ TooLong

\* What only uses the volume, or brings it up to date.
Use(f) ==
  \/ GetRoot(f) \/ Sync(f) \/ Unmount(f) \/ Mount(f)
  \/ \E name \in Known : Lookup(f, name)
  \/ \E ino \in DOMAIN core.vn : Reclaim(f, ino)

\* What changes it.
Change(f) ==
  \/ InRoot /\ \E name \in Name :
       \/ \E excl \in BOOLEAN : Creat(f, name, excl)
       \/ \E ino \in DOMAIN core.vn : held[ino] > 0 /\ Link(f, name, ino)
       \/ \E n1 \in Known : Rename(f, n1, name)
  \/ InRoot /\ \E name \in Known : Unlink(f, name)
  \/ \E ino \in Files :
       \/ Truncate(f, ino)
       \/ \E fb \in 0 .. NDIRECT + DBPERIDB - 1, n \in 1 .. 2 : Write(f, ino, fb, n)

Next ==
  \/ \E f \in Fates : Use(f)
  \/ work < MaxWork /\ \E f \in Fates : Change(f)
  \/ \E ino \in DOMAIN core.vn : vnode_decref(ino)
  \/ PowerFails \/ Check \/ Remake

Spec == Init /\ [][Next]_vars

-----------------------------------------------------------------------------
(* Properties.                                                             *)

\* The inodes of the mounted volume: the loaded ones as they are in memory,
\* the other ones the directory names as they are on disk.
Inodes ==
  LET loaded == DOMAIN core.vn
      root == IF ROOT \in loaded THEN core.vn[ROOT].i ELSE AsInode(disk[ROOT])
  IN  [f \in {ROOT} \union loaded \union Named(Entries(disk, root)) |->
         IF f \in loaded THEN core.vn[f].i ELSE AsInode(disk[f])]

\* No panic or KASSERT of SFS is reached: not with one failing disk transfer
\* or allocation in an operation, nor on a volume sfsck has accepted.
NoPanic == ~panicked

\* sfs_reclaim destroys a vnode only when nobody holds it, although the
\* decision was made before the big lock was taken.
HeldLoaded ==
  \A f \in Block : held[f] > 0 => f \in DOMAIN core.vn /\ core.vn[f].refs >= held[f]

\* While mounted, no block has two uses, every block in use is marked in the
\* freemap, and every file's link count is the number of its names; while no
\* step has failed and sfsck has not been needed, only blocks in use are marked, so that none is lost.
Accounted ==
  Mounted =>
    /\ Unshared(disk, Inodes)
    /\ InUse(disk, Inodes) \subseteq core.map
    /\ LinksAgree(disk, Inodes)
    /\ faults + crashes + checks = 0 => core.map \subseteq InUse(disk, Inodes)

\* A volume that was unmounted, or that sfsck left without unrecoverable
\* errors, can be mounted: its directory, inodes and freemap agree on disk.
SafeToMount ==
  status = "clean" =>
    /\ Unshared(disk, OnDisk(disk))
    /\ InUse(disk, OnDisk(disk)) \subseteq disk[FREEMAP].used
    /\ LinksAgree(disk, OnDisk(disk))

\* A file that was on disk when a sync finished, and that nobody has touched
\* since, is still there under its name with its data, whatever happened to
\* other files, and after a crash and after sfsck.
SyncedStays ==
  \A r \in synced :
    /\ \E s \in DOMAIN Entries(disk, AsInode(disk[ROOT])) :
         Entries(disk, AsInode(disk[ROOT]))[s] = [name |-> r.name, ino |-> r.ino]
    /\ FileData(disk, AsInode(disk[r.ino])) = r.data

=============================================================================
