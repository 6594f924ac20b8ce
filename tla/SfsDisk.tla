------------------------------ MODULE SfsDisk ------------------------------
(***************************************************************************)
(* The on-disk format of SFS (kern/include/kern/sfs.h), shared by the      *)
(* kernel's file system (module Sfs) and by the tools that make and repair *)
(* a volume (mksfs here, sfsck in module Sfsck).                           *)
(*                                                                         *)
(* A block is a record whose field k says what was last written into it.   *)
(* Reading a block as something else is possible, after a crash, and the   *)
(* As... operators say what the bytes then mean: zeroes are an invalid     *)
(* inode, an indirect block of holes and a block of free directory         *)
(* entries, and other bytes are an invalid inode and pointers outside the  *)
(* volume.  Sizes are in blocks for a file, in entries for the directory.  *)
(* There is one directory, the root: this version of SFS has no others.    *)
(***************************************************************************)
EXTENDS Integers, Sequences, FiniteSets

CONSTANTS
  NBLOCKS,     \* sb_nblocks, the number of blocks of the volume
  NDIRECT,     \* SFS_NDIRECT, the direct blocks of an inode
  DBPERIDB,    \* SFS_DBPERIDB, the entries of an indirect block
  DIRPERBLK,   \* directory entries per block
  Name         \* file names

ASSUME LayoutAssumption ==
  /\ NBLOCKS \in Nat /\ NBLOCKS > 3
  /\ {NDIRECT, DBPERIDB, DIRPERBLK} \subseteq Nat \ {0}

SUPER == 0
ROOT == 1
FREEMAP == 2
NOINO == 0

Block == 0 .. NBLOCKS - 1
Direct == 0 .. NDIRECT - 1
Entry == 0 .. DBPERIDB - 1
Slot == 0 .. DIRPERBLK - 1

Zero == [k |-> "zero"]

NewInode(t) == [k |-> "inode", type |-> t, links |-> 0, size |-> 0,
                direct |-> [p \in Direct |-> 0], indirect |-> 0]

FreeSlot == [name |-> "", ino |-> NOINO]

AsInode(b) == IF b.k = "inode" THEN b ELSE NewInode("inval")

AsIndirect(b) ==
  CASE b.k = "indirect" -> b.e
    [] b.k = "zero"     -> [j \in Entry |-> 0]
    [] OTHER            -> [j \in Entry |-> NBLOCKS]

AsDir(b) == IF b.k = "dir" THEN b.slot ELSE [i \in Slot |-> FreeSlot]

\* The disk block of block fb of the file with inode i; 0 is a hole.
Bmap(d, i, fb) ==
  IF fb < NDIRECT THEN i.direct[fb]
  ELSE IF i.indirect = 0 THEN 0
  ELSE AsIndirect(d[i.indirect])[fb - NDIRECT]

\* The directory entries below the directory's size.
Entries(d, i) ==
  [s \in 0 .. i.size - 1 |->
     LET b == Bmap(d, i, s \div DIRPERBLK)
     IN  IF b = 0 THEN FreeSlot ELSE AsDir(d[b])[s % DIRPERBLK]]

Dots == {".", ".."}

\* The files that the entries e of the directory name.
Named(e) == {e[s].ino : s \in {x \in DOMAIN e : e[x].name \notin Dots}} \ {NOINO}

LinksTo(e, f) == {s \in DOMAIN e : e[s].ino = f /\ e[s].name \notin Dots}

\* Every pointer of inode i: its direct blocks, its indirect block, and
\* the entries of the latter.
Pointer(d, i) ==
  [p \in 0 .. NDIRECT + DBPERIDB |->
     CASE p < NDIRECT -> i.direct[p]
       [] p = NDIRECT -> i.indirect
       [] OTHER       -> Bmap(d, i, p - 1)]

-----------------------------------------------------------------------------
(* mksfs: the superblock, the freemap and an empty root directory, with a  *)
(* link count of 1 and neither . nor ..                                    *)

FreemapBlock(used) == [k |-> "freemap", used |-> used]

mksfs == [b \in Block |->
  CASE b = SUPER   -> [k |-> "super"]
    [] b = ROOT    -> [NewInode("dir") EXCEPT !.links = 1]
    [] b = FREEMAP -> FreemapBlock({SUPER, ROOT, FREEMAP})
    [] OTHER       -> Zero]

-----------------------------------------------------------------------------
(* What makes a set of inodes I (a function from inode numbers), a         *)
(* directory and a freemap agree.                                          *)

Claims(d, I) ==
  LET ptr == [f \in DOMAIN I |-> Pointer(d, I[f])]
  IN  [fp \in (DOMAIN I) \X (0 .. NDIRECT + DBPERIDB) |-> ptr[fp[1]][fp[2]]]

\* The blocks in use: the fixed ones, the inodes and all they point at.
InUse(d, I) ==
  ({SUPER, FREEMAP} \union DOMAIN I
     \union UNION {{Pointer(d, I[f])[p] : p \in 0 .. NDIRECT + DBPERIDB} : f \in DOMAIN I})

\* No block has two uses.
Unshared(d, I) ==
  LET claims == Claims(d, I)
      real == {x \in DOMAIN claims : claims[x] \in Block \ {SUPER}}
  IN  /\ \A x \in real : claims[x] \notin {FREEMAP} \union DOMAIN I
      /\ \A x, y \in real : claims[x] = claims[y] => x = y

\* Every file the directory names is a file, and counts its names.
LinksAgree(d, I) ==
  LET e == Entries(d, I[ROOT])
  IN  /\ \A s, t \in DOMAIN e :
           e[s].ino # NOINO /\ e[t].ino # NOINO /\ e[s].name = e[t].name => s = t
      /\ \A f \in Named(e) : f \in DOMAIN I /\ I[f].type = "file"
      /\ \A f \in DOMAIN I \ {ROOT} : I[f].links = Cardinality(LinksTo(e, f))

\* The inodes of an unmounted volume: the root and the files it names.
OnDisk(d) ==
  [f \in {ROOT} \union Named(Entries(d, AsInode(d[ROOT]))) |-> AsInode(d[f])]
=============================================================================
