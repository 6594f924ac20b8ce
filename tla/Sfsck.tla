------------------------------- MODULE Sfsck -------------------------------
(***************************************************************************)
(* sfsck (userland/sbin/sfsck): what it makes of a volume.  Pass 1 walks   *)
(* the directory and the files it names, drops what is outside the volume  *)
(* or past the end of a file, and rewrites the freemap; pass 2 repairs the *)
(* directory; pass 3 corrects the link counts.                             *)
(*                                                                         *)
(* The passes write to disk as they go.  A run of sfsck is taken here as   *)
(* one step: it is not interrupted.  Its report is the exit code: "clean", *)
(* "recov" (errors, all corrected) or "unrecov".                           *)
(*                                                                         *)
(* Pass 2's merging of entries with one name and its descent into          *)
(* subdirectories are left out: no volume this kernel writes has either.   *)
(***************************************************************************)
EXTENDS SfsDisk

DIVROUNDUP(a, b) == (a + b - 1) \div b

FileBlocks(i) == IF i.type = "dir" THEN DIVROUNDUP(i.size, DIRPERBLK) ELSE i.size

\* A pointer that sfsck keeps: inside the volume and below the file's end.
Keep(ptr, fb, i) == IF ptr >= NBLOCKS \/ fb >= FileBlocks(i) THEN 0 ELSE ptr

\* The entries of the indirect block of inode i, as corrected.
KeptEntries(d, i) ==
  [j \in Entry |-> Keep(AsIndirect(d[i.indirect])[j], NDIRECT + j, i)]

\* An indirect block with no entry left is dropped.
check_indirect_block(d, i) ==
  IF i.indirect = 0 \/ (\A j \in Entry : KeptEntries(d, i)[j] = 0) THEN 0 ELSE i.indirect

check_inode_blocks(d, i) ==
  [i EXCEPT !.direct   = [p \in Direct |-> Keep(i.direct[p], p, i)],
            !.indirect = check_indirect_block(d, i)]

\* freemap_blockinuse: how often each block was found in use.  An indirect
\* block counts as soon as it is read, even one then found empty: the later
\* freemap_blockfree ignores a block already found in use.
freemap_blockinuse(d, I, b) ==
  {<<f, p>> \in (DOMAIN I) \X (0 .. NDIRECT + DBPERIDB) :
     /\ b # 0
     /\ CASE p < NDIRECT -> check_inode_blocks(d, I[f]).direct[p] = b
          [] p = NDIRECT -> I[f].indirect = b
          [] OTHER       -> I[f].indirect # 0 /\ KeptEntries(d, I[f])[p - NDIRECT - 1] = b}

Found(d, I) ==
  {SUPER, FREEMAP} \union DOMAIN I
    \union {b \in Block : freemap_blockinuse(d, I, b) # {}}

\* Mutant: a block found in use twice is no cause for alarm.
CrosslinkedNever(d, I) == FALSE

Crosslinked(d, I) ==
  \E b \in Block \ {SUPER} :
    Cardinality(freemap_blockinuse(d, I, b)) + (IF b \in {FREEMAP} \union DOMAIN I THEN 1 ELSE 0) > 1

\* The inodes pass 1 visits: the root and the valid files it names.
Visited(d) ==
  [f \in {g \in DOMAIN OnDisk(d) : g = ROOT \/ AsInode(d[g]).type = "file"} |-> AsInode(d[f])]

\* An entry whose inode is not valid loses its file and its name.
pass1_direntry(d, x) ==
  IF x.name \notin Dots /\ x.ino # NOINO /\ AsInode(d[x.ino]).type # "file"
  THEN FreeSlot ELSE x

\* Overwrite the directory of inode i with the entries e; the rest of its
\* last block is cleared.
sfs_writedir(d, i, e) ==
  [b \in Block |->
     IF \E fb \in 0 .. DIVROUNDUP(Cardinality(DOMAIN e), DIRPERBLK) - 1 : Bmap(d, i, fb) = b /\ b # 0
     THEN LET fb == CHOOSE n \in 0 .. NDIRECT + DBPERIDB - 1 : Bmap(d, i, n) = b
          IN  [k |-> "dir", slot |-> [s \in Slot |->
                 LET x == fb * DIRPERBLK + s IN IF x \in DOMAIN e THEN e[x] ELSE FreeSlot]]
     ELSE d[b]]

\* Pass 1 and freemap_check.
pass1(d) ==
  LET Fixed(I) == [b \in Block |->
        CASE b \in DOMAIN I -> check_inode_blocks(d, I[b])
          [] b = FREEMAP -> FreemapBlock(Found(d, I))
          [] b \notin DOMAIN I /\ \E f \in DOMAIN I : check_indirect_block(d, I[f]) = b /\ b # 0 ->
               LET f == CHOOSE g \in DOMAIN I : check_indirect_block(d, I[g]) = b
               IN  [k |-> "indirect", e |-> KeptEntries(d, I[f])]
          [] OTHER -> d[b]]
      Direntries(e) == [s \in DOMAIN e |-> pass1_direntry(d, e[s])]
      Write(fixed, e, e1) == IF e1 = e THEN fixed ELSE sfs_writedir(fixed, fixed[ROOT], e1)
      Pass(fixed, e) == Write(fixed, e, Direntries(e))
      Walk(I) == Pass(Fixed(I), Entries(d, I[ROOT]))
  IN  Walk(Visited(d))

\* sfsdir_tryadd: into a free slot, else into the room left in the last
\* block, else nowhere.
sfsdir_tryadd(e, name) ==
  LET n == Cardinality(DOMAIN e)
      free == {s \in DOMAIN e : e[s].ino = NOINO}
      entry == [name |-> name, ino |-> ROOT]
  IN  CASE \E s \in DOMAIN e : e[s].name = name -> e
        [] free # {} -> [e EXCEPT ![CHOOSE s \in free : \A t \in free : s <= t] = entry]
        [] n % DIRPERBLK # 0 -> [s \in 0 .. n |-> IF s = n THEN entry ELSE e[s]]
        [] OTHER -> e

HasDots(e) == \A n \in Dots : \E s \in DOMAIN e : e[s].name = n

\* Pass 2: the root gets . and .. where there is room, and a link count of 2.
pass2(d) ==
  LET root == AsInode(d[ROOT])
      Write(e, e2) ==
        [(IF e2 = e THEN d ELSE sfs_writedir(d, root, e2)) EXCEPT
           ![ROOT] = [root EXCEPT !.links = 2, !.size = Cardinality(DOMAIN e2)]]
      Repair(e) == Write(e, sfsdir_tryadd(sfsdir_tryadd(e, "."), ".."))
  IN  Repair(Entries(d, root))

\* Pass 3: a file's link count is the number of names found.
inode_adjust_filelinks(d) ==
  LET I == OnDisk(d)
      e == Entries(d, I[ROOT])
  IN  [b \in Block |->
         IF b \in (DOMAIN I) \ {ROOT}
         THEN [I[b] EXCEPT !.links = Cardinality(LinksTo(e, b))]
         ELSE d[b]]

\* The whole program: the repaired volume, and the exit code.
sfsck(d) ==
  LET Exit(d2, d3) ==
        CASE Crosslinked(d, Visited(d)) \/ ~HasDots(Entries(d2, d2[ROOT])) -> "unrecov"
          [] d3 # d -> "recov"
          [] OTHER  -> "clean"
      Report(d2, d3) == [disk |-> d3, exit |-> Exit(d2, d3)]
      Finish(d2) == Report(d2, inode_adjust_filelinks(d2))
  IN  Finish(pass2(pass1(d)))
=============================================================================
