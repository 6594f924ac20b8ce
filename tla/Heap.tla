------------------------------- MODULE Heap -------------------------------
(* The kernel's allocator (kern/vm/kmalloc.c) on top of dumbvm's            *)
(* alloc_kpages, which steals pages from the bottom of the free RAM and     *)
(* never gets one back.                                                     *)
(*                                                                          *)
(* A step is what happens between two acquisitions of kmalloc_spinlock, or  *)
(* one call of alloc_kpages made without it.  An address is a page number   *)
(* and a block number in the page; block 0 begins where its page does, so a *)
(* whole-page allocation and the first block of a heap page look alike to   *)
(* kfree.  Page 0 stands for the NULL that alloc_kpages returns.            *)
EXTENDS Integers, Sequences, FiniteSets, SequencesExt, FiniteSetsExt

CONSTANTS
    Thread,
    PerPage,        \* blocks on a page of each block type: PAGE_SIZE / sizes[i]
    NRefs,          \* NPAGEREFS_PER_PAGE; 256 in the code, at least as many as threads
    NRoots,         \* NUM_PAGEREFPAGES
    RamPages,       \* pages between the kernel and the top of RAM
    BigPages,       \* page counts of the allocations that bypass the subpages
    MaxHeld         \* bound: blocks a thread has at one time

VARIABLES
    firstpaddr,     \* the first page not yet stolen
    kheaproots,     \* page of pagerefs, bitmap and count, for every root
    pageref,        \* what the pagerefs in use by a heap page hold
    sizebases,      \* the list of the pagerefs of each block type
    allbase,        \* the list of all pagerefs
    held,           \* what each thread got from kmalloc and has not freed
    call,           \* where each thread is in kmalloc
    panicked

vars == <<firstpaddr, kheaproots, pageref, sizebases, allbase, held, call, panicked>>

BlockTypes == DOMAIN PerPage
Roots == 1..NRoots
NoCall == [at |-> "user", type |-> 0, page |-> 0, root |-> 0, bit |-> 0, va |-> 0]

Init ==
    /\ firstpaddr = 1
    /\ kheaproots = [r \in Roots |-> [page |-> 0, inuse |-> {}, numinuse |-> 0]]
    /\ pageref = <<>>
    /\ sizebases = [b \in BlockTypes |-> <<>>]
    /\ allbase = <<>>
    /\ held = [t \in Thread |-> {}]
    /\ call = [t \in Thread |-> NoCall]
    /\ panicked = FALSE

------------------------------------------------------------------------------
(* Pages.                                                                     *)

Fits(n) == firstpaddr + n <= RamPages + 1

\* getppages: ram_stealmem under stealmem_lock.
ram_stealmem(n) ==
    firstpaddr' = IF Fits(n) THEN firstpaddr + n ELSE firstpaddr

\* alloc_kpages: the address of the first page, or NULL.
alloc_kpages(n) == IF Fits(n) THEN firstpaddr ELSE 0

------------------------------------------------------------------------------
(* Pagerefs.                                                                  *)

\* allocpageref takes the lowest clear bit of the first root that is not full.
RootFor == Min({r \in Roots : kheaproots[r].numinuse < NRefs} \cup {NRoots + 1})
BitIn(r) == Min((0..NRefs-1) \ kheaproots[r].inuse)

\* A pageref is known by the page it is on and its place there.
Ref(r, bit) == <<kheaproots[r].page, bit>>

\* freepageref: the root whose page the pageref is on; a root without a page on
\* the way there must have no bit in use, and running out of roots is fatal.
RootOf(ref) == {r \in Roots : kheaproots[r].page = ref[1]}
FreepagerefPanics(ref) ==
    \/ RootOf(ref) = {}
    \/ \E r \in 1..Min(RootOf(ref)) - 1 :
          kheaproots[r].page = 0 /\ kheaproots[r].numinuse # 0
    \/ ref[2] \notin kheaproots[Min(RootOf(ref))].inuse

freepageref(ref) ==
    kheaproots' = [kheaproots EXCEPT ![Min(RootOf(ref))] =
                     [@ EXCEPT !.inuse = @ \ {ref[2]}, !.numinuse = @ - 1]]

------------------------------------------------------------------------------
(* Allocation.                                                                *)

Block(page, blk, n) == [page |-> page, blk |-> blk, npages |-> n]
Goto(t, c) == call' = [call EXCEPT ![t] = c]
Got(t, b) == held' = [held EXCEPT ![t] = @ \cup {b}]
Wants(t) == ~panicked /\ call[t] = NoCall /\ Cardinality(held[t]) < MaxHeld
At(t, place) == ~panicked /\ call[t].at = place

\* kmalloc of at least LARGEST_SUBPAGE_SIZE bytes.
KmallocBig(t, n) ==
    /\ Wants(t)
    /\ ram_stealmem(n)
    /\ IF Fits(n) THEN Got(t, Block(alloc_kpages(n), 0, n)) ELSE UNCHANGED held
    /\ UNCHANGED <<kheaproots, pageref, sizebases, allbase, call, panicked>>

\* Mutant of Doalloc: the freelist still begins with the block handed out.
DoallocKeeps(t, ref, pr) ==
    /\ pageref' = (ref :> [pr EXCEPT !.nfree = @ - 1,
                                     !.free = IF Len(@) = 1 THEN <<>> ELSE @]) @@ pageref
    /\ Got(t, Block(pr.page, Head(pr.free), 0))

\* doalloc: the head of the page's freelist is the result.
Doalloc(t, ref, pr) ==
    /\ pageref' = (ref :> [pr EXCEPT !.free = Tail(@), !.nfree = @ - 1]) @@ pageref
    /\ Got(t, Block(pr.page, Head(pr.free), 0))

\* subpage_kmalloc up to the release of the spinlock: the first page of the
\* type with a free block, or a new page.
Subpage(t, b) ==
    LET withfree == SelectSeq(sizebases[b], LAMBDA r : pageref[r].nfree > 0)
    IN  /\ Wants(t)
        /\ \/ /\ withfree # <<>>
              /\ Doalloc(t, Head(withfree), pageref[Head(withfree)])
              /\ UNCHANGED call
           \/ /\ withfree = <<>>
              /\ Goto(t, [NoCall EXCEPT !.at = "page", !.type = b])
              /\ UNCHANGED <<pageref, held>>
        /\ UNCHANGED <<firstpaddr, kheaproots, sizebases, allbase, panicked>>

\* The new page, asked for without the spinlock.
GetPage(t) ==
    /\ At(t, "page")
    /\ ram_stealmem(1)
    /\ Goto(t, IF Fits(1) THEN [call[t] EXCEPT !.at = "ref", !.page = alloc_kpages(1)]
                          ELSE NoCall)
    /\ UNCHANGED <<kheaproots, pageref, sizebases, allbase, held, panicked>>

\* The new page joins both lists, its blocks on the freelist from the last to
\* the first, and gives its first block.
Fresh(t, ref) ==
    LET b == call[t].type
        n == PerPage[b]
        pr == [page |-> call[t].page, type |-> b, nfree |-> n,
               free |-> [i \in 1..n |-> n - i]]
    IN  /\ Doalloc(t, ref, pr)
        /\ sizebases' = [sizebases EXCEPT ![b] = <<ref>> \o @]
        /\ allbase' = <<ref>> \o allbase
        /\ Goto(t, NoCall)

\* No pageref: the page goes to free_kpages, which does nothing with it.
NoRef(t) ==
    /\ Goto(t, NoCall)
    /\ UNCHANGED <<pageref, sizebases, allbase, held>>

\* allocpageref, up to allocpagerefpage's release of the spinlock when the root
\* it chose has no page yet.
AllocRef(t) ==
    LET r == RootFor
        bit == BitIn(r)
    IN  /\ At(t, "ref")
        /\ \/ /\ r \notin Roots
              /\ NoRef(t)
              /\ UNCHANGED kheaproots
           \/ /\ r \in Roots
              /\ kheaproots' = [kheaproots EXCEPT ![r] =
                                  [@ EXCEPT !.inuse = @ \cup {bit}, !.numinuse = @ + 1]]
              /\ \/ /\ kheaproots[r].page # 0
                    /\ Fresh(t, Ref(r, bit))
                 \/ /\ kheaproots[r].page = 0
                    /\ Goto(t, [call[t] EXCEPT !.at = "refpage", !.root = r, !.bit = bit])
                    /\ UNCHANGED <<pageref, sizebases, allbase, held>>
        /\ UNCHANGED <<firstpaddr, panicked>>

\* allocpagerefpage's alloc_kpages, without the spinlock.
GetRefPage(t) ==
    /\ At(t, "refpage")
    /\ ram_stealmem(1)
    /\ Goto(t, [call[t] EXCEPT !.at = "refpaged", !.va = alloc_kpages(1)])
    /\ UNCHANGED <<kheaproots, pageref, sizebases, allbase, held, panicked>>

\* allocpagerefpage with the spinlock again.  Another thread may have given the
\* root its page: then ours is let go, with the spinlock released for that.
\* Without a page for the root the bit just taken is not given back.
RefPaged(t) ==
    LET r == call[t].root
        va == call[t].va
    IN  /\ At(t, "refpaged")
        /\ \/ /\ va = 0 /\ kheaproots[r].page = 0
              /\ NoRef(t)
              /\ UNCHANGED kheaproots
           \/ /\ va = 0 /\ kheaproots[r].page # 0
              /\ Fresh(t, Ref(r, call[t].bit))
              /\ UNCHANGED kheaproots
           \/ /\ va # 0 /\ kheaproots[r].page # 0
              /\ Goto(t, [call[t] EXCEPT !.at = "again"])
              /\ UNCHANGED <<kheaproots, pageref, sizebases, allbase, held>>
           \/ /\ va # 0 /\ kheaproots[r].page = 0
              /\ kheaproots' = [kheaproots EXCEPT ![r].page = va]
              /\ Fresh(t, <<va, call[t].bit>>)
        /\ UNCHANGED <<firstpaddr, panicked>>

\* The spinlock is back after free_kpages.
Again(t) ==
    /\ At(t, "again")
    /\ Fresh(t, Ref(call[t].root, call[t].bit))
    /\ UNCHANGED <<firstpaddr, kheaproots, panicked>>

------------------------------------------------------------------------------
(* Freeing.                                                                   *)

\* remove_lists
Without(list, ref) == SelectSeq(list, LAMBDA r : r # ref)

\* The last block of a page came back: the page leaves both lists and its
\* pageref is free.  The page itself goes to free_kpages.
WholePageFree(ref) ==
    \/ /\ FreepagerefPanics(ref)
       /\ panicked' = TRUE
       /\ UNCHANGED <<kheaproots, pageref, sizebases, allbase>>
    \/ /\ ~FreepagerefPanics(ref)
       /\ freepageref(ref)
       /\ pageref' = [r \in DOMAIN pageref \ {ref} |-> pageref[r]]
       /\ sizebases' = [sizebases EXCEPT ![pageref[ref].type] = Without(@, ref)]
       /\ allbase' = Without(allbase, ref)
       /\ UNCHANGED panicked

\* kfree: subpage_kfree looks for the page on allbase; a pointer to no heap page
\* must be a whole-page allocation.
Kfree(t, b) ==
    LET mine == SelectSeq(allbase, LAMBDA r : pageref[r].page = b.page)
        ref == Head(mine)
        pr == [pageref[ref] EXCEPT !.free = <<b.blk>> \o @, !.nfree = @ + 1]
    IN  /\ ~panicked /\ call[t] = NoCall /\ b \in held[t]
        /\ held' = [held EXCEPT ![t] = @ \ {b}]
        /\ \/ /\ mine = <<>>
              /\ panicked' = (b.blk # 0)
              /\ UNCHANGED <<kheaproots, pageref, sizebases, allbase>>
           \/ /\ mine # <<>> /\ pr.nfree < PerPage[pr.type]
              /\ pageref' = [pageref EXCEPT ![ref] = pr]
              /\ UNCHANGED <<kheaproots, sizebases, allbase, panicked>>
           \/ /\ mine # <<>> /\ pr.nfree = PerPage[pr.type]
              /\ WholePageFree(ref)
        /\ UNCHANGED <<firstpaddr, call>>

Next ==
    \E t \in Thread :
        \/ \E n \in BigPages : KmallocBig(t, n)
        \/ \E b \in BlockTypes : Subpage(t, b)
        \/ GetPage(t) \/ AllocRef(t) \/ GetRefPage(t) \/ RefPaged(t) \/ Again(t)
        \/ \E b \in held[t] : Kfree(t, b)

Spec == Init /\ [][Next]_vars

------------------------------------------------------------------------------
Listed == ToSet(allbase)
HeapPages == {pageref[r].page : r \in Listed}
On(ref) == UNION {{b.blk : b \in {x \in held[t] : x.npages = 0 /\ x.page = pageref[ref].page}} :
                     t \in Thread}

\* Every block of a heap page is either in one thread's hands or on the page's
\* freelist, once: kmalloc never hands out a block twice, and none is lost
\* however the threads interleave in subpage_kmalloc.
BlocksOnce ==
    /\ \A ref \in Listed :
          LET pr == pageref[ref]
          IN  /\ pr.nfree = Len(pr.free)
              /\ ToSet(pr.free) \cap On(ref) = {}
              /\ Len(pr.free) + Cardinality(On(ref)) = PerPage[pr.type]
              /\ Cardinality(ToSet(pr.free)) = Len(pr.free)
    /\ \A t, u \in Thread : t # u => held[t] \cap held[u] = {}
    /\ \A t \in Thread : \A b \in held[t] : b.npages = 0 => b.page \in HeapPages

\* The pages some part of the kernel believes it has: heap pages, pages of
\* pagerefs, whole-page allocations and those on their way into the heap.
Uses ==
    {<<"heap", r, {pageref[r].page}>> : r \in Listed}
      \cup {<<"refs", r, {kheaproots[r].page}>> : r \in {x \in Roots : kheaproots[x].page # 0}}
      \cup UNION {{<<"big", t, b.page..b.page + b.npages - 1>> :
                      b \in {x \in held[t] : x.npages > 0}} : t \in Thread}
      \cup {<<"new", t, {call[t].page}>> : t \in {x \in Thread : call[x].page # 0}}
      \cup {<<"newrefs", t, {call[t].va}>> :
              t \in {x \in Thread : call[x].at = "refpaged" /\ call[x].va # 0}}

\* No page of RAM has two uses at once, and none is used that was not stolen.
PagesOnce ==
    /\ \A u, v \in Uses : u # v => u[3] \cap v[3] = {}
    /\ \A u \in Uses : u[3] \subseteq 1..firstpaddr - 1

\* The lists of the block types share out the list of all heap pages, and no
\* page is kept of which all blocks are free: subpage_kfree releases it when its
\* last block returns.
ListsAgree ==
    /\ \A b \in BlockTypes : \A i \in DOMAIN sizebases[b] :
          sizebases[b][i] \in Listed /\ pageref[sizebases[b][i]].type = b
    /\ FoldSet(LAMBDA b, n : n + Len(sizebases[b]), 0, BlockTypes) = Len(allbase)
    /\ \A ref \in Listed : pageref[ref].nfree < PerPage[pageref[ref].type]

\* No assertion of freepageref or kfree fails: a pageref is found again on the
\* page it came from although the spinlock is released while that page is got.
NoPanic == ~panicked

=============================================================================
