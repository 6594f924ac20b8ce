------------------------------ MODULE Malloc ------------------------------
(* The first-fit allocator of the C library (userland/lib/libc/stdlib/      *)
(* malloc.c).  Programs ask for bytes; addresses and the sizes of blocks    *)
(* count in units of MBLOCKSIZE, addresses from the bottom of the heap, and *)
(* a header takes one unit.  Sizes are size_t and wrap.  The heap grows by  *)
(* sbrk, which may refuse, and for which more than half of what size_t can  *)
(* say is a negative amount.                                                *)
EXTENDS Integers, Sequences, FiniteSets, SequencesExt, FiniteSetsExt

CONSTANTS
    Sizes,          \* what is asked for, in bytes; malloc(0) is legal
    MBLOCKSIZE,     \* bytes in a unit
    SIZE_MAX,       \* the largest size_t
    PageUnits,      \* PAGE_SIZE / MBLOCKSIZE
    MaxTop,         \* where sbrk begins to fail
    MaxGiven        \* bound: allocations at one time

VARIABLES
    heap,           \* "none" before the first call; "ready"; "failed" after the err
                    \* of __malloc_init; "corrupt" after an errx of malloc or free;
                    \* "wild" once a block or a header has come to lie outside
    top,            \* __heaptop
    mheader,        \* the headers in memory, by address
    given           \* addresses handed out and not freed, and the bytes asked for

vars == <<heap, top, mheader, given>>

Init == heap = "none" /\ top = 0 /\ mheader = <<>> /\ given = <<>>

\* size_t, in units.
Wrap(n) == n % ((SIZE_MAX + 1) \div MBLOCKSIZE)

\* A size in bytes as a number of units; the sum wraps before the mask is applied.
Rounded(size) == ((size + MBLOCKSIZE - 1) % (SIZE_MAX + 1)) \div MBLOCKSIZE

\* Rounded up to whole pages.
Pages(n) == PageUnits * (Wrap(n + PageUnits - 1) \div PageUnits)

------------------------------------------------------------------------------
M_NEXT(h, mh) == mh + h[mh].next
M_PREV(h, mh) == mh - h[mh].prev
M_SIZE(h, mh) == h[mh].next - 1

Header(prev, next, inuse) == [prev |-> prev, next |-> next, inuse |-> inuse]

\* Where the search of malloc comes by: the headers from the bottom up, and at
\* last the place where it finds none or is no longer below the top.
Path(h, t) ==
    LET walk[i \in Nat] ==
            IF i >= t \/ i \notin DOMAIN h \/ h[i].next < 1 THEN <<i>>
            ELSE <<i>> \o walk[i + h[i].next]
    IN  walk[0]

\* The distance to the previous block is what that block says.
PrevAgrees(h, path, k) == h[path[k]].prev = IF k = 1 THEN 0 ELSE h[path[k-1]].next

\* Mutant of __malloc_split: the header is not counted in the block that stays.
__malloc_splitOver(h, mh, size, t) ==
    LET above == M_NEXT(h, mh)
        rest == Wrap(M_SIZE(h, mh) - size)
        split == (mh :> [h[mh] EXCEPT !.next = size])
                   @@ (mh + size :> Header(size, rest + 1, FALSE)) @@ h
    IN  IF rest < 2 \/ size = 0 THEN h
        ELSE IF above = t THEN split
        ELSE [split EXCEPT ![above].prev = rest + 1]

\* The rest of the block becomes a new free block, if it has room for a header
\* and one unit of data.
__malloc_split(h, mh, size, t) ==
    LET above == M_NEXT(h, mh)
        rest == Wrap(M_SIZE(h, mh) - size)
        split == (mh :> [h[mh] EXCEPT !.next = size + 1])
                   @@ (mh + size + 1 :> Header(size + 1, rest, FALSE)) @@ h
    IN  IF rest < 2 THEN h
        ELSE IF above = t THEN split
        ELSE [split EXCEPT ![above].prev = rest]

Give(mh, asked) == given' = (mh + 1 :> asked) @@ given
Abort == heap' = "corrupt" /\ UNCHANGED <<top, mheader, given>>

\* The first free block that is large enough.
Take(mh, asked) ==
    /\ mheader' = LET h == __malloc_split(mheader, mh, Rounded(asked), top)
                  IN  [h EXCEPT ![mh].inuse = TRUE]
    /\ Give(mh, asked)
    /\ heap' = "ready" /\ UNCHANGED top

\* sbrk by an amount that is negative to it: refused, unless the heap is that
\* long, and then it shrinks.
Negative(more) == more >= Wrap(-1) \div 2 + 1
Refused(more) == IF Negative(more) THEN top < Wrap(-more) ELSE top + more > MaxTop

\* No block is: the one at the top grows if it is free, else there is a new one.
\* When the amount has wrapped to nothing the new header, or the one of the split,
\* comes to lie outside the heap; when it has shrunk the heap the block does.
Expand(chain, asked) ==
    LET size == Rounded(asked)
        last == chain[Len(chain)]
        grows == chain # <<>> /\ ~mheader[last].inuse
        more == Pages(IF grows THEN size - M_SIZE(mheader, last) ELSE Wrap(size + 1))
        outside == \/ Negative(more)
                   \/ more = 0 /\ (grows => Wrap(M_SIZE(mheader, last) - size) >= 2)
        mh == IF grows THEN last ELSE top
        h == (mh :> IF grows
                    THEN [mheader[last] EXCEPT !.next = @ + more, !.inuse = TRUE]
                    ELSE Header(IF chain = <<>> THEN 0 ELSE mheader[last].next, more, TRUE))
               @@ mheader
    IN  \/ /\ Refused(more)
           /\ heap' = "ready" /\ UNCHANGED <<top, mheader, given>>
        \/ /\ ~Refused(more) /\ outside
           /\ heap' = "wild" /\ UNCHANGED <<top, mheader, given>>
        \/ /\ ~Refused(more) /\ ~outside
           /\ top' = top + more
           /\ mheader' = __malloc_split(h, mh, size, top')
           /\ Give(mh, asked)
           /\ heap' = "ready"

\* The first call finds the bottom of the heap with sbrk(0), which is aligned; if
\* there is no sbrk, the program ends there.
__malloc_init_fails == heap = "none" /\ heap' = "failed" /\ UNCHANGED <<top, mheader, given>>

\* The search checks each header it passes, and at the end that it has come to the
\* top and not past it.
malloc(asked) ==
    LET path == Path(mheader, top)
        n == Len(path) - 1
        fits == {k \in 1..n : /\ ~mheader[path[k]].inuse
                              /\ M_SIZE(mheader, path[k]) >= Rounded(asked)}
        corrupt == \/ \E k \in 1..n : ~PrevAgrees(mheader, path, k) /\ \A f \in fits : k <= f
                   \/ fits = {} /\ path[n + 1] # top
    IN  /\ heap \in {"none", "ready"} /\ Cardinality(DOMAIN given) < MaxGiven
        /\ \/ corrupt /\ Abort
           \/ ~corrupt /\ fits # {} /\ Take(path[Min(fits)], asked)
           \/ ~corrupt /\ fits = {} /\ Expand(Front(path), asked)

------------------------------------------------------------------------------
\* Two neighbours become one block if both are free; the upper header is wiped.
__malloc_trymerge(h, mh, mhnext) ==
    IF h[mh].inuse \/ h[mhnext].inuse THEN h
    ELSE LET both == h[mh].next + h[mhnext].next
         IN  [a \in DOMAIN h \ {mhnext} |->
                IF a = mh THEN [h[mh] EXCEPT !.next = both]
                ELSE IF a = M_NEXT(h, mhnext) THEN [h[a] EXCEPT !.prev = both]
                ELSE h[a]]

\* The block above first, unless at the top; then the one below, unless at the
\* bottom.
Merged(h, mh, t) ==
    LET up == IF M_NEXT(h, mh) = t THEN h ELSE __malloc_trymerge(h, mh, M_NEXT(h, mh))
    IN  IF mh = 0 THEN up ELSE __malloc_trymerge(up, M_PREV(up, mh), mh)

\* trymerge calls errx when the two headers disagree about the distance.
Disagree(h, mh, t) ==
    \/ M_NEXT(h, mh) # t /\ (M_NEXT(h, mh) \notin DOMAIN h \/ h[M_NEXT(h, mh)].prev # h[mh].next)
    \/ mh # 0 /\ (M_PREV(h, mh) \notin DOMAIN h \/ h[M_PREV(h, mh)].next # h[mh].prev)

\* free of an address that malloc returned.
free(x) ==
    LET mh == x - 1
        h == [mheader EXCEPT ![mh].inuse = FALSE]
    IN  /\ heap = "ready"
        /\ x \in DOMAIN given
        /\ \/ /\ x >= top \/ mh \notin DOMAIN mheader \/ ~mheader[mh].inuse \/ Disagree(h, mh, top)
              /\ Abort
           \/ /\ x < top /\ mh \in DOMAIN mheader /\ mheader[mh].inuse /\ ~Disagree(h, mh, top)
              /\ mheader' = Merged(h, mh, top)
              /\ given' = [a \in DOMAIN given \ {x} |-> given[a]]
              /\ UNCHANGED <<heap, top>>

Next == \/ __malloc_init_fails
        \/ \E asked \in Sizes : malloc(asked)
        \/ \E x \in DOMAIN given : free(x)

Spec == Init /\ [][Next]_vars

------------------------------------------------------------------------------
\* Whatever is allocated and freed in whatever order, malloc and free never take
\* their own heap for corrupt.
NeverAborts == heap # "corrupt"

\* The units that the bytes asked for take up, however many they are.
Extent(x) == x..(x + (given[x] + MBLOCKSIZE - 1) \div MBLOCKSIZE - 1)

\* What malloc returns has the size asked for, lies inside the heap, and shares
\* no unit with another allocation or with a header.
BlocksApart ==
    \A x \in DOMAIN given :
        /\ Extent(x) \subseteq 0..top - 1
        /\ Extent(x) \cap DOMAIN mheader = {}
        /\ \A y \in DOMAIN given \ {x} : Extent(x) \cap Extent(y) = {}

\* free leaves no two free blocks next to each other, every unit of the heap
\* belongs to a block, and no block that is in use is forgotten: space that was
\* freed can be had again in one piece.
Coalesced ==
    LET path == Path(mheader, top)
        chain == Front(path)
    IN  /\ path[Len(path)] = top
        /\ \A k \in 1..Len(chain) - 1 :
              mheader[chain[k]].inuse \/ mheader[chain[k+1]].inuse
        /\ ToSet(chain) = DOMAIN mheader
        /\ Cardinality({a \in DOMAIN mheader : mheader[a].inuse}) = Cardinality(DOMAIN given)

\* man/libc/malloc.html: "malloc allocates size bytes of memory and returns a
\* pointer to it.", and "If memory cannot be obtained, NULL is returned.": the
\* block has that many bytes, and nothing is written outside the heap.
AllocatesSize ==
    /\ heap # "wild"
    /\ \A x \in DOMAIN given : given[x] <= MBLOCKSIZE * M_SIZE(mheader, x - 1)

=============================================================================
