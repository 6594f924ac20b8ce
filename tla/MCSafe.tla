------------------------------- MODULE MCSafe -------------------------------
(* The parts with safety properties only: the tables of open files, locks    *)
(* and semaphores, names and mounts, semfs, memory in kernel and user        *)
(* programs and 64-bit arithmetic, for TLC.  They share no state here: the   *)
(* first state of a behaviour chooses the part it exercises; the others stay *)
(* as they begin, or their variables are 0 throughout.                       *)
EXTENDS FileTable, Synch, Dumbvm, TLC

CONSTANTS
    T1, T2,             \* threads
    Menu, U, H, Vol, emu0,  \* a process, an open file, a volume, the emulator's
    c1, c2,             \* processors
    Nil, NoOne

VARIABLES
    which,      \* the part that this behaviour exercises
    vf_knowndevs, vf_refs, vf_p_cwd, vf_bootfs, vf_files, vf_st, vf_lost,
    vf_unsynced, vf_halted, se_sems, se_dents, se_vn_refcount, se_tablelock,
    se_dirlock, se_vfs_biglock, se_th, se_crashed, he_firstpaddr,
    he_kheaproots, he_pageref, he_sizebases, he_allbase, he_held, he_call,
    he_panicked, ma_top, ma_mheader, ma_given, ma_heap, qu_x, qu_y, qu_div

vfvars == <<vf_knowndevs, vf_refs, vf_p_cwd, vf_bootfs, vf_files,
            vf_st, vf_lost, vf_unsynced, vf_halted>>
sevars == <<se_sems, se_dents, se_vn_refcount, se_tablelock,
            se_dirlock, se_vfs_biglock, se_th, se_crashed>>
hevars == <<he_firstpaddr, he_kheaproots, he_pageref, he_sizebases,
            he_allbase, he_held, he_call, he_panicked>>
mavars == <<ma_top, ma_mheader, ma_given, ma_heap>>
quvars == <<qu_x, qu_y, qu_div>>
vars == <<which, fileVars, synchVars, vfvars, sevars, hevars, vmVars, mavars, quvars>>

\* The processes with open files; the threads of semfs and kmalloc.
Symmetry == Permutations(Proc) \cup Permutations({T1, T2})

\* A descriptor that programs close, and one that they do not, both ways; one
\* that is out of range.
MCDup2Args == {<<1, 2>>, <<2, 1>>, <<2, OPEN_MAX>>}

\* A disk with a volume on it, without and with the emulator.
Disk == [name |-> <<"lhd0">>, kind |-> "disk"]
Emulator == [name |-> <<"emu0">>, kind |-> "fs", fs |-> emu0]
VolName == [n \in {<<"lhd0">>} |-> <<"vol">>]

\* Programs of two segments, of one, and of three.
Seg(b, n, f, t) == [base |-> b, pages |-> n, filepages |-> f, text |-> t]
MCProgram == { <<Seg(1, 1, 1, "x"), Seg(2, 1, 0, "x")>>,
               <<Seg(1, 1, 1, "y")>>,
               <<Seg(1, 1, 1, "z"), Seg(2, 1, 1, "z"), Seg(3, 1, 1, "z")>> }
MCMachines == {[cpus |-> {c1}, spaces |-> 3], [cpus |-> {c1, c2}, spaces |-> 2]}

\* Open files and a reclaim that fails, on one disk; and, with the emulator
\* besides, current directories and the boot file system.
Files == INSTANCE Vfs WITH
    Menu <- Menu, User <- {U}, Handle <- {H}, MaxLost <- 1, Volume <- {Vol},
    Attached <- <<Disk>>, VolName <- VolName, None <- Nil,
    knowndevs <- vf_knowndevs, refs <- vf_refs, p_cwd <- vf_p_cwd,
    bootfs <- vf_bootfs, files <- vf_files, st <- vf_st, lost <- vf_lost,
    unsynced <- vf_unsynced, halted <- vf_halted

Names == INSTANCE Vfs WITH
    Menu <- Menu, User <- {U}, Handle <- {}, MaxLost <- 0, Volume <- {Vol},
    Attached <- <<Disk, Emulator>>, VolName <- VolName, None <- Nil,
    knowndevs <- vf_knowndevs, refs <- vf_refs, p_cwd <- vf_p_cwd,
    bootfs <- vf_bootfs, files <- vf_files, st <- vf_st, lost <- vf_lost,
    unsynced <- vf_unsynced, halted <- vf_halted

Sems == INSTANCE Semfs WITH
    Thread <- {T1, T2}, Name <- {"a", "b"}, SEMFS_ROOTDIR <- 2, UINT_MAX <- 2,
    Amount <- {1, 2}, OutOfMemory <- TRUE, NULL <- Nil, NoThread <- NoOne,
    sems <- se_sems, dents <- se_dents, vn_refcount <- se_vn_refcount,
    tablelock <- se_tablelock, dirlock <- se_dirlock,
    vfs_biglock <- se_vfs_biglock, th <- se_th, crashed <- se_crashed

Kmalloc == INSTANCE Heap WITH
    Thread <- {T1, T2}, PerPage <- <<2, 3>>, NRefs <- 2, NRoots <- 2,
    RamPages <- 5, BigPages <- {2}, MaxHeld <- 2, firstpaddr <- he_firstpaddr,
    kheaproots <- he_kheaproots, pageref <- he_pageref,
    sizebases <- he_sizebases, allbase <- he_allbase, held <- he_held,
    call <- he_call, panicked <- he_panicked

Libc == INSTANCE Malloc WITH
    Sizes <- {0, 1, 4, 9}, MBLOCKSIZE <- 2, SIZE_MAX <- 63, PageUnits <- 4,
    MaxTop <- 12, MaxGiven <- 3, heap <- ma_heap, top <- ma_top,
    mheader <- ma_mheader, given <- ma_given

Int64 == INSTANCE Quad WITH
    HALF_BITS <- 2, x <- qu_x, y <- qu_y, div <- qu_div

------------------------------------------------------------------------------

Init ==
    /\ which \in {"tables", "synch", "files", "names", "semfs", "heap", "dumbvm", "malloc", "quad"}
    /\ FileInit /\ SynchInit /\ (sem_count # 0 => which = "synch")
    /\ IF which = "files" THEN Files!Init
       ELSE IF which = "names" THEN Names!Init
       ELSE /\ vf_knowndevs = 0 /\ vf_refs = 0 /\ vf_p_cwd = 0
            /\ vf_bootfs = 0 /\ vf_files = 0 /\ vf_st = 0 /\ vf_lost = 0
            /\ vf_unsynced = 0 /\ vf_halted = 0
    /\ IF which = "semfs" THEN Sems!Init
       ELSE /\ se_sems = 0 /\ se_dents = 0 /\ se_vn_refcount = 0
            /\ se_tablelock = 0 /\ se_dirlock = 0 /\ se_vfs_biglock = 0
            /\ se_th = 0 /\ se_crashed = 0
    /\ IF which = "heap" THEN Kmalloc!Init
       ELSE /\ he_firstpaddr = 0 /\ he_kheaproots = 0 /\ he_pageref = 0
            /\ he_sizebases = 0 /\ he_allbase = 0 /\ he_held = 0
            /\ he_call = 0 /\ he_panicked = 0
    /\ IF which = "dumbvm" THEN VmInit
       ELSE /\ cpu = <<>> /\ p_addrspace = [p \in Procs |-> 0]
            /\ firstpaddr = 0 /\ mem = 0 /\ tlb = 0 /\ spaces = 0 /\ aspace = 0 /\ mode = 0
            /\ fault = 0 /\ image = 0 /\ wasbad = 0 /\ panicked = 0
    /\ IF which = "malloc" THEN Libc!Init
       ELSE /\ ma_heap = 0 /\ ma_top = 0 /\ ma_mheader = 0
            /\ ma_given = 0
    /\ IF which = "quad" THEN Int64!Init
       ELSE /\ qu_x = 0 /\ qu_y = 0 /\ qu_div = 0

Only(part) ==
    /\ which = part /\ UNCHANGED which
    /\ IF part = "tables" THEN TRUE ELSE UNCHANGED fileVars
    /\ IF part = "synch" THEN TRUE ELSE UNCHANGED synchVars
    /\ IF part \in {"files", "names"} THEN TRUE ELSE UNCHANGED vfvars
    /\ IF part = "semfs" THEN TRUE ELSE UNCHANGED sevars
    /\ IF part = "heap" THEN TRUE ELSE UNCHANGED hevars
    /\ IF part = "dumbvm" THEN TRUE ELSE UNCHANGED vmVars
    /\ IF part = "malloc" THEN TRUE ELSE UNCHANGED mavars
    /\ IF part = "quad" THEN TRUE ELSE UNCHANGED quvars

\* System calls on open files never all wait for each other; the other parts may
\* come to an end, or wait for a call that nobody makes.
Ended == which # "tables" /\ UNCHANGED vars

Next ==
    \/ Only("tables") /\ FileNext
    \/ Only("synch") /\ SynchNext
    \/ Only("files") /\ Files!Next
    \/ Only("names") /\ Names!Next
    \/ Only("semfs") /\ Sems!Next
    \/ Only("heap") /\ Kmalloc!Next
    \/ Only("dumbvm") /\ VmNext
    \/ Only("malloc") /\ Libc!Next
    \/ Only("quad") /\ Int64!Next
    \/ Ended

Spec == Init /\ [][Next]_vars

------------------------------------------------------------------------------
(* The properties of the parts, each explained in its module; those of the   *)
(* tables of open files, of Synch and of Dumbvm are named there.             *)

\* vnode.c, vfslist.c, vfscwd.c: vn_refcount counts the pointers there are, a
\* volume stays mounted while somebody holds a vnode of it, no process stands in
\* a device, and the q command leaves nothing mounted once nothing is open.
VolumesHeld ==
    /\ which = "files" => /\ Files!RefsCounted /\ Files!FsStays
                          /\ Files!StandsInVolume /\ Files!QuitUnmounts
    /\ which = "names" => /\ Names!RefsCounted /\ Names!FsStays
                          /\ Names!StandsInVolume /\ Names!QuitUnmounts

\* semfs_vnops.c: whatever reclaim races with, vn_refcount counts the
\* references, a semaphore that somebody has open stays, and none is left
\* without a name and without a user.
SemsAccounted ==
    which = "semfs" => /\ Sems!VnodeRefs /\ Sems!OpenSemsStay
                       /\ Sems!NothingLeaks
\* semfs_vnops.c: calls never all wait for each other.
SemNoDeadlock == which = "semfs" => Sems!NoDeadlock

\* kmalloc.c, ram.c: no block is handed out twice and none is lost, no page has
\* two uses, the lists of pages agree and keep no empty page; no assertion
\* about them fails.
HeapSound ==
    which = "heap" => /\ Kmalloc!NoPanic /\ Kmalloc!BlocksOnce
                      /\ Kmalloc!PagesOnce /\ Kmalloc!ListsAgree

\* malloc.c: for sizes that do not wrap when they are rounded up, malloc and free
\* never take their own heap for corrupt, allocations have the size asked for and
\* lie apart from each other and from headers, no two free blocks lie next to
\* each other and no space is lost.
MallocSound ==
    which = "malloc" => /\ Libc!NeverAborts /\ Libc!BlocksApart
                        /\ Libc!Coalesced

\* gcc-millicode: quotient so far and rest make up the dividend in every round
\* of qdivrem.c; quotients, remainders, products, shifts, sums and comparisons
\* of two words are right.
ArithmeticRight ==
    which = "quad" => /\ Int64!LoopInvariant /\ Int64!DivisionRight
                      /\ Int64!SignedDivisionRight /\ Int64!MultiplicationRight
                      /\ Int64!WordsRight

=============================================================================
