------------------------------ MODULE Dumbvm ------------------------------
(* Address spaces under dumbvm: physical pages, the TLB of each processor,  *)
(* vm_fault, and the system calls that replace, copy and destroy an address *)
(* space (runprogram, execv with load_elf, fork and exit).                  *)
(*                                                                          *)
(* A page number stands for an address.  A process has one thread; it acts  *)
(* only while a processor runs it and may lose the processor between any    *)
(* two steps.  Memory holds a value per page, and "image" remembers, for    *)
(* the properties only, what a program should find in its memory.           *)
EXTENDS Integers, Sequences

CONSTANTS
    Procs,
    Program,        \* the files that can be run: sequences of segments
    NUM_TLB,
    RamPages,
    StackPage,      \* the one page of stack (18 in the code), above all segments
    Values,         \* what a program writes
    Written,        \* bound: the pages a program writes to; it reads them all
    Machines,       \* processors, and bound: address spaces made on them
    NONE

\* A segment: its first page (as_define_region takes 0 for none), its pages, and
\* those that the file fills.
Segment == [base : Nat \ {0}, pages : Nat, filepages : Nat, text : STRING]

ASSUME VmAssumption ==
    /\ Procs # {} /\ NONE \notin Procs
    /\ NUM_TLB \in Nat /\ RamPages \in Nat /\ StackPage \in Nat
    /\ \A file \in Program : file \in Seq(Segment) /\ file # <<>>

VARIABLES
    firstpaddr,     \* first page of RAM not yet given out
    mem,            \* contents of RAM
    tlb,            \* per processor, per slot: <<virtual, physical>> or NONE
    cpu,            \* the process each processor runs
    spaces,         \* bound: address spaces that can be made
    aspace,         \* every address space made so far
    p_addrspace,
    mode,           \* what a process is doing, and with what
    fault,          \* a translation found by vm_fault and not yet in the TLB
    image,
    wasbad,         \* processes with an execv that failed
    panicked

vmVars == <<firstpaddr, mem, tlb, cpu, spaces, aspace, p_addrspace, mode, fault, image,
            wasbad, panicked>>

Slots == 1..NUM_TLB
Cpu == DOMAIN cpu
NoTlb == [i \in Slots |-> NONE]
InUser == [at |-> "user", call |-> "none", into |-> 0, old |-> 0, file |-> <<>>, next |-> 0]
Absent == [InUser EXCEPT !.at = "absent"]

\* An address space of two regions, before it has any memory.
Unfilled(vbase1, npages1, vbase2, npages2) ==
    [vbase1 |-> vbase1, npages1 |-> npages1, pbase1 |-> 0,
     vbase2 |-> vbase2, npages2 |-> npages2, pbase2 |-> 0, stackpbase |-> 0]

VmInit ==
    /\ firstpaddr = 1
    /\ mem = [f \in 1..RamPages |-> NONE]
    /\ \E machine \in Machines :
          /\ tlb = [c \in machine.cpus |-> NoTlb]
          /\ cpu = [c \in machine.cpus |-> NONE]
          /\ spaces = machine.spaces
    /\ aspace = <<>>
    /\ p_addrspace = [p \in Procs |-> 0]
    /\ mode = [p \in Procs |-> Absent]
    /\ fault = [p \in Procs |-> NONE]
    /\ image = [p \in Procs |-> <<>>]
    /\ wasbad = {}
    /\ panicked = FALSE

------------------------------------------------------------------------------
(* Address spaces.                                                            *)

as_create == aspace' = Append(aspace, Unfilled(0, 0, 0, 0))
New == Len(aspace) + 1

\* as_define_region, for each PT_LOAD segment in turn; more than two are refused.
Defined(file) ==
    IF Len(file) = 1 THEN Unfilled(file[1].base, file[1].pages, 0, 0)
    ELSE Unfilled(file[1].base, file[1].pages, file[2].base, file[2].pages)

\* The translation vm_fault makes: the first region that has the page.
Within(v, base, n) == base <= v /\ v < base + n
Physical(a, v) ==
    IF Within(v, a.vbase1, a.npages1) THEN (v - a.vbase1) + a.pbase1
    ELSE IF Within(v, a.vbase2, a.npages2) THEN (v - a.vbase2) + a.pbase2
    ELSE IF v = StackPage THEN a.stackpbase
    ELSE 0

Pages(a) == {v \in 1..StackPage : Physical(a, v) # 0}

\* vm_fault's assertions: the address space has been set up properly.
SetUp(a) == 0 \notin {a.vbase1, a.npages1, a.pbase1, a.vbase2, a.npages2, a.pbase2, a.stackpbase}

\* The physical pages of a region, once it has some, and of an address space.
Region(base, n) == IF base = 0 THEN {} ELSE base..(base + n - 1)
Frames(a) == Region(a.pbase1, a.npages1) \cup Region(a.pbase2, a.npages2)
                                         \cup Region(a.stackpbase, 1)

Fits(n) == firstpaddr + n <= RamPages + 1

\* getppages: ram_stealmem under stealmem_lock.
getppages(n) == firstpaddr' = firstpaddr + n

------------------------------------------------------------------------------
(* Processors.                                                                *)

Runs(c, p, where) == ~panicked /\ cpu[c] = p /\ mode[p].at = where
VmGoto(p, where) == mode' = [mode EXCEPT ![p].at = where]

\* Mutant of as_activate: the last slot is left as it is.
as_activateShort(c, p) ==
    tlb' = IF p_addrspace'[p] = 0 THEN tlb
           ELSE [tlb EXCEPT ![c] = [NoTlb EXCEPT ![NUM_TLB] = tlb[c][NUM_TLB]]]

\* as_activate: every entry goes, unless the process has no address space.
as_activate(c, p) ==
    tlb' = IF p_addrspace'[p] = 0 THEN tlb ELSE [tlb EXCEPT ![c] = NoTlb]

\* thread_switch, from a process (or none) to another one that no processor
\* runs; thread_startup does the same for a new one.
Switch(c, p) ==
    /\ ~panicked
    /\ mode[p].at # "absent"
    /\ \A d \in Cpu : cpu[d] # p
    /\ cpu' = [cpu EXCEPT ![c] = p]
    /\ UNCHANGED p_addrspace
    /\ as_activate(c, p)
    /\ UNCHANGED <<firstpaddr, mem, aspace, mode, fault, image, wasbad, panicked>>

\* The processor has nothing else to run, or a kernel thread.
Idle(c) ==
    /\ ~panicked /\ cpu[c] # NONE
    /\ cpu' = [cpu EXCEPT ![c] = NONE]
    /\ UNCHANGED <<firstpaddr, mem, tlb, aspace, p_addrspace, mode, fault, image, wasbad, panicked>>

------------------------------------------------------------------------------
(* Memory accesses.                                                           *)

Hits(c, v) == {tlb[c][i][2] : i \in {j \in Slots : tlb[c][j] # NONE /\ tlb[c][j][1] = v}}
Panic == panicked' = TRUE

\* A program writes to a page the TLB knows.
UserWrite(c, v, val) ==
    LET p == cpu[c]
    IN  /\ p # NONE /\ Runs(c, p, "user") /\ fault[p] = NONE
        /\ v \in DOMAIN image[p] \cap Written
        /\ \E f \in Hits(c, v) : mem' = [mem EXCEPT ![f] = val]
        /\ image' = [image EXCEPT ![p][v] = val]
        /\ UNCHANGED <<firstpaddr, tlb, cpu, aspace, p_addrspace, mode, fault, wasbad, panicked>>

\* The pages load_elf's second pass fills from the file, and for execv the
\* stack, which gets the arguments; and the one that comes next.
FromFile(s) == [i \in 1..s.filepages |-> <<s.base + i - 1, s.text>>]
Todo(m) == FromFile(m.file[1])
           \o (IF Len(m.file) > 1 THEN FromFile(m.file[2]) ELSE <<>>)
           \o (IF m.call = "execv" THEN <<<<StackPage, "args">>>> ELSE <<>>)
Loads(p) == mode[p].at = "load" /\ mode[p].next <= Len(Todo(mode[p]))
Loading(p) == Todo(mode[p])[mode[p].next]

\* The next page the process is going to touch: any page for a program, the
\* next one of the file while the kernel loads it.
Touches(p) ==
    CASE mode[p].at = "user" -> 1..StackPage
      [] Loads(p) -> {Loading(p)[1]}
      [] OTHER -> {}

\* vm_fault up to splhigh.  The regions of an address space must all be there,
\* and a program that reaches outside them is killed, which panics; load_elf
\* only touches pages it has defined.
FaultTranslates(c, v) ==
    LET p == cpu[c]
        a == aspace[p_addrspace[p]]
    IN  /\ ~panicked /\ p # NONE /\ fault[p] = NONE
        /\ v \in Touches(p)
        /\ Hits(c, v) = {}
        /\ \/ /\ ~SetUp(a) \/ Physical(a, v) = 0
              /\ Panic
              /\ UNCHANGED fault
           \/ /\ SetUp(a) /\ Physical(a, v) # 0
              /\ fault' = [fault EXCEPT ![p] = <<v, Physical(a, v)>>]
              /\ UNCHANGED panicked
        /\ UNCHANGED <<firstpaddr, mem, tlb, cpu, aspace, p_addrspace, mode, image, wasbad>>

FreeTlb(c) == {i \in Slots : tlb[c][i] = NONE}

\* A call that made an address space fails.  execv puts the old one back, frees
\* the new one and returns to the program; as_activate is not called.  fork only
\* returns.  runprogram returns to thread_exit with its process attached, which
\* panics.
Back(p) ==
    \/ /\ mode[p].call = "execv"
       /\ p_addrspace' = [p_addrspace EXCEPT ![p] = mode[p].old]
       /\ mode' = [mode EXCEPT ![p] = InUser]
       /\ wasbad' = wasbad \cup {p}
       /\ UNCHANGED panicked
    \/ /\ mode[p].call = "fork"
       /\ mode' = [mode EXCEPT ![p] = InUser]
       /\ UNCHANGED <<p_addrspace, wasbad, panicked>>
    \/ /\ mode[p].call = "run"
       /\ Panic
       /\ UNCHANGED <<p_addrspace, mode, wasbad>>

\* vm_fault from splhigh on: the translation goes into the first slot that is
\* not valid.  With none left the fault fails: a program is killed, which
\* panics, and a copy by the kernel returns EFAULT.
FaultLoads(c) ==
    LET p == cpu[c]
    IN  /\ ~panicked /\ p # NONE /\ fault[p] # NONE
        /\ fault' = [fault EXCEPT ![p] = NONE]
        /\ \/ /\ \E i \in FreeTlb(c) :
                    /\ \A j \in FreeTlb(c) : i <= j
                    /\ tlb' = [tlb EXCEPT ![c][i] = fault[p]]
              /\ UNCHANGED <<p_addrspace, mode, wasbad, panicked>>
           \/ /\ FreeTlb(c) = {} /\ mode[p].at = "user"
              /\ Panic
              /\ UNCHANGED <<tlb, p_addrspace, mode, wasbad>>
           \/ /\ FreeTlb(c) = {} /\ mode[p].at # "user"
              /\ Back(p)
              /\ UNCHANGED tlb
        /\ UNCHANGED <<firstpaddr, mem, cpu, aspace, image>>

------------------------------------------------------------------------------
(* Loading a program.                                                         *)

\* The struct proc a new process gets; which one it is makes no difference.
Unused == {p \in Procs : mode[p].at = "absent"}
Fresh == CHOOSE p \in Unused : TRUE

EntersKernel(p, call, file) ==
    mode' = [mode EXCEPT ![p] = [at |-> IF call = "fork" THEN "pbase1" ELSE "define",
                                 call |-> call, into |-> New, old |-> p_addrspace[p],
                                 file |-> file, next |-> 1]]

\* runprogram and execv, from vfs_open to as_activate: the process has a new,
\* empty address space.  Bound: the menu starts a program when none is there.
runprogram(c, file) ==
    /\ ~panicked /\ cpu[c] = NONE
    /\ Unused = Procs /\ New <= spaces
    /\ as_create
    /\ cpu' = [cpu EXCEPT ![c] = Fresh]
    /\ p_addrspace' = [p_addrspace EXCEPT ![Fresh] = New]
    /\ as_activate(c, Fresh)
    /\ EntersKernel(Fresh, "run", file)
    /\ UNCHANGED <<firstpaddr, mem, fault, image, wasbad, panicked>>

InProgram(c) == cpu[c] # NONE /\ Runs(c, cpu[c], "user") /\ fault[cpu[c]] = NONE

Execv(c, file) ==
    LET p == cpu[c]
    IN  /\ InProgram(c) /\ New <= spaces
        /\ as_create
        /\ p_addrspace' = [p_addrspace EXCEPT ![p] = New]
        /\ as_activate(c, p)
        /\ EntersKernel(p, "execv", file)
        /\ UNCHANGED <<firstpaddr, mem, cpu, fault, image, wasbad, panicked>>

\* fork, as far as as_copy's as_create: the regions are those of the parent.
Fork(c) ==
    LET p == cpu[c]
        a == aspace[p_addrspace[p]]
    IN  /\ InProgram(c) /\ New <= spaces
        /\ aspace' = Append(aspace, Unfilled(a.vbase1, a.npages1, a.vbase2, a.npages2))
        /\ EntersKernel(p, "fork", <<>>)
        /\ UNCHANGED <<firstpaddr, mem, tlb, cpu, p_addrspace, fault, image, wasbad, panicked>>

\* load_elf's first pass over the program headers.
Define(c) ==
    LET p == cpu[c]
    IN  /\ p # NONE /\ Runs(c, p, "define")
        /\ \/ /\ Len(mode[p].file) <= 2
              /\ aspace' = [aspace EXCEPT ![mode[p].into] = Defined(mode[p].file)]
              /\ VmGoto(p, "pbase1")
              /\ UNCHANGED <<p_addrspace, wasbad, panicked>>
           \/ /\ Len(mode[p].file) > 2
              /\ Back(p)
              /\ UNCHANGED aspace
        /\ UNCHANGED <<firstpaddr, mem, tlb, cpu, fault, image>>

\* The three getppages of as_prepare_load: how many pages each asks for, what
\* it fills in and what comes next.
Wanted(a, where) == CASE where = "pbase1" -> a.npages1
                      [] where = "pbase2" -> a.npages2
                      [] where = "stackpbase" -> 1
Filled(a, where) == CASE where = "pbase1" -> [a EXCEPT !.pbase1 = firstpaddr]
                      [] where = "pbase2" -> [a EXCEPT !.pbase2 = firstpaddr]
                      [] where = "stackpbase" -> [a EXCEPT !.stackpbase = firstpaddr]
Following == [pbase1 |-> "pbase2", pbase2 |-> "stackpbase", stackpbase |-> "zero"]

PrepareLoad(c, where) ==
    LET p == cpu[c]
        a == aspace[mode[p].into]
        n == Wanted(a, where)
    IN  /\ p # NONE /\ Runs(c, p, where)
        /\ \/ /\ Fits(n)
              /\ getppages(n)
              /\ aspace' = [aspace EXCEPT ![mode[p].into] = Filled(a, where)]
              /\ VmGoto(p, Following[where])
              /\ UNCHANGED <<p_addrspace, wasbad, panicked>>
           \/ /\ ~Fits(n)
              /\ Back(p)
              /\ UNCHANGED <<firstpaddr, aspace>>
        /\ UNCHANGED <<mem, tlb, cpu, fault, image>>

\* as_zero_region on the three regions.
Zeroed(a) == [f \in 1..RamPages |-> IF f \in Frames(a) THEN "zero" ELSE mem[f]]

ZeroForLoad(c) ==
    LET p == cpu[c]
    IN  /\ p # NONE /\ Runs(c, p, "zero") /\ mode[p].call # "fork"
        /\ mem' = Zeroed(aspace[mode[p].into])
        /\ VmGoto(p, "load")
        /\ UNCHANGED <<firstpaddr, tlb, cpu, aspace, p_addrspace, fault, image, wasbad, panicked>>

\* as_copy's three memmoves.
AsCopied(old, new) ==
    [f \in 1..RamPages |->
        IF f \in Region(new.pbase1, new.npages1) THEN mem[old.pbase1 + (f - new.pbase1)]
        ELSE IF f \in Region(new.pbase2, new.npages2) THEN mem[old.pbase2 + (f - new.pbase2)]
        ELSE IF f = new.stackpbase THEN mem[old.stackpbase]
        ELSE mem[f]]

\* The rest of fork: as_zero_region, the memmoves, and a new process and thread
\* if they can be had.
ForkCopies(c) ==
    LET p == cpu[c]
        m == mode[p]
        q == Fresh
    IN  /\ p # NONE /\ Runs(c, p, "zero") /\ m.call = "fork"
        /\ mem' = AsCopied(aspace[p_addrspace[p]], aspace[m.into])
        /\ \/ /\ Unused # {}
              /\ p_addrspace' = [p_addrspace EXCEPT ![q] = m.into]
              /\ mode' = [mode EXCEPT ![p] = InUser, ![q] = InUser]
              /\ image' = [image EXCEPT ![q] = image[p]]
              /\ wasbad' = IF p \in wasbad THEN wasbad \cup {q} ELSE wasbad
           \/ /\ mode' = [mode EXCEPT ![p] = InUser]
              /\ UNCHANGED <<p_addrspace, image, wasbad>>
        /\ UNCHANGED <<firstpaddr, tlb, cpu, aspace, fault, panicked>>

\* load_segment, or a copyout of execv, writes one page through the TLB.
LoadPage(c) ==
    LET p == cpu[c]
    IN  /\ ~panicked /\ p # NONE /\ Loads(p) /\ fault[p] = NONE
        /\ \E f \in Hits(c, Loading(p)[1]) : mem' = [mem EXCEPT ![f] = Loading(p)[2]]
        /\ mode' = [mode EXCEPT ![p].next = @ + 1]
        /\ UNCHANGED <<firstpaddr, tlb, cpu, aspace, p_addrspace, fault, image, wasbad, panicked>>

\* The file cannot be read, is too short or is no executable.
LoadFails(c) ==
    LET p == cpu[c]
    IN  /\ p # NONE /\ fault[p] = NONE
        /\ Runs(c, p, "define") \/ Runs(c, p, "load")
        /\ Back(p)
        /\ UNCHANGED <<firstpaddr, mem, tlb, cpu, aspace, fault, image>>

\* What a program that has just been loaded should find.
FreshImage(m, a) ==
    LET writes(v) == {i \in 1..Len(Todo(m)) : Todo(m)[i][1] = v}
        last(v) == CHOOSE i \in writes(v) : \A j \in writes(v) : j <= i
    IN  [v \in Pages(a) |-> IF writes(v) = {} THEN "zero" ELSE Todo(m)[last(v)][2]]

\* Everything is loaded; execv frees the old address space.
EnterNewProcess(c) ==
    LET p == cpu[c]
    IN  /\ p # NONE /\ Runs(c, p, "load") /\ ~Loads(p) /\ fault[p] = NONE
        /\ image' = [image EXCEPT ![p] = FreshImage(mode[p], aspace[p_addrspace[p]])]
        /\ mode' = [mode EXCEPT ![p] = InUser]
        /\ wasbad' = wasbad \ {p}
        /\ UNCHANGED <<firstpaddr, mem, tlb, cpu, aspace, p_addrspace, fault, panicked>>

\* proc_destroy and thread_exit: as_deactivate does nothing, and the TLB keeps
\* what it has.
Exit(c) ==
    LET p == cpu[c]
    IN  /\ InProgram(c)
        /\ p_addrspace' = [p_addrspace EXCEPT ![p] = 0]
        /\ mode' = [mode EXCEPT ![p] = Absent]
        /\ image' = [image EXCEPT ![p] = <<>>]
        /\ wasbad' = wasbad \ {p}
        /\ cpu' = [cpu EXCEPT ![c] = NONE]
        /\ UNCHANGED <<firstpaddr, mem, tlb, aspace, fault, panicked>>

VmNext ==
    /\ UNCHANGED spaces
    /\ \E c \in Cpu :
          \/ \E p \in Procs : Switch(c, p)
          \/ Idle(c)
          \/ \E v \in 1..StackPage : FaultTranslates(c, v) \/ \E x \in Values : UserWrite(c, v, x)
          \/ FaultLoads(c)
          \/ \E file \in Program : runprogram(c, file) \/ Execv(c, file)
          \/ Fork(c) \/ Define(c)
          \/ \E where \in DOMAIN Following : PrepareLoad(c, where)
          \/ ZeroForLoad(c) \/ ForkCopies(c) \/ LoadPage(c) \/ LoadFails(c)
          \/ EnterNewProcess(c) \/ Exit(c)

VmSpec == VmInit /\ [][VmNext]_vmVars

------------------------------------------------------------------------------
Space(p) == aspace[p_addrspace[p]]
Alive == {p \in Procs : p_addrspace[p] # 0}
Reaches(c) == {tlb[c][i][2] : i \in {j \in Slots : tlb[c][j] # NONE}}

\* A program never reaches, through the TLB of the processor that runs it, a
\* page of another process, not even after an execv that failed or on a
\* processor that ran that other process before.
Isolated ==
    \A c \in Cpu : \A q \in Alive \ {cpu[c]} :
        cpu[c] # NONE /\ mode[cpu[c]].at = "user" => Reaches(c) \cap Frames(Space(q)) = {}

\* Physical pages belong to one address space and one place in it.
FramesApart ==
    \A p, q \in Alive :
        /\ p # q => Frames(Space(p)) \cap Frames(Space(q)) = {}
        /\ mode[p].at = "user" =>
              \A v, w \in Pages(Space(p)) :
                  Physical(Space(p), v) = Physical(Space(p), w) => v = w

\* No page has two entries in a TLB: vm_fault loads a translation only when
\* there is none, although it may have lost the processor after looking.
OneEntry ==
    \A c \in Cpu : \A i, j \in Slots :
        i # j /\ tlb[c][i] # NONE /\ tlb[c][j] # NONE => tlb[c][i][1] # tlb[c][j][1]

Contents(c, p, v) ==
    IF Hits(c, v) = {} THEN {mem[Physical(Space(p), v)]} ELSE {mem[f] : f \in Hits(c, v)}
Finds(c, p) == \A v \in DOMAIN image[p] : Contents(c, p, v) = {image[p][v]}

\* A program finds in its memory what it wrote there last, or what its file,
\* its arguments or its parent's memory had, or zero: whatever the other
\* processes, the switches and the faults between do.  Programs with a failed
\* execv behind them are left out.
FindsItsMemory ==
    \A c \in Cpu : \A p \in Procs :
        Runs(c, p, "user") /\ p \notin wasbad => Finds(c, p)

\* Memory is each process's own.
MemoryOwn == Isolated /\ FramesApart /\ OneEntry /\ FindsItsMemory

\* The same for every program: an execv that returns has changed nothing, since
\* "p_addrspace" is again the address space as_activate is to make the one
\* "seen" by the processor.
FailedExecvKeepsMemory ==
    \A c \in Cpu : \A p \in Procs : Runs(c, p, "user") => Finds(c, p)

=============================================================================
