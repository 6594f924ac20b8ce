--------------------------- MODULE Dumbvm_proofs ---------------------------
(***************************************************************************)
(* Memory under dumbvm is each process's own: for any number of processes, *)
(* processors, TLB slots, pages and programs, and wherever a switch, a      *)
(* fault, fork, execv or exit falls.                                        *)
(***************************************************************************)
EXTENDS Dumbvm, TLAPS

\* Most leaves are first-order; the others ask for SMT.
USE Zenon

\* What the variables are.
AddrSpace == [vbase1 : Nat, npages1 : Nat, pbase1 : Nat,
              vbase2 : Nat, npages2 : Nat, pbase2 : Nat, stackpbase : Nat]
Entry == Nat \X Nat
Making == {"define", "pbase1", "pbase2", "stackpbase", "zero", "load"}
Files == Program \cup {<<>>}
Mode == [at : Making \cup {"user", "absent"}, call : {"none", "run", "execv", "fork"},
         into : Nat, old : Nat, file : Files, next : Nat]

TypeOK ==
    /\ firstpaddr \in Nat \ {0} /\ firstpaddr <= RamPages + 1
    /\ DOMAIN mem = 1..RamPages /\ mem = [f \in 1..RamPages |-> mem[f]]
    /\ cpu \in [Cpu -> Procs \cup {NONE}]
    /\ tlb \in [Cpu -> [Slots -> Entry \cup {NONE}]]
    /\ aspace \in Seq(AddrSpace)
    /\ p_addrspace \in [Procs -> Nat]
    /\ mode \in [Procs -> Mode]
    /\ fault \in [Procs -> Entry \cup {NONE}]
    /\ image = [p \in Procs |-> image[p]]
    /\ wasbad \subseteq Procs

\* The address spaces a process uses, is making, or goes back to.
Claim(p) == {p_addrspace[p], mode[p].into, mode[p].old} \ {0}

Claims ==
    /\ \A p \in Procs : Claim(p) \subseteq 1..Len(aspace)
    /\ \A p, q \in Procs : p # q => Claim(p) \cap Claim(q) = {}

\* What a process is doing, and with which address spaces.
Owns(p) ==
    LET m == mode[p]
    IN  /\ m.at = "absent" => p_addrspace[p] = 0
        /\ m.at # "absent" => p_addrspace[p] # 0
        /\ m.at \notin Making => m.into = 0 /\ m.old = 0 /\ m.call = "none"
        /\ m.at \in Making => m.call # "none" /\ m.into # 0
        /\ m.at \in Making \ {"load"} => m.next = 1
        /\ m.call \in {"run", "execv"} => m.at \in Making /\ p_addrspace[p] = m.into
        /\ m.call \in {"run", "execv"} => m.file # <<>>
        /\ m.call = "run" => m.old = 0
        /\ m.call \in {"execv", "fork"} => m.old # 0 /\ m.old # m.into
        /\ m.call = "fork" => m.at \in Making \ {"define", "load"} /\ p_addrspace[p] = m.old
        /\ fault[p] # NONE => m.at \in {"user", "load"}

\* The address space a process makes has what as_prepare_load has got so far.
Ready(a) == a.pbase1 # 0 /\ a.pbase2 # 0 /\ a.stackpbase # 0
Stage(p) ==
    LET m == mode[p]
        a == aspace[m.into]
    IN  /\ m.at \in {"define", "pbase1"} => a.pbase1 = 0 /\ a.pbase2 = 0 /\ a.stackpbase = 0
        /\ m.at = "pbase2" => a.pbase2 = 0 /\ a.stackpbase = 0
        /\ m.at = "stackpbase" => a.stackpbase = 0
        /\ m.at \in {"pbase2", "stackpbase", "zero"} => a.pbase1 # 0
        /\ m.at \in {"stackpbase", "zero"} => a.pbase2 # 0
        /\ m.at = "zero" => a.stackpbase # 0
        /\ m.at \in {"user", "load"} => Ready(aspace[p_addrspace[p]])
        /\ m.call \in {"execv", "fork"} => Ready(aspace[m.old])
        /\ m.call = "fork" =>
              /\ a.vbase1 = aspace[m.old].vbase1 /\ a.npages1 = aspace[m.old].npages1
              /\ a.vbase2 = aspace[m.old].vbase2 /\ a.npages2 = aspace[m.old].npages2

\* Physical pages: given out once.
Apart ==
    /\ \A k \in 1..Len(aspace) :
          /\ Frames(aspace[k]) \subseteq 1..(firstpaddr - 1)
          /\ Region(aspace[k].pbase1, aspace[k].npages1) \cap
                Region(aspace[k].pbase2, aspace[k].npages2) = {}
          /\ Region(aspace[k].pbase1, aspace[k].npages1) \cap Region(aspace[k].stackpbase, 1) = {}
          /\ Region(aspace[k].pbase2, aspace[k].npages2) \cap Region(aspace[k].stackpbase, 1) = {}
    /\ \A k, l \in 1..Len(aspace) : k # l => Frames(aspace[k]) \cap Frames(aspace[l]) = {}

\* A physical page that the process may reach: no other process has it or will.
Private(p, f) ==
    /\ f \in 1..(firstpaddr - 1)
    /\ \A q \in Procs \ {p} : \A k \in Claim(q) : f \notin Frames(aspace[k])
    /\ mode[p].call = "fork" => f \notin Frames(aspace[mode[p].into])

\* The entries that may be relied on.
Exact(p) == p \notin wasbad \/ mode[p].call \in {"run", "execv"}

Tlbs(c) ==
    LET p == cpu[c]
    IN  p # NONE =>
        /\ mode[p].at # "absent"
        /\ \A i \in Slots : tlb[c][i] # NONE =>
              /\ Private(p, tlb[c][i][2])
              /\ fault[p] # NONE => tlb[c][i][1] # fault[p][1]
              /\ Exact(p) => tlb[c][i][2] = Physical(aspace[p_addrspace[p]], tlb[c][i][1])
              /\ mode[p].at \in Making /\ mode[p].call # "fork" => mode[p].at = "load"

\* A translation that vm_fault found is still right.
Found(p) ==
    fault[p] # NONE =>
        /\ fault[p][2] = Physical(aspace[p_addrspace[p]], fault[p][1])
        /\ fault[p][2] # 0

\* The address space of the program that a process runs, or goes back to.
Home(p) == IF mode[p].call = "execv" THEN mode[p].old ELSE p_addrspace[p]
Remembers(p) ==
    mode[p].at # "absent" /\ mode[p].call # "run" /\ p \notin wasbad =>
        /\ DOMAIN image[p] = Pages(aspace[Home(p)])
        /\ \A v \in DOMAIN image[p] : mem[Physical(aspace[Home(p)], v)] = image[p][v]

\* What load_elf has written so far.
Loaded(p) ==
    LET T == Todo(mode[p])
        a == aspace[p_addrspace[p]]
        writes(v) == {i \in 1..(mode[p].next - 1) : T[i][1] = v}
    IN  mode[p].at = "load" =>
        /\ mode[p].next \in 1..(Len(T) + 1)
        /\ \A v \in Pages(a) :
              \/ writes(v) = {} /\ mem[Physical(a, v)] = "zero"
              \/ \E i \in writes(v) : /\ \A j \in writes(v) : j <= i
                                      /\ mem[Physical(a, v)] = T[i][2]

\* A process runs on one processor.
OneCpu == \A c, d \in Cpu : cpu[c] = cpu[d] /\ cpu[c] # NONE => c = d

Local(p) == Owns(p) /\ Stage(p) /\ Found(p) /\ Remembers(p) /\ Loaded(p)

IInv ==
    /\ TypeOK /\ Claims /\ Apart /\ OneEntry /\ OneCpu
    /\ \A p \in Procs : Local(p)
    /\ \A c \in Cpu : Tlbs(c)

-----------------------------------------------------------------------------
(* Addresses and address spaces.                                            *)

\* A translation leads to a page of the address space.
LEMMA PhysicalInFrames ==
    ASSUME NEW a \in AddrSpace, NEW v \in Nat, Ready(a), Physical(a, v) # 0
    PROVE  Physical(a, v) \in Frames(a)
  BY SMT DEF AddrSpace, Ready, Physical, Frames, Region, Within

\* What a translation is.
LEMMA PhysicalType ==
    ASSUME NEW a \in AddrSpace, NEW v \in Nat
    PROVE  Physical(a, v) \in Nat
  BY VmAssumption, SMT DEF AddrSpace, Physical, Within

\* Two pages of an address space lead to different physical pages.
LEMMA PhysicalInjective ==
    ASSUME NEW a \in AddrSpace, NEW v \in Nat, NEW w \in Nat, Ready(a),
           Physical(a, v) = Physical(a, w), Physical(a, v) # 0,
           Region(a.pbase1, a.npages1) \cap Region(a.pbase2, a.npages2) = {},
           Region(a.pbase1, a.npages1) \cap Region(a.stackpbase, 1) = {},
           Region(a.pbase2, a.npages2) \cap Region(a.stackpbase, 1) = {}
    PROVE  v = w
<1> DEFINE R1 == Region(a.pbase1, a.npages1)
           R2 == Region(a.pbase2, a.npages2)
           R3 == Region(a.stackpbase, 1)
           In1(x) == Within(x, a.vbase1, a.npages1)
           In2(x) == ~In1(x) /\ Within(x, a.vbase2, a.npages2)
           In3(x) == ~In1(x) /\ ~In2(x) /\ x = StackPage
<1>1. ASSUME NEW x \in Nat, Physical(a, x) # 0
      PROVE  /\ In1(x) => Physical(a, x) \in R1 /\ Physical(a, x) = (x - a.vbase1) + a.pbase1
             /\ In2(x) => Physical(a, x) \in R2 /\ Physical(a, x) = (x - a.vbase2) + a.pbase2
             /\ In3(x) => Physical(a, x) \in R3
             /\ In1(x) \/ In2(x) \/ In3(x)
  BY <1>1, SMT DEF AddrSpace, Ready, Physical, Region, Within
<1>2. CASE In1(v)
  BY <1>1, <1>2, SMT DEF AddrSpace
<1>3. CASE In2(v)
  BY <1>1, <1>3, SMT DEF AddrSpace
<1>4. CASE In3(v)
  BY <1>1, <1>4 DEF AddrSpace
<1> QED
  BY <1>1, <1>2, <1>3, <1>4

\* An address space is changed in place.
LEMMA AsExcept ==
    ASSUME aspace \in Seq(AddrSpace), NEW k \in 1..Len(aspace), NEW a \in AddrSpace,
           aspace' = [aspace EXCEPT ![k] = a]
    PROVE  /\ aspace' \in Seq(AddrSpace) /\ Len(aspace') = Len(aspace)
           /\ aspace'[k] = a /\ \A l \in 1..Len(aspace) : l # k => aspace'[l] = aspace[l]
  BY SMT

\* An address space is made.
LEMMA AsAppend ==
    ASSUME aspace \in Seq(AddrSpace), NEW a \in AddrSpace, aspace' = Append(aspace, a)
    PROVE  /\ aspace' \in Seq(AddrSpace) /\ Len(aspace') = Len(aspace) + 1
           /\ aspace'[Len(aspace) + 1] = a /\ \A l \in 1..Len(aspace) : aspace'[l] = aspace[l]
  BY SMT

\* as_prepare_load gives a region the next free pages of RAM.
LEMMA FilledIs ==
    ASSUME NEW a \in AddrSpace, NEW where \in {"pbase1", "pbase2", "stackpbase"},
           firstpaddr \in Nat \ {0}
    PROVE  /\ Wanted(a, where) \in Nat /\ Filled(a, where) \in AddrSpace
           /\ Filled(a, where).vbase1 = a.vbase1 /\ Filled(a, where).npages1 = a.npages1
           /\ Filled(a, where).vbase2 = a.vbase2 /\ Filled(a, where).npages2 = a.npages2
           /\ Filled(a, where).pbase1 = IF where = "pbase1" THEN firstpaddr ELSE a.pbase1
           /\ Filled(a, where).pbase2 = IF where = "pbase2" THEN firstpaddr ELSE a.pbase2
           /\ Filled(a, where).stackpbase =
                 IF where = "stackpbase" THEN firstpaddr ELSE a.stackpbase
<1>1. CASE where = "pbase1"
  BY <1>1, SMT DEF Wanted, Filled, AddrSpace
<1>2. CASE where = "pbase2"
  BY <1>2, SMT DEF Wanted, Filled, AddrSpace
<1>3. CASE where = "stackpbase"
  BY <1>3, SMT DEF Wanted, Filled, AddrSpace
<1> QED
  BY <1>1, <1>2, <1>3

\* The pages it gets are new.
LEMMA FilledFrames ==
    ASSUME NEW a \in AddrSpace, NEW where \in {"pbase1", "pbase2", "stackpbase"},
           firstpaddr \in Nat \ {0}, Frames(a) \subseteq 1..(firstpaddr - 1),
           Region(a.pbase1, a.npages1) \cap Region(a.pbase2, a.npages2) = {},
           Region(a.pbase1, a.npages1) \cap Region(a.stackpbase, 1) = {},
           Region(a.pbase2, a.npages2) \cap Region(a.stackpbase, 1) = {},
           NEW b, b = Filled(a, where)
    PROVE  /\ Frames(b) \subseteq Frames(a) \cup firstpaddr..(firstpaddr + Wanted(a, where) - 1)
           /\ Region(b.pbase1, b.npages1) \cap Region(b.pbase2, b.npages2) = {}
           /\ Region(b.pbase1, b.npages1) \cap Region(b.stackpbase, 1) = {}
           /\ Region(b.pbase2, b.npages2) \cap Region(b.stackpbase, 1) = {}
<1> DEFINE N == firstpaddr..(firstpaddr + Wanted(a, where) - 1)
<1>1. Wanted(a, where) = CASE where = "pbase1" -> a.npages1
                           [] where = "pbase2" -> a.npages2
                           [] where = "stackpbase" -> 1
  BY DEF Wanted
<1>2. \A f \in Frames(a) : f \notin N
  BY FilledIs, SMT
<1>3. /\ Region(b.pbase1, b.npages1) =
           IF where = "pbase1" THEN N ELSE Region(a.pbase1, a.npages1)
      /\ Region(b.pbase2, b.npages2) =
           IF where = "pbase2" THEN N ELSE Region(a.pbase2, a.npages2)
      /\ Region(b.stackpbase, 1) =
           IF where = "stackpbase" THEN N ELSE Region(a.stackpbase, 1)
  <2>1. firstpaddr # 0
    BY SMT
  <2>2. CASE where = "pbase1"
    BY <1>1, <2>1, <2>2, FilledIs DEF Region
  <2>3. CASE where = "pbase2"
    BY <1>1, <2>1, <2>3, FilledIs DEF Region
  <2>4. CASE where = "stackpbase"
    BY <1>1, <2>1, <2>4, FilledIs DEF Region
  <2> QED
    BY <2>2, <2>3, <2>4
<1>4. /\ Region(a.pbase1, a.npages1) \cap N = {} /\ Region(a.pbase2, a.npages2) \cap N = {}
      /\ Region(a.stackpbase, 1) \cap N = {}
  BY <1>2 DEF Frames
<1> HIDE DEF N
<1>5. Frames(b) \subseteq Frames(a) \cup N
  BY <1>3 DEF Frames
<1> DEFINE Disjoint == /\ Region(b.pbase1, b.npages1) \cap Region(b.pbase2, b.npages2) = {}
                       /\ Region(b.pbase1, b.npages1) \cap Region(b.stackpbase, 1) = {}
                       /\ Region(b.pbase2, b.npages2) \cap Region(b.stackpbase, 1) = {}
<1>6. ASSUME where = "pbase1" PROVE Disjoint
  <2>1. /\ Region(b.pbase1, b.npages1) = N
        /\ Region(b.pbase2, b.npages2) = Region(a.pbase2, a.npages2)
        /\ Region(b.stackpbase, 1) = Region(a.stackpbase, 1)
    BY <1>3, <1>6
  <2> QED
    BY <1>4, <2>1
<1>7. ASSUME where = "pbase2" PROVE Disjoint
  <2>1. /\ Region(b.pbase1, b.npages1) = Region(a.pbase1, a.npages1)
        /\ Region(b.pbase2, b.npages2) = N
        /\ Region(b.stackpbase, 1) = Region(a.stackpbase, 1)
    BY <1>3, <1>7
  <2> QED
    BY <1>4, <2>1
<1>8. ASSUME where = "stackpbase" PROVE Disjoint
  <2>1. /\ Region(b.pbase1, b.npages1) = Region(a.pbase1, a.npages1)
        /\ Region(b.pbase2, b.npages2) = Region(a.pbase2, a.npages2)
        /\ Region(b.stackpbase, 1) = N
    BY <1>3, <1>8
  <2> QED
    BY <1>4, <2>1
<1> QED
  BY <1>5, <1>6, <1>7, <1>8 DEF N

-----------------------------------------------------------------------------
(* What a step leaves alone.                                                *)

\* A step that does not concern a process, and the memory that it has.
Same(q) ==
    /\ mode'[q] = mode[q] /\ p_addrspace'[q] = p_addrspace[q] /\ fault'[q] = fault[q]
    /\ image'[q] = image[q] /\ (q \in wasbad' <=> q \in wasbad)
Kept(q) ==
    \A k \in Claim(q) :
        aspace'[k] = aspace[k] /\ \A f \in Frames(aspace[k]) : mem'[f] = mem[f]

\* The pages a program file fills are a sequence.
LEMMA TodoSeq ==
    ASSUME NEW m \in Mode, m.file # <<>>
    PROVE  Len(Todo(m)) \in Nat /\ \A i \in 1..Len(Todo(m)) : Todo(m)[i][1] \in Nat
<1> DEFINE Text == Nat \X (STRING \cup {"args"})
<1>1. m.file \in Seq(Segment) /\ Len(m.file) \in Nat /\ Len(m.file) > 0
  BY VmAssumption, SMT DEF Mode, Files
<1>2. ASSUME NEW s \in Segment PROVE FromFile(s) \in Seq(Text)
  BY SMT DEF Segment, FromFile
<1>3. FromFile(m.file[1]) \in Seq(Text)
  BY <1>1, <1>2, SMT
<1>4. (IF Len(m.file) > 1 THEN FromFile(m.file[2]) ELSE <<>>) \in Seq(Text)
  BY <1>1, <1>2, SMT
<1>5. (IF m.call = "execv" THEN <<<<StackPage, "args">>>> ELSE <<>>) \in Seq(Text)
  <2>1. <<StackPage, "args">> \in Text
    BY VmAssumption
  <2> QED
    BY <2>1, SMT
<1>6. Todo(m) \in Seq(Text)
  BY <1>3, <1>4, <1>5, SMT DEF Todo
<1> QED
  BY <1>6, SMT

\* The address spaces that a process has are there.
LEMMA Claimed ==
    ASSUME IInv, NEW q \in Procs, NEW k \in Claim(q)
    PROVE  k \in 1..Len(aspace) /\ k \in Nat /\ aspace[k] \in AddrSpace
<1>1. k \in 1..Len(aspace) /\ aspace \in Seq(AddrSpace)
  BY DEF IInv, Claims, TypeOK
<1> QED
  BY <1>1, SMT

\* The program that a process runs, or goes back to, has all its memory.
LEMMA HomeReady ==
    ASSUME IInv, NEW q \in Procs, mode[q].at # "absent", mode[q].call # "run"
    PROVE  Home(q) \in Claim(q) /\ Ready(aspace[Home(q)])
<1>1. Owns(q) /\ Stage(q) /\ mode[q] \in Mode
  BY DEF IInv, Local, TypeOK
<1> QED
  BY <1>1 DEF Owns, Stage, Home, Claim, Mode, Making

\* A process that is loading has all its memory.
LEMMA LoadReady ==
    ASSUME IInv, NEW q \in Procs, mode[q].at \in {"user", "load"}
    PROVE  p_addrspace[q] \in Claim(q) /\ Ready(aspace[p_addrspace[q]])
<1>1. Owns(q) /\ Stage(q)
  BY DEF IInv, Local
<1> QED
  BY <1>1 DEF Owns, Stage, Claim

\* A page of a process's address space is in its physical pages.
LEMMA PagesInFrames ==
    ASSUME IInv, NEW q \in Procs, NEW k \in Claim(q), Ready(aspace[k]), NEW v \in Pages(aspace[k])
    PROVE  Physical(aspace[k], v) \in Frames(aspace[k]) /\ Physical(aspace[k], v) # 0
<1>1. aspace[k] \in AddrSpace
  BY Claimed
<1>2. v \in Nat /\ Physical(aspace[k], v) # 0
  BY VmAssumption, SMT DEF Pages
<1> QED
  BY <1>1, <1>2, PhysicalInFrames

\* A process that a step leaves alone keeps what IInv says of it.
LEMMA LocalKept ==
    ASSUME IInv, NEW q \in Procs, Same(q), Kept(q)
    PROVE  Local(q)'
<1>1. Owns(q) /\ Stage(q) /\ Found(q) /\ Remembers(q) /\ Loaded(q)
  BY DEF IInv, Local
<1>2. Owns(q)'
  BY <1>1 DEF Owns, Same
<1>3. ASSUME mode[q].at \in Making PROVE mode[q].into \in Claim(q)
  BY <1>1, <1>3 DEF Owns, Claim
<1>4. ASSUME mode[q].call \in {"execv", "fork"}
      PROVE  mode[q].old \in Claim(q) /\ mode[q].into \in Claim(q)
  BY <1>1, <1>3, <1>4 DEF Owns, Claim
<1>5. ASSUME mode[q].at \in {"user", "load"} PROVE p_addrspace[q] \in Claim(q)
  BY <1>5, LoadReady
<1>6. Stage(q)'
  BY <1>1, <1>3, <1>4, <1>5 DEF Stage, Same, Kept, Making
<1>7. Found(q)'
  BY <1>1, <1>5 DEF Found, Owns, Same, Kept
<1>8. Remembers(q)'
  <2> SUFFICES ASSUME mode[q].at # "absent", mode[q].call # "run", q \notin wasbad
               PROVE  /\ DOMAIN image[q] = Pages(aspace'[Home(q)])
                      /\ \A v \in DOMAIN image[q] :
                            mem'[Physical(aspace'[Home(q)], v)] = image[q][v]
    BY DEF Remembers, Same, Home
  <2>1. Home(q) \in Claim(q) /\ Ready(aspace[Home(q)])
    BY HomeReady
  <2>2. aspace'[Home(q)] = aspace[Home(q)]
    BY <2>1 DEF Kept
  <2>3. DOMAIN image[q] = Pages(aspace[Home(q)])
    BY <1>1 DEF Remembers
  <2>4. ASSUME NEW v \in DOMAIN image[q]
        PROVE  mem'[Physical(aspace[Home(q)], v)] = image[q][v]
    <3>1. Physical(aspace[Home(q)], v) \in Frames(aspace[Home(q)])
      BY <2>1, <2>3, PagesInFrames
    <3> QED
      BY <1>1, <2>1, <3>1 DEF Remembers, Kept
  <2> QED
    BY <2>2, <2>3, <2>4
<1>9. Loaded(q)'
  <2> SUFFICES ASSUME mode[q].at = "load" PROVE Loaded(q)'
    BY DEF Loaded, Same
  <2>1. p_addrspace[q] \in Claim(q) /\ Ready(aspace[p_addrspace[q]])
    BY LoadReady
  <2>2. aspace'[p_addrspace[q]] = aspace[p_addrspace[q]]
    BY <2>1 DEF Kept
  <2>3. ASSUME NEW v \in Pages(aspace[p_addrspace[q]])
        PROVE  mem'[Physical(aspace[p_addrspace[q]], v)] = mem[Physical(aspace[p_addrspace[q]], v)]
    BY <2>1, PagesInFrames DEF Kept
  <2> QED
    BY <1>1, <2>2, <2>3, SMT DEF Loaded, Same
<1> QED
  BY <1>2, <1>6, <1>7, <1>8, <1>9 DEF Local

\* What a step of process p may do to the memory map: the others keep their
\* address spaces, and a physical page that was given out stays where it was.
Grows(p) ==
    /\ firstpaddr' \in Nat /\ firstpaddr' >= firstpaddr
    /\ \A q \in Procs : \A k \in Claim(q)' : \A f \in Frames(aspace'[k]) :
          f < firstpaddr => (k \in Claim(q) \/ k \in Claim(p)) /\ f \in Frames(aspace[k])

\* What another process may reach stays its own.
LEMMA PrivateKept ==
    ASSUME IInv, NEW p \in Procs, NEW q \in Procs, q # p, Same(q), Grows(p),
           mode[q].call = "fork" => aspace'[mode[q].into] = aspace[mode[q].into],
           NEW f, Private(q, f)
    PROVE  Private(q, f)'
<1>1. f \in 1..(firstpaddr' - 1)
  BY SMT DEF Private, Grows, IInv, TypeOK
<1>2. ASSUME NEW r \in Procs \ {q}, NEW k \in Claim(r)', f \in Frames(aspace'[k]) PROVE FALSE
  <2>1. f < firstpaddr
    BY SMT DEF Private, IInv, TypeOK
  <2>2. (k \in Claim(r) \/ k \in Claim(p)) /\ f \in Frames(aspace[k])
    BY <1>2, <2>1 DEF Grows
  <2> QED
    BY <2>2 DEF Private
<1>3. mode'[q].call = "fork" => f \notin Frames(aspace'[mode'[q].into])
  BY DEF Private, Same
<1> QED
  BY <1>1, <1>2, <1>3 DEF Private

\* The TLB of a processor that runs another process stays right.
LEMMA TlbsKept ==
    ASSUME IInv, NEW p \in Procs, NEW c \in Cpu, cpu[c] # p, cpu'[c] = cpu[c], tlb'[c] = tlb[c],
           Grows(p), cpu[c] # NONE => Same(cpu[c]) /\ Kept(cpu[c])
    PROVE  Tlbs(c)'
<1> SUFFICES ASSUME cpu[c] # NONE PROVE Tlbs(c)'
  BY DEF Tlbs
<1> DEFINE q == cpu[c]
<1>1. q \in Procs /\ Tlbs(c) /\ Owns(q) /\ Same(q) /\ Kept(q)
  BY DEF IInv, TypeOK, Local
<1>2. p_addrspace[q] \in Claim(q) /\ aspace'[p_addrspace[q]] = aspace[p_addrspace[q]]
  BY <1>1 DEF Tlbs, Owns, Claim, Kept
<1>3. mode[q].call = "fork" => aspace'[mode[q].into] = aspace[mode[q].into]
  BY <1>1 DEF Owns, Claim, Kept
<1>4. ASSUME NEW i \in Slots, tlb[c][i] # NONE PROVE Private(q, tlb[c][i][2])'
  BY <1>1, <1>3, <1>4, PrivateKept DEF Tlbs
<1> QED
  BY <1>1, <1>2, <1>4, SMT DEF Tlbs, Same, Exact

\* Claims stay apart when one process alone takes an address space made for it.
LEMMA ClaimsKept ==
    ASSUME IInv, NEW p \in Procs, \A q \in Procs \ {p} : Same(q),
           Len(aspace') \in Nat, Len(aspace') >= Len(aspace),
           Claim(p)' \subseteq Claim(p) \cup (Len(aspace) + 1)..Len(aspace')
    PROVE  Claims'
<1>1. Claims /\ aspace \in Seq(AddrSpace)
  BY DEF IInv, TypeOK
<1>2. Len(aspace) \in Nat
  BY <1>1, SMT
<1>3. \A q \in Procs \ {p} : Claim(q)' = Claim(q)
  BY DEF Same, Claim
<1>4. \A q \in Procs : Claim(q)' \subseteq 1..Len(aspace')
  BY <1>1, <1>2, <1>3, SMT DEF Claims
<1>5. \A q \in Procs \ {p} : Claim(p)' \cap Claim(q)' = {}
  BY <1>1, <1>2, <1>3, SMT DEF Claims
<1> QED
  BY <1>1, <1>3, <1>4, <1>5, SMT DEF Claims

\* Physical pages stay apart when an address space is new or gets its regions.
LEMMA ApartKept ==
    ASSUME IInv, NEW k \in Nat, Len(aspace') \in Nat,
           \A l \in 1..Len(aspace') : l # k => l \in 1..Len(aspace) /\ aspace'[l] = aspace[l],
           aspace'[k].pbase1 = 0, aspace'[k].pbase2 = 0, aspace'[k].stackpbase = 0,
           firstpaddr' = firstpaddr
    PROVE  Apart'
<1>1. Apart
  BY DEF IInv
<1>2. Frames(aspace'[k]) = {}
  BY DEF Frames, Region
<1>3. \A l \in 1..Len(aspace') : l # k => Frames(aspace'[l]) = Frames(aspace[l])
  OBVIOUS
<1>4. ASSUME NEW l \in 1..Len(aspace') PROVE
          /\ Frames(aspace'[l]) \subseteq 1..(firstpaddr' - 1)
          /\ Region(aspace'[l].pbase1, aspace'[l].npages1) \cap
                Region(aspace'[l].pbase2, aspace'[l].npages2) = {}
          /\ Region(aspace'[l].pbase1, aspace'[l].npages1) \cap
                Region(aspace'[l].stackpbase, 1) = {}
          /\ Region(aspace'[l].pbase2, aspace'[l].npages2) \cap
                Region(aspace'[l].stackpbase, 1) = {}
  <2>1. CASE l = k
    BY <1>2, <2>1 DEF Region
  <2>2. CASE l # k
    BY <1>1, <2>2 DEF Apart
  <2> QED
    BY <2>1, <2>2
<1>5. \A l, j \in 1..Len(aspace') : l # j => Frames(aspace'[l]) \cap Frames(aspace'[j]) = {}
  BY <1>1, <1>2, <1>3 DEF Apart
<1> QED
  BY <1>4, <1>5 DEF Apart

\* Nothing new on the memory map.
LEMMA MapKept ==
    ASSUME IInv, UNCHANGED <<firstpaddr, aspace>>, \A q \in Procs : Claim(q)' \subseteq Claim(q)
    PROVE  Claims' /\ Apart' /\ \A p \in Procs : Grows(p)
<1>1. Claims /\ Apart /\ firstpaddr \in Nat
  BY DEF IInv, TypeOK
<1>2. Claims'
  BY <1>1 DEF Claims
<1>3. Apart'
  BY <1>1 DEF Apart
<1>4. \A p \in Procs : Grows(p)
  BY <1>1, SMT DEF Grows
<1> QED
  BY <1>2, <1>3, <1>4

\* A step changes address spaces and memory of its own process only.
LEMMA OthersKept ==
    ASSUME IInv, NEW p \in Procs, NEW q \in Procs, q # p,
           \A k \in 1..Len(aspace) : k \notin Claim(p) => aspace'[k] = aspace[k],
           \A f \in 1..RamPages : mem'[f] # mem[f] =>
               Private(p, f) \/ \E k \in Claim(p) : f \in Frames(aspace[k])
    PROVE  Kept(q)
<1> SUFFICES ASSUME NEW k \in Claim(q)
             PROVE  aspace'[k] = aspace[k] /\ \A f \in Frames(aspace[k]) : mem'[f] = mem[f]
  BY DEF Kept
<1>1. k \in 1..Len(aspace) /\ k \notin Claim(p)
  BY DEF IInv, Claims
<1>2. ASSUME NEW f \in Frames(aspace[k]), mem'[f] # mem[f] PROVE FALSE
  <2>1. f \in 1..RamPages
    <3>1. f \in 1..(firstpaddr - 1)
      BY <1>1 DEF IInv, Apart
    <3>2. firstpaddr \in Nat /\ firstpaddr <= RamPages + 1 /\ RamPages \in Nat
      BY VmAssumption DEF IInv, TypeOK
    <3> QED
      BY <3>1, <3>2, SMT
  <2>2. CASE Private(p, f)
    BY <2>2 DEF Private
  <2>3. ASSUME NEW l \in Claim(p), f \in Frames(aspace[l]) PROVE FALSE
    <3>1. l \in 1..Len(aspace) /\ l # k
      BY <1>1, Claimed
    <3> QED
      BY <1>1, <2>3, <3>1 DEF IInv, Apart
  <2> QED
    BY <1>2, <2>1, <2>2, <2>3
<1> QED
  BY <1>1, <1>2

\* A step of the process that a processor runs, put together.
LEMMA StepInv ==
    ASSUME IInv, NEW c \in Cpu, NEW p \in Procs, cpu[c] = p, cpu' = cpu,
           \A d \in Cpu \ {c} : tlb'[d] = tlb[d],
           \A q \in Procs \ {p} : Same(q) /\ Kept(q),
           TypeOK', Claims', Apart', OneEntry', Grows(p), Local(p)', Tlbs(c)'
    PROVE  IInv'
<1>1. OneCpu' /\ Cpu' = Cpu
  BY DEF IInv, OneCpu, Cpu
<1>2. \A q \in Procs : Local(q)'
  BY LocalKept
<1>3. ASSUME NEW d \in Cpu, d # c PROVE Tlbs(d)'
  <2>1. cpu[d] # p /\ cpu'[d] = cpu[d] /\ tlb'[d] = tlb[d]
    BY <1>3, VmAssumption DEF IInv, OneCpu
  <2>2. cpu[d] # NONE => cpu[d] \in Procs \ {p}
    BY <2>1 DEF IInv, TypeOK
  <2> QED
    BY <2>1, <2>2, TlbsKept
<1> QED
  BY <1>1, <1>2, <1>3 DEF IInv

-----------------------------------------------------------------------------
(* Processors.                                                              *)

\* At boot no process runs, no address space exists and every TLB is empty.
LEMMA InitInv == VmInit => IInv
<1> SUFFICES ASSUME VmInit PROVE IInv
  OBVIOUS
<1> USE DEF VmInit, Cpu, Absent, InUser
<1>1. TypeOK
  <2>1. PICK machine \in Machines : tlb = [c \in machine.cpus |-> NoTlb]
                                    /\ cpu = [c \in machine.cpus |-> NONE]
    OBVIOUS
  <2>2. cpu \in [Cpu -> Procs \cup {NONE}] /\ tlb \in [Cpu -> [Slots -> Entry \cup {NONE}]]
    BY <2>1 DEF NoTlb
  <2>3. mode \in [Procs -> Mode] /\ aspace \in Seq(AddrSpace)
    BY SMT DEF Mode, Files
  <2>4. firstpaddr \in Nat \ {0} /\ firstpaddr <= RamPages + 1
    BY VmAssumption, SMT
  <2> QED
    BY <2>2, <2>3, <2>4 DEF TypeOK
<1>2. Claims
  BY DEF Claims, Claim
<1>3. Len(aspace) = 0
  OBVIOUS
<1>4. Apart
  BY <1>3, SMT DEF Apart
<1>5. OneEntry /\ OneCpu /\ \A c \in Cpu : Tlbs(c)
  BY SMT DEF OneEntry, OneCpu, Tlbs, NoTlb
<1>6. \A p \in Procs : Local(p)
  BY DEF Local, Owns, Stage, Found, Remembers, Loaded, Making
<1> QED
  BY <1>1, <1>2, <1>4, <1>5, <1>6 DEF IInv

\* A context switch calls as_activate, which empties the TLB for the process that comes.
LEMMA SwitchInv ==
    ASSUME IInv, NEW c \in Cpu, NEW p \in Procs, Switch(c, p)
    PROVE  IInv'
<1>1. /\ cpu' = [cpu EXCEPT ![c] = p] /\ p_addrspace[p] # 0 /\ \A d \in Cpu : cpu[d] # p
      /\ tlb' = [tlb EXCEPT ![c] = NoTlb] /\ mode[p].at # "absent"
      /\ UNCHANGED <<firstpaddr, mem, aspace, p_addrspace, mode, fault, image, wasbad>>
  BY DEF Switch, as_activate, IInv, Local, Owns
<1>2. TypeOK'
  BY <1>1 DEF IInv, TypeOK, NoTlb, Cpu
<1>3. \A q \in Procs : Same(q) /\ Kept(q) /\ Claim(q)' = Claim(q)
  BY <1>1 DEF Same, Kept, Claim
<1>4. Claims' /\ Apart' /\ Grows(p)
  BY <1>1, <1>3, MapKept
<1>5. /\ Cpu' = Cpu /\ cpu'[c] = p /\ tlb'[c] = NoTlb
      /\ \A d \in Cpu : d # c => cpu'[d] = cpu[d] /\ tlb'[d] = tlb[d]
  BY <1>1 DEF IInv, TypeOK, Cpu
<1>6. OneEntry'
  BY <1>5, SMT DEF IInv, OneEntry, NoTlb
<1>7. OneCpu'
  BY <1>1, <1>5, SMT DEF IInv, OneCpu
<1>8. \A d \in Cpu : d # c => Tlbs(d)'
  BY <1>1, <1>3, <1>4, <1>5, TlbsKept DEF IInv, TypeOK
<1>9. Tlbs(c)'
  BY <1>1, <1>5, SMT DEF Tlbs, NoTlb
<1> QED
  BY <1>2, <1>3, <1>4, <1>5, <1>6, <1>7, <1>8, <1>9, LocalKept DEF IInv

\* An idle processor keeps its TLB, and no process uses it before as_activate empties it.
LEMMA IdleInv ==
    ASSUME IInv, NEW c \in Cpu, Idle(c)
    PROVE  IInv'
<1>1. /\ cpu' = [cpu EXCEPT ![c] = NONE] /\ cpu[c] # NONE
      /\ UNCHANGED <<firstpaddr, mem, tlb, aspace, p_addrspace, mode, fault, image, wasbad>>
  BY DEF Idle
<1>2. TypeOK'
  BY <1>1 DEF IInv, TypeOK, Cpu
<1>3. \A q \in Procs : Same(q) /\ Kept(q) /\ Claim(q)' = Claim(q)
  BY <1>1 DEF Same, Kept, Claim
<1>4. Claims' /\ Apart' /\ \A p \in Procs : Grows(p)
  BY <1>1, <1>3, MapKept
<1>5. /\ Cpu' = Cpu /\ cpu'[c] = NONE
      /\ \A d \in Cpu : d # c => cpu'[d] = cpu[d]
  BY <1>1 DEF IInv, TypeOK, Cpu
<1>6. OneEntry' /\ OneCpu'
  BY <1>1, <1>5, SMT DEF IInv, OneEntry, OneCpu
<1>7. cpu[c] \in Procs /\ \A d \in Cpu : d # c => cpu[d] # cpu[c]
  BY <1>1 DEF IInv, TypeOK, OneCpu
<1>8. \A d \in Cpu : d # c => Tlbs(d)'
  BY <1>1, <1>3, <1>4, <1>5, <1>7, TlbsKept DEF IInv, TypeOK
<1>9. Tlbs(c)'
  BY <1>5 DEF Tlbs
<1> QED
  BY <1>2, <1>3, <1>4, <1>5, <1>6, <1>8, <1>9, LocalKept DEF IInv

-----------------------------------------------------------------------------
(* Memory accesses.                                                         *)

\* The process that a processor runs.
LEMMA Running ==
    ASSUME IInv, NEW c \in Cpu, NEW p, cpu[c] = p, p # NONE
    PROVE  /\ p \in Procs /\ mode[p] \in Mode /\ mode[p].at # "absent" /\ Tlbs(c)
           /\ Owns(p) /\ Stage(p) /\ Found(p) /\ Remembers(p) /\ Loaded(p)
<1>1. p \in Procs /\ Tlbs(c) /\ Local(p)
  BY DEF IInv, TypeOK
<1>2. mode[p] \in Mode
  BY <1>1 DEF IInv, TypeOK
<1> QED
  BY <1>1, <1>2 DEF Local, Tlbs

\* Different pages of an address space have different physical pages.
LEMMA PagesApart ==
    ASSUME IInv, NEW q \in Procs, NEW k \in Claim(q), Ready(aspace[k]),
           NEW v \in Pages(aspace[k]), NEW w \in Pages(aspace[k]),
           Physical(aspace[k], v) = Physical(aspace[k], w)
    PROVE  v = w
<1>1. aspace[k] \in AddrSpace /\ k \in 1..Len(aspace)
  BY Claimed
<1>2. v \in Nat /\ w \in Nat /\ Physical(aspace[k], v) # 0
  BY VmAssumption, SMT DEF Pages
<1>3. Apart
  BY DEF IInv
<1> QED
  BY <1>1, <1>2, <1>3, PhysicalInjective DEF Apart

\* Physical pages given out are pages of RAM.
LEMMA InRam ==
    ASSUME IInv, NEW f \in 1..(firstpaddr - 1)
    PROVE  f \in 1..RamPages
  BY VmAssumption, SMT DEF IInv, TypeOK

\* What a process may reach stays its own while the memory map does not change.
LEMMA PrivateStays ==
    ASSUME NEW p, NEW f, Private(p, f), UNCHANGED <<firstpaddr, aspace>>,
           \A q \in Procs \ {p} : Claim(q)' \subseteq Claim(q),
           mode'[p].call = "fork" => mode[p].call = "fork" /\ mode'[p].into = mode[p].into
    PROVE  Private(p, f)'
  BY DEF Private

\* vm_fault gives up, and nothing else happens.
LEMMA FaultDropped ==
    ASSUME IInv, NEW p \in Procs, fault'[p] = NONE, mode'[p] = mode[p],
           p_addrspace'[p] = p_addrspace[p], p \in wasbad' <=> p \in wasbad,
           UNCHANGED <<mem, aspace, image>>
    PROVE  Local(p)'
<1>1. Owns(p) /\ Stage(p) /\ Found(p) /\ Remembers(p) /\ Loaded(p)
  BY DEF IInv, Local
<1>2. Owns(p)' /\ Found(p)'
  BY <1>1 DEF Owns, Found
<1>3. Stage(p)'
  BY <1>1 DEF Stage
<1>4. Remembers(p)'
  BY <1>1 DEF Remembers, Home
<1>5. Loaded(p)'
  BY <1>1, SMT DEF Loaded
<1> QED
  BY <1>2, <1>3, <1>4, <1>5 DEF Local

\* A store goes to a page that only the storing process can reach.
LEMMA UserWriteInv ==
    ASSUME IInv, NEW c \in Cpu, NEW p, cpu[c] = p, NEW v, NEW x, UserWrite(c, v, x)
    PROVE  IInv'
<1>1. /\ p # NONE /\ mode[p].at = "user" /\ fault[p] = NONE /\ v \in DOMAIN image[p]
      /\ image' = [image EXCEPT ![p][v] = x]
      /\ UNCHANGED <<firstpaddr, tlb, cpu, aspace, p_addrspace, mode, fault, wasbad>>
  BY DEF UserWrite, Runs
<1>2. PICK f \in Hits(c, v) : mem' = [mem EXCEPT ![f] = x]
  BY DEF UserWrite
<1>3. PICK i \in Slots : tlb[c][i] # NONE /\ tlb[c][i][1] = v /\ tlb[c][i][2] = f
  BY <1>2 DEF Hits
<1>4. /\ p \in Procs /\ mode[p] \in Mode /\ mode[p].at # "absent" /\ Tlbs(c)
      /\ Owns(p) /\ Stage(p) /\ Found(p) /\ Remembers(p) /\ Loaded(p)
  BY <1>1, Running
<1>5. Private(p, f) /\ (p \notin wasbad => f = Physical(aspace[p_addrspace[p]], v))
  BY <1>1, <1>3, <1>4 DEF Tlbs, Exact
<1>6. f \in 1..RamPages
  BY <1>5, InRam DEF Private
<1>7. /\ \A q \in Procs \ {p} : image'[q] = image[q]
      /\ DOMAIN image'[p] = DOMAIN image[p] /\ image'[p][v] = x
      /\ \A w \in DOMAIN image[p] : w # v => image'[p][w] = image[p][w]
      /\ image' = [q \in Procs |-> image'[q]]
  BY <1>1, <1>4 DEF IInv, TypeOK
<1>8. /\ mem'[f] = x /\ \A g \in 1..RamPages : g # f => mem'[g] = mem[g]
      /\ DOMAIN mem' = 1..RamPages /\ mem' = [g \in 1..RamPages |-> mem'[g]]
  BY <1>2, <1>6 DEF IInv, TypeOK
<1>9. TypeOK'
  BY <1>1, <1>7, <1>8 DEF IInv, TypeOK, Cpu
<1>10. \A q \in Procs : Claim(q)' = Claim(q)
  BY <1>1 DEF Claim
<1>11. Claims' /\ Apart' /\ Grows(p)
  BY <1>1, <1>4, <1>10, MapKept
<1>12. \A q \in Procs \ {p} : Same(q) /\ Kept(q)
  BY <1>1, <1>4, <1>5, <1>7, <1>8, OthersKept, SMT DEF Same
<1>13. OneEntry'
  BY <1>1 DEF IInv, OneEntry, Cpu
<1>14. Owns(p)' /\ Stage(p)' /\ Found(p)' /\ Loaded(p)'
  BY <1>1, <1>4 DEF Owns, Stage, Found, Loaded
<1>15. Remembers(p)'
  <2> SUFFICES ASSUME p \notin wasbad PROVE Remembers(p)'
    BY <1>1 DEF Remembers
  <2>1. p_addrspace[p] \in Claim(p) /\ Ready(aspace[p_addrspace[p]])
    BY <1>1, <1>4, LoadReady
  <2>2. mode[p].call = "none" /\ Home(p) = p_addrspace[p] /\ Home(p)' = p_addrspace[p]
    BY <1>1, <1>4 DEF Owns, Making, Home
  <2>3. /\ DOMAIN image[p] = Pages(aspace[p_addrspace[p]])
        /\ \A w \in DOMAIN image[p] : mem[Physical(aspace[p_addrspace[p]], w)] = image[p][w]
    BY <1>4, <2>2 DEF Remembers
  <2>4. ASSUME NEW w \in DOMAIN image[p]
        PROVE  mem'[Physical(aspace[p_addrspace[p]], w)] = image'[p][w]
    <3>1. CASE w = v
      BY <1>5, <1>7, <1>8, <3>1
    <3>2. CASE w # v
      <4>1. Physical(aspace[p_addrspace[p]], w) # f
        BY <1>1, <1>4, <1>5, <2>1, <2>3, <3>2, PagesApart, SMT
      <4>2. Physical(aspace[p_addrspace[p]], w) \in Frames(aspace[p_addrspace[p]])
        BY <1>4, <2>1, <2>3, PagesInFrames
      <4>3. Physical(aspace[p_addrspace[p]], w) \in 1..(firstpaddr - 1)
        BY <1>4, <2>1, <4>2, Claimed DEF IInv, Apart
      <4> QED
        BY <1>7, <1>8, <2>3, <3>2, <4>1, <4>3, InRam
    <3> QED
      BY <3>1, <3>2
  <2> QED
    BY <1>1, <1>7, <2>2, <2>3, <2>4, SMT DEF Remembers
<1>16. Tlbs(c)'
  BY <1>1, <1>4, <1>10 DEF Tlbs, Private, Exact, Claim
<1> QED
  BY <1>1, <1>4, <1>9, <1>11, <1>12, <1>13, <1>14, <1>15, <1>16, StepInv DEF Local

\* vm_fault finds the physical page of the faulting address in the current address space.
LEMMA FaultTranslatesInv ==
    ASSUME IInv, NEW c \in Cpu, NEW p, cpu[c] = p, NEW v \in 1..StackPage, FaultTranslates(c, v)
    PROVE  IInv'
<1>1. /\ p # NONE /\ fault[p] = NONE /\ v \in Touches(p) /\ Hits(c, v) = {}
      /\ UNCHANGED <<firstpaddr, mem, tlb, cpu, aspace, p_addrspace, mode, image, wasbad>>
  BY DEF FaultTranslates
<1>2. /\ p \in Procs /\ mode[p] \in Mode /\ mode[p].at # "absent" /\ Tlbs(c)
      /\ Owns(p) /\ Stage(p) /\ Found(p) /\ Remembers(p) /\ Loaded(p)
  BY <1>1, Running
<1>3. mode[p].at \in {"user", "load"}
  BY <1>1 DEF Touches, Loads
<1>4. v \in Nat
  BY VmAssumption, SMT
<1>5. p_addrspace[p] \in Claim(p) /\ aspace[p_addrspace[p]] \in AddrSpace
  BY <1>2, <1>3, LoadReady, Claimed
<1>6. Physical(aspace[p_addrspace[p]], v) \in Nat
  BY <1>4, <1>5, PhysicalType
<1>7. fault' = fault \/ /\ fault' = [fault EXCEPT ![p] = <<v, Physical(aspace[p_addrspace[p]], v)>>]
                        /\ Physical(aspace[p_addrspace[p]], v) # 0
  BY DEF FaultTranslates
<1>8. TypeOK'
  <2>1. fault' \in [Procs -> Entry \cup {NONE}]
    <3>1. <<v, Physical(aspace[p_addrspace[p]], v)>> \in Entry
      BY <1>4, <1>6 DEF Entry
    <3>2. fault \in [Procs -> Entry \cup {NONE}]
      BY DEF IInv, TypeOK
    <3> QED
      BY <1>7, <3>1, <3>2
  <2> QED
    BY <1>1, <2>1 DEF IInv, TypeOK, Cpu
<1>9. \A q \in Procs \ {p} : fault'[q] = fault[q]
  BY <1>2, <1>7 DEF IInv, TypeOK
<1>10. fault'[p] # NONE =>
         /\ fault'[p][1] = v /\ fault'[p][2] = Physical(aspace[p_addrspace[p]], v)
         /\ fault'[p][2] # 0
  BY <1>1, <1>2, <1>7, SMT DEF IInv, TypeOK
<1>11. \A q \in Procs : Claim(q)' = Claim(q) /\ Kept(q)
  BY <1>1 DEF Claim, Kept
<1>12. Claims' /\ Apart' /\ Grows(p)
  BY <1>1, <1>2, <1>11, MapKept
<1>13. \A q \in Procs \ {p} : Same(q)
  BY <1>1, <1>9 DEF Same
<1>14. OneEntry'
  BY <1>1 DEF IInv, OneEntry, Cpu
<1>15. Owns(p)' /\ Stage(p)' /\ Found(p)' /\ Remembers(p)' /\ Loaded(p)'
  <2>1. Owns(p)' /\ Stage(p)'
    BY <1>1, <1>2, <1>3 DEF Owns, Stage
  <2>2. Found(p)'
    BY <1>1, <1>10 DEF Found
  <2>3. Remembers(p)' /\ Loaded(p)'
    BY <1>1, <1>2, SMT DEF Remembers, Loaded, Home
  <2> QED
    BY <2>1, <2>2, <2>3
<1>16. Tlbs(c)'
  <2>1. \A i \in Slots : tlb[c][i] # NONE => tlb[c][i][1] # v
    BY <1>1 DEF Hits
  <2> QED
    BY <1>1, <1>2, <1>10, <1>11, <2>1 DEF Tlbs, Private, Exact, Claim
<1> QED
  BY <1>1, <1>2, <1>8, <1>11, <1>12, <1>13, <1>14, <1>15, <1>16, StepInv DEF Local

\* A process that runs its program.
LEMMA UserMode ==
    /\ InUser \in Mode /\ InUser.at = "user" /\ InUser.call = "none"
    /\ InUser.into = 0 /\ InUser.old = 0
  BY SMT DEF InUser, Mode, Files

\* A call that fails after it has made an address space.
LEMMA BackInv ==
    ASSUME IInv, NEW c \in Cpu, NEW p, cpu[c] = p, p # NONE, Back(p),
           fault' \in [Procs -> Entry \cup {NONE}], fault'[p] = NONE,
           \A q \in Procs \ {p} : fault'[q] = fault[q],
           UNCHANGED <<firstpaddr, mem, tlb, cpu, aspace, image>>
    PROVE  IInv'
<1>1. /\ p \in Procs /\ mode[p] \in Mode /\ mode[p].at # "absent" /\ Tlbs(c)
      /\ Owns(p) /\ Stage(p) /\ Found(p) /\ Remembers(p) /\ Loaded(p)
  BY Running
<1>2. InUser \in Mode
  BY UserMode
<1>3. /\ mode' \in [Procs -> Mode] /\ \A q \in Procs \ {p} : mode'[q] = mode[q]
      /\ p_addrspace' \in [Procs -> Nat]
      /\ \A q \in Procs \ {p} : p_addrspace'[q] = p_addrspace[q]
      /\ wasbad' \subseteq Procs /\ \A q \in Procs \ {p} : q \in wasbad' <=> q \in wasbad
  <2>1. mode' = mode \/ mode' = [mode EXCEPT ![p] = InUser]
    BY DEF Back
  <2>2. p_addrspace' = p_addrspace \/ p_addrspace' = [p_addrspace EXCEPT ![p] = mode[p].old]
    BY DEF Back
  <2>3. wasbad' = wasbad \/ wasbad' = wasbad \cup {p}
    BY DEF Back
  <2>4. mode[p].old \in Nat
    BY <1>1 DEF Mode
  <2>5. mode' \in [Procs -> Mode] /\ \A q \in Procs \ {p} : mode'[q] = mode[q]
    BY <1>2, <2>1 DEF IInv, TypeOK
  <2>6. /\ p_addrspace' \in [Procs -> Nat]
        /\ \A q \in Procs \ {p} : p_addrspace'[q] = p_addrspace[q]
    BY <2>2, <2>4 DEF IInv, TypeOK
  <2> QED
    BY <1>1, <2>3, <2>5, <2>6 DEF IInv, TypeOK
<1>4. TypeOK'
  BY <1>3 DEF IInv, TypeOK, Cpu
<1>5. \A q \in Procs \ {p} : Same(q) /\ Kept(q) /\ Claim(q)' = Claim(q)
  <2>1. \A q \in Procs \ {p} : Same(q) /\ Claim(q)' = Claim(q)
    BY <1>3 DEF Same, Claim
  <2>2. \A q \in Procs : Kept(q)
    BY DEF Kept
  <2> QED
    BY <2>1, <2>2
<1>6. OneEntry'
  BY DEF IInv, OneEntry, Cpu
<1>7. Claim(p)' \subseteq Claim(p) /\ Local(p)' /\ Tlbs(c)'
  <2>1. CASE mode[p].call = "execv"
    <3>1. /\ p_addrspace'[p] = mode[p].old /\ p \in wasbad'
          /\ mode'[p].at = "user" /\ mode'[p].call = "none"
          /\ mode'[p].into = 0 /\ mode'[p].old = 0
      BY <1>1, <2>1, UserMode DEF Back, IInv, TypeOK
    <3>2. mode[p].old # 0 /\ Ready(aspace[mode[p].old])
      BY <1>1, <2>1 DEF Owns, Stage
    <3>3. Claim(p)' \subseteq Claim(p)
      BY <3>1, <3>2 DEF Claim
    <3>4. Owns(p)' /\ Stage(p)' /\ Found(p)' /\ Remembers(p)' /\ Loaded(p)'
      BY <3>1, <3>2 DEF Owns, Stage, Found, Remembers, Loaded, Making
    <3>5. Tlbs(c)'
      BY <1>1, <1>5, <3>1, SMT DEF Tlbs, Private, Exact, Making
    <3> QED
      BY <3>3, <3>4, <3>5 DEF Local
  <2>2. CASE mode[p].call = "fork"
    <3>1. /\ p_addrspace'[p] = p_addrspace[p] /\ (p \in wasbad' <=> p \in wasbad)
          /\ mode'[p].at = "user" /\ mode'[p].call = "none"
          /\ mode'[p].into = 0 /\ mode'[p].old = 0
      BY <1>1, <2>2, UserMode DEF Back, IInv, TypeOK
    <3>2. p_addrspace[p] = mode[p].old /\ p_addrspace[p] # 0 /\ Ready(aspace[p_addrspace[p]])
      BY <1>1, <2>2 DEF Owns, Stage
    <3>3. Claim(p)' \subseteq Claim(p)
      BY <3>1, <3>2 DEF Claim
    <3>4. Owns(p)' /\ Stage(p)' /\ Found(p)' /\ Loaded(p)'
      <4>1. Owns(p)' /\ Found(p)' /\ Loaded(p)'
        BY <3>1, <3>2 DEF Owns, Found, Loaded, Making
      <4>2. Stage(p)'
        BY <3>1, <3>2 DEF Stage
      <4> QED
        BY <4>1, <4>2
    <3>5. Remembers(p)'
      BY <1>1, <2>2, <3>1 DEF Remembers, Home
    <3>6. ASSUME NEW i \in Slots, tlb[c][i] # NONE
          PROVE  /\ Private(p, tlb[c][i][2])'
                 /\ Exact(p)' => tlb[c][i][2] = Physical(aspace[p_addrspace[p]], tlb[c][i][1])
      <4>1. Private(p, tlb[c][i][2])'
        BY <1>1, <1>5, <3>1, <3>6, PrivateStays DEF Tlbs
      <4> QED
        BY <1>1, <2>2, <3>1, <3>6, <4>1 DEF Tlbs, Exact
    <3>7. Tlbs(c)'
      BY <3>1, <3>6 DEF Tlbs, Making
    <3> QED
      BY <3>3, <3>4, <3>5, <3>7 DEF Local
  <2>3. CASE mode[p].call = "run"
    <3>1. p_addrspace' = p_addrspace /\ mode' = mode /\ wasbad' = wasbad
      BY <2>3 DEF Back
    <3>2. Claim(p)' \subseteq Claim(p)
      BY <3>1 DEF Claim
    <3>3. Local(p)'
      BY <1>1, <3>1, FaultDropped
    <3>4. \A i \in Slots : tlb[c][i] # NONE => Private(p, tlb[c][i][2])'
      BY <1>1, <1>5, <3>1, PrivateStays DEF Tlbs
    <3>5. Tlbs(c)'
      BY <1>1, <3>1, <3>4 DEF Tlbs, Exact
    <3> QED
      BY <3>2, <3>3, <3>5
  <2> QED
    BY <2>1, <2>2, <2>3 DEF Back
<1>8. Claims' /\ Apart' /\ Grows(p)
  BY <1>1, <1>5, <1>7, MapKept
<1> QED
  BY <1>1, <1>4, <1>5, <1>6, <1>7, <1>8, StepInv

\* vm_fault writes the translation it found into a free slot of the TLB.
LEMMA FaultLoadsInv ==
    ASSUME IInv, NEW c \in Cpu, NEW p, cpu[c] = p, FaultLoads(c)
    PROVE  IInv'
<1>1. /\ p # NONE /\ fault[p] # NONE /\ fault' = [fault EXCEPT ![p] = NONE]
      /\ UNCHANGED <<firstpaddr, mem, cpu, aspace, image>>
  BY DEF FaultLoads
<1>2. /\ p \in Procs /\ mode[p] \in Mode /\ mode[p].at # "absent" /\ Tlbs(c)
      /\ Owns(p) /\ Stage(p) /\ Found(p) /\ Remembers(p) /\ Loaded(p)
  BY <1>1, Running
<1>3. /\ fault' \in [Procs -> Entry \cup {NONE}] /\ fault'[p] = NONE
      /\ \A q \in Procs \ {p} : fault'[q] = fault[q]
  BY <1>1, <1>2 DEF IInv, TypeOK
<1>4. CASE Back(p) /\ UNCHANGED tlb
  BY <1>1, <1>3, <1>4, BackInv
<1>5. CASE UNCHANGED <<tlb, p_addrspace, mode, wasbad>>
  <2>1. TypeOK'
    BY <1>1, <1>3, <1>5 DEF IInv, TypeOK, Cpu
  <2>2. \A q \in Procs : Claim(q)' = Claim(q) /\ Kept(q)
    BY <1>1, <1>5 DEF Claim, Kept
  <2>3. Claims' /\ Apart' /\ Grows(p)
    BY <1>1, <1>2, <2>2, MapKept
  <2>4. \A q \in Procs \ {p} : Same(q)
    BY <1>1, <1>3, <1>5 DEF Same
  <2>5. OneEntry'
    BY <1>1, <1>5 DEF IInv, OneEntry, Cpu
  <2>6. Local(p)'
    BY <1>1, <1>2, <1>3, <1>5, FaultDropped
  <2>7. Tlbs(c)'
    <3>1. \A i \in Slots : tlb[c][i] # NONE => Private(p, tlb[c][i][2])'
      BY <1>1, <1>2, <1>5, <2>2, PrivateStays DEF Tlbs
    <3> QED
      BY <1>1, <1>2, <1>3, <1>5, <3>1 DEF Tlbs, Exact
  <2> QED
    BY <1>1, <1>2, <1>5, <2>1, <2>2, <2>3, <2>4, <2>5, <2>6, <2>7, StepInv
<1>6. ASSUME NEW i \in FreeTlb(c), tlb' = [tlb EXCEPT ![c][i] = fault[p]],
             UNCHANGED <<p_addrspace, mode, wasbad>>
      PROVE  IInv'
  <2>1. i \in Slots /\ fault[p] \in Entry /\ fault[p][1] \in Nat /\ fault[p][2] \in Nat
    BY <1>1, <1>2 DEF FreeTlb, IInv, TypeOK, Entry
  <2>2. /\ tlb' \in [Cpu -> [Slots -> Entry \cup {NONE}]]
        /\ \A d \in Cpu \ {c} : tlb'[d] = tlb[d]
        /\ tlb'[c][i] = fault[p] /\ \A j \in Slots : j # i => tlb'[c][j] = tlb[c][j]
    BY <1>6, <2>1 DEF IInv, TypeOK
  <2>3. TypeOK'
    BY <1>1, <1>3, <1>6, <2>2 DEF IInv, TypeOK, Cpu
  <2>4. \A q \in Procs : Claim(q)' = Claim(q) /\ Kept(q)
    BY <1>1, <1>6 DEF Claim, Kept
  <2>5. Claims' /\ Apart' /\ Grows(p)
    BY <1>1, <1>2, <2>4, MapKept
  <2>6. \A q \in Procs \ {p} : Same(q)
    BY <1>1, <1>3, <1>6 DEF Same
  <2>7. OneEntry'
    <3>1. \A j \in Slots : tlb[c][j] # NONE => tlb[c][j][1] # fault[p][1]
      BY <1>1, <1>2 DEF Tlbs
    <3>2. Cpu' = Cpu /\ OneEntry
      BY <1>1 DEF Cpu, IInv
    <3> QED
      BY <2>2, <3>1, <3>2, SMT DEF OneEntry
  <2>8. Local(p)'
    BY <1>1, <1>2, <1>3, <1>6, FaultDropped
  <2>9. /\ mode[p].at \in {"user", "load"} /\ mode[p].call # "fork"
        /\ p_addrspace[p] \in Claim(p) /\ Ready(aspace[p_addrspace[p]])
    BY <1>1, <1>2, LoadReady DEF Owns, Making
  <2>10. /\ fault[p][2] = Physical(aspace[p_addrspace[p]], fault[p][1])
         /\ fault[p][2] \in Frames(aspace[p_addrspace[p]])
    BY <1>1, <1>2, <2>1, <2>9, Claimed, PhysicalInFrames DEF Found
  <2>11. Private(p, fault[p][2])
    <3>1. p_addrspace[p] \in 1..Len(aspace) /\ Apart
      BY <1>2, <2>9, Claimed DEF IInv
    <3>2. ASSUME NEW q \in Procs \ {p}, NEW k \in Claim(q)
          PROVE  k \in 1..Len(aspace) /\ k # p_addrspace[p]
      BY <1>2, <2>9 DEF IInv, Claims
    <3> QED
      BY <2>9, <2>10, <3>1, <3>2 DEF Private, Apart
  <2>12. Tlbs(c)'
    <3>1. \A j \in Slots : tlb'[c][j] # NONE =>
              /\ Private(p, tlb'[c][j][2])
              /\ Exact(p) => tlb'[c][j][2] = Physical(aspace[p_addrspace[p]], tlb'[c][j][1])
              /\ mode[p].at \in Making /\ mode[p].call # "fork" => mode[p].at = "load"
      BY <1>1, <1>2, <2>2, <2>9, <2>10, <2>11 DEF Tlbs, Making
    <3> QED
      BY <1>1, <1>2, <1>3, <1>6, <2>4, <3>1, SMT DEF Tlbs, Private, Exact
  <2> QED
    BY <1>1, <1>2, <2>2, <2>3, <2>4, <2>5, <2>6, <2>7, <2>8, <2>12, StepInv
<1> QED
  BY <1>4, <1>5, <1>6 DEF FaultLoads

-----------------------------------------------------------------------------
(* Loading a program.                                                       *)

\* load_elf fails: runprogram or execv goes back to what it had.
LEMMA LoadFailsInv ==
    ASSUME IInv, NEW c \in Cpu, NEW p, cpu[c] = p, LoadFails(c)
    PROVE  IInv'
<1>1. /\ p # NONE /\ fault[p] = NONE /\ Back(p)
      /\ UNCHANGED <<firstpaddr, mem, tlb, cpu, aspace, fault, image>>
  BY DEF LoadFails
<1>2. fault' \in [Procs -> Entry \cup {NONE}]
  BY <1>1 DEF IInv, TypeOK
<1> QED
  BY <1>1, <1>2, BackInv

\* What a program is to find stays as long as its own pages do.
LEMMA RemembersKept ==
    ASSUME IInv, NEW p \in Procs, mode[p].at # "absent", mode[p].call # "run",
           image'[p] = image[p], p \notin wasbad' => p \notin wasbad,
           Home(p)' = Home(p), aspace'[Home(p)] = aspace[Home(p)],
           \A f \in Frames(aspace[Home(p)]) : mem'[f] = mem[f]
    PROVE  Remembers(p)'
<1> SUFFICES ASSUME p \notin wasbad
             PROVE  /\ DOMAIN image[p] = Pages(aspace[Home(p)])
                    /\ \A v \in DOMAIN image[p] :
                          mem'[Physical(aspace[Home(p)], v)] = image[p][v]
  BY DEF Remembers
<1>1. Home(p) \in Claim(p) /\ Ready(aspace[Home(p)])
  BY HomeReady
<1>2. /\ DOMAIN image[p] = Pages(aspace[Home(p)])
      /\ \A v \in DOMAIN image[p] : mem[Physical(aspace[Home(p)], v)] = image[p][v]
  BY DEF IInv, Local, Remembers
<1>3. \A v \in DOMAIN image[p] : Physical(aspace[Home(p)], v) \in Frames(aspace[Home(p)])
  BY <1>1, <1>2, PagesInFrames
<1> QED
  BY <1>2, <1>3

\* The start of a call that makes an address space.
LEMMA CallsMode ==
    ASSUME IInv, NEW p \in Procs, NEW call \in {"run", "execv", "fork"}, NEW file \in Files,
           EntersKernel(p, call, file)
    PROVE  /\ mode' \in [Procs -> Mode] /\ \A q \in Procs \ {p} : mode'[q] = mode[q]
           /\ mode'[p].at = (IF call = "fork" THEN "pbase1" ELSE "define")
           /\ mode'[p].call = call /\ mode'[p].into = Len(aspace) + 1
           /\ mode'[p].old = p_addrspace[p] /\ mode'[p].file = file /\ mode'[p].next = 1
<1>1. mode \in [Procs -> Mode] /\ p_addrspace[p] \in Nat /\ Len(aspace) \in Nat
  <2>1. aspace \in Seq(AddrSpace)
    BY DEF IInv, TypeOK
  <2> QED
    BY <2>1, SMT DEF IInv, TypeOK
<1>2. PICK m : mode' = [mode EXCEPT ![p] = m] /\
        m = [at |-> IF call = "fork" THEN "pbase1" ELSE "define", call |-> call,
             into |-> Len(aspace) + 1, old |-> p_addrspace[p], file |-> file, next |-> 1]
  BY DEF EntersKernel, New
<1>3. m \in Mode
  BY <1>1, <1>2, SMT DEF Mode, Making
<1>4. mode' \in [Procs -> Mode] /\ mode'[p] = m /\ \A q \in Procs \ {p} : mode'[q] = mode[q]
  BY <1>1, <1>2, <1>3, SMT
<1> QED
  BY <1>2, <1>4, SMT

\* An address space without memory is made.
LEMMA Made ==
    ASSUME IInv, NEW a \in AddrSpace, a.pbase1 = 0, a.pbase2 = 0, a.stackpbase = 0,
           aspace' = Append(aspace, a), firstpaddr' = firstpaddr
    PROVE  /\ aspace' \in Seq(AddrSpace) /\ Len(aspace) \in Nat /\ Len(aspace') = Len(aspace) + 1
           /\ aspace'[Len(aspace) + 1] = a /\ Frames(a) = {} /\ Apart'
           /\ \A k \in 1..Len(aspace) : aspace'[k] = aspace[k]
<1>1. aspace \in Seq(AddrSpace)
  BY DEF IInv, TypeOK
<1>2. /\ aspace' \in Seq(AddrSpace) /\ Len(aspace) \in Nat /\ Len(aspace') = Len(aspace) + 1
      /\ aspace'[Len(aspace) + 1] = a /\ \A k \in 1..Len(aspace) : aspace'[k] = aspace[k]
  BY <1>1, AsAppend, SMT
<1>3. Frames(a) = {}
  BY DEF Frames, Region
<1>4. /\ \A l \in 1..Len(aspace') : l # Len(aspace) + 1 => l \in 1..Len(aspace)
      /\ Len(aspace') \in Nat /\ Len(aspace) + 1 \in Nat
  BY <1>2, SMT
<1>5. Apart'
  BY <1>2, <1>4, ApartKept
<1> QED
  BY <1>2, <1>3, <1>5

\* What a process that starts a call has: a program, its memory and no fault.
LEMMA AtCall ==
    ASSUME IInv, NEW c \in Cpu, NEW p, cpu[c] = p, InProgram(c)
    PROVE  /\ p \in Procs /\ p # NONE /\ mode[p].at = "user" /\ fault[p] = NONE
           /\ mode[p].call = "none" /\ Home(p) = p_addrspace[p]
           /\ p_addrspace[p] \in Claim(p) /\ p_addrspace[p] # 0
           /\ p_addrspace[p] \in 1..Len(aspace) /\ Ready(aspace[p_addrspace[p]])
           /\ aspace[p_addrspace[p]] \in AddrSpace
<1>1. p # NONE /\ mode[p].at = "user" /\ fault[p] = NONE
  BY DEF InProgram, Runs
<1>2. p \in Procs /\ Owns(p)
  BY <1>1, Running
<1>3. mode[p].call = "none" /\ p_addrspace[p] # 0 /\ Home(p) = p_addrspace[p]
  BY <1>1, <1>2 DEF Owns, Home, Making
<1>4. p_addrspace[p] \in Claim(p) /\ Ready(aspace[p_addrspace[p]])
  BY <1>1, <1>2, LoadReady
<1> QED
  BY <1>1, <1>2, <1>3, <1>4, Claimed

\* The memory map while an address space without memory is made or changed.
LEMMA GrowsMade ==
    ASSUME IInv, NEW p \in Procs, firstpaddr' = firstpaddr, NEW k, Frames(aspace'[k]) = {},
           \A l \in 1..Len(aspace) : l # k => aspace'[l] = aspace[l],
           \A q \in Procs \ {p} : Same(q), Claim(p)' \subseteq Claim(p) \cup {k}
    PROVE  Grows(p)
<1>1. firstpaddr \in Nat /\ firstpaddr >= firstpaddr
  BY SMT DEF IInv, TypeOK
<1>2. ASSUME NEW q \in Procs, NEW l \in Claim(q)', NEW f \in Frames(aspace'[l])
      PROVE  l \in Claim(q) /\ f \in Frames(aspace[l])
  <2>1. l # k
    BY <1>2
  <2>2. l \in Claim(q)
    BY <2>1 DEF Same, Claim
  <2>3. l \in 1..Len(aspace)
    BY <2>2, Claimed
  <2> QED
    BY <1>2, <2>1, <2>2, <2>3
<1> QED
  BY <1>1, <1>2 DEF Grows

\* execv makes an address space and switches to it, with an empty TLB.
LEMMA ExecvInv ==
    ASSUME IInv, NEW c \in Cpu, NEW p, cpu[c] = p, NEW file \in Program, Execv(c, file)
    PROVE  IInv'
<1>1. /\ p \in Procs /\ p # NONE /\ mode[p].at = "user" /\ fault[p] = NONE
      /\ mode[p].call = "none" /\ Home(p) = p_addrspace[p]
      /\ p_addrspace[p] \in Claim(p) /\ p_addrspace[p] # 0
      /\ p_addrspace[p] \in 1..Len(aspace) /\ Ready(aspace[p_addrspace[p]])
  BY AtCall DEF Execv
<1>2. /\ aspace' = Append(aspace, Unfilled(0, 0, 0, 0)) /\ EntersKernel(p, "execv", file)
      /\ p_addrspace' = [p_addrspace EXCEPT ![p] = Len(aspace) + 1]
      /\ tlb' = IF p_addrspace'[p] = 0 THEN tlb ELSE [tlb EXCEPT ![c] = NoTlb]
      /\ UNCHANGED <<firstpaddr, mem, cpu, fault, image, wasbad>>
  BY DEF Execv, as_create, New, as_activate
<1>3. PICK a \in AddrSpace :
         a = Unfilled(0, 0, 0, 0) /\ a.pbase1 = 0 /\ a.pbase2 = 0 /\ a.stackpbase = 0
  <2>1. PICK a : a = Unfilled(0, 0, 0, 0)
    OBVIOUS
  <2>2. a \in AddrSpace /\ a.pbase1 = 0 /\ a.pbase2 = 0 /\ a.stackpbase = 0
    BY <2>1, SMT DEF AddrSpace, Unfilled
  <2> QED
    BY <2>1, <2>2
<1>4. /\ aspace' \in Seq(AddrSpace) /\ Len(aspace) \in Nat /\ Len(aspace') = Len(aspace) + 1
      /\ aspace'[Len(aspace) + 1] = a /\ Frames(a) = {} /\ Apart'
      /\ \A k \in 1..Len(aspace) : aspace'[k] = aspace[k]
  BY <1>2, <1>3, Made
<1>5. file \in Files /\ file # <<>>
  BY VmAssumption DEF Files
<1>6. /\ mode' \in [Procs -> Mode] /\ \A q \in Procs \ {p} : mode'[q] = mode[q]
      /\ mode'[p].at = "define" /\ mode'[p].call = "execv" /\ mode'[p].file = file
      /\ mode'[p].into = Len(aspace) + 1 /\ mode'[p].old = p_addrspace[p] /\ mode'[p].next = 1
  BY <1>1, <1>2, <1>5, CallsMode
<1>7. /\ p_addrspace' \in [Procs -> Nat] /\ p_addrspace'[p] = Len(aspace) + 1
      /\ \A q \in Procs \ {p} : p_addrspace'[q] = p_addrspace[q]
  BY <1>1, <1>2, <1>4, SMT DEF IInv, TypeOK
<1>8. Len(aspace) + 1 # 0 /\ Len(aspace) + 1 \notin 1..Len(aspace)
  BY <1>4, SMT
<1>9. /\ tlb' \in [Cpu -> [Slots -> Entry \cup {NONE}]] /\ tlb'[c] = NoTlb
      /\ \A d \in Cpu \ {c} : tlb'[d] = tlb[d]
  BY <1>2, <1>7, <1>8, SMT DEF IInv, TypeOK, NoTlb
<1>10. TypeOK'
  BY <1>2, <1>4, <1>6, <1>7, <1>9 DEF IInv, TypeOK, Cpu
<1>11. \A q \in Procs \ {p} : Same(q)
  BY <1>2, <1>6, <1>7 DEF Same
<1>12. \A q \in Procs \ {p} : Kept(q)
  BY <1>1, <1>2, <1>4, OthersKept
<1>13. Claim(p)' = {Len(aspace) + 1, p_addrspace[p]}
  BY <1>1, <1>6, <1>7, <1>8 DEF Claim
<1>14. Claims'
  <2>1. Len(aspace) + 1 \in (Len(aspace) + 1)..Len(aspace') /\ Len(aspace') \in Nat
        /\ Len(aspace') >= Len(aspace)
    BY <1>4, SMT
  <2> QED
    BY <1>1, <1>11, <1>13, <2>1, ClaimsKept
<1>15. Grows(p)
  BY <1>1, <1>2, <1>4, <1>11, <1>13, GrowsMade
<1>16. OneEntry'
  BY <1>2, <1>9, SMT DEF IInv, OneEntry, Cpu, NoTlb
<1>17. Owns(p)'
  BY <1>1, <1>2, <1>5, <1>6, <1>7, <1>8 DEF Owns, Making
<1>18. Stage(p)'
  BY <1>1, <1>3, <1>4, <1>6 DEF Stage
<1>19. Found(p)' /\ Loaded(p)'
  BY <1>1, <1>2, <1>6 DEF Found, Loaded
<1>20. Remembers(p)'
  <2>1. Home(p)' = Home(p)
    BY <1>1, <1>2, <1>4, <1>6 DEF Home
  <2>2. aspace'[Home(p)] = aspace[Home(p)]
    BY <1>1, <1>2, <1>4, <1>6 DEF Home
  <2> QED
    BY <1>1, <1>2, <1>4, <1>6, <2>1, <2>2, RemembersKept
<1>21. Tlbs(c)'
  BY <1>2, <1>6, <1>9 DEF Tlbs, NoTlb
<1> QED
  BY <1>1, <1>2, <1>4, <1>9, <1>10, <1>11, <1>12, <1>14, <1>15, <1>16, <1>17, <1>18, <1>19,
     <1>20, <1>21, StepInv DEF Local

\* fork makes an address space with the regions of the parent's and no memory yet.
LEMMA ForkInv ==
    ASSUME IInv, NEW c \in Cpu, NEW p, cpu[c] = p, Fork(c)
    PROVE  IInv'
<1>1. /\ p \in Procs /\ p # NONE /\ mode[p].at = "user" /\ fault[p] = NONE
      /\ mode[p].call = "none" /\ Home(p) = p_addrspace[p]
      /\ p_addrspace[p] \in Claim(p) /\ p_addrspace[p] # 0
      /\ p_addrspace[p] \in 1..Len(aspace) /\ Ready(aspace[p_addrspace[p]])
      /\ aspace[p_addrspace[p]] \in AddrSpace
  BY AtCall DEF Fork
<1>2. PICK o, a : /\ o = aspace[p_addrspace[p]] /\ aspace' = Append(aspace, a)
                  /\ a = Unfilled(o.vbase1, o.npages1, o.vbase2, o.npages2)
  BY DEF Fork
<1>3. /\ EntersKernel(p, "fork", <<>>)
      /\ UNCHANGED <<firstpaddr, mem, tlb, cpu, p_addrspace, fault, image, wasbad>>
  BY DEF Fork
<1>4. /\ a \in AddrSpace /\ a.pbase1 = 0 /\ a.pbase2 = 0 /\ a.stackpbase = 0
      /\ a.vbase1 = aspace[p_addrspace[p]].vbase1 /\ a.npages1 = aspace[p_addrspace[p]].npages1
      /\ a.vbase2 = aspace[p_addrspace[p]].vbase2 /\ a.npages2 = aspace[p_addrspace[p]].npages2
  <2>1. o.vbase1 \in Nat /\ o.npages1 \in Nat /\ o.vbase2 \in Nat /\ o.npages2 \in Nat
    BY <1>1, <1>2, SMT DEF AddrSpace
  <2>2. /\ a \in AddrSpace /\ a.pbase1 = 0 /\ a.pbase2 = 0 /\ a.stackpbase = 0
        /\ a.vbase1 = o.vbase1 /\ a.npages1 = o.npages1
        /\ a.vbase2 = o.vbase2 /\ a.npages2 = o.npages2
    BY <1>2, <2>1, SMT DEF AddrSpace, Unfilled
  <2> QED
    BY <1>2, <2>2
<1>5. /\ aspace' \in Seq(AddrSpace) /\ Len(aspace) \in Nat /\ Len(aspace') = Len(aspace) + 1
      /\ aspace'[Len(aspace) + 1] = a /\ Frames(a) = {} /\ Apart'
      /\ \A k \in 1..Len(aspace) : aspace'[k] = aspace[k]
  BY <1>2, <1>3, <1>4, Made
<1>6. /\ mode' \in [Procs -> Mode] /\ \A q \in Procs \ {p} : mode'[q] = mode[q]
      /\ mode'[p].at = "pbase1" /\ mode'[p].call = "fork"
      /\ mode'[p].into = Len(aspace) + 1 /\ mode'[p].old = p_addrspace[p] /\ mode'[p].next = 1
  BY <1>1, <1>3, CallsMode DEF Files
<1>7. Len(aspace) + 1 # 0 /\ Len(aspace) + 1 \notin 1..Len(aspace)
  BY <1>5, SMT
<1>8. TypeOK'
  BY <1>3, <1>5, <1>6 DEF IInv, TypeOK, Cpu
<1>9. \A q \in Procs \ {p} : Same(q) /\ Claim(q)' = Claim(q)
  BY <1>3, <1>6 DEF Same, Claim
<1>10. \A q \in Procs \ {p} : Kept(q)
  BY <1>1, <1>3, <1>5, OthersKept
<1>11. Claim(p)' = {Len(aspace) + 1, p_addrspace[p]}
  BY <1>1, <1>3, <1>6, <1>7 DEF Claim
<1>12. Claims'
  <2>1. Len(aspace) + 1 \in (Len(aspace) + 1)..Len(aspace') /\ Len(aspace') \in Nat
        /\ Len(aspace') >= Len(aspace)
    BY <1>5, SMT
  <2> QED
    BY <1>1, <1>9, <1>11, <2>1, ClaimsKept
<1>13. Grows(p)
  BY <1>1, <1>3, <1>5, <1>9, <1>11, GrowsMade
<1>14. OneEntry'
  BY <1>3 DEF IInv, OneEntry, Cpu
<1>15. Owns(p)'
  BY <1>1, <1>3, <1>6, <1>7 DEF Owns, Making
<1>16. Stage(p)'
  <2>1. /\ aspace'[mode'[p].into] = a /\ aspace'[mode'[p].old] = aspace[p_addrspace[p]]
        /\ Ready(aspace'[mode'[p].old])
    BY <1>1, <1>5, <1>6
  <2> QED
    BY <1>4, <1>6, <2>1 DEF Stage
<1>17. Found(p)' /\ Loaded(p)'
  BY <1>1, <1>3, <1>6 DEF Found, Loaded
<1>18. Remembers(p)'
  <2>1. Home(p)' = Home(p)
    BY <1>1, <1>3, <1>5, <1>6 DEF Home
  <2>2. aspace'[Home(p)] = aspace[Home(p)]
    BY <1>1, <1>3, <1>5, <1>6 DEF Home
  <2> QED
    BY <1>1, <1>3, <1>5, <1>6, <2>1, <2>2, RemembersKept
<1>19. Tlbs(c) /\ Tlbs(c)'
  <2>1. Tlbs(c)
    BY <1>1, Running
  <2>2. ASSUME NEW i \in Slots, tlb[c][i] # NONE PROVE Private(p, tlb[c][i][2])'
    <3>1. Private(p, tlb[c][i][2])
      BY <1>1, <2>1, <2>2 DEF Tlbs
    <3>2. ASSUME NEW q \in Procs \ {p}, NEW k \in Claim(q)' PROVE aspace'[k] = aspace[k]
      BY <1>5, <1>9, Claimed
    <3>3. tlb[c][i][2] \notin Frames(aspace'[mode'[p].into])
      BY <1>5, <1>6
    <3> QED
      BY <1>3, <1>9, <3>1, <3>2, <3>3 DEF Private
  <2> QED
    BY <1>1, <1>3, <1>5, <1>6, <2>1, <2>2 DEF Tlbs, Exact
<1> QED
  BY <1>1, <1>3, <1>5, <1>8, <1>9, <1>10, <1>12, <1>13, <1>14, <1>15, <1>16, <1>17, <1>18,
     <1>19, StepInv DEF Local

\* A call goes on to its next step.
LEMMA GotoMode ==
    ASSUME IInv, NEW p \in Procs, NEW where \in Making, VmGoto(p, where)
    PROVE  /\ mode' \in [Procs -> Mode] /\ \A q \in Procs \ {p} : mode'[q] = mode[q]
           /\ mode'[p].at = where /\ mode'[p].call = mode[p].call
           /\ mode'[p].into = mode[p].into /\ mode'[p].old = mode[p].old
           /\ mode'[p].file = mode[p].file /\ mode'[p].next = mode[p].next
<1>1. mode \in [Procs -> Mode]
  BY DEF IInv, TypeOK
<1>2. PICK m \in Mode : m = mode[p]
  BY <1>1
<1>3. PICK n : n = [m EXCEPT !.at = where]
  OBVIOUS
<1>4. /\ n \in Mode /\ n.at = where /\ n.call = m.call /\ n.into = m.into /\ n.old = m.old
      /\ n.file = m.file /\ n.next = m.next
  BY <1>3, SMT DEF Mode
<1>5. mode' = [mode EXCEPT ![p] = n]
  BY <1>2, <1>3 DEF VmGoto
<1>6. mode' \in [Procs -> Mode] /\ mode'[p] = n /\ \A q \in Procs \ {p} : mode'[q] = mode[q]
  BY <1>1, <1>4, <1>5
<1> QED
  BY <1>2, <1>4, <1>6

\* What a call that makes an address space has.
LEMMA Maker ==
    ASSUME IInv, NEW c \in Cpu, NEW p, cpu[c] = p, p # NONE, mode[p].at \in Making
    PROVE  /\ p \in Procs /\ mode[p] \in Mode /\ mode[p].at # "absent" /\ Owns(p) /\ Stage(p)
           /\ mode[p].into # 0 /\ mode[p].into \in Claim(p)
           /\ mode[p].into \in 1..Len(aspace) /\ aspace[mode[p].into] \in AddrSpace
           /\ mode[p].call \in {"run", "execv", "fork"} /\ Tlbs(c)
           /\ mode[p].at # "load" => fault[p] = NONE
           /\ mode[p].at # "load" /\ mode[p].call # "fork" => \A i \in Slots : tlb[c][i] = NONE
           /\ mode[p].call # "run" =>
                 /\ mode[p].old # mode[p].into /\ mode[p].old \in Claim(p)
                 /\ mode[p].old \in 1..Len(aspace)
                 /\ Home(p) = mode[p].old /\ Ready(aspace[mode[p].old])
<1>1. p \in Procs /\ mode[p] \in Mode /\ mode[p].at # "absent" /\ Owns(p) /\ Stage(p) /\ Tlbs(c)
  BY Running
<1>2. mode[p].into # 0 /\ mode[p].into \in Claim(p)
  BY <1>1 DEF Owns, Claim
<1>3. mode[p].call \in {"run", "execv", "fork"}
  <2>1. mode[p].call \in {"none", "run", "execv", "fork"}
    BY <1>1, SMT DEF Mode
  <2> QED
    BY <1>1, <2>1 DEF Owns
<1>4. mode[p].at # "load" => fault[p] = NONE
  BY <1>1 DEF Owns, Making
<1>5. mode[p].at # "load" /\ mode[p].call # "fork" => \A i \in Slots : tlb[c][i] = NONE
  BY <1>1 DEF Tlbs
<1>6. ASSUME mode[p].call # "run"
      PROVE  /\ mode[p].old # mode[p].into /\ mode[p].old \in Claim(p)
             /\ Home(p) = mode[p].old /\ Ready(aspace[mode[p].old])
  BY <1>1, <1>3, <1>6 DEF Owns, Stage, Claim, Home
<1> QED
  BY <1>1, <1>2, <1>3, <1>4, <1>5, <1>6, Claimed

\* as_define_region records the segments of the program, or refuses the third one.
LEMMA DefineInv ==
    ASSUME IInv, NEW c \in Cpu, NEW p, cpu[c] = p, Define(c)
    PROVE  IInv'
<1>1. /\ p # NONE /\ mode[p].at = "define"
      /\ UNCHANGED <<firstpaddr, mem, tlb, cpu, fault, image>>
  BY DEF Define, Runs
<1>2. /\ p \in Procs /\ mode[p] \in Mode /\ mode[p].at # "absent" /\ Owns(p) /\ Stage(p)
      /\ mode[p].into # 0 /\ mode[p].into \in Claim(p)
      /\ mode[p].into \in 1..Len(aspace) /\ aspace[mode[p].into] \in AddrSpace
      /\ mode[p].call \in {"run", "execv", "fork"} /\ fault[p] = NONE
      /\ mode[p].call # "fork" => \A i \in Slots : tlb[c][i] = NONE
      /\ mode[p].call # "run" =>
            /\ mode[p].old # mode[p].into /\ mode[p].old \in Claim(p)
            /\ mode[p].old \in 1..Len(aspace)
            /\ Home(p) = mode[p].old /\ Ready(aspace[mode[p].old])
  BY <1>1, Maker DEF Making
<1>3. mode[p].call # "fork" /\ mode[p].file # <<>>
  BY <1>1, <1>2 DEF Owns, Making
<1>4. CASE Back(p) /\ UNCHANGED aspace
  BY <1>1, <1>2, <1>4, BackInv DEF IInv, TypeOK
<1>5. ASSUME aspace' = [aspace EXCEPT ![mode[p].into] = Defined(mode[p].file)],
             VmGoto(p, "pbase1"), UNCHANGED <<p_addrspace, wasbad>>, Len(mode[p].file) <= 2
      PROVE  IInv'
  <2>1. PICK a \in AddrSpace : /\ a = Defined(mode[p].file)
                               /\ a.pbase1 = 0 /\ a.pbase2 = 0 /\ a.stackpbase = 0
    <3>1. PICK file : file = mode[p].file /\ file \in Seq(Segment) /\ file # <<>>
      BY <1>2, <1>3, VmAssumption, SMT DEF Mode, Files
    <3>2. /\ file[1].base \in Nat /\ file[1].pages \in Nat
          /\ Len(file) # 1 => file[2].base \in Nat /\ file[2].pages \in Nat
      <4>1. Len(file) \in Nat /\ Len(file) >= 1 /\ Len(file) <= 2
        BY <1>5, <3>1, SMT
      <4>2. file[1] \in Segment /\ (Len(file) # 1 => file[2] \in Segment)
        <5>1. PICK n \in Nat : n = Len(file) /\ n >= 1 /\ n <= 2
          BY <4>1
        <5>2. 1 \in 1..n /\ (n # 1 => 2 \in 1..n)
          BY <5>1, SMT
        <5> QED
          BY <3>1, <5>1, <5>2, SMT
      <4> QED
        BY <4>2, SMT DEF Segment
    <3>3. PICK a : a = Defined(file)
      OBVIOUS
    <3>4. a \in AddrSpace /\ a.pbase1 = 0 /\ a.pbase2 = 0 /\ a.stackpbase = 0
      <4>1. CASE Len(file) = 1
        <5>1. a = Unfilled(file[1].base, file[1].pages, 0, 0)
          BY <3>3, <4>1 DEF Defined
        <5> QED
          BY <3>2, <5>1, SMT DEF Unfilled, AddrSpace
      <4>2. CASE Len(file) # 1
        <5>1. a = Unfilled(file[1].base, file[1].pages, file[2].base, file[2].pages)
          BY <3>3, <4>2 DEF Defined
        <5> QED
          BY <3>2, <4>2, <5>1, SMT DEF Unfilled, AddrSpace
      <4> QED
        BY <4>1, <4>2
    <3> QED
      BY <3>1, <3>3, <3>4
  <2>2. aspace \in Seq(AddrSpace)
    BY DEF IInv, TypeOK
  <2>3. /\ aspace' \in Seq(AddrSpace) /\ Len(aspace') = Len(aspace) /\ aspace'[mode[p].into] = a
        /\ \A l \in 1..Len(aspace) : l # mode[p].into => aspace'[l] = aspace[l]
    BY <1>2, <1>5, <2>1, <2>2, AsExcept
  <2>4. /\ mode' \in [Procs -> Mode] /\ \A q \in Procs \ {p} : mode'[q] = mode[q]
        /\ mode'[p].at = "pbase1" /\ mode'[p].call = mode[p].call
        /\ mode'[p].into = mode[p].into /\ mode'[p].old = mode[p].old
        /\ mode'[p].file = mode[p].file /\ mode'[p].next = mode[p].next
    BY <1>2, <1>5, GotoMode DEF Making
  <2>5. TypeOK'
    BY <1>1, <1>5, <2>3, <2>4 DEF IInv, TypeOK, Cpu
  <2>6. \A q \in Procs \ {p} : Same(q)
    BY <1>1, <1>5, <2>4 DEF Same
  <2>7. \A q \in Procs \ {p} : Kept(q)
    BY <1>1, <1>2, <2>3, OthersKept
  <2>8. Claim(p)' = Claim(p)
    BY <1>5, <2>4 DEF Claim
  <2>9. Frames(a) = {}
    BY <2>1 DEF Frames, Region
  <2>10. Claims' /\ Apart' /\ Grows(p)
    <3>1. Len(aspace) \in Nat /\ Len(aspace) >= Len(aspace) /\ mode[p].into \in Nat
      BY <1>2, <2>2, SMT
    <3>2. Claims'
      BY <1>2, <2>3, <2>6, <2>8, <3>1, ClaimsKept
    <3>3. Apart'
      BY <1>1, <2>1, <2>3, <3>1, ApartKept
    <3> QED
      BY <1>1, <1>2, <2>3, <2>6, <2>8, <2>9, <3>2, <3>3, GrowsMade
  <2>11. OneEntry'
    BY <1>1 DEF IInv, OneEntry, Cpu
  <2>12. Owns(p)'
    BY <1>1, <1>2, <1>5, <2>4 DEF Owns, Making
  <2>13. Stage(p)'
    <3>1. /\ mode'[p].call # "fork" /\ aspace'[mode'[p].into] = a
          /\ mode'[p].call = "execv" => Ready(aspace'[mode'[p].old])
      BY <1>2, <1>3, <2>3, <2>4
    <3> QED
      BY <2>1, <2>4, <3>1 DEF Stage
  <2>14. Found(p)' /\ Loaded(p)'
    BY <1>1, <1>2, <2>4 DEF Found, Loaded
  <2>15. Remembers(p)'
    <3>1. CASE mode[p].call = "run"
      BY <2>4, <3>1 DEF Remembers
    <3>2. CASE mode[p].call = "execv"
      <4>1. Home(p)' = Home(p)
        BY <1>1, <1>2, <1>5, <2>3, <2>4, <3>2 DEF Home
      <4>2. aspace'[Home(p)] = aspace[Home(p)]
        BY <1>1, <1>2, <1>5, <2>3, <2>4, <3>2 DEF Home
      <4> QED
        BY <1>1, <1>2, <1>5, <2>3, <2>4, <3>2, <4>1, <4>2, RemembersKept
    <3> QED
      BY <1>2, <1>3, <3>1, <3>2
  <2>16. Tlbs(c)'
    BY <1>1, <1>2, <1>3, <2>4 DEF Tlbs
  <2> QED
    BY <1>1, <1>2, <2>5, <2>6, <2>7, <2>10, <2>11, <2>12, <2>13, <2>14, <2>15, <2>16,
       StepInv DEF Local
<1> QED
  BY <1>4, <1>5 DEF Define

\* as_prepare_load gives one region new physical pages, or fails for lack of RAM.
LEMMA PrepareLoadInv ==
    ASSUME IInv, NEW c \in Cpu, NEW p, cpu[c] = p, NEW where \in DOMAIN Following,
           PrepareLoad(c, where)
    PROVE  IInv'
<1>1. /\ p # NONE /\ mode[p].at = where /\ UNCHANGED <<mem, tlb, cpu, fault, image>>
  BY DEF PrepareLoad, Runs
<1>2. where \in {"pbase1", "pbase2", "stackpbase"}
  BY SMT DEF Following
<1>3. /\ p \in Procs /\ mode[p] \in Mode /\ mode[p].at # "absent" /\ Owns(p) /\ Stage(p)
      /\ mode[p].into # 0 /\ mode[p].into \in Claim(p)
      /\ mode[p].into \in 1..Len(aspace) /\ aspace[mode[p].into] \in AddrSpace
      /\ mode[p].call \in {"run", "execv", "fork"} /\ Tlbs(c) /\ fault[p] = NONE
      /\ mode[p].call # "fork" => \A i \in Slots : tlb[c][i] = NONE
      /\ mode[p].call # "run" =>
            /\ mode[p].old # mode[p].into /\ mode[p].old \in Claim(p)
            /\ mode[p].old \in 1..Len(aspace)
            /\ Home(p) = mode[p].old /\ Ready(aspace[mode[p].old])
  BY <1>1, <1>2, Maker DEF Making
<1>4. CASE Back(p) /\ UNCHANGED <<firstpaddr, aspace>>
  BY <1>1, <1>3, <1>4, BackInv DEF IInv, TypeOK
<1>5. PICK a \in AddrSpace : a = aspace[mode[p].into]
  BY <1>3
<1>6. ASSUME Fits(Wanted(a, where)), getppages(Wanted(a, where)),
             aspace' = [aspace EXCEPT ![mode[p].into] = Filled(a, where)],
             VmGoto(p, Following[where]), UNCHANGED <<p_addrspace, wasbad>>
      PROVE  IInv'
  <2>1. firstpaddr \in Nat \ {0} /\ aspace \in Seq(AddrSpace) /\ Apart
    BY DEF IInv, TypeOK
  <2>2. PICK b \in AddrSpace :
          /\ b = Filled(a, where)
          /\ b.vbase1 = a.vbase1 /\ b.npages1 = a.npages1
          /\ b.vbase2 = a.vbase2 /\ b.npages2 = a.npages2
          /\ b.pbase1 = IF where = "pbase1" THEN firstpaddr ELSE a.pbase1
          /\ b.pbase2 = IF where = "pbase2" THEN firstpaddr ELSE a.pbase2
          /\ b.stackpbase = IF where = "stackpbase" THEN firstpaddr ELSE a.stackpbase
    BY <1>2, <2>1, FilledIs
  <2>3. PICK n \in Nat : n = Wanted(a, where)
    BY <1>2, <2>1, FilledIs
  <2>4. /\ Frames(b) \subseteq Frames(a) \cup firstpaddr..(firstpaddr + n - 1)
        /\ Region(b.pbase1, b.npages1) \cap Region(b.pbase2, b.npages2) = {}
        /\ Region(b.pbase1, b.npages1) \cap Region(b.stackpbase, 1) = {}
        /\ Region(b.pbase2, b.npages2) \cap Region(b.stackpbase, 1) = {}
    <3>1. /\ Frames(a) \subseteq 1..(firstpaddr - 1)
          /\ Region(a.pbase1, a.npages1) \cap Region(a.pbase2, a.npages2) = {}
          /\ Region(a.pbase1, a.npages1) \cap Region(a.stackpbase, 1) = {}
          /\ Region(a.pbase2, a.npages2) \cap Region(a.stackpbase, 1) = {}
      BY <1>3, <1>5, <2>1 DEF Apart
    <3> QED
      BY <1>2, <2>1, <2>2, <2>3, <3>1, FilledFrames
  <2>5. /\ aspace' \in Seq(AddrSpace) /\ Len(aspace') = Len(aspace) /\ aspace'[mode[p].into] = b
        /\ \A l \in 1..Len(aspace) : l # mode[p].into => aspace'[l] = aspace[l]
    BY <1>3, <1>6, <2>1, <2>2, AsExcept
  <2>6. Following[where] \in Making /\ Following[where] # "define" /\ Following[where] # "load"
    BY <1>2, SMT DEF Following, Making
  <2>7. /\ mode' \in [Procs -> Mode] /\ \A q \in Procs \ {p} : mode'[q] = mode[q]
        /\ mode'[p].at = Following[where] /\ mode'[p].call = mode[p].call
        /\ mode'[p].into = mode[p].into /\ mode'[p].old = mode[p].old
        /\ mode'[p].file = mode[p].file /\ mode'[p].next = mode[p].next
    BY <1>3, <1>6, <2>6, GotoMode
  <2>8. /\ firstpaddr' = firstpaddr + n /\ firstpaddr' \in Nat \ {0}
        /\ firstpaddr' >= firstpaddr /\ firstpaddr' <= RamPages + 1
    BY <1>6, <2>1, <2>3, VmAssumption, SMT DEF getppages, Fits
  <2>9. TypeOK'
    BY <1>1, <1>6, <2>5, <2>7, <2>8 DEF IInv, TypeOK, Cpu
  <2>10. \A q \in Procs \ {p} : Same(q) /\ Claim(q)' = Claim(q)
    BY <1>1, <1>6, <2>7 DEF Same, Claim
  <2>11. \A q \in Procs \ {p} : Kept(q)
    BY <1>1, <1>3, <2>5, OthersKept
  <2>12. Claim(p)' = Claim(p)
    BY <1>6, <2>7 DEF Claim
  <2>13. Claims'
    <3>1. Len(aspace) \in Nat /\ Len(aspace) >= Len(aspace)
      BY <2>1, SMT
    <3> QED
      BY <1>3, <2>5, <2>10, <2>12, <3>1, ClaimsKept
  <2>14. \A f \in Frames(b) : f < firstpaddr => f \in Frames(a)
    BY <2>1, <2>3, <2>4, SMT
  <2>15. Grows(p)
    <3>1. ASSUME NEW q \in Procs, NEW k \in Claim(q)', NEW f \in Frames(aspace'[k]), f < firstpaddr
          PROVE  k \in Claim(q) /\ f \in Frames(aspace[k])
      <4>1. k \in Claim(q)
        BY <2>10, <2>12
      <4>2. CASE k = mode[p].into
        BY <1>5, <2>5, <2>14, <3>1, <4>1, <4>2
      <4>3. CASE k # mode[p].into
        BY <2>5, <3>1, <4>1, <4>3, Claimed
      <4> QED
        BY <4>1, <4>2, <4>3
    <3>2. firstpaddr' \in Nat
      BY <2>8
    <3> QED
      BY <2>8, <3>1, <3>2 DEF Grows
  <2>16. Apart'
    <3>1. 1..(firstpaddr - 1) \subseteq 1..(firstpaddr' - 1)
      BY <2>1, <2>8, SMT
    <3>2. ASSUME NEW l \in 1..Len(aspace), l # mode[p].into
          PROVE  /\ Frames(aspace[l]) \subseteq 1..(firstpaddr' - 1)
                 /\ Frames(aspace[l]) \cap Frames(b) = {}
      <4>1. Frames(aspace[l]) \subseteq 1..(firstpaddr - 1) /\ Frames(aspace[l]) \cap Frames(a) = {}
        BY <1>3, <1>5, <2>1, <3>2 DEF Apart
      <4>2. \A f \in 1..(firstpaddr - 1) : f < firstpaddr
        BY <2>1, SMT
      <4> QED
        BY <2>14, <3>1, <4>1, <4>2
    <3>3. Frames(b) \subseteq 1..(firstpaddr' - 1)
      <4>1. Frames(a) \subseteq 1..(firstpaddr - 1)
        BY <1>3, <1>5, <2>1 DEF Apart
      <4>2. firstpaddr..(firstpaddr + n - 1) \subseteq 1..(firstpaddr' - 1)
        BY <2>1, <2>8, SMT
      <4> QED
        BY <2>4, <3>1, <4>1, <4>2
    <3>4. ASSUME NEW l \in 1..Len(aspace') PROVE
            /\ Frames(aspace'[l]) \subseteq 1..(firstpaddr' - 1)
            /\ Region(aspace'[l].pbase1, aspace'[l].npages1) \cap
                  Region(aspace'[l].pbase2, aspace'[l].npages2) = {}
            /\ Region(aspace'[l].pbase1, aspace'[l].npages1) \cap
                  Region(aspace'[l].stackpbase, 1) = {}
            /\ Region(aspace'[l].pbase2, aspace'[l].npages2) \cap
                  Region(aspace'[l].stackpbase, 1) = {}
      <4>1. CASE l = mode[p].into
        BY <2>4, <2>5, <3>3, <4>1
      <4>2. CASE l # mode[p].into
        BY <2>1, <2>5, <3>2, <4>2 DEF Apart
      <4> QED
        BY <4>1, <4>2
    <3>5. ASSUME NEW k \in 1..Len(aspace'), NEW l \in 1..Len(aspace'), k # l
          PROVE  Frames(aspace'[k]) \cap Frames(aspace'[l]) = {}
      <4>1. CASE k = mode[p].into
        BY <2>5, <3>2, <3>5, <4>1
      <4>2. CASE l = mode[p].into
        BY <2>5, <3>2, <3>5, <4>2
      <4>3. CASE k # mode[p].into /\ l # mode[p].into
        BY <2>1, <2>5, <3>5, <4>3 DEF Apart
      <4> QED
        BY <4>1, <4>2, <4>3
    <3> QED
      BY <3>4, <3>5 DEF Apart
  <2>17. OneEntry'
    BY <1>1 DEF IInv, OneEntry, Cpu
  <2>18. Owns(p)'
    BY <1>1, <1>2, <1>3, <1>6, <2>6, <2>7 DEF Owns, Making
  <2>19. Stage(p)'
    <3>1. firstpaddr # 0
      BY <2>1
    <3>2. /\ mode'[p].into = mode[p].into /\ aspace'[mode'[p].into] = b
          /\ mode[p].call # "run" => aspace'[mode'[p].old] = aspace[mode[p].old]
      BY <1>3, <2>5, <2>7
    <3>3. ASSUME mode[p].call = "fork"
          PROVE  LET o == aspace'[mode'[p].old]
                 IN  /\ b.vbase1 = o.vbase1 /\ b.npages1 = o.npages1
                     /\ b.vbase2 = o.vbase2 /\ b.npages2 = o.npages2
      BY <1>3, <1>5, <2>2, <3>2, <3>3 DEF Stage
    <3>4. CASE where = "pbase1"
      <4>1. Following[where] = "pbase2" /\ b.pbase1 # 0 /\ b.pbase2 = 0 /\ b.stackpbase = 0
        <5>1. Following[where] = "pbase2"
          BY <3>4, SMT DEF Following
        <5> QED
          BY <1>1, <1>3, <1>5, <2>2, <3>1, <3>4, <5>1 DEF Stage
      <4> QED
        BY <1>3, <2>7, <3>2, <3>3, <4>1 DEF Stage
    <3>5. CASE where = "pbase2"
      <4>1. Following[where] = "stackpbase" /\ b.pbase1 # 0 /\ b.pbase2 # 0 /\ b.stackpbase = 0
        <5>1. Following[where] = "stackpbase"
          BY <3>5, SMT DEF Following
        <5> QED
          BY <1>1, <1>3, <1>5, <2>2, <3>1, <3>5, <5>1 DEF Stage
      <4> QED
        BY <1>3, <2>7, <3>2, <3>3, <4>1 DEF Stage
    <3>6. CASE where = "stackpbase"
      <4>1. Following[where] = "zero" /\ b.pbase1 # 0 /\ b.pbase2 # 0 /\ b.stackpbase # 0
        <5>1. Following[where] = "zero"
          BY <3>6, SMT DEF Following
        <5> QED
          BY <1>1, <1>3, <1>5, <2>2, <3>1, <3>6, <5>1 DEF Stage
      <4> QED
        BY <1>3, <2>7, <3>2, <3>3, <4>1 DEF Stage
    <3> QED
      BY <1>2, <3>4, <3>5, <3>6
  <2>20. Found(p)' /\ Loaded(p)'
    BY <1>1, <1>3, <2>6, <2>7 DEF Found, Loaded
  <2>21. Remembers(p)'
    <3>1. CASE mode[p].call = "run"
      BY <2>7, <3>1 DEF Remembers
    <3>2. CASE mode[p].call # "run"
      <4>1. Home(p)' = Home(p)
        BY <1>1, <1>3, <1>6, <2>5, <2>7, <3>2 DEF Home
      <4>2. aspace'[Home(p)] = aspace[Home(p)]
        BY <1>1, <1>3, <1>6, <2>5, <2>7, <3>2 DEF Home
      <4> QED
        BY <1>1, <1>3, <1>6, <2>5, <2>7, <3>2, <4>1, <4>2, RemembersKept
    <3> QED
      BY <3>1, <3>2
  <2>22. Tlbs(c)'
    <3>1. CASE mode[p].call # "fork"
      BY <1>1, <1>3, <2>6, <2>7, <3>1 DEF Tlbs, Making
    <3>2. CASE mode[p].call = "fork"
      <4>1. p_addrspace[p] = mode[p].old /\ aspace'[p_addrspace[p]] = aspace[p_addrspace[p]]
        BY <1>3, <2>5, <3>2 DEF Owns
      <4>2. ASSUME NEW i \in Slots, tlb[c][i] # NONE PROVE Private(p, tlb[c][i][2])'
        <5>1. Private(p, tlb[c][i][2])
          BY <1>1, <1>3, <4>2 DEF Tlbs
        <5>2. /\ tlb[c][i][2] \in 1..(firstpaddr' - 1) /\ tlb[c][i][2] < firstpaddr
          BY <2>1, <2>8, <5>1, SMT DEF Private
        <5>3. tlb[c][i][2] \notin Frames(aspace'[mode'[p].into])
          BY <1>5, <2>5, <2>7, <2>14, <3>2, <5>1, <5>2 DEF Private
        <5>4. ASSUME NEW q \in Procs \ {p}, NEW k \in Claim(q)'
              PROVE  tlb[c][i][2] \notin Frames(aspace'[k])
          <6>1. k \in Claim(q) /\ aspace'[k] = aspace[k]
            BY <2>10, <2>11 DEF Kept
          <6> QED
            BY <5>1, <6>1 DEF Private
        <5> QED
          BY <1>1, <5>2, <5>3, <5>4 DEF Private
      <4> QED
        <5>1. ASSUME NEW i \in Slots, tlb[c][i] # NONE
              PROVE  /\ fault[p] # NONE => tlb[c][i][1] # fault[p][1]
                     /\ Exact(p) => tlb[c][i][2] = Physical(aspace[p_addrspace[p]], tlb[c][i][1])
          BY <1>1, <1>3, <5>1 DEF Tlbs
        <5>2. /\ mode'[p].call = "fork" /\ mode'[p].at # "absent" /\ cpu'[c] = p
              /\ Exact(p)' => Exact(p)
          BY <1>1, <1>6, <2>6, <2>7, <3>2 DEF Exact, Making
        <5>3. ASSUME NEW i \in Slots, tlb[c][i] # NONE
              PROVE  /\ fault'[p] # NONE => tlb'[c][i][1] # fault'[p][1]
                     /\ Exact(p)' => tlb'[c][i][2] = Physical(aspace'[p_addrspace'[p]], tlb'[c][i][1])
          BY <1>1, <1>6, <4>1, <5>1, <5>2, <5>3
        <5> QED
          BY <1>1, <4>2, <5>2, <5>3 DEF Tlbs
    <3> QED
      BY <3>1, <3>2
  <2> QED
    BY <1>1, <1>3, <2>9, <2>10, <2>11, <2>13, <2>15, <2>16, <2>17, <2>18, <2>19, <2>20,
       <2>21, <2>22, StepInv DEF Local
<1> QED
  BY <1>4, <1>5, <1>6 DEF PrepareLoad

\* as_prepare_load zeroes the pages it got.
LEMMA ZeroForLoadInv ==
    ASSUME IInv, NEW c \in Cpu, NEW p, cpu[c] = p, ZeroForLoad(c)
    PROVE  IInv'
<1>1. /\ p # NONE /\ mode[p].at = "zero" /\ mode[p].call # "fork"
      /\ mem' = Zeroed(aspace[mode[p].into])
      /\ VmGoto(p, "load")
      /\ UNCHANGED <<firstpaddr, tlb, cpu, aspace, p_addrspace, fault, image, wasbad>>
  BY DEF ZeroForLoad, Runs
<1>2. /\ p \in Procs /\ mode[p] \in Mode /\ mode[p].at # "absent" /\ Owns(p) /\ Stage(p)
      /\ mode[p].into # 0 /\ mode[p].into \in Claim(p)
      /\ mode[p].into \in 1..Len(aspace) /\ aspace[mode[p].into] \in AddrSpace
      /\ mode[p].call \in {"run", "execv"} /\ fault[p] = NONE
      /\ \A i \in Slots : tlb[c][i] = NONE
      /\ mode[p].call # "run" =>
            /\ mode[p].old # mode[p].into /\ mode[p].old \in Claim(p)
            /\ mode[p].old \in 1..Len(aspace)
            /\ Home(p) = mode[p].old /\ Ready(aspace[mode[p].old])
  BY <1>1, Maker DEF Making
<1>3. /\ p_addrspace[p] = mode[p].into /\ mode[p].file # <<>> /\ p_addrspace[p] \in Claim(p)
      /\ Ready(aspace[p_addrspace[p]])
  BY <1>1, <1>2 DEF Owns, Stage, Ready
<1>4. /\ mode' \in [Procs -> Mode] /\ \A q \in Procs \ {p} : mode'[q] = mode[q]
      /\ mode'[p].at = "load" /\ mode'[p].next = 1 /\ mode'[p].call = mode[p].call
      /\ mode'[p].into = mode[p].into /\ mode'[p].old = mode[p].old
      /\ mode'[p].file = mode[p].file
  BY <1>1, <1>2, GotoMode DEF Owns, Making
<1>5. /\ DOMAIN mem' = 1..RamPages /\ mem' = [f \in 1..RamPages |-> mem'[f]]
      /\ \A f \in 1..RamPages : f \in Frames(aspace[mode[p].into]) => mem'[f] = "zero"
      /\ \A f \in 1..RamPages : f \notin Frames(aspace[mode[p].into]) => mem'[f] = mem[f]
  BY <1>1 DEF Zeroed
<1>6. TypeOK'
  BY <1>1, <1>4, <1>5 DEF IInv, TypeOK, Cpu
<1>7. \A q \in Procs \ {p} : Same(q) /\ Claim(q)' = Claim(q)
  BY <1>1, <1>4 DEF Same, Claim
<1>8. \A q \in Procs \ {p} : Kept(q)
  BY <1>1, <1>2, <1>5, OthersKept
<1>9. Claim(p)' = Claim(p)
  BY <1>1, <1>4 DEF Claim
<1>10. Claims' /\ Apart' /\ Grows(p)
  BY <1>1, <1>2, <1>7, <1>9, MapKept
<1>11. OneEntry'
  BY <1>1 DEF IInv, OneEntry, Cpu
<1>12. Owns(p)'
  BY <1>1, <1>2, <1>3, <1>4 DEF Owns, Making
<1>13. Stage(p)'
  BY <1>1, <1>2, <1>3, <1>4 DEF Stage
<1>14. Found(p)'
  BY <1>1, <1>2 DEF Found
<1>15. Loaded(p)'
  <2>1. mode'[p] \in Mode
    BY <1>2, <1>4
  <2>2. PICK m \in Mode : m = mode'[p]
    BY <2>1
  <2>3. Len(Todo(m)) \in Nat
    BY <1>3, <1>4, <2>2, TodoSeq
  <2>4. mode'[p].next \in 1..(Len(Todo(m)) + 1) /\ 1..(mode'[p].next - 1) = {}
    BY <1>4, <2>3, SMT
  <2>5. ASSUME NEW v \in Pages(aspace[p_addrspace[p]])
        PROVE  mem'[Physical(aspace[p_addrspace[p]], v)] = "zero"
    <3>1. Physical(aspace[p_addrspace[p]], v) \in Frames(aspace[p_addrspace[p]])
      BY <1>2, <1>3, PagesInFrames
    <3>2. Physical(aspace[p_addrspace[p]], v) \in 1..(firstpaddr - 1)
      BY <1>2, <1>3, <3>1 DEF IInv, Apart
    <3> QED
      BY <1>3, <1>5, <3>1, <3>2, InRam
  <2> QED
    BY <1>1, <2>2, <2>4, <2>5 DEF Loaded
<1>16. Remembers(p)'
  <2>1. CASE mode[p].call = "run"
    BY <1>4, <2>1 DEF Remembers
  <2>2. CASE mode[p].call # "run"
    <3>1. ASSUME NEW f \in Frames(aspace[mode[p].old]) PROVE mem'[f] = mem[f]
      <4>1. f \in 1..(firstpaddr - 1) /\ f \notin Frames(aspace[mode[p].into])
        BY <1>2, <2>2 DEF IInv, Apart
      <4> QED
        BY <1>5, <4>1, InRam
    <3>2. Home(p)' = Home(p)
      BY <1>1, <1>4 DEF Home
    <3> QED
      BY <1>1, <1>2, <2>2, <3>1, <3>2, RemembersKept
  <2> QED
    BY <2>1, <2>2
<1>17. Tlbs(c)'
  BY <1>1, <1>2, <1>4 DEF Tlbs
<1> QED
  BY <1>1, <1>2, <1>6, <1>7, <1>8, <1>10, <1>11, <1>12, <1>13, <1>14, <1>15, <1>16, <1>17,
     StepInv DEF Local

\* load_elf writes one page of a segment through the address space being made.
LEMMA LoadPageInv ==
    ASSUME IInv, NEW c \in Cpu, NEW p, cpu[c] = p, LoadPage(c)
    PROVE  IInv'
<1>1. /\ p # NONE /\ Loads(p) /\ mode[p].at = "load" /\ fault[p] = NONE
      /\ mode' = [mode EXCEPT ![p].next = @ + 1]
      /\ UNCHANGED <<firstpaddr, tlb, cpu, aspace, p_addrspace, fault, image, wasbad>>
  BY DEF LoadPage, Loads
<1>2. PICK v, x : v = Loading(p)[1] /\ x = Loading(p)[2]
  OBVIOUS
<1>3. PICK f \in Hits(c, v) : mem' = [mem EXCEPT ![f] = x]
  BY <1>2 DEF LoadPage
<1>4. PICK i \in Slots : tlb[c][i] # NONE /\ tlb[c][i][1] = v /\ tlb[c][i][2] = f
  BY <1>3 DEF Hits
<1>5. /\ p \in Procs /\ mode[p] \in Mode /\ mode[p].at # "absent" /\ Owns(p) /\ Stage(p)
      /\ mode[p].into # 0 /\ mode[p].into \in Claim(p)
      /\ mode[p].into \in 1..Len(aspace) /\ aspace[mode[p].into] \in AddrSpace
      /\ mode[p].call \in {"run", "execv", "fork"} /\ Tlbs(c)
      /\ mode[p].call # "run" =>
            /\ mode[p].old # mode[p].into /\ mode[p].old \in Claim(p)
            /\ mode[p].old \in 1..Len(aspace)
            /\ Home(p) = mode[p].old /\ Ready(aspace[mode[p].old])
  BY <1>1, Maker DEF Making
<1>6. /\ mode[p].call \in {"run", "execv"} /\ p_addrspace[p] = mode[p].into
      /\ mode[p].file # <<>> /\ Ready(aspace[mode[p].into])
  BY <1>1, <1>5 DEF Owns, Stage, Making
<1>7. Private(p, f) /\ f = Physical(aspace[mode[p].into], v)
  BY <1>1, <1>4, <1>5, <1>6 DEF Tlbs, Exact
<1>8. f \in 1..RamPages /\ f # 0 /\ v \in Nat
  <2>1. f \in 1..(firstpaddr - 1)
    BY <1>7 DEF Private
  <2>2. f \in 1..RamPages
    BY <2>1, InRam
  <2>3. tlb[c][i] \in Entry
    BY <1>4, SMT DEF IInv, TypeOK
  <2> QED
    BY <1>4, <2>2, <2>3, SMT DEF Entry
<1>9. /\ mode' \in [Procs -> Mode] /\ \A q \in Procs \ {p} : mode'[q] = mode[q]
      /\ mode'[p].at = "load" /\ mode'[p].next = mode[p].next + 1
      /\ mode'[p].call = mode[p].call /\ mode'[p].into = mode[p].into
      /\ mode'[p].old = mode[p].old /\ mode'[p].file = mode[p].file
  <2>1. mode \in [Procs -> Mode]
    BY DEF IInv, TypeOK
  <2>2. PICK m \in Mode : m = mode[p]
    BY <1>5
  <2>3. PICK n : n = [m EXCEPT !.next = m.next + 1]
    OBVIOUS
  <2>4. /\ n \in Mode /\ n.at = m.at /\ n.next = m.next + 1 /\ n.call = m.call
        /\ n.into = m.into /\ n.old = m.old /\ n.file = m.file
    BY <2>3, SMT DEF Mode
  <2>5. mode' = [mode EXCEPT ![p] = n]
    BY <1>1, <2>2, <2>3
  <2>6. mode' \in [Procs -> Mode] /\ mode'[p] = n /\ \A q \in Procs \ {p} : mode'[q] = mode[q]
    BY <1>5, <2>1, <2>4, <2>5
  <2> QED
    BY <1>1, <2>2, <2>4, <2>6
<1>10. /\ mem'[f] = x /\ \A g \in 1..RamPages : g # f => mem'[g] = mem[g]
       /\ DOMAIN mem' = 1..RamPages /\ mem' = [g \in 1..RamPages |-> mem'[g]]
  BY <1>3, <1>8 DEF IInv, TypeOK
<1>11. TypeOK'
  BY <1>1, <1>9, <1>10 DEF IInv, TypeOK, Cpu
<1>12. \A q \in Procs : Claim(q)' = Claim(q)
  BY <1>1, <1>9 DEF Claim
<1>13. Claims' /\ Apart' /\ Grows(p)
  BY <1>1, <1>5, <1>12, MapKept
<1>14. \A q \in Procs \ {p} : Same(q) /\ Kept(q)
  <2>1. \A q \in Procs \ {p} : Same(q)
    BY <1>1, <1>5, <1>9 DEF Same
  <2> QED
    BY <1>1, <1>5, <1>7, <1>9, <1>10, <2>1, OthersKept
<1>15. OneEntry'
  BY <1>1 DEF IInv, OneEntry, Cpu
<1>16. Owns(p)' /\ Found(p)'
  BY <1>1, <1>5, <1>9 DEF Owns, Found
<1>17. Stage(p)'
  BY <1>1, <1>5, <1>9 DEF Stage
<1>18. Remembers(p)'
  <2>1. CASE mode[p].call = "run"
    BY <1>9, <2>1 DEF Remembers
  <2>2. CASE mode[p].call # "run"
    <3>1. ASSUME NEW g \in Frames(aspace[mode[p].old]) PROVE mem'[g] = mem[g]
      <4>2. f \in Frames(aspace[mode[p].into])
        BY <1>5, <1>6, <1>7, <1>8, PhysicalInFrames
      <4>3. g \in 1..(firstpaddr - 1) /\ g # f
        BY <1>5, <2>2, <4>2 DEF IInv, Apart
      <4> QED
        BY <1>10, <4>3, InRam
    <3>2. Home(p)' = Home(p)
      BY <1>1, <1>9 DEF Home
    <3> QED
      BY <1>1, <1>5, <2>2, <3>1, <3>2, RemembersKept
  <2> QED
    BY <2>1, <2>2
<1>19. Loaded(p)'
  <2>0. Loaded(p)
    BY <1>1, Running
  <2>1. PICK a : a = aspace[p_addrspace[p]]
    OBVIOUS
  <2>2. PICK T : T = Todo(mode[p]) /\ T = Todo(mode[p])'
    BY <1>9 DEF Todo
  <2>3. PICK n \in Nat : n = mode[p].next
    BY <1>5, SMT DEF Mode
  <2>4. Len(T) \in Nat /\ n <= Len(T) /\ n \in 1..(Len(T) + 1) /\ v = T[n][1] /\ x = T[n][2]
    <3>1. Len(T) \in Nat
      BY <1>5, <1>6, <2>2, TodoSeq
    <3>2. n \in 1..(Len(T) + 1)
      BY <1>1, <2>0, <2>2, <2>3 DEF Loaded
    <3> QED
      BY <1>1, <1>2, <2>2, <2>3, <3>1, <3>2 DEF Loads, Loading
  <2>5. n + 1 \in 1..(Len(T) + 1)
    BY <2>4, SMT
  <2>6. /\ n \in 1..((n + 1) - 1) /\ \A j \in 1..((n + 1) - 1) : j <= n
        /\ \A j : j \in 1..((n + 1) - 1) <=> j \in 1..(n - 1) \/ j = n
    BY <2>4, SMT
  <2>7. ASSUME NEW w \in Pages(a)
        PROVE  LET writes == {j \in 1..((n + 1) - 1) : T[j][1] = w}
               IN  \/ writes = {} /\ mem'[Physical(a, w)] = "zero"
                   \/ \E j \in writes : /\ \A k \in writes : k <= j
                                        /\ mem'[Physical(a, w)] = T[j][2]
    <3>1. CASE w = v
      <4>1. n \in {j \in 1..((n + 1) - 1) : T[j][1] = w}
        BY <2>4, <2>6, <3>1
      <4>2. mem'[Physical(a, w)] = T[n][2]
        BY <1>6, <1>7, <1>10, <2>1, <2>4, <3>1
      <4> QED
        BY <2>6, <4>1, <4>2
    <3>2. CASE w # v
      <4>1. {j \in 1..((n + 1) - 1) : T[j][1] = w} = {j \in 1..(n - 1) : T[j][1] = w}
        BY <2>4, <2>6, <3>2
      <4>2. mem'[Physical(a, w)] = mem[Physical(a, w)]
        <5>1. Physical(a, w) # f
          <6>1. w \in Nat
            BY VmAssumption, SMT DEF Pages
          <6>2. Apart
            BY DEF IInv
          <6> QED
            BY <1>5, <1>6, <1>7, <1>8, <2>1, <3>2, <6>1, <6>2, PhysicalInjective DEF Apart
        <5>2. Physical(a, w) \in Frames(a)
          BY <1>5, <1>6, <2>1, PagesInFrames
        <5>3. Physical(a, w) \in 1..(firstpaddr - 1)
          BY <1>5, <1>6, <2>1, <5>2 DEF IInv, Apart
        <5> QED
          BY <1>10, <5>1, <5>3, InRam
      <4>3. \/ {j \in 1..(n - 1) : T[j][1] = w} = {} /\ mem[Physical(a, w)] = "zero"
            \/ \E j \in {j \in 1..(n - 1) : T[j][1] = w} :
                  /\ \A k \in {k \in 1..(n - 1) : T[k][1] = w} : k <= j
                  /\ mem[Physical(a, w)] = T[j][2]
        BY <1>1, <2>0, <2>1, <2>2, <2>3, SMT DEF Loaded
      <4> QED
        BY <4>1, <4>2, <4>3
    <3> QED
      BY <3>1, <3>2
  <2> QED
    <3>1. mode'[p].next = n + 1 /\ aspace'[p_addrspace'[p]] = a
      BY <1>1, <1>9, <2>1, <2>3
    <3> QED
      BY <2>2, <2>5, <2>7, <3>1, SMT DEF Loaded
<1>20. Tlbs(c)'
  <2>1. ASSUME NEW j \in Slots, tlb[c][j] # NONE PROVE Private(p, tlb[c][j][2])'
    <3>1. Private(p, tlb[c][j][2])
      BY <1>1, <1>5, <2>1 DEF Tlbs
    <3> QED
      BY <1>1, <1>9, <1>12, <3>1, PrivateStays, SMT
  <2> QED
    BY <1>1, <1>5, <1>9, <2>1 DEF Tlbs, Exact
<1> QED
  BY <1>1, <1>5, <1>11, <1>13, <1>14, <1>15, <1>16, <1>17, <1>18, <1>19, <1>20, StepInv
     DEF Local

\* Everything is loaded: the program finds what its file has.
LEMMA EnterNewProcessInv ==
    ASSUME IInv, NEW c \in Cpu, NEW p, cpu[c] = p, EnterNewProcess(c)
    PROVE  IInv'
<1>1. /\ p # NONE /\ mode[p].at = "load" /\ ~Loads(p) /\ fault[p] = NONE
      /\ image' = [image EXCEPT ![p] = FreshImage(mode[p], aspace[p_addrspace[p]])]
      /\ mode' = [mode EXCEPT ![p] = InUser] /\ wasbad' = wasbad \ {p}
      /\ UNCHANGED <<firstpaddr, mem, tlb, cpu, aspace, p_addrspace, fault>>
  BY DEF EnterNewProcess, Runs
<1>2. /\ p \in Procs /\ mode[p] \in Mode /\ Owns(p) /\ Stage(p) /\ Loaded(p) /\ Tlbs(c)
  BY <1>1, Running
<1>3. /\ mode[p].call \in {"run", "execv"} /\ mode[p].file # <<>>
      /\ p_addrspace[p] \in Claim(p) /\ p_addrspace[p] # 0 /\ Ready(aspace[p_addrspace[p]])
  <2>1. mode[p].call \in {"run", "execv", "fork"}
    BY <1>1, Maker DEF Making
  <2> QED
    BY <1>1, <1>2, <2>1, LoadReady DEF Owns, Making
<1>4. /\ mode' \in [Procs -> Mode] /\ \A q \in Procs \ {p} : mode'[q] = mode[q]
      /\ mode'[p].at = "user" /\ mode'[p].call = "none"
      /\ mode'[p].into = 0 /\ mode'[p].old = 0
  BY <1>1, <1>2, UserMode DEF IInv, TypeOK
<1>5. /\ image' = [q \in Procs |-> image'[q]] /\ \A q \in Procs \ {p} : image'[q] = image[q]
      /\ image'[p] = FreshImage(mode[p], aspace[p_addrspace[p]])
  BY <1>1, <1>2 DEF IInv, TypeOK
<1>6. TypeOK'
  BY <1>1, <1>4, <1>5 DEF IInv, TypeOK, Cpu
<1>7. \A q \in Procs : Kept(q)
  BY <1>1 DEF Kept
<1>8. \A q \in Procs \ {p} : Same(q) /\ Claim(q)' = Claim(q)
  BY <1>1, <1>4, <1>5 DEF Same, Claim
<1>9. Claim(p)' \subseteq Claim(p)
  BY <1>1, <1>4 DEF Claim
<1>10. Claims' /\ Apart' /\ Grows(p)
  BY <1>1, <1>2, <1>8, <1>9, MapKept
<1>11. OneEntry'
  BY <1>1 DEF IInv, OneEntry, Cpu
<1>12. Owns(p)' /\ Found(p)' /\ Loaded(p)'
  BY <1>1, <1>3, <1>4 DEF Owns, Found, Loaded, Making
<1>13. Stage(p)'
  BY <1>1, <1>3, <1>4 DEF Stage
<1>14. Remembers(p)'
  <2>1. PICK a : a = aspace[p_addrspace[p]]
    OBVIOUS
  <2>2. PICK T, n : T = Todo(mode[p]) /\ n = Len(T)
    OBVIOUS
  <2>3. n \in Nat /\ mode[p].next - 1 = n
    <3>1. n \in Nat
      BY <1>2, <1>3, <2>2, TodoSeq
    <3>2. mode[p].next \in 1..(n + 1)
      BY <1>1, <1>2, <2>2 DEF Loaded
    <3>3. ~(mode[p].next <= n)
      BY <1>1, <2>2 DEF Loads
    <3> QED
      BY <3>1, <3>2, <3>3, SMT
  <2>4. image'[p] = FreshImage(mode[p], a) /\ DOMAIN image'[p] = Pages(a)
    BY <1>5, <2>1 DEF FreshImage
  <2>5. ASSUME NEW v \in Pages(a) PROVE mem[Physical(a, v)] = image'[p][v]
    <3>1. PICK W : W = {i \in 1..Len(Todo(mode[p])) : Todo(mode[p])[i][1] = v}
      OBVIOUS
    <3>2. \/ W = {} /\ mem[Physical(a, v)] = "zero"
          \/ \E i \in W : (\A j \in W : j <= i) /\ mem[Physical(a, v)] = Todo(mode[p])[i][2]
      <4>1. mode[p].next - 1 = Len(Todo(mode[p]))
        BY <2>2, <2>3
      <4>2. \/ /\ {i \in 1..(mode[p].next - 1) : Todo(mode[p])[i][1] = v} = {}
               /\ mem[Physical(a, v)] = "zero"
            \/ \E i \in {i \in 1..(mode[p].next - 1) : Todo(mode[p])[i][1] = v} :
                  /\ \A j \in {j \in 1..(mode[p].next - 1) : Todo(mode[p])[j][1] = v} : j <= i
                  /\ mem[Physical(a, v)] = Todo(mode[p])[i][2]
        BY <1>1, <1>2, <2>1 DEF Loaded
      <4> QED
        BY <3>1, <4>1, <4>2
    <3>3. image'[p][v] = IF W = {} THEN "zero"
                         ELSE Todo(mode[p])[CHOOSE i \in W : \A j \in W : j <= i][2]
      <4>1. FreshImage(mode[p], a)[v] =
              IF {k \in 1..Len(Todo(mode[p])) : Todo(mode[p])[k][1] = v} = {} THEN "zero"
              ELSE Todo(mode[p])[
                     CHOOSE i \in {k \in 1..Len(Todo(mode[p])) : Todo(mode[p])[k][1] = v} :
                        \A j \in {k \in 1..Len(Todo(mode[p])) : Todo(mode[p])[k][1] = v} :
                           j <= i][2]
        BY DEF FreshImage
      <4> QED
        BY <2>4, <3>1, <4>1
    <3>4. ASSUME NEW i \in W, \A j \in W : j <= i
          PROVE  (CHOOSE k \in W : \A j \in W : j <= k) = i
      <4>1. \A k \in W : k \in Int
        BY <2>2, <2>3, <3>1, SMT
      <4>2. ASSUME NEW k \in W, \A j \in W : j <= k PROVE k = i
        BY <3>4, <4>1, <4>2, SMT
      <4> QED
        BY <3>4, <4>2
    <3> QED
      BY <3>2, <3>3, <3>4
  <2>6. Home(p)' = p_addrspace[p]
    BY <1>1, <1>4 DEF Home
  <2> QED
    BY <1>1, <2>1, <2>4, <2>5, <2>6 DEF Remembers
<1>15. Tlbs(c)'
  <2>1. ASSUME NEW j \in Slots, tlb[c][j] # NONE PROVE Private(p, tlb[c][j][2])'
    <3>1. Private(p, tlb[c][j][2])
      BY <1>1, <1>2, <2>1 DEF Tlbs
    <3> QED
      BY <1>1, <1>4, <1>8, <3>1, PrivateStays, SMT
  <2> QED
    BY <1>1, <1>2, <1>3, <1>4, <2>1 DEF Tlbs, Exact, Making
<1> QED
  BY <1>1, <1>2, <1>6, <1>7, <1>8, <1>10, <1>11, <1>12, <1>13, <1>14, <1>15, StepInv DEF Local

\* A process that is not there.
LEMMA AbsentMode ==
    /\ Absent \in Mode /\ Absent.at = "absent" /\ Absent.call = "none"
    /\ Absent.into = 0 /\ Absent.old = 0
<1>1. PICK u \in Mode : u = InUser /\ u.call = "none" /\ u.into = 0 /\ u.old = 0
  BY UserMode
<1>2. PICK n : n = [u EXCEPT !.at = "absent"]
  OBVIOUS
<1>3. n \in Mode /\ n.at = "absent" /\ n.call = "none" /\ n.into = 0 /\ n.old = 0
  BY <1>1, <1>2, SMT DEF Mode
<1> QED
  BY <1>1, <1>2, <1>3 DEF Absent

\* A process that exits gives up its address space; its pages are never given out again.
LEMMA ExitInv ==
    ASSUME IInv, NEW c \in Cpu, NEW p, cpu[c] = p, Exit(c)
    PROVE  IInv'
<1>1. /\ p \in Procs /\ p # NONE /\ mode[p].at = "user" /\ fault[p] = NONE
  BY AtCall DEF Exit
<1>2. /\ p_addrspace' = [p_addrspace EXCEPT ![p] = 0] /\ mode' = [mode EXCEPT ![p] = Absent]
      /\ image' = [image EXCEPT ![p] = <<>>] /\ wasbad' = wasbad \ {p}
      /\ cpu' = [cpu EXCEPT ![c] = NONE] /\ UNCHANGED <<firstpaddr, mem, tlb, aspace, fault>>
  BY DEF Exit
<1>3. /\ mode' \in [Procs -> Mode] /\ \A q \in Procs \ {p} : mode'[q] = mode[q]
      /\ mode'[p].at = "absent" /\ mode'[p].call = "none"
      /\ mode'[p].into = 0 /\ mode'[p].old = 0
  BY <1>1, <1>2, AbsentMode DEF IInv, TypeOK
<1>4. /\ p_addrspace' \in [Procs -> Nat] /\ p_addrspace'[p] = 0
      /\ \A q \in Procs \ {p} : p_addrspace'[q] = p_addrspace[q]
  BY <1>1, <1>2, SMT DEF IInv, TypeOK
<1>5. image' = [q \in Procs |-> image'[q]] /\ \A q \in Procs \ {p} : image'[q] = image[q]
  BY <1>1, <1>2 DEF IInv, TypeOK
<1>6. /\ Cpu' = Cpu /\ cpu' \in [Cpu -> Procs \cup {NONE}] /\ cpu'[c] = NONE
      /\ \A d \in Cpu : d # c => cpu'[d] = cpu[d]
  BY <1>2 DEF IInv, TypeOK, Cpu
<1>7. TypeOK'
  BY <1>2, <1>3, <1>4, <1>5, <1>6 DEF IInv, TypeOK
<1>8. \A q \in Procs \ {p} : Same(q) /\ Kept(q) /\ Claim(q)' = Claim(q)
  BY <1>2, <1>3, <1>4, <1>5 DEF Same, Kept, Claim
<1>9. Claim(p)' = {}
  BY <1>3, <1>4 DEF Claim
<1>10. Claims' /\ Apart' /\ Grows(p)
  BY <1>1, <1>2, <1>8, <1>9, MapKept
<1>11. OneEntry' /\ OneCpu'
  BY <1>2, <1>6, SMT DEF IInv, OneEntry, OneCpu
<1>12. Local(p)'
  BY <1>1, <1>2, <1>3, <1>4 DEF Local, Owns, Stage, Found, Remembers, Loaded, Making
<1>13. \A q \in Procs : Local(q)'
  BY <1>8, <1>12, LocalKept
<1>14. Tlbs(c)'
  BY <1>6 DEF Tlbs
<1>15. ASSUME NEW d \in Cpu, d # c PROVE Tlbs(d)'
  <2>1. cpu[d] # p /\ cpu'[d] = cpu[d] /\ tlb'[d] = tlb[d]
    BY <1>1, <1>2, <1>6, <1>15 DEF IInv, OneCpu
  <2>2. cpu[d] # NONE => cpu[d] \in Procs \ {p}
    BY <2>1 DEF IInv, TypeOK
  <2> QED
    BY <1>1, <1>8, <1>10, <2>1, <2>2, TlbsKept
<1> QED
  BY <1>6, <1>7, <1>10, <1>11, <1>13, <1>14, <1>15 DEF IInv

\* runprogram: nothing runs yet.
LEMMA RunProgramInv ==
    ASSUME IInv, NEW c \in Cpu, NEW file \in Program, runprogram(c, file)
    PROVE  IInv'
<1>1. PICK p : p = Fresh
  OBVIOUS
<1>2. /\ \A q \in Procs : mode[q].at = "absent"
      /\ aspace' = Append(aspace, Unfilled(0, 0, 0, 0)) /\ EntersKernel(p, "run", file)
      /\ p_addrspace' = [p_addrspace EXCEPT ![p] = Len(aspace) + 1]
      /\ cpu' = [cpu EXCEPT ![c] = p]
      /\ tlb' = IF p_addrspace'[p] = 0 THEN tlb ELSE [tlb EXCEPT ![c] = NoTlb]
      /\ UNCHANGED <<firstpaddr, mem, fault, image, wasbad>>
  BY <1>1 DEF runprogram, Unused, as_create, New, as_activate
<1>3. p \in Procs
  BY <1>1, <1>2, VmAssumption DEF Fresh, Unused
<1>4. ASSUME NEW d \in Cpu, cpu[d] # NONE PROVE FALSE
  <2>1. cpu[d] \in Procs /\ Tlbs(d)
    BY <1>4 DEF IInv, TypeOK
  <2> QED
    BY <1>2, <1>4, <2>1 DEF Tlbs
<1>5. PICK a \in AddrSpace :
         a = Unfilled(0, 0, 0, 0) /\ a.pbase1 = 0 /\ a.pbase2 = 0 /\ a.stackpbase = 0
  <2>1. PICK a : a = Unfilled(0, 0, 0, 0)
    OBVIOUS
  <2>2. a \in AddrSpace /\ a.pbase1 = 0 /\ a.pbase2 = 0 /\ a.stackpbase = 0
    BY <2>1, SMT DEF AddrSpace, Unfilled
  <2> QED
    BY <2>1, <2>2
<1>6. /\ aspace' \in Seq(AddrSpace) /\ Len(aspace) \in Nat /\ Len(aspace') = Len(aspace) + 1
      /\ aspace'[Len(aspace) + 1] = a /\ Frames(a) = {} /\ Apart'
      /\ \A k \in 1..Len(aspace) : aspace'[k] = aspace[k]
  BY <1>2, <1>5, Made
<1>7. file \in Files /\ file # <<>>
  BY VmAssumption DEF Files
<1>8. p_addrspace[p] = 0 /\ fault[p] = NONE
  BY <1>2, <1>3 DEF IInv, Local, Owns
<1>9. /\ mode' \in [Procs -> Mode] /\ \A q \in Procs \ {p} : mode'[q] = mode[q]
      /\ mode'[p].at = "define" /\ mode'[p].call = "run" /\ mode'[p].file = file
      /\ mode'[p].into = Len(aspace) + 1 /\ mode'[p].old = 0 /\ mode'[p].next = 1
  BY <1>2, <1>3, <1>7, <1>8, CallsMode
<1>10. /\ p_addrspace' \in [Procs -> Nat] /\ p_addrspace'[p] = Len(aspace) + 1
       /\ \A q \in Procs \ {p} : p_addrspace'[q] = p_addrspace[q]
  BY <1>2, <1>3, <1>6, SMT DEF IInv, TypeOK
<1>11. Len(aspace) + 1 # 0 /\ Len(aspace) + 1 \notin 1..Len(aspace)
  BY <1>6, SMT
<1>12. /\ tlb' \in [Cpu -> [Slots -> Entry \cup {NONE}]] /\ tlb'[c] = NoTlb
       /\ \A d \in Cpu \ {c} : tlb'[d] = tlb[d]
  BY <1>2, <1>10, <1>11, SMT DEF IInv, TypeOK, NoTlb
<1>13. /\ Cpu' = Cpu /\ cpu' \in [Cpu -> Procs \cup {NONE}] /\ cpu'[c] = p
       /\ \A d \in Cpu : d # c => cpu'[d] = NONE
  BY <1>2, <1>3, <1>4 DEF IInv, TypeOK, Cpu
<1>14. TypeOK'
  BY <1>2, <1>6, <1>9, <1>10, <1>12, <1>13 DEF IInv, TypeOK
<1>15. \A q \in Procs \ {p} : Same(q)
  BY <1>2, <1>9, <1>10 DEF Same
<1>16. \A q \in Procs \ {p} : Kept(q)
  BY <1>2, <1>3, <1>6, OthersKept
<1>17. Claims'
  <2>1. Len(aspace) + 1 \in (Len(aspace) + 1)..Len(aspace') /\ Len(aspace') \in Nat
        /\ Len(aspace') >= Len(aspace)
    BY <1>6, SMT
  <2>2. Claim(p)' \subseteq {Len(aspace) + 1}
    BY <1>9, <1>10 DEF Claim
  <2> QED
    BY <1>3, <1>15, <2>1, <2>2, ClaimsKept
<1>18. OneEntry'
  BY <1>12, <1>13, SMT DEF IInv, OneEntry, NoTlb
<1>19. OneCpu'
  BY <1>13 DEF OneCpu
<1>20. Owns(p)' /\ Found(p)' /\ Loaded(p)' /\ Remembers(p)'
  BY <1>2, <1>7, <1>8, <1>9, <1>10, <1>11 DEF Owns, Found, Loaded, Remembers, Making
<1>21. Stage(p)'
  BY <1>5, <1>6, <1>9 DEF Stage
<1>22. \A q \in Procs : Local(q)'
  BY <1>15, <1>16, <1>20, <1>21, LocalKept DEF Local
<1>23. Tlbs(c)' /\ \A d \in Cpu : d # c => Tlbs(d)'
  <2>1. \A i \in Slots : tlb'[c][i] = NONE
    BY <1>12 DEF NoTlb
  <2> QED
    BY <1>9, <1>13, <2>1 DEF Tlbs
<1> QED
  BY <1>6, <1>13, <1>14, <1>17, <1>18, <1>19, <1>22, <1>23 DEF IInv

-----------------------------------------------------------------------------
(* fork.                                                                    *)

\* The child's pages are the parent's.
LEMMA SamePages ==
    ASSUME NEW old \in AddrSpace, NEW new \in AddrSpace, Ready(old), Ready(new),
           new.vbase1 = old.vbase1, new.npages1 = old.npages1,
           new.vbase2 = old.vbase2, new.npages2 = old.npages2
    PROVE  Pages(new) = Pages(old)
<1>1. ASSUME NEW v \in Nat PROVE Physical(new, v) # 0 <=> Physical(old, v) # 0
  BY SMT DEF Physical, Within, Ready, AddrSpace
<1>2. \A v \in 1..StackPage : v \in Nat
  BY VmAssumption, SMT
<1> QED
  BY <1>1, <1>2 DEF Pages

\* as_copy copies every page of the parent to the same place in the child.
LEMMA CopiedIs ==
    ASSUME NEW old \in AddrSpace, NEW new \in AddrSpace, Ready(old), Ready(new),
           new.vbase1 = old.vbase1, new.npages1 = old.npages1,
           new.vbase2 = old.vbase2, new.npages2 = old.npages2,
           Region(new.pbase1, new.npages1) \cap Region(new.pbase2, new.npages2) = {},
           Region(new.pbase1, new.npages1) \cap Region(new.stackpbase, 1) = {},
           Region(new.pbase2, new.npages2) \cap Region(new.stackpbase, 1) = {},
           NEW v \in Nat, Physical(old, v) # 0, Physical(new, v) \in 1..RamPages
    PROVE  AsCopied(old, new)[Physical(new, v)] = mem[Physical(old, v)]
<1>1. PICK f \in 1..RamPages : f = Physical(new, v)
  OBVIOUS
<1>2. AsCopied(old, new)[f] =
        IF f \in Region(new.pbase1, new.npages1) THEN mem[old.pbase1 + (f - new.pbase1)]
        ELSE IF f \in Region(new.pbase2, new.npages2) THEN mem[old.pbase2 + (f - new.pbase2)]
        ELSE IF f = new.stackpbase THEN mem[old.stackpbase]
        ELSE mem[f]
  BY <1>1 DEF AsCopied
<1>3. CASE Within(v, old.vbase1, old.npages1)
  <2>1. /\ f \in Region(new.pbase1, new.npages1)
        /\ old.pbase1 + (f - new.pbase1) = Physical(old, v)
    BY <1>1, <1>3, SMT DEF Physical, Within, Region, Ready, AddrSpace
  <2> QED
    BY <1>1, <1>2, <2>1
<1>4. CASE ~Within(v, old.vbase1, old.npages1) /\ Within(v, old.vbase2, old.npages2)
  <2>1. /\ f \in Region(new.pbase2, new.npages2)
        /\ old.pbase2 + (f - new.pbase2) = Physical(old, v)
    BY <1>1, <1>4, SMT DEF Physical, Within, Region, Ready, AddrSpace
  <2> QED
    BY <1>1, <1>2, <2>1
<1>5. CASE ~Within(v, old.vbase1, old.npages1) /\ ~Within(v, old.vbase2, old.npages2)
  <2>1. v = StackPage /\ Physical(old, v) = old.stackpbase /\ f = new.stackpbase
    BY <1>1, <1>5 DEF Physical
  <2>2. f \in Region(new.stackpbase, 1)
    BY <1>1, <2>1, SMT DEF Region, Ready
  <2> QED
    BY <1>1, <1>2, <2>1, <2>2
<1> QED
  BY <1>3, <1>4, <1>5

\* What fork has made, and what it may change.
LEMMA ForkReady ==
    ASSUME IInv, NEW c \in Cpu, NEW p, cpu[c] = p, ForkCopies(c)
    PROVE  /\ p \in Procs /\ p # NONE /\ mode[p].at = "zero" /\ mode[p].call = "fork"
           /\ fault[p] = NONE /\ p_addrspace[p] = mode[p].old /\ p_addrspace[p] # 0
           /\ mode[p].into # 0 /\ mode[p].into # p_addrspace[p] /\ Home(p) = p_addrspace[p]
           /\ mode[p].into \in Claim(p) /\ p_addrspace[p] \in Claim(p)
           /\ mode[p].into \in 1..Len(aspace) /\ p_addrspace[p] \in 1..Len(aspace)
           /\ Ready(aspace[mode[p].into]) /\ Ready(aspace[p_addrspace[p]])
           /\ Tlbs(c) /\ Stage(p)
           /\ \A f \in 1..RamPages : mem'[f] # mem[f] => f \in Frames(aspace[mode[p].into])
           /\ DOMAIN mem' = 1..RamPages /\ mem' = [f \in 1..RamPages |-> mem'[f]]
           /\ UNCHANGED <<firstpaddr, tlb, cpu, aspace, fault>>
<1>1. /\ p # NONE /\ mode[p].at = "zero" /\ mode[p].call = "fork"
      /\ mem' = AsCopied(aspace[p_addrspace[p]], aspace[mode[p].into])
      /\ UNCHANGED <<firstpaddr, tlb, cpu, aspace, fault>>
  BY DEF ForkCopies, Runs
<1>2. /\ p \in Procs /\ Owns(p) /\ Stage(p) /\ Tlbs(c) /\ fault[p] = NONE
      /\ mode[p].into # 0 /\ mode[p].into \in Claim(p) /\ mode[p].into \in 1..Len(aspace)
      /\ aspace[mode[p].into] \in AddrSpace
      /\ mode[p].old # mode[p].into /\ mode[p].old \in Claim(p)
      /\ mode[p].old \in 1..Len(aspace)
      /\ Home(p) = mode[p].old /\ Ready(aspace[mode[p].old])
  BY <1>1, Maker DEF Making
<1>3. p_addrspace[p] = mode[p].old /\ p_addrspace[p] # 0 /\ Ready(aspace[mode[p].into])
  BY <1>1, <1>2 DEF Owns, Stage, Ready
<1>4. PICK a \in AddrSpace : a = aspace[mode[p].into]
  BY <1>2
<1>5. ASSUME NEW f \in 1..RamPages, f \notin Frames(a) PROVE mem'[f] = mem[f]
  <2>1. f # a.stackpbase
    BY <1>3, <1>4, <1>5, SMT DEF Frames, Region, Ready, AddrSpace
  <2> QED
    BY <1>1, <1>4, <1>5, <2>1 DEF AsCopied, Frames
<1>6. DOMAIN mem' = 1..RamPages /\ mem' = [f \in 1..RamPages |-> mem'[f]]
  BY <1>1 DEF AsCopied
<1> QED
  BY <1>1, <1>2, <1>3, <1>4, <1>5, <1>6

\* The parent returns to its program.
LEMMA ParentReturns ==
    ASSUME IInv, NEW c \in Cpu, NEW p, cpu[c] = p, ForkCopies(c),
           mode'[p] = InUser, p_addrspace'[p] = p_addrspace[p], image'[p] = image[p],
           p \in wasbad' <=> p \in wasbad,
           \A q \in Procs \ {p} : Claim(q)' \subseteq Claim(q) \cup {mode[p].into}
    PROVE  Local(p)' /\ Tlbs(c)' /\ Claim(p)' = {p_addrspace[p]}
<1>1. /\ p \in Procs /\ p # NONE /\ mode[p].at = "zero" /\ mode[p].call = "fork"
      /\ fault[p] = NONE /\ p_addrspace[p] # 0
      /\ mode[p].into # p_addrspace[p] /\ Home(p) = p_addrspace[p]
      /\ mode[p].into \in 1..Len(aspace) /\ p_addrspace[p] \in 1..Len(aspace)
      /\ Ready(aspace[p_addrspace[p]]) /\ Tlbs(c)
      /\ \A f \in 1..RamPages : mem'[f] # mem[f] => f \in Frames(aspace[mode[p].into])
      /\ UNCHANGED <<firstpaddr, tlb, cpu, aspace, fault>>
  BY ForkReady
<1>2. /\ mode'[p].at = "user" /\ mode'[p].call = "none"
      /\ mode'[p].into = 0 /\ mode'[p].old = 0
  BY UserMode
<1>3. Owns(p)' /\ Found(p)' /\ Loaded(p)'
  BY <1>1, <1>2 DEF Owns, Found, Loaded, Making
<1>4. Stage(p)'
  BY <1>1, <1>2 DEF Stage
<1>5. Remembers(p)'
  <2>1. ASSUME NEW f \in Frames(aspace[Home(p)]) PROVE mem'[f] = mem[f]
    <3>1. f \in 1..(firstpaddr - 1) /\ f \notin Frames(aspace[mode[p].into])
      BY <1>1, <2>1 DEF IInv, Apart
    <3> QED
      BY <1>1, <3>1, InRam
  <2>2. Home(p)' = Home(p)
    BY <1>1, <1>2 DEF Home
  <2> QED
    BY <1>1, <2>1, <2>2, RemembersKept
<1>6. Tlbs(c)'
  <2>1. ASSUME NEW i \in Slots, tlb[c][i] # NONE PROVE Private(p, tlb[c][i][2])'
    <3>1. Private(p, tlb[c][i][2]) /\ tlb[c][i][2] \notin Frames(aspace[mode[p].into])
      BY <1>1, <2>1 DEF Tlbs, Private
    <3>2. ASSUME NEW q \in Procs \ {p}, NEW k \in Claim(q)'
          PROVE  tlb[c][i][2] \notin Frames(aspace[k])
      <4>1. k \in Claim(q) \/ k = mode[p].into
        OBVIOUS
      <4> QED
        BY <3>1, <4>1 DEF Private
    <3> QED
      BY <1>1, <1>2, <3>1, <3>2 DEF Private
  <2> QED
    BY <1>1, <1>2, <2>1 DEF Tlbs, Exact, Making
<1>7. Claim(p)' = {p_addrspace[p]}
  BY <1>1, <1>2 DEF Claim
<1> QED
  BY <1>3, <1>4, <1>5, <1>6, <1>7 DEF Local

\* as_copy copies the parent's three regions into the child's new pages.
LEMMA ForkCopiesInv ==
    ASSUME IInv, NEW c \in Cpu, NEW p, cpu[c] = p, ForkCopies(c)
    PROVE  IInv'
<1>1. /\ p \in Procs /\ p # NONE /\ mode[p].at = "zero" /\ mode[p].call = "fork"
      /\ fault[p] = NONE /\ p_addrspace[p] = mode[p].old /\ p_addrspace[p] # 0
      /\ mode[p].into # 0 /\ mode[p].into # p_addrspace[p] /\ Home(p) = p_addrspace[p]
      /\ mode[p].into \in Claim(p) /\ p_addrspace[p] \in Claim(p)
      /\ mode[p].into \in 1..Len(aspace) /\ p_addrspace[p] \in 1..Len(aspace)
      /\ Ready(aspace[mode[p].into]) /\ Ready(aspace[p_addrspace[p]])
      /\ Tlbs(c) /\ Stage(p)
      /\ \A f \in 1..RamPages : mem'[f] # mem[f] => f \in Frames(aspace[mode[p].into])
      /\ DOMAIN mem' = 1..RamPages /\ mem' = [f \in 1..RamPages |-> mem'[f]]
      /\ UNCHANGED <<firstpaddr, tlb, cpu, aspace, fault>>
  BY ForkReady
<1>2. \A q \in Procs \ {p} : Kept(q)
  BY <1>1, OthersKept
<1>3. OneEntry' /\ OneCpu' /\ Cpu' = Cpu
  <2>1. OneEntry' /\ Cpu' = Cpu
    BY <1>1 DEF IInv, OneEntry, Cpu
  <2>2. OneCpu'
    BY <1>1 DEF IInv, OneCpu, Cpu
  <2> QED
    BY <2>1, <2>2
<1>4. CASE mode' = [mode EXCEPT ![p] = InUser] /\ UNCHANGED <<p_addrspace, image, wasbad>>
  <2>1. mode' \in [Procs -> Mode] /\ mode'[p] = InUser /\ \A q \in Procs \ {p} : mode'[q] = mode[q]
    BY <1>1, <1>4, UserMode DEF IInv, TypeOK
  <2>2. TypeOK'
    BY <1>1, <1>4, <2>1 DEF IInv, TypeOK, Cpu
  <2>3. \A q \in Procs \ {p} : Same(q) /\ Claim(q)' = Claim(q)
    BY <1>1, <1>4, <2>1 DEF Same, Claim
  <2>4. Local(p)' /\ Tlbs(c)' /\ Claim(p)' = {p_addrspace[p]}
    <3>1. \A q \in Procs \ {p} : Claim(q)' \subseteq Claim(q) \cup {mode[p].into}
      BY <2>3
    <3>2. /\ p_addrspace'[p] = p_addrspace[p] /\ image'[p] = image[p]
          /\ (p \in wasbad' <=> p \in wasbad)
      BY <1>4
    <3> QED
      BY <2>1, <3>1, <3>2, ParentReturns
  <2>5. Claims' /\ Apart' /\ Grows(p)
    BY <1>1, <2>3, <2>4, MapKept
  <2> QED
    BY <1>1, <1>2, <1>3, <2>2, <2>3, <2>4, <2>5, StepInv
<1>5. ASSUME Unused # {}, NEW q, q = Fresh,
             p_addrspace' = [p_addrspace EXCEPT ![q] = mode[p].into],
             mode' = [mode EXCEPT ![p] = InUser, ![q] = InUser],
             image' = [image EXCEPT ![q] = image[p]],
             wasbad' = IF p \in wasbad THEN wasbad \cup {q} ELSE wasbad
      PROVE  IInv'
  <2>1. q \in Procs /\ mode[q].at = "absent" /\ q # p
    BY <1>1, <1>5 DEF Fresh, Unused
  <2>2. /\ mode' \in [Procs -> Mode] /\ mode'[p] = InUser /\ mode'[q] = InUser
        /\ \A r \in Procs \ {p, q} : mode'[r] = mode[r]
    <3>1. PICK m : m = [mode EXCEPT ![p] = InUser] /\ mode' = [m EXCEPT ![q] = InUser]
      BY <1>5
    <3>2. m \in [Procs -> Mode] /\ m[p] = InUser /\ \A r \in Procs \ {p} : m[r] = mode[r]
      BY <1>1, <3>1, UserMode DEF IInv, TypeOK
    <3> QED
      BY <1>1, <2>1, <3>1, <3>2, UserMode
  <2>3. /\ mode'[q].at = "user" /\ mode'[q].call = "none"
        /\ mode'[q].into = 0 /\ mode'[q].old = 0
    BY <2>2, UserMode
  <2>4. mode[p].into \in Nat
    BY <1>1, SMT
  <2>5. /\ p_addrspace' \in [Procs -> Nat] /\ p_addrspace'[q] = mode[p].into
        /\ \A r \in Procs \ {q} : p_addrspace'[r] = p_addrspace[r]
    BY <1>5, <2>1, <2>4 DEF IInv, TypeOK
  <2>6. /\ image' = [r \in Procs |-> image'[r]] /\ image'[q] = image[p]
        /\ \A r \in Procs \ {q} : image'[r] = image[r]
    BY <1>5, <2>1 DEF IInv, TypeOK
  <2>7. /\ wasbad' \subseteq Procs /\ (q \notin wasbad' => p \notin wasbad)
        /\ \A r \in Procs \ {q} : r \in wasbad' <=> r \in wasbad
    BY <1>5, <2>1 DEF IInv, TypeOK
  <2>8. TypeOK'
    BY <1>1, <2>2, <2>5, <2>6, <2>7 DEF IInv, TypeOK, Cpu
  <2>9. \A r \in Procs \ {p, q} : Same(r) /\ Claim(r)' = Claim(r)
    BY <1>1, <2>2, <2>5, <2>6, <2>7 DEF Same, Claim
  <2>10. Claim(q)' = {mode[p].into} /\ fault[q] = NONE
    <3>1. Owns(q)
      BY <2>1 DEF IInv, Local
    <3> QED
      BY <1>1, <2>1, <2>3, <2>5, <3>1 DEF Owns, Claim
  <2>11. Local(p)' /\ Tlbs(c)' /\ Claim(p)' = {p_addrspace[p]}
    <3>1. \A r \in Procs \ {p} : Claim(r)' \subseteq Claim(r) \cup {mode[p].into}
      BY <2>9, <2>10
    <3> QED
      BY <1>1, <2>1, <2>2, <2>5, <2>6, <2>7, <3>1, ParentReturns
  <2>12. Claims'
    <3>1. Claims
      BY DEF IInv
    <3>2. \A r \in Procs : Claim(r)' \subseteq 1..Len(aspace)
      BY <1>1, <2>9, <2>10, <2>11, <3>1 DEF Claims
    <3>3. ASSUME NEW r \in Procs \ {p, q} PROVE Claim(r)' \cap Claim(p) = {}
      BY <1>1, <2>9, <3>1 DEF Claims
    <3>4. \A r, s \in Procs \ {p, q} : r # s => Claim(r)' \cap Claim(s)' = {}
      BY <2>9, <3>1 DEF Claims
    <3>5. \A r \in Procs \ {p, q} : Claim(r)' \cap Claim(p)' = {} /\ Claim(r)' \cap Claim(q)' = {}
      <4> TAKE r \in Procs \ {p, q}
      <4>1. Claim(r)' \cap Claim(p) = {}
        BY <3>3
      <4>2. Claim(p)' \subseteq Claim(p) /\ Claim(q)' \subseteq Claim(p)
        BY <1>1, <2>10, <2>11
      <4> QED
        BY <4>1, <4>2
    <3>6. Claim(p)' \cap Claim(q)' = {}
      BY <1>1, <2>10, <2>11
    <3> QED
      BY <1>1, <3>2, <3>4, <3>5, <3>6 DEF Claims
  <2>13. Apart' /\ firstpaddr \in Nat
    BY <1>1 DEF IInv, Apart, TypeOK
  <2>14. Grows(p)
    <3>1. firstpaddr' \in Nat /\ firstpaddr' >= firstpaddr
      BY <1>1, <2>13, SMT
    <3>2. \A r \in Procs : \A k \in Claim(r)' : k \in Claim(r) \/ k \in Claim(p)
      BY <1>1, <2>9, <2>10, <2>11
    <3> QED
      BY <1>1, <3>1, <3>2 DEF Grows
  <2>15. Owns(q)' /\ Found(q)' /\ Loaded(q)'
    BY <1>1, <2>3, <2>5, <2>10 DEF Owns, Found, Loaded, Making
  <2>16. Stage(q)'
    BY <1>1, <2>3, <2>5 DEF Stage
  <2>17. Remembers(q)'
    <3> SUFFICES ASSUME p \notin wasbad PROVE Remembers(q)'
      BY <2>7 DEF Remembers
    <3>1. PICK old \in AddrSpace, new \in AddrSpace :
            old = aspace[p_addrspace[p]] /\ new = aspace[mode[p].into]
      BY <1>1, Claimed
    <3>2. /\ DOMAIN image[p] = Pages(old)
          /\ \A v \in DOMAIN image[p] : mem[Physical(old, v)] = image[p][v]
      <4>1. Remembers(p)
        BY <1>1, Running
      <4> QED
        BY <1>1, <3>1, <4>1 DEF Remembers
    <3>3. /\ Ready(old) /\ Ready(new)
          /\ new.vbase1 = old.vbase1 /\ new.npages1 = old.npages1
          /\ new.vbase2 = old.vbase2 /\ new.npages2 = old.npages2
      BY <1>1, <3>1 DEF Stage
    <3>4. Pages(new) = Pages(old)
      BY <3>3, SamePages
    <3>5. ASSUME NEW v \in Pages(old) PROVE mem'[Physical(new, v)] = mem[Physical(old, v)]
      <4>1. /\ Region(new.pbase1, new.npages1) \cap Region(new.pbase2, new.npages2) = {}
            /\ Region(new.pbase1, new.npages1) \cap Region(new.stackpbase, 1) = {}
            /\ Region(new.pbase2, new.npages2) \cap Region(new.stackpbase, 1) = {}
            /\ Frames(new) \subseteq 1..(firstpaddr - 1)
        BY <1>1, <3>1 DEF IInv, Apart
      <4>2. v \in Nat /\ Physical(old, v) # 0
        BY VmAssumption, SMT DEF Pages
      <4>3. Physical(new, v) \in Frames(new)
        BY <1>1, <3>1, <3>3, <3>4, PagesInFrames
      <4>4. Physical(new, v) \in 1..RamPages
        BY <4>1, <4>3, InRam
      <4>5. mem' = AsCopied(old, new)
        BY <3>1 DEF ForkCopies
      <4> QED
        BY <3>3, <4>1, <4>2, <4>4, <4>5, CopiedIs
    <3>6. Home(q)' = mode[p].into
      BY <2>3, <2>5 DEF Home
    <3> QED
      <4>1. aspace'[Home(q)'] = new
        BY <1>1, <3>1, <3>6
      <4>2. /\ DOMAIN image'[q] = Pages(new)
            /\ \A v \in DOMAIN image'[q] : mem'[Physical(new, v)] = image'[q][v]
        BY <2>6, <3>2, <3>4, <3>5
      <4> QED
        BY <4>1, <4>2 DEF Remembers
  <2>18. \A r \in Procs : Local(r)'
    BY <1>2, <2>9, <2>11, <2>15, <2>16, <2>17, LocalKept DEF Local
  <2>19. ASSUME NEW d \in Cpu, d # c PROVE Tlbs(d)'
    <3>1. cpu[d] # p /\ cpu'[d] = cpu[d] /\ tlb'[d] = tlb[d]
      BY <1>1, <2>19 DEF IInv, OneCpu
    <3>2. cpu[d] # NONE => cpu[d] \in Procs \ {p, q}
      BY <2>1, <2>19, <3>1, Running
    <3> QED
      BY <1>1, <1>2, <2>9, <2>14, <3>1, <3>2, TlbsKept
  <2> QED
    BY <1>3, <2>8, <2>11, <2>12, <2>13, <2>18, <2>19 DEF IInv
<1> QED
  BY <1>4, <1>5 DEF ForkCopies

-----------------------------------------------------------------------------
(* Every step, and what follows.                                            *)

\* IInv is inductive.
LEMMA NextInv ==
    ASSUME IInv, [VmNext]_vmVars
    PROVE  IInv'
<1>1. CASE VmNext
  <2>1. PICK c \in Cpu :
          \/ \E p \in Procs : Switch(c, p)
          \/ Idle(c)
          \/ \E v \in 1..StackPage : FaultTranslates(c, v) \/ \E x \in Values : UserWrite(c, v, x)
          \/ FaultLoads(c)
          \/ \E file \in Program : runprogram(c, file) \/ Execv(c, file)
          \/ Fork(c) \/ Define(c)
          \/ \E where \in DOMAIN Following : PrepareLoad(c, where)
          \/ ZeroForLoad(c) \/ ForkCopies(c) \/ LoadPage(c) \/ LoadFails(c)
          \/ EnterNewProcess(c) \/ Exit(c)
    BY <1>1 DEF VmNext
  <2>2. PICK q : cpu[c] = q
    OBVIOUS
  <2>3. ASSUME NEW p \in Procs, Switch(c, p) PROVE IInv'
    BY <2>3, SwitchInv
  <2>4. CASE Idle(c)
    BY <2>4, IdleInv
  <2>5. ASSUME NEW v \in 1..StackPage, FaultTranslates(c, v) PROVE IInv'
    BY <2>2, <2>5, FaultTranslatesInv
  <2>6. ASSUME NEW v \in 1..StackPage, NEW x \in Values, UserWrite(c, v, x) PROVE IInv'
    BY <2>2, <2>6, UserWriteInv
  <2>7. CASE FaultLoads(c)
    BY <2>2, <2>7, FaultLoadsInv
  <2>8. ASSUME NEW file \in Program, runprogram(c, file) PROVE IInv'
    BY <2>8, RunProgramInv
  <2>9. ASSUME NEW file \in Program, Execv(c, file) PROVE IInv'
    BY <2>2, <2>9, ExecvInv
  <2>10. CASE Fork(c)
    BY <2>2, <2>10, ForkInv
  <2>11. CASE Define(c)
    BY <2>2, <2>11, DefineInv
  <2>12. ASSUME NEW where \in DOMAIN Following, PrepareLoad(c, where) PROVE IInv'
    BY <2>2, <2>12, PrepareLoadInv
  <2>13. CASE ZeroForLoad(c)
    BY <2>2, <2>13, ZeroForLoadInv
  <2>14. CASE ForkCopies(c)
    BY <2>2, <2>14, ForkCopiesInv
  <2>15. CASE LoadPage(c)
    BY <2>2, <2>15, LoadPageInv
  <2>16. CASE LoadFails(c)
    BY <2>2, <2>16, LoadFailsInv
  <2>17. CASE EnterNewProcess(c)
    BY <2>2, <2>17, EnterNewProcessInv
  <2>18. CASE Exit(c)
    BY <2>2, <2>18, ExitInv
  <2> QED
    BY <2>1, <2>3, <2>4, <2>5, <2>6, <2>7, <2>8, <2>9, <2>10, <2>11, <2>12, <2>13, <2>14,
       <2>15, <2>16, <2>17, <2>18
<1>2. CASE UNCHANGED vmVars
  <2>1. UNCHANGED <<firstpaddr, mem, tlb, cpu, aspace, p_addrspace, mode, fault, image, wasbad>>
    BY <1>2 DEF vmVars
  <2>2. TypeOK' /\ OneEntry' /\ OneCpu' /\ Cpu' = Cpu
    <3>1. TypeOK' /\ Cpu' = Cpu
      BY <2>1 DEF IInv, TypeOK, Cpu
    <3>2. OneEntry'
      BY <2>1 DEF IInv, OneEntry, Cpu
    <3>3. OneCpu'
      BY <2>1 DEF IInv, OneCpu, Cpu
    <3> QED
      BY <3>1, <3>2, <3>3
  <2>3. \A q \in Procs : Same(q) /\ Kept(q) /\ Claim(q)' = Claim(q)
    BY <2>1 DEF Same, Kept, Claim
  <2>4. Claims' /\ Apart'
    BY <2>1, <2>3, MapKept
  <2>5. \A q \in Procs : Local(q)'
    BY <2>3, LocalKept
  <2>6. \A c \in Cpu : Tlbs(c)'
    <3> TAKE c \in Cpu
    <3>1. Tlbs(c)
      BY DEF IInv
    <3>2. \A f : Private(cpu[c], f) => Private(cpu[c], f)'
      BY <2>1, <2>3, PrivateStays, SMT DEF Private
    <3> QED
      BY <2>1, <3>1, <3>2, SMT DEF Tlbs, Exact
  <2> QED
    BY <2>2, <2>4, <2>5, <2>6 DEF IInv
<1> QED
  BY <1>1, <1>2

\* What the invariant says of the memory of a process that runs its program.
LEMMA InvOwn == IInv => MemoryOwn
<1> SUFFICES ASSUME IInv PROVE MemoryOwn
  OBVIOUS
<1>1. ASSUME NEW q \in Alive
      PROVE  q \in Procs /\ p_addrspace[q] \in Claim(q) /\ p_addrspace[q] \in 1..Len(aspace)
  BY <1>1, Claimed DEF Alive, Claim
<1>2. Isolated
  <2> SUFFICES ASSUME NEW c \in Cpu, NEW q \in Alive \ {cpu[c]}, cpu[c] # NONE, NEW i \in Slots,
                      tlb[c][i] # NONE
               PROVE  tlb[c][i][2] \notin Frames(Space(q))
    BY DEF Isolated, Reaches
  <2>1. PICK p : p = cpu[c]
    OBVIOUS
  <2>2. Tlbs(c)
    BY DEF IInv
  <2>3. Private(p, tlb[c][i][2])
    BY <2>1, <2>2 DEF Tlbs
  <2> QED
    BY <1>1, <2>1, <2>3 DEF Private, Space
<1>3. FramesApart
  <2> SUFFICES ASSUME NEW p \in Alive, NEW q \in Alive
               PROVE  /\ p # q => Frames(Space(p)) \cap Frames(Space(q)) = {}
                      /\ mode[p].at = "user" =>
                            \A v, w \in Pages(Space(p)) :
                                Physical(Space(p), v) = Physical(Space(p), w) => v = w
    BY DEF FramesApart
  <2>1. ASSUME p # q PROVE Frames(Space(p)) \cap Frames(Space(q)) = {}
    <3>1. p_addrspace[p] # p_addrspace[q]
      BY <1>1, <2>1 DEF IInv, Claims
    <3> QED
      BY <1>1, <3>1 DEF IInv, Apart, Space
  <2>2. ASSUME mode[p].at = "user", NEW v \in Pages(Space(p)), NEW w \in Pages(Space(p)),
               Physical(Space(p), v) = Physical(Space(p), w)
        PROVE  v = w
    BY <1>1, <2>2, LoadReady, PagesApart DEF Space
  <2> QED
    BY <2>1, <2>2
<1>4. OneEntry
  BY DEF IInv
<1>5. FindsItsMemory
  <2> SUFFICES ASSUME NEW c \in Cpu, NEW p \in Procs, cpu[c] = p, mode[p].at = "user",
                      p \notin wasbad, NEW v \in DOMAIN image[p]
               PROVE  Contents(c, p, v) = {image[p][v]}
    BY DEF FindsItsMemory, Runs, Finds
  <2>1. p # NONE /\ Owns(p) /\ Remembers(p) /\ Tlbs(c)
    BY VmAssumption DEF IInv, Local
  <2>2. mode[p].call = "none" /\ Home(p) = p_addrspace[p]
    BY <2>1 DEF Owns, Home, Making
  <2>3. mem[Physical(Space(p), v)] = image[p][v]
    BY <2>1, <2>2 DEF Remembers, Space
  <2>4. ASSUME NEW f \in Hits(c, v) PROVE f = Physical(Space(p), v)
    <3>1. PICK i \in Slots : tlb[c][i] # NONE /\ tlb[c][i][1] = v /\ tlb[c][i][2] = f
      BY DEF Hits
    <3> QED
      BY <2>1, <3>1 DEF Tlbs, Exact, Space
  <2> QED
    BY <2>3, <2>4 DEF Contents
<1> QED
  BY <1>2, <1>3, <1>4, <1>5 DEF MemoryOwn

\* Memory is each process's own, whatever the processors, the faults, fork,
\* execv and exit do: a program reaches no page of another one, physical pages
\* belong to one address space and one place in it, no page has two entries in
\* a TLB, and a program finds in its memory what it should.
THEOREM MemoryIsOwn == VmSpec => []MemoryOwn
<1>1. VmInit => IInv
  BY InitInv
<1>2. IInv /\ [VmNext]_vmVars => IInv'
  BY NextInv
<1>3. IInv => MemoryOwn
  BY InvOwn
<1> QED
  BY <1>1, <1>2, <1>3, PTL DEF VmSpec

============================================================================
