------------------------- MODULE FileTable_refines -------------------------
(***************************************************************************)
(* The system calls of FileTable implement the handles of FileHandles, but *)
(* for execv: the initial state maps to an initial state, every step to a  *)
(* step of the handle specification, to no step at all, or to the one in   *)
(* which execv drops the handles of its process.                           *)
(***************************************************************************)
EXTENDS FileTable_proofs

\* Most leaves are first-order; the others ask for SMT.
USE Zenon

----------------------------------------------------------------------------
(* The mapping *)

\* What a descriptor is seen to lead to is an open slot or nothing.
LEMMA SeenType ==
    ASSUME IInv, NEW p \in Proc, NEW f \in FD
    PROVE  /\ Seen(p, f) \in Slot \cup {FILE_CLOSED}
           /\ Seen(p, f) \in Slot => openfiles[Seen(p, f)] # NULL
<1>1. \A g \in FD : /\ fd_t[p][g] \in Slot \cup {FILE_CLOSED}
                    /\ fd_t[p][g] \in Slot => openfiles[fd_t[p][g]] # NULL
  BY Dangling DEF IInv, TypeOK, NoDangling
<1>2. CASE sys[p].op = "dup2set"
  <2>1. sys[p].old \in FD
    BY <1>2 DEF IInv, Shape, Dup2Shape
  <2> QED
    BY <1>1, <1>2, <2>1 DEF Seen, Entry
<1>3. CASE sys[p].op # "dup2set"
  <2>1. FILE_CLOSED \notin Slot
    BY SMT DEF FILE_CLOSED, Slot
  <2> QED
    BY <1>1, <1>3, <2>1 DEF Seen, Entry
<1> QED
  BY <1>2, <1>3

\* The table of handles.
LEMMA TableIs ==
    /\ \A p \in Proc, f \in FD : Table[p][f] = Seen(p, f)
    /\ IInv => Table \in [Proc -> [FD -> Slot \cup {FILE_CLOSED}]]
  BY SeenType DEF Table

\* The same, in the next state.
LEMMA TableNext ==
    \A p \in Proc, f \in FD : Table'[p][f] = Seen(p, f)'
  BY DEF Table

\* A slot that is reached is not empty, so its position is the open file's.
PositionReached ==
    /\ Position = [s \in Slot |-> IF Reached(s) THEN openfiles[s].os ELSE 0]
    /\ \A s \in Slot : Reached(s) => openfiles[s] # NULL

\* The positions of the handles.
LEMMA PositionIs == IInv => PositionReached
<1> SUFFICES ASSUME IInv PROVE PositionReached
  OBVIOUS
<1>1. \A s \in Slot : Reached(s) => openfiles[s] # NULL
  BY SeenType DEF Reached
<1> QED
  BY <1>1 DEF Position, PositionReached

\* The same, in the next state.
LEMMA PositionNext == IInv' => PositionReached'
  BY PositionIs, PTL

\* A handle is reached when a descriptor leads to it.
LEMMA LeadsIs ==
    ASSUME NEW s
    PROVE  /\ Handles!Leads(Table, s) <=> Reached(s)
           /\ Handles!Leads(Table', s) <=> Reached(s)'
<1>1. Handles!Leads(Table, s) <=> Reached(s)
  BY TableIs DEF Handles!Leads, Reached
<1>2. Handles!Leads(Table', s) <=> Reached(s)'
  BY TableNext DEF Handles!Leads, Reached
<1> QED
  BY <1>1, <1>2

\* What the handles of process c become, when those of the others stay.
LEMMA RowStep ==
    ASSUME IInv, IInv', NEW c \in Proc, NEW row,
           \A q \in Proc, f \in FD : q # c => Seen(q, f)' = Seen(q, f),
           row = [f \in FD |-> row[f]], \A f \in FD : Seen(c, f)' = row[f]
    PROVE  Table' = [Table EXCEPT ![c] = row]
<1>1. \A q \in Proc : q # c => Table'[q] = Table[q]
  BY DEF Table
<1>2. Table'[c] = row
  BY DEF Table
<1>3. Table = [q \in Proc |-> Table[q]] /\ Table' = [q \in Proc |-> Table'[q]]
  BY DEF Table
<1> QED
  BY <1>1, <1>2, <1>3

\* The positions after a step that moves no handle.
LEMMA SettleStep ==
    ASSUME IInv, IInv', NEW q,
           \A s \in Slot : Reached(s)' => openfiles'[s].os = q[s]
    PROVE  Handles!Settle(Table', q)
<1>1. Position' = [s \in Slot |-> IF Reached(s)' THEN openfiles'[s].os ELSE 0]
  BY PositionNext DEF PositionReached
<1>2. \A s \in Slot : Handles!Leads(Table', s) <=> Reached(s)'
  BY LeadsIs
<1> QED
  BY <1>1, <1>2 DEF Handles!Settle

\* A step that changes the table of one process.
LEMMA UpdateStep ==
    ASSUME IInv, IInv', NEW c \in Proc, NEW row,
           \A q \in Proc, f \in FD : q # c => Seen(q, f)' = Seen(q, f),
           row = [f \in FD |-> row[f]], \A f \in FD : Seen(c, f)' = row[f],
           \A s \in Slot : Reached(s)' => Reached(s) /\ openfiles'[s].os = openfiles[s].os
    PROVE  Handles!Update(c, row)
<1>1. Table' = [Table EXCEPT ![c] = row]
  BY RowStep
<1>2. \A s \in Slot : Reached(s)' => openfiles'[s].os = Position[s]
  BY PositionIs DEF PositionReached
<1>3. Handles!Settle(Table', Position)
  BY <1>2, SettleStep
<1> QED
  BY <1>1, <1>3 DEF Handles!Update

\* A step that programs cannot see.
LEMMA StutterStep ==
    ASSUME IInv, IInv', \A q \in Proc, f \in FD : Seen(q, f)' = Seen(q, f),
           \A s \in Slot : openfiles[s] # NULL /\ openfiles'[s] # NULL =>
                               openfiles'[s].os = openfiles[s].os
    PROVE  UNCHANGED Handles!vars
<1>1. Table' = Table
  BY DEF Table
<1>2. \A s \in Slot : Reached(s)' <=> Reached(s)
  BY DEF Reached
<1>3. Position' = Position
  BY <1>2, PositionIs, PositionNext DEF PositionReached
<1> QED
  BY <1>1, <1>3 DEF Handles!vars

\* A step that moves the position of slot s, which f of p leads to.
LEMMA MoveStep ==
    ASSUME IInv, IInv', NEW p \in Proc, NEW f \in FD, NEW s \in Slot, Seen(p, f) = s,
           \A q \in Proc, g \in FD : Seen(q, g)' = Seen(q, g),
           NEW o \in 0 .. MaxOff, openfiles' = [openfiles EXCEPT ![s].os = o]
    PROVE  Handles!Move(p)
<1>1. Table' = Table
  BY DEF Table
<1>2. \A u \in Slot : Reached(u)' <=> Reached(u)
  BY DEF Reached
<1>3. Reached(s) /\ openfiles[s] # NULL
  BY PositionIs DEF Reached, PositionReached
<1>4. openfiles'[s].os = o /\ \A u \in Slot : u # s => openfiles'[u] = openfiles[u]
  BY <1>3, SMT DEF IInv, TypeOK, OpenFile
<1>5. Position' = [Position EXCEPT ![s] = o]
  BY <1>2, <1>3, <1>4, PositionIs, PositionNext, SMT DEF PositionReached
<1>6. Table[p][f] = s /\ s # FILE_CLOSED
  BY TableIs, SMT DEF Slot, FILE_CLOSED
<1> QED
  BY <1>1, <1>5, <1>6 DEF Handles!Move

----------------------------------------------------------------------------
(* The steps *)

\* Nothing about a process changes.
LEMMA SeenSame ==
    ASSUME NEW q \in Proc, sys'[q] = sys[q], fd_t'[q] = fd_t[q], NEW f \in FD
    PROVE  Seen(q, f)' = Seen(q, f)
  BY DEF Seen, Entry

\* A process goes on in its call, begins or ends one, and its table stays.
LEMMA QuietStep ==
    ASSUME IInv, IInv', NEW p \in Proc, NEW r, sys' = [sys EXCEPT ![p] = r],
           sys[p].op \notin {"embryo", "dup2set"}, r.op \notin {"embryo", "dup2set"},
           UNCHANGED fd_t,
           \A s \in Slot : openfiles[s] # NULL /\ openfiles'[s] # NULL =>
                               openfiles'[s].os = openfiles[s].os
    PROVE  UNCHANGED Handles!vars
<1>1. sys'[p] = r /\ \A q \in Proc : q # p => sys'[q] = sys[q]
  BY DEF IInv, TypeOK
<1>2. ASSUME NEW q \in Proc, NEW f \in FD PROVE Seen(q, f)' = Seen(q, f)
  BY <1>1, SMT DEF Seen, Entry
<1> QED
  BY <1>2, StutterStep

\* The calls that are refused, begin, or end in a panic, and their invisible steps.
LEMMA InvisibleSteps ==
    ASSUME IInv, IInv', NEW p \in Proc,
           \/ Call(p) \/ OpenVnode(p) \/ IoBegin(p)
           \/ IoBad(p) \/ CloseBad(p) \/ Dup2Trivial(p) \/ LseekBad(p)
           \/ ForkFails(p) \/ ExecvRefused(p) \/ Load(p) \/ ExitDone(p)
    PROVE  UNCHANGED Handles!vars
<1>1. UNCHANGED <<openfiles, fd_t>>
  BY DEF Call, OpenVnode, IoBegin, IoBad, CloseBad, Dup2Trivial, LseekBad, ForkFails,
     ExecvRefused, Load, ExitDone
<1>2. sys[p].op \notin {"embryo", "dup2set"}
  <2>1. User.op = "user"
    BY DEF User
  <2> QED
    BY <2>1 DEF Call, OpenVnode, IoBegin, IoBad, CloseBad, Dup2Trivial, LseekBad, ForkFails,
       ExecvRefused, Load, ExitDone, In
<1>3. \E r : sys' = [sys EXCEPT ![p] = r] /\ r.op \notin {"embryo", "dup2set"}
  <2>1. User.op = "user" /\ None.op = "none"
    BY DEF User, None
  <2>2. CASE Call(p)
    BY <2>2, RequestSys DEF Call, Goto
  <2>3. CASE OpenVnode(p)
    <3>1. sys[p].op = "open" /\ sys[p] \in Sys
      BY <2>3 DEF OpenVnode, IInv, TypeOK
    <3>2. [sys[p] EXCEPT !.op = "install"].op = "install"
      BY <3>1, SysFields
    <3> QED
      BY <2>3, <3>2 DEF OpenVnode, Goto
  <2>4. CASE IoBegin(p)
    <3>1. PICK s : sys' = [sys EXCEPT ![p] = [op |-> "io", slot |-> s]]
      BY <2>4 DEF IoBegin, Goto
    <3>2. [op |-> "io", slot |-> s].op = "io"
      OBVIOUS
    <3> QED
      BY <3>1, <3>2
  <2>5. CASE \/ IoBad(p) \/ CloseBad(p) \/ Dup2Trivial(p) \/ LseekBad(p)
             \/ ForkFails(p) \/ ExecvRefused(p) \/ Load(p) \/ ExitDone(p)
    BY <2>1, <2>5 DEF IoBad, CloseBad, Dup2Trivial, LseekBad, ForkFails,
       ExecvRefused, Load, ExitDone, Return, Goto
  <2> QED
    BY <2>2, <2>3, <2>4, <2>5
<1> QED
  BY <1>1, <1>2, <1>3, QuietStep

\* The kernel stops.
LEMMA CrashStep ==
    ASSUME IInv, IInv', UNCHANGED <<openfiles, fd_t, sys>>
    PROVE  UNCHANGED Handles!vars
  BY StutterStep, SeenSame

\* The menu starts a program in a process that had no table.
LEMMA RunProgramStep ==
    ASSUME IInv, IInv', NEW p \in Proc, RunProgram(p) PROVE UNCHANGED Handles!vars
<1> DEFINE r == StdOpen(1, "run")
<1>1. r.op = "open"
  BY DEF StdOpen
<1> HIDE DEF r
<1>2. sys[p].op = "none" /\ sys' = [sys EXCEPT ![p] = r] /\ UNCHANGED openfiles
  BY SMT DEF RunProgram, Goto, None, r
<1>3. fd_t' = fd_t
  <2>1. fd_t[p] \in [FD -> Slot \cup {FILE_CLOSED}] /\ \A f \in FD : fd_t[p][f] = FILE_CLOSED
    BY <1>2 DEF IInv, Shape, ClosedShape, TypeOK
  <2>2. fd_t[p] = Closed
    BY <2>1 DEF Closed
  <2> QED
    BY <2>2 DEF RunProgram, IInv, TypeOK
<1> QED
  BY <1>1, <1>2, <1>3, QuietStep

\* What a process that holds a table outright is seen to have.
LEMMA SeenEntry ==
    ASSUME NEW p \in Proc, NEW f \in FD
    PROVE  /\ sys[p].op \notin {"embryo", "dup2set"} => Seen(p, f) = fd_t[p][f]
           /\ sys'[p].op \notin {"embryo", "dup2set"} => Seen(p, f)' = fd_t'[p][f]
           /\ sys[p].op = "embryo" => Seen(p, f) = FILE_CLOSED
           /\ sys'[p].op = "embryo" => Seen(p, f)' = FILE_CLOSED
  BY DEF Seen, Entry

\* What an update may reach, when the new row has no handle that nobody had.
LEMMA ReachedBefore ==
    ASSUME NEW c \in Proc, NEW s \in Slot, Reached(s)',
           \A q \in Proc, f \in FD : q # c => Seen(q, f)' = Seen(q, f),
           \A f \in FD : \/ Seen(c, f)' = FILE_CLOSED
                         \/ \E q \in Proc, g \in FD : Seen(c, f)' = Seen(q, g)
    PROVE  Reached(s)
<1>1. FILE_CLOSED # s
  BY SMT DEF FILE_CLOSED, Slot
<1>2. PICK q \in Proc, f \in FD : Seen(q, f)' = s
  BY DEF Reached
<1>3. CASE q = c
  BY <1>1, <1>2, <1>3, SMT DEF Reached
<1>4. CASE q # c
  BY <1>2, <1>4 DEF Reached
<1> QED
  BY <1>3, <1>4

\* An open fails: its caller's table stays as it is, even where it has been freed.
LEMMA OpenErrorStep ==
    ASSUME IInv, IInv', NEW p \in Proc, OpenVnodeFails(p) \/ InstallFails(p)
    PROVE  UNCHANGED Handles!vars
<1>1. OpenError(p) /\ UNCHANGED openfiles /\ sys[p].op \in {"open", "install"}
  BY DEF OpenVnodeFails, InstallFails, In
<1>2. User.op = "user" /\ sys' = [sys EXCEPT ![p] = User] /\ UNCHANGED fd_t
  BY <1>1 DEF User, OpenError, Return, Goto
<1> QED
  BY <1>1, <1>2, QuietStep

\* execv drops the old table.
LEMMA ExecvInitStep ==
    ASSUME IInv, IInv', NEW p \in Proc, ExecvInit(p) PROVE Handles!Update(p, Closed)
<1> DEFINE r == StdOpen(1, "exec")
<1>0. r.op = "open"
  BY DEF StdOpen
<1> HIDE DEF r
<1>1. sys' = [sys EXCEPT ![p] = r] /\ LoseTable(p) /\ UNCHANGED openfiles
  BY DEF ExecvInit, Goto, r
<1>2. sys'[p].op = "open" /\ \A q \in Proc : q # p => sys'[q] = sys[q]
  BY <1>0, <1>1 DEF IInv, TypeOK
<1>3. \A f \in FD : fd_t'[p][f] = FILE_CLOSED
  BY <1>1 DEF LoseTable, Closed, IInv, TypeOK
<1>4. \A f \in FD : Seen(p, f)' = FILE_CLOSED
  BY <1>2, <1>3, SeenEntry
<1>5. \A q \in Proc, f \in FD : q # p => Seen(q, f)' = Seen(q, f)
  BY <1>1, <1>2, SeenSame DEF LoseTable, IInv, TypeOK
<1>6. \A s \in Slot : Reached(s)' => Reached(s) /\ openfiles'[s].os = openfiles[s].os
  BY <1>1, <1>4, <1>5, ReachedBefore
<1>7. Closed = [f \in FD |-> Closed[f]] /\ \A f \in FD : Seen(p, f)' = Closed[f]
  BY <1>4 DEF Closed
<1> QED
  BY <1>5, <1>6, <1>7, UpdateStep

\* An open succeeds: the lowest closed descriptor leads to a handle of its own.
LEMMA InstallStep ==
    ASSUME IInv, IInv', NEW p \in Proc, Install(p) PROVE Handles!Open(p)
<1>1. PICK f \in FD, s \in Slot :
          /\ IsLowest(f, FreeFds(p)) /\ IsLowest(s, FreeSlots)
          /\ fd_t' = [fd_t EXCEPT ![p][f] = s]
          /\ openfiles' = [openfiles EXCEPT ![s] =
                 [vn |-> sys[p].vn, am |-> sys[p].am, rc |-> 1, os |-> 0]]
  BY DEF Install
<1>2. sys[p].op = "install"
  BY DEF Install, In
<1>3. sys'[p].op \notin {"embryo", "dup2set"} /\ \A q \in Proc : q # p => sys'[q] = sys[q]
  <2> DEFINE r == CASE sys[p].by = "open" -> User
                    [] sys[p].by # "open" /\ sys[p].std < 3
                           -> StdOpen(sys[p].std + 1, sys[p].by)
                    [] OTHER -> [op |-> "load", by |-> sys[p].by]
  <2>1. r.op \in {"user", "open", "load"}
    BY DEF User, StdOpen
  <2>2. sys' = [sys EXCEPT ![p] = r]
    BY DEF Install, Goto
  <2> HIDE DEF r
  <2> QED
    BY <2>1, <2>2 DEF IInv, TypeOK
<1>4. openfiles[s] = NULL /\ fd_t[p][f] = FILE_CLOSED
  BY <1>1 DEF IsLowest, FreeFds, FreeSlots
<1>5. openfiles'[s].os = 0 /\ \A u \in Slot : u # s => openfiles'[u] = openfiles[u]
  BY <1>1 DEF IInv, TypeOK
<1>6. \A q \in Proc, g \in FD :
          fd_t'[q][g] = IF q = p /\ g = f THEN s ELSE fd_t[q][g]
  BY <1>1 DEF IInv, TypeOK
<1>7. \A q \in Proc : q # p => fd_t'[q] = fd_t[q]
  BY <1>1 DEF IInv, TypeOK
<1>8. \A g \in FD : Seen(p, g) = fd_t[p][g] /\ Seen(p, g)' = fd_t'[p][g]
  BY <1>2, <1>3, SeenEntry
<1>9. \A q \in Proc, g \in FD : q # p => Seen(q, g)' = Seen(q, g)
  BY <1>3, <1>7, SeenSame
<1>10. ~Reached(s)
  BY <1>4, PositionIs DEF PositionReached
<1>11. Table[p][f] = FILE_CLOSED /\ \A g \in FD : g < f => Table[p][g] # FILE_CLOSED
  <2>1. \A g \in FD : Table[p][g] = fd_t[p][g]
    BY <1>8, TableIs
  <2>2. \A g \in FD : g < f => fd_t[p][g] # FILE_CLOSED
    BY <1>1, SMT DEF IsLowest, FreeFds, FD
  <2> QED
    BY <1>4, <2>1, <2>2
<1>12. Table' = [Table EXCEPT ![p][f] = s]
  <2> DEFINE row == [Table[p] EXCEPT ![f] = s]
  <2>1. row = [g \in FD |-> row[g]] /\ \A g \in FD : Seen(p, g)' = row[g]
    BY <1>6, <1>8, TableIs
  <2>2. Table' = [Table EXCEPT ![p] = row]
    <3> HIDE DEF row
    <3> QED
      BY <1>9, <2>1, RowStep
  <2> QED
    BY <2>2
<1>13. Handles!Settle(Table', [Position EXCEPT ![s] = 0])
  <2> DEFINE q == [Position EXCEPT ![s] = 0]
  <2>1. \A u \in Slot : Reached(u)' => openfiles'[u].os = q[u]
    <3> SUFFICES ASSUME NEW u \in Slot, Reached(u)' PROVE openfiles'[u].os = q[u]
      OBVIOUS
    <3>1. Position = [t \in Slot |-> IF Reached(t) THEN openfiles[t].os ELSE 0]
      BY PositionIs DEF PositionReached
    <3>2. CASE u = s
      BY <1>5, <3>1, <3>2
    <3>3. CASE u # s
      <4>1. PICK x \in Proc, g \in FD : Seen(x, g)' = u
        BY DEF Reached
      <4>2. Seen(x, g) = u
        BY <1>6, <1>8, <1>9, <3>3, <4>1
      <4>3. Reached(u)
        BY <4>2 DEF Reached
      <4> QED
        BY <1>5, <3>1, <3>3, <4>3
    <3> QED
      BY <3>2, <3>3
  <2> HIDE DEF q
  <2>2. Handles!Settle(Table', q)
    BY <2>1, SettleStep
  <2> QED
    BY <2>2 DEF q
<1>14. ~Handles!Leads(Table, s)
  BY <1>10, LeadsIs
<1> QED
  BY <1>11, <1>12, <1>13, <1>14 DEF Handles!Open

\* file_close.
LEMMA FileCloseStep ==
    ASSUME IInv, IInv', NEW p \in Proc, NEW f \in FD, NEW s \in Slot, fd_t[p][f] = s,
           FileClose(p, f), sys[p].op \notin {"embryo", "dup2set"},
           sys'[p].op \notin {"embryo", "dup2set"},
           \A q \in Proc : q # p => sys'[q] = sys[q]
    PROVE  Handles!Close(p)
<1>1. openfiles[s] \in OpenFile /\ openfiles[s] # NULL /\ openfiles[s].rc \in Nat \ {0}
  BY OpenFileThere DEF IInv
<1>2. fd_t' = [fd_t EXCEPT ![p][f] = FILE_CLOSED] /\ openfiles' = Dropped(openfiles, s)
  BY <1>1 DEF FileClose
<1>3. /\ \A g \in FD : fd_t'[p][g] = IF g = f THEN FILE_CLOSED ELSE fd_t[p][g]
      /\ \A q \in Proc : q # p => fd_t'[q] = fd_t[q]
  BY <1>2 DEF IInv, TypeOK
<1>4. \A u \in Slot : openfiles'[u] # NULL => openfiles'[u].os = openfiles[u].os
  <2>1. openfiles \in [Slot -> OpenFile \cup {NULL}]
    BY DEF IInv, TypeOK
  <2>2. /\ \A u \in Slot : u # s => openfiles'[u] = openfiles[u]
        /\ openfiles[s].rc = 1 => openfiles'[s] = NULL
        /\ openfiles[s].rc # 1 => openfiles'[s].os = openfiles[s].os
    BY <1>1, <1>2, <2>1, DroppedSlot, SMT
  <2> QED
    BY <2>2
<1>5. \A g \in FD : Seen(p, g) = fd_t[p][g] /\ Seen(p, g)' = fd_t'[p][g]
  BY SeenEntry
<1>6. \A q \in Proc, g \in FD : q # p => Seen(q, g)' = Seen(q, g)
  BY <1>3, SeenSame
<1>7. \A u \in Slot : Reached(u)' => Reached(u)
  BY <1>3, <1>5, <1>6, ReachedBefore, SMT
<1>8. \A u \in Slot : Reached(u)' => Reached(u) /\ openfiles'[u].os = openfiles[u].os
  BY <1>4, <1>7, PositionNext DEF PositionReached
<1> DEFINE row == [Table[p] EXCEPT ![f] = FILE_CLOSED]
<1>9. row = [g \in FD |-> row[g]] /\ \A g \in FD : Seen(p, g)' = row[g]
  BY <1>3, <1>5, TableIs
<1> HIDE DEF row
<1>10. Handles!Update(p, row)
  BY <1>6, <1>8, <1>9, UpdateStep, SMT
<1> QED
  BY <1>10 DEF Handles!Close, row

\* sys_close, and one turn of file_table_destroy.
LEMMA CloseSteps ==
    ASSUME IInv, IInv', NEW p \in Proc, Close(p) \/ ExitClose(p) PROVE Handles!Close(p)
<1>1. CASE Close(p)
  <2>1. /\ sys[p].op = "close" /\ sys[p].fd \in FD /\ fd_t[p][sys[p].fd] \in Slot
        /\ FileClose(p, sys[p].fd) /\ sys' = [sys EXCEPT ![p] = User]
    BY <1>1 DEF Close, In, Opened, Return, Goto
  <2>2. sys'[p].op = "user" /\ \A q \in Proc : q # p => sys'[q] = sys[q]
    BY <2>1 DEF IInv, TypeOK, User
  <2> QED
    BY <2>1, <2>2, FileCloseStep
<1>2. CASE ExitClose(p)
  <2>1. PICK f \in FD : /\ IsLowest(f, OpenFrom(p, sys[p].i)) /\ FileClose(p, f)
                        /\ sys' = [sys EXCEPT ![p] = [sys[p] EXCEPT !.i = f + 1]]
    BY <1>2 DEF ExitClose, Goto
  <2>2. sys[p].op = "exit"
    BY <1>2 DEF ExitClose, In
  <2>3. sys[p] \in [op : {"exit"}, i : Nat]
    BY <2>2, SysFields DEF IInv, TypeOK
  <2>4. [sys[p] EXCEPT !.i = f + 1].op = "exit"
    BY <2>3
  <2>5. sys'[p].op = "exit" /\ \A q \in Proc : q # p => sys'[q] = sys[q]
    BY <2>1, <2>4 DEF IInv, TypeOK
  <2>6. fd_t[p][f] \in Slot
    BY <2>1, SMT DEF IsLowest, OpenFrom, IInv, TypeOK
  <2> QED
    BY <2>1, <2>2, <2>5, <2>6, FileCloseStep
<1> QED
  BY <1>1, <1>2

\* The first half of sys_dup2 is Dup; the second is not seen.
LEMMA Dup2LockedStep ==
    ASSUME IInv, IInv', NEW p \in Proc, Dup2Locked(p)
    PROVE  Handles!Dup(p) \/ UNCHANGED Handles!vars
<1>1. /\ sys[p].op = "dup2"
      /\ sys[p].old \in FD /\ sys[p].new \in FD /\ sys[p].old # sys[p].new
  BY DEF Dup2Locked, In, Trivial
<1>2. sys[p] \in [op : {"dup2", "dup2set"}, old : Int, new : Int]
  BY <1>1, SysFields DEF IInv, TypeOK
<1>3. PICK a \in FD, b \in FD : a = sys[p].old /\ b = sys[p].new /\ a # b
  BY <1>1
<1>4. PICK o, n \in Slot \cup {FILE_CLOSED} : o = fd_t[p][a] /\ n = fd_t[p][b]
  BY SMT DEF IInv, TypeOK
<1>5. CASE o = FILE_CLOSED
  <2>1. sys' = [sys EXCEPT ![p] = User] /\ UNCHANGED <<openfiles, fd_t>>
    BY <1>3, <1>4, <1>5 DEF Dup2Locked, Return, Goto
  <2>2. User.op = "user"
    BY DEF User
  <2> QED
    BY <1>1, <2>1, <2>2, QuietStep
<1>6. CASE o # FILE_CLOSED
  <2> DEFINE r == [sys[p] EXCEPT !.op = "dup2set"]
             x == [openfiles[o] EXCEPT !.rc = @ + 1]
             of == [openfiles EXCEPT ![o] = x]
  <2>1. o \in Slot
    BY <1>6
  <2>2. openfiles[o] \in OpenFile /\ openfiles[o] # NULL /\ openfiles[o].rc \in Nat \ {0}
    BY <1>4, <2>1, OpenFileThere DEF IInv
  <2>3. n # FILE_CLOSED => /\ n \in Slot /\ openfiles[n] \in OpenFile
                           /\ openfiles[n] # NULL /\ openfiles[n].rc \in Nat \ {0}
    BY <1>4, OpenFileThere DEF IInv
  <2>4. /\ openfiles' = IF n = FILE_CLOSED THEN of ELSE Dropped(of, n)
        /\ fd_t' = [fd_t EXCEPT ![p][b] = FILE_CLOSED]
        /\ sys' = [sys EXCEPT ![p] = r]
    BY <1>3, <1>4, <1>6, <2>2, <2>3 DEF Dup2Locked, Goto
  <2>5. r.op = "dup2set" /\ r.old = a /\ r.new = b
    BY <1>2, <1>3
  <2>6. /\ x \in OpenFile /\ x # NULL /\ x.rc = openfiles[o].rc + 1 /\ x.os = openfiles[o].os
    BY <2>2, NullAssumption, SMT DEF OpenFile
  <2> HIDE DEF r, x
  <2>7. /\ of \in [Slot -> OpenFile \cup {NULL}] /\ of[o] = x
        /\ \A u \in Slot : u # o => of[u] = openfiles[u]
    BY <2>1, <2>6 DEF IInv, TypeOK
  <2> HIDE DEF of
  <2>8. \A u \in Slot : of[u].os = openfiles[u].os
    BY <2>6, <2>7
  <2>9. \A u \in Slot : openfiles'[u] # NULL => openfiles'[u].os = openfiles[u].os
    <3>1. CASE n = FILE_CLOSED
      BY <2>4, <2>8, <3>1
    <3>2. CASE n # FILE_CLOSED
      <4>1. n \in Slot /\ of[n] \in OpenFile /\ of[n].rc \in Nat \ {0}
        BY <2>2, <2>3, <2>6, <2>7, <3>2, SMT
      <4>2. openfiles' = Dropped(of, n)
        BY <2>4, <3>2
      <4>3. /\ \A u \in Slot : u # n => openfiles'[u] = of[u]
            /\ of[n].rc = 1 => openfiles'[n] = NULL
            /\ of[n].rc # 1 => openfiles'[n].os = of[n].os
        BY <2>7, <4>1, <4>2, DroppedSlot, SMT
      <4> QED
        BY <2>8, <4>3
    <3> QED
      BY <3>1, <3>2
  <2>10. sys'[p] = r /\ \A q \in Proc : q # p => sys'[q] = sys[q] /\ fd_t'[q] = fd_t[q]
    BY <2>4 DEF IInv, TypeOK
  <2>11. \A g \in FD : fd_t'[p][g] = IF g = b THEN FILE_CLOSED ELSE fd_t[p][g]
    BY <2>4 DEF IInv, TypeOK
  <2>12. \A g \in FD : Seen(p, g) = fd_t[p][g]
    BY <1>1, SeenEntry
  <2>13. \A g \in FD : Seen(p, g)' = IF g = b THEN o ELSE fd_t[p][g]
    BY <1>3, <1>4, <2>5, <2>10, <2>11 DEF Seen, Entry
  <2>14. \A q \in Proc, g \in FD : q # p => Seen(q, g)' = Seen(q, g)
    BY <2>10, SeenSame
  <2>15. \A g \in FD : \E h \in FD : Seen(p, g)' = Seen(p, h)
    BY <1>4, <2>12, <2>13
  <2>16. \A u \in Slot : Reached(u)' => Reached(u)
    BY <2>14, <2>15, ReachedBefore
  <2>17. \A u \in Slot : Reached(u)' => Reached(u) /\ openfiles'[u].os = openfiles[u].os
    BY <2>9, <2>16, PositionNext DEF PositionReached
  <2> DEFINE row == [Table[p] EXCEPT ![b] = Table[p][a]]
  <2>18. row = [g \in FD |-> row[g]] /\ \A g \in FD : Seen(p, g)' = row[g]
    BY <1>4, <2>12, <2>13, TableIs
  <2> HIDE DEF row
  <2>19. Handles!Update(p, row)
    BY <2>14, <2>17, <2>18, UpdateStep
  <2>20. Table[p][a] # FILE_CLOSED
    BY <1>4, <1>6, <2>12, TableIs
  <2> QED
    BY <2>19, <2>20 DEF Handles!Dup, row
<1> QED
  BY <1>5, <1>6

\* newfd is assigned the entry it was already seen to have.
LEMMA Dup2AssignStep ==
    ASSUME IInv, IInv', NEW p \in Proc, Dup2Assign(p) PROVE UNCHANGED Handles!vars
<1>1. /\ sys[p].op = "dup2set" /\ sys' = [sys EXCEPT ![p] = User] /\ UNCHANGED openfiles
      /\ fd_t' = [fd_t EXCEPT ![p][sys[p].new] = fd_t[p][sys[p].old]]
  BY DEF Dup2Assign, In, Return, Goto
<1>2. sys[p].old \in FD /\ sys[p].new \in FD
  BY <1>1 DEF IInv, Shape, Dup2Shape
<1>3. /\ sys'[p].op = "user" /\ \A q \in Proc : q # p => sys'[q] = sys[q] /\ fd_t'[q] = fd_t[q]
      /\ \A g \in FD : fd_t'[p][g] = IF g = sys[p].new THEN fd_t[p][sys[p].old] ELSE fd_t[p][g]
  BY <1>1, <1>2 DEF IInv, TypeOK, User
<1>4. ASSUME NEW q \in Proc, NEW f \in FD PROVE Seen(q, f)' = Seen(q, f)
  <2>1. CASE q = p
    BY <1>1, <1>3, <2>1 DEF Seen, Entry
  <2>2. CASE q # p
    BY <1>3, <2>2, SeenSame
  <2> QED
    BY <2>1, <2>2
<1> QED
  BY <1>1, <1>4, StutterStep

\* A read, a write or a seek moves the handle.
LEMMA MoveSteps ==
    ASSUME IInv, IInv', NEW p \in Proc, IoEnd(p) \/ Lseek(p)
    PROVE  Handles!Move(p) \/ UNCHANGED Handles!vars
<1>1. sys[p].op \in {"io", "lseek"} /\ UNCHANGED fd_t
  BY DEF IoEnd, Lseek, In
<1>2. PICK f \in FD : fd_t[p][f] \in Slot /\
          \/ sys[p].op = "io" /\ sys[p].slot = fd_t[p][f]
          \/ sys[p].op = "lseek" /\ sys[p].fd = f
  <2>1. CASE IoEnd(p)
    <3>1. sys[p].op = "io"
      BY <2>1 DEF IoEnd, In
    <3>2. sys[p].slot \in Slot
      BY <3>1, SysFields, SMT DEF IInv, TypeOK
    <3> QED
      BY <3>1, <3>2 DEF IInv, Shape, IoShape
  <2>2. CASE Lseek(p)
    BY <2>2 DEF Lseek, In, Opened
  <2> QED
    BY <2>1, <2>2
<1>3. PICK s \in Slot : s = fd_t[p][f]
  BY <1>2
<1>4. openfiles[s] # NULL /\ openfiles[s] \in OpenFile
  BY <1>3, OpenFileThere DEF IInv
<1>5. sys' = [sys EXCEPT ![p] = User] /\ User.op = "user"
  <2>1. CASE IoEnd(p)
    BY <2>1 DEF IoEnd, Return, Goto, User
  <2>2. CASE Lseek(p)
    <3>1. sys[p].op = "lseek"
      BY <2>2 DEF Lseek, In
    <3>2. sys[p].fd = f
      BY <1>2, <3>1
    <3> QED
      BY <1>3, <1>4, <2>2, <3>2 DEF Lseek, Return, Goto, User
  <2> QED
    BY <2>1, <2>2
<1>6. openfiles' = openfiles \/ \E o \in 0 .. MaxOff : openfiles' = [openfiles EXCEPT ![s].os = o]
  <2>1. CASE IoEnd(p)
    <3>1. sys[p].op = "io"
      BY <2>1 DEF IoEnd, In
    <3>2. sys[p].slot = s
      BY <1>2, <1>3, <3>1
    <3>3. PICK o \in openfiles[s].os .. MaxOff : openfiles' = [openfiles EXCEPT ![s].os = o]
      BY <2>1, <3>2 DEF IoEnd
    <3>4. o \in 0 .. MaxOff
      BY <1>4, <3>3, BoundAssumption, SMT DEF OpenFile
    <3> QED
      BY <3>3, <3>4
  <2>2. CASE Lseek(p)
    <3>1. sys[p].op = "lseek"
      BY <2>2 DEF Lseek, In
    <3>2. sys[p].fd = f
      BY <1>2, <3>1
    <3>3. sys[p].to \in -1 .. MaxOff
      BY <3>1, SysFields, SMT DEF IInv, TypeOK
    <3>4. openfiles' = IF openfiles[s].vn # Con /\ sys[p].to >= 0
                         THEN [openfiles EXCEPT ![s].os = sys[p].to] ELSE openfiles
      BY <1>3, <1>4, <2>2, <3>2 DEF Lseek
    <3>5. sys[p].to >= 0 => sys[p].to \in 0 .. MaxOff
      BY <3>3, BoundAssumption, SMT
    <3> QED
      BY <3>4, <3>5
  <2> QED
    BY <2>1, <2>2
<1>7. CASE openfiles' = openfiles
  BY <1>1, <1>5, <1>7, QuietStep
<1>8. CASE \E o \in 0 .. MaxOff : openfiles' = [openfiles EXCEPT ![s].os = o]
  <2>1. PICK o \in 0 .. MaxOff : openfiles' = [openfiles EXCEPT ![s].os = o]
    BY <1>8
  <2>2. sys'[p].op = "user" /\ \A q \in Proc : q # p => sys'[q] = sys[q]
    BY <1>5 DEF IInv, TypeOK
  <2>3. Seen(p, f) = s
    BY <1>1, <1>3, SeenEntry
  <2>4. ASSUME NEW q \in Proc, NEW g \in FD PROVE Seen(q, g)' = Seen(q, g)
    <3>1. CASE q = p
      BY <1>1, <2>2, <3>1, SeenEntry
    <3>2. CASE q # p
      BY <1>1, <2>2, <3>2, SeenSame
    <3> QED
      BY <3>1, <3>2
  <2> QED
    BY <2>1, <2>3, <2>4, MoveStep
<1> QED
  BY <1>6, <1>7, <1>8

\* Nobody sees the child's table while the parent copies it and counts it.
LEMMA ForkCopyStep ==
    ASSUME IInv, IInv', NEW p \in Proc, ForkCopy(p) PROVE UNCHANGED Handles!vars
<1>1. PICK c \in Proc :
          /\ sys[c] = None /\ fd_t' = [fd_t EXCEPT ![c] = fd_t[p]]
          /\ sys' = [sys EXCEPT ![p] = [op |-> "forking", child |-> c, i |-> 0],
                               ![c] = [op |-> "embryo"]]
  BY DEF ForkCopy
<1>2. sys[p].op = "fork" /\ UNCHANGED openfiles /\ sys[c].op = "none"
  BY <1>1, SMT DEF ForkCopy, In, None
<1>3. c # p
  BY <1>2
<1>4. /\ sys'[p].op = "forking" /\ sys'[c].op = "embryo" /\ fd_t'[p] = fd_t[p]
      /\ \A q \in Proc : q # p /\ q # c => sys'[q] = sys[q] /\ fd_t'[q] = fd_t[q]
  BY <1>1, <1>3 DEF IInv, TypeOK
<1>5. ASSUME NEW q \in Proc, NEW f \in FD PROVE Seen(q, f)' = Seen(q, f)
  <2>1. CASE q = p
    BY <1>2, <1>4, <2>1, SeenEntry, SMT
  <2>2. CASE q = c
    <3>1. fd_t[c][f] = FILE_CLOSED
      BY <1>2 DEF IInv, Shape, ClosedShape
    <3> QED
      BY <1>2, <1>4, <2>2, <3>1, SeenEntry
  <2>3. CASE q # p /\ q # c
    BY <1>4, <2>3, SeenSame
  <2> QED
    BY <2>1, <2>2, <2>3
<1> QED
  BY <1>2, <1>5, StutterStep

\* One turn of the counting loop.
LEMMA ForkCountStep ==
    ASSUME IInv, IInv', NEW p \in Proc, ForkCount(p) PROVE UNCHANGED Handles!vars
<1>1. sys[p].op = "forking" /\ UNCHANGED fd_t
  BY DEF ForkCount, In
<1>2. sys[p] \in [op : {"forking"}, child : Proc, i : Nat]
  BY <1>1, SysFields DEF IInv, TypeOK
<1>3. PICK c \in Proc : c = sys[p].child
  BY <1>2
<1>4. PICK f \in FD :
          /\ IsLowest(f, OpenFrom(c, sys[p].i))
          /\ IF openfiles[fd_t[c][f]] = NULL
               THEN UNCHANGED <<openfiles, sys>>
               ELSE /\ openfiles' = [openfiles EXCEPT ![fd_t[c][f]].rc = @ + 1]
                    /\ sys' = [sys EXCEPT ![p] = [sys[p] EXCEPT !.i = f + 1]]
  BY <1>3 DEF ForkCount, Goto
<1>5. CASE openfiles[fd_t[c][f]] = NULL
  BY <1>1, <1>4, <1>5, CrashStep
<1>6. CASE openfiles[fd_t[c][f]] # NULL
  <2>1. PICK s \in Slot : s = fd_t[c][f]
    BY <1>4, SMT DEF IsLowest, OpenFrom, IInv, TypeOK
  <2>2. openfiles' = [openfiles EXCEPT ![s].rc = @ + 1] /\ openfiles[s] \in OpenFile
    BY <1>4, <1>6, <2>1 DEF IInv, TypeOK
  <2>3. \A u \in Slot : openfiles'[u].os = openfiles[u].os
    BY <2>2 DEF IInv, TypeOK, OpenFile
  <2> DEFINE r == [sys[p] EXCEPT !.i = f + 1]
  <2>4. r.op = "forking" /\ sys' = [sys EXCEPT ![p] = r]
    BY <1>2, <1>4, <1>6
  <2> HIDE DEF r
  <2> QED
    BY <1>1, <2>3, <2>4, QuietStep
<1> QED
  BY <1>5, <1>6

\* thread_fork gives the child all of its parent's handles at once.
LEMMA ForkThreadStep ==
    ASSUME IInv, IInv', NEW p \in Proc, ForkThread(p) PROVE Handles!Fork(p)
<1>1. sys[p].op = "forking" /\ UNCHANGED <<openfiles, fd_t>>
  BY DEF ForkThread, In
<1>2. PICK c \in Proc : c = sys[p].child
  BY <1>1, ChildProc DEF IInv
<1>3. c # p /\ sys[c].op = "embryo" /\ fd_t[c] = fd_t[p]
  BY <1>1, <1>2 DEF IInv, Shape, ForkShape
<1>4. /\ sys'[p].op = "user" /\ sys'[c].op = "user"
      /\ \A q \in Proc : q # p /\ q # c => sys'[q] = sys[q]
  BY <1>2, <1>3 DEF ForkThread, IInv, TypeOK, User
<1>5. \A f \in FD : Seen(c, f) = FILE_CLOSED /\ Seen(c, f)' = Seen(p, f)
  BY <1>1, <1>3, <1>4, SeenEntry
<1>6. ASSUME NEW q \in Proc, NEW f \in FD, q # c PROVE Seen(q, f)' = Seen(q, f)
  <2>1. CASE q = p
    BY <1>1, <1>4, <2>1, SeenEntry
  <2>2. CASE q # p
    BY <1>1, <1>4, <1>6, <2>2, SeenSame
  <2> QED
    BY <2>1, <2>2
<1>7. \A s \in Slot : Reached(s)' => Reached(s)
  BY <1>5, <1>6, ReachedBefore
<1>8. \A s \in Slot : Reached(s)' => Reached(s) /\ openfiles'[s].os = openfiles[s].os
  BY <1>1, <1>7
<1> DEFINE row == Table[p]
<1>9. row = [f \in FD |-> row[f]] /\ \A f \in FD : Seen(c, f)' = row[f]
  BY <1>5, TableIs
<1> HIDE DEF row
<1>10. Handles!Update(c, row)
  BY <1>6, <1>8, <1>9, UpdateStep
<1>11. \A f \in FD : Table[c][f] = FILE_CLOSED
  BY <1>5, TableIs
<1> QED
  BY <1>3, <1>10, <1>11 DEF Handles!Fork, row

\* thread_fork fails: nobody has seen the child.
LEMMA ForkThreadFailsStep ==
    ASSUME IInv, IInv', NEW p \in Proc, ForkThreadFails(p) PROVE UNCHANGED Handles!vars
<1>1. sys[p].op = "forking" /\ UNCHANGED openfiles
  BY DEF ForkThreadFails, In
<1>2. PICK c \in Proc : c = sys[p].child
  BY <1>1, ChildProc DEF IInv
<1>3. c # p /\ sys[c].op = "embryo"
  BY <1>1, <1>2 DEF IInv, Shape, ForkShape
<1>4. /\ sys'[p].op = "user" /\ sys'[c].op = "none"
      /\ \A q \in Proc : q # p /\ q # c => sys'[q] = sys[q]
      /\ \A q \in Proc : q # c => fd_t'[q] = fd_t[q]
      /\ \A f \in FD : fd_t'[c][f] = FILE_CLOSED
  <2>1. sys' = [sys EXCEPT ![p] = User, ![c] = None] /\ fd_t' = [fd_t EXCEPT ![c] = Closed]
    BY <1>2 DEF ForkThreadFails, LoseTable
  <2> QED
    BY <1>3, <2>1 DEF IInv, TypeOK, User, None, Closed
<1>5. ASSUME NEW q \in Proc, NEW f \in FD PROVE Seen(q, f)' = Seen(q, f)
  <2>1. CASE q = p
    BY <1>1, <1>3, <1>4, <2>1, SeenEntry, SMT
  <2>2. CASE q = c
    BY <1>3, <1>4, <2>2, SeenEntry, SMT
  <2>3. CASE q # p /\ q # c
    BY <1>4, <2>3, SeenSame
  <2> QED
    BY <2>1, <2>2, <2>3
<1> QED
  BY <1>1, <1>5, StutterStep

----------------------------------------------------------------------------
(* The theorem *)

\* At first no descriptor leads anywhere.
LEMMA InitMaps == FileInit => Handles!Init
<1> SUFFICES ASSUME FileInit PROVE Handles!Init
  OBVIOUS
<1>1. \A p \in Proc, f \in FD : Seen(p, f) = FILE_CLOSED
  BY DEF FileInit, Seen, Entry, Closed, None
<1>2. Table = [p \in Proc |-> [f \in FD |-> FILE_CLOSED]]
  BY <1>1 DEF Table
<1>3. Position = [s \in Slot |-> 0]
  BY DEF FileInit, Position
<1> QED
  BY <1>2, <1>3 DEF Handles!Init

\* What a step of the calls is for the handles.
Steps == Handles!Next \/ ExecvDrops \/ UNCHANGED Handles!vars

\* Every step is one of the handle specification's, or execv's, or none.
LEMMA StepMaps ==
    IInv /\ IInv' /\ [FileNext]_fileVars => [Handles!Next \/ ExecvDrops]_Handles!vars
<1> SUFFICES ASSUME IInv, IInv', [FileNext]_fileVars PROVE Steps
  BY DEF Steps
<1>1. ASSUME NEW p \in Proc, Call(p) \/ RunProgram(p) \/ IoEnd(p)
      PROVE  Steps
  BY <1>1, InvisibleSteps, RunProgramStep, MoveSteps DEF Handles!Next, Steps
<1>2. ASSUME NEW p \in Proc, Step(p) PROVE Steps
  <2>1. CASE \/ OpenVnode(p) \/ IoBegin(p) \/ IoBad(p) \/ CloseBad(p) \/ Dup2Trivial(p)
             \/ LseekBad(p) \/ ForkFails(p) \/ ExecvRefused(p) \/ Load(p) \/ ExitDone(p)
    BY <2>1, InvisibleSteps DEF Steps
  <2>2. CASE OpenVnodeFails(p) \/ InstallFails(p)
    BY <2>2, OpenErrorStep DEF Steps
  <2>3. CASE Install(p)
    BY <2>3, InstallStep DEF Handles!Next, Steps
  <2>4. CASE Close(p) \/ ExitClose(p)
    BY <2>4, CloseSteps DEF Handles!Next, Steps
  <2>5. CASE Dup2Locked(p)
    BY <2>5, Dup2LockedStep DEF Handles!Next, Steps
  <2>6. CASE Dup2Assign(p)
    BY <2>6, Dup2AssignStep DEF Steps
  <2>7. CASE Lseek(p)
    BY <2>7, MoveSteps DEF Handles!Next, Steps
  <2>8. CASE ForkNoTable(p) \/ UseFreed(p)
    BY <2>8, CrashStep DEF Steps, ForkNoTable, UseFreed
  <2>9. CASE ForkCopy(p) \/ ForkCount(p) \/ ForkThreadFails(p)
    BY <2>9, ForkCopyStep, ForkCountStep, ForkThreadFailsStep DEF Steps
  <2>10. CASE ForkThread(p)
    BY <2>10, ForkThreadStep DEF Handles!Next, Steps
  <2>11. CASE ExecvInit(p)
    BY <2>11, ExecvInitStep DEF ExecvDrops, Steps
  <2> QED
    BY <1>2, <2>1, <2>2, <2>3, <2>4, <2>5, <2>6, <2>7, <2>8, <2>9, <2>10, <2>11 DEF Step
<1>3. CASE UNCHANGED fileVars
  BY <1>3, CrashStep DEF Steps, fileVars
<1> QED
  BY <1>1, <1>2, <1>3 DEF FileNext, Halted

\* The system calls, interleaved at their critical sections, implement the handle
\* specification but for the step of sys_execv that drops the table: no program
\* can tell the tables, counts and slots from handles that open, dup2, fork and
\* close change in single steps.
THEOREM Refinement == FileSpec => HandlesBarExecv
<1>1. FileInit => Handles!Init
  BY InitMaps
<1>2. IInv /\ IInv' /\ [FileNext]_fileVars
      => [Invisible \/ Handles!Next \/ ExecvDrops]_Handles!vars
  BY StepMaps
<1>3. FileSpec => []IInv
  BY Invariance
<1> QED
  BY <1>1, <1>2, <1>3, PTL DEF FileSpec, HandlesBarExecv

============================================================================
