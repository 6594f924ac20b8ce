-------------------------- MODULE Console_proofs ---------------------------
(***************************************************************************)
(* Theorems about Console, for any number of printers and readers and any  *)
(* size of the input buffer: polled and interrupt-driven output keep one   *)
(* turn and lose no character, and keys are delivered once and in order.   *)
(***************************************************************************)
EXTENDS Console, FiniteSetTheorems, TLAPS

\* Most leaves are first-order; the others ask for SMT.
USE Zenon

Readers == Reader \cup Menu
Threads == Printer \cup Readers
Chars == [by : Printer, n : Nat]
Places == {"begin", "putch", "send", "drain", "poll", "done", "getch", "take", "advance"}
DevType == [tx : Chars \cup {NoChar}, ready : BOOLEAN, enable : BOOLEAN, force : BOOLEAN, key : Nat]
IrqType == [on : BOOLEAN, start : BOOLEAN, input : Nat]
RingType == [buf : [0 .. BufSize - 1 -> Nat], head : 0 .. BufSize - 1, tail : 0 .. BufSize - 1]

\* What the proofs assume of the constants.
Names ==
    /\ BufSize \in Nat \ {0}
    /\ IsFiniteSet(Readers)
    /\ Printer \cap Readers = {}
    /\ NoOne \notin Threads
    /\ NoChar \notin Chars

TypeOK ==
    /\ lock \in [Locks -> Threads \cup {NoOne}]
    /\ wsem \in Nat /\ rsem \in Nat /\ typed \in Nat
    /\ ring \in RingType
    /\ wbusy \in BOOLEAN
    /\ dev \in DevType
    /\ irq \in IrqType
    /\ pc \in [Threads -> Places]
    /\ at \in [Printer -> Nat \ {0}]
    /\ val \in [Readers -> Nat]
    /\ out \in Seq(Chars) /\ got \in Seq(Nat)
    /\ panicked \in BOOLEAN /\ shared \in BOOLEAN

----------------------------------------------------------------------------
(* The inductive invariant, output *)

\* ls_lock is held by the thread that polls; it drains only a write that is due
\* to be acknowledged.
PollLock ==
    /\ \A p \in Printer : pc[p] \in {"drain", "poll"} <=> lock["ls_lock"] = p
    /\ \A p \in Printer : pc[p] = "drain" => wbusy

\* With nothing under way the device is at rest; otherwise it is sending or has
\* just sent.
Busy == wbusy \/ \E p \in Printer : pc[p] = "poll"
DevShape ==
    /\ Busy => (dev.tx = NoChar <=> dev.ready)
    /\ ~Busy => dev.tx = NoChar /\ ~dev.ready

\* A thread within a message has the lock of its kind of message.
Active == {"putch", "send", "drain", "poll"}
HoldsLock ==
    /\ \A p \in Printer : pc[p] \in Active => lock[LockOf(p)] = p
    /\ \A p \in Printer : pc[p] = "begin" => at[p] = 1

\* The characters s given to the device are the first ones of each message, in
\* order and once, and nothing of its kind has come after those of a message
\* that goes on.
Shown(s) ==
    /\ \A i \in DOMAIN s : s[i].n \in 1 .. Passed(s[i].by)
    /\ \A p \in Printer : \A n \in 1 .. Passed(p) : \E i \in DOMAIN s : s[i].by = p /\ s[i].n = n
    /\ \A p \in Printer : pc[p] \in Active =>
          \A i, j \in DOMAIN s :
              i < j /\ s[i].by = p /\ LockOf(s[j].by) = LockOf(p) => s[j].by = p
Ordered(s) == \A i, k \in DOMAIN s : i < k /\ s[i].by = s[k].by => s[i].n < s[k].n

OutInv ==
    /\ OneTurn /\ PollLock /\ DevShape /\ HoldsLock
    /\ Shown(Given) /\ Ordered(Given) /\ Whole(Given)

----------------------------------------------------------------------------
(* The inductive invariant, input *)

Held == (ring.head - ring.tail) % BufSize
Keys == got \o Buffered

\* What the handler has not passed on yet is newer than every key in the buffer
\* and, when two are waiting, in order.
Pending ==
    /\ ~irq.on => irq.input = 0
    /\ irq.input # 0 => irq.input <= typed /\ (dev.key # 0 => irq.input < dev.key)
    /\ dev.key <= typed
Older(x) ==
    x <= typed /\ (irq.input # 0 => x < irq.input) /\ (dev.key # 0 => x < dev.key)

\* Readers of con_io exclude each other, and without kgets in between the reader
\* has what is at the tail.
ReadLock == \A r \in Reader \ Menu : pc[r] \in {"getch", "take", "advance"} => lock["read"] = r
Alone == \A r, s \in InGetch : r = s
HasKey == \A r \in Readers : pc[r] = "advance" => val[r] = ring.buf[ring.tail]

Increasing(s) == \A i, j \in 1 .. Len(s) : i < j => s[i] < s[j]

InInv ==
    /\ Pending /\ ReadLock
    /\ Held = rsem + Cardinality(InGetch)
    /\ ~shared => Alone /\ HasKey /\ Increasing(Keys) /\ \A i \in 1 .. Len(Keys) : Older(Keys[i])

IInv == TypeOK /\ OutInv /\ InInv

----------------------------------------------------------------------------
(* Types *)

\* LockOf names one of the three locks that keep messages whole.
LEMMA LockOfType ==
    ASSUME NEW p
    PROVE  LockOf(p) \in Locks \ {"read", "ls_lock"}
  BY DEF LockOf, Locks

\* What writing the interrupt register and sending a character make of dev.
LEMMA DevWrite ==
    ASSUME TypeOK, NEW e \in BOOLEAN, NEW f \in BOOLEAN, NEW c \in Chars
    PROVE  /\ WIRQ(e, f) \in DevType
           /\ Sent(WIRQ(e, f), c) \in DevType
           /\ Sent(dev, c) \in DevType
           /\ WIRQ(e, f).tx = dev.tx /\ WIRQ(e, f).ready = FALSE /\ WIRQ(e, f).key = dev.key
           /\ Sent(WIRQ(e, f), c).tx = c /\ Sent(WIRQ(e, f), c).ready = FALSE
           /\ Sent(WIRQ(e, f), c).key = dev.key
           /\ Sent(dev, c).tx = c /\ Sent(dev, c).ready = dev.ready /\ Sent(dev, c).key = dev.key
  BY DEF TypeOK, DevType, WIRQ, Sent

\* A printer's next character.
LEMMA CharType ==
    ASSUME TypeOK, NEW p \in Printer
    PROVE  Char(p) \in Chars /\ Char(p).by = p /\ Char(p).n = at[p]
  BY DEF TypeOK, Char, Chars

\* Initially everything is of its type.
LEMMA InitType ==
    ASSUME Names, ConsoleInit
    PROVE  TypeOK
  <1>1. BufSize - 1 \in Nat /\ 0 \in 0 .. BufSize - 1
    BY SMT DEF Names
  <1>2. ring \in RingType
    BY <1>1 DEF ConsoleInit, RingType
  <1>3. dev \in DevType
    BY DEF ConsoleInit, DevType
  <1>4. irq \in IrqType
    BY DEF ConsoleInit, IrqType
  <1>5. pc \in [Threads -> Places] /\ val \in [Readers -> Nat]
    BY DEF ConsoleInit, Threads, Readers, Places
  <1>6. at \in [Printer -> Nat \ {0}]
    BY SMT DEF ConsoleInit
  <1>7. lock \in [Locks -> Threads \cup {NoOne}] /\ wbusy \in BOOLEAN
    BY DEF ConsoleInit
  <1>8. out \in Seq(Chars) /\ got \in Seq(Nat)
    BY SMT DEF ConsoleInit
  <1>9. wsem \in Nat /\ rsem \in Nat /\ typed \in Nat /\ panicked \in BOOLEAN /\ shared \in BOOLEAN
    BY DEF ConsoleInit
  <1> QED
    BY <1>2, <1>3, <1>4, <1>5, <1>6, <1>7, <1>8, <1>9 DEF TypeOK

\* Every step keeps everything of its type: the device and the handler.
LEMMA DeviceType ==
    ASSUME Names, TypeOK, Transmit \/ Type \/ Interrupt
    PROVE  TypeOK'
  <1>1. CASE Transmit
    <2>1. dev.tx \in Chars
      BY <1>1 DEF Transmit, TypeOK, DevType
    <2>2. out' \in Seq(Chars)
      BY <1>1, <2>1, SMT DEF Transmit, TypeOK
    <2>3. dev' \in DevType
      BY <1>1 DEF Transmit, TypeOK, DevType
    <2> QED
      BY <1>1, <2>2, <2>3 DEF Transmit, TypeOK, inVars
  <1>2. CASE Type
    <2>1. typed + 1 \in Nat
      BY SMT DEF TypeOK
    <2>2. [dev EXCEPT !.key = typed + 1] \in DevType
      BY <2>1 DEF TypeOK, DevType
    <2>3. dev' \in DevType /\ typed' \in Nat
      BY <1>2, <2>1, <2>2 DEF Type
    <2> QED
      BY <1>2, <2>3 DEF Type, TypeOK, inVars, outVars
  <1>3. CASE lser_irq
    <2>1. dev' \in DevType
      BY <1>3 DEF lser_irq, TypeOK, WIRQ, DevType
    <2>2. irq' \in IrqType /\ wbusy' \in BOOLEAN
      BY <1>3 DEF lser_irq, TypeOK, IrqType, DevType
    <2> QED
      BY <1>3, <2>1, <2>2 DEF lser_irq, TypeOK, inVars
  <1>4. CASE con_start
    <2>1. irq' \in IrqType
      BY <1>4 DEF con_start, TypeOK, IrqType
    <2>2. wsem' \in Nat
      BY <1>4, SMT DEF con_start, TypeOK
    <2> QED
      BY <1>4, <2>1, <2>2 DEF con_start, TypeOK, inVars
  <1>5. CASE con_input
    <2>1. irq' \in IrqType
      BY <1>5 DEF con_input, TypeOK, IrqType
    <2>2. (ring.head + 1) % BufSize \in 0 .. BufSize - 1
      BY SMT DEF TypeOK, RingType, Names
    <2>3. ring' \in RingType
      <3>1. CASE ring' = ring
        BY <3>1 DEF TypeOK
      <3>2. CASE ring' = [ring EXCEPT !.buf[ring.head] = irq.input, !.head = (ring.head + 1) % BufSize]
        BY <2>2, <3>2 DEF TypeOK, RingType, IrqType
      <3> QED
        BY <1>5, <3>1, <3>2 DEF con_input
    <2>4. rsem' \in Nat
      BY <1>5, SMT DEF con_input, TypeOK
    <2> QED
      BY <1>5, <2>1, <2>3, <2>4 DEF con_input, TypeOK, outVars
  <1>6. CASE IrqReturn
    BY <1>6 DEF IrqReturn, TypeOK, IrqType, inVars, outVars
  <1> QED
    BY <1>1, <1>2, <1>3, <1>4, <1>5, <1>6 DEF Interrupt

\* The printers.
LEMMA OutputType ==
    ASSUME Names, TypeOK, NEW p \in Printer, Output(p)
    PROVE  TypeOK'
  <1> p \in Threads /\ LockOf(p) \in Locks /\ "ls_lock" \in Locks
    BY LockOfType DEF Threads, Locks
  <1>1. CASE PrintBegin(p)
    BY <1>1 DEF PrintBegin, Take, Goto, Places, TypeOK, inVars, outVars
  <1>2. CASE PrintEnd(p)
    BY <1>2 DEF PrintEnd, Drop, Goto, Places, TypeOK, inVars, outVars
  <1>3. CASE putch_intr(p)
    BY <1>3, SMT DEF putch_intr, Goto, Places, TypeOK, inVars
  <1>4. CASE lser_write(p)
    <2>1. at' \in [Printer -> Nat \ {0}] /\ pc' \in [Threads -> Places]
      <3>1. CASE wbusy
        BY <1>4, <3>1 DEF lser_write, TypeOK
      <3>2. CASE ~wbusy
        <4>1. at' \in [Printer -> Nat \ {0}]
          BY <1>4, <3>2, SMT DEF lser_write, TypeOK
        <4>2. pc' \in [Threads -> Places]
          BY <1>4, <3>2 DEF lser_write, Goto, Places, TypeOK
        <4> QED
          BY <4>1, <4>2
      <3> QED
        BY <3>1, <3>2
    <2>2. dev' \in DevType
      <3>1. Sent(dev, Char(p)) \in DevType
        BY DevWrite, CharType
      <3> QED
        BY <1>4, <3>1 DEF lser_write, TypeOK
    <2>3. wbusy' \in BOOLEAN /\ panicked' \in BOOLEAN
      BY <1>4 DEF lser_write, TypeOK
    <2> QED
      BY <1>4, <2>1, <2>2, <2>3 DEF lser_write, TypeOK, inVars
  <1>5. CASE lser_writepolled(p)
    <2>1. dev' \in DevType
      <3>1. Sent(WIRQ(FALSE, FALSE), Char(p)) \in DevType
        BY DevWrite, CharType
      <3> QED
        BY <1>5, <3>1 DEF lser_writepolled, TypeOK
    <2> QED
      BY <1>5, <2>1 DEF lser_writepolled, Goto, Take, Places, TypeOK, inVars, outVars
  <1>6. CASE PollDrained(p)
    <2>1. dev' \in DevType
      <3>1. Sent(WIRQ(TRUE, TRUE), Char(p)) \in DevType
        BY DevWrite, CharType
      <3> QED
        BY <1>6, <3>1 DEF PollDrained, TypeOK
    <2> QED
      BY <1>6, <2>1 DEF PollDrained, Goto, Places, TypeOK, inVars, outVars
  <1>7. CASE PollDone(p)
    <2>1. dev' \in DevType
      <3>1. WIRQ(TRUE, FALSE) \in DevType
        BY DevWrite, CharType
      <3> QED
        BY <1>7, <3>1 DEF PollDone, TypeOK
    <2>2. at' \in [Printer -> Nat \ {0}]
      BY <1>7, SMT DEF PollDone, TypeOK
    <2> QED
      BY <1>7, <2>1, <2>2 DEF PollDone, Goto, Drop, Places, TypeOK, inVars
  <1> QED
    BY <1>1, <1>2, <1>3, <1>4, <1>5, <1>6, <1>7 DEF Output

\* The readers.
LEMMA InputType ==
    ASSUME Names, TypeOK, NEW r \in Readers, Input(r)
    PROVE  TypeOK'
  <1> r \in Threads /\ "read" \in Locks
    BY DEF Threads, Locks
  <1>1. CASE ReadBegin(r)
    BY <1>1 DEF ReadBegin, Take, Goto, Places, TypeOK, inVars, outVars
  <1>2. CASE getch_intr(r)
    <2>1. shared' \in BOOLEAN
      BY <1>2 DEF getch_intr, TypeOK
    <2> QED
      BY <1>2, <2>1, SMT DEF getch_intr, Goto, Places, TypeOK, outVars
  <1>3. CASE GetchTake(r)
    BY <1>3 DEF GetchTake, Goto, Places, TypeOK, RingType, outVars
  <1>4. CASE GetchReturn(r)
    <2>1. (ring.tail + 1) % BufSize \in 0 .. BufSize - 1
      BY SMT DEF TypeOK, RingType, Names
    <2>2. ring' \in RingType
      BY <1>4, <2>1 DEF GetchReturn, TypeOK, RingType
    <2>3. got' \in Seq(Nat)
      BY <1>4, SMT DEF GetchReturn, TypeOK
    <2>4. pc' \in [Threads -> Places] /\ lock' \in [Locks -> Threads \cup {NoOne}]
      BY <1>4 DEF GetchReturn, TypeOK, Goto, Drop, Places
    <2> QED
      BY <1>4, <2>2, <2>3, <2>4 DEF GetchReturn, TypeOK, outVars
  <1> QED
    BY <1>1, <1>2, <1>3, <1>4 DEF Input

----------------------------------------------------------------------------
(* Output: what has been given to the device *)

\* It is a sequence of characters, and stays the same while the device sends.
LEMMA GivenSame ==
    ASSUME Names, TypeOK,
           Transmit \/ (out' = out /\ dev'.tx = dev.tx)
    PROVE  Given \in Seq(Chars) /\ Given' = Given
  <1>1. Given \in Seq(Chars)
    BY SMT DEF TypeOK, DevType, Given
  <1>2. CASE Transmit
    <2>1. dev.tx # NoChar /\ dev'.tx = NoChar /\ out' = Append(out, dev.tx)
      BY <1>2 DEF Transmit, TypeOK, DevType
    <2>2. Given = out \o <<dev.tx>> /\ Given' = Append(out, dev.tx) \o <<>>
      BY <2>1 DEF Given
    <2>3. dev.tx \in Chars /\ out \in Seq(Chars)
      BY <2>1 DEF TypeOK, DevType
    <2>4. out \o <<dev.tx>> = Append(out, dev.tx) \o <<>>
      BY <2>3, SMT
    <2> QED
      BY <1>1, <2>2, <2>4
  <1>3. CASE out' = out /\ dev'.tx = dev.tx
    BY <1>1, <1>3 DEF Given
  <1> QED
    BY <1>2, <1>3

\* A character given to an idle device comes last.
LEMMA GivenGrows ==
    ASSUME Names, TypeOK, NEW c \in Chars, out' = out, dev.tx = NoChar, dev'.tx = c
    PROVE  Given \in Seq(Chars) /\ Given' = Append(Given, c)
  <1>1. Given = out \o <<>> /\ Given' = out \o <<c>>
    BY DEF Names, Given
  <1>2. out \in Seq(Chars)
    BY DEF TypeOK
  <1> QED
    BY <1>1, <1>2, SMT

\* One more character of a message that goes on keeps the output whole.
LEMMA Grows ==
    ASSUME Names, TypeOK, TypeOK', HoldsLock, NEW p \in Printer, NEW s \in Seq(Chars),
           Shown(s), Ordered(s), Whole(s),
           pc[p] \in Active, pc[p] # "poll", pc'[p] \in Active,
           Passed(p)' = at[p],
           \A q \in Printer \ {p} : pc'[q] = pc[q] /\ at'[q] = at[q],
           NEW c \in Chars, c.by = p, c.n = at[p], NEW a, a = Append(s, c)
    PROVE  Shown(a)' /\ Ordered(a) /\ Whole(a)
  <1>1. at[p] \in Nat \ {0}
    BY DEF TypeOK
  <1> PICK m \in Nat : m = Len(s)
    BY SMT
  <1>2. DOMAIN s = 1 .. m /\ DOMAIN a = 1 .. m + 1
        /\ a[m + 1] = c /\ \A i \in 1 .. m : a[i] = s[i]
    BY <1>1, SMT
  <1>3. \A i \in 1 .. m : s[i].by \in Printer /\ s[i].n \in Nat
    <2>1. \A i \in 1 .. m : s[i] \in Chars
      BY <1>2, SMT
    <2> QED
      BY <2>1 DEF Chars
  <1>4. Passed(p) = at[p] - 1 /\ \A q \in Printer \ {p} : Passed(q)' = Passed(q)
    BY DEF Passed
  <1>5. \A i \in 1 .. m : s[i].by = p => s[i].n < at[p]
    <2> SUFFICES ASSUME NEW i \in 1 .. m, s[i].by = p
                 PROVE  s[i].n < at[p]
      OBVIOUS
    <2>1. s[i].n \in 1 .. Passed(p)
      BY <1>2 DEF Shown
    <2> QED
      BY <1>1, <1>4, <2>1, SMT
  <1>6. \A i \in 1 .. m + 1 : a[i].n \in 1 .. Passed(a[i].by)'
    <2> SUFFICES ASSUME NEW i \in 1 .. m + 1
                 PROVE  a[i].n \in 1 .. Passed(a[i].by)'
      OBVIOUS
    <2>1. CASE i = m + 1
      BY <1>1, <1>2, <2>1, SMT
    <2>2. CASE i # m + 1
      <3>1. i \in 1 .. m /\ a[i] = s[i]
        BY <1>2, <2>2, SMT
      <3>2. s[i].n \in 1 .. Passed(s[i].by)
        BY <1>2, <3>1 DEF Shown
      <3>3. CASE s[i].by = p
        BY <1>1, <1>4, <3>1, <3>2, <3>3, SMT
      <3>4. CASE s[i].by # p
        BY <1>3, <1>4, <3>1, <3>2, <3>4
      <3> QED
        BY <3>3, <3>4
    <2> QED
      BY <2>1, <2>2
  <1>7. ASSUME NEW q \in Printer, NEW n \in 1 .. Passed(q)'
        PROVE  \E i \in 1 .. m + 1 : a[i].by = q /\ a[i].n = n
    <2>1. CASE q = p /\ n = at[p]
      BY <1>1, <1>2, <2>1, SMT
    <2>2. CASE ~(q = p /\ n = at[p])
      <3>1. n \in 1 .. Passed(q)
        BY <1>1, <1>4, <1>7, <2>2, SMT
      <3>2. PICK i \in 1 .. m : s[i].by = q /\ s[i].n = n
        BY <1>2, <3>1, SMT DEF Shown
      <3> QED
        BY <1>2, <3>2, SMT
    <2> QED
      BY <2>1, <2>2
  <1>8. ASSUME NEW q \in Printer, pc'[q] \in Active,
               NEW i \in 1 .. m + 1, NEW j \in 1 .. m + 1, i < j,
               a[i].by = q, LockOf(a[j].by) = LockOf(q)
        PROVE  a[j].by = q
    <2>1. i \in 1 .. m /\ a[i] = s[i]
      BY <1>2, <1>8, SMT
    <2>2. pc[q] \in Active
      BY <1>8
    <2>3. CASE j = m + 1
      <3>1. lock[LockOf(p)] = p /\ lock[LockOf(q)] = q
        BY <2>2 DEF HoldsLock
      <3> QED
        BY <1>1, <1>2, <1>8, <2>3, <3>1, SMT
    <2>4. CASE j # m + 1
      <3>1. j \in 1 .. m /\ a[j] = s[j]
        BY <1>2, <2>4, SMT
      <3> QED
        BY <1>2, <1>8, <2>1, <2>2, <3>1, SMT DEF Shown
    <2> QED
      BY <2>3, <2>4
  <1>9. Ordered(a)
    <2> SUFFICES ASSUME NEW i \in 1 .. m + 1, NEW k \in 1 .. m + 1, i < k, a[i].by = a[k].by
                 PROVE  a[i].n < a[k].n
      BY <1>2 DEF Ordered
    <2>1. i \in 1 .. m /\ a[i] = s[i]
      BY <1>2, SMT
    <2>2. CASE k = m + 1
      BY <1>1, <1>2, <1>5, <2>1, <2>2
    <2>3. CASE k # m + 1
      <3>1. k \in 1 .. m /\ a[k] = s[k]
        BY <1>2, <2>3, SMT
      <3> QED
        BY <1>2, <2>1, <3>1 DEF Ordered
    <2> QED
      BY <2>2, <2>3
  <1>10. Whole(a)
    <2> SUFFICES ASSUME NEW i \in 1 .. m + 1, NEW k \in 1 .. m + 1, i < k, a[i].by = a[k].by,
                        NEW j \in i .. k, LockOf(a[j].by) = LockOf(a[i].by)
                 PROVE  a[j].by = a[i].by
      BY <1>2, SMT DEF Whole
    <2>1. i \in 1 .. m /\ a[i] = s[i] /\ j \in 1 .. m + 1
      BY <1>2, SMT
    <2>2. CASE k = m + 1
      <3>1. a[i].by = p
        BY <1>1, <1>2, <2>2
      <3>2. CASE j = i
        BY <3>2
      <3>3. CASE j = k
        BY <3>3
      <3>4. CASE j # i /\ j # k
        <4>1. j \in 1 .. m /\ i < j /\ a[j] = s[j]
          BY <1>2, <2>1, <2>2, <3>4, SMT
        <4>2. \A x, y \in DOMAIN s :
                 x < y /\ s[x].by = p /\ LockOf(s[y].by) = LockOf(p) => s[y].by = p
          BY DEF Shown
        <4>3. s[i].by = p
          BY <2>1, <3>1
        <4>4. LockOf(s[j].by) = LockOf(p)
          BY <3>1, <4>1
        <4>5. s[j].by = p
          BY <1>2, <2>1, <4>1, <4>2, <4>3, <4>4
        <4> QED
          BY <3>1, <4>1, <4>5
      <3> QED
        BY <3>2, <3>3, <3>4
    <2>3. CASE k # m + 1
      <3>1. k \in 1 .. m /\ a[k] = s[k] /\ j \in 1 .. m /\ a[j] = s[j]
        BY <1>2, <2>1, <2>3, SMT
      <3> QED
        BY <1>2, <2>1, <3>1, SMT DEF Whole
    <2> QED
      BY <2>2, <2>3
  <1>11. Shown(a)'
    <2>1. (\A i \in DOMAIN a : a[i].n \in 1 .. Passed(a[i].by))'
      BY <1>2, <1>6
    <2>2. (\A q \in Printer : \A n \in 1 .. Passed(q) :
              \E i \in DOMAIN a : a[i].by = q /\ a[i].n = n)'
      BY <1>2, <1>7, SMT
    <2>3. (\A q \in Printer : pc[q] \in Active =>
              \A i, j \in DOMAIN a :
                  i < j /\ a[i].by = q /\ LockOf(a[j].by) = LockOf(q) => a[j].by = q)'
      BY <1>2, <1>8, SMT
    <2> QED
      BY <2>1, <2>2, <2>3 DEF Shown
  <1> QED
    BY <1>9, <1>10, <1>11

\* Given to the device, as the invariant says.
Messages == Shown(Given) /\ Ordered(Given) /\ Whole(Given)

\* The invariant at the new state, from a name for what has been given there.
LEMMA MessagesAt ==
    ASSUME NEW g, Given' = g, Shown(g)', Ordered(g), Whole(g)
    PROVE  Messages'
  BY SMT DEF Messages, Shown, Ordered, Whole, Passed, LockOf

\* A step that gives the device nothing keeps the messages, if no thread gets
\* within a message but at its beginning.
LEMMA MessagesKept ==
    ASSUME Names, TypeOK, TypeOK', Messages, Transmit \/ (out' = out /\ dev'.tx = dev.tx),
           \A p \in Printer : /\ Passed(p)' = Passed(p)
                              /\ pc'[p] \in Active => pc[p] \in Active \/ Passed(p) = 0
    PROVE  Messages'
  <1> PICK g \in Seq(Chars) : g = Given
    BY GivenSame
  <1>1. Given' = g
    BY GivenSame
  <1>2. Shown(g) /\ Ordered(g) /\ Whole(g)
    BY DEF Messages
  <1>3. \A i \in DOMAIN g : g[i] \in Chars /\ g[i].by \in Printer
    <2>1. \A i \in DOMAIN g : g[i] \in Chars
      BY SMT
    <2> QED
      BY <2>1 DEF Chars
  <1>4. ASSUME NEW i \in DOMAIN g
        PROVE  g[i].n \in 1 .. Passed(g[i].by)'
    BY <1>2, <1>3, SMT DEF Shown
  <1>5. ASSUME NEW p \in Printer, NEW n \in 1 .. Passed(p)'
        PROVE  \E i \in DOMAIN g : g[i].by = p /\ g[i].n = n
    BY <1>2, SMT DEF Shown
  <1>6. ASSUME NEW p \in Printer, pc'[p] \in Active, NEW i \in DOMAIN g, NEW j \in DOMAIN g,
               i < j, g[i].by = p, LockOf(g[j].by) = LockOf(p)
        PROVE  g[j].by = p
    <2>1. CASE pc[p] \in Active
      <3>1. \A x, y \in DOMAIN g :
               x < y /\ g[x].by = p /\ LockOf(g[y].by) = LockOf(p) => g[y].by = p
        BY <1>2, <2>1 DEF Shown
      <3> QED
        BY <1>6, <3>1
    <2>2. CASE Passed(p) = 0
      <3>1. g[i].n \in 1 .. Passed(p)
        BY <1>2, <1>6 DEF Shown
      <3> QED
        BY <2>2, <3>1, SMT
    <2> QED
      BY <1>6, <2>1, <2>2
  <1>7. Shown(g)'
    <2>1. (\A i \in DOMAIN g : g[i].n \in 1 .. Passed(g[i].by))'
      BY <1>4
    <2>2. (\A p \in Printer : \A n \in 1 .. Passed(p) :
              \E i \in DOMAIN g : g[i].by = p /\ g[i].n = n)'
      BY <1>5
    <2>3. (\A p \in Printer : pc[p] \in Active =>
              \A i, j \in DOMAIN g :
                  i < j /\ g[i].by = p /\ LockOf(g[j].by) = LockOf(p) => g[j].by = p)'
      BY <1>6, SMT
    <2> QED
      BY <2>1, <2>2, <2>3 DEF Shown
  <1> QED
    BY <1>1, <1>2, <1>7, MessagesAt

\* A step in which a thread within a message gives an idle device its next
\* character.
LEMMA MessagesGrow ==
    ASSUME Names, TypeOK, TypeOK', Messages, HoldsLock, NEW p \in Printer,
           out' = out, dev.tx = NoChar, dev'.tx = Char(p),
           pc[p] \in Active, pc[p] # "poll", pc'[p] \in Active, Passed(p)' = at[p],
           \A q \in Printer \ {p} : pc'[q] = pc[q] /\ at'[q] = at[q]
    PROVE  Messages'
  <1> PICK c \in Chars : c = Char(p)
    BY CharType
  <1>1. c.by = p /\ c.n = at[p]
    BY CharType
  <1> PICK g \in Seq(Chars) : g = Given
    BY GivenGrows
  <1> PICK a : a = Append(g, c)
    OBVIOUS
  <1>2. Given' = a
    BY GivenGrows
  <1>3. Shown(g) /\ Ordered(g) /\ Whole(g)
    BY DEF Messages
  <1>4. Shown(a)' /\ Ordered(a) /\ Whole(a)
    BY <1>1, <1>3, Grows
  <1> QED
    BY <1>2, <1>4, MessagesAt

\* Steps that the output does not notice.
LEMMA OutFrame ==
    ASSUME Names, TypeOK, TypeOK', OutInv, UNCHANGED outVars,
           dev'.tx = dev.tx, dev'.ready = dev.ready, irq'.start = irq.start,
           \A p \in Printer : pc'[p] = pc[p],
           \A l \in Locks \ {"read"} : lock'[l] = lock[l]
    PROVE  OutInv'
  <1>1. OneTurn'
    BY DEF OutInv, OneTurn, outVars
  <1>2. PollLock' /\ HoldsLock'
    BY LockOfType DEF OutInv, PollLock, HoldsLock, outVars, Locks
  <1>3. DevShape'
    BY DEF OutInv, DevShape, Busy, outVars
  <1>4. \A p \in Printer : Passed(p)' = Passed(p)
    BY DEF Passed, outVars
  <1>5. Messages'
    BY <1>4, MessagesKept DEF OutInv, Messages, outVars
  <1> QED
    BY <1>1, <1>2, <1>3, <1>5 DEF OutInv, Messages

\* The device sends its character.
LEMMA TransmitOut ==
    ASSUME Names, TypeOK, TypeOK', OutInv, Transmit
    PROVE  OutInv'
  <1>1. dev.tx # NoChar /\ dev'.tx = NoChar /\ dev'.ready
    BY DEF Transmit, TypeOK, DevType
  <1>2. UNCHANGED <<lock, wsem, wbusy, at, panicked, irq, pc>>
    BY DEF Transmit
  <1>3. OneTurn' /\ PollLock' /\ HoldsLock'
    BY <1>2 DEF OutInv, OneTurn, PollLock, HoldsLock
  <1>4. DevShape'
    BY <1>1, <1>2 DEF OutInv, DevShape, Busy
  <1>5. \A p \in Printer : Passed(p)' = Passed(p) /\ pc'[p] = pc[p]
    BY <1>2 DEF Passed
  <1>6. Messages'
    BY <1>5, MessagesKept DEF OutInv, Messages
  <1> QED
    BY <1>3, <1>4, <1>6 DEF OutInv, Messages

\* The handler takes note of a write that is done, and so has the turn.
LEMMA IrqOut ==
    ASSUME Names, TypeOK, TypeOK', OutInv, lser_irq
    PROVE  OutInv'
  <1>1. UNCHANGED <<lock, wsem, at, panicked, pc, out>> /\ lock["ls_lock"] = NoOne
    BY DEF lser_irq, Free
  <1>2. \A p \in Printer : pc[p] \notin {"drain", "poll"}
    <2>1. \A p \in Printer : p # NoOne
      BY DEF Names, Threads
    <2> QED
      BY <1>1, <2>1 DEF OutInv, PollLock
  <1>3. dev'.tx = dev.tx /\ irq'.start = dev.ready
    BY DEF lser_irq, TypeOK, DevType, WIRQ
  <1>4. ASSUME dev.ready PROVE OneTurn' /\ DevShape'
    <2>1. wbusy /\ dev.tx = NoChar
      BY <1>2, <1>4 DEF OutInv, DevShape, Busy
    <2>2. ~wbusy' /\ ~dev'.ready
      <3>1. wbusy' = (wbusy /\ ~dev.ready)
        BY DEF lser_irq
      <3>2. ~wbusy'
        BY <1>4, <3>1
      <3>3. ~dev'.ready
        BY <1>4 DEF lser_irq, TypeOK, DevType, WIRQ
      <3> QED
        BY <3>2, <3>3
    <2>3. OneTurn'
      BY <1>1, <1>3, <2>1, <2>2 DEF OutInv, OneTurn
    <2>4. DevShape'
      BY <1>1, <1>2, <1>3, <2>1, <2>2 DEF DevShape, Busy
    <2> QED
      BY <2>3, <2>4
  <1>5. ASSUME ~dev.ready PROVE OneTurn' /\ DevShape'
    <2>1. wbusy' = wbusy /\ dev'.ready = dev.ready
      <3>1. wbusy' = (wbusy /\ ~dev.ready) /\ wbusy \in BOOLEAN
        BY DEF lser_irq, TypeOK
      <3>2. wbusy' = wbusy
        BY <1>5, <3>1
      <3>3. dev'.ready = dev.ready
        BY <1>5 DEF lser_irq, TypeOK, DevType
      <3> QED
        BY <3>2, <3>3
    <2>2. OneTurn'
      BY <1>1, <1>3, <1>5, <2>1 DEF OutInv, OneTurn
    <2>3. DevShape'
      BY <1>1, <1>3, <2>1 DEF OutInv, DevShape, Busy
    <2> QED
      BY <2>2, <2>3
  <1>6. PollLock' /\ HoldsLock'
    BY <1>1, <1>2 DEF OutInv, PollLock, HoldsLock
  <1>7. \A p \in Printer : Passed(p)' = Passed(p) /\ pc'[p] = pc[p]
    BY <1>1 DEF Passed
  <1>8. Messages'
    BY <1>1, <1>3, <1>7, MessagesKept DEF OutInv, Messages
  <1> QED
    BY <1>4, <1>5, <1>6, <1>8 DEF OutInv, Messages

\* The handler gives the turn back.
LEMMA StartOut ==
    ASSUME Names, TypeOK, TypeOK', OutInv, con_start
    PROVE  OutInv'
  <1>1. UNCHANGED <<lock, wbusy, at, panicked, pc, out, dev>> /\ wsem' = wsem + 1
    BY DEF con_start
  <1>2. irq.start /\ ~irq'.start
    BY DEF con_start, TypeOK, IrqType
  <1>3. wsem = 0
    BY <1>2 DEF OutInv, OneTurn
  <1>4. OneTurn'
    BY <1>1, <1>2, <1>3, SMT DEF OutInv, OneTurn
  <1>5. PollLock' /\ HoldsLock' /\ DevShape'
    BY <1>1 DEF OutInv, PollLock, HoldsLock, DevShape, Busy
  <1>6. \A p \in Printer : Passed(p)' = Passed(p) /\ pc'[p] = pc[p]
    BY <1>1 DEF Passed
  <1>7. Messages'
    BY <1>1, <1>6, MessagesKept DEF OutInv, Messages
  <1> QED
    BY <1>4, <1>5, <1>7 DEF OutInv, Messages

\* A printer that takes or drops the lock of its messages.
LEMMA PrintEdgeOut ==
    ASSUME Names, TypeOK, TypeOK', OutInv, NEW p \in Printer, PrintBegin(p) \/ PrintEnd(p)
    PROVE  OutInv'
  <1>1. UNCHANGED <<wsem, wbusy, at, out, panicked, dev, irq>>
    BY DEF PrintBegin, PrintEnd, outVars
  <1>2. /\ p \in Threads /\ p # NoOne /\ LockOf(p) \in Locks \ {"read", "ls_lock"}
        /\ \A q \in Printer : q \in Threads /\ LockOf(q) \in Locks /\ q # NoOne
        /\ "ls_lock" \in Locks
    BY LockOfType DEF Names, Threads, Locks
  <1>3. \A q \in Printer \ {p} : pc'[q] = pc[q]
    BY <1>2 DEF PrintBegin, PrintEnd, Goto, TypeOK
  <1>4. /\ lock'["ls_lock"] = lock["ls_lock"]
        /\ \A l \in Locks \ {LockOf(p)} : lock'[l] = lock[l]
    BY <1>2 DEF PrintBegin, PrintEnd, Take, Drop, TypeOK
  <1>5. \/ /\ pc[p] = "begin" /\ pc'[p] = "putch"
           /\ lock[LockOf(p)] = NoOne /\ lock'[LockOf(p)] = p
        \/ pc[p] = "putch" /\ pc'[p] = "done"
    BY <1>2 DEF PrintBegin, PrintEnd, Take, Drop, Free, Goto, TypeOK
  <1>6. OneTurn' /\ PollLock' /\ DevShape'
    <2>1. \A q \in Printer : \A x \in {"send", "drain", "poll"} : pc'[q] = x <=> pc[q] = x
      BY <1>3, <1>5
    <2>2. OneTurn'
      BY <1>1, <2>1 DEF OutInv, OneTurn
    <2>3. PollLock'
      BY <1>1, <1>4, <2>1 DEF OutInv, PollLock
    <2>4. DevShape'
      BY <1>1, <2>1 DEF OutInv, DevShape, Busy
    <2> QED
      BY <2>2, <2>3, <2>4
  <1>7. HoldsLock'
    <2>1. ASSUME NEW q \in Printer, pc'[q] \in Active
          PROVE  lock'[LockOf(q)] = q
      <3>1. CASE q = p
        <4>1. pc'[p] # "done"
          BY <2>1, <3>1 DEF Active
        <4> QED
          BY <1>5, <3>1, <4>1
      <3>2. CASE q # p
        <4>1. lock[LockOf(q)] = q
          BY <1>3, <2>1, <3>2 DEF OutInv, HoldsLock
        <4>2. LockOf(q) # LockOf(p)
          <5>1. CASE pc[p] = "begin" /\ lock[LockOf(p)] = NoOne
            BY <1>2, <4>1, <5>1
          <5>2. CASE pc[p] = "putch"
            <6>1. lock[LockOf(p)] = p
              BY <5>2 DEF OutInv, HoldsLock, Active
            <6> QED
              BY <3>2, <4>1, <6>1
          <5> QED
            BY <1>5, <5>1, <5>2
        <4> QED
          BY <1>2, <1>4, <4>1, <4>2
      <3> QED
        BY <3>1, <3>2
    <2>2. ASSUME NEW q \in Printer, pc'[q] = "begin"
          PROVE  at'[q] = 1
      BY <1>1, <1>3, <1>5, <2>2 DEF OutInv, HoldsLock
    <2> QED
      BY <2>1, <2>2 DEF HoldsLock
  <1>8. \A q \in Printer : Passed(q)' = Passed(q)
    BY <1>1, <1>3, <1>5 DEF Passed
  <1>9. \A q \in Printer : pc'[q] \in Active => pc[q] \in Active \/ Passed(q) = 0
    <2>1. pc[p] = "begin" => Passed(p) = 0
      BY SMT DEF OutInv, HoldsLock, Passed
    <2> QED
      BY <1>3, <1>5, <2>1 DEF Active
  <1>10. Messages'
    BY <1>1, <1>8, <1>9, MessagesKept DEF OutInv, Messages
  <1> QED
    BY <1>6, <1>7, <1>10 DEF OutInv, Messages

\* A printer takes the turn from the semaphore.
LEMMA PutchOut ==
    ASSUME Names, TypeOK, TypeOK', OutInv, NEW p \in Printer, putch_intr(p)
    PROVE  OutInv'
  <1>1. UNCHANGED <<lock, wbusy, at, out, panicked, dev, irq>> /\ wsem' = wsem - 1 /\ wsem > 0
    BY DEF putch_intr
  <1>2. /\ pc[p] = "putch" /\ pc'[p] = "send"
        /\ \A q \in Printer \ {p} : pc'[q] = pc[q]
    BY DEF putch_intr, Printing, Goto, TypeOK, Threads
  <1>3. wsem = 1
    BY <1>1, SMT DEF OutInv, OneTurn
  <1>4. OneTurn'
    <2>1. ~wbusy /\ ~irq.start /\ \A q \in Printer : pc[q] # "send"
      BY <1>3 DEF OutInv, OneTurn
    <2>2. \A q \in Printer : pc'[q] = "send" => q = p
      BY <1>2, <2>1
    <2> QED
      BY <1>1, <1>3, <2>1, <2>2, SMT DEF OutInv, OneTurn
  <1>5. PollLock' /\ HoldsLock' /\ DevShape'
    BY <1>1, <1>2, SMT DEF OutInv, PollLock, HoldsLock, DevShape, Busy, Active
  <1>6. \A q \in Printer : Passed(q)' = Passed(q) /\ (pc'[q] \in Active => pc[q] \in Active)
    BY <1>1, <1>2 DEF Passed, Active
  <1>7. Messages'
    BY <1>1, <1>6, MessagesKept DEF OutInv, Messages
  <1> QED
    BY <1>4, <1>5, <1>7 DEF OutInv, Messages

\* With the turn, the device is idle, and gets the character.
LEMMA WriteOut ==
    ASSUME Names, TypeOK, TypeOK', OutInv, NEW p \in Printer, lser_write(p)
    PROVE  OutInv'
  <1>1. pc[p] = "send" /\ lock["ls_lock"] = NoOne
    BY DEF lser_write, Free
  <1>2. ~wbusy /\ wsem = 0 /\ ~irq.start /\ \A q \in Printer : pc[q] = "send" => q = p
    BY <1>1 DEF OutInv, OneTurn
  <1>3. /\ UNCHANGED <<lock, wsem, out, irq, panicked>>
        /\ wbusy' = TRUE /\ dev' = Sent(dev, Char(p)) /\ at' = [at EXCEPT ![p] = @ + 1]
        /\ pc' = [pc EXCEPT ![p] = "putch"]
    BY <1>2 DEF lser_write, Goto
  <1>4. /\ pc'[p] = "putch" /\ at'[p] = at[p] + 1
        /\ \A q \in Printer \ {p} : pc'[q] = pc[q] /\ at'[q] = at[q]
    BY <1>3 DEF TypeOK, Threads
  <1>5. Char(p) \in Chars /\ dev'.tx = Char(p) /\ dev'.ready = dev.ready
    BY <1>3, DevWrite, CharType
  <1>6. \A q \in Printer : pc[q] \notin {"drain", "poll"}
    <2>1. \A q \in Printer : q # NoOne
      BY DEF Names, Threads
    <2> QED
      BY <1>1, <2>1 DEF OutInv, PollLock
  <1>7. dev.tx = NoChar /\ ~dev.ready
    BY <1>2, <1>6 DEF OutInv, DevShape, Busy
  <1>8. OneTurn'
    <2>1. \A q \in Printer : pc'[q] # "send"
      BY <1>2, <1>4
    <2> QED
      BY <1>2, <1>3, <2>1, SMT DEF OutInv, OneTurn
  <1>9. PollLock' /\ HoldsLock'
    BY <1>1, <1>3, <1>4, <1>6 DEF OutInv, PollLock, HoldsLock, Active
  <1>10. DevShape'
    <2>1. dev'.tx # NoChar
      BY <1>5 DEF Names
    <2> QED
      BY <1>3, <1>5, <1>7, <2>1 DEF DevShape, Busy
  <1>11. Passed(p)' = at[p] /\ pc[p] \in Active /\ pc'[p] \in Active /\ pc[p] # "poll"
    BY <1>1, <1>4, SMT DEF Passed, Active, TypeOK
  <1>12. Messages'
    BY <1>3, <1>4, <1>5, <1>7, <1>11, MessagesGrow DEF OutInv, Messages
  <1> QED
    BY <1>8, <1>9, <1>10, <1>12 DEF OutInv, Messages

\* A printer that may not sleep takes ls_lock: the device, if idle, gets its
\* character at once.
LEMMA PolledOut ==
    ASSUME Names, TypeOK, TypeOK', OutInv, NEW p \in Printer, lser_writepolled(p)
    PROVE  OutInv'
  <1>1. pc[p] = "putch" /\ lock["ls_lock"] = NoOne /\ UNCHANGED <<outVars, irq>>
    BY DEF lser_writepolled, Free, Printing
  <1>2. /\ p \in Threads /\ p # NoOne /\ "ls_lock" \in Locks
        /\ \A q \in Printer : q # NoOne /\ LockOf(q) \in Locks \ {"ls_lock"}
    BY LockOfType DEF Names, Threads, Locks
  <1>3. /\ lock'["ls_lock"] = p
        /\ \A l \in Locks \ {"ls_lock"} : lock'[l] = lock[l]
    BY <1>2 DEF lser_writepolled, Take, TypeOK
  <1>4. \A q \in Printer : pc[q] \notin {"drain", "poll"}
    BY <1>1, <1>2 DEF OutInv, PollLock
  <1>5. \A q \in Printer \ {p} : pc'[q] = pc[q]
    <2>1. pc' = [pc EXCEPT ![p] = "drain"] \/ pc' = [pc EXCEPT ![p] = "poll"]
      BY DEF lser_writepolled, Goto
    <2> QED
      BY <1>2, <2>1 DEF TypeOK, Threads
  <1>6. pc'[p] = IF wbusy THEN "drain" ELSE "poll"
    BY <1>2 DEF lser_writepolled, Goto, TypeOK
  <1>7. OneTurn'
    <2>1. \A q \in Printer : pc'[q] = "send" <=> pc[q] = "send"
      BY <1>1, <1>5, <1>6
    <2> QED
      BY <1>1, <2>1 DEF OutInv, OneTurn, outVars
  <1>8. PollLock'
    <2>1. \A q \in Printer : pc'[q] \in {"drain", "poll"} <=> q = p
      BY <1>4, <1>5, <1>6
    <2>2. \A q \in Printer : pc'[q] = "drain" => q = p /\ wbusy
      BY <1>4, <1>5, <1>6
    <2>3. wbusy' = wbusy
      BY <1>1 DEF outVars
    <2> QED
      BY <1>3, <2>1, <2>2, <2>3 DEF PollLock
  <1>9. HoldsLock'
    BY <1>1, <1>2, <1>3, <1>5, <1>6 DEF OutInv, HoldsLock, Active, outVars
  <1>10. CASE wbusy
    <2>1. UNCHANGED dev /\ pc'[p] = "drain"
      BY <1>6, <1>10 DEF lser_writepolled
    <2>2. DevShape'
      BY <1>1, <1>10, <2>1 DEF OutInv, DevShape, Busy, outVars
    <2>3. \A q \in Printer : Passed(q)' = Passed(q) /\ (pc'[q] \in Active => pc[q] \in Active)
      BY <1>1, <1>5, <2>1 DEF Passed, Active, outVars
    <2>4. Messages'
      BY <1>1, <2>1, <2>3, MessagesKept DEF OutInv, Messages, outVars
    <2> QED
      BY <1>7, <1>8, <1>9, <2>2, <2>4 DEF OutInv, Messages
  <1>11. CASE ~wbusy
    <2>1. dev' = Sent(WIRQ(FALSE, FALSE), Char(p)) /\ pc'[p] = "poll"
      BY <1>6, <1>11 DEF lser_writepolled
    <2>2. Char(p) \in Chars /\ dev'.tx = Char(p) /\ dev'.ready = FALSE
      BY <2>1, DevWrite, CharType
    <2>3. dev.tx = NoChar
      BY <1>4, <1>11 DEF OutInv, DevShape, Busy
    <2>4. DevShape'
      <3>1. dev'.tx # NoChar
        BY <2>2 DEF Names
      <3> QED
        BY <2>1, <2>2, <3>1 DEF DevShape, Busy
    <2>5. Passed(p)' = at[p] /\ pc[p] \in Active /\ pc'[p] \in Active /\ pc[p] # "poll"
      BY <1>1, <2>1 DEF Passed, Active, outVars
    <2>6. Messages'
      BY <1>1, <1>5, <2>2, <2>3, <2>5, MessagesGrow DEF OutInv, Messages, outVars
    <2> QED
      BY <1>7, <1>8, <1>9, <2>4, <2>6 DEF OutInv, Messages
  <1> QED
    BY <1>10, <1>11

\* The write that was under way is done, and the device is idle.
LEMMA DrainedOut ==
    ASSUME Names, TypeOK, TypeOK', OutInv, NEW p \in Printer, PollDrained(p)
    PROVE  OutInv'
  <1>1. pc[p] = "drain" /\ dev.ready /\ UNCHANGED <<lock, outVars, irq>>
    BY DEF PollDrained
  <1>2. pc'[p] = "poll" /\ \A q \in Printer \ {p} : pc'[q] = pc[q]
    BY DEF PollDrained, Goto, TypeOK, Threads
  <1>3. wbusy /\ dev.tx = NoChar
    BY <1>1 DEF OutInv, PollLock, DevShape, Busy
  <1>4. dev' = Sent(WIRQ(TRUE, TRUE), Char(p))
    BY DEF PollDrained
  <1>5. Char(p) \in Chars /\ dev'.tx = Char(p) /\ dev'.ready = FALSE
    BY <1>4, DevWrite, CharType
  <1>6. OneTurn'
    <2>1. \A q \in Printer : pc'[q] = "send" <=> pc[q] = "send"
      BY <1>1, <1>2
    <2> QED
      BY <1>1, <2>1 DEF OutInv, OneTurn, outVars
  <1>7. PollLock' /\ HoldsLock'
    BY <1>1, <1>2 DEF OutInv, PollLock, HoldsLock, Active, outVars
  <1>8. DevShape'
    <2>1. dev'.tx # NoChar
      BY <1>5 DEF Names
    <2> QED
      BY <1>2, <1>5, <2>1 DEF DevShape, Busy
  <1>9. Passed(p)' = at[p] /\ pc[p] \in Active /\ pc'[p] \in Active /\ pc[p] # "poll"
    BY <1>1, <1>2 DEF Passed, Active, outVars
  <1>10. Messages'
    BY <1>1, <1>2, <1>3, <1>5, <1>9, MessagesGrow DEF OutInv, Messages, outVars
  <1> QED
    BY <1>6, <1>7, <1>8, <1>10 DEF OutInv, Messages

\* The polled character is out; a write that was waiting keeps its ready
\* condition.
LEMMA DoneOut ==
    ASSUME Names, TypeOK, TypeOK', OutInv, NEW p \in Printer, PollDone(p)
    PROVE  OutInv'
  <1>1. pc[p] = "poll" /\ dev.ready /\ UNCHANGED <<wsem, wbusy, out, panicked, irq>>
    BY DEF PollDone
  <1>2. /\ p \in Threads /\ p # NoOne /\ "ls_lock" \in Locks
        /\ \A q \in Printer : q # NoOne /\ LockOf(q) \in Locks \ {"ls_lock"}
    BY LockOfType DEF Names, Threads, Locks
  <1>3. /\ pc'[p] = "putch" /\ at'[p] = at[p] + 1
        /\ \A q \in Printer \ {p} : pc'[q] = pc[q] /\ at'[q] = at[q]
    BY <1>2, SMT DEF PollDone, Goto, TypeOK
  <1>4. lock["ls_lock"] = p /\ lock'["ls_lock"] = NoOne
        /\ \A l \in Locks \ {"ls_lock"} : lock'[l] = lock[l]
    BY <1>1, <1>2 DEF PollDone, Drop, TypeOK, OutInv, PollLock
  <1>5. \A q \in Printer : pc'[q] \notin {"drain", "poll"}
    BY <1>3, <1>4 DEF OutInv, PollLock
  <1>6. dev.tx = NoChar /\ dev'.tx = NoChar /\ dev'.ready = wbusy
    <2>1. dev.tx = NoChar
      BY <1>1 DEF OutInv, DevShape, Busy
    <2>2. CASE wbusy
      <3>1. dev' = dev /\ wbusy = TRUE /\ dev.ready = TRUE
        BY <1>1, <2>2 DEF PollDone, TypeOK, DevType
      <3> QED
        BY <2>1, <3>1
    <2>3. CASE ~wbusy
      <3>1. dev' = WIRQ(TRUE, FALSE) /\ wbusy = FALSE
        BY <2>3 DEF PollDone, TypeOK
      <3> QED
        BY <2>1, <3>1 DEF WIRQ, TypeOK, DevType
    <2> QED
      BY <2>2, <2>3
  <1>7. OneTurn'
    <2>1. \A q \in Printer : pc'[q] = "send" <=> pc[q] = "send"
      BY <1>1, <1>3
    <2> QED
      BY <1>1, <2>1 DEF OutInv, OneTurn
  <1>8. PollLock'
    BY <1>2, <1>4, <1>5 DEF PollLock
  <1>9. HoldsLock'
    BY <1>1, <1>2, <1>3, <1>4, SMT DEF OutInv, HoldsLock, Active
  <1>10. DevShape'
    BY <1>1, <1>5, <1>6 DEF DevShape, Busy
  <1>11. \A q \in Printer : Passed(q)' = Passed(q) /\ (pc'[q] \in Active => pc[q] \in Active)
    BY <1>1, <1>3, SMT DEF Passed, Active, TypeOK
  <1>12. Messages'
    BY <1>1, <1>6, <1>11, MessagesKept DEF OutInv, Messages
  <1> QED
    BY <1>7, <1>8, <1>9, <1>10, <1>12 DEF OutInv, Messages

\* Every step keeps the invariant of the output.
LEMMA NextOut ==
    ASSUME Names, TypeOK, TypeOK', OutInv, ConsoleNext
    PROVE  OutInv'
  <1>1. CASE Transmit
    BY <1>1, TransmitOut
  <1>2. CASE Type
    <2>1. dev'.tx = dev.tx /\ dev'.ready = dev.ready
      BY <1>2 DEF Type, TypeOK, DevType
    <2> QED
      BY <1>2, <2>1, OutFrame DEF Type
  <1>3. CASE lser_irq
    BY <1>3, IrqOut
  <1>4. CASE con_start
    BY <1>4, StartOut
  <1>5. CASE con_input \/ IrqReturn
    <2>1. irq'.start = irq.start
      BY <1>5 DEF con_input, IrqReturn, TypeOK, IrqType
    <2> QED
      BY <1>5, <2>1, OutFrame DEF con_input, IrqReturn
  <1>6. ASSUME NEW p \in Printer, Output(p)
        PROVE  OutInv'
    BY <1>6, PrintEdgeOut, PutchOut, WriteOut, PolledOut, DrainedOut, DoneOut DEF Output
  <1>7. ASSUME NEW r \in Readers, Input(r)
        PROVE  OutInv'
    <2>1. UNCHANGED <<outVars, dev, irq>>
      BY <1>7 DEF Input, ReadBegin, getch_intr, GetchTake, GetchReturn
    <2>2. \A p \in Printer : pc'[p] = pc[p]
      <3>1. \A p \in Printer : p # r /\ p \in Threads /\ r \in Threads
        BY DEF Names, Threads
      <3>2. \E x : pc' = [pc EXCEPT ![r] = x]
        BY <1>7 DEF Input, ReadBegin, getch_intr, GetchTake, GetchReturn, Goto
      <3> QED
        BY <3>1, <3>2 DEF TypeOK
    <2>3. \A l \in Locks \ {"read"} : lock'[l] = lock[l]
      <3>1. lock' = lock \/ \E x : lock' = [lock EXCEPT !["read"] = x]
        BY <1>7 DEF Input, ReadBegin, getch_intr, GetchTake, GetchReturn, Take, Drop
      <3> QED
        BY <3>1 DEF TypeOK
    <2> QED
      BY <2>1, <2>2, <2>3, OutFrame
  <1> QED
    BY <1>1, <1>2, <1>3, <1>4, <1>5, <1>6, <1>7 DEF ConsoleNext, Interrupt, Readers

\* Initially nothing has been printed and the semaphore has the turn.
LEMMA InitOut ==
    ASSUME Names, ConsoleInit
    PROVE  OutInv
  <1>1. /\ \A t \in Threads : pc[t] = "begin"
        /\ \A p \in Printer : at[p] = 1 /\ p \in Threads /\ p # NoOne
        /\ lock["ls_lock"] = NoOne
    BY DEF Names, ConsoleInit, Threads, Readers, Locks
  <1>2. dev.tx = NoChar /\ ~dev.ready /\ ~irq.start /\ ~wbusy /\ wsem = 1 /\ ~panicked /\ out = <<>>
    BY DEF ConsoleInit
  <1>3. OneTurn
    BY <1>1, <1>2 DEF OneTurn
  <1>4. PollLock /\ HoldsLock
    BY <1>1, <1>2 DEF PollLock, HoldsLock, Active
  <1>5. DevShape
    BY <1>1, <1>2 DEF DevShape, Busy
  <1>6. Given = <<>>
    BY <1>2, SMT DEF Given
  <1>7. \A p \in Printer : Passed(p) = 0
    BY <1>1, SMT DEF Passed
  <1>8. Shown(Given) /\ Ordered(Given) /\ Whole(Given)
    BY <1>6, <1>7, SMT DEF Shown, Ordered, Whole
  <1> QED
    BY <1>3, <1>4, <1>5, <1>8 DEF OutInv

----------------------------------------------------------------------------
(* Input: the ring *)

\* A position of the ring, at most one turn too far.
Turned(x, B) == IF x < B THEN x ELSE x - B

\* Going round the ring forwards.
LEMMA Wraps ==
    ASSUME NEW B \in Nat \ {0}, NEW x \in 0 .. B + B - 1
    PROVE  x % B = Turned(x, B)
  BY SMT DEF Turned

\* Going round the ring backwards.
LEMMA WrapsBelow ==
    ASSUME NEW B \in Nat \ {0}, NEW x \in -B .. -1
    PROVE  x % B = x + B
  BY SMT

\* What is taken modulo the size of the ring is a position in it.
LEMMA ModRange ==
    ASSUME NEW B \in Nat \ {0}, NEW x \in Int
    PROVE  x % B \in 0 .. B - 1
  BY SMT

\* The number of keys in a ring.
Count(h, t, B) == IF h >= t THEN h - t ELSE h - t + B

LEMMA RingCount ==
    ASSUME NEW B \in Nat \ {0}, NEW h \in 0 .. B - 1, NEW t \in 0 .. B - 1
    PROVE  (h - t) % B = Count(h, t, B)
  <1>1. CASE h >= t
    <2>1. h - t \in 0 .. B + B - 1 /\ h - t < B
      BY <1>1, SMT
    <2>2. (h - t) % B = Turned(h - t, B)
      BY <2>1, Wraps
    <2> QED
      BY <1>1, <2>1, <2>2 DEF Turned, Count
  <1>2. CASE h < t
    <2>1. h - t \in -B .. -1
      BY <1>2, SMT
    <2>2. (h - t) % B = (h - t) + B
      BY <2>1, WrapsBelow
    <2> QED
      BY <1>2, <2>2, SMT DEF Count
  <1> QED
    BY <1>1, <1>2, SMT

\* Unless it is full a ring takes one more key, behind the others.
PutKey(h, t, k, n, B) ==
    /\ n \in 0 .. B - 1 /\ k \in 0 .. B - 1
    /\ (k - t) % B = n + 1
    /\ (t + n) % B = h
    /\ \A i \in 1 .. n : (t + i - 1) % B # h

LEMMA RingPut ==
    ASSUME NEW B \in Nat \ {0}, NEW h \in 0 .. B - 1, NEW t \in 0 .. B - 1,
           NEW k, k = (h + 1) % B, k # t, NEW n, n = (h - t) % B
    PROVE  PutKey(h, t, k, n, B)
  <1>1. n = Count(h, t, B) /\ n \in 0 .. B - 1
    BY RingCount, SMT DEF Count
  <1>2. h + 1 \in 0 .. B + B - 1
    BY SMT
  <1>3. k = Turned(h + 1, B)
    BY <1>2, Wraps
  <1>4. k \in 0 .. B - 1
    BY <1>3, SMT DEF Turned
  <1>5. (k - t) % B = Count(k, t, B)
    BY <1>4, RingCount
  <1>6. Count(k, t, B) = n + 1
    BY <1>1, <1>3, <1>4, SMT DEF Count, Turned
  <1>7. t + n \in 0 .. B + B - 1
    BY <1>1, SMT
  <1>8. (t + n) % B = Turned(t + n, B)
    BY <1>7, Wraps
  <1>9. Turned(t + n, B) = h
    BY <1>1, SMT DEF Count, Turned
  <1>10. ASSUME NEW i \in 1 .. n
         PROVE  (t + i - 1) % B # h
    <2>1. t + i - 1 \in 0 .. B + B - 1
      BY <1>1, SMT
    <2>2. (t + i - 1) % B = Turned(t + i - 1, B)
      BY <2>1, Wraps
    <2>3. Turned(t + i - 1, B) # h
      BY <1>1, SMT DEF Count, Turned
    <2> QED
      BY <2>2, <2>3
  <1> QED
    BY <1>1, <1>4, <1>5, <1>6, <1>8, <1>9, <1>10 DEF PutKey

\* Taking the first key leaves the others, in order.
GotKey(h, t, k, n, B) ==
    /\ n \in 1 .. B - 1 /\ k \in 0 .. B - 1
    /\ (h - k) % B = n - 1
    /\ (t + 1 - 1) % B = t
    /\ \A i \in 1 .. n - 1 : (k + i - 1) % B = (t + (i + 1) - 1) % B

LEMMA RingGet ==
    ASSUME NEW B \in Nat \ {0}, NEW h \in 0 .. B - 1, NEW t \in 0 .. B - 1,
           NEW k, k = (t + 1) % B, NEW n, n = (h - t) % B, n # 0
    PROVE  GotKey(h, t, k, n, B)
  <1>1. n = Count(h, t, B) /\ n \in 1 .. B - 1
    BY RingCount, SMT DEF Count
  <1>2. t + 1 \in 0 .. B + B - 1 /\ t + 1 - 1 \in 0 .. B + B - 1
    BY SMT
  <1>3. k = Turned(t + 1, B) /\ (t + 1 - 1) % B = Turned(t + 1 - 1, B)
    BY <1>2, Wraps
  <1>4. k \in 0 .. B - 1 /\ Turned(t + 1 - 1, B) = t
    BY <1>3, SMT DEF Turned
  <1>5. (h - k) % B = Count(h, k, B)
    BY <1>4, RingCount
  <1>6. Count(h, k, B) = n - 1
    BY <1>1, <1>3, <1>4, SMT DEF Count, Turned
  <1>7. ASSUME NEW i \in 1 .. n - 1
        PROVE  (k + i - 1) % B = (t + (i + 1) - 1) % B
    <2>1. k + i - 1 \in 0 .. B + B - 1 /\ t + (i + 1) - 1 \in 0 .. B + B - 1
      BY <1>1, <1>4, SMT
    <2>2. /\ (k + i - 1) % B = Turned(k + i - 1, B)
          /\ (t + (i + 1) - 1) % B = Turned(t + (i + 1) - 1, B)
      BY <2>1, Wraps
    <2>3. Turned(k + i - 1, B) = Turned(t + (i + 1) - 1, B)
      BY <1>1, <1>3, <1>4, SMT DEF Count, Turned
    <2> QED
      BY <2>2, <2>3
  <1> QED
    BY <1>1, <1>3, <1>4, <1>5, <1>6, <1>7 DEF GotKey

----------------------------------------------------------------------------
(* Input: the keys *)

\* The keys returned so far and those in a ring, one after the other.
Joined(g, buf, h, t) ==
    g \o [i \in 1 .. (h - t) % BufSize |-> buf[(t + i - 1) % BufSize]]

Joint(k, g, n, buf, t) ==
    /\ n \in 0 .. BufSize - 1
    /\ k \in Seq(Nat) /\ Len(k) = Len(g) + n
    /\ \A i \in 1 .. Len(g) : k[i] = g[i]
    /\ \A i \in 1 .. n : k[Len(g) + i] = buf[(t + i - 1) % BufSize]

\* A function on 1 .. n is a sequence of length n.
LEMMA FcnIsSeq ==
    ASSUME NEW n \in Nat, NEW b \in [1 .. n -> Nat]
    PROVE  b \in Seq(Nat) /\ Len(b) = n
  BY SMT

\* What the elements of such a sequence are.
LEMMA JoinedAre ==
    ASSUME Names, NEW g \in Seq(Nat), NEW buf \in [0 .. BufSize - 1 -> Nat],
           NEW h \in 0 .. BufSize - 1, NEW t \in 0 .. BufSize - 1,
           NEW n, n = (h - t) % BufSize, NEW k, k = Joined(g, buf, h, t)
    PROVE  Joint(k, g, n, buf, t)
  <1> BufSize \in Nat \ {0}
    BY DEF Names
  <1>1. n \in 0 .. BufSize - 1
    BY RingCount, SMT DEF Count
  <1>2. ASSUME NEW i \in 1 .. n
        PROVE  (t + i - 1) % BufSize \in 0 .. BufSize - 1
    <2>1. t + i - 1 \in 0 .. BufSize + BufSize - 1
      BY <1>1, SMT
    <2>2. (t + i - 1) % BufSize = Turned(t + i - 1, BufSize)
      BY <2>1, Wraps
    <2> QED
      BY <2>1, <2>2, SMT DEF Turned
  <1> PICK b : b = [i \in 1 .. n |-> buf[(t + i - 1) % BufSize]]
    OBVIOUS
  <1>3. b \in Seq(Nat) /\ Len(b) = n /\ \A i \in 1 .. n : b[i] = buf[(t + i - 1) % BufSize]
    <2>1. \A i \in 1 .. n : buf[(t + i - 1) % BufSize] \in Nat
      BY <1>2
    <2>2. b \in [1 .. n -> Nat] /\ \A i \in 1 .. n : b[i] = buf[(t + i - 1) % BufSize]
      BY <2>1
    <2>3. n \in Nat
      BY <1>1, SMT
    <2> QED
      BY <2>2, <2>3, FcnIsSeq
  <1>4. k = g \o b
    BY DEF Joined
  <1>5. /\ g \o b \in Seq(Nat) /\ Len(g \o b) = Len(g) + n
        /\ \A i \in 1 .. Len(g) : (g \o b)[i] = g[i]
        /\ \A i \in 1 .. n : (g \o b)[Len(g) + i] = b[i]
    BY <1>1, <1>3, SMT
  <1> QED
    BY <1>1, <1>3, <1>4, <1>5 DEF Joint

\* The keys are such a sequence, before and after a step.
LEMMA KeysAre ==
    ASSUME Names, TypeOK, TypeOK'
    PROVE  /\ Joint(Keys, got, Held, ring.buf, ring.tail)
           /\ Joint(Keys', got', Held', ring'.buf, ring'.tail)
  <1>1. /\ Keys = Joined(got, ring.buf, ring.head, ring.tail)
        /\ Keys' = Joined(got', ring'.buf, ring'.head, ring'.tail)
        /\ Held = (ring.head - ring.tail) % BufSize
        /\ Held' = (ring'.head - ring'.tail) % BufSize
    BY DEF Keys, Joined, Buffered, Held
  <1>2. /\ got \in Seq(Nat) /\ ring.buf \in [0 .. BufSize - 1 -> Nat]
        /\ ring.head \in 0 .. BufSize - 1 /\ ring.tail \in 0 .. BufSize - 1
        /\ got' \in Seq(Nat) /\ ring'.buf \in [0 .. BufSize - 1 -> Nat]
        /\ ring'.head \in 0 .. BufSize - 1 /\ ring'.tail \in 0 .. BufSize - 1
    BY DEF TypeOK, RingType
  <1> QED
    BY <1>1, <1>2, JoinedAre

\* The number of readers between P(cs_rsem) and the move of the tail.
LEMMA InGetchFinite ==
    ASSUME Names
    PROVE  IsFiniteSet(InGetch) /\ Cardinality(InGetch) \in Nat
  <1>1. InGetch \subseteq Readers
    BY DEF InGetch, Readers
  <1> QED
    BY <1>1, FS_Subset, FS_CardinalityType DEF Names

\* Steps that leave the ring and the readers alone; a key may go from the device
\* to the handler.
LEMMA InFrame ==
    ASSUME Names, TypeOK, TypeOK', InInv, UNCHANGED inVars, Pending',
           lock'["read"] = lock["read"], \A r \in Readers : pc'[r] = pc[r],
           \A x \in Nat : Older(x) => Older(x)'
    PROVE  InInv'
  <1>1. InGetch' = InGetch
    BY DEF InGetch, Readers
  <1>2. Held' = Held /\ rsem' = rsem /\ Keys' = Keys /\ shared' = shared
    BY DEF inVars, Held, Keys, Buffered
  <1>3. ReadLock'
    BY DEF InInv, ReadLock, Readers
  <1>4. Alone => Alone'
    BY <1>1 DEF Alone
  <1>5. HasKey => HasKey'
    BY DEF HasKey, inVars
  <1>6. Increasing(Keys) => Increasing(Keys)'
    BY <1>2 DEF Increasing
  <1>7. ASSUME NEW i \in 1 .. Len(Keys'), \A j \in 1 .. Len(Keys) : Older(Keys[j])
        PROVE  Older(Keys[i])'
    <2> PICK x : x = Keys[i]
      OBVIOUS
    <2>1. x \in Nat
      <3>1. Keys \in Seq(Nat)
        BY KeysAre DEF Joint
      <3> QED
        BY <1>2, <3>1, SMT
    <2>2. Older(x)'
      BY <1>2, <1>7, <2>1
    <2>3. Keys'[i] = x
      BY <1>2
    <2> QED
      BY <2>2, <2>3 DEF Older
  <1> QED
    BY <1>1, <1>2, <1>3, <1>4, <1>5, <1>6, <1>7 DEF InInv

\* A step that leaves the keys as they are.
LEMMA KeysKept ==
    ASSUME Len(Keys') = Len(Keys), \A i \in 1 .. Len(Keys) : Keys'[i] = Keys[i],
           Increasing(Keys), \A i \in 1 .. Len(Keys) : Older(Keys[i]),
           UNCHANGED <<typed, irq, dev>>
    PROVE  Increasing(Keys)' /\ (\A i \in 1 .. Len(Keys) : Older(Keys[i]))'
  <1>1. Increasing(Keys)'
    BY SMT DEF Increasing
  <1>2. ASSUME NEW i \in 1 .. Len(Keys')
        PROVE  Older(Keys[i])'
    <2>1. Keys'[i] = Keys[i] /\ Older(Keys[i])
      OBVIOUS
    <2> QED
      BY <2>1 DEF Older
  <1> QED
    BY <1>1, <1>2

\* A reader begins.
LEMMA ReadBeginIn ==
    ASSUME Names, TypeOK, TypeOK', InInv, NEW r \in Readers, ReadBegin(r)
    PROVE  InInv'
  <1>1. UNCHANGED <<dev, irq, inVars, typed>> /\ pc[r] = "begin"
    BY DEF ReadBegin
  <1>2. pc'[r] = "getch" /\ \A s \in Readers \ {r} : pc'[s] = pc[s]
    BY DEF ReadBegin, Goto, TypeOK, Threads
  <1>3. InGetch' = InGetch
    BY <1>1, <1>2 DEF InGetch, Readers
  <1>4. Held' = Held /\ rsem' = rsem /\ Keys' = Keys /\ shared' = shared
    BY <1>1 DEF inVars, Held, Keys, Buffered
  <1>5. ReadLock'
    <2> SUFFICES ASSUME NEW s \in Reader \ Menu, pc'[s] \in {"getch", "take", "advance"}
                 PROVE  lock'["read"] = s
      BY DEF ReadLock
    <2>1. s \in Readers /\ s # NoOne /\ "read" \in Locks
      BY DEF Readers, Names, Threads, Locks
    <2>2. CASE s = r
      BY <2>1, <2>2 DEF ReadBegin, Take, TypeOK
    <2>3. CASE s # r
      <3>1. lock["read"] = s
        BY <1>2, <2>1, <2>3 DEF InInv, ReadLock
      <3>2. r \in Menu /\ lock' = lock
        BY <2>1, <3>1 DEF ReadBegin, Free
      <3> QED
        BY <3>1, <3>2
    <2> QED
      BY <2>2, <2>3
  <1>6. Pending'
    BY <1>1 DEF InInv, Pending
  <1>7. ASSUME ~shared
        PROVE  (Alone /\ HasKey /\ Increasing(Keys) /\ \A i \in 1 .. Len(Keys) : Older(Keys[i]))'
    <2>1. Alone /\ HasKey /\ Increasing(Keys) /\ \A i \in 1 .. Len(Keys) : Older(Keys[i])
      BY <1>7 DEF InInv
    <2>2. Alone'
      BY <1>3, <2>1 DEF Alone
    <2>3. HasKey'
      BY <1>1, <1>2, <2>1 DEF HasKey, inVars
    <2> QED
      BY <1>1, <1>4, <2>1, <2>2, <2>3, KeysKept
  <1> QED
    BY <1>3, <1>4, <1>5, <1>6, <1>7 DEF InInv

\* A reader passes P(cs_rsem): a key in the ring is its own, and unless kgets is
\* involved it is the only reader there.
LEMMA GetchIn ==
    ASSUME Names, TypeOK, TypeOK', InInv, NEW r \in Readers, getch_intr(r)
    PROVE  InInv'
  <1>1. UNCHANGED <<lock, dev, irq, ring, val, got, typed>> /\ pc[r] = "getch"
    BY DEF getch_intr
  <1>2. pc'[r] = "take" /\ \A s \in Readers \ {r} : pc'[s] = pc[s]
    BY DEF getch_intr, Goto, TypeOK, Threads
  <1>3. InGetch' = InGetch \cup {r} /\ r \notin InGetch
    BY <1>1, <1>2 DEF InGetch, Readers
  <1>4. Cardinality(InGetch') = Cardinality(InGetch) + 1
    BY <1>3, InGetchFinite, FS_AddElement
  <1>5. Held' = Held /\ Keys' = Keys
    BY <1>1 DEF Held, Keys, Buffered
  <1>6. Held' = rsem' + Cardinality(InGetch')
    <2>1. Held = rsem + Cardinality(InGetch) /\ rsem' = rsem - 1 /\ rsem \in Nat
      BY DEF InInv, getch_intr, TypeOK
    <2> QED
      BY <1>4, <1>5, <2>1, InGetchFinite, SMT
  <1>7. ReadLock'
    BY <1>1, <1>2 DEF InInv, ReadLock, Readers
  <1>8. Pending'
    BY <1>1 DEF InInv, Pending
  <1>9. ASSUME ~shared'
        PROVE  (Alone /\ HasKey /\ Increasing(Keys) /\ \A i \in 1 .. Len(Keys) : Older(Keys[i]))'
    <2>1. ~shared /\ (InGetch = {} \/ ({r} \cup InGetch) \cap Menu = {})
      <3>1. shared' = (shared \/ (InGetch # {} /\ ({r} \cup InGetch) \cap Menu # {}))
        BY DEF getch_intr
      <3> QED
        BY <1>9, <3>1
    <2>2. Alone /\ HasKey /\ Increasing(Keys) /\ \A i \in 1 .. Len(Keys) : Older(Keys[i])
      BY <2>1 DEF InInv
    <2>3. InGetch = {}
      <3> SUFFICES ASSUME NEW s \in InGetch
                   PROVE  FALSE
        OBVIOUS
      <3>1. r \in Reader \ Menu /\ s \in Reader \ Menu
        BY <2>1 DEF InGetch, Readers
      <3>2. lock["read"] = r /\ lock["read"] = s
        BY <1>1, <3>1 DEF InInv, ReadLock, InGetch
      <3> QED
        BY <1>3, <3>2
    <2>4. Alone'
      BY <1>3, <2>3 DEF Alone
    <2>5. HasKey'
      BY <1>1, <1>2, <2>2 DEF HasKey
    <2> QED
      BY <1>1, <1>5, <2>2, <2>4, <2>5, KeysKept
  <1> QED
    BY <1>6, <1>7, <1>8, <1>9 DEF InInv

\* A reader reads the key at the tail.
LEMMA TakeIn ==
    ASSUME Names, TypeOK, TypeOK', InInv, NEW r \in Readers, GetchTake(r)
    PROVE  InInv'
  <1>1. UNCHANGED <<lock, dev, irq, ring, rsem, got, shared, typed>> /\ pc[r] = "take"
    BY DEF GetchTake
  <1>2. pc'[r] = "advance" /\ \A s \in Readers \ {r} : pc'[s] = pc[s]
    BY DEF GetchTake, Goto, TypeOK, Threads
  <1>3. val'[r] = ring.buf[ring.tail] /\ \A s \in Readers \ {r} : val'[s] = val[s]
    BY DEF GetchTake, TypeOK
  <1>4. InGetch' = InGetch
    BY <1>1, <1>2 DEF InGetch, Readers
  <1>5. Held' = Held /\ Keys' = Keys
    BY <1>1 DEF Held, Keys, Buffered
  <1>6. ReadLock' /\ Pending'
    BY <1>1, <1>2 DEF InInv, ReadLock, Readers, Pending
  <1>7. ASSUME ~shared
        PROVE  (Alone /\ HasKey /\ Increasing(Keys) /\ \A i \in 1 .. Len(Keys) : Older(Keys[i]))'
    <2>1. Alone /\ HasKey /\ Increasing(Keys) /\ \A i \in 1 .. Len(Keys) : Older(Keys[i])
      BY <1>7 DEF InInv
    <2>2. Alone'
      BY <1>4, <2>1 DEF Alone
    <2>3. HasKey'
      BY <1>1, <1>2, <1>3, <2>1 DEF HasKey
    <2> QED
      BY <1>1, <1>5, <2>1, <2>2, <2>3, KeysKept
  <1> QED
    BY <1>1, <1>4, <1>5, <1>6, <1>7 DEF InInv

\* A reader moves the tail past its key, which is the next to be returned.
LEMMA ReturnIn ==
    ASSUME Names, TypeOK, TypeOK', InInv, NEW r \in Readers, GetchReturn(r)
    PROVE  InInv'
  <1>1. /\ UNCHANGED <<dev, irq, rsem, val, shared, typed>> /\ pc[r] = "advance"
        /\ ring' = [ring EXCEPT !.tail = (ring.tail + 1) % BufSize]
        /\ got' = Append(got, val[r])
    BY DEF GetchReturn
  <1>2. pc'[r] \in {"getch", "begin"} /\ \A s \in Readers \ {r} : pc'[s] = pc[s]
    <2>1. pc' = [pc EXCEPT ![r] = "getch"] \/ pc' = [pc EXCEPT ![r] = "begin"]
      BY DEF GetchReturn, Goto
    <2>2. r \in Threads /\ \A s \in Readers : s \in Threads
      BY DEF Threads
    <2>3. CASE pc' = [pc EXCEPT ![r] = "getch"]
      BY <2>2, <2>3 DEF TypeOK
    <2>4. CASE pc' = [pc EXCEPT ![r] = "begin"]
      BY <2>2, <2>4 DEF TypeOK
    <2> QED
      BY <2>1, <2>3, <2>4
  <1>3. InGetch' = InGetch \ {r} /\ r \in InGetch
    BY <1>1, <1>2 DEF InGetch, Readers
  <1>4. Cardinality(InGetch') = Cardinality(InGetch) - 1 /\ Cardinality(InGetch) # 0
    <2>1. Cardinality(InGetch \ {r}) = Cardinality(InGetch) - 1
      BY <1>3, InGetchFinite, FS_RemoveElement
    <2>2. Cardinality(InGetch) # 0
      BY <1>3, InGetchFinite, FS_EmptySet
    <2> QED
      BY <1>3, <2>1, <2>2
  <1> PICK h, t, buf, n, k2 : h = ring.head /\ t = ring.tail /\ buf = ring.buf /\ n = Held
                              /\ k2 = (t + 1) % BufSize
    OBVIOUS
  <1>5. /\ BufSize \in Nat \ {0} /\ h \in 0 .. BufSize - 1 /\ t \in 0 .. BufSize - 1
        /\ buf \in [0 .. BufSize - 1 -> Nat] /\ got \in Seq(Nat) /\ val[r] \in Nat
    BY DEF Names, TypeOK, RingType
  <1>6. ring'.head = h /\ ring'.tail = k2 /\ ring'.buf = buf
    BY <1>1 DEF TypeOK, RingType
  <1>7. n = (h - t) % BufSize /\ n = rsem + Cardinality(InGetch) /\ n # 0
    <2>1. n = rsem + Cardinality(InGetch) /\ rsem \in Nat
      BY DEF InInv, TypeOK
    <2>2. n # 0
      BY <1>4, <2>1, InGetchFinite, SMT
    <2> QED
      BY <2>1, <2>2 DEF Held
  <1>8. /\ n \in 1 .. BufSize - 1 /\ k2 \in 0 .. BufSize - 1
        /\ (h - k2) % BufSize = n - 1
        /\ (t + 1 - 1) % BufSize = t
        /\ \A i \in 1 .. n - 1 : (k2 + i - 1) % BufSize = (t + (i + 1) - 1) % BufSize
    <2>1. GotKey(h, t, k2, n, BufSize)
      BY <1>5, <1>7, RingGet
    <2> QED
      BY <2>1 DEF GotKey
  <1>9. Held' = n - 1
    BY <1>6, <1>8 DEF Held
  <1>10. Held' = rsem' + Cardinality(InGetch')
    <2>1. Cardinality(InGetch) \in Nat /\ rsem \in Nat /\ n = rsem + Cardinality(InGetch)
      BY <1>7, InGetchFinite DEF TypeOK
    <2> QED
      BY <1>1, <1>4, <1>9, <2>1, SMT
  <1>11. ReadLock'
    <2> SUFFICES ASSUME NEW s \in Reader \ Menu, pc'[s] \in {"getch", "take", "advance"}
                 PROVE  lock'["read"] = s
      BY DEF ReadLock
    <2>1. s \in Readers /\ "read" \in Locks
      BY DEF Readers, Locks
    <2>2. lock["read"] = s
      BY <1>1, <1>2, <2>1 DEF InInv, ReadLock
    <2>3. CASE lock' = lock
      BY <2>2, <2>3
    <2>4. CASE lock' # lock
      <3>1. pc'[r] = "begin" /\ r \notin Menu
        BY <2>4 DEF GetchReturn, Goto, TypeOK, Threads
      <3>2. lock["read"] = r
        BY <1>1, <3>1 DEF InInv, ReadLock, Readers
      <3> QED
        BY <2>2, <3>1, <3>2
    <2> QED
      BY <2>3, <2>4
  <1>12. Pending'
    BY <1>1 DEF InInv, Pending
  <1>13. ASSUME ~shared
         PROVE  (Alone /\ HasKey /\ Increasing(Keys) /\ \A i \in 1 .. Len(Keys) : Older(Keys[i]))'
    <2>1. Alone /\ HasKey /\ Increasing(Keys) /\ \A i \in 1 .. Len(Keys) : Older(Keys[i])
      BY <1>13 DEF InInv
    <2>2. InGetch' = {}
      BY <1>3, <2>1 DEF Alone
    <2>3. Alone' /\ HasKey'
      BY <2>2 DEF Alone, HasKey, InGetch, Readers
    <2>4. val[r] = buf[t]
      BY <1>1, <2>1 DEF HasKey
    <2> PICK m \in Nat : m = Len(got)
      BY <1>5, SMT
    <2>5. Len(got') = m + 1 /\ got'[m + 1] = buf[t] /\ \A i \in 1 .. m : got'[i] = got[i]
      BY <1>1, <1>5, <2>4, SMT
    <2>6. /\ Len(Keys) = m + n
          /\ \A i \in 1 .. m : Keys[i] = got[i]
          /\ \A i \in 1 .. n : Keys[m + i] = buf[(t + i - 1) % BufSize]
      BY KeysAre DEF Joint
    <2>7. /\ Len(Keys') = (m + 1) + (n - 1)
          /\ \A i \in 1 .. m + 1 : Keys'[i] = got'[i]
          /\ \A i \in 1 .. n - 1 : Keys'[(m + 1) + i] = buf[(k2 + i - 1) % BufSize]
      BY <1>6, <1>9, <2>5, KeysAre DEF Joint
    <2>8. ASSUME NEW i \in 1 .. m + n
          PROVE  Keys'[i] = Keys[i]
      <3>1. CASE i \in 1 .. m
        BY <2>5, <2>6, <2>7, <3>1, SMT
      <3>2. CASE i = m + 1
        <4>1. Keys'[m + 1] = buf[t]
          BY <2>5, <2>7, SMT
        <4>2. 1 \in 1 .. n
          BY <1>8, SMT
        <4>3. Keys[m + 1] = buf[(t + 1 - 1) % BufSize]
          BY <2>6, <4>2
        <4> QED
          BY <1>8, <3>2, <4>1, <4>3
      <3>3. CASE i > m + 1
        <4> PICK j \in 1 .. n - 1 : i = (m + 1) + j /\ i = m + (j + 1) /\ j + 1 \in 1 .. n
          <5>1. i - (m + 1) \in 1 .. n - 1
            BY <1>8, <3>3, SMT
          <5>2. /\ i = (m + 1) + (i - (m + 1)) /\ i = m + ((i - (m + 1)) + 1)
                /\ (i - (m + 1)) + 1 \in 1 .. n
            BY <1>8, <3>3, SMT
          <5> QED
            BY <5>1, <5>2
        <4>1. Keys'[(m + 1) + j] = buf[(k2 + j - 1) % BufSize]
          BY <2>7
        <4>2. Keys[m + (j + 1)] = buf[(t + (j + 1) - 1) % BufSize]
          BY <2>6
        <4> QED
          BY <1>8, <4>1, <4>2
      <3> QED
        BY <1>8, <3>1, <3>2, <3>3, SMT
    <2>9. Len(Keys') = Len(Keys)
      BY <1>8, <2>6, <2>7, SMT
    <2> QED
      BY <1>1, <2>1, <2>3, <2>6, <2>8, <2>9, KeysKept
  <1> QED
    BY <1>1, <1>10, <1>11, <1>12, <1>13 DEF InInv

\* The handler puts a key into the ring, behind the others, unless it is full.
LEMMA ConInputIn ==
    ASSUME Names, TypeOK, TypeOK', InInv, con_input
    PROVE  InInv'
  <1>1. /\ UNCHANGED <<lock, dev, pc, val, got, shared, typed>> /\ irq.on /\ irq.input # 0
        /\ irq' = [irq EXCEPT !.input = 0]
    BY DEF con_input
  <1>2. irq'.input = 0
    BY <1>1 DEF TypeOK, IrqType
  <1>3. InGetch' = InGetch
    BY <1>1 DEF InGetch
  <1>4. ReadLock'
    BY <1>1 DEF InInv, ReadLock
  <1>5. Pending'
    BY <1>1, <1>2 DEF InInv, Pending
  <1>6. \A x \in Nat : Older(x) => Older(x)'
    BY <1>1, <1>2 DEF Older
  <1>7. CASE (ring.head + 1) % BufSize = ring.tail
    <2>1. UNCHANGED inVars
      BY <1>1, <1>7 DEF con_input, inVars
    <2> QED
      BY <1>1, <1>5, <1>6, <2>1, InFrame
  <1>8. CASE (ring.head + 1) % BufSize # ring.tail
    <2> PICK h, t, buf, n, k : h = ring.head /\ t = ring.tail /\ buf = ring.buf /\ n = Held
                               /\ k = (h + 1) % BufSize
      OBVIOUS
    <2>1. /\ BufSize \in Nat \ {0} /\ h \in 0 .. BufSize - 1 /\ t \in 0 .. BufSize - 1
          /\ buf \in [0 .. BufSize - 1 -> Nat] /\ got \in Seq(Nat) /\ irq.input \in Nat
      BY DEF Names, TypeOK, RingType, IrqType
    <2>2. ring' = [ring EXCEPT !.buf[ring.head] = irq.input, !.head = k] /\ rsem' = rsem + 1
      <3>1. /\ ring' = [ring EXCEPT !.buf[ring.head] = irq.input, !.head = (ring.head + 1) % BufSize]
            /\ rsem' = rsem + 1
        BY <1>8 DEF con_input
      <3> QED
        BY <3>1
    <2>3. /\ ring'.head = k /\ ring'.tail = t /\ ring'.buf[h] = irq.input
          /\ \A i \in 0 .. BufSize - 1 : i # h => ring'.buf[i] = buf[i]
      <3>1. ring \in RingType
        BY DEF TypeOK
      <3>2. ring' = [[ring EXCEPT !.buf = [buf EXCEPT ![h] = irq.input]] EXCEPT !.head = k]
        BY <2>2, <3>1 DEF RingType
      <3>3. ring'.head = k /\ ring'.tail = t /\ ring'.buf = [buf EXCEPT ![h] = irq.input]
        BY <3>1, <3>2 DEF RingType
      <3> QED
        BY <2>1, <3>3
    <2>4. n = (h - t) % BufSize /\ k # t
      BY <1>8 DEF Held
    <2>5. /\ n \in 0 .. BufSize - 1 /\ k \in 0 .. BufSize - 1
          /\ (k - t) % BufSize = n + 1
          /\ (t + n) % BufSize = h
          /\ \A i \in 1 .. n : (t + i - 1) % BufSize # h
      <3>1. PutKey(h, t, k, n, BufSize)
        BY <2>1, <2>4, RingPut
      <3> QED
        BY <3>1 DEF PutKey
    <2>6. Held' = n + 1
      BY <2>3, <2>5 DEF Held
    <2>7. Held' = rsem' + Cardinality(InGetch')
      <3>1. n = rsem + Cardinality(InGetch) /\ rsem \in Nat
        BY DEF InInv, TypeOK
      <3> QED
        BY <1>3, <2>2, <2>6, <3>1, InGetchFinite, SMT
    <2>8. ASSUME ~shared
          PROVE  (Alone /\ HasKey /\ Increasing(Keys) /\ \A i \in 1 .. Len(Keys) : Older(Keys[i]))'
      <3>1. Alone /\ HasKey /\ Increasing(Keys) /\ \A i \in 1 .. Len(Keys) : Older(Keys[i])
        BY <2>8 DEF InInv
      <3>2. Alone'
        BY <1>3, <3>1 DEF Alone
      <3>3. HasKey'
        <4> SUFFICES ASSUME NEW r \in Readers, pc[r] = "advance"
                     PROVE  val[r] = ring'.buf[t]
          BY <1>1, <2>3 DEF HasKey
        <4>1. r \in InGetch
          BY DEF InGetch, Readers
        <4>2. n # 0
          <5>1. Cardinality(InGetch) # 0 /\ Cardinality(InGetch) \in Nat
            BY <4>1, InGetchFinite, FS_EmptySet
          <5>2. n = rsem + Cardinality(InGetch) /\ rsem \in Nat
            BY DEF InInv, TypeOK
          <5> QED
            BY <5>1, <5>2, SMT
        <4>3. h # t
          <5>1. n = Count(h, t, BufSize)
            BY <2>1, <2>4, RingCount
          <5> QED
            BY <2>1, <4>2, <5>1, SMT DEF Count
        <4> QED
          BY <2>1, <2>3, <3>1, <4>3 DEF HasKey
      <3> PICK m \in Nat : m = Len(got)
        BY <2>1, SMT
      <3>4. /\ Keys \in Seq(Nat) /\ Len(Keys) = m + n
            /\ \A i \in 1 .. m : Keys[i] = got[i]
            /\ \A i \in 1 .. n : Keys[m + i] = buf[(t + i - 1) % BufSize]
        BY KeysAre DEF Joint
      <3>5. /\ Len(Keys') = m + (n + 1)
            /\ \A i \in 1 .. m : Keys'[i] = got[i]
            /\ \A i \in 1 .. n + 1 : Keys'[m + i] = ring'.buf[(t + i - 1) % BufSize]
        BY <1>1, <2>3, <2>6, KeysAre DEF Joint
      <3>6. ASSUME NEW i \in 1 .. m + n
            PROVE  Keys'[i] = Keys[i]
        <4>1. CASE i \in 1 .. m
          BY <3>4, <3>5, <4>1
        <4>2. CASE i \notin 1 .. m
          <5> PICK j \in 1 .. n : i = m + j /\ j \in 1 .. n + 1
            <6>1. i - m \in 1 .. n /\ i = m + (i - m) /\ i - m \in 1 .. n + 1
              BY <2>5, <4>2, SMT
            <6> QED
              BY <6>1
          <5>1. Keys'[m + j] = ring'.buf[(t + j - 1) % BufSize]
            BY <3>5
          <5>2. Keys[m + j] = buf[(t + j - 1) % BufSize]
            BY <3>4
          <5>3. (t + j - 1) % BufSize # h
            BY <2>5
          <5>4. (t + j - 1) % BufSize \in 0 .. BufSize - 1
            <6>1. t + j - 1 \in Int
              BY <2>1, <2>5, SMT
            <6> QED
              BY <2>1, <6>1, ModRange
          <5>5. ring'.buf[(t + j - 1) % BufSize] = buf[(t + j - 1) % BufSize]
            BY <2>3, <5>3, <5>4
          <5> QED
            BY <5>1, <5>2, <5>5
        <4> QED
          BY <4>1, <4>2
      <3>7. Keys'[m + (n + 1)] = irq.input
        <4>1. n + 1 \in 1 .. n + 1 /\ t + (n + 1) - 1 = t + n
          <5>1. n \in Nat /\ t \in Nat
            BY <2>1, <2>5, SMT
          <5> QED
            BY <5>1, SMT
        <4>2. Keys'[m + (n + 1)] = ring'.buf[(t + (n + 1) - 1) % BufSize]
          BY <3>5, <4>1
        <4> QED
          BY <2>3, <2>5, <4>1, <4>2
      <3>8. \A i \in 1 .. m + n : Keys[i] \in Nat /\ Older(Keys[i])
        BY <3>1, <3>4, SMT
      <3>9. Increasing(Keys)'
        <4> SUFFICES ASSUME NEW i \in 1 .. m + (n + 1), NEW j \in 1 .. m + (n + 1), i < j
                     PROVE  Keys'[i] < Keys'[j]
          BY <3>5 DEF Increasing
        <4>1. i \in 1 .. m + n
          BY <2>5, SMT
        <4>2. CASE j = m + (n + 1)
          <5>1. Keys[i] < irq.input
            BY <1>1, <3>8, <4>1 DEF Older
          <5> QED
            BY <3>6, <3>7, <4>1, <4>2, <5>1
        <4>3. CASE j # m + (n + 1)
          <5>1. j \in 1 .. m + n
            BY <2>5, <4>3, SMT
          <5>2. Keys[i] < Keys[j]
            BY <3>1, <3>4, <4>1, <5>1 DEF Increasing
          <5> QED
            BY <3>6, <4>1, <5>1, <5>2
        <4> QED
          BY <4>2, <4>3
      <3>10. ASSUME NEW i \in 1 .. m + (n + 1)
             PROVE  Older(Keys[i])'
        <4> PICK x : x = Keys'[i]
          OBVIOUS
        <4>1. CASE i = m + (n + 1)
          <5>1. x = irq.input
            BY <3>7, <4>1
          <5>2. Older(x)'
            BY <1>1, <1>2, <5>1 DEF InInv, Pending, Older
          <5> QED
            BY <5>2 DEF Older
        <4>2. CASE i # m + (n + 1)
          <5>1. i \in 1 .. m + n
            BY <2>5, <4>2, SMT
          <5>2. x = Keys[i] /\ x \in Nat /\ Older(x)
            BY <3>6, <3>8, <5>1
          <5>3. Older(x)'
            BY <1>6, <5>2
          <5> QED
            BY <5>3 DEF Older
        <4> QED
          BY <4>1, <4>2
      <3> QED
        BY <3>2, <3>3, <3>5, <3>9, <3>10
    <2> QED
      BY <1>1, <1>4, <1>5, <2>7, <2>8 DEF InInv
  <1> QED
    BY <1>7, <1>8

\* The device and the handler, up to the ring: a key moves on behind the others.
LEMMA DeviceIn ==
    ASSUME Names, TypeOK, TypeOK', InInv, Transmit \/ Type \/ Interrupt
    PROVE  InInv'
  <1> /\ typed \in Nat /\ dev.key \in Nat /\ irq.input \in Nat /\ irq.on \in BOOLEAN
      /\ Pending
    BY DEF TypeOK, DevType, IrqType, InInv
  <1>1. CASE Transmit
    <2>1. UNCHANGED <<lock, irq, pc, inVars, typed>> /\ dev'.key = dev.key
      BY <1>1 DEF Transmit, TypeOK, DevType
    <2>2. Pending' /\ \A x \in Nat : Older(x) => Older(x)'
      BY <2>1 DEF Pending, Older
    <2> QED
      BY <2>1, <2>2, InFrame
  <1>2. CASE Type
    <2>1. /\ UNCHANGED <<lock, irq, pc, inVars>> /\ typed' = typed + 1
          /\ dev.key = 0 /\ dev'.key = typed + 1
      BY <1>2 DEF Type, TypeOK, DevType
    <2>2. Pending' /\ \A x \in Nat : Older(x) => Older(x)'
      BY <2>1, SMT DEF Pending, Older
    <2> QED
      BY <2>1, <2>2, InFrame
  <1>3. CASE lser_irq
    <2>1. UNCHANGED <<lock, pc, inVars, typed>> /\ ~irq.on
      BY <1>3 DEF lser_irq
    <2>2. irq'.on /\ irq'.input = dev.key /\ dev'.key = 0
      BY <1>3 DEF lser_irq, WIRQ, TypeOK, DevType
    <2>3. Pending' /\ \A x \in Nat : Older(x) => Older(x)'
      BY <2>1, <2>2, SMT DEF Pending, Older
    <2> QED
      BY <2>1, <2>3, InFrame
  <1>4. CASE con_start
    <2>1. UNCHANGED <<lock, dev, pc, inVars, typed>>
      BY <1>4 DEF con_start
    <2>2. irq'.on = irq.on /\ irq'.input = irq.input
      BY <1>4 DEF con_start, TypeOK, IrqType
    <2>3. Pending' /\ \A x \in Nat : Older(x) => Older(x)'
      BY <2>1, <2>2 DEF Pending, Older
    <2> QED
      BY <2>1, <2>3, InFrame
  <1>5. CASE con_input
    BY <1>5, ConInputIn
  <1>6. CASE IrqReturn
    <2>1. UNCHANGED <<lock, dev, pc, inVars, typed>> /\ irq.input = 0
      BY <1>6 DEF IrqReturn
    <2>2. irq'.input = irq.input
      BY <1>6 DEF IrqReturn, TypeOK, IrqType
    <2>3. Pending' /\ \A x \in Nat : Older(x) => Older(x)'
      BY <2>1, <2>2 DEF Pending, Older
    <2> QED
      BY <2>1, <2>3, InFrame
  <1> QED
    BY <1>1, <1>2, <1>3, <1>4, <1>5, <1>6 DEF Interrupt

\* Printing leaves the input alone.
LEMMA OutputIn ==
    ASSUME Names, TypeOK, TypeOK', InInv, NEW p \in Printer, Output(p)
    PROVE  InInv'
  <1>1. UNCHANGED <<irq, inVars, typed>>
    BY DEF Output, PrintBegin, PrintEnd, putch_intr, lser_write, lser_writepolled,
           PollDrained, PollDone
  <1>2. dev'.key = dev.key
    <2>1. Char(p) \in Chars
      BY CharType
    <2>2. \/ dev' = dev
          \/ \E e, f \in BOOLEAN : dev' = WIRQ(e, f) \/ dev' = Sent(WIRQ(e, f), Char(p))
          \/ dev' = Sent(dev, Char(p))
      BY DEF Output, PrintBegin, PrintEnd, putch_intr, lser_write, lser_writepolled,
             PollDrained, PollDone
    <2>3. ASSUME NEW e \in BOOLEAN, NEW f \in BOOLEAN
          PROVE  WIRQ(e, f).key = dev.key /\ Sent(WIRQ(e, f), Char(p)).key = dev.key
      BY <2>1, DevWrite
    <2>4. Sent(dev, Char(p)).key = dev.key
      BY <2>1 DEF TypeOK, DevType, Sent
    <2>5. CASE \E e, f \in BOOLEAN : dev' = WIRQ(e, f) \/ dev' = Sent(WIRQ(e, f), Char(p))
      <3> PICK e \in BOOLEAN, f \in BOOLEAN :
               dev' = WIRQ(e, f) \/ dev' = Sent(WIRQ(e, f), Char(p))
        BY <2>5
      <3>1. WIRQ(e, f).key = dev.key /\ Sent(WIRQ(e, f), Char(p)).key = dev.key
        BY <2>3
      <3> QED
        BY <3>1
    <2> QED
      BY <2>2, <2>4, <2>5
  <1>3. \A r \in Readers : pc'[r] = pc[r]
    <2>1. pc' = pc \/ \E x : pc' = [pc EXCEPT ![p] = x]
      BY DEF Output, PrintBegin, PrintEnd, putch_intr, lser_write, lser_writepolled,
             PollDrained, PollDone, Goto
    <2>2. \A r \in Readers : r # p /\ r \in Threads
      BY DEF Names, Threads
    <2> QED
      BY <2>1, <2>2 DEF TypeOK
  <1>4. lock'["read"] = lock["read"]
    <2>1. lock' = lock \/ \E l \in Locks \ {"read"} : \E x : lock' = [lock EXCEPT ![l] = x]
      <3>1. LockOf(p) \in Locks \ {"read"} /\ "ls_lock" \in Locks \ {"read"}
        BY LockOfType DEF Locks
      <3>2. \/ lock' = lock
            \/ \E x : lock' = [lock EXCEPT ![LockOf(p)] = x] \/ lock' = [lock EXCEPT !["ls_lock"] = x]
        BY DEF Output, PrintBegin, PrintEnd, putch_intr, lser_write, lser_writepolled,
               PollDrained, PollDone, Take, Drop
      <3> QED
        BY <3>1, <3>2
    <2> QED
      BY <2>1 DEF TypeOK, Locks
  <1>5. Pending' /\ \A x \in Nat : Older(x) => Older(x)'
    BY <1>1, <1>2 DEF InInv, Pending, Older
  <1> QED
    BY <1>1, <1>3, <1>4, <1>5, InFrame

\* Every step keeps the input in order.
LEMMA NextIn ==
    ASSUME Names, TypeOK, TypeOK', InInv, ConsoleNext
    PROVE  InInv'
  <1>1. CASE Transmit \/ Type \/ Interrupt
    BY <1>1, DeviceIn
  <1>2. ASSUME NEW p \in Printer, Output(p)
        PROVE  InInv'
    BY <1>2, OutputIn
  <1>3. ASSUME NEW r \in Readers, Input(r)
        PROVE  InInv'
    BY <1>3, ReadBeginIn, GetchIn, TakeIn, ReturnIn DEF Input
  <1> QED
    BY <1>1, <1>2, <1>3 DEF ConsoleNext, Readers

\* Initially the ring is empty and nobody reads.
LEMMA InitIn ==
    ASSUME Names, ConsoleInit
    PROVE  InInv
  <1> BufSize \in Nat \ {0} /\ 0 \in 0 .. BufSize - 1
    BY SMT DEF Names
  <1>1. /\ \A r \in Readers : pc[r] = "begin"
        /\ ring.head = 0 /\ ring.tail = 0 /\ rsem = 0 /\ typed = 0
        /\ dev.key = 0 /\ irq.input = 0 /\ got = <<>>
    BY DEF ConsoleInit, Readers
  <1>2. Held = 0
    <2>1. 0 % BufSize = 0
      BY Wraps, SMT DEF Turned
    <2> QED
      BY <1>1, <2>1, SMT DEF Held
  <1>3. InGetch = {} /\ Cardinality(InGetch) = 0
    BY <1>1, FS_EmptySet DEF InGetch, Readers
  <1>4. Pending /\ ReadLock
    BY <1>1, SMT DEF Pending, ReadLock, Readers
  <1>5. Alone /\ HasKey
    BY <1>1, <1>3 DEF Alone, HasKey
  <1>6. Len(Keys) = 0
    <2>1. TypeOK
      BY InitType
    <2>2. /\ Keys = Joined(got, ring.buf, ring.head, ring.tail)
          /\ Held = (ring.head - ring.tail) % BufSize
      BY DEF Keys, Joined, Buffered, Held
    <2>3. /\ got \in Seq(Nat) /\ ring.buf \in [0 .. BufSize - 1 -> Nat]
          /\ ring.head \in 0 .. BufSize - 1 /\ ring.tail \in 0 .. BufSize - 1
      BY <2>1 DEF TypeOK, RingType
    <2>4. Joint(Keys, got, Held, ring.buf, ring.tail)
      BY <2>2, <2>3, JoinedAre
    <2> QED
      <3>1. Len(Keys) = Len(got) + 0
        BY <1>2, <2>4 DEF Joint
      <3> QED
        BY <1>1, <3>1, SMT
  <1> QED
    BY <1>1, <1>2, <1>3, <1>4, <1>5, <1>6, SMT DEF InInv, Increasing

----------------------------------------------------------------------------
(* The theorems *)

\* A step that changes nothing keeps the invariant.
LEMMA StutterInv ==
    ASSUME Names, IInv, UNCHANGED consoleVars
    PROVE  IInv'
  <1>1. UNCHANGED <<lock, outVars, dev, irq, pc, inVars, typed>>
    BY DEF consoleVars
  <1>2. TypeOK /\ OutInv /\ InInv
    BY DEF IInv
  <1>3. TypeOK'
    BY <1>1, <1>2 DEF TypeOK, outVars, inVars
  <1>4. OutInv'
    BY <1>1, <1>2, <1>3, OutFrame
  <1>5. Pending' /\ \A x \in Nat : Older(x) => Older(x)'
    BY <1>1, <1>2 DEF InInv, Pending, Older
  <1>6. InInv'
    BY <1>1, <1>2, <1>3, <1>5, InFrame
  <1> QED
    BY <1>3, <1>4, <1>6 DEF IInv

\* Every step keeps everything of its type.
LEMMA NextType ==
    ASSUME Names, TypeOK, ConsoleNext
    PROVE  TypeOK'
  BY DeviceType, OutputType, InputType DEF ConsoleNext, Readers

\* The invariant is inductive: it holds initially and every step keeps it.
THEOREM Invariant ==
    ASSUME Names
    PROVE  ConsoleSpec => []IInv
  <1>1. ConsoleInit => IInv
    BY InitType, InitOut, InitIn DEF IInv
  <1>2. IInv /\ [ConsoleNext]_consoleVars => IInv'
    <2>1. IInv /\ ConsoleNext => IInv'
      BY NextType, NextOut, NextIn DEF IInv
    <2> QED
      BY <2>1, StutterInv
  <1> QED
    BY <1>1, <1>2, PTL DEF ConsoleSpec

\* lser_write never finds the device busy, however the semaphore, ls_wbusy, the
\* interrupt handler and lser_writepolled hand the one turn around; and every
\* character that putch accepts appears once, those of a message in order and not
\* cut up by another message of its kind.  For any number of printers.
THEOREM OutputIsWhole ==
    ASSUME Names
    PROVE  ConsoleSpec => []OutputWhole
  <1>1. IInv => OutputWhole
    <2> SUFFICES ASSUME IInv
                 PROVE  OutputWhole
      OBVIOUS
    <2> PICK s : s = Given
      OBVIOUS
    <2>1. Shown(s) /\ Ordered(s) /\ Whole(s) /\ OneTurn
      BY DEF IInv, OutInv
    <2>2. ASSUME NEW p \in Printer
          PROVE  {s[i].n : i \in {j \in DOMAIN s : s[j].by = p}} = 1 .. Passed(p)
      <3>1. ASSUME NEW i \in DOMAIN s, s[i].by = p
            PROVE  s[i].n \in 1 .. Passed(p)
        BY <2>1, <3>1 DEF Shown
      <3>2. ASSUME NEW n \in 1 .. Passed(p)
            PROVE  \E i \in DOMAIN s : s[i].by = p /\ s[i].n = n
        <4>1. \A q \in Printer : \A k \in 1 .. Passed(q) :
                 \E i \in DOMAIN s : s[i].by = q /\ s[i].n = k
          BY <2>1 DEF Shown
        <4> QED
          BY <4>1
      <3>3. {s[i].n : i \in {j \in DOMAIN s : s[j].by = p}} \subseteq 1 .. Passed(p)
        <4> SUFFICES ASSUME NEW x \in {s[i].n : i \in {j \in DOMAIN s : s[j].by = p}}
                     PROVE  x \in 1 .. Passed(p)
          OBVIOUS
        <4> PICK i \in {j \in DOMAIN s : s[j].by = p} : x = s[i].n
          OBVIOUS
        <4> QED
          BY <3>1
      <3>4. 1 .. Passed(p) \subseteq {s[i].n : i \in {j \in DOMAIN s : s[j].by = p}}
        <4> SUFFICES ASSUME NEW n \in 1 .. Passed(p)
                     PROVE  n \in {s[i].n : i \in {j \in DOMAIN s : s[j].by = p}}
          OBVIOUS
        <4> PICK i \in DOMAIN s : s[i].by = p /\ s[i].n = n
          BY <3>2
        <4> QED
          OBVIOUS
      <3> QED
        BY <3>3, <3>4
    <2> QED
      BY <2>1, <2>2 DEF OutputWhole, Ordered
  <1> QED
    BY <1>1, Invariant, PTL

\* Unless kgets and con_io were in getch at once, the keys that getch has returned
\* and those in the ring are in the order they were typed and no key is there
\* twice, and cs_rsem counts what the ring holds.  For any number of readers and
\* any size of the buffer.
THEOREM InputIsInOrder ==
    ASSUME Names
    PROVE  ConsoleSpec => []InputInOrder
  <1>1. IInv => InputInOrder
    BY DEF IInv, InInv, InputInOrder, Keys, Held, Increasing
  <1> QED
    BY <1>1, Invariant, PTL

============================================================================
