------------------------------ MODULE Console ------------------------------
(***************************************************************************)
(* The system console (dev/generic/console.c) on the serial port           *)
(* (dev/lamebus/lser.c), with the printing of kprintf and the reading of   *)
(* getch and con_io.                                                       *)
(*                                                                         *)
(* Output is sent in two ways.  A thread that may sleep waits for its turn *)
(* in P(cs_wsem), gives the character to lser_write and goes on; the       *)
(* write-done interrupt gives the turn to the next.  A thread that may not *)
(* sleep (interrupts off, a spinlock held) calls lser_writepolled, which   *)
(* keeps ls_lock while it spins on the device.  The two must not lose each *)
(* other's characters or turns.  The device raises interrupts on the boot  *)
(* CPU only, so one lser_irq runs at a time; everything else runs on any   *)
(* CPU, between any two of its steps.                                      *)
(***************************************************************************)
EXTENDS Integers, Sequences, FiniteSets

CONSTANTS
    User,       \* threads that write to "con:", through con_io
    Kernel,     \* threads in kprintf that may sleep
    Polled,     \* contexts in kprintf that may not sleep
    Reader,     \* threads that read from "con:", through con_io
    Menu,       \* threads in kgets, which calls getch without con_io's lock
    Casts,      \* who is there together, and a bound on the keys that are typed
    BufSize,    \* CONSOLE_INPUT_BUFFER_SIZE
    NoOne, NoChar

Printer == User \cup Kernel \cup Polled
Locks == {"write", "read", "kprintf", "kprintf_spin", "ls_lock"}

VARIABLES
    cast,       \* the element of Casts that this behaviour has
    lock,       \* the holder of each lock that is kept across steps
    wsem, rsem, \* the counts of cs_wsem and cs_rsem
    ring,       \* cs_gotchars, cs_gotchars_head, cs_gotchars_tail
    wbusy,      \* ls_wbusy
    dev,        \* external: the serial port's registers and what it sends
    irq,        \* lser_irq after it released ls_lock: what it still has to do
    pc, at,     \* where each thread is; the printers' next character
    val,        \* the character a reader has taken from the ring
    out,        \* what has appeared on the terminal
    got,        \* what getch has returned, in order
    typed,      \* the number of keys typed so far
    panicked,   \* lser_write found the device busy
    shared      \* ghost: a thread of Menu was in getch together with another

outVars == <<wsem, wbusy, at, out, panicked>>
inVars == <<rsem, ring, val, got, shared>>
consoleVars == <<cast, lock, outVars, dev, irq, pc, inVars, typed>>

Goto(t, s) == pc' = [pc EXCEPT ![t] = s]
Free(l) == lock[l] = NoOne
Take(l, t) == lock' = [lock EXCEPT ![l] = t]
Drop(l) == lock' = [lock EXCEPT ![l] = NoOne]

ConsoleInit ==
    /\ cast \in Casts
    /\ lock = [l \in Locks |-> NoOne]
    /\ wsem = 1 /\ rsem = 0
    /\ ring = [buf |-> [i \in 0 .. BufSize - 1 |-> 0], head |-> 0, tail |-> 0]
    /\ wbusy = FALSE
    /\ dev = [tx |-> NoChar, ready |-> FALSE, enable |-> TRUE, force |-> FALSE, key |-> 0]
    /\ irq = [on |-> FALSE, start |-> FALSE, input |-> 0]
    /\ pc = [t \in Printer \cup Reader \cup Menu |-> "begin"]
    /\ at = [p \in Printer |-> 1]
    /\ val = [r \in Reader \cup Menu |-> 0]
    /\ out = <<>> /\ got = <<>> /\ typed = 0
    /\ panicked = FALSE /\ shared = FALSE

----------------------------------------------------------------------------
(* The device; WIRQ(e, f) writes its write-interrupt register, which clears *)
(* the ready condition; Sent(d, c) gives it a character, and one that it is *)
(* still sending is gone *)

WIRQ(e, f) == [dev EXCEPT !.ready = FALSE, !.enable = e, !.force = f]
Sent(d, c) == [d EXCEPT !.tx = c]

\* The device has sent its character.
Transmit ==
    /\ dev.tx # NoChar
    /\ out' = Append(out, dev.tx)
    /\ dev' = [dev EXCEPT !.tx = NoChar, !.ready = TRUE]
    /\ UNCHANGED <<cast, lock, wsem, wbusy, at, panicked, irq, pc, inVars, typed>>

\* A key is pressed; keys are numbered.
Type ==
    /\ dev.key = 0 /\ typed < cast.keys
    /\ typed' = typed + 1
    /\ dev' = [dev EXCEPT !.key = typed + 1]
    /\ UNCHANGED <<cast, lock, outVars, irq, pc, inVars>>

----------------------------------------------------------------------------
(* lser_irq *)

Asserted == (dev.ready /\ dev.enable) \/ dev.force \/ dev.key # 0

\* Under ls_lock: a finished write and a key are noted and acknowledged.
lser_irq ==
    /\ Asserted /\ ~irq.on /\ Free("ls_lock")
    /\ irq' = [on |-> TRUE, start |-> dev.ready, input |-> dev.key]
    /\ wbusy' = (wbusy /\ ~dev.ready)
    /\ dev' = [(IF dev.ready THEN WIRQ(TRUE, FALSE) ELSE dev) EXCEPT !.key = 0]
    /\ UNCHANGED <<cast, lock, wsem, at, out, panicked, pc, inVars, typed>>

\* ls_start: the next writer may go.
con_start ==
    /\ irq.start
    /\ irq' = [irq EXCEPT !.start = FALSE]
    /\ wsem' = wsem + 1
    /\ UNCHANGED <<cast, lock, wbusy, at, out, panicked, dev, pc, inVars, typed>>

\* Mutant of con_input: the test for a full buffer is off by one.
con_inputFull ==
    /\ irq.on /\ ~irq.start /\ irq.input # 0
    /\ LET next == (ring.head + 1) % BufSize
       IN  /\ ring' = [ring EXCEPT !.buf[ring.head] = irq.input, !.head = next]
           /\ rsem' = rsem + 1
    /\ irq' = [irq EXCEPT !.input = 0]
    /\ UNCHANGED <<cast, lock, outVars, dev, pc, val, got, shared, typed>>

\* ls_input: the character enters the ring, or is dropped when it is full.
con_input ==
    /\ irq.on /\ ~irq.start /\ irq.input # 0
    /\ LET next == (ring.head + 1) % BufSize
       IN  IF next = ring.tail
             THEN UNCHANGED <<ring, rsem>>
             ELSE /\ ring' = [ring EXCEPT !.buf[ring.head] = irq.input, !.head = next]
                  /\ rsem' = rsem + 1
    /\ irq' = [irq EXCEPT !.input = 0]
    /\ UNCHANGED <<cast, lock, outVars, dev, pc, val, got, shared, typed>>

IrqReturn ==
    /\ irq.on /\ ~irq.start /\ irq.input = 0
    /\ irq' = [irq EXCEPT !.on = FALSE]
    /\ UNCHANGED <<cast, lock, outVars, dev, pc, inVars, typed>>

----------------------------------------------------------------------------
(* Printing a message: the user's is "a\n", which con_io makes three        *)
(* characters, the kernel's is "ab" *)

Length(p) == IF p \in User THEN 3 ELSE 2
LockOf(p) ==
    CASE p \in User -> "write" [] p \in Kernel -> "kprintf" [] OTHER -> "kprintf_spin"
Char(p) == [by |-> p, n |-> at[p]]
Printing(p) == pc[p] = "putch" /\ at[p] <= Length(p)

\* con_io or kprintf takes the lock that keeps messages whole.
PrintBegin(p) ==
    /\ pc[p] = "begin" /\ Free(LockOf(p))
    /\ Take(LockOf(p), p)
    /\ Goto(p, "putch")
    /\ UNCHANGED <<cast, outVars, dev, irq, inVars, typed>>

\* All is printed, or uiomove fails to fetch con_io's next character.
PrintEnd(p) ==
    /\ pc[p] = "putch"
    /\ at[p] > Length(p) \/ (p \in User /\ at[p] < 3)
    /\ Drop(LockOf(p))
    /\ Goto(p, "done")
    /\ UNCHANGED <<cast, outVars, dev, irq, inVars, typed>>

\* putch_intr: P(cs_wsem).
putch_intr(p) ==
    /\ p \notin Polled /\ Printing(p) /\ wsem > 0
    /\ wsem' = wsem - 1
    /\ Goto(p, "send")
    /\ UNCHANGED <<cast, lock, wbusy, at, out, panicked, dev, irq, inVars, typed>>

\* Under ls_lock: the device is given the character, unless it is busy.
lser_write(p) ==
    /\ pc[p] = "send" /\ Free("ls_lock")
    /\ IF wbusy
         THEN panicked' = TRUE /\ UNCHANGED <<wbusy, dev, at, pc>>
         ELSE /\ wbusy' = TRUE
              /\ dev' = Sent(dev, Char(p))
              /\ at' = [at EXCEPT ![p] = @ + 1]
              /\ Goto(p, "putch")
              /\ UNCHANGED panicked
    /\ UNCHANGED <<cast, lock, wsem, out, irq, inVars, typed>>

\* Mutant of lser_writepolled: it does not wait for a write in progress.
lser_writepolledRude(p) ==
    /\ p \in Polled /\ Printing(p) /\ Free("ls_lock")
    /\ Take("ls_lock", p)
    /\ dev' = Sent(WIRQ(FALSE, FALSE), Char(p))
    /\ Goto(p, "poll")
    /\ UNCHANGED <<cast, outVars, irq, inVars, typed>>

\* lser_writepolled up to its first wait: with a write in progress it waits for
\* that one, otherwise it turns the interrupt off and sends.
lser_writepolled(p) ==
    /\ p \in Polled /\ Printing(p) /\ Free("ls_lock")
    /\ Take("ls_lock", p)
    /\ IF wbusy
         THEN Goto(p, "drain") /\ UNCHANGED dev
         ELSE Goto(p, "poll") /\ dev' = Sent(WIRQ(FALSE, FALSE), Char(p))
    /\ UNCHANGED <<cast, outVars, irq, inVars, typed>>

\* The other write is done: its interrupt is kept asserted by force.
PollDrained(p) ==
    /\ pc[p] = "drain" /\ dev.ready
    /\ dev' = Sent(WIRQ(TRUE, TRUE), Char(p))
    /\ Goto(p, "poll")
    /\ UNCHANGED <<cast, lock, outVars, irq, inVars, typed>>

\* The polled character is out.  wbusy, which ls_lock protects, still says
\* whether an interrupt was pending: if so its ready condition is left set.
PollDone(p) ==
    /\ pc[p] = "poll" /\ dev.ready
    /\ dev' = IF wbusy THEN dev ELSE WIRQ(TRUE, FALSE)
    /\ at' = [at EXCEPT ![p] = @ + 1]
    /\ Drop("ls_lock")
    /\ Goto(p, "putch")
    /\ UNCHANGED <<cast, wsem, wbusy, out, panicked, irq, inVars, typed>>

----------------------------------------------------------------------------
(* Reading: con_io with its lock, or kgets, call getch for each character *)

InGetch == {r \in Reader \cup Menu : pc[r] \in {"take", "advance"}}

ReadBegin(r) ==
    /\ pc[r] = "begin"
    /\ IF r \in Menu THEN UNCHANGED lock ELSE Free("read") /\ Take("read", r)
    /\ Goto(r, "getch")
    /\ UNCHANGED <<cast, outVars, dev, irq, inVars, typed>>

\* getch_intr: P(cs_rsem).
getch_intr(r) ==
    /\ pc[r] = "getch" /\ rsem > 0
    /\ rsem' = rsem - 1
    /\ Goto(r, "take")
    /\ shared' = (shared \/ (InGetch # {} /\ ({r} \cup InGetch) \cap Menu # {}))
    /\ UNCHANGED <<cast, lock, outVars, dev, irq, ring, val, got, typed>>

\* The character at the tail is read, and then the tail moves.
GetchTake(r) ==
    /\ pc[r] = "take"
    /\ val' = [val EXCEPT ![r] = ring.buf[ring.tail]]
    /\ Goto(r, "advance")
    /\ UNCHANGED <<cast, lock, outVars, dev, irq, rsem, ring, got, shared, typed>>

\* The line is complete, or uiomove fails, or the next character is asked for.
GetchReturn(r) ==
    /\ pc[r] = "advance"
    /\ ring' = [ring EXCEPT !.tail = (@ + 1) % BufSize]
    /\ got' = Append(got, val[r])
    /\ \/ Goto(r, "getch") /\ UNCHANGED lock
       \/ /\ Goto(r, "begin")
          /\ IF r \in Menu THEN UNCHANGED lock ELSE Drop("read")
    /\ UNCHANGED <<cast, outVars, dev, irq, rsem, val, shared, typed>>

----------------------------------------------------------------------------

Interrupt == lser_irq \/ con_start \/ con_input \/ IrqReturn

Output(p) ==
    \/ PrintBegin(p) \/ PrintEnd(p) \/ putch_intr(p) \/ lser_write(p)
    \/ lser_writepolled(p) \/ PollDrained(p) \/ PollDone(p)

Input(r) == ReadBegin(r) \/ getch_intr(r) \/ GetchTake(r) \/ GetchReturn(r)

ConsoleNext ==
    \/ Transmit \/ Type \/ Interrupt
    \/ \E p \in Printer \cap cast.who : Output(p)
    \/ \E r \in (Reader \cup Menu) \cap cast.who : Input(r)

ConsoleSpec == ConsoleInit /\ [][ConsoleNext]_consoleVars

\* The device answers, the interrupt is handled and threads are scheduled.
ConsoleFairness ==
    /\ WF_consoleVars(Transmit) /\ WF_consoleVars(Interrupt)
    /\ \A p \in Printer : WF_consoleVars(p \in cast.who /\ Output(p))

----------------------------------------------------------------------------
(* Properties *)

\* lser.c: "We're not clear to write.  This should not happen."  The semaphore,
\* ls_wbusy and the interrupt handler together hold one turn: it is in the
\* semaphore, with a thread on its way to lser_write, with the device, or in the
\* hands of the handler; so lser_write never panics.
OneTurn ==
    /\ ~panicked
    /\ wsem \in {0, 1}
    /\ LET with == {p \in Printer : pc[p] = "send"}
       IN  /\ wsem = 1 => ~wbusy /\ ~irq.start /\ with = {}
           /\ wbusy => ~irq.start /\ with = {}
           /\ irq.start => with = {}
           /\ \A p, q \in with : p = q

\* The characters that have been given to the device, and how many p's are.
Given == out \o (IF dev.tx = NoChar THEN <<>> ELSE <<dev.tx>>)
Passed(p) == IF pc[p] = "poll" THEN at[p] ELSE at[p] - 1

\* No message of a printer's kind is cut up in the output s by another one.
Whole(s) ==
    \A i, k \in DOMAIN s : i < k /\ s[i].by = s[k].by =>
        \A j \in i .. k : LockOf(s[j].by) = LockOf(s[i].by) => s[j].by = s[i].by

\* There is one turn; every character that putch accepts reaches the terminal
\* once, and those of one message in order, however polled and interrupt-driven
\* output mix; and a message is not cut up by another one of its kind (console.c:
\* "Lock so user I/Os are atomic"; kprintf's locks do the same for the kernel's).
OutputWhole ==
    /\ OneTurn
    /\ LET s == Given IN
       /\ \A p \in Printer : {s[i].n : i \in {j \in DOMAIN s : s[j].by = p}} = 1 .. Passed(p)
       /\ \A i, k \in DOMAIN s : i < k /\ s[i].by = s[k].by => s[i].n < s[k].n
       /\ Whole(s)

\* The keys that are in the ring, oldest first.
Buffered ==
    [i \in 1 .. (ring.head - ring.tail) % BufSize |-> ring.buf[(ring.tail + i - 1) % BufSize]]

\* Unless kgets and con_io were in getch at once, no key is delivered twice or
\* out of order, and cs_rsem counts what the ring holds, overflow included.
InputInOrder ==
    ~shared =>
        /\ LET keys == got \o Buffered
           IN  \A i, j \in 1 .. Len(keys) : i < j => keys[i] < keys[j]
        /\ (ring.head - ring.tail) % BufSize = rsem + Cardinality(InGetch)

\* Every message gets printed: no turn and no interrupt is lost.
PrintersFinish == <>(\A p \in Printer \cap cast.who : pc[p] = "done")

============================================================================
