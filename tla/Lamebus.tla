------------------------------ MODULE Lamebus ------------------------------
(***************************************************************************)
(* The system bus (dev/lamebus/lamebus.c): autoconf gives its slots to     *)
(* drivers with interrupts already on, and lamebus_interrupt goes through  *)
(* the slots that signal, with ls_lock released around every handler.      *)
(* Interrupts are level-triggered and all go to the boot cpu, so one pass  *)
(* is under way at a time.                                                 *)
(***************************************************************************)
EXTENDS Integers, Sequences

CONSTANTS
    Board,      \* what is in each slot but the bus controller's own
    Drivers,    \* the drivers of the configuration, in the order of autoconf
    MaxDuds     \* lamebus_interrupt's 10000

Slot == DOMAIN Board

VARIABLES
    ls_slotsinuse, ls_irqfuncs,     \* sets of slots
    conf,       \* how far autoconf is: the driver, the slot it has probed
    asserted,   \* external: the slots that signal
    pass,       \* lamebus_interrupt: the next slot, irqs, duds_this_time
    duds, panicked

vars == <<ls_slotsinuse, ls_irqfuncs, conf, asserted, pass, duds, panicked>>

NoPass == [on |-> FALSE, slot |-> 1, irqs |-> {}, n |-> 0]

Init ==
    /\ ls_slotsinuse = {} /\ ls_irqfuncs = {}
    /\ conf = [driver |-> 1, slot |-> 0, pc |-> "probe"]
    /\ asserted = {}
    /\ pass = NoPass
    /\ duds = 0 /\ panicked = FALSE

----------------------------------------------------------------------------
(* Autoconf: attach_..._to_lamebus for each driver, until it finds no card. *)

Candidates(d) == {s \in Slot \ ls_slotsinuse : Board[s] = d}

lamebus_probe ==
    /\ conf.pc = "probe" /\ conf.driver <= Len(Drivers)
    /\ LET cards == Candidates(Drivers[conf.driver]) IN
       IF cards = {}
         THEN conf' = [conf EXCEPT !.driver = @ + 1]
         ELSE conf' = [conf EXCEPT !.slot = CHOOSE s \in cards : \A r \in cards : s <= r,
                                   !.pc = "mark"]
    /\ UNCHANGED <<ls_slotsinuse, ls_irqfuncs, asserted, pass, duds, panicked>>

lamebus_mark ==
    /\ conf.pc = "mark"
    /\ panicked' = (panicked \/ conf.slot \in ls_slotsinuse)
    /\ ls_slotsinuse' = ls_slotsinuse \cup {conf.slot}
    /\ conf' = [conf EXCEPT !.pc = "attach"]
    /\ UNCHANGED <<ls_irqfuncs, asserted, pass, duds>>

lamebus_attach_interrupt ==
    /\ conf.pc = "attach"
    /\ panicked' = (panicked \/ conf.slot \notin ls_slotsinuse \/ conf.slot \in ls_irqfuncs)
    /\ ls_irqfuncs' = ls_irqfuncs \cup {conf.slot}
    /\ conf' = [conf EXCEPT !.pc = "probe"]
    /\ UNCHANGED <<ls_slotsinuse, asserted, pass, duds>>

----------------------------------------------------------------------------
(* Interrupts *)

\* A card signals; one without a driver may also stop by itself.
Signal ==
    /\ \E s \in Slot :
           \/ s \notin asserted /\ asserted' = asserted \cup {s}
           \/ s \in asserted \ ls_irqfuncs /\ asserted' = asserted \ {s}
    /\ UNCHANGED <<ls_slotsinuse, ls_irqfuncs, conf, pass, duds, panicked>>

Begun(irqs, n) ==
    /\ ~pass.on /\ ~panicked
    /\ pass' = [on |-> TRUE, slot |-> 1, irqs |-> irqs, n |-> n]
    /\ duds' = duds + n
    /\ UNCHANGED <<ls_slotsinuse, ls_irqfuncs, conf, asserted, panicked>>

\* The trap: read which slots signal.  A stray interrupt finds none.
InterruptBegin == asserted # {} /\ Begun(asserted, 0)
Stray == asserted = {} /\ Begun({}, 1)

Due == {s \in pass.irqs : s >= pass.slot}

\* Mutant of Dispatch: only the first slot that signals is served in a pass.
DispatchOnce ==
    /\ pass.on /\ Due # {}
    /\ LET s == CHOOSE r \in Due : \A q \in Due : r <= q IN
       IF s \in ls_slotsinuse \cap ls_irqfuncs
         THEN /\ asserted' = asserted \ {s}
              /\ pass' = NoPass
              /\ UNCHANGED duds
         ELSE /\ pass' = [pass EXCEPT !.slot = s + 1, !.n = @ + 1]
              /\ duds' = duds + 1
              /\ UNCHANGED asserted
    /\ UNCHANGED <<ls_slotsinuse, ls_irqfuncs, conf, panicked>>

\* The next slot that signals: its handler makes it stop, or it is a dud.  After
\* a handler the register is read again.
Dispatch ==
    /\ pass.on /\ Due # {}
    /\ LET s == CHOOSE r \in Due : \A q \in Due : r <= q IN
       IF s \in ls_slotsinuse \cap ls_irqfuncs
         THEN /\ asserted' = asserted \ {s}
              /\ pass' = [pass EXCEPT !.slot = s + 1, !.irqs = asserted \ {s}]
              /\ UNCHANGED duds
         ELSE /\ pass' = [pass EXCEPT !.slot = s + 1, !.n = @ + 1]
              /\ duds' = duds + 1
              /\ UNCHANGED asserted
    /\ UNCHANGED <<ls_slotsinuse, ls_irqfuncs, conf, panicked>>

\* A pass without duds clears their count; too many in a row are fatal.
InterruptEnd ==
    /\ pass.on /\ Due = {}
    /\ duds' = IF pass.n = 0 THEN 0 ELSE duds
    /\ panicked' = (panicked \/ duds' > MaxDuds)
    /\ pass' = NoPass
    /\ UNCHANGED <<ls_slotsinuse, ls_irqfuncs, conf, asserted>>

----------------------------------------------------------------------------
Next ==
    \/ lamebus_probe \/ lamebus_mark \/ lamebus_attach_interrupt
    \/ Signal \/ InterruptBegin \/ Stray \/ Dispatch \/ InterruptEnd

Spec == Init /\ [][Next]_vars

\* A slot that signals interrupts again and again, and the handler goes on.
Fairness ==
    /\ WF_vars(InterruptBegin) /\ WF_vars(Dispatch) /\ WF_vars(InterruptEnd)
    /\ WF_vars(lamebus_probe) /\ WF_vars(lamebus_mark) /\ WF_vars(lamebus_attach_interrupt)

----------------------------------------------------------------------------
(* Properties *)

\* A card whose driver has its handler in place is served, whatever the other
\* slots do, unless duds bring the system down.
SlotServed ==
    \A s \in Slot : s \in asserted \cap ls_irqfuncs ~> s \notin asserted \/ panicked

============================================================================
