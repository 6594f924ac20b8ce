------------------------------- MODULE MCDevices -------------------------------
(* The console, the disk, the emulator's file system, the clock and the bus, *)
(* for TLC.  They share no state here: the first state of a behaviour        *)
(* chooses the part it exercises, the others stay as they begin.             *)
EXTENDS Console, Lhd, Emufs, Ltimer

VARIABLES
    which,      \* the part that this behaviour exercises
    lb_ls_slotsinuse, lb_ls_irqfuncs, lb_conf, lb_asserted, lb_pass, lb_duds,
    lb_panicked

busVars == <<lb_ls_slotsinuse, lb_ls_irqfuncs, lb_conf, lb_asserted,
             lb_pass, lb_duds, lb_panicked>>
vars == <<which, consoleVars, lhdVars, emuVars, ltimerVars, busVars>>

\* Who uses the console together, and how many keys are typed.
MCCasts ==
    [who : {{"u1", "u2", "p1"}, {"k1", "p1", "p2"}, {"u1", "k1", "k2"}}, keys : {0}]
    \cup [who : {{"k1", "r1", "r2"}, {"r1", "m", "p1"}}, keys : {3}]
    \cup {[who |-> {}, keys |-> 0]}

\* The cards in slots 1, 2 and 3: two disks, and one without a driver.
Board == <<"disk", "other", "disk">>

Bus == INSTANCE Lamebus WITH
    Board <- Board, Drivers <- <<"disk", "serial">>, MaxDuds <- 3,
    ls_slotsinuse <- lb_ls_slotsinuse, ls_irqfuncs <- lb_ls_irqfuncs,
    conf <- lb_conf, asserted <- lb_asserted, pass <- lb_pass,
    duds <- lb_duds, panicked <- lb_panicked

------------------------------------------------------------------------------

Init ==
    /\ which \in {"console", "lhd", "emufs", "ltimer", "lamebus"}
    /\ ConsoleInit /\ LhdInit /\ EmuInit /\ LtimerInit /\ Bus!Init
    /\ cast.who = {} <=> which # "console"

Only(part) ==
    /\ which = part /\ UNCHANGED which
    /\ IF part = "console" THEN TRUE ELSE UNCHANGED consoleVars
    /\ IF part = "lhd" THEN TRUE ELSE UNCHANGED lhdVars
    /\ IF part = "emufs" THEN TRUE ELSE UNCHANGED emuVars
    /\ IF part = "ltimer" THEN TRUE ELSE UNCHANGED ltimerVars
    /\ IF part = "lamebus" THEN TRUE ELSE UNCHANGED busVars

Next ==
    \/ Only("console") /\ ConsoleNext
    \/ Only("lhd") /\ LhdNext
    \/ Only("emufs") /\ EmuNext
    \/ Only("ltimer") /\ LtimerNext
    \/ Only("lamebus") /\ Bus!Next

\* The fairness of the parts; the bus would start by itself, the others do
\* nothing before somebody calls them.
Fairness ==
    /\ ConsoleFairness /\ LhdFairness /\ EmuFairness
    /\ WF_busVars(which = "lamebus" /\ Bus!InterruptBegin)
    /\ WF_busVars(which = "lamebus" /\ Bus!Dispatch)
    /\ WF_busVars(which = "lamebus" /\ Bus!InterruptEnd)
    /\ WF_busVars(which = "lamebus" /\ Bus!lamebus_probe)
    /\ WF_busVars(which = "lamebus" /\ Bus!lamebus_mark)
    /\ WF_busVars(which = "lamebus" /\ Bus!lamebus_attach_interrupt)

Spec == Init /\ [][Next]_vars /\ Fairness

------------------------------------------------------------------------------
(* Liveness of the parts; the safety properties are in their modules.        *)

\* Every message gets printed (console.c, lser.c), and the disk becomes free again
\* whatever fails (lhd.c).
CallsEnd == PrintersFinish /\ CardFreed
\* lamebus.c: a card that signals is served, whatever the other slots do.
SlotServed == Bus!SlotServed

=============================================================================
