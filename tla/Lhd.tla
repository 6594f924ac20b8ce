-------------------------------- MODULE Lhd --------------------------------
(***************************************************************************)
(* The disk driver (dev/lamebus/lhd.c), below the raw device of the VFS    *)
(* layer (vfs/device.c).  The card has one buffer and does one sector at a *)
(* time; lh_clear says that nobody uses it, lh_done that the sector of     *)
(* whoever does is finished, and lhd_irq leaves the result in lh_result.   *)
(* Another thread may get the card between any two sectors of a request.   *)
(***************************************************************************)
EXTENDS Integers, Sequences, FiniteSets

CONSTANTS
    Client,     \* those who read and write the raw device
    Blocks,     \* d_blocks, the sectors of the disk
    SectSize,   \* LHD_SECTSIZE
    MaxResid    \* bound: the longest request

Ops == {"read", "write"}
Results == {"ok", "EINVAL", "EIO"}

VARIABLES
    lh_clear, lh_done,  \* the counts of the two semaphores
    lh_result,          \* what lhd_irq has saved
    card,               \* external: the card's registers and buffer
    platter,            \* external: what is on the disk
    io                  \* the request of each thread that is in lhd_io

lhdVars == <<lh_clear, lh_done, lh_result, card, platter, io>>

Idle == [st |-> "idle"]
Sector(t) == (io[t].pos \div SectSize) + io[t].i
Data(t) == <<t, io[t].i>>
Return(t) == io' = [io EXCEPT ![t] = Idle]

LhdInit ==
    /\ lh_clear = 1 /\ lh_done = 0 /\ lh_result = "ok"
    /\ card = [stat |-> "idle", iswrite |-> FALSE, sect |-> 0, buf |-> <<>>]
    /\ platter = [s \in 0 .. Blocks - 1 |-> <<>>]
    /\ io = [t \in Client |-> Idle]

----------------------------------------------------------------------------

\* dev_tryseek: a block device wants its own blocks.
dev_tryseek(pos) == pos % SectSize = 0 /\ pos \div SectSize < Blocks

\* lhd_io: whole sectors, none past the end of the disk.
Fits(pos, resid) ==
    /\ resid % SectSize = 0
    /\ (pos \div SectSize) + (resid \div SectSize) <= Blocks

\* dev_read or dev_write calls lhd_io, which looks at the request; one that is
\* refused, or empty, returns at once.
Request(t) ==
    /\ io[t] = Idle
    /\ \E op \in Ops, pos \in 0 .. Blocks * SectSize, resid \in 0 .. MaxResid :
           /\ dev_tryseek(pos) /\ Fits(pos, resid) /\ resid > 0
           /\ io' = [io EXCEPT ![t] = [st |-> "wait", op |-> op, pos |-> pos,
                                       len |-> resid \div SectSize, i |-> 0]]
    /\ UNCHANGED <<lh_clear, lh_done, lh_result, card, platter>>

\* Mutant of Start: every sector of the request goes to the place of the first.
StartFirst(t) ==
    /\ io[t].st = "wait" /\ lh_clear > 0
    /\ lh_clear' = lh_clear - 1
    /\ card' = [stat |-> "working", iswrite |-> io[t].op = "write",
                sect |-> io[t].pos \div SectSize,
                buf |-> IF io[t].op = "write" THEN Data(t) ELSE card.buf]
    /\ io' = [io EXCEPT ![t].st = "busy"]
    /\ UNCHANGED <<lh_done, lh_result, platter>>

\* P(lh_clear); the data goes to the buffer and the operation is started.
Start(t) ==
    /\ io[t].st = "wait" /\ lh_clear > 0
    /\ lh_clear' = lh_clear - 1
    /\ card' = [stat |-> "working", iswrite |-> io[t].op = "write", sect |-> Sector(t),
                buf |-> IF io[t].op = "write" THEN Data(t) ELSE card.buf]
    /\ io' = [io EXCEPT ![t].st = "busy"]
    /\ UNCHANGED <<lh_done, lh_result, platter>>

\* uiomove cannot get the data: the card is given up at once.
StartFails(t) ==
    /\ io[t].st = "wait" /\ lh_clear > 0 /\ io[t].op = "write"
    /\ Return(t)
    /\ UNCHANGED <<lh_clear, lh_done, lh_result, card, platter>>

\* The card has done its sector, or reports a media error.
Complete ==
    /\ card.stat = "working"
    /\ \/ /\ card.sect < Blocks
          /\ IF card.iswrite
               THEN /\ platter' = [platter EXCEPT ![card.sect] = card.buf]
                    /\ card' = [card EXCEPT !.stat = "ok"]
               ELSE /\ card' = [card EXCEPT !.stat = "ok", !.buf = platter[card.sect]]
                    /\ UNCHANGED platter
       \/ /\ card' = [card EXCEPT !.stat = IF card.sect < Blocks THEN "EIO" ELSE "EINVAL"]
          /\ UNCHANGED platter
    /\ UNCHANGED <<lh_clear, lh_done, lh_result, io>>

\* Mutant of lhd_irq: the result is kept from the time before.
lhd_irqStale ==
    /\ card.stat \in Results
    /\ card' = [card EXCEPT !.stat = "idle"]
    /\ lh_done' = lh_done + 1
    /\ UNCHANGED <<lh_clear, lh_result, platter, io>>

lhd_irq ==
    /\ card.stat \in Results
    /\ card' = [card EXCEPT !.stat = "idle"]
    /\ lh_result' = card.stat
    /\ lh_done' = lh_done + 1
    /\ UNCHANGED <<lh_clear, platter, io>>

\* Mutant of Finish: an error leaves the card taken.
FinishKeeps(t) ==
    /\ io[t].st = "busy" /\ lh_done > 0
    /\ lh_done' = lh_done - 1
    /\ lh_clear' = lh_clear + (IF lh_result = "ok" THEN 1 ELSE 0)
    /\ \/ lh_result # "ok" /\ Return(t)
       \/ io[t].op = "read" /\ lh_result = "ok" /\ Return(t)
       \/ lh_result = "ok" /\ io[t].i + 1 = io[t].len /\ Return(t)
       \/ /\ lh_result = "ok" /\ io[t].i + 1 < io[t].len
          /\ io' = [io EXCEPT ![t].st = "wait", ![t].i = @ + 1]
    /\ UNCHANGED <<lh_result, card, platter>>

\* P(lh_done); what was read is copied out, the card is cleared for the next.
Finish(t) ==
    /\ io[t].st = "busy" /\ lh_done > 0
    /\ lh_done' = lh_done - 1
    /\ lh_clear' = lh_clear + 1
    /\ \/ lh_result # "ok" /\ Return(t)
       \/ io[t].op = "read" /\ lh_result = "ok" /\ Return(t)
       \/ lh_result = "ok" /\ io[t].i + 1 = io[t].len /\ Return(t)
       \/ /\ lh_result = "ok" /\ io[t].i + 1 < io[t].len
          /\ io' = [io EXCEPT ![t].st = "wait", ![t].i = @ + 1]
    /\ UNCHANGED <<lh_result, card, platter>>

LhdNext ==
    \/ \E t \in Client : Request(t) \/ Start(t) \/ StartFails(t) \/ Finish(t)
    \/ Complete \/ lhd_irq

LhdSpec == LhdInit /\ [][LhdNext]_lhdVars

\* The card answers, its interrupt is taken, and the thread it wakes runs.
LhdFairness ==
    /\ WF_lhdVars(Complete) /\ WF_lhdVars(lhd_irq)
    /\ \A t \in Client : WF_lhdVars(Finish(t))

----------------------------------------------------------------------------
(* Properties *)

\* Whoever comes back from P(lh_done) finds its own sector's result: one thread
\* has the card, the buffer is what is on the disk at the sector it asked for,
\* and after a write that is what it wrote; lh_result is "ok" only then.
TransferMine ==
    \A t \in Client : io[t].st = "busy" =>
        /\ lh_clear = 0 /\ \A u \in Client : io[u].st = "busy" => u = t
        /\ lh_done > 0 /\ lh_result = "ok" =>
               /\ card.buf = platter[Sector(t)]
               /\ io[t].op = "write" => card.buf = Data(t)
        /\ lh_done > 0 => lh_result # "EINVAL"

\* A sector changes only under a write of that sector: the checks of dev_tryseek
\* and lhd_io keep every request inside the disk.
OnlyAsked ==
    [][\A s \in 0 .. Blocks - 1 : platter'[s] # platter[s] =>
           \E t \in Client : /\ io[t].st = "busy" /\ io[t].op = "write"
                             /\ Sector(t) = s /\ platter'[s] = Data(t)]_lhdVars

\* The card is never kept for good, whatever fails.
CardFreed == lh_clear = 0 ~> lh_clear = 1

============================================================================
