---------------------------- MODULE Drivers_proofs -------------------------
(***************************************************************************)
(* The disk: whoever has it finds the result of its own sector, and a      *)
(* sector changes only under a write of it, for any number of threads, any *)
(* disk and requests of any length.                                        *)
(* The clock: the three reads of ltimer_gettime give a time within the     *)
(* call, whatever the second and the margin are, as long as the margin is  *)
(* at most half a second: the 5000000 of 1000000000 nanoseconds of the     *)
(* code are.                                                               *)
(***************************************************************************)
EXTENDS Lhd, Ltimer, TLAPS

\* Most leaves are first-order; the others ask for SMT.
USE Zenon

----------------------------------------------------------------------------
(* lhd.                                                                    *)

\* A disk has a whole number of sectors, and a sector is not empty.
Sizes == Blocks \in Nat /\ SectSize \in Nat \ {0} /\ MaxResid \in Nat

\* What a sector or the card's buffer holds: a piece that somebody wrote, or
\* what was there at the beginning.
Content == (Client \X Nat) \cup {<<>>}

\* A request that was let in: the sectors still to do are sectors of the disk.
Transfer ==
    {r \in [st : {"wait", "busy"}, op : Ops, pos : Nat, len : Nat, i : Nat] :
        r.i < r.len /\ (r.pos \div SectSize) + r.len <= Blocks}

Card == [stat : {"idle", "working"} \cup Results, iswrite : BOOLEAN, sect : Nat, buf : Content]

TypeOK ==
    /\ lh_clear \in {0, 1} /\ lh_done \in {0, 1} /\ lh_result \in Results
    /\ card \in Card
    /\ platter \in [0 .. Blocks - 1 -> Content]
    /\ io \in [Client -> Transfer \cup {Idle}]

\* Nobody has the card: it is at rest, and no answer is waiting.
Rest ==
    (\A t \in Client : io[t].st # "busy") =>
        lh_clear = 1 /\ lh_done = 0 /\ card.stat = "idle"

\* The card works for t, has finished, or has finished and been acknowledged;
\* in the last two cases the answer is about the sector of t.
Serves(t) ==
    /\ lh_clear = 0 /\ \A u \in Client : io[u].st = "busy" => u = t
    /\ card.sect = Sector(t) /\ (card.iswrite <=> io[t].op = "write")
    /\ io[t].op = "write" => card.buf = Data(t)
    /\ \/ card.stat = "working" /\ lh_done = 0
       \/ /\ card.stat \in {"ok", "EIO"} /\ lh_done = 0
          /\ card.stat = "ok" => card.buf = platter[Sector(t)]
       \/ /\ card.stat = "idle" /\ lh_done = 1 /\ lh_result \in {"ok", "EIO"}
          /\ lh_result = "ok" => card.buf = platter[Sector(t)]

\* The inductive invariant.
LhdInv == TypeOK /\ Rest /\ \A t \in Client : io[t].st = "busy" => Serves(t)
----------------------------------------------------------------------------

\* A position inside the disk is in a sector of it, and a request of whole
\* sectors that is not empty has at least one.
LEMMA Sectors ==
    ASSUME Sizes, NEW pos \in Nat, NEW resid \in Nat
    PROVE  /\ pos \div SectSize \in Nat /\ resid \div SectSize \in Nat
           /\ resid % SectSize = 0 /\ resid > 0 => resid \div SectSize > 0
  BY SMT DEF Sizes

\* The sector that a request is at is on the disk.
LEMMA SectorInside ==
    ASSUME Sizes, TypeOK, NEW t \in Client, io[t] # Idle
    PROVE  /\ Sector(t) \in 0 .. Blocks - 1 /\ Data(t) \in Content
           /\ io[t] \in Transfer /\ io[t].st \in {"wait", "busy"} /\ io[t].op \in Ops
<1>1. io[t] \in Transfer
  BY DEF TypeOK
<1>2. /\ io[t].pos \in Nat /\ io[t].len \in Nat /\ io[t].i \in Nat
      /\ io[t].st \in {"wait", "busy"} /\ io[t].op \in Ops
      /\ io[t].i < io[t].len /\ (io[t].pos \div SectSize) + io[t].len <= Blocks
  BY <1>1 DEF Transfer
<1>3. io[t].pos \div SectSize \in Nat
  BY <1>2, Sectors
<1>4. Sector(t) \in 0 .. Blocks - 1
  BY <1>2, <1>3, SMT DEF Sector, Sizes
<1>5. Data(t) \in Content
  BY <1>2 DEF Data, Content
<1> QED
  BY <1>1, <1>2, <1>4, <1>5

\* Who is at rest is not in lhd_io.
LEMMA IdleRest == Idle.st = "idle" /\ \A r \in Transfer : r # Idle
<1>1. Idle.st = "idle"
  BY DEF Idle
<1>2. \A r \in Transfer : r.st \in {"wait", "busy"}
  BY DEF Transfer
<1> QED
  BY <1>1, <1>2

\* At the beginning nobody has the card.
LEMMA LhdInitInv == ASSUME Sizes, LhdInit PROVE LhdInv
<1>1. \A t \in Client : io[t].st = "idle"
  BY IdleRest DEF LhdInit
<1>2. TypeOK
  BY DEF LhdInit, TypeOK, Card, Content, Results
<1> QED
  BY <1>1, <1>2 DEF LhdInit, LhdInv, Rest

\* A request is let in: its sectors are on the disk, and it has not the card yet.
LEMMA RequestInv == ASSUME Sizes, LhdInv, NEW t \in Client, Request(t) PROVE LhdInv'
<1>1. PICK op \in Ops, pos \in 0 .. Blocks * SectSize, resid \in 0 .. MaxResid :
          /\ dev_tryseek(pos) /\ Fits(pos, resid) /\ resid > 0
          /\ io' = [io EXCEPT ![t] = [st |-> "wait", op |-> op, pos |-> pos,
                                      len |-> resid \div SectSize, i |-> 0]]
  BY DEF Request
<1>2. io[t] = Idle /\ UNCHANGED <<lh_clear, lh_done, lh_result, card, platter>>
  BY DEF Request
<1> DEFINE r == [st |-> "wait", op |-> op, pos |-> pos, len |-> resid \div SectSize, i |-> 0]
<1>3. pos \in Nat /\ resid \in Nat /\ (pos \div SectSize) + (resid \div SectSize) <= Blocks
  BY <1>1, SMT DEF Fits
<1>4. resid \div SectSize \in Nat /\ resid \div SectSize > 0
  BY <1>1, <1>3, Sectors DEF Fits
<1>5. r \in Transfer /\ r.st = "wait"
  BY <1>3, <1>4 DEF Transfer
<1> HIDE DEF r
<1>6. io'[t] = r /\ \A u \in Client : u # t => io'[u] = io[u]
  BY <1>1 DEF LhdInv, TypeOK, r
<1>7. TypeOK'
  BY <1>1, <1>2, <1>5 DEF LhdInv, TypeOK, r
<1>8. io[t].st = "idle"
  BY <1>2, IdleRest
<1>9. \A u \in Client : /\ io'[u].st = "busy" <=> io[u].st = "busy"
                        /\ io[u].st = "busy" => io'[u] = io[u]
  BY <1>5, <1>6, <1>8
<1>10. Rest'
  BY <1>2, <1>9 DEF LhdInv, Rest
<1>11. ASSUME NEW u \in Client, io'[u].st = "busy" PROVE Serves(u)'
  <2>1. Serves(u) /\ io'[u] = io[u]
    BY <1>9, <1>11 DEF LhdInv
  <2> QED
    BY <1>2, <1>9, <2>1 DEF Serves, Sector, Data
<1> QED
  BY <1>7, <1>10, <1>11 DEF LhdInv

\* Who waits gets a free card: nobody else has it, and it works on the sector
\* that was asked for.
LEMMA StartInv == ASSUME Sizes, LhdInv, NEW t \in Client, Start(t) PROVE LhdInv'
<1>1. /\ io[t].st = "wait" /\ lh_clear > 0 /\ lh_clear' = lh_clear - 1
      /\ card' = [stat |-> "working", iswrite |-> io[t].op = "write", sect |-> Sector(t),
                  buf |-> IF io[t].op = "write" THEN Data(t) ELSE card.buf]
      /\ io' = [io EXCEPT ![t].st = "busy"]
      /\ UNCHANGED <<lh_done, lh_result, platter>>
  BY DEF Start
<1>2. /\ io[t] # Idle /\ Sector(t) \in 0 .. Blocks - 1 /\ Data(t) \in Content
      /\ io[t] \in Transfer
  BY <1>1, IdleRest, SectorInside DEF LhdInv
<1>3. \A u \in Client : io[u].st # "busy"
  BY <1>1, SMT DEF LhdInv, Serves
<1>4. lh_clear' = 0 /\ lh_done' = 0
  BY <1>1, <1>3, SMT DEF LhdInv, Rest
<1>5. /\ io'[t] = [io[t] EXCEPT !.st = "busy"] /\ \A u \in Client : u # t => io'[u] = io[u]
      /\ io' \in [Client -> Transfer \cup {Idle}]
  BY <1>1, <1>2 DEF LhdInv, TypeOK, Transfer
<1>6. /\ io'[t].st = "busy" /\ io'[t].op = io[t].op /\ io'[t].pos = io[t].pos
      /\ io'[t].i = io[t].i
  BY <1>2, <1>5 DEF Transfer
<1>7. /\ card'.stat = "working" /\ card'.sect = Sector(t)
      /\ card'.iswrite <=> io[t].op = "write"
      /\ io[t].op = "write" => card'.buf = Data(t)
  BY <1>1
<1>8. card' \in Card
  BY <1>1, <1>2, SMT DEF LhdInv, TypeOK, Card
<1>9. TypeOK'
  BY <1>1, <1>4, <1>5, <1>8 DEF LhdInv, TypeOK
<1>10. Sector(t)' = Sector(t) /\ Data(t)' = Data(t)
  BY <1>6 DEF Sector, Data
<1>11. \A u \in Client : io'[u].st = "busy" => u = t
  BY <1>3, <1>5
<1>12. Serves(t)'
  BY <1>4, <1>6, <1>7, <1>10, <1>11 DEF Serves
<1> QED
  BY <1>6, <1>9, <1>11, <1>12 DEF LhdInv, Rest

\* The data cannot be had: the request ends before it has used the card.
LEMMA StartFailsInv == ASSUME Sizes, LhdInv, NEW t \in Client, StartFails(t) PROVE LhdInv'
<1>1. /\ io[t].st = "wait" /\ io' = [io EXCEPT ![t] = Idle]
      /\ UNCHANGED <<lh_clear, lh_done, lh_result, card, platter>>
  BY DEF StartFails, Return
<1>2. TypeOK'
  BY <1>1 DEF LhdInv, TypeOK
<1>3. \A u \in Client : /\ io'[u].st = "busy" <=> io[u].st = "busy"
                        /\ io[u].st = "busy" => io'[u] = io[u]
  BY <1>1, IdleRest DEF LhdInv, TypeOK
<1>4. Rest'
  BY <1>1, <1>3 DEF LhdInv, Rest
<1>5. ASSUME NEW u \in Client, io'[u].st = "busy" PROVE Serves(u)'
  <2>1. Serves(u) /\ io'[u] = io[u]
    BY <1>3, <1>5 DEF LhdInv
  <2> QED
    BY <1>1, <1>3, <2>1 DEF Serves, Sector, Data
<1> QED
  BY <1>2, <1>4, <1>5 DEF LhdInv

\* A card that is not at rest serves somebody.
LEMMA Served ==
    ASSUME Sizes, LhdInv, card.stat # "idle" \/ lh_done # 0
    PROVE  \E t \in Client : io[t].st = "busy" /\ Serves(t)
  BY DEF LhdInv, Rest

\* What the card does to the disk, and what it leaves in its buffer.
LEMMA CompleteStep ==
    ASSUME Sizes, LhdInv, Complete, NEW t \in Client, io[t].st = "busy"
    PROVE  /\ card.stat = "working" /\ Serves(t)
           /\ UNCHANGED <<lh_clear, lh_done, lh_result, io>>
           /\ card'.stat \in {"ok", "EIO"} /\ card'.sect = card.sect
           /\ card'.iswrite = card.iswrite /\ card' \in Card
           /\ card.iswrite => card'.buf = card.buf
           /\ platter' \in [0 .. Blocks - 1 -> Content]
           /\ card'.stat = "ok" => card'.buf = platter'[card.sect]
           /\ \A s \in 0 .. Blocks - 1 : platter'[s] # platter[s] =>
                  card.iswrite /\ s = card.sect /\ platter'[s] = card.buf
<1>1. /\ card.stat = "working" /\ Serves(t)
      /\ UNCHANGED <<lh_clear, lh_done, lh_result, io>>
  BY DEF Complete, LhdInv
<1>2. card.sect \in 0 .. Blocks - 1 /\ card \in Card
  BY <1>1, SectorInside, IdleRest DEF LhdInv, TypeOK, Serves
<1>3. card.sect < Blocks /\ card.buf \in Content /\ platter[card.sect] \in Content
  BY <1>2, SMT DEF LhdInv, TypeOK, Card, Sizes
<1>4. \/ /\ card.iswrite /\ platter' = [platter EXCEPT ![card.sect] = card.buf]
         /\ card' = [card EXCEPT !.stat = "ok"]
      \/ /\ ~card.iswrite /\ UNCHANGED platter
         /\ card' = [card EXCEPT !.stat = "ok", !.buf = platter[card.sect]]
      \/ card' = [card EXCEPT !.stat = "EIO"] /\ UNCHANGED platter
  BY <1>3 DEF Complete
<1>5. CASE card.iswrite /\ platter' = [platter EXCEPT ![card.sect] = card.buf]
           /\ card' = [card EXCEPT !.stat = "ok"]
  BY <1>1, <1>2, <1>3, <1>5 DEF LhdInv, TypeOK, Card, Results
<1>6. CASE ~card.iswrite /\ UNCHANGED platter
           /\ card' = [card EXCEPT !.stat = "ok", !.buf = platter[card.sect]]
  BY <1>1, <1>2, <1>3, <1>6 DEF LhdInv, TypeOK, Card, Results
<1>7. CASE card' = [card EXCEPT !.stat = "EIO"] /\ UNCHANGED platter
  BY <1>1, <1>2, <1>3, <1>7 DEF LhdInv, TypeOK, Card, Results
<1> QED
  BY <1>4, <1>5, <1>6, <1>7

\* The card has done the sector of whoever has it.
LEMMA CompleteInv == ASSUME Sizes, LhdInv, Complete PROVE LhdInv'
<1>1. card.stat = "working"
  BY DEF Complete
<1>2. PICK t \in Client : io[t].st = "busy"
  BY <1>1, Served
<1>3. /\ Serves(t) /\ UNCHANGED <<lh_clear, lh_done, lh_result, io>>
      /\ card'.stat \in {"ok", "EIO"} /\ card'.sect = card.sect
      /\ card'.iswrite = card.iswrite /\ card' \in Card
      /\ card.iswrite => card'.buf = card.buf
      /\ platter' \in [0 .. Blocks - 1 -> Content]
      /\ card'.stat = "ok" => card'.buf = platter'[card.sect]
  BY <1>2, CompleteStep
<1>4. TypeOK'
  BY <1>3 DEF LhdInv, TypeOK
<1>5. Sector(t)' = Sector(t) /\ Data(t)' = Data(t)
  BY <1>3 DEF Sector, Data
<1>6. Serves(t)'
  BY <1>1, <1>2, <1>3, <1>5 DEF Serves
<1> QED
  BY <1>2, <1>3, <1>4, <1>6 DEF LhdInv, Rest, Serves

\* lhd_irq hands the result to whoever has the card.
LEMMA lhd_irqInv == ASSUME Sizes, LhdInv, lhd_irq PROVE LhdInv'
<1>1. /\ card.stat \in Results /\ card' = [card EXCEPT !.stat = "idle"]
      /\ lh_result' = card.stat /\ lh_done' = lh_done + 1
      /\ UNCHANGED <<lh_clear, platter, io>>
  BY DEF lhd_irq
<1>2. PICK t \in Client : io[t].st = "busy" /\ Serves(t)
  BY <1>1, Served DEF Results
<1>3. /\ card'.stat = "idle" /\ card'.sect = card.sect /\ card'.iswrite = card.iswrite
      /\ card'.buf = card.buf /\ card' \in Card
  BY <1>1 DEF LhdInv, TypeOK, Card
<1>4. lh_done' = 1 /\ lh_result' \in {"ok", "EIO"}
      /\ (lh_result' = "ok" => card.buf = platter[Sector(t)])
  BY <1>1, <1>2, SMT DEF Serves, Results
<1>5. TypeOK'
  BY <1>1, <1>3, <1>4 DEF LhdInv, TypeOK, Results
<1>6. Sector(t)' = Sector(t) /\ Data(t)' = Data(t)
  BY <1>1 DEF Sector, Data
<1>7. Serves(t)'
  BY <1>1, <1>2, <1>3, <1>4, <1>6 DEF Serves
<1> QED
  BY <1>1, <1>2, <1>5, <1>7 DEF LhdInv, Rest, Serves

\* Whoever has the card takes its answer and gives it up, with the request over
\* or the next sector still to do.
LEMMA FinishInv == ASSUME Sizes, LhdInv, NEW t \in Client, Finish(t) PROVE LhdInv'
<1>1. /\ io[t].st = "busy" /\ lh_done > 0 /\ lh_done' = lh_done - 1
      /\ lh_clear' = lh_clear + 1 /\ UNCHANGED <<lh_result, card, platter>>
  BY DEF Finish
<1>2. Serves(t)
  BY <1>1 DEF LhdInv
<1>3. lh_clear' = 1 /\ lh_done' = 0 /\ card'.stat = "idle"
  BY <1>1, <1>2, SMT DEF Serves
<1>4. io[t] \in Transfer
  BY <1>1, IdleRest, SectorInside DEF LhdInv
<1>5. \E r \in Transfer \cup {Idle} : io' = [io EXCEPT ![t] = r] /\ r.st # "busy"
  <2>1. CASE io' = [io EXCEPT ![t] = Idle]
    BY <2>1, IdleRest
  <2>2. CASE io[t].i + 1 < io[t].len /\ io' = [io EXCEPT ![t].st = "wait", ![t].i = @ + 1]
    <3> DEFINE r == [io[t] EXCEPT !.st = "wait", !.i = @ + 1]
    <3>1. /\ r \in [st : {"wait", "busy"}, op : Ops, pos : Nat, len : Nat, i : Nat]
          /\ r.st = "wait" /\ r.i = io[t].i + 1 /\ r.pos = io[t].pos /\ r.len = io[t].len
      <4> DEFINE R == [st : {"wait", "busy"}, op : Ops, pos : Nat, len : Nat, i : Nat]
                 w == [io[t] EXCEPT !.st = "wait"]
      <4>1. io[t] \in R
        BY <1>4 DEF Transfer
      <4>2. /\ w \in R /\ w.st = "wait" /\ w.i = io[t].i /\ w.pos = io[t].pos
            /\ w.len = io[t].len
        BY <4>1
      <4>3. r = [w EXCEPT !.i = w.i + 1]
        BY <4>2
      <4> HIDE DEF w, r
      <4> QED
        BY <4>2, <4>3, SMT
    <3>2. r \in Transfer
      BY <1>4, <2>2, <3>1 DEF Transfer
    <3>3. io' = [io EXCEPT ![t] = r]
      BY <2>2 DEF LhdInv, TypeOK
    <3> QED
      BY <3>1, <3>2, <3>3
  <2> QED
    BY <2>1, <2>2 DEF Finish, Return
<1>6. /\ io' \in [Client -> Transfer \cup {Idle}] /\ io'[t].st # "busy"
      /\ \A u \in Client : u # t => io'[u] = io[u]
  BY <1>5 DEF LhdInv, TypeOK
<1>7. \A u \in Client : io'[u].st # "busy"
  BY <1>2, <1>6 DEF Serves
<1>8. TypeOK'
  BY <1>1, <1>3, <1>6 DEF LhdInv, TypeOK
<1> QED
  BY <1>3, <1>7, <1>8 DEF LhdInv, Rest

\* Every step keeps the invariant.
LEMMA LhdNextInv == ASSUME Sizes PROVE LhdInv /\ [LhdNext]_lhdVars => LhdInv'
<1> SUFFICES ASSUME LhdInv, [LhdNext]_lhdVars PROVE LhdInv'
  OBVIOUS
<1>1. CASE UNCHANGED lhdVars
  BY <1>1 DEF lhdVars, LhdInv, TypeOK, Rest, Serves, Sector, Data
<1>2. CASE LhdNext
  BY <1>2, RequestInv, StartInv, StartFailsInv, FinishInv, CompleteInv, lhd_irqInv DEF LhdNext
<1> QED
  BY <1>1, <1>2

----------------------------------------------------------------------------

\* lh_clear, lh_done and lhd_irq keep the requests of different threads apart
\* whatever order they come in: the thread that P(lh_done) lets go on in lhd_io
\* has the card alone, and finds the result, and what it read, of the sector that
\* it asked for.
THEOREM FindsItsResult == ASSUME Sizes PROVE LhdSpec => []TransferMine
<1>1. LhdInit => LhdInv
  BY LhdInitInv
<1>2. LhdInv /\ [LhdNext]_lhdVars => LhdInv'
  BY LhdNextInv
<1>3. LhdInv => TransferMine
  BY SMT DEF LhdInv, TypeOK, TransferMine, Serves
<1> QED
  BY <1>1, <1>2, <1>3, PTL DEF LhdSpec

\* A sector of the disk changes only under the write that asked for it: the
\* checks of dev_tryseek and lhd_io, made before the request waits for the card,
\* still hold when its turn comes.
THEOREM WritesWhatWasAsked == ASSUME Sizes PROVE LhdSpec => OnlyAsked
<1>1. LhdInit => LhdInv
  BY LhdInitInv
<1>2. LhdInv /\ [LhdNext]_lhdVars => LhdInv'
  BY LhdNextInv
<1> DEFINE Asked(s) == \E t \in Client : /\ io[t].st = "busy" /\ io[t].op = "write"
                                         /\ Sector(t) = s /\ platter'[s] = Data(t)
<1>3. LhdInv /\ [LhdNext]_lhdVars =>
          [\A s \in 0 .. Blocks - 1 : platter'[s] # platter[s] => Asked(s)]_lhdVars
  <2> SUFFICES ASSUME LhdInv, LhdNext, NEW s \in 0 .. Blocks - 1, platter'[s] # platter[s]
               PROVE  Asked(s)
    OBVIOUS
  <2>1. Complete
    BY DEF LhdNext, Request, Start, StartFails, Finish, lhd_irq
  <2>2. PICK t \in Client : io[t].st = "busy" /\ Serves(t)
    BY <2>1, Served DEF Complete
  <2>3. card.iswrite /\ s = card.sect /\ platter'[s] = card.buf
    BY <2>1, <2>2, CompleteStep
  <2> QED
    BY <2>2, <2>3 DEF Serves
<1> QED
  BY <1>1, <1>2, <1>3, PTL DEF LhdSpec, OnlyAsked

----------------------------------------------------------------------------
(* ltimer.                                                                 *)

Margin == Second \in Nat /\ Small \in Nat \ {0} /\ 2 * Small <= Second /\ Horizon \in Nat

\* The inductive invariant: the reads made so far were made at times between the
\* beginning of the call and now, which is less than the margin.
Reading ==
    /\ gettime.from <= clock /\ clock - gettime.from < Small
    /\ gettime.secs1 = gettime.from \div Second

LtimerInv ==
    /\ clock \in Nat
    /\ gettime \in [pc : {"idle", "nsec", "secs2", "done"}, from : Nat, secs1 : Int,
                    nsec : Int, result : Int]
    /\ gettime.pc \in {"nsec", "secs2"} => Reading
    /\ gettime.pc = "secs2" =>
           \E now \in Nat : gettime.from <= now /\ now <= clock /\ gettime.nsec = now % Second
    /\ TimeWithin

\* A time is its whole seconds and the ticks since.
LEMMA Split ==
    ASSUME Margin, NEW a \in Nat
    PROVE  /\ a \div Second \in Nat /\ a % Second \in 0 .. Second - 1
           /\ a = (a \div Second) * Second + (a % Second)
  BY SMT DEF Margin

\* The whole seconds of a time, from any way to write it.
LEMMA Seconds ==
    ASSUME Margin, NEW a \in Nat, NEW q \in Int, NEW r \in 0 .. Second - 1,
           a = q * Second + r
    PROVE  a \div Second = q
<1> DEFINE qa == a \div Second
           ra == a % Second
<1>1. qa \in Nat /\ ra \in 0 .. Second - 1 /\ a = qa * Second + ra
  BY Split
<1>2. Second \in Nat \ {0}
  BY SMT DEF Margin
<1> HIDE DEF qa, ra
<1>3. ~(qa >= q + 1)
  <2> SUFFICES ASSUME qa >= q + 1 PROVE FALSE
    OBVIOUS
  <2>1. qa * Second >= (q + 1) * Second /\ (q + 1) * Second = q * Second + Second
    BY <1>1, <1>2, SMT
  <2> QED
    BY <1>1, <1>2, <2>1, SMT
<1>4. ~(q >= qa + 1)
  <2> SUFFICES ASSUME q >= qa + 1 PROVE FALSE
    OBVIOUS
  <2>1. q * Second >= (qa + 1) * Second /\ (qa + 1) * Second = qa * Second + Second
    BY <1>1, <1>2, SMT
  <2> QED
    BY <1>1, <1>2, <2>1, SMT
<1> QED
  BY <1>1, <1>3, <1>4, SMT DEF qa

\* Two times less than the margin apart: if the later of them is not less than
\* the margin into its second, they are in the same second; if the earlier is,
\* they are too.
LEMMA SameSecond ==
    ASSUME Margin, NEW a \in Nat, NEW b \in Nat, a <= b, b - a < Small,
           b % Second >= Small \/ a % Second < Small
    PROVE  a \div Second = b \div Second
<1>1. Second \in Nat \ {0} /\ Small \in Nat /\ 2 * Small <= Second
  BY SMT DEF Margin
<1>2. CASE b % Second >= Small
  <2> DEFINE q == b \div Second
             r == b % Second
  <2>1. q \in Nat /\ r \in 0 .. Second - 1 /\ b = q * Second + r /\ r >= Small
    BY <1>2, Split
  <2> HIDE DEF q, r
  <2>2. r - (b - a) \in 0 .. Second - 1 /\ a = q * Second + (r - (b - a))
    BY <1>1, <2>1, SMT
  <2>3. a \div Second = q
    BY <2>1, <2>2, Seconds, SMT
  <2> QED
    BY <2>3 DEF q
<1>3. CASE a % Second < Small
  <2> DEFINE q == a \div Second
             r == a % Second
  <2>1. q \in Nat /\ r \in 0 .. Second - 1 /\ a = q * Second + r /\ r < Small
    BY <1>3, Split
  <2> HIDE DEF q, r
  <2>2. r + (b - a) \in 0 .. Second - 1 /\ b = q * Second + (r + (b - a))
    BY <1>1, <2>1, SMT
  <2>3. b \div Second = q
    BY <2>1, <2>2, Seconds, SMT
  <2> QED
    BY <2>3 DEF q
<1> QED
  BY <1>2, <1>3

----------------------------------------------------------------------------

\* The last read completes a time within the call.
LEMMA ReadSecs2Inv == ASSUME Margin, LtimerInv, ReadSecs2 PROVE LtimerInv'
<1>1. /\ gettime.pc = "secs2" /\ clock' = clock
      /\ gettime' = [gettime EXCEPT !.pc = "done",
             !.result = TakenSecs(gettime.secs1, gettime.nsec, clock \div Second) * Second
                            + gettime.nsec]
  BY DEF ReadSecs2
<1>2. PICK now \in Nat :
          gettime.from <= now /\ now <= clock /\ gettime.nsec = now % Second
  BY <1>1 DEF LtimerInv
<1>3. /\ gettime.from \in Nat /\ clock \in Nat /\ clock - gettime.from < Small
      /\ gettime.secs1 = gettime.from \div Second
  BY <1>1 DEF LtimerInv, Reading
<1>4. TakenSecs(gettime.secs1, gettime.nsec, clock \div Second) = now \div Second
  <2>0. Small \in Nat /\ now % Second \in Nat
    BY Split, SMT DEF Margin
  <2>1. CASE now % Second < Small
    <3>1. now \div Second = clock \div Second
      BY <1>2, <1>3, <2>0, <2>1, SameSecond, SMT
    <3> QED
      BY <1>2, <2>1, <3>1 DEF TakenSecs
  <2>2. CASE ~(now % Second < Small)
    <3>1. gettime.from \div Second = now \div Second
      BY <1>2, <1>3, <2>0, <2>2, SameSecond, SMT
    <3> QED
      BY <1>2, <1>3, <2>2, <3>1 DEF TakenSecs
  <2> QED
    BY <2>1, <2>2
<1>5. (now \div Second) * Second + gettime.nsec = now
  BY <1>2, Split
<1>6. gettime' = [gettime EXCEPT !.pc = "done", !.result = now]
  BY <1>1, <1>4, <1>5
<1>7. /\ gettime' \in [pc : {"idle", "nsec", "secs2", "done"}, from : Nat, secs1 : Int,
                       nsec : Int, result : Int]
      /\ gettime'.pc = "done" /\ gettime'.from = gettime.from /\ gettime'.result = now
  <2> DEFINE R == [pc : {"idle", "nsec", "secs2", "done"}, from : Nat, secs1 : Int,
                   nsec : Int, result : Int]
             w == [gettime EXCEPT !.pc = "done"]
  <2>1. gettime \in R
    BY DEF LtimerInv
  <2>2. w \in R /\ w.pc = "done" /\ w.from = gettime.from
    BY <2>1
  <2>3. gettime' = [w EXCEPT !.result = now]
    BY <1>6
  <2> HIDE DEF w
  <2> QED
    BY <2>2, <2>3, SMT
<1>8. TimeWithin'
  BY <1>1, <1>2, <1>7 DEF TimeWithin
<1>9. clock' \in Nat
  BY <1>1, <1>3
<1> QED
  BY <1>7, <1>8, <1>9 DEF LtimerInv

\* Every step keeps the invariant.
LEMMA LtimerNextInv == ASSUME Margin PROVE LtimerInv /\ [LtimerNext]_ltimerVars => LtimerInv'
<1> SUFFICES ASSUME LtimerInv, [LtimerNext]_ltimerVars PROVE LtimerInv'
  OBVIOUS
<1>1. CASE Tick
  BY <1>1, SMT DEF Tick, LtimerInv, Reading, TimeWithin
<1>2. CASE ReadSecs1
  <2>1. clock \div Second \in Int /\ clock \in Nat /\ Small \in Nat \ {0}
    BY Split, SMT DEF LtimerInv, Margin
  <2>2. /\ gettime' = [pc |-> "nsec", from |-> clock, secs1 |-> clock \div Second,
                       nsec |-> 0, result |-> 0]
        /\ clock' = clock
    BY <1>2 DEF ReadSecs1, NotReading
  <2>3. /\ gettime' \in [pc : {"idle", "nsec", "secs2", "done"}, from : Nat, secs1 : Int,
                         nsec : Int, result : Int]
        /\ gettime'.pc = "nsec" /\ gettime'.from = clock
        /\ gettime'.secs1 = clock \div Second
    BY <2>1, <2>2, SMT
  <2>4. Reading'
    BY <2>1, <2>2, <2>3, SMT DEF Reading
  <2> QED
    BY <2>1, <2>2, <2>3, <2>4 DEF LtimerInv, TimeWithin
<1>3. CASE ReadNsec
  <2>1. clock % Second \in Int /\ clock \in Nat
    BY Split, SMT DEF LtimerInv
  <2>2. /\ gettime.pc = "nsec" /\ clock' = clock
        /\ gettime' = [gettime EXCEPT !.pc = "secs2", !.nsec = clock % Second]
    BY <1>3 DEF ReadNsec
  <2>3. /\ gettime' \in [pc : {"idle", "nsec", "secs2", "done"}, from : Nat, secs1 : Int,
                         nsec : Int, result : Int]
        /\ gettime'.pc = "secs2" /\ gettime'.from = gettime.from
        /\ gettime'.secs1 = gettime.secs1 /\ gettime'.nsec = clock % Second
    BY <2>1, <2>2 DEF LtimerInv
  <2>4. Reading' /\ Reading
    BY <2>2, <2>3 DEF LtimerInv, Reading
  <2>5. gettime'.from <= clock
    BY <2>3, <2>4 DEF Reading
  <2> QED
    BY <2>1, <2>2, <2>3, <2>4, <2>5, SMT DEF LtimerInv, TimeWithin
<1>4. CASE TimeReturned
  BY <1>4, SMT DEF TimeReturned, NotReading, LtimerInv, Reading, TimeWithin
<1>5. CASE UNCHANGED ltimerVars
  BY <1>5 DEF ltimerVars, LtimerInv, Reading, TimeWithin
<1> QED
  BY <1>1, <1>2, <1>3, <1>4, <1>5, ReadSecs2Inv DEF LtimerNext

\* ltimer_gettime returns a time of the clock between its first read and its
\* last, although the seconds may turn over between any two of them.
THEOREM TimeIsWithin == ASSUME Margin PROVE LtimerSpec => []TimeWithin
<1>1. LtimerInit => LtimerInv
  BY SMT DEF LtimerInit, NotReading, LtimerInv, Reading, TimeWithin
<1>2. LtimerInv /\ [LtimerNext]_ltimerVars => LtimerInv'
  BY LtimerNextInv
<1>3. LtimerInv => TimeWithin
  BY DEF LtimerInv
<1> QED
  BY <1>1, <1>2, <1>3, PTL DEF LtimerSpec

============================================================================
