------------------------------- MODULE Ltimer ------------------------------
(***************************************************************************)
(* ltimer_gettime (dev/lamebus/ltimer.c) reads the clock of the timer card *)
(* in three parts, the seconds on either side of the nanoseconds, while    *)
(* the clock runs.                                                         *)
(***************************************************************************)
EXTENDS Integers

CONSTANTS
    Second,     \* ticks of the clock in a second
    Small,      \* ltimer_gettime's 5000000 of them
    Horizon     \* bound: how long the clock runs

VARIABLES
    clock,      \* external: the time
    gettime     \* what has been read, and when it began

ltimerVars == <<clock, gettime>>

NotReading == [pc |-> "idle", from |-> 0, secs1 |-> 0, nsec |-> 0, result |-> 0]

LtimerInit == clock = 0 /\ gettime = NotReading

\* The clock runs on; the reads are made with interrupts off, within the margin
\* that the code takes for granted.
Tick ==
    /\ clock < Horizon
    /\ gettime.pc # "idle" => clock + 1 - gettime.from < Small
    /\ clock' = clock + 1
    /\ UNCHANGED gettime

ReadSecs1 ==
    /\ gettime.pc = "idle"
    /\ gettime' = [NotReading EXCEPT !.pc = "nsec", !.from = clock, !.secs1 = clock \div Second]
    /\ UNCHANGED clock

ReadNsec ==
    /\ gettime.pc = "nsec"
    /\ gettime' = [gettime EXCEPT !.pc = "secs2", !.nsec = clock % Second]
    /\ UNCHANGED clock

\* Mutant of TakenSecs: the earlier seconds, whatever the nanoseconds.
TakenSecsEarlier(secs1, nsec, secs2) == secs1

\* If few nanoseconds have passed the later reading of the seconds is taken.
TakenSecs(secs1, nsec, secs2) == IF nsec < Small THEN secs2 ELSE secs1

ReadSecs2 ==
    /\ gettime.pc = "secs2"
    /\ LET secs == TakenSecs(gettime.secs1, gettime.nsec, clock \div Second) IN
       gettime' = [gettime EXCEPT !.pc = "done", !.result = secs * Second + gettime.nsec]
    /\ UNCHANGED clock

TimeReturned ==
    /\ gettime.pc = "done"
    /\ gettime' = NotReading
    /\ UNCHANGED clock

LtimerNext == Tick \/ ReadSecs1 \/ ReadNsec \/ ReadSecs2 \/ TimeReturned

LtimerSpec == LtimerInit /\ [][LtimerNext]_ltimerVars

----------------------------------------------------------------------------
(* Properties *)

\* ltimer_gettime returns a time at which it was reading, not one a second off
\* because the seconds turned over between two of its reads.
TimeWithin ==
    gettime.pc = "done" => gettime.from <= gettime.result /\ gettime.result <= clock

============================================================================
