----------------------------- MODULE BusySleep ------------------------------
(***************************************************************************)
(* usleep without a timer: a loop of two instructions counts a register    *)
(* down.  A delay too long for one count of INT_MAX is made of several.    *)
(* The loop changes a register the compiler was told is only read.         *)
(***************************************************************************)
EXTENDS Integers

CONSTANTS Word,      \* registers count modulo Word
          IntMax,    \* the largest signed int
          CyclesPerUs, CyclesPerLoop,  \* of the clock, and of the core
          Reloads,   \* the compiled loop may, or may not, load INT_MAX again
          Delays     \* arguments of usleep

SleepAssumption ==
    /\ Word = 2 * (IntMax + 1) /\ IntMax \in Nat
    /\ CyclesPerUs \in Nat /\ CyclesPerLoop \in 1 .. CyclesPerUs
    /\ CyclesPerUs \div CyclesPerLoop <= IntMax
    /\ Reloads \subseteq BOOLEAN /\ Delays \subseteq 0 .. Word - 1

VARIABLES asked,    \* the delay, in microseconds
          us,       \* what is left of it
          big,      \* counts of INT_MAX to go
          long,     \* the delay took more than one count
          reloads, register,
          pc,
          loops     \* loops done so far

vars == <<asked, us, big, long, reloads, register, pc, loops>>

\* Loops in a microsecond, and microseconds in a count of INT_MAX loops.
PerUs == CyclesPerUs \div CyclesPerLoop
Unit == IntMax \div PerUs

Init == /\ asked \in Delays /\ us = asked
        /\ big = asked \div Unit /\ long = (big # 0)
        /\ reloads \in Reloads /\ register = IntMax
        /\ pc = "sleep" /\ loops = 0

\* Counting down until zero is reached, from zero all the way round; and
\* until it is no longer positive, which takes one loop at least.
UntilZero(n) == IF n = 0 THEN Word ELSE n
UntilNotPositive(n) == IF n > 0 THEN n ELSE 1

LeftOver == us - Unit

BigLoop ==
    /\ pc = "sleep" /\ big > 0
    /\ loops' = loops + UntilZero(register)
    /\ register' = IF reloads THEN IntMax ELSE 0
    /\ big' = big - 1 /\ us' = LeftOver
    /\ UNCHANGED <<asked, long, reloads, pc>>

LastCountUnscaled == us
LastCount == (us * PerUs) % Word

Rest ==
    /\ pc = "sleep" /\ big = 0
    /\ loops' = loops + (IF long THEN UntilZero(LastCount)
                                 ELSE UntilNotPositive(LastCount))
    /\ pc' = "awake"
    /\ UNCHANGED <<asked, us, big, long, reloads, register>>

Next == BigLoop \/ Rest

Spec == Init /\ [][Next]_vars

-----------------------------------------------------------------------------
\* Type invariant; what is left is what the counts to go are for, and never
\* goes below zero, where it would wrap.
TypeOK ==
    /\ asked \in Delays /\ big \in Nat
    /\ us \in big * Unit .. (big + 1) * Unit - 1 /\ long \in BOOLEAN /\ reloads \in Reloads
    /\ register \in 0 .. IntMax /\ pc \in {"sleep", "awake"} /\ loops \in Nat

\* The caller waits as long as it asked but for the cycles of each microsecond
\* that the division drops, for every delay, whatever the compiler makes of the
\* loop.  Of the core in this repository, 50 cycles a microsecond and 9 a loop,
\* it drops 5.
Dropped == CyclesPerUs % CyclesPerLoop
ShortByDropped ==
    pc = "awake" => loops * CyclesPerLoop >= asked * (CyclesPerUs - Dropped)
=============================================================================
