------------------------------ MODULE TimeOfDay -----------------------------
(***************************************************************************)
(* gettimeofday and settimeofday over the tick counter: the wall clock is  *)
(* kept as what the clock would have read at reset, so that setting it     *)
(* subtracts the time since reset and reading it adds it again.  The two   *)
(* conversions of ticks are written differently in the code.               *)
(***************************************************************************)
EXTENDS Integers

CONSTANTS US,        \* microseconds in a second
          Word,      \* unsigned 32-bit arithmetic is modulo Word
          Rates,     \* ticks a second the clock may be started with
          MaxTicks,  \* bound: the ticks of a run
          MaxSec     \* bound: the seconds given to settimeofday

TimeAssumption ==
    /\ US \in Nat \ {0} /\ Word \in Nat \ {0}
    /\ Rates \subseteq 1 .. US
    /\ MaxTicks \in 0 .. Word - 1 /\ MaxSec \in Nat

VARIABLES nticks, tickRate,
          resettime,  \* seconds and microseconds of the clock at reset
          setTo,      \* in microseconds: what the clock was last set to,
          setAt       \* and when, in ticks

vars == <<nticks, tickRate, resettime, setTo, setAt>>

Times == [sec : 0 .. MaxSec, usec : 0 .. US - 1]
Total(t) == t.sec * US + t.usec

Init == /\ nticks = 0 /\ tickRate = 0
        /\ resettime = [sec |-> 0, usec |-> 0]
        /\ setTo = 0 /\ setAt = 0

PerTick == US \div tickRate

\* In gettimeofday the product has 64 bits, in settimeofday 32.
TicksRead == (nticks * PerTick) % US
TicksSet == ((nticks * PerTick) % Word) % US

BorrowedFromNobody(t) == IF t.usec >= 0 THEN t ELSE [t EXCEPT !.usec = @ + US]
Borrowed(t) ==
    IF t.usec >= 0 THEN t
    ELSE IF t.sec <= 0 THEN [sec |-> 0, usec |-> 0]
    ELSE [sec |-> t.sec - 1, usec |-> t.usec + US]

Carried(t) == IF t.usec < US THEN t
              ELSE [sec |-> t.sec + t.usec \div US, usec |-> t.usec % US]

\* What gettimeofday returns; without a clock it returns an error.
TimeOfDay ==
    Carried(Borrowed([sec  |-> resettime.sec + nticks \div tickRate,
                      usec |-> resettime.usec + TicksRead]))

\* The first clock driver to call alt_sysclk_init fixes the rate.
SysclkInit(freq) ==
    /\ tickRate = 0 /\ tickRate' = freq
    /\ UNCHANGED <<nticks, resettime, setTo, setAt>>

Tick ==
    /\ tickRate # 0 /\ nticks < MaxTicks
    /\ nticks' = nticks + 1
    /\ UNCHANGED <<tickRate, resettime, setTo, setAt>>

SetTimeOfDay(t) ==
    /\ tickRate # 0
    /\ resettime' = [sec  |-> t.sec - nticks \div tickRate,
                     usec |-> t.usec - TicksSet]
    /\ setTo' = Total(t) /\ setAt' = nticks
    /\ UNCHANGED <<nticks, tickRate>>

Next == \/ Tick
        \/ \E f \in Rates : SysclkInit(f)
        \/ \E t \in Times : SetTimeOfDay(t)

Spec == Init /\ [][Next]_vars

-----------------------------------------------------------------------------
\* Type invariant; the time read is normalised.
TypeOK ==
    /\ nticks \in 0 .. MaxTicks /\ tickRate \in Rates \cup {0}
    /\ resettime.sec \in Int /\ resettime.usec \in 1 - US .. US - 1
    /\ tickRate # 0 => TimeOfDay.sec \in Nat /\ TimeOfDay.usec \in 0 .. US - 1

\* The clock reads what it was set to plus the time since, to the microsecond,
\* when the rate divides a second: setting and reading it convert ticks in
\* two ways, with a borrow and a carry between them, and never disagree.
ReadsElapsed ==
    tickRate # 0 => Total(TimeOfDay) = setTo + (nticks - setAt) * PerTick
=============================================================================
