------------------------------ MODULE PerfCounter ------------------------------
(***************************************************************************)
(* The performance counter: section 0 measures the whole, section 1 a part *)
(* of it.  Times have two halves, read one after the other.  A step is a   *)
(* clock with at most one access of the bus; between those of the driver   *)
(* there may be accesses of an interrupt's handler, which marks the        *)
(* beginning and the end of section 1.                                     *)
(***************************************************************************)
EXTENDS Integers

CONSTANTS Word,      \* a half of a time counts modulo Word, 2^32
          MaxClocks  \* bound: clocks since power-up

PerfAssumption ==
    Word \in Nat \ {0} /\ MaxClocks \in Nat /\ MaxClocks < Word * Word

VARIABLES time, starts, enabled,  \* of both sections
          clocks,
          pc, section, lo,  \* perf_get_section_time
          shown             \* what a report read of both sections

vars == <<time, starts, enabled, clocks, pc, section, lo, shown>>
driver == <<pc, section, lo, shown>>

Sections == {0, 1}
NoAccess == [op |-> "none", section |-> 0]
Op(op, s) == [op |-> op, section |-> s]

Init == /\ time = [s \in Sections |-> 0] /\ starts = [s \in Sections |-> 0]
        /\ enabled = [s \in Sections |-> FALSE]
        /\ clocks = 0 /\ pc = "idle" /\ section = 0 /\ lo = 0
        /\ shown = [s \in Sections |-> 0]

\* A write of 0 to the first word of section 0 stops it; of 1, resets all.
Reset(a) == a.op = "reset"
Go(a, s) == a = Op("begin", s)
Halt(a, s) == Reset(a) \/ a = Op("end", s)

GlobalAlways(a) == TRUE
Global(a) == enabled[0] \/ Go(a, 0)

Clock(a) ==
    /\ clocks < MaxClocks /\ clocks' = clocks + 1
    /\ time' = [s \in Sections |->
                   CASE Reset(a) -> 0
                     [] ~Reset(a) /\ enabled[s] /\ Global(a) -> (time[s] + 1) % (Word * Word)
                     [] OTHER -> time[s]]
    /\ starts' = [s \in Sections |->
                     CASE Reset(a) -> 0
                       [] ~Reset(a) /\ Go(a, s) /\ Global(a) -> starts[s] + 1
                       [] OTHER -> starts[s]]
    /\ enabled' = [s \in Sections |-> ~Halt(a, s) /\ (Go(a, s) \/ enabled[s])]

\* The program's own accesses, outside of the driver.
Mark == /\ pc = "idle"
        /\ \E a \in {NoAccess, Op("reset", 0)} \cup {Op(o, s) : o \in {"begin", "end"}, s \in Sections} :
               Clock(a)
        /\ UNCHANGED driver

\* Clocks between the accesses of the driver, and a handler's accesses in them.
Between == /\ pc # "idle"
           /\ \E a \in {NoAccess, Op("begin", 1), Op("end", 1)} : Clock(a)
           /\ UNCHANGED driver

\* perf_print_formatted_report stops the counters and reads both sections.
Report == /\ pc = "idle" /\ clocks < MaxClocks
          /\ pc' = "get" /\ section' = 0
          /\ Clock(Op("end", 0))
          /\ UNCHANGED <<lo, shown>>

StopsNot == NoAccess
Stops == Op("end", 0)
Get == /\ pc = "get" /\ pc' = "lo"
       /\ Clock(Stops)
       /\ UNCHANGED <<section, lo, shown>>

\* A program that reads a section without a report.
GetSection == /\ pc = "idle" /\ pc' = "lo"
              /\ section' = 1 /\ Clock(Stops)
              /\ UNCHANGED <<lo, shown>>

Low(t) == t % Word
ReadLo == /\ pc = "lo" /\ pc' = "hi"
          /\ lo' = Low(time[section])
          /\ Clock(NoAccess)
          /\ UNCHANGED <<section, shown>>

ReadHi == /\ pc = "hi"
          /\ shown' = [shown EXCEPT ![section] = (time[section] \div Word) * Word + lo]
          /\ IF section = 0 THEN pc' = "get" /\ section' = 1
                            ELSE pc' = "idle" /\ section' = 0
          /\ Clock(NoAccess)
          /\ UNCHANGED lo

Next == Mark \/ Between \/ Report \/ Get \/ GetSection \/ ReadLo \/ ReadHi

Spec == Init /\ [][Next]_vars

-----------------------------------------------------------------------------
\* Type invariant.
TypeOK ==
    /\ time \in [Sections -> 0 .. (Word * Word) - 1] /\ lo \in 0 .. Word - 1
    /\ \A s \in Sections : starts[s] \in 0 .. MaxClocks
    /\ enabled \in [Sections -> BOOLEAN] /\ section \in Sections
    /\ pc \in {"idle", "get", "lo", "hi"}

\* What the driver returns is what the counter holds, although the halves are
\* read at different times and a handler marks the section meanwhile.
ReadsWhole == [][ReadHi => shown'[section] = time'[section]]_vars

\* A section is longer than the whole by a clock for each start at most.
WithinWhole == time[1] <= time[0] + starts[0]
=============================================================================
