------------------------------ MODULE Injector ------------------------------
(***************************************************************************)
(* The injection program the Nios II runs                                  *)
(* (de0_nano/nios/software/hw_io/inject.c) against the core and its debug  *)
(* port. "line" is the line of inject.c whose I/O access comes next; every *)
(* access happens on a clock edge, and between one access and the next the *)
(* core sees some number of edges taken from Gaps, or from HoldGaps while  *)
(* a half of the fault mask is held in the data register.                  *)
(*                                                                         *)
(* The two halves of a word are read one after the other, in an order C    *)
(* leaves open; ReadsAreStable says they belong to one word, so that a     *)
(* word is read in one access here.                                        *)
(***************************************************************************)
EXTENDS DebugPort

CONSTANTS Setups,        \* the macros under "Injection setup"
          ResultReg,     \* a0
          UintSize,      \* 2^32, the span of the watchdog
          Gaps, HoldGaps

ASSUME InjectorAssumption ==
  /\ UintSize \in Nat \ {0}
  /\ Setups \subseteq [ delay : Half, reg : RegId, low : Half, high : Half,
                        max : 0 .. UintSize - 1 ]
  /\ ResultReg \in RegId
  /\ Gaps # {} /\ Gaps \subseteq Nat \ {0}
  /\ HoldGaps # {} /\ HoldGaps \subseteq Nat \ {0}
  /\ RegCount <= 32 /\ MemWords * Lanes <= 32768   \* they fit the address register

(* What wideXOR.sv is to a register: a mask of zeros changes nothing, a    *)
(* mask undoes itself, and the halves of a mask can be applied in turn.    *)
ASSUME XorAssumption ==
  /\ \A a \in Word : Xor(a, 0) = a
  /\ \A a, m \in Word : Xor(Xor(a, m), m) = a
  /\ \A a \in Word : \A low, high \in Half :
       Xor(Xor(a, low), high * HalfSize) = Xor(a, high * HalfSize + low)

VARIABLES setup,         \* INJECT_DELAY, _ADDRESS, _DATA_LOW, _DATA_HIGH, MAX
          line, idle,    \* the next access, and the edges since the last one
          watchdog,
          word,          \* i >> 3 of the dump loop
          report,        \* what alt_printf has been given
          dump

injVars == <<portVars, setup, line, idle, watchdog, word, report, dump>>

BootLines   == {23, 27, 28, 29, 30, 31, 32, 33, 37}
RunLines    == {40, 44, 46, 48, 52, 53, 59}
WindowLines == {60, 61, 62}
AfterLines  == {63, 67, 70, 76}
EndLines    == {78, 79, 82, 86, 95, 97, 98, 99, 109}
Done        == 109

Reports == [ pcInjected : Word, before : Word, after : Word,
             pcEnd : Word, result : Word, dnf : BOOLEAN ]

(* The program is always at one of its accesses, the watchdog of line 70   *)
(* wraps as the unsigned int it is, and the dump index ends at the RAM's   *)
(* size.                                                                   *)
InjTypeOK ==
  /\ PortTypeOK
  /\ setup \in Setups
  /\ line \in BootLines \cup RunLines \cup WindowLines \cup AfterLines \cup EndLines
  /\ idle \in Nat
  /\ watchdog \in 0 .. UintSize - 1
  /\ word \in 0 .. MemWords
  /\ report \in Reports
  /\ dump \in [RamAddr -> Word]

InjInit ==
  /\ PortInit
  /\ setup \in Setups
  /\ line = 23 /\ idle = 0 /\ watchdog = 0 /\ word = 0
  /\ report = [ pcInjected |-> 0, before |-> 0, after |-> 0,
                pcEnd |-> 0, result |-> 0, dnf |-> FALSE ]
  /\ dump = [a \in RamAddr |-> 0]

-----------------------------------------------------------------------------
(* One access each, from line "at" to line "next".                         *)
PutControl(at, c, next) == line = at /\ line' = next /\ StoreControl(c)
PutAddr(at, a, next)    == line = at /\ line' = next /\ StoreAddr(a)
PutLow(at, v, next)     == line = at /\ line' = next /\ StoreLow(v)
PutHigh(at, v, next)    == line = at /\ line' = next /\ StoreHigh(v)
Fetch(at, field, next) ==
  /\ line = at /\ line' = next
  /\ report' = [report EXCEPT ![field] = ioDataIn]
  /\ UNCHANGED ioVars

Quiet == UNCHANGED <<watchdog, word, report, dump>>

(* Variant: the delay bit is dropped with the load.                        *)
LoadDelayUnheld ==
  /\ \/ PutControl(23, {"reset"}, 27)
     \/ PutAddr(27, 4096, 28)
     \/ PutLow(28, setup.delay, 29)
     \/ PutControl(29, {"reset", "csr", "delay"}, 30)
     \/ PutControl(30, {"reset"}, 31)
  /\ Quiet

(* Reset the core and load the delay into the stall flag (23-30).          *)
LoadDelay ==
  /\ \/ PutControl(23, {"reset"}, 27)
     \/ PutAddr(27, 4096, 28)
     \/ PutLow(28, setup.delay, 29)
     \/ PutControl(29, {"reset", "csr", "delay"}, 30)
     \/ PutControl(30, {"reset", "delay"}, 31)
  /\ Quiet

(* Clear the data register and start the core (31-37).                     *)
Launch ==
  /\ \/ PutHigh(31, 0, 32)
     \/ PutLow(32, 0, 33)
     \/ PutAddr(33, 4096, 37)
     \/ PutControl(37, {"delay"}, 40)
  /\ Quiet

(* Poll the stall flag (40).                                               *)
AwaitStall ==
  /\ line = 40 /\ line' = (IF CycleStall THEN 44 ELSE 40)
  /\ UNCHANGED ioVars /\ Quiet

(* Variant: the delay is disarmed before anything else holds the core.     *)
ReadBeforeLoose ==
  /\ \/ (PutControl(44, {}, 46) \/ PutAddr(46, 32, 48)) /\ UNCHANGED report
     \/ Fetch(48, "pcInjected", 52)
     \/ PutAddr(52, setup.reg, 53) /\ UNCHANGED report
     \/ Fetch(53, "before", 59)
  /\ UNCHANGED <<watchdog, word, dump>>

(* Hold the core with the flip bit, report the PC and the register (44-55).*)
ReadBefore ==
  /\ \/ (PutControl(44, {"flip"}, 46) \/ PutAddr(46, 32, 48)) /\ UNCHANGED report
     \/ Fetch(48, "pcInjected", 52)
     \/ PutAddr(52, setup.reg, 53) /\ UNCHANGED report
     \/ Fetch(53, "before", 59)
  /\ UNCHANGED <<watchdog, word, dump>>

(* Set and clear each half of the mask (59-62).                            *)
SetMask ==
  /\ PutLow(59, setup.low, 60) \/ PutHigh(61, setup.high, 62)
  /\ Quiet
(* Variant: the high half is left set.                                     *)
ClearMaskLow ==
  /\ PutLow(60, 0, 61) \/ PutHigh(62, setup.high, 63)
  /\ Quiet
ClearMask ==
  /\ PutLow(60, 0, 61) \/ PutHigh(62, 0, 63)
  /\ Quiet

(* Report the new value and let the core run (63-67).                      *)
Resume ==
  /\ \/ Fetch(63, "after", 67)
     \/ PutControl(67, {}, 70) /\ UNCHANGED report
  /\ UNCHANGED <<watchdog, word, dump>>

(* Variants: no wrap, a limit one too small, a watchdog that never counts. *)
AwaitEndWide ==
  /\ line = 70
  /\ IF breakFlag \/ watchdog > setup.max
     THEN line' = 76 /\ UNCHANGED watchdog
     ELSE line' = 70 /\ watchdog' = watchdog + 1
  /\ UNCHANGED <<ioVars, word, report, dump>>
AwaitEndEarly ==
  /\ line = 70
  /\ IF breakFlag \/ watchdog >= setup.max
     THEN line' = 76 /\ UNCHANGED watchdog
     ELSE line' = 70 /\ watchdog' = (watchdog + 1) % UintSize
  /\ UNCHANGED <<ioVars, word, report, dump>>
AwaitEndForever ==
  /\ line = 70
  /\ line' = (IF breakFlag THEN 76 ELSE 70)
  /\ UNCHANGED <<ioVars, watchdog, word, report, dump>>

(* Poll the break flag until it is up or the watchdog runs out (70-72).    *)
AwaitEnd ==
  /\ line = 70
  /\ IF breakFlag \/ watchdog > setup.max
     THEN line' = 76 /\ UNCHANGED watchdog
     ELSE line' = 70 /\ watchdog' = (watchdog + 1) % UintSize
  /\ UNCHANGED <<ioVars, word, report, dump>>

(* Hold the core again, report the PC and the result register (76-90).     *)
ReadResult ==
  /\ \/ (PutControl(76, {"flip"}, 78) \/ PutAddr(78, 32, 79)) /\ UNCHANGED report
     \/ Fetch(79, "pcEnd", 82)
     \/ /\ watchdog <= setup.max
        /\ PutAddr(82, ResultReg, 86) /\ UNCHANGED report
     \/ /\ watchdog > setup.max
        /\ PutAddr(82, ResultReg, 95)
        /\ report' = [report EXCEPT !.dnf = TRUE]
     \/ Fetch(86, "result", 95)
  /\ UNCHANGED <<watchdog, word, dump>>

(* Variant: each address is stored once.                                   *)
DumpMemoryOnce ==
  /\ \/ PutControl(95, {"memRead"}, 97) /\ UNCHANGED <<word, dump>>
     \/ PutAddr(97, word * Lanes, 99)   /\ UNCHANGED <<word, dump>>
     \/ /\ line = 99
        /\ dump' = [dump EXCEPT ![word] = ioDataIn]
        /\ word' = word + 1
        /\ line' = (IF word + 1 < MemWords THEN 97 ELSE Done)
        /\ UNCHANGED ioVars
  /\ UNCHANGED <<watchdog, report>>

(* Dump the RAM, word by word, storing each address twice (95-102).        *)
DumpMemory ==
  /\ \/ PutControl(95, {"memRead"}, 97) /\ UNCHANGED <<word, dump>>
     \/ PutAddr(97, word * Lanes, 98)   /\ UNCHANGED <<word, dump>>
     \/ PutAddr(98, word * Lanes, 99)   /\ UNCHANGED <<word, dump>>
     \/ /\ line = 99
        /\ dump' = [dump EXCEPT ![word] = ioDataIn]
        /\ word' = word + 1
        /\ line' = (IF word + 1 < MemWords THEN 97 ELSE Done)
        /\ UNCHANGED ioVars
  /\ UNCHANGED <<watchdog, report>>

-----------------------------------------------------------------------------
GapsAt == IF line \in {60, 62} THEN HoldGaps ELSE Gaps

Access ==
  /\ idle + 1 \in GapsAt
  /\ idle' = 0
  /\ \/ LoadDelay \/ Launch \/ AwaitStall \/ ReadBefore \/ SetMask \/ ClearMask
     \/ Resume \/ AwaitEnd \/ ReadResult \/ DumpMemory

(* The Nios II computes; the core has an edge of its own.                  *)
Compute ==
  /\ line # Done
  /\ \E g \in GapsAt : idle + 1 < g
  /\ idle' = idle + 1
  /\ UNCHANGED <<ioVars, line, watchdog, word, report, dump>>

(* The event loop of line 108 never exits.                                 *)
Spin == line = Done /\ UNCHANGED <<ioVars, line, idle, watchdog, word, report, dump>>

InjNext == (Access \/ Compute \/ Spin) /\ PortEdge /\ UNCHANGED setup

InjSpec     == InjInit /\ [][InjNext]_injVars

(* The clock of the Nios II and of the core never stops.                   *)
FairInjSpec == InjSpec /\ WF_injVars(InjNext)

-----------------------------------------------------------------------------
(* Properties.                                                             *)

Mask     == setup.high * HalfSize + setup.low
Flipped  == IF setup.reg = 0 THEN 0 ELSE Xor(report.before, Mask)

(* The fault is injected once: when the mask has been cleared, and until   *)
(* the core is let go, the target register is its old value XOR the mask,  *)
(* neither flipped back nor flipped twice by the edges the mask was held   *)
(* for; and what the run reports as the new value is that. Register 0      *)
(* cannot be flipped: the fault-free run is an injection into it.          *)
InjectedOnce ==
  /\ line \in {63, 67} => regs[setup.reg] = Flipped
  /\ line \in {67, 70, 76} \cup EndLines => report.after = Flipped

(* A word the program reads stands still between its two halves: at every  *)
(* such access the core is stalled and the data register holds no mask.    *)
ReadsAreStable ==
  line \in {48, 53, 63, 79, 86, 99} => Stall /\ ioData = 0

(* Every word of the dump is the word the RAM held when the program was    *)
(* stopped: storing the address twice leaves the RAM the edge it needs to  *)
(* latch it before the first half is read.                                 *)
DumpIsFresh == \A a \in RamAddr : a < word => dump[a] = ram[a]

(* A result is reported only of a program that has executed its ebreak,    *)
(* however the poll of the break flag and the watchdog race; and it is the *)
(* value the stopped core holds.                                           *)
ResultIsFinal ==
  /\ line \in {82, 86} \cup {95, 97, 98, 99, Done} /\ watchdog <= setup.max
       => breakFlag
  /\ line \in {95, 97, 98, 99, Done} /\ ~report.dnf
       => report.result = regs[ResultReg] /\ report.pcEnd = pc

(* Every run whose watchdog limit can be exceeded ends with a whole dump:  *)
(* the stall comes, the program ends or the watchdog runs out. (The limit  *)
(* of the fault-free run, fault-injection.py line 78, cannot be exceeded.) *)
RunEnds == setup.max < UintSize - 1 => <>(line = Done)

-----------------------------------------------------------------------------
(* Refinement. While a mask is held the register flips on every edge; the  *)
(* fault model sees the value from before until the mask is cleared.       *)
AbsStage ==
  IF line \in BootLines THEN "boot"
  ELSE IF line \in RunLines \cup WindowLines THEN "run"
  ELSE IF line \in AfterLines THEN "injected" ELSE "halted"

AbsRegs == IF line \in WindowLines
           THEN [regs EXCEPT ![setup.reg] = report.before]
           ELSE regs

FM == INSTANCE FaultModel
        WITH regs  <- AbsRegs,
             stage <- AbsStage,
             fault <- [ delay |-> setup.delay, reg |-> setup.reg, mask |-> Mask ]

(* What a run does to the core is what the fault model says: delay         *)
(* instructions, one flip, and the rest of the program, undisturbed by the *)
(* polling, the reports and the dump.                                      *)
ImplementsFaultModel == FM!FaultSpec
=============================================================================
