----------------------------- MODULE FaultModel -----------------------------
(***************************************************************************)
(* What a fault-injection run promises, without the port, the stall or the *)
(* script that brings it about. The core starts from its reset state with  *)
(* whatever its register file and RAM hold by then; it executes exactly    *)
(* fault.delay instructions; one register is XORed with one mask, once,    *)
(* between two instructions; it executes on, undisturbed; it stops.        *)
(*                                                                         *)
(* Injector.tla implements this specification.                             *)
(***************************************************************************)
EXTENDS Core

VARIABLES fault,         \* the fault of this run: delay, reg and mask
          stage

faultVars == <<coreVars, fault, stage>>

FaultChoices == [ delay : Word, reg : RegId, mask : Word ]
Stages  == {"boot", "run", "injected", "halted"}

FaultInit ==
  /\ CoreInit
  /\ fault \in FaultChoices
  /\ stage = "boot"

(* Before the run the core is reset, held and released at will. Its reset  *)
(* does not touch the register file or the RAM, and while it is held the   *)
(* instruction at address 0 goes on executing.                             *)
Boot ==
  /\ stage = "boot" /\ stage' = "boot"
  /\ \E rst, stall \in BOOLEAN : CoreEdge(rst, stall)

Start ==
  /\ stage = "boot" /\ stage' = "run"
  /\ \E stall \in BOOLEAN : CoreEdge(TRUE, stall)

Execute ==
  /\ stage \in {"run", "injected"} /\ stage' = stage
  /\ stage = "run" => cycle # fault.delay
  /\ CoreEdge(FALSE, FALSE)

Flip ==
  /\ stage = "run" /\ stage' = "injected"
  /\ cycle = fault.delay
  /\ RegEdge(TRUE, fault.reg, Xor(regs[fault.reg], fault.mask))
  /\ UNCHANGED <<rom, pc, ram, ramQ, cycle, trapVars>>

(* The last instruction executes on the edge that stops the core.          *)
Halt ==
  /\ stage = "injected" /\ stage' = "halted"
  /\ CoreEdge(FALSE, FALSE)

(* A stopped core is only looked at: its RAM output follows the reader.    *)
Inspect ==
  /\ stage = "halted" /\ stage' = "halted"
  /\ \E a \in RamAddr : ramQ' = ram[a]
  /\ UNCHANGED <<rom, pc, regs, ram, cycle, trapVars>>

FaultNext ==
  (Boot \/ Start \/ Execute \/ Flip \/ Halt \/ Inspect) /\ UNCHANGED fault

FaultSpec == FaultInit /\ [][FaultNext]_faultVars
=============================================================================
