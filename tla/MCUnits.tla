------------------------------ MODULE MCUnits ------------------------------
(***************************************************************************)
(* What programs of the core rest on, for four parts: the meaning of each  *)
(* instruction, the patch of the loads, the start-up program, and the      *)
(* controller of the SDRAM beside it.  The patch and the start-up share    *)
(* the core; one part runs in each behaviour and the others keep an        *)
(* initial state, so that the parts' states add up and do not multiply.    *)
(***************************************************************************)
EXTENDS Alu, PatchedLoads, Startup, MemControl, MCWords

VARIABLE part
MCVars == <<part, aluVars, coreVars, source, ends, plain, main, breaks, raised, memVars>>

(* Loads of every width, over their own base and not, between stores.      *)
(* Address Lanes * MemWords is 0 again: an address beyond it is the RAM's.  *)
Code == { Asm("lb", 1, 1, 0, 1, 0), Asm("lbu", 2, 1, 0, 0, 0),
          Asm("lh", 1, 0, 0, 2, 0), Asm("sb", 0, 1, 2, 1, 0),
          Asm("sh", 0, 0, 1, 0, 0), Asm("addi", 1, 2, 0, 255, 0) }
MCSources == [1 .. 3 -> Code]

(* Their accesses stay within a word.                                      *)
ASSUME AccessAssumption ==
  \A src \in Sources : \A k \in DOMAIN src :
    src[k].op \in Loads \cup Stores =>
      \/ Width(src[k].op) = 1
      \/ src[k].rs1 = 0 /\ (src[k].imm % Lanes) + Width(src[k].op) <= Lanes

(* A main that computes, one that stores, and one for every exception.     *)
Body == { Asm("addi", 2, 2, 0, 7, 0), Asm("sh", 0, 0, 2, 6, 0),
          Asm("lh", 2, 0, 0, 7, 0), Asm("sh", 0, 0, 2, 7, 0),
          Asm("ecall", 0, 0, 0, 0, 0), Asm("illegal", 0, 0, 0, 0, 0), Ebreak }
MCMains == {<<>>} \cup [1 .. 1 -> Body] \cup [1 .. 2 -> Body]

MCPrograms == {Rom(s) : s \in MCSources} \cup {Image(m) : m \in MCMains}

(* The constants of the program: every word of the RAM tells itself apart, *)
(* and one byte has its sign bit set.                                      *)
MCImages == { [w \in RamAddr |-> 37 + 100 * (w % 2) + w] }

Parts == {"alu", "patched", "startup", "sdram"}

NoIns == AluIns("address", "add", FALSE, FALSE)
AluIdle     == ins = NoIns /\ a = 0 /\ b = 0 /\ out = {}
PatchedIdle == source = <<>> /\ ends = <<>> /\ plain = [regs |-> <<>>, bytes |-> <<>>]
StartupIdle == main = <<>> /\ breaks = 0 /\ raised = {}
MemIdle     == MemInit /\ ~op

MCInit ==
  \/ part = "alu" /\ rom = Image(<<>>) /\ CoreInit /\ PatchedIdle /\ StartupIdle /\ AluInit /\ MemIdle
  \/ part = "patched" /\ AluIdle /\ PatchedInit /\ StartupIdle /\ MemIdle
  \/ part = "startup" /\ AluIdle /\ StartupInit /\ PatchedIdle /\ MemIdle
  \/ part = "sdram" /\ rom = Image(<<>>) /\ CoreInit /\ AluIdle /\ PatchedIdle /\ StartupIdle /\ MemInit

AluStep     == part = "alu" /\ Execute
               /\ UNCHANGED <<part, coreVars, source, ends, plain, main, breaks, raised, memVars>>
PatchedStep == part = "patched" /\ PatchedNext
               /\ UNCHANGED <<part, aluVars, main, breaks, raised, memVars>>
StartupStep(stall) == part = "startup" /\ StartupEdge(stall)
                      /\ UNCHANGED <<part, aluVars, source, ends, plain, memVars>>
MemStep(step) == part = "sdram" /\ step
                 /\ UNCHANGED <<part, aluVars, coreVars, source, ends, plain, main, breaks, raised>>

MCNext == AluStep \/ PatchedStep \/ \E stall \in BOOLEAN : StartupStep(stall)
          \/ MemStep(MemNext)

(* The clock of either does not stop.                                      *)
MCSpec == MCInit /\ [][MCNext]_MCVars /\ WF_MCVars(StartupStep(FALSE)) /\ WF_MCVars(MemStep(Clock))

-----------------------------------------------------------------------------
(* Type invariant of the three parts above; the controller has MemTypeOK.   *)
UnitsTypeOK ==
  /\ part = "alu"     => AluTypeOK
  /\ part = "patched" => PatchedTypeOK
  /\ part = "startup" => StartupTypeOK

(* "Patch to fix quirks of the architecture": wherever the core is stalled *)
(* and however often the code runs, patched code computes what the source  *)
(* would on a memory without latency, of bytes.                            *)
LoadsSeeStores == part = "patched" => LoadsFresh

(* "Notify coprocessor the program has finished": the program ends, with   *)
(* one ebreak, and the result and the report of an exception are what main *)
(* left, whatever main does.                                               *)
EndsOnce == [](part = "startup" => EndTold) /\ (part = "startup" => Ends)
=============================================================================
