-------------------------------- MODULE Core --------------------------------
(***************************************************************************)
(* The single-cycle core (components/core.sv, datapath.sv, fetch.sv,       *)
(* decode.sv, execute.sv, memory.sv, writeback.sv, regfile.sv,             *)
(* datamemory.sv, csr_dec.sv), as the set of flip-flops that change on one *)
(* clock edge.                                                             *)
(*                                                                         *)
(* The register file and the data RAM are not reset by the core's reset    *)
(* and have a second writer, the coprocessor port, so their edges are      *)
(* separate operators with the port's lines as parameters. The RAM latches *)
(* its address: what a load sees is the word latched on an earlier edge    *)
(* (ramQ), which is why programs for this core issue every load twice.     *)
(*                                                                         *)
(* A word is a number below WordSize. Its bitwise and byte-lane operations *)
(* are constants, constrained by what the proofs need of them.             *)
(***************************************************************************)
EXTENDS TrapUnit, FiniteSets

CONSTANTS RegCount,      \* 32 registers, register 0 reads as zero
          Lanes,         \* 8 byte lanes in a RAM word
          MemWords,      \* 4096 RAM words
          RomSize,       \* 1024 instructions
          Misa,          \* the read-only CSR misa
          Programs,      \* the contents imem_init.txt may have
          Images,        \* the contents dmem_init.hex may have
          Xor(_, _), Or(_, _), AndNot(_, _),
          PickLanes(_, _, _),      \* memReadMask:  op, byte offset, word
          MergeLanes(_, _, _, _)   \* memWriteMask: op, byte offset, old, data

RegId   == 0 .. RegCount - 1
RamAddr == 0 .. MemWords - 1

(* The CSR addresses with state behind them.                               *)
CsrMstatus == 768    \* 'h300
CsrMisa    == 769    \* 'h301
CsrMtvec   == 773    \* 'h305
CsrMepc    == 833    \* 'h341
CsrMcause  == 834    \* 'h342
CsrCycle   == 3072   \* 'hC00

Instructions == [ op  : Mnemonics, rd : RegId, rs1 : RegId, rs2 : RegId,
                  imm : Word, csr : 0 .. 4095 ]

ASSUME CoreAssumption ==
  /\ RegCount \in Nat \ {0}
  /\ Lanes \in Nat \ {0}
  /\ MemWords \in Nat \ {0}
  /\ RomSize \in Nat \ {0}
  /\ Misa \in Word
  /\ Programs \subseteq [0 .. RomSize - 1 -> Instructions]
  /\ Images \subseteq [RamAddr -> Word]

ASSUME WordOpsAssumption ==
  /\ \A a, b \in Word : /\ Xor(a, b) \in Word
                        /\ Or(a, b) \in Word
                        /\ AndNot(a, b) \in Word
  /\ \A off \in 0 .. Lanes - 1, w \in Word :
       /\ \A op \in Loads : PickLanes(op, off, w) \in Word
       /\ \A op \in Stores, d \in Word : MergeLanes(op, off, w, d) \in Word

VARIABLES rom,           \* instruction ROM: fixed once the bitstream is loaded
          pc,
          regs,          \* register file
          ram,           \* data RAM
          ramQ,          \* the RAM's output, latched on the last read
          cycle          \* the cycle CSR

coreVars == <<rom, pc, regs, ram, ramQ, cycle, trapVars>>

(* The width of every register of the core.                                *)
CoreTypeOK ==
  /\ rom \in Programs
  /\ pc \in Word
  /\ regs \in [RegId -> Word]
  /\ ram  \in [RamAddr -> Word]
  /\ ramQ \in Word
  /\ cycle \in Word
  /\ TrapTypeOK

CoreInit ==
  /\ rom \in Programs
  /\ pc = 0
  /\ regs = [r \in RegId |-> 0]
  /\ ram \in Images
  /\ ramQ = 0
  /\ cycle = 0
  /\ TrapInit

-----------------------------------------------------------------------------
(* Combinational values of the instruction at pc.                          *)

(* Variant: an adder one bit too wide.                                     *)
SumWide(a, b) == a + b

Sum(a, b) == (a + b) % WordSize
Even(a)   == 2 * (a \div 2)

Instr == rom[(pc \div 4) % RomSize]
Rs1   == regs[Instr.rs1]
Rs2   == regs[Instr.rs2]

(* csr_dec: what a CSR read returns; an address with no register reads 0.  *)
CsrRead(addr) ==
  CASE addr = CsrMstatus -> Mstatus
    [] addr = CsrMisa    -> Misa
    [] addr = CsrMtvec   -> mtvec
    [] addr = CsrMepc    -> mepc
    [] addr = CsrMcause  -> mcause
    [] addr = CsrCycle   -> cycle
    [] OTHER             -> 0

(* The ALU's second operand and the effective address.                     *)
Operand(ctl) == IF ctl.aluImm THEN Instr.imm ELSE Rs2
Address      == Sum(Rs1, Instr.imm)
RamWord(a)   == (a \div Lanes) % MemWords
Offset(a)    == a % Lanes

(* atom_alu: the value a CSR instruction writes back.                      *)
CsrOperand(ctl) == IF ctl.aluImm THEN Instr.imm ELSE Rs1
CsrNew(ctl) ==
  CASE Instr.op \in {"csrrs", "csrrsi"} -> Or(CsrRead(Instr.csr), CsrOperand(ctl))
    [] Instr.op \in {"csrrc", "csrrci"} -> AndNot(CsrRead(Instr.csr), CsrOperand(ctl))
    [] OTHER                            -> CsrOperand(ctl)

(* What the register file is offered: a link, a load, a CSR or the sum.    *)
Result(ctl) ==
  CASE ctl.branch = "always" -> Sum(pc, 4)
    [] ctl.memtoReg          -> PickLanes(Instr.op, Offset(Address), ramQ)
    [] ctl.csrWrite          -> CsrRead(Instr.csr)
    [] OTHER                 -> Sum(Rs1, Operand(ctl))

Signal(ctl) ==
  ExceptSignal(ctl, Offset(Address) + Width(Instr.op) > Lanes)

BranchTaken(ctl) ==
  LET diff == (Rs1 - Rs2) % WordSize
  IN  Taken(ctl.branch, diff = 0, diff >= WordSize \div 2, Rs1 < Rs2)

Target(ctl) == IF ctl.aluImm THEN Even(Sum(Rs1, Instr.imm))
                             ELSE Sum(pc, 2 * Instr.imm)

(* fetch: a trap goes before an mret, an mret before a branch.             *)
NextPc(ctl) ==
  CASE TrapTrigger(Signal(ctl)) -> 4 * (mtvec \div 4)
    [] ~TrapTrigger(Signal(ctl)) /\ ctl.trapReturn -> mepc
    [] ~TrapTrigger(Signal(ctl)) /\ ~ctl.trapReturn /\ BranchTaken(ctl) -> Target(ctl)
    [] OTHER -> Sum(pc, 4)

-----------------------------------------------------------------------------
(* One clock edge of each group of flip-flops.                             *)

(* The registers with an asynchronous reset.                               *)
ResetEdge == pc' = 0 /\ cycle' = 0 /\ TrapReset

RunEdge(stall, ctl) ==
  /\ pc'    = IF stall THEN pc ELSE NextPc(ctl)
  /\ cycle' = IF stall THEN cycle ELSE Sum(cycle, 1)
  /\ StatusEdge(TrapTrigger(Signal(ctl)), ctl.trapReturn,
                ctl.csrWrite /\ Instr.csr = CsrMstatus, CsrNew(ctl))
  /\ CauseEdge(Signal(ctl), pc)
  /\ TvecEdge(ctl.csrWrite /\ Instr.csr = CsrMtvec, CsrNew(ctl))

ControlEdge(rst, stall) ==
  IF rst THEN ResetEdge ELSE RunEdge(stall, Control(Instr.op, stall))

(* The register file: a write port that drops writes of register 0.        *)
RegEdge(we, wa, wd) ==
  regs' = IF we /\ wa # 0 THEN [regs EXCEPT ![wa] = wd] ELSE regs

(* The RAM: a write, and a read that returns what is written with it.      *)
RamEdge(re, we, op, addr, data) ==
  LET word    == RamWord(addr)
      written == IF we
                 THEN [ram EXCEPT ![word] = MergeLanes(op, Offset(addr), @, data)]
                 ELSE ram
  IN  /\ ram'  = written
      /\ ramQ' = IF re THEN written[word] ELSE ramQ

(* The whole core with the coprocessor's write ports idle.                 *)
CoreEdge(rst, stall) ==
  LET ctl == Control(Instr.op, stall)
  IN  /\ ControlEdge(rst, stall)
      /\ RegEdge(ctl.regWrite, Instr.rd, Result(ctl))
      /\ RamEdge(ctl.memRead, ctl.memWrite, Instr.op, Address, Rs2)
      /\ UNCHANGED rom
=============================================================================
