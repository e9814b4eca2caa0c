----------------------------- MODULE DebugPort -----------------------------
(***************************************************************************)
(* The core with the coprocessor's port (components/core.sv, decode.sv,    *)
(* datapath.sv, wideXOR.sv) behind the parallel I/O registers the Nios II  *)
(* writes (de0_nano/DE0_NANO.sv). The coprocessor and the core share one   *)
(* clock: a step is one edge, on which the core reacts to the registers as *)
(* they stand while the coprocessor may store into one of them.            *)
(*                                                                         *)
(* The control register is the set of its raised bits:                     *)
(*   "reset"    bit 0, the core's reset                                    *)
(*   "flip"     bit 1, XOR the addressed register with the data            *)
(*   "memWrite" bit 2, write the addressed RAM word                        *)
(*   "memRead"  bit 3, read it                                             *)
(*   "csr"      bit 4, read a CSR, or load a debug flag                    *)
(*   "delay"    bit 5, arm the stall on a cycle count                      *)
(***************************************************************************)
EXTENDS Core

CONSTANTS HalfSize       \* 2^32: the data register is two halves

CONSTANTS Controls, Addrs, Datas  \* what an unconstrained coprocessor may store

Half        == 0 .. HalfSize - 1
PortBits    == {"flip", "memWrite", "memRead", "csr"}
ControlBits == PortBits \cup {"reset", "delay"}
PortAddr    == 0 .. 32767

ASSUME PortAssumption ==
  /\ HalfSize \in Nat \ {0}
  /\ WordSize = HalfSize * HalfSize
  /\ Controls \subseteq SUBSET ControlBits
  /\ Addrs \subseteq PortAddr
  /\ Datas \subseteq Half

VARIABLES ioControl, ioAddr, ioLow, ioHigh,  \* the output registers
          stallFlag,                         \* cycleStall_flag
          breakFlag                          \* ebreak_flag

ioVars   == <<ioControl, ioAddr, ioLow, ioHigh>>
portVars == <<coreVars, ioVars, stallFlag, breakFlag>>

(* Every register of the core and of the port stays within its width: the  *)
(* sums of the datapath wrap, and two halves make a word.                  *)
PortTypeOK ==
  /\ CoreTypeOK
  /\ ioControl \subseteq ControlBits
  /\ ioAddr \in PortAddr
  /\ ioLow \in Half /\ ioHigh \in Half
  /\ stallFlag \in Word
  /\ breakFlag \in BOOLEAN

(* The control register comes up with its reset bit raised.                *)
PortInit ==
  /\ CoreInit
  /\ ioControl = {"reset"} /\ ioAddr = 0 /\ ioLow = 0 /\ ioHigh = 0
  /\ stallFlag = 0 /\ breakFlag = FALSE

-----------------------------------------------------------------------------
(* The fields of the address register, and the two halves of the data.     *)
AddrReg     == ioAddr % RegCount
AddrIsPc    == (ioAddr \div 32) % 2 = 1
AddrIsFlag  == (ioAddr \div 4096) % 2 = 1
AddrIsBreak == AddrIsFlag /\ ioAddr % 2 = 1
AddrCsr     == ioAddr % 4096
ioData      == ioHigh * HalfSize + ioLow

(* Variant: the comparator sees the count one edge late.                   *)
CycleStallLate == "delay" \in ioControl /\ stallFlag + 1 = cycle

CycleStall == "delay" \in ioControl /\ stallFlag = cycle

(* coprocessorStall: what stops the controller, the PC and the counter.    *)
Stall == CycleStall \/ ioControl \cap PortBits # {}

(* coprocessorIODataIn: what the coprocessor reads.                        *)
ioDataIn ==
  CASE "memRead" \in ioControl                 -> ramQ
    [] "memRead" \notin ioControl /\ AddrIsPc  -> pc
    [] "memRead" \notin ioControl /\ ~AddrIsPc /\ "csr" \in ioControl
                                               -> CsrRead(AddrCsr)
    [] OTHER                                   -> regs[AddrReg]

(* One edge of the register file and of the RAM, the port's muxes included.*)
PortRegEdge(ctl) ==
  IF "flip" \in ioControl
  THEN RegEdge(TRUE, AddrReg, Xor(regs[AddrReg], ioData))
  ELSE RegEdge(ctl.regWrite, Instr.rd, Result(ctl))

PortRamEdge(ctl) ==
  LET byPort == ioControl \cap {"memWrite", "memRead"} # {}
      op     == IF "memWrite" \in ioControl THEN "sd" ELSE Instr.op
  IN  RamEdge("memRead" \in ioControl \/ ctl.memRead,
              "memWrite" \in ioControl \/ ctl.memWrite,
              op,
              IF byPort THEN ioAddr ELSE Address,
              IF "memWrite" \in ioControl THEN ioData ELSE Rs2)

(* The stall flag is cleared whenever the delay bit is low, before the     *)
(* edge or after it.                                                       *)
StallFlagEdge ==
  stallFlag' = IF "delay" \notin ioControl \cap ioControl' THEN 0
               ELSE IF "csr" \in ioControl /\ AddrIsFlag THEN ioData
               ELSE stallFlag

(* Variant: a break flag that only follows the current instruction.        *)
BreakFlagEdgeLevel(rst, ctl) == breakFlag' = (~rst /\ ctl.fault = "ebreak")

(* The break flag is set by an ebreak, or loaded by the coprocessor.       *)
BreakFlagEdge(rst, ctl) ==
  breakFlag' = IF rst THEN FALSE
               ELSE IF "csr" \in ioControl /\ (AddrIsBreak \/ ctl.fault = "ebreak")
               THEN ioData % 2 = 1
               ELSE breakFlag \/ ctl.fault = "ebreak"

(* Variant: a controller stalled by the port's bits only, not by the count.*)
PortEdgeHalfStalled ==
  LET rst == "reset" \in ioControl \cup ioControl'
      ctl == Control(Instr.op, ioControl \cap PortBits # {})
  IN  /\ ControlEdge(rst, Stall)
      /\ PortRegEdge(ctl)
      /\ PortRamEdge(ctl)
      /\ StallFlagEdge
      /\ BreakFlagEdge(rst, ctl)
      /\ UNCHANGED rom

(* One edge of everything on the core's side of the I/O registers. The     *)
(* reset is asynchronous: it acts on the edge that raises it and still on  *)
(* the edge that drops it.                                                 *)
PortEdge ==
  LET rst == "reset" \in ioControl \cup ioControl'
      ctl == Control(Instr.op, Stall)
  IN  /\ ControlEdge(rst, Stall)
      /\ PortRegEdge(ctl)
      /\ PortRamEdge(ctl)
      /\ StallFlagEdge
      /\ BreakFlagEdge(rst, ctl)
      /\ UNCHANGED rom

(* The coprocessor's side: one store into one register, or none.           *)
StoreControl(c) == ioControl' = c /\ UNCHANGED <<ioAddr, ioLow, ioHigh>>
StoreAddr(a)    == ioAddr' = a /\ UNCHANGED <<ioControl, ioLow, ioHigh>>
StoreLow(v)     == ioLow' = v /\ UNCHANGED <<ioControl, ioAddr, ioHigh>>
StoreHigh(v)    == ioHigh' = v /\ UNCHANGED <<ioControl, ioAddr, ioLow>>

(* A coprocessor that may store anything, at any edge.                     *)
AnyStore ==
  \/ UNCHANGED ioVars
  \/ \E c \in Controls : StoreControl(c)
  \/ \E a \in Addrs    : StoreAddr(a)
  \/ \E v \in Datas    : StoreLow(v)
  \/ \E v \in Datas    : StoreHigh(v)

PortNext == AnyStore /\ PortEdge
PortSpec == PortInit /\ [][PortNext]_portVars

-----------------------------------------------------------------------------
Resetting == "reset" \in ioControl \cup ioControl'

(* The cycle counter counts executed instructions and nothing else. An     *)
(* edge on which it stands still executes nothing: core.sv states the      *)
(* stall condition three times, for the counter (line 79), the controller  *)
(* (118) and the datapath's PC (151), and the three must agree. Only the   *)
(* port's own writes get through, into the addressed register or word.     *)
CountedOrFrozen ==
  [][ Resetting \/ cycle' # cycle
      \/ /\ UNCHANGED <<pc, trapVars>>
         /\ \A r \in RegId : regs'[r] # regs[r]
                            => "flip" \in ioControl /\ r = AddrReg
         /\ \A a \in RamAddr : ram'[a] # ram[a]
                            => "memWrite" \in ioControl /\ a = RamWord(ioAddr)
    ]_portVars

(* A run never passes its injection point: once the delay is armed ahead   *)
(* of the counter, the counter stops at it, on exactly the armed value,    *)
(* until the coprocessor drops the delay bit or reloads the flag.          *)
NeverOvershoots ==
  [][ "delay" \in ioControl \cap ioControl' /\ stallFlag' = stallFlag
      /\ cycle <= stallFlag => cycle' <= stallFlag' ]_portVars

(* The end of a program is never missed: an ebreak that executes, whether  *)
(* or not exceptions are enabled, leaves the break flag set, and the flag  *)
(* stays set until a reset or a coprocessor write to the flag itself.      *)
BreakKept ==
  [][ /\ ~Resetting
      /\ breakFlag \/ (~Stall /\ Instr.op = "ebreak")
      /\ ~("csr" \in ioControl /\ AddrIsBreak)
      => breakFlag' ]_portVars
=============================================================================
