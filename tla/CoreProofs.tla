----------------------------- MODULE CoreProofs -----------------------------
(***************************************************************************)
(* What one clock edge of the core keeps, for every word size, register    *)
(* count, memory size and program, and the theorems about TrapHistory.tla, *)
(* DebugPort.tla and Injector.tla, for every fault and every pace of the   *)
(* Nios II.  The lemmas about the operators of Core.tla come first;        *)
(* UnitProofs.tla rests on them too.                                       *)
(*                                                                         *)
(* The invariant of the injection program says, for each line of inject.c, *)
(* what the program has left in the port's registers and what that has     *)
(* done to the core: where the line says so, the core is held, and one     *)
(* edge changes next to nothing of it.                                     *)
(***************************************************************************)
EXTENDS Injector, TrapHistory, TLAPS


-----------------------------------------------------------------------------
(* Arithmetic of words.                                                    *)

(* A number reduced modulo the word size is a word.                        *)
LEMMA ModIsWord ==
  ASSUME NEW n \in Int
  PROVE  n % WordSize \in Word
  BY WordAssumption, SMT DEF Word

(* Sums of words are words.                                                *)
LEMMA SumIsWord ==
  ASSUME NEW a \in Int, NEW b \in Int
  PROVE  Sum(a, b) \in Word
  BY ModIsWord, a + b \in Int DEF Sum

(* Clearing low bits of a word leaves a word.                              *)
LEMMA RoundDownIsWord ==
  ASSUME NEW w \in Word
  PROVE  Even(w) \in Word /\ 4 * (w \div 4) \in Word
  BY WordAssumption, SMT DEF Word, Even

(* What is written to mtvec is a word.                                     *)
LEMMA TvecIsWord ==
  ASSUME NEW w \in Word
  PROVE  4 * ((w % TvecSpan) \div 4) \in Word
<1>1. w % TvecSpan \in 0 .. TvecSpan - 1
  BY WordAssumption, SMT DEF Word
<1>2. \A x \in Nat : 4 * (x \div 4) \in 0 .. x
  BY SMT
<1>3. QED
  BY <1>1, <1>2, WordAssumption, SMT DEF Word

(* mstatus, assembled from its fields, is a word.                          *)
LEMMA MstatusIsWord ==
  ASSUME TrapTypeOK
  PROVE  Mstatus \in Word
<1>1. mpp * MppUnit \in 0 .. 3 * MppUnit
  <2>1. mpp = 0 \/ mpp = 1 \/ mpp = 2 \/ mpp = 3
    BY SMT DEF TrapTypeOK, Modes
  <2>2. QED
    BY <2>1, WordAssumption, SMT
<1>2. Bit(mpie, MpieUnit) \in 0 .. MpieUnit /\ Bit(mie, MieUnit) \in 0 .. MieUnit
  BY WordAssumption, SMT DEF Bit
<1>3. QED
  BY <1>1, <1>2, WordAssumption, SMT DEF Mstatus, Word

-----------------------------------------------------------------------------
(* The combinational values have their types.                              *)

(* The instruction fetched is one of the program's.                        *)
LEMMA InstrIsInstruction ==
  ASSUME CoreTypeOK
  PROVE  Instr \in Instructions
<1>1. (pc \div 4) % RomSize \in 0 .. RomSize - 1
  BY CoreAssumption, WordAssumption, SMT DEF CoreTypeOK, Word
<1>2. rom \in [0 .. RomSize - 1 -> Instructions]
  BY CoreAssumption DEF CoreTypeOK
<1>3. QED
  BY <1>1, <1>2 DEF Instr

(* So its operands are words.                                              *)
LEMMA OperandsAreWords ==
  ASSUME CoreTypeOK
  PROVE  /\ Rs1 \in Word /\ Rs2 \in Word /\ Instr.imm \in Word
         /\ Instr.rd \in RegId /\ Instr.op \in Mnemonics
<1>1. Instr \in Instructions
  BY InstrIsInstruction
<1>2. /\ Instr.rd \in RegId /\ Instr.rs1 \in RegId /\ Instr.rs2 \in RegId
      /\ Instr.imm \in Word /\ Instr.op \in Mnemonics
  BY <1>1 DEF Instructions
<1>3. regs \in [RegId -> Word]
  BY DEF CoreTypeOK
<1>4. Rs1 \in Word /\ Rs2 \in Word
  BY <1>2, <1>3 DEF Rs1, Rs2
<1>5. QED
  BY <1>2, <1>4

(* A CSR read returns a word.                                              *)
LEMMA CsrReadIsWord ==
  ASSUME CoreTypeOK, NEW addr
  PROVE  CsrRead(addr) \in Word
<1>1. Mstatus \in Word
  BY MstatusIsWord DEF CoreTypeOK
<1>2. mcause \in Word /\ 0 \in Word
  BY WordAssumption, SMT DEF CoreTypeOK, TrapTypeOK, Causes, ExceptLines, Word
<1>3. Misa \in Word /\ mtvec \in Word /\ mepc \in Word /\ cycle \in Word
  BY CoreAssumption DEF CoreTypeOK, TrapTypeOK
<1>4. QED
  BY <1>1, <1>2, <1>3 DEF CsrRead

(* The exception lines of an instruction, and the cause of a raised one.   *)
LEMMA CauseIsNamed ==
  ASSUME NEW ctl, Signal(ctl) # {}
  PROVE  ExceptCode(Signal(ctl)) \in ExceptLines
<1>1. Signal(ctl) \subseteq ExceptLines
  BY DEF Signal, ExceptSignal, ExceptLines
<1>2. PICK s \in ExceptLines : s \in Signal(ctl)
  BY <1>1
<1>3. QED
  BY <1>1, <1>2 DEF ExceptCode, ExceptLines

(* The RAM's lines are up for loads and stores only.                       *)
LEMMA MemoryLines ==
  ASSUME NEW i \in Mnemonics, NEW stall
  PROVE  /\ Control(i, stall).memtoReg => i \in Loads
         /\ Control(i, stall).memWrite => i \in Stores
BY DEF Control, Decoded, Idle

(* What goes back to the register file is a word.                          *)
LEMMA ResultIsWord ==
  ASSUME CoreTypeOK, NEW stall
  PROVE  Result(Control(Instr.op, stall)) \in Word
<1> USE OperandsAreWords
<1> DEFINE ctl == Control(Instr.op, stall)
<1>1. Word \subseteq Int
  BY WordAssumption, SMT DEF Word
<1>2. Sum(pc, 4) \in Word
  BY <1>1, SumIsWord DEF CoreTypeOK
<1>3. Address \in Word /\ Address \in Int
  BY <1>1, SumIsWord DEF Address
<1>4. Offset(Address) \in 0 .. Lanes - 1
  BY <1>3, CoreAssumption, SMT DEF Offset
<1>5. ctl.memtoReg => PickLanes(Instr.op, Offset(Address), ramQ) \in Word
  <2>1. ctl.memtoReg => Instr.op \in Loads
    BY MemoryLines
  <2> QED BY <1>4, <2>1, WordOpsAssumption DEF CoreTypeOK
<1>6. Operand(ctl) \in Word
  BY DEF Operand
<1>7. Sum(Rs1, Operand(ctl)) \in Word
  BY <1>1, <1>6, SumIsWord
<1>8. QED
  BY <1>2, <1>5, <1>7, CsrReadIsWord DEF Result

(* What a CSR instruction writes back is a word.                           *)
LEMMA CsrNewIsWord ==
  ASSUME CoreTypeOK, NEW ctl
  PROVE  CsrNew(ctl) \in Word
<1>1. CsrOperand(ctl) \in Word /\ CsrRead(Instr.csr) \in Word
  BY OperandsAreWords, CsrReadIsWord DEF CsrOperand
<1>2. QED
  BY <1>1, WordOpsAssumption DEF CsrNew

(* The next PC is a word, whichever of its four sources is selected.       *)
LEMMA NextPcIsWord ==
  ASSUME CoreTypeOK, NEW ctl
  PROVE  NextPc(ctl) \in Word
<1>1. Word \subseteq Int
  BY WordAssumption, SMT DEF Word
<1>2. Instr.imm \in Int /\ Rs1 \in Int /\ pc \in Int /\ 2 * Instr.imm \in Int
  <2>1. Instr.imm \in Int /\ Rs1 \in Int
    BY <1>1, OperandsAreWords
  <2>2. pc \in Int
    BY <1>1 DEF CoreTypeOK
  <2>3. QED
    BY <2>1, <2>2, SMT
<1>3. Sum(pc, 4) \in Word /\ Sum(pc, 2 * Instr.imm) \in Word
      /\ Sum(Rs1, Instr.imm) \in Word
  BY <1>2, SumIsWord
<1>4. Even(Sum(Rs1, Instr.imm)) \in Word /\ 4 * (mtvec \div 4) \in Word
  BY <1>3, RoundDownIsWord DEF CoreTypeOK, TrapTypeOK
<1>5. Target(ctl) \in Word
  BY <1>3, <1>4 DEF Target
<1>6. mepc \in Word
  BY DEF CoreTypeOK, TrapTypeOK
<1>7. QED
  BY <1>3, <1>4, <1>5, <1>6 DEF NextPc

-----------------------------------------------------------------------------
(* One clock edge keeps the types.                                         *)

(* The trap unit: whatever lines are raised, with a word to write.         *)
LEMMA TrapEdgeTypes ==
  ASSUME TrapTypeOK, NEW trap, NEW return, NEW wStatus, NEW wTvec,
         NEW in \in Word, NEW ctl, NEW pcF \in Word,
         StatusEdge(trap, return, wStatus, in),
         CauseEdge(Signal(ctl), pcF),
         TvecEdge(wTvec, in)
  PROVE  TrapTypeOK'
<1>1. mode' \in Modes /\ mpp' \in Modes /\ mpie' \in BOOLEAN /\ mie' \in BOOLEAN
  <2> 0 \in Modes /\ 3 \in Modes
    BY SMT DEF Modes
  <2>1. CASE EnterTrap
    BY <2>1, Zenon DEF EnterTrap, TrapTypeOK
  <2>2. CASE LeaveTrap
    BY <2>2, Zenon DEF LeaveTrap, TrapTypeOK
  <2>3. CASE WriteStatus(in)
    <3>1. (in \div MppUnit) % 4 \in 0 .. 3
      BY WordAssumption, SMT DEF Word
    <3>2. mpp' \in Modes
      BY <2>3, <3>1 DEF WriteStatus, Modes
    <3>3. mpie' \in BOOLEAN /\ mie' \in BOOLEAN
      BY <2>3, Zenon DEF WriteStatus, IsSet
    <3>4. mode' \in Modes
      BY <2>3 DEF WriteStatus, TrapTypeOK
    <3>5. QED
      BY <3>2, <3>3, <3>4
  <2>4. CASE KeepStatus
    BY <2>4 DEF KeepStatus, TrapTypeOK
  <2>5. QED
    BY <2>1, <2>2, <2>3, <2>4 DEF StatusEdge
<1>2. mcause' \in Causes /\ mepc' \in Word
  BY CauseIsNamed DEF CauseEdge, TrapTypeOK, Causes
<1>3. mtvec' \in Word
  BY TvecIsWord DEF TvecEdge, TrapTypeOK
<1>4. QED
  BY <1>1, <1>2, <1>3 DEF TrapTypeOK

(* The registers with a reset.                                             *)
LEMMA ControlEdgeTypes ==
  ASSUME CoreTypeOK, NEW rst, NEW stall, ControlEdge(rst, stall)
  PROVE  pc' \in Word /\ cycle' \in Word /\ TrapTypeOK'
<1>1. CASE rst
  <2>1. ResetEdge
    BY <1>1 DEF ControlEdge
  <2>2. 0 \in Word /\ 0 \in Modes /\ 3 \in Modes /\ 0 \in Causes
    BY WordAssumption, SMT DEF Word, Modes, Causes
  <2>3. QED
    BY <2>1, <2>2 DEF ResetEdge, TrapReset, TrapTypeOK
<1>2. CASE ~rst
  <2> DEFINE ctl == Control(Instr.op, stall)
  <2>1. RunEdge(stall, ctl)
    BY <1>2 DEF ControlEdge
  <2>2. Sum(cycle, 1) \in Word
    <3>1. cycle \in Int
      BY WordAssumption, SMT DEF CoreTypeOK, Word
    <3>2. QED
      BY <3>1, SumIsWord
  <2>3. pc' \in Word /\ cycle' \in Word
    BY <2>1, <2>2, NextPcIsWord DEF RunEdge, CoreTypeOK
  <2>4. CsrNew(ctl) \in Word
    BY CsrNewIsWord
  <2>5. TrapTypeOK'
    BY <2>1, <2>4, TrapEdgeTypes DEF RunEdge, CoreTypeOK
  <2>6. QED
    BY <2>3, <2>5
<1>3. QED
  BY <1>1, <1>2

(* The register file, whichever of its two writers is selected.            *)
LEMMA RegEdgeTypes ==
  ASSUME CoreTypeOK, NEW we, NEW wa \in RegId, NEW wd \in Word, RegEdge(we, wa, wd)
  PROVE  regs' \in [RegId -> Word]
  BY DEF RegEdge, CoreTypeOK

(* The RAM, likewise.                                                      *)
LEMMA RamEdgeTypes ==
  ASSUME CoreTypeOK, NEW re, NEW we, NEW op \in Mnemonics, NEW addr \in Nat,
         NEW data \in Word, we => op \in Stores, RamEdge(re, we, op, addr, data)
  PROVE  ram' \in [RamAddr -> Word] /\ ramQ' \in Word
<1> DEFINE place   == RamWord(addr)
           merged  == MergeLanes(op, Offset(addr), ram[place], data)
           written == IF we THEN [ram EXCEPT ![place] = merged] ELSE ram
<1>1. place \in RamAddr /\ Offset(addr) \in 0 .. Lanes - 1
  BY CoreAssumption, SMT DEF RamWord, RamAddr, Offset
<1>2. ram[place] \in Word /\ (we => merged \in Word)
  BY <1>1, WordOpsAssumption DEF CoreTypeOK
<1>3. written \in [RamAddr -> Word]
  BY <1>1, <1>2 DEF CoreTypeOK
<1>4. ram' = written /\ ramQ' = (IF re THEN written[place] ELSE ramQ)
  BY DEF RamEdge
<1>5. QED
  BY <1>1, <1>3, <1>4 DEF CoreTypeOK

-----------------------------------------------------------------------------
(* A whole edge of the core alone keeps the types.                         *)
LEMMA CoreEdgeTypes ==
  ASSUME CoreTypeOK, NEW rst, NEW stall, CoreEdge(rst, stall)
  PROVE  CoreTypeOK'
<1> DEFINE ctl == Control(Instr.op, stall)
<1>1. ControlEdge(rst, stall) /\ RegEdge(ctl.regWrite, Instr.rd, Result(ctl))
      /\ RamEdge(ctl.memRead, ctl.memWrite, Instr.op, Address, Rs2)
      /\ rom' = rom
  BY DEF CoreEdge
<1>2. pc' \in Word /\ cycle' \in Word /\ TrapTypeOK'
  BY <1>1, ControlEdgeTypes
<1>3. regs' \in [RegId -> Word]
  BY <1>1, OperandsAreWords, ResultIsWord, RegEdgeTypes
<1>4. Address \in Nat
  <2>1. Word \subseteq Int /\ Word \subseteq Nat
    BY WordAssumption, SMT DEF Word
  <2>2. QED
    BY <2>1, OperandsAreWords, SumIsWord DEF Address
<1>5. ram' \in [RamAddr -> Word] /\ ramQ' \in Word
  <2>1. ctl.memWrite => Instr.op \in Stores
    BY OperandsAreWords, MemoryLines
  <2> HIDE DEF ctl
  <2> QED BY <1>1, <1>4, <2>1, OperandsAreWords, RamEdgeTypes
<1>6. QED
  BY <1>1, <1>2, <1>3, <1>5 DEF CoreTypeOK

-----------------------------------------------------------------------------
(* The trap that is being handled.                                         *)

(* An edge with its history keeps the types.                               *)
LEMMA HistNextTypes ==
  ASSUME HistTypeOK, [HistNext]_histVars
  PROVE  HistTypeOK'
<1>1. ASSUME NEW rst \in BOOLEAN, NEW stall \in BOOLEAN, HistEdge(rst, stall)
      PROVE  HistTypeOK'
  <2>1. CoreTypeOK'
    BY <1>1, CoreEdgeTypes DEF HistEdge, HistTypeOK
  <2>2. frame' \in Frames
    <3>1. NoFrame \in Frames
      BY WordAssumption, SMT DEF NoFrame, Frames, Word, Modes, Causes
    <3>2. pc \in Word /\ mode \in Modes
      BY DEF HistTypeOK, CoreTypeOK, TrapTypeOK
    <3>3. CASE Entering(rst, stall)
      <4> DEFINE code == ExceptCode(Signal(Control(Instr.op, stall)))
      <4>1. code \in Causes
        BY <3>3, CauseIsNamed DEF Entering, TrapTrigger, Causes
      <4>2. frame' = [ open |-> TRUE, pc |-> pc, mode |-> mode, cause |-> code ]
        BY <1>1, <3>3 DEF HistEdge, FrameEdge
      <4> HIDE DEF code
      <4>3. QED
        BY <3>2, <4>1, <4>2 DEF Frames
    <3>4. CASE ~Entering(rst, stall)
      BY <1>1, <3>1, <3>4 DEF HistEdge, FrameEdge, HistTypeOK
    <3>5. QED
      BY <3>3, <3>4
  <2>3. QED
    BY <2>1, <2>2 DEF HistTypeOK
<1>2. CASE UNCHANGED histVars
  BY <1>2 DEF histVars, coreVars, trapVars, HistTypeOK, CoreTypeOK, TrapTypeOK
<1>3. QED
  BY <1>1, <1>2 DEF HistNext

(* Type correctness of the core, for every word size, memory and program.  *)
THEOREM HistTypeCorrect == HistSpec => []HistTypeOK
<1>1. HistInit => HistTypeOK
  <2>1. 0 \in Word /\ 0 \in Modes /\ 3 \in Modes /\ 0 \in Causes
    BY WordAssumption, SMT DEF Word, Modes, Causes
  <2>2. NoFrame \in Frames
    BY <2>1 DEF NoFrame, Frames
  <2>3. QED
    BY <2>1, <2>2, CoreAssumption
       DEF HistInit, CoreInit, TrapInit, HistTypeOK, CoreTypeOK, TrapTypeOK
<1>2. HistTypeOK /\ [HistNext]_histVars => HistTypeOK'
  BY HistNextTypes
<1>3. QED
  BY <1>1, <1>2, PTL DEF HistSpec

(* The frame of the trap being handled is kept by every edge. The          *)
(* invariant is inductive as it stands: with MIE clear no line can raise a *)
(* trap, and the only other writer of MIE closes the frame.                *)
LEMMA FrameKeptStep ==
  ASSUME HistTypeOK, FrameKept, NEW rst \in BOOLEAN, NEW stall \in BOOLEAN,
         HistEdge(rst, stall)
  PROVE  FrameKept'
<1> DEFINE ctl  == Control(Instr.op, stall)
           sig  == Signal(ctl)
<1>1. ControlEdge(rst, stall) /\ FrameEdge(rst, stall)
  BY DEF HistEdge, CoreEdge
<1>2. CASE rst
  <2>1. frame' = NoFrame
    BY <1>1, <1>2 DEF FrameEdge, Entering
  <2>2. QED
    BY <2>1 DEF FrameKept, NoFrame
<1>3. CASE ~rst
  <2>1. RunEdge(stall, ctl)
    BY <1>1, <1>3 DEF ControlEdge
  <2>2. CASE TrapTrigger(sig)
    <3>1. EnterTrap /\ mcause' = ExceptCode(sig) /\ mepc' = pc /\ mie
      BY <2>1, <2>2, Zenon DEF RunEdge, StatusEdge, CauseEdge, TrapTrigger
    <3>2. frame' = [ open |-> TRUE, pc |-> pc, mode |-> mode,
                     cause |-> ExceptCode(sig) ]
      BY <1>1, <1>3, <2>2 DEF FrameEdge, Entering
    <3> HIDE DEF sig
    <3>3. QED
      BY <3>1, <3>2 DEF EnterTrap, FrameKept
  <2>3. CASE ~TrapTrigger(sig)
    <3>1. UNCHANGED <<mcause, mepc>>
      BY <2>1, <2>3 DEF RunEdge, CauseEdge, TrapTrigger
    <3>2. CASE ctl.trapReturn \/ (ctl.csrWrite /\ Instr.csr = CsrMstatus)
      <4>1. ~stall /\ (Instr.op = "mret" \/ (Instr.op \in CsrRegs \cup CsrImms
                                              /\ Instr.csr = CsrMstatus))
        BY <3>2 DEF Control, Decoded, Idle, Branches, Loads, Stores, CsrRegs,
                    CsrImms, Faults
      <4>2. frame' = NoFrame
        BY <1>1, <1>3, <2>3, <4>1 DEF FrameEdge, Entering, Returning, RewritingStatus
      <4>3. QED
        BY <4>2 DEF FrameKept, NoFrame
    <3>3. CASE ~ctl.trapReturn /\ ~(ctl.csrWrite /\ Instr.csr = CsrMstatus)
      <4>1. KeepStatus
        BY <2>1, <2>3, <3>3, Zenon DEF RunEdge, StatusEdge
      <4>2. frame' = frame \/ frame' = NoFrame
        BY <1>1, <1>3, <2>3 DEF FrameEdge, Entering
      <4>3. QED
        BY <3>1, <4>1, <4>2 DEF KeepStatus, FrameKept, NoFrame
    <3>4. QED
      BY <3>2, <3>3
  <2>4. QED
    BY <2>2, <2>3
<1>4. QED
  BY <1>2, <1>3

(* Whatever a handler executes, the trap it handles stays recorded.        *)
THEOREM FrameAlwaysKept == HistSpec => []FrameKept
<1>1. HistInit => FrameKept
  BY DEF HistInit, NoFrame, FrameKept
<1>2. HistTypeOK /\ FrameKept /\ [HistNext]_histVars => FrameKept'
  <2>1. CASE UNCHANGED histVars
    BY <2>1 DEF histVars, coreVars, trapVars, FrameKept
  <2>2. QED
    BY <2>1, FrameKeptStep DEF HistNext
<1>3. QED
  BY <1>1, <1>2, HistTypeCorrect, PTL DEF HistSpec

(* The mret that closes a handler restores what the trap saved.            *)
THEOREM ReturnsToTrapHolds == HistSpec => ReturnsToTrap
<1>1. ASSUME HistTypeOK, FrameKept, NEW rst \in BOOLEAN, NEW stall \in BOOLEAN,
             HistEdge(rst, stall), frame.open, Returning(rst, stall)
      PROVE  pc' = frame.pc /\ mode' = frame.mode /\ mie'
  <2> DEFINE ctl == Control(Instr.op, stall)
             sig == Signal(ctl)
  <2>1. ~rst /\ ~stall /\ Instr.op = "mret"
    BY <1>1 DEF Returning
  <2>2. ctl = [Idle EXCEPT !.trapReturn = TRUE]
    BY <2>1 DEF Control, Decoded, Branches, Loads, Stores, CsrRegs, CsrImms, Faults
  <2>3. ctl.trapReturn /\ ctl.fault = "none" /\ ~ctl.memRead /\ ~ctl.memWrite
    BY <2>2 DEF Idle
  <2>4. sig = {}
    BY <2>3 DEF Signal, ExceptSignal
  <2>5. ~TrapTrigger(sig)
    BY <2>4 DEF TrapTrigger
  <2>6. RunEdge(stall, ctl)
    BY <1>1, <2>1 DEF HistEdge, CoreEdge, ControlEdge
  <2>7. LeaveTrap
    BY <2>3, <2>5, <2>6, Zenon DEF RunEdge, StatusEdge
  <2>8. pc' = mepc
    BY <2>1, <2>3, <2>5, <2>6 DEF RunEdge, NextPc
  <2>9. QED
    BY <1>1, <2>7, <2>8 DEF LeaveTrap, FrameKept
<1>2. HistTypeOK /\ FrameKept /\ [HistNext]_histVars
        => [ \A rst, stall \in BOOLEAN :
               HistEdge(rst, stall) /\ frame.open /\ Returning(rst, stall)
                 => pc' = frame.pc /\ mode' = frame.mode /\ mie' ]_histVars
  BY <1>1
<1>3. QED
  BY <1>2, HistTypeCorrect, FrameAlwaysKept, PTL DEF HistSpec, ReturnsToTrap

(* mcause and mepc are written by a taken trap and by nothing else.        *)
THEOREM CauseWithTrapHolds == HistSpec => CauseWithTrap
<1> DEFINE Cause ==
      \/ UNCHANGED <<mcause, mepc>>
      \/ pc' = 4 * (mtvec \div 4) /\ mepc' = pc /\ mie /\ ~mie' /\ mpp' = mode
      \/ pc' = 0 /\ cycle' = 0 /\ mcause' = 0 /\ mepc' = 0
<1>1. ASSUME NEW rst \in BOOLEAN, NEW stall \in BOOLEAN, HistEdge(rst, stall)
      PROVE  Cause
  <2> DEFINE ctl == Control(Instr.op, stall)
             sig == Signal(ctl)
  <2>1. ControlEdge(rst, stall)
    BY <1>1 DEF HistEdge, CoreEdge
  <2>2. CASE rst
    BY <2>1, <2>2 DEF ControlEdge, ResetEdge, TrapReset
  <2>3. CASE ~rst
    <3>1. RunEdge(stall, ctl)
      BY <2>1, <2>3 DEF ControlEdge
    <3>2. CASE TrapTrigger(sig)
      <4>1. EnterTrap /\ mepc' = pc /\ mie
        BY <3>1, <3>2, Zenon DEF RunEdge, StatusEdge, CauseEdge, TrapTrigger
      <4>2. ~stall
        <5>1. SUFFICES ASSUME stall PROVE FALSE
          OBVIOUS
        <5>2. ctl = Idle
          BY <5>1 DEF Control
        <5>3. sig = {}
          BY <5>2 DEF Signal, ExceptSignal, Idle
        <5>4. QED
          BY <5>3, <3>2 DEF TrapTrigger
      <4>3. pc' = 4 * (mtvec \div 4)
        BY <3>1, <3>2, <4>2 DEF RunEdge, NextPc
      <4>4. QED
        BY <4>1, <4>3 DEF EnterTrap
    <3>3. CASE ~TrapTrigger(sig)
      BY <3>1, <3>3 DEF RunEdge, CauseEdge, TrapTrigger
    <3>4. QED
      BY <3>2, <3>3
  <2>4. QED
    BY <2>2, <2>3
<1>2. [HistNext]_histVars => [Cause]_histVars
  BY <1>1 DEF HistNext
<1>3. QED
  BY <1>2, PTL DEF HistSpec, CauseWithTrap

-----------------------------------------------------------------------------
(* DebugPort.tla: whatever the coprocessor stores and when.                *)

(* Two halves make a word.                                                 *)
LEMMA DataIsWord ==
  ASSUME PortTypeOK
  PROVE  ioData \in Word
<1>1. HalfSize \in Nat \ {0} /\ WordSize = HalfSize * HalfSize
  BY PortAssumption
<1>2. ioHigh \in 0 .. HalfSize - 1 /\ ioLow \in 0 .. HalfSize - 1
  BY DEF PortTypeOK, Half
<1>3. \A h, l \in 0 .. HalfSize - 1 : h * HalfSize + l \in 0 .. HalfSize * HalfSize - 1
  <2>1. TAKE h, l \in 0 .. HalfSize - 1
  <2>2. h * HalfSize <= (HalfSize - 1) * HalfSize
    BY <1>1, SMT
  <2>3. (HalfSize - 1) * HalfSize = HalfSize * HalfSize - HalfSize
    BY <1>1, SMT
  <2>4. h * HalfSize \in Nat
    BY <1>1, SMT
  <2>5. QED
    BY <1>1, <2>2, <2>3, <2>4, SMT
<1>4. QED
  BY <1>1, <1>2, <1>3 DEF ioData, Word

(* The port addresses a register.                                          *)
LEMMA AddrRegIsReg ==
  ASSUME PortTypeOK
  PROVE  AddrReg \in RegId /\ ioAddr \in Nat
  BY CoreAssumption, SMT DEF PortTypeOK, PortAddr, AddrReg, RegId

(* Addresses and data of an executing instruction.                         *)
LEMMA AddressIsNat ==
  ASSUME CoreTypeOK
  PROVE  Address \in Nat
<1>1. Word \subseteq Int /\ Word \subseteq Nat
  BY WordAssumption, SMT DEF Word
<1>2. QED
  BY <1>1, OperandsAreWords, SumIsWord DEF Address

(* One edge of the port's side of the core keeps the types, whatever is    *)
(* stored on it.                                                           *)
LEMMA PortEdgeTypes ==
  ASSUME PortTypeOK, PortEdge
  PROVE  CoreTypeOK' /\ stallFlag' \in Word /\ breakFlag' \in BOOLEAN
<1> DEFINE rst == "reset" \in ioControl \cup ioControl'
           ctl == Control(Instr.op, Stall)
<1>1. ControlEdge(rst, Stall) /\ PortRegEdge(ctl) /\ PortRamEdge(ctl)
      /\ StallFlagEdge /\ BreakFlagEdge(rst, ctl) /\ rom' = rom
  BY DEF PortEdge
<1>2. CoreTypeOK /\ ioData \in Word /\ AddrReg \in RegId /\ ioAddr \in Nat
  BY DataIsWord, AddrRegIsReg DEF PortTypeOK
<1>3. pc' \in Word /\ cycle' \in Word /\ TrapTypeOK'
  BY <1>1, <1>2, ControlEdgeTypes
<1>4. regs' \in [RegId -> Word]
  <2>1. regs[AddrReg] \in Word
    BY <1>2 DEF CoreTypeOK
  <2>2. Xor(regs[AddrReg], ioData) \in Word
    BY <1>2, <2>1, WordOpsAssumption
  <2>3. CASE "flip" \in ioControl
    BY <1>1, <1>2, <2>2, <2>3, RegEdgeTypes DEF PortRegEdge
  <2>4. CASE "flip" \notin ioControl
    BY <1>1, <1>2, <2>4, OperandsAreWords, ResultIsWord, RegEdgeTypes DEF PortRegEdge
  <2>5. QED
    BY <2>3, <2>4
<1>5. ram' \in [RamAddr -> Word] /\ ramQ' \in Word
  <2> DEFINE op   == IF "memWrite" \in ioControl THEN "sd" ELSE Instr.op
             addr == IF ioControl \cap {"memWrite", "memRead"} # {}
                     THEN ioAddr ELSE Address
             data == IF "memWrite" \in ioControl THEN ioData ELSE Rs2
  <2>1. op \in Mnemonics
    BY <1>2, OperandsAreWords DEF Mnemonics, Stores
  <2>2. addr \in Nat /\ data \in Word
    BY <1>2, AddressIsNat, OperandsAreWords
  <2>3. RamEdge("memRead" \in ioControl \/ ctl.memRead,
                "memWrite" \in ioControl \/ ctl.memWrite, op, addr, data)
    BY <1>1 DEF PortRamEdge
  <2>4. "memWrite" \in ioControl \/ ctl.memWrite => op \in Stores
    BY <1>2, OperandsAreWords, MemoryLines DEF Stores
  <2> HIDE DEF op, addr, data, ctl
  <2>5. QED
    BY <1>2, <2>1, <2>2, <2>3, <2>4, RamEdgeTypes
<1>6. stallFlag' \in Word
  <2>1. 0 \in Word
    BY WordAssumption, SMT DEF Word
  <2>2. QED
    BY <1>1, <1>2, <2>1 DEF StallFlagEdge, PortTypeOK
<1>7. breakFlag' \in BOOLEAN
  BY <1>1, Zenon DEF BreakFlagEdge
<1>8. QED
  BY <1>1, <1>2, <1>3, <1>4, <1>5, <1>6, <1>7 DEF CoreTypeOK

(* Type correctness of the core with its port.                             *)
THEOREM PortTypeCorrect == PortSpec => []PortTypeOK
<1>1. PortInit => PortTypeOK
  <2>1. 0 \in Word /\ 0 \in Modes /\ 3 \in Modes /\ 0 \in Causes
    BY WordAssumption, SMT DEF Word, Modes, Causes
  <2>2. 0 \in Half /\ 0 \in PortAddr
    <3>1. HalfSize \in Nat \ {0}
      BY PortAssumption
    <3>2. QED
      BY <3>1, SMT DEF Half, PortAddr
  <2>3. PortInit => CoreTypeOK
    BY <2>1, CoreAssumption DEF PortInit, CoreInit, TrapInit, CoreTypeOK, TrapTypeOK
  <2>4. QED
    BY <2>1, <2>2, <2>3 DEF PortInit, PortTypeOK, ControlBits
<1>2. PortTypeOK /\ [PortNext]_portVars => PortTypeOK'
  <2>1. ASSUME PortTypeOK, PortNext
        PROVE  PortTypeOK'
    <3>1. ioControl' \subseteq ControlBits /\ ioAddr' \in PortAddr
          /\ ioLow' \in Half /\ ioHigh' \in Half
      BY <2>1, PortAssumption
         DEF PortNext, AnyStore, ioVars, StoreControl, StoreAddr, StoreLow,
             StoreHigh, PortTypeOK
    <3>2. QED
      BY <2>1, <3>1, PortEdgeTypes DEF PortNext, PortTypeOK
  <2>2. CASE UNCHANGED portVars
    BY <2>2 DEF portVars, ioVars, coreVars, trapVars, PortTypeOK, CoreTypeOK, TrapTypeOK
  <2>3. QED
    BY <2>1, <2>2
<1>3. QED
  BY <1>1, <1>2, PTL DEF PortSpec

-----------------------------------------------------------------------------
(* A stalled controller drives nothing: the trap unit stands still and     *)
(* only the port writes.                                                   *)
LEMMA StalledEdge ==
  ASSUME PortTypeOK, PortEdge, ~Resetting, Stall
  PROVE  /\ UNCHANGED <<pc, trapVars, cycle>>
         /\ \A r \in RegId : regs'[r] # regs[r]
                           => "flip" \in ioControl /\ r = AddrReg
         /\ \A a \in RamAddr : ram'[a] # ram[a]
                           => "memWrite" \in ioControl /\ a = RamWord(ioAddr)
<1> DEFINE ctl == Control(Instr.op, Stall)
<1>1. ctl = Idle
  BY DEF Control
<1> HIDE DEF ctl
<1>2. ~ctl.trapReturn /\ ~ctl.csrWrite /\ ctl.fault = "none" /\ ~ctl.memRead
      /\ ~ctl.memWrite /\ ~ctl.regWrite
  <2>1. Idle.trapReturn = FALSE /\ Idle.csrWrite = FALSE /\ Idle.fault = "none"
        /\ Idle.memRead = FALSE /\ Idle.memWrite = FALSE /\ Idle.regWrite = FALSE
    BY DEF Idle
  <2>2. QED
    BY <1>1, <2>1, Zenon
<1>3. RunEdge(Stall, ctl) /\ PortRegEdge(ctl) /\ PortRamEdge(ctl)
  BY DEF PortEdge, ControlEdge, Resetting, ctl
<1>4. Signal(ctl) = {}
  BY <1>2 DEF Signal, ExceptSignal
<1>5. UNCHANGED <<pc, cycle, mode, mpp, mpie, mie, mcause, mepc, mtvec>>
  BY <1>2, <1>3, <1>4
     DEF RunEdge, StatusEdge, CauseEdge, TvecEdge, TrapTrigger, KeepStatus
<1>6. regs' = regs \/ ("flip" \in ioControl
                       /\ regs' = [regs EXCEPT ![AddrReg] = Xor(regs[AddrReg], ioData)])
  BY <1>2, <1>3 DEF PortRegEdge, RegEdge
<1>7. ram' = ram
      \/ ("memWrite" \in ioControl
            /\ \E w : ram' = [ram EXCEPT ![RamWord(ioAddr)] = w])
  BY <1>2, <1>3 DEF PortRamEdge, RamEdge
<1>8. regs \in [RegId -> Word] /\ ram \in [RamAddr -> Word]
  BY DEF PortTypeOK, CoreTypeOK
<1>9. QED
  BY <1>5, <1>6, <1>7, <1>8 DEF trapVars

(* The counter moves on every edge that is neither stalled nor reset.      *)
LEMMA RunningCounts ==
  ASSUME PortTypeOK, PortEdge, ~Resetting, ~Stall
  PROVE  cycle' = Sum(cycle, 1)
  BY DEF PortEdge, ControlEdge, RunEdge, Resetting

(* One more is a different count, and the next one unless it wraps.        *)
LEMMA CounterMoves ==
  ASSUME NEW c \in Word
  PROVE  Sum(c, 1) # c /\ (c + 1 \in Word => Sum(c, 1) = c + 1)
  BY WordAssumption, SMT DEF Sum, Word

(* An edge that is not counted executes nothing.                           *)
THEOREM CountedOrFrozenHolds == PortSpec => CountedOrFrozen
<1> DEFINE Frozen ==
      Resetting \/ cycle' # cycle
      \/ /\ UNCHANGED <<pc, trapVars>>
         /\ \A r \in RegId : regs'[r] # regs[r]
                            => "flip" \in ioControl /\ r = AddrReg
         /\ \A a \in RamAddr : ram'[a] # ram[a]
                            => "memWrite" \in ioControl /\ a = RamWord(ioAddr)
<1>1. ASSUME PortTypeOK, PortNext
      PROVE  Frozen
  <2>1. CASE ~Resetting /\ Stall
    BY <1>1, <2>1, StalledEdge DEF PortNext
  <2>2. CASE ~Resetting /\ ~Stall
    <3>1. cycle \in Word
      BY <1>1 DEF PortTypeOK, CoreTypeOK
    <3>2. QED
      BY <1>1, <2>2, <3>1, RunningCounts, CounterMoves DEF PortNext
  <2>3. QED
    BY <2>1, <2>2
<1>2. PortTypeOK /\ [PortNext]_portVars => [Frozen]_portVars
  BY <1>1
<1>3. QED
  BY <1>2, PortTypeCorrect, PTL DEF PortSpec, CountedOrFrozen

(* An armed run stops at its count.                                        *)
THEOREM NeverOvershootsHolds == PortSpec => NeverOvershoots
<1> DEFINE Stops ==
      "delay" \in ioControl \cap ioControl' /\ stallFlag' = stallFlag
      /\ cycle <= stallFlag => cycle' <= stallFlag'
<1>1. ASSUME PortTypeOK, PortNext, "delay" \in ioControl \cap ioControl',
             stallFlag' = stallFlag, cycle <= stallFlag
      PROVE  cycle' <= stallFlag'
  <2>1. cycle \in Word /\ stallFlag \in Word
    BY <1>1 DEF PortTypeOK, CoreTypeOK
  <2>2. CASE Resetting
    <3>1. cycle' = 0
      BY <1>1, <2>2 DEF PortNext, PortEdge, ControlEdge, ResetEdge, Resetting
    <3>2. QED
      BY <1>1, <2>1, <3>1, SMT DEF Word
  <2>3. CASE ~Resetting /\ Stall
    <3>1. cycle' = cycle
      BY <1>1, <2>3, StalledEdge DEF PortNext
    <3>2. QED
      BY <1>1, <3>1
  <2>4. CASE ~Resetting /\ ~Stall
    <3>1. cycle # stallFlag
      BY <1>1, <2>4 DEF Stall, CycleStall
    <3>2. cycle' = Sum(cycle, 1)
      BY <1>1, <2>4, RunningCounts DEF PortNext
    <3>3. cycle + 1 \in Word /\ cycle + 1 <= stallFlag
      BY <1>1, <2>1, <3>1, WordAssumption, SMT DEF Word
    <3>4. QED
      BY <1>1, <2>1, <3>2, <3>3, CounterMoves
  <2>5. QED
    BY <2>2, <2>3, <2>4
<1>2. PortTypeOK /\ [PortNext]_portVars => [Stops]_portVars
  BY <1>1
<1>3. QED
  BY <1>2, PortTypeCorrect, PTL DEF PortSpec, NeverOvershoots

(* An executed ebreak is not lost.                                         *)
THEOREM BreakKeptHolds == PortSpec => BreakKept
<1> DEFINE Kept ==
      /\ ~Resetting
      /\ breakFlag \/ (~Stall /\ Instr.op = "ebreak")
      /\ ~("csr" \in ioControl /\ AddrIsBreak)
      => breakFlag'
<1>1. ASSUME PortNext, ~Resetting,
             breakFlag \/ (~Stall /\ Instr.op = "ebreak"),
             ~("csr" \in ioControl /\ AddrIsBreak)
      PROVE  breakFlag'
  <2> DEFINE ctl == Control(Instr.op, Stall)
  <2>1. BreakFlagEdge(FALSE, ctl)
    BY <1>1, Zenon DEF PortNext, PortEdge, Resetting, BreakFlagEdge
  <2>2. "csr" \in ioControl => ctl.fault = "none"
    <3>1. "csr" \in ioControl => Stall
      BY DEF Stall, PortBits
    <3>2. QED
      BY <3>1 DEF Control, Idle
  <2>3. ~Stall /\ Instr.op = "ebreak" => ctl.fault = "ebreak"
    BY DEF Control, Decoded, Idle, Branches, Loads, Stores, CsrRegs, CsrImms, Faults
  <2>4. breakFlag' = (breakFlag \/ ctl.fault = "ebreak")
    BY <1>1, <2>1, <2>2 DEF BreakFlagEdge
  <2> HIDE DEF ctl
  <2>5. QED
    BY <1>1, <2>3, <2>4, Zenon
<1>2. [PortNext]_portVars => [Kept]_portVars
  BY <1>1
<1>3. QED
  BY <1>2, PTL DEF PortSpec, BreakKept

-----------------------------------------------------------------------------
(* What the port's registers hold when an access is next.                  *)
HoldLines == {46, 48, 52, 53, 59, 60, 61, 62, 63, 67, 78, 79, 82, 86, 95}
ReadLines == {97, 98, 99, Done}
Lines     == BootLines \cup RunLines \cup WindowLines \cup AfterLines \cup EndLines

ControlHeld ==
  /\ line \in {23, 27, 28, 29} => ioControl = {"reset"}
  /\ line = 30                 => ioControl = {"reset", "csr", "delay"}
  /\ line \in {31, 32, 33, 37} => ioControl = {"reset", "delay"}
  /\ line \in {40, 44}         => ioControl = {"delay"}
  /\ line \in HoldLines        => ioControl = {"flip"}
  /\ line \in {70, 76}         => ioControl = {}
  /\ line \in ReadLines        => ioControl = {"memRead"}

DataHeld ==
  /\ ioLow  = IF line \in {29, 30, 31, 32} THEN setup.delay
              ELSE IF line = 60 THEN setup.low ELSE 0
  /\ ioHigh = IF line = 62 THEN setup.high ELSE 0

AddrHeld ==
  /\ line \in {28, 29, 30, 31, 32, 33, 37, 40, 44, 46} => ioAddr = 4096
  /\ line \in {48, 52, 79, 82}                         => ioAddr = 32
  /\ line \in {53, 59, 60, 61, 62, 63, 67, 70, 76, 78} => ioAddr = setup.reg
  /\ line = 86                                         => ioAddr = ResultReg
  /\ line \in {98, 99}                                 => ioAddr = word * Lanes

WordHeld ==
  /\ line \notin ReadLines  => word = 0
  /\ line \in {97, 98, 99}  => word < MemWords

PortHeld == InjTypeOK /\ ControlHeld /\ DataHeld /\ AddrHeld /\ WordHeld

-----------------------------------------------------------------------------
(* What that has done to the core.                                         *)

(* The delay is in the stall flag until the core has stalled on it.        *)
DelayArmed ==
  /\ line \in {31, 32, 33, 37, 40, 44} => stallFlag = setup.delay
  /\ line \in {44, 46, 48, 52, 53, 59, 60, 61, 62, 63, 67} => cycle = setup.delay

(* The target register while the mask is held: half a mask is on it after  *)
(* an odd number of edges.                                                 *)
Masked(w, mask) == IF setup.reg = 0 THEN w ELSE Xor(w, mask)
LowMasked  == Masked(report.before, setup.low)
FullMasked == Masked(LowMasked, setup.high * HalfSize)

TargetHeld ==
  /\ regs[0] = 0
  /\ setup.reg = 0 => report.before = 0
  /\ line = 59 => regs[setup.reg] = report.before
  /\ line = 60 => regs[setup.reg] = IF idle % 2 = 0 THEN report.before ELSE LowMasked
  /\ line = 61 => regs[setup.reg] = LowMasked
  /\ line = 62 => regs[setup.reg] = IF idle % 2 = 0 THEN LowMasked ELSE FullMasked
  /\ line \in {63, 67} => regs[setup.reg] = FullMasked
  /\ line \in {67, 70, 76} \cup EndLines => report.after = FullMasked

(* The report, once the core is held again.                                *)
ResultHeld ==
  /\ line \in {76} \cup EndLines => breakFlag \/ watchdog > setup.max
  /\ line \in {82, 86, 95} \cup ReadLines => report.pcEnd = pc
  /\ line \in {95} \cup ReadLines /\ ~report.dnf => report.result = regs[ResultReg]

DumpHeld ==
  /\ DumpIsFresh
  /\ line = 99 => ramQ = ram[word]

-----------------------------------------------------------------------------
(* Every mask is held for an odd number of edges: what the equipment needs *)
(* of the compiled program and the bus.                                    *)
OddHolds == \A g \in HoldGaps : g % 2 = 1

-----------------------------------------------------------------------------
(* Values of the setup, of the addresses and of what is read.              *)
LEMMA SetupTypes ==
  ASSUME InjTypeOK
  PROVE  /\ setup.delay \in Half /\ setup.low \in Half /\ setup.high \in Half
         /\ setup.reg \in RegId /\ setup.max \in 0 .. UintSize - 1
  BY InjectorAssumption DEF InjTypeOK

(* Two halves fit into a word.                                             *)
LEMMA HalvesFit ==
  ASSUME NEW h \in 0 .. HalfSize - 1, NEW l \in 0 .. HalfSize - 1
  PROVE  h * HalfSize + l \in 0 .. HalfSize * HalfSize - 1
<1>1. HalfSize \in Nat \ {0}
  BY PortAssumption
<1>2. h * HalfSize <= (HalfSize - 1) * HalfSize /\ h * HalfSize \in Nat
  BY <1>1, SMT
<1>3. (HalfSize - 1) * HalfSize = HalfSize * HalfSize - HalfSize
  BY <1>1, SMT
<1>4. QED
  BY <1>1, <1>2, <1>3, SMT

LEMMA HalvesAreWords == 0 \in Half /\ Half \subseteq Word
<1>1. HalfSize \in Nat \ {0} /\ WordSize = HalfSize * HalfSize
  BY PortAssumption
<1>2. HalfSize <= HalfSize * HalfSize
  BY <1>1, SMT
<1>3. QED
  BY <1>1, <1>2, SMT DEF Half, Word

LEMMA AddressesFit ==
  ASSUME NEW r \in RegId, NEW w \in RamAddr
  PROVE  /\ r \in PortAddr /\ r \in 0 .. 31 /\ r % RegCount = r
         /\ w * Lanes \in PortAddr /\ RamWord(w * Lanes) = w
<1>1. /\ RegCount \in Nat \ {0} /\ Lanes \in Nat \ {0} /\ MemWords \in Nat \ {0}
      /\ RegCount <= 32 /\ MemWords * Lanes <= 32768
  BY CoreAssumption, InjectorAssumption
<1>2. r \in PortAddr /\ r \in 0 .. 31 /\ r % RegCount = r
  <2>1. r \in 0 .. RegCount - 1
    BY DEF RegId
  <2>2. r \in PortAddr /\ r \in 0 .. 31
    BY <1>1, <2>1, SMT DEF PortAddr
  <2>3. \A n \in Nat \ {0} : \A k \in 0 .. n - 1 : k % n = k
    BY SMT
  <2>4. QED
    BY <1>1, <2>1, <2>2, <2>3
<1>3. w \in 0 .. MemWords - 1
  BY DEF RamAddr
<1>4. w * Lanes \in Nat /\ w * Lanes <= (MemWords - 1) * Lanes
  BY <1>1, <1>3, SMT
<1>5. (MemWords - 1) * Lanes = MemWords * Lanes - Lanes /\ MemWords * Lanes \in Nat
  BY <1>1, SMT
<1>6. w * Lanes \in PortAddr
  <2> DEFINE top == 32767
  <2>1. MemWords * Lanes \in Nat /\ w * Lanes <= MemWords * Lanes - Lanes
    BY <1>1, <1>4, <1>5, SMT
  <2>2. w * Lanes <= top /\ top \in Nat
    BY <1>1, <1>4, <2>1, SMT
  <2>3. PortAddr = 0 .. top
    BY DEF PortAddr
  <2> HIDE DEF top
  <2>4. QED
    BY <1>4, <2>2, <2>3, SMT
<1>7. (w * Lanes) \div Lanes = w
  BY <1>1, <1>3, SMT
<1>8. w % MemWords = w
  BY <1>1, <1>3, SMT
<1>9. QED
  BY <1>2, <1>6, <1>7, <1>8 DEF RamWord

LEMMA ReadIsWord ==
  ASSUME PortTypeOK
  PROVE  ioDataIn \in Word
<1>1. pc \in Word /\ ramQ \in Word /\ CsrRead(AddrCsr) \in Word
  BY CsrReadIsWord DEF PortTypeOK, CoreTypeOK
<1>2. regs[AddrReg] \in Word
  BY AddrRegIsReg DEF PortTypeOK, CoreTypeOK
<1>3. QED
  BY <1>1, <1>2 DEF ioDataIn

-----------------------------------------------------------------------------
(* The program's own registers, whatever the core does on the edge.        *)
LEMMA PortHeldInit == InjInit => PortHeld
<1> SUFFICES ASSUME InjInit PROVE PortHeld
  OBVIOUS
<1>1. 0 \in Word /\ 0 \in Half /\ 0 \in PortAddr /\ 0 \in 0 .. UintSize - 1
      /\ 0 \in 0 .. MemWords
  BY HalvesAreWords, InjectorAssumption, CoreAssumption, SMT DEF PortAddr
<1>2. PortTypeOK
  <2>1. 0 \in Modes /\ 3 \in Modes /\ 0 \in Causes
    BY SMT DEF Modes, Causes
  <2>2. CoreTypeOK
    BY <1>1, <2>1, CoreAssumption
       DEF InjInit, PortInit, CoreInit, TrapInit, CoreTypeOK, TrapTypeOK
  <2>3. QED
    BY <1>1, <2>2 DEF InjInit, PortInit, PortTypeOK, ControlBits
<1>3. InjTypeOK
  BY <1>1, <1>2 DEF InjInit, InjTypeOK, Reports, BootLines
<1>4. ControlHeld /\ DataHeld /\ AddrHeld /\ WordHeld
  BY SMT DEF InjInit, PortInit, ControlHeld, DataHeld, AddrHeld, WordHeld, HoldLines, ReadLines, Done
<1>5. QED
  BY <1>3, <1>4 DEF PortHeld

(* What a store leaves in the four output registers.                       *)
IoTypeOK ==
  /\ ioControl \subseteq ControlBits /\ ioAddr \in PortAddr
  /\ ioLow \in Half /\ ioHigh \in Half

LEMMA StoreTypes ==
  ASSUME IoTypeOK
  PROVE  /\ UNCHANGED ioVars => IoTypeOK'
         /\ \A c \in SUBSET ControlBits : StoreControl(c) => IoTypeOK'
         /\ \A a \in PortAddr : StoreAddr(a) => IoTypeOK'
         /\ \A v \in Half : StoreLow(v) \/ StoreHigh(v) => IoTypeOK'
  BY DEF IoTypeOK, ioVars, StoreControl, StoreAddr, StoreLow, StoreHigh

LEMMA IoTypesStep ==
  ASSUME PortHeld, Access \/ Compute \/ Spin
  PROVE  IoTypeOK'
<1> USE DEF PutControl, PutAddr, PutLow, PutHigh, Fetch
<1>1. InjTypeOK /\ IoTypeOK
  BY DEF PortHeld, InjTypeOK, PortTypeOK, IoTypeOK
<1>2. 0 \in Half /\ setup.delay \in Half /\ setup.low \in Half /\ setup.high \in Half
  BY <1>1, SetupTypes, HalvesAreWords
<1>3. setup.reg \in PortAddr /\ ResultReg \in PortAddr /\ 4096 \in PortAddr /\ 32 \in PortAddr
  <2>1. 0 \in RamAddr
    BY CoreAssumption, SMT DEF RamAddr
  <2>2. setup.reg \in PortAddr /\ ResultReg \in PortAddr
    BY <1>1, <2>1, SetupTypes, AddressesFit, InjectorAssumption
  <2>3. 4096 \in PortAddr /\ 32 \in PortAddr
    BY SMT DEF PortAddr
  <2>4. QED
    BY <2>2, <2>3
<1>4. line \in {97, 98} => word * Lanes \in PortAddr
  <2>1. line \in {97, 98} => word \in RamAddr
    BY <1>1, CoreAssumption, SMT DEF PortHeld, WordHeld, InjTypeOK, RamAddr
  <2>2. 0 \in RegId
    BY CoreAssumption, SMT DEF RegId
  <2>3. QED
    BY <2>1, <2>2, AddressesFit
<1>5. {} \subseteq ControlBits /\ {"reset"} \subseteq ControlBits
      /\ {"reset", "csr", "delay"} \subseteq ControlBits
      /\ {"reset", "delay"} \subseteq ControlBits /\ {"delay"} \subseteq ControlBits
      /\ {"flip"} \subseteq ControlBits /\ {"memRead"} \subseteq ControlBits
  BY DEF ControlBits, PortBits
<1> USE <1>1, StoreTypes
<1>6. CASE LoadDelay
  BY <1>2, <1>3, <1>5, <1>6 DEF LoadDelay
<1>7. CASE Launch
  BY <1>2, <1>3, <1>5, <1>7 DEF Launch
<1>8. CASE AwaitStall \/ AwaitEnd \/ Compute \/ Spin
  BY <1>8 DEF AwaitStall, AwaitEnd, Compute, Spin
<1>9. CASE ReadBefore \/ Resume
  BY <1>3, <1>5, <1>9 DEF ReadBefore, Resume
<1>10. CASE SetMask \/ ClearMask
  BY <1>2, <1>10 DEF SetMask, ClearMask
<1>11. CASE ReadResult
  BY <1>3, <1>5, <1>11 DEF ReadResult
<1>12. CASE DumpMemory
  BY <1>4, <1>5, <1>12 DEF DumpMemory
<1>13. QED
  BY <1>6, <1>7, <1>8, <1>9, <1>10, <1>11, <1>12 DEF Access

(* What the program does with its own registers, whatever the core does.   *)
LEMMA ControlHeldStep ==
  ASSUME PortHeld, Access
  PROVE  ControlHeld'
<1> USE DEF PutControl, PutAddr, PutLow, PutHigh, Fetch, StoreControl, StoreAddr,
            StoreLow, StoreHigh, ioVars, ControlHeld, HoldLines, ReadLines, Done
<1>1. ControlHeld
  BY DEF PortHeld
<1>2. CASE LoadDelay
  BY <1>1, <1>2 DEF LoadDelay
<1>3. CASE Launch
  BY <1>1, <1>3 DEF Launch
<1>4. CASE AwaitStall \/ AwaitEnd
  BY <1>1, <1>4 DEF AwaitStall, AwaitEnd
<1>5. CASE ReadBefore
  BY <1>1, <1>5 DEF ReadBefore
<1>6. CASE SetMask \/ ClearMask \/ Resume
  BY <1>1, <1>6 DEF SetMask, ClearMask, Resume
<1>7. CASE ReadResult
  BY <1>1, <1>7 DEF ReadResult
<1>8. CASE DumpMemory
  BY <1>1, <1>8 DEF DumpMemory
<1>9. QED
  BY <1>2, <1>3, <1>4, <1>5, <1>6, <1>7, <1>8 DEF Access

LEMMA DataHeldStep ==
  ASSUME PortHeld, Access, setup' = setup
  PROVE  DataHeld'
<1> USE DEF PutControl, PutAddr, PutLow, PutHigh, Fetch, StoreControl, StoreAddr,
            StoreLow, StoreHigh, ioVars, DataHeld, Done
<1>1. DataHeld
  BY DEF PortHeld
<1>2. CASE LoadDelay
  BY <1>1, <1>2 DEF LoadDelay
<1>3. CASE Launch
  BY <1>1, <1>3 DEF Launch
<1>4. CASE AwaitStall \/ AwaitEnd
  BY <1>1, <1>4 DEF AwaitStall, AwaitEnd
<1>5. CASE ReadBefore
  BY <1>1, <1>5 DEF ReadBefore
<1>6. CASE SetMask \/ ClearMask \/ Resume
  BY <1>1, <1>6 DEF SetMask, ClearMask, Resume
<1>7. CASE ReadResult
  BY <1>1, <1>7 DEF ReadResult
<1>8. CASE DumpMemory
  BY <1>1, <1>8 DEF DumpMemory
<1>9. QED
  BY <1>2, <1>3, <1>4, <1>5, <1>6, <1>7, <1>8 DEF Access

LEMMA AddrHeldStep ==
  ASSUME PortHeld, Access, setup' = setup
  PROVE  AddrHeld'
<1> USE DEF PutControl, PutAddr, PutLow, PutHigh, Fetch, StoreControl, StoreAddr,
            StoreLow, StoreHigh, ioVars, Quiet, AddrHeld, Done
<1>1. AddrHeld
  BY DEF PortHeld
<1>2. CASE LoadDelay
  BY <1>1, <1>2 DEF LoadDelay
<1>3. CASE Launch
  BY <1>1, <1>3 DEF Launch
<1>4. CASE AwaitStall \/ AwaitEnd
  BY <1>1, <1>4 DEF AwaitStall, AwaitEnd
<1>5. CASE ReadBefore
  BY <1>1, <1>5 DEF ReadBefore
<1>6. CASE SetMask \/ ClearMask \/ Resume
  BY <1>1, <1>6 DEF SetMask, ClearMask, Resume
<1>7. CASE ReadResult
  BY <1>1, <1>7 DEF ReadResult
<1>8. CASE DumpMemory
  BY <1>1, <1>8 DEF DumpMemory
<1>9. QED
  BY <1>2, <1>3, <1>4, <1>5, <1>6, <1>7, <1>8 DEF Access

LEMMA WordHeldStep ==
  ASSUME PortHeld, Access
  PROVE  WordHeld' /\ word' \in 0 .. MemWords
<1> USE DEF PutControl, PutAddr, PutLow, PutHigh, Fetch, Quiet, WordHeld, ReadLines, Done
<1>1. WordHeld /\ word \in 0 .. MemWords /\ MemWords \in Nat \ {0}
  BY CoreAssumption DEF PortHeld, InjTypeOK
<1>2. CASE LoadDelay \/ Launch \/ AwaitStall
  BY <1>1, <1>2 DEF LoadDelay, Launch, AwaitStall
<1>3. CASE ReadBefore \/ SetMask \/ ClearMask \/ Resume \/ AwaitEnd
  BY <1>1, <1>3 DEF ReadBefore, SetMask, ClearMask, Resume, AwaitEnd
<1>4. CASE ReadResult
  BY <1>1, <1>4 DEF ReadResult
<1>5. CASE DumpMemory
  BY <1>1, <1>5 DEF DumpMemory
<1>6. QED
  BY <1>2, <1>3, <1>4, <1>5 DEF Access

(* The lines are those of the program, the watchdog wraps.                 *)
LEMMA ProgramTypesStep ==
  ASSUME PortHeld, Access
  PROVE  /\ line' \in Lines /\ watchdog' \in 0 .. UintSize - 1
         /\ report' \in Reports /\ dump' \in [RamAddr -> Word]
<1> USE DEF PutControl, PutAddr, PutLow, PutHigh, Fetch, Quiet
<1>1. line \in Lines /\ watchdog \in 0 .. UintSize - 1
      /\ report \in Reports /\ dump \in [RamAddr -> Word]
  BY DEF PortHeld, InjTypeOK, Lines
<1>2. ioDataIn \in Word
  BY ReadIsWord DEF PortHeld, InjTypeOK
<1>3. line' \in Lines
  BY DEF Access, LoadDelay, Launch, AwaitStall, ReadBefore, SetMask, ClearMask,
         Resume, AwaitEnd, ReadResult, DumpMemory, Lines, BootLines, RunLines,
         WindowLines, AfterLines, EndLines, Done
<1>4. watchdog' \in 0 .. UintSize - 1
  <2>1. (watchdog + 1) % UintSize \in 0 .. UintSize - 1
    BY <1>1, InjectorAssumption, SMT
  <2>2. watchdog' = watchdog \/ watchdog' = (watchdog + 1) % UintSize
    BY DEF Access, LoadDelay, Launch, AwaitStall, ReadBefore, SetMask, ClearMask,
           Resume, AwaitEnd, ReadResult, DumpMemory
  <2>3. QED
    BY <1>1, <2>1, <2>2
<1>5. report' \in Reports
  <2>1. \/ report' = report
        \/ \E f \in {"pcInjected", "before", "after", "pcEnd", "result"} :
             report' = [report EXCEPT ![f] = ioDataIn]
        \/ report' = [report EXCEPT !.dnf = TRUE]
    BY DEF Access, LoadDelay, Launch, AwaitStall, ReadBefore, SetMask, ClearMask,
           Resume, AwaitEnd, ReadResult, DumpMemory
  <2>2. QED
    BY <1>1, <1>2, <2>1 DEF Reports
<1>6. dump' \in [RamAddr -> Word]
  <2>1. dump' = dump \/ dump' = [dump EXCEPT ![word] = ioDataIn]
    BY DEF Access, LoadDelay, Launch, AwaitStall, ReadBefore, SetMask, ClearMask,
           Resume, AwaitEnd, ReadResult, DumpMemory
  <2>2. QED
    BY <1>1, <1>2, <2>1
<1>7. QED
  BY <1>3, <1>4, <1>5, <1>6

LEMMA PortHeldStep ==
  ASSUME PortHeld, InjNext
  PROVE  PortHeld'
<1>1. PortEdge /\ setup' = setup /\ (Access \/ Compute \/ Spin) /\ PortTypeOK /\ InjTypeOK
  BY DEF InjNext, PortHeld, InjTypeOK
<1>2. PortTypeOK'
  BY <1>1, PortEdgeTypes, IoTypesStep DEF PortTypeOK, IoTypeOK
<1>3. CASE Access
  <2>1. InjTypeOK'
    BY <1>1, <1>2, <1>3, ProgramTypesStep, WordHeldStep, SMT DEF InjTypeOK, Access, Lines
  <2>2. QED
    BY <1>1, <1>3, <2>1, ControlHeldStep, DataHeldStep, AddrHeldStep, WordHeldStep DEF PortHeld
<1>4. CASE Compute \/ Spin
  <2>1. UNCHANGED <<ioVars, line, watchdog, word, report, dump, setup>>
        /\ (idle' = idle \/ idle' = idle + 1)
    BY <1>1, <1>4 DEF Compute, Spin
  <2>2. InjTypeOK'
    BY <1>1, <1>2, <2>1, SMT DEF InjTypeOK
  <2>3. QED
    BY <2>1, <2>2 DEF PortHeld, ControlHeld, DataHeld, AddrHeld, WordHeld, ioVars
<1>5. QED
  BY <1>1, <1>3, <1>4

LEMMA PortHeldStutter ==
  ASSUME PortHeld, UNCHANGED injVars
  PROVE  PortHeld'
  BY DEF PortHeld, InjTypeOK, ControlHeld, DataHeld, AddrHeld, WordHeld, PortTypeOK,
         CoreTypeOK, TrapTypeOK, injVars, portVars, ioVars, coreVars, trapVars

(* What the program has left in the port, at each of its lines.            *)
THEOREM PortHeldHolds == InjSpec => []PortHeld
<1>1. PortHeld /\ [InjNext]_injVars => PortHeld'
  BY PortHeldStep, PortHeldStutter
<1>2. QED
  BY <1>1, PortHeldInit, PTL DEF InjSpec

(* Every register keeps its width, and the program stays on its lines.     *)
THEOREM InjTypeCorrect == InjSpec => []InjTypeOK
<1>1. PortHeld => InjTypeOK
  BY DEF PortHeld
<1>2. QED
  BY <1>1, PortHeldHolds, PTL

(* The program reads a word only while the core is stalled and the data    *)
(* register holds no mask.                                                 *)
THEOREM ReadsAreStableHolds == InjSpec => []ReadsAreStable
<1>1. PortHeld => ReadsAreStable
  <2> SUFFICES ASSUME PortHeld, line \in {48, 53, 63, 79, 86, 99}
               PROVE  Stall /\ ioData = 0
    BY DEF ReadsAreStable
  <2>1. ioControl = {"flip"} \/ ioControl = {"memRead"}
    BY DEF PortHeld, ControlHeld, HoldLines, ReadLines
  <2>2. ioLow = 0 /\ ioHigh = 0
    BY DEF PortHeld, DataHeld
  <2>3. 0 * HalfSize + 0 = 0
    BY PortAssumption, SMT
  <2>4. QED
    BY <2>1, <2>2, <2>3 DEF Stall, PortBits, ioData
<1>2. QED
  BY <1>1, PortHeldHolds, PTL

-----------------------------------------------------------------------------
(* What one edge does to the core, by what the control register holds.     *)

(* A core held by the flip bit: only the addressed register changes.       *)
LEMMA MaskedEdge ==
  ASSUME PortTypeOK, PortEdge, ~Resetting, ioControl = {"flip"}
  PROVE  /\ UNCHANGED <<rom, pc, ram, ramQ, cycle, trapVars, breakFlag>>
         /\ RegEdge(TRUE, AddrReg, Xor(regs[AddrReg], ioData))
<1>1. Stall
  BY DEF Stall, PortBits
<1>2. UNCHANGED <<pc, cycle, trapVars>>
  BY <1>1, StalledEdge
<1>3. Control(Instr.op, Stall) = Idle
  BY <1>1 DEF Control
<1>4. Idle.fault = "none" /\ Idle.memRead = FALSE /\ Idle.memWrite = FALSE
  BY DEF Idle
<1>5. PortRegEdge(Idle) /\ PortRamEdge(Idle) /\ rom' = rom
      /\ BreakFlagEdge(Resetting, Idle)
  BY <1>3, Zenon DEF PortEdge, Resetting
<1>6. RegEdge(TRUE, AddrReg, Xor(regs[AddrReg], ioData))
  BY <1>5 DEF PortRegEdge
<1>7. ram' = ram /\ ramQ' = ramQ
  BY <1>4, <1>5 DEF PortRamEdge, RamEdge
<1>8. breakFlag' = breakFlag
  BY <1>4, <1>5 DEF BreakFlagEdge, PortTypeOK
<1>9. QED
  BY <1>2, <1>5, <1>6, <1>7, <1>8

(* With no mask in the data register, nothing does.                        *)
LEMMA HeldEdge ==
  ASSUME PortTypeOK, PortEdge, ~Resetting, ioControl = {"flip"}, ioData = 0
  PROVE  UNCHANGED <<rom, pc, regs, ram, ramQ, cycle, trapVars, breakFlag>>
<1>1. AddrReg \in RegId /\ regs \in [RegId -> Word]
  BY AddrRegIsReg DEF PortTypeOK, CoreTypeOK
<1>2. Xor(regs[AddrReg], ioData) = regs[AddrReg]
  BY <1>1, XorAssumption
<1>3. regs' = regs
  BY <1>1, <1>2, MaskedEdge DEF RegEdge
<1>4. QED
  BY <1>3, MaskedEdge

(* Under the read bit the RAM's output follows the address, and the core   *)
(* stands still.                                                           *)
LEMMA ReaderEdge ==
  ASSUME PortTypeOK, PortEdge, ~Resetting, ioControl = {"memRead"}
  PROVE  /\ UNCHANGED <<rom, pc, regs, ram, cycle, trapVars, breakFlag>>
         /\ ramQ' = ram[RamWord(ioAddr)]
<1>1. Stall
  BY DEF Stall, PortBits
<1>2. UNCHANGED <<pc, cycle, trapVars>>
  BY <1>1, StalledEdge
<1>3. Control(Instr.op, Stall) = Idle
  BY <1>1 DEF Control
<1>4. Idle.fault = "none" /\ Idle.memRead = FALSE /\ Idle.memWrite = FALSE
      /\ Idle.regWrite = FALSE
  BY DEF Idle
<1>5. PortRegEdge(Idle) /\ PortRamEdge(Idle) /\ rom' = rom
      /\ BreakFlagEdge(Resetting, Idle)
  BY <1>3, Zenon DEF PortEdge, Resetting
<1>6. regs' = regs
  BY <1>4, <1>5 DEF PortRegEdge, RegEdge
<1>7. ram' = ram /\ ramQ' = ram[RamWord(ioAddr)]
  BY <1>4, <1>5 DEF PortRamEdge, RamEdge
<1>8. breakFlag' = breakFlag
  BY <1>4, <1>5 DEF BreakFlagEdge, PortTypeOK
<1>9. QED
  BY <1>2, <1>5, <1>6, <1>7, <1>8

(* With the port's write and read ports idle, it is an edge of the core.   *)
LEMMA PlainEdge ==
  ASSUME PortTypeOK, PortEdge, ioControl \cap {"flip", "memWrite", "memRead"} = {}
  PROVE  CoreEdge(Resetting, Stall)
<1> DEFINE ctl == Control(Instr.op, Stall)
<1>1. ControlEdge(Resetting, Stall) /\ PortRegEdge(ctl) /\ PortRamEdge(ctl) /\ rom' = rom
  BY DEF PortEdge, Resetting
<1>2. "flip" \notin ioControl /\ "memWrite" \notin ioControl /\ "memRead" \notin ioControl
  OBVIOUS
<1>0. ctl.memRead \in BOOLEAN /\ ctl.memWrite \in BOOLEAN
  BY DEF Control, Decoded, Idle
<1> HIDE DEF ctl
<1>3. RegEdge(ctl.regWrite, Instr.rd, Result(ctl))
  BY <1>1, <1>2 DEF PortRegEdge
<1>4. RamEdge(ctl.memRead, ctl.memWrite, Instr.op, Address, Rs2)
  <2>1. ~(ioControl \cap {"memWrite", "memRead"} # {})
    OBVIOUS
  <2>2. RamEdge("memRead" \in ioControl \/ ctl.memRead,
                "memWrite" \in ioControl \/ ctl.memWrite, Instr.op, Address, Rs2)
    BY <1>1, <1>2, <2>1, Zenon DEF PortRamEdge
  <2>3. ("memRead" \in ioControl \/ ctl.memRead) = ctl.memRead
        /\ ("memWrite" \in ioControl \/ ctl.memWrite) = ctl.memWrite
    BY <1>2, <1>0
  <2>4. QED
    BY <2>2, <2>3, Zenon
<1>5. QED
  BY <1>1, <1>3, <1>4 DEF CoreEdge, ctl

(* The core is in reset exactly while the program is on its boot lines.    *)
LEMMA ResetWhileBooting ==
  ASSUME PortHeld, InjNext
  PROVE  Resetting <=> line \in BootLines
<1>1. line \in BootLines => "reset" \in ioControl
  BY DEF PortHeld, ControlHeld, BootLines
<1>2. ASSUME line \notin BootLines
      PROVE  "reset" \notin ioControl /\ "reset" \notin ioControl'
  <2>1. line' \notin BootLines
    BY <1>2 DEF InjNext, Access, LoadDelay, Launch, AwaitStall, ReadBefore, SetMask,
       ClearMask, Resume, AwaitEnd, ReadResult, DumpMemory, Compute, Spin, BootLines,
       PutControl, PutAddr, PutLow, PutHigh, Fetch, Done
  <2>2. PortHeld'
    BY PortHeldStep
  <2>3. \A c \in {{"delay"}, {"flip"}, {}, {"memRead"}} : "reset" \notin c
    OBVIOUS
  <2>4. ASSUME line \in Lines, line \notin BootLines, ControlHeld
        PROVE  ioControl \in {{"delay"}, {"flip"}, {}, {"memRead"}}
    BY <2>4 DEF ControlHeld, Lines, BootLines, RunLines, WindowLines, AfterLines,
            EndLines, HoldLines, ReadLines, Done
  <2>5. ioControl \in {{"delay"}, {"flip"}, {}, {"memRead"}}
    BY <1>2, <2>4 DEF PortHeld, InjTypeOK, Lines
  <2>6. ASSUME line' \in Lines, line' \notin BootLines, ControlHeld'
        PROVE  ioControl' \in {{"delay"}, {"flip"}, {}, {"memRead"}}
    BY <2>6 DEF ControlHeld, Lines, BootLines, RunLines, WindowLines, AfterLines,
            EndLines, HoldLines, ReadLines, Done
  <2>7. ioControl' \in {{"delay"}, {"flip"}, {}, {"memRead"}}
    BY <2>1, <2>2, <2>6 DEF PortHeld, InjTypeOK, Lines
  <2>8. QED
    BY <2>3, <2>5, <2>7
<1>3. QED
  BY <1>1, <1>2 DEF Resetting

-----------------------------------------------------------------------------
(* The same, by the line the program is on.                                *)
LEMMA LineControl ==
  ASSUME PortHeld
  PROVE  /\ PortTypeOK /\ InjTypeOK /\ setup.reg \in RegId
         /\ line \in HoldLines => ioControl = {"flip"}
         /\ line \in ReadLines => ioControl = {"memRead"}
         /\ line \in HoldLines => line \notin BootLines
         /\ line \in ReadLines => line \notin BootLines
  BY SetupTypes DEF PortHeld, InjTypeOK, ControlHeld, HoldLines, ReadLines, BootLines, Done

LEMMA LineData ==
  ASSUME PortHeld
  PROVE  ioData = IF line \in {29, 30, 31, 32} THEN setup.delay
                  ELSE IF line = 60 THEN setup.low
                  ELSE IF line = 62 THEN setup.high * HalfSize ELSE 0
<1>1. HalfSize \in Nat
  BY PortAssumption
<1>2. setup.delay \in Nat /\ setup.low \in Nat /\ setup.high \in Nat
  <2>1. \A h \in Half : h \in Nat
    BY <1>1, SMT DEF Half
  <2>2. QED
    BY <2>1, SetupTypes DEF PortHeld
<1>3. \A h, n \in Nat : h * n \in Nat /\ 0 * n = 0 /\ h * n + 0 = h * n /\ 0 * n + h = h
  BY SMT
<1>4. /\ ioLow  = IF line \in {29, 30, 31, 32} THEN setup.delay
                  ELSE IF line = 60 THEN setup.low ELSE 0
      /\ ioHigh = IF line = 62 THEN setup.high ELSE 0
  BY DEF PortHeld, DataHeld
<1>5. CASE line = 62
  BY <1>1, <1>2, <1>3, <1>4, <1>5 DEF ioData
<1>6. CASE line # 62
  BY <1>1, <1>2, <1>3, <1>4, <1>6 DEF ioData
<1>7. QED
  BY <1>5, <1>6

LEMMA HoldStill ==
  ASSUME PortHeld, InjNext, line \in HoldLines, line \notin {60, 62}
  PROVE  UNCHANGED <<rom, pc, regs, ram, ramQ, cycle, trapVars, breakFlag>>
<1>1. ioData = 0
  BY LineData DEF HoldLines
<1>2. ~Resetting /\ PortEdge /\ PortTypeOK /\ ioControl = {"flip"}
  BY LineControl, ResetWhileBooting DEF InjNext
<1>3. QED
  BY <1>1, <1>2, HeldEdge

LEMMA MaskStep ==
  ASSUME PortHeld, InjNext, NEW mask, 
         \/ line = 60 /\ mask = setup.low
         \/ line = 62 /\ mask = setup.high * HalfSize
  PROVE  /\ UNCHANGED <<rom, pc, ram, ramQ, cycle, trapVars, breakFlag>>
         /\ RegEdge(TRUE, setup.reg, Xor(regs[setup.reg], mask))
<1>1. ioData = mask
  BY LineData
<1>2. ~Resetting /\ PortEdge /\ PortTypeOK /\ ioControl = {"flip"}
  BY LineControl, ResetWhileBooting DEF InjNext, HoldLines
<1>3. AddrReg = setup.reg
  <2>1. ioAddr = setup.reg
    BY DEF PortHeld, AddrHeld
  <2>2. 0 \in RamAddr
    BY CoreAssumption, SMT DEF RamAddr
  <2>3. QED
    BY <2>1, <2>2, LineControl, AddressesFit DEF AddrReg
<1>4. QED
  BY <1>1, <1>2, <1>3, MaskedEdge

LEMMA DumpStep ==
  ASSUME PortHeld, InjNext, line \in ReadLines
  PROVE  /\ UNCHANGED <<rom, pc, regs, ram, cycle, trapVars, breakFlag>>
         /\ line \in {98, 99} => word \in RamAddr /\ ramQ' = ram[word]
<1>1. ~Resetting /\ PortEdge /\ PortTypeOK /\ ioControl = {"memRead"}
  BY LineControl, ResetWhileBooting DEF InjNext
<1>2. line \in {98, 99} => word \in RamAddr /\ ioAddr = word * Lanes
  BY CoreAssumption, SMT DEF PortHeld, InjTypeOK, AddrHeld, WordHeld, RamAddr
<1>3. line \in {98, 99} => RamWord(ioAddr) = word
  <2>1. 0 \in RegId
    BY CoreAssumption, SMT DEF RegId
  <2>2. QED
    BY <1>2, <2>1, AddressesFit
<1>4. QED
  BY <1>1, <1>2, <1>3, ReaderEdge

(* What the program reads at each of its reads.                            *)
LEMMA ReadAtLine ==
  ASSUME PortHeld
  PROVE  /\ line \in {48, 79} => ioDataIn = pc
         /\ line \in {53, 63} => ioDataIn = regs[setup.reg]
         /\ line = 86 => ioDataIn = regs[ResultReg]
         /\ line = 99 => ioDataIn = ramQ
<1>1. ASSUME NEW r \in RegId, ioControl = {"flip"}, ioAddr = r
      PROVE  ioDataIn = regs[r]
  <2>1. 0 \in RamAddr
    BY CoreAssumption, SMT DEF RamAddr
  <2>2. r \in 0 .. 31 /\ AddrReg = r
    BY <1>1, <2>1, AddressesFit DEF AddrReg
  <2>3. ~AddrIsPc
    BY <1>1, <2>2, SMT DEF AddrIsPc
  <2>4. QED
    BY <1>1, <2>2, <2>3 DEF ioDataIn
<1>2. line \in {53, 63, 86, 48, 79} => ioControl = {"flip"}
  BY LineControl DEF HoldLines
<1>3. line \in {53, 63} => ioDataIn = regs[setup.reg]
  BY <1>1, <1>2, LineControl DEF PortHeld, AddrHeld
<1>4. line = 86 => ioDataIn = regs[ResultReg]
  BY <1>1, <1>2, InjectorAssumption DEF PortHeld, AddrHeld
<1>5. line \in {48, 79} => ioDataIn = pc
  <2>1. line \in {48, 79} => ioAddr = 32
    BY DEF PortHeld, AddrHeld
  <2>2. line \in {48, 79} => AddrIsPc
    BY <2>1, SMT DEF AddrIsPc
  <2>3. QED
    BY <1>2, <2>2 DEF ioDataIn
<1>6. line = 99 => ioDataIn = ramQ
  BY LineControl DEF ioDataIn, ReadLines
<1>7. QED
  BY <1>3, <1>4, <1>5, <1>6

-----------------------------------------------------------------------------
(* The delay: loaded into the stall flag on the edge after line 29, kept   *)
(* while its bit is up, and met by the counter before line 44.             *)
LEMMA DelayArmedStep ==
  ASSUME PortHeld, DelayArmed, InjNext
  PROVE  DelayArmed'
<1> USE DEF PutControl, PutAddr, PutLow, PutHigh, Fetch, StoreControl, StoreAddr,
            StoreLow, StoreHigh, ioVars
<1>1. PortEdge /\ setup' = setup /\ PortTypeOK /\ StallFlagEdge
  BY LineControl DEF InjNext, PortEdge
<1>2. line' \in {31, 32, 33, 37, 40, 44} => stallFlag' = setup.delay
  <2>1. ASSUME line' \in {31, 32, 33, 37, 40, 44}
        PROVE  line \in {30, 31, 32, 33, 37, 40, 44}
    BY <2>1 DEF InjNext, Access, LoadDelay, Launch, AwaitStall, ReadBefore, SetMask,
       ClearMask, Resume, AwaitEnd, ReadResult, DumpMemory, Compute, Spin, Done
  <2>2. line' \in {31, 32, 33, 37, 40, 44} => "delay" \in ioControl'
    BY PortHeldStep DEF PortHeld, ControlHeld
  <2>3. CASE line = 30
    <3>1. ioControl = {"reset", "csr", "delay"} /\ ioAddr = 4096
      BY <2>3 DEF PortHeld, ControlHeld, AddrHeld
    <3>2. AddrIsFlag
      BY <3>1, SMT DEF AddrIsFlag
    <3>3. ioData = setup.delay
      BY <2>3, LineData
    <3>4. QED
      BY <1>1, <2>2, <3>1, <3>2, <3>3 DEF StallFlagEdge
  <2>4. CASE line \in {31, 32, 33, 37, 40, 44}
    <3>1. "delay" \in ioControl /\ "csr" \notin ioControl /\ stallFlag = setup.delay
      BY <2>4 DEF PortHeld, ControlHeld, DelayArmed
    <3>2. QED
      BY <1>1, <2>2, <3>1 DEF StallFlagEdge
  <2>5. QED
    BY <2>1, <2>3, <2>4
<1>3. line' \in {44, 46, 48, 52, 53, 59, 60, 61, 62, 63, 67} => cycle' = setup.delay
  <2>1. ASSUME line' \in {44, 46, 48, 52, 53, 59, 60, 61, 62, 63, 67}
        PROVE  \/ line = 40 /\ CycleStall
               \/ line \in {44, 46, 48, 52, 53, 59, 60, 61, 62, 63, 67}
    BY <2>1 DEF InjNext, Access, LoadDelay, Launch, AwaitStall, ReadBefore, SetMask,
       ClearMask, Resume, AwaitEnd, ReadResult, DumpMemory, Compute, Spin, Done
  <2>2. CASE line \in {40, 44} /\ (line = 40 => CycleStall)
    <3>1. ioControl = {"delay"} /\ stallFlag = setup.delay /\ line \notin BootLines
      BY <2>2 DEF PortHeld, ControlHeld, DelayArmed, BootLines
    <3>2. CycleStall /\ cycle = setup.delay
      BY <2>2, <3>1 DEF CycleStall, DelayArmed
    <3>3. cycle' = cycle
      BY <1>1, <3>1, <3>2, ResetWhileBooting, StalledEdge DEF Stall
    <3>4. QED
      BY <3>2, <3>3
  <2>3. CASE line \in {60, 62}
    <3>1. cycle' = cycle
      BY <2>3, MaskStep
    <3>2. QED
      BY <2>3, <3>1 DEF DelayArmed
  <2>4. CASE line \in {46, 48, 52, 53, 59, 61, 63, 67}
    <3>1. cycle' = cycle
      BY <2>4, HoldStill DEF HoldLines
    <3>2. QED
      BY <2>4, <3>1 DEF DelayArmed
  <2>5. QED
    BY <2>1, <2>2, <2>3, <2>4
<1>4. QED
  BY <1>1, <1>2, <1>3 DEF DelayArmed

-----------------------------------------------------------------------------
(* The result: read from a core that is held, of a program that has ended  *)
(* or run out of time.                                                     *)
LEMMA ResultHeldStep ==
  ASSUME PortHeld, ResultHeld, InjNext
  PROVE  ResultHeld'
<1> USE DEF PutControl, PutAddr, PutLow, PutHigh, Fetch
<1>1. PortEdge /\ setup' = setup /\ PortTypeOK /\ InjTypeOK
  BY LineControl DEF InjNext
<1>2. line' \in {76} \cup EndLines => breakFlag' \/ watchdog' > setup.max
  <2>1. ASSUME line' \in {76} \cup EndLines
        PROVE  /\ line \in {70, 76} \cup EndLines
               /\ watchdog' = watchdog
               /\ breakFlag \/ watchdog > setup.max
    BY <2>1 DEF InjNext, Access, LoadDelay, Launch, AwaitStall, ReadBefore, SetMask,
       ClearMask, Resume, AwaitEnd, ReadResult, DumpMemory, Compute, Spin, Done,
       EndLines, ResultHeld, Quiet
  <2>2. line \in {70, 76} /\ breakFlag => breakFlag'
    <3>1. line \in {70, 76} => ioControl = {} /\ line \notin BootLines
      BY DEF PortHeld, ControlHeld, BootLines
    <3>2. BreakFlagEdge(Resetting, Control(Instr.op, Stall))
      BY <1>1, Zenon DEF PortEdge, Resetting
    <3>3. QED
      BY <3>1, <3>2, ResetWhileBooting DEF BreakFlagEdge
  <2>3. line \in EndLines => breakFlag' = breakFlag
    <3>1. line \in EndLines => (line \in HoldLines /\ line \notin {60, 62}) \/ line \in ReadLines
      BY DEF EndLines, HoldLines, ReadLines, Done
    <3>2. QED
      BY <3>1, HoldStill, DumpStep
  <2>4. QED
    BY <2>1, <2>2, <2>3
<1>3. line \in {79, 82, 86, 95} \cup ReadLines => pc' = pc /\ regs' = regs
  <2>1. line \in {79, 82, 86, 95} => line \in HoldLines /\ line \notin {60, 62}
    BY DEF HoldLines
  <2>2. QED
    BY <2>1, HoldStill, DumpStep
<1>4. line' \in {82, 86, 95} \cup ReadLines => report'.pcEnd = pc'
  <2>1. ASSUME line' \in {82, 86, 95} \cup ReadLines
        PROVE  \/ line = 79 /\ report' = [report EXCEPT !.pcEnd = ioDataIn]
               \/ /\ line \in {82, 86, 95} \cup ReadLines
                  /\ \/ report' = report
                     \/ report' = [report EXCEPT !.dnf = TRUE]
                     \/ report' = [report EXCEPT !.result = ioDataIn]
    BY <2>1 DEF InjNext, Access, LoadDelay, Launch, AwaitStall, ReadBefore, SetMask,
       ClearMask, Resume, AwaitEnd, ReadResult, DumpMemory, Compute, Spin, Done,
       ReadLines, Quiet
  <2>2. report \in Reports
    BY <1>1 DEF InjTypeOK
  <2>3. CASE line = 79 /\ report' = [report EXCEPT !.pcEnd = ioDataIn]
    <3>1. report'.pcEnd = ioDataIn
      BY <2>2, <2>3 DEF Reports
    <3>2. QED
      BY <1>3, <2>3, <3>1, ReadAtLine
  <2>4. CASE /\ line \in {82, 86, 95} \cup ReadLines
             /\ \/ report' = report
                \/ report' = [report EXCEPT !.dnf = TRUE]
                \/ report' = [report EXCEPT !.result = ioDataIn]
    <3>1. report'.pcEnd = report.pcEnd
      BY <2>2, <2>4 DEF Reports
    <3>2. QED
      BY <1>3, <2>4, <3>1 DEF ResultHeld
  <2>5. QED
    BY <2>1, <2>3, <2>4
<1>5. line' \in {95} \cup ReadLines /\ ~report'.dnf => report'.result = regs'[ResultReg]
  <2>1. ASSUME line' \in {95} \cup ReadLines
        PROVE  \/ line = 86 /\ report' = [report EXCEPT !.result = ioDataIn]
               \/ line = 82 /\ report' = [report EXCEPT !.dnf = TRUE]
               \/ line \in {95} \cup ReadLines /\ report' = report
    BY <2>1 DEF InjNext, Access, LoadDelay, Launch, AwaitStall, ReadBefore, SetMask,
       ClearMask, Resume, AwaitEnd, ReadResult, DumpMemory, Compute, Spin, Done,
       ReadLines, Quiet
  <2>2. report \in Reports
    BY <1>1 DEF InjTypeOK
  <2>3. CASE line = 86 /\ report' = [report EXCEPT !.result = ioDataIn]
    <3>1. report'.result = ioDataIn
      BY <2>2, <2>3 DEF Reports
    <3>2. QED
      BY <1>3, <2>3, <3>1, ReadAtLine
  <2>4. CASE line = 82 /\ report' = [report EXCEPT !.dnf = TRUE]
    BY <2>2, <2>4 DEF Reports
  <2>5. CASE line \in {95} \cup ReadLines /\ report' = report
    BY <1>3, <2>5 DEF ResultHeld
  <2>6. QED
    BY <2>1, <2>3, <2>4, <2>5
<1>6. QED
  BY <1>1, <1>2, <1>4, <1>5 DEF ResultHeld

-----------------------------------------------------------------------------
(* The dump: the RAM does not change any more, and its output is the word  *)
(* addressed on the edge before.                                           *)
LEMMA DumpHeldStep ==
  ASSUME PortHeld, DumpHeld, InjNext
  PROVE  DumpHeld'
<1> USE DEF PutControl, PutAddr, PutLow, PutHigh, Fetch
<1>1. line = 99 => ioDataIn = ram[word]
  BY ReadAtLine DEF DumpHeld
<1>2. CASE line \in ReadLines
  <2>1. ram' = ram
    BY <1>2, DumpStep
  <2>2. \/ word' = word /\ dump' = dump
        \/ line = 99 /\ word' = word + 1 /\ dump' = [dump EXCEPT ![word] = ioDataIn]
    BY DEF InjNext, Access, LoadDelay, Launch, AwaitStall, ReadBefore, SetMask,
       ClearMask, Resume, AwaitEnd, ReadResult, DumpMemory, Compute, Spin, Quiet
  <2>3. dump \in [RamAddr -> Word] /\ word \in Nat
    BY CoreAssumption, SMT DEF PortHeld, InjTypeOK
  <2>4. DumpIsFresh'
    <3>1. CASE word' = word /\ dump' = dump
      BY <2>1, <3>1 DEF DumpHeld, DumpIsFresh
    <3>2. CASE line = 99 /\ word' = word + 1 /\ dump' = [dump EXCEPT ![word] = ioDataIn]
      <4>1. SUFFICES ASSUME NEW a \in RamAddr, a < word + 1
                     PROVE  dump'[a] = ram[a]
        BY <2>1, <3>2 DEF DumpIsFresh
      <4>2. a = word \/ a < word
        BY <2>3, <4>1, SMT DEF RamAddr
      <4>3. QED
        BY <1>1, <2>3, <3>2, <4>2 DEF DumpHeld, DumpIsFresh
    <3>3. QED
      BY <2>2, <3>1, <3>2
  <2>5. line' = 99 => ramQ' = ram'[word']
    <3>1. line' = 99 => line \in {98, 99} /\ word' = word
      BY DEF InjNext, Access, LoadDelay, Launch, AwaitStall, ReadBefore, SetMask,
         ClearMask, Resume, AwaitEnd, ReadResult, DumpMemory, Compute, Spin, Done
    <3>2. QED
      BY <1>2, <2>1, <3>1, DumpStep
  <2>6. QED
    BY <2>4, <2>5 DEF DumpHeld
<1>3. CASE line \notin ReadLines
  <2>1. word' = 0 /\ line' # 99
    BY <1>3 DEF InjNext, Access, LoadDelay, Launch, AwaitStall, ReadBefore, SetMask,
       ClearMask, Resume, AwaitEnd, ReadResult, DumpMemory, Compute, Spin, Quiet,
       ReadLines, Done, PortHeld, WordHeld
  <2>2. \A a \in RamAddr : ~(a < 0)
    BY SMT DEF RamAddr
  <2>3. QED
    BY <2>1, <2>2 DEF DumpHeld, DumpIsFresh
<1>4. QED
  BY <1>2, <1>3

(* Nothing of this changes when nothing does.                              *)
LEMMA HeldStutter ==
  ASSUME UNCHANGED injVars
  PROVE  /\ DelayArmed => DelayArmed'
         /\ ResultHeld => ResultHeld'
         /\ DumpHeld => DumpHeld'
         /\ TargetHeld => TargetHeld'
<1> USE DEF injVars, portVars, ioVars, coreVars
<1>1. DelayArmed => DelayArmed'
  BY DEF DelayArmed
<1>2. ResultHeld => ResultHeld'
  BY DEF ResultHeld
<1>3. DumpHeld => DumpHeld'
  BY DEF DumpHeld, DumpIsFresh
<1>4. TargetHeld => TargetHeld'
  BY DEF TargetHeld, LowMasked, FullMasked, Masked
<1>5. QED
  BY <1>1, <1>2, <1>3, <1>4

(* The core is held with the counter on the delay of the setup.            *)
THEOREM DelayArmedHolds == InjSpec => []DelayArmed
<1>1. InjInit => DelayArmed
  BY DEF InjInit, DelayArmed
<1>2. PortHeld /\ DelayArmed /\ [InjNext]_injVars => DelayArmed'
  BY DelayArmedStep, HeldStutter
<1>3. QED
  BY <1>1, <1>2, PortHeldHolds, PTL DEF InjSpec

(* Every dumped word is the word the RAM holds.                            *)
THEOREM DumpIsFreshHolds == InjSpec => []DumpIsFresh
<1>1. InjInit => DumpHeld
  <2>1. \A a \in RamAddr : ~(a < 0)
    BY SMT DEF RamAddr
  <2>2. QED
    BY <2>1 DEF InjInit, DumpHeld, DumpIsFresh
<1>2. PortHeld /\ DumpHeld /\ [InjNext]_injVars => DumpHeld'
  BY DumpHeldStep, HeldStutter
<1>3. DumpHeld => DumpIsFresh
  BY DEF DumpHeld
<1>4. QED
  BY <1>1, <1>2, <1>3, PortHeldHolds, PTL DEF InjSpec

(* A reported result is that of a program that has executed its ebreak.    *)
THEOREM ResultIsFinalHolds == InjSpec => []ResultIsFinal
<1>1. InjInit => ResultHeld
  BY DEF InjInit, ResultHeld, EndLines, ReadLines, Done
<1>2. PortHeld /\ ResultHeld /\ [InjNext]_injVars => ResultHeld'
  BY ResultHeldStep, HeldStutter
<1>3. PortHeld /\ ResultHeld => ResultIsFinal
  <2> SUFFICES ASSUME PortHeld, ResultHeld PROVE ResultIsFinal
    OBVIOUS
  <2>1. watchdog \in Int /\ setup.max \in Int
    BY SetupTypes, InjectorAssumption, SMT DEF PortHeld, InjTypeOK
  <2>2. watchdog <= setup.max => ~(watchdog > setup.max)
    BY <2>1, SMT
  <2>3. QED
    BY <2>2 DEF ResultHeld, ResultIsFinal, EndLines, ReadLines, Done
<1>4. QED
  BY <1>1, <1>2, <1>3, PortHeldHolds, PTL DEF InjSpec

-----------------------------------------------------------------------------
(* The target register, when every mask is held for an odd number of edges.*)

(* Register 0 is never written, by the core or by the port.                *)
LEMMA ZeroStaysZero ==
  ASSUME PortTypeOK, PortEdge
  PROVE  regs'[0] = regs[0]
<1>1. \E we, wa, wd : RegEdge(we, wa, wd)
  BY DEF PortEdge, PortRegEdge
<1>2. PICK we, wa, wd : RegEdge(we, wa, wd)
  BY <1>1
<1>3. regs \in [RegId -> Word] /\ 0 \in RegId
  BY CoreAssumption, SMT DEF PortTypeOK, CoreTypeOK, RegId
<1>4. QED
  BY <1>2, <1>3 DEF RegEdge

(* A mask held for one edge more is on the register or off it again.       *)
LEMMA MaskToggles ==
  ASSUME NEW w \in Word, NEW mask \in Word
  PROVE  Masked(w, mask) \in Word /\ Masked(Masked(w, mask), mask) = w
  BY WordOpsAssumption, XorAssumption DEF Masked

(* Both halves of the mask, one after the other, are the mask.             *)
LEMMA HalvesMakeMask ==
  ASSUME PortHeld
  PROVE  /\ setup.low \in Word /\ setup.high * HalfSize \in Word /\ report.before \in Word
         /\ FullMasked = IF setup.reg = 0 THEN report.before ELSE Xor(report.before, Mask)
<1>1. setup.low \in Half /\ setup.high \in Half /\ report.before \in Word
  BY SetupTypes DEF PortHeld, InjTypeOK, Reports
<1>2. HalfSize \in Nat \ {0} /\ WordSize = HalfSize * HalfSize
  BY PortAssumption
<1>3. \A h \in 0 .. HalfSize - 1 : h * HalfSize \in 0 .. HalfSize * HalfSize - 1
  <2>1. TAKE h \in 0 .. HalfSize - 1
  <2>2. h * HalfSize <= (HalfSize - 1) * HalfSize /\ h * HalfSize \in Nat
    BY <1>2, SMT
  <2>3. (HalfSize - 1) * HalfSize = HalfSize * HalfSize - HalfSize
    BY <1>2, SMT
  <2>4. QED
    BY <1>2, <2>2, <2>3, SMT
<1>4. setup.high * HalfSize \in Word /\ setup.low \in Word
  BY <1>1, <1>2, <1>3, HalvesAreWords DEF Half, Word
<1>5. Xor(Xor(report.before, setup.low), setup.high * HalfSize) = Xor(report.before, Mask)
  BY <1>1, XorAssumption DEF Mask
<1>6. QED
  BY <1>1, <1>4, <1>5 DEF FullMasked, LowMasked, Masked

(* The mask of lines 60 and 62, for one edge.                              *)
LEMMA TargetMasked ==
  ASSUME PortHeld, InjNext, regs[0] = 0, NEW mask,
         \/ line = 60 /\ mask = setup.low
         \/ line = 62 /\ mask = setup.high * HalfSize
  PROVE  regs'[setup.reg] = Masked(regs[setup.reg], mask)
<1>1. RegEdge(TRUE, setup.reg, Xor(regs[setup.reg], mask))
  BY MaskStep
<1>2. regs \in [RegId -> Word] /\ setup.reg \in RegId
  BY LineControl DEF PortTypeOK, CoreTypeOK
<1>3. QED
  BY <1>1, <1>2 DEF RegEdge, Masked

(* Which accesses change the reported values.                              *)
LEMMA ReportStep ==
  ASSUME PortHeld, InjNext
  PROVE  /\ setup' = setup
         /\ line = 53 => report'.before \in {report.before, regs[setup.reg]}
         /\ line = 53 /\ line' = 59 => report'.before = regs[setup.reg]
         /\ line # 53 => report'.before = report.before
         /\ line = 63 /\ line' = 67 => report'.after = regs[setup.reg]
         /\ line # 63 => report'.after = report.after
<1> USE DEF PutControl, PutAddr, PutLow, PutHigh, Fetch
<1>1. report \in Reports
  BY DEF PortHeld, InjTypeOK
<1>2. \/ report' = report /\ ~(line = 53 /\ line' = 59) /\ ~(line = 63 /\ line' = 67)
      \/ line = 53 /\ report' = [report EXCEPT !.before = ioDataIn]
      \/ line = 63 /\ report' = [report EXCEPT !.after = ioDataIn]
      \/ line \notin {53, 63}
         /\ \/ report' = [report EXCEPT !.pcInjected = ioDataIn]
            \/ report' = [report EXCEPT !.pcEnd = ioDataIn]
            \/ report' = [report EXCEPT !.result = ioDataIn]
            \/ report' = [report EXCEPT !.dnf = TRUE]
  BY DEF InjNext, Access, LoadDelay, Launch, AwaitStall, ReadBefore, SetMask,
       ClearMask, Resume, AwaitEnd, ReadResult, DumpMemory, Compute, Spin, Quiet, Done
<1>3. line \in {53, 63} => ioDataIn = regs[setup.reg]
  BY ReadAtLine
<1>4. QED
  BY <1>1, <1>2, <1>3 DEF Reports, InjNext

(* The lines a mask is held on are entered with the count of edges at zero *)
(* and left on an edge that makes it one of HoldGaps.                      *)
LEMMA MaskLines ==
  ASSUME PortHeld, InjNext
  PROVE  /\ line' = 59 => line \in {53, 59}
         /\ line' = 60 => \/ line = 59 /\ idle' = 0
                          \/ line = 60 /\ idle' = idle + 1
         /\ line' = 61 => line = 61 \/ (line = 60 /\ idle + 1 \in HoldGaps)
         /\ line' = 62 => \/ line = 61 /\ idle' = 0
                          \/ line = 62 /\ idle' = idle + 1
         /\ line' = 63 => line = 63 \/ (line = 62 /\ idle + 1 \in HoldGaps)
         /\ line' = 67 => line \in {63, 67}
         /\ line' \in {70, 76} \cup EndLines => line \in {67, 70, 76} \cup EndLines
<1> USE DEF InjNext, Access, LoadDelay, Launch, AwaitStall, ReadBefore, SetMask,
       ClearMask, Resume, AwaitEnd, ReadResult, DumpMemory, Compute, Spin, Done,
       PutControl, PutAddr, PutLow, PutHigh, Fetch
<1>1. /\ line' = 59 => line \in {53, 59}
      /\ line' = 67 => line \in {63, 67}
      /\ line' \in {70, 76} \cup EndLines => line \in {67, 70, 76} \cup EndLines
  BY DEF EndLines
<1>2. line' \in {60, 62} => \/ line = line' - 1 /\ idle' = 0
                            \/ line = line' /\ idle' = idle + 1
  BY SMT
<1>3. line' \in {61, 63} => line = line' \/ (line = line' - 1 /\ idle + 1 \in HoldGaps)
  BY SMT DEF GapsAt
<1>4. QED
  BY <1>1, <1>2, <1>3, SMT

LEMMA TargetHeldStep ==
  ASSUME OddHolds, PortHeld, TargetHeld, InjNext
  PROVE  TargetHeld'
<1>1. /\ regs[0] = 0 /\ setup' = setup
      /\ setup.reg = 0 => report.before = 0
      /\ regs \in [RegId -> Word] /\ setup.reg \in RegId /\ idle \in Nat
  BY LineControl, ReportStep DEF TargetHeld, PortTypeOK, CoreTypeOK, InjTypeOK
<1>2. /\ report.before \in Word /\ LowMasked \in Word
      /\ Masked(LowMasked, setup.low) = report.before
      /\ Masked(FullMasked, setup.high * HalfSize) = LowMasked
  BY HalvesMakeMask, MaskToggles DEF LowMasked, FullMasked
<1>3. line # 53 => /\ report'.before = report.before
                   /\ LowMasked' = LowMasked /\ FullMasked' = FullMasked
  BY <1>1, ReportStep DEF LowMasked, FullMasked, Masked
<1>4. line \in {53, 59, 61, 63, 67} => regs' = regs
  BY HoldStill DEF HoldLines
<1>5. /\ line = 60 => regs'[setup.reg] = Masked(regs[setup.reg], setup.low)
      /\ line = 62 => regs'[setup.reg] = Masked(regs[setup.reg], setup.high * HalfSize)
  BY <1>1, TargetMasked
<1>6. \A g \in HoldGaps : g = idle + 1 => idle % 2 = 0
  BY <1>1, InjectorAssumption, SMT DEF OddHolds
<1>7. (idle % 2 = 0 <=> (idle + 1) % 2 # 0) /\ 0 % 2 = 0
  BY <1>1, SMT
<1>8. regs'[0] = 0
  BY <1>1, LineControl, ZeroStaysZero DEF InjNext
<1>9. setup'.reg = 0 => report'.before = 0
  BY <1>1, ReportStep
<1>10. line' = 59 => regs'[setup.reg] = report'.before
  BY <1>3, <1>4, MaskLines, ReportStep DEF TargetHeld
<1>11. line' = 60 => regs'[setup.reg] = IF idle' % 2 = 0 THEN report'.before ELSE LowMasked'
  <2>1. CASE line = 59 /\ idle' = 0
    BY <1>3, <1>4, <1>7, <2>1 DEF TargetHeld
  <2>2. CASE line = 60 /\ idle' = idle + 1
    <3>1. regs[setup.reg] = IF idle % 2 = 0 THEN report.before ELSE LowMasked
      BY <2>2 DEF TargetHeld
    <3>2. Masked(report.before, setup.low) = LowMasked
      BY DEF LowMasked
    <3>3. QED
      BY <1>2, <1>3, <1>5, <1>7, <2>2, <3>1, <3>2
  <2>3. QED
    BY <2>1, <2>2, MaskLines
<1>12. line' = 61 => regs'[setup.reg] = LowMasked'
  <2>1. CASE line = 61
    BY <1>3, <1>4, <2>1 DEF TargetHeld
  <2>2. CASE line = 60 /\ idle + 1 \in HoldGaps
    <3>1. regs[setup.reg] = report.before
      BY <1>6, <2>2 DEF TargetHeld
    <3>2. QED
      BY <1>3, <1>5, <2>2, <3>1 DEF LowMasked
  <2>3. QED
    BY <2>1, <2>2, MaskLines
<1>13. line' = 62 => regs'[setup.reg] = IF idle' % 2 = 0 THEN LowMasked' ELSE FullMasked'
  <2>1. CASE line = 61 /\ idle' = 0
    BY <1>3, <1>4, <1>7, <2>1 DEF TargetHeld
  <2>2. CASE line = 62 /\ idle' = idle + 1
    <3>1. regs[setup.reg] = IF idle % 2 = 0 THEN LowMasked ELSE FullMasked
      BY <2>2 DEF TargetHeld
    <3>2. Masked(LowMasked, setup.high * HalfSize) = FullMasked
      BY DEF FullMasked
    <3>3. QED
      BY <1>2, <1>3, <1>5, <1>7, <2>2, <3>1, <3>2
  <2>3. QED
    BY <2>1, <2>2, MaskLines
<1>14. line' \in {63, 67} => regs'[setup.reg] = FullMasked'
  <2>1. CASE line \in {63, 67}
    BY <1>3, <1>4, <2>1 DEF TargetHeld
  <2>2. CASE line = 62 /\ idle + 1 \in HoldGaps
    <3>1. regs[setup.reg] = LowMasked
      BY <1>6, <2>2 DEF TargetHeld
    <3>2. QED
      BY <1>3, <1>5, <2>2, <3>1 DEF FullMasked
  <2>3. QED
    BY <2>1, <2>2, MaskLines
<1>15. line' \in {67, 70, 76} \cup EndLines => report'.after = FullMasked'
  <2>1. CASE line \in {67, 70, 76} \cup EndLines
    <3>1. line # 53 /\ line # 63
      BY <2>1 DEF EndLines, Done
    <3>2. QED
      BY <1>3, <2>1, <3>1, ReportStep DEF TargetHeld
  <2>2. CASE line = 63 /\ line' = 67
    BY <1>3, <2>2, ReportStep DEF TargetHeld
  <2>3. line' \in {67, 70, 76} \cup EndLines =>
          line \in {67, 70, 76} \cup EndLines \/ (line = 63 /\ line' = 67)
    BY MaskLines
  <2>4. QED
    BY <2>1, <2>2, <2>3
<1>16. QED
  BY <1>1, <1>8, <1>9, <1>10, <1>11, <1>12, <1>13, <1>14, <1>15 DEF TargetHeld

(* The fault is injected once, neither flipped back nor flipped twice, if  *)
(* every mask is held for an odd number of edges.                          *)
THEOREM InjectedOnceHolds ==
  ASSUME OddHolds
  PROVE  InjSpec => []InjectedOnce
<1>1. InjInit => TargetHeld
  <2>1. 0 \in RegId
    BY CoreAssumption, SMT DEF RegId
  <2>2. QED
    BY <2>1 DEF InjInit, PortInit, CoreInit, TargetHeld, EndLines, Done
<1>2. PortHeld /\ TargetHeld /\ [InjNext]_injVars => TargetHeld'
  BY OddHolds, TargetHeldStep, HeldStutter
<1>3. PortHeld /\ TargetHeld => InjectedOnce
  <2> SUFFICES ASSUME PortHeld, TargetHeld PROVE InjectedOnce
    OBVIOUS
  <2>1. FullMasked = Flipped
    BY HalvesMakeMask DEF TargetHeld, Flipped
  <2>2. QED
    BY <2>1 DEF TargetHeld, InjectedOnce
<1>4. QED
  BY <1>1, <1>2, <1>3, PortHeldHolds, PTL DEF InjSpec

-----------------------------------------------------------------------------
(* The refinement. The fault model is the same core over AbsRegs: where    *)
(* AbsRegs is the register file, its operators are the core's.             *)
LEMMA SameControl ==
  \A op, stall : FM!Control(op, stall) = Control(op, stall)
<1>1. FM!Idle = Idle
  BY DEF FM!Idle, Idle
<1>2. \A op : FM!Decoded(op) = Decoded(op)
  BY <1>1 DEF FM!Decoded, Decoded, FM!Branches, Branches, FM!Loads, Loads, FM!Stores,
     Stores, FM!CsrRegs, CsrRegs, FM!CsrImms, CsrImms, FM!Faults, Faults
<1>3. QED
  BY <1>1, <1>2 DEF FM!Control, Control

LEMMA SameSum == \A a, b : FM!Sum(a, b) = Sum(a, b)
  BY DEF FM!Sum, Sum

LEMMA SameOperands ==
  ASSUME AbsRegs = regs
  PROVE  FM!Instr = Instr /\ FM!Rs1 = Rs1 /\ FM!Rs2 = Rs2 /\ FM!Address = Address
<1>1. FM!Instr = Instr
  BY DEF FM!Instr, Instr
<1>2. FM!Rs1 = Rs1 /\ FM!Rs2 = Rs2
  BY <1>1 DEF FM!Rs1, Rs1, FM!Rs2, Rs2
<1>3. QED
  BY <1>1, <1>2, SameSum DEF FM!Address, Address

LEMMA SameCsr ==
  ASSUME AbsRegs = regs
  PROVE  /\ \A addr : FM!CsrRead(addr) = CsrRead(addr)
         /\ \A ctl : FM!CsrNew(ctl) = CsrNew(ctl)
<1>1. FM!Mstatus = Mstatus
  BY DEF FM!Mstatus, Mstatus, FM!Bit, Bit
<1>2. \A addr : FM!CsrRead(addr) = CsrRead(addr)
  BY <1>1 DEF FM!CsrRead, CsrRead, FM!CsrMstatus, CsrMstatus, FM!CsrMisa, CsrMisa,
     FM!CsrMtvec, CsrMtvec, FM!CsrMepc, CsrMepc, FM!CsrMcause, CsrMcause,
     FM!CsrCycle, CsrCycle
<1>3. \A ctl : FM!CsrOperand(ctl) = CsrOperand(ctl)
  BY SameOperands DEF FM!CsrOperand, CsrOperand
<1>4. QED
  BY <1>2, <1>3, SameOperands DEF FM!CsrNew, CsrNew

LEMMA SameResult ==
  ASSUME AbsRegs = regs
  PROVE  \A ctl : FM!Result(ctl) = Result(ctl)
<1>1. \A a : FM!Offset(a) = Offset(a)
  BY DEF FM!Offset, Offset
<1>2. \A ctl : FM!Operand(ctl) = Operand(ctl)
  BY SameOperands DEF FM!Operand, Operand
<1>3. QED
  BY <1>1, <1>2, SameOperands, SameCsr, SameSum DEF FM!Result, Result

LEMMA SameNextPc ==
  ASSUME AbsRegs = regs
  PROVE  \A ctl : FM!Signal(ctl) = Signal(ctl) /\ FM!NextPc(ctl) = NextPc(ctl)
<1>1. \A a : FM!Offset(a) = Offset(a) /\ FM!Even(a) = Even(a)
  BY DEF FM!Offset, Offset, FM!Even, Even
<1>2. \A op : FM!Width(op) = Width(op)
  BY DEF FM!Width, Width
<1>3. \A ctl, b : FM!ExceptSignal(ctl, b) = ExceptSignal(ctl, b)
  BY DEF FM!ExceptSignal, ExceptSignal
<1>4. \A ctl : FM!Signal(ctl) = Signal(ctl)
  BY <1>1, <1>2, <1>3, SameOperands DEF FM!Signal, Signal
<1>5. \A sig : FM!TrapTrigger(sig) <=> TrapTrigger(sig)
  BY DEF FM!TrapTrigger, TrapTrigger
<1>6. \A branch, zero, negative, carry :
        FM!Taken(branch, zero, negative, carry) <=> Taken(branch, zero, negative, carry)
  BY DEF FM!Taken, Taken
<1>7. \A ctl : FM!BranchTaken(ctl) <=> BranchTaken(ctl)
  BY <1>6, SameOperands DEF FM!BranchTaken, BranchTaken
<1>8. \A ctl : FM!Target(ctl) = Target(ctl)
  BY <1>1, SameOperands, SameSum DEF FM!Target, Target
<1>9. \A ctl : FM!NextPc(ctl) = NextPc(ctl)
  BY <1>4, <1>5, <1>7, <1>8, SameSum DEF FM!NextPc, NextPc
<1>10. QED
  BY <1>4, <1>9

(* One edge of the core is one edge of the fault model's.                  *)
LEMMA SameEdge ==
  ASSUME AbsRegs = regs, AbsRegs' = regs', NEW rst, NEW stall, CoreEdge(rst, stall)
  PROVE  FM!CoreEdge(rst, stall)
<1> DEFINE ctl == Control(Instr.op, stall)
<1>1. /\ FM!Control(FM!Instr.op, stall) = ctl
      /\ FM!Instr = Instr
  BY SameControl, SameOperands
<1>2. ControlEdge(rst, stall) /\ RegEdge(ctl.regWrite, Instr.rd, Result(ctl))
      /\ RamEdge(ctl.memRead, ctl.memWrite, Instr.op, Address, Rs2) /\ rom' = rom
  BY DEF CoreEdge
<1>3. FM!ControlEdge(rst, stall)
  <2>1. CASE rst
    BY <1>2, <2>1 DEF ControlEdge, ResetEdge, TrapReset, FM!ControlEdge,
       FM!ResetEdge, FM!TrapReset
  <2>2. CASE ~rst
    <3>1. RunEdge(stall, ctl)
      BY <1>2, <2>2 DEF ControlEdge
    <3> HIDE DEF ctl
    <3>2. FM!Signal(ctl) = Signal(ctl) /\ FM!NextPc(ctl) = NextPc(ctl)
          /\ FM!CsrNew(ctl) = CsrNew(ctl) /\ FM!Sum(cycle, 1) = Sum(cycle, 1)
          /\ FM!CsrMstatus = CsrMstatus /\ FM!CsrMtvec = CsrMtvec
      BY SameNextPc, SameCsr, SameSum
         DEF FM!CsrMstatus, CsrMstatus, FM!CsrMtvec, CsrMtvec
    <3>3. \A sig : FM!TrapTrigger(sig) <=> TrapTrigger(sig)
      BY DEF FM!TrapTrigger, TrapTrigger
    <3>4. \A trap, return, write, in :
            StatusEdge(trap, return, write, in) <=> FM!StatusEdge(trap, return, write, in)
      BY DEF StatusEdge, EnterTrap, LeaveTrap, WriteStatus, KeepStatus, IsSet,
         FM!StatusEdge, FM!EnterTrap, FM!LeaveTrap, FM!WriteStatus, FM!KeepStatus,
         FM!IsSet
    <3>5. \A sig, p : CauseEdge(sig, p) <=> FM!CauseEdge(sig, p)
      BY DEF CauseEdge, FM!CauseEdge, ExceptCode, FM!ExceptCode
    <3>6. \A write, in : TvecEdge(write, in) <=> FM!TvecEdge(write, in)
      BY DEF TvecEdge, FM!TvecEdge
    <3>7. FM!StatusEdge(FM!TrapTrigger(FM!Signal(ctl)), ctl.trapReturn,
            ctl.csrWrite /\ FM!Instr.csr = FM!CsrMstatus, FM!CsrNew(ctl))
      <4>1. StatusEdge(TrapTrigger(Signal(ctl)), ctl.trapReturn,
              ctl.csrWrite /\ Instr.csr = CsrMstatus, CsrNew(ctl))
        BY <3>1 DEF RunEdge
      <4>2. FM!TrapTrigger(FM!Signal(ctl)) = TrapTrigger(Signal(ctl))
        BY <3>2 DEF FM!TrapTrigger, TrapTrigger
      <4>3. QED
        BY <1>1, <3>2, <3>4, <4>1, <4>2
    <3>8. FM!RunEdge(stall, ctl)
      BY <1>1, <3>1, <3>2, <3>5, <3>6, <3>7 DEF RunEdge, FM!RunEdge
    <3>9. QED
      BY <1>1, <2>2, <3>8 DEF FM!ControlEdge
  <2>3. QED
    BY <2>1, <2>2
<1> HIDE DEF ctl
<1>4. FM!RegEdge(ctl.regWrite, FM!Instr.rd, FM!Result(ctl))
  BY <1>1, <1>2, SameResult DEF RegEdge, FM!RegEdge
<1>5. FM!RamEdge(ctl.memRead, ctl.memWrite, FM!Instr.op, FM!Address, FM!Rs2)
  BY <1>1, <1>2, SameOperands
     DEF RamEdge, FM!RamEdge, RamWord, FM!RamWord, Offset, FM!Offset
<1>6. QED
  BY <1>1, <1>2, <1>3, <1>4, <1>5 DEF FM!CoreEdge

(* A core stalled by the count alone stands still.                         *)
LEMMA CountStillEdge ==
  ASSUME PortTypeOK, PortEdge, ~Resetting, Stall, ioControl = {"delay"}
  PROVE  UNCHANGED <<rom, pc, regs, ram, ramQ, cycle, trapVars>>
<1>1. UNCHANGED <<pc, cycle, trapVars>>
  BY StalledEdge
<1>2. Control(Instr.op, Stall) = Idle
  BY DEF Control
<1>3. Idle.memRead = FALSE /\ Idle.memWrite = FALSE /\ Idle.regWrite = FALSE
  BY DEF Idle
<1>4. PortRegEdge(Idle) /\ PortRamEdge(Idle) /\ rom' = rom
  BY <1>2, Zenon DEF PortEdge, Resetting
<1>5. QED
  BY <1>1, <1>3, <1>4 DEF PortRegEdge, RegEdge, PortRamEdge, RamEdge

(* An edge of the core alone, by whether it is reset and stalled.          *)
LEMMA PlainEdges ==
  ASSUME PortTypeOK, PortEdge, ioControl \cap {"flip", "memWrite", "memRead"} = {}
  PROVE  /\ Resetting => \E stall \in BOOLEAN : CoreEdge(TRUE, stall)
         /\ ~Resetting /\ ~Stall => CoreEdge(FALSE, FALSE)
<1>1. CoreEdge(Resetting, Stall)
  BY PlainEdge
<1>2. Resetting \in BOOLEAN /\ Stall \in BOOLEAN
  BY SMT DEF Resetting, Stall, CycleStall
<1>3. Resetting => Resetting = TRUE
  BY <1>2
<1>4. ~Resetting /\ ~Stall => Resetting = FALSE /\ Stall = FALSE
  BY <1>2
<1>5. QED
  BY <1>1, <1>2, <1>3, <1>4, Zenon

(* The register file of the fault model, and its stage, by the line.       *)
LEMMA AbsRegsAt ==
  ASSUME PortHeld, TargetHeld
  PROVE  /\ line \notin WindowLines => AbsRegs = regs
         /\ line = 59 => [regs EXCEPT ![setup.reg] = report.before] = regs
         /\ line \in WindowLines => AbsRegs = [regs EXCEPT ![setup.reg] = report.before]
  BY LineControl DEF AbsRegs, TargetHeld, PortTypeOK, CoreTypeOK

AbsUnchanged ==
  UNCHANGED <<rom, pc, AbsRegs, ram, ramQ, cycle, trapVars, AbsStage, setup>>

LEMMA AbsStutters == AbsUnchanged => UNCHANGED FM!faultVars
  BY DEF AbsUnchanged, FM!faultVars, FM!coreVars, FM!trapVars, trapVars, Mask

(* Where each line can lead.                                               *)
LEMMA LineSteps ==
  ASSUME PortHeld, InjNext
  PROVE  /\ line \in BootLines => \/ line' \in BootLines
                                  \/ line = 37 /\ line' = 40
         /\ line = 40 => line' \in {40, 44}
         /\ line = 44 => line' \in {44, 46}
         /\ line \in {46, 48, 52, 53} => line' \in {46, 48, 52, 53, 59}
         /\ line = 59 => line' \in {59, 60}
         /\ line = 60 => line' \in {60, 61}
         /\ line = 61 => line' \in {61, 62}
         /\ line = 62 => line' \in {62, 63}
         /\ line \in {63, 67} => line' \in {63, 67, 70}
         /\ line = 70 => line' \in {70, 76}
         /\ line = 76 => line' \in {76, 78}
         /\ line \in {78, 79, 82, 86, 95} => line' \in {78, 79, 82, 86, 95, 97}
         /\ line \in ReadLines => line' \in ReadLines
<1> USE DEF InjNext, Access, LoadDelay, Launch, AwaitStall, ReadBefore, SetMask,
       ClearMask, Resume, AwaitEnd, ReadResult, DumpMemory, Compute, Spin, Done,
       PutControl, PutAddr, PutLow, PutHigh, Fetch
<1>1. line \in BootLines => line' \in BootLines \/ (line = 37 /\ line' = 40)
  BY DEF BootLines
<1>2. QED
  BY <1>1 DEF ReadLines

(* Before the run: the core under reset.                                   *)
LEMMA BootStep ==
  ASSUME PortHeld, TargetHeld, PortHeld', TargetHeld', InjNext, line \in BootLines
  PROVE  FM!FaultNext
<1>1. line' \in BootLines \/ (line = 37 /\ line' = 40)
  BY LineSteps
<1>2. AbsRegs = regs /\ AbsRegs' = regs'
  <2>1. line \notin WindowLines /\ line' \notin WindowLines
    BY <1>1 DEF BootLines, WindowLines
  <2>2. QED
    BY <2>1, AbsRegsAt DEF AbsRegs
<1>3. PICK stall \in BOOLEAN : CoreEdge(TRUE, stall)
  <2>1. ioControl \cap {"flip", "memWrite", "memRead"} = {}
    BY DEF PortHeld, ControlHeld, BootLines
  <2>2. PortEdge /\ PortTypeOK
    BY LineControl DEF InjNext
  <2>3. QED
    BY <2>1, <2>2, PlainEdges, ResetWhileBooting
<1>4. FM!CoreEdge(TRUE, stall)
  BY <1>2, <1>3, SameEdge
<1>5. setup' = setup /\ Mask' = Mask
  BY DEF InjNext, Mask
<1>6. CASE line' \in BootLines
  <2>1. AbsStage = "boot" /\ AbsStage' = "boot"
    BY <1>6 DEF AbsStage
  <2>2. FM!Boot
    BY <1>4, <2>1 DEF FM!Boot
  <2>3. QED
    BY <1>5, <2>2 DEF FM!FaultNext
<1>7. CASE line = 37 /\ line' = 40
  <2>1. AbsStage = "boot" /\ AbsStage' = "run"
    BY <1>7 DEF AbsStage, BootLines, RunLines
  <2>2. FM!Start
    BY <1>4, <2>1 DEF FM!Start
  <2>3. QED
    BY <1>5, <2>2 DEF FM!FaultNext
<1>8. QED
  BY <1>1, <1>6, <1>7

(* The lines on which the core executes.                                   *)
LEMMA RunStep ==
  ASSUME PortHeld, DelayArmed, TargetHeld, PortHeld', TargetHeld', InjNext,
         line \in {40, 44, 70, 76}
  PROVE  FM!FaultNext \/ AbsUnchanged
<1>1. /\ line \in {40, 44} => line' \in {40, 44, 46}
      /\ line = 70 => line' \in {70, 76}
      /\ line = 76 => line' \in {76, 78}
  BY LineSteps
<1>2. AbsRegs = regs /\ AbsRegs' = regs'
  <2>1. line \notin WindowLines /\ line' \notin WindowLines
    BY <1>1 DEF WindowLines
  <2>2. QED
    BY <2>1, AbsRegsAt DEF AbsRegs
<1>3. PortEdge /\ PortTypeOK /\ setup' = setup /\ Mask' = Mask /\ ~Resetting
  BY LineControl, ResetWhileBooting DEF InjNext, Mask, BootLines
<1>4. /\ line \in {40, 44} => ioControl = {"delay"} /\ stallFlag = setup.delay
      /\ line \in {70, 76} => ioControl = {}
  BY DEF PortHeld, ControlHeld, DelayArmed
<1>5. /\ line \in {40, 44} => AbsStage = "run" /\ AbsStage' = "run"
      /\ line = 70 => AbsStage = "injected" /\ AbsStage' = "injected"
      /\ line = 76 /\ line' = 76 => AbsStage = "injected" /\ AbsStage' = "injected"
      /\ line = 76 /\ line' = 78 => AbsStage = "injected" /\ AbsStage' = "halted"
  BY <1>1 DEF AbsStage, BootLines, RunLines, WindowLines, AfterLines
<1>6. CASE ~Stall
  <2>1. FM!CoreEdge(FALSE, FALSE)
    <3>1. ioControl \cap {"flip", "memWrite", "memRead"} = {}
      BY <1>4
    <3>2. CoreEdge(FALSE, FALSE)
      BY <1>3, <1>6, <3>1, PlainEdges
    <3>3. QED
      BY <1>2, <3>2, SameEdge
  <2>2. line \in {40, 44} => cycle # setup.delay
    BY <1>4, <1>6 DEF Stall, CycleStall
  <2>3. CASE line = 76 /\ line' = 78
    <3>1. FM!Halt
      BY <1>5, <2>1, <2>3 DEF FM!Halt
    <3>2. QED
      BY <1>3, <3>1 DEF FM!FaultNext
  <2>4. CASE ~(line = 76 /\ line' = 78)
    <3>1. FM!Execute
      BY <1>1, <1>5, <2>1, <2>2, <2>4 DEF FM!Execute
    <3>2. QED
      BY <1>3, <3>1 DEF FM!FaultNext
  <2>5. QED
    BY <2>3, <2>4
<1>7. CASE Stall
  <2>1. line \in {40, 44}
    BY <1>4, <1>7 DEF Stall, CycleStall
  <2>2. UNCHANGED <<rom, pc, regs, ram, ramQ, cycle, trapVars>>
    BY <1>3, <1>4, <1>7, <2>1, CountStillEdge
  <2>3. QED
    BY <1>2, <1>3, <1>5, <2>1, <2>2 DEF AbsUnchanged
<1>8. QED
  BY <1>6, <1>7

(* The lines on which the core is held, before, between and after the two  *)
(* halves of the mask, are stutters of the fault model.                    *)
LEMMA HoldStep ==
  ASSUME PortHeld, TargetHeld, PortHeld', TargetHeld', InjNext,
         line \in HoldLines, line \notin {60, 62}
  PROVE  AbsUnchanged
<1>1. UNCHANGED <<rom, pc, regs, ram, ramQ, cycle, trapVars>> /\ setup' = setup
  BY HoldStill DEF InjNext
<1>2. /\ line \in {46, 48, 52, 53} => line' \in {46, 48, 52, 53, 59}
      /\ line = 59 => line' \in {59, 60}
      /\ line = 61 => line' \in {61, 62}
      /\ line \in {63, 67} => line' \in {63, 67, 70}
      /\ line \in {78, 79, 82, 86, 95} => line' \in {78, 79, 82, 86, 95, 97}
  BY LineSteps
<1>3. AbsStage' = AbsStage
  BY <1>2 DEF AbsStage, BootLines, RunLines, WindowLines, AfterLines, HoldLines
<1>4. AbsRegs' = AbsRegs
  <2>1. CASE line \in {59, 61}
    <3>1. report'.before = report.before
      BY <2>1, ReportStep
    <3>2. line = 61 => AbsRegs' = AbsRegs
      BY <1>1, <1>2, <3>1 DEF AbsRegs, WindowLines
    <3>3. line = 59 => AbsRegs' = AbsRegs
      BY <1>1, <1>2, <3>1, AbsRegsAt DEF AbsRegs, WindowLines
    <3>4. QED
      BY <2>1, <3>2, <3>3
  <2>2. CASE line \notin {59, 61}
    <3>1. line \notin WindowLines /\ line' \notin WindowLines
      BY <1>2, <2>2 DEF WindowLines, HoldLines
    <3>2. QED
      BY <1>1, <3>1 DEF AbsRegs
  <2>3. QED
    BY <2>1, <2>2
<1>5. QED
  BY <1>1, <1>3, <1>4 DEF AbsUnchanged

(* The edges on which a mask is held: the last of them is the flip.        *)
LEMMA MaskEdges ==
  ASSUME OddHolds, PortHeld, DelayArmed, TargetHeld, PortHeld', TargetHeld', InjNext,
         line \in {60, 62}
  PROVE  FM!FaultNext \/ AbsUnchanged
<1>1. /\ line = 60 => line' \in {60, 61}
      /\ line = 62 => line' \in {62, 63}
  BY LineSteps
<1>2. PICK mask : \/ line = 60 /\ mask = setup.low
                  \/ line = 62 /\ mask = setup.high * HalfSize
  OBVIOUS
<1>3. /\ UNCHANGED <<rom, pc, ram, ramQ, cycle, trapVars>>
      /\ RegEdge(TRUE, setup.reg, Xor(regs[setup.reg], mask))
  BY <1>2, MaskStep
<1>4. report'.before = report.before /\ setup' = setup /\ Mask' = Mask
  BY ReportStep DEF Mask
<1>5. AbsRegs = [regs EXCEPT ![setup.reg] = report.before]
  BY AbsRegsAt DEF WindowLines
<1>6. regs \in [RegId -> Word] /\ setup.reg \in RegId
  BY LineControl DEF PortTypeOK, CoreTypeOK
<1>7. CASE line' \in WindowLines
  <2>1. AbsRegs' = [regs' EXCEPT ![setup.reg] = report.before]
    BY <1>4, <1>7 DEF AbsRegs
  <2>2. \A f, v, w, r :
          [[f EXCEPT ![r] = v] EXCEPT ![r] = w] = [f EXCEPT ![r] = w]
    OBVIOUS
  <2>3. AbsRegs' = AbsRegs
    BY <1>3, <1>5, <2>1, <2>2 DEF RegEdge
  <2>4. AbsStage' = AbsStage
    BY <1>7 DEF AbsStage, BootLines, RunLines, WindowLines
  <2>5. QED
    BY <1>3, <1>4, <2>3, <2>4 DEF AbsUnchanged
<1>8. CASE line = 62 /\ line' = 63
  <2>1. AbsStage = "run" /\ AbsStage' = "injected"
    BY <1>8 DEF AbsStage, BootLines, RunLines, WindowLines, AfterLines
  <2>2. cycle = setup.delay
    BY <1>8 DEF DelayArmed
  <2>3. AbsRegs' = regs'
    BY <1>8 DEF AbsRegs, WindowLines
  <2>4. FM!RegEdge(TRUE, setup.reg, Xor(AbsRegs[setup.reg], Mask))
    <3>1. AbsRegs[setup.reg] = report.before
      BY <1>5, <1>6
    <3>2. CASE setup.reg = 0
      <4>1. AbsRegs = regs
        BY <1>5, <1>6, <3>2 DEF TargetHeld
      <4>2. regs' = regs
        BY <1>3, <3>2 DEF RegEdge
      <4>3. QED
        BY <2>3, <3>2, <4>1, <4>2 DEF FM!RegEdge
    <3>3. CASE setup.reg # 0
      <4>1. Xor(regs[setup.reg], mask) = Xor(report.before, Mask)
        <5>1. regs'[setup.reg] = Xor(regs[setup.reg], mask)
          BY <1>3, <1>6, <3>3 DEF RegEdge
        <5>2. regs'[setup.reg] = FullMasked'
          BY <1>4, <1>8 DEF TargetHeld
        <5>3. FullMasked' = FullMasked
          BY <1>4 DEF FullMasked, LowMasked, Masked
        <5>4. QED
          BY <3>3, <5>1, <5>2, <5>3, HalvesMakeMask
      <4>2. regs' = [regs EXCEPT ![setup.reg] = Xor(report.before, Mask)]
        BY <1>3, <3>3, <4>1 DEF RegEdge
      <4>3. QED
        BY <1>5, <1>6, <2>3, <3>1, <3>3, <4>2 DEF FM!RegEdge
    <3>4. QED
      BY <3>2, <3>3
  <2>5. FM!Flip
    BY <1>3, <2>1, <2>2, <2>4 DEF FM!Flip, FM!trapVars, trapVars
  <2>6. QED
    BY <1>4, <2>5 DEF FM!FaultNext
<1>9. QED
  BY <1>1, <1>7, <1>8 DEF WindowLines

(* The dump only looks at the core.                                        *)
LEMMA LookStep ==
  ASSUME PortHeld, PortHeld', InjNext, line \in ReadLines
  PROVE  FM!FaultNext
<1>1. line' \in ReadLines
  BY LineSteps
<1>2. AbsStage = "halted" /\ AbsStage' = "halted" /\ AbsRegs = regs /\ AbsRegs' = regs'
  BY <1>1 DEF AbsStage, AbsRegs, BootLines, RunLines, WindowLines, AfterLines,
     ReadLines, Done
<1>3. UNCHANGED <<rom, pc, regs, ram, cycle, trapVars>> /\ setup' = setup /\ Mask' = Mask
  BY DumpStep DEF InjNext, Mask
<1>4. \E a \in RamAddr : ramQ' = ram[a]
  <2>1. ramQ' = ram[RamWord(ioAddr)]
    BY LineControl, ResetWhileBooting, ReaderEdge DEF InjNext
  <2>2. RamWord(ioAddr) \in RamAddr
    <3>1. ioAddr \in Nat /\ Lanes \in Nat \ {0} /\ MemWords \in Nat \ {0}
      BY LineControl, AddrRegIsReg, CoreAssumption
    <3>2. QED
      BY <3>1, SMT DEF RamWord, RamAddr
  <2>3. QED
    BY <2>1, <2>2
<1>5. FM!Inspect
  BY <1>2, <1>3, <1>4 DEF FM!Inspect, FM!RamAddr, RamAddr, FM!trapVars, trapVars
<1>6. QED
  BY <1>3, <1>5 DEF FM!FaultNext

(* A run of the injection program is a run of the fault model, if every    *)
(* mask is held for an odd number of edges.                                *)
THEOREM RefinesFaultModel ==
  ASSUME OddHolds
  PROVE  InjSpec => ImplementsFaultModel
<1>1. InjInit => FM!FaultInit
  <2> SUFFICES ASSUME InjInit PROVE FM!FaultInit
    OBVIOUS
  <2>1. line = 23 /\ AbsRegs = regs /\ AbsStage = "boot"
    BY DEF InjInit, AbsRegs, AbsStage, BootLines, WindowLines
  <2>2. FM!CoreInit
    BY <2>1 DEF InjInit, PortInit, CoreInit, TrapInit, FM!CoreInit, FM!TrapInit,
       FM!RegId, RegId
  <2>3. setup.delay \in Word /\ setup.reg \in RegId /\ Mask \in Word
    <3>1. PortHeld
      BY PortHeldInit
    <3>2. setup.delay \in Word /\ setup.reg \in RegId
      BY <3>1, SetupTypes, HalvesAreWords DEF PortHeld
    <3>3. Mask \in Word
      <4>1. setup.low \in 0 .. HalfSize - 1 /\ setup.high \in 0 .. HalfSize - 1
        BY <3>1, SetupTypes DEF PortHeld, Half
      <4>2. HalfSize \in Nat \ {0} /\ WordSize = HalfSize * HalfSize
        BY PortAssumption
      <4>3. \A h, l \in 0 .. HalfSize - 1 : h * HalfSize + l \in 0 .. HalfSize * HalfSize - 1
        BY <4>2, HalvesFit
      <4>4. QED
        BY <4>1, <4>2, <4>3 DEF Mask, Word
    <3>4. QED
      BY <3>2, <3>3
  <2>4. QED
    BY <2>1, <2>2, <2>3 DEF FM!FaultInit, FM!FaultChoices, FM!Word, Word, FM!RegId, RegId
<1>2. PortHeld /\ DelayArmed /\ TargetHeld /\ PortHeld' /\ TargetHeld'
      /\ [InjNext]_injVars => [FM!FaultNext]_(FM!faultVars)
  <2>1. ASSUME PortHeld, DelayArmed, TargetHeld, PortHeld', TargetHeld', InjNext
        PROVE  FM!FaultNext \/ AbsUnchanged
    <3>1. line \in BootLines \cup {40, 44, 70, 76} \cup HoldLines \cup ReadLines
      BY <2>1 DEF PortHeld, InjTypeOK, BootLines, RunLines, WindowLines, AfterLines,
         EndLines, HoldLines, ReadLines, Done
    <3>2. QED
      BY <2>1, <3>1, OddHolds, BootStep, RunStep, HoldStep, MaskEdges, LookStep
  <2>2. UNCHANGED injVars => AbsUnchanged
    BY DEF injVars, portVars, coreVars, AbsUnchanged, AbsRegs, AbsStage
  <2>3. QED
    BY <2>1, <2>2, AbsStutters
<1>3. InjInit => DelayArmed /\ TargetHeld
  <2>1. 0 \in RegId
    BY CoreAssumption, SMT DEF RegId
  <2>2. QED
    BY <2>1 DEF InjInit, PortInit, CoreInit, DelayArmed, TargetHeld, EndLines, Done
<1>4. PortHeld /\ DelayArmed /\ TargetHeld /\ [InjNext]_injVars
        => DelayArmed' /\ TargetHeld'
  BY OddHolds, DelayArmedStep, TargetHeldStep, HeldStutter
<1>5. QED
  BY <1>1, <1>2, <1>3, <1>4, PortHeldHolds, PTL
     DEF InjSpec, ImplementsFaultModel, FM!FaultSpec
=============================================================================
