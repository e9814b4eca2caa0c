---------------------------- MODULE TrapHistory ----------------------------
(***************************************************************************)
(* The core of Core.tla run under any reset and any stall line, with a     *)
(* record of the trap that is being handled. The record is a history       *)
(* variable: no step of the core reads it.                                 *)
(*                                                                         *)
(* frame.open holds from the edge that enters the handler until the mret   *)
(* that leaves it, a reset, or a CSR write of mstatus: software that       *)
(* rewrites mstatus inside a handler has taken over the saved fields, and  *)
(* with MIE set again a second trap overwrites mepc, as it should.         *)
(***************************************************************************)
EXTENDS Core

VARIABLE frame

histVars == <<coreVars, frame>>

NoFrame == [ open |-> FALSE, pc |-> 0, mode |-> 0, cause |-> 0 ]

Frames == [ open : BOOLEAN, pc : Word, mode : Modes, cause : Causes ]

(* The core's registers stay within their widths, so that a return address *)
(* is a word and a recorded cause one the priority encoder can produce.    *)
HistTypeOK == CoreTypeOK /\ frame \in Frames

(* What the instruction at pc does to the trap state on a stalled, running *)
(* or reset edge.                                                          *)
Entering(rst, stall) ==
  ~rst /\ TrapTrigger(Signal(Control(Instr.op, stall)))
Returning(rst, stall) ==
  ~rst /\ ~stall /\ Instr.op = "mret"
RewritingStatus(rst, stall) ==
  ~rst /\ ~stall /\ Instr.op \in CsrRegs \cup CsrImms /\ Instr.csr = CsrMstatus

FrameEdge(rst, stall) ==
  frame' =
    IF Entering(rst, stall)
    THEN [ open  |-> TRUE, pc |-> pc, mode |-> mode,
           cause |-> ExceptCode(Signal(Control(Instr.op, stall))) ]
    ELSE IF rst \/ Returning(rst, stall) \/ RewritingStatus(rst, stall)
    THEN NoFrame
    ELSE frame

HistInit == CoreInit /\ frame = NoFrame

HistEdge(rst, stall) == CoreEdge(rst, stall) /\ FrameEdge(rst, stall)
HistNext == \E rst, stall \in BOOLEAN : HistEdge(rst, stall)
HistSpec == HistInit /\ [][HistNext]_histVars

-----------------------------------------------------------------------------
(* While a handler runs, whatever it executes (further ecalls, ebreaks and *)
(* illegal instructions, misaligned accesses, CSR writes of mtvec and mepc,*)
(* stalls by the coprocessor), the saved return address, cause, mode and   *)
(* interrupt enable stay those of the trap that entered it: the enable     *)
(* lines of core_status.sv and except_controller.sv never fire together    *)
(* with MIE clear.                                                         *)
FrameKept ==
  frame.open => /\ mepc = frame.pc
                /\ mcause = frame.cause
                /\ mpp = frame.mode
                /\ mpie /\ ~mie
                /\ mode = 3

(* An mret that closes a handler goes back to the very instruction that    *)
(* trapped, in the mode it trapped in, with exceptions enabled again: what *)
(* fetch.sv, core_status.sv and except_controller.sv each do on their own  *)
(* edge fits together across the whole handler.                            *)
ReturnsToTrap ==
  [][ \A rst, stall \in BOOLEAN :
        HistEdge(rst, stall) /\ frame.open /\ Returning(rst, stall)
          => pc' = frame.pc /\ mode' = frame.mode /\ mie' ]_histVars

(* A cause is recorded only while exceptions can be taken, and mcause and  *)
(* mepc name one trap: they change on the same edge or not at all, and     *)
(* that edge is the one that enters the handler at mtvec.                  *)
CauseWithTrap ==
  [][ \/ UNCHANGED <<mcause, mepc>>
      \/ pc' = 4 * (mtvec \div 4) /\ mepc' = pc /\ mie /\ ~mie' /\ mpp' = mode
      \/ pc' = 0 /\ cycle' = 0 /\ mcause' = 0 /\ mepc' = 0 ]_histVars

(* What the comments of the priority encoder say of an environment call    *)
(* (exceptDecode.sv: "U ecall", "S ecall", "M ecall"): the cause names the *)
(* mode the call was made in.                                              *)
EcallNamesMode ==
  frame.open /\ frame.cause \in {8, 9, 11} => mcause = 8 + frame.mode
=============================================================================
