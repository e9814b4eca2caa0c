------------------------------- MODULE Startup -------------------------------
(***************************************************************************)
(* The start-up program and trap handler (software/c_progs/entry.s) around *)
(* a main of any few instructions, on the core from its reset on.  Every   *)
(* program is to end with one ebreak, by which the coprocessor knows that  *)
(* register a0 holds the result; a main that raises an exception ends in   *)
(* the handler, which leaves its cause and place in the RAM and -1 in a0.  *)
(*                                                                         *)
(* "la" and "li" are one instruction here; the stack, gp and the dump of   *)
(* the argument registers are left out.                                    *)
(***************************************************************************)
EXTENDS Core, Sequences

CONSTANT Mains           \* what main consists of, but for its return

Ra == 1
A0 == 2
T0 == 3
T1 == 4
T2 == 5
T5 == 6
T6 == 7

ASSUME StartupAssumption == T6 \in RegId

Asm(op, rd, rs1, rs2, imm, csr) ==
  [ op |-> op, rd |-> rd, rs1 |-> rs1, rs2 |-> rs2, imm |-> imm, csr |-> csr ]
Li(rd, n)        == Asm("addi", rd, 0, 0, n, 0)
SdZero(rs, n)    == Asm("sd", 0, 0, rs, n * Lanes, 0)
Jump(from, to)   == Asm("jal", 0, 0, 0, ((to - from) * 2) % WordSize, 0)
Csrr(rd, csr)    == Asm("csrrs", rd, 0, 0, 0, csr)
Ebreak           == Asm("ebreak", 0, 0, 0, 0, 0)
Ret              == Asm("jalr", 0, Ra, 0, 0, 0)

(* The places of the labels, in instructions.                              *)
NeverRetDone == 8
NeverRetErr == 9
NeverRetExcept0 == 10
Main == 20

Start ==
  << SdZero(0, 0),
     Asm("csrrsi", 0, 0, 0, MieUnit, CsrMstatus),
     Li(T5, 4 * NeverRetExcept0),
     Asm("csrrw", 0, T5, 0, 0, CsrMtvec),
     Asm("jal", Ra, 0, 0, (Main - 4) * 2, 0),
     Li(T6, 1), SdZero(T6, 0),
     Ebreak,
     Jump(NeverRetDone, NeverRetDone), Jump(NeverRetErr, NeverRetErr) >>

Except(branch) ==
  << Li(T2, 3), Csrr(T0, CsrMcause), Csrr(T1, CsrMepc),
     Asm(branch, 0, T0, T2, 4, 0),
     Jump(14, NeverRetDone),
     SdZero(T0, 1), SdZero(T1, 2),
     Li(A0, WordSize - 1), Ebreak, Jump(19, NeverRetErr) >>

(* Variant: the handler tells a breakpoint from the rest the wrong way.    *)
Handler0Beq == Except("beq")
Handler0 == Except("bne")

Image(body) ==
  LET code == Start \o Handler0 \o body \o <<Ret>>
  IN  [k \in 0 .. RomSize - 1 |->
         IF k < Len(code) THEN code[k + 1] ELSE Asm("illegal", 0, 0, 0, 0, 0)]

VARIABLES main,          \* the body of main
          breaks,        \* how often the line of the ebreak was up, to two
          raised         \* cause and place of the first exception, and a0 then
startVars == <<coreVars, main, breaks, raised>>

StartupInit ==
  /\ main \in Mains
  /\ rom = Image(main)
  /\ CoreInit
  /\ breaks = 0 /\ raised = {}

StartupEdge(stall) ==
  LET ctl == Control(Instr.op, stall)
  IN  /\ CoreEdge(FALSE, stall)
      /\ breaks' = IF ctl.fault = "ebreak" /\ breaks < 2 THEN breaks + 1 ELSE breaks
      /\ raised' = IF raised = {} /\ TrapTrigger(Signal(ctl))
                   THEN {[cause |-> ExceptCode(Signal(ctl)), at |-> pc, a0 |-> regs[A0]]}
                   ELSE raised
      /\ UNCHANGED main

StartupNext == \E stall \in BOOLEAN : StartupEdge(stall)
StartupSpec == StartupInit /\ [][StartupNext]_startVars
                           /\ WF_startVars(StartupEdge(FALSE))

-----------------------------------------------------------------------------
StartupTypeOK ==
  /\ pc \in Word /\ regs \in [RegId -> Word] /\ TrapTypeOK
  /\ main \in Mains /\ breaks \in 0 .. 2
  /\ \A e \in raised : e \in [cause : Causes, at : Word, a0 : Word]

(* "Notify coprocessor the program has finished": the ebreak line is up    *)
(* once, whatever main does, and from then on, for a coprocessor that      *)
(* takes its time, a0 is what main left or, after any exception that is    *)
(* not a breakpoint, -1, with the cause and the place in the RAM.          *)
EndTold ==
  /\ breaks < 2
  /\ breaks = 1 =>
       \A e \in raised :
         IF e.cause = 3 THEN regs[A0] = e.a0
         ELSE regs[A0] = WordSize - 1 /\ ram[1] = e.cause /\ ram[2] = e.at

(* Every main that ends by itself or by an exception ends the program, and *)
(* it stays in a loop of its own.                                          *)
Ends ==
  <>(/\ breaks = 1
     /\ [](pc \in {4 * NeverRetDone, 4 * NeverRetErr}))
=============================================================================
