---------------------------- MODULE MCDebugPort ----------------------------
(***************************************************************************)
(* Two programs under a coprocessor that stores what it likes.           *)
(***************************************************************************)
EXTENDS DebugPort, MCWords, TLC

Ins(op, rd, rs1, rs2, imm, csr) ==
  [ op |-> op, rd |-> rd, rs1 |-> rs1, rs2 |-> rs2, imm |-> imm, csr |-> csr ]

Prog(a, b, c, d) == (0 :> a) @@ (1 :> b) @@ (2 :> c) @@ (3 :> d)

Ebreak == Ins("ebreak", 0, 0, 0, 0, 0)
SetMie == Ins("csrrsi", 0, 0, 0, 1, CsrMstatus)

MCPrograms == {
  Prog(Ins("addi", 1, 0, 0, 2, 0), Ins("sb", 0, 0, 1, 1, 0),
       Ebreak, Ins("jal", 0, 0, 0, 2, 0)),
  Prog(SetMie, Ins("lb", 1, 0, 0, 1, 0), Ebreak, Ins("mret", 0, 0, 0, 0, 0)) }

MCControls == { {}, {"reset"}, {"delay"}, {"delay", "csr"}, {"flip"},
                {"memRead"}, {"memWrite"} }

(* The constants of the program: every word of the RAM tells itself apart. *)
MCImages == { [a \in RamAddr |-> 5 + a] }
=============================================================================
