----------------------------- MODULE MCInjector -----------------------------
(***************************************************************************)
(* The injection program against a few programs and faults.                *)
(***************************************************************************)
EXTENDS Injector, MCWords, TLC

Ins(op, rd, rs1, rs2, imm, csr) ==
  [ op |-> op, rd |-> rd, rs1 |-> rs1, rs2 |-> rs2, imm |-> imm, csr |-> csr ]

Prog(a, b, c, d) == (0 :> a) @@ (1 :> b) @@ (2 :> c) @@ (3 :> d)

Nop    == Ins("fence", 0, 0, 0, 0, 0)
Ebreak == Ins("ebreak", 0, 0, 0, 0, 0)
SetMie == Ins("csrrsi", 0, 0, 0, 1, CsrMstatus)

Ecall  == Ins("ecall", 0, 0, 0, 0, 0)
Count  == Ins("addi", 1, 1, 0, 1, 0)
Save   == Ins("sh", 0, 0, 1, 2, 0)
Load   == Ins("lh", 1, 0, 0, 2, 0)

(* Counting, storing, looping on the counter, masked and taken exceptions, *)
(* a break that is the end and one the program falls through.              *)
MCPrograms ==
  { Prog(a, b, c, d) :
      a \in { Nop, Count, Load, SetMie },
      b \in { Save, SetMie, Ins("beq", 0, 1, 0, 14, 0) },
      c \in { Ebreak, Ecall, Count },
      d \in { Ebreak, Ins("mret", 0, 0, 0, 0, 0), Ins("jal", 0, 0, 0, 12, 0) } }

(* Two that end and one that loops for ever.                              *)
LivePrograms ==
  { Prog(Count, Save, Ebreak, Nop), Prog(Load, SetMie, Ecall, Ebreak),
    Prog(Count, Save, Nop, Ins("jal", 0, 0, 0, 12, 0)) }

Setup(d, r, l, h, m) ==
  [ delay |-> d, reg |-> r, low |-> l, high |-> h, max |-> m ]

(* Faults in either half and in none, delays from zero up, and the run     *)
(* into register 0 whose watchdog limit is the largest number there is.    *)
MCSetups == { Setup(0, 1, 1, 0, 2), Setup(1, 1, 2, 0, 2), Setup(3, 1, 0, 1, 1),
              Setup(2, 0, 1, 0, 3) }

(* The constants of the program: every word of the RAM tells itself apart. *)
MCImages == { [a \in RamAddr |-> 5 + a] }
=============================================================================
