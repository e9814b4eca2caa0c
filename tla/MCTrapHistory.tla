--------------------------- MODULE MCTrapHistory ---------------------------
(***************************************************************************)
(* Every four-slot program over an alphabet of trapping, returning and     *)
(* CSR-writing instructions, under every schedule of stalls and resets.    *)
(***************************************************************************)
EXTENDS TrapHistory, MCWords

Ins(op, rd, rs1, rs2, imm, csr) ==
  [ op |-> op, rd |-> rd, rs1 |-> rs1, rs2 |-> rs2, imm |-> imm, csr |-> csr ]

(* MIE, MPIE and MPP have weights 1, 2 and 4 here.                         *)
SetMie    == Ins("csrrsi", 0, 0, 0, 1, CsrMstatus)
SetUser   == Ins("csrrwi", 0, 0, 0, 2, CsrMstatus)
SetTvec   == Ins("csrrwi", 0, 0, 0, 8, CsrMtvec)
SetMepc   == Ins("csrrwi", 0, 0, 0, 4, CsrMepc)
CrossingStore == Ins("sh", 0, 0, 1, 1, 0)

Alphabet == { SetMie, SetUser, SetTvec, CrossingStore,
              Ins("ecall", 0, 0, 0, 0, 0), Ins("mret", 0, 0, 0, 0, 0) }

MCPrograms ==
  { p \in [0 .. 3 -> Alphabet \cup {SetMepc, Ins("illegal", 0, 0, 0, 0, 0)}] :
      p[0] \in Alphabet /\ p[1] \in Alphabet /\ p[3] \in Alphabet }

(* The constants of the program: every word of the RAM tells itself apart. *)
MCImages == { [a \in RamAddr |-> 5 + a] }
=============================================================================
