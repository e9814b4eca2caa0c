------------------------------- MODULE Decode -------------------------------
(***************************************************************************)
(* The combinational decoders of the core: what the controller             *)
(* (components/maindec.sv) makes of an instruction, which exceptions an    *)
(* instruction raises (components/core.sv, except_e.sv), the cause code    *)
(* the priority encoder picks (components/exceptDecode.sv) and whether a   *)
(* branch is taken (components/branching.sv).                              *)
(*                                                                         *)
(* An instruction is named by its mnemonic; the bit patterns are left out. *)
(* "illegal" stands for every opcode no arm of the decoder matches.        *)
(***************************************************************************)
EXTENDS Integers

Branches == {"beq", "bne", "blt", "bge", "bltu", "bgeu"}
Jumps    == {"jal", "jalr"}
Arith    == {"add", "addi"}
Loads    == {"lb", "lh", "lw", "ld", "lbu", "lhu", "lwu"}
Stores   == {"sb", "sh", "sw", "sd"}
CsrRegs  == {"csrrw", "csrrs", "csrrc"}
CsrImms  == {"csrrwi", "csrrsi", "csrrci"}
Faults   == {"illegal", "ecall", "ebreak"}

Mnemonics == Branches \cup Jumps \cup Arith \cup Loads \cup Stores
               \cup CsrRegs \cup CsrImms \cup Faults \cup {"mret", "fence"}

(* Access width in bytes: 1, 2, 4 or 8.                                    *)
Width(op) ==
  CASE op \in {"lb", "lbu", "sb"} -> 1
    [] op \in {"lh", "lhu", "sh"} -> 2
    [] op \in {"lw", "lwu", "sw"} -> 4
    [] OTHER                      -> 8

(* The all-zero control word: nothing is written and nothing is raised.    *)
(* It is also what a stalled controller drives.                            *)
Idle == [ trapReturn |-> FALSE, csrWrite |-> FALSE, fault    |-> "none",
          aluImm     |-> FALSE, memRead  |-> FALSE, memWrite |-> FALSE,
          memtoReg   |-> FALSE, regWrite |-> FALSE, branch   |-> "never" ]

(* The control word of one instruction, while the controller runs.         *)
Decoded(op) ==
  CASE op \in Branches -> [ Idle EXCEPT !.branch = op ]
    [] op = "jal"      -> [ Idle EXCEPT !.branch = "always", !.regWrite = TRUE ]
    [] op = "jalr"     -> [ Idle EXCEPT !.branch = "always", !.regWrite = TRUE,
                                        !.aluImm = TRUE ]
    [] op = "add"      -> [ Idle EXCEPT !.regWrite = TRUE ]
    [] op = "addi"     -> [ Idle EXCEPT !.regWrite = TRUE, !.aluImm = TRUE ]
    [] op \in Loads    -> [ Idle EXCEPT !.regWrite = TRUE, !.aluImm = TRUE,
                                        !.memtoReg = TRUE, !.memRead = TRUE ]
    [] op \in Stores   -> [ Idle EXCEPT !.memWrite = TRUE, !.aluImm = TRUE ]
    [] op \in CsrRegs  -> [ Idle EXCEPT !.csrWrite = TRUE, !.regWrite = TRUE ]
    [] op \in CsrImms  -> [ Idle EXCEPT !.csrWrite = TRUE, !.regWrite = TRUE,
                                        !.aluImm = TRUE ]
    [] op \in Faults   -> [ Idle EXCEPT !.fault = op ]
    [] op = "mret"     -> [ Idle EXCEPT !.trapReturn = TRUE ]
    [] OTHER           -> Idle

(* A coprocessor stall replaces every instruction by the idle word.        *)
Control(op, stall) == IF stall THEN Idle ELSE Decoded(op)

(***************************************************************************)
(* The exception lines, as the set of raised bit numbers. An ecall raises  *)
(* the lines of all three modes at once; an access that leaves its         *)
(* doubleword raises the misaligned line of its direction.                 *)
(***************************************************************************)
ExceptSignal(ctl, crosses) ==
       (IF ctl.fault = "illegal"       THEN {2}        ELSE {})
  \cup (IF ctl.fault = "ebreak"        THEN {3}        ELSE {})
  \cup (IF ctl.fault = "ecall"         THEN {8, 9, 11} ELSE {})
  \cup (IF crosses /\ ctl.memRead      THEN {4}        ELSE {})
  \cup (IF crosses /\ ctl.memWrite     THEN {6}        ELSE {})

ExceptLines == {2, 3, 4, 6, 8, 9, 11}
Causes      == ExceptLines \cup {0}      \* what mcause may hold

(* The priority encoder: the cause of the first raised line, in this order. *)
ExceptCode(sig) ==
  IF 2 \in sig THEN 2 ELSE
  IF 8 \in sig THEN 8 ELSE
  IF 9 \in sig THEN 9 ELSE
  IF 11 \in sig THEN 11 ELSE
  IF 3 \in sig THEN 3 ELSE
  IF 4 \in sig THEN 4 ELSE
  IF 6 \in sig THEN 6 ELSE 31

(* Branch decision from the flags of the subtraction rs1 - rs2.            *)
Taken(branch, zero, sign, borrow) ==
  \/ branch = "always"
  \/ branch = "beq"  /\ zero
  \/ branch = "bne"  /\ ~zero
  \/ branch = "blt"  /\ sign /\ ~zero
  \/ branch = "bge"  /\ (~sign \/ zero)
  \/ branch = "bltu" /\ borrow /\ ~zero
  \/ branch = "bgeu" /\ (~borrow \/ zero)
=============================================================================
