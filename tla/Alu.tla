-------------------------------- MODULE Alu --------------------------------
(***************************************************************************)
(* The arithmetic unit: its operation code (components/aludec.sv), the     *)
(* unit (alu.sv), the 32-bit forms around it (execute.sv) and the branch   *)
(* decision from its flags, against what the instruction set says.  A step *)
(* executes one instruction of any operands.                               *)
(*                                                                         *)
(* An instruction is its class, the name of its funct3, bit 5 of funct7    *)
(* ("alt"), which is a bit of the immediate in an immediate form that is   *)
(* not a shift, and whether it is a 32-bit form.                           *)
(***************************************************************************)
EXTENDS Decode

CONSTANT Bits            \* 64

(* The powers of two, by recursion on the exponent.                        *)
Pow2[n \in Nat] == IF n = 0 THEN 1 ELSE 2 * Pow2[n - 1]

(* The lower half of a word is a 32-bit operand, and the distance of a     *)
(* 32-bit shift is the low bits of one.                                    *)
ASSUME AluAssumption ==
  /\ Bits \in Nat /\ \E h \in 1 .. Bits : Bits = 2 * h
  /\ Pow2[Bits \div 2] % (Bits \div 2) = 0

VARIABLES ins, a, b, out
aluVars == <<ins, a, b, out>>

Half32 == Pow2[Bits \div 2]
Whole  == Pow2[Bits]
Funct  == {"add", "sll", "slt", "sltu", "xor", "srl", "or", "and"}

(* The arithmetic instructions of RV64I.                                   *)
AluIns(class, f, alt, w) == [class |-> class, funct |-> f, alt |-> alt, w |-> w]
WForms == {"add", "sll", "srl"}
AluInstrs ==
  { i \in [ class : {"register", "immediate", "branch", "address"},
            funct : Funct \cup Branches, alt : BOOLEAN, w : BOOLEAN ] :
      /\ i.class = "branch" => i.funct \in Branches
      /\ i.class # "branch" => i.funct \in Funct
      /\ i.class = "address" => i.funct = "add"
      /\ i.class \in {"branch", "address"} => ~i.alt /\ ~i.w
      /\ i.class = "register" /\ i.alt => i.funct \in {"add", "srl"}
      /\ i.class = "immediate" /\ i.alt => i.funct # "sll"
      /\ i.w => i.funct \in WForms }

-----------------------------------------------------------------------------
(* Variant: bit 30 of every immediate form is taken for funct7.            *)
AluControlAlt(i) ==
  CASE i.class = "address"                                   -> "add"
    [] i.class = "branch"                                    -> "sub"
    [] i.funct = "srl" /\ i.alt                              -> "sra"
    [] i.class \in {"register", "immediate"} /\ i.funct = "add" /\ i.alt -> "sub"
    [] OTHER                                                 -> i.funct

(* aludec                                                                  *)
AluControl(i) ==
  CASE i.class = "address"                                   -> "add"
    [] i.class = "branch"                                    -> "sub"
    [] i.funct = "srl" /\ i.alt                              -> "sra"
    [] i.class = "register" /\ i.funct = "add" /\ i.alt      -> "sub"
    [] OTHER                                                 -> i.funct

(* The ones of a word, and the word with given ones.                       *)
Ones(n) == {k \in 0 .. Bits - 1 : (n \div Pow2[k]) % 2 = 1}
WithOnes(S) ==
  LET below[k \in 0 .. Bits] ==
        IF k = 0 THEN 0 ELSE below[k - 1] + (IF k - 1 \in S THEN Pow2[k - 1] ELSE 0)
  IN  below[Bits]

(* A word as a two's complement number.                                    *)
Signed(n, span) == IF n >= span \div 2 THEN n - span ELSE n

(* Variant: a 32-bit form shifts by six bits of the second operand.        *)
ShiftBy64(y, w) == y % Bits
ShiftBy(y, w) == y % (IF w THEN Bits \div 2 ELSE Bits)

(* alu: the result, and the carry or borrow it calls overflow.             *)
AluResult(ctl, x, y, w) ==
  CASE ctl = "and"  -> WithOnes({k \in Ones(x) : k \in Ones(y)})
    [] ctl = "or"   -> WithOnes(Ones(x) \cup Ones(y))
    [] ctl = "xor"  -> WithOnes({k \in 0 .. Bits - 1 : (k \in Ones(x)) # (k \in Ones(y))})
    [] ctl = "add"  -> (x + y) % Whole
    [] ctl = "sub"  -> (x - y) % Whole
    [] ctl = "slt"  -> IF Signed(x, Whole) < Signed(y, Whole) THEN 1 ELSE 0
    [] ctl = "sltu" -> IF x < y THEN 1 ELSE 0
    [] ctl = "srl"  -> x \div Pow2[ShiftBy(y, w)]
    [] ctl = "sra"  -> (Signed(x, Whole) \div Pow2[ShiftBy(y, w)]) % Whole
    [] ctl = "sll"  -> (x * Pow2[ShiftBy(y, w)]) % Whole
Overflow(ctl, x, y) == CASE ctl = "add" -> x + y >= Whole
                         [] ctl = "sub" -> x < y
                         [] OTHER       -> FALSE

(* execute: a 32-bit form takes the lower halves of its operands with      *)
(* zeros above, and extends the sign of the lower half of the result.      *)
AluIn(x, w)  == IF w THEN x % Half32 ELSE x
AluOut(r, w) == IF w THEN Signed(r % Half32, Half32) % Whole ELSE r

Executed ==
  LET ctl == AluControl(ins)
      r   == AluResult(ctl, AluIn(a, ins.w), AluIn(b, ins.w), ins.w)
  IN  [ result |-> AluOut(r, ins.w),
        taken  |-> Taken(ins.funct, r = 0, r >= Whole \div 2,
                         Overflow(ctl, AluIn(a, ins.w), AluIn(b, ins.w))) ]

Execute == out = {} /\ out' = {Executed} /\ UNCHANGED <<ins, a, b>>

AluInit == /\ ins \in AluInstrs
           /\ a \in 0 .. Whole - 1 /\ b \in 0 .. Whole - 1
           /\ out = {}

AluSpec == AluInit /\ [][Execute]_aluVars

-----------------------------------------------------------------------------
(***************************************************************************)
(* What the instruction set says: numbers are signed or unsigned, logic is *)
(* on the sets of their ones, shifts multiply and divide, and a 32-bit     *)
(* form is the operation on words of half the width.                       *)
(***************************************************************************)
BitOps == {"and", "or", "xor"}
IsBitOp(f, x, y, r) ==
  Ones(r) = CASE f = "and" -> Ones(x) \cap Ones(y)
              [] f = "or"  -> Ones(x) \cup Ones(y)
              [] f = "xor" -> (Ones(x) \cup Ones(y)) \ (Ones(x) \cap Ones(y))

(* The number an instruction yields, before it is cut to n bits.           *)
Number(i, x, y, n) ==
  LET span == Pow2[n]
      sub  == i.class = "register" /\ i.alt
  IN  CASE i.funct = "add" /\ sub  -> x - y
        [] i.funct = "add" /\ ~sub -> x + y
        [] i.funct = "sll"  -> x * Pow2[y % n]
        [] i.funct = "srl" /\ ~i.alt -> x \div Pow2[y % n]
        [] i.funct = "srl" /\ i.alt  -> Signed(x, span) \div Pow2[y % n]
        [] i.funct = "slt"  -> IF Signed(x, span) < Signed(y, span) THEN 1 ELSE 0
        [] i.funct = "sltu" -> IF x < y THEN 1 ELSE 0

Meaning(i) ==
  IF i.w THEN Signed(Number(i, a % Half32, b % Half32, Bits \div 2) % Half32, Half32) % Whole
         ELSE Number(i, a, b, Bits) % Whole

MeansTaken(branch) ==
  LET sa == Signed(a, Whole)
      sb == Signed(b, Whole)
  IN  CASE branch = "beq"  -> a = b
        [] branch = "bne"  -> a # b
        [] branch = "blt"  -> sa < sb
        [] branch = "bge"  -> sa >= sb
        [] branch = "bltu" -> a < b
        [] branch = "bgeu" -> a >= b

(* What execution must yield of an instruction.                            *)
AsTheIsaSays(i, o) ==
  CASE i.class = "branch"       -> o.taken = MeansTaken(i.funct)
    [] i.class # "branch" /\ i.funct \in BitOps -> IsBitOp(i.funct, a, b, o.result)
    [] OTHER                    -> o.result = Meaning(i)

(* Operands whose difference leaves the range of a signed word.            *)
DifferenceOverflows ==
  Signed(a, Whole) - Signed(b, Whole) \notin -(Whole \div 2) .. Whole \div 2 - 1

(* "RV64IZicsr": every instruction and every branch gives what the         *)
(* instruction set says, for all operands.                                 *)
MeetsIsa == \A o \in out : AsTheIsaSays(ins, o)

(* Exactly two kinds of instruction do not: blt and bge whose difference   *)
(* overflows, and sraw and sraiw of a negative word that really shift.     *)
MeetsIsaBut ==
  \A o \in out :
    AsTheIsaSays(ins, o) <=>
      ~ \/ ins.class = "branch" /\ ins.funct \in {"blt", "bge"} /\ DifferenceOverflows
        \/ /\ ins.class # "branch" /\ ins.funct = "srl" /\ ins.alt /\ ins.w
           /\ a % Half32 >= Half32 \div 2 /\ b % (Bits \div 2) # 0

AluTypeOK == /\ ins \in AluInstrs
             /\ a \in 0 .. Whole - 1 /\ b \in 0 .. Whole - 1
             /\ \A o \in out : o.result \in 0 .. Whole - 1 /\ o.taken \in BOOLEAN
=============================================================================
