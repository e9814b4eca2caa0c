------------------------------ MODULE MCWords ------------------------------
(***************************************************************************)
(* Short words for model checking: their byte lanes, the bitwise           *)
(* operations of wideXOR.sv and atom_alu.sv, and the lane masks of         *)
(* memReadMask.sv and memWriteMask.sv.                                     *)
(***************************************************************************)
EXTENDS Decode
LOCAL INSTANCE FiniteSetsExt

CONSTANTS MCLanes, MCLaneBits

MCLaneSize == 2^MCLaneBits
MCWordSize == MCLaneSize^MCLanes

(* The ones of every word, and the word of every set of ones.              *)
BitNumbers == 0 .. MCLanes * MCLaneBits - 1
OnesOf == [w \in 0 .. MCWordSize - 1 |-> {k \in BitNumbers : (w \div 2^k) % 2 = 1}]
WordOf == [S \in SUBSET BitNumbers |-> MapThenSumSet(LAMBDA k : 2^k, S)]

MCXor(a, b)    == WordOf[SymDiff(OnesOf[a], OnesOf[b])]
MCOr(a, b)     == WordOf[OnesOf[a] \cup OnesOf[b]]
MCAndNot(a, b) == WordOf[OnesOf[a] \ OnesOf[b]]

(* The span of one access of w bytes, cut at the word.                     *)
Span(w) == IF w < MCLanes THEN MCLaneSize^w ELSE MCWordSize

(* Shift right by the byte offset, keep w bytes, extend the sign bit.      *)
MCPickLanes(op, off, word) ==
  LET span == Span(Width(op))
      w    == (word \div MCLaneSize^off) % span
  IN  IF op \in {"lb", "lh", "lw"} /\ w >= span \div 2 THEN w + MCWordSize - span ELSE w

(* The enabled lanes, from the byte offset up, take the data.              *)
MCMergeLanes(op, off, old, data) ==
  LET base == MCLaneSize^off
      span == IF Span(Width(op)) * base > MCWordSize
              THEN MCWordSize \div base ELSE Span(Width(op))
      high == old \div (span * base)
  IN  (old % base) + base * (data % span) + base * span * high
=============================================================================
