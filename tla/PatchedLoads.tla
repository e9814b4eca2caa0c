---------------------------- MODULE PatchedLoads ----------------------------
(***************************************************************************)
(* Compiled code after the patcher (software/parse_helpers.py,             *)
(* rv_binary_patcher.py) on the core, beside the same code on a memory     *)
(* without latency.  The RAM of the core latches its address, so that a    *)
(* load returns the word of the access before; the patcher issues every    *)
(* load twice, and when a load overwrites its own base register, keeps the *)
(* base in a register "unlikely to be used".                               *)
(*                                                                         *)
(* A source is a straight line of code that starts again at its end. The   *)
(* coprocessor may stall the core at any edge.                             *)
(***************************************************************************)
EXTENDS Core, Sequences

CONSTANTS Sources,       \* the code before the patcher
          Temp,          \* t6
          LaneSize       \* 2^8

Move(rd, rs) ==
  [ op |-> "addi", rd |-> rd, rs1 |-> rs, rs2 |-> 0, imm |-> 0, csr |-> 0 ]
JumpBack(k) ==
  [ op |-> "jal", rd |-> 0, rs1 |-> 0, rs2 |-> 0,
    imm |-> (WordSize \div 2 - 2 * k) % WordSize, csr |-> 0 ]

(* Variant: the base register of the second load is the loaded one.        *)
InstrPatchInPlace(i) == IF i.op \in Loads THEN <<i, i>> ELSE <<i>>

(* instr_patch                                                             *)
InstrPatch(i) ==
  LET moved == [i EXCEPT !.rs1 = Temp]
  IN  CASE i.op \notin Loads                  -> <<i>>
        [] i.op \in Loads /\ i.rd # i.rs1     -> <<i, i>>
        [] i.op \in Loads /\ i.rd = i.rs1     -> <<Move(Temp, i.rd), moved, moved>>

(* Where the patches begin, in instructions: that of src[k] takes the      *)
(* places from Begins(src)[k - 1] up to Begins(src)[k].                    *)
Begins(src) ==
  LET place[k \in 0 .. Len(src)] ==
        IF k = 0 THEN 0 ELSE place[k - 1] + Len(InstrPatch(src[k]))
  IN  place

Rom(src) ==
  LET at == Begins(src)
      Patches(p) == {k \in DOMAIN src : at[k - 1] <= p /\ p < at[k]}
      Code(k, p) == InstrPatch(src[k])[p - at[k - 1] + 1]
  IN  [p \in 0 .. RomSize - 1 |->
         IF Patches(p) = {} THEN JumpBack(p) ELSE Code(CHOOSE k \in Patches(p) : TRUE, p)]

-----------------------------------------------------------------------------
(***************************************************************************)
(* The machine without latency: registers, and a memory of bytes in which  *)
(* a load finds what the stores before it left.                            *)
(***************************************************************************)
Bytes == Lanes * MemWords

(* The weight of a lane, by recursion on its number.                       *)
Place[k \in 0 .. Lanes] == IF k = 0 THEN 1 ELSE LaneSize * Place[k - 1]

BytesIn == [w \in Word |-> [k \in 0 .. Lanes - 1 |-> (w \div Place[k]) % LaneSize]]
BytesOf(words) == [x \in 0 .. Bytes - 1 |-> BytesIn[words[x \div Lanes]][x % Lanes]]

(* What bytes mean to a load: a number, and its sign above it.             *)
NumberOf(n, bytes) ==
  LET below[k \in 0 .. n] ==
        IF k = 0 THEN 0 ELSE below[k - 1] + bytes[k - 1] * Place[k - 1]
  IN  below[n]
Extended(op, w) ==
  IF op \in {"lb", "lh", "lw"} /\ w >= Place[Width(op)] \div 2
  THEN w + WordSize - Place[Width(op)] ELSE w
ValueOf(op, bytes) == Extended(op, NumberOf(Width(op), bytes))

(* The code is what PlainAfter knows, does not use t6, and leaves room for *)
(* the jump back.                                                          *)
ASSUME PatchAssumption ==
  /\ Temp \in RegId \ {0}
  /\ 4 * RomSize <= WordSize /\ WordSize % 2 = 0
  /\ \A src \in Sources :
       /\ src \in Seq(Instructions) /\ src # <<>>
       /\ Begins(src)[Len(src)] < RomSize
       /\ \A k \in DOMAIN src :
            /\ src[k].op \in Loads \cup Stores \cup {"addi"}
            /\ Temp \notin {src[k].rd, src[k].rs1, src[k].rs2}

(* memReadMask and memWriteMask on the bytes of an access that stays       *)
(* within its word.                                                        *)
ASSUME LanesAssumption ==
  /\ LaneSize \in Nat /\ LaneSize > 1 /\ Lanes >= 8
  /\ WordSize = Place[Lanes] /\ WordSize % Bytes = 0
  /\ \A op \in Loads : \A off \in 0 .. Lanes - Width(op), w \in Word :
       PickLanes(op, off, w)
         = ValueOf(op, [k \in 0 .. Width(op) - 1 |-> BytesIn[w][off + k]])
  /\ \A op \in Stores : \A off \in 0 .. Lanes - Width(op), w, d \in Word :
       LET merged == BytesIn[MergeLanes(op, off, w, d)]
       IN  \A x \in 0 .. Lanes - 1 :
             merged[x] = IF x \in off .. off + Width(op) - 1
                         THEN BytesIn[d][x - off] ELSE BytesIn[w][x]

VARIABLES source,        \* the code
          ends,          \* where the patch of each of its instructions ends
          plain          \* the machine without latency
patchedVars == <<coreVars, source, ends, plain>>

Byte(i, k) == (plain.regs[i.rs1] + i.imm + k) % Bytes
Loaded(i)  == ValueOf(i.op, [k \in 0 .. Width(i.op) - 1 |-> plain.bytes[Byte(i, k)]])

Written(r, v) == [plain EXCEPT !.regs[r] = IF r = 0 THEN 0 ELSE v]
Stored(i) ==
  [plain EXCEPT !.bytes =
     [x \in 0 .. Bytes - 1 |->
        IF \E k \in 0 .. Width(i.op) - 1 : x = Byte(i, k)
        THEN BytesIn[plain.regs[i.rs2]][CHOOSE k \in 0 .. Width(i.op) - 1 : x = Byte(i, k)]
        ELSE @[x]]]

PlainAfter(i) ==
  CASE i.op \in Loads  -> Written(i.rd, Loaded(i))
    [] i.op \in Stores -> Stored(i)
    [] i.op = "addi"   -> Written(i.rd, Sum(plain.regs[i.rs1], i.imm))

-----------------------------------------------------------------------------
PatchedInit ==
  /\ source \in Sources
  /\ rom = Rom(source)
  /\ ends = [k \in DOMAIN source |-> 4 * Begins(source)[k]]
  /\ CoreInit
  /\ plain = [regs |-> regs, bytes |-> BytesOf(ram)]

(* The plain machine executes an instruction with the last of its patch.   *)
PatchedEdge(stall) ==
  /\ CoreEdge(FALSE, stall)
  /\ plain' = IF ~stall /\ \E k \in DOMAIN ends : pc + 4 = ends[k]
              THEN PlainAfter(source[CHOOSE k \in DOMAIN ends : pc + 4 = ends[k]])
              ELSE plain
  /\ UNCHANGED <<source, ends>>

PatchedNext == \E stall \in BOOLEAN : PatchedEdge(stall)
PatchedSpec == PatchedInit /\ [][PatchedNext]_patchedVars

-----------------------------------------------------------------------------
PatchedTypeOK ==
  /\ pc \in Word /\ regs \in [RegId -> Word] /\ ramQ \in Word
  /\ source \in Sources /\ DOMAIN ends = DOMAIN source
  /\ plain \in [ regs : [RegId -> Word], bytes : [0 .. Bytes - 1 -> 0 .. LaneSize - 1] ]

(* No access leaves its word: no load or store would raise the misaligned  *)
(* exception.  Of one that does, memReadMask and memWriteMask cut off the  *)
(* bytes above the word.                                                   *)
WithinWord ==
  Instr.op \in Loads \cup Stores => Offset(Address) + Width(Instr.op) <= Lanes

(* "Patch to fix quirks of the architecture": wherever the core is stalled *)
(* and however often the code runs, between two instructions of the source *)
(* every register but t6, and the RAM, are what they would be on a memory  *)
(* without latency.                                                        *)
LoadsFresh ==
  (pc = 0 \/ \E k \in DOMAIN ends : pc = ends[k]) =>
    /\ \A r \in RegId \ {Temp} : regs[r] = plain.regs[r]
    /\ BytesOf(ram) = plain.bytes
=============================================================================
