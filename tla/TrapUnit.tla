------------------------------ MODULE TrapUnit ------------------------------
(***************************************************************************)
(* The trap and mode registers of the core: the current mode and the       *)
(* {MPP, MPIE, MIE} fields of mstatus (components/core_status.sv), and     *)
(* mcause, mepc and mtvec (components/except_controller.sv).               *)
(*                                                                         *)
(* The module is the passive half of the core: it owns the registers and   *)
(* says what one clock edge does to each of them for the control lines the *)
(* decoder drives. Core.tla supplies those lines.                          *)
(***************************************************************************)
EXTENDS Decode

CONSTANTS WordSize,      \* 2^64 in the RTL: a word is a number below it
          MieUnit,       \* weight of mstatus[3]
          MpieUnit,      \* weight of mstatus[7]
          MppUnit,       \* weight of mstatus[12:11]
          UxlField,      \* the constant part of mstatus, 'h200000000
          TvecSpan       \* 2^24: mtvec keeps bits 23:2 of what is written

Word  == 0 .. WordSize - 1
Modes == 0 .. 3

ASSUME WordAssumption ==
  /\ WordSize \in Nat /\ WordSize > 11
  /\ MieUnit \in Nat \ {0} /\ MpieUnit \in Nat \ {0} /\ MppUnit \in Nat \ {0}
  /\ UxlField \in Nat
  /\ UxlField + 3 * MppUnit + MpieUnit + MieUnit < WordSize
  /\ TvecSpan \in 1 .. WordSize

VARIABLES mode,          \* currentPrivilege
          mpp, mpie, mie,\* the three live fields of mstatus
          mcause, mepc, mtvec

trapVars == <<mode, mpp, mpie, mie, mcause, mepc, mtvec>>

(* The widths of the trap registers; mcause holds a code the encoder knows.*)
TrapTypeOK ==
  /\ mode \in Modes
  /\ mpp  \in Modes
  /\ mpie \in BOOLEAN
  /\ mie  \in BOOLEAN
  /\ mcause \in Causes
  /\ mepc  \in Word
  /\ mtvec \in Word

Bit(b, unit)    == IF b THEN unit ELSE 0
IsSet(w, unit)  == (w \div unit) % 2 = 1

(* mstatus as a CSR read returns it.                                       *)
Mstatus == UxlField + mpp * MppUnit + Bit(mpie, MpieUnit) + Bit(mie, MieUnit)

TrapInit ==
  /\ mode = 3 /\ mpp = 0 /\ mpie = FALSE /\ mie = FALSE
  /\ mcause = 0 /\ mepc = 0 /\ mtvec = 0

(* The asynchronous reset of every register of the unit.                   *)
TrapReset ==
  /\ mode' = 3 /\ mpp' = 0 /\ mpie' = FALSE /\ mie' = FALSE
  /\ mcause' = 0 /\ mepc' = 0 /\ mtvec' = 0

(* The four things that can happen to mode and mstatus on one edge, and    *)
(* faulty variants of two: a trap that does not clear MIE, an mret that    *)
(* does not restore it.                                                    *)
EnterTrapUnmasked == mode' = 3 /\ mpp' = mode /\ mpie' = mie /\ mie' = mie
EnterTrap  == mode' = 3   /\ mpp' = mode /\ mpie' = mie  /\ mie' = FALSE
LeaveTrapMasked == mode' = mpp /\ mpp' = 0 /\ mpie' = TRUE /\ mie' = mie
LeaveTrap  == mode' = mpp /\ mpp' = 0    /\ mpie' = TRUE /\ mie' = mpie
WriteStatus(in) ==
  /\ mpp'  = (in \div MppUnit) % 4
  /\ mpie' = IsSet(in, MpieUnit)
  /\ mie'  = IsSet(in, MieUnit)
  /\ UNCHANGED mode
KeepStatus == UNCHANGED <<mode, mpp, mpie, mie>>

(***************************************************************************)
(* One edge of core_status: a trap goes before an mret, an mret before a   *)
(* CSR write of mstatus.                                                   *)
(***************************************************************************)
StatusEdge(trap, return, write, in) ==
  \/ trap /\ EnterTrap
  \/ ~trap /\ return /\ LeaveTrap
  \/ ~trap /\ ~return /\ write /\ WriteStatus(in)
  \/ ~trap /\ ~return /\ ~write /\ KeepStatus

(* Variants with one fault each: the MIE gate lost, the next address saved.*)
CauseEdgeUngated(sig, pcF) ==
  IF sig # {} THEN mcause' = ExceptCode(sig) /\ mepc' = pcF
              ELSE UNCHANGED <<mcause, mepc>>
CauseEdgeNextPc(sig, pcF) ==
  IF mie /\ sig # {} THEN mcause' = ExceptCode(sig) /\ mepc' = pcF + 4
                     ELSE UNCHANGED <<mcause, mepc>>

(***************************************************************************)
(* One edge of the cause and return-address registers. exceptCSREnable is  *)
(* gated by MIE, so an exception raised while MIE is clear leaves both     *)
(* alone; a CSR write of mepc does too, its enable is commented out.       *)
(***************************************************************************)
CauseEdge(sig, pcF) ==
  IF mie /\ sig # {}
  THEN mcause' = ExceptCode(sig) /\ mepc' = pcF
  ELSE UNCHANGED <<mcause, mepc>>

(* Bits 23:2 of mtvec follow a CSR write, the others stay at reset's zero. *)
TvecEdge(write, in) ==
  mtvec' = IF write THEN 4 * ((in % TvecSpan) \div 4) ELSE mtvec

(* trapTrigger: the raised lines, gated by MIE.                            *)
TrapTrigger(sig) == mie /\ sig # {}
=============================================================================
