------------------------------ MODULE PowerUp ------------------------------
(***************************************************************************)
(* What an SDRAM asks of its controller before it may be used: after power *)
(* is stable, a precharge, a number of refreshes and one write of the mode *)
(* register, each a minimum time after the one before it. No command of    *)
(* the running device comes earlier. "command" is what is on the command   *)
(* lines in this cycle, "wait" the cycles that must still pass before the  *)
(* next one.                                                               *)
(*                                                                         *)
(* MemControl.tla implements this specification.                           *)
(***************************************************************************)
EXTENDS Integers

CONSTANTS TInit, TRP, TRC, TMRD,  \* minimum times, in clock cycles
          Refreshes               \* refreshes needed before the mode is set

VARIABLES command, stage, refs, wait

powerVars == <<command, stage, refs, wait>>

Commands == {"DESL", "NOP", "ACT", "PRE", "REF", "MRS"}

PowerInit ==
  /\ command \in Commands
  /\ stage = "power" /\ refs = 0 /\ wait = TInit

(* The device answers the command of this cycle; any command follows.      *)
Answer(s, r, w) ==
  stage' = s /\ refs' = r /\ wait' = w /\ command' \in Commands

Pass      == /\ command \in {"NOP", "DESL"}
             /\ Answer(stage, refs, IF wait = 0 THEN 0 ELSE wait - 1)
Precharge == /\ command = "PRE" /\ stage = "power" /\ wait = 0
             /\ Answer("refresh", 0, TRP - 1)
Refresh   == /\ command = "REF" /\ stage = "refresh" /\ wait = 0
             /\ Answer("refresh", refs + 1, TRC - 1)
SetMode   == /\ command = "MRS" /\ stage = "refresh" /\ wait = 0
             /\ refs >= Refreshes
             /\ Answer("ready", refs, TMRD - 1)
Use       == /\ command = "ACT" /\ stage = "ready" /\ wait = 0
             /\ Answer("ready", refs, 0)
PowerOn   == Answer("power", 0, TInit)

PowerNext == Pass \/ Precharge \/ Refresh \/ SetMode \/ Use \/ PowerOn
PowerSpec == PowerInit /\ [][PowerNext]_powerVars
=============================================================================
