----------------------------- MODULE MemControl -----------------------------
(***************************************************************************)
(* The SDRAM controller (components/memControl.sv): its state machine, its *)
(* timers, the refresh count and the status bit stat_modeRegSet, which is  *)
(* a latch: every state but IDLE drives it, and IDLE decides by the value  *)
(* it holds. A step is a clock edge. The controller stops at activation:   *)
(* ACTIVE falls to the default arm, and no read or write is ever issued.   *)
(***************************************************************************)
EXTENDS Integers, TLAPS

CONSTANTS TInit, TRP, TRC, TMRD, Refreshes

ASSUME TimerAssumption ==
  /\ TInit \in Nat \ {0} /\ TRP \in Nat \ {0}
  /\ TRC \in Nat \ {0} /\ TMRD \in Nat \ {0}
  /\ Refreshes \in Nat \ {0}

VARIABLES currState, timerInit, timer, counterRefresh, modeRegSet,
          op               \* whether a read or a write is requested

memVars == <<currState, timerInit, timer, counterRefresh, modeRegSet, op>>

States == {"INIT", "PRECHARGE_ALL", "IDLE", "AUTOREF_INIT", "REGSET", "ACTIVE"}

Timers == {"tRP", "tRC", "tMRD"}
Period == [ t \in Timers |-> CASE t = "tRP" -> TRP
                               [] t = "tRC" -> TRC
                               [] OTHER      -> TMRD ]

(* No timer runs below zero, where its two to four bits would wrap and the *)
(* controller wait again; the refresh count likewise.                      *)
MemTypeOK ==
  /\ currState \in States
  /\ timerInit \in 0 .. TInit
  /\ timer \in [Timers -> Nat]
  /\ \A t \in Timers : timer[t] <= Period[t]
  /\ counterRefresh \in 0 .. Refreshes
  /\ modeRegSet \in BOOLEAN
  /\ op \in BOOLEAN

(* After the reset that starts the controller.                             *)
MemInit ==
  /\ currState = "INIT" /\ timerInit = TInit /\ timer = Period
  /\ counterRefresh = Refreshes /\ modeRegSet = FALSE
  /\ op \in BOOLEAN

-----------------------------------------------------------------------------
(* One edge into "next" with the timers of "enabled" counting, the others  *)
(* reloaded, and the latch as this cycle drives it.                        *)
Go(next, enabled, latch) ==
  /\ currState' = next
  /\ timerInit' = IF timerInit = 0 THEN 0 ELSE timerInit - 1
  /\ timer' = [ t \in Timers |-> IF t \in enabled THEN timer[t] - 1 ELSE Period[t] ]
  /\ modeRegSet' = latch
  /\ op' \in BOOLEAN

KeepCount == UNCHANGED counterRefresh

(* INIT: wait for the power to be stable, then precharge.                  *)
AwaitPower ==
  /\ currState = "INIT" /\ timerInit # 0
  /\ Go("INIT", {}, FALSE) /\ KeepCount
PrechargeAll ==
  /\ currState = "INIT" /\ timerInit = 0
  /\ Go("PRECHARGE_ALL", {"tRP"}, FALSE) /\ KeepCount

(* Variant: the timer is not tested.                                       *)
AwaitPrechargeForever ==
  /\ currState = "PRECHARGE_ALL"
  /\ Go("PRECHARGE_ALL", {"tRP"}, FALSE) /\ KeepCount

AwaitPrecharge ==
  /\ currState = "PRECHARGE_ALL" /\ timer["tRP"] # 0
  /\ Go("PRECHARGE_ALL", {"tRP"}, FALSE) /\ KeepCount
PrechargeDone ==
  /\ currState = "PRECHARGE_ALL" /\ timer["tRP"] = 0
  /\ Go("IDLE", {}, FALSE) /\ KeepCount

(* IDLE, with refreshes left: one more.                                    *)
Refresh ==
  /\ currState = "IDLE" /\ counterRefresh # 0
  /\ Go("AUTOREF_INIT", {"tRC"}, TRUE) /\ KeepCount
AwaitRefresh ==
  /\ currState = "AUTOREF_INIT" /\ timer["tRC"] # 0
  /\ Go("AUTOREF_INIT", {"tRC"}, TRUE) /\ KeepCount

(* Variants: the latch is not raised, the refresh is not counted.          *)
RefreshDoneUnlatched ==
  /\ currState = "AUTOREF_INIT" /\ timer["tRC"] = 0
  /\ Go("IDLE", {}, FALSE)
  /\ counterRefresh' = counterRefresh - 1
RefreshDoneUncounted ==
  /\ currState = "AUTOREF_INIT" /\ timer["tRC"] = 0
  /\ Go("IDLE", {}, TRUE) /\ KeepCount

RefreshDone ==
  /\ currState = "AUTOREF_INIT" /\ timer["tRC"] = 0
  /\ Go("IDLE", {}, TRUE)
  /\ counterRefresh' = counterRefresh - 1

(* IDLE, with the latch up: write the mode register.                       *)
SetMode ==
  /\ currState = "IDLE" /\ counterRefresh = 0 /\ modeRegSet
  /\ Go("REGSET", {"tMRD"}, TRUE) /\ KeepCount
AwaitMode ==
  /\ currState = "REGSET" /\ timer["tMRD"] # 0
  /\ Go("REGSET", {"tMRD"}, FALSE) /\ KeepCount
ModeDone ==
  /\ currState = "REGSET" /\ timer["tMRD"] = 0
  /\ Go("IDLE", {}, FALSE) /\ KeepCount

(* IDLE, initialised: activate on request, or rest.                        *)
Activate ==
  /\ currState = "IDLE" /\ counterRefresh = 0 /\ ~modeRegSet /\ op
  /\ Go("ACTIVE", {}, FALSE) /\ KeepCount
Rest ==
  /\ currState = "IDLE" /\ counterRefresh = 0 /\ ~modeRegSet /\ ~op
  /\ Go("IDLE", {}, FALSE) /\ KeepCount

(* The default arm.                                                        *)
Deselect ==
  /\ currState = "ACTIVE"
  /\ Go("IDLE", {}, FALSE) /\ KeepCount

Clock ==
  \/ AwaitPower \/ PrechargeAll \/ AwaitPrecharge \/ PrechargeDone
  \/ Refresh \/ AwaitRefresh \/ RefreshDone
  \/ SetMode \/ AwaitMode \/ ModeDone \/ Activate \/ Rest \/ Deselect

(* The asynchronous reset, at any time.                                    *)
Reset ==
  /\ currState' = "INIT" /\ timerInit' = TInit /\ timer' = Period
  /\ counterRefresh' = Refreshes /\ modeRegSet' = FALSE
  /\ op' \in BOOLEAN

MemNext == Clock \/ Reset
MemSpec == MemInit /\ [][MemNext]_memVars

(* The clock does not stop.                                                *)
FairMemSpec == MemSpec /\ WF_memVars(Clock)

-----------------------------------------------------------------------------
(* The command on the lines in this cycle.                                 *)
IdleCommand == IF counterRefresh # 0 THEN "REF"
               ELSE IF modeRegSet THEN "MRS" ELSE IF op THEN "ACT" ELSE "NOP"
Command     == IF currState = "IDLE" THEN IdleCommand
               ELSE IF currState = "INIT" /\ timerInit = 0 THEN "PRE"
               ELSE IF currState = "ACTIVE" THEN "DESL" ELSE "NOP"

Initialised ==
  \/ currState \in {"REGSET", "ACTIVE"}
  \/ currState = "IDLE" /\ counterRefresh = 0 /\ ~modeRegSet

(* What the device makes of it. A refresh counts from its command on; the  *)
(* controller counts it when its time is up.                               *)
PowerStage == IF currState = "INIT" THEN "power"
              ELSE IF Initialised THEN "ready" ELSE "refresh"
PowerRefs  ==
  Refreshes - counterRefresh + (IF currState = "AUTOREF_INIT" THEN 1 ELSE 0)
PowerWait  == IF currState = "INIT" THEN timerInit
              ELSE IF currState = "PRECHARGE_ALL" THEN timer["tRP"]
              ELSE IF currState = "AUTOREF_INIT" THEN timer["tRC"]
              ELSE IF currState = "REGSET" THEN timer["tMRD"] ELSE 0

PU == INSTANCE PowerUp
        WITH command <- Command, stage <- PowerStage,
             refs <- PowerRefs, wait <- PowerWait

(* The controller brings the SDRAM up in the order and with the pauses it  *)
(* needs, after every reset, however early a request is pending: the order *)
(* is nowhere written down in the code but results from the refresh count, *)
(* the latch and four timers that are loaded a state ahead.                *)
FollowsPowerUp == PU!PowerSpec

(* What makes it so: a timer is full unless its own state is counting it,  *)
(* and the refreshes are all to come before that state, all done after it. *)
CountingState(t) == IF t = "tRP" THEN "PRECHARGE_ALL"
                    ELSE IF t = "tRC" THEN "AUTOREF_INIT" ELSE "REGSET"
MemInv ==
  /\ MemTypeOK
  /\ \A t \in Timers : timer[t] = Period[t] \/ currState = CountingState(t)
  /\ currState \in {"INIT", "PRECHARGE_ALL"} => counterRefresh = Refreshes
  /\ currState = "AUTOREF_INIT" => counterRefresh # 0
  /\ currState \in {"REGSET", "ACTIVE"} => counterRefresh = 0

(* Unless it is reset for ever, the controller ends up serving requests.   *)
(* A reset is an edge on which the initialisation timer is loaded.         *)
ComesUp == <>[]Initialised \/ []<>(timerInit = TInit)

-----------------------------------------------------------------------------
(* The theorems: the timers never wrap, and the controller brings the      *)
(* SDRAM up as PowerUp.tla asks, for every setting of the times and the    *)
(* number of refreshes.                                                    *)

(* The periods, one by one.                                                *)
LEMMA Periods ==
  /\ Period["tRP"] = TRP /\ Period["tRC"] = TRC /\ Period["tMRD"] = TMRD
  /\ \A t \in Timers : Period[t] \in Nat \ {0}
  /\ Period \in [Timers -> Nat]
BY TimerAssumption DEF Period, Timers

(* What one edge does to the timers, when none of those enabled is at zero.*)
LEMMA TimersStep ==
  ASSUME MemTypeOK, NEW next, NEW enabled, NEW latch, Go(next, enabled, latch),
         \A t \in Timers \cap enabled : timer[t] # 0
  PROVE  /\ timer' \in [Timers -> Nat]
         /\ \A t \in Timers : timer'[t] <= Period[t]
         /\ \A t \in Timers \ enabled : timer'[t] = Period[t]
         /\ \A t \in Timers \cap enabled : timer'[t] = timer[t] - 1
<1>1. \A t \in Timers : timer[t] \in Nat /\ timer[t] <= Period[t] /\ Period[t] \in Nat
  BY Periods DEF MemTypeOK
<1>2. timer' = [ t \in Timers |-> IF t \in enabled THEN timer[t] - 1 ELSE Period[t] ]
  BY DEF Go
<1>3. \A t \in Timers : timer'[t] \in Nat /\ timer'[t] <= Period[t]
  BY <1>1, <1>2, SMT
<1>4. QED
  BY <1>2, <1>3
 
(* The initialisation timer stops at zero.                                 *)
LEMMA InitTimerStep ==
  ASSUME MemTypeOK, NEW next, NEW enabled, NEW latch, Go(next, enabled, latch)
  PROVE  timerInit' \in 0 .. TInit
BY TimerAssumption, SMT DEF MemTypeOK, Go

(* The invariant is inductive: each action loads the timer of the state it *)
(* leads to and tests the one of the state it leaves.                      *)
LEMMA MemInvStep ==
  ASSUME MemInv, [MemNext]_memVars
  PROVE  MemInv'
<1> USE DEF Timers, CountingState, States, KeepCount
<1>1. ASSUME NEW next \in States, NEW enabled, NEW latch \in BOOLEAN,
             Go(next, enabled, latch),
             \A t \in Timers \cap enabled : timer[t] # 0 /\ next = CountingState(t),
             counterRefresh' \in 0 .. Refreshes,
             next \in {"INIT", "PRECHARGE_ALL"} => counterRefresh' = Refreshes,
             next = "AUTOREF_INIT" => counterRefresh' # 0,
             next \in {"REGSET", "ACTIVE"} => counterRefresh' = 0
      PROVE  MemInv'
  <2>1. MemTypeOK'
    BY <1>1, TimersStep, InitTimerStep DEF MemInv, MemTypeOK, Go
  <2>2. currState' = next
    BY <1>1 DEF Go
  <2>3. \A t \in Timers : timer'[t] = Period[t] \/ next = CountingState(t)
    BY <1>1, TimersStep DEF MemInv
  <2>4. QED
    BY <1>1, <2>1, <2>2, <2>3 DEF MemInv
<1>2. /\ counterRefresh \in 0 .. Refreshes /\ Refreshes \in Nat \ {0}
      /\ \A t \in Timers : timer[t] \in Nat
      /\ \A t \in Timers : currState # CountingState(t) => timer[t] # 0
  BY Periods, TimerAssumption DEF MemInv, MemTypeOK
<1>3. CASE AwaitPower
  BY <1>1, <1>2, <1>3 DEF AwaitPower, MemInv
<1>4. CASE PrechargeAll
  BY <1>1, <1>2, <1>4 DEF PrechargeAll, MemInv
<1>5. CASE AwaitPrecharge
  BY <1>1, <1>2, <1>5 DEF AwaitPrecharge, MemInv
<1>6. CASE PrechargeDone
  BY <1>1, <1>2, <1>6 DEF PrechargeDone, MemInv
<1>7. CASE Refresh
  BY <1>1, <1>2, <1>7 DEF Refresh, MemInv
<1>8. CASE AwaitRefresh
  BY <1>1, <1>2, <1>8 DEF AwaitRefresh, MemInv
<1>9. CASE RefreshDone
  <2>1. counterRefresh # 0 /\ counterRefresh' = counterRefresh - 1
    BY <1>9 DEF RefreshDone, MemInv
  <2>2. counterRefresh' \in 0 .. Refreshes
    BY <1>2, <2>1, SMT
  <2>3. QED
    BY <1>1, <1>9, <2>2 DEF RefreshDone
<1>10. CASE SetMode
  BY <1>1, <1>2, <1>10 DEF SetMode, MemInv
<1>11. CASE AwaitMode
  BY <1>1, <1>2, <1>11 DEF AwaitMode, MemInv
<1>12. CASE ModeDone
  BY <1>1, <1>2, <1>12 DEF ModeDone, MemInv
<1>13. CASE Activate
  BY <1>1, <1>2, <1>13 DEF Activate, MemInv
<1>14. CASE Rest
  BY <1>1, <1>2, <1>14 DEF Rest, MemInv
<1>15. CASE Deselect
  BY <1>1, <1>2, <1>15 DEF Deselect, MemInv
<1>16. CASE Reset
  <2>1. TInit \in 0 .. TInit /\ Refreshes \in 0 .. Refreshes
    BY TimerAssumption, SMT
  <2>2. \A t \in Timers : Period[t] <= Period[t]
    BY Periods, SMT
  <2>3. QED
    BY <1>16, <2>1, <2>2, Periods DEF Reset, MemInv, MemTypeOK
<1>17. CASE UNCHANGED memVars
  BY <1>17 DEF memVars, MemInv, MemTypeOK
<1>18. QED
  BY <1>3, <1>4, <1>5, <1>6, <1>7, <1>8, <1>9, <1>10, <1>11, <1>12, <1>13,
     <1>14, <1>15, <1>16, <1>17 DEF MemNext, Clock

(* So it holds in every state.                                             *)
LEMMA MemInvHolds == MemSpec => []MemInv
<1>1. MemInit => MemInv
  <2>1. TInit \in 0 .. TInit /\ Refreshes \in 0 .. Refreshes
    BY TimerAssumption, SMT
  <2>2. \A t \in Timers : Period[t] <= Period[t]
    BY Periods, SMT
  <2>3. QED
    BY <2>1, <2>2, Periods DEF MemInit, MemInv, MemTypeOK, States
<1>2. MemInv /\ [MemNext]_memVars => MemInv'
  BY MemInvStep
<1>3. QED
  BY <1>1, <1>2, PTL DEF MemSpec

(* No timer and no count runs below zero.                                  *)
THEOREM MemTypeCorrect == MemSpec => []MemTypeOK
<1>1. MemInv => MemTypeOK
  BY DEF MemInv
<1>2. QED
  BY <1>1, MemInvHolds, PTL

-----------------------------------------------------------------------------
(* The device's view of the controller, state by state: its stage, the     *)
(* refreshes it has had and the wait before its next command.              *)
PowerView ==
  /\ currState = "INIT" =>
       PowerStage = "power" /\ PowerRefs = 0 /\ PowerWait = timerInit
  /\ currState = "PRECHARGE_ALL" =>
       PowerStage = "refresh" /\ PowerRefs = 0 /\ PowerWait = timer["tRP"]
  /\ currState = "AUTOREF_INIT" =>
       /\ PowerStage = "refresh" /\ PowerWait = timer["tRC"]
       /\ PowerRefs = Refreshes - counterRefresh + 1
  /\ currState = "REGSET" =>
       PowerStage = "ready" /\ PowerRefs = Refreshes /\ PowerWait = timer["tMRD"]
  /\ currState = "ACTIVE" =>
       PowerStage = "ready" /\ PowerRefs = Refreshes /\ PowerWait = 0
  /\ currState = "IDLE" =>
       /\ PowerRefs = Refreshes - counterRefresh /\ PowerWait = 0
       /\ PowerStage = IF counterRefresh = 0 /\ ~modeRegSet THEN "ready" ELSE "refresh"

LEMMA MemInvRanges ==
  ASSUME MemInv
  PROVE  /\ TInit \in Nat \ {0} /\ Refreshes \in Nat \ {0}
         /\ timerInit \in 0 .. TInit /\ counterRefresh \in 0 .. Refreshes
         /\ \A t \in Timers : timer[t] \in Nat
         /\ {"tRP", "tRC", "tMRD"} = Timers
         /\ modeRegSet \in BOOLEAN /\ op \in BOOLEAN
BY TimerAssumption DEF MemInv, MemTypeOK, Timers

LEMMA PowerViewHolds == MemInv => PowerView
BY MemInvRanges, SMT DEF PowerView, PowerStage, PowerRefs, PowerWait, Initialised, MemInv

(* Every edge of the controller is a step the device allows: it answers    *)
(* the command of this state and waits as long as the next state will.     *)
LEMMA PowerStep ==
  ASSUME MemInv, MemInv', MemNext
  PROVE  PU!PowerNext
<1> USE MemInvRanges DEF KeepCount, Go, PowerView
<1>1. Command' \in PU!Commands
  BY DEF Command, IdleCommand, PU!Commands
<1>2. PowerView /\ PowerView'
  BY PowerViewHolds, PTL
<1>3. \A s, r, w : PowerStage' = s /\ PowerRefs' = r /\ PowerWait' = w
                     => PU!Answer(s, r, w)
  BY <1>1 DEF PU!Answer
<1>4. CASE AwaitPower
  <2>1. Command = "NOP"
    BY <1>4 DEF AwaitPower, Command
  <2>2. PU!Answer(PowerStage, PowerRefs, PowerWait - 1) /\ PowerWait # 0
    BY <1>2, <1>3, <1>4 DEF AwaitPower
  <2>3. QED
    BY <2>1, <2>2 DEF PU!Pass, PU!PowerNext
<1>5. CASE PrechargeAll
  <2>1. Command = "PRE" /\ PowerStage = "power" /\ PowerWait = 0
    BY <1>2, <1>5 DEF PrechargeAll, Command
  <2>2. PU!Answer("refresh", 0, TRP - 1)
    BY <1>2, <1>3, <1>5, Periods DEF PrechargeAll, MemInv, CountingState
  <2>3. QED
    BY <2>1, <2>2 DEF PU!Precharge, PU!PowerNext
<1>6. CASE AwaitPrecharge
  <2>1. Command = "NOP"
    BY <1>6 DEF AwaitPrecharge, Command
  <2>2. PU!Answer(PowerStage, PowerRefs, PowerWait - 1) /\ PowerWait # 0
    BY <1>2, <1>3, <1>6 DEF AwaitPrecharge, MemInv
  <2>3. QED
    BY <2>1, <2>2 DEF PU!Pass, PU!PowerNext
<1>7. CASE PrechargeDone
  <2>1. Command = "NOP" /\ PowerWait = 0
    BY <1>2, <1>7 DEF PrechargeDone, Command
  <2>2. PU!Answer(PowerStage, PowerRefs, 0)
    BY <1>2, <1>3, <1>7 DEF PrechargeDone, MemInv
  <2>3. QED
    BY <2>1, <2>2 DEF PU!Pass, PU!PowerNext
<1>8. CASE Refresh
  <2>1. Command = "REF" /\ PowerStage = "refresh" /\ PowerWait = 0
    BY <1>2, <1>8 DEF Refresh, Command, IdleCommand
  <2>2. PU!Answer("refresh", PowerRefs + 1, TRC - 1)
    BY <1>2, <1>3, <1>8, Periods DEF Refresh, MemInv, CountingState
  <2>3. QED
    BY <2>1, <2>2 DEF PU!Refresh, PU!PowerNext
<1>9. CASE AwaitRefresh
  <2>1. Command = "NOP"
    BY <1>9 DEF AwaitRefresh, Command
  <2>2. PU!Answer(PowerStage, PowerRefs, PowerWait - 1) /\ PowerWait # 0
    BY <1>2, <1>3, <1>9 DEF AwaitRefresh, MemInv
  <2>3. QED
    BY <2>1, <2>2 DEF PU!Pass, PU!PowerNext
<1>10. CASE RefreshDone
  <2>1. Command = "NOP" /\ PowerWait = 0
    BY <1>2, <1>10 DEF RefreshDone, Command
  <2>2. PU!Answer(PowerStage, PowerRefs, 0)
    BY <1>2, <1>3, <1>10 DEF RefreshDone, MemInv
  <2>3. QED
    BY <2>1, <2>2 DEF PU!Pass, PU!PowerNext
<1>11. CASE SetMode
  <2>1. /\ Command = "MRS" /\ PowerStage = "refresh" /\ PowerWait = 0
        /\ PowerRefs = Refreshes
    BY <1>2, <1>11 DEF SetMode, Command, IdleCommand
  <2>2. PU!Answer("ready", PowerRefs, TMRD - 1)
    BY <1>2, <1>3, <1>11, <2>1, Periods DEF SetMode, MemInv, CountingState
  <2>3. QED
    BY <2>1, <2>2 DEF PU!SetMode, PU!PowerNext
<1>12. CASE AwaitMode
  <2>1. Command = "NOP"
    BY <1>12 DEF AwaitMode, Command
  <2>2. PU!Answer(PowerStage, PowerRefs, PowerWait - 1) /\ PowerWait # 0
    BY <1>2, <1>3, <1>12 DEF AwaitMode, MemInv
  <2>3. QED
    BY <2>1, <2>2 DEF PU!Pass, PU!PowerNext
<1>13. CASE ModeDone
  <2>1. Command = "NOP" /\ PowerWait = 0
    BY <1>2, <1>13 DEF ModeDone, Command
  <2>2. PU!Answer(PowerStage, PowerRefs, 0)
    BY <1>2, <1>3, <1>13 DEF ModeDone, MemInv
  <2>3. QED
    BY <2>1, <2>2 DEF PU!Pass, PU!PowerNext
<1>14. CASE Activate
  <2>1. Command = "ACT" /\ PowerStage = "ready" /\ PowerWait = 0
    BY <1>2, <1>14 DEF Activate, Command, IdleCommand
  <2>2. PU!Answer("ready", PowerRefs, 0)
    BY <1>2, <1>3, <1>14 DEF Activate
  <2>3. QED
    BY <2>1, <2>2 DEF PU!Use, PU!PowerNext
<1>15. CASE Rest
  <2>1. Command = "NOP" /\ PowerWait = 0
    BY <1>2, <1>15 DEF Rest, Command, IdleCommand
  <2>2. PU!Answer(PowerStage, PowerRefs, 0)
    BY <1>2, <1>3, <1>15 DEF Rest, MemInv
  <2>3. QED
    BY <2>1, <2>2 DEF PU!Pass, PU!PowerNext
<1>16. CASE Deselect
  <2>1. Command = "DESL" /\ PowerWait = 0
    BY <1>2, <1>16 DEF Deselect, Command
  <2>2. PU!Answer(PowerStage, PowerRefs, 0)
    BY <1>2, <1>3, <1>16 DEF Deselect, MemInv
  <2>3. QED
    BY <2>1, <2>2 DEF PU!Pass, PU!PowerNext
<1>17. CASE Reset
  <2>1. PU!Answer("power", 0, TInit)
    BY <1>2, <1>3, <1>17 DEF Reset, MemInv
  <2>2. QED
    BY <2>1 DEF PU!PowerOn, PU!PowerNext
<1>18. QED
  BY <1>4, <1>5, <1>6, <1>7, <1>8, <1>9, <1>10, <1>11, <1>12, <1>13, <1>14,
     <1>15, <1>16, <1>17 DEF MemNext, Clock

(* The controller brings the SDRAM up as the device asks (PowerUp.tla).    *)
THEOREM RefinesPowerUp == MemSpec => FollowsPowerUp
<1>1. MemInit /\ MemInv => PU!PowerInit
  <2>1. Command \in PU!Commands
    BY DEF Command, IdleCommand, PU!Commands
  <2>2. QED
    BY <2>1, PowerViewHolds, MemInvRanges DEF MemInit, MemInv, PU!PowerInit, PowerView
<1>2. MemInv /\ MemInv' /\ [MemNext]_memVars => [PU!PowerNext]_(PU!powerVars)
  <2>1. UNCHANGED memVars => UNCHANGED PU!powerVars
    BY DEF memVars, PU!powerVars, Command, IdleCommand, PowerStage, PowerRefs,
       PowerWait, Initialised
  <2>2. QED
    BY <2>1, PowerStep
<1>3. QED
  BY <1>1, <1>2, MemInvHolds, PTL DEF MemSpec, FollowsPowerUp, PU!PowerSpec
=============================================================================
