----------------------------- MODULE MCProgress -----------------------------
(***************************************************************************)
(* Both UART drivers on the one device, in small instances: the interrupt- *)
(* driven driver with any number of bytes one way at a time, and a few in  *)
(* both directions at once, and the polled driver both ways.  With bytes   *)
(* in flight both ways for ever the numbers of the two directions          *)
(* multiply, and nothing in the driver depends on both.                    *)
(*                                                                         *)
(* What must come to an end is checked for three more parts of the support *)
(* package, which share no state with it or each other: interrupt          *)
(* dispatch, the walk of the alarms and the log's port.  One part runs in  *)
(* each behaviour and the others keep their initial states, so that the    *)
(* parts' states add up and do not multiply.                               *)
(***************************************************************************)
EXTENDS JtagUart

CONSTANTS Parts, \* those that are checked
          Uses,  \* of the values of use, those that are checked
          Few    \* the highest number of a byte when both directions are used

VARIABLES use,   \* the driver the system is built with, and its directions
          left, moved, nonblock  \* of the polled driver

Polled == INSTANCE JtagUartPolled

ASSUME /\ Uses \subseteq {"write", "read", "both", "polled"} /\ Few \in Nat
       /\ Polled!PolledAssumption /\ Tx!StreamAssumption /\ Rx!StreamAssumption

polledOnly == <<left, moved, nonblock>>
bufferedOnly == <<rings, irqEnable, host, call>>
MCUartVars == <<vars, polledOnly, use>>

\* The drivers start alike but for the interrupts they enable.
MCUartInit ==
    /\ use \in Uses
    /\ left = 0 /\ moved = FALSE /\ nonblock = FALSE
    /\ IF use = "polled"
         THEN /\ Polled!Init
              /\ rxBuf = [i \in Index |-> 0] /\ rxIn = 0 /\ rxOut = 0
              /\ txBuf = [i \in Index |-> 0] /\ txIn = 0 /\ txOut = 0
              /\ irqEnable = {} /\ timeout = IntMax /\ hostInactive = 0
              /\ call = NoCall
         ELSE Init

Permitted ==
    CASE use = "write" -> hostNext' = hostNext /\ pc' \notin Reading
      [] use = "read" -> pc' \notin Writing
      [] use = "both" -> hostNext' \in hostNext .. Few /\ putNext' \in putNext .. Few

Buffered(step) == use # "polled" /\ step /\ Permitted /\ UNCHANGED <<polledOnly, use>>
PolledDoes(step) == use = "polled" /\ step /\ UNCHANGED <<bufferedOnly, use>>

MCUartNext == Buffered(Next) \/ PolledDoes(Polled!Next)

-----------------------------------------------------------------------------
VARIABLES part,
          pie, ienable, active, mask, table, raised, raises, faults, stack,
          nticks, links, time, rollover, cursor, due,
          level, stage, queued, shown, dropped, running, todo, ready, writes,
          beats, ticks, reportIn

\* Devices hold a request until it is served.
Irqs == INSTANCE Interrupts WITH
          NIrq <- 2, Handler <- {"h"}, Null <- "null", Retracts <- FALSE,
          CallsInIsr <- FALSE, ExceptionHandler <- TRUE, ExtraInfo <- FALSE,
          MaxRaises <- 3, MaxFaults <- 1, MaxCritical <- 1

Timers == INSTANCE Alarms WITH
          Alarm <- {"a1", "a2"}, List <- "list", Null <- "null", Word <- 4,
          Intervals <- {0, 2}, Periods <- {0, 1, 3}, Careful <- TRUE

Log == INSTANCE LogPort WITH
          Program <- "program", Handler <- "handler",
          Plain <- "plain", CtrlD <- "ctrl-d", Nul <- "nul",
          NewLine <- "newline", Return <- "return", Boot <- "boot",
          Beat <- "beat", Report <- "report", Escaped <- "escaped",
          EchoLen <- 3, Interval <- 1, ReportTicks <- 1, Levels <- {3},
          Depth <- 2,
          MaxLen <- 2, MaxWrites <- 2, MaxTicks <- 2

AllParts == {"uart", "interrupts", "alarms", "log"}

ASSUME /\ Irqs!InterruptAssumption /\ Timers!AlarmAssumption
       /\ Log!LogPortAssumption
       /\ Parts \subseteq AllParts

irqVars == <<pie, ienable, active, mask, table, raised, raises, faults, stack>>
timerVars == <<nticks, links, time, rollover, cursor, due>>
logVars == <<level, stage, queued, shown, dropped, running, todo, ready, writes,
             beats, ticks, reportIn>>
MCVars == <<MCUartVars, part, irqVars, timerVars, logVars>>

\* A step of part p leaves the others alone.
Keeps(q) == CASE q = "uart" -> UNCHANGED MCUartVars
              [] q = "interrupts" -> UNCHANGED irqVars
              [] q = "alarms" -> UNCHANGED timerVars
              [] q = "log" -> UNCHANGED logVars

By(p, step) == /\ part = p /\ step /\ UNCHANGED part
               /\ \A q \in AllParts \ {p} : Keeps(q)

MCInit ==
    /\ part \in Parts
    /\ MCUartInit
    /\ part # "uart" => use = "polled" /\ connected
    /\ Irqs!Init /\ Timers!Init /\ Log!Init

MCNext == \/ By("uart", MCUartNext) \/ By("interrupts", Irqs!Next)
          \/ By("alarms", Timers!Next) \/ By("log", Log!Next)

\* The processor runs what it is in the middle of, a terminal or host that is
\* there takes what it is sent, handlers return, and stop being interruptible
\* before they do.
Fairness ==
    /\ WF_MCVars(By("uart", Buffered(Foreground)))
    /\ WF_MCVars(By("uart", Buffered(IsrPass)))
    /\ WF_MCVars(By("uart", Buffered(Timeout)))
    /\ WF_MCVars(By("uart", Buffered(HostTake /\ KeepDriver)))
    /\ WF_MCVars(By("uart", Buffered(HostPoll /\ KeepDriver)))
    /\ WF_MCVars(By("uart", PolledDoes(Polled!Loop)))
    /\ WF_MCVars(By("uart", PolledDoes(Polled!HostStep(HostTake))))
    /\ WF_MCVars(By("interrupts", Irqs!Finishing))
    /\ WF_MCVars(By("interrupts", Irqs!Take))
    /\ SF_MCVars(By("interrupts", Irqs!NonInterruptible))
    /\ SF_MCVars(By("interrupts", Irqs!IsrReturns))
    /\ WF_MCVars(By("alarms", Timers!Walk))
    /\ WF_MCVars(By("log", Log!Test \/ Log!Put \/ Log!Resume))
    /\ WF_MCVars(By("log", Log!Drain))

MCSpec == MCInit /\ [][MCNext]_MCVars
MCFairSpec == MCSpec /\ Fairness

-----------------------------------------------------------------------------
\* Type invariant of the device and both drivers.
UartTypeOK == IF use = "polled" THEN Polled!TypeOK ELSE TypeOK

\* No lost wake-up in either direction: bytes wait in a ring only while the
\* interrupt that moves them is enabled or a call is about to enable it, and
\* the driver's copy of the enables is what the device has.
NoneStranded ==
    use # "polled" => TxNotStranded /\ RxNotStranded /\ EnablesAgree

\* Either driver is a byte stream from the program to the host and another one
\* back: nothing lost, doubled or out of order, however the calls, the
\* interrupt routine, the alarm and the host interleave.  The polled driver
\* leaves the rings empty, so that its streams are the two FIFOs.
AreStreams == TxIsAStream /\ RxIsAStream

\* Calls come to an end: a write or close of either driver when a terminal
\* drains it, one of the buffered driver also when the host has gone, and a
\* read once the host has gone.
UartCallsEnd == CallsEnd /\ ReadsEnd /\ Polled!WriteEnds

\* Every call of a UART driver returns, and what was written arrives at a host
\* that stays.
CallsEndAndArrive == UartCallsEnd /\ WrittenArrives

\* Whatever interrupts it, the program runs again: the dispatch loop finds no
\* request left, the walk of the alarms meets the list's head, and, as long as
\* the host reads, every message of the log ends, the handler's that keeps the
\* interrupts off included.
ProgramResumes == Irqs!ProgramResumes /\ Timers!TickEnds /\ Log!MessagesEnd
=============================================================================
