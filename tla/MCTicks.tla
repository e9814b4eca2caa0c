------------------------------- MODULE MCTicks -------------------------------
(***************************************************************************)
(* What interrupts and the timer's tick disturb, checked for eight parts   *)
(* of the support package that share no state: interrupt dispatch, the     *)
(* start of a program, the alarms, the time of day, the timestamp,         *)
(* profiling, the log's port and the busy sleep.  One part runs in each    *)
(* behaviour and the others keep their initial states, so that the parts'  *)
(* states add up and do not multiply.                                      *)
(***************************************************************************)
EXTENDS Integers, Sequences

CONSTANTS \* interrupts
          NIrq, Handler, Null, Retracts, CallsInIsr, ExceptionHandler, ExtraInfo,
          MaxRaises, MaxFaults, MaxCritical,
          \* the start of a program
          Systems, IntMax, DefaultTimeout, CpuFreq, Periods, Objects,
          \* the alarms
          Alarm, AlarmWord, Intervals, Repeats, Careful,
          \* the time of day
          US, TickWord, Rates, MaxTicks, MaxSec,
          \* the timestamp
          PieceWord, Pieces,
          \* profiling
          FunctionAddrs, Callers, CallGraph, HashSize, SlabEntries, TextBytes,
          BucketBytes, MaxCalls, MaxSamples,
          \* the log's port
          EchoLen, Interval, ReportTicks, Levels, Depth, MaxLen, MaxWrites, LogTicks,
          \* the busy sleep
          LoopWord, CountMax, CyclesPerUs, CyclesPerLoop, Reloads, Delays

VARIABLES part,
          pie, ienable, active, mask, table, raised, raises, faults, stack,
          at, inits, stage, bootPie, bootIenable, bootActive, handlers,
          control, asks, rate, alarm, timeout, build, built, gone, code, told,
          nticks, links, time, rollover, cursor, due,
          dayTicks, tickRate, resettime, setTo, setAt,
          registered, count, going, snapshot, period, elapsed, stamping,
          next, read, asked, result, torn,
          heads, mem, slab, heap, needInit, timerUp, starts, samples,
          irqOn, profiled, frame, called,
          level, loading, queued, shown, dropped, running, todo, ready, writes,
          beats, ticks, reportIn,
          delay, us, big, long, reloads, register, sleep, loops

\* Devices may negate a request that was not served yet, and an instruction
\* exception handler takes what the entry finds no request for.
Irqs == INSTANCE Interrupts

\* The hardware of this repository, without a timer, and others.
Start == INSTANCE Boot WITH
          todo <- inits, step <- stage, pie <- bootPie, ienable <- bootIenable,
          active <- bootActive, table <- handlers, Timers <- Periods
MCSystems == {<<"uart">>, <<"timer", "uart">>, <<"uart", "timer">>, <<"timer">>,
              <<"spare timer", "small uart">>}
MCPeriods == {[period |-> 1, units |-> "ms"], [period |-> 2000, units |-> "ms"],
              [period |-> 1500000, units |-> "us"], [period |-> 2, units |-> "s"],
              [period |-> 51, units |-> "clocks"]}

\* The callbacks may return the Repeats and start an alarm with the Intervals.
Timers == INSTANCE Alarms WITH
          List <- "list", Null <- "null", Word <- AlarmWord, Periods <- Repeats

\* An interval whose ticks, with the one under way, the counter does not go
\* through.
BelowWrap == \A n \in Intervals : n + 1 < AlarmWord

\* Rates that divide a second, and ticks whose product fits the word.
Clock == INSTANCE TimeOfDay WITH nticks <- dayTicks, Word <- TickWord

\* The counter of 64 bits; that of 32 has the first two of its pieces.
Stamp == INSTANCE Timestamp WITH
          running <- stamping, Program <- "program", Handler <- "handler",
          Word <- PieceWord

\* The functions with their callers, and calls enough to interrupt each other.
Calls == INSTANCE Profile WITH
          running <- profiled, Program <- "program", Handler <- "handler",
          Functions <- FunctionAddrs, Buckets <- HashSize
MCCallGraph == {<<1, "a">>, <<1, "b">>, <<3, "a">>}

Log == INSTANCE LogPort WITH
          stage <- loading, Program <- "program", Handler <- "handler",
          Plain <- "plain", CtrlD <- "ctrl-d", Nul <- "nul",
          NewLine <- "newline", Return <- "return", Boot <- "boot",
          Beat <- "beat", Report <- "report", Escaped <- "escaped",
          MaxTicks <- LogTicks
MCLevels == {-1, 0, 1, 2, 3}

\* A second of whole ticks, which the word holds.
WholeTicks == \A r \in Rates : US % r = 0 /\ MaxTicks * (US \div r) < TickWord

\* The clock and the core of this repository, and every delay of a six-bit word.
Sleep == INSTANCE BusySleep WITH
          asked <- delay, pc <- sleep, Word <- LoopWord, IntMax <- CountMax
MCDelays == 0 .. LoopWord - 1

ASSUME TicksAssumption ==
    /\ Irqs!InterruptAssumption /\ (ExtraInfo \/ ~Retracts) /\ ~CallsInIsr
    /\ Start!BootAssumption /\ Systems # {}
    /\ Timers!AlarmAssumption /\ BelowWrap /\ Careful
    /\ Clock!TimeAssumption /\ WholeTicks
    /\ Stamp!TimestampAssumption /\ Log!LogPortAssumption
    /\ Sleep!SleepAssumption /\ Reloads # {} /\ Delays # {}

\* The buckets of the histogram fill the text.
ASSUME OthersAssumption ==
    Calls!ProfileAssumption /\ TextBytes % BucketBytes = 0

irqVars == <<pie, ienable, active, mask, table, raised, raises, faults, stack>>
bootVars == <<at, inits, stage, bootPie, bootIenable, bootActive, handlers,
              control, asks, rate, alarm, timeout, build, built, gone, code, told>>
timerVars == <<nticks, links, time, rollover, cursor, due>>
clockVars == <<dayTicks, tickRate, resettime, setTo, setAt>>
stampVars == <<registered, count, going, snapshot, period, elapsed, stamping,
               next, read, asked, result, torn>>
profileVars == <<heads, mem, slab, heap, needInit, timerUp, starts, samples,
                 irqOn, profiled, frame, called>>
logVars == <<level, loading, queued, shown, dropped, running, todo, ready, writes,
             beats, ticks, reportIn>>
sleepVars == <<delay, us, big, long, reloads, register, sleep, loops>>
MCVars == <<part, irqVars, bootVars, timerVars, clockVars, stampVars,
            profileVars, logVars, sleepVars>>

Parts == {"interrupts", "boot", "alarms", "clock", "timestamp", "profile", "log",
          "sleep"}

\* A step of part p leaves the others alone.
Keeps(q) == CASE q = "interrupts" -> UNCHANGED irqVars
              [] q = "boot" -> UNCHANGED bootVars
              [] q = "alarms" -> UNCHANGED timerVars
              [] q = "clock" -> UNCHANGED clockVars
              [] q = "timestamp" -> UNCHANGED stampVars
              [] q = "profile" -> UNCHANGED profileVars
              [] q = "log" -> UNCHANGED logVars
              [] q = "sleep" -> UNCHANGED sleepVars

By(p, step) == /\ part = p /\ step /\ UNCHANGED part
               /\ \A q \in Parts \ {p} : Keeps(q)

\* mcount is called for the arcs of the call graph.
InCallGraph ==
    \A t \in DOMAIN frame' :
        frame'[t].self # Calls!Nil => <<frame'[t].self, frame'[t].from>> \in CallGraph

MCInit ==
    /\ part \in Parts
    /\ Irqs!Init /\ Start!Init /\ Timers!Init /\ Clock!Init /\ Stamp!Init /\ Calls!Init
    /\ Log!Init /\ Sleep!Init
    /\ part # "boot" => /\ inits = CHOOSE s \in Systems : TRUE
                        /\ bootIenable = {} /\ control = {} /\ asks = {} /\ build = "none"
    /\ part # "timestamp" => registered
    /\ part # "log" => level = 0
    /\ part # "sleep" => /\ delay = CHOOSE d \in Delays : TRUE
                         /\ reloads = CHOOSE r \in Reloads : TRUE

MCNext == \/ By("interrupts", Irqs!Next) \/ By("boot", Start!Next)
          \/ By("alarms", Timers!Next)
          \/ By("clock", Clock!Next) \/ By("timestamp", Stamp!Next)
          \/ By("profile", Calls!Next /\ InCallGraph) \/ By("log", Log!Next)
          \/ By("sleep", Sleep!Next)

MCSpec == MCInit /\ [][MCNext]_MCVars

-----------------------------------------------------------------------------
\* Type invariant of the eight parts.
TypeOK == /\ part \in Parts
          /\ Irqs!TypeOK /\ Start!TypeOK /\ Timers!TypeOK /\ Clock!TypeOK /\ Stamp!TypeOK
          /\ Calls!TypeOK /\ Log!TypeOK /\ Sleep!TypeOK

\* Interrupts nest by priority, outside of every critical section, and a
\* handler is called only for a request that its device makes at that moment,
\* with the context it was registered with; and from the first moment on there
\* is one to call.
IsrsNest ==
    /\ [](Start!HandlerFound /\ Start!ReadyForMain)
    /\ [](Irqs!CalledWithOwnContext /\ Irqs!CriticalKeepsOff /\ Irqs!OnlyHigher)
    /\ Irqs!CalledWhenRaised /\ Irqs!SkipsOnlyFaults

\* No alarm runs early, late or never, and the list of alarms stays a ring
\* whatever callbacks do to it in the middle of a walk; the UART's, which can
\* only be started where there is a clock, is the one it counts by.
AlarmsOnTime == /\ Timers!WellLinked /\ Timers!ExpiresWhenDue /\ Timers!NoneMissed
                /\ Start!CountsOnlyByAlarm

\* Time is measured right in each of its three forms: the clock reads what it
\* was set to plus the time since, a timestamp is the time of its snapshot,
\* and a sleep is short by no more than the cycles its loops leave out.
TimesRead == Clock!ReadsElapsed /\ Stamp!ReadsElapsed /\ Sleep!ShortByDropped

\* Profiling counts every call of the program once, whatever interrupts it,
\* with no more than two copies of an entry and nothing dropped from a list.
ArcsCounted == /\ Calls!NothingDropped /\ Calls!CopiesBounded
               /\ Calls!ProgramCounted /\ Calls!SampledInHistogram

\* Of the log, a handler's message arrives whole, the program loses at most a
\* character for each tick, and the character that ends a terminal's
\* connection is never sent.
LogWhole == Log!NoCtrlD /\ Log!HandlerWhole /\ Log!LostPerTick /\ Log!ByLevel
=============================================================================
