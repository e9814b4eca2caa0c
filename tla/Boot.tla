-------------------------------- MODULE Boot --------------------------------
(***************************************************************************)
(* From alt_main to main and out of it, in any build of the support        *)
(* package: the interrupt controller, the processor's interrupt enable,    *)
(* the drivers in the order that was generated for the system, the         *)
(* constructors, main, and the end.  Interrupts are on before the first    *)
(* driver is initialised, and a reset of the processor resets neither the  *)
(* register of enabled interrupts nor the devices, which may be asking     *)
(* since the program before.                                               *)
(***************************************************************************)
EXTENDS Integers, Sequences

CONSTANTS Systems,        \* orders in which alt_sys_init initialises devices
          IntMax,         \* the largest int
          DefaultTimeout,
          CpuFreq,        \* in Hz, the processor's and the timers'
          Timers,         \* the period of the system clock, and its unit
          Objects         \* constructors and destructors of the program

Device == {"uart", "timer"}
Quiet == {"small uart", "spare timer"}

BootAssumption ==
    /\ Systems \subseteq Seq(Device \cup Quiet)
    /\ \A s \in Systems : \A i, j \in 1 .. Len(s) : s[i] = s[j] => i = j
    /\ IntMax \in Nat /\ DefaultTimeout \in 0 .. IntMax - 1 /\ Objects \in Nat
    /\ CpuFreq \in Nat \ {0}
    /\ Timers \subseteq [period : Nat \ {0}, units : {"us", "ms", "s", "clocks"}]

VARIABLES at,              \* where the processor is
          todo, step,      \* the devices to initialise, and where in the first of them
          pie, ienable,    \* the processor's interrupt enables
          active,          \* alt_irq_active
          table,           \* the devices with an entry in alt_irq
          control,         \* the devices whose own interrupt is enabled
          asks,            \* the devices with something to interrupt for
          rate,            \* _alt_tick_rate
          alarm, timeout,  \* the UART's alarm is started; its timeout
          build,           \* the build's exit: "none", "clean" or "short"
          built, gone,     \* objects constructed and destroyed, in order
          code, told       \* what main returned, and what the simulator was told

Interrupting == <<pie, ienable, active, table>>
Host == <<rate, alarm, timeout>>
End == <<build, gone, code, told>>
vars == <<at, todo, step, Interrupting, control, asks, Host, built, End>>

\* Without an end (ALT_NO_EXIT, as generated here), with exit, and with _exit
\* for exit (ALT_NO_CLEAN_EXIT).
Builds == {"none", "clean", "short"}

Init ==
    /\ at = "alt_irq_init" /\ todo \in Systems /\ step = "device"
    /\ pie = FALSE /\ ienable \in SUBSET Device
    /\ active = {} /\ table = {}
    /\ control \in SUBSET Device /\ asks \in SUBSET Device
    /\ rate = 0 /\ alarm = FALSE /\ timeout = DefaultTimeout
    /\ build \in Builds /\ built = <<>> /\ gone = <<>>
    /\ code = 0 /\ told = "nothing"

Goto(next) == at' = next

-----------------------------------------------------------------------------
\* altera_nios2_gen2_irq_init, and then alt_irq_cpu_enable_interrupts.
IenableKept == ienable
IenableAtInit == {}

IrqInit ==
    /\ at = "alt_irq_init" /\ Goto("enable")
    /\ ienable' = IenableAtInit
    /\ UNCHANGED <<todo, step, pie, active, table, control, asks, Host, built, End>>

CpuEnable ==
    /\ at = "enable" /\ Goto("alt_sys_init")
    /\ pie' = TRUE
    /\ UNCHANGED <<todo, step, ienable, active, table, control, asks, Host, built, End>>

\* The system clock's ticks in a second, rounded up.
TimerFreqDown(t) ==
    CASE t.units = "us" -> 1000000 \div t.period
      [] t.units = "ms" -> 1000 \div t.period
      [] t.units = "s" -> 1
      [] OTHER -> CpuFreq \div t.period
TimerFreq(t) ==
    CASE t.units = "us" -> (1000000 + t.period - 1) \div t.period
      [] t.units = "ms" -> (1000 + t.period - 1) \div t.period
      [] t.units = "s" -> 1
      [] OTHER -> (CpuFreq + t.period - 1) \div t.period

InDriver(s) == at = "alt_sys_init" /\ todo # <<>> /\ step = s

\* The UART's small driver has nothing to initialise, nor a timer that is not
\* the system clock, but for the timestamp's note of it.
PassDevice ==
    /\ InDriver("device") /\ Head(todo) \in Quiet /\ todo' = Tail(todo)
    /\ UNCHANGED <<at, step, Interrupting, control, asks, Host, built, End>>

\* The first thing each other driver's initialisation does to its device.
EnableDevice ==
    /\ InDriver("device") /\ Head(todo) \in Device /\ step' = "register"
    /\ control' = control \cup {Head(todo)}
    /\ IF Head(todo) = "timer" /\ rate = 0
       THEN \E t \in Timers : rate' = TimerFreq(t)
       ELSE UNCHANGED rate
    /\ UNCHANGED <<at, todo, Interrupting, asks, alarm, timeout, built, End>>

\* alt_ic_isr_register or alt_irq_register, with interrupts off; the timer's
\* initialisation is over after it.
TableAfter(d) == table \cup {d}

Register ==
    /\ InDriver("register")
    /\ table' = TableAfter(Head(todo))
    /\ active' = active \cup {Head(todo)} /\ ienable' = active'
    /\ IF Head(todo) = "uart" THEN step' = "alarm" /\ UNCHANGED todo
                              ELSE step' = "device" /\ todo' = Tail(todo)
    /\ UNCHANGED <<at, pie, control, asks, Host, built, End>>

\* alt_alarm_start fails while there is no system clock.
TimeoutKept == timeout
TimeoutWithoutAlarm == IntMax

StartAlarm ==
    /\ InDriver("alarm") /\ step' = "device" /\ todo' = Tail(todo)
    /\ alarm' = (rate # 0)
    /\ timeout' = IF alarm' THEN timeout ELSE TimeoutWithoutAlarm
    /\ UNCHANGED <<at, Interrupting, control, asks, rate, built, End>>

DriversDone ==
    /\ at = "alt_sys_init" /\ todo = <<>> /\ Goto("_do_ctors")
    /\ UNCHANGED <<todo, step, Interrupting, control, asks, Host, built, End>>

\* _do_ctors and _do_dtors walk their tables from the end to the start.
FromEndShort(done) == Objects - Len(done) > 1
MoreOf(done) == Objects - Len(done) > 0
OneMore(done) == Append(done, Objects - Len(done))

Construct ==
    /\ at = "_do_ctors" /\ MoreOf(built)
    /\ built' = OneMore(built)
    /\ UNCHANGED <<at, todo, step, Interrupting, control, asks, Host, End>>

CallMain ==
    /\ at = "_do_ctors" /\ ~MoreOf(built) /\ Goto("main")
    /\ UNCHANGED <<todo, step, Interrupting, control, asks, Host, built, End>>

\* With ALT_NO_EXIT main returns into the endless loop of the start-up code.
MainReturns ==
    /\ at = "main" /\ Goto(IF build = "none" THEN "spin" ELSE "close")
    /\ code' \in {0, 1}
    /\ UNCHANGED <<todo, step, Interrupting, control, asks, Host, build, built, gone, told>>

\* Standard output is closed first, which waits for its device, interrupts on,
\* and keeps the descriptor; then exit destroys the objects, if atexit told it,
\* and _exit spins, interrupts on still.
CloseOutput ==
    /\ at = "close" /\ Goto(IF build = "clean" THEN "exit" ELSE "_exit")
    /\ UNCHANGED <<todo, step, Interrupting, control, asks, Host, built, End>>

Destroy ==
    /\ at = "exit" /\ MoreOf(gone)
    /\ gone' = OneMore(gone)
    /\ UNCHANGED <<at, todo, step, Interrupting, control, asks, Host, build, built, code, told>>

Destroyed ==
    /\ at = "exit" /\ ~MoreOf(gone) /\ Goto("_exit")
    /\ UNCHANGED <<todo, step, Interrupting, control, asks, Host, built, End>>

\* alt_sim_halt
Verdict == IF code = 0 THEN "pass" ELSE "fail"

Exit ==
    /\ at = "_exit" /\ Goto("spin")
    /\ told' = Verdict
    /\ UNCHANGED <<todo, step, Interrupting, control, asks, Host, build, built, gone, code>>

\* alt_ic_irq_enable, alt_ic_irq_disable and alt_ic_irq_enabled, by main.
IrqEnabled(d) == d \in ienable

IrqEnable(d) ==
    /\ at = "main" /\ d \in table
    /\ active' = active \cup {d} /\ ienable' = active'
    /\ UNCHANGED <<at, todo, step, pie, table, control, asks, Host, built, End>>

IrqDisable(d) ==
    /\ at = "main"
    /\ active' = active \ {d} /\ ienable' = active'
    /\ UNCHANGED <<at, todo, step, pie, table, control, asks, Host, built, End>>

-----------------------------------------------------------------------------
\* A device asks at any time.  An interrupt without an entry in the table jumps
\* through a null pointer; a handler that is called serves its device.
Ask(d) ==
    /\ d \notin asks /\ asks' = asks \cup {d}
    /\ UNCHANGED <<at, todo, step, Interrupting, control, Host, built, End>>

Interrupt(d) ==
    /\ at # "lost" /\ pie /\ d \in asks \cap control \cap ienable
    /\ IF d \in table THEN asks' = asks \ {d} /\ UNCHANGED at
                      ELSE Goto("lost") /\ UNCHANGED asks
    /\ UNCHANGED <<todo, step, Interrupting, control, Host, built, End>>

Next ==
    \/ IrqInit \/ CpuEnable \/ PassDevice \/ EnableDevice \/ Register \/ StartAlarm
    \/ DriversDone \/ Construct \/ CallMain
    \/ MainReturns \/ CloseOutput \/ Destroy \/ Destroyed \/ Exit
    \/ \E d \in Device : IrqEnable(d) \/ IrqDisable(d) \/ Ask(d) \/ Interrupt(d)

Spec == Init /\ [][Next]_vars

-----------------------------------------------------------------------------
\* Type invariant.
Places == {"alt_irq_init", "enable", "alt_sys_init", "_do_ctors", "main",
           "close", "exit", "_exit", "spin", "lost"}
Ended == {"close", "exit", "_exit", "spin"}
TypeOK ==
    /\ at \in Places /\ step \in {"device", "register", "alarm"}
    /\ {pie, alarm} \subseteq BOOLEAN
    /\ \A s \in {ienable, active, table, control, asks} : s \subseteq Device
    /\ rate \in {0} \cup {TimerFreq(t) : t \in Timers} /\ timeout \in 0 .. IntMax
    /\ \A s \in {built, gone} : Len(s) <= Objects
    /\ build \in Builds /\ code \in {0, 1} /\ told \in {"nothing", "pass", "fail"}

\* Interrupts come on before any driver is there; still, whatever the
\* processor and the devices were left with, no interrupt finds the table
\* without its handler.
HandlerFound == at # "lost"

\* main runs with every device of the system able to interrupt unless it has
\* disabled it, and with every object constructed; the end leaves the
\* interrupts as they are, for which the close of standard output waits, and
\* the verdict comes, if there is to be one, when every object is gone that is
\* to go.
ReadyForMain ==
    at \in {"main"} \cup Ended =>
        /\ pie /\ \A d \in active : d \in table \cap control /\ IrqEnabled(d)
        /\ Len(built) = Objects
        /\ at = "spin" => (told = "nothing" <=> build = "none")
        /\ told # "nothing" => Len(gone) = IF build = "clean" THEN Objects ELSE 0

\* The UART gives its host up only where there is an alarm to count by: without
\* one, whatever the order of the drivers, the timeout never comes.  And a
\* clock that is there ticks, however long its period is.
CountsOnlyByAlarm ==
    /\ "uart" \in table /\ ~(todo # <<>> /\ Head(todo) = "uart") =>
           /\ timeout = IntMax <=> ~alarm
           /\ alarm => "timer" \in table
    /\ "timer" \in table => rate > 0
=============================================================================
