-------------------------------- MODULE LogPort --------------------------------
(***************************************************************************)
(* The log's output.  Every character waits until the port is ready and is *)
(* then written.  The program logs its start, its driver's and what it     *)
(* writes to its files; handlers log, in the middle of whatever the        *)
(* program was doing, that the system clock is alive and how the JTAG UART *)
(* stands.  How much of this is on is the level ALT_LOG_FLAGS.             *)
(***************************************************************************)
EXTENDS Integers, SequencesExt

CONSTANTS Program, Handler,
          Plain, CtrlD, Nul,  \* the characters that a program writes
          NewLine, Return,    \* and those that the log adds
          Boot, Beat, Report, \* the text of a message, which is one character
          Escaped,            \* the D that stands for Ctrl-D
          EchoLen,            \* ALT_LOG_WRITE_ECHO_LEN
          Interval,           \* ALT_LOG_SYS_CLK_INTERVAL
          ReportTicks,        \* ALT_LOG_JTAG_UART_TICKS
          Levels,             \* values of ALT_LOG_FLAGS
          Depth,              \* characters the port holds
          MaxLen, MaxWrites, MaxTicks  \* bounds: writes, their length, and interrupts

LogPortAssumption ==
    /\ Program # Handler /\ EchoLen \in Nat \ {0} /\ {Interval, ReportTicks} \subseteq Nat
    /\ Levels \subseteq {-1, 0, 1, 2, 3}
    /\ Depth \in Nat \ {0} /\ {MaxLen, MaxWrites, MaxTicks} \subseteq Nat
    /\ {Plain, Nul, CtrlD} \cap {NewLine, Return, Boot, Beat, Report, Escaped} = {}

VARIABLES level,         \* of the build
          stage,         \* of the program's start
          queued,        \* characters in the port
          shown,         \* what the host was or will be sent, in order
          dropped,       \* characters written to a full port, by whom
          running,
          todo, ready,   \* what each still has to log, and that it saw room
          writes,        \* how often the program wrote to a file
          beats, ticks,  \* alt_log_sys_clk_count, and interrupts so far
          reportIn       \* ticks until the UART's alarm; NoAlarm: not started

vars == <<level, stage, queued, shown, dropped, running, todo, ready, writes,
          beats, ticks, reportIn>>
port == <<queued, shown, dropped>>
clock == <<beats, ticks, reportIn>>

Who == {Program, Handler}
NoAlarm == -1

\* The settings of the flags, each for the levels at which it is on.
BootOn == level # -1
ClockOn == level \in {1, 2, 3}
WriteOnFrom1 == level \in {1, 2, 3}
WriteOn == level \in {2, 3}
AlarmOn == level \in {2, 3}
StartupOn == level \in {1, 2, 3}
IsrOn == level = 3

Init == /\ level \in Levels /\ stage = "boot"
        /\ queued = 0 /\ shown = <<>> /\ dropped = [t \in Who |-> 0]
        /\ running = Program
        /\ todo = [t \in Who |-> <<>>] /\ ready = [t \in Who |-> FALSE]
        /\ writes = 0
        /\ beats = 0 /\ ticks = 0 /\ reportIn = NoAlarm

\* A message is its text and the end of its line, if the flag is on.
Message(on, text) ==
    IF on THEN <<[kind |-> text, ch |-> text], [kind |-> text, ch |-> Return]>> ELSE <<>>

\* alt_main's messages, of which there are more.
LogBoot ==
    /\ running = Program /\ todo[Program] = <<>> /\ stage = "boot"
    /\ todo' = [todo EXCEPT ![Program] = Message(BootOn, Boot)]
    /\ stage' = "driver"
    /\ UNCHANGED <<level, port, running, ready, writes, clock>>

\* ALT_LOG_JTAG_UART_ALARM_REGISTER, in the driver's initialisation; an alarm
\* is due in the tick after its interval.
DriverInit ==
    /\ running = Program /\ todo[Program] = <<>> /\ stage = "driver"
    /\ reportIn' = IF AlarmOn THEN ReportTicks + 1 ELSE NoAlarm
    /\ todo' = [todo EXCEPT ![Program] = Message(StartupOn, Report)]
    /\ stage' = "main"
    /\ UNCHANGED <<level, port, running, ready, writes, beats, ticks>>

EscapedBefore(s, i) == IF i > 1 /\ s[i] = CtrlD THEN Escaped ELSE s[i]
EscapedAt(s, i) == IF s[i] = CtrlD THEN Escaped ELSE s[i]

\* alt_log_write: the buffer holds the first characters, the last of them
\* replaced by the end of the line, and is printed up to the first null.
Echo(s) ==
    LET length == IF EchoLen > Len(s) THEN Len(s) ELSE EchoLen
        buf    == [i \in 1 .. length + 1 |->
                       CASE i < length -> EscapedAt(s, i)
                         [] i = length -> NewLine
                         [] OTHER -> Return]
        end    == CHOOSE n \in 0 .. length + 1 :
                      /\ \A i \in 1 .. n : buf[i] # Nul
                      /\ n = length + 1 \/ buf[n + 1] = Nul
    IN  IF WriteOn /\ length >= 2
        THEN [i \in 1 .. end |-> [kind |-> "echo", ch |-> buf[i]]] ELSE <<>>

Write(s) ==
    /\ running = Program /\ todo[Program] = <<>> /\ stage = "main"
    /\ writes < MaxWrites
    /\ writes' = writes + 1
    /\ todo' = [todo EXCEPT ![Program] = Echo(s)]
    /\ UNCHANGED <<level, stage, port, running, ready, clock>>

\* alt_log_txchar: the test, which is repeated until it holds, and the write.
HasRoomNever == queued > Depth
HasRoomAlways == queued <= Depth
HasRoom == queued < Depth

Test ==
    /\ todo[running] # <<>> /\ ~ready[running] /\ HasRoom
    /\ ready' = [ready EXCEPT ![running] = TRUE]
    /\ UNCHANGED <<level, stage, port, running, todo, writes, clock>>

Put ==
    /\ ready[running]
    /\ ready' = [ready EXCEPT ![running] = FALSE]
    /\ todo' = [todo EXCEPT ![running] = Tail(@)]
    /\ IF queued < Depth
       THEN /\ queued' = queued + 1
            /\ shown' = Append(shown, [by |-> running, says |-> Head(todo[running])])
            /\ UNCHANGED dropped
       ELSE /\ dropped' = [dropped EXCEPT ![running] = @ + 1]
            /\ UNCHANGED <<queued, shown>>
    /\ UNCHANGED <<level, stage, running, writes, clock>>

Drain ==
    /\ queued > 0 /\ queued' = queued - 1
    /\ UNCHANGED <<level, stage, shown, dropped, running, todo, ready, writes, clock>>

\* A tick interrupts the program wherever it is: alt_log_system_clock, then the
\* alarms, the one that reports on the UART among them.  An alarm that returns
\* zero is not run again.
BeatDue == ClockOn /\ beats + 1 > Interval
ReportDue == reportIn = 1
ReportAgain == IF ReportTicks = 0 THEN NoAlarm ELSE ReportTicks

Tick ==
    /\ running = Program /\ stage # "boot" /\ ticks < MaxTicks
    /\ running' = Handler /\ ticks' = ticks + 1
    /\ beats' = IF BeatDue \/ ~ClockOn THEN 0 ELSE beats + 1
    /\ reportIn' = CASE reportIn = NoAlarm -> NoAlarm
                     [] ReportDue -> ReportAgain
                     [] OTHER -> reportIn - 1
    /\ todo' = [todo EXCEPT ![Handler] =
                    Message(BeatDue, Beat) \o Message(ReportDue /\ AlarmOn, Report)]
    /\ UNCHANGED <<level, stage, port, ready, writes>>

\* So does the UART, whose handler first logs how it stands.
UartInterrupt ==
    /\ running = Program /\ stage = "main" /\ ticks < MaxTicks
    /\ running' = Handler /\ ticks' = ticks + 1
    /\ todo' = [todo EXCEPT ![Handler] = Message(IsrOn, Report)]
    /\ UNCHANGED <<level, stage, port, ready, writes, beats, reportIn>>

Resume ==
    /\ running = Handler /\ todo[Handler] = <<>>
    /\ running' = Program
    /\ UNCHANGED <<level, stage, port, todo, ready, writes, clock>>

Next == \/ \E s \in SeqOf({Plain, CtrlD, Nul}, MaxLen) : Write(s)
        \/ LogBoot \/ DriverInit \/ Test \/ Put \/ Drain
        \/ Tick \/ UartInterrupt \/ Resume

Spec == Init /\ [][Next]_vars

-----------------------------------------------------------------------------
\* Type invariant.
TypeOK ==
    /\ level \in Levels /\ stage \in {"boot", "driver", "main"}
    /\ queued \in 0 .. Depth /\ running \in Who /\ writes \in 0 .. MaxWrites
    /\ \A t \in Who : ready[t] => todo[t] # <<>>
    /\ beats \in 0 .. Interval /\ ticks \in 0 .. MaxTicks
    /\ reportIn \in {NoAlarm} \cup 1 .. ReportTicks + 1

\* "Escape Ctrl-D's. If the Ctrl-D gets sent it might kill the terminal
\* connection of alt_log": none is ever sent, wherever it stands in the data.
NoCtrlD == \A i \in DOMAIN shown : shown[i].says.ch # CtrlD

\* A handler is not interrupted: its messages arrive whole and in one piece,
\* in whatever place of the program's.
HandlerWhole ==
    /\ dropped[Handler] = 0
    /\ \A i \in DOMAIN shown :
           (/\ shown[i].by = Handler /\ shown[i].says.ch # Return
            /\ todo[Handler] = <<>>) =>
               /\ i < Len(shown) /\ shown[i + 1].by = Handler
               /\ shown[i + 1].says = [kind |-> shown[i].says.kind, ch |-> Return]

\* The program loses at most a character for each interrupt.
LostPerTick == dropped[Program] <= ticks

\* "Flag Level 1 - turns on system clock and JTAG UART startup status, 2 - turns
\* on write echo and JTAG_UART alarm, 3 - turns on JTAG UART ISR logging, -1 -
\* All logging output is off", and by default "only the boot messages will be
\* printed": no handler is heard below level 1, none of the UART below level 2,
\* and a report that is not one of the alarm's is at level 3.
ByLevel ==
    /\ level = -1 => shown = <<>>
    /\ \A i \in DOMAIN shown :
           LET kind == shown[i].says.kind IN
           /\ kind \in {Beat, Report} => level >= 1
           /\ kind = "echo" => level >= 2
           /\ kind = Report /\ shown[i].by = Handler => level >= 2
    /\ level = 2 => Cardinality({i \in DOMAIN shown :
                       shown[i].by = Handler /\ shown[i].says.ch = Report})
                         * ReportTicks <= ticks

\* As long as the host reads, every message ends, the handlers' that keep the
\* interrupts off included.
MessagesEnd == \A t \in Who : (todo[t] # <<>>) ~> (todo[t] = <<>>)
=============================================================================
