----------------------------- MODULE Interrupts -----------------------------
(***************************************************************************)
(* Interrupts on the coprocessor: registering handlers, nested critical    *)
(* sections, the dispatch loop of alt_irq_handler, and handlers that let   *)
(* interrupts of higher priority in.  Whatever runs may also meet an       *)
(* instruction that raises an exception, which takes the same entry.  The  *)
(* stack is that of the processor: the program at the bottom and above it  *)
(* an activation of the entry for every exception not yet returned from.   *)
(***************************************************************************)
EXTENDS Integers, Sequences, FiniteSetsExt

CONSTANTS NIrq,              \* ALT_NIRQ
          Handler, Null,
          Retracts,          \* devices may negate a request not yet served
          CallsInIsr,        \* handlers enable, disable and register interrupts
          ExceptionHandler,  \* an instruction exception handler is registered
          ExtraInfo,         \* the processor has the exception register
          MaxRaises,         \* bound: requests of the devices
          MaxFaults,         \* bound: instructions that raise an exception
          MaxCritical        \* bound: the nesting of critical sections

InterruptAssumption ==
    /\ NIrq \in 1 .. 32 /\ Null \notin Handler
    /\ {Retracts, CallsInIsr, ExceptionHandler, ExtraInfo} \subseteq BOOLEAN
    /\ {MaxRaises, MaxFaults, MaxCritical} \subseteq Nat

VARIABLES pie,      \* interrupts are enabled, in the status register
          ienable,  \* the register of enabled interrupts
          active,   \* alt_irq_active
          mask,     \* alt_priority_mask
          table,    \* alt_irq
          raised, raises,  \* the requests of the devices, and their number
          faults,   \* instructions that have raised an exception so far
          stack

vars == <<pie, ienable, active, mask, table, raised, raises, faults, stack>>
Cpu == <<pie, ienable, active, mask>>

Irq == 0 .. NIrq - 1
NoCall == [step |-> "none"]
Empty == [handler |-> Null, context |-> Null]
Frame(at, cause) ==
    [at |-> at, cause |-> cause,
     epie |-> pie, back |-> "this",    \* the saved status, and where to return
     irq |-> NIrq, entry |-> Empty,    \* the table entry that was called
     served |-> FALSE, old |-> <<>>,   \* alt_irq_interruptible's result
     saved |-> <<>>,                   \* contexts of alt_irq_disable_all
     call |-> NoCall]

Init ==
    /\ pie = TRUE /\ ienable = {} /\ active = {} /\ mask = Irq
    /\ table = [q \in Irq |-> Empty]
    /\ raised = {} /\ raises = 0 /\ faults = 0
    /\ stack = <<[Frame("run", "reset") EXCEPT !.epie = FALSE]>>

Top == stack[Len(stack)]
Pending == raised \cap ienable
WithTop(f) == [stack EXCEPT ![Len(stack)] = f]

\* alt_irq_enable_all restores what alt_irq_disable_all returned.
EnableAllAlways(context) == TRUE
EnableAll(context) == context

\* alt_irq_enable and alt_irq_disable, each a critical section of its own.
Activate(set) == /\ active' = set /\ ienable' = set
                 /\ pie' = EnableAll(pie)

-----------------------------------------------------------------------------
(* What the program calls, and handlers that make calls. *)

MayCall == /\ Top.at \in {"run", "isr"} /\ Top.call = NoCall
           /\ Top.at = "isr" => CallsInIsr

DisableAll ==
    /\ MayCall /\ Len(Top.saved) < MaxCritical
    /\ stack' = WithTop([Top EXCEPT !.saved = Append(@, pie)])
    /\ pie' = FALSE
    /\ UNCHANGED <<ienable, active, mask, table, raised, raises, faults>>

EnableAllAgain ==
    /\ MayCall /\ Top.saved # <<>>
    /\ pie' = EnableAll(Top.saved[Len(Top.saved)])
    /\ stack' = WithTop([Top EXCEPT !.saved = SubSeq(@, 1, Len(@) - 1)])
    /\ UNCHANGED <<ienable, active, mask, table, raised, raises, faults>>

\* A program enables an interrupt only if it has a handler for it.
IrqEnable(q) ==
    /\ MayCall /\ table[q].handler # Null
    /\ Activate(active \cup {q})
    /\ UNCHANGED <<mask, table, raised, raises, faults, stack>>

IrqDisable(q) ==
    /\ MayCall
    /\ Activate(active \ {q})
    /\ UNCHANGED <<mask, table, raised, raises, faults, stack>>

\* alt_irq_register and alt_iic_isr_register
PieWhileRegisteringOn == pie
PieWhileRegistering == FALSE

RegisterHandler(q, h) ==
    /\ MayCall
    /\ pie' = PieWhileRegistering
    /\ table' = [table EXCEPT ![q].handler = h]
    /\ stack' = WithTop([Top EXCEPT !.call =
                          [step |-> "context", irq |-> q, handler |-> h, saved |-> pie]])
    /\ UNCHANGED <<ienable, active, mask, raised, raises, faults>>

RegisterContext ==
    /\ Top.call.step = "context"
    /\ table' = [table EXCEPT ![Top.call.irq].context = Top.call.handler]
    /\ stack' = WithTop([Top EXCEPT !.call.step = "enable"])
    /\ UNCHANGED <<pie, ienable, active, mask, raised, raises, faults>>

RegisterEnable ==
    /\ Top.call.step = "enable"
    /\ Activate(IF Top.call.handler = Null THEN active \ {Top.call.irq}
                                           ELSE active \cup {Top.call.irq})
    /\ stack' = WithTop([Top EXCEPT !.call.step = "restore"])
    /\ UNCHANGED <<mask, table, raised, raises, faults>>

RegisterDone ==
    /\ Top.call.step = "restore"
    /\ pie' = EnableAll(Top.call.saved)
    /\ stack' = WithTop([Top EXCEPT !.call = NoCall])
    /\ UNCHANGED <<ienable, active, mask, table, raised, raises, faults>>

\* A handler lets higher priorities, which are lower numbers, interrupt it.
HigherAndSelf(q) == 0 .. q
Higher(q) == 0 .. q - 1

Interruptible ==
    /\ Top.at = "isr" /\ Top.call = NoCall /\ Top.saved = <<>> /\ Top.old = <<>>
    /\ stack' = WithTop([Top EXCEPT !.old = <<mask>>])
    /\ mask' = Higher(Top.irq)
    /\ ienable' = active \cap mask' /\ pie' = TRUE
    /\ UNCHANGED <<active, table, raised, raises, faults>>

NonInterruptible ==
    /\ Top.at = "isr" /\ Top.call = NoCall /\ Top.saved = <<>> /\ Top.old # <<>>
    /\ pie' = FALSE /\ mask' = Top.old[1]
    /\ ienable' = mask' \cap active
    /\ stack' = WithTop([Top EXCEPT !.old = <<>>])
    /\ UNCHANGED <<active, table, raised, raises, faults>>

-----------------------------------------------------------------------------
(* Devices, the exception entry, and the dispatch loop. *)

Raise(q) ==
    /\ q \notin raised /\ raises < MaxRaises
    /\ raised' = raised \cup {q} /\ raises' = raises + 1
    /\ UNCHANGED <<Cpu, table, faults, stack>>

Retract(q) ==
    /\ Retracts /\ q \in raised
    /\ raised' = raised \ {q}
    /\ UNCHANGED <<Cpu, table, raises, faults, stack>>

Enter(cause) == /\ stack' = Append(stack, Frame("test", cause))
                /\ pie' = FALSE

Take ==
    /\ pie /\ Pending # {}
    /\ Enter("interrupt")
    /\ UNCHANGED <<ienable, active, mask, table, raised, raises, faults>>

\* An instruction of the program or of a handler raises an exception, in a
\* critical section too.
Fault ==
    /\ Top.at \in {"run", "isr"} /\ Top.call = NoCall /\ faults < MaxFaults
    /\ Enter("fault") /\ faults' = faults + 1
    /\ UNCHANGED <<ienable, active, mask, table, raised, raises>>

\* The entry takes whatever came with a request, and the saved status allowing
\* it, for an interrupt, and returns to the same instruction.  Anything else
\* returns to the next one.
TestAnyStatus == Pending # {}
TestInterrupt == Top.epie /\ Pending # {}

Test ==
    /\ Top.at = "test"
    /\ stack' = WithTop(IF TestInterrupt
                        THEN [Top EXCEPT !.at = "entry"]
                        ELSE [Top EXCEPT !.at = "unknown", !.back = "next"])
    /\ UNCHANGED <<Cpu, table, raised, raises, faults>>

\* alt_instruction_exception_entry: the registered handler is told the cause
\* if the processor knows it, and tells whether to reissue the instruction.
\* This one knows of nothing but instructions to be skipped.
CauseHidden == "not present"
Cause == IF ExtraInfo THEN Top.cause ELSE "not present"
Advice(cause) == IF cause = "interrupt" THEN "this" ELSE Top.back

AskHandler ==
    /\ Top.at = "unknown"
    /\ stack' = WithTop(IF ExceptionHandler
                        THEN [Top EXCEPT !.at = "exit", !.back = Advice(Cause)]
                        ELSE [Top EXCEPT !.at = "stopped"])
    /\ UNCHANGED <<Cpu, table, raised, raises, faults>>

\* The search for the first bit does not end when no bit is set.
Called(set) ==
    IF set = {} THEN [Top EXCEPT !.at = "spin"]
    ELSE [Top EXCEPT !.at = "isr", !.irq = Min(set), !.entry = table[Min(set)],
                     !.served = FALSE]

Dispatch ==
    /\ Top.at = "entry"
    /\ stack' = WithTop(Called(Pending))
    /\ UNCHANGED <<Cpu, table, raised, raises, faults>>

Serve ==
    /\ Top.at = "isr" /\ Top.call = NoCall /\ ~Top.served
    /\ raised' = raised \ {Top.irq}
    /\ stack' = WithTop([Top EXCEPT !.served = TRUE])
    /\ UNCHANGED <<Cpu, table, raises, faults>>

IsrReturns ==
    /\ Top.at = "isr" /\ Top.call = NoCall
    /\ Top.served /\ Top.saved = <<>> /\ Top.old = <<>>
    /\ stack' = WithTop([Top EXCEPT !.at = "again"])
    /\ UNCHANGED <<Cpu, table, raised, raises, faults>>

StillPendingStale == {Top.irq}
StillPending == Pending

DispatchAgain ==
    /\ Top.at = "again" /\ StillPending # {}
    /\ stack' = WithTop(Called(StillPending))
    /\ UNCHANGED <<Cpu, table, raised, raises, faults>>

Exit ==
    /\ Top.at = "again" /\ StillPending = {}
    /\ stack' = WithTop([Top EXCEPT !.at = "exit"])
    /\ UNCHANGED <<Cpu, table, raised, raises, faults>>

\* The saved status is restored, and the interrupted code goes on.
Leave ==
    /\ Top.at = "exit"
    /\ pie' = Top.epie /\ stack' = SubSeq(stack, 1, Len(stack) - 1)
    /\ UNCHANGED <<ienable, active, mask, table, raised, raises, faults>>

Finishing == \/ RegisterContext \/ RegisterEnable \/ RegisterDone
             \/ Test \/ AskHandler \/ Dispatch \/ Serve \/ IsrReturns
             \/ DispatchAgain \/ Exit \/ Leave

Next ==
    \/ DisableAll \/ EnableAllAgain \/ Interruptible \/ NonInterruptible
    \/ Take \/ Fault \/ Finishing
    \/ \E q \in Irq : \/ IrqEnable(q) \/ IrqDisable(q) \/ Raise(q) \/ Retract(q)
                      \/ \E h \in Handler \cup {Null} : RegisterHandler(q, h)

Spec == Init /\ [][Next]_vars

-----------------------------------------------------------------------------
Isrs == {i \in 2 .. Len(stack) : stack[i].at = "isr"}

\* Type invariant.
TypeOK ==
    /\ pie \in BOOLEAN /\ ienable \subseteq active /\ active \subseteq Irq /\ mask \subseteq Irq
    /\ table \in [Irq -> [handler : Handler \cup {Null}, context : Handler \cup {Null}]]
    /\ raised \subseteq Irq /\ raises \in 0 .. MaxRaises
    /\ faults \in 0 .. MaxFaults /\ Len(stack) \in 1 .. NIrq + faults + 1

\* The dispatch loop calls only registered handlers, each with the context it
\* was registered with, although an interrupt may be registered anew while
\* enabled and requested.
CalledWithOwnContext ==
    \A i \in Isrs : /\ stack[i].entry.handler # Null
                    /\ stack[i].entry.context = stack[i].entry.handler

\* No critical section is interrupted, however deeply sections nest and
\* whatever is called in them: an instruction in it may raise an exception, and
\* a request that is pending then still waits.
CriticalKeepsOff ==
    \A i \in 1 .. Len(stack) : stack[i].saved # <<>> \/ stack[i].call # NoCall =>
        /\ ~pie
        /\ \A j \in i + 1 .. Len(stack) : stack[j].cause = "fault" /\ stack[j].at # "isr"

\* "For interrupt exceptions, we will re-issue the instruction": an instruction
\* is skipped only if it raised the exception itself, and not if a request was
\* gone before the entry looked for it or came while it was looking.
SkipsOnlyFaults ==
    [][Len(stack') < Len(stack) /\ Top.back = "next" => Top.cause = "fault"]_vars

\* A handler is called only for a request its device makes at that moment, and
\* never again for one it has served.
CalledWhenRaised ==
    [][\A q \in Irq : (/\ Len(stack') = Len(stack) /\ Top'.at = "isr" /\ Top'.irq = q
                       /\ ~Top'.served /\ Top.at # "isr") => q \in raised]_vars

\* alt_irq_interruptible is "to allow higher priority interrupts to interrupt
\* the current ISR": no other, and never the same one.
OnlyHigher ==
    \A i, j \in Isrs : i < j => stack[j].irq < stack[i].irq

\* "This process loops, loading the active interrupt list on each pass until
\* alt_irq_pending() return zero": the program runs again after an interrupt.
ProgramResumes == Len(stack) > 1 ~> Len(stack) = 1
=============================================================================
