--------------------------- MODULE JtagUartPolled ---------------------------
(***************************************************************************)
(* The small JTAG UART driver, the one this support package is built with  *)
(* (ALT_USE_SMALL_DRIVERS): no buffers and no interrupts, one byte per     *)
(* turn of a loop that polls the FIFOs.  inject.c talks to the host        *)
(* through it: alt_putchar and alt_putstr are blocking writes of one and   *)
(* of all the bytes, alt_getchar a read of one.                            *)
(***************************************************************************)
EXTENDS JtagFifo

CONSTANTS Writes, Reads  \* the counts given to write and to read

PolledAssumption ==
    /\ Writes \subseteq Nat /\ Reads \subseteq Nat
    /\ Numbers > FifoDepth

VARIABLES pc,        \* "idle", "write" or "read"
          left,      \* bytes the call still has to move
          moved,     \* whether the read has a byte to return
          nonblock,
          putNext,   \* number of the next byte the caller writes
          userNext   \* number of the next byte the caller expects

vars == <<hwVars, pc, left, moved, nonblock, putNext, userNext>>

Init ==
    /\ HwInit({})
    /\ pc = "idle" /\ left = 0 /\ moved = FALSE /\ nonblock = FALSE
    /\ putNext = 0 /\ userNext = 0

Call(label, count, nb) ==
    /\ pc = "idle"
    /\ pc' = label /\ left' = count /\ nonblock' = nb
    /\ UNCHANGED <<hwVars, moved, putNext, userNext>>

Return == pc' = "idle" /\ left' = 0 /\ moved' = FALSE /\ nonblock' = FALSE

\* The byte goes into the FIFO only after the control register showed space.
FifoSpaceIgnored == 1
FifoSpaceWrongField == Len(rxf)
FifoSpace == WSpace

WriteByte ==
    /\ pc = "write" /\ left > 0
    /\ FifoSpace # 0
    /\ txf' = IF WSpace > 0 THEN Append(txf, putNext) ELSE txf
    /\ putNext' = Next1(putNext) /\ left' = left - 1
    /\ UNCHANGED <<rxf, ien, ac, pause, connected, hostNext, hostWants,
                   pc, moved, nonblock, userNext>>

PoppedTwice == IF Len(rxf) > 1 THEN SubSeq(rxf, 3, Len(rxf)) ELSE <<>>
Popped == Tail(rxf)

\* A read of the data register pops the FIFO and clears the pause flag.
ReadByte ==
    /\ pc = "read" /\ left > 0
    /\ rxf # <<>>
    /\ userNext' = Next1(Head(rxf))
    /\ rxf' = Popped
    /\ pause' = FALSE /\ left' = left - 1 /\ moved' = TRUE
    /\ UNCHANGED <<txf, ien, ac, connected, hostNext, hostWants, pc, nonblock, putNext>>

\* An empty FIFO ends the read when it has bytes or must not block.
GivesUp == moved \/ nonblock

ReadEmpty ==
    /\ pc = "read" /\ left > 0
    /\ rxf = <<>> /\ GivesUp
    /\ Return
    /\ pause' = FALSE
    /\ UNCHANGED <<txf, rxf, ien, ac, connected, hostNext, hostWants, putNext, userNext>>

Finish ==
    /\ pc # "idle" /\ left = 0
    /\ Return
    /\ UNCHANGED <<hwVars, putNext, userNext>>

Program == \E nb \in BOOLEAN : \/ \E n \in Writes : Call("write", n, nb)
                               \/ \E n \in Reads : Call("read", n, nb)
Loop == WriteByte \/ ReadByte \/ ReadEmpty \/ Finish
HostStep(step) == step /\ UNCHANGED <<pc, left, moved, nonblock, putNext, userNext>>

Next == Program \/ Loop \/ HostStep(Host)

\* The processor runs the loop it is in and a connected terminal drains.
Spec == /\ Init /\ [][Next]_vars
        /\ WF_vars(Loop) /\ WF_vars(HostStep(HostTake))

-----------------------------------------------------------------------------
\* Type invariant.
TypeOK == /\ HwTypeOK /\ pc \in {"idle", "write", "read"}
          /\ left \in Nat /\ moved \in BOOLEAN /\ nonblock \in BOOLEAN
          /\ putNext \in Byte /\ userNext \in Byte

\* The price of polling, and of a program that prints: a write ends when a
\* terminal stays connected; without one nothing times it out.
WriteEnds == <>[]connected => [](pc = "write" => <>(pc = "idle"))

=============================================================================
