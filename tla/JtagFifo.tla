------------------------------ MODULE JtagFifo ------------------------------
(***************************************************************************)
(* The JTAG UART peripheral of the coprocessor system and the host at the  *)
(* other end of the cable: a transmit and a receive FIFO, the two          *)
(* interrupt enables, the activity bit and the pause flag.  The drivers'   *)
(* modules extend this one; the host's steps are its own actions.          *)
(***************************************************************************)
EXTENDS Integers, Sequences

CONSTANTS FifoDepth,   \* bytes in each hardware FIFO
          Margin,      \* the almost-empty and almost-full margin
          Numbers,     \* bytes are numbered 0 .. Numbers - 1
          Typing       \* whether anyone types at the terminal

ASSUME FifoAssumption ==
    /\ FifoDepth \in Nat \ {0}
    /\ Margin \in 0 .. FifoDepth - 1
    /\ Numbers \in Nat \ {0}
    /\ Typing \in BOOLEAN

VARIABLES txf,        \* bytes from the processor to the host
          rxf,        \* bytes from the host to the processor
          ien,        \* enabled interrupts, a subset of {"RE", "WE"}
          ac,         \* the host was active since the bit was cleared
          pause,      \* the host paused with bytes left in rxf
          connected,  \* a terminal is running on the host
          hostNext,   \* number of the next byte the host sends
          hostWants   \* number of the next byte the host should be given

hwVars == <<txf, rxf, ien, ac, pause, connected, hostNext, hostWants>>

Byte == 0 .. Numbers - 1
Next1(b) == (b + 1) % Numbers

\* The state a driver starts from, once it has written the control register.
HwInit(enables) ==
    /\ txf = <<>> /\ rxf = <<>>
    /\ ien = enables
    /\ ac = FALSE /\ pause = FALSE
    /\ connected \in BOOLEAN
    /\ hostNext = 0 /\ hostWants = 0

WSpace == FifoDepth - Len(txf)
WI == "WE" \in ien /\ Len(txf) <= Margin
RI == "RE" \in ien /\ (pause \/ FifoDepth - Len(rxf) <= Margin)

\* A write of the control register: both enables, and the activity bit when
\* its mask is in the word.
WriteControl(enables, clearAc) ==
    /\ ien' = enables
    /\ ac' = (ac /\ ~clearAc)

\* The host drains a byte, sends one, or polls; polling with bytes waiting in
\* rxf raises the pause flag.  Only the direction towards the processor
\* counts as activity.
HostTake ==
    /\ connected /\ txf # <<>>
    /\ hostWants' = Next1(Head(txf))
    /\ txf' = Tail(txf)
    /\ UNCHANGED <<rxf, ien, ac, pause, connected, hostNext>>

HostRoom == Len(rxf) < FifoDepth

HostSend ==
    /\ Typing /\ connected /\ HostRoom
    /\ rxf' = Append(rxf, hostNext)
    /\ hostNext' = Next1(hostNext)
    /\ ac' = TRUE
    /\ UNCHANGED <<txf, ien, pause, connected, hostWants>>

HostPoll ==
    /\ connected
    /\ ac' = TRUE
    /\ pause' = (pause \/ rxf # <<>>)
    /\ UNCHANGED <<txf, rxf, ien, connected, hostNext, hostWants>>

HostPlug ==
    /\ connected' = ~connected
    /\ UNCHANGED <<txf, rxf, ien, ac, pause, hostNext, hostWants>>

Host == HostTake \/ HostSend \/ HostPoll \/ HostPlug

HwTypeOK ==
    /\ txf \in Seq(Byte) /\ Len(txf) <= FifoDepth
    /\ rxf \in Seq(Byte) /\ Len(rxf) <= FifoDepth
    /\ ien \subseteq {"RE", "WE"}
    /\ ac \in BOOLEAN /\ pause \in BOOLEAN /\ connected \in BOOLEAN
    /\ hostNext \in Byte /\ hostWants \in Byte
=============================================================================
