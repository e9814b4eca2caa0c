------------------------------ MODULE JtagUart ------------------------------
(***************************************************************************)
(* The interrupt-driven JTAG UART driver of the support package: one       *)
(* foreground thread inside write, read, ioctl or close, the interrupt     *)
(* routine, and the alarm that looks for the host once a second.  The two  *)
(* circular buffers are shared without a lock; a foreground call is cut    *)
(* at every access to an index the interrupt routine also uses.            *)
(***************************************************************************)
EXTENDS JtagFifo

CONSTANTS BufLen,          \* bytes in each circular buffer
          IntMax,          \* the largest int
          DefaultTimeout,  \* seconds before the host counts as gone
          Timeouts,        \* arguments given to TIOCSTIMEOUT
          Writes, Reads    \* the counts given to write and to read

ASSUME UartAssumption ==
    /\ BufLen \in Nat \ {0, 1}
    /\ IntMax \in Nat /\ IntMax > 3
    /\ DefaultTimeout \in 2 .. IntMax - 1
    /\ Timeouts \subseteq 0 .. IntMax
    /\ Writes \subseteq Nat /\ Reads \subseteq Nat
    /\ Numbers % BufLen = 0
    /\ Numbers > BufLen - 1 + FifoDepth

VARIABLES rxBuf, rxIn, rxOut,   \* receive ring
          txBuf, txIn, txOut,   \* transmit ring
          irqEnable,            \* the driver's copy of the enables
          timeout, hostInactive,
          pc,                   \* where the foreground call is
          call,                 \* its arguments and locals
          putNext,              \* number of the next byte the caller writes
          userNext              \* number of the next byte the caller expects

rings == <<rxBuf, rxIn, rxOut, txBuf, txIn, txOut>>
host == <<timeout, hostInactive>>
vars == <<hwVars, rings, irqEnable, host, pc, call, putNext, userNext>>

Index == 0 .. BufLen - 1
Wrap(i) == i % BufLen
Ring(buf, in, out) ==
    [i \in 1 .. Wrap(in - out + BufLen) |-> buf[Wrap(out + i - 1)]]

NoCall == [left |-> 0, done |-> 0, nonblock |-> FALSE, snap |-> 0, n |-> 0]
Calls == [left : Nat, done : Nat, nonblock : BOOLEAN, snap : Index, n : 0 .. BufLen]
Writing == {"wSpace", "wCopy", "wPublish", "wKick", "wWait", "wTest"}
Reading == {"rSpace", "rCopy", "rFree", "rWait", "rTest", "rEnd"}

\* altera_avalon_jtag_uart_init.  When the alarm cannot be started the timeout
\* is IntMax and the alarm never runs.
Init ==
    /\ HwInit({"RE"})
    /\ rxBuf = [i \in Index |-> 0] /\ rxIn = 0 /\ rxOut = 0
    /\ txBuf = [i \in Index |-> 0] /\ txIn = 0 /\ txOut = 0
    /\ irqEnable = {"RE"}
    /\ timeout \in {DefaultTimeout, IntMax} /\ hostInactive = 0
    /\ pc = "idle" /\ call = NoCall
    /\ putNext = 0 /\ userNext = 0

SetEnables(enables) == irqEnable' = enables /\ WriteControl(enables, FALSE)
KeepHw == UNCHANGED <<hwVars, irqEnable>>

Goto(label, locals) == pc' = label /\ call' = locals
Return == Goto("idle", NoCall)
InactiveLate == hostInactive > timeout
Inactive == hostInactive >= timeout

-----------------------------------------------------------------------------
(* The interrupt routine and the alarm *)

\* One turn of the interrupt routine's outer loop.  The host can only add room
\* to txf and bytes to rxf meanwhile, which is as if it acted after the turn.
RxPass(room) ==
    LET moved == IF room < Len(rxf) THEN room ELSE Len(rxf)
    IN  /\ rxBuf' = [i \in Index |->
                       LET k == Wrap(i - rxIn + BufLen)
                       IN  IF k < moved THEN rxf[k + 1] ELSE rxBuf[i]]
        /\ rxIn' = Wrap(rxIn + moved)
        /\ rxf' = SubSeq(rxf, moved + 1, Len(rxf))
        /\ pause' = (pause /\ room = 0)

TxPass(ring) ==
    LET moved == IF WSpace < Len(ring) THEN WSpace ELSE Len(ring)
    IN  /\ txf' = txf \o SubSeq(ring, 1, moved)
        /\ txOut' = Wrap(txOut + moved)

\* Bytes the receive ring can still take; one slot always stays empty.
RxRoomNoGap == BufLen - Wrap(rxIn - rxOut + BufLen)
RxRoom == BufLen - 1 - Wrap(rxIn - rxOut + BufLen)

\* The interrupts the turn turns off: receive when data is left and the ring is
\* full, transmit when the FIFO has space left and the ring is empty.
TxDoneEarly(ring) == WSpace > 0
TxDone(ring) == WSpace > Len(ring)
TurnedOff(ring) ==
    (IF RI /\ (RxRoom = 0 \/ Len(rxf) > RxRoom) THEN {"RE"} ELSE {})
      \cup (IF WI /\ TxDone(ring) THEN {"WE"} ELSE {})

IsrPass ==
    LET ring == Ring(txBuf, txIn, txOut)
    IN  /\ RI \/ WI
        /\ IF RI THEN RxPass(RxRoom)
                 ELSE UNCHANGED <<rxBuf, rxIn, rxf, pause>>
        /\ IF WI THEN TxPass(ring) ELSE UNCHANGED <<txf, txOut>>
        /\ SetEnables(irqEnable \ TurnedOff(ring))
        /\ UNCHANGED <<connected, hostNext, hostWants, rxOut, txBuf, txIn,
                       host, pc, call, putNext, userNext>>

AlarmControlBare == {}
AlarmControl == irqEnable

Timeout ==
    /\ timeout # IntMax
    /\ IF ac
         THEN /\ WriteControl(AlarmControl, TRUE)
              /\ hostInactive' = 0
         ELSE /\ UNCHANGED <<ien, ac>>
              /\ hostInactive' = IF hostInactive < IntMax - 2
                                   THEN hostInactive + 1 ELSE hostInactive
    /\ UNCHANGED <<txf, rxf, pause, connected, hostNext, hostWants, rings,
                   irqEnable, timeout, pc, call, putNext, userNext>>

-----------------------------------------------------------------------------
(* write *)

CallWrite(count, nonblock) ==
    /\ pc = "idle"
    /\ Goto(IF count > 0 THEN "wSpace" ELSE "wKick",
            [NoCall EXCEPT !.left = count, !.nonblock = nonblock])
    /\ KeepHw /\ UNCHANGED <<rings, host, putNext, userNext>>

Least(a, b) == IF a < b THEN a ELSE b

\* The longest run of free slots that does not cross the end of the buffer.
TxSpaceNoGap(in, out) == IF in < out THEN out - 1 - in ELSE BufLen - in
TxSpace(in, out) ==
    IF in < out THEN out - 1 - in
    ELSE IF out > 0 THEN BufLen - in
    ELSE BufLen - 1 - in

WriteSpace ==
    LET room == TxSpace(txIn, txOut)
    IN  /\ pc = "wSpace"
        /\ IF room = 0 THEN Goto("wKick", [call EXCEPT !.snap = txOut])
                       ELSE Goto("wCopy", [call EXCEPT !.n = Least(room, call.left)])
        /\ KeepHw /\ UNCHANGED <<rings, host, putNext, userNext>>

WriteCopy ==
    /\ pc = "wCopy"
    /\ Goto("wPublish", call)
    /\ txBuf' = [i \in Index |-> IF i >= txIn /\ i < txIn + call.n
                                   THEN (putNext + i - txIn) % Numbers
                                   ELSE txBuf[i]]
    /\ KeepHw
    /\ UNCHANGED <<rxBuf, rxIn, rxOut, txIn, txOut, host, putNext, userNext>>

\* The count moves on by the bytes just copied.
Advance == [call EXCEPT !.left = @ - call.n, !.done = @ + call.n, !.n = 0]

WritePublish ==
    /\ pc = "wPublish"
    /\ txIn' = Wrap(txIn + call.n)
    /\ putNext' = (putNext + call.n) % Numbers
    /\ Goto(IF call.left > call.n THEN "wSpace" ELSE "wKick", Advance)
    /\ KeepHw /\ UNCHANGED <<rxBuf, rxIn, rxOut, txBuf, txOut, host, userNext>>

\* The wait uses the index read before the kick.
AtWaitReread == [call EXCEPT !.snap = txOut]
AtWait == call

\* With the interrupts off, so that no other change of irq_enable is lost.
WriteKick ==
    /\ pc = "wKick"
    /\ SetEnables(irqEnable \cup {"WE"})
    /\ IF call.left > 0 /\ ~call.nonblock THEN Goto("wWait", AtWait) ELSE Return
    /\ UNCHANGED <<txf, rxf, pause, connected, hostNext, hostWants, rings,
                   host, putNext, userNext>>

WriteWait ==
    /\ pc = "wWait"
    /\ call.snap # txOut \/ Inactive
    /\ Goto("wTest", [call EXCEPT !.snap = 0])
    /\ KeepHw /\ UNCHANGED <<rings, host, putNext, userNext>>

WriteTest ==
    /\ pc = "wTest"
    /\ IF hostInactive # 0 THEN Return ELSE Goto("wSpace", call)
    /\ KeepHw /\ UNCHANGED <<rings, host, putNext, userNext>>

\* What a call that returns now returns: the bytes it moved, or the error.
Result ==
    IF call.done > 0 THEN "count"
    ELSE IF call.nonblock THEN "EWOULDBLOCK" ELSE "EIO"

-----------------------------------------------------------------------------
(* read *)

CallRead(space, nonblock) ==
    /\ pc = "idle"
    /\ Goto(IF space > 0 THEN "rSpace" ELSE "rEnd",
            [NoCall EXCEPT !.left = space, !.nonblock = nonblock])
    /\ KeepHw /\ UNCHANGED <<rings, host, putNext, userNext>>

\* The longest run of received bytes that does not cross the end of the buffer.
RxAvailable(in, out) == IF in >= out THEN in - out ELSE BufLen - out

ReadSpace ==
    LET ready == RxAvailable(rxIn, rxOut)
    IN  /\ pc = "rSpace"
        /\ IF ready > 0
             THEN Goto("rCopy", [call EXCEPT !.n = Least(ready, call.left)])
             ELSE IF call.done > 0 \/ call.nonblock
             THEN Goto("rEnd", call)
             ELSE Goto("rWait", [call EXCEPT !.snap = rxIn])
        /\ KeepHw /\ UNCHANGED <<rings, host, putNext, userNext>>

ReadCopy ==
    /\ pc = "rCopy"
    /\ Goto("rFree", call)
    /\ userNext' = Next1(rxBuf[rxOut + call.n - 1])
    /\ KeepHw /\ UNCHANGED <<rings, host, putNext>>

ReadFree ==
    /\ pc = "rFree"
    /\ rxOut' = Wrap(rxOut + call.n)
    /\ Goto(IF call.left > call.n THEN "rSpace" ELSE "rEnd", Advance)
    /\ KeepHw /\ UNCHANGED <<rxBuf, rxIn, txBuf, txIn, txOut, host, putNext, userNext>>

ReadWait ==
    /\ pc = "rWait"
    /\ call.snap # rxIn \/ Inactive
    /\ Goto("rTest", call)
    /\ KeepHw /\ UNCHANGED <<rings, host, putNext, userNext>>

ReadTest ==
    /\ pc = "rTest"
    /\ Goto(IF call.snap = rxIn THEN "rEnd" ELSE "rSpace", [call EXCEPT !.snap = 0])
    /\ KeepHw /\ UNCHANGED <<rings, host, putNext, userNext>>

\* Bytes were freed, so there is room for the interrupt routine.
ReadFreedAll == call.left = 0
ReadFreed == call.done > 0

ReadEnd ==
    /\ pc = "rEnd"
    /\ Return
    /\ IF ReadFreed THEN SetEnables(irqEnable \cup {"RE"})
                        ELSE UNCHANGED <<irqEnable, ien, ac>>
    /\ UNCHANGED <<txf, rxf, pause, connected, hostNext, hostWants, rings,
                   host, putNext, userNext>>

-----------------------------------------------------------------------------
(* ioctl and close *)

TimeoutUnchecked(t) == t
TimeoutOf(t) == IF t >= 2 /\ t < IntMax THEN t ELSE IntMax - 1

\* TIOCSTIMEOUT; TIOCGCONNECTED answers ~Inactive and changes nothing.
IoctlTimeout(t) ==
    /\ pc = "idle"
    /\ timeout # IntMax
    /\ timeout' = TimeoutOf(t)
    /\ KeepHw /\ UNCHANGED <<rings, hostInactive, pc, call, putNext, userNext>>

CallClose(nonblock) ==
    /\ pc = "idle"
    /\ Goto("closing", [NoCall EXCEPT !.nonblock = nonblock])
    /\ KeepHw /\ UNCHANGED <<rings, host, putNext, userNext>>

CloseTest ==
    /\ pc = "closing"
    /\ txOut = txIn \/ Inactive \/ call.nonblock
    /\ Return
    /\ KeepHw /\ UNCHANGED <<rings, host, putNext, userNext>>

-----------------------------------------------------------------------------
Foreground ==
    \/ WriteSpace \/ WriteCopy \/ WritePublish \/ WriteKick \/ WriteWait \/ WriteTest
    \/ ReadSpace \/ ReadCopy \/ ReadFree \/ ReadWait \/ ReadTest \/ ReadEnd
    \/ CloseTest

Program ==
    \/ \E n \in Writes, nb \in BOOLEAN : CallWrite(n, nb)
    \/ \E n \in Reads, nb \in BOOLEAN : CallRead(n, nb)
    \/ \E t \in Timeouts : IoctlTimeout(t)
    \/ \E nb \in BOOLEAN : CallClose(nb)

KeepDriver == UNCHANGED <<rings, irqEnable, host, pc, call, putNext, userNext>>

HostStep == Host /\ KeepDriver

Next == Program \/ Foreground \/ IsrPass \/ Timeout \/ HostStep

Spec == Init /\ [][Next]_vars

\* The processor runs the call it is in, takes its interrupts and its alarm;
\* a connected terminal drains what is sent and polls.
FairSpec ==
    /\ Spec
    /\ WF_vars(Foreground) /\ WF_vars(IsrPass) /\ WF_vars(Timeout)
    /\ WF_vars(HostTake /\ KeepDriver) /\ WF_vars(HostPoll /\ KeepDriver)

-----------------------------------------------------------------------------
(* Properties *)

\* Type invariant of the driver and the peripheral.
TypeOK ==
    /\ HwTypeOK
    /\ rxBuf \in [Index -> Byte] /\ rxIn \in Index /\ rxOut \in Index
    /\ txBuf \in [Index -> Byte] /\ txIn \in Index /\ txOut \in Index
    /\ irqEnable \subseteq {"RE", "WE"}
    /\ timeout \in 2 .. IntMax /\ hostInactive \in 0 .. IntMax - 2
    /\ pc \in {"idle", "closing"} \cup Writing \cup Reading
    /\ call \in Calls
    /\ putNext \in Byte /\ userNext \in Byte

\* What is under way in each direction.  Bytes the reader has copied out and
\* not yet freed are no longer under way.
TxPipe == txf \o Ring(txBuf, txIn, txOut)
RxPipe == LET ring == Ring(rxBuf, rxIn, rxOut)
          IN  (IF pc = "rFree" THEN SubSeq(ring, call.n + 1, Len(ring)) ELSE ring) \o rxf

Tx == INSTANCE ByteStream WITH
        Capacity <- BufLen - 1 + FifoDepth,
        pipe <- TxPipe, accepted <- putNext, delivered <- hostWants
Rx == INSTANCE ByteStream WITH
        Capacity <- BufLen - 1 + FifoDepth,
        pipe <- RxPipe, accepted <- hostNext, delivered <- userNext

\* The driver refines a byte stream in each direction: what write accepted is
\* what the host is given and what the host sent is what read returns, once
\* and in order, whatever the interleaving of the call, the interrupt routine,
\* the alarm and the host.
TxIsAStream == Tx!StreamSpec
RxIsAStream == Rx!StreamSpec

\* No lost wake-up towards the host: while bytes wait in the transmit ring the
\* write interrupt is enabled, or the writer that put them there is about to
\* enable it.
TxNotStranded ==
    txIn # txOut => "WE" \in ien \/ pc \in {"wSpace", "wCopy", "wPublish", "wKick"}

\* No lost wake-up from the host: the interrupt routine turns the receive
\* interrupt off only for want of room, and before the ring is empty again a
\* reader is on its way to turn it back on.
RxNotStranded ==
    "RE" \notin ien => \/ rxIn # rxOut
                       \/ pc \in {"rSpace", "rEnd"} /\ call.done > 0

\* A caller that waits is right to wait: the index it compares with is stale
\* only in the way that ends the wait, although both indices wrap.
WaitIsJustified ==
    /\ pc = "wWait" /\ Wrap(txOut - txIn - 1 + BufLen) > 0 => call.snap # txOut
    /\ pc = "rWait" /\ rxIn # rxOut => call.snap # rxIn

\* The driver's copy of the enables is the register's value, although the
\* foreground, the interrupt routine and the alarm all write it.
EnablesAgree == ien = irqEnable

\* The host stops coming and going.
Settles == <>[]connected \/ <>[]~connected

\* Every write and every close ends, whether the host drains the FIFO or has
\* gone away, if the alarm runs and the timeout is one it can reach.
CallsEnd == Settles /\ <>[](timeout < IntMax - 1)
              => [](pc \in Writing \cup {"closing"} => <>(pc = "idle"))

\* A read ends once the host is gone.
ReadsEnd == <>[]~connected /\ <>[](timeout < IntMax - 1)
              => [](pc \in Reading => <>(pc = "idle"))

\* Everything written reaches a host that stays.
WrittenArrives == <>[]connected =>
    \A b \in Byte : [](b \in {TxPipe[i] : i \in DOMAIN TxPipe}
                         => <>(b \notin {TxPipe[i] : i \in DOMAIN TxPipe}))
=============================================================================
