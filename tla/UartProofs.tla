----------------------------- MODULE UartProofs -----------------------------
(***************************************************************************)
(* The theorems about the JTAG UART drivers (JtagUart.tla and, where the   *)
(* run of MCProgress.tla puts it beside it, JtagUartPolled.tla): for every *)
(* size of the FIFOs and of the circular buffers, every timeout, and every *)
(* call of write, read, ioctl and close.                                   *)
(***************************************************************************)
EXTENDS MCProgress, SequenceTheorems, TLAPS

-----------------------------------------------------------------------------
(* Indices of a circular buffer.                                           *)
Used(in, out) == Wrap(in - out + BufLen)
Room(in, out) == BufLen - 1 - Used(in, out)

LEMMA WrapOnce ==
  ASSUME NEW x \in 0 .. 2 * BufLen - 1
  PROVE  Wrap(x) = IF x < BufLen THEN x ELSE x - BufLen
<1>1. BufLen \in Nat \ {0, 1}
  BY UartAssumption
<1>2. CASE x < BufLen
  BY <1>1, <1>2, SMT DEF Wrap
<1>3. CASE x >= BufLen
  <2>1. x - BufLen \in 0 .. BufLen - 1 /\ x = 1 * BufLen + (x - BufLen)
    BY <1>1, <1>3, SMT
  <2>2. QED
    BY <1>1, <1>3, <2>1, SMT DEF Wrap
<1>4. QED
  BY <1>1, <1>2, <1>3, SMT

LEMMA UsedRoom ==
  ASSUME NEW in \in Index, NEW out \in Index
  PROVE  /\ Used(in, out) = IF in >= out THEN in - out ELSE in - out + BufLen
         /\ Used(in, out) \in 0 .. BufLen - 1
         /\ Room(in, out) \in 0 .. BufLen - 1
         /\ Used(in, out) = 0 <=> in = out
<1>1. BufLen \in Nat \ {0, 1} /\ in \in 0 .. BufLen - 1 /\ out \in 0 .. BufLen - 1
  BY UartAssumption DEF Index
<1>2. in - out + BufLen \in 0 .. 2 * BufLen - 1
  BY <1>1, SMT
<1>3. Used(in, out) = IF in - out + BufLen < BufLen THEN in - out + BufLen ELSE in - out
  BY <1>1, <1>2, WrapOnce, SMT DEF Used
<1>4. QED
  BY <1>1, <1>3, SMT DEF Room

(* The writer's index moved over free slots, the reader's over used ones.  *)
LEMMA UsedMoves ==
  ASSUME NEW in \in Index, NEW out \in Index
  PROVE  /\ \A n \in 0 .. Room(in, out) :
              Wrap(in + n) \in Index /\ Used(Wrap(in + n), out) = Used(in, out) + n
         /\ \A n \in 0 .. Used(in, out) :
              Wrap(out + n) \in Index /\ Used(in, Wrap(out + n)) = Used(in, out) - n
<1>1. BufLen \in Nat \ {0, 1} /\ in \in 0 .. BufLen - 1 /\ out \in 0 .. BufLen - 1
  BY UartAssumption DEF Index
<1>2. \A i \in 0 .. BufLen - 1, n \in 0 .. BufLen - 1 :
        Wrap(i + n) = IF i + n < BufLen THEN i + n ELSE i + n - BufLen
  BY <1>1, WrapOnce, SMT
<1>3. \A i, j \in 0 .. BufLen - 1 :
        Used(i, j) = IF i >= j THEN i - j ELSE i - j + BufLen
  BY UsedRoom DEF Index
<1>4. ASSUME NEW n \in 0 .. Room(in, out)
      PROVE  Wrap(in + n) \in Index /\ Used(Wrap(in + n), out) = Used(in, out) + n
  <2>1. n \in 0 .. BufLen - 1 /\ n <= BufLen - 1 - Used(in, out)
    BY <1>1, <1>4, UsedRoom, SMT DEF Room
  <2>2. Wrap(in + n) \in 0 .. BufLen - 1
    BY <1>1, <1>2, <2>1, SMT
  <2>3. QED
    BY <1>1, <1>2, <1>3, <2>1, <2>2, SMT DEF Index
<1>5. ASSUME NEW n \in 0 .. Used(in, out)
      PROVE  Wrap(out + n) \in Index /\ Used(in, Wrap(out + n)) = Used(in, out) - n
  <2>1. n \in 0 .. BufLen - 1 /\ n <= Used(in, out)
    BY <1>1, <1>5, UsedRoom, SMT
  <2>2. Wrap(out + n) \in 0 .. BufLen - 1
    BY <1>1, <1>2, <2>1, SMT
  <2>3. Wrap(out + n) = IF out + n < BufLen THEN out + n ELSE out + n - BufLen
    BY <1>1, <1>2, <2>1
  <2>4. /\ Used(in, out) = IF in >= out THEN in - out ELSE in - out + BufLen
        /\ Used(in, Wrap(out + n)) = IF in >= Wrap(out + n) THEN in - Wrap(out + n)
                                     ELSE in - Wrap(out + n) + BufLen
    BY <1>1, <1>3, <2>2
  <2>5. QED
    BY <1>1, <2>1, <2>2, <2>3, <2>4, SMT DEF Index
<1>6. QED
  BY <1>4, <1>5

-----------------------------------------------------------------------------
(* The contents of a circular buffer, as a sequence.                       *)
Bytes == [Index -> Byte]
Slot(out, i) == Wrap(out + i - 1)

(* A function on 1 .. n is a sequence of n elements.                       *)
LEMMA FunctionIsSeq ==
  ASSUME NEW S, NEW n \in Nat, NEW f \in [1 .. n -> S]
  PROVE  f \in Seq(S) /\ Len(f) = n
<1>1. f \in Seq(S)
  BY SeqDef
<1>2. DOMAIN f = 1 .. n /\ DOMAIN f = 1 .. Len(f) /\ Len(f) \in Nat
  BY <1>1, LenProperties
<1>3. \A k, m \in Nat : 1 .. k = 1 .. m => k = m
  BY SMT
<1>4. QED
  BY <1>1, <1>2, <1>3

LEMMA SlotIsIndex ==
  ASSUME NEW out \in Index, NEW i \in 1 .. BufLen
  PROVE  /\ Slot(out, i) = IF out + i - 1 < BufLen THEN out + i - 1
                           ELSE out + i - 1 - BufLen
         /\ Slot(out, i) \in Index
<1>1. BufLen \in Nat \ {0, 1} /\ out \in 0 .. BufLen - 1
  BY UartAssumption DEF Index
<1>2. out + i - 1 \in 0 .. 2 * BufLen - 1
  BY <1>1, SMT
<1>3. QED
  BY <1>1, <1>2, WrapOnce, SMT DEF Slot, Index

LEMMA RingIs ==
  ASSUME NEW buf \in Bytes, NEW in \in Index, NEW out \in Index
  PROVE  /\ Ring(buf, in, out) \in Seq(Byte)
         /\ Len(Ring(buf, in, out)) = Used(in, out)
         /\ \A i \in 1 .. Used(in, out) : Ring(buf, in, out)[i] = buf[Slot(out, i)]
<1>1. Used(in, out) \in 0 .. BufLen - 1 /\ BufLen \in Nat
  BY UsedRoom, UartAssumption
<1>2. Ring(buf, in, out) = [i \in 1 .. Used(in, out) |-> buf[Slot(out, i)]]
  BY DEF Ring, Used, Slot
<1>3. \A i \in 1 .. Used(in, out) : buf[Slot(out, i)] \in Byte
  <2>1. \A i \in 1 .. Used(in, out) : i \in 1 .. BufLen
    BY <1>1, SMT
  <2>2. QED
    BY <2>1, SlotIsIndex DEF Bytes
<1>4. [i \in 1 .. Used(in, out) |-> buf[Slot(out, i)]] \in [1 .. Used(in, out) -> Byte]
  BY <1>3
<1>5. Used(in, out) \in Nat
  BY <1>1, SMT
<1>6. QED
  BY <1>2, <1>4, <1>5, FunctionIsSeq

(* Slots that are not in use may change.                                   *)
LEMMA RingKept ==
  ASSUME NEW buf \in Bytes, NEW buf2 \in Bytes, NEW in \in Index, NEW out \in Index,
         \A i \in 1 .. Used(in, out) : buf2[Slot(out, i)] = buf[Slot(out, i)]
  PROVE  Ring(buf2, in, out) = Ring(buf, in, out)
  BY RingIs, SeqEqual

(* The reader's index moved on by n: the first n bytes are gone.           *)
LEMMA RingTake ==
  ASSUME NEW buf \in Bytes, NEW in \in Index, NEW out \in Index,
         NEW n \in 0 .. Used(in, out)
  PROVE  Ring(buf, in, Wrap(out + n))
           = SubSeq(Ring(buf, in, out), n + 1, Len(Ring(buf, in, out)))
<1> DEFINE old == Ring(buf, in, out)
           u   == Used(in, out)
           new == Ring(buf, in, Wrap(out + n))
<1>1. BufLen \in Nat \ {0, 1} /\ out \in 0 .. BufLen - 1 /\ u \in 0 .. BufLen - 1
      /\ n \in 0 .. u
  BY UartAssumption, UsedRoom DEF Index
<1>2. old \in Seq(Byte) /\ Len(old) = u
  BY RingIs
<1>3. Wrap(out + n) \in Index /\ Used(in, Wrap(out + n)) = u - n
  BY UsedMoves
<1>4. new \in Seq(Byte) /\ Len(new) = u - n
      /\ \A i \in 1 .. u - n : new[i] = buf[Slot(Wrap(out + n), i)]
  BY <1>3, RingIs
<1>5. /\ SubSeq(old, n + 1, u) \in Seq(Byte)
      /\ Len(SubSeq(old, n + 1, u)) = u - n
      /\ \A i \in 1 .. u - n : SubSeq(old, n + 1, u)[i] = old[n + i]
  <2> HIDE DEF old, u
  <2>1. n + 1 \in Int /\ u \in Int /\ \A i \in n + 1 .. u : old[i] \in Byte
    <3>1. \A i \in n + 1 .. u : i \in 1 .. Len(old)
      BY <1>1, <1>2, SMT
    <3>2. QED
      BY <1>1, <1>2, <3>1, ElementOfSeq
  <2>2. u - (n + 1) + 1 = u - n /\ (n + 1 > u => u - n = 0)
    BY <1>1, SMT
  <2>3. \A i \in 1 .. u - n : n + 1 + i - 1 = n + i
    BY <1>1, SMT
  <2>4. Len(SubSeq(old, n + 1, u)) = IF n + 1 <= u THEN u - (n + 1) + 1 ELSE 0
    BY <2>1, SubSeqProperties
  <2>5. SubSeq(old, n + 1, u) \in Seq(Byte)
        /\ \A i \in 1 .. u - (n + 1) + 1 : SubSeq(old, n + 1, u)[i] = old[n + 1 + i - 1]
    BY <2>1, SubSeqProperties
  <2>6. QED
    BY <1>1, <2>2, <2>3, <2>4, <2>5
<1>6. ASSUME NEW i \in 1 .. u - n
      PROVE  new[i] = old[n + i]
  <2>1. i \in 1 .. BufLen /\ n + i \in 1 .. BufLen /\ n + i \in 1 .. u
    BY <1>1, <1>6, SMT
  <2>2. n \in 0 .. BufLen - 1
    BY <1>1, SMT
  <2>3. Wrap(out + n) = IF out + n < BufLen THEN out + n ELSE out + n - BufLen
    BY <1>1, <2>2, WrapOnce, SMT
  <2>4. Slot(Wrap(out + n), i) = Slot(out, n + i)
    BY <1>1, <1>3, <2>1, <2>2, <2>3, SlotIsIndex, SMT
  <2>5. old[n + i] = buf[Slot(out, n + i)]
    BY <2>1, RingIs
  <2>6. QED
    BY <1>4, <2>4, <2>5
<1>7. QED
  BY <1>2, <1>4, <1>5, <1>6, SeqEqual

(* Where the slots lie, seen from the writer's index: those in use are     *)
(* past the free ones.                                                     *)
LEMMA SlotDistance ==
  ASSUME NEW in \in Index, NEW out \in Index
  PROVE  /\ \A i \in 1 .. Used(in, out) : Used(Slot(out, i), in) > Room(in, out)
         /\ \A i \in 1 .. BufLen : Used(Slot(in, i), in) = i - 1
         /\ \A k \in 1 .. Room(in, out) : Slot(out, Used(in, out) + k) = Slot(in, k)
<1>1. BufLen \in Nat \ {0, 1} /\ in \in 0 .. BufLen - 1 /\ out \in 0 .. BufLen - 1
  BY UartAssumption DEF Index
<1>2. Used(in, out) \in 0 .. BufLen - 1
      /\ Used(in, out) = IF in >= out THEN in - out ELSE in - out + BufLen
  BY UsedRoom
<1>3. \A o \in Index, i \in 1 .. BufLen :
        /\ Slot(o, i) \in 0 .. BufLen - 1
        /\ Slot(o, i) = IF o + i - 1 < BufLen THEN o + i - 1 ELSE o + i - 1 - BufLen
        /\ Used(Slot(o, i), in) = IF Slot(o, i) >= in THEN Slot(o, i) - in
                                  ELSE Slot(o, i) - in + BufLen
  <2>1. TAKE o \in Index, i \in 1 .. BufLen
  <2>2. Slot(o, i) \in Index
    BY SlotIsIndex
  <2>3. QED
    BY <2>2, SlotIsIndex, UsedRoom DEF Index
<1>4. ASSUME NEW i \in 1 .. Used(in, out)
      PROVE  Used(Slot(out, i), in) > Room(in, out)
  <2>1. i \in 1 .. BufLen
    BY <1>1, <1>2, SMT
  <2>2. QED
    BY <1>1, <1>2, <1>3, <2>1, SMT DEF Room
<1>5. ASSUME NEW i \in 1 .. BufLen
      PROVE  Used(Slot(in, i), in) = i - 1
  <2>1. /\ Slot(in, i) = IF in + i - 1 < BufLen THEN in + i - 1 ELSE in + i - 1 - BufLen
        /\ Used(Slot(in, i), in) = IF Slot(in, i) >= in THEN Slot(in, i) - in
                                   ELSE Slot(in, i) - in + BufLen
    BY <1>3
  <2>2. QED
    BY <1>1, <2>1, SMT
<1>6. ASSUME NEW k \in 1 .. Room(in, out)
      PROVE  Slot(out, Used(in, out) + k) = Slot(in, k)
  <2>1. k \in 1 .. BufLen /\ Used(in, out) + k \in 1 .. BufLen
    BY <1>1, <1>2, <1>6, SMT DEF Room
  <2>2. /\ Slot(in, k) = IF in + k - 1 < BufLen THEN in + k - 1 ELSE in + k - 1 - BufLen
        /\ Slot(out, Used(in, out) + k) =
             IF out + (Used(in, out) + k) - 1 < BufLen THEN out + (Used(in, out) + k) - 1
             ELSE out + (Used(in, out) + k) - 1 - BufLen
    BY <1>3, <2>1
  <2>3. QED
    BY <1>1, <1>2, <2>1, <2>2, SMT
<1>7. QED
  BY <1>4, <1>5, <1>6

(* The writer's index moved on over n slots that hold s.                   *)
LEMMA RingPut ==
  ASSUME NEW buf \in Bytes, NEW in \in Index, NEW out \in Index,
         NEW s \in Seq(Byte), Len(s) \in 0 .. Room(in, out),
         \A i \in 1 .. Len(s) : buf[Slot(in, i)] = s[i]
  PROVE  Ring(buf, Wrap(in + Len(s)), out) = Ring(buf, in, out) \o s
<1> DEFINE old == Ring(buf, in, out)
           u   == Used(in, out)
           n   == Len(s)
           new == Ring(buf, Wrap(in + n), out)
<1>1. u \in Nat /\ n \in Nat /\ n \in 0 .. Room(in, out)
  BY UsedRoom, LenProperties, UartAssumption, SMT
<1>2. old \in Seq(Byte) /\ Len(old) = u /\ \A i \in 1 .. u : old[i] = buf[Slot(out, i)]
  BY RingIs
<1>3. Wrap(in + n) \in Index /\ Used(Wrap(in + n), out) = u + n
  BY <1>1, UsedMoves
<1>4. new \in Seq(Byte) /\ Len(new) = u + n
      /\ \A i \in 1 .. u + n : new[i] = buf[Slot(out, i)]
  BY <1>3, RingIs
<1>5. /\ old \o s \in Seq(Byte) /\ Len(old \o s) = u + n
      /\ \A i \in 1 .. u + n : (old \o s)[i] = IF i <= u THEN old[i] ELSE s[i - u]
  <2>1. /\ old \o s \in Seq(Byte) /\ Len(old \o s) = Len(old) + Len(s)
        /\ \A i \in 1 .. Len(old) + Len(s) :
             (old \o s)[i] = IF i <= Len(old) THEN old[i] ELSE s[i - Len(old)]
    BY <1>2, ConcatProperties, Zenon
  <2>2. QED
    BY <1>2, <2>1, Zenon
<1>6. ASSUME NEW i \in 1 .. u + n
      PROVE  new[i] = (old \o s)[i]
  <2>1. CASE i <= u
    <3>1. i \in 1 .. u
      BY <1>1, <2>1, SMT
    <3>2. QED
      BY <1>2, <1>4, <1>5, <1>6, <2>1, <3>1
  <2>2. CASE ~(i <= u)
    <3>1. i - u \in 1 .. n /\ i - u \in 1 .. Room(in, out) /\ u + (i - u) = i
      BY <1>1, <1>6, <2>2, UsedRoom, SMT
    <3>2. Slot(out, i) = Slot(in, i - u)
      <4>1. Slot(out, u + (i - u)) = Slot(in, i - u)
        BY <3>1, SlotDistance
      <4>2. QED
        BY <3>1, <4>1
    <3>3. QED
      BY <1>4, <1>5, <1>6, <2>2, <3>1, <3>2
  <2>3. QED
    BY <2>1, <2>2
<1>7. QED
  BY <1>4, <1>5, <1>6, SeqEqual

-----------------------------------------------------------------------------
(* The invariant of the interrupt-driven driver.                           *)

(* The slots a call is copying are its own: free ones in the transmit ring *)
(* and filled ones in the receive ring, in one run, whatever the interrupt *)
(* routine does to the other index.                                        *)
CallFits ==
  /\ pc \in {"wCopy", "wPublish"} =>
       call.n \in 1 .. call.left /\ call.n <= Room(txIn, txOut) /\ txIn + call.n <= BufLen
  /\ pc \in {"rCopy", "rFree"} =>
       call.n \in 1 .. call.left /\ call.n <= Used(rxIn, rxOut) /\ rxOut + call.n <= BufLen
  /\ pc \in {"wSpace", "wWait", "wTest", "rSpace", "rWait", "rTest"} => call.left > 0

(* What was copied is still there when it is published.                    *)
CopyHeld ==
  pc = "wPublish" =>
    \A i \in 1 .. call.n : txBuf[txIn + i - 1] = (putNext + i - 1) % Numbers

(* The index a waiting call compares with is the one that meant full, or   *)
(* empty, when it was read.                                                *)
SnapHeld ==
  /\ pc = "wWait" \/ (pc = "wKick" /\ call.left > 0) => call.snap = Wrap(txIn + 1)
  /\ pc = "rWait" => call.snap = rxOut

DriverInv ==
  /\ TypeOK /\ EnablesAgree
  /\ CallFits /\ CopyHeld /\ SnapHeld
  /\ TxNotStranded /\ RxNotStranded

LEMMA UartConstants ==
  /\ BufLen \in Nat \ {0, 1} /\ FifoDepth \in Nat \ {0} /\ Numbers \in Nat \ {0}
  /\ IntMax \in Nat /\ IntMax > 3 /\ DefaultTimeout \in 2 .. IntMax - 1
  /\ 0 \in Byte /\ 0 \in Index
  /\ 0 \in 0 .. BufLen /\ NoCall \in Calls
<1>1. /\ BufLen \in Nat \ {0, 1} /\ FifoDepth \in Nat \ {0} /\ Numbers \in Nat \ {0}
      /\ IntMax \in Nat /\ IntMax > 3 /\ DefaultTimeout \in 2 .. IntMax - 1
  BY UartAssumption, FifoAssumption
<1>2. 0 \in Byte /\ 0 \in Index /\ 0 \in 0 .. BufLen
  BY <1>1, SMT DEF Byte, Index
<1>3. NoCall \in Calls
  BY <1>2 DEF NoCall, Calls
<1>4. QED
  BY <1>1, <1>2, <1>3

LEMMA NumberIsByte == \A k \in Int : k % Numbers \in Byte
  BY FifoAssumption, SMT DEF Byte

LEMMA DriverInit == Init => DriverInv
<1> SUFFICES ASSUME Init PROVE DriverInv
  OBVIOUS
<1> USE UartConstants
<1>1. HwTypeOK
  <2>1. <<>> \in Seq(Byte) /\ Len(<<>>) = 0
    BY EmptySeq
  <2>2. 0 <= FifoDepth
    BY SMT
  <2>3. QED
    BY <2>1, <2>2 DEF Init, HwInit, HwTypeOK
<1>2. /\ timeout \in 2 .. IntMax /\ hostInactive \in 0 .. IntMax - 2
      /\ IntMax \in 2 .. IntMax
  BY SMT DEF Init
<1>3. TypeOK
  BY <1>1, <1>2 DEF Init, TypeOK
<1>4. QED
  BY <1>3 DEF Init, HwInit, DriverInv, EnablesAgree, CallFits, CopyHeld, SnapHeld, NoCall,
              TxNotStranded, RxNotStranded

(* A step of the call that moves nothing: only its place and its locals    *)
(* change.                                                                 *)
Still == UNCHANGED <<hwVars, irqEnable, rings, host, putNext, userNext>>

LEMMA StillTypes ==
  ASSUME DriverInv, Still, call' \in Calls,
         pc' \in {"idle", "closing"} \cup Writing \cup Reading
  PROVE  TypeOK' /\ EnablesAgree'
  BY DEF DriverInv, Still, TypeOK, HwTypeOK, EnablesAgree, hwVars, rings, host

(* The entries of the calls.                                               *)
LEMMA EntryStep ==
  ASSUME DriverInv,
         \/ \E n \in Writes, nb \in BOOLEAN : CallWrite(n, nb)
         \/ \E n \in Reads, nb \in BOOLEAN : CallRead(n, nb)
         \/ \E nb \in BOOLEAN : CallClose(nb)
         \/ CloseTest
  PROVE  DriverInv'
<1> USE UartConstants
<1>1. Still
  BY DEF CallWrite, CallRead, CallClose, CloseTest, KeepHw, Still, rings, host
<1>2. /\ pc \in {"idle", "closing"}
      /\ \/ pc' \in {"wSpace", "rSpace"} /\ call'.left > 0
         \/ pc' = "wKick" /\ call'.left = 0
         \/ pc' \in {"rEnd", "closing", "idle"}
      /\ call' \in Calls
  <2>1. CASE \E n \in Writes, nb \in BOOLEAN : CallWrite(n, nb)
    <3>1. PICK n \in Writes, nb \in BOOLEAN : CallWrite(n, nb)
      BY <2>1
    <3>2. n \in Nat
      BY UartAssumption
    <3>3. ~(n > 0) => n = 0
      BY <3>2, SMT
    <3>4. call' = [NoCall EXCEPT !.left = n, !.nonblock = nb]
      BY <3>1 DEF CallWrite, Goto
    <3>5. call' \in Calls /\ call'.left = n
      BY <3>2, <3>4 DEF NoCall, Calls
    <3>6. QED
      BY <3>1, <3>3, <3>5 DEF CallWrite, Goto
  <2>2. CASE \E n \in Reads, nb \in BOOLEAN : CallRead(n, nb)
    <3>1. PICK n \in Reads, nb \in BOOLEAN : CallRead(n, nb)
      BY <2>2
    <3>2. n \in Nat
      BY UartAssumption
    <3>3. call' = [NoCall EXCEPT !.left = n, !.nonblock = nb]
      BY <3>1 DEF CallRead, Goto
    <3>4. call' \in Calls /\ call'.left = n
      BY <3>2, <3>3 DEF NoCall, Calls
    <3>5. QED
      BY <3>1, <3>4 DEF CallRead, Goto
  <2>3. CASE \E nb \in BOOLEAN : CallClose(nb)
    <3>1. PICK nb \in BOOLEAN : CallClose(nb)
      BY <2>3
    <3>2. call' = [NoCall EXCEPT !.nonblock = nb]
      BY <3>1 DEF CallClose, Goto
    <3>3. call' \in Calls
      BY <3>2 DEF NoCall, Calls
    <3>4. QED
      BY <3>1, <3>3 DEF CallClose, Goto
  <2>4. CASE CloseTest
    BY <2>4 DEF CloseTest, Return, Goto
  <2>5. QED
    BY <2>1, <2>2, <2>3, <2>4
<1>3. TypeOK' /\ EnablesAgree'
  BY <1>1, <1>2, StillTypes DEF Writing, Reading
<1>4. CallFits' /\ CopyHeld'
  BY <1>2 DEF CallFits, CopyHeld
<1>5. SnapHeld'
  BY <1>2, SMT DEF SnapHeld
<1>6. TxNotStranded' /\ RxNotStranded'
  BY <1>1, <1>2 DEF Still, hwVars, rings, DriverInv, TxNotStranded, RxNotStranded
<1>7. QED
  BY <1>3, <1>4, <1>5, <1>6 DEF DriverInv

(* The longest run of free slots, and of filled ones.                      *)
LEMMA FreeRun ==
  ASSUME NEW in \in Index, NEW out \in Index
  PROVE  /\ TxSpace(in, out) \in 0 .. Room(in, out)
         /\ in + TxSpace(in, out) <= BufLen
         /\ TxSpace(in, out) = 0 => out = Wrap(in + 1)
<1>1. BufLen \in Nat \ {0, 1} /\ in \in 0 .. BufLen - 1 /\ out \in 0 .. BufLen - 1
  BY UartAssumption DEF Index
<1>2. Used(in, out) = IF in >= out THEN in - out ELSE in - out + BufLen
  BY UsedRoom
<1>3. in + 1 \in 0 .. 2 * BufLen - 1
  BY <1>1, SMT
<1>4. Wrap(in + 1) = IF in + 1 < BufLen THEN in + 1 ELSE in + 1 - BufLen
  BY <1>1, <1>3, WrapOnce, SMT
<1>5. QED
  BY <1>1, <1>2, <1>4, SMT DEF TxSpace, Room

LEMMA FilledRun ==
  ASSUME NEW in \in Index, NEW out \in Index
  PROVE  /\ RxAvailable(in, out) \in 0 .. Used(in, out)
         /\ out + RxAvailable(in, out) <= BufLen
         /\ RxAvailable(in, out) = 0 <=> in = out
<1>1. BufLen \in Nat \ {0, 1} /\ in \in 0 .. BufLen - 1 /\ out \in 0 .. BufLen - 1
  BY UartAssumption DEF Index
<1>2. Used(in, out) = IF in >= out THEN in - out ELSE in - out + BufLen
  BY UsedRoom
<1>3. QED
  BY <1>1, <1>2, SMT DEF RxAvailable

(* The steps of write that only look.                                      *)
LEMMA WriteLooks ==
  ASSUME DriverInv, WriteSpace \/ WriteWait \/ WriteTest
  PROVE  DriverInv'
<1> USE UartConstants
<1>1. Still
  BY DEF WriteSpace, WriteWait, WriteTest, KeepHw, Still, rings, host
<1>2. /\ call \in Calls /\ txIn \in Index /\ txOut \in Index
      /\ txIn' = txIn /\ txOut' = txOut /\ putNext' = putNext
      /\ pc \in {"wSpace", "wWait", "wTest"} => call.left \in Nat /\ call.left > 0
  BY <1>1 DEF DriverInv, TypeOK, Still, rings, CallFits, Calls
<1>3. /\ call' \in Calls
      /\ \/ /\ pc = "wSpace" /\ pc' = "wKick" /\ call'.snap = Wrap(txIn + 1)
         \/ /\ pc = "wSpace" /\ pc' = "wCopy" /\ call'.n \in 1 .. call'.left
            /\ call'.n <= Room(txIn, txOut) /\ txIn + call'.n <= BufLen
         \/ /\ pc = "wWait" /\ pc' = "wTest" /\ call'.left > 0
         \/ /\ pc = "wTest" /\ pc' = "wSpace" /\ call'.left > 0
         \/ /\ pc = "wTest" /\ pc' = "idle"
  <2>1. CASE WriteSpace
    <3> DEFINE room == TxSpace(txIn, txOut)
    <3>1. /\ room \in 0 .. Room(txIn, txOut) /\ txIn + room <= BufLen
          /\ room = 0 => txOut = Wrap(txIn + 1)
      BY <1>2, FreeRun
    <3>2. Room(txIn, txOut) \in 0 .. BufLen - 1 /\ txIn \in 0 .. BufLen - 1
      BY <1>2, UsedRoom DEF Index
    <3> HIDE DEF room
    <3>3. CASE room = 0
      <4>1. pc = "wSpace" /\ pc' = "wKick" /\ call' = [call EXCEPT !.snap = txOut]
        BY <2>1, <3>3 DEF WriteSpace, Goto, room
      <4>2. QED
        BY <1>2, <3>1, <3>3, <4>1 DEF Calls
    <3>4. CASE room # 0
      <4>1. /\ pc = "wSpace" /\ pc' = "wCopy"
            /\ call' = [call EXCEPT !.n = Least(room, call.left)]
        BY <2>1, <3>4 DEF WriteSpace, Goto, room
      <4>2. call.left \in Nat \ {0}
        BY <1>2, <4>1, SMT
      <4>3. /\ Least(room, call.left) \in 1 .. call.left
            /\ Least(room, call.left) \in 0 .. BufLen
            /\ Least(room, call.left) <= Room(txIn, txOut)
            /\ txIn + Least(room, call.left) <= BufLen
        BY <3>1, <3>2, <3>4, <4>2, SMT DEF Least
      <4>4. call'.n = Least(room, call.left) /\ call'.left = call.left
        BY <1>2, <4>1 DEF Calls
      <4>5. call' \in Calls
        BY <1>2, <4>1, <4>3 DEF Calls
      <4>6. QED
        BY <4>1, <4>3, <4>4, <4>5
    <3>5. QED
      BY <3>3, <3>4
  <2>2. CASE WriteWait
    <3>1. pc = "wWait" /\ pc' = "wTest" /\ call' = [call EXCEPT !.snap = 0]
      BY <2>2 DEF WriteWait, Goto
    <3>2. QED
      BY <1>2, <3>1 DEF Calls
  <2>3. CASE WriteTest
    BY <1>2, <2>3 DEF WriteTest, Goto, Return
  <2>4. QED
    BY <2>1, <2>2, <2>3
<1>4. TypeOK' /\ EnablesAgree'
  BY <1>1, <1>3, StillTypes DEF Writing, Reading
<1>5. CallFits' /\ CopyHeld' /\ SnapHeld'
  BY <1>2, <1>3 DEF CallFits, CopyHeld, SnapHeld
<1>6. TxNotStranded' /\ RxNotStranded'
  BY <1>1, <1>3 DEF Still, hwVars, rings, DriverInv, TxNotStranded, RxNotStranded
<1>7. QED
  BY <1>4, <1>5, <1>6 DEF DriverInv

(* The steps of read that only look.                                       *)
LEMMA ReadLooks ==
  ASSUME DriverInv, ReadSpace \/ ReadWait \/ ReadTest
  PROVE  DriverInv'
<1> USE UartConstants
<1>1. Still
  BY DEF ReadSpace, ReadWait, ReadTest, KeepHw, Still, rings, host
<1>2. /\ call \in Calls /\ rxIn \in Index /\ rxOut \in Index
      /\ rxIn' = rxIn /\ rxOut' = rxOut
      /\ pc \in {"rSpace", "rWait", "rTest"} => call.left \in Nat /\ call.left > 0
  BY <1>1 DEF DriverInv, TypeOK, Still, rings, CallFits, Calls
<1>3. /\ call' \in Calls
      /\ \/ /\ pc = "rSpace" /\ pc' = "rCopy" /\ rxIn # rxOut /\ call'.n \in 1 .. call'.left
            /\ call'.n <= Used(rxIn, rxOut) /\ rxOut + call'.n <= BufLen
         \/ /\ pc = "rSpace" /\ pc' = "rEnd" /\ call' = call
         \/ /\ pc = "rSpace" /\ pc' = "rWait" /\ call'.snap = rxOut /\ call'.left > 0
            /\ ~(call.done > 0)
         \/ /\ pc = "rWait" /\ pc' = "rTest" /\ call'.left > 0
         \/ /\ pc = "rTest" /\ pc' \in {"rSpace", "rEnd"} /\ call'.left > 0
  <2>1. CASE ReadSpace
    <3> DEFINE atHand == RxAvailable(rxIn, rxOut)
    <3>1. /\ atHand \in 0 .. Used(rxIn, rxOut) /\ rxOut + atHand <= BufLen
          /\ atHand = 0 <=> rxIn = rxOut
      BY <1>2, FilledRun
    <3>2. Used(rxIn, rxOut) \in 0 .. BufLen - 1 /\ rxOut \in 0 .. BufLen - 1
      BY <1>2, UsedRoom DEF Index
    <3>3. pc = "rSpace" /\ call.left \in Nat \ {0}
      BY <1>2, <2>1, SMT DEF ReadSpace
    <3> HIDE DEF atHand
    <3>4. CASE atHand > 0
      <4>1. pc' = "rCopy" /\ call' = [call EXCEPT !.n = Least(atHand, call.left)]
        BY <2>1, <3>4 DEF ReadSpace, Goto, atHand
      <4>2. /\ Least(atHand, call.left) \in 1 .. call.left
            /\ Least(atHand, call.left) \in 0 .. BufLen
            /\ Least(atHand, call.left) <= Used(rxIn, rxOut)
            /\ rxOut + Least(atHand, call.left) <= BufLen
        BY <3>1, <3>2, <3>3, <3>4, SMT DEF Least
      <4>3. rxIn # rxOut
        BY <3>1, <3>4, SMT
      <4>4. call'.n = Least(atHand, call.left) /\ call'.left = call.left
        BY <1>2, <4>1 DEF Calls
      <4>5. call' \in Calls
        BY <1>2, <4>1, <4>2 DEF Calls
      <4>6. QED
        BY <3>3, <4>1, <4>2, <4>3, <4>4, <4>5
    <3>5. CASE ~(atHand > 0)
      <4>1. rxIn = rxOut
        BY <3>1, <3>2, <3>5, SMT
      <4>2. CASE call.done > 0 \/ call.nonblock
        BY <1>2, <2>1, <3>3, <3>5, <4>2 DEF ReadSpace, Goto, atHand
      <4>3. CASE ~(call.done > 0 \/ call.nonblock)
        <5>1. pc' = "rWait" /\ call' = [call EXCEPT !.snap = rxIn]
          BY <2>1, <3>5, <4>3 DEF ReadSpace, Goto, atHand
        <5>2. call' \in Calls /\ call'.snap = rxIn /\ call'.left = call.left
          BY <1>2, <5>1 DEF Calls
        <5>3. QED
          BY <1>2, <3>3, <4>1, <4>3, <5>1, <5>2
      <4>4. QED
        BY <4>2, <4>3
    <3>6. QED
      BY <3>4, <3>5
  <2>2. CASE ReadWait
    BY <1>2, <2>2 DEF ReadWait, Goto
  <2>3. CASE ReadTest
    <3>1. pc = "rTest" /\ pc' \in {"rSpace", "rEnd"} /\ call' = [call EXCEPT !.snap = 0]
      BY <2>3 DEF ReadTest, Goto
    <3>2. QED
      BY <1>2, <3>1 DEF Calls
  <2>4. QED
    BY <2>1, <2>2, <2>3
<1>4. TypeOK' /\ EnablesAgree'
  BY <1>1, <1>3, StillTypes DEF Writing, Reading
<1>5. CallFits' /\ CopyHeld' /\ SnapHeld'
  BY <1>2, <1>3 DEF CallFits, CopyHeld, SnapHeld
<1>6. TxNotStranded'
  BY <1>1, <1>3 DEF Still, hwVars, rings, DriverInv, TxNotStranded
<1>7. RxNotStranded'
  BY <1>1, <1>3 DEF Still, hwVars, rings, DriverInv, RxNotStranded
<1>8. QED
  BY <1>4, <1>5, <1>6, <1>7 DEF DriverInv

(* The steps of write that act.                                            *)
LEMMA WriteCopyStep ==
  ASSUME DriverInv, WriteCopy
  PROVE  DriverInv'
<1> USE UartConstants
<1>1. /\ call \in Calls /\ txIn \in Index /\ txOut \in Index /\ txBuf \in Bytes
      /\ putNext \in Byte /\ pc = "wCopy"
      /\ call.n \in 1 .. call.left /\ call.n <= Room(txIn, txOut) /\ txIn + call.n <= BufLen
  BY DEF DriverInv, TypeOK, CallFits, WriteCopy, Bytes
<1>2. pc' = "wPublish" /\ call' = call
  BY DEF WriteCopy, Goto
<1>3. UNCHANGED <<hwVars, irqEnable, rxBuf, rxIn, rxOut, txIn, txOut, host, putNext, userNext>>
  BY DEF WriteCopy, KeepHw
<1>4. txBuf' = [i \in Index |-> IF i >= txIn /\ i < txIn + call.n
                                  THEN (putNext + i - txIn) % Numbers ELSE txBuf[i]]
  BY DEF WriteCopy
<1>5. txBuf' \in Bytes
  <2>1. ASSUME NEW i \in Index
        PROVE  (putNext + i - txIn) % Numbers \in Byte /\ txBuf[i] \in Byte
    <3>1. putNext + i - txIn \in Int
      BY <1>1, SMT DEF Byte, Index
    <3>2. QED
      BY <1>1, <3>1, NumberIsByte DEF Bytes
  <2>2. QED
    BY <1>4, <2>1 DEF Bytes
<1>6. TypeOK' /\ EnablesAgree'
  BY <1>2, <1>3, <1>5 DEF DriverInv, TypeOK, HwTypeOK, EnablesAgree, hwVars, host, Bytes, Writing
<1>7. CallFits' /\ SnapHeld'
  BY <1>1, <1>2, <1>3 DEF CallFits, SnapHeld, DriverInv
<1>8. CopyHeld'
  <2>1. ASSUME NEW i \in 1 .. call.n
        PROVE  txBuf'[txIn + i - 1] = (putNext + i - 1) % Numbers
    <3>1. call.left \in Nat /\ call.n \in Nat
      BY <1>1, SMT DEF Calls
    <3>2. txIn \in Int /\ i \in Int /\ putNext \in Int
      BY <1>1, SMT DEF Index, Byte
    <3>3. putNext + (txIn + i - 1) - txIn = putNext + i - 1
      BY <3>2, SMT
    <3>4. txIn \in 0 .. BufLen - 1 /\ i \in 1 .. call.n /\ txIn + call.n <= BufLen
      BY <1>1 DEF Index
    <3>5. /\ txIn + i - 1 \in 0 .. BufLen - 1
          /\ txIn + i - 1 >= txIn /\ txIn + i - 1 < txIn + call.n
      BY <3>1, <3>4, SMT
    <3>6. QED
      BY <1>4, <3>3, <3>5 DEF Index
  <2>2. QED
    BY <1>2, <1>3, <2>1 DEF CopyHeld
<1>9. TxNotStranded' /\ RxNotStranded'
  BY <1>1, <1>2, <1>3 DEF hwVars, DriverInv, TxNotStranded, RxNotStranded
<1>10. QED
  BY <1>6, <1>7, <1>8, <1>9 DEF DriverInv

LEMMA WritePublishStep ==
  ASSUME DriverInv, WritePublish
  PROVE  DriverInv'
<1> USE UartConstants
<1>1. /\ call \in Calls /\ txIn \in Index /\ txOut \in Index
      /\ putNext \in Byte /\ pc = "wPublish"
      /\ call.n \in 1 .. call.left /\ call.n <= Room(txIn, txOut) /\ txIn + call.n <= BufLen
      /\ call.left \in Nat /\ call.done \in Nat
  BY DEF DriverInv, TypeOK, CallFits, WritePublish, Calls
<1>2. /\ call' = [call EXCEPT !.left = call.left - call.n, !.done = call.done + call.n, !.n = 0]
      /\ pc' = IF call.left > call.n THEN "wSpace" ELSE "wKick"
  BY DEF WritePublish, Goto, Advance
<1>3. /\ UNCHANGED <<hwVars, irqEnable, rxBuf, rxIn, rxOut, txBuf, txOut, host, userNext>>
      /\ txIn' = Wrap(txIn + call.n) /\ putNext' = (putNext + call.n) % Numbers
  BY DEF WritePublish, KeepHw
<1>4. /\ call.left - call.n \in Nat /\ call.done + call.n \in Nat
      /\ call.left > call.n => call.left - call.n > 0
      /\ ~(call.left > call.n) => ~(call.left - call.n > 0)
      /\ call.n \in 0 .. Room(txIn, txOut) /\ putNext + call.n \in Int
  BY <1>1, UsedRoom, SMT DEF Byte
<1>5. call' \in Calls /\ call'.left = call.left - call.n
  BY <1>1, <1>2, <1>4 DEF Calls
<1>6. txIn' \in Index /\ putNext' \in Byte
  BY <1>1, <1>3, <1>4, UsedMoves, NumberIsByte
<1>7. TypeOK' /\ EnablesAgree'
  BY <1>2, <1>3, <1>5, <1>6
     DEF DriverInv, TypeOK, HwTypeOK, EnablesAgree, hwVars, host, Writing
<1>8. CallFits' /\ CopyHeld' /\ SnapHeld'
  BY <1>2, <1>4, <1>5 DEF CallFits, CopyHeld, SnapHeld
<1>9. TxNotStranded' /\ RxNotStranded'
  BY <1>1, <1>2, <1>3 DEF hwVars, DriverInv, TxNotStranded, RxNotStranded
<1>10. QED
  BY <1>7, <1>8, <1>9 DEF DriverInv

LEMMA WriteKickStep ==
  ASSUME DriverInv, WriteKick
  PROVE  DriverInv'
<1> USE UartConstants
<1>1. /\ call \in Calls /\ pc = "wKick" /\ call.left \in Nat
      /\ irqEnable' = irqEnable \cup {"WE"} /\ ien' = irqEnable \cup {"WE"}
      /\ irqEnable \subseteq {"RE", "WE"} /\ ien = irqEnable
      /\ ac' = (ac /\ ~FALSE) /\ ac \in BOOLEAN
  BY DEF DriverInv, TypeOK, HwTypeOK, EnablesAgree, WriteKick, Calls, SetEnables, WriteControl
<1>2. /\ call' \in Calls
      /\ \/ pc' = "wWait" /\ call' = call /\ call.left > 0
         \/ pc' = "idle"
  BY <1>1 DEF WriteKick, Goto, Return, AtWait
<1>3. UNCHANGED <<txf, rxf, pause, connected, hostNext, hostWants, rings, host,
                  putNext, userNext>>
  BY DEF WriteKick
<1>4. TypeOK' /\ EnablesAgree'
  <2>1. ac' \in BOOLEAN
    BY <1>1
  <2>2. QED
    BY <1>1, <1>2, <1>3, <2>1 DEF DriverInv, TypeOK, HwTypeOK, EnablesAgree, rings, host, Writing
<1>5. CallFits' /\ CopyHeld' /\ SnapHeld'
  BY <1>1, <1>2, <1>3 DEF CallFits, CopyHeld, SnapHeld, DriverInv, rings
<1>6. TxNotStranded'
  BY <1>1 DEF TxNotStranded
<1>7. RxNotStranded'
  BY <1>1, <1>2, <1>3 DEF DriverInv, RxNotStranded, rings
<1>8. QED
  BY <1>4, <1>5, <1>6, <1>7 DEF DriverInv

(* The steps of read that act.                                             *)
LEMMA ReadCopyStep ==
  ASSUME DriverInv, ReadCopy
  PROVE  DriverInv'
<1> USE UartConstants
<1>1. /\ rxBuf \in Bytes /\ rxOut \in Index /\ call \in Calls /\ pc = "rCopy"
      /\ call.n \in 1 .. call.left /\ call.n <= Used(rxIn, rxOut) /\ rxOut + call.n <= BufLen
      /\ call.left \in Nat
  BY DEF DriverInv, TypeOK, CallFits, ReadCopy, Bytes, Calls
<1>2. /\ pc' = "rFree" /\ call' = call
      /\ UNCHANGED <<hwVars, irqEnable, rings, host, putNext>>
      /\ userNext' = Next1(rxBuf[rxOut + call.n - 1])
  BY DEF ReadCopy, Goto, KeepHw
<1>3. userNext' \in Byte
  <2>1. rxOut + call.n - 1 \in Index
    BY <1>1, SMT DEF Index
  <2>2. rxBuf[rxOut + call.n - 1] \in Byte
    BY <1>1, <2>1 DEF Bytes
  <2>3. rxBuf[rxOut + call.n - 1] + 1 \in Int
    BY <2>2, SMT DEF Byte
  <2>4. QED
    BY <1>2, <2>3, NumberIsByte DEF Next1
<1>4. TypeOK' /\ EnablesAgree'
  BY <1>1, <1>2, <1>3 DEF DriverInv, TypeOK, HwTypeOK, EnablesAgree, hwVars, rings, host, Reading
<1>5. CallFits' /\ CopyHeld' /\ SnapHeld'
  BY <1>1, <1>2 DEF CallFits, CopyHeld, SnapHeld, DriverInv, rings
<1>6. TxNotStranded' /\ RxNotStranded'
  BY <1>1, <1>2 DEF hwVars, rings, DriverInv, TxNotStranded, RxNotStranded
<1>7. QED
  BY <1>4, <1>5, <1>6 DEF DriverInv

LEMMA ReadFreeStep ==
  ASSUME DriverInv, ReadFree
  PROVE  DriverInv'
<1> USE UartConstants
<1>1. /\ call \in Calls /\ rxIn \in Index /\ rxOut \in Index /\ pc = "rFree"
      /\ call.n \in 1 .. call.left /\ call.n <= Used(rxIn, rxOut)
      /\ call.left \in Nat /\ call.done \in Nat
  BY DEF DriverInv, TypeOK, CallFits, ReadFree, Calls
<1>2. /\ call' = [call EXCEPT !.left = call.left - call.n, !.done = call.done + call.n, !.n = 0]
      /\ pc' = IF call.left > call.n THEN "rSpace" ELSE "rEnd"
      /\ rxOut' = Wrap(rxOut + call.n)
      /\ UNCHANGED <<hwVars, irqEnable, rxBuf, rxIn, txBuf, txIn, txOut, host,
                     putNext, userNext>>
  BY DEF ReadFree, Goto, Advance, KeepHw
<1>3. /\ call.left - call.n \in Nat /\ call.done + call.n \in Nat /\ call.done + call.n > 0
      /\ call.left > call.n => call.left - call.n > 0
      /\ call.n \in 0 .. Used(rxIn, rxOut)
  BY <1>1, UsedRoom, SMT
<1>4. call' \in Calls /\ call'.left = call.left - call.n /\ call'.done = call.done + call.n
  BY <1>1, <1>2, <1>3 DEF Calls
<1>5. rxOut' \in Index
  BY <1>1, <1>2, <1>3, UsedMoves
<1>6. TypeOK' /\ EnablesAgree'
  BY <1>2, <1>4, <1>5 DEF DriverInv, TypeOK, HwTypeOK, EnablesAgree, hwVars, host, Reading
<1>7. CallFits' /\ CopyHeld' /\ SnapHeld'
  BY <1>2, <1>3, <1>4 DEF CallFits, CopyHeld, SnapHeld
<1>8. TxNotStranded' /\ RxNotStranded'
  BY <1>1, <1>2, <1>3, <1>4 DEF hwVars, DriverInv, TxNotStranded, RxNotStranded
<1>9. QED
  BY <1>6, <1>7, <1>8 DEF DriverInv

LEMMA ReadEndStep ==
  ASSUME DriverInv, ReadEnd
  PROVE  DriverInv'
<1> USE UartConstants
<1>1. /\ call \in Calls /\ pc = "rEnd" /\ pc' = "idle" /\ call' = NoCall
      /\ UNCHANGED <<txf, rxf, pause, connected, hostNext, hostWants, rings, host,
                     putNext, userNext>>
  BY DEF DriverInv, TypeOK, ReadEnd, Return, Goto
<1>2. /\ ien = irqEnable /\ irqEnable \subseteq {"RE", "WE"} /\ ac \in BOOLEAN
      /\ \/ /\ call.done > 0 /\ irqEnable' = irqEnable \cup {"RE"} /\ ien' = irqEnable'
            /\ ac' = (ac /\ ~FALSE)
         \/ ~(call.done > 0) /\ UNCHANGED <<irqEnable, ien, ac>>
  BY DEF DriverInv, TypeOK, HwTypeOK, EnablesAgree, ReadEnd, ReadFreed, SetEnables, WriteControl
<1>3. TypeOK' /\ EnablesAgree'
  <2>1. ac' \in BOOLEAN /\ irqEnable' \subseteq {"RE", "WE"} /\ ien' = irqEnable'
    BY <1>2
  <2>2. QED
    BY <1>1, <2>1 DEF DriverInv, TypeOK, HwTypeOK, EnablesAgree, rings, host
<1>4. CallFits' /\ CopyHeld' /\ SnapHeld'
  BY <1>1 DEF CallFits, CopyHeld, SnapHeld
<1>5. TxNotStranded'
  BY <1>1, <1>2 DEF DriverInv, TxNotStranded, rings
<1>6. RxNotStranded'
  BY <1>1, <1>2 DEF DriverInv, RxNotStranded, rings
<1>7. QED
  BY <1>3, <1>4, <1>5, <1>6 DEF DriverInv

(* What a turn of the interrupt routine moves from the receive FIFO to the *)
(* ring: the slots it fills are the free ones next to the bytes there.     *)
RxMoved(m) ==
  /\ m \in 0 .. Room(rxIn, rxOut) /\ m \in 0 .. Len(rxf)
  /\ rxBuf' \in Bytes /\ rxIn' = Wrap(rxIn + m)
  /\ \A i \in 1 .. m : rxBuf'[Slot(rxIn, i)] = rxf[i]
  /\ \A i \in 1 .. Used(rxIn, rxOut) : rxBuf'[Slot(rxOut, i)] = rxBuf[Slot(rxOut, i)]
  /\ rxf' = SubSeq(rxf, m + 1, Len(rxf))
  /\ rxf' \in Seq(Byte) /\ Len(rxf') <= FifoDepth
  /\ pause' \in BOOLEAN
  /\ RI /\ (RxRoom = 0 \/ Len(rxf) > RxRoom) => m = Room(rxIn, rxOut)

(* And from the transmit ring to the FIFO: its oldest bytes.               *)
TxMoved(m) ==
  /\ m \in 0 .. Used(txIn, txOut) /\ m \in 0 .. WSpace
  /\ txOut' = Wrap(txOut + m)
  /\ txf' = txf \o SubSeq(Ring(txBuf, txIn, txOut), 1, m)
  /\ txf' \in Seq(Byte) /\ Len(txf') <= FifoDepth
  /\ WI /\ TxDone(Ring(txBuf, txIn, txOut)) => m = Used(txIn, txOut)

(* The parts of a sequence.                                                *)
LEMMA SubSeqIs ==
  ASSUME NEW S, NEW s \in Seq(S), NEW m \in 0 .. Len(s)
  PROVE  /\ SubSeq(s, 1, m) \in Seq(S) /\ Len(SubSeq(s, 1, m)) = m
         /\ \A i \in 1 .. m : SubSeq(s, 1, m)[i] = s[i]
         /\ SubSeq(s, m + 1, Len(s)) \in Seq(S) /\ Len(SubSeq(s, m + 1, Len(s))) = Len(s) - m
         /\ \A i \in 1 .. Len(s) - m : SubSeq(s, m + 1, Len(s))[i] = s[m + i]
<1>1. Len(s) \in Nat /\ m \in Nat /\ m <= Len(s)
  BY LenProperties, SMT
<1>2. ASSUME NEW a \in 1 .. Len(s) + 1, NEW b \in 0 .. Len(s)
      PROVE  /\ SubSeq(s, a, b) \in Seq(S)
             /\ Len(SubSeq(s, a, b)) = IF a <= b THEN b - a + 1 ELSE 0
             /\ \A i \in 1 .. b - a + 1 : SubSeq(s, a, b)[i] = s[a + i - 1]
  <2>1. a \in Int /\ b \in Int /\ \A i \in a .. b : i \in 1 .. Len(s)
    BY <1>1, <1>2, SMT
  <2>2. \A i \in a .. b : s[i] \in S
    BY <2>1, ElementOfSeq
  <2>3. QED
    BY <2>1, <2>2, SubSeqProperties
<1>3. 1 \in 1 .. Len(s) + 1 /\ m + 1 \in 1 .. Len(s) + 1 /\ Len(s) \in 0 .. Len(s)
  BY <1>1, SMT
<1>4. /\ SubSeq(s, 1, m) \in Seq(S)
      /\ Len(SubSeq(s, 1, m)) = IF 1 <= m THEN m - 1 + 1 ELSE 0
      /\ \A i \in 1 .. m - 1 + 1 : SubSeq(s, 1, m)[i] = s[1 + i - 1]
  BY <1>2, <1>3
<1>5. /\ SubSeq(s, m + 1, Len(s)) \in Seq(S)
      /\ Len(SubSeq(s, m + 1, Len(s))) = IF m + 1 <= Len(s) THEN Len(s) - (m + 1) + 1 ELSE 0
      /\ \A i \in 1 .. Len(s) - (m + 1) + 1 : SubSeq(s, m + 1, Len(s))[i] = s[m + 1 + i - 1]
  BY <1>2, <1>3
<1>6. /\ (IF 1 <= m THEN m - 1 + 1 ELSE 0) = m /\ m - 1 + 1 = m
      /\ (IF m + 1 <= Len(s) THEN Len(s) - (m + 1) + 1 ELSE 0) = Len(s) - m
      /\ Len(s) - (m + 1) + 1 = Len(s) - m
      /\ \A i \in Int : 1 + i - 1 = i /\ m + 1 + i - 1 = m + i
  BY <1>1, SMT
<1>7. \A k \in Int : \A i \in 1 .. k : i \in Int
  BY SMT
<1>8. m \in Int /\ Len(s) - m \in Int
  BY <1>1, SMT
<1>9. /\ \A i \in 1 .. m : SubSeq(s, 1, m)[i] = s[i]
      /\ \A i \in 1 .. Len(s) - m : SubSeq(s, m + 1, Len(s))[i] = s[m + i]
  BY <1>4, <1>5, <1>6, <1>7, <1>8
<1>10. QED
  BY <1>4, <1>5, <1>6, <1>9

LEMMA IsrMovesRx ==
  ASSUME DriverInv, IsrPass
  PROVE  \E m \in Nat : RxMoved(m)
<1> USE UartAssumption, FifoAssumption
<1>1. /\ rxBuf \in Bytes /\ rxIn \in Index /\ rxOut \in Index
      /\ rxf \in Seq(Byte) /\ Len(rxf) \in Nat /\ Len(rxf) <= FifoDepth
      /\ pause \in BOOLEAN
  BY LenProperties DEF DriverInv, TypeOK, HwTypeOK, Bytes
<1>2. RxRoom = Room(rxIn, rxOut) /\ Room(rxIn, rxOut) \in 0 .. BufLen - 1
  BY <1>1, UsedRoom DEF RxRoom, Room, Used
<1>3. CASE RI
  <2> DEFINE m == IF RxRoom < Len(rxf) THEN RxRoom ELSE Len(rxf)
  <2>1. RxPass(RxRoom)
    BY <1>3 DEF IsrPass
  <2>2. /\ m \in 0 .. Room(rxIn, rxOut) /\ m \in 0 .. Len(rxf) /\ m \in Nat
        /\ (RxRoom = 0 \/ Len(rxf) > RxRoom) => m = Room(rxIn, rxOut)
    <3> DEFINE l == Len(rxf)  r == RxRoom
    <3>1. l \in Nat /\ r \in Nat
      BY <1>1, <1>2, SMT
    <3> HIDE DEF l, r
    <3>2. (IF r < l THEN r ELSE l) \in 0 .. r /\ (IF r < l THEN r ELSE l) \in 0 .. l
          /\ (IF r < l THEN r ELSE l) \in Nat
          /\ (r = 0 \/ l > r) => (IF r < l THEN r ELSE l) = r
      BY <3>1, SMT
    <3>3. QED
      BY <1>2, <3>2 DEF l, r
  <2>3. /\ rxBuf' = [i \in Index |-> IF Used(i, rxIn) < m THEN rxf[Used(i, rxIn) + 1]
                                     ELSE rxBuf[i]]
        /\ rxIn' = Wrap(rxIn + m)
        /\ rxf' = SubSeq(rxf, m + 1, Len(rxf))
        /\ pause' = (pause /\ RxRoom = 0)
    BY <2>1 DEF RxPass, Used
  <2> HIDE DEF m
  <2>4. rxBuf' \in Bytes
    <3>1. ASSUME NEW i \in Index, Used(i, rxIn) < m
          PROVE  rxf[Used(i, rxIn) + 1] \in Byte
      <4>1. Used(i, rxIn) \in 0 .. BufLen - 1 /\ m \in 0 .. Len(rxf) /\ Len(rxf) \in Nat
        BY <1>1, <2>2, UsedRoom
      <4>1a. Used(i, rxIn) + 1 \in 1 .. Len(rxf)
        BY <3>1, <4>1, SMT
      <4>2. QED
        BY <1>1, <4>1a, ElementOfSeq
    <3>2. QED
      BY <1>1, <2>3, <3>1 DEF Bytes
  <2>5. ASSUME NEW i \in 1 .. m
        PROVE  rxBuf'[Slot(rxIn, i)] = rxf[i]
    <3>1. i \in 1 .. BufLen
      BY <1>2, <2>2, <2>5, SMT
    <3>2. Slot(rxIn, i) \in Index /\ Used(Slot(rxIn, i), rxIn) = i - 1
      BY <1>1, <3>1, SlotIsIndex, SlotDistance
    <3>3. i - 1 < m /\ i - 1 + 1 = i
      BY <2>2, <2>5, SMT
    <3>4. QED
      BY <2>3, <3>2, <3>3
  <2>6. ASSUME NEW i \in 1 .. Used(rxIn, rxOut)
        PROVE  rxBuf'[Slot(rxOut, i)] = rxBuf[Slot(rxOut, i)]
    <3>0. Used(rxIn, rxOut) \in 0 .. BufLen - 1
      BY <1>1, UsedRoom
    <3>1. i \in 1 .. BufLen
      BY <2>6, <3>0, SMT
    <3>2. Slot(rxOut, i) \in Index /\ Used(Slot(rxOut, i), rxIn) > Room(rxIn, rxOut)
      BY <1>1, <3>1, SlotIsIndex, SlotDistance
    <3>3. ~(Used(Slot(rxOut, i), rxIn) < m)
      <4>1. Used(Slot(rxOut, i), rxIn) \in 0 .. BufLen - 1
        BY <1>1, <3>2, UsedRoom
      <4>2. QED
        BY <1>2, <2>2, <3>2, <4>1, SMT
    <3>4. QED
      BY <2>3, <3>2, <3>3
  <2>7. rxf' \in Seq(Byte) /\ Len(rxf') <= FifoDepth
    <3>1. rxf' \in Seq(Byte) /\ Len(rxf') = Len(rxf) - m
      BY <1>1, <2>2, <2>3, SubSeqIs
    <3>2. QED
      BY <1>1, <2>2, <3>1, SMT
  <2>8. pause' \in BOOLEAN
    BY <1>1, <2>3
  <2>9. RxMoved(m)
    BY <2>2, <2>3, <2>4, <2>5, <2>6, <2>7, <2>8 DEF RxMoved
  <2>10. QED
    BY <2>2, <2>9
<1>4. CASE ~RI
  <2>1. UNCHANGED <<rxBuf, rxIn, rxf, pause>>
    BY <1>4 DEF IsrPass
  <2>2. 0 \in 0 .. Room(rxIn, rxOut) /\ 0 \in 0 .. Len(rxf) /\ \A i \in 1 .. 0 : FALSE
    BY <1>1, <1>2, SMT
  <2>3. Wrap(rxIn + 0) = rxIn
    BY <1>1, WrapOnce, SMT DEF Index
  <2>4. SubSeq(rxf, 0 + 1, Len(rxf)) = rxf
    <3>1. 0 + 1 = 1
      OBVIOUS
    <3>2. QED
      BY <1>1, <3>1, SubSeqFull
  <2>5. RxMoved(0)
    BY <1>1, <1>4, <2>1, <2>2, <2>3, <2>4 DEF RxMoved
  <2>6. QED
    BY <2>5
<1>5. QED
  BY <1>3, <1>4

LEMMA IsrMovesTx ==
  ASSUME DriverInv, IsrPass
  PROVE  \E m \in Nat : TxMoved(m)
<1> USE UartAssumption, FifoAssumption
<1> DEFINE ring == Ring(txBuf, txIn, txOut)
           u    == Used(txIn, txOut)
<1>1. /\ txBuf \in Bytes /\ txIn \in Index /\ txOut \in Index
      /\ txf \in Seq(Byte) /\ Len(txf) \in Nat /\ Len(txf) <= FifoDepth
  BY LenProperties DEF DriverInv, TypeOK, HwTypeOK, Bytes
<1>2. ring \in Seq(Byte) /\ Len(ring) = u /\ u \in 0 .. BufLen - 1
  BY <1>1, RingIs, UsedRoom
<1>3. WSpace \in Nat /\ WSpace = FifoDepth - Len(txf)
  BY <1>1, SMT DEF WSpace
<1>4. ASSUME NEW m \in 0 .. u, m <= WSpace
      PROVE  /\ txf \o SubSeq(ring, 1, m) \in Seq(Byte)
             /\ Len(txf \o SubSeq(ring, 1, m)) <= FifoDepth
  <2> HIDE DEF ring, u
  <2>0. m \in 0 .. Len(ring)
    BY <1>2
  <2>1. SubSeq(ring, 1, m) \in Seq(Byte) /\ Len(SubSeq(ring, 1, m)) = m
    BY <1>2, <2>0, SubSeqIs
  <2>2. /\ txf \o SubSeq(ring, 1, m) \in Seq(Byte)
        /\ Len(txf \o SubSeq(ring, 1, m)) = Len(txf) + Len(SubSeq(ring, 1, m))
    <3> DEFINE piece == SubSeq(ring, 1, m)
    <3>1. txf \in Seq(Byte) /\ piece \in Seq(Byte)
      BY <1>1, <2>1
    <3> HIDE DEF piece
    <3>2. txf \o piece \in Seq(Byte) /\ Len(txf \o piece) = Len(txf) + Len(piece)
      BY <3>1, ConcatProperties, Zenon
    <3>3. QED
      BY <3>2 DEF piece
  <2>3. Len(txf) + m <= FifoDepth
    BY <1>1, <1>2, <1>3, <1>4, SMT
  <2>4. QED
    BY <2>1, <2>2, <2>3
<1>5. CASE WI
  <2> DEFINE m == IF WSpace < Len(ring) THEN WSpace ELSE Len(ring)
  <2>1. TxPass(ring)
    BY <1>5 DEF IsrPass
  <2>2. txf' = txf \o SubSeq(ring, 1, m) /\ txOut' = Wrap(txOut + m)
    BY <2>1 DEF TxPass
  <2>3. /\ m \in 0 .. u /\ m <= WSpace /\ m \in 0 .. WSpace /\ m \in Nat
        /\ WSpace > Len(ring) => m = u
    <3> DEFINE l == Len(ring)  w == WSpace
    <3>1. l \in Nat /\ w \in Nat /\ l = u
      BY <1>2, <1>3, SMT
    <3> HIDE DEF l, w
    <3>2. /\ (IF w < l THEN w ELSE l) \in 0 .. l /\ (IF w < l THEN w ELSE l) <= w
          /\ (IF w < l THEN w ELSE l) \in 0 .. w /\ (IF w < l THEN w ELSE l) \in Nat
          /\ w > l => (IF w < l THEN w ELSE l) = l
      BY <3>1, SMT
    <3>3. QED
      BY <3>1, <3>2 DEF l, w
  <2> HIDE DEF m
  <2>4. txf' \in Seq(Byte) /\ Len(txf') <= FifoDepth
    BY <1>4, <2>2, <2>3
  <2>5. TxMoved(m)
    BY <2>2, <2>3, <2>4 DEF TxMoved, TxDone
  <2>6. QED
    BY <2>3, <2>5
<1>6. CASE ~WI
  <2>1. UNCHANGED <<txf, txOut>>
    BY <1>6 DEF IsrPass
  <2>2. 0 \in 0 .. u /\ 0 \in 0 .. WSpace
    BY <1>2, <1>3, SMT
  <2>3. Wrap(txOut + 0) = txOut
    BY <1>1, WrapOnce, SMT DEF Index
  <2>4. txf \o SubSeq(ring, 1, 0) = txf
    <3> HIDE DEF ring
    <3>0. 0 \in 0 .. Len(ring)
      BY <1>2, <2>2
    <3>1. SubSeq(ring, 1, 0) \in Seq(Byte) /\ Len(SubSeq(ring, 1, 0)) = 0
      BY <1>2, <3>0, SubSeqIs
    <3>2. SubSeq(ring, 1, 0) = <<>>
      BY <3>1, EmptySeq
    <3>3. QED
      BY <1>1, <3>2, ConcatEmptySeq
  <2>5. TxMoved(0)
    BY <1>1, <1>6, <2>1, <2>2, <2>3, <2>4 DEF TxMoved
  <2>6. QED
    BY <2>5
<1>7. QED
  BY <1>5, <1>6

LEMMA IsrPassStep ==
  ASSUME DriverInv, IsrPass
  PROVE  DriverInv'
<1> USE UartConstants
<1>1. /\ rxIn \in Index /\ rxOut \in Index /\ txIn \in Index /\ txOut \in Index
      /\ call \in Calls /\ ien = irqEnable /\ irqEnable \subseteq {"RE", "WE"}
      /\ ac \in BOOLEAN
  BY DEF DriverInv, TypeOK, HwTypeOK, EnablesAgree
<1>2. UNCHANGED <<connected, hostNext, hostWants, rxOut, txBuf, txIn, host, pc, call,
                  putNext, userNext>>
  BY DEF IsrPass
<1>3. PICK m \in Nat : RxMoved(m)
  BY IsrMovesRx
<1>4. PICK k \in Nat : TxMoved(k)
  BY IsrMovesTx
<1>5. /\ rxIn' \in Index /\ Used(rxIn', rxOut) = Used(rxIn, rxOut) + m
      /\ m \in 0 .. Room(rxIn, rxOut)
  BY <1>1, <1>3, UsedMoves DEF RxMoved
<1>6. /\ txOut' \in Index /\ Used(txIn, txOut') = Used(txIn, txOut) - k
      /\ k \in 0 .. Used(txIn, txOut)
  BY <1>1, <1>4, UsedMoves DEF TxMoved
<1>7. /\ irqEnable' = irqEnable \ TurnedOff(Ring(txBuf, txIn, txOut))
      /\ ien' = irqEnable' /\ ac' = (ac /\ ~FALSE)
  BY DEF IsrPass, SetEnables, WriteControl
<1>8. TypeOK' /\ EnablesAgree'
  <2>1. ac' \in BOOLEAN /\ irqEnable' \subseteq {"RE", "WE"} /\ ien' = irqEnable'
    BY <1>1, <1>7
  <2>2. /\ rxBuf' \in Bytes /\ rxf' \in Seq(Byte) /\ Len(rxf') <= FifoDepth
        /\ pause' \in BOOLEAN
    BY <1>3 DEF RxMoved
  <2>3. txf' \in Seq(Byte) /\ Len(txf') <= FifoDepth
    BY <1>4 DEF TxMoved
  <2>4. QED
    BY <1>2, <1>5, <1>6, <2>1, <2>2, <2>3
       DEF DriverInv, TypeOK, HwTypeOK, EnablesAgree, host, Bytes
<1>9. CallFits'
  <2>1. /\ call.n \in Nat
        /\ Used(rxIn, rxOut) \in Nat /\ Used(rxIn', rxOut) \in Nat
        /\ Used(txIn, txOut) \in Nat /\ Used(txIn, txOut') \in Nat
    BY <1>1, <1>5, <1>6, UsedRoom, SMT DEF Calls
  <2>2. Room(txIn, txOut) = BufLen - 1 - Used(txIn, txOut)
        /\ Room(txIn, txOut') = BufLen - 1 - Used(txIn, txOut')
    BY DEF Room
  <2>3. /\ call.n <= Room(txIn, txOut) => call.n <= Room(txIn, txOut')
        /\ call.n <= Used(rxIn, rxOut) => call.n <= Used(rxIn', rxOut)
    BY <1>5, <1>6, <2>1, <2>2, SMT
  <2>4. QED
    BY <1>2, <2>3 DEF DriverInv, CallFits
<1>10. CopyHeld' /\ SnapHeld'
  BY <1>2 DEF DriverInv, CopyHeld, SnapHeld
<1>11. TxNotStranded'
  <2> SUFFICES ASSUME txIn # txOut'
               PROVE  "WE" \in ien' \/ pc \in {"wSpace", "wCopy", "wPublish", "wKick"}
    BY <1>2 DEF TxNotStranded
  <2>1. Used(txIn, txOut') # 0 /\ Used(txIn, txOut') \in Nat /\ Used(txIn, txOut) \in Nat
    BY <1>1, <1>6, UsedRoom
  <2>2. k # Used(txIn, txOut) /\ Used(txIn, txOut) # 0
    BY <1>6, <2>1, SMT
  <2>3. txIn # txOut
    BY <1>1, <2>2, UsedRoom
  <2>4. ~(WI /\ TxDone(Ring(txBuf, txIn, txOut)))
    BY <1>4, <2>2 DEF TxMoved
  <2>5. "WE" \notin TurnedOff(Ring(txBuf, txIn, txOut))
    BY <2>4 DEF TurnedOff
  <2>6. QED
    BY <1>1, <1>7, <2>3, <2>5 DEF DriverInv, TxNotStranded
<1>12. RxNotStranded'
  <2> SUFFICES ASSUME "RE" \notin ien'
               PROVE  rxIn' # rxOut \/ (pc \in {"rSpace", "rEnd"} /\ call.done > 0)
    BY <1>2 DEF RxNotStranded
  <2>1. /\ Used(rxIn, rxOut) \in Nat /\ Used(rxIn', rxOut) \in Nat /\ m \in Nat
        /\ Room(rxIn, rxOut) = BufLen - 1 - Used(rxIn, rxOut)
    BY <1>1, <1>5, UsedRoom DEF Room
  <2>2. CASE "RE" \in ien
    <3>1. "RE" \in TurnedOff(Ring(txBuf, txIn, txOut))
      BY <1>1, <1>7, <2>2
    <3>2. RI /\ (RxRoom = 0 \/ Len(rxf) > RxRoom)
      BY <3>1 DEF TurnedOff
    <3>3. m = Room(rxIn, rxOut)
      BY <1>3, <3>2 DEF RxMoved
    <3>4. Used(rxIn', rxOut) # 0
      BY <1>5, <2>1, <3>3, SMT
    <3>5. QED
      BY <1>1, <1>5, <3>4, UsedRoom
  <2>3. CASE "RE" \notin ien
    <3>1. rxIn # rxOut \/ (pc \in {"rSpace", "rEnd"} /\ call.done > 0)
      BY <2>3 DEF DriverInv, RxNotStranded
    <3>2. rxIn # rxOut => Used(rxIn', rxOut) # 0
      <4>1. rxIn # rxOut => Used(rxIn, rxOut) # 0
        BY <1>1, UsedRoom
      <4>2. QED
        BY <1>5, <2>1, <4>1, SMT
    <3>3. QED
      BY <1>1, <1>5, <3>1, <3>2, UsedRoom
  <2>4. QED
    BY <2>2, <2>3
<1>13. QED
  BY <1>8, <1>9, <1>10, <1>11, <1>12 DEF DriverInv

(* What the host does to the device.                                       *)
LEMMA HostTypes ==
  ASSUME HwTypeOK, Host
  PROVE  HwTypeOK' /\ ien' = ien
<1> USE UartConstants
<1>1. ien' = ien
  BY DEF Host, HostTake, HostSend, HostPoll, HostPlug
<1>2. /\ txf \in Seq(Byte) /\ Len(txf) \in Nat /\ Len(txf) <= FifoDepth
      /\ rxf \in Seq(Byte) /\ Len(rxf) \in Nat /\ Len(rxf) <= FifoDepth
      /\ ac \in BOOLEAN /\ pause \in BOOLEAN /\ connected \in BOOLEAN
      /\ hostNext \in Byte /\ hostWants \in Byte /\ ien \subseteq {"RE", "WE"}
  BY LenProperties DEF HwTypeOK
<1>3. \A b \in Byte : Next1(b) \in Byte
  <2>1. \A b \in Byte : b + 1 \in Int
    BY SMT DEF Byte
  <2>2. QED
    BY <2>1, NumberIsByte DEF Next1
<1>4. CASE HostTake
  <2>1. txf # <<>> /\ txf' = Tail(txf) /\ hostWants' = Next1(Head(txf))
        /\ UNCHANGED <<rxf, ac, pause, connected, hostNext>>
    BY <1>4 DEF HostTake
  <2>2. Tail(txf) \in Seq(Byte) /\ Len(Tail(txf)) = Len(txf) - 1 /\ Head(txf) \in Byte
    BY <1>2, <2>1, HeadTailProperties
  <2>3. Len(txf) - 1 <= FifoDepth
    BY <1>2, SMT
  <2>4. QED
    BY <1>1, <1>2, <1>3, <2>1, <2>2, <2>3 DEF HwTypeOK
<1>5. CASE HostSend
  <2>1. rxf' = Append(rxf, hostNext) /\ Len(rxf) < FifoDepth
        /\ hostNext' = Next1(hostNext) /\ ac' = TRUE
        /\ UNCHANGED <<txf, pause, connected, hostWants>>
    BY <1>5 DEF HostSend, HostRoom
  <2>2. Append(rxf, hostNext) \in Seq(Byte) /\ Len(Append(rxf, hostNext)) = Len(rxf) + 1
    BY <1>2, AppendProperties
  <2>3. Len(rxf) + 1 <= FifoDepth
    BY <1>2, <2>1, SMT
  <2>4. QED
    BY <1>1, <1>2, <1>3, <2>1, <2>2, <2>3 DEF HwTypeOK
<1>6. CASE HostPoll
  <2>1. ac' = TRUE /\ pause' = (pause \/ rxf # <<>>)
        /\ UNCHANGED <<txf, rxf, connected, hostNext, hostWants>>
    BY <1>6 DEF HostPoll
  <2>2. QED
    BY <1>1, <1>2, <1>3, <2>1 DEF HwTypeOK
<1>7. CASE HostPlug
  <2>1. connected' = ~connected /\ UNCHANGED <<txf, rxf, ac, pause, hostNext, hostWants>>
    BY <1>7 DEF HostPlug
  <2>2. QED
    BY <1>1, <1>2, <1>3, <2>1 DEF HwTypeOK
<1>8. QED
  BY <1>4, <1>5, <1>6, <1>7 DEF Host

(* Everything the host or the alarm does leaves the rings and the call.    *)
LEMMA OutsideStep ==
  ASSUME DriverInv, Timeout \/ HostStep \/ (\E t \in Timeouts : IoctlTimeout(t))
  PROVE  DriverInv'
<1> USE UartConstants
<1>1. UNCHANGED <<rings, irqEnable, pc, call, putNext, userNext>> /\ ien' = ien
  <2>1. ien = irqEnable
    BY DEF DriverInv, EnablesAgree
  <2>2. CASE Timeout
    BY <2>1, <2>2 DEF Timeout, WriteControl, AlarmControl
  <2>3. CASE HostStep
    BY <2>3 DEF HostStep, KeepDriver, Host, HostTake, HostSend, HostPoll, HostPlug
  <2>4. CASE \E t \in Timeouts : IoctlTimeout(t)
    BY <2>4 DEF IoctlTimeout, KeepHw, hwVars
  <2>5. QED
    BY <2>2, <2>3, <2>4
<1>2. /\ txf \in Seq(Byte) /\ Len(txf) \in Nat /\ Len(txf) <= FifoDepth
      /\ rxf \in Seq(Byte) /\ Len(rxf) \in Nat /\ Len(rxf) <= FifoDepth
      /\ ac \in BOOLEAN /\ pause \in BOOLEAN /\ connected \in BOOLEAN
      /\ hostNext \in Byte /\ hostWants \in Byte
      /\ timeout \in 2 .. IntMax /\ hostInactive \in 0 .. IntMax - 2
  BY LenProperties DEF DriverInv, TypeOK, HwTypeOK
<1>3. /\ txf' \in Seq(Byte) /\ Len(txf') <= FifoDepth
      /\ rxf' \in Seq(Byte) /\ Len(rxf') <= FifoDepth
      /\ ac' \in BOOLEAN /\ pause' \in BOOLEAN /\ connected' \in BOOLEAN
      /\ hostNext' \in Byte /\ hostWants' \in Byte
      /\ timeout' \in 2 .. IntMax /\ hostInactive' \in 0 .. IntMax - 2
  <2>1. CASE Timeout
    <3>1. /\ ac' \in BOOLEAN
          /\ UNCHANGED <<txf, rxf, pause, connected, hostNext, hostWants, timeout>>
      BY <1>2, <2>1 DEF Timeout, WriteControl
    <3>2. hostInactive' \in 0 .. IntMax - 2
      <4>1. hostInactive' = 0 \/ (hostInactive' = hostInactive + 1 /\ hostInactive < IntMax - 2)
            \/ hostInactive' = hostInactive
        BY <2>1 DEF Timeout
      <4>2. QED
        BY <1>2, <4>1, SMT
    <3>3. QED
      BY <1>2, <3>1, <3>2
  <2>2. CASE HostStep
    <3>1. timeout' = timeout /\ hostInactive' = hostInactive
      BY <2>2 DEF HostStep, KeepDriver, host
    <3>2. HwTypeOK
      BY DEF DriverInv, TypeOK
    <3>3. HwTypeOK'
      BY <2>2, <3>2, HostTypes DEF HostStep
    <3>4. QED
      BY <1>2, <3>1, <3>3 DEF HwTypeOK
  <2>3. CASE \E t \in Timeouts : IoctlTimeout(t)
    <3>1. PICK t \in Timeouts : IoctlTimeout(t)
      BY <2>3
    <3>2. t \in 0 .. IntMax
      BY UartAssumption
    <3>3. timeout' = (IF t >= 2 /\ t < IntMax THEN t ELSE IntMax - 1)
          /\ hostInactive' = hostInactive /\ UNCHANGED hwVars
      BY <3>1 DEF IoctlTimeout, TimeoutOf, KeepHw
    <3>4. timeout' \in 2 .. IntMax
      BY <3>2, <3>3, SMT
    <3>5. QED
      BY <1>2, <3>3, <3>4 DEF hwVars
  <2>4. QED
    BY <2>1, <2>2, <2>3
<1>4. TypeOK' /\ EnablesAgree'
  BY <1>1, <1>3 DEF DriverInv, TypeOK, HwTypeOK, EnablesAgree, rings
<1>5. CallFits' /\ CopyHeld' /\ SnapHeld' /\ TxNotStranded' /\ RxNotStranded'
  BY <1>1 DEF DriverInv, CallFits, CopyHeld, SnapHeld, TxNotStranded, RxNotStranded, rings
<1>6. QED
  BY <1>4, <1>5 DEF DriverInv

LEMMA DriverStep ==
  ASSUME DriverInv, [Next]_vars
  PROVE  DriverInv'
<1>1. CASE Next
  BY <1>1, EntryStep, WriteLooks, ReadLooks, WriteCopyStep, WritePublishStep, WriteKickStep,
     ReadCopyStep, ReadFreeStep, ReadEndStep, IsrPassStep, OutsideStep
     DEF Next, Program, Foreground
<1>2. CASE UNCHANGED vars
  BY <1>2 DEF vars, hwVars, rings, host, DriverInv, TypeOK, HwTypeOK, EnablesAgree,
     CallFits, CopyHeld, SnapHeld, TxNotStranded, RxNotStranded
<1>3. QED
  BY <1>1, <1>2

(* What the invariant says of a call that waits.                           *)
LEMMA WaitsJustly == DriverInv => WaitIsJustified
<1> SUFFICES ASSUME DriverInv PROVE WaitIsJustified
  OBVIOUS
<1>1. BufLen \in Nat \ {0, 1} /\ txIn \in 0 .. BufLen - 1 /\ txIn \in Index /\ txOut \in Index
  BY UartAssumption DEF DriverInv, TypeOK, Index
<1>2. ASSUME txOut = Wrap(txIn + 1)
      PROVE  Wrap(txOut - txIn - 1 + BufLen) = 0
  <2>1. Wrap(txIn + 1) = IF txIn + 1 < BufLen THEN txIn + 1 ELSE txIn + 1 - BufLen
    BY <1>1, WrapOnce, SMT
  <2>2. txOut - txIn - 1 + BufLen \in {0, BufLen}
    BY <1>1, <1>2, <2>1, SMT
  <2>3. Wrap(0) = 0 /\ Wrap(BufLen) = 0
    BY <1>1, WrapOnce, SMT
  <2>4. QED
    BY <2>2, <2>3
<1>3. ~(0 > 0)
  BY SMT
<1>4. /\ pc = "wWait" => call.snap = Wrap(txIn + 1)
      /\ pc = "rWait" => call.snap = rxOut
  BY DEF DriverInv, SnapHeld
<1>5. QED
  BY <1>2, <1>3, <1>4 DEF WaitIsJustified

(* The interrupt-driven driver by itself.                                  *)
THEOREM DriverCorrect == Spec => []DriverInv
<1>1. Init => DriverInv
  BY DriverInit
<1>2. DriverInv /\ [Next]_vars => DriverInv'
  BY DriverStep
<1>3. QED
  BY <1>1, <1>2, PTL DEF Spec

-----------------------------------------------------------------------------
(* The two byte streams.                                                   *)

(* A sequence is its first m elements and the rest, and what drops off the *)
(* front of a concatenation drops off its first part.                      *)
LEMMA SplitAt ==
  ASSUME NEW S, NEW s \in Seq(S), NEW m \in 0 .. Len(s)
  PROVE  SubSeq(s, 1, m) \o SubSeq(s, m + 1, Len(s)) = s
<1>1. Len(s) \in Nat
  BY LenProperties
<1>2. 1 \in 1 .. Len(s) + 1 /\ m \in 1 - 1 .. Len(s) /\ Len(s) \in m .. Len(s)
  BY <1>1, SMT
<1>3. SubSeq(s, 1, m) \o SubSeq(s, m + 1, Len(s)) = SubSeq(s, 1, Len(s))
  BY <1>2, ConcatAdjacentSubSeq, Zenon
<1>4. QED
  BY <1>3, SubSeqFull

LEMMA DropOfConcat ==
  ASSUME NEW S, NEW s \in Seq(S), NEW t \in Seq(S), NEW m \in 0 .. Len(s)
  PROVE  SubSeq(s \o t, m + 1, Len(s \o t)) = SubSeq(s, m + 1, Len(s)) \o t
<1> DEFINE c == s \o t
           a == SubSeq(s, m + 1, Len(s))
           l == SubSeq(c, m + 1, Len(c))
<1>1. Len(s) \in Nat /\ Len(t) \in Nat /\ m \in Nat /\ m <= Len(s)
  BY LenProperties, SMT
<1>2. /\ c \in Seq(S) /\ Len(c) = Len(s) + Len(t)
      /\ \A i \in 1 .. Len(s) + Len(t) : c[i] = IF i <= Len(s) THEN s[i] ELSE t[i - Len(s)]
  BY ConcatProperties, Zenon
<1>3. /\ a \in Seq(S) /\ Len(a) = Len(s) - m
      /\ \A i \in 1 .. Len(s) - m : a[i] = s[m + i]
  BY SubSeqIs
<1> HIDE DEF c, a
<1>4. m \in 0 .. Len(c)
  BY <1>1, <1>2, SMT
<1>5. /\ l \in Seq(S) /\ Len(l) = Len(c) - m
      /\ \A i \in 1 .. Len(c) - m : l[i] = c[m + i]
  BY <1>2, <1>4, SubSeqIs
<1>6. /\ a \o t \in Seq(S) /\ Len(a \o t) = Len(a) + Len(t)
      /\ \A i \in 1 .. Len(a) + Len(t) : (a \o t)[i] = IF i <= Len(a) THEN a[i] ELSE t[i - Len(a)]
  BY <1>3, ConcatProperties, Zenon
<1> HIDE DEF l
<1>7. Len(l) = Len(a \o t) /\ Len(l) = Len(s) - m + Len(t)
  BY <1>1, <1>2, <1>3, <1>5, <1>6, SMT
<1>8. ASSUME NEW i \in 1 .. Len(l)
      PROVE  l[i] = (a \o t)[i]
  <2>1. /\ i \in 1 .. Len(c) - m /\ i \in 1 .. Len(a) + Len(t) /\ m + i \in 1 .. Len(s) + Len(t)
        /\ m + i <= Len(s) <=> i <= Len(a)
        /\ i <= Len(a) => i \in 1 .. Len(s) - m
        /\ m + i - Len(s) = i - Len(a)
    BY <1>1, <1>2, <1>3, <1>7, SMT
  <2>2. l[i] = IF m + i <= Len(s) THEN s[m + i] ELSE t[(m + i) - Len(s)]
    BY <1>2, <1>5, <2>1
  <2>3. (a \o t)[i] = IF i <= Len(a) THEN s[m + i] ELSE t[i - Len(a)]
    BY <1>3, <1>6, <2>1
  <2>4. QED
    BY <2>1, <2>2, <2>3
<1>9. l = a \o t
  BY <1>5, <1>6, <1>7, <1>8, SeqEqual
<1>10. QED
  BY <1>9 DEF l, a, c

TxRing == Ring(txBuf, txIn, txOut)
RxRing == Ring(rxBuf, rxIn, rxOut)
\* The part of the receive ring that is under way.
RxKept == IF pc = "rFree" THEN SubSeq(RxRing, call.n + 1, Len(RxRing)) ELSE RxRing

LEMMA PipesAre ==
  ASSUME DriverInv
  PROVE  /\ txf \in Seq(Byte) /\ Len(txf) \in 0 .. FifoDepth
         /\ rxf \in Seq(Byte) /\ Len(rxf) \in 0 .. FifoDepth
         /\ TxRing \in Seq(Byte) /\ Len(TxRing) = Used(txIn, txOut)
         /\ RxRing \in Seq(Byte) /\ Len(RxRing) = Used(rxIn, rxOut)
         /\ RxKept \in Seq(Byte) /\ Len(RxKept) \in 0 .. Used(rxIn, rxOut)
         /\ Used(txIn, txOut) \in 0 .. BufLen - 1 /\ Used(rxIn, rxOut) \in 0 .. BufLen - 1
         /\ TxPipe = txf \o TxRing /\ RxPipe = RxKept \o rxf
         /\ TxPipe \in Seq(Byte) /\ Len(TxPipe) = Len(txf) + Len(TxRing)
         /\ RxPipe \in Seq(Byte) /\ Len(RxPipe) = Len(RxKept) + Len(rxf)
<1>1. /\ txf \in Seq(Byte) /\ rxf \in Seq(Byte)
      /\ Len(txf) \in Nat /\ Len(txf) <= FifoDepth /\ Len(rxf) \in Nat /\ Len(rxf) <= FifoDepth
      /\ txBuf \in Bytes /\ txIn \in Index /\ txOut \in Index
      /\ rxBuf \in Bytes /\ rxIn \in Index /\ rxOut \in Index
  BY LenProperties DEF DriverInv, TypeOK, HwTypeOK, Bytes
<1>2. Len(txf) \in 0 .. FifoDepth /\ Len(rxf) \in 0 .. FifoDepth
  BY <1>1, FifoAssumption, SMT
<1>3. /\ TxRing \in Seq(Byte) /\ Len(TxRing) = Used(txIn, txOut)
      /\ RxRing \in Seq(Byte) /\ Len(RxRing) = Used(rxIn, rxOut)
      /\ Used(txIn, txOut) \in 0 .. BufLen - 1 /\ Used(rxIn, rxOut) \in 0 .. BufLen - 1
  BY <1>1, RingIs, UsedRoom DEF TxRing, RxRing
<1>4. RxKept \in Seq(Byte) /\ Len(RxKept) \in 0 .. Used(rxIn, rxOut)
  <2>1. CASE pc = "rFree"
    <3>1. call.n \in 1 .. call.left /\ call.n <= Used(rxIn, rxOut) /\ call.left \in Nat
      BY <2>1 DEF DriverInv, CallFits, TypeOK, Calls
    <3>2. call.n \in 0 .. Len(RxRing)
      BY <1>3, <3>1, UartAssumption, SMT
    <3>3. RxKept = SubSeq(RxRing, call.n + 1, Len(RxRing))
      BY <2>1 DEF RxKept
    <3>4. RxKept \in Seq(Byte) /\ Len(RxKept) = Len(RxRing) - call.n
      BY <1>3, <3>2, <3>3, SubSeqIs
    <3>5. QED
      BY <1>3, <3>2, <3>4, UartAssumption, SMT
  <2>2. CASE pc # "rFree"
    <3>1. RxKept = RxRing
      BY <2>2 DEF RxKept
    <3>2. Used(rxIn, rxOut) \in 0 .. Used(rxIn, rxOut)
      BY <1>3, UartAssumption, SMT
    <3>3. QED
      BY <1>3, <3>1, <3>2
  <2>3. QED
    BY <2>1, <2>2
<1>5. TxPipe = txf \o TxRing /\ RxPipe = RxKept \o rxf
  BY DEF TxPipe, RxPipe, TxRing, RxRing, RxKept
<1>6. /\ TxPipe \in Seq(Byte) /\ Len(TxPipe) = Len(txf) + Len(TxRing)
      /\ RxPipe \in Seq(Byte) /\ Len(RxPipe) = Len(RxKept) + Len(rxf)
  BY <1>1, <1>3, <1>4, <1>5, ConcatProperties, Zenon
<1>7. QED
  BY <1>1, <1>2, <1>3, <1>4, <1>5, <1>6

(* What either driver's pipes are made of.                                 *)
Pipes ==
  /\ txf \in Seq(Byte) /\ Len(txf) \in 0 .. FifoDepth
  /\ rxf \in Seq(Byte) /\ Len(rxf) \in 0 .. FifoDepth
  /\ TxRing \in Seq(Byte) /\ Len(TxRing) \in 0 .. BufLen - 1
  /\ RxKept \in Seq(Byte) /\ Len(RxKept) \in 0 .. BufLen - 1
  /\ putNext \in Byte /\ hostNext \in Byte

LEMMA DriverPipes == DriverInv => Pipes
<1> SUFFICES ASSUME DriverInv PROVE Pipes
  OBVIOUS
<1>1. putNext \in Byte /\ hostNext \in Byte
  BY DEF DriverInv, TypeOK, HwTypeOK
<1>2. Len(RxKept) \in 0 .. BufLen - 1
  <2>1. Len(RxKept) \in 0 .. Used(rxIn, rxOut) /\ Used(rxIn, rxOut) \in 0 .. BufLen - 1
    BY PipesAre
  <2>2. QED
    BY <2>1, UartAssumption, SMT
<1>3. QED
  BY <1>1, <1>2, PipesAre DEF Pipes

LEMMA PipesConcat ==
  ASSUME Pipes
  PROVE  /\ TxPipe = txf \o TxRing /\ Len(TxPipe) = Len(txf) + Len(TxRing)
         /\ RxPipe = RxKept \o rxf /\ Len(RxPipe) = Len(RxKept) + Len(rxf)
<1>1. TxPipe = txf \o TxRing /\ RxPipe = RxKept \o rxf
  BY DEF TxPipe, RxPipe, TxRing, RxRing, RxKept
<1>2. txf \in Seq(Byte) /\ TxRing \in Seq(Byte) /\ RxKept \in Seq(Byte) /\ rxf \in Seq(Byte)
  BY DEF Pipes
<1>3. /\ Len(txf \o TxRing) = Len(txf) + Len(TxRing)
      /\ Len(RxKept \o rxf) = Len(RxKept) + Len(rxf)
  BY <1>2, ConcatProperties, Zenon
<1>4. QED
  BY <1>1, <1>3

TxStreamStep == [Tx!Put \/ Tx!Take]_(Tx!streamVars)
RxStreamStep == [Rx!Put \/ Rx!Take]_(Rx!streamVars)

(* What leaves the pipes alone.                                            *)
LEMMA TxStill ==
  ASSUME TxPipe' = TxPipe, putNext' = putNext, hostWants' = hostWants
  PROVE  TxStreamStep
  BY DEF TxStreamStep, Tx!streamVars

LEMMA RxStill ==
  ASSUME RxPipe' = RxPipe, hostNext' = hostNext, userNext' = userNext
  PROVE  RxStreamStep
  BY DEF RxStreamStep, Rx!streamVars

(* The bytes numbered from a on, as Put adds them.                         *)
Run(a, n) == [i \in 1 .. n |-> (a + i - 1) % Numbers]

LEMMA RunIs ==
  ASSUME NEW a \in Byte, NEW n \in Nat
  PROVE  /\ Run(a, n) \in Seq(Byte) /\ Len(Run(a, n)) = n
         /\ \A i \in 1 .. n : Run(a, n)[i] = (a + i - 1) % Numbers
<1>1. ASSUME NEW i \in 1 .. n
      PROVE  (a + i - 1) % Numbers \in Byte
  <2>1. a + i - 1 \in Int
    BY SMT DEF Byte
  <2>2. QED
    BY <2>1, NumberIsByte
<1>2. Run(a, n) \in [1 .. n -> Byte]
  BY <1>1 DEF Run
<1>3. QED
  BY <1>2, FunctionIsSeq DEF Run

(* Appending a byte adds the run of one.                                   *)
LEMMA AppendIsPut ==
  ASSUME NEW s \in Seq(Byte), NEW b \in Byte
  PROVE  Run(b, 1) \in Seq(Byte) /\ Append(s, b) = s \o Run(b, 1)
<1>1. Run(b, 1) \in Seq(Byte) /\ Len(Run(b, 1)) = 1
      /\ Run(b, 1)[1] = (b + 1 - 1) % Numbers
  <2>1. 1 \in Nat /\ 1 \in 1 .. 1
    BY SMT
  <2>2. /\ Run(b, 1) \in Seq(Byte) /\ Len(Run(b, 1)) = 1
        /\ \A i \in 1 .. 1 : Run(b, 1)[i] = (b + i - 1) % Numbers
    BY <2>1, RunIs, Zenon
  <2>3. QED
    BY <2>1, <2>2, Zenon
<1>2. (b + 1 - 1) % Numbers = b
  BY FifoAssumption, SMT DEF Byte
<1>3. Len(s) \in Nat
  BY LenProperties
<1> DEFINE one == Run(b, 1)
<1> HIDE DEF one
<1>4. /\ s \o Run(b, 1) \in Seq(Byte)
      /\ Len(s \o Run(b, 1)) = Len(s) + Len(Run(b, 1))
      /\ \A i \in 1 .. Len(s) + Len(Run(b, 1)) : (s \o Run(b, 1))[i]
           = IF i <= Len(s) THEN s[i] ELSE Run(b, 1)[i - Len(s)]
  <2>1. s \in Seq(Byte) /\ one \in Seq(Byte)
    BY <1>1 DEF one
  <2>2. /\ s \o one \in Seq(Byte) /\ Len(s \o one) = Len(s) + Len(one)
        /\ \A i \in 1 .. Len(s) + Len(one) :
             (s \o one)[i] = IF i <= Len(s) THEN s[i] ELSE one[i - Len(s)]
    BY <2>1, ConcatProperties, Zenon
  <2>3. QED
    BY <2>2, Zenon DEF one
<1>5. /\ Append(s, b) \in Seq(Byte) /\ Len(Append(s, b)) = Len(s) + 1
      /\ \A i \in 1 .. Len(s) : Append(s, b)[i] = s[i]
      /\ Append(s, b)[Len(s) + 1] = b
  BY AppendProperties
<1>6. ASSUME NEW i \in 1 .. Len(s) + 1
      PROVE  Append(s, b)[i] = (s \o Run(b, 1))[i]
  <2>1. CASE i <= Len(s)
    <3>1. i \in 1 .. Len(s)
      BY <1>3, <2>1, SMT
    <3>2. QED
      BY <1>1, <1>4, <1>5, <1>6, <2>1, <3>1
  <2>2. CASE ~(i <= Len(s))
    <3>1. i = Len(s) + 1 /\ i - Len(s) = 1
      BY <1>3, <1>6, <2>2, SMT
    <3>2. QED
      BY <1>1, <1>2, <1>4, <1>5, <1>6, <2>2, <3>1
  <2>3. QED
    BY <2>1, <2>2
<1>7. QED
  BY <1>1, <1>4, <1>5, <1>6, SeqEqual

(* The steps of a stream, in the terms above.                              *)
LEMMA TxPut ==
  ASSUME NEW n \in Nat \ {0}, n <= (BufLen - 1 + FifoDepth) - Len(TxPipe),
         Len(TxPipe) \in Nat,
         TxPipe' = TxPipe \o Run(putNext, n), putNext' = (putNext + n) % Numbers,
         hostWants' = hostWants
  PROVE  TxStreamStep
<1>1. n \in 1 .. (BufLen - 1 + FifoDepth) - Len(TxPipe)
  BY UartConstants, SMT
<1>2. QED
  <2>1. \E k \in 1 .. (BufLen - 1 + FifoDepth) - Len(TxPipe) :
          /\ TxPipe' = TxPipe \o [i \in 1 .. k |-> (putNext + i - 1) % Numbers]
          /\ putNext' = (putNext + k) % Numbers
          /\ UNCHANGED hostWants
    <3>1. /\ TxPipe' = TxPipe \o [i \in 1 .. n |-> (putNext + i - 1) % Numbers]
          /\ putNext' = (putNext + n) % Numbers
          /\ UNCHANGED hostWants
      BY DEF Run
    <3>2. QED
      BY <1>1, <3>1, Zenon
  <2>2. Tx!Put
    BY <2>1 DEF Tx!Put
  <2>3. QED
    BY <2>2 DEF TxStreamStep

LEMMA RxPut ==
  ASSUME NEW n \in Nat \ {0}, n <= (BufLen - 1 + FifoDepth) - Len(RxPipe),
         Len(RxPipe) \in Nat,
         RxPipe' = RxPipe \o Run(hostNext, n), hostNext' = (hostNext + n) % Numbers,
         userNext' = userNext
  PROVE  RxStreamStep
<1>1. n \in 1 .. (BufLen - 1 + FifoDepth) - Len(RxPipe)
  BY UartConstants, SMT
<1>2. QED
  <2>1. \E k \in 1 .. (BufLen - 1 + FifoDepth) - Len(RxPipe) :
          /\ RxPipe' = RxPipe \o [i \in 1 .. k |-> (hostNext + i - 1) % Numbers]
          /\ hostNext' = (hostNext + k) % Numbers
          /\ UNCHANGED userNext
    <3>1. /\ RxPipe' = RxPipe \o [i \in 1 .. n |-> (hostNext + i - 1) % Numbers]
          /\ hostNext' = (hostNext + n) % Numbers
          /\ UNCHANGED userNext
      BY DEF Run
    <3>2. QED
      BY <1>1, <3>1, Zenon
  <2>2. Rx!Put
    BY <2>1 DEF Rx!Put
  <2>3. QED
    BY <2>2 DEF RxStreamStep

(* Tx: what a call publishes is accepted.                                  *)
LEMMA PublishPuts ==
  ASSUME DriverInv, WritePublish
  PROVE  TxStreamStep
<1> DEFINE n == call.n
           s == Run(putNext, n)
<1>1. /\ txBuf \in Bytes /\ txIn \in Index /\ txOut \in Index /\ putNext \in Byte
      /\ pc = "wPublish" /\ call.left \in Nat
      /\ n \in 1 .. call.left /\ n <= Room(txIn, txOut) /\ txIn + n <= BufLen
  BY DEF DriverInv, TypeOK, CallFits, WritePublish, Bytes, Calls
<1>2. /\ UNCHANGED <<txf, txBuf, txOut, hostWants>>
      /\ txIn' = Wrap(txIn + n) /\ putNext' = (putNext + n) % Numbers
  BY DEF WritePublish, KeepHw, hwVars
<1>3. n \in Nat \ {0} /\ n \in 0 .. Room(txIn, txOut) /\ n \in Nat
  BY <1>1, UsedRoom, SMT
<1> HIDE DEF n
<1>4. s \in Seq(Byte) /\ Len(s) = n /\ \A i \in 1 .. n : s[i] = (putNext + i - 1) % Numbers
  BY <1>1, <1>3, RunIs
<1>5. ASSUME NEW i \in 1 .. n
      PROVE  txBuf[Slot(txIn, i)] = s[i]
  <2>1. /\ i \in 1 .. BufLen /\ txIn + i - 1 < BufLen
    BY <1>1, <1>3, UartAssumption, SMT DEF Index
  <2>2. Slot(txIn, i) = txIn + i - 1
    BY <1>1, <2>1, SlotIsIndex
  <2>3. txBuf[txIn + i - 1] = (putNext + i - 1) % Numbers
    BY <1>1 DEF DriverInv, CopyHeld, n
  <2>4. QED
    BY <1>4, <2>2, <2>3
<1> HIDE DEF s
<1>6. Ring(txBuf, Wrap(txIn + Len(s)), txOut) = Ring(txBuf, txIn, txOut) \o s
  BY <1>1, <1>3, <1>4, <1>5, RingPut
<1>7. TxRing' = TxRing \o s
  BY <1>2, <1>4, <1>6 DEF TxRing
<1>8. TxPipe' = TxPipe \o s
  <2>1. TxPipe' = txf \o (TxRing \o s)
    BY <1>2, <1>7 DEF TxPipe, TxRing
  <2>2. txf \in Seq(Byte) /\ TxRing \in Seq(Byte) /\ TxPipe = txf \o TxRing
    BY PipesAre
  <2>3. (txf \o TxRing) \o s = txf \o (TxRing \o s)
    BY <1>4, <2>2, ConcatAssociative
  <2>4. QED
    BY <2>1, <2>2, <2>3
<1>9. n <= (BufLen - 1 + FifoDepth) - Len(TxPipe) /\ Len(TxPipe) \in Nat
  <2>1. /\ Len(txf) \in 0 .. FifoDepth /\ Used(txIn, txOut) \in 0 .. BufLen - 1
        /\ Len(TxPipe) = Len(txf) + Used(txIn, txOut)
    BY PipesAre
  <2>2. n <= BufLen - 1 - Used(txIn, txOut)
    BY <1>1, <1>3 DEF Room, n
  <2>3. QED
    BY <1>3, <2>1, <2>2, UartConstants, SMT
<1>10. QED
  BY <1>2, <1>3, <1>8, <1>9, TxPut DEF s

(* Tx: what the routine moves on stays under way, in its place.            *)
LEMMA CopyIsStill ==
  ASSUME DriverInv, WriteCopy
  PROVE  TxPipe' = TxPipe
<1>1. /\ txBuf \in Bytes /\ txIn \in Index /\ txOut \in Index /\ pc = "wCopy"
      /\ call.left \in Nat /\ call.n \in 1 .. call.left /\ call.n <= Room(txIn, txOut)
      /\ txIn + call.n <= BufLen
  BY DEF DriverInv, TypeOK, CallFits, WriteCopy, Bytes, Calls
<1>2. /\ UNCHANGED <<txf, txIn, txOut>>
      /\ txBuf' = [i \in Index |-> IF i >= txIn /\ i < txIn + call.n
                                     THEN (putNext + i - txIn) % Numbers ELSE txBuf[i]]
  BY DEF WriteCopy, KeepHw, hwVars
<1>3. txBuf' \in Bytes
  BY WriteCopyStep DEF DriverInv, TypeOK, Bytes
<1>4. ASSUME NEW i \in 1 .. Used(txIn, txOut)
      PROVE  txBuf'[Slot(txOut, i)] = txBuf[Slot(txOut, i)]
  <2> DEFINE j == Slot(txOut, i)
  <2>1. Used(txIn, txOut) \in 0 .. BufLen - 1 /\ Room(txIn, txOut) \in 0 .. BufLen - 1
    BY <1>1, UsedRoom
  <2>2. i \in 1 .. BufLen
    BY <1>4, <2>1, UartAssumption, SMT
  <2>3. j \in Index /\ Used(j, txIn) > Room(txIn, txOut)
    BY <1>1, <2>2, SlotIsIndex, SlotDistance
  <2>4. Used(j, txIn) = IF j >= txIn THEN j - txIn ELSE j - txIn + BufLen
    BY <1>1, <2>3, UsedRoom
  <2> HIDE DEF j
  <2>5. ~(j >= txIn /\ j < txIn + call.n)
    BY <1>1, <2>1, <2>3, <2>4, UartAssumption, SMT DEF Index
  <2>6. txBuf'[j] = txBuf[j]
    BY <1>2, <2>3, <2>5
  <2>7. QED
    BY <2>6 DEF j
<1>5. Ring(txBuf', txIn, txOut) = Ring(txBuf, txIn, txOut)
  BY <1>1, <1>3, <1>4, RingKept
<1>6. QED
  BY <1>2, <1>5 DEF TxPipe

LEMMA PassKeepsTx ==
  ASSUME DriverInv, NEW m \in Nat, TxMoved(m), txBuf' = txBuf, txIn' = txIn
  PROVE  TxPipe' = TxPipe
<1>1. /\ txBuf \in Bytes /\ txIn \in Index /\ txOut \in Index
  BY DEF DriverInv, TypeOK, Bytes
<1>2. /\ txf \in Seq(Byte) /\ TxRing \in Seq(Byte) /\ Len(TxRing) = Used(txIn, txOut)
      /\ TxPipe = txf \o TxRing
  BY PipesAre
<1>3. /\ m \in 0 .. Used(txIn, txOut) /\ m \in 0 .. Len(TxRing)
      /\ txf' = txf \o SubSeq(TxRing, 1, m) /\ txOut' = Wrap(txOut + m)
  BY <1>2 DEF TxMoved, TxRing
<1>4. TxRing' = SubSeq(TxRing, m + 1, Len(TxRing))
  BY <1>1, <1>3, RingTake DEF TxRing
<1> DEFINE a == SubSeq(TxRing, 1, m)  b == SubSeq(TxRing, m + 1, Len(TxRing))
<1>5. a \in Seq(Byte) /\ b \in Seq(Byte) /\ a \o b = TxRing
  BY <1>2, <1>3, SubSeqIs, SplitAt
<1>6. TxPipe' = (txf \o a) \o b
  BY <1>3, <1>4 DEF TxPipe, TxRing
<1> HIDE DEF a, b
<1>7. (txf \o a) \o b = txf \o (a \o b)
  <2>1. txf \in Seq(Byte) /\ a \in Seq(Byte) /\ b \in Seq(Byte)
    BY <1>2, <1>5
  <2>2. QED
    BY <2>1, ConcatAssociative
<1>8. QED
  BY <1>2, <1>5, <1>6, <1>7

(* Tx: the host takes the oldest byte.                                     *)
LEMMA HostTakes ==
  ASSUME Pipes, HostTake, UNCHANGED <<txBuf, txIn, txOut, putNext>>
  PROVE  TxStreamStep
<1>1. /\ txf # <<>> /\ hostWants' = (Head(txf) + 1) % Numbers /\ txf' = Tail(txf)
  BY DEF HostTake, Next1
<1>2. /\ txf \in Seq(Byte) /\ TxRing \in Seq(Byte)
      /\ TxPipe = txf \o TxRing /\ Len(TxPipe) = Len(txf) + Len(TxRing)
      /\ Len(txf) \in Nat /\ Len(TxRing) \in Nat
  BY PipesConcat, LenProperties DEF Pipes
<1>3. Len(txf) \in Nat \ {0} /\ Tail(txf) = SubSeq(txf, 2, Len(txf))
  BY <1>1, <1>2, EmptySeq, TailIsSubSeq
<1>4. 1 \in 0 .. Len(txf) /\ 1 \in 1 .. Len(TxPipe) /\ 1 \in 1 .. Len(txf) /\ 1 + 1 = 2
      /\ 1 <= Len(txf) /\ 1 \in 1 .. Len(txf) + Len(TxRing)
  BY <1>2, <1>3, SMT
<1>5. SubSeq(txf \o TxRing, 1 + 1, Len(txf \o TxRing)) = SubSeq(txf, 1 + 1, Len(txf)) \o TxRing
  BY <1>2, <1>4, DropOfConcat, Zenon
<1>6. TxPipe' = SubSeq(TxPipe, 1 + 1, Len(TxPipe))
  BY <1>1, <1>2, <1>3, <1>4, <1>5 DEF TxPipe, TxRing
<1>7. TxPipe[1] = Head(txf)
  <2>1. (txf \o TxRing)[1] = txf[1]
    <3>1. \A i \in 1 .. Len(txf) + Len(TxRing) :
            (txf \o TxRing)[i] = IF i <= Len(txf) THEN txf[i] ELSE TxRing[i - Len(txf)]
      BY <1>2, ConcatProperties, Zenon
    <3>2. QED
      BY <1>4, <3>1
  <2>2. Head(txf) = txf[1]
    <3>1. Len(txf) \in 1 .. Len(txf)
      BY <1>3, SMT
    <3>2. Head(SubSeq(txf, 1, Len(txf))) = txf[1]
      BY <1>2, <1>4, <3>1, HeadTailOfSubSeq
    <3>3. QED
      BY <1>2, <3>2, SubSeqFull
  <2>3. QED
    BY <1>2, <2>1, <2>2
<1>8. Tx!Take
  BY <1>1, <1>4, <1>6, <1>7 DEF Tx!Take
<1>9. QED
  BY <1>8 DEF TxStreamStep

(* Rx: the host sends a byte.                                              *)
LEMMA HostSends ==
  ASSUME Pipes, HostSend, RxKept' = RxKept, userNext' = userNext
  PROVE  RxStreamStep
<1>1. /\ rxf' = Append(rxf, hostNext) /\ Len(rxf) < FifoDepth
      /\ hostNext' = (hostNext + 1) % Numbers
  BY DEF HostSend, HostRoom, Next1
<1>2. /\ rxf \in Seq(Byte) /\ RxKept \in Seq(Byte) /\ hostNext \in Byte
      /\ RxPipe = RxKept \o rxf /\ Len(RxPipe) = Len(RxKept) + Len(rxf)
      /\ Len(rxf) \in 0 .. FifoDepth /\ Len(RxKept) \in 0 .. BufLen - 1
  BY PipesConcat DEF Pipes
<1>3. Run(hostNext, 1) \in Seq(Byte) /\ Append(rxf, hostNext) = rxf \o Run(hostNext, 1)
  BY <1>2, AppendIsPut
<1>4. RxPipe' = RxPipe \o Run(hostNext, 1)
  <2>1. RxPipe' = RxKept \o (rxf \o Run(hostNext, 1))
    BY <1>1, <1>3, PipesConcat DEF RxPipe, RxRing, RxKept
  <2>2. (RxKept \o rxf) \o Run(hostNext, 1) = RxKept \o (rxf \o Run(hostNext, 1))
    BY <1>2, <1>3, ConcatAssociative
  <2>3. QED
    BY <1>2, <2>1, <2>2
<1>5. 1 \in Nat \ {0} /\ 1 <= (BufLen - 1 + FifoDepth) - Len(RxPipe) /\ Len(RxPipe) \in Nat
  BY <1>1, <1>2, UartConstants, SMT
<1>6. QED
  BY <1>1, <1>4, <1>5, RxPut

(* Rx: the caller has the bytes it copied out.                             *)
LEMMA CopyTakes ==
  ASSUME DriverInv, ReadCopy
  PROVE  RxStreamStep
<1> DEFINE n == call.n
<1>1. /\ rxBuf \in Bytes /\ rxIn \in Index /\ rxOut \in Index /\ pc = "rCopy"
      /\ call.left \in Nat /\ n \in 1 .. call.left /\ n <= Used(rxIn, rxOut)
      /\ rxOut + n <= BufLen
  BY DEF DriverInv, TypeOK, CallFits, ReadCopy, Bytes, Calls
<1>2. /\ UNCHANGED <<rxf, rxBuf, rxIn, rxOut, hostNext>>
      /\ pc' = "rFree" /\ call' = call
      /\ userNext' = (rxBuf[rxOut + n - 1] + 1) % Numbers
  BY DEF ReadCopy, Goto, KeepHw, hwVars, rings, Next1
<1> HIDE DEF n
<1>3. /\ rxf \in Seq(Byte) /\ RxRing \in Seq(Byte) /\ Len(RxRing) = Used(rxIn, rxOut)
      /\ Len(RxRing) \in Nat /\ Len(rxf) \in Nat
      /\ RxPipe = RxRing \o rxf /\ Len(RxPipe) = Len(RxRing) + Len(rxf)
  BY <1>1, PipesAre, LenProperties DEF RxKept
<1>4. /\ n \in 0 .. Len(RxRing) /\ n \in 1 .. Len(RxRing) /\ n \in 1 .. Len(RxPipe)
      /\ n \in 1 .. Len(RxRing) + Len(rxf) /\ n <= Len(RxRing)
  BY <1>1, <1>3, SMT
<1>5. SubSeq(RxRing \o rxf, n + 1, Len(RxRing \o rxf)) = SubSeq(RxRing, n + 1, Len(RxRing)) \o rxf
  BY <1>3, <1>4, DropOfConcat, Zenon
<1>6. RxPipe' = SubSeq(RxPipe, n + 1, Len(RxPipe))
  <2>1. RxPipe' = SubSeq(RxRing, n + 1, Len(RxRing)) \o rxf
    BY <1>2 DEF RxPipe, RxRing, n
  <2>2. QED
    BY <1>3, <1>5, <2>1
<1>7. RxPipe[n] = rxBuf[rxOut + n - 1]
  <2>1. (RxRing \o rxf)[n] = RxRing[n]
    <3>1. \A i \in 1 .. Len(RxRing) + Len(rxf) :
            (RxRing \o rxf)[i] = IF i <= Len(RxRing) THEN RxRing[i] ELSE rxf[i - Len(RxRing)]
      BY <1>3, ConcatProperties, Zenon
    <3>2. QED
      BY <1>4, <3>1
  <2>2. RxRing[n] = rxBuf[Slot(rxOut, n)]
    BY <1>1, <1>3, <1>4, RingIs DEF RxRing
  <2>3. n \in 1 .. BufLen /\ rxOut + n - 1 < BufLen
    BY <1>1, UartAssumption, SMT DEF Index
  <2>4. Slot(rxOut, n) = rxOut + n - 1
    BY <1>1, <2>3, SlotIsIndex
  <2>5. QED
    BY <1>3, <2>1, <2>2, <2>4
<1>8. Rx!Take
  BY <1>2, <1>4, <1>6, <1>7 DEF Rx!Take
<1>9. QED
  BY <1>8 DEF RxStreamStep

(* Rx: and freeing their slots changes nothing more.                       *)
LEMMA FreeIsStill ==
  ASSUME DriverInv, ReadFree
  PROVE  RxPipe' = RxPipe
<1>1. /\ rxBuf \in Bytes /\ rxIn \in Index /\ rxOut \in Index /\ pc = "rFree"
      /\ call.left \in Nat /\ call.n \in 1 .. call.left /\ call.n <= Used(rxIn, rxOut)
  BY DEF DriverInv, TypeOK, CallFits, ReadFree, Bytes, Calls
<1>2. /\ UNCHANGED <<rxf, rxBuf, rxIn>> /\ rxOut' = Wrap(rxOut + call.n) /\ pc' # "rFree"
  BY DEF ReadFree, Goto, KeepHw, hwVars
<1>3. call.n \in 0 .. Used(rxIn, rxOut)
  BY <1>1, UsedRoom, SMT
<1>4. Ring(rxBuf, rxIn, Wrap(rxOut + call.n)) = SubSeq(RxRing, call.n + 1, Len(RxRing))
  BY <1>1, <1>3, RingTake DEF RxRing
<1>5. QED
  BY <1>1, <1>2, <1>4 DEF RxPipe, RxRing

(* Rx: what the interrupt routine moves stays under way, in its place.     *)
LEMMA PassKeepsRx ==
  ASSUME DriverInv, NEW m \in Nat, RxMoved(m), rxOut' = rxOut, pc' = pc, call' = call
  PROVE  RxPipe' = RxPipe
<1> DEFINE s    == SubSeq(rxf, 1, m)
           rest == SubSeq(rxf, m + 1, Len(rxf))
<1>1. /\ rxBuf \in Bytes /\ rxIn \in Index /\ rxOut \in Index
  BY DEF DriverInv, TypeOK, Bytes
<1>2. /\ rxf \in Seq(Byte) /\ RxRing \in Seq(Byte) /\ Len(RxRing) = Used(rxIn, rxOut)
      /\ RxKept \in Seq(Byte) /\ RxPipe = RxKept \o rxf
  BY PipesAre
<1>3. /\ m \in 0 .. Room(rxIn, rxOut) /\ m \in 0 .. Len(rxf)
      /\ rxBuf' \in Bytes /\ rxIn' = Wrap(rxIn + m) /\ rxf' = rest
      /\ \A i \in 1 .. m : rxBuf'[Slot(rxIn, i)] = rxf[i]
      /\ \A i \in 1 .. Used(rxIn, rxOut) : rxBuf'[Slot(rxOut, i)] = rxBuf[Slot(rxOut, i)]
  BY DEF RxMoved
<1>4. /\ s \in Seq(Byte) /\ Len(s) = m /\ \A i \in 1 .. m : s[i] = rxf[i]
      /\ rest \in Seq(Byte) /\ s \o rest = rxf
  BY <1>2, <1>3, SubSeqIs, SplitAt
<1> HIDE DEF s, rest
<1>5. Ring(rxBuf', rxIn, rxOut) = RxRing
  BY <1>1, <1>3, RingKept DEF RxRing
<1>6. Ring(rxBuf', Wrap(rxIn + Len(s)), rxOut) = Ring(rxBuf', rxIn, rxOut) \o s
  <2>1. Len(s) \in 0 .. Room(rxIn, rxOut) /\ \A i \in 1 .. Len(s) : rxBuf'[Slot(rxIn, i)] = s[i]
    BY <1>3, <1>4
  <2>2. QED
    BY <1>1, <1>3, <1>4, <2>1, RingPut
<1>7. RxRing' = RxRing \o s
  BY <1>3, <1>4, <1>5, <1>6 DEF RxRing
<1>8. RxKept' = RxKept \o s
  <2>1. CASE pc = "rFree"
    <3>1. /\ call.left \in Nat /\ call.n \in 1 .. call.left /\ call.n <= Used(rxIn, rxOut)
      BY <2>1 DEF DriverInv, CallFits, TypeOK, Calls
    <3>2. Used(rxIn, rxOut) \in 0 .. BufLen - 1
      BY <1>1, UsedRoom
    <3>3. call.n \in 0 .. Used(rxIn, rxOut)
      BY <3>1, <3>2, UartAssumption, SMT
    <3>4. call.n \in 0 .. Len(RxRing)
      BY <1>2, <3>3
    <3>5. SubSeq(RxRing \o s, call.n + 1, Len(RxRing \o s))
            = SubSeq(RxRing, call.n + 1, Len(RxRing)) \o s
      BY <1>2, <1>4, <3>4, DropOfConcat, Zenon
    <3>6. RxKept' = SubSeq(RxRing', call.n + 1, Len(RxRing'))
      BY <2>1 DEF RxKept
    <3>7. QED
      BY <1>7, <2>1, <3>5, <3>6 DEF RxKept
  <2>2. CASE pc # "rFree"
    BY <1>7, <2>2 DEF RxKept
  <2>3. QED
    BY <2>1, <2>2
<1>9. RxPipe' = (RxKept \o s) \o rest
  BY <1>3, <1>8 DEF RxPipe, RxKept, RxRing
<1>10. (RxKept \o s) \o rest = RxKept \o (s \o rest)
  <2>1. RxKept \in Seq(Byte) /\ s \in Seq(Byte) /\ rest \in Seq(Byte)
    BY <1>2, <1>4
  <2>2. QED
    BY <2>1, ConcatAssociative
<1>11. QED
  BY <1>2, <1>4, <1>9, <1>10

(* Every step of the driver, its program and the host is a step of either  *)
(* stream, or none.                                                        *)
LEMMA StreamsInit ==
  ASSUME Init
  PROVE  Tx!StreamInit /\ Rx!StreamInit
<1>1. DriverInv
  BY DriverInit
<1>2. /\ txIn = 0 /\ txOut = 0 /\ rxIn = 0 /\ rxOut = 0 /\ txf = <<>> /\ rxf = <<>>
      /\ pc = "idle" /\ hostNext = 0 /\ hostWants = 0 /\ putNext = 0 /\ userNext = 0
  BY DEF Init, HwInit
<1>3. Used(0, 0) = 0
  BY UartConstants, UsedRoom
<1>4. /\ TxRing \in Seq(Byte) /\ Len(TxRing) = 0 /\ RxRing \in Seq(Byte) /\ Len(RxRing) = 0
      /\ TxPipe = txf \o TxRing /\ RxPipe = RxKept \o rxf /\ RxKept = RxRing
  BY <1>1, <1>2, <1>3, PipesAre DEF RxKept
<1>5. TxRing = <<>> /\ RxRing = <<>>
  BY <1>4, EmptySeq
<1>6. <<>> \in Seq(Byte)
  BY EmptySeq
<1>7. <<>> \o <<>> = <<>>
  BY <1>6, ConcatEmptySeq, Zenon
<1>8. TxPipe = <<>> /\ RxPipe = <<>>
  BY <1>2, <1>4, <1>5, <1>7
<1>9. QED
  BY <1>2, <1>8 DEF Tx!StreamInit, Rx!StreamInit

LEMMA TxStreamNext ==
  ASSUME DriverInv, [Next]_vars
  PROVE  TxStreamStep
<1>1. CASE UNCHANGED <<txf, txBuf, txIn, txOut, putNext, hostWants>>
  BY <1>1, TxStill DEF TxPipe
<1>2. CASE WriteCopy
  <2>1. putNext' = putNext /\ hostWants' = hostWants
    BY <1>2 DEF WriteCopy, KeepHw, hwVars
  <2>2. QED
    BY <1>2, <2>1, CopyIsStill, TxStill
<1>3. CASE WritePublish
  BY <1>3, PublishPuts
<1>4. CASE IsrPass
  <2>1. putNext' = putNext /\ hostWants' = hostWants /\ txBuf' = txBuf /\ txIn' = txIn
    BY <1>4 DEF IsrPass
  <2>2. PICK m \in Nat : TxMoved(m)
    BY <1>4, IsrMovesTx
  <2>3. QED
    BY <2>1, <2>2, PassKeepsTx, TxStill
<1>5. CASE HostStep
  <2>1. CASE HostTake
    BY <1>5, <2>1, HostTakes, DriverPipes DEF HostStep, KeepDriver, rings
  <2>2. CASE HostSend \/ HostPoll \/ HostPlug
    BY <1>1, <1>5, <2>2 DEF HostStep, KeepDriver, rings, HostSend, HostPoll, HostPlug
  <2>3. QED
    BY <1>5, <2>1, <2>2 DEF HostStep, Host
<1>6. CASE Program \/ Timeout \/ WriteSpace \/ WriteKick \/ WriteWait \/ WriteTest
           \/ ReadSpace \/ ReadCopy \/ ReadFree \/ ReadWait \/ ReadTest \/ ReadEnd \/ CloseTest
  BY <1>1, <1>6 DEF Program, CallWrite, CallRead, IoctlTimeout, CallClose, Timeout, WriteSpace,
     WriteKick, WriteWait, WriteTest, ReadSpace, ReadCopy, ReadFree, ReadWait, ReadTest, ReadEnd,
     CloseTest, KeepHw, hwVars, rings
<1>7. CASE UNCHANGED vars
  BY <1>1, <1>7 DEF vars, hwVars, rings
<1>8. QED
  BY <1>2, <1>3, <1>4, <1>5, <1>6, <1>7 DEF Next, Foreground

LEMMA RxStreamNext ==
  ASSUME DriverInv, [Next]_vars
  PROVE  RxStreamStep
<1> DEFINE hold == UNCHANGED <<rxf, rxBuf, rxIn, rxOut, hostNext, userNext>>
<1>1. CASE hold /\ UNCHANGED <<pc, call>>
  BY <1>1, RxStill DEF RxPipe
<1>2. CASE hold /\ pc # "rFree" /\ pc' # "rFree"
  BY <1>2, RxStill DEF RxPipe
<1>3. CASE ReadCopy
  BY <1>3, CopyTakes
<1>4. CASE ReadFree
  <2>1. hostNext' = hostNext /\ userNext' = userNext
    BY <1>4 DEF ReadFree, KeepHw, hwVars
  <2>2. QED
    BY <1>4, <2>1, FreeIsStill, RxStill
<1>5. CASE IsrPass
  <2>1. hostNext' = hostNext /\ userNext' = userNext /\ rxOut' = rxOut /\ pc' = pc /\ call' = call
    BY <1>5 DEF IsrPass
  <2>2. PICK m \in Nat : RxMoved(m)
    BY <1>5, IsrMovesRx
  <2>3. QED
    BY <2>1, <2>2, PassKeepsRx, RxStill
<1>6. CASE HostStep
  <2>1. CASE HostSend
    <3>1. RxKept' = RxKept /\ userNext' = userNext
      BY <1>6 DEF HostStep, KeepDriver, rings, RxKept, RxRing
    <3>2. QED
      BY <2>1, <3>1, HostSends, DriverPipes
  <2>2. CASE HostTake \/ HostPoll \/ HostPlug
    BY <1>1, <1>6, <2>2 DEF HostStep, KeepDriver, rings, HostTake, HostPoll, HostPlug
  <2>3. QED
    BY <1>6, <2>1, <2>2 DEF HostStep, Host
<1>7. CASE Timeout \/ \E t \in Timeouts : IoctlTimeout(t)
  BY <1>1, <1>7 DEF Timeout, IoctlTimeout, KeepHw, hwVars, rings
<1>8. CASE WriteSpace \/ WriteCopy \/ WritePublish \/ WriteKick \/ WriteWait \/ WriteTest
           \/ ReadSpace \/ ReadWait \/ ReadTest \/ ReadEnd \/ CloseTest
  <2>1. hold
    BY <1>8 DEF WriteSpace, WriteCopy, WritePublish, WriteKick, WriteWait, WriteTest, ReadSpace,
       ReadWait, ReadTest, ReadEnd, CloseTest, KeepHw, hwVars, rings
  <2>2. pc # "rFree" /\ pc' # "rFree"
    BY <1>8 DEF WriteSpace, WriteCopy, WritePublish, WriteKick, WriteWait, WriteTest, ReadSpace,
       ReadWait, ReadTest, ReadEnd, CloseTest, Goto, Return
  <2>3. QED
    BY <1>2, <2>1, <2>2
<1>9. CASE (\E n \in Writes, nb \in BOOLEAN : CallWrite(n, nb))
           \/ (\E n \in Reads, nb \in BOOLEAN : CallRead(n, nb))
           \/ \E nb \in BOOLEAN : CallClose(nb)
  <2>1. hold /\ pc # "rFree" /\ pc' # "rFree"
    BY <1>9 DEF CallWrite, CallRead, CallClose, Goto, KeepHw, hwVars, rings
  <2>2. QED
    BY <1>2, <2>1
<1>10. CASE UNCHANGED vars
  BY <1>1, <1>10 DEF vars, hwVars, rings
<1>11. QED
  BY <1>3, <1>4, <1>5, <1>6, <1>7, <1>8, <1>9, <1>10 DEF Next, Foreground, Program

(* Either direction of the interrupt-driven driver is a byte stream.       *)
THEOREM DriverStreams == Spec => TxIsAStream /\ RxIsAStream
<1>1. Init => Tx!StreamInit /\ Rx!StreamInit
  BY StreamsInit
<1>2. DriverInv /\ [Next]_vars => TxStreamStep /\ RxStreamStep
  BY TxStreamNext, RxStreamNext
<1>3. QED
  BY <1>1, <1>2, DriverCorrect, PTL
     DEF Spec, TxIsAStream, RxIsAStream, Tx!StreamSpec, Rx!StreamSpec, TxStreamStep, RxStreamStep

-----------------------------------------------------------------------------
(* The driver the system is built with, and both of them on one device.    *)

(* The polled driver leaves the rings as they started.                     *)
PolledInv ==
  /\ Polled!TypeOK
  /\ txBuf \in Bytes /\ rxBuf \in Bytes
  /\ txIn = 0 /\ txOut = 0 /\ rxIn = 0 /\ rxOut = 0

LEMMA PolledPipes ==
  ASSUME PolledInv
  PROVE  Pipes /\ TxRing = <<>> /\ RxKept = <<>>
<1>1. /\ txf \in Seq(Byte) /\ rxf \in Seq(Byte)
      /\ Len(txf) \in Nat /\ Len(txf) <= FifoDepth /\ Len(rxf) \in Nat /\ Len(rxf) <= FifoDepth
      /\ putNext \in Byte /\ hostNext \in Byte /\ pc # "rFree"
  BY LenProperties DEF PolledInv, Polled!TypeOK, HwTypeOK, Polled!HwTypeOK, Byte, Polled!Byte
<1>2. Len(txf) \in 0 .. FifoDepth /\ Len(rxf) \in 0 .. FifoDepth /\ 0 \in 0 .. BufLen - 1
  BY <1>1, FifoAssumption, UartAssumption, SMT
<1>3. Used(0, 0) = 0
  BY UartConstants, UsedRoom
<1>4. /\ TxRing \in Seq(Byte) /\ Len(TxRing) = 0 /\ RxRing \in Seq(Byte) /\ Len(RxRing) = 0
  BY <1>3, UartConstants, RingIs DEF PolledInv, TxRing, RxRing
<1>5. TxRing = <<>> /\ RxRing = <<>> /\ RxKept = RxRing
  BY <1>1, <1>4, EmptySeq DEF RxKept
<1>6. QED
  BY <1>1, <1>2, <1>4, <1>5 DEF Pipes

LEMMA PolledWrites ==
  ASSUME PolledInv, Polled!WriteByte, UNCHANGED rings
  PROVE  TxStreamStep /\ RxStreamStep /\ PolledInv'
<1>1. Pipes /\ TxRing = <<>> /\ RxKept = <<>>
  BY PolledPipes
<1>2. /\ FifoDepth - Len(txf) # 0 /\ Len(txf) \in 0 .. FifoDepth /\ txf \in Seq(Byte)
      /\ putNext \in Byte /\ left \in Nat /\ left > 0
      /\ putNext' = (putNext + 1) % Numbers /\ left' = left - 1
      /\ txf' = IF FifoDepth - Len(txf) > 0 THEN Append(txf, putNext) ELSE txf
      /\ UNCHANGED <<rxf, ien, ac, pause, connected, hostNext, hostWants,
                     pc, moved, nonblock, userNext>>
  BY <1>1 DEF Pipes, PolledInv, Polled!TypeOK, Polled!WriteByte, Polled!FifoSpace, Polled!WSpace,
     Polled!Next1
<1>3. FifoDepth - Len(txf) > 0 /\ Len(txf) + 1 <= FifoDepth /\ left - 1 \in Nat
      /\ putNext + 1 \in Int
  BY <1>2, FifoAssumption, SMT DEF Byte
<1>4. txf' = Append(txf, putNext)
  BY <1>2, <1>3
<1>5. Run(putNext, 1) \in Seq(Byte) /\ txf' = txf \o Run(putNext, 1)
  BY <1>2, <1>4, AppendIsPut
<1>6. TxPipe = txf /\ TxPipe' = TxPipe \o Run(putNext, 1)
  <2>1. TxPipe = txf \o TxRing /\ TxPipe' = txf' \o TxRing
    BY DEF TxPipe, TxRing, rings
  <2>2. txf' \in Seq(Byte)
    BY <1>2, <1>4, AppendProperties
  <2>3. txf \o <<>> = txf /\ txf' \o <<>> = txf'
    BY <1>2, <2>2, ConcatEmptySeq
  <2>4. QED
    BY <1>1, <1>5, <2>1, <2>3
<1>7. 1 \in Nat \ {0} /\ 1 <= (BufLen - 1 + FifoDepth) - Len(TxPipe) /\ Len(TxPipe) \in Nat
  BY <1>2, <1>3, <1>6, UartConstants, SMT
<1>8. TxStreamStep
  BY <1>2, <1>6, <1>7, TxPut
<1>9. RxStreamStep
  BY <1>2, RxStill DEF RxPipe, rings, PolledInv, Polled!TypeOK
<1>10. PolledInv'
  <2>1. txf' \in Seq(Byte) /\ Len(txf') <= FifoDepth
    BY <1>2, <1>3, <1>4, AppendProperties
  <2>2. putNext' \in Byte /\ left' \in Nat
    BY <1>2, <1>3, NumberIsByte
  <2>3. QED
    BY <1>2, <2>1, <2>2 DEF PolledInv, Polled!TypeOK, Polled!HwTypeOK, Byte, Polled!Byte, rings
<1>11. QED
  BY <1>8, <1>9, <1>10

LEMMA PolledReads ==
  ASSUME PolledInv, Polled!ReadByte, UNCHANGED rings
  PROVE  TxStreamStep /\ RxStreamStep /\ PolledInv'
<1>1. Pipes /\ TxRing = <<>> /\ RxKept = <<>>
  BY PolledPipes
<1>2. /\ rxf # <<>> /\ rxf \in Seq(Byte) /\ Len(rxf) \in 0 .. FifoDepth
      /\ left \in Nat /\ left > 0
      /\ userNext' = (Head(rxf) + 1) % Numbers /\ rxf' = Tail(rxf)
      /\ pause' = FALSE /\ left' = left - 1 /\ moved' = TRUE
      /\ UNCHANGED <<txf, ien, ac, connected, hostNext, hostWants, pc, nonblock, putNext>>
  BY <1>1 DEF Pipes, PolledInv, Polled!TypeOK, Polled!ReadByte, Polled!Popped, Polled!Next1
<1>3. /\ Len(rxf) \in Nat \ {0} /\ Tail(rxf) = SubSeq(rxf, 2, Len(rxf))
      /\ Head(rxf) \in Byte /\ Tail(rxf) \in Seq(Byte) /\ Len(Tail(rxf)) = Len(rxf) - 1
  BY <1>2, EmptySeq, TailIsSubSeq, HeadTailProperties
<1>4. RxPipe = rxf /\ RxPipe' = rxf'
  <2>1. RxPipe = RxKept \o rxf /\ RxPipe' = RxKept \o rxf'
    BY <1>2 DEF RxPipe, RxKept, RxRing, rings, PolledInv, Polled!TypeOK
  <2>2. <<>> \o rxf = rxf /\ <<>> \o rxf' = rxf'
    BY <1>2, <1>3, ConcatEmptySeq
  <2>3. QED
    BY <1>1, <2>1, <2>2
<1>5. 1 \in 1 .. Len(rxf) /\ Len(rxf) \in 1 .. Len(rxf) /\ 1 + 1 = 2
  BY <1>3, SMT
<1>6. Head(rxf) = rxf[1]
  <2>1. Head(SubSeq(rxf, 1, Len(rxf))) = rxf[1]
    BY <1>2, <1>5, HeadTailOfSubSeq
  <2>2. QED
    BY <1>2, <2>1, SubSeqFull
<1>7. Rx!Take
  BY <1>2, <1>3, <1>4, <1>5, <1>6 DEF Rx!Take
<1>8. RxStreamStep
  BY <1>7 DEF RxStreamStep
<1>9. TxStreamStep
  BY <1>2, TxStill DEF TxPipe, rings
<1>10. PolledInv'
  <2>1. Head(rxf) + 1 \in Int /\ left - 1 \in Nat /\ Len(rxf) - 1 <= FifoDepth
    BY <1>2, <1>3, FifoAssumption, SMT DEF Byte
  <2>2. userNext' \in Byte /\ left' \in Nat
    BY <1>2, <2>1, NumberIsByte
  <2>3. rxf' \in Seq(Byte) /\ Len(rxf') <= FifoDepth
    BY <1>2, <1>3, <2>1
  <2>4. QED
    BY <1>2, <2>2, <2>3 DEF PolledInv, Polled!TypeOK, Polled!HwTypeOK, Byte, Polled!Byte, rings
<1>11. QED
  BY <1>8, <1>9, <1>10

LEMMA PolledStep ==
  ASSUME PolledInv, Polled!Next, UNCHANGED rings
  PROVE  TxStreamStep /\ RxStreamStep /\ PolledInv'
<1>1. Pipes /\ TxRing = <<>> /\ RxKept = <<>>
  BY PolledPipes
<1>2. /\ left \in Nat /\ pc \in {"idle", "write", "read"}
      /\ HwTypeOK /\ moved \in BOOLEAN /\ nonblock \in BOOLEAN
      /\ putNext \in Byte /\ userNext \in Byte
  BY DEF PolledInv, Polled!TypeOK, HwTypeOK, Polled!HwTypeOK, Byte, Polled!Byte
<1>3. CASE Polled!WriteByte
  BY <1>3, PolledWrites
<1>4. CASE Polled!ReadByte
  BY <1>4, PolledReads
<1>5. ASSUME UNCHANGED <<txf, rxf, ien, ac, connected, hostNext, hostWants, putNext, userNext>>,
             pause' \in BOOLEAN, pc' \in {"idle", "write", "read"}, left' \in Nat,
             moved' \in BOOLEAN, nonblock' \in BOOLEAN
      PROVE  TxStreamStep /\ RxStreamStep /\ PolledInv'
  <2>1. TxStreamStep
    BY <1>5, TxStill DEF TxPipe, rings
  <2>2. RxStreamStep
    BY <1>2, <1>5, RxStill DEF RxPipe, rings
  <2>3. PolledInv'
    BY <1>5 DEF PolledInv, Polled!TypeOK, Polled!HwTypeOK, Byte, Polled!Byte, rings
  <2>4. QED
    BY <2>1, <2>2, <2>3
<1>6. CASE Polled!ReadEmpty \/ Polled!Finish
  <2>1. pc' = "idle" /\ left' = 0 /\ moved' = FALSE /\ nonblock' = FALSE
    BY <1>6 DEF Polled!ReadEmpty, Polled!Finish, Polled!Return
  <2>2. UNCHANGED <<txf, rxf, ien, ac, connected, hostNext, hostWants, putNext, userNext>>
        /\ pause' \in BOOLEAN
    BY <1>2, <1>6 DEF Polled!ReadEmpty, Polled!Finish, Polled!hwVars, HwTypeOK
  <2>3. 0 \in Nat
    BY SMT
  <2>4. QED
    BY <1>5, <2>1, <2>2, <2>3
<1>7. CASE Polled!Program
  <2>1. PICK nb \in BOOLEAN : \/ \E n \in Writes : Polled!Call("write", n, nb)
                              \/ \E n \in Reads : Polled!Call("read", n, nb)
    BY <1>7 DEF Polled!Program
  <2>2. PICK n \in Writes \cup Reads : Polled!Call("write", n, nb) \/ Polled!Call("read", n, nb)
    BY <2>1
  <2>3. n \in Nat
    BY UartAssumption
  <2>4. /\ pc' \in {"write", "read"} /\ left' = n /\ nonblock' = nb
        /\ UNCHANGED <<txf, rxf, ien, ac, connected, hostNext, hostWants, putNext, userNext,
                       pause, moved>>
    BY <2>2 DEF Polled!Call, Polled!hwVars
  <2>5. QED
    BY <1>2, <1>5, <2>3, <2>4 DEF HwTypeOK
<1>8. CASE Polled!HostStep(Polled!Host)
  <2>1. Host /\ UNCHANGED <<pc, left, moved, nonblock, putNext, userNext>>
    BY <1>8 DEF Polled!HostStep, Polled!Host, Host, Polled!HostTake, HostTake, Polled!HostSend,
       HostSend, Polled!HostPoll, HostPoll, Polled!HostPlug, HostPlug, Polled!HostRoom, HostRoom,
       Polled!Next1, Next1
  <2>2. HwTypeOK'
    BY <1>2, <2>1, HostTypes
  <2>3. PolledInv'
    BY <2>1, <2>2 DEF PolledInv, Polled!TypeOK, Polled!HwTypeOK, HwTypeOK, Byte, Polled!Byte, rings
  <2>4. RxKept' = RxKept
    BY <1>2, <2>1 DEF RxKept, RxRing, rings
  <2>5. TxStreamStep
    <3>1. CASE HostTake
      BY <1>1, <2>1, <3>1, HostTakes DEF rings
    <3>2. CASE HostSend \/ HostPoll \/ HostPlug
      BY <2>1, <3>2, TxStill DEF HostSend, HostPoll, HostPlug, TxPipe, rings
    <3>3. QED
      BY <2>1, <3>1, <3>2 DEF Host
  <2>6. RxStreamStep
    <3>1. CASE HostSend
      BY <1>1, <2>1, <2>4, <3>1, HostSends
    <3>2. CASE HostTake \/ HostPoll \/ HostPlug
      BY <1>2, <2>1, <3>2, RxStill DEF HostTake, HostPoll, HostPlug, RxPipe, rings
    <3>3. QED
      BY <2>1, <3>1, <3>2 DEF Host
  <2>7. QED
    BY <2>3, <2>5, <2>6
<1>9. QED
  BY <1>3, <1>4, <1>6, <1>7, <1>8 DEF Polled!Next, Polled!Loop

(* Whichever driver the run builds in, and whichever part runs.            *)
MCInv == IF use = "polled" THEN PolledInv ELSE DriverInv

LEMMA BothInit ==
  ASSUME MCInit
  PROVE  MCInv /\ Tx!StreamInit /\ Rx!StreamInit
<1>1. MCUartInit
  BY DEF MCInit
<1>2. CASE use # "polled"
  <2>1. Init
    BY <1>1, <1>2 DEF MCUartInit
  <2>2. QED
    BY <1>2, <2>1, DriverInit, StreamsInit DEF MCInv
<1>3. CASE use = "polled"
  <2>1. /\ Polled!Init
        /\ rxBuf = [i \in Index |-> 0] /\ rxIn = 0 /\ rxOut = 0
        /\ txBuf = [i \in Index |-> 0] /\ txIn = 0 /\ txOut = 0
    BY <1>1, <1>3 DEF MCUartInit
  <2>2. /\ txf = <<>> /\ rxf = <<>> /\ ien = {} /\ ac = FALSE /\ pause = FALSE
        /\ connected \in BOOLEAN /\ hostNext = 0 /\ hostWants = 0
        /\ pc = "idle" /\ left = 0 /\ moved = FALSE /\ nonblock = FALSE
        /\ putNext = 0 /\ userNext = 0
    BY <2>1 DEF Polled!Init, Polled!HwInit
  <2>3. <<>> \in Seq(Byte) /\ Len(<<>>) = 0 /\ 0 <= FifoDepth /\ 0 \in Nat
    BY EmptySeq, UartConstants, SMT
  <2>4. PolledInv
    BY <2>1, <2>2, <2>3, UartConstants
       DEF PolledInv, Polled!TypeOK, Polled!HwTypeOK, Byte, Polled!Byte, Bytes
  <2>5. TxRing = <<>> /\ RxKept = <<>> /\ TxPipe = txf \o TxRing /\ RxPipe = RxKept \o rxf
    BY <2>4, PolledPipes, PipesConcat
  <2>6. <<>> \o <<>> = <<>>
    BY <2>3, ConcatEmptySeq, Zenon
  <2>7. QED
    BY <1>3, <2>2, <2>4, <2>5, <2>6 DEF MCInv, Tx!StreamInit, Rx!StreamInit
<1>4. QED
  BY <1>2, <1>3

(* A step of another part is no step of a driver.                          *)
LEMMA UartSteps ==
  ASSUME [MCNext]_MCVars
  PROVE  MCUartNext \/ UNCHANGED MCUartVars
<1>1. ASSUME NEW p \in AllParts \ {"uart"}, \A q \in AllParts \ {p} : Keeps(q)
      PROVE  UNCHANGED MCUartVars
  <2>1. Keeps("uart")
    BY <1>1 DEF AllParts
  <2>2. QED
    BY <2>1 DEF Keeps
<1>2. CASE By("uart", MCUartNext)
  BY <1>2 DEF By
<1>3. CASE By("interrupts", Irqs!Next)
  BY <1>1, <1>3 DEF By, AllParts
<1>4. CASE By("alarms", Timers!Next)
  BY <1>1, <1>4 DEF By, AllParts
<1>5. CASE By("log", Log!Next)
  BY <1>1, <1>5 DEF By, AllParts
<1>6. CASE UNCHANGED MCVars
  BY <1>6 DEF MCVars
<1>7. QED
  BY <1>2, <1>3, <1>4, <1>5, <1>6 DEF MCNext

LEMMA BothStep ==
  ASSUME MCInv, [MCNext]_MCVars
  PROVE  MCInv' /\ TxStreamStep /\ RxStreamStep
<1>1. CASE Buffered(Next) \/ (use # "polled" /\ UNCHANGED MCUartVars)
  <2>1. DriverInv /\ [Next]_vars /\ use # "polled" /\ use' = use
    BY <1>1 DEF MCInv, Buffered, MCUartVars
  <2>2. DriverInv' /\ TxStreamStep /\ RxStreamStep
    BY <2>1, DriverStep, TxStreamNext, RxStreamNext
  <2>3. QED
    BY <2>1, <2>2 DEF MCInv
<1>2. CASE PolledDoes(Polled!Next)
  <2>1. PolledInv /\ Polled!Next /\ UNCHANGED rings /\ use = "polled" /\ use' = use
    BY <1>2 DEF MCInv, PolledDoes, bufferedOnly
  <2>2. PolledInv' /\ TxStreamStep /\ RxStreamStep
    BY <2>1, PolledStep
  <2>3. QED
    BY <2>1, <2>2 DEF MCInv
<1>3. CASE use = "polled" /\ UNCHANGED MCUartVars
  <2>1. PolledInv /\ use' = use
    BY <1>3 DEF MCInv, MCUartVars
  <2>2. UNCHANGED <<txf, rxf, ien, ac, pause, connected, hostNext, hostWants, rings, pc, call,
                    putNext, userNext, left, moved, nonblock>>
    BY <1>3 DEF MCUartVars, vars, hwVars, polledOnly
  <2>3. PolledInv'
    BY <2>1, <2>2 DEF PolledInv, Polled!TypeOK, Polled!HwTypeOK, rings
  <2>4. TxStreamStep /\ RxStreamStep
    BY <2>2, TxStill, RxStill DEF TxPipe, RxPipe, rings
  <2>5. QED
    BY <1>3, <2>1, <2>3, <2>4 DEF MCInv
<1>4. QED
  BY <1>1, <1>2, <1>3, UartSteps DEF MCUartNext

LEMMA BothHold == MCSpec => []MCInv
<1>1. MCInit => MCInv
  BY BothInit
<1>2. MCInv /\ [MCNext]_MCVars => MCInv'
  BY BothStep
<1>3. QED
  BY <1>1, <1>2, PTL DEF MCSpec

(* The rings' indices, the FIFOs, the enables and the locals of a call     *)
(* keep their ranges, in either driver.                                    *)
THEOREM UartTypeCorrect == MCSpec => []UartTypeOK
<1>1. MCInv => UartTypeOK
  BY DEF MCInv, UartTypeOK, PolledInv, DriverInv
<1>2. QED
  BY <1>1, BothHold, PTL

(* No lost wake-up of the interrupt-driven driver, in either direction.    *)
THEOREM NoneStrandedHolds == MCSpec => []NoneStranded
<1>1. MCInv => NoneStranded
  BY DEF MCInv, NoneStranded, DriverInv
<1>2. QED
  BY <1>1, BothHold, PTL

(* A call that waits compares with an index that is stale only in the way  *)
(* that ends the wait, although both indices wrap.                         *)
THEOREM WaitIsJustifiedHolds == MCSpec => []WaitIsJustified
<1>1. MCInv => WaitIsJustified
  <2>1. CASE use = "polled"
    BY <2>1 DEF MCInv, PolledInv, Polled!TypeOK, WaitIsJustified
  <2>2. CASE use # "polled"
    BY <2>2, WaitsJustly DEF MCInv
  <2>3. QED
    BY <2>1, <2>2
<1>2. QED
  BY <1>1, BothHold, PTL

(* Either driver is a byte stream from the program to the host and another *)
(* one back.                                                               *)
THEOREM AreStreamsHolds == MCSpec => AreStreams
<1>1. MCInit => Tx!StreamInit /\ Rx!StreamInit
  BY BothInit
<1>2. MCInv /\ [MCNext]_MCVars => TxStreamStep /\ RxStreamStep
  BY BothStep
<1>3. QED
  BY <1>1, <1>2, BothHold, PTL
     DEF MCSpec, AreStreams, TxIsAStream, RxIsAStream, Tx!StreamSpec, Rx!StreamSpec,
         TxStreamStep, RxStreamStep
=============================================================================
