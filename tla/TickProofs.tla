------------------------------ MODULE TickProofs ------------------------------
(***************************************************************************)
(* Theorems about what interrupts and the timer's tick disturb: interrupt  *)
(* dispatch, the start of a program, the time of day, the timestamp, the   *)
(* busy sleep, the alarms and the log's port, each as MCTicks instantiates *)
(* it, and then of all of them as MCTicks composes them, for every value   *)
(* of its constants that TicksAssumption allows.  Each section is about    *)
(* one part: the inductive invariant, one lemma for each of its actions,   *)
(* and the theorems.                                                       *)
(***************************************************************************)
EXTENDS MCTicks, WellFoundedInduction, FiniteSetTheorems, FunctionTheorems,
        SequenceTheorems, TLAPS

-----------------------------------------------------------------------------
\* Division with remainder: the quotient and the remainder are what fits.
LEMMA Division ==
  ASSUME NEW d \in Nat \ {0}, NEW x \in Int
  PROVE  /\ x \div d \in Int /\ x % d \in 0 .. d - 1
         /\ x = (d * (x \div d)) + (x % d)
  BY SMT

\* And what fits is the quotient and the remainder.
LEMMA Quotient ==
  ASSUME NEW d \in Nat \ {0}, NEW q \in Int, NEW r \in 0 .. d - 1
  PROVE  (d * q + r) \div d = q /\ (d * q + r) % d = r
  BY SMT

\* Of some numbers, one is the smallest.
LEMMA SmallestOf ==
  ASSUME NEW X \in SUBSET Nat, X # {}
  PROVE  \E x \in X : \A y \in X : x <= y
<1> DEFINE Below == {p \in Nat \X Nat : p[1] < p[2]}
<1>1. OpToRel(<, Nat) = Below
  BY Zenon DEF OpToRel
<1>2. IsWellFoundedOn(Below, Nat)
  BY <1>1, NatLessThanWellFounded, Zenon
<1>3. PICK x \in X : \A y \in X : ~ (<<y, x>> \in Below)
  <2> HIDE DEF Below
  <2> QED BY <1>2, WFMin, Zenon
<1>4. ASSUME NEW y \in X PROVE x <= y
  <2>1. ~ (<<y, x>> \in Below)
    BY <1>3
  <2>2. y < x => <<y, x>> \in Below
    OBVIOUS
  <2> QED BY <2>1, <2>2
<1> QED
  BY <1>4

-----------------------------------------------------------------------------
\* TimeOfDay.tla.

\* What a count of ticks is in microseconds, by its seconds and the rest.
LEMMA Converted ==
  ASSUME NEW per \in Nat \ {0}, NEW r \in Nat \ {0}, US = r * per, NEW n \in Nat
  PROVE  /\ ((n \div r) * US) + ((n * per) % US) = n * per
         /\ (n * per) % US \in 0 .. US - 1 /\ n \div r \in Nat
<1> DEFINE q == n \div r
           k == n % r
<1>1. q \in Int /\ k \in 0 .. r - 1 /\ n = (r * q) + k
  BY Division
<1> HIDE DEF q, k
<1>2. q \in Nat
  <2>1. q <= -1 => r * q <= -r
    BY <1>1, SMT
  <2> DEFINE p == r * q
  <2>2. p \in Int
    BY <1>1, SMT
  <2> HIDE DEF p
  <2>3. QED
    BY <1>1, <2>1, <2>2, SMT DEF p
<1>3. k * per \in 0 .. US - 1 /\ US \in Nat \ {0}
  <2>1. k + 1 <= r /\ k \in Nat
    BY <1>1, SMT
  <2>2. (k + 1) * per <= r * per
    BY <2>1, SMT
  <2>3. (k + 1) * per = k * per + per /\ k * per \in Nat /\ r * per \in Nat \ {0}
    BY <2>1, SMT
  <2> DEFINE e == k * per
             f == r * per
             g == (k + 1) * per
  <2>4. g <= f /\ g = e + per /\ e \in Nat /\ US = f /\ f \in Nat \ {0}
    BY <2>2, <2>3
  <2> HIDE DEF e, f, g
  <2>5. e \in 0 .. US - 1 /\ US \in Nat \ {0}
    BY <2>4, SMT
  <2>6. QED
    BY <2>5 DEF e
<1>4. n * per = (US * q) + (k * per)
  <2>1. n * per = ((r * q) + k) * per
    BY <1>1
  <2>2. ((r * q) + k) * per = ((r * q) * per) + (k * per)
    BY <1>1, SMT
  <2>3. (r * q) * per = (r * per) * q
    BY <1>1, SMT
  <2>4. QED
    BY <2>1, <2>2, <2>3
<1>5. ((US * q) + (k * per)) % US = k * per
  <2> DEFINE e == k * per
  <2>1. e \in 0 .. US - 1
    BY <1>3
  <2> HIDE DEF e
  <2>2. ((US * q) + e) % US = e
    BY <1>1, <1>3, <2>1, Quotient
  <2>3. QED
    BY <2>2 DEF e
<1>6. q * US = US * q
  BY <1>1, <1>3, SMT
<1>7. QED
  BY <1>2, <1>3, <1>4, <1>5, <1>6 DEF q

ClockTyped ==
  /\ dayTicks \in 0 .. MaxTicks /\ tickRate \in Rates \cup {0}
  /\ resettime \in [sec : Int, usec : Int]
  /\ resettime.usec \in 1 - US .. US - 1
  /\ setTo \in Nat /\ setAt \in 0 .. dayTicks

\* The time of reset is what the clock was set to less the time until then.
ClockSet ==
  IF tickRate = 0 THEN dayTicks = 0 /\ resettime = [sec |-> 0, usec |-> 0] /\ setTo = 0
  ELSE resettime.sec * US + resettime.usec = setTo - setAt * Clock!PerTick

ClockInv == ClockTyped /\ ClockSet

\* Ticks of a clock that runs, in either of the two conversions.
LEMMA TicksInTime ==
  ASSUME Clock!TimeAssumption, WholeTicks, NEW r \in Rates, tickRate = r, dayTicks \in 0 .. MaxTicks
  PROVE  /\ Clock!PerTick \in Nat \ {0} /\ r \in Nat \ {0} /\ dayTicks \in Nat
         /\ (dayTicks \div tickRate) * US + Clock!TicksRead = dayTicks * Clock!PerTick
         /\ Clock!TicksSet = Clock!TicksRead
         /\ Clock!TicksRead \in 0 .. US - 1 /\ dayTicks \div tickRate \in Nat
<1> DEFINE per == Clock!PerTick
<1>1. US \in Nat \ {0} /\ r \in 1 .. US /\ TickWord \in Nat \ {0} /\ MaxTicks \in Nat
  BY SMT DEF Clock!TimeAssumption
<1>2. r \in Nat \ {0} /\ dayTicks \in Nat /\ dayTicks <= MaxTicks
  BY <1>1, SMT
<1>3. per = US \div r /\ per \in Int /\ US = r * per
  <2>1. US \div r \in Int /\ US = (r * (US \div r)) + (US % r) /\ US % r = 0
    BY <1>1, <1>2, Division DEF WholeTicks
  <2>2. r * (US \div r) \in Int
    BY <1>2, <2>1, SMT
  <2> DEFINE e == r * (US \div r)
  <2>3. e \in Int /\ US = e + 0
    BY <2>1, <2>2
  <2> HIDE DEF e
  <2>4. US = e
    BY <2>3, SMT
  <2>5. QED
    BY <2>1, <2>4 DEF e, Clock!PerTick
<1>4. MaxTicks * per < TickWord
  BY <1>3 DEF WholeTicks
<1> HIDE DEF per
<1>5. per \in Nat \ {0}
  <2>1. per <= 0 => r * per <= 0
    BY <1>2, <1>3, SMT
  <2>2. ~(US <= 0)
    BY <1>1, SMT
  <2>3. ~(per <= 0)
    BY <1>3, <2>1, <2>2
  <2>4. QED
    BY <1>3, <2>3, SMT
<1>6. /\ ((dayTicks \div r) * US) + ((dayTicks * per) % US) = dayTicks * per
      /\ (dayTicks * per) % US \in 0 .. US - 1 /\ dayTicks \div r \in Nat
  BY <1>2, <1>3, <1>5, Converted
<1>7. (dayTicks * per) % TickWord = dayTicks * per
  <2> DEFINE e == dayTicks * per
             f == MaxTicks * per
  <2>1. e \in Nat /\ e <= f /\ f \in Nat
    BY <1>1, <1>2, <1>5, SMT
  <2>2. f < TickWord
    BY <1>4
  <2> HIDE DEF e, f
  <2>3. e % TickWord = e
    BY <1>1, <2>1, <2>2, SMT
  <2>4. QED
    BY <2>3 DEF e
<1>8. QED
  BY <1>2, <1>5, <1>6, <1>7 DEF per, Clock!TicksRead, Clock!TicksSet

\* Of a clock that was set, the time is what it was set to plus the time
\* since, and is normalised: a borrow never finds no second to take.
LEMMA TimeRead ==
  ASSUME Clock!TimeAssumption, WholeTicks, ClockInv, tickRate # 0
  PROVE  /\ Clock!TimeOfDay.sec \in Nat /\ Clock!TimeOfDay.usec \in 0 .. US - 1
         /\ Clock!Total(Clock!TimeOfDay) = setTo + (dayTicks - setAt) * Clock!PerTick
<1> DEFINE per == Clock!PerTick
           q == dayTicks \div tickRate
           k == Clock!TicksRead
           b == [sec |-> resettime.sec + q, usec |-> resettime.usec + k]
           sum == setTo + (dayTicks - setAt) * per
           d == Clock!Borrowed(b)
<1>1. /\ per \in Nat \ {0} /\ dayTicks \in Nat /\ q * US + k = dayTicks * per
      /\ k \in 0 .. US - 1 /\ q \in Nat
  <2>1. PICK r \in Rates : tickRate = r /\ dayTicks \in 0 .. MaxTicks
    BY DEF ClockInv, ClockTyped
  <2>2. QED
    BY <2>1, TicksInTime
<1>2. /\ US \in Nat \ {0} /\ setTo \in Nat /\ setAt \in 0 .. dayTicks
      /\ resettime.sec \in Int /\ resettime.usec \in 1 - US .. US - 1
      /\ resettime.sec * US + resettime.usec = setTo - setAt * per
  BY SMT DEF Clock!TimeAssumption, ClockInv, ClockTyped, ClockSet
<1>3. Clock!TimeOfDay = Clock!Carried(Clock!Borrowed(b))
  BY DEF Clock!TimeOfDay
<1>4. b.sec \in Int /\ b.usec \in 1 - US .. (US + US) - 2 /\ b.sec * US + b.usec = sum /\ sum \in Nat
  <2> DEFINE s == resettime.sec
             u == resettime.usec
             e == s * US
             f == q * US
             g == (s + q) * US
             x == setAt * per
             y == dayTicks * per
             z == (dayTicks - setAt) * per
  <2>1. s \in Int /\ u \in 1 - US .. US - 1
    BY <1>2
  <2> HIDE DEF k, q, s, u
  <2>2. g = e + f /\ e \in Int /\ f \in Int
    BY <1>1, <1>2, <2>1, SMT
  <2>3. z = y - x /\ z \in Nat /\ x \in Int /\ y \in Int
    BY <1>1, <1>2, SMT
  <2>4. e + u = setTo - x /\ f + k = y
    BY <1>1, <1>2 DEF s, u
  <2> HIDE DEF e, f, g, x, y, z
  <2>5. g + (u + k) = setTo + z /\ setTo + z \in Nat
    BY <1>1, <1>2, <2>1, <2>2, <2>3, <2>4, SMT
  <2>6. u + k \in 1 - US .. (US + US) - 2 /\ s + q \in Int
    BY <1>1, <1>2, <2>1, SMT
  <2>7. b.sec = s + q /\ b.usec = u + k
    BY DEF s, u
  <2>8. QED
    BY <2>5, <2>6, <2>7 DEF g, z
<1> HIDE DEF sum
<1>5. d.sec \in Int /\ d.usec \in 0 .. (US + US) - 2 /\ d.sec * US + d.usec = sum
  <2> DEFINE s == b.sec
             u == b.usec
             e == s * US
             f == (s - 1) * US
  <2>1. s \in Int /\ u \in 1 - US .. (US + US) - 2 /\ e + u = sum
    BY <1>4
  <2>2. b = [sec |-> s, usec |-> u]
    OBVIOUS
  <2> HIDE DEF b, s, u
  <2>3. e \in Int /\ f = e - US /\ (s <= 0 => e <= 0)
    BY <1>2, <2>1, SMT
  <2> HIDE DEF e, f
  <2>4. CASE u >= 0
    <3>1. d = [sec |-> s, usec |-> u]
      BY <2>2, <2>4 DEF Clock!Borrowed
    <3>2. u \in 0 .. (US + US) - 2
      BY <1>2, <2>1, <2>4, SMT
    <3>3. QED
      BY <2>1, <3>1, <3>2 DEF e
  <2>5. CASE ~(u >= 0)
    <3>1. ~(s <= 0)
      BY <1>2, <1>4, <2>1, <2>3, <2>5, SMT
    <3>2. d = [sec |-> s - 1, usec |-> u + US]
      BY <2>2, <2>5, <3>1 DEF Clock!Borrowed
    <3>3. u + US \in 0 .. (US + US) - 2 /\ s - 1 \in Int
      BY <1>2, <2>1, <2>5, SMT
    <3>4. f + (u + US) = sum
      BY <1>2, <2>1, <2>3, SMT
    <3>5. QED
      BY <3>2, <3>3, <3>4 DEF f
  <2>6. QED
    BY <2>4, <2>5
<1>6. /\ Clock!Carried(d).sec \in Nat /\ Clock!Carried(d).usec \in 0 .. US - 1
      /\ Clock!Carried(d).sec * US + Clock!Carried(d).usec = sum
  <2> DEFINE s == d.sec
             u == d.usec
             e == s * US
             f == (s + 1) * US
  <2>1. s \in Int /\ u \in 0 .. (US + US) - 2 /\ e + u = sum
    BY <1>5
  <2> HIDE DEF d, s, u
  <2>2. e \in Int /\ f = e + US /\ f \in Int /\ (s <= -1 => e <= -US) /\ (s <= -2 => f <= -US)
    BY <1>2, <2>1, SMT
  <2> HIDE DEF e, f
  <2>3. CASE u < US
    <3>1. Clock!Carried(d) = d
      BY <2>3 DEF Clock!Carried, u
    <3>2. ~(s <= -1) /\ u \in 0 .. US - 1
      BY <1>2, <1>4, <2>1, <2>2, <2>3, SMT
    <3>3. s \in Nat
      BY <2>1, <3>2, SMT
    <3>4. QED
      BY <2>1, <3>1, <3>2, <3>3 DEF s, u, e
  <2>4. CASE ~(u < US)
    <3>1. u \div US = 1 /\ u % US = u - US
      <4>1. u = (US * 1) + (u - US) /\ u - US \in 0 .. US - 1
        BY <1>2, <2>1, <2>4, SMT
      <4> DEFINE rest == u - US
      <4>2. rest \in 0 .. US - 1 /\ u = (US * 1) + rest /\ 1 \in Int
        BY <4>1, SMT
      <4> HIDE DEF rest
      <4>3. ((US * 1) + rest) \div US = 1 /\ ((US * 1) + rest) % US = rest
        BY <1>2, <4>2, Quotient
      <4>4. QED
        BY <4>2, <4>3 DEF rest
    <3>2. Clock!Carried(d) = [sec |-> s + 1, usec |-> u - US]
      BY <2>4, <3>1 DEF Clock!Carried, s, u
    <3>3. ~(s <= -2) /\ u - US \in 0 .. US - 1 /\ f + (u - US) = sum
      BY <1>2, <1>4, <2>1, <2>2, <2>4, SMT
    <3>4. s + 1 \in Nat
      BY <2>1, <3>3, SMT
    <3>5. QED
      BY <3>2, <3>3, <3>4 DEF f
  <2>5. QED
    BY <2>3, <2>4
<1>7. QED
  BY <1>3, <1>6 DEF sum, Clock!Total

LEMMA ClockStep ==
  ASSUME Clock!TimeAssumption, WholeTicks, ClockInv, [Clock!Next]_(Clock!vars)
  PROVE  ClockInv'
<1>1. MaxTicks \in Nat /\ US \in Nat \ {0} /\ Rates \subseteq 1 .. US
  BY SMT DEF Clock!TimeAssumption
<1>2. /\ dayTicks \in 0 .. MaxTicks /\ tickRate \in Rates \cup {0}
      /\ resettime \in [sec : Int, usec : Int] /\ resettime.usec \in 1 - US .. US - 1
      /\ setTo \in Nat /\ setAt \in 0 .. dayTicks
  BY DEF ClockInv, ClockTyped
<1>3. ASSUME Clock!Tick
      PROVE  ClockInv'
  <2>1. /\ tickRate # 0 /\ dayTicks < MaxTicks /\ dayTicks' = dayTicks + 1
        /\ UNCHANGED <<tickRate, resettime, setTo, setAt>>
    BY <1>3 DEF Clock!Tick
  <2>2. dayTicks' \in 0 .. MaxTicks /\ setAt \in 0 .. dayTicks'
    BY <1>1, <1>2, <2>1, SMT
  <2>3. QED
    BY <1>2, <2>1, <2>2 DEF ClockInv, ClockTyped, ClockSet, Clock!PerTick
<1>4. ASSUME NEW f \in Rates, Clock!SysclkInit(f)
      PROVE  ClockInv'
  <2>1. /\ tickRate = 0 /\ tickRate' = f /\ UNCHANGED <<dayTicks, resettime, setTo, setAt>>
    BY <1>4 DEF Clock!SysclkInit
  <2>2. ClockTyped'
    BY <1>2, <2>1 DEF ClockTyped
  <2>3. f # 0 /\ f \in Nat
    BY <1>1, SMT
  <2>4. dayTicks = 0 /\ resettime = [sec |-> 0, usec |-> 0] /\ setTo = 0 /\ setAt = 0
    <3>1. dayTicks = 0 /\ resettime = [sec |-> 0, usec |-> 0] /\ setTo = 0
      BY <2>1 DEF ClockInv, ClockSet
    <3>2. setAt = 0
      BY <1>2, <3>1, SMT
    <3>3. QED
      BY <3>1, <3>2
  <2>5. 0 * US + 0 = 0 /\ 0 - 0 * (Clock!PerTick)' = 0
    <3>1. (Clock!PerTick)' \in Int
      <4>1. US \div f \in Int
        BY <1>1, <2>3, Division
      <4>2. QED
        BY <2>1, <4>1 DEF Clock!PerTick
    <3>2. ASSUME NEW x \in Int, NEW y \in Int
          PROVE  0 * x + 0 = 0 /\ 0 - 0 * y = 0
      OBVIOUS
    <3>3. US \in Int
      BY <1>1
    <3>4. QED
      BY <3>1, <3>2, <3>3, Zenon
  <2>6. ClockSet'
    BY <2>1, <2>3, <2>4, <2>5 DEF ClockSet
  <2>7. QED
    BY <2>2, <2>6 DEF ClockInv
<1>5. ASSUME NEW t \in Clock!Times, Clock!SetTimeOfDay(t)
      PROVE  ClockInv'
  <2> DEFINE per == Clock!PerTick
             q == dayTicks \div tickRate
             k == Clock!TicksSet
  <2>1. /\ tickRate # 0
        /\ resettime' = [sec |-> t.sec - q, usec |-> t.usec - k]
        /\ setTo' = Clock!Total(t) /\ setAt' = dayTicks /\ UNCHANGED <<dayTicks, tickRate>>
    BY <1>5 DEF Clock!SetTimeOfDay
  <2>2. t.sec \in Nat /\ t.usec \in 0 .. US - 1
    BY SMT DEF Clock!Times, Clock!TimeAssumption
  <2>3. /\ per \in Nat \ {0} /\ dayTicks \in Nat /\ q * US + k = dayTicks * per
        /\ k \in 0 .. US - 1 /\ q \in Nat
    <3>1. PICK r \in Rates : tickRate = r
      BY <1>2, <2>1
    <3>2. QED
      BY <1>2, <3>1, TicksInTime
  <2>4. (Clock!PerTick)' = per
    BY <2>1 DEF Clock!PerTick
  <2>5. Clock!Total(t) = t.sec * US + t.usec
    BY DEF Clock!Total
  <2> DEFINE s == t.sec
             u == t.usec
             e == s * US
             f == q * US
             g == (s - q) * US
             y == dayTicks * per
  <2>6. s \in Nat /\ u \in 0 .. US - 1 /\ f + k = y
    BY <2>2, <2>3
  <2> HIDE DEF k, q, s, u, per
  <2>7. g = e - f /\ e \in Nat /\ f \in Int /\ y \in Int
    BY <1>1, <2>3, <2>6, SMT
  <2> HIDE DEF e, f, g, y
  <2>8. g + (u - k) = (e + u) - y /\ e + u \in Nat
    BY <1>1, <2>3, <2>6, <2>7, SMT
  <2>9. u - k \in 1 - US .. US - 1 /\ s - q \in Int /\ u - k \in Int
    BY <1>1, <2>3, <2>6, SMT
  <2>10. resettime' = [sec |-> s - q, usec |-> u - k] /\ setTo' = e + u
    BY <2>1, <2>5 DEF s, u, e
  <2>11. dayTicks \in 0 .. dayTicks
    BY <2>3, SMT
  <2>12. ClockTyped'
    BY <1>2, <2>1, <2>8, <2>9, <2>10, <2>11 DEF ClockTyped
  <2>13. ClockSet'
    <3>1. resettime'.sec * US + resettime'.usec = g + (u - k)
      BY <2>10 DEF g
    <3>2. setTo' - setAt' * (Clock!PerTick)' = (e + u) - y
      BY <2>1, <2>4, <2>10 DEF y
    <3>3. QED
      BY <2>1, <2>8, <3>1, <3>2 DEF ClockSet
  <2>14. QED
    BY <2>12, <2>13 DEF ClockInv
<1>6. CASE UNCHANGED Clock!vars
  BY <1>6 DEF Clock!vars, ClockInv, ClockTyped, ClockSet, Clock!PerTick
<1>7. QED
  BY <1>3, <1>4, <1>5, <1>6 DEF Clock!Next

\* The time of day is what it was set to plus the time since, to the
\* microsecond, and both of its conversions agree.
THEOREM ReadsElapsedHolds ==
  ASSUME Clock!TimeAssumption, WholeTicks
  PROVE  Clock!Spec => [](Clock!TypeOK /\ Clock!ReadsElapsed)
<1>1. Clock!Init => ClockInv
  <2>1. ASSUME Clock!Init
        PROVE  ClockInv
    <3>1. 0 \in 0 .. MaxTicks /\ 0 \in 1 - US .. US - 1 /\ 0 \in 0 .. 0
      BY SMT DEF Clock!TimeAssumption
    <3>2. QED
      BY <2>1, <3>1 DEF Clock!Init, ClockInv, ClockTyped, ClockSet
  <2>2. QED
    BY <2>1
<1>2. ClockInv /\ [Clock!Next]_(Clock!vars) => ClockInv'
  BY ClockStep
<1>3. ClockInv => Clock!TypeOK /\ Clock!ReadsElapsed
  BY TimeRead DEF ClockInv, ClockTyped, Clock!TypeOK, Clock!ReadsElapsed
<1>4. QED
  BY <1>1, <1>2, <1>3, PTL DEF Clock!Spec

-----------------------------------------------------------------------------
\* BusySleep.tla.

LEMMA Units ==
  ASSUME Sleep!SleepAssumption
  PROVE  /\ Sleep!PerUs \in Nat \ {0} /\ Sleep!Unit \in Nat \ {0} /\ CountMax \in Nat \ {0}
         /\ Sleep!Unit * Sleep!PerUs <= CountMax /\ LoopWord = CountMax + CountMax + 2
         /\ Sleep!PerUs * CyclesPerLoop = CyclesPerUs - Sleep!Dropped
         /\ CyclesPerUs - Sleep!Dropped \in Nat
<1> DEFINE per == Sleep!PerUs
           unit == Sleep!Unit
<1>1. /\ CyclesPerUs \in Nat /\ CyclesPerLoop \in Nat \ {0} /\ CyclesPerLoop <= CyclesPerUs
      /\ CountMax \in Nat /\ LoopWord = CountMax + CountMax + 2
  BY SMT DEF Sleep!SleepAssumption
<1>2. per \in Int /\ CyclesPerUs = (CyclesPerLoop * per) + (CyclesPerUs % CyclesPerLoop)
      /\ CyclesPerUs % CyclesPerLoop \in 0 .. CyclesPerLoop - 1
  BY <1>1, Division DEF Sleep!PerUs
<1> HIDE DEF per
<1>3. per \in Nat \ {0}
  <2> DEFINE e == CyclesPerLoop * per
  <2>1. e \in Int /\ (per <= 0 => e <= 0)
    BY <1>1, <1>2, SMT
  <2> HIDE DEF e
  <2>2. CyclesPerUs = e + (CyclesPerUs % CyclesPerLoop)
    BY <1>2 DEF e
  <2>3. e > 0
    BY <1>1, <1>2, <2>1, <2>2, SMT
  <2>4. QED
    BY <1>2, <2>1, <2>3, SMT
<1>4. per <= CountMax
  BY DEF Sleep!SleepAssumption, per, Sleep!PerUs
<1>5. unit \in Int /\ CountMax = (per * unit) + (CountMax % per) /\ CountMax % per \in 0 .. per - 1
  BY <1>1, <1>3, Division DEF Sleep!Unit, per
<1> HIDE DEF unit
<1>6. unit \in Nat \ {0} /\ unit * per <= CountMax
  <2> DEFINE e == per * unit
  <2>1. e \in Int /\ (unit <= 0 => e <= 0) /\ unit * per = e
    BY <1>3, <1>5, SMT
  <2> HIDE DEF e
  <2>2. CountMax = e + (CountMax % per)
    BY <1>5 DEF e
  <2>3. e > 0 /\ e <= CountMax
    BY <1>1, <1>3, <1>4, <1>5, <2>1, <2>2, SMT
  <2>4. QED
    BY <1>5, <2>1, <2>3, SMT
<1>7. per * CyclesPerLoop = CyclesPerUs - Sleep!Dropped /\ CyclesPerUs - Sleep!Dropped \in Nat
  <2> DEFINE e == CyclesPerLoop * per
             d == CyclesPerUs % CyclesPerLoop
  <2>1. e \in Nat /\ per * CyclesPerLoop = e
    BY <1>1, <1>3, SMT
  <2>2. CyclesPerUs = e + d /\ d \in Nat
    BY <1>1, <1>2
  <2> HIDE DEF e, d
  <2>3. CyclesPerUs - d = e
    BY <2>1, <2>2, SMT
  <2>4. QED
    BY <2>1, <2>3 DEF d, Sleep!Dropped
<1>8. CountMax \in Nat \ {0}
  BY <1>1, <1>3, <1>4, SMT
<1>9. QED
  BY <1>1, <1>3, <1>6, <1>7, <1>8 DEF per, unit

\* The loops done so far make up for what is no longer left of the delay.
SleepInv ==
  /\ delay \in Delays /\ big \in Nat /\ us \in Nat
  /\ us \in big * Sleep!Unit .. ((big + 1) * Sleep!Unit) - 1 /\ long \in BOOLEAN /\ reloads \in Reloads
  /\ register \in {0, CountMax} /\ sleep \in {"sleep", "awake"} /\ loops \in Nat
  /\ sleep = "sleep" => loops >= (delay - us) * Sleep!PerUs
  /\ sleep = "awake" => loops >= delay * Sleep!PerUs

LEMMA SleepStarts ==
  ASSUME Sleep!SleepAssumption, Sleep!Init
  PROVE  SleepInv
<1> DEFINE unit == Sleep!Unit
           q == delay \div unit
<1>1. unit \in Nat \ {0} /\ Sleep!PerUs \in Nat \ {0} /\ delay \in Delays /\ delay \in Nat
  <2>1. delay \in Delays /\ Delays \subseteq 0 .. LoopWord - 1
    BY DEF Sleep!Init, Sleep!SleepAssumption
  <2>2. delay \in Nat
    BY <2>1, SMT
  <2>3. QED
    BY <2>1, <2>2, Units
<1> HIDE DEF unit
<1>2. q \in Int /\ delay = (unit * q) + (delay % unit) /\ delay % unit \in 0 .. unit - 1
  BY <1>1, Division
<1>3. us = delay /\ big = q /\ long = (big # 0) /\ reloads \in Reloads
      /\ register = CountMax /\ sleep = "sleep" /\ loops = 0
  BY DEF Sleep!Init, unit
<1> HIDE DEF q
<1>4. big \in Nat /\ us \in big * unit .. ((big + 1) * unit) - 1
  <2> DEFINE e == unit * q
             f == q * unit
             g == (q + 1) * unit
  <2>1. e \in Int /\ f = e /\ g = e + unit /\ (q <= -1 => e <= -unit)
    BY <1>1, <1>2, SMT
  <2>2. delay = e + (delay % unit)
    BY <1>2
  <2> HIDE DEF e, f, g
  <2>3. ~(q <= -1) /\ delay \in f .. g - 1
    BY <1>1, <1>2, <2>1, <2>2, SMT
  <2>4. q \in Nat
    BY <1>2, <2>3, SMT
  <2>5. QED
    BY <1>3, <2>3, <2>4 DEF f, g
<1>5. 0 >= (delay - delay) * Sleep!PerUs
  <2>1. \A x \in Nat, y \in Nat : 0 >= (x - x) * y
    BY SMT
  <2>2. QED
    BY <1>1, <2>1
<1>6. long \in BOOLEAN
  BY <1>3
<1>7. QED
  BY <1>1, <1>3, <1>4, <1>5, <1>6 DEF SleepInv, unit

LEMMA SleepStep ==
  ASSUME Sleep!SleepAssumption, SleepInv, [Sleep!Next]_(Sleep!vars)
  PROVE  SleepInv'
<1> DEFINE unit == Sleep!Unit
           per == Sleep!PerUs
<1>1. /\ per \in Nat \ {0} /\ unit \in Nat \ {0} /\ CountMax \in Nat \ {0}
      /\ unit * per <= CountMax /\ LoopWord = CountMax + CountMax + 2
  BY Units
<1>2. delay \in Nat
  <2>1. delay \in Delays /\ Delays \subseteq 0 .. LoopWord - 1
    BY DEF SleepInv, Sleep!SleepAssumption
  <2>2. QED
    BY <2>1, SMT
<1>3. /\ delay \in Delays /\ big \in Nat /\ us \in Nat
      /\ us \in big * unit .. ((big + 1) * unit) - 1 /\ long \in BOOLEAN /\ reloads \in Reloads
      /\ register \in {0, CountMax} /\ loops \in Nat
      /\ sleep = "sleep" => loops >= (delay - us) * per
  BY DEF SleepInv
<1>4. ASSUME Sleep!BigLoop
      PROVE  SleepInv'
  <2>1. /\ sleep = "sleep" /\ big > 0 /\ loops' = loops + Sleep!UntilZero(register)
        /\ register' = IF reloads THEN CountMax ELSE 0
        /\ big' = big - 1 /\ us' = us - unit
        /\ UNCHANGED <<delay, long, reloads, sleep>>
    BY <1>4 DEF Sleep!BigLoop, Sleep!LeftOver
  <2> HIDE DEF unit, per
  <2> DEFINE n == Sleep!UntilZero(register)
             e == big * unit
             f == (big + 1) * unit
             g == (big - 1) * unit
             h == ((big - 1) + 1) * unit
             x == (delay - us) * per
             y == (delay - (us - unit)) * per
             z == unit * per
  <2>2. n \in Nat /\ n >= z
    <3>1. n = IF register = 0 THEN LoopWord ELSE register
      BY DEF Sleep!UntilZero
    <3>2. z \in Int /\ z <= CountMax
      BY <1>1, SMT
    <3> HIDE DEF n, z
    <3>3. QED
      BY <1>1, <1>3, <3>1, <3>2, SMT
  <2>3. e \in Int /\ f = e + unit /\ g = e - unit /\ h = e /\ g >= 0
    <3>1. e \in Int /\ f = e + unit /\ g = e - unit /\ h = e
      BY <1>1, <1>3, SMT
    <3>2. g >= 0
      BY <1>1, <1>3, <2>1, SMT
    <3>3. QED
      BY <3>1, <3>2
  <2>4. x \in Int /\ z \in Int /\ y = x + z
    BY <1>1, <1>2, <1>3, SMT
  <2>5. us \in e .. f - 1 /\ loops >= x
    BY <1>3, <2>1
  <2> HIDE DEF n, e, f, g, h, x, y, z
  <2>6. us - unit \in g .. h - 1 /\ us - unit \in Nat /\ loops + n >= y /\ loops + n \in Nat
    BY <1>1, <1>3, <2>2, <2>3, <2>4, <2>5, SMT
  <2>7. /\ big' \in Nat /\ us' \in Nat /\ us' \in big' * unit .. ((big' + 1) * unit) - 1
        /\ loops' \in Nat /\ loops' >= (delay' - us') * per
    <3>1. big - 1 \in Nat
      BY <1>3, <2>1, SMT
    <3>2. QED
      BY <2>1, <2>6, <3>1 DEF n, g, h, y
  <2>8. register' \in {0, CountMax}
    BY <2>1
  <2>9. QED
    BY <1>3, <2>1, <2>7, <2>8 DEF SleepInv, unit, per
<1>5. ASSUME Sleep!Rest
      PROVE  SleepInv'
  <2>1. /\ sleep = "sleep" /\ big = 0 /\ sleep' = "awake"
        /\ loops' = loops + (IF long THEN Sleep!UntilZero(Sleep!LastCount)
                                     ELSE Sleep!UntilNotPositive(Sleep!LastCount))
        /\ UNCHANGED <<delay, us, big, long, reloads, register>>
    BY <1>5 DEF Sleep!Rest
  <2>2. Sleep!LastCount = (us * per) % LoopWord
    BY DEF Sleep!LastCount
  <2> HIDE DEF unit, per
  <2> DEFINE c == us * per
             x == (delay - us) * per
             y == delay * per
             z == unit * per
  <2>3. us < unit
    <3>1. us \in 0 * unit .. ((0 + 1) * unit) - 1
      BY <1>3, <2>1
    <3>2. QED
      BY <1>1, <1>3, <3>1, SMT
  <2>4. c \in Nat /\ c <= z /\ z \in Int /\ x \in Int /\ y = x + c
    BY <1>1, <1>2, <1>3, <2>3, SMT
  <2>5. z <= CountMax /\ loops >= x /\ Sleep!LastCount = c % LoopWord
    BY <1>1, <1>3, <2>1, <2>2
  <2> HIDE DEF c, x, y, z
  <2>6. Sleep!LastCount = c
    BY <1>1, <2>4, <2>5, SMT
  <2> DEFINE m == IF long THEN Sleep!UntilZero(c) ELSE Sleep!UntilNotPositive(c)
  <2>7. m \in Nat /\ m >= c
    BY <1>1, <2>4, SMT DEF Sleep!UntilZero, Sleep!UntilNotPositive
  <2> HIDE DEF m
  <2>8. loops + m \in Nat /\ loops + m >= y
    BY <1>3, <2>4, <2>5, <2>7, SMT
  <2>9. loops' = loops + m
    BY <2>1, <2>6 DEF m
  <2>10. QED
    BY <1>3, <2>1, <2>8, <2>9 DEF SleepInv, unit, per, y
<1>6. CASE UNCHANGED Sleep!vars
  BY <1>6 DEF Sleep!vars, SleepInv
<1>7. QED
  BY <1>4, <1>5, <1>6 DEF Sleep!Next

\* No delay is cut short but by the cycles of each microsecond that no loop
\* fills, however long it is, on any core and clock, and whatever the compiler
\* makes of the loop that counts.
THEOREM SleepsOutLoops ==
  ASSUME Sleep!SleepAssumption
  PROVE  Sleep!Spec => [](Sleep!TypeOK /\ Sleep!ShortByDropped)
<1>1. Sleep!Init => SleepInv
  BY SleepStarts
<1>2. SleepInv /\ [Sleep!Next]_(Sleep!vars) => SleepInv'
  BY SleepStep
<1>3. SleepInv => Sleep!TypeOK /\ Sleep!ShortByDropped
  <2> SUFFICES ASSUME SleepInv PROVE Sleep!TypeOK /\ Sleep!ShortByDropped
    OBVIOUS
  <2>1. register \in 0 .. CountMax
    BY Units, SMT DEF SleepInv
  <2>2. Sleep!TypeOK
    BY <2>1 DEF SleepInv, Sleep!TypeOK
  <2>3. ASSUME sleep = "awake"
        PROVE  loops * CyclesPerLoop >= delay * (CyclesPerUs - Sleep!Dropped)
    <3> DEFINE per == Sleep!PerUs
    <3>1. /\ per \in Nat \ {0} /\ per * CyclesPerLoop = CyclesPerUs - Sleep!Dropped
          /\ CyclesPerLoop \in Nat \ {0}
      BY Units, SMT DEF Sleep!SleepAssumption
    <3>2. delay \in Nat /\ loops \in Nat /\ loops >= delay * per
      <4>1. delay \in Delays /\ Delays \subseteq 0 .. LoopWord - 1
        BY DEF SleepInv, Sleep!SleepAssumption
      <4>2. delay \in Nat
        BY <4>1, SMT
      <4>3. QED
        BY <2>3, <4>2 DEF SleepInv
    <3> HIDE DEF per
    <3>3. loops * CyclesPerLoop >= (delay * per) * CyclesPerLoop
      BY <3>1, <3>2, SMT
    <3>4. (delay * per) * CyclesPerLoop = delay * (per * CyclesPerLoop)
      BY <3>1, <3>2, SMT
    <3>5. QED
      BY <3>1, <3>3, <3>4
  <2>4. QED
    BY <2>2, <2>3 DEF Sleep!ShortByDropped
<1>4. QED
  BY <1>1, <1>2, <1>3, PTL DEF Sleep!Spec

-----------------------------------------------------------------------------
\* Interrupts.tla.

Registering ==
  [step : {"context", "enable", "restore"}, irq : Irqs!Irq, handler : Handler \cup {Null},
   saved : BOOLEAN]
Registered == [handler : Handler \cup {Null}, context : Handler \cup {Null}]
Places == {"run", "test", "entry", "unknown", "isr", "again", "exit", "spin", "stopped"}
Activation ==
  [at : Places, cause : {"reset", "interrupt", "fault"}, epie : BOOLEAN,
   back : {"this", "next"}, irq : Nat, entry : Registered, served : BOOLEAN,
   old : {<<>>} \cup {<<m>> : m \in SUBSET Irqs!Irq}, saved : Seq(BOOLEAN),
   call : {Irqs!NoCall} \cup Registering]

\* An activation lets interrupts in unless a critical section keeps them off.
LetsIn(f) == f.at = "run" \/ f.old # <<>>
Enables(f) == LetsIn(f) /\ f.saved = <<>> /\ f.call = Irqs!NoCall

\* Only the outermost of nested sections has enabled interrupts to restore.
Restores(f) ==
  /\ \A n \in 1 .. Len(f.saved) : f.saved[n] <=> LetsIn(f) /\ n = 1
  /\ f.call # Irqs!NoCall => (f.call.saved <=> LetsIn(f) /\ f.saved = <<>>)

\* What the entry found, and what the dispatch loop called.
Came(f) ==
  /\ f.cause = "interrupt" \/ f.at \in {"entry", "isr", "again", "spin"} => f.epie
  /\ f.old # <<>> => f.at = "isr"
  /\ f.saved # <<>> \/ f.call # Irqs!NoCall => f.at \in {"run", "isr"}
  /\ f.at = "isr" => /\ f.irq \in Irqs!Irq
                     /\ f.entry.handler # Null /\ f.entry.context = f.entry.handler
  /\ f.cause = "reset" => f.at = "run"
  /\ f.back = "next" => f.cause = "fault" \/ (f.at \in {"unknown", "stopped"} /\ Retracts)
                        \/ (f.at = "exit" /\ Retracts /\ ~ExtraInfo)

Sound(f) == f \in Activation /\ Restores(f) /\ Came(f)

\* Every activation but the last is a handler that something came upon, outside
\* of a call.
Stacked ==
  /\ stack \in Seq(Activation) /\ Len(stack) >= 1
  /\ \A n \in 1 .. Len(stack) : Sound(stack[n]) /\ (stack[n].at = "run" <=> n = 1)
  /\ \A n \in 1 .. Len(stack) - 1 :
       /\ stack[n].at \in {"run", "isr"} /\ stack[n].call = Irqs!NoCall
       /\ stack[n + 1].epie <=> Enables(stack[n])
  /\ pie <=> Enables(Irqs!Top)

\* What is active has a handler with its own context, but for the one that is
\* being entries.
TableSound(entries, live, c) ==
  /\ \A q \in Irqs!Irq : \/ entries[q].context = entries[q].handler
                         \/ c.step = "context" /\ c.irq = q
  /\ \A q \in live : \/ entries[q].handler # Null
                     \/ c.step \in {"context", "enable"} /\ c.irq = q
  /\ c # Irqs!NoCall => entries[c.irq].handler = c.handler

RegistersTyped ==
  /\ pie \in BOOLEAN /\ ienable \subseteq active /\ active \subseteq Irqs!Irq /\ mask \subseteq Irqs!Irq
  /\ table \in [Irqs!Irq -> Registered] /\ raised \subseteq Irqs!Irq
  /\ raises \in 0 .. MaxRaises /\ faults \in 0 .. MaxFaults

\* A request that an interrupt came with stays, if devices do not negate it.
NotGone ==
  Irqs!Top.at = "test" /\ Irqs!Top.cause = "interrupt" => Retracts \/ Irqs!Pending # {}

IrqInv == RegistersTyped /\ Stacked /\ TableSound(table, active, Irqs!Top.call) /\ NotGone

-----------------------------------------------------------------------------
LEMMA NotRegistering ==
  /\ Irqs!NoCall.step = "none"
  /\ \A c \in Registering : c # Irqs!NoCall /\ c.step \in {"context", "enable", "restore"}
<1>1. Irqs!NoCall.step = "none"
  BY DEF Irqs!NoCall
<1>2. \A c \in Registering : c.step \in {"context", "enable", "restore"}
  BY DEF Registering
<1>3. QED
  BY <1>1, <1>2

LEMMA NoElements ==
  ASSUME NEW E, NEW s \in Seq(E)
  PROVE  s = <<>> <=> Len(s) = 0
OBVIOUS

\* A step that changes the last activation.
LEMMA TopChanged ==
  ASSUME Stacked, NEW f, Sound(f), stack' = Irqs!WithTop(f),
         f.at = "run" <=> Irqs!Top.at = "run", f.epie = Irqs!Top.epie,
         pie' <=> Enables(f)
  PROVE  /\ Stacked' /\ Irqs!Top' = f /\ Len(stack') = Len(stack)
<1> DEFINE n == Len(stack)
<1>1. n \in Nat /\ n >= 1 /\ stack \in Seq(Activation) /\ f \in Activation
  BY DEF Stacked, Sound
<1>2. /\ stack' = [stack EXCEPT ![n] = f] /\ stack' \in Seq(Activation) /\ Len(stack') = n
      /\ stack'[n] = f /\ \A k \in 1 .. n : k # n => stack'[k] = stack[k]
  BY <1>1 DEF Irqs!WithTop
<1>3. Irqs!Top' = f /\ Irqs!Top = stack[n]
  BY <1>2 DEF Irqs!Top
<1> HIDE DEF n
<1>4. ASSUME NEW k \in 1 .. n
      PROVE  Sound(stack'[k]) /\ (stack'[k].at = "run" <=> k = 1)
  <2>1. CASE k = n
    BY <1>1, <1>2, <1>3, <2>1 DEF Stacked, n
  <2>2. CASE k # n
    BY <1>2, <2>2 DEF Stacked, n
  <2>3. QED
    BY <2>1, <2>2
<1>5. ASSUME NEW k \in 1 .. n - 1
      PROVE  /\ stack'[k].at \in {"run", "isr"} /\ stack'[k].call = Irqs!NoCall
             /\ stack'[k + 1].epie <=> Enables(stack'[k])
  <2>1. k \in 1 .. n /\ k # n /\ k + 1 \in 1 .. n
    BY <1>1, SMT
  <2>2. stack'[k] = stack[k] /\ stack'[k + 1].epie = stack[k + 1].epie
    BY <1>2, <1>3, <2>1
  <2>3. QED
    BY <2>2 DEF Stacked, n
<1>6. QED
  BY <1>1, <1>2, <1>3, <1>4, <1>5 DEF Stacked, n

\* A step that leaves the stack alone, and whether interrupts are enabled.
LEMMA StackKept ==
  ASSUME Stacked, stack' = stack, pie' = pie
  PROVE  Stacked' /\ Irqs!Top' = Irqs!Top
BY DEF Stacked, Irqs!Top

\* An exception enters.
LEMMA Entered ==
  ASSUME Stacked, NEW cause \in {"interrupt", "fault"}, Irqs!Enter(cause),
         Irqs!InterruptAssumption, pie \in BOOLEAN,
         Irqs!Top.at \in {"run", "isr"}, Irqs!Top.call = Irqs!NoCall, cause = "interrupt" => pie
  PROVE  /\ Stacked' /\ Len(stack') = Len(stack) + 1
         /\ Irqs!Top'.at = "test" /\ Irqs!Top'.call = Irqs!NoCall /\ Irqs!Top'.cause = cause
         /\ Irqs!Top' \in Activation
<1> DEFINE n == Len(stack)
           f == Irqs!Frame("test", cause)
<1>1. n \in Nat /\ n >= 1 /\ stack \in Seq(Activation)
  BY DEF Stacked
<1>2. /\ f.at = "test" /\ f.cause = cause /\ f.epie = pie /\ f.back = "this"
      /\ f.irq = NIrq /\ f.entry = Irqs!Empty /\ f.served = FALSE /\ f.old = <<>>
      /\ f.saved = <<>> /\ f.call = Irqs!NoCall
  BY DEF Irqs!Frame
<1>3. f \in Activation
  <2>1. NIrq \in Nat /\ Irqs!Empty \in Registered /\ <<>> \in Seq(BOOLEAN)
    <3>1. NIrq \in Nat
      BY SMT DEF Irqs!InterruptAssumption
    <3>2. Irqs!Empty \in Registered
      BY DEF Irqs!Empty, Registered
    <3>3. QED
      BY <3>1, <3>2
  <2>2. "test" \in Places /\ cause \in {"reset", "interrupt", "fault"}
    BY DEF Places
  <2>3. QED
    BY <2>1, <2>2 DEF Activation, Irqs!Frame
<1>4. stack' = Append(stack, f) /\ ~pie'
  BY DEF Irqs!Enter
<1> HIDE DEF f
<1>5. /\ stack' \in Seq(Activation) /\ Len(stack') = n + 1 /\ stack'[n + 1] = f
      /\ \A k \in 1 .. n : stack'[k] = stack[k]
  BY <1>1, <1>3, <1>4
<1>6. Irqs!Top' = f /\ Irqs!Top = stack[n]
  BY <1>5 DEF Irqs!Top
<1>7. Sound(f)
  <2>1. Restores(f)
    BY <1>2 DEF Restores
  <2>2. Came(f)
    BY <1>2 DEF Came
  <2>3. QED
    BY <1>3, <2>1, <2>2 DEF Sound
<1>8. ~Enables(f)
  BY <1>2 DEF Enables, LetsIn
<1> HIDE DEF n
<1>9. ASSUME NEW k \in 1 .. n + 1
      PROVE  Sound(stack'[k]) /\ (stack'[k].at = "run" <=> k = 1)
  <2>1. CASE k = n + 1
    <3>1. k # 1
      BY <1>1, <2>1, SMT
    <3>2. QED
      BY <1>2, <1>5, <1>7, <2>1, <3>1
  <2>2. CASE k # n + 1
    <3>1. k \in 1 .. n
      BY <1>1, <2>2, SMT
    <3>2. QED
      BY <1>5, <3>1 DEF Stacked, n
  <2>3. QED
    BY <2>1, <2>2
<1>10. ASSUME NEW k \in 1 .. n
       PROVE  /\ stack'[k].at \in {"run", "isr"} /\ stack'[k].call = Irqs!NoCall
              /\ stack'[k + 1].epie <=> Enables(stack'[k])
  <2>1. CASE k = n
    BY <1>2, <1>5, <1>6, <2>1 DEF Stacked
  <2>2. CASE k # n
    <3>1. k \in 1 .. n - 1 /\ k + 1 \in 1 .. n
      BY <1>1, <2>2, SMT
    <3>2. stack'[k] = stack[k] /\ stack'[k + 1] = stack[k + 1]
      BY <1>5, <3>1
    <3>3. QED
      BY <3>1, <3>2 DEF Stacked, n
  <2>3. QED
    BY <2>1, <2>2
<1>11. n + 1 >= 1 /\ (n + 1) - 1 = n
  BY <1>1, SMT
<1>12. Stacked'
  BY <1>4, <1>5, <1>6, <1>8, <1>9, <1>10, <1>11 DEF Stacked
<1>13. QED
  BY <1>2, <1>3, <1>5, <1>6, <1>12 DEF n

\* An exception returns.
LEMMA Left ==
  ASSUME Stacked, Irqs!Top.at = "exit", pie' = Irqs!Top.epie,
         stack' = SubSeq(stack, 1, Len(stack) - 1)
  PROVE  /\ Stacked' /\ Irqs!Top'.call = Irqs!NoCall /\ Irqs!Top'.at \in {"run", "isr"}
         /\ Len(stack') = Len(stack) - 1 /\ Len(stack) > 1
         /\ \A k \in 1 .. Len(stack') : stack'[k] = stack[k]
<1> DEFINE n == Len(stack)
<1>1. n \in Nat /\ n >= 1 /\ stack \in Seq(Activation) /\ Irqs!Top = stack[n]
  BY DEF Stacked, Irqs!Top
<1> HIDE DEF n
<1>2. n # 1 /\ n > 1 /\ n - 1 \in 1 .. n /\ n - 1 \in 1 .. n - 1 /\ n - 1 \in Nat
  <2>1. n \in 1 .. n
    BY <1>1, SMT
  <2>2. stack[n].at = "run" <=> n = 1
    BY <2>1 DEF Stacked, n
  <2>3. n # 1
    BY <1>1, <2>2
  <2>4. QED
    BY <1>1, <2>3, SMT
<1>3. /\ stack' \in Seq(Activation) /\ Len(stack') = n - 1
      /\ \A k \in 1 .. n - 1 : stack'[k] = stack[k]
  <2>1. stack' = SubSeq(stack, 1, n - 1) /\ Len(stack) = n
    BY DEF n
  <2>2. QED
    BY <1>1, <1>2, <2>1, SMT
<1>4. Irqs!Top' = stack[n - 1]
  BY <1>2, <1>3 DEF Irqs!Top
<1>5. /\ stack[n - 1].at \in {"run", "isr"} /\ stack[n - 1].call = Irqs!NoCall
      /\ stack[(n - 1) + 1].epie <=> Enables(stack[n - 1])
  BY <1>2 DEF Stacked, n
<1>6. (n - 1) + 1 = n /\ n - 1 >= 1
  BY <1>1, <1>2, SMT
<1>7. pie' <=> Enables(stack[n - 1])
  BY <1>1, <1>5, <1>6
<1>8. ASSUME NEW k \in 1 .. n - 1
      PROVE  Sound(stack'[k]) /\ (stack'[k].at = "run" <=> k = 1)
  <2>1. k \in 1 .. n
    BY <1>1, SMT
  <2>2. QED
    BY <1>3, <2>1 DEF Stacked, n
<1>9. ASSUME NEW k \in 1 .. (n - 1) - 1
      PROVE  /\ stack'[k].at \in {"run", "isr"} /\ stack'[k].call = Irqs!NoCall
             /\ stack'[k + 1].epie <=> Enables(stack'[k])
  <2>1. k \in 1 .. n - 1 /\ k + 1 \in 1 .. n - 1
    BY <1>1, <1>2, SMT
  <2>2. QED
    BY <1>3, <2>1 DEF Stacked, n
<1>10. Stacked'
  BY <1>3, <1>4, <1>6, <1>7, <1>8, <1>9 DEF Stacked
<1>11. QED
  BY <1>2, <1>3, <1>4, <1>5, <1>10 DEF n

-----------------------------------------------------------------------------
\* What a step does to the invariant and, beside it, to the stack: only a return
\* shortens it, and a handler that was not running is called for a request.
StackMoves ==
  /\ Len(stack') < Len(stack) => Irqs!Top.at = "exit" /\ Len(stack') = Len(stack) - 1
  /\ Len(stack') = Len(stack) /\ Irqs!Top'.at = "isr" /\ Irqs!Top.at # "isr"
       => Irqs!Top'.irq \in raised

LEMMA TopSound ==
  ASSUME Stacked
  PROVE  /\ Sound(Irqs!Top) /\ Irqs!Top \in Activation /\ Len(stack) \in Nat /\ Len(stack) >= 1
         /\ Irqs!Top = stack[Len(stack)]
         /\ Irqs!Top.at = "run" <=> Len(stack) = 1
<1>1. stack \in Seq(Activation) /\ Len(stack) \in Nat /\ Len(stack) >= 1
  BY DEF Stacked
<1>2. Len(stack) \in 1 .. Len(stack)
  BY <1>1, SMT
<1>3. QED
  BY <1>1, <1>2 DEF Stacked, Irqs!Top, Sound

LEMMA TopStep ==
  ASSUME IrqInv, NEW f, Sound(f), stack' = Irqs!WithTop(f),
         f.at = "run" <=> Irqs!Top.at = "run", f.epie = Irqs!Top.epie,
         pie' <=> Enables(f), f.at # "test", RegistersTyped',
         TableSound(table', active', f.call),
         f.at = "isr" => Irqs!Top.at = "isr" \/ f.irq \in raised
  PROVE  IrqInv' /\ StackMoves
<1>1. Stacked /\ Len(stack) \in Nat
  BY TopSound DEF IrqInv
<1>2. Stacked' /\ Irqs!Top' = f /\ Len(stack') = Len(stack)
  BY <1>1, TopChanged
<1>3. NotGone'
  BY <1>2 DEF NotGone
<1>4. TableSound(table, active, Irqs!Top.call)'
  <2>1. TableSound(table', active', Irqs!Top'.call)
    BY <1>2
  <2>2. QED
    BY <2>1 DEF TableSound
<1>5. StackMoves
  <2>1. ~ (Len(stack') < Len(stack))
    BY <1>1, <1>2, SMT
  <2>2. QED
    BY <1>2, <2>1 DEF StackMoves
<1>6. QED
  BY <1>2, <1>3, <1>4, <1>5 DEF IrqInv

LEMMA KeptStep ==
  ASSUME IrqInv, stack' = stack, pie' = pie, RegistersTyped',
         TableSound(table', active', Irqs!Top.call), NotGone'
  PROVE  IrqInv' /\ StackMoves
<1>1. Stacked /\ Len(stack) \in Nat
  BY TopSound DEF IrqInv
<1>2. Stacked' /\ Irqs!Top' = Irqs!Top
  BY <1>1, StackKept
<1>3. TableSound(table, active, Irqs!Top.call)'
  <2>1. TableSound(table', active', Irqs!Top'.call)
    BY <1>2
  <2>2. QED
    BY <2>1 DEF TableSound
<1>4. StackMoves
  BY <1>1, <1>2 DEF StackMoves
<1>5. QED
  BY <1>2, <1>3, <1>4 DEF IrqInv

-----------------------------------------------------------------------------
\* Critical sections: each that is entered remembers whether it disabled
\* interrupts or found them disabled.
LEMMA DisableAllStep ==
  ASSUME IrqInv, Irqs!DisableAll
  PROVE  IrqInv' /\ StackMoves
<1> DEFINE t == Irqs!Top
           f == [t EXCEPT !.saved = Append(@, pie)]
<1>1. Sound(t) /\ t \in Activation /\ (pie <=> Enables(t)) /\ pie \in BOOLEAN
  BY TopSound DEF IrqInv, Stacked, RegistersTyped
<1>2. t.at \in {"run", "isr"} /\ t.call = Irqs!NoCall
  BY DEF Irqs!DisableAll, Irqs!MayCall
<1>3. stack' = Irqs!WithTop(f) /\ ~pie'
  BY DEF Irqs!DisableAll
<1>4. RegistersTyped'
  BY <1>3 DEF Irqs!DisableAll, IrqInv, RegistersTyped
<1>5. TableSound(table', active', t.call)
  BY DEF Irqs!DisableAll, IrqInv
<1> HIDE DEF t
<1>6. t.saved \in Seq(BOOLEAN)
  BY <1>1 DEF Activation
<1>7. /\ f.at = t.at /\ f.cause = t.cause /\ f.epie = t.epie /\ f.back = t.back
      /\ f.irq = t.irq /\ f.entry = t.entry /\ f.served = t.served /\ f.old = t.old
      /\ f.call = t.call /\ f.saved = Append(t.saved, pie)
  BY <1>1 DEF Activation
<1>8. Append(t.saved, pie) \in Seq(BOOLEAN)
  BY <1>1, <1>6
<1>9. f \in Activation
  BY <1>1, <1>8 DEF Activation
<1> HIDE DEF f
<1>10. Restores(f)
  <2> DEFINE m == Len(t.saved)
  <2>1. m \in Nat /\ Len(f.saved) = m + 1 /\ f.saved[m + 1] = pie /\ (m = 0 <=> t.saved = <<>>)
        /\ \A n \in 1 .. m : f.saved[n] = t.saved[n]
    BY <1>1, <1>6, <1>7
  <2>2. LetsIn(f) <=> LetsIn(t)
    BY <1>7 DEF LetsIn
  <2> HIDE DEF m
  <2>3. ASSUME NEW n \in 1 .. m + 1
        PROVE  f.saved[n] <=> LetsIn(f) /\ n = 1
    <3>1. CASE n = m + 1
      <4>1. n = 1 <=> m = 0
        BY <2>1, <3>1, SMT
      <4>2. f.saved[n] <=> Enables(t)
        BY <1>1, <2>1, <3>1, Zenon
      <4>3. Enables(t) <=> LetsIn(f) /\ n = 1
        BY <1>2, <2>1, <2>2, <4>1 DEF Enables
      <4>4. QED
        BY <4>2, <4>3, Zenon
    <3>2. CASE n # m + 1
      <4>1. n \in 1 .. m
        BY <2>1, <3>2, SMT
      <4>2. f.saved[n] = t.saved[n]
        BY <2>1, <4>1
      <4>3. t.saved[n] <=> LetsIn(t) /\ n = 1
        BY <1>1, <4>1, Zenon DEF Sound, Restores, m
      <4>4. QED
        BY <2>2, <4>2, <4>3, Zenon
    <3>3. QED
      BY <3>1, <3>2
  <2>4. f.call = Irqs!NoCall
    BY <1>2, <1>7
  <2>5. QED
    BY <2>1, <2>3, <2>4, Zenon DEF Restores
<1>11. Came(f)
  BY <1>1, <1>2, <1>7 DEF Sound, Came
<1>12. ~Enables(f)
  <2>1. f.saved # <<>>
    BY <1>1, <1>6, <1>7
  <2>2. QED
    BY <2>1 DEF Enables
<1>13. Sound(f) /\ f.at # "test" /\ (f.at = "isr" => t.at = "isr")
  BY <1>2, <1>7, <1>9, <1>10, <1>11 DEF Sound
<1>14. QED
  BY <1>3, <1>4, <1>5, <1>7, <1>12, <1>13, TopStep DEF t

LEMMA EnableAllAgainStep ==
  ASSUME IrqInv, Irqs!EnableAllAgain
  PROVE  IrqInv' /\ StackMoves
<1> DEFINE t == Irqs!Top
           m == Len(t.saved)
           f == [t EXCEPT !.saved = SubSeq(@, 1, Len(@) - 1)]
<1>1. Sound(t) /\ t \in Activation
  BY TopSound DEF IrqInv
<1>2. t.at \in {"run", "isr"} /\ t.call = Irqs!NoCall /\ t.saved # <<>>
  BY DEF Irqs!EnableAllAgain, Irqs!MayCall
<1>3. stack' = Irqs!WithTop(f) /\ pie' = t.saved[m]
  BY DEF Irqs!EnableAllAgain, Irqs!EnableAll
<1>4. t.saved \in Seq(BOOLEAN)
  BY <1>1 DEF Activation
<1>5. m \in Nat \ {0}
  BY <1>2, <1>4
<1>6. pie' \in BOOLEAN
  BY <1>3, <1>4, <1>5
<1>7. RegistersTyped'
  BY <1>6 DEF Irqs!EnableAllAgain, IrqInv, RegistersTyped
<1>8. TableSound(table', active', t.call)
  BY DEF Irqs!EnableAllAgain, IrqInv
<1> HIDE DEF t
<1>9. /\ f.at = t.at /\ f.cause = t.cause /\ f.epie = t.epie /\ f.back = t.back
      /\ f.irq = t.irq /\ f.entry = t.entry /\ f.served = t.served /\ f.old = t.old
      /\ f.call = t.call /\ f.saved = SubSeq(t.saved, 1, m - 1)
  BY <1>1 DEF Activation
<1>10. /\ SubSeq(t.saved, 1, m - 1) \in Seq(BOOLEAN)
       /\ Len(SubSeq(t.saved, 1, m - 1)) = m - 1
       /\ \A n \in 1 .. m - 1 : SubSeq(t.saved, 1, m - 1)[n] = t.saved[n]
  BY <1>4, <1>5
<1>11. f \in Activation
  BY <1>1, <1>10 DEF Activation
<1> HIDE DEF f
<1>12. (f.saved = <<>> <=> m = 1) /\ (LetsIn(f) <=> LetsIn(t))
  <2>1. f.saved \in Seq(BOOLEAN) /\ Len(f.saved) = m - 1
    BY <1>9, <1>10
  <2>2. f.saved = <<>> <=> Len(f.saved) = 0
    BY <2>1, NoElements
  <2>3. m - 1 = 0 <=> m = 1
    BY <1>5, SMT
  <2>4. LetsIn(f) <=> LetsIn(t)
    BY <1>9 DEF LetsIn
  <2>5. QED
    BY <2>1, <2>2, <2>3, <2>4
<1>13. t.saved[m] <=> LetsIn(t) /\ m = 1
  <2>1. m \in 1 .. m
    BY <1>5, SMT
  <2>2. QED
    BY <1>1, <2>1, Zenon DEF Sound, Restores
<1> HIDE DEF m
<1>14. Restores(f)
  <2>1. ASSUME NEW n \in 1 .. m - 1
        PROVE  f.saved[n] <=> LetsIn(f) /\ n = 1
    <3>1. n \in 1 .. m
      BY <1>5, SMT
    <3>2. t.saved[n] <=> LetsIn(t) /\ n = 1
      BY <1>1, <3>1, Zenon DEF Sound, Restores, m
    <3>3. f.saved[n] = t.saved[n]
      BY <1>9, <1>10
    <3>4. QED
      BY <1>12, <3>2, <3>3, Zenon
  <2>2. Len(f.saved) = m - 1 /\ f.call = Irqs!NoCall
    BY <1>2, <1>9, <1>10
  <2>3. QED
    BY <2>1, <2>2, Zenon DEF Restores
<1>15. Came(f)
  BY <1>1, <1>2, <1>9 DEF Sound, Came
<1>16. pie' <=> Enables(f)
  <2>1. pie' <=> LetsIn(t) /\ m = 1
    BY <1>3, <1>13, Zenon
  <2>2. QED
    BY <1>2, <1>9, <1>12, <2>1 DEF Enables
<1>17. Sound(f) /\ f.at # "test" /\ (f.at = "isr" => t.at = "isr")
  BY <1>2, <1>9, <1>11, <1>14, <1>15 DEF Sound
<1>18. QED
  BY <1>3, <1>7, <1>8, <1>9, <1>16, <1>17, TopStep DEF t

\* Enabling and disabling one interrupt leaves the status as it was.
LEMMA IrqEnableStep ==
  ASSUME IrqInv, NEW q \in Irqs!Irq, Irqs!IrqEnable(q)
  PROVE  IrqInv' /\ StackMoves
<1>1. /\ Irqs!Top.at \in {"run", "isr"} /\ Irqs!Top.call = Irqs!NoCall /\ table[q].handler # Null
      /\ stack' = stack /\ pie' = pie /\ table' = table
      /\ active' = active \cup {q} /\ ienable' = active \cup {q}
      /\ mask' = mask /\ raised' = raised /\ raises' = raises /\ faults' = faults
  BY DEF Irqs!IrqEnable, Irqs!MayCall, Irqs!Activate, Irqs!EnableAll
<1>2. Irqs!Top' = Irqs!Top
  BY <1>1 DEF Irqs!Top
<1>3. RegistersTyped'
  BY <1>1 DEF IrqInv, RegistersTyped
<1>4. TableSound(table', active', Irqs!Top.call)
  BY <1>1 DEF IrqInv, TableSound
<1>5. NotGone'
  BY <1>1, <1>2 DEF NotGone
<1>6. QED
  BY <1>1, <1>3, <1>4, <1>5, KeptStep

LEMMA IrqDisableStep ==
  ASSUME IrqInv, NEW q \in Irqs!Irq, Irqs!IrqDisable(q)
  PROVE  IrqInv' /\ StackMoves
<1>1. /\ Irqs!Top.at \in {"run", "isr"} /\ Irqs!Top.call = Irqs!NoCall
      /\ stack' = stack /\ pie' = pie /\ table' = table
      /\ active' = active \ {q} /\ ienable' = active \ {q}
      /\ mask' = mask /\ raised' = raised /\ raises' = raises /\ faults' = faults
  BY DEF Irqs!IrqDisable, Irqs!MayCall, Irqs!Activate, Irqs!EnableAll
<1>2. Irqs!Top' = Irqs!Top
  BY <1>1 DEF Irqs!Top
<1>3. RegistersTyped'
  BY <1>1 DEF IrqInv, RegistersTyped
<1>4. TableSound(table', active', Irqs!Top.call)
  BY <1>1 DEF IrqInv, TableSound
<1>5. NotGone'
  BY <1>1, <1>2 DEF NotGone
<1>6. QED
  BY <1>1, <1>3, <1>4, <1>5, KeptStep

\* Registering: the handler, its context, the enable register, the status.
LEMMA RegisterHandlerStep ==
  ASSUME IrqInv, NEW q \in Irqs!Irq, NEW h \in Handler \cup {Null}, Irqs!RegisterHandler(q, h)
  PROVE  IrqInv' /\ StackMoves
<1> DEFINE t == Irqs!Top
           c == [step |-> "context", irq |-> q, handler |-> h, saved |-> pie]
           f == [t EXCEPT !.call = c]
<1>1. Sound(t) /\ t \in Activation /\ (pie <=> Enables(t)) /\ pie \in BOOLEAN
  BY TopSound DEF IrqInv, Stacked, RegistersTyped
<1>2. t.at \in {"run", "isr"} /\ t.call = Irqs!NoCall
  BY DEF Irqs!RegisterHandler, Irqs!MayCall
<1>3. stack' = Irqs!WithTop(f) /\ ~pie' /\ pie' = FALSE
  BY DEF Irqs!RegisterHandler, Irqs!PieWhileRegistering
<1>4. table \in [Irqs!Irq -> Registered] /\ table' = [table EXCEPT ![q].handler = h]
  BY DEF Irqs!RegisterHandler, IrqInv, RegistersTyped
<1>5. table' \in [Irqs!Irq -> Registered] /\ table'[q].handler = h
      /\ \A r \in Irqs!Irq \ {q} : table'[r] = table[r]
  BY <1>4 DEF Registered
<1>6. RegistersTyped'
  BY <1>3, <1>5 DEF Irqs!RegisterHandler, IrqInv, RegistersTyped
<1>7. c \in Registering /\ c # Irqs!NoCall /\ c.step = "context" /\ c.irq = q /\ c.handler = h
      /\ c.saved = pie
  <2>1. c \in Registering
    BY <1>1 DEF Registering
  <2>2. QED
    BY <2>1, NotRegistering
<1>8. TableSound(table', active', c)
  <2>1. active' = active /\ active \subseteq Irqs!Irq
    BY DEF Irqs!RegisterHandler, IrqInv, RegistersTyped
  <2>2. /\ \A r \in Irqs!Irq : table[r].context = table[r].handler
        /\ \A r \in active : table[r].handler # Null
    BY <1>2, NotRegistering DEF IrqInv, TableSound
  <2>3. \A r \in Irqs!Irq : table'[r].context = table'[r].handler \/ c.irq = r
    BY <1>5, <1>7, <2>2
  <2>4. \A r \in active : table'[r].handler # Null \/ c.irq = r
    BY <1>5, <1>7, <2>1, <2>2
  <2> HIDE DEF c
  <2>5. QED
    BY <1>5, <1>7, <2>1, <2>3, <2>4 DEF TableSound
<1> HIDE DEF t, c
<1>9. /\ f.at = t.at /\ f.cause = t.cause /\ f.epie = t.epie /\ f.back = t.back
      /\ f.irq = t.irq /\ f.entry = t.entry /\ f.served = t.served /\ f.old = t.old
      /\ f.saved = t.saved /\ f.call = c
  BY <1>1 DEF Activation
<1>10. f \in Activation
  BY <1>1, <1>7 DEF Activation
<1> HIDE DEF f
<1>11. LetsIn(f) <=> LetsIn(t)
  BY <1>9 DEF LetsIn
<1>12. Restores(f)
  <2>1. \A n \in 1 .. Len(f.saved) : f.saved[n] <=> LetsIn(f) /\ n = 1
    BY <1>1, <1>9, <1>11, Zenon DEF Sound, Restores
  <2>2. f.call.saved <=> LetsIn(f) /\ f.saved = <<>>
    <3>1. pie <=> LetsIn(f) /\ f.saved = <<>>
      BY <1>1, <1>2, <1>9, <1>11 DEF Enables
    <3>2. f.call.saved = pie
      BY <1>7, <1>9
    <3>3. QED
      BY <3>1, <3>2, Zenon
  <2>3. QED
    BY <2>1, <2>2, Zenon DEF Restores
<1>13. Came(f)
  BY <1>1, <1>2, <1>9 DEF Sound, Came
<1>14. ~Enables(f)
  BY <1>7, <1>9 DEF Enables
<1>15. Sound(f) /\ f.at # "test" /\ (f.at = "isr" => t.at = "isr")
  BY <1>2, <1>9, <1>10, <1>12, <1>13 DEF Sound
<1>16. QED
  BY <1>3, <1>6, <1>8, <1>9, <1>14, <1>15, TopStep DEF t

\* What the steps of a registration have in common.
LEMMA CallMoves ==
  ASSUME Sound(Irqs!Top), Irqs!Top.call \in Registering, pie <=> Enables(Irqs!Top),
         NEW step \in {"enable", "restore"}, NEW f,
         f = [Irqs!Top EXCEPT !.call.step = step]
  PROVE  /\ Sound(f) /\ ~Enables(f) /\ ~pie /\ f.at # "test"
         /\ f.at = Irqs!Top.at /\ f.epie = Irqs!Top.epie
         /\ f.call.step = step /\ f.call.irq = Irqs!Top.call.irq
         /\ f.call.handler = Irqs!Top.call.handler /\ f.call # Irqs!NoCall
<1> DEFINE t == Irqs!Top
           c == [t.call EXCEPT !.step = step]
<1>1. t \in Activation /\ t.call # Irqs!NoCall
  BY NotRegistering DEF Sound
<1>2. c \in Registering /\ c.step = step /\ c.irq = t.call.irq
      /\ c.handler = t.call.handler /\ c.saved = t.call.saved
  BY DEF Registering
<1> HIDE DEF t
<1>3. f = [t EXCEPT !.call = c]
  BY <1>1 DEF Activation, t
<1> HIDE DEF c
<1>4. /\ f.at = t.at /\ f.cause = t.cause /\ f.epie = t.epie /\ f.back = t.back
      /\ f.irq = t.irq /\ f.entry = t.entry /\ f.served = t.served /\ f.old = t.old
      /\ f.saved = t.saved /\ f.call = c
  BY <1>1, <1>3 DEF Activation
<1>5. f \in Activation
  BY <1>1, <1>2, <1>3 DEF Activation
<1>6. LetsIn(f) <=> LetsIn(t)
  BY <1>4 DEF LetsIn
<1>7. c # Irqs!NoCall
  BY <1>2, NotRegistering
<1>8. Restores(f)
  <2>1. \A n \in 1 .. Len(f.saved) : f.saved[n] <=> LetsIn(f) /\ n = 1
    BY <1>4, <1>6, Zenon DEF Sound, Restores, t
  <2>2. f.call.saved <=> LetsIn(f) /\ f.saved = <<>>
    <3>1. t.call.saved <=> LetsIn(t) /\ t.saved = <<>>
      BY <1>1, Zenon DEF Sound, Restores, t
    <3>2. f.call.saved = t.call.saved /\ f.saved = t.saved
      BY <1>2, <1>4
    <3>3. QED
      BY <1>6, <3>1, <3>2, Zenon
  <2>3. QED
    BY <2>1, <2>2, Zenon DEF Restores
<1>9. t.at \in {"run", "isr"}
  BY <1>1 DEF Sound, Came, t
<1>10. Came(f)
  BY <1>4, <1>9 DEF Sound, Came, t
<1>11. ~Enables(f) /\ ~pie
  BY <1>1, <1>4, <1>7 DEF Enables, t
<1>12. QED
  BY <1>2, <1>4, <1>5, <1>7, <1>8, <1>9, <1>10, <1>11 DEF Sound, t

LEMMA RegisterContextStep ==
  ASSUME IrqInv, Irqs!RegisterContext
  PROVE  IrqInv' /\ StackMoves
<1> DEFINE c == Irqs!Top.call
<1>1. Sound(Irqs!Top) /\ Irqs!Top \in Activation /\ (pie <=> Enables(Irqs!Top))
  BY TopSound DEF IrqInv, Stacked
<1>2. c.step = "context" /\ c \in Registering /\ c # Irqs!NoCall
  BY <1>1, NotRegistering DEF Irqs!RegisterContext, Activation
<1>3. /\ c.irq \in Irqs!Irq /\ c.handler \in Handler \cup {Null}
      /\ table[c.irq].handler = c.handler
  BY <1>2 DEF Registering, IrqInv, TableSound
<1>4. PICK f : f = [Irqs!Top EXCEPT !.call.step = "enable"]
  OBVIOUS
<1>5. stack' = Irqs!WithTop(f) /\ pie' = pie
  BY <1>4 DEF Irqs!RegisterContext
<1>6. /\ Sound(f) /\ ~Enables(f) /\ ~pie /\ f.at # "test" /\ f.at = Irqs!Top.at
      /\ f.epie = Irqs!Top.epie /\ f.call.step = "enable" /\ f.call.irq = c.irq
      /\ f.call.handler = c.handler /\ f.call # Irqs!NoCall
  BY <1>1, <1>2, <1>4, CallMoves
<1>7. table \in [Irqs!Irq -> Registered] /\ table' = [table EXCEPT ![c.irq].context = c.handler]
  BY DEF Irqs!RegisterContext, IrqInv, RegistersTyped
<1>8. /\ table' \in [Irqs!Irq -> Registered] /\ table'[c.irq].context = c.handler
      /\ table'[c.irq].handler = c.handler
      /\ \A r \in Irqs!Irq : table'[r].handler = table[r].handler
                             /\ (r # c.irq => table'[r] = table[r])
  <2> HIDE DEF c
  <2>1. QED
    BY <1>3, <1>7 DEF Registered
<1>9. RegistersTyped'
  BY <1>8 DEF Irqs!RegisterContext, IrqInv, RegistersTyped
<1>10. TableSound(table', active', f.call)
  <2>1. active' = active /\ active \subseteq Irqs!Irq
    BY DEF Irqs!RegisterContext, IrqInv, RegistersTyped
  <2>2. /\ \A r \in Irqs!Irq : table[r].context = table[r].handler \/ c.irq = r
        /\ \A r \in active : table[r].handler # Null \/ c.irq = r
    BY DEF IrqInv, TableSound
  <2> HIDE DEF c
  <2>3. \A r \in Irqs!Irq : table'[r].context = table'[r].handler
    BY <1>8, <2>2
  <2>4. \A r \in active' : table'[r].handler # Null \/ f.call.irq = r
    BY <1>6, <1>8, <2>1, <2>2
  <2>5. table'[f.call.irq].handler = f.call.handler
    BY <1>6, <1>8
  <2>6. QED
    BY <1>6, <2>3, <2>4, <2>5 DEF TableSound
<1>11. QED
  BY <1>5, <1>6, <1>9, <1>10, TopStep

LEMMA RegisterEnableStep ==
  ASSUME IrqInv, Irqs!RegisterEnable
  PROVE  IrqInv' /\ StackMoves
<1> DEFINE c == Irqs!Top.call
           set == IF c.handler = Null THEN active \ {c.irq} ELSE active \cup {c.irq}
<1>1. Sound(Irqs!Top) /\ Irqs!Top \in Activation /\ (pie <=> Enables(Irqs!Top))
  BY TopSound DEF IrqInv, Stacked
<1>2. c.step = "enable" /\ c \in Registering /\ c # Irqs!NoCall
  BY <1>1, NotRegistering DEF Irqs!RegisterEnable, Activation
<1>3. c.irq \in Irqs!Irq /\ table[c.irq].handler = c.handler
  BY <1>2 DEF Registering, IrqInv, TableSound
<1>4. PICK f : f = [Irqs!Top EXCEPT !.call.step = "restore"]
  OBVIOUS
<1>5. stack' = Irqs!WithTop(f) /\ pie' = pie /\ active' = set /\ ienable' = set /\ table' = table
  BY <1>4 DEF Irqs!RegisterEnable, Irqs!Activate, Irqs!EnableAll
<1>6. /\ Sound(f) /\ ~Enables(f) /\ ~pie /\ f.at # "test" /\ f.at = Irqs!Top.at
      /\ f.epie = Irqs!Top.epie /\ f.call.step = "restore" /\ f.call.irq = c.irq
      /\ f.call.handler = c.handler /\ f.call # Irqs!NoCall
  BY <1>1, <1>2, <1>4, CallMoves
<1>7. active \subseteq Irqs!Irq
  BY DEF IrqInv, RegistersTyped
<1>8. set \subseteq Irqs!Irq
  BY <1>3, <1>7
<1>9. RegistersTyped'
  <2> HIDE DEF set, c
  <2>1. QED
    BY <1>5, <1>8 DEF Irqs!RegisterEnable, IrqInv, RegistersTyped
<1>10. TableSound(table', active', f.call)
  <2>1. /\ \A r \in Irqs!Irq : table[r].context = table[r].handler
        /\ \A r \in active : table[r].handler # Null \/ c.irq = r
    BY <1>2 DEF IrqInv, TableSound
  <2>2. \A r \in set : table[r].handler # Null
    BY <1>3, <2>1
  <2> HIDE DEF set, c
  <2>3. QED
    BY <1>3, <1>5, <1>6, <2>1, <2>2 DEF TableSound
<1>11. QED
  BY <1>5, <1>6, <1>9, <1>10, TopStep

LEMMA RegisterDoneStep ==
  ASSUME IrqInv, Irqs!RegisterDone
  PROVE  IrqInv' /\ StackMoves
<1> DEFINE t == Irqs!Top
           f == [t EXCEPT !.call = Irqs!NoCall]
<1>1. Sound(t) /\ t \in Activation
  BY TopSound DEF IrqInv
<1>2. t.call.step = "restore" /\ t.call \in Registering /\ t.call # Irqs!NoCall
  BY <1>1, NotRegistering DEF Irqs!RegisterDone, Activation
<1>3. t.call.saved \in BOOLEAN
  BY <1>2 DEF Registering
<1>4. stack' = Irqs!WithTop(f) /\ pie' = t.call.saved
  BY DEF Irqs!RegisterDone, Irqs!EnableAll
<1>5. RegistersTyped'
  BY <1>3, <1>4 DEF Irqs!RegisterDone, IrqInv, RegistersTyped
<1>6. TableSound(table', active', Irqs!NoCall)
  BY <1>2, NotRegistering DEF Irqs!RegisterDone, IrqInv, TableSound
<1> HIDE DEF t
<1>7. /\ f.at = t.at /\ f.cause = t.cause /\ f.epie = t.epie /\ f.back = t.back
      /\ f.irq = t.irq /\ f.entry = t.entry /\ f.served = t.served /\ f.old = t.old
      /\ f.saved = t.saved /\ f.call = Irqs!NoCall
  BY <1>1 DEF Activation
<1>8. f \in Activation
  BY <1>1 DEF Activation
<1> HIDE DEF f
<1>9. LetsIn(f) <=> LetsIn(t)
  BY <1>7 DEF LetsIn
<1>10. t.at \in {"run", "isr"}
  BY <1>1, <1>2 DEF Sound, Came
<1>11. Restores(f)
  <2>1. \A n \in 1 .. Len(f.saved) : f.saved[n] <=> LetsIn(f) /\ n = 1
    BY <1>1, <1>7, <1>9, Zenon DEF Sound, Restores
  <2>2. QED
    BY <1>7, <2>1, Zenon DEF Restores
<1>12. Came(f)
  BY <1>1, <1>7, <1>10 DEF Sound, Came
<1>13. pie' <=> Enables(f)
  <2>1. t.call.saved <=> LetsIn(t) /\ t.saved = <<>>
    BY <1>1, <1>2, Zenon DEF Sound, Restores
  <2>2. Enables(f) <=> LetsIn(t) /\ t.saved = <<>>
    BY <1>7, <1>9, Zenon DEF Enables
  <2>3. QED
    BY <1>4, <2>1, <2>2, Zenon
<1>14. Sound(f) /\ f.at # "test" /\ (f.at = "isr" => t.at = "isr")
  BY <1>7, <1>8, <1>10, <1>11, <1>12 DEF Sound
<1>15. QED
  BY <1>4, <1>5, <1>6, <1>7, <1>13, <1>14, TopStep DEF t

\* A handler lets others in, and keeps them off again.
LEMMA InterruptibleStep ==
  ASSUME Irqs!InterruptAssumption, IrqInv, Irqs!Interruptible
  PROVE  IrqInv' /\ StackMoves
<1> DEFINE t == Irqs!Top
           f == [t EXCEPT !.old = <<mask>>]
<1>1. Sound(t) /\ t \in Activation
  BY TopSound DEF IrqInv
<1>2. t.at = "isr" /\ t.call = Irqs!NoCall /\ t.saved = <<>> /\ t.old = <<>>
  BY DEF Irqs!Interruptible
<1>3. stack' = Irqs!WithTop(f) /\ pie' = TRUE
  BY DEF Irqs!Interruptible
<1>4. RegistersTyped'
  <2>1. t.irq \in Irqs!Irq
    BY <1>1, <1>2 DEF Sound, Came
  <2>2. Irqs!Higher(t.irq) \subseteq Irqs!Irq
    <3>1. NIrq \in Nat
      BY SMT DEF Irqs!InterruptAssumption
    <3> HIDE DEF t
    <3>2. QED
      BY <2>1, <3>1 DEF Irqs!Higher, Irqs!Irq
  <2>3. mask' \subseteq Irqs!Irq /\ ienable' \subseteq active
    BY <2>2 DEF Irqs!Interruptible
  <2>4. QED
    BY <2>3 DEF Irqs!Interruptible, IrqInv, RegistersTyped
<1>5. TableSound(table', active', t.call)
  BY DEF Irqs!Interruptible, IrqInv
<1>6. mask \subseteq Irqs!Irq
  BY DEF IrqInv, RegistersTyped
<1> HIDE DEF t
<1>7. /\ f.at = t.at /\ f.cause = t.cause /\ f.epie = t.epie /\ f.back = t.back
      /\ f.irq = t.irq /\ f.entry = t.entry /\ f.served = t.served /\ f.old = <<mask>>
      /\ f.saved = t.saved /\ f.call = t.call
  BY <1>1 DEF Activation
<1>8. f \in Activation
  BY <1>1, <1>6 DEF Activation
<1> HIDE DEF f
<1>9. Restores(f)
  BY <1>2, <1>7 DEF Restores
<1>10. Came(f)
  BY <1>1, <1>2, <1>7 DEF Sound, Came
<1>11. pie' <=> Enables(f)
  <2>1. f.old # <<>>
    BY <1>7
  <2>2. QED
    BY <1>2, <1>3, <1>7, <2>1 DEF Enables, LetsIn
<1>12. Sound(f) /\ f.at # "test" /\ f.at # "run" /\ t.at = "isr"
  BY <1>2, <1>7, <1>8, <1>9, <1>10 DEF Sound
<1>13. QED
  BY <1>3, <1>4, <1>5, <1>7, <1>11, <1>12, TopStep DEF t

LEMMA NonInterruptibleStep ==
  ASSUME IrqInv, Irqs!NonInterruptible
  PROVE  IrqInv' /\ StackMoves
<1> DEFINE t == Irqs!Top
           f == [t EXCEPT !.old = <<>>]
<1>1. Sound(t) /\ t \in Activation
  BY TopSound DEF IrqInv
<1>2. t.at = "isr" /\ t.call = Irqs!NoCall /\ t.saved = <<>> /\ t.old # <<>>
  BY DEF Irqs!NonInterruptible
<1>3. stack' = Irqs!WithTop(f) /\ pie' = FALSE
  BY DEF Irqs!NonInterruptible
<1>4. RegistersTyped'
  <2>1. t.old[1] \subseteq Irqs!Irq
    <3>1. t.old \in {<<>>} \cup {<<m>> : m \in SUBSET Irqs!Irq}
      BY <1>1 DEF Activation
    <3>2. PICK m \in SUBSET Irqs!Irq : t.old = <<m>>
      BY <1>2, <3>1
    <3>3. QED
      BY <3>2
  <2>2. mask' \subseteq Irqs!Irq /\ ienable' \subseteq active
    BY <2>1 DEF Irqs!NonInterruptible
  <2>3. QED
    BY <1>3, <2>2 DEF Irqs!NonInterruptible, IrqInv, RegistersTyped
<1>5. TableSound(table', active', t.call)
  BY DEF Irqs!NonInterruptible, IrqInv
<1> HIDE DEF t
<1>6. /\ f.at = t.at /\ f.cause = t.cause /\ f.epie = t.epie /\ f.back = t.back
      /\ f.irq = t.irq /\ f.entry = t.entry /\ f.served = t.served /\ f.old = <<>>
      /\ f.saved = t.saved /\ f.call = t.call
  BY <1>1 DEF Activation
<1>7. f \in Activation
  BY <1>1 DEF Activation
<1> HIDE DEF f
<1>8. Restores(f)
  BY <1>2, <1>6 DEF Restores
<1>9. Came(f)
  BY <1>1, <1>2, <1>6 DEF Sound, Came
<1>10. pie' <=> Enables(f)
  BY <1>2, <1>3, <1>6 DEF Enables, LetsIn
<1>11. Sound(f) /\ f.at # "test" /\ f.at # "run" /\ t.at = "isr"
  BY <1>2, <1>6, <1>7, <1>8, <1>9 DEF Sound
<1>12. QED
  BY <1>3, <1>4, <1>5, <1>6, <1>10, <1>11, TopStep DEF t

\* Devices.
LEMMA RaiseStep ==
  ASSUME Irqs!InterruptAssumption, IrqInv, NEW q \in Irqs!Irq, Irqs!Raise(q)
  PROVE  IrqInv' /\ StackMoves
<1>1. /\ stack' = stack /\ pie' = pie /\ table' = table /\ active' = active
      /\ ienable' = ienable /\ mask' = mask /\ faults' = faults
      /\ raised' = raised \cup {q} /\ raises' = raises + 1 /\ raises < MaxRaises
  BY DEF Irqs!Raise, Irqs!Cpu
<1>2. RegistersTyped'
  <2>1. raises' \in 0 .. MaxRaises
    <3>1. raises \in 0 .. MaxRaises
      BY DEF IrqInv, RegistersTyped
    <3>2. MaxRaises \in Nat
      BY SMT DEF Irqs!InterruptAssumption
    <3>3. QED
      BY <1>1, <3>1, <3>2, SMT
  <2>2. QED
    BY <1>1, <2>1 DEF IrqInv, RegistersTyped
<1>3. TableSound(table', active', Irqs!Top.call)
  BY <1>1 DEF IrqInv
<1>4. NotGone'
  <2>1. Irqs!Top' = Irqs!Top /\ Irqs!Pending \subseteq Irqs!Pending'
    BY <1>1 DEF Irqs!Top, Irqs!Pending
  <2>2. QED
    BY <2>1 DEF IrqInv, NotGone
<1>5. QED
  BY <1>1, <1>2, <1>3, <1>4, KeptStep

LEMMA RetractStep ==
  ASSUME IrqInv, NEW q \in Irqs!Irq, Irqs!Retract(q)
  PROVE  IrqInv' /\ StackMoves
<1>1. /\ stack' = stack /\ pie' = pie /\ table' = table /\ active' = active
      /\ ienable' = ienable /\ mask' = mask /\ faults' = faults /\ raises' = raises
      /\ raised' = raised \ {q} /\ Retracts
  BY DEF Irqs!Retract, Irqs!Cpu
<1>2. RegistersTyped'
  BY <1>1 DEF IrqInv, RegistersTyped
<1>3. TableSound(table', active', Irqs!Top.call)
  BY <1>1 DEF IrqInv
<1>4. NotGone'
  BY <1>1 DEF NotGone
<1>5. QED
  BY <1>1, <1>2, <1>3, <1>4, KeptStep

\* Exceptions.
LEMMA EnterStep ==
  ASSUME Irqs!InterruptAssumption, IrqInv, NEW cause \in {"interrupt", "fault"}, Irqs!Enter(cause),
         Irqs!Top.at \in {"run", "isr"}, Irqs!Top.call = Irqs!NoCall,
         cause = "interrupt" => pie /\ Irqs!Pending # {},
         UNCHANGED <<ienable, active, mask, table, raised, raises>>, faults' \in 0 .. MaxFaults
  PROVE  IrqInv' /\ StackMoves
<1>1. Stacked /\ pie \in BOOLEAN /\ Len(stack) \in Nat
  BY TopSound DEF IrqInv, RegistersTyped
<1>2. /\ Stacked' /\ Len(stack') = Len(stack) + 1
      /\ Irqs!Top'.at = "test" /\ Irqs!Top'.call = Irqs!NoCall /\ Irqs!Top'.cause = cause
  BY <1>1, Entered
<1>3. RegistersTyped'
  BY DEF Irqs!Enter, IrqInv, RegistersTyped
<1>4. TableSound(table, active, Irqs!Top.call)'
  <2>1. TableSound(table', active', Irqs!Top'.call)
    BY <1>2 DEF IrqInv
  <2>2. QED
    BY <2>1 DEF TableSound
<1>5. NotGone'
  BY <1>2 DEF NotGone, Irqs!Pending
<1>6. StackMoves
  <2>1. ~ (Len(stack') < Len(stack)) /\ Len(stack') # Len(stack)
    BY <1>1, <1>2, SMT
  <2>2. QED
    BY <2>1 DEF StackMoves
<1>7. QED
  BY <1>2, <1>3, <1>4, <1>5, <1>6 DEF IrqInv

LEMMA TakeStep ==
  ASSUME Irqs!InterruptAssumption, IrqInv, Irqs!Take
  PROVE  IrqInv' /\ StackMoves
<1>1. pie /\ Irqs!Pending # {} /\ Irqs!Enter("interrupt")
      /\ UNCHANGED <<ienable, active, mask, table, raised, raises, faults>>
  BY DEF Irqs!Take
<1>2. Enables(Irqs!Top) /\ Sound(Irqs!Top) /\ faults \in 0 .. MaxFaults
  BY <1>1, TopSound DEF IrqInv, Stacked, RegistersTyped
<1>3. Irqs!Top.at \in {"run", "isr"} /\ Irqs!Top.call = Irqs!NoCall
  BY <1>2 DEF Enables, LetsIn, Sound, Came
<1>4. QED
  BY <1>1, <1>2, <1>3, EnterStep

LEMMA FaultStep ==
  ASSUME Irqs!InterruptAssumption, IrqInv, Irqs!Fault
  PROVE  IrqInv' /\ StackMoves
<1>1. /\ Irqs!Top.at \in {"run", "isr"} /\ Irqs!Top.call = Irqs!NoCall /\ faults < MaxFaults
      /\ Irqs!Enter("fault") /\ faults' = faults + 1
      /\ UNCHANGED <<ienable, active, mask, table, raised, raises>>
  BY DEF Irqs!Fault
<1>2. faults' \in 0 .. MaxFaults
  <2>1. faults \in 0 .. MaxFaults
    BY DEF IrqInv, RegistersTyped
  <2>2. MaxFaults \in Nat
    BY SMT DEF Irqs!InterruptAssumption
  <2>3. QED
    BY <1>1, <2>1, <2>2, SMT
<1>3. QED
  BY <1>1, <1>2, EnterStep

LEMMA LeaveStep ==
  ASSUME IrqInv, Irqs!Leave
  PROVE  IrqInv' /\ StackMoves
<1>1. /\ Irqs!Top.at = "exit" /\ pie' = Irqs!Top.epie
      /\ stack' = SubSeq(stack, 1, Len(stack) - 1)
      /\ UNCHANGED <<ienable, active, mask, table, raised, raises, faults>>
  BY DEF Irqs!Leave
<1>2. Stacked /\ Sound(Irqs!Top)
  BY TopSound DEF IrqInv
<1>3. /\ Stacked' /\ Irqs!Top'.call = Irqs!NoCall /\ Irqs!Top'.at \in {"run", "isr"}
      /\ Len(stack') = Len(stack) - 1
  BY <1>1, <1>2, Left
<1>4. RegistersTyped'
  <2>1. pie' \in BOOLEAN
    BY <1>1, <1>2 DEF Sound, Activation
  <2>2. QED
    BY <1>1, <2>1 DEF IrqInv, RegistersTyped
<1>5. Irqs!Top.call = Irqs!NoCall
  BY <1>1, <1>2 DEF Sound, Came
<1>6. TableSound(table, active, Irqs!Top.call)'
  <2>1. TableSound(table', active', Irqs!Top'.call)
    BY <1>1, <1>3, <1>5 DEF IrqInv
  <2>2. QED
    BY <2>1 DEF TableSound
<1>7. NotGone'
  BY <1>3 DEF NotGone
<1>8. StackMoves
  <2>1. Len(stack) \in Nat
    BY <1>2, TopSound
  <2>2. Len(stack') # Len(stack)
    BY <1>3, <2>1, SMT
  <2>3. QED
    BY <1>1, <1>3, <2>2 DEF StackMoves
<1>9. QED
  BY <1>3, <1>4, <1>6, <1>7, <1>8 DEF IrqInv

\* The entry and the dispatch loop, with interrupts off.
LEMMA OffInEntry ==
  ASSUME IrqInv, Irqs!Top.at \notin {"run", "isr"}
  PROVE  /\ ~pie /\ Irqs!Top.saved = <<>> /\ Irqs!Top.old = <<>> /\ Irqs!Top.call = Irqs!NoCall
         /\ Irqs!Top.cause # "reset"
<1>1. Sound(Irqs!Top) /\ (pie <=> Enables(Irqs!Top))
  BY TopSound DEF IrqInv, Stacked
<1>2. QED
  BY <1>1 DEF Sound, Came, Enables, LetsIn

LEMMA LoopStep ==
  ASSUME IrqInv, NEW f \in Activation, stack' = Irqs!WithTop(f),
         ~pie, Irqs!Top.call = Irqs!NoCall, Irqs!Top.at # "run", f.at \notin {"run", "test"},
         f.epie = Irqs!Top.epie, f.saved = <<>>, f.old = <<>>, f.call = Irqs!NoCall, Came(f),
         UNCHANGED <<pie, ienable, active, mask, table, raised, raises, faults>>,
         f.at = "isr" => Irqs!Top.at = "isr" \/ f.irq \in raised
  PROVE  IrqInv' /\ StackMoves
<1>1. RegistersTyped'
  BY DEF IrqInv, RegistersTyped
<1>2. TableSound(table', active', f.call)
  BY DEF IrqInv
<1>3. Restores(f)
  BY DEF Restores
<1>4. ~Enables(f)
  BY DEF Enables, LetsIn
<1>5. QED
  BY <1>1, <1>2, <1>3, <1>4, TopStep DEF Sound

LEMMA TestStep ==
  ASSUME IrqInv, Irqs!Test
  PROVE  IrqInv' /\ StackMoves
<1> DEFINE t == Irqs!Top
           f == [t EXCEPT !.at = "entry"]
           g == [t EXCEPT !.at = "unknown", !.back = "next"]
<1>1. Sound(t) /\ t \in Activation /\ t.at = "test" /\ NotGone
  BY TopSound DEF IrqInv, Irqs!Test
<1>2. ~pie /\ t.saved = <<>> /\ t.old = <<>> /\ t.call = Irqs!NoCall /\ t.cause # "reset"
  BY <1>1, OffInEntry
<1>3. UNCHANGED <<pie, ienable, active, mask, table, raised, raises, faults>>
  BY DEF Irqs!Test, Irqs!Cpu
<1>4. IF Irqs!TestInterrupt THEN stack' = Irqs!WithTop(f) ELSE stack' = Irqs!WithTop(g)
  BY DEF Irqs!Test
<1>5. CASE Irqs!TestInterrupt
  <2>1. t.epie
    BY <1>5 DEF Irqs!TestInterrupt
  <2> HIDE DEF t
  <2>2. /\ f.at = "entry" /\ f.cause = t.cause /\ f.epie = t.epie /\ f.back = t.back
        /\ f.old = t.old /\ f.saved = t.saved /\ f.call = t.call
    BY <1>1 DEF Activation
  <2>3. f \in Activation
    BY <1>1 DEF Activation, Places
  <2> HIDE DEF f
  <2>4. Came(f)
    BY <1>1, <1>2, <2>1, <2>2 DEF Sound, Came
  <2>5. QED
    BY <1>1, <1>2, <1>3, <1>4, <1>5, <2>2, <2>3, <2>4, LoopStep DEF t
<1>6. CASE ~Irqs!TestInterrupt
  <2>1. t.cause = "interrupt" => Retracts /\ t.epie
    <3>1. t.cause = "interrupt" => t.epie /\ (Retracts \/ Irqs!Pending # {})
      BY <1>1 DEF Sound, Came, NotGone
    <3>2. QED
      BY <1>6, <3>1 DEF Irqs!TestInterrupt
  <2> HIDE DEF t
  <2>2. /\ g.at = "unknown" /\ g.cause = t.cause /\ g.epie = t.epie /\ g.back = "next"
        /\ g.old = t.old /\ g.saved = t.saved /\ g.call = t.call
    BY <1>1 DEF Activation
  <2>3. g \in Activation
    BY <1>1 DEF Activation, Places
  <2>4. t.cause \in {"interrupt", "fault"}
    BY <1>1, <1>2 DEF Activation
  <2> HIDE DEF g
  <2>5. Came(g)
    BY <1>2, <2>1, <2>2, <2>4 DEF Came
  <2>6. QED
    BY <1>1, <1>2, <1>3, <1>4, <1>6, <2>2, <2>3, <2>5, LoopStep DEF t
<1>7. QED
  BY <1>5, <1>6

LEMMA AskHandlerStep ==
  ASSUME IrqInv, Irqs!InterruptAssumption, Irqs!AskHandler
  PROVE  IrqInv' /\ StackMoves
<1> DEFINE t == Irqs!Top
           b == Irqs!Advice(Irqs!Cause)
           f == [t EXCEPT !.at = "exit", !.back = b]
           g == [t EXCEPT !.at = "stopped"]
<1>1. Sound(t) /\ t \in Activation /\ t.at = "unknown"
  BY TopSound DEF IrqInv, Irqs!AskHandler
<1>2. ~pie /\ t.saved = <<>> /\ t.old = <<>> /\ t.call = Irqs!NoCall /\ t.cause # "reset"
  BY <1>1, OffInEntry
<1>3. UNCHANGED <<pie, ienable, active, mask, table, raised, raises, faults>>
  BY DEF Irqs!AskHandler, Irqs!Cpu
<1>4. IF ExceptionHandler THEN stack' = Irqs!WithTop(f) ELSE stack' = Irqs!WithTop(g)
  BY DEF Irqs!AskHandler
<1>5. b \in {"this", "next"} /\ (b = "next" => /\ t.back = "next"
                                               /\ ExtraInfo => t.cause # "interrupt")
  BY <1>1 DEF Irqs!Advice, Irqs!Cause, Activation
<1>6. t.cause \in {"interrupt", "fault"}
  BY <1>1, <1>2 DEF Activation
<1> HIDE DEF t, b
<1>7. CASE ExceptionHandler
  <2>1. /\ f.at = "exit" /\ f.cause = t.cause /\ f.epie = t.epie /\ f.back = b
        /\ f.old = t.old /\ f.saved = t.saved /\ f.call = t.call
    BY <1>1 DEF Activation
  <2>2. f \in Activation
    BY <1>1, <1>5 DEF Activation, Places
  <2> HIDE DEF f
  <2>3. Came(f)
    BY <1>1, <1>2, <1>5, <1>6, <2>1 DEF Sound, Came
  <2>4. QED
    BY <1>1, <1>2, <1>3, <1>4, <1>7, <2>1, <2>2, <2>3, LoopStep DEF t
<1>8. CASE ~ExceptionHandler
  <2>1. /\ g.at = "stopped" /\ g.cause = t.cause /\ g.epie = t.epie /\ g.back = t.back
        /\ g.old = t.old /\ g.saved = t.saved /\ g.call = t.call
    BY <1>1 DEF Activation
  <2>2. g \in Activation
    BY <1>1 DEF Activation, Places
  <2> HIDE DEF g
  <2>3. Came(g)
    BY <1>1, <1>2, <1>6, <2>1 DEF Sound, Came
  <2>4. QED
    BY <1>1, <1>2, <1>3, <1>4, <1>8, <2>1, <2>2, <2>3, LoopStep DEF t
<1>9. QED
  BY <1>7, <1>8

\* The loop calls the handler of the smallest number that is pending.
LEMMA FirstPending ==
  ASSUME Irqs!InterruptAssumption, RegistersTyped, Irqs!Pending # {}
  PROVE  Irqs!Min(Irqs!Pending) \in Irqs!Pending
<1>1. NIrq \in Nat
  BY SMT DEF Irqs!InterruptAssumption
<1>2. Irqs!Pending \in SUBSET Nat
  BY <1>1 DEF RegistersTyped, Irqs!Irq, Irqs!Pending
<1>3. \E x \in Irqs!Pending : \A y \in Irqs!Pending : x <= y
  BY <1>2, SmallestOf
<1>4. QED
  BY <1>3, Zenon DEF Irqs!Min

LEMMA CalledStep ==
  ASSUME Irqs!InterruptAssumption, IrqInv, Irqs!Top.at \in {"entry", "again"},
         stack' = Irqs!WithTop(Irqs!Called(Irqs!Pending)),
         UNCHANGED <<Irqs!Cpu, table, raised, raises, faults>>
  PROVE  IrqInv' /\ StackMoves
<1> DEFINE t == Irqs!Top
           q == Irqs!Min(Irqs!Pending)
           f == [t EXCEPT !.at = "spin"]
           g == [t EXCEPT !.at = "isr", !.irq = q, !.entry = table[q], !.served = FALSE]
<1>1. Sound(t) /\ t \in Activation /\ t.at \in {"entry", "again"}
  BY TopSound DEF IrqInv
<1>2. ~pie /\ t.saved = <<>> /\ t.old = <<>> /\ t.call = Irqs!NoCall /\ t.cause # "reset"
  BY <1>1, OffInEntry
<1>3. UNCHANGED <<pie, ienable, active, mask, table, raised, raises, faults>>
  BY DEF Irqs!Cpu
<1>4. IF Irqs!Pending = {} THEN stack' = Irqs!WithTop(f) ELSE stack' = Irqs!WithTop(g)
  BY DEF Irqs!Called
<1>5. CASE Irqs!Pending = {}
  <2> HIDE DEF t
  <2>1. /\ f.at = "spin" /\ f.cause = t.cause /\ f.epie = t.epie /\ f.back = t.back
        /\ f.old = t.old /\ f.saved = t.saved /\ f.call = t.call
    BY <1>1 DEF Activation
  <2>2. f \in Activation
    BY <1>1 DEF Activation, Places
  <2> HIDE DEF f
  <2>3. Came(f)
    BY <1>1, <1>2, <2>1 DEF Sound, Came
  <2>4. QED
    BY <1>1, <1>2, <1>3, <1>4, <1>5, <2>1, <2>2, <2>3, LoopStep DEF t
<1>6. CASE Irqs!Pending # {}
  <2>1. q \in Irqs!Pending /\ NIrq \in Nat
    <3>1. NIrq \in Nat
      BY SMT DEF Irqs!InterruptAssumption
    <3>2. QED
      BY <1>6, <3>1, FirstPending DEF IrqInv
  <2>2. q \in raised /\ q \in active /\ q \in Irqs!Irq
    BY <2>1 DEF Irqs!Pending, IrqInv, RegistersTyped
  <2>3. q \in Nat
    BY <2>1, <2>2 DEF Irqs!Irq
  <2>4. table[q] \in Registered
    BY <2>2 DEF IrqInv, RegistersTyped
  <2>5. table[q].handler # Null /\ table[q].context = table[q].handler
    BY <1>2, <2>2, NotRegistering DEF IrqInv, TableSound
  <2> HIDE DEF t, q
  <2>6. /\ g.at = "isr" /\ g.cause = t.cause /\ g.epie = t.epie /\ g.back = t.back
        /\ g.old = t.old /\ g.saved = t.saved /\ g.call = t.call
        /\ g.irq = q /\ g.entry = table[q]
    BY <1>1 DEF Activation
  <2>7. g \in Activation
    BY <1>1, <2>3, <2>4 DEF Activation, Places
  <2> HIDE DEF g
  <2>8. Came(g)
    BY <1>1, <1>2, <2>2, <2>5, <2>6 DEF Sound, Came
  <2>9. QED
    BY <1>1, <1>2, <1>3, <1>4, <1>6, <2>2, <2>6, <2>7, <2>8, LoopStep DEF t
<1>7. QED
  BY <1>5, <1>6

LEMMA ServeStep ==
  ASSUME IrqInv, Irqs!Serve
  PROVE  IrqInv' /\ StackMoves
<1> DEFINE t == Irqs!Top
           f == [t EXCEPT !.served = TRUE]
<1>1. Sound(t) /\ t \in Activation /\ (pie <=> Enables(t))
  BY TopSound DEF IrqInv, Stacked
<1>2. t.at = "isr" /\ t.call = Irqs!NoCall /\ stack' = Irqs!WithTop(f) /\ pie' = pie
  BY DEF Irqs!Serve, Irqs!Cpu
<1>3. RegistersTyped'
  BY DEF Irqs!Serve, Irqs!Cpu, IrqInv, RegistersTyped
<1>4. TableSound(table', active', t.call)
  BY DEF Irqs!Serve, Irqs!Cpu, IrqInv
<1> HIDE DEF t
<1>5. /\ f.at = t.at /\ f.cause = t.cause /\ f.epie = t.epie /\ f.back = t.back
      /\ f.irq = t.irq /\ f.entry = t.entry /\ f.old = t.old
      /\ f.saved = t.saved /\ f.call = t.call
  BY <1>1 DEF Activation
<1>6. f \in Activation
  BY <1>1 DEF Activation
<1> HIDE DEF f
<1>7. (LetsIn(f) <=> LetsIn(t)) /\ (Enables(f) <=> Enables(t))
  BY <1>5 DEF LetsIn, Enables
<1>8. Restores(f)
  <2>1. \A n \in 1 .. Len(f.saved) : f.saved[n] <=> LetsIn(f) /\ n = 1
    BY <1>1, <1>5, <1>7, Zenon DEF Sound, Restores
  <2>2. f.call = Irqs!NoCall
    BY <1>2, <1>5
  <2>3. QED
    BY <2>1, <2>2, Zenon DEF Restores
<1>9. Came(f)
  BY <1>1, <1>5 DEF Sound, Came
<1>10. Sound(f) /\ f.at # "test" /\ f.at # "run" /\ (pie' <=> Enables(f))
  BY <1>1, <1>2, <1>5, <1>6, <1>7, <1>8, <1>9 DEF Sound
<1>11. QED
  BY <1>2, <1>3, <1>4, <1>5, <1>10, TopStep DEF t

LEMMA IsrReturnsStep ==
  ASSUME IrqInv, Irqs!IsrReturns
  PROVE  IrqInv' /\ StackMoves
<1> DEFINE t == Irqs!Top
           f == [t EXCEPT !.at = "again"]
<1>1. Sound(t) /\ t \in Activation /\ (pie <=> Enables(t))
  BY TopSound DEF IrqInv, Stacked
<1>2. /\ t.at = "isr" /\ t.call = Irqs!NoCall /\ t.saved = <<>> /\ t.old = <<>>
      /\ stack' = Irqs!WithTop(f)
      /\ UNCHANGED <<pie, ienable, active, mask, table, raised, raises, faults>>
  BY DEF Irqs!IsrReturns, Irqs!Cpu
<1>3. ~pie
  BY <1>1, <1>2 DEF Enables, LetsIn
<1> HIDE DEF t
<1>4. /\ f.at = "again" /\ f.cause = t.cause /\ f.epie = t.epie /\ f.back = t.back
      /\ f.old = t.old /\ f.saved = t.saved /\ f.call = t.call
  BY <1>1 DEF Activation
<1>5. f \in Activation
  BY <1>1 DEF Activation, Places
<1> HIDE DEF f
<1>6. Came(f)
  BY <1>1, <1>2, <1>4 DEF Sound, Came
<1>7. QED
  BY <1>2, <1>3, <1>4, <1>5, <1>6, LoopStep DEF t

LEMMA ExitStep ==
  ASSUME IrqInv, Irqs!Exit
  PROVE  IrqInv' /\ StackMoves
<1> DEFINE t == Irqs!Top
           f == [t EXCEPT !.at = "exit"]
<1>1. Sound(t) /\ t \in Activation
  BY TopSound DEF IrqInv
<1>2. /\ t.at = "again" /\ stack' = Irqs!WithTop(f)
      /\ UNCHANGED <<pie, ienable, active, mask, table, raised, raises, faults>>
  BY DEF Irqs!Exit, Irqs!Cpu
<1>3. ~pie /\ t.saved = <<>> /\ t.old = <<>> /\ t.call = Irqs!NoCall /\ t.cause # "reset"
  BY <1>2, OffInEntry
<1> HIDE DEF t
<1>4. /\ f.at = "exit" /\ f.cause = t.cause /\ f.epie = t.epie /\ f.back = t.back
      /\ f.old = t.old /\ f.saved = t.saved /\ f.call = t.call
  BY <1>1 DEF Activation
<1>5. f \in Activation
  BY <1>1 DEF Activation, Places
<1> HIDE DEF f
<1>6. Came(f)
  BY <1>1, <1>2, <1>3, <1>4 DEF Sound, Came
<1>7. QED
  BY <1>2, <1>3, <1>4, <1>5, <1>6, LoopStep DEF t

-----------------------------------------------------------------------------
LEMMA IrqInitially ==
  ASSUME Irqs!InterruptAssumption, Irqs!Init
  PROVE  IrqInv
<1> DEFINE f == [Irqs!Frame("run", "reset") EXCEPT !.epie = FALSE]
<1>1. /\ pie = TRUE /\ ienable = {} /\ active = {} /\ mask = Irqs!Irq
      /\ table = [q \in Irqs!Irq |-> Irqs!Empty]
      /\ raised = {} /\ raises = 0 /\ faults = 0 /\ stack = <<f>>
  BY DEF Irqs!Init
<1>2. MaxRaises \in Nat /\ MaxFaults \in Nat /\ NIrq \in Nat
  BY SMT DEF Irqs!InterruptAssumption
<1>3. Irqs!Empty \in Registered /\ Irqs!Empty.handler = Irqs!Empty.context
  BY DEF Irqs!Empty, Registered
<1>4. RegistersTyped
  <2>1. 0 \in 0 .. MaxRaises /\ 0 \in 0 .. MaxFaults
    BY <1>2, SMT
  <2>2. QED
    BY <1>1, <1>3, <2>1 DEF RegistersTyped
<1>5. /\ f.at = "run" /\ f.cause = "reset" /\ f.epie = FALSE /\ f.back = "this"
      /\ f.irq = NIrq /\ f.entry = Irqs!Empty /\ f.served = FALSE /\ f.old = <<>>
      /\ f.saved = <<>> /\ f.call = Irqs!NoCall
  BY DEF Irqs!Frame
<1>6. f \in Activation
  <2> DEFINE g == Irqs!Frame("run", "reset")
  <2>1. g \in Activation
    <3>1. <<>> \in Seq(BOOLEAN) /\ pie \in BOOLEAN
      BY <1>1
    <3>2. QED
      BY <1>2, <1>3, <3>1 DEF Activation, Places, Irqs!Frame
  <2> HIDE DEF g
  <2>2. [g EXCEPT !.epie = FALSE] \in Activation
    BY <2>1 DEF Activation
  <2>3. QED
    BY <2>2 DEF g
<1> HIDE DEF f
<1>7. Restores(f)
  BY <1>5 DEF Restores
<1>8. Came(f)
  BY <1>5 DEF Came
<1>9. Enables(f)
  BY <1>5 DEF Enables, LetsIn
<1>10. stack \in Seq(Activation) /\ Len(stack) = 1 /\ Irqs!Top = f
  BY <1>1, <1>6 DEF Irqs!Top
<1>11. Stacked
  <2>1. \A n \in 1 .. Len(stack) : Sound(stack[n]) /\ (stack[n].at = "run" <=> n = 1)
    BY <1>1, <1>5, <1>6, <1>7, <1>8, <1>10 DEF Sound
  <2>2. Len(stack) >= 1 /\ 1 .. Len(stack) - 1 = {}
    BY <1>10, SMT
  <2>3. pie <=> Enables(Irqs!Top)
    BY <1>1, <1>9, <1>10
  <2>4. QED
    BY <1>10, <2>1, <2>2, <2>3 DEF Stacked
<1>12. TableSound(table, active, Irqs!Top.call)
  BY <1>1, <1>3, <1>5, <1>10 DEF TableSound
<1>13. NotGone
  BY <1>5, <1>10 DEF NotGone
<1>14. QED
  BY <1>4, <1>11, <1>12, <1>13 DEF IrqInv

LEMMA IrqNext ==
  ASSUME Irqs!InterruptAssumption, IrqInv, [Irqs!Next]_(Irqs!vars)
  PROVE  IrqInv' /\ StackMoves
<1>1. CASE UNCHANGED Irqs!vars
  <2>1. stack' = stack /\ pie' = pie /\ Irqs!Top' = Irqs!Top
    BY <1>1 DEF Irqs!vars, Irqs!Top
  <2>2. RegistersTyped'
    BY <1>1 DEF Irqs!vars, IrqInv, RegistersTyped
  <2>3. TableSound(table', active', Irqs!Top.call)
    BY <1>1 DEF Irqs!vars, IrqInv
  <2>4. NotGone'
    BY <1>1, <2>1 DEF Irqs!vars, IrqInv, NotGone, Irqs!Pending
  <2>5. QED
    BY <2>1, <2>2, <2>3, <2>4, KeptStep
<1>2. CASE Irqs!DisableAll
  BY <1>2, DisableAllStep
<1>3. CASE Irqs!EnableAllAgain
  BY <1>3, EnableAllAgainStep
<1>4. CASE Irqs!Interruptible
  BY <1>4, InterruptibleStep
<1>5. CASE Irqs!NonInterruptible
  BY <1>5, NonInterruptibleStep
<1>6. CASE Irqs!Take
  BY <1>6, TakeStep
<1>7. CASE Irqs!Fault
  BY <1>7, FaultStep
<1>8. CASE Irqs!Finishing
  <2>1. CASE Irqs!RegisterContext
    BY <2>1, RegisterContextStep
  <2>2. CASE Irqs!RegisterEnable
    BY <2>2, RegisterEnableStep
  <2>3. CASE Irqs!RegisterDone
    BY <2>3, RegisterDoneStep
  <2>4. CASE Irqs!Test
    BY <2>4, TestStep
  <2>5. CASE Irqs!AskHandler
    BY <2>5, AskHandlerStep
  <2>6. CASE Irqs!Dispatch
    BY <2>6, CalledStep DEF Irqs!Dispatch
  <2>7. CASE Irqs!Serve
    BY <2>7, ServeStep
  <2>8. CASE Irqs!IsrReturns
    BY <2>8, IsrReturnsStep
  <2>9. CASE Irqs!DispatchAgain
    BY <2>9, CalledStep DEF Irqs!DispatchAgain, Irqs!StillPending
  <2>10. CASE Irqs!Exit
    BY <2>10, ExitStep
  <2>11. CASE Irqs!Leave
    BY <2>11, LeaveStep
  <2>12. QED
    BY <1>8, <2>1, <2>2, <2>3, <2>4, <2>5, <2>6, <2>7, <2>8, <2>9, <2>10, <2>11
    DEF Irqs!Finishing
<1>9. ASSUME NEW q \in Irqs!Irq, Irqs!IrqEnable(q) PROVE IrqInv' /\ StackMoves
  BY <1>9, IrqEnableStep
<1>10. ASSUME NEW q \in Irqs!Irq, Irqs!IrqDisable(q) PROVE IrqInv' /\ StackMoves
  BY <1>10, IrqDisableStep
<1>11. ASSUME NEW q \in Irqs!Irq, Irqs!Raise(q) PROVE IrqInv' /\ StackMoves
  BY <1>11, RaiseStep
<1>12. ASSUME NEW q \in Irqs!Irq, Irqs!Retract(q) PROVE IrqInv' /\ StackMoves
  BY <1>12, RetractStep
<1>13. ASSUME NEW q \in Irqs!Irq, NEW h \in Handler \cup {Null}, Irqs!RegisterHandler(q, h)
       PROVE  IrqInv' /\ StackMoves
  BY <1>13, RegisterHandlerStep
<1>14. QED
  BY <1>1, <1>2, <1>3, <1>4, <1>5, <1>6, <1>7, <1>8, <1>9, <1>10, <1>11, <1>12, <1>13
  DEF Irqs!Next

LEMMA IrqInvariant ==
  ASSUME Irqs!InterruptAssumption
  PROVE  Irqs!Spec => []IrqInv
<1>1. Irqs!Init => IrqInv
  BY IrqInitially
<1>2. IrqInv /\ [Irqs!Next]_(Irqs!vars) => IrqInv'
  BY IrqNext
<1>3. QED
  BY <1>1, <1>2, PTL DEF Irqs!Spec

\* What has not returned lies below a handler or a fault, so that a section is
\* interrupted by nothing: at most a fault is above it.
LEMMA SectionOnTop ==
  ASSUME Stacked, NEW i \in 1 .. Len(stack), stack[i].saved # <<>> \/ stack[i].call # Irqs!NoCall
  PROVE  /\ ~pie
         /\ \A j \in i + 1 .. Len(stack) : stack[j].cause = "fault" /\ stack[j].at # "isr"
<1> DEFINE n == Len(stack)
<1>1. n \in Nat /\ i \in Nat /\ i >= 1 /\ i <= n /\ Irqs!Top = stack[n]
  BY TopSound DEF Irqs!Top
<1>2. ~Enables(stack[i])
  BY DEF Enables
<1> HIDE DEF n
<1>3. CASE i = n
  <2>1. i + 1 .. n = {}
    BY <1>1, <1>3, SMT
  <2>2. ~pie
    BY <1>1, <1>2, <1>3 DEF Stacked
  <2>3. QED
    BY <2>1, <2>2 DEF n
<1>4. CASE i # n
  <2>1. i \in 1 .. n - 1 /\ i + 1 \in 1 .. n /\ i + 1 # 1
    BY <1>1, <1>4, SMT
  <2>2. Sound(stack[i + 1]) /\ stack[i + 1].at # "run" /\ ~stack[i + 1].epie
    BY <1>2, <2>1 DEF Stacked, n
  <2>3. stack[i + 1].cause = "fault" /\ stack[i + 1].at # "isr"
    BY <2>2 DEF Sound, Came, Activation
  <2>4. i + 1 = n
    <3>1. i + 1 \in 1 .. n - 1 => stack[i + 1].at \in {"run", "isr"}
      BY DEF Stacked, n
    <3>2. i + 1 \notin 1 .. n - 1
      BY <2>2, <2>3, <3>1
    <3>3. QED
      BY <1>1, <2>1, <3>2, SMT
  <2>5. ~pie
    <3>1. Irqs!Top = stack[i + 1] /\ (pie <=> Enables(Irqs!Top))
      BY <1>1, <2>4 DEF Stacked
    <3>2. stack[i + 1].at \notin {"run", "isr"}
      BY <2>2, <2>3
    <3>3. ~Enables(stack[i + 1])
      BY <2>2, <3>2 DEF Enables, LetsIn, Sound, Came
    <3>4. QED
      BY <3>1, <3>3
  <2>6. \A j \in i + 1 .. n : j = i + 1
    BY <1>1, <2>4, SMT
  <2>7. QED
    BY <2>3, <2>5, <2>6 DEF n
<1>5. QED
  BY <1>3, <1>4

\* CalledWithOwnContext and CriticalKeepsOff (alt_irq_handler.c,
\* alt_irq_register.c, alt_irq.h), and CalledWhenRaised: for any number of
\* interrupts, nesting, and interleaving of devices, handlers, registrations
\* and faults, every handler called has its own context and a request, and
\* nothing but a fault comes upon a critical section.
THEOREM DispatchSound ==
  ASSUME Irqs!InterruptAssumption
  PROVE  Irqs!Spec => /\ [](Irqs!CalledWithOwnContext /\ Irqs!CriticalKeepsOff)
                      /\ Irqs!CalledWhenRaised
<1>1. IrqInv => Irqs!CalledWithOwnContext
  <2>1. ASSUME IrqInv, NEW i \in Irqs!Isrs
        PROVE  stack[i].entry.handler # Null
               /\ stack[i].entry.context = stack[i].entry.handler
    <3>1. i \in 1 .. Len(stack) /\ stack[i].at = "isr"
      <4>1. Len(stack) \in Nat
        BY <2>1, TopSound DEF IrqInv
      <4>2. QED
        BY <4>1 DEF Irqs!Isrs
    <3>2. Sound(stack[i])
      BY <2>1, <3>1 DEF IrqInv, Stacked
    <3>3. QED
      BY <3>1, <3>2 DEF Sound, Came
  <2>2. QED
    BY <2>1 DEF Irqs!CalledWithOwnContext
<1>2. IrqInv => Irqs!CriticalKeepsOff
  BY SectionOnTop, Zenon DEF IrqInv, Irqs!CriticalKeepsOff
<1>3. IrqInv /\ [Irqs!Next]_(Irqs!vars)
        => [\A q \in Irqs!Irq :
              (/\ Len(stack') = Len(stack) /\ Irqs!Top'.at = "isr" /\ Irqs!Top'.irq = q
               /\ ~Irqs!Top'.served /\ Irqs!Top.at # "isr") => q \in raised]_(Irqs!vars)
  <2>1. IrqInv /\ [Irqs!Next]_(Irqs!vars) => StackMoves
    BY IrqNext
  <2>2. QED
    BY <2>1 DEF StackMoves
<1>4. QED
  BY <1>1, <1>2, <1>3, IrqInvariant, PTL DEF Irqs!Spec, Irqs!CalledWhenRaised

\* SkipsOnlyFaults (alt_instruction_exception_entry.c): if devices keep their
\* requests up until served, or the processor tells causes apart, no
\* instruction is skipped that did not raise the exception itself.
THEOREM OnlyFaultsSkipped ==
  ASSUME Irqs!InterruptAssumption, ExtraInfo \/ ~Retracts
  PROVE  Irqs!Spec => Irqs!SkipsOnlyFaults
<1>1. IrqInv /\ [Irqs!Next]_(Irqs!vars)
        => [Len(stack') < Len(stack) /\ Irqs!Top.back = "next" => Irqs!Top.cause = "fault"]_(Irqs!vars)
  <2>1. ASSUME IrqInv, [Irqs!Next]_(Irqs!vars), Len(stack') < Len(stack), Irqs!Top.back = "next"
        PROVE  Irqs!Top.cause = "fault"
    <3>1. Irqs!Top.at = "exit"
      BY <2>1, IrqNext DEF StackMoves
    <3>2. Sound(Irqs!Top)
      BY <2>1, TopSound DEF IrqInv
    <3>3. QED
      BY <2>1, <3>1, <3>2 DEF Sound, Came
  <2>2. QED
    BY <2>1
<1>2. QED
  BY <1>1, IrqInvariant, PTL DEF Irqs!Spec, Irqs!SkipsOnlyFaults

-----------------------------------------------------------------------------
\* Handlers that let others in: each open one keeps off what is not of higher
\* priority, and has saved the mask that kept off what the ones below it do.
Open(n) == stack[n].old # <<>>

HandlersDoNotCall ==
  \A n \in 1 .. Len(stack) :
     stack[n].at = "isr" => stack[n].saved = <<>> /\ stack[n].call = Irqs!NoCall

Masked ==
  /\ ienable = active \cap mask
  /\ \A n \in 1 .. Len(stack) : Open(n) => mask \subseteq Irqs!Higher(stack[n].irq)
  /\ (\A n \in 1 .. Len(stack) : ~Open(n)) => mask = Irqs!Irq

MaskSaved ==
  \A n \in 1 .. Len(stack) : Open(n) =>
     /\ \A k \in 1 .. n - 1 : Open(k) => stack[n].old[1] \subseteq Irqs!Higher(stack[k].irq)
     /\ (\A k \in 1 .. n - 1 : ~Open(k)) => stack[n].old[1] = Irqs!Irq

Ranked ==
  \A n \in 1 .. Len(stack) : stack[n].at = "isr" =>
     /\ stack[n].irq <= (NIrq + 1) - n
     /\ \A k \in 1 .. n - 1 : stack[k].at = "isr" => stack[n].irq < stack[k].irq

NotTooDeep == Len(stack) <= (NIrq + faults) + 1

NestInv == HandlersDoNotCall /\ Masked /\ MaskSaved /\ Ranked /\ NotTooDeep

\* A step that leaves open handlers open and the mask alone.
LEMMA OpenKept ==
  ASSUME Stacked, NestInv, Len(stack') = Len(stack), mask' = mask,
         ienable' = active' \cap mask',
         \A n \in 1 .. Len(stack) : stack'[n].old = stack[n].old
                                   /\ (Open(n) => stack'[n].irq = stack[n].irq)
  PROVE  Masked' /\ MaskSaved'
<1> DEFINE n == Len(stack)
<1>1. n \in Nat /\ Len(stack') = n
  BY TopSound
<1>2. \A k \in 1 .. n : /\ stack'[k].old = stack[k].old
                        /\ Open(k) => stack'[k].irq = stack[k].irq
                        /\ Open(k)' <=> Open(k)
  BY DEF Open
<1> HIDE DEF n
<1>3. Masked'
  BY <1>1, <1>2 DEF NestInv, Masked, n
<1>4. MaskSaved'
  <2>1. ASSUME NEW k \in 1 .. n, Open(k)'
        PROVE  /\ \A j \in 1 .. k - 1 : Open(j)' => stack'[k].old[1] \subseteq Irqs!Higher(stack'[j].irq)
               /\ (\A j \in 1 .. k - 1 : ~Open(j)') => stack'[k].old[1] = Irqs!Irq
    <3>1. \A j \in 1 .. k - 1 : j \in 1 .. n
      BY <1>1, SMT
    <3>2. Open(k) /\ stack'[k].old = stack[k].old
      BY <1>2, <2>1
    <3>3. /\ \A j \in 1 .. k - 1 : Open(j) => stack[k].old[1] \subseteq Irqs!Higher(stack[j].irq)
          /\ (\A j \in 1 .. k - 1 : ~Open(j)) => stack[k].old[1] = Irqs!Irq
      BY <3>2 DEF NestInv, MaskSaved, n
    <3>4. QED
      BY <1>2, <3>1, <3>2, <3>3
  <2>2. QED
    BY <1>1, <2>1 DEF MaskSaved
<1>5. QED
  BY <1>3, <1>4

\* One that calls no handler either.
LEMMA NestKept ==
  ASSUME Stacked, NestInv, Len(stack') = Len(stack), mask' = mask, faults' = faults,
         ienable' = active' \cap mask',
         \A n \in 1 .. Len(stack) :
            /\ stack'[n].old = stack[n].old /\ stack'[n].irq = stack[n].irq
            /\ stack'[n].at = "isr" =>
                 stack[n].at = "isr" /\ stack'[n].saved = <<>> /\ stack'[n].call = Irqs!NoCall
  PROVE  NestInv'
<1> DEFINE n == Len(stack)
<1>1. n \in Nat /\ Len(stack') = n
  BY TopSound
<1>2. \A k \in 1 .. n : /\ stack'[k].irq = stack[k].irq
                        /\ stack'[k].at = "isr" => stack[k].at = "isr"
  OBVIOUS
<1>3. Masked' /\ MaskSaved'
  BY OpenKept
<1> HIDE DEF n
<1>4. HandlersDoNotCall'
  BY <1>1 DEF HandlersDoNotCall, n
<1>5. Ranked'
  <2>1. ASSUME NEW k \in 1 .. n, stack'[k].at = "isr"
        PROVE  /\ stack'[k].irq <= (NIrq + 1) - k
               /\ \A j \in 1 .. k - 1 : stack'[j].at = "isr" => stack'[k].irq < stack'[j].irq
    <3>1. \A j \in 1 .. k - 1 : j \in 1 .. n
      BY <1>1, SMT
    <3>2. stack[k].at = "isr" /\ stack'[k].irq = stack[k].irq
      BY <1>2, <2>1
    <3>3. /\ stack[k].irq <= (NIrq + 1) - k
          /\ \A j \in 1 .. k - 1 : stack[j].at = "isr" => stack[k].irq < stack[j].irq
      BY <3>2 DEF NestInv, Ranked, n
    <3>4. QED
      BY <1>2, <3>1, <3>2, <3>3
  <2>2. QED
    BY <1>1, <2>1 DEF Ranked
<1>6. NotTooDeep'
  BY <1>1 DEF NestInv, NotTooDeep, n
<1>7. QED
  BY <1>3, <1>4, <1>5, <1>6 DEF NestInv

LEMMA TopReplaced ==
  ASSUME Stacked, NEW f, stack' = Irqs!WithTop(f)
  PROVE  /\ Len(stack') = Len(stack) /\ stack'[Len(stack)] = f
         /\ \A n \in 1 .. Len(stack) : n # Len(stack) => stack'[n] = stack[n]
<1>1. stack \in Seq(Activation) /\ Len(stack) \in Nat /\ Len(stack) >= 1
  BY TopSound DEF Stacked
<1>2. QED
  BY <1>1 DEF Irqs!WithTop

LEMMA TopNest ==
  ASSUME Stacked, NestInv, NEW f, stack' = Irqs!WithTop(f),
         f.old = Irqs!Top.old, f.irq = Irqs!Top.irq,
         f.at = "isr" => Irqs!Top.at = "isr" /\ f.saved = <<>> /\ f.call = Irqs!NoCall,
         mask' = mask, faults' = faults, ienable' = active' \cap mask'
  PROVE  NestInv'
<1>1. /\ Len(stack') = Len(stack) /\ stack'[Len(stack)] = f
      /\ \A n \in 1 .. Len(stack) : n # Len(stack) => stack'[n] = stack[n]
  BY TopReplaced
<1>2. Irqs!Top = stack[Len(stack)]
  BY DEF Irqs!Top
<1>3. ASSUME NEW n \in 1 .. Len(stack)
      PROVE  /\ stack'[n].old = stack[n].old /\ stack'[n].irq = stack[n].irq
             /\ stack'[n].at = "isr" =>
                  stack[n].at = "isr" /\ stack'[n].saved = <<>> /\ stack'[n].call = Irqs!NoCall
  <2>1. CASE n = Len(stack)
    BY <1>1, <1>2, <2>1
  <2>2. CASE n # Len(stack)
    BY <1>1, <2>2 DEF NestInv, HandlersDoNotCall
  <2>3. QED
    BY <2>1, <2>2
<1>4. QED
  BY <1>1, <1>3, NestKept

\* The program has no handler below it, and so nothing masked.
LEMMA NothingMasked ==
  ASSUME Stacked, NestInv, Irqs!Top.at = "run"
  PROVE  mask = Irqs!Irq
<1>1. Len(stack) = 1 /\ Irqs!Top = stack[1]
  BY TopSound
<1>2. \A n \in 1 .. Len(stack) : n = 1
  BY <1>1, SMT
<1>3. ~Open(1)
  BY <1>1, TopSound DEF Open, Sound, Came
<1>4. QED
  BY <1>2, <1>3 DEF NestInv, Masked

\* While handlers make no calls, whoever makes one is the program.
LEMMA ProgramCalls ==
  ASSUME Stacked, NestInv, ~CallsInIsr, Irqs!MayCall \/ Irqs!Top.call # Irqs!NoCall
  PROVE  Irqs!Top.at = "run"
<1>1. Sound(Irqs!Top) /\ Len(stack) \in 1 .. Len(stack) /\ Irqs!Top = stack[Len(stack)]
  <2>1. Len(stack) \in Nat /\ Len(stack) >= 1
    BY TopSound
  <2>2. Len(stack) \in 1 .. Len(stack)
    BY <2>1, SMT
  <2>3. QED
    BY <2>2, TopSound
<1>2. CASE Irqs!MayCall
  BY <1>2 DEF Irqs!MayCall
<1>3. CASE Irqs!Top.call # Irqs!NoCall
  BY <1>1, <1>3 DEF Sound, Came, NestInv, HandlersDoNotCall
<1>4. QED
  BY <1>2, <1>3

\* Below what an interrupt brought, every handler is open.
LEMMA AllOpenBelow ==
  ASSUME Stacked, NEW i \in 1 .. Len(stack), stack[i].epie, stack[i].at # "run",
         NEW j \in 1 .. i - 1
  PROVE  j = 1 \/ Open(j)
<1> DEFINE n == Len(stack)
<1>1. n \in Nat /\ i \in Nat /\ j \in Nat /\ j < i /\ i <= n /\ j >= 1
  BY TopSound
<1>2. j \in 1 .. n - 1 /\ j \in 1 .. n /\ j + 1 \in 1 .. n /\ j + 1 # 1
  BY <1>1, SMT
<1> HIDE DEF n
<1>3. stack[j + 1].epie
  <2>1. CASE j + 1 = i
    BY <2>1
  <2>2. CASE j + 1 # i
    <3>1. j + 1 \in 1 .. n - 1
      BY <1>1, <2>2, SMT
    <3>2. stack[j + 1].at \in {"run", "isr"} /\ stack[j + 1].at # "run" /\ Sound(stack[j + 1])
      BY <1>2, <3>1 DEF Stacked, n
    <3>3. QED
      BY <3>2 DEF Sound, Came
  <2>3. QED
    BY <2>1, <2>2
<1>4. Enables(stack[j])
  BY <1>2, <1>3 DEF Stacked, n
<1>5. stack[j].at = "run" <=> j = 1
  BY <1>2 DEF Stacked, n
<1>6. QED
  BY <1>4, <1>5 DEF Enables, LetsIn, Open

\* The program's calls, while handlers make none.
LEMMA CallNest ==
  ASSUME IrqInv, NestInv, RegistersTyped', ~CallsInIsr,
         \/ Irqs!DisableAll \/ Irqs!EnableAllAgain
         \/ Irqs!RegisterContext \/ Irqs!RegisterEnable \/ Irqs!RegisterDone
         \/ \E q \in Irqs!Irq : Irqs!IrqEnable(q) \/ Irqs!IrqDisable(q)
         \/ \E q \in Irqs!Irq, h \in Handler \cup {Null} : Irqs!RegisterHandler(q, h)
  PROVE  NestInv'
<1>1. Stacked /\ Irqs!Top \in Activation /\ ienable = active \cap mask
  BY TopSound DEF IrqInv, NestInv, Masked
<1>2. Irqs!Top.at = "run"
  <2>1. Irqs!MayCall \/ Irqs!Top.call # Irqs!NoCall
    <3>1. Irqs!RegisterContext \/ Irqs!RegisterEnable \/ Irqs!RegisterDone => Irqs!Top.call # Irqs!NoCall
      <4>1. Irqs!NoCall.step = "none"
        BY NotRegistering
      <4>2. Irqs!RegisterContext => Irqs!Top.call.step = "context"
        BY DEF Irqs!RegisterContext
      <4>3. Irqs!RegisterEnable => Irqs!Top.call.step = "enable"
        BY DEF Irqs!RegisterEnable
      <4>4. Irqs!RegisterDone => Irqs!Top.call.step = "restore"
        BY DEF Irqs!RegisterDone
      <4>5. QED
        BY <4>1, <4>2, <4>3, <4>4
    <3>2. Irqs!DisableAll \/ Irqs!EnableAllAgain => Irqs!MayCall
      BY DEF Irqs!DisableAll, Irqs!EnableAllAgain
    <3>3. \A q \in Irqs!Irq : Irqs!IrqEnable(q) \/ Irqs!IrqDisable(q) => Irqs!MayCall
      BY DEF Irqs!IrqEnable, Irqs!IrqDisable
    <3>4. \A q \in Irqs!Irq, h \in Handler \cup {Null} : Irqs!RegisterHandler(q, h) => Irqs!MayCall
      BY DEF Irqs!RegisterHandler
    <3>5. QED
      BY <3>1, <3>2, <3>3, <3>4
  <2>2. QED
    BY <1>1, <2>1, ProgramCalls
<1>3. mask = Irqs!Irq /\ active' \subseteq Irqs!Irq
  BY <1>1, <1>2, NothingMasked DEF RegistersTyped
<1>4. ASSUME NEW f, f.at = "run", f.old = Irqs!Top.old, f.irq = Irqs!Top.irq, stack' = Irqs!WithTop(f),
             mask' = mask, faults' = faults,
             UNCHANGED <<active, ienable>> \/ ienable' = active'
      PROVE  NestInv'
  <2>1. ienable' = active' \cap mask'
    BY <1>1, <1>3, <1>4
  <2>2. QED
    BY <1>1, <1>4, <2>1, TopNest
<1>5. CASE Irqs!DisableAll
  <2> DEFINE f == [Irqs!Top EXCEPT !.saved = Append(@, pie)]
  <2>1. f.at = "run" /\ f.old = Irqs!Top.old /\ f.irq = Irqs!Top.irq
    BY <1>1, <1>2 DEF Activation
  <2>2. stack' = Irqs!WithTop(f) /\ UNCHANGED <<mask, faults, active, ienable>>
    BY <1>5 DEF Irqs!DisableAll
  <2> HIDE DEF f
  <2>3. QED
    BY <1>4, <2>1, <2>2
<1>6. CASE Irqs!EnableAllAgain
  <2> DEFINE f == [Irqs!Top EXCEPT !.saved = SubSeq(@, 1, Len(@) - 1)]
  <2>1. f.at = "run" /\ f.old = Irqs!Top.old /\ f.irq = Irqs!Top.irq
    BY <1>1, <1>2 DEF Activation
  <2>2. stack' = Irqs!WithTop(f) /\ UNCHANGED <<mask, faults, active, ienable>>
    BY <1>6 DEF Irqs!EnableAllAgain
  <2> HIDE DEF f
  <2>3. QED
    BY <1>4, <2>1, <2>2
<1>7. CASE Irqs!RegisterContext
  <2> DEFINE f == [Irqs!Top EXCEPT !.call.step = "enable"]
  <2>1. f.at = "run" /\ f.old = Irqs!Top.old /\ f.irq = Irqs!Top.irq
    BY <1>1, <1>2 DEF Activation
  <2>2. stack' = Irqs!WithTop(f) /\ UNCHANGED <<mask, faults, active, ienable>>
    BY <1>7 DEF Irqs!RegisterContext
  <2> HIDE DEF f
  <2>3. QED
    BY <1>4, <2>1, <2>2
<1>8. CASE Irqs!RegisterEnable
  <2> DEFINE f == [Irqs!Top EXCEPT !.call.step = "restore"]
  <2>1. f.at = "run" /\ f.old = Irqs!Top.old /\ f.irq = Irqs!Top.irq
    BY <1>1, <1>2 DEF Activation
  <2>2. stack' = Irqs!WithTop(f) /\ UNCHANGED <<mask, faults>> /\ ienable' = active'
    BY <1>8 DEF Irqs!RegisterEnable, Irqs!Activate
  <2> HIDE DEF f
  <2>3. QED
    BY <1>4, <2>1, <2>2
<1>9. CASE Irqs!RegisterDone
  <2> DEFINE f == [Irqs!Top EXCEPT !.call = Irqs!NoCall]
  <2>1. f.at = "run" /\ f.old = Irqs!Top.old /\ f.irq = Irqs!Top.irq
    BY <1>1, <1>2 DEF Activation
  <2>2. stack' = Irqs!WithTop(f) /\ UNCHANGED <<mask, faults, active, ienable>>
    BY <1>9 DEF Irqs!RegisterDone
  <2> HIDE DEF f
  <2>3. QED
    BY <1>4, <2>1, <2>2
<1>10. ASSUME NEW q \in Irqs!Irq, Irqs!IrqEnable(q) \/ Irqs!IrqDisable(q)
       PROVE  NestInv'
  <2>1. /\ stack' = stack /\ mask' = mask /\ faults' = faults /\ ienable' = active'
    BY <1>10 DEF Irqs!IrqEnable, Irqs!IrqDisable, Irqs!Activate
  <2>2. ienable' = active' \cap mask'
    BY <1>3, <2>1
  <2>3. QED
    BY <1>1, <2>1, <2>2, NestKept DEF NestInv, HandlersDoNotCall
<1>11. ASSUME NEW q \in Irqs!Irq, NEW h \in Handler \cup {Null}, Irqs!RegisterHandler(q, h)
       PROVE  NestInv'
  <2> DEFINE f == [Irqs!Top EXCEPT !.call =
                        [step |-> "context", irq |-> q, handler |-> h, saved |-> pie]]
  <2>1. f.at = "run" /\ f.old = Irqs!Top.old /\ f.irq = Irqs!Top.irq
    BY <1>1, <1>2 DEF Activation
  <2>2. stack' = Irqs!WithTop(f) /\ UNCHANGED <<mask, faults, active, ienable>>
    BY <1>11 DEF Irqs!RegisterHandler
  <2> HIDE DEF f
  <2>3. QED
    BY <1>4, <2>1, <2>2
<1>12. QED
  BY <1>5, <1>6, <1>7, <1>8, <1>9, <1>10, <1>11

\* The steps of the entry and of the loop that call no handler, and devices.
LEMMA LoopNest ==
  ASSUME IrqInv, NestInv,
         \/ Irqs!Test \/ Irqs!AskHandler \/ Irqs!Serve \/ Irqs!IsrReturns \/ Irqs!Exit
         \/ \E q \in Irqs!Irq : Irqs!Raise(q) \/ Irqs!Retract(q)
  PROVE  NestInv'
<1>1. Stacked /\ Irqs!Top \in Activation /\ ienable = active \cap mask
  BY TopSound DEF IrqInv, NestInv, Masked
<1>2. UNCHANGED <<ienable, active, mask, faults>>
  BY DEF Irqs!Test, Irqs!AskHandler, Irqs!Serve, Irqs!IsrReturns, Irqs!Exit, Irqs!Raise,
         Irqs!Retract, Irqs!Cpu
<1>3. ASSUME NEW f, f.at # "isr", f.old = Irqs!Top.old, f.irq = Irqs!Top.irq, stack' = Irqs!WithTop(f)
      PROVE  NestInv'
  BY <1>1, <1>2, <1>3, TopNest
<1>4. CASE Irqs!Test
  <2> DEFINE f == [Irqs!Top EXCEPT !.at = "entry"]
             g == [Irqs!Top EXCEPT !.at = "unknown", !.back = "next"]
  <2>1. /\ f.at # "isr" /\ f.old = Irqs!Top.old /\ f.irq = Irqs!Top.irq
        /\ g.at # "isr" /\ g.old = Irqs!Top.old /\ g.irq = Irqs!Top.irq
    BY <1>1 DEF Activation
  <2>2. stack' = Irqs!WithTop(f) \/ stack' = Irqs!WithTop(g)
    BY <1>4 DEF Irqs!Test
  <2> HIDE DEF f, g
  <2>3. QED
    BY <1>3, <2>1, <2>2
<1>5. CASE Irqs!AskHandler
  <2> DEFINE f == [Irqs!Top EXCEPT !.at = "exit", !.back = Irqs!Advice(Irqs!Cause)]
             g == [Irqs!Top EXCEPT !.at = "stopped"]
  <2>1. /\ f.at # "isr" /\ f.old = Irqs!Top.old /\ f.irq = Irqs!Top.irq
        /\ g.at # "isr" /\ g.old = Irqs!Top.old /\ g.irq = Irqs!Top.irq
    BY <1>1 DEF Activation
  <2>2. stack' = Irqs!WithTop(f) \/ stack' = Irqs!WithTop(g)
    BY <1>5 DEF Irqs!AskHandler
  <2> HIDE DEF f, g
  <2>3. QED
    BY <1>3, <2>1, <2>2
<1>6. CASE Irqs!IsrReturns
  <2> DEFINE f == [Irqs!Top EXCEPT !.at = "again"]
  <2>1. f.at # "isr" /\ f.old = Irqs!Top.old /\ f.irq = Irqs!Top.irq
    BY <1>1 DEF Activation
  <2>2. stack' = Irqs!WithTop(f)
    BY <1>6 DEF Irqs!IsrReturns
  <2> HIDE DEF f
  <2>3. QED
    BY <1>3, <2>1, <2>2
<1>7. CASE Irqs!Exit
  <2> DEFINE f == [Irqs!Top EXCEPT !.at = "exit"]
  <2>1. f.at # "isr" /\ f.old = Irqs!Top.old /\ f.irq = Irqs!Top.irq
    BY <1>1 DEF Activation
  <2>2. stack' = Irqs!WithTop(f)
    BY <1>7 DEF Irqs!Exit
  <2> HIDE DEF f
  <2>3. QED
    BY <1>3, <2>1, <2>2
<1>8. CASE Irqs!Serve
  <2> DEFINE f == [Irqs!Top EXCEPT !.served = TRUE]
  <2>1. /\ f.at = Irqs!Top.at /\ f.old = Irqs!Top.old /\ f.irq = Irqs!Top.irq
        /\ f.saved = Irqs!Top.saved /\ f.call = Irqs!Top.call
    BY <1>1 DEF Activation
  <2>2. stack' = Irqs!WithTop(f)
    BY <1>8 DEF Irqs!Serve
  <2>3. Irqs!Top.at = "isr" => Irqs!Top.saved = <<>> /\ Irqs!Top.call = Irqs!NoCall
    <3>1. Len(stack) \in Nat /\ Len(stack) >= 1 /\ Irqs!Top = stack[Len(stack)]
      BY <1>1, TopSound
    <3>2. Len(stack) \in 1 .. Len(stack)
      BY <3>1, SMT
    <3>3. QED
      BY <3>1, <3>2 DEF NestInv, HandlersDoNotCall
  <2> HIDE DEF f
  <2>4. QED
    BY <1>1, <1>2, <2>1, <2>2, <2>3, TopNest
<1>9. CASE \E q \in Irqs!Irq : Irqs!Raise(q) \/ Irqs!Retract(q)
  <2>1. stack' = stack
    BY <1>9 DEF Irqs!Raise, Irqs!Retract
  <2>2. QED
    BY <1>1, <1>2, <2>1, NestKept DEF NestInv, HandlersDoNotCall
<1>10. QED
  BY <1>4, <1>5, <1>6, <1>7, <1>8, <1>9

\* The loop calls a handler of higher priority than all that are below.
LEMMA CalledNest ==
  ASSUME Irqs!InterruptAssumption, IrqInv, NestInv, Irqs!Top.at \in {"entry", "again"},
         stack' = Irqs!WithTop(Irqs!Called(Irqs!Pending)),
         UNCHANGED <<ienable, active, mask, faults>>
  PROVE  NestInv'
<1> DEFINE t == Irqs!Top
           n == Len(stack)
           q == Irqs!Min(Irqs!Pending)
           f == [t EXCEPT !.at = "spin"]
           g == [t EXCEPT !.at = "isr", !.irq = q, !.entry = table[q], !.served = FALSE]
<1>1. /\ Stacked /\ Sound(t) /\ t \in Activation /\ n \in Nat /\ n >= 1 /\ t = stack[n]
      /\ ienable = active \cap mask
  BY TopSound DEF IrqInv, NestInv, Masked
<1>2. t.epie /\ t.old = <<>> /\ t.saved = <<>> /\ t.call = Irqs!NoCall /\ t.at # "run" /\ t.at # "isr"
  BY <1>1, OffInEntry DEF Sound, Came
<1>3. IF Irqs!Pending = {} THEN stack' = Irqs!WithTop(f) ELSE stack' = Irqs!WithTop(g)
  BY DEF Irqs!Called
<1>4. CASE Irqs!Pending = {}
  <2>1. f.at # "isr" /\ f.old = t.old /\ f.irq = t.irq
    <3> HIDE DEF t
    <3>1. QED
      BY <1>1 DEF Activation
  <2> HIDE DEF f
  <2>2. QED
    BY <1>1, <1>3, <1>4, <2>1, TopNest
<1>5. CASE Irqs!Pending # {}
  <2>1. q \in Irqs!Pending /\ NIrq \in Nat
    <3>1. NIrq \in Nat
      BY SMT DEF Irqs!InterruptAssumption
    <3>2. QED
      BY <1>5, <3>1, FirstPending DEF IrqInv
  <2>2. q \in mask /\ q \in Irqs!Irq
    BY <1>1, <2>1 DEF Irqs!Pending, IrqInv, RegistersTyped
  <2>3. g.at = "isr" /\ g.old = <<>> /\ g.irq = q /\ g.saved = <<>> /\ g.call = Irqs!NoCall
    <3> HIDE DEF t, q
    <3>1. QED
      BY <1>1, <1>2 DEF Activation
  <2>4. q \in 0 .. NIrq - 1
    BY <2>2 DEF Irqs!Irq
  <2> HIDE DEF g, q, t
  <2>5. /\ Len(stack') = n /\ stack'[n] = g
        /\ \A k \in 1 .. n : k # n => stack'[k] = stack[k]
    BY <1>1, <1>3, <1>5, TopReplaced
  <2>6. ~Open(n)
    BY <1>1, <1>2 DEF Open
  <2>7. \A k \in 1 .. n : stack'[k].old = stack[k].old
                         /\ (Open(k) => stack'[k].irq = stack[k].irq)
    BY <1>1, <1>2, <2>3, <2>5, <2>6
  <2>8. Masked' /\ MaskSaved'
    BY <1>1, <2>5, <2>7, OpenKept
  <2>9. HandlersDoNotCall'
    <3>1. ASSUME NEW k \in 1 .. n, stack'[k].at = "isr"
          PROVE  stack'[k].saved = <<>> /\ stack'[k].call = Irqs!NoCall
      <4>1. CASE k = n
        BY <2>3, <2>5, <4>1
      <4>2. CASE k # n
        BY <2>5, <3>1, <4>2 DEF NestInv, HandlersDoNotCall
      <4>3. QED
        BY <4>1, <4>2
    <3>2. QED
      BY <2>5, <3>1 DEF HandlersDoNotCall
  <2>10. ASSUME NEW j \in 1 .. n - 1, stack[j].at = "isr"
         PROVE  q < stack[j].irq /\ stack[j].irq \in Int /\ stack[j].irq <= (NIrq + 1) - j
    <3>1. n \in 1 .. n /\ j \in 1 .. n
      BY <1>1, SMT
    <3>2. j = 1 \/ Open(j)
      BY <1>1, <1>2, <3>1, AllOpenBelow DEF n
    <3>3. j # 1 /\ stack[j] \in Activation
      BY <2>10, <3>1 DEF IrqInv, Stacked, Sound
    <3>4. q \in Irqs!Higher(stack[j].irq)
      BY <2>2, <3>1, <3>2, <3>3 DEF NestInv, Masked
    <3>5. stack[j].irq \in Nat
      BY <3>3 DEF Activation
    <3>6. q < stack[j].irq
      BY <2>4, <3>4, <3>5 DEF Irqs!Higher
    <3>7. QED
      BY <2>10, <3>1, <3>5, <3>6 DEF NestInv, Ranked
  <2>11. q <= (NIrq + 1) - n
    <3>1. n # 1
      BY <1>1, <1>2, TopSound DEF n, t
    <3>2. CASE n = 2
      BY <2>1, <2>4, <3>2, SMT
    <3>3. CASE n > 2
      <4>1. n - 1 \in 1 .. n - 1 /\ n - 1 # 1 /\ n - 1 \in 1 .. n
        BY <1>1, <3>3, SMT
      <4>2. stack[n - 1].at = "isr"
        BY <4>1 DEF IrqInv, Stacked, n
      <4>3. q < stack[n - 1].irq /\ stack[n - 1].irq \in Int
            /\ stack[n - 1].irq <= (NIrq + 1) - (n - 1)
        BY <2>10, <4>1, <4>2
      <4>4. QED
        BY <1>1, <2>1, <2>4, <4>3, SMT
    <3>4. ASSUME NEW x \in Nat, x >= 1, x # 1 PROVE x = 2 \/ x > 2
      BY <3>4, SMT
    <3>5. n = 2 \/ n > 2
      BY <1>1, <3>1, <3>4
    <3>6. QED
      BY <3>2, <3>3, <3>5
  <2>12. Ranked'
    <3>1. ASSUME NEW k \in 1 .. n, stack'[k].at = "isr"
          PROVE  /\ stack'[k].irq <= (NIrq + 1) - k
                 /\ \A j \in 1 .. k - 1 : stack'[j].at = "isr" => stack'[k].irq < stack'[j].irq
      <4>1. \A j \in 1 .. k - 1 : j \in 1 .. n /\ j # n /\ stack'[j] = stack[j]
        <5>1. \A j \in 1 .. k - 1 : j \in 1 .. n /\ j # n
          BY <1>1, SMT
        <5>2. QED
          BY <2>5, <5>1
      <4>2. CASE k = n
        BY <2>3, <2>5, <2>10, <2>11, <4>1, <4>2
      <4>3. CASE k # n
        BY <2>5, <3>1, <4>1, <4>3 DEF NestInv, Ranked
      <4>4. QED
        BY <4>2, <4>3
    <3>2. QED
      BY <2>5, <3>1 DEF Ranked
  <2>13. NotTooDeep'
    BY <2>5 DEF NestInv, NotTooDeep
  <2>14. QED
    BY <2>8, <2>9, <2>12, <2>13 DEF NestInv
<1>6. QED
  BY <1>4, <1>5

\* A step that grows or shrinks the stack by an activation that is neither a
\* handler nor open.
LEMMA OthersKept ==
  ASSUME Stacked, NestInv, UNCHANGED <<ienable, active, mask>>,
         NEW m \in Nat, Len(stack') \in {m, m + 1}, Len(stack) \in {m, m + 1},
         \A n \in 1 .. m : stack'[n] = stack[n],
         Len(stack') = m + 1 => stack'[m + 1].at # "isr" /\ stack'[m + 1].old = <<>>,
         Len(stack) = m + 1 => stack[m + 1].old = <<>>,
         NotTooDeep'
  PROVE  NestInv'
<1> DEFINE len == Len(stack')
<1>1. /\ len \in {m, m + 1}
      /\ \A n \in 1 .. len : n \in 1 .. m \/ (n = m + 1 /\ len = m + 1)
      /\ \A n \in 1 .. m : n \in 1 .. len /\ n \in 1 .. Len(stack)
      /\ \A n \in 1 .. Len(stack) : n \in 1 .. m \/ (n = m + 1 /\ Len(stack) = m + 1)
  BY SMT
<1> HIDE DEF len
<1>2. /\ \A n \in 1 .. len : stack'[n].at = "isr" \/ Open(n)'
           => n \in 1 .. m /\ n \in 1 .. Len(stack) /\ stack'[n] = stack[n]
      /\ \A n \in 1 .. Len(stack) : Open(n) => n \in 1 .. m
      /\ \A n \in 1 .. m : Open(n)' <=> Open(n)
  BY <1>1 DEF Open, len
<1>3. HandlersDoNotCall'
  BY <1>2 DEF NestInv, HandlersDoNotCall, len
<1>4. (\A n \in 1 .. len : ~Open(n)') => (\A n \in 1 .. Len(stack) : ~Open(n))
  BY <1>1, <1>2
<1>5. Masked'
  BY <1>2, <1>4 DEF NestInv, Masked, len
<1>6. MaskSaved'
  <2>1. ASSUME NEW k \in 1 .. len, Open(k)'
        PROVE  /\ \A j \in 1 .. k - 1 : Open(j)' => stack'[k].old[1] \subseteq Irqs!Higher(stack'[j].irq)
               /\ (\A j \in 1 .. k - 1 : ~Open(j)') => stack'[k].old[1] = Irqs!Irq
    <3>1. k \in 1 .. m /\ k \in 1 .. Len(stack) /\ stack'[k] = stack[k] /\ Open(k)
      BY <1>2, <2>1
    <3>2. \A j \in 1 .. k - 1 : j \in 1 .. m
      BY <3>1, SMT
    <3>3. /\ \A j \in 1 .. k - 1 : Open(j) => stack[k].old[1] \subseteq Irqs!Higher(stack[j].irq)
          /\ (\A j \in 1 .. k - 1 : ~Open(j)) => stack[k].old[1] = Irqs!Irq
      BY <3>1 DEF NestInv, MaskSaved
    <3>4. QED
      BY <1>2, <3>1, <3>2, <3>3
  <2>2. QED
    BY <2>1 DEF MaskSaved, len
<1>7. Ranked'
  <2>1. ASSUME NEW k \in 1 .. len, stack'[k].at = "isr"
        PROVE  /\ stack'[k].irq <= (NIrq + 1) - k
               /\ \A j \in 1 .. k - 1 : stack'[j].at = "isr" => stack'[k].irq < stack'[j].irq
    <3>1. k \in 1 .. m /\ k \in 1 .. Len(stack) /\ stack'[k] = stack[k]
      BY <1>2, <2>1
    <3>2. \A j \in 1 .. k - 1 : j \in 1 .. m
      BY <3>1, SMT
    <3>3. /\ stack[k].irq <= (NIrq + 1) - k
          /\ \A j \in 1 .. k - 1 : stack[j].at = "isr" => stack[k].irq < stack[j].irq
      BY <2>1, <3>1 DEF NestInv, Ranked
    <3>4. QED
      BY <3>1, <3>2, <3>3
  <2>2. QED
    BY <2>1 DEF Ranked, len
<1>8. QED
  BY <1>3, <1>5, <1>6, <1>7 DEF NestInv

\* An interrupt comes only upon the program or a handler of lower priority.
LEMMA EnterNest ==
  ASSUME Irqs!InterruptAssumption, IrqInv, NestInv, Irqs!Take \/ Irqs!Fault
  PROVE  NestInv'
<1> DEFINE n == Len(stack)
<1>1. /\ Stacked /\ n \in Nat /\ n >= 1 /\ Sound(Irqs!Top) /\ Irqs!Top = stack[n]
      /\ Irqs!Top.at = "run" <=> n = 1
  BY TopSound DEF IrqInv
<1>2. NIrq \in Nat /\ NIrq >= 1 /\ faults \in Nat /\ ienable \subseteq mask
  <2>1. NIrq \in Nat /\ NIrq >= 1 /\ MaxFaults \in Nat
    BY SMT DEF Irqs!InterruptAssumption
  <2>2. faults \in Nat
    BY <2>1 DEF IrqInv, RegistersTyped
  <2>3. QED
    BY <2>1, <2>2 DEF NestInv, Masked
<1>3. Irqs!Top.at = "isr" => Irqs!Top.irq \in Nat /\ Irqs!Top.irq <= (NIrq + 1) - n
  <2>1. n \in 1 .. n
    BY <1>1, SMT
  <2>2. QED
    BY <1>1, <2>1 DEF Sound, Activation, NestInv, Ranked
<1>4. /\ UNCHANGED <<ienable, active, mask>>
      /\ Irqs!Take => Irqs!Enter("interrupt") /\ faults' = faults /\ pie /\ Irqs!Pending # {}
      /\ Irqs!Fault => Irqs!Enter("fault") /\ faults' = faults + 1 /\ Irqs!Top.at \in {"run", "isr"}
                       /\ Irqs!Top.call = Irqs!NoCall
  BY DEF Irqs!Take, Irqs!Fault
<1>5. Irqs!Take => Enables(Irqs!Top)
  BY <1>1, <1>4 DEF Stacked
<1>6. Irqs!Top.at \in {"run", "isr"} /\ Irqs!Top.call = Irqs!NoCall
  BY <1>1, <1>4, <1>5 DEF Enables, LetsIn, Sound, Came
<1> HIDE DEF n
<1>7. Irqs!Take /\ n # 1 => n <= NIrq
  <2>1. SUFFICES ASSUME Irqs!Take, n # 1 PROVE n <= NIrq
    OBVIOUS
  <2>2. Irqs!Top.at = "isr" /\ Open(n)
    BY <1>1, <1>5, <1>6, <2>1 DEF Enables, LetsIn, Open
  <2>3. n \in 1 .. n
    BY <1>1, SMT
  <2>4. mask \subseteq Irqs!Higher(Irqs!Top.irq)
    BY <1>1, <2>2, <2>3 DEF NestInv, Masked, n
  <2>5. PICK q \in Irqs!Pending : TRUE
    BY <1>4, <2>1
  <2>6. q \in Irqs!Higher(Irqs!Top.irq)
    BY <1>2, <2>4, <2>5 DEF Irqs!Pending
  <2>7. 1 <= Irqs!Top.irq
    BY <1>3, <2>2, <2>6 DEF Irqs!Higher
  <2>8. QED
    BY <1>1, <1>2, <1>3, <2>2, <2>7, SMT
<1>8. n <= NIrq + 1
  <2>1. CASE n = 1
    BY <1>2, <2>1, SMT
  <2>2. CASE n # 1
    <3>1. Irqs!Top.at = "isr"
      BY <1>1, <1>6, <2>2
    <3>2. QED
      BY <1>1, <1>2, <1>3, <3>1, SMT
  <2>3. QED
    BY <2>1, <2>2
<1>9. PICK cause \in {"interrupt", "fault"} : Irqs!Enter(cause) /\ (cause = "interrupt" => pie)
  BY <1>4
<1>10. stack' = Append(stack, Irqs!Frame("test", cause)) /\ stack \in Seq(Activation)
  BY <1>1, <1>9 DEF Irqs!Enter, Stacked
<1>11. /\ Len(stack') = n + 1 /\ stack'[n + 1] = Irqs!Frame("test", cause)
       /\ \A k \in 1 .. n : stack'[k] = stack[k]
  BY <1>1, <1>10 DEF n
<1>12. stack'[n + 1].at # "isr" /\ stack'[n + 1].old = <<>>
  <2>1. Irqs!Frame("test", cause).at = "test" /\ Irqs!Frame("test", cause).old = <<>>
    BY DEF Irqs!Frame
  <2>2. QED
    BY <1>11, <2>1
<1>13. NotTooDeep'
  <2>1. CASE Irqs!Take
    <3>1. n <= NIrq
      BY <1>1, <1>2, <1>7, <2>1, SMT
    <3>2. faults' = faults
      BY <1>4, <2>1
    <3>3. QED
      BY <1>1, <1>2, <1>11, <3>1, <3>2 DEF NotTooDeep
  <2>2. CASE Irqs!Fault
    <3>1. faults' = faults + 1
      BY <1>4, <2>2
    <3>2. QED
      BY <1>1, <1>2, <1>8, <1>11, <3>1 DEF NotTooDeep
  <2>3. QED
    BY <2>1, <2>2
<1>14. Len(stack) = n /\ n # n + 1
  BY <1>1, SMT DEF n
<1>15. QED
  BY <1>1, <1>4, <1>11, <1>12, <1>13, <1>14, OthersKept

LEMMA LeaveNest ==
  ASSUME Irqs!InterruptAssumption, IrqInv, NestInv, Irqs!Leave
  PROVE  NestInv'
<1> DEFINE m == Len(stack) - 1
<1>1. /\ Irqs!Top.at = "exit" /\ pie' = Irqs!Top.epie
      /\ stack' = SubSeq(stack, 1, Len(stack) - 1)
      /\ UNCHANGED <<ienable, active, mask, faults>>
  BY DEF Irqs!Leave
<1>2. Stacked /\ Sound(Irqs!Top) /\ Len(stack) \in Nat /\ Irqs!Top = stack[Len(stack)]
  BY TopSound DEF IrqInv
<1>3. /\ Len(stack') = m /\ Len(stack) > 1 /\ \A k \in 1 .. m : stack'[k] = stack[k]
  BY <1>1, <1>2, Left
<1>4. m \in Nat /\ Len(stack) = m + 1 /\ m # m + 1
  BY <1>2, <1>3, SMT
<1> HIDE DEF m
<1>5. stack[m + 1].old = <<>>
  BY <1>1, <1>2, <1>4 DEF Sound, Came
<1>6. NotTooDeep'
  <2>1. NIrq \in Nat /\ MaxFaults \in Nat
    BY SMT DEF Irqs!InterruptAssumption
  <2>2. faults \in Nat
    BY <2>1 DEF IrqInv, RegistersTyped
  <2>3. QED
    BY <1>1, <1>3, <1>4, <2>1, <2>2 DEF NestInv, NotTooDeep
<1>7. QED
  BY <1>1, <1>2, <1>3, <1>4, <1>5, <1>6, OthersKept

\* A handler lets higher priorities in, and afterwards restores the mask that
\* the handlers below it had set.
LEMMA LetsInNest ==
  ASSUME Irqs!InterruptAssumption, IrqInv, NestInv, Irqs!Interruptible
  PROVE  NestInv'
<1> DEFINE t == Irqs!Top
           n == Len(stack)
           f == [t EXCEPT !.old = <<mask>>]
<1>1. /\ Stacked /\ Sound(t) /\ t \in Activation /\ n \in Nat /\ n >= 1 /\ t = stack[n]
      /\ NIrq \in Nat
  <2>1. NIrq \in Nat
    BY SMT DEF Irqs!InterruptAssumption
  <2>2. QED
    BY <2>1, TopSound DEF IrqInv
<1>2. /\ t.at = "isr" /\ t.call = Irqs!NoCall /\ t.saved = <<>> /\ t.old = <<>>
      /\ stack' = Irqs!WithTop(f) /\ mask' = Irqs!Higher(t.irq) /\ ienable' = active \cap mask'
      /\ active' = active /\ faults' = faults
  BY DEF Irqs!Interruptible
<1>3. f.at = "isr" /\ f.old = <<mask>> /\ f.irq = t.irq /\ f.saved = <<>> /\ f.call = Irqs!NoCall
  <2> HIDE DEF t
  <2>1. QED
    BY <1>1, <1>2 DEF Activation
<1> HIDE DEF f, t
<1>4. /\ Len(stack') = n /\ stack'[n] = f
      /\ \A k \in 1 .. n : k # n => stack'[k] = stack[k]
  BY <1>1, <1>2, TopReplaced
<1> HIDE DEF n
<1>5. /\ n \in 1 .. n /\ \A k \in 1 .. n : \A j \in 1 .. k - 1 : j \in 1 .. n /\ j # n
      /\ \A k \in 1 .. n : k # n => k \in 1 .. n - 1
  BY <1>1, SMT
<1>6. /\ \A k \in 1 .. n : stack'[k].irq = stack[k].irq
                           /\ (stack'[k].at = "isr" <=> stack[k].at = "isr")
      /\ \A k \in 1 .. n : k # n => (Open(k)' <=> Open(k))
      /\ (\A k \in 1 .. n : k = n => Open(k)') /\ ~Open(n)
  <2>1. stack'[n].irq = stack[n].irq /\ stack'[n].at = "isr" /\ stack[n].at = "isr"
    BY <1>1, <1>2, <1>3, <1>4, <1>5
  <2>2. \A k \in 1 .. n : k # n => (Open(k)' <=> Open(k))
    BY <1>4 DEF Open
  <2>3. (\A k \in 1 .. n : k = n => Open(k)') /\ ~Open(n)
    <3>1. <<mask>> # <<>>
      OBVIOUS
    <3>2. stack'[n].old = <<mask>> /\ stack[n].old = <<>>
      BY <1>1, <1>2, <1>3, <1>4, <1>5
    <3>3. QED
      BY <3>1, <3>2 DEF Open
  <2>4. \A k \in 1 .. n : stack'[k].irq = stack[k].irq
                           /\ (stack'[k].at = "isr" <=> stack[k].at = "isr")
    BY <1>4, <2>1
  <2>5. QED
    BY <2>2, <2>3, <2>4
<1>7. HandlersDoNotCall'
  BY <1>3, <1>4, <1>5 DEF NestInv, HandlersDoNotCall, n
<1>8. Ranked'
  <2>1. ASSUME NEW k \in 1 .. n, stack'[k].at = "isr"
        PROVE  /\ stack'[k].irq <= (NIrq + 1) - k
               /\ \A j \in 1 .. k - 1 : stack'[j].at = "isr" => stack'[k].irq < stack'[j].irq
    <3>1. /\ stack[k].irq <= (NIrq + 1) - k
          /\ \A j \in 1 .. k - 1 : stack[j].at = "isr" => stack[k].irq < stack[j].irq
      BY <1>6, <2>1 DEF NestInv, Ranked, n
    <3>2. QED
      BY <1>5, <1>6, <3>1
  <2>2. QED
    BY <1>4, <2>1 DEF Ranked
\* Whoever is open below has a lower priority.
<1>9. ASSUME NEW j \in 1 .. n - 1, Open(j)
      PROVE  Irqs!Higher(t.irq) \subseteq Irqs!Higher(stack[j].irq)
  <2>1. j \in 1 .. n
    BY <1>1, SMT
  <2>2. stack[j].at = "isr" /\ stack[j] \in Activation
    BY <1>1, <1>9, <2>1 DEF Open, Stacked, Sound, Came, n
  <2>3. t.irq < stack[j].irq
    BY <1>1, <1>2, <1>5, <2>2 DEF NestInv, Ranked, n
  <2>4. t.irq \in Nat /\ stack[j].irq \in Nat
    BY <1>1, <2>2 DEF Activation
  <2>5. QED
    BY <2>3, <2>4 DEF Irqs!Higher
<1>10. Masked'
  <2>1. ASSUME NEW k \in 1 .. n, Open(k)'
        PROVE  mask' \subseteq Irqs!Higher(stack'[k].irq)
    <3>1. CASE k = n
      BY <1>1, <1>2, <1>6, <3>1
    <3>2. CASE k # n
      BY <1>2, <1>5, <1>6, <1>9, <2>1, <3>2
    <3>3. QED
      BY <3>1, <3>2
  <2>2. QED
    BY <1>2, <1>4, <1>5, <1>6, <2>1 DEF Masked
<1>11. MaskSaved'
  <2>1. ASSUME NEW k \in 1 .. n, Open(k)'
        PROVE  /\ \A j \in 1 .. k - 1 : Open(j)' => stack'[k].old[1] \subseteq Irqs!Higher(stack'[j].irq)
               /\ (\A j \in 1 .. k - 1 : ~Open(j)') => stack'[k].old[1] = Irqs!Irq
    <3>1. CASE k = n
      <4>1. stack'[k].old[1] = mask
        BY <1>3, <1>4, <3>1
      <4>2. \A j \in 1 .. n - 1 : Open(j)' => mask \subseteq Irqs!Higher(stack'[j].irq)
        BY <1>5, <1>6 DEF NestInv, Masked, n
      <4>3. (\A j \in 1 .. n - 1 : ~Open(j)') => mask = Irqs!Irq
        <5>1. (\A j \in 1 .. n - 1 : ~Open(j)') => (\A j \in 1 .. n : ~Open(j))
          BY <1>5, <1>6
        <5>2. QED
          BY <5>1 DEF NestInv, Masked, n
      <4>4. QED
        BY <3>1, <4>1, <4>2, <4>3
    <3>2. CASE k # n
      <4>1. stack'[k] = stack[k] /\ Open(k)
        BY <1>4, <1>6, <2>1, <3>2
      <4>2. /\ \A j \in 1 .. k - 1 : Open(j) => stack[k].old[1] \subseteq Irqs!Higher(stack[j].irq)
            /\ (\A j \in 1 .. k - 1 : ~Open(j)) => stack[k].old[1] = Irqs!Irq
        BY <4>1 DEF NestInv, MaskSaved, n
      <4>3. \A j \in 1 .. k - 1 : (Open(j)' <=> Open(j)) /\ stack'[j].irq = stack[j].irq
        BY <1>5, <1>6
      <4>4. QED
        BY <4>1, <4>2, <4>3
    <3>3. QED
      BY <3>1, <3>2
  <2>2. QED
    BY <1>4, <2>1 DEF MaskSaved
<1>12. NotTooDeep'
  BY <1>2, <1>4 DEF NestInv, NotTooDeep, n
<1>13. QED
  BY <1>7, <1>8, <1>10, <1>11, <1>12 DEF NestInv

LEMMA KeepsOffNest ==
  ASSUME IrqInv, NestInv, Irqs!NonInterruptible
  PROVE  NestInv'
<1> DEFINE t == Irqs!Top
           n == Len(stack)
           f == [t EXCEPT !.old = <<>>]
<1>1. Stacked /\ Sound(t) /\ t \in Activation /\ n \in Nat /\ n >= 1 /\ t = stack[n]
  BY TopSound DEF IrqInv
<1>2. /\ t.at = "isr" /\ t.call = Irqs!NoCall /\ t.saved = <<>> /\ t.old # <<>>
      /\ stack' = Irqs!WithTop(f) /\ mask' = t.old[1] /\ ienable' = active \cap mask'
      /\ active' = active /\ faults' = faults
  BY DEF Irqs!NonInterruptible
<1>3. f.at = "isr" /\ f.old = <<>> /\ f.irq = t.irq /\ f.saved = <<>> /\ f.call = Irqs!NoCall
  <2> HIDE DEF t
  <2>1. QED
    BY <1>1, <1>2 DEF Activation
<1> HIDE DEF f, t
<1>4. /\ Len(stack') = n /\ stack'[n] = f
      /\ \A k \in 1 .. n : k # n => stack'[k] = stack[k]
  BY <1>1, <1>2, TopReplaced
<1> HIDE DEF n
<1>5. /\ n \in 1 .. n /\ \A k \in 1 .. n : \A j \in 1 .. k - 1 : j \in 1 .. n /\ j # n
      /\ \A k \in 1 .. n : k # n => k \in 1 .. n - 1
  BY <1>1, SMT
<1>6. /\ \A k \in 1 .. n : stack'[k].irq = stack[k].irq
                           /\ (stack'[k].at = "isr" <=> stack[k].at = "isr")
      /\ \A k \in 1 .. n : k # n => (Open(k)' <=> Open(k))
      /\ (\A k \in 1 .. n : k = n => ~Open(k)') /\ Open(n)
  <2>1. stack'[n].irq = stack[n].irq /\ stack'[n].at = "isr" /\ stack[n].at = "isr"
    BY <1>1, <1>2, <1>3, <1>4, <1>5
  <2>2. \A k \in 1 .. n : k # n => (Open(k)' <=> Open(k))
    BY <1>4 DEF Open
  <2>3. (\A k \in 1 .. n : k = n => ~Open(k)') /\ Open(n)
    BY <1>1, <1>2, <1>3, <1>4, <1>5 DEF Open
  <2>4. \A k \in 1 .. n : stack'[k].irq = stack[k].irq
                           /\ (stack'[k].at = "isr" <=> stack[k].at = "isr")
    BY <1>4, <2>1
  <2>5. QED
    BY <2>2, <2>3, <2>4
<1>7. HandlersDoNotCall'
  BY <1>3, <1>4, <1>5 DEF NestInv, HandlersDoNotCall, n
<1>8. Ranked'
  <2>1. ASSUME NEW k \in 1 .. n, stack'[k].at = "isr"
        PROVE  /\ stack'[k].irq <= (NIrq + 1) - k
               /\ \A j \in 1 .. k - 1 : stack'[j].at = "isr" => stack'[k].irq < stack'[j].irq
    <3>1. /\ stack[k].irq <= (NIrq + 1) - k
          /\ \A j \in 1 .. k - 1 : stack[j].at = "isr" => stack[k].irq < stack[j].irq
      BY <1>6, <2>1 DEF NestInv, Ranked, n
    <3>2. QED
      BY <1>5, <1>6, <3>1
  <2>2. QED
    BY <1>4, <2>1 DEF Ranked
<1>9. Masked'
  <2>1. /\ \A j \in 1 .. n - 1 : Open(j) => mask' \subseteq Irqs!Higher(stack[j].irq)
        /\ (\A j \in 1 .. n - 1 : ~Open(j)) => mask' = Irqs!Irq
    BY <1>1, <1>2, <1>5, <1>6 DEF NestInv, MaskSaved, n
  <2>2. \A k \in 1 .. n : Open(k)' => k \in 1 .. n - 1 /\ Open(k) /\ stack'[k].irq = stack[k].irq
    BY <1>5, <1>6
  <2>3. (\A k \in 1 .. n : ~Open(k)') => (\A j \in 1 .. n - 1 : ~Open(j))
    BY <1>5, <1>6
  <2>4. QED
    BY <1>2, <1>4, <2>1, <2>2, <2>3 DEF Masked
<1>10. MaskSaved'
  <2>1. ASSUME NEW k \in 1 .. n, Open(k)'
        PROVE  /\ \A j \in 1 .. k - 1 : Open(j)' => stack'[k].old[1] \subseteq Irqs!Higher(stack'[j].irq)
               /\ (\A j \in 1 .. k - 1 : ~Open(j)') => stack'[k].old[1] = Irqs!Irq
    <3>1. stack'[k] = stack[k] /\ Open(k)
      BY <1>4, <1>6, <2>1
    <3>2. /\ \A j \in 1 .. k - 1 : Open(j) => stack[k].old[1] \subseteq Irqs!Higher(stack[j].irq)
          /\ (\A j \in 1 .. k - 1 : ~Open(j)) => stack[k].old[1] = Irqs!Irq
      BY <3>1 DEF NestInv, MaskSaved, n
    <3>3. \A j \in 1 .. k - 1 : (Open(j)' <=> Open(j)) /\ stack'[j].irq = stack[j].irq
      BY <1>5, <1>6
    <3>4. QED
      BY <3>1, <3>2, <3>3
  <2>2. QED
    BY <1>4, <2>1 DEF MaskSaved
<1>11. NotTooDeep'
  BY <1>2, <1>4 DEF NestInv, NotTooDeep, n
<1>12. QED
  BY <1>7, <1>8, <1>9, <1>10, <1>11 DEF NestInv

LEMMA NestInitially ==
  ASSUME Irqs!InterruptAssumption, Irqs!Init
  PROVE  NestInv
<1> DEFINE f == [Irqs!Frame("run", "reset") EXCEPT !.epie = FALSE]
<1>1. ienable = {} /\ active = {} /\ mask = Irqs!Irq /\ faults = 0 /\ stack = <<f>>
  BY DEF Irqs!Init
<1>2. f.at = "run" /\ f.old = <<>>
  BY DEF Irqs!Frame
<1> HIDE DEF f
<1>3. Len(stack) = 1 /\ \A n \in 1 .. Len(stack) : n = 1 /\ stack[n] = f
  BY <1>1
<1>4. NIrq \in Nat
  BY SMT DEF Irqs!InterruptAssumption
<1>5. NotTooDeep
  BY <1>1, <1>3, <1>4 DEF NotTooDeep
<1>6. QED
  BY <1>1, <1>2, <1>3, <1>5
  DEF NestInv, HandlersDoNotCall, Masked, MaskSaved, Ranked, Open

LEMMA NestNext ==
  ASSUME Irqs!InterruptAssumption, ~CallsInIsr, IrqInv, NestInv, [Irqs!Next]_(Irqs!vars)
  PROVE  NestInv'
<1>1. RegistersTyped'
  BY IrqNext DEF IrqInv
<1>2. CASE UNCHANGED Irqs!vars
  <2>1. UNCHANGED <<stack, mask, active, ienable, faults>>
    BY <1>2 DEF Irqs!vars
  <2>2. QED
    BY <2>1 DEF NestInv, HandlersDoNotCall, Masked, MaskSaved, Ranked, NotTooDeep, Open
<1>3. CASE Irqs!DisableAll \/ Irqs!EnableAllAgain
  BY <1>1, <1>3, CallNest
<1>4. CASE Irqs!Interruptible
  BY <1>4, LetsInNest
<1>5. CASE Irqs!NonInterruptible
  BY <1>5, KeepsOffNest
<1>6. CASE Irqs!Take \/ Irqs!Fault
  BY <1>6, EnterNest
<1>7. CASE Irqs!Finishing
  <2>1. CASE Irqs!RegisterContext \/ Irqs!RegisterEnable \/ Irqs!RegisterDone
    BY <1>1, <2>1, CallNest
  <2>2. CASE Irqs!Test \/ Irqs!AskHandler \/ Irqs!Serve \/ Irqs!IsrReturns \/ Irqs!Exit
    BY <2>2, LoopNest
  <2>3. CASE Irqs!Dispatch
    BY <2>3, CalledNest DEF Irqs!Dispatch, Irqs!Cpu
  <2>4. CASE Irqs!DispatchAgain
    BY <2>4, CalledNest DEF Irqs!DispatchAgain, Irqs!StillPending, Irqs!Cpu
  <2>5. CASE Irqs!Leave
    BY <2>5, LeaveNest
  <2>6. QED
    BY <1>7, <2>1, <2>2, <2>3, <2>4, <2>5 DEF Irqs!Finishing
<1>8. ASSUME NEW q \in Irqs!Irq, Irqs!IrqEnable(q) \/ Irqs!IrqDisable(q) PROVE NestInv'
  BY <1>1, <1>8, CallNest
<1>9. ASSUME NEW q \in Irqs!Irq, Irqs!Raise(q) \/ Irqs!Retract(q) PROVE NestInv'
  BY <1>9, LoopNest
<1>10. ASSUME NEW q \in Irqs!Irq, NEW h \in Handler \cup {Null}, Irqs!RegisterHandler(q, h)
       PROVE  NestInv'
  BY <1>1, <1>10, CallNest
<1>11. QED
  BY <1>2, <1>3, <1>4, <1>5, <1>6, <1>7, <1>8, <1>9, <1>10 DEF Irqs!Next

\* OnlyHigher (alt_irq_interruptible): while handlers do not themselves enable
\* or register interrupts, one that lets others in is interrupted by higher
\* priorities alone, so that the stack holds at most one activation for each
\* interrupt beside those of the program and of the faults.
THEOREM NestsByPriority ==
  ASSUME Irqs!InterruptAssumption, ~CallsInIsr
  PROVE  Irqs!Spec => [](Irqs!TypeOK /\ Irqs!OnlyHigher)
<1>1. Irqs!Init => IrqInv /\ NestInv
  BY IrqInitially, NestInitially
<1>2. IrqInv /\ NestInv /\ [Irqs!Next]_(Irqs!vars) => IrqInv' /\ NestInv'
  BY IrqNext, NestNext
<1>3. IrqInv /\ NestInv => Irqs!TypeOK
  <2>1. SUFFICES ASSUME IrqInv, NestInv PROVE Irqs!TypeOK
    OBVIOUS
  <2>2. Len(stack) \in Nat /\ Len(stack) >= 1
    BY <2>1, TopSound DEF IrqInv
  <2>3. NIrq \in Nat /\ MaxFaults \in Nat
    BY SMT DEF Irqs!InterruptAssumption
  <2>4. faults \in 0 .. MaxFaults /\ faults \in Nat
    BY <2>1, <2>3 DEF IrqInv, RegistersTyped
  <2>5. Len(stack) \in 1 .. (NIrq + faults) + 1
    BY <2>1, <2>2, <2>3, <2>4 DEF NestInv, NotTooDeep
  <2>6. QED
    BY <2>1, <2>5 DEF IrqInv, RegistersTyped, Registered, Irqs!TypeOK
<1>4. IrqInv /\ NestInv => Irqs!OnlyHigher
  <2>1. ASSUME IrqInv, NestInv, NEW i \in Irqs!Isrs, NEW j \in Irqs!Isrs, i < j
        PROVE  stack[j].irq < stack[i].irq
    <3>1. Len(stack) \in Nat
      BY <2>1, TopSound DEF IrqInv
    <3>2. /\ j \in 1 .. Len(stack) /\ i \in 1 .. j - 1
          /\ stack[i].at = "isr" /\ stack[j].at = "isr"
      BY <2>1, <3>1 DEF Irqs!Isrs
    <3>3. QED
      BY <2>1, <3>2 DEF NestInv, Ranked
  <2>2. QED
    BY <2>1 DEF Irqs!OnlyHigher
<1>5. QED
  BY <1>1, <1>2, <1>3, <1>4, PTL DEF Irqs!Spec

-----------------------------------------------------------------------------
\* Boot.tla.

BootTyped ==
  /\ at \in {"alt_irq_init", "enable", "alt_sys_init", "_do_ctors", "main",
             "close", "exit", "_exit", "spin"}
  /\ stage \in {"device", "register", "alarm"} /\ bootPie \in BOOLEAN
  /\ alarm \in BOOLEAN /\ code \in {0, 1} /\ told \in {"nothing", "pass", "fail"}
  /\ build \in Start!Builds
  /\ bootIenable \subseteq Start!Device /\ handlers \subseteq Start!Device
  /\ control \subseteq Start!Device /\ asks \subseteq Start!Device
  /\ rate \in {0} \cup {Start!TimerFreq(t) : t \in Periods}

\* The devices still to initialise are all different.
ToCome ==
  /\ inits \in Seq(Start!Device \cup Start!Quiet)
  /\ \A i, j \in 1 .. Len(inits) : inits[i] = inits[j] => i = j

\* What is enabled has its handler and its device's own enable, from the moment
\* the controller is initialised; before it, the processor takes no interrupt.
Handled ==
  /\ bootActive \subseteq handlers /\ handlers \subseteq control
  /\ at = "alt_irq_init" => bootActive = {}
  /\ at \in {"alt_irq_init", "enable"} => ~bootPie
  /\ at \notin {"alt_irq_init", "enable"} => bootPie
  /\ at # "alt_irq_init" => bootIenable = bootActive

InSteps ==
  stage # "device" =>
      at = "alt_sys_init" /\ inits # <<>> /\ Head(inits) \in Start!Device \cap control

Made ==
  /\ built \in Seq(Int) /\ gone \in Seq(Int)
  /\ Len(built) <= Objects /\ Len(gone) <= Objects
  /\ at \in {"main", "close", "exit", "_exit", "spin"} => Len(built) = Objects
  /\ told # "nothing" => at = "spin"
  /\ at = "spin" => (told = "nothing" <=> build = "none")
  /\ at = "exit" => build = "clean"
  /\ at \in {"close", "_exit"} => build # "none"
  /\ at \in {"_exit", "spin"} /\ build = "clean" => Len(gone) = Objects
  /\ at # "exit" /\ gone # <<>> => at \in {"_exit", "spin"} /\ build = "clean"

\* The UART's timeout is the default one until its alarm is asked for, and it
\* is asked for once; there is a rate from the timer's first step on.
Counting ==
  /\ "uart" \in handlers =>
         \A i \in 1 .. Len(inits) : inits[i] = "uart" => i = 1 /\ stage = "alarm"
  /\ stage = "alarm" => Head(inits) = "uart" /\ "uart" \in handlers
  /\ "uart" \notin handlers \/ stage = "alarm" => ~alarm /\ timeout = DefaultTimeout
  /\ "uart" \in handlers /\ stage # "alarm" =>
         timeout = IF alarm THEN DefaultTimeout ELSE IntMax
  /\ alarm => "timer" \in handlers
  /\ "timer" \in handlers => rate # 0
  /\ stage = "register" /\ Head(inits) = "timer" => rate # 0
  /\ rate # 0 => \/ "timer" \in handlers
                 \/ stage = "register" /\ Head(inits) = "timer"

BootInv == BootTyped /\ ToCome /\ Handled /\ InSteps /\ Made /\ Counting

\* A system clock ticks at least once in a second.
LEMMA SomeTicks ==
  ASSUME Start!BootAssumption, NEW t \in Periods
  PROVE  Start!TimerFreq(t) \in Nat \ {0}
<1>1. /\ t.period \in Nat \ {0} /\ CpuFreq \in Nat \ {0}
      /\ t.units \in {"us", "ms", "s", "clocks"}
  BY DEF Start!BootAssumption
<1>2. ASSUME NEW n \in Nat \ {0}
      PROVE  ((n + t.period) - 1) \div t.period \in Nat \ {0}
  <2> DEFINE p == t.period
             x == (n + p) - 1
  <2>1. p \in Nat \ {0}
    BY <1>1
  <2>2. x \in Nat /\ x >= p
    BY <2>1, SMT
  <2> HIDE DEF p, x
  <2>3. x \div p \in Int /\ x % p \in 0 .. p - 1 /\ x = (p * (x \div p)) + (x % p)
    BY <2>1, <2>2, Division
  <2> DEFINE q == x \div p
             r == x % p
  <2>4. q \in Int /\ r \in 0 .. p - 1 /\ x = (p * q) + r
    BY <2>3
  <2> HIDE DEF q, r
  <2>5. q <= 0 => p * q <= 0
    BY <2>1, <2>4, SMT
  <2>6. p * q \in Int
    BY <2>1, <2>4, SMT
  <2> DEFINE m == p * q
  <2>7. m \in Int /\ x = m + r /\ (q <= 0 => m <= 0)
    BY <2>4, <2>5, <2>6
  <2> HIDE DEF m
  <2>8. q \in Nat \ {0}
    BY <2>1, <2>2, <2>4, <2>7, SMT
  <2>9. QED
    BY <2>8 DEF q, x, p
<1>3. /\ ((1000000 + t.period) - 1) \div t.period \in Nat \ {0}
      /\ ((1000 + t.period) - 1) \div t.period \in Nat \ {0}
      /\ ((CpuFreq + t.period) - 1) \div t.period \in Nat \ {0}
  BY <1>1, <1>2
<1>4. QED
  BY <1>1, <1>3 DEF Start!TimerFreq

LEMMA BootStarts == ASSUME Start!BootAssumption PROVE Start!Init => BootInv
<1> SUFFICES ASSUME Start!Init PROVE BootInv
  OBVIOUS
<1>1. inits \in Systems /\ Objects \in Nat
  BY DEF Start!Init, Start!BootAssumption
<1>2. BootTyped
  BY DEF Start!Init, BootTyped
<1>3. Handled
  <2>1. ~bootPie /\ at = "alt_irq_init"
    BY DEF Start!Init
  <2>2. bootActive = {} /\ handlers = {}
    BY DEF Start!Init
  <2>3. QED
    BY <2>1, <2>2 DEF Handled
<1>8. InSteps
  BY DEF Start!Init, InSteps
<1>4. Made
  BY <1>1 DEF Start!Init, Made
<1>5. Counting
  BY DEF Start!Init, Counting
<1>6. ToCome
  BY <1>1 DEF Start!BootAssumption, ToCome
<1>7. QED
  BY <1>2, <1>3, <1>4, <1>5, <1>6, <1>8 DEF BootInv

\* The rest of the devices to come.
LEMMA RestToCome ==
  ASSUME ToCome, inits # <<>>, inits' = Tail(inits)
  PROVE  /\ ToCome'
         /\ \A i \in 1 .. Len(inits') : i + 1 \in 1 .. Len(inits) /\ inits'[i] = inits[i + 1]
         /\ \A i \in 1 .. Len(inits') : inits'[i] # Head(inits)
<1> DEFINE D == Start!Device \cup Start!Quiet
<1>1. inits \in Seq(D) /\ Len(inits) \in Nat /\ Len(inits) # 0
  BY DEF ToCome
<1>2. /\ inits' \in Seq(D) /\ Len(inits') = Len(inits) - 1
      /\ \A i \in 1 .. Len(inits') : inits'[i] = inits[i + 1]
      /\ Head(inits) = inits[1]
  <2> HIDE DEF D
  <2> QED BY <1>1
<1>3. \A i \in 1 .. Len(inits') : i + 1 \in 1 .. Len(inits) /\ inits'[i] = inits[i + 1]
  BY <1>1, <1>2
<1>4. ASSUME NEW i \in 1 .. Len(inits'), NEW j \in 1 .. Len(inits'), inits'[i] = inits'[j]
      PROVE  i = j
  <2>1. i + 1 = j + 1
    BY <1>3, <1>4 DEF ToCome
  <2>2. QED
    BY <1>1, <1>2, <2>1
<1>5. ASSUME NEW i \in 1 .. Len(inits')
      PROVE  inits'[i] # Head(inits)
  <2>1. 1 \in 1 .. Len(inits) /\ i + 1 \in 1 .. Len(inits) /\ i + 1 # 1
    BY <1>1, <1>2
  <2>2. QED
    BY <1>2, <1>3, <2>1 DEF ToCome
<1>6. QED
  BY <1>2, <1>3, <1>4, <1>5 DEF ToCome

LEMMA HeadFirst ==
  ASSUME ToCome, inits # <<>>
  PROVE  /\ 1 \in 1 .. Len(inits) /\ Head(inits) = inits[1]
         /\ Head(inits) \in Start!Device \cup Start!Quiet
<1> DEFINE D == Start!Device \cup Start!Quiet
<1>1. inits \in Seq(D) /\ Len(inits) \in Nat /\ Len(inits) # 0
  BY DEF ToCome
<1>2. 1 \in 1 .. Len(inits) /\ Head(inits) = inits[1] /\ Head(inits) \in D
  <2> HIDE DEF D
  <2> QED BY <1>1
<1>3. QED
  BY <1>2

LEMMA ControllerInitStep == ASSUME BootInv, Start!IrqInit PROVE BootInv'
<1>1. UNCHANGED <<inits, stage, bootPie, bootActive, handlers, control, asks, rate, alarm, timeout,
                  build, built, gone, code, told>>
  BY DEF Start!IrqInit, Start!Host, Start!End, Start!Interrupting
<1>2. at = "alt_irq_init" /\ at' = "enable" /\ bootIenable' = {}
  BY DEF Start!IrqInit, Start!Goto, Start!IenableAtInit
<1>3. BootTyped'
  BY <1>1, <1>2 DEF BootInv, BootTyped
<1>4. ToCome' /\ Made' /\ Counting'
  BY <1>1, <1>2 DEF BootInv, ToCome, Made, Counting
<1>5. Handled'
  BY <1>1, <1>2 DEF BootInv, Handled
<1>6. InSteps'
  BY <1>1, <1>2 DEF BootInv, InSteps
<1>7. QED
  BY <1>3, <1>4, <1>5, <1>6 DEF BootInv

LEMMA CpuEnableStep == ASSUME BootInv, Start!CpuEnable PROVE BootInv'
<1>1. UNCHANGED <<inits, stage, bootIenable, bootActive, handlers, control, asks, rate,
                  alarm, timeout, build, built, gone, code, told>>
  BY DEF Start!CpuEnable, Start!Host, Start!End, Start!Interrupting
<1>2. at = "enable" /\ at' = "alt_sys_init" /\ bootPie' = TRUE
  BY DEF Start!CpuEnable, Start!Goto
<1>3. BootTyped' /\ ToCome'
  BY <1>1, <1>2 DEF BootInv, BootTyped, ToCome
<1>4. Handled' /\ InSteps'
  BY <1>1, <1>2 DEF BootInv, Handled, InSteps
<1>5. Made' /\ Counting'
  BY <1>1, <1>2 DEF BootInv, Made, Counting
<1>6. QED
  BY <1>3, <1>4, <1>5 DEF BootInv

LEMMA PassDeviceStep == ASSUME BootInv, Start!PassDevice PROVE BootInv'
<1>1. UNCHANGED <<at, stage, bootPie, bootIenable, bootActive, handlers, control, asks, rate,
                  alarm, timeout, build, built, gone, code, told>>
  BY DEF Start!PassDevice, Start!Host, Start!End, Start!Interrupting
<1>2. /\ at = "alt_sys_init" /\ stage = "device" /\ inits # <<>>
      /\ inits' = Tail(inits) /\ Head(inits) \in Start!Quiet
  BY DEF Start!PassDevice, Start!InDriver
<1>3. BootTyped'
  BY <1>1, <1>2 DEF BootInv, BootTyped
<1>4. ToCome' /\ \A i \in 1 .. Len(inits') : i + 1 \in 1 .. Len(inits) /\ inits'[i] = inits[i + 1]
  BY <1>2, RestToCome DEF BootInv
<1>5. Handled' /\ InSteps' /\ Made'
  BY <1>1, <1>2 DEF BootInv, Handled, InSteps, Made
<1>6. Counting'
  <2>1. ASSUME "uart" \in handlers, NEW i \in 1 .. Len(inits'), inits'[i] = "uart"
        PROVE  FALSE
    BY <1>2, <1>4, <2>1 DEF BootInv, Counting
  <2>2. QED
    BY <1>1, <1>2, <2>1 DEF BootInv, Counting
<1>7. QED
  BY <1>3, <1>4, <1>5, <1>6 DEF BootInv

LEMMA EnableDeviceStep == ASSUME Start!BootAssumption, BootInv, Start!EnableDevice PROVE BootInv'
<1>1. UNCHANGED <<at, inits, bootPie, bootIenable, bootActive, handlers, asks, alarm,
                  timeout, build, built, gone, code, told>>
  BY DEF Start!EnableDevice, Start!Host, Start!End, Start!Interrupting
<1>2. /\ at = "alt_sys_init" /\ stage = "device" /\ inits # <<>>
      /\ Head(inits) \in Start!Device /\ stage' = "register"
      /\ control' = control \cup {Head(inits)}
      /\ IF Head(inits) = "timer" /\ rate = 0
         THEN \E t \in Periods : rate' = Start!TimerFreq(t)
         ELSE rate' = rate
  BY DEF Start!EnableDevice, Start!InDriver
<1>3. BootTyped' /\ ToCome' /\ Made'
  BY <1>1, <1>2 DEF BootInv, BootTyped, ToCome, Made
<1>4. Handled' /\ InSteps'
  BY <1>1, <1>2 DEF BootInv, Handled, InSteps
<1>5. Counting'
  <2>1. /\ Head(inits) = "timer" => rate' # 0
        /\ Head(inits) # "timer" => rate' = rate
        /\ rate # 0 => rate' = rate
    BY <1>2, SomeTicks
  <2>2. "uart" \in handlers => \A i \in 1 .. Len(inits) : inits[i] # "uart"
    BY <1>2 DEF BootInv, Counting
  <2>3. QED
    BY <1>1, <1>2, <2>1, <2>2 DEF BootInv, Counting
<1>6. QED
  BY <1>3, <1>4, <1>5 DEF BootInv

LEMMA RegisterStep == ASSUME BootInv, Start!Register PROVE BootInv'
<1>1. UNCHANGED <<at, bootPie, control, asks, rate, alarm, timeout, build, built, gone, code, told>>
  BY DEF Start!Register, Start!Host, Start!End, Start!Interrupting
<1>2. /\ at = "alt_sys_init" /\ stage = "register" /\ inits # <<>>
      /\ handlers' = handlers \cup {Head(inits)}
      /\ bootActive' = bootActive \cup {Head(inits)} /\ bootIenable' = bootActive'
      /\ IF Head(inits) = "uart" THEN stage' = "alarm" /\ inits' = inits
         ELSE stage' = "device" /\ inits' = Tail(inits)
  BY DEF Start!Register, Start!InDriver, Start!TableAfter
<1>3. Head(inits) \in Start!Device \cap control
  BY <1>2 DEF BootInv, InSteps
<1>4. BootTyped' /\ Made'
  BY <1>1, <1>2, <1>3 DEF BootInv, BootTyped, Handled, Made
<1>5. Handled' /\ InSteps'
  BY <1>1, <1>2, <1>3 DEF BootInv, Handled, InSteps
<1>6. CASE Head(inits) = "uart"
  <2>1. stage' = "alarm" /\ inits' = inits
    BY <1>2, <1>6
  <2>2. ToCome'
    BY <2>1 DEF BootInv, ToCome
  <2>3. 1 \in 1 .. Len(inits) /\ inits[1] = "uart"
    BY <1>2, <1>6, HeadFirst DEF BootInv
  <2>4. \A i \in 1 .. Len(inits) : inits[i] = "uart" => i = 1
    BY <2>3 DEF BootInv, ToCome
  <2>5. "uart" \notin handlers
    BY <1>2, <2>3 DEF BootInv, Counting
  <2>6. Counting'
    BY <1>1, <1>2, <1>6, <2>1, <2>4, <2>5 DEF BootInv, Counting
  <2>7. QED
    BY <1>4, <1>5, <2>2, <2>6 DEF BootInv
<1>7. CASE Head(inits) # "uart"
  <2>1. stage' = "device" /\ inits' = Tail(inits) /\ Head(inits) = "timer"
    BY <1>2, <1>3, <1>7 DEF Start!Device
  <2>2. ToCome' /\ \A i \in 1 .. Len(inits') : i + 1 \in 1 .. Len(inits) /\ inits'[i] = inits[i + 1]
    BY <1>2, <2>1, RestToCome DEF BootInv
  <2>3. ASSUME "uart" \in handlers, NEW i \in 1 .. Len(inits'), inits'[i] = "uart"
        PROVE  FALSE
    BY <1>2, <2>2, <2>3 DEF BootInv, Counting
  <2>4. Counting'
    BY <1>1, <1>2, <2>1, <2>3 DEF BootInv, Counting
  <2>5. QED
    BY <1>4, <1>5, <2>2, <2>4 DEF BootInv
<1>8. QED
  BY <1>6, <1>7

LEMMA StartAlarmStep == ASSUME BootInv, Start!StartAlarm PROVE BootInv'
<1>1. UNCHANGED <<at, bootPie, bootIenable, bootActive, handlers, control, asks, rate, build,
                  built, gone, code, told>>
  BY DEF Start!StartAlarm, Start!Host, Start!End, Start!Interrupting
<1>2. /\ at = "alt_sys_init" /\ stage = "alarm" /\ inits # <<>> /\ stage' = "device"
      /\ inits' = Tail(inits) /\ alarm' = (rate # 0)
      /\ timeout' = IF alarm' THEN timeout ELSE IntMax
  BY DEF Start!StartAlarm, Start!InDriver, Start!TimeoutWithoutAlarm
<1>3. BootTyped'
  BY <1>1, <1>2 DEF BootInv, BootTyped
<1>4. /\ ToCome'
      /\ \A i \in 1 .. Len(inits') : i + 1 \in 1 .. Len(inits) /\ inits'[i] = inits[i + 1]
      /\ \A i \in 1 .. Len(inits') : inits'[i] # Head(inits)
  BY <1>2, RestToCome DEF BootInv
<1>5. Handled' /\ InSteps' /\ Made'
  BY <1>1, <1>2 DEF BootInv, Handled, InSteps, Made
<1>6. Counting'
  <2>1. Head(inits) = "uart" /\ timeout = DefaultTimeout
    BY <1>2 DEF BootInv, Counting
  <2>2. "timer" \in handlers <=> rate # 0
    BY <1>2 DEF BootInv, Counting
  <2>3. "uart" \in handlers
    BY <1>2 DEF BootInv, Counting
  <2>4. alarm' <=> rate # 0
    BY <1>2, Zenon
  <2>5. timeout' = IF alarm' THEN DefaultTimeout ELSE IntMax
    BY <1>2, <2>1
  <2>6. QED
    BY <1>1, <1>2, <1>4, <2>1, <2>2, <2>3, <2>4, <2>5 DEF BootInv, Counting
<1>7. QED
  BY <1>3, <1>4, <1>5, <1>6 DEF BootInv

LEMMA DriversDoneStep == ASSUME BootInv, Start!DriversDone PROVE BootInv'
<1>1. UNCHANGED <<inits, stage, bootPie, bootIenable, bootActive, handlers, control, asks,
                  rate, alarm, timeout, build, built, gone, code, told>>
  BY DEF Start!DriversDone, Start!Host, Start!End, Start!Interrupting
<1>2. at = "alt_sys_init" /\ at' = "_do_ctors" /\ inits = <<>>
  BY DEF Start!DriversDone, Start!Goto
<1>3. BootTyped' /\ ToCome'
  BY <1>1, <1>2 DEF BootInv, BootTyped, ToCome
<1>4. Handled' /\ InSteps'
  BY <1>1, <1>2 DEF BootInv, Handled, InSteps
<1>5. Made' /\ Counting'
  BY <1>1, <1>2 DEF BootInv, Made, Counting
<1>6. QED
  BY <1>3, <1>4, <1>5 DEF BootInv

LEMMA ConstructStep == ASSUME Start!BootAssumption, BootInv, Start!Construct PROVE BootInv'
<1>1. UNCHANGED <<at, inits, stage, bootPie, bootIenable, bootActive, handlers, control,
                  asks, rate, alarm, timeout, build, gone, code, told>>
  BY DEF Start!Construct, Start!Host, Start!End, Start!Interrupting
<1>2. at = "_do_ctors" /\ Objects - Len(built) > 0 /\ built' = Append(built, Objects - Len(built))
  BY DEF Start!Construct, Start!MoreOf, Start!OneMore
<1>3. Objects \in Nat /\ Len(built) \in Nat
  BY DEF Start!BootAssumption, BootInv, Made
<1>4. BootTyped' /\ ToCome' /\ Handled' /\ InSteps' /\ Counting'
  BY <1>1, <1>2 DEF BootInv, BootTyped, ToCome, Handled, InSteps, Counting
<1>5. Made'
  BY <1>1, <1>2, <1>3, SMT DEF BootInv, Made
<1>6. QED
  BY <1>4, <1>5 DEF BootInv

LEMMA CallMainStep == ASSUME Start!BootAssumption, BootInv, Start!CallMain PROVE BootInv'
<1>1. UNCHANGED <<inits, stage, bootPie, bootIenable, bootActive, handlers, control, asks,
                  rate, alarm, timeout, build, built, gone, code, told>>
  BY DEF Start!CallMain, Start!Host, Start!End, Start!Interrupting
<1>2. at = "_do_ctors" /\ at' = "main" /\ ~(Objects - Len(built) > 0)
  BY DEF Start!CallMain, Start!Goto, Start!MoreOf
<1>3. Objects \in Nat
  BY DEF Start!BootAssumption
<1>4. BootTyped' /\ ToCome' /\ Handled' /\ InSteps' /\ Counting'
  BY <1>1, <1>2 DEF BootInv, BootTyped, ToCome, Handled, InSteps, Counting
<1>5. Made'
  BY <1>1, <1>2, <1>3, SMT DEF BootInv, Made
<1>6. QED
  BY <1>4, <1>5 DEF BootInv

LEMMA MainReturnsStep == ASSUME BootInv, Start!MainReturns PROVE BootInv'
<1>1. UNCHANGED <<inits, stage, bootPie, bootIenable, bootActive, handlers, control, asks,
                  rate, alarm, timeout, build, built, gone, told>>
  BY DEF Start!MainReturns, Start!Host, Start!End, Start!Interrupting
<1>2. /\ at = "main" /\ at' = IF build = "none" THEN "spin" ELSE "close"
      /\ code' \in {0, 1}
  BY DEF Start!MainReturns, Start!Goto
<1>3. BootTyped' /\ ToCome'
  BY <1>1, <1>2 DEF BootInv, BootTyped, ToCome, Start!Ended
<1>4. Handled' /\ InSteps'
  BY <1>1, <1>2 DEF BootInv, Handled, InSteps
<1>5. Made' /\ Counting'
  BY <1>1, <1>2 DEF BootInv, Made, Counting, Start!Ended
<1>6. QED
  BY <1>3, <1>4, <1>5 DEF BootInv

LEMMA DestroyStep == ASSUME Start!BootAssumption, BootInv, Start!Destroy PROVE BootInv'
<1>1. UNCHANGED <<at, inits, stage, bootPie, bootIenable, bootActive, handlers, control,
                  asks, rate, alarm, timeout, build, built, code, told>>
  BY DEF Start!Destroy, Start!Host, Start!End, Start!Interrupting
<1>2. at = "exit" /\ Objects - Len(gone) > 0 /\ gone' = Append(gone, Objects - Len(gone))
  BY DEF Start!Destroy, Start!MoreOf, Start!OneMore
<1>3. Objects \in Nat
  BY DEF Start!BootAssumption
<1>4. BootTyped' /\ ToCome' /\ Handled' /\ InSteps' /\ Counting'
  BY <1>1, <1>2 DEF BootInv, BootTyped, ToCome, Handled, InSteps, Counting
<1>5. Made'
  BY <1>1, <1>2, <1>3, SMT DEF BootInv, Made
<1>6. QED
  BY <1>4, <1>5 DEF BootInv

LEMMA CloseOutputStep == ASSUME BootInv, Start!CloseOutput PROVE BootInv'
<1>1. UNCHANGED <<inits, stage, bootPie, bootIenable, bootActive, handlers, control, asks,
                  rate, alarm, timeout, build, built, gone, code, told>>
  BY DEF Start!CloseOutput, Start!Host, Start!End, Start!Interrupting
<1>2. at = "close" /\ at' = IF build = "clean" THEN "exit" ELSE "_exit"
  BY DEF Start!CloseOutput, Start!Goto
<1>3. BootTyped' /\ ToCome'
  BY <1>1, <1>2 DEF BootInv, BootTyped, ToCome, Start!Ended
<1>4. Handled' /\ InSteps'
  BY <1>1, <1>2 DEF BootInv, Handled, InSteps
<1>5. Made' /\ Counting'
  BY <1>1, <1>2 DEF BootInv, BootTyped, Made, Counting, Start!Ended, Start!Builds
<1>6. QED
  BY <1>3, <1>4, <1>5 DEF BootInv

LEMMA DestroyedStep == ASSUME Start!BootAssumption, BootInv, Start!Destroyed PROVE BootInv'
<1>1. UNCHANGED <<inits, stage, bootPie, bootIenable, bootActive, handlers, control, asks,
                  rate, alarm, timeout, build, built, gone, code, told>>
  BY DEF Start!Destroyed, Start!Host, Start!End, Start!Interrupting
<1>2. at = "exit" /\ at' = "_exit" /\ ~(Objects - Len(gone) > 0)
  BY DEF Start!Destroyed, Start!Goto, Start!MoreOf
<1>3. Objects \in Nat
  BY DEF Start!BootAssumption
<1>4. BootTyped' /\ ToCome' /\ Handled' /\ InSteps' /\ Counting'
  BY <1>1, <1>2 DEF BootInv, BootTyped, ToCome, Handled, InSteps, Counting, Start!Ended
<1>5. Made'
  BY <1>1, <1>2, <1>3, SMT DEF BootInv, Made, Start!Ended
<1>6. QED
  BY <1>4, <1>5 DEF BootInv

LEMMA ExitProgramStep == ASSUME Start!BootAssumption, BootInv, Start!Exit PROVE BootInv'
<1>1. UNCHANGED <<inits, stage, bootPie, bootIenable, bootActive, handlers, control, asks,
                  rate, alarm, timeout, build, built, gone, code>>
  BY DEF Start!Exit, Start!Host, Start!End, Start!Interrupting
<1>2. at = "_exit" /\ at' = "spin" /\ told' \in {"pass", "fail"}
  BY DEF Start!Exit, Start!Goto, Start!Verdict
<1>3. Objects \in Nat
  BY DEF Start!BootAssumption
<1>4. BootTyped' /\ ToCome' /\ Handled' /\ InSteps' /\ Counting'
  BY <1>1, <1>2 DEF BootInv, BootTyped, ToCome, Handled, InSteps, Counting
<1>5. Made'
  BY <1>1, <1>2, <1>3, SMT DEF BootInv, Made
<1>6. QED
  BY <1>4, <1>5 DEF BootInv

LEMMA MainEnablesStep == ASSUME NEW d \in Start!Device, BootInv, Start!IrqEnable(d) PROVE BootInv'
<1>1. UNCHANGED <<at, inits, stage, bootPie, handlers, control, asks, rate, alarm, timeout,
                  build, built, gone, code, told>>
  BY DEF Start!IrqEnable, Start!Host, Start!End, Start!Interrupting
<1>2. /\ at = "main" /\ d \in handlers
      /\ bootActive' = bootActive \cup {d} /\ bootIenable' = bootActive'
  BY DEF Start!IrqEnable
<1>3. BootTyped' /\ ToCome'
  BY <1>1, <1>2 DEF BootInv, BootTyped, ToCome, Handled
<1>4. Handled' /\ InSteps'
  BY <1>1, <1>2 DEF BootInv, Handled, InSteps
<1>5. Made' /\ Counting'
  BY <1>1, <1>2 DEF BootInv, Made, Counting
<1>6. QED
  BY <1>3, <1>4, <1>5 DEF BootInv

LEMMA MainDisablesStep == ASSUME NEW d \in Start!Device, BootInv, Start!IrqDisable(d) PROVE BootInv'
<1>1. UNCHANGED <<at, inits, stage, bootPie, handlers, control, asks, rate, alarm, timeout,
                  build, built, gone, code, told>>
  BY DEF Start!IrqDisable, Start!Host, Start!End, Start!Interrupting
<1>2. at = "main" /\ bootActive' = bootActive \ {d} /\ bootIenable' = bootActive'
  BY DEF Start!IrqDisable
<1>3. BootTyped' /\ ToCome'
  BY <1>1, <1>2 DEF BootInv, BootTyped, ToCome, Handled
<1>4. Handled' /\ InSteps'
  BY <1>1, <1>2 DEF BootInv, Handled, InSteps
<1>5. Made' /\ Counting'
  BY <1>1, <1>2 DEF BootInv, Made, Counting
<1>6. QED
  BY <1>3, <1>4, <1>5 DEF BootInv

LEMMA AskStep == ASSUME NEW d \in Start!Device, BootInv, Start!Ask(d) PROVE BootInv'
<1>1. UNCHANGED <<at, inits, stage, bootPie, bootIenable, bootActive, handlers, control,
                  rate, alarm, timeout, build, built, gone, code, told>>
  BY DEF Start!Ask, Start!Host, Start!End, Start!Interrupting
<1>2. asks' = asks \cup {d}
  BY DEF Start!Ask
<1>3. BootTyped'
  <2>1. rate' \in {0} \cup {Start!TimerFreq(t) : t \in Periods}
    BY <1>1 DEF BootInv, BootTyped
  <2>2. QED
    BY <1>1, <1>2, <2>1 DEF BootInv, BootTyped
<1>9. ToCome'
  BY <1>1 DEF BootInv, ToCome
<1>4. Handled' /\ InSteps'
  BY <1>1, <1>2 DEF BootInv, Handled, InSteps
<1>5. Made' /\ Counting'
  BY <1>1, <1>2 DEF BootInv, Made, Counting
<1>6. QED
  BY <1>3, <1>4, <1>5, <1>9 DEF BootInv

LEMMA InterruptStep == ASSUME NEW d \in Start!Device, BootInv, Start!Interrupt(d) PROVE BootInv'
<1>1. UNCHANGED <<inits, stage, bootPie, bootIenable, bootActive, handlers, control, rate,
                  alarm, timeout, build, built, gone, code, told>>
  BY DEF Start!Interrupt, Start!Host, Start!End, Start!Interrupting
<1>2. /\ bootPie /\ d \in bootIenable
      /\ d \in handlers => asks' = asks \ {d} /\ at' = at
  BY DEF Start!Interrupt
<1>3. d \in handlers
  BY <1>2 DEF BootInv, Handled
<1>4. BootTyped'
  <2>1. rate' \in {0} \cup {Start!TimerFreq(t) : t \in Periods}
    BY <1>1 DEF BootInv, BootTyped
  <2>2. QED
    BY <1>1, <1>2, <1>3, <2>1 DEF BootInv, BootTyped
<1>9. ToCome'
  BY <1>1 DEF BootInv, ToCome
<1>5. Handled' /\ InSteps'
  BY <1>1, <1>2, <1>3 DEF BootInv, Handled, InSteps
<1>6. Made' /\ Counting'
  BY <1>1, <1>2, <1>3 DEF BootInv, Made, Counting
<1>7. QED
  BY <1>4, <1>5, <1>6, <1>9 DEF BootInv

LEMMA BootStep ==
  ASSUME Start!BootAssumption
  PROVE  BootInv /\ [Start!Next]_(Start!vars) => BootInv'
<1> SUFFICES ASSUME BootInv, [Start!Next]_(Start!vars) PROVE BootInv'
  OBVIOUS
<1>1. ASSUME UNCHANGED Start!vars
      PROVE  BootInv'
  BY <1>1 DEF Start!vars, Start!Host, Start!End, Start!Interrupting, BootInv, BootTyped,
              ToCome, Handled, InSteps, Made, Counting
<1>2. Start!IrqInit \/ Start!CpuEnable \/ Start!PassDevice \/ Start!EnableDevice => BootInv'
  BY ControllerInitStep, CpuEnableStep, PassDeviceStep, EnableDeviceStep
<1>3. Start!Register \/ Start!StartAlarm \/ Start!DriversDone \/ Start!Construct => BootInv'
  BY RegisterStep, StartAlarmStep, DriversDoneStep, ConstructStep
<1>4. Start!CallMain \/ Start!MainReturns \/ Start!Destroy \/ Start!Exit => BootInv'
  BY CallMainStep, MainReturnsStep, DestroyStep, ExitProgramStep
<1>7. Start!CloseOutput \/ Start!Destroyed => BootInv'
  BY CloseOutputStep, DestroyedStep
<1>5. ASSUME NEW d \in Start!Device,
             Start!IrqEnable(d) \/ Start!IrqDisable(d) \/ Start!Ask(d) \/ Start!Interrupt(d)
      PROVE  BootInv'
  BY <1>5, MainEnablesStep, MainDisablesStep, AskStep, InterruptStep
<1>6. QED
  BY <1>1, <1>2, <1>3, <1>4, <1>5, <1>7 DEF Start!Next

\* Of a processor whose interrupts come on before any driver is there, every
\* interrupt finds its handler, and main runs with the devices and objects it
\* was promised.
THEOREM StartsReady ==
  ASSUME Start!BootAssumption
  PROVE  Start!Spec => [](Start!HandlerFound /\ Start!ReadyForMain)
<1>1. BootInv => Start!HandlerFound /\ Start!ReadyForMain
  BY DEF BootInv, BootTyped, Handled, Made, Start!HandlerFound, Start!ReadyForMain,
         Start!IrqEnabled, Start!Ended
<1>2. QED
  BY <1>1, BootStarts, BootStep, PTL DEF Start!Spec

\* The UART's driver counts its host out only by an alarm of a clock that is
\* there and ticks; where it has none, its timeout never comes.
THEOREM HostTimedByAlarm ==
  ASSUME Start!BootAssumption
  PROVE  Start!Spec => [](Start!TypeOK /\ Start!CountsOnlyByAlarm)
<1>1. DefaultTimeout \in 0 .. IntMax /\ IntMax \in 0 .. IntMax /\ DefaultTimeout # IntMax
  BY SMT DEF Start!BootAssumption
<1>2. ASSUME BootInv
      PROVE  Start!TypeOK
  <2>1. timeout \in 0 .. IntMax
    BY <1>1, <1>2 DEF BootInv, Counting
  <2>2. bootActive \subseteq Start!Device
    BY <1>2 DEF BootInv, BootTyped, Handled
  <2>3. QED
    BY <1>2, <2>1, <2>2 DEF BootInv, BootTyped, Made, Start!TypeOK, Start!Places
<1>3. ASSUME BootInv
      PROVE  Start!CountsOnlyByAlarm
  <2>1. ASSUME "uart" \in handlers, ~(inits # <<>> /\ Head(inits) = "uart")
        PROVE  (timeout = IntMax <=> ~alarm) /\ (alarm => "timer" \in handlers)
    <3>1. stage # "alarm"
      BY <1>3, <2>1 DEF BootInv, Counting, InSteps
    <3>2. timeout = IF alarm THEN DefaultTimeout ELSE IntMax
      BY <1>3, <2>1, <3>1 DEF BootInv, Counting
    <3>3. QED
      BY <1>1, <1>3, <3>2 DEF BootInv, Counting
  <2>2. rate # 0 => rate > 0
    <3>1. \A t \in Periods : Start!TimerFreq(t) > 0
      <4>1. ASSUME NEW t \in Periods
            PROVE  Start!TimerFreq(t) > 0
        BY SomeTicks, SMT
      <4>2. QED
        BY <4>1
    <3>2. QED
      BY <1>3, <3>1 DEF BootInv, BootTyped
  <2>3. QED
    BY <1>3, <2>1, <2>2 DEF BootInv, Counting, Start!CountsOnlyByAlarm
<1>4. QED
  BY <1>2, <1>3, BootStarts, BootStep, PTL DEF Start!Spec

-----------------------------------------------------------------------------
\* Timestamp.tla.

\* A remainder is made of one more piece of the number.
LEMMA OneMorePiece ==
  ASSUME NEW m \in Nat \ {0}, NEW w \in Nat \ {0}, NEW x \in Nat
  PROVE  x % (w * m) = (x % m) + (((x \div m) % w) * m)
<1> DEFINE q == x \div m
           r == x % m
           s == q \div w
           t == q % w
<1>1. q \in Int /\ r \in 0 .. m - 1 /\ x = (m * q) + r
  BY Division
<1> HIDE DEF q, r
<1>2. s \in Int /\ t \in 0 .. w - 1 /\ q = (w * s) + t
  BY <1>1, Division
<1> HIDE DEF s, t
<1> DEFINE u == r + (t * m)
           d == w * m
<1>3. d \in Nat \ {0}
  BY SMT
<1>4. u \in 0 .. d - 1
  <2>1. (t + 1) * m <= w * m
    BY <1>2, SMT
  <2>2. (t + 1) * m = (t * m) + m /\ t * m \in Nat
    BY <1>2, SMT
  <2> DEFINE a == t * m
             b == (t + 1) * m
  <2>3. b <= d /\ b = a + m /\ a \in Nat /\ u = r + a
    BY <2>1, <2>2
  <2> HIDE DEF a, b, d, u
  <2>4. QED
    BY <1>1, <1>3, <2>3, SMT
<1>5. x = (d * s) + u
  <2>1. m * ((w * s) + t) = (m * (w * s)) + (m * t)
    BY <1>2, SMT
  <2>2. m * (w * s) = (w * m) * s /\ m * t = t * m
    BY <1>2, SMT
  <2> DEFINE a == (w * m) * s
             b == t * m
  <2>3. a \in Int /\ b \in Int /\ x = (a + b) + r /\ u = r + b /\ d * s = a
    BY <1>1, <1>2, <2>1, <2>2, SMT
  <2> DEFINE e == d * s
  <2>4. e = a
    BY <2>3
  <2> HIDE DEF a, b, u, e
  <2>5. x = e + u
    BY <1>1, <2>3, <2>4, SMT
  <2>6. QED
    BY <2>5 DEF e
<1>6. x % d = u
  <2> HIDE DEF d, u
  <2> QED BY <1>2, <1>3, <1>4, <1>5, Quotient
<1>7. QED
  BY <1>6 DEF r, t, q

LEMMA Weights ==
  ASSUME Stamp!TimestampAssumption
  PROVE  /\ PieceWord \in Nat \ {0} /\ Pieces \in {2, 4}
         /\ \A n \in 0 .. Pieces : Stamp!Weight(n) \in Nat \ {0}
         /\ \A n \in 0 .. Pieces - 1 : Stamp!Weight(n + 1) = PieceWord * Stamp!Weight(n)
         /\ Stamp!Weight(0) = 1
         /\ Stamp!Full \in Nat /\ Stamp!Weight(Pieces) = Stamp!Full + 1
<1>1. PieceWord \in Nat \ {0} /\ Pieces \in {2, 4}
  BY DEF Stamp!TimestampAssumption
<1> DEFINE w2 == PieceWord * PieceWord
           w3 == PieceWord * PieceWord * PieceWord
           w4 == PieceWord * PieceWord * PieceWord * PieceWord
<1>2. /\ Stamp!Weight(0) = 1 /\ Stamp!Weight(1) = PieceWord /\ Stamp!Weight(2) = w2
      /\ Stamp!Weight(3) = w3 /\ Stamp!Weight(4) = w4
  <2> HIDE DEF w2, w3, w4
  <2>1. \A n \in 0 .. 4 : Stamp!Weight(n) = <<1, PieceWord, w2, w3, w4>>[n + 1]
    BY DEF Stamp!Weight, w2, w3, w4
  <2> QED BY <2>1
<1>3. w2 \in Nat \ {0} /\ w3 = w2 * PieceWord /\ w4 = w3 * PieceWord
  BY <1>1, SMT
<1> HIDE DEF w2, w3, w4
<1>4. w3 \in Nat \ {0} /\ w3 = PieceWord * w2
  BY <1>1, <1>3, SMT
<1> USE DEF w2
<1>5. w2 = PieceWord * PieceWord /\ PieceWord = PieceWord * 1
  BY <1>1, SMT
<1> HIDE DEF w2
<1>6. w4 \in Nat \ {0} /\ w4 = PieceWord * w3
  BY <1>1, <1>3, <1>4, SMT
<1>7. \A n \in 0 .. Pieces : n \in {0, 1, 2, 3, 4}
  BY <1>1, SMT
<1>8. \A n \in 0 .. Pieces : Stamp!Weight(n) \in Nat \ {0}
  BY <1>1, <1>2, <1>3, <1>4, <1>6, <1>7
<1>9. ASSUME NEW n \in 0 .. Pieces - 1
      PROVE  Stamp!Weight(n + 1) = PieceWord * Stamp!Weight(n)
  <2>1. n \in {0, 1, 2, 3}
    BY <1>1, SMT
  <2>2. 0 + 1 = 1 /\ 1 + 1 = 2 /\ 2 + 1 = 3 /\ 3 + 1 = 4
    BY SMT
  <2>3. CASE n = 0
    BY <1>2, <1>5, <2>2, <2>3
  <2>4. CASE n = 1
    BY <1>2, <1>5, <2>2, <2>4
  <2>5. CASE n = 2
    BY <1>2, <1>4, <2>2, <2>5
  <2>6. CASE n = 3
    BY <1>2, <1>6, <2>2, <2>6
  <2>7. QED
    BY <2>1, <2>3, <2>4, <2>5, <2>6
<1>10. Stamp!Weight(Pieces) \in Nat \ {0}
  BY <1>1, <1>8, SMT
<1>11. Stamp!Full \in Nat /\ Stamp!Weight(Pieces) = Stamp!Full + 1
  <2> DEFINE f == Stamp!Weight(Pieces)
  <2>1. f \in Nat \ {0} /\ Stamp!Full = f - 1
    BY <1>10 DEF Stamp!Full
  <2> HIDE DEF f
  <2>2. f - 1 \in Nat /\ f = (f - 1) + 1
    BY <2>1, SMT
  <2>3. QED
    BY <2>1, <2>2 DEF f
<1>12. QED
  BY <1>1, <1>2, <1>8, <1>9, <1>11

StampTyped ==
  /\ registered \in BOOLEAN /\ going \in BOOLEAN
  /\ stamping \in Stamp!Who /\ next \in [Stamp!Who -> 0 .. Pieces]
  /\ count \in 0 .. Stamp!Full /\ snapshot \in 0 .. Stamp!Full
  /\ period \in {0, Stamp!Full} /\ elapsed \in Nat /\ asked \in Nat
  /\ result.value \in 0 .. Stamp!Full

\* The count of a timer that goes is what is left of the full period; one that
\* has run out is loaded again.
Counts ==
  /\ elapsed <= Stamp!Full + 1
  /\ going => period = Stamp!Full /\ count = Stamp!Full - elapsed
  /\ ~going => count = period /\ (elapsed = Stamp!Full + 1 \/ (period = 0 /\ elapsed = 0))

\* What a count stands for, that was taken at a time.
StandsFor(value, time0) ==
  \/ value = Stamp!Full - time0
  \/ time0 = Stamp!Full + 1 /\ value = Stamp!Full

\* The program's call has read the pieces below the next one of the snapshot
\* that it asked for, unless a handler has replaced it.
Reading ==
  /\ read \in 0 .. Stamp!Weight(next["program"]) - 1
  /\ next["program"] # Pieces /\ ~torn =>
         /\ read = snapshot % Stamp!Weight(next["program"])
         /\ period = Stamp!Full => StandsFor(snapshot, asked)

StampInv == StampTyped /\ Counts /\ Reading /\ Stamp!ReadsElapsed

LEMMA StampStarts == ASSUME Stamp!TimestampAssumption PROVE Stamp!Init => StampInv
<1> SUFFICES ASSUME Stamp!Init PROVE StampInv
  OBVIOUS
<1> DEFINE full == Stamp!Full
<1>1. full \in Nat /\ Stamp!Weight(Pieces) = full + 1 /\ Pieces \in {2, 4}
  BY Weights
<1> HIDE DEF full
<1>2. 0 \in 0 .. full /\ Pieces \in 0 .. Pieces
  BY <1>1, SMT
<1>3. StampTyped
  BY <1>2 DEF Stamp!Init, Stamp!None, Stamp!Who, StampTyped, full
<1>4. 0 <= full + 1
  BY <1>1, SMT
<1>5. Counts
  BY <1>4 DEF Stamp!Init, Counts, full
<1>6. next["program"] = Pieces /\ read = 0
  BY DEF Stamp!Init, Stamp!Who
<1>7. 0 \in 0 .. (full + 1) - 1
  BY <1>1, SMT
<1>8. Reading
  BY <1>1, <1>6, <1>7 DEF Reading, full
<1>9. Stamp!ReadsElapsed
  BY DEF Stamp!Init, Stamp!None, Stamp!ReadsElapsed
<1>10. QED
  BY <1>3, <1>5, <1>8, <1>9 DEF StampInv

\* What the count stands for now.
LEMMA CountStands ==
  ASSUME Stamp!TimestampAssumption, StampInv, period = Stamp!Full
  PROVE  StandsFor(count, elapsed)
<1> DEFINE full == Stamp!Full
<1>1. full \in Nat
  BY Weights
<1>2. going => count = full - elapsed
  BY DEF StampInv, Counts
<1>3. ~going => count = full /\ (elapsed = full + 1 \/ (full = 0 /\ elapsed = 0))
  BY DEF StampInv, Counts
<1>4. 0 = 0 - 0
  BY SMT
<1>5. QED
  BY <1>2, <1>3, <1>4 DEF StandsFor

LEMMA StartStampStep ==
  ASSUME Stamp!TimestampAssumption, StampInv, Stamp!Start
  PROVE  StampInv'
<1> DEFINE full == Stamp!Full
<1>1. full \in Nat
  BY Weights
<1>2. /\ period' = full /\ count' = full /\ going' = TRUE /\ elapsed' = 0
      /\ result' = Stamp!None /\ next["program"] = Pieces
      /\ UNCHANGED <<registered, snapshot, stamping, next, read, asked, torn>>
  BY DEF Stamp!Start, Stamp!PeriodFull
<1> HIDE DEF full
<1>3. 0 \in 0 .. full /\ full \in 0 .. full /\ 0 <= full + 1 /\ full = full - 0
  BY <1>1, SMT
<1>4. StampTyped'
  BY <1>2, <1>3 DEF StampInv, StampTyped, Stamp!None, full, Stamp!Who
<1>5. Counts'
  BY <1>2, <1>3 DEF Counts, full
<1>6. Reading'
  BY <1>2 DEF StampInv, Reading
<1>7. Stamp!ReadsElapsed'
  BY <1>2 DEF Stamp!ReadsElapsed, Stamp!None
<1>8. QED
  BY <1>4, <1>5, <1>6, <1>7 DEF StampInv

LEMMA TickStampStep ==
  ASSUME Stamp!TimestampAssumption, StampInv, Stamp!Tick
  PROVE  StampInv'
<1> DEFINE full == Stamp!Full
<1>1. full \in Nat
  BY Weights
<1>2. /\ going /\ count' = (IF count = 0 THEN period ELSE count - 1)
      /\ going' = (count > 0) /\ elapsed' = elapsed + 1
      /\ UNCHANGED <<registered, snapshot, period, stamping, next, read, asked, result, torn>>
  BY DEF Stamp!Tick, Stamp!calls
<1>3. period = full /\ count = full - elapsed /\ count \in 0 .. full /\ elapsed \in Nat
  BY <1>2 DEF StampInv, StampTyped, Counts
<1> HIDE DEF full
<1>4. count' \in 0 .. full /\ elapsed' \in Nat /\ elapsed' <= full + 1
  BY <1>1, <1>2, <1>3, SMT
<1>5. count > 0 => count' = full - elapsed'
  BY <1>1, <1>2, <1>3, SMT
<1>6. ~(count > 0) => count' = full /\ elapsed' = full + 1
  BY <1>1, <1>2, <1>3, SMT
<1>7. StampTyped'
  BY <1>2, <1>4 DEF StampInv, StampTyped, full, Stamp!Who
<1>8. Counts'
  BY <1>2, <1>3, <1>4, <1>5, <1>6 DEF Counts, full
<1>9. Reading'
  BY <1>2 DEF StampInv, Reading, StandsFor
<1>10. Stamp!ReadsElapsed'
  BY <1>2 DEF StampInv, Stamp!ReadsElapsed
<1>11. QED
  BY <1>7, <1>8, <1>9, <1>10 DEF StampInv

LEMMA UnavailableStep ==
  ASSUME Stamp!TimestampAssumption, StampInv, Stamp!Unavailable
  PROVE  StampInv'
<1>1. ~registered /\ UNCHANGED <<registered, count, going, period, elapsed, snapshot, stamping,
                                 next, read, asked, torn>>
  BY DEF Stamp!Unavailable, Stamp!timer
<1>2. Stamp!Full \in 0 .. Stamp!Full
  BY Weights, SMT
<1>3. result'.value \in 0 .. Stamp!Full
  BY <1>2 DEF Stamp!Unavailable, StampInv, StampTyped
<1>4. StampTyped'
  BY <1>1, <1>3 DEF StampInv, StampTyped, Stamp!Who
<1>5. Counts' /\ Reading'
  BY <1>1 DEF StampInv, Counts, Reading, StandsFor
<1>6. Stamp!ReadsElapsed'
  BY <1>1 DEF Stamp!ReadsElapsed
<1>7. QED
  BY <1>4, <1>5, <1>6 DEF StampInv

LEMMA SnapStep ==
  ASSUME Stamp!TimestampAssumption, StampInv, Stamp!Snap
  PROVE  StampInv'
<1> DEFINE full == Stamp!Full
<1>1. full \in Nat /\ Pieces \in {2, 4} /\ Stamp!Weight(0) = 1
  BY Weights
<1>2. /\ next' = [next EXCEPT ![stamping] = 0] /\ snapshot' = count
      /\ UNCHANGED <<registered, count, going, period, elapsed, stamping>>
      /\ IF stamping = "program"
         THEN read' = 0 /\ asked' = elapsed /\ result' = Stamp!None /\ torn' = FALSE
         ELSE /\ torn' = (torn \/ next["program"] # Pieces)
              /\ UNCHANGED <<read, asked, result>>
  BY DEF Stamp!Snap, Stamp!timer
<1>3. next \in [Stamp!Who -> 0 .. Pieces] /\ stamping \in Stamp!Who /\ "program" \in Stamp!Who
  BY DEF StampInv, StampTyped, Stamp!Who
<1> HIDE DEF full
<1>4. 0 \in 0 .. Pieces /\ 0 \in 0 .. full
  BY <1>1, SMT
<1>5. StampTyped'
  <2>1. next' \in [Stamp!Who -> 0 .. Pieces]
    BY <1>2, <1>3, <1>4
  <2>2. asked' \in Nat /\ result'.value \in 0 .. full
    BY <1>2, <1>4 DEF StampInv, StampTyped, Stamp!None, full
  <2>3. QED
    BY <1>2, <2>1, <2>2 DEF StampInv, StampTyped, full, Stamp!Who
<1>6. Counts'
  BY <1>2 DEF StampInv, Counts
<1>7. Reading'
  <2>1. CASE stamping = "program"
    <3>1. next'["program"] = 0
      BY <1>2, <1>3, <2>1
    <3>2. /\ 0 \in 0 .. Stamp!Weight(0) - 1
          /\ \A v \in 0 .. full : 0 = v % Stamp!Weight(0)
      BY <1>1, SMT
    <3>3. snapshot' \in 0 .. full
      BY <1>2 DEF StampInv, StampTyped, full
    <3>4. period' = full => StandsFor(snapshot', asked')
      BY <1>2, <2>1, CountStands DEF full
    <3>5. QED
      BY <1>2, <2>1, <3>1, <3>2, <3>3, <3>4 DEF Reading, full, StandsFor
  <2>2. CASE stamping # "program"
    <3>1. next'["program"] = next["program"]
      BY <1>2, <1>3, <2>2
    <3>2. torn' <=> torn \/ next["program"] # Pieces
      BY <1>2, <2>2, Zenon
    <3>3. QED
      BY <1>2, <2>2, <3>1, <3>2 DEF StampInv, Reading
  <2>3. QED
    BY <2>1, <2>2
<1>8. Stamp!ReadsElapsed'
  BY <1>2 DEF StampInv, Stamp!ReadsElapsed, Stamp!None
<1>9. QED
  BY <1>5, <1>6, <1>7, <1>8 DEF StampInv

LEMMA ReadPieceStep ==
  ASSUME Stamp!TimestampAssumption, StampInv, Stamp!ReadPiece
  PROVE  StampInv'
<1> DEFINE full == Stamp!Full
           n == next[stamping]
           w == Stamp!Weight(n)
           sum == read + (Stamp!PieceOfSnapshot(n) * w)
<1>1. /\ full \in Nat /\ Pieces \in {2, 4} /\ PieceWord \in Nat \ {0}
      /\ Stamp!Weight(Pieces) = full + 1
  BY Weights
<1>2. /\ n < Pieces /\ next' = [next EXCEPT ![stamping] = n + 1]
      /\ UNCHANGED <<registered, count, going, period, elapsed, snapshot, stamping, asked, torn>>
      /\ IF stamping = "program"
         THEN /\ read' = sum
              /\ result' = IF n + 1 = Pieces
                           THEN [value |-> full - sum, at |-> asked, torn |-> torn]
                           ELSE result
         ELSE UNCHANGED <<read, result>>
  BY DEF Stamp!ReadPiece, Stamp!timer
<1>3. /\ next \in [Stamp!Who -> 0 .. Pieces] /\ stamping \in Stamp!Who
      /\ "program" \in Stamp!Who /\ snapshot \in Nat /\ snapshot <= full /\ asked \in Nat
  BY <1>1, SMT DEF StampInv, StampTyped, Stamp!Who
<1>4. n \in 0 .. Pieces - 1 /\ n + 1 \in 0 .. Pieces /\ n # Pieces
  BY <1>1, <1>2, <1>3, SMT
<1>5. w \in Nat \ {0} /\ Stamp!Weight(n + 1) = PieceWord * w
  BY <1>1, <1>4, Weights
<1>6. Stamp!PieceOfSnapshot(n) = (snapshot \div w) % PieceWord
  BY DEF Stamp!PieceOfSnapshot, Stamp!Piece
<1> DEFINE more == (snapshot \div w) % PieceWord
<1>7. snapshot % (PieceWord * w) = (snapshot % w) + (more * w)
  BY <1>1, <1>3, <1>5, OneMorePiece
<1>8. more \in 0 .. PieceWord - 1
  <2> HIDE DEF w
  <2>1. snapshot \in Int
    BY <1>3, SMT
  <2>2. snapshot \div w \in Int
    BY <1>5, <2>1, Division
  <2>3. QED
    BY <1>1, <2>2, Division
<1>9. next' \in [Stamp!Who -> 0 .. Pieces]
  BY <1>2, <1>3, <1>4
<1>10. Counts'
  BY <1>2 DEF StampInv, Counts
<1>11. CASE stamping # "program"
  <2>1. next'["program"] = next["program"] /\ UNCHANGED <<read, result>>
    BY <1>2, <1>3, <1>11
  <2>2. StampTyped'
    BY <1>2, <1>9, <2>1 DEF StampInv, StampTyped, Stamp!Who
  <2>3. Reading'
    BY <1>2, <2>1 DEF StampInv, Reading, StandsFor
  <2>4. Stamp!ReadsElapsed'
    BY <1>2, <2>1 DEF StampInv, Stamp!ReadsElapsed
  <2>5. QED
    BY <1>10, <2>2, <2>3, <2>4 DEF StampInv
<1>12. CASE stamping = "program"
  <2>1. n = next["program"] /\ next'["program"] = n + 1
    BY <1>2, <1>3, <1>12
  <2>2. read \in 0 .. w - 1 /\ (~torn => read = snapshot % w)
    BY <1>4, <2>1 DEF StampInv, Reading
  <2>3. sum \in 0 .. (PieceWord * w) - 1
    <3>1. (more + 1) * w <= PieceWord * w
      BY <1>1, <1>5, <1>8, SMT
    <3>2. (more + 1) * w = (more * w) + w /\ more * w \in Nat /\ PieceWord * w \in Nat
      BY <1>1, <1>5, <1>8, SMT
    <3> DEFINE a == more * w
               b == (more + 1) * w
               d == PieceWord * w
    <3>3. b <= d /\ b = a + w /\ a \in Nat /\ d \in Nat /\ sum = read + a
      BY <1>6, <3>1, <3>2
    <3> HIDE DEF a, b, d, w, sum
    <3>4. sum \in 0 .. d - 1
      BY <1>5, <2>2, <3>3, SMT
    <3>5. QED
      BY <3>4 DEF d
  <2>4. ~torn => sum = snapshot % (PieceWord * w)
    BY <1>6, <1>7, <2>2
  <2>5. /\ sum \in 0 .. Stamp!Weight(n + 1) - 1
        /\ ~torn => sum = snapshot % Stamp!Weight(n + 1)
    BY <1>5, <2>3, <2>4
  <2> HIDE DEF full, w, sum, more
  <2>6. read' = sum
    BY <1>2, <1>12
  <2>7. n + 1 = Pieces => sum \in 0 .. full /\ (~torn => sum = snapshot)
    <3>1. ASSUME n + 1 = Pieces
          PROVE  sum \in 0 .. full
      BY <1>1, <2>5, <3>1, SMT
    <3>2. ASSUME n + 1 = Pieces
          PROVE  snapshot % (full + 1) = snapshot
      BY <1>1, <1>3, SMT
    <3>3. QED
      BY <1>1, <2>5, <3>1, <3>2
  <2>8. n + 1 = Pieces => full - sum \in 0 .. full
    BY <1>1, <2>7, SMT
  <2>9. result'.value \in 0 .. full
    BY <1>2, <1>12, <2>8 DEF StampInv, StampTyped, full
  <2>10. StampTyped'
    BY <1>2, <1>9, <2>9 DEF StampInv, StampTyped, Stamp!Who, full
  <2>11. period = full /\ ~torn => StandsFor(snapshot, asked)
    BY <1>4, <2>1 DEF StampInv, Reading, full
  <2>12. Reading'
    BY <1>2, <2>1, <2>5, <2>6, <2>11 DEF Reading, StandsFor, full
  <2>13. ASSUME n + 1 = Pieces, registered, period = full, ~torn
         PROVE  full - sum = asked \/ (full - sum = 0 /\ asked = full + 1)
    <3>1. sum = snapshot /\ (sum = full - asked \/ (asked = full + 1 /\ sum = full))
      BY <2>7, <2>11, <2>13 DEF StandsFor, full
    <3>2. QED
      BY <1>1, <1>3, <3>1, SMT
  <2>14. Stamp!ReadsElapsed'
    <3>1. CASE n + 1 = Pieces
      <4>1. result' = [value |-> full - sum, at |-> asked, torn |-> torn]
        BY <1>2, <1>12, <3>1
      <4>2. QED
        BY <1>2, <2>13, <3>1, <4>1 DEF Stamp!ReadsElapsed, full
    <3>2. CASE n + 1 # Pieces
      <4>1. result' = result
        BY <1>2, <1>12, <3>2
      <4>2. QED
        BY <1>2, <4>1 DEF StampInv, Stamp!ReadsElapsed
    <3>3. QED
      BY <3>1, <3>2
  <2>15. QED
    BY <1>10, <2>10, <2>12, <2>14 DEF StampInv
<1>13. QED
  BY <1>11, <1>12

LEMMA StampStep ==
  ASSUME Stamp!TimestampAssumption
  PROVE  StampInv /\ [Stamp!Next]_(Stamp!vars) => StampInv'
<1> SUFFICES ASSUME StampInv, [Stamp!Next]_(Stamp!vars) PROVE StampInv'
  OBVIOUS
<1>1. Stamp!Start \/ Stamp!Tick \/ Stamp!Unavailable \/ Stamp!Snap \/ Stamp!ReadPiece => StampInv'
  BY StartStampStep, TickStampStep, UnavailableStep, SnapStep, ReadPieceStep
<1>2. ASSUME Stamp!Interrupt \/ Stamp!Return \/ UNCHANGED Stamp!vars
      PROVE  StampInv'
  <2>1. /\ stamping' \in Stamp!Who
        /\ UNCHANGED <<registered, count, going, snapshot, period, elapsed, next, read, asked,
                       result, torn>>
    BY <1>2 DEF Stamp!Interrupt, Stamp!Return, Stamp!vars, Stamp!timer, Stamp!calls, Stamp!Who,
                StampInv, StampTyped
  <2>2. StampTyped'
    BY <2>1 DEF StampInv, StampTyped, Stamp!Who
  <2>3. Counts' /\ Reading' /\ Stamp!ReadsElapsed'
    BY <2>1 DEF StampInv, Counts, Reading, StandsFor, Stamp!ReadsElapsed
  <2>4. QED
    BY <2>2, <2>3 DEF StampInv
<1>3. QED
  BY <1>1, <1>2 DEF Stamp!Next

\* A timestamp whose snapshot no handler has replaced is the time of the
\* snapshot, although the timer goes on and its pieces are read one by one.
THEOREM StampReadsElapsed ==
  ASSUME Stamp!TimestampAssumption
  PROVE  Stamp!Spec => [](Stamp!TypeOK /\ Stamp!ReadsElapsed)
<1>1. StampInv => Stamp!TypeOK
  <2>1. SUFFICES ASSUME StampInv PROVE Stamp!TypeOK
    OBVIOUS
  <2> DEFINE full == Stamp!Full
  <2>2. full \in Nat /\ elapsed \in Nat /\ elapsed <= full + 1
    BY <2>1, Weights DEF StampInv, StampTyped, Counts
  <2>3. next["program"] \in 0 .. Pieces /\ Pieces \in {2, 4}
    BY <2>1, Weights DEF StampInv, StampTyped, Stamp!Who
  <2>4. read \in 0 .. full
    <3> DEFINE k == next["program"]
    <3>1. /\ Stamp!Weight(0) = 1 /\ Stamp!Weight(Pieces) = full + 1
          /\ \A m \in 0 .. Pieces - 1 : Stamp!Weight(m + 1) = PieceWord * Stamp!Weight(m)
          /\ \A m \in 0 .. Pieces : Stamp!Weight(m) \in Nat \ {0}
          /\ PieceWord \in Nat \ {0}
      BY Weights
    <3>2. \A m \in 0 .. Pieces - 1 : Stamp!Weight(m) <= Stamp!Weight(m + 1)
      <4>1. ASSUME NEW m \in 0 .. Pieces - 1
            PROVE  Stamp!Weight(m) <= Stamp!Weight(m + 1)
        <5> DEFINE u == Stamp!Weight(m)
        <5>1. u \in Nat \ {0} /\ Stamp!Weight(m + 1) = PieceWord * u
          BY <2>3, <3>1, SMT
        <5> HIDE DEF u
        <5>2. u <= PieceWord * u
          BY <3>1, <5>1, SMT
        <5>3. QED
          BY <5>1, <5>2 DEF u
      <4>2. QED
        BY <4>1
    <3>3. Stamp!Weight(k) <= full + 1
      BY <2>2, <2>3, <3>1, <3>2, SMT
    <3>4. read \in 0 .. Stamp!Weight(k) - 1 /\ Stamp!Weight(k) \in Nat
      BY <2>1, <2>3, <3>1 DEF StampInv, Reading
    <3>5. QED
      BY <2>2, <3>3, <3>4, SMT
  <2>5. elapsed \in 0 .. full + 1
    BY <2>2, SMT
  <2>6. QED
    BY <2>1, <2>4, <2>5 DEF StampInv, StampTyped, Stamp!TypeOK
<1>2. StampInv => Stamp!ReadsElapsed
  BY DEF StampInv
<1>3. QED
  BY <1>1, <1>2, StampStarts, StampStep, PTL DEF Stamp!Spec

-----------------------------------------------------------------------------
\* Alarms.tla.

\* The list is a ring through the head of the n alarms p[1] to p[n]; an alarm
\* out of it points at itself or was never in it.
Ring(l, p, n) ==
  /\ n \in Nat /\ p \in [0 .. n + 1 -> Timers!Node]
  /\ p[0] = "list" /\ p[n + 1] = "list"
  /\ \A i \in 1 .. n : p[i] \in Alarm
  /\ \A i, j \in 1 .. n : p[i] = p[j] => i = j
  /\ l \in [next : [Timers!Node -> Timers!Node \cup {"null"}],
            prev : [Timers!Node -> Timers!Node \cup {"null"}]]
  /\ \A i \in 0 .. n : l.next[p[i]] = p[i + 1] /\ l.prev[p[i + 1]] = p[i]
  /\ \A a \in Alarm : (\A i \in 1 .. n : p[i] # a) =>
        l.next[a] = l.prev[a] /\ l.next[a] \in {a, "null"}

\* The armed alarms are those of the ring.
LEMMA RingArmed ==
  ASSUME Timers!AlarmAssumption, NEW l, NEW p, NEW n, Ring(l, p, n)
  PROVE  Timers!Armed(l) = {p[i] : i \in 1 .. n}
<1>1. ASSUME NEW i \in 1 .. n PROVE p[i] \in Timers!Armed(l)
  <2>1. n \in Nat /\ i \in 0 .. n /\ p[i] \in Alarm /\ l.next[p[i]] = p[i + 1]
    BY <1>1 DEF Ring
  <2>2. p[i + 1] # p[i] /\ p[i + 1] # "null"
    <3>1. CASE i = n
      BY <2>1, <3>1 DEF Ring, Timers!AlarmAssumption
    <3>2. CASE i # n
      <4>1. i + 1 \in 1 .. n /\ i + 1 # i
        BY <2>1, <3>2
      <4>2. QED
        BY <4>1 DEF Ring, Timers!AlarmAssumption
    <3>3. QED
      BY <3>1, <3>2
  <2>3. QED
    BY <2>1, <2>2 DEF Timers!Armed
<1>2. ASSUME NEW a \in Timers!Armed(l), \A i \in 1 .. n : p[i] # a PROVE FALSE
  BY <1>2 DEF Timers!Armed, Ring
<1>3. QED
  BY <1>1, <1>2

\* Where an alarm starts, in front of the others.
InFront(p, n, a) ==
  [i \in 0 .. n + 2 |-> IF i = 0 THEN "list" ELSE IF i = 1 THEN a ELSE p[i - 1]]

\* alt_llist_insert, at the head of the ring.
LEMMA RingInserted ==
  ASSUME Timers!AlarmAssumption, NEW l, NEW p, NEW n, Ring(l, p, n),
         NEW a \in Alarm, \A i \in 1 .. n : p[i] # a
  PROVE  Ring(Timers!Inserted(l, a), InFront(p, n, a), n + 1)
<1> DEFINE q == InFront(p, n, a)
           r == Timers!Inserted(l, a)
<1>1. /\ n \in Nat /\ p \in [0 .. n + 1 -> Timers!Node] /\ p[0] = "list" /\ p[n + 1] = "list"
      /\ (\A i \in 1 .. n : p[i] \in Alarm) /\ (\A i, j \in 1 .. n : p[i] = p[j] => i = j)
  BY DEF Ring
<1>2. /\ "list" \notin Alarm /\ Alarm \cup {"list"} = Timers!Node
      /\ l \in [next : [Timers!Node -> Timers!Node \cup {"null"}],
                prev : [Timers!Node -> Timers!Node \cup {"null"}]]
      /\ \A i \in 0 .. n : l.next[p[i]] = p[i + 1] /\ l.prev[p[i + 1]] = p[i]
      /\ \A b \in Alarm : (\A i \in 1 .. n : p[i] # b) =>
            l.next[b] = l.prev[b] /\ l.next[b] \in {b, "null"}
  BY DEF Ring, Timers!AlarmAssumption, Timers!Node
<1>3. /\ q \in [0 .. n + 2 -> Timers!Node] /\ q[0] = "list" /\ q[1] = a
      /\ \A i \in 2 .. n + 2 : q[i] = p[i - 1]
  BY <1>1, <1>2 DEF InFront
<1> HIDE DEF q
<1>4. /\ (\A i \in 1 .. n + 1 : q[i] \in Alarm) /\ q[n + 2] = "list"
      /\ \A i, j \in 1 .. n + 1 : q[i] = q[j] => i = j
  <2>1. \A i \in 2 .. n + 1 : i - 1 \in 1 .. n /\ q[i] = p[i - 1]
    BY <1>1, <1>3
  <2>2. q[n + 2] = p[n + 1]
    BY <1>1, <1>3
  <2>3. \A i \in 1 .. n + 1 : i = 1 \/ i \in 2 .. n + 1
    BY <1>1
  <2>4. QED
    BY <1>1, <1>3, <2>1, <2>2, <2>3
<1>5. p[1] \in Timers!Node /\ a \in Timers!Node /\ "list" \in Timers!Node /\ p[1] # a /\ a # "list"
      /\ l.next["list"] = p[1]
  <2>1. p[1] = IF n = 0 THEN "list" ELSE p[1]
    BY <1>1
  <2>2. 1 \in 0 .. n + 1 /\ 0 \in 0 .. n
    BY <1>1
  <2>3. n # 0 => 1 \in 1 .. n
    BY <1>1
  <2>4. QED
    BY <1>1, <1>2, <2>1, <2>2, <2>3
<1>6. r = [next |-> [l.next EXCEPT ![a] = p[1], !["list"] = a],
           prev |-> [l.prev EXCEPT ![a] = "list", ![p[1]] = a]]
  BY <1>5 DEF Timers!Inserted
<1>7. /\ r.next[a] = p[1] /\ r.next["list"] = a /\ r.prev[a] = "list" /\ r.prev[p[1]] = a
      /\ \A x \in Timers!Node \ {a, "list"} : r.next[x] = l.next[x]
      /\ \A x \in Timers!Node \ {a, p[1]} : r.prev[x] = l.prev[x]
      /\ r \in [next : [Timers!Node -> Timers!Node \cup {"null"}],
                prev : [Timers!Node -> Timers!Node \cup {"null"}]]
  BY <1>2, <1>5, <1>6
<1> HIDE DEF r
<1>8. ASSUME NEW i \in 0 .. n + 1
      PROVE  r.next[q[i]] = q[i + 1] /\ r.prev[q[i + 1]] = q[i]
  <2>1. CASE i = 0
    BY <1>3, <1>7, <2>1
  <2>2. CASE i = 1
    <3>1. q[2] = p[1]
      BY <1>1, <1>3
    <3>2. QED
      BY <1>3, <1>7, <2>2, <3>1
  <2>3. CASE i \in 2 .. n + 1
    <3> DEFINE k == i - 1
    <3>1. k \in 1 .. n /\ k \in 0 .. n /\ q[i] = p[k] /\ q[i + 1] = p[k + 1] /\ k + 1 \in 2 .. n + 1
      BY <1>1, <1>3, <2>3
    <3> HIDE DEF k
    <3>2. p[k] \in Alarm /\ p[k] # a /\ p[k] # "list"
      BY <1>1, <1>2, <3>1
    <3>3. p[k + 1] \in Timers!Node /\ p[k + 1] # a /\ p[k + 1] # p[1]
      <4>1. CASE k = n
        BY <1>1, <1>2, <1>5, <3>1, <4>1
      <4>2. CASE k # n
        <5>1. k + 1 \in 1 .. n /\ 1 \in 1 .. n /\ k + 1 # 1
          BY <1>1, <3>1, <4>2
        <5>2. QED
          BY <1>1, <1>2, <5>1
      <4>3. QED
        BY <4>1, <4>2
    <3>4. QED
      BY <1>2, <1>7, <3>1, <3>2, <3>3
  <2>4. QED
    BY <1>1, <2>1, <2>2, <2>3
<1>9. ASSUME NEW b \in Alarm, \A i \in 1 .. n + 1 : q[i] # b
      PROVE  r.next[b] = r.prev[b] /\ r.next[b] \in {b, "null"}
  <2>1. b # a
    BY <1>1, <1>3, <1>9
  <2>2. ASSUME NEW i \in 1 .. n PROVE p[i] # b
    <3>1. i + 1 \in 2 .. n + 2 /\ i + 1 \in 1 .. n + 1 /\ (i + 1) - 1 = i
      BY <1>1
    <3>2. QED
      BY <1>3, <1>9, <3>1
  <2>3. b # p[1] /\ b # "list"
    <3>1. n = 0 \/ 1 \in 1 .. n
      BY <1>1
    <3>2. QED
      BY <1>1, <1>2, <2>2, <3>1
  <2>4. b \in Timers!Node
    BY <1>2
  <2>5. QED
    BY <1>2, <1>7, <2>1, <2>2, <2>3, <2>4
<1>10. n + 1 \in Nat /\ (n + 1) + 1 = n + 2
  BY <1>1
<1>11. QED
  BY <1>3, <1>4, <1>7, <1>8, <1>9, <1>10 DEF Ring, q, r


\* What is left of the ring without its alarm p[j].
Without(p, n, j) == [i \in 0 .. n |-> IF i < j THEN p[i] ELSE p[i + 1]]

\* alt_llist_remove, anywhere in the ring; the entry ends up pointing at itself.
LEMMA RingRemoved ==
  ASSUME Timers!AlarmAssumption, NEW l, NEW p, NEW n, Ring(l, p, n), NEW j \in 1 .. n
  PROVE  /\ Ring(Timers!Removed(l, p[j]), Without(p, n, j), n - 1)
         /\ Timers!Removed(l, p[j]).next[p[j]] = p[j]
         /\ \A i \in 1 .. n - 1 : Without(p, n, j)[i] # p[j]
<1> DEFINE q == Without(p, n, j)
           r == Timers!Removed(l, p[j])
           e == p[j]
<1>1. /\ n \in Nat /\ p \in [0 .. n + 1 -> Timers!Node] /\ p[0] = "list" /\ p[n + 1] = "list"
      /\ (\A i \in 1 .. n : p[i] \in Alarm) /\ (\A i, k \in 1 .. n : p[i] = p[k] => i = k)
  BY DEF Ring
<1>2. /\ "list" \notin Alarm /\ Alarm \cup {"list"} = Timers!Node
      /\ l \in [next : [Timers!Node -> Timers!Node \cup {"null"}],
                prev : [Timers!Node -> Timers!Node \cup {"null"}]]
      /\ \A i \in 0 .. n : l.next[p[i]] = p[i + 1] /\ l.prev[p[i + 1]] = p[i]
      /\ \A b \in Alarm : (\A i \in 1 .. n : p[i] # b) =>
            l.next[b] = l.prev[b] /\ l.next[b] \in {b, "null"}
  BY DEF Ring, Timers!AlarmAssumption, Timers!Node
<1>3. /\ \A i, k \in 0 .. n : p[i] = p[k] => i = k
      /\ \A i, k \in 1 .. n + 1 : p[i] = p[k] => i = k
  <2>1. \A i \in 0 .. n + 1 : i = 0 \/ i = n + 1 \/ i \in 1 .. n
    BY <1>1
  <2>2. \A i, k \in 0 .. n : i \in 0 .. n + 1 /\ i # n + 1
    BY <1>1
  <2>3. \A i, k \in 1 .. n + 1 : i \in 0 .. n + 1 /\ i # 0
    BY <1>1
  <2>4. QED
    BY <1>1, <1>2, <2>1, <2>2, <2>3
<1>4. /\ j - 1 \in 0 .. n /\ j + 1 \in 1 .. n + 1 /\ j \in 0 .. n /\ j \in 1 .. n + 1
      /\ (j - 1) + 1 = j /\ j \in Int
  BY <1>1
<1>5. /\ l.prev[e] = p[j - 1] /\ l.next[e] = p[j + 1] /\ e \in Alarm /\ e \in Timers!Node
      /\ p[j - 1] \in Timers!Node /\ p[j + 1] \in Timers!Node
      /\ p[j - 1] # e /\ p[j + 1] # e
  <2>1. l.next[p[j]] = p[j + 1]
    BY <1>2, <1>4
  <2>2. l.prev[p[(j - 1) + 1]] = p[j - 1]
    BY <1>2, <1>4
  <2>3. j - 1 # j /\ j + 1 # j /\ j - 1 \in 0 .. n + 1 /\ j + 1 \in 0 .. n + 1
    BY <1>1
  <2>4. QED
    BY <1>1, <1>2, <1>3, <1>4, <2>1, <2>2, <2>3
<1>6. /\ q \in [0 .. n -> Timers!Node]
      /\ \A i \in 0 .. n : q[i] = IF i < j THEN p[i] ELSE p[i + 1]
  <2>1. \A i \in 0 .. n : i \in 0 .. n + 1 /\ i + 1 \in 0 .. n + 1
    BY <1>1
  <2>2. QED
    BY <1>1, <2>1 DEF Without
<1> HIDE DEF q
<1>7. q[0] = "list" /\ q[n] = "list"
  BY <1>1, <1>4, <1>6
<1>8. /\ \A i \in 1 .. n - 1 : q[i] \in Alarm /\ q[i] # e
      /\ \A i, k \in 1 .. n - 1 : q[i] = q[k] => i = k
  <2>1. \A i \in 1 .. n - 1 : i \in 0 .. n /\ i \in 1 .. n /\ i + 1 \in 1 .. n /\ i \in Int
    BY <1>1
  <2>2. \A i \in 1 .. n - 1 : i < j => q[i] = p[i]
    BY <1>6, <2>1
  <2>3. \A i \in 1 .. n - 1 : ~(i < j) => q[i] = p[i + 1]
    BY <1>6, <2>1
  <2>4. \A i \in 1 .. n - 1 : q[i] \in Alarm /\ q[i] # e
    <3>1. ASSUME NEW i \in 1 .. n - 1 PROVE q[i] \in Alarm /\ q[i] # e
      <4>1. CASE i < j
        BY <1>1, <1>4, <2>1, <2>2, <4>1
      <4>2. CASE ~(i < j)
        <5>1. i + 1 # j
          BY <1>4, <2>1, <4>2
        <5>2. QED
          BY <1>1, <1>4, <2>1, <2>3, <4>2, <5>1
      <4>3. QED
        BY <4>1, <4>2
    <3>2. QED
      BY <3>1
  <2>5. ASSUME NEW i \in 1 .. n - 1, NEW k \in 1 .. n - 1, q[i] = q[k] PROVE i = k
    <3>1. CASE i < j /\ k < j
      BY <1>1, <2>1, <2>2, <2>5, <3>1
    <3>2. CASE i < j /\ ~(k < j)
      <4>1. i = k + 1
        BY <1>1, <2>1, <2>2, <2>3, <2>5, <3>2
      <4>2. QED
        BY <1>4, <2>1, <3>2, <4>1
    <3>3. CASE ~(i < j) /\ k < j
      <4>1. k = i + 1
        BY <1>1, <2>1, <2>2, <2>3, <2>5, <3>3
      <4>2. QED
        BY <1>4, <2>1, <3>3, <4>1
    <3>4. CASE ~(i < j) /\ ~(k < j)
      <4>1. i + 1 = k + 1
        BY <1>1, <2>1, <2>3, <2>5, <3>4
      <4>2. QED
        BY <2>1, <4>1
    <3>5. QED
      BY <3>1, <3>2, <3>3, <3>4
  <2>6. QED
    BY <2>4, <2>5
<1>9. r = [next |-> [l.next EXCEPT ![p[j - 1]] = p[j + 1], ![e] = e],
           prev |-> [l.prev EXCEPT ![p[j + 1]] = p[j - 1], ![e] = e]]
  BY <1>5 DEF Timers!Removed
<1>10. /\ r.next[e] = e /\ r.next[p[j - 1]] = p[j + 1]
       /\ r.prev[e] = e /\ r.prev[p[j + 1]] = p[j - 1]
       /\ \A x \in Timers!Node \ {e, p[j - 1]} : r.next[x] = l.next[x]
       /\ \A x \in Timers!Node \ {e, p[j + 1]} : r.prev[x] = l.prev[x]
       /\ r \in [next : [Timers!Node -> Timers!Node \cup {"null"}],
                 prev : [Timers!Node -> Timers!Node \cup {"null"}]]
  <2> HIDE DEF e
  <2>1. QED
    BY <1>2, <1>5, <1>9
<1> HIDE DEF r
<1>11. ASSUME NEW i \in 0 .. n - 1
       PROVE  r.next[q[i]] = q[i + 1] /\ r.prev[q[i + 1]] = q[i]
  <2>1. /\ i \in 0 .. n /\ i + 1 \in 0 .. n /\ i \in Int
        /\ i + 1 \in 1 .. n + 1 /\ i + 2 \in 1 .. n + 1
        /\ i + 1 \in 0 .. n + 1 /\ i \in 0 .. n + 1 /\ i + 2 \in 0 .. n + 1
    BY <1>1
  <2>2. CASE i + 1 < j
    <3>1. q[i] = p[i] /\ q[i + 1] = p[i + 1]
      BY <1>4, <1>6, <2>1, <2>2
    <3>2. i # j - 1 /\ i # j /\ i + 1 # j /\ i + 1 # j + 1
      BY <1>4, <2>1, <2>2
    <3>3. p[i] # p[j - 1] /\ p[i] # e
      BY <1>3, <1>4, <2>1, <3>2
    <3>4. p[i + 1] # p[j + 1] /\ p[i + 1] # e
      BY <1>3, <1>4, <2>1, <3>2
    <3>5. p[i] \in Timers!Node /\ p[i + 1] \in Timers!Node
      BY <1>1, <2>1
    <3>6. QED
      BY <1>2, <1>10, <2>1, <3>1, <3>3, <3>4, <3>5
  <2>3. CASE i + 1 = j
    <3>1. i = j - 1 /\ q[i] = p[j - 1] /\ q[i + 1] = p[j + 1]
      BY <1>4, <1>6, <2>1, <2>3
    <3>2. QED
      BY <1>10, <3>1
  <2>4. CASE j < i + 1
    <3>1. q[i] = p[i + 1] /\ q[i + 1] = p[i + 2]
      BY <1>4, <1>6, <2>1, <2>4
    <3>2. i + 1 # j - 1 /\ i + 1 # j /\ i + 2 # j /\ i + 2 # j + 1 /\ (i + 1) + 1 = i + 2
      BY <1>4, <2>1, <2>4
    <3>3. p[i + 1] # p[j - 1] /\ p[i + 1] # e
      BY <1>3, <1>4, <2>1, <3>2
    <3>4. p[i + 2] # p[j + 1] /\ p[i + 2] # e
      BY <1>3, <1>4, <2>1, <3>2
    <3>5. p[i + 1] \in Timers!Node /\ p[i + 2] \in Timers!Node
      BY <1>1, <2>1
    <3>6. l.next[p[i + 1]] = p[i + 2] /\ l.prev[p[i + 2]] = p[i + 1]
      BY <1>2, <2>1, <3>2
    <3>7. QED
      BY <1>10, <3>1, <3>3, <3>4, <3>5, <3>6
  <2>5. QED
    BY <1>4, <2>1, <2>2, <2>3, <2>4
<1>12. ASSUME NEW b \in Alarm, \A i \in 1 .. n - 1 : q[i] # b
       PROVE  r.next[b] = r.prev[b] /\ r.next[b] \in {b, "null"}
  <2>1. CASE b = e
    BY <1>10, <2>1
  <2>2. CASE b # e
    <3>1. ASSUME NEW i \in 1 .. n PROVE p[i] # b
      <4>1. CASE i = j
        BY <2>2, <4>1
      <4>2. CASE i < j
        <5>1. i \in 1 .. n - 1 /\ i \in 0 .. n
          BY <1>1, <4>2
        <5>2. QED
          BY <1>6, <1>12, <4>2, <5>1
      <4>3. CASE i > j
        <5>1. i - 1 \in 1 .. n - 1 /\ i - 1 \in 0 .. n /\ ~(i - 1 < j) /\ (i - 1) + 1 = i
          BY <1>1, <4>3
        <5>2. QED
          BY <1>6, <1>12, <5>1
      <4>4. QED
        BY <1>4, <4>1, <4>2, <4>3
    <3>2. b # p[j - 1] /\ b # p[j + 1] /\ b \in Timers!Node
      <4>1. /\ j - 1 \in 1 .. n \/ j - 1 = 0
            /\ j + 1 \in 1 .. n \/ j + 1 = n + 1
        BY <1>1
      <4>2. QED
        BY <1>1, <1>2, <3>1, <4>1
    <3>3. QED
      BY <1>2, <1>10, <2>2, <3>1, <3>2
  <2>3. QED
    BY <2>1, <2>2
<1>13. n - 1 \in Nat /\ (n - 1) + 1 = n
  BY <1>1
<1>14. QED
  BY <1>6, <1>7, <1>8, <1>10, <1>11, <1>12, <1>13 DEF Ring, q, r


\* Removing an alarm that is out of the ring changes nothing.
LEMMA RemovedAgain ==
  ASSUME Timers!AlarmAssumption, NEW l, NEW p, NEW n, Ring(l, p, n),
         NEW a \in Alarm, l.next[a] # "null", \A i \in 1 .. n : p[i] # a
  PROVE  Timers!Removed(l, a) = l
<1>1. l.next[a] = a /\ l.prev[a] = a
  BY DEF Ring
<1>2. l \in [next : [Timers!Node -> Timers!Node \cup {"null"}],
             prev : [Timers!Node -> Timers!Node \cup {"null"}]]
  BY DEF Ring
<1>3. [l.next EXCEPT ![a] = a, ![a] = a] = l.next /\ [l.prev EXCEPT ![a] = a, ![a] = a] = l.prev
  BY <1>1, <1>2
<1>4. QED
  BY <1>1, <1>2, <1>3 DEF Timers!Removed

\* The ring has no more alarms than there are, so that going round as often
\* meets each of them.
LEMMA RingChained ==
  ASSUME Timers!AlarmAssumption, NEW p, NEW n, Ring(links, p, n)
  PROVE  Timers!WellLinked
<1>1. /\ n \in Nat /\ p \in [0 .. n + 1 -> Timers!Node] /\ p[0] = "list" /\ p[n + 1] = "list"
      /\ (\A i \in 1 .. n : p[i] \in Alarm) /\ (\A i, k \in 1 .. n : p[i] = p[k] => i = k)
      /\ \A i \in 0 .. n : links.next[p[i]] = p[i + 1] /\ links.prev[p[i + 1]] = p[i]
  BY DEF Ring
<1>2. ASSUME NEW x \in Timers!Node, links.next[x] # "null"
      PROVE  links.prev[links.next[x]] = x /\ links.next[links.prev[x]] = x
  <2>1. CASE \E i \in 1 .. n : p[i] = x
    <3>1. PICK i \in 1 .. n : p[i] = x
      BY <2>1
    <3>2. i \in 0 .. n /\ i - 1 \in 0 .. n /\ (i - 1) + 1 = i
      BY <1>1
    <3>3. links.prev[p[(i - 1) + 1]] = p[i - 1] /\ links.next[p[i - 1]] = p[(i - 1) + 1]
      BY <1>1, <3>2
    <3>4. links.prev[p[i + 1]] = p[i] /\ links.next[p[i]] = p[i + 1]
      BY <1>1, <3>2
    <3>5. QED
      BY <3>1, <3>2, <3>3, <3>4
  <2>2. CASE x = "list"
    <3>1. 0 \in 0 .. n /\ n \in 0 .. n
      BY <1>1
    <3>2. QED
      BY <1>1, <2>2, <3>1
  <2>3. CASE x # "list" /\ \A i \in 1 .. n : p[i] # x
    <3>1. x \in Alarm
      BY <2>3 DEF Timers!Node
    <3>2. links.next[x] = x /\ links.prev[x] = x
      BY <1>2, <2>3, <3>1 DEF Ring
    <3>3. QED
      BY <3>2
  <2>4. QED
    BY <2>1, <2>2, <2>3
<1> DEFINE c == Timers!Cardinality(Alarm)
<1>3. c \in Nat /\ n <= c
  <2>1. IsFiniteSet(Alarm)
    BY Zenon DEF Timers!AlarmAssumption, Timers!IsFiniteSet, IsFiniteSet
  <2> DEFINE f == [i \in 1 .. n |-> p[i]]
  <2>2. f \in [1 .. n -> Alarm] /\ \A i, k \in 1 .. n : f[i] = f[k] => i = k
    BY <1>1
  <2> HIDE DEF f
  <2>3. f \in Injection(1 .. n, Alarm)
    BY <2>2, Fun_IsInj
  <2>4. Cardinality(1 .. n) <= c
    <3>1. Timers!Cardinality(Alarm) = Cardinality(Alarm)
      BY Zenon DEF Timers!Cardinality, Cardinality
    <3>2. QED
      BY <3>1, <2>3, <2>1, FS_Injection
  <2>5. Cardinality(1 .. n) = n
    BY <1>1, FS_Interval
  <2>6. c \in Nat
    <3>1. Timers!Cardinality(Alarm) = Cardinality(Alarm)
      BY Zenon DEF Timers!Cardinality, Cardinality
    <3>2. QED
      BY <3>1, <2>1, FS_CardinalityType
  <2>7. QED
    BY <2>4, <2>5, <2>6
<1> HIDE DEF c
<1> DEFINE F(f) == [i \in 0 .. c |-> IF i = 0 THEN links.next["list"] ELSE links.next[f[i - 1]]]
           chained == CHOOSE f : f = F(f)
           g == [i \in 0 .. c |-> p[(i + 1) % (n + 1)]]
<1>4. \A i \in 0 .. c : (i + 1) % (n + 1) \in 0 .. n /\ (i + 1) % (n + 1) \in Nat
  BY <1>1, <1>3, SMT
<1>5. \A i \in 1 .. c : links.next[g[i - 1]] = g[i]
  <2>1. SUFFICES ASSUME NEW i \in 1 .. c PROVE links.next[g[i - 1]] = g[i]
    OBVIOUS
  <2> DEFINE k == i % (n + 1)
  <2>2. i - 1 \in 0 .. c /\ i \in 0 .. c /\ (i - 1) + 1 = i
    BY <1>3
  <2>3. g[i - 1] = p[k] /\ k \in 0 .. n /\ g[i] = p[(i + 1) % (n + 1)]
    BY <1>4, <2>2
  <2>4. (i + 1) % (n + 1) = IF k = n THEN 0 ELSE k + 1
    <3> DEFINE d == n + 1
               u == i \div d
    <3>1. d \in Nat \ {0} /\ u \in Int /\ i = (d * u) + k /\ k \in 0 .. n
      <4>1. d \in Nat \ {0} /\ i \in Int
        BY <1>1, <1>3
      <4> HIDE DEF d
      <4>2. u \in Int /\ k \in 0 .. n /\ i = (d * u) + (i % d)
        BY <2>3, <4>1, Division
      <4>3. QED
        BY <4>1, <4>2 DEF d
    <3>2. CASE k = n
      <4> HIDE DEF u, k
      <4>1. d = k + 1 /\ k \in Nat
        BY <1>1, <3>2
      <4> HIDE DEF d
      <4>2. i + 1 = (d * (u + 1)) + 0
        BY <3>1, <4>1, SMT
      <4>3. 0 \in 0 .. d - 1 /\ u + 1 \in Int
        BY <3>1
      <4>4. (i + 1) % d = 0
        BY <3>1, <4>2, <4>3, Quotient
      <4>5. QED
        BY <3>2, <4>4 DEF d
    <3>3. CASE k # n
      <4> HIDE DEF u, k
      <4>1. k + 1 \in 0 .. d - 1
        BY <1>1, <3>1, <3>3
      <4> HIDE DEF d
      <4>2. i + 1 = (d * u) + (k + 1)
        BY <3>1, SMT
      <4>3. (i + 1) % d = k + 1
        BY <3>1, <4>1, <4>2, Quotient
      <4>4. QED
        BY <3>3, <4>3 DEF d
    <3>4. QED
      BY <3>2, <3>3
  <2> HIDE DEF k, g
  <2>5. links.next[p[k]] = p[k + 1]
    BY <1>1, <2>3
  <2>6. QED
    BY <1>1, <2>3, <2>4, <2>5
<1>6. g[0] = links.next["list"]
  <2>1. 0 \in 0 .. c /\ 0 \in 0 .. n
    BY <1>1, <1>3
  <2>2. g[0] = p[1 % (n + 1)] /\ links.next["list"] = p[1]
    BY <1>1, <2>1
  <2>3. 1 % (n + 1) = IF n = 0 THEN 0 ELSE 1
    <3>1. n = 0 => 1 % (n + 1) = 0
      BY SMT
    <3>2. n # 0 => 1 % (n + 1) = 1
      <4>1. ASSUME n # 0 PROVE 1 \in 0 .. (n + 1) - 1 /\ n + 1 \in Nat \ {0} /\ (n + 1) * 0 + 1 = 1
        BY <1>1, <4>1
      <4>2. QED
        BY <4>1, Quotient
    <3>3. QED
      BY <1>1, <3>1, <3>2
  <2>4. QED
    BY <1>1, <2>2, <2>3
<1>7. g = F(g)
  <2>1. \A i \in 0 .. c : g[i] = F(g)[i]
    <3>1. ASSUME NEW i \in 0 .. c PROVE g[i] = F(g)[i]
      <4>1. i = 0 \/ i \in 1 .. c
        BY <1>3
      <4> HIDE DEF g
      <4>2. QED
        BY <1>5, <1>6, <4>1
    <3>2. QED
      BY <3>1
  <2>2. DOMAIN g = 0 .. c /\ g = [i \in 0 .. c |-> g[i]]
    OBVIOUS
  <2> HIDE DEF g
  <2>3. F(g) = [i \in 0 .. c |-> F(g)[i]]
    OBVIOUS
  <2> HIDE DEF F
  <2>4. QED
    BY <2>1, <2>2, <2>3
<1>8. chained = F(chained)
  <2> HIDE DEF F, g
  <2>1. \E f : f = F(f)
    BY <1>7
  <2>2. QED
    BY <2>1
<1>9. \A i \in 0 .. c : chained[i] = g[i]
  <2> DEFINE Wrong == {i \in 0 .. c : chained[i] # g[i]}
  <2>1. SUFFICES ASSUME Wrong # {} PROVE FALSE
    OBVIOUS
  <2> HIDE DEF chained, g
  <2>2. PICK x \in Wrong : \A y \in Wrong : x <= y
    <3>1. Wrong \in SUBSET Nat
      OBVIOUS
    <3>2. QED
      BY <2>1, <3>1, SmallestOf
  <2>3. chained[x] = IF x = 0 THEN links.next["list"] ELSE links.next[chained[x - 1]]
    <3>1. x \in 0 .. c
      BY <2>2
    <3>2. F(chained)[x] = IF x = 0 THEN links.next["list"] ELSE links.next[chained[x - 1]]
      BY <3>1
    <3>3. QED
      BY <1>8, <3>2
  <2>4. CASE x = 0
    BY <1>6, <2>2, <2>3, <2>4
  <2>5. CASE x # 0
    <3>1. x \in 1 .. c /\ x - 1 \in 0 .. c /\ ~(x <= x - 1)
      BY <1>3, <2>2, <2>5
    <3>2. chained[x - 1] = g[x - 1]
      BY <2>2, <3>1
    <3>3. QED
      BY <1>5, <2>2, <2>3, <2>5, <3>1, <3>2
  <2>6. QED
    BY <2>4, <2>5
<1>10. Timers!Chain = {chained[i] : i \in 0 .. c}
  BY Zenon DEF Timers!Chain, c
<1>11. Timers!Chain \ {"list"} = Timers!Armed(links)
  <2>1. Timers!Chain = {g[i] : i \in 0 .. c}
    <3> HIDE DEF chained, g
    <3>1. QED
      BY <1>9, <1>10
  <2>2. \A i \in 0 .. c : g[i] = p[(i + 1) % (n + 1)]
    OBVIOUS
  <2> HIDE DEF g
  <2>3. \A i \in 0 .. c : g[i] # "list" => \E k \in 1 .. n : g[i] = p[k]
    <3>1. SUFFICES ASSUME NEW i \in 0 .. c, g[i] # "list" PROVE \E k \in 1 .. n : g[i] = p[k]
      OBVIOUS
    <3> DEFINE k == (i + 1) % (n + 1)
    <3>2. k \in 0 .. n /\ g[i] = p[k]
      BY <1>4, <2>2
    <3> HIDE DEF k
    <3>3. k # 0
      BY <1>1, <3>1, <3>2
    <3>4. k \in 1 .. n
      BY <1>1, <3>2, <3>3
    <3>5. QED
      BY <3>2, <3>4
  <2>4. \A k \in 1 .. n : k - 1 \in 0 .. c /\ g[k - 1] = p[k] /\ p[k] # "list"
    <3>1. SUFFICES ASSUME NEW k \in 1 .. n
                   PROVE  k - 1 \in 0 .. c /\ g[k - 1] = p[k] /\ p[k] # "list"
      OBVIOUS
    <3>2. k - 1 \in 0 .. c /\ (k - 1) + 1 = k /\ k \in 0 .. (n + 1) - 1 /\ n + 1 \in Nat \ {0}
      BY <1>1, <1>3
    <3>3. k % (n + 1) = k
      BY <3>2, SMT
    <3>4. g[k - 1] = p[((k - 1) + 1) % (n + 1)]
      BY <2>2, <3>2
    <3>5. p[k] # "list"
      BY <1>1 DEF Timers!AlarmAssumption
    <3>6. QED
      BY <3>2, <3>3, <3>4, <3>5
  <2>5. Timers!Armed(links) = {p[i] : i \in 1 .. n}
    BY RingArmed
  <2>6. ASSUME NEW x \in Timers!Chain, x # "list" PROVE x \in {p[i] : i \in 1 .. n}
    BY <2>1, <2>3, <2>6
  <2>7. ASSUME NEW k \in 1 .. n PROVE p[k] \in Timers!Chain /\ p[k] # "list"
    BY <2>1, <2>4
  <2>8. QED
    BY <2>5, <2>6, <2>7
<1>12. QED
  BY <1>2, <1>11 DEF Timers!WellLinked


\* An alarm of the list that alt_tick need not look at any more in this tick,
\* or outside of one: the flag says that its time comes after the wrap.
TimedIn(s, a) ==
  /\ s.due[a] \in 1 .. AlarmWord - 1
  /\ s.rollover[a] <=> s.time[a] < nticks
  /\ s.due[a] = s.time[a] - nticks + (IF s.rollover[a] THEN AlarmWord ELSE 0)

\* And one that it has yet to look at: the flag is still set when the counter
\* has just wrapped.
PendingIn(s, a) ==
  IF nticks = 0 THEN s.rollover[a] /\ s.due[a] = s.time[a]
  ELSE /\ s.rollover[a] <=> s.time[a] < nticks
       /\ s.due[a] = s.time[a] - nticks + (IF s.rollover[a] THEN AlarmWord ELSE 0)

TimesTyped(s) ==
  /\ s.time \in [Alarm -> 0 .. AlarmWord - 1] /\ s.rollover \in [Alarm -> BOOLEAN]
  /\ s.due \in [Alarm -> 0 .. AlarmWord - 1]

\* The alarms before p[m] are timed, those from there on pending.
Timing(s, p, n, m) ==
  \A i \in 1 .. n : IF i < m THEN TimedIn(s, p[i]) ELSE PendingIn(s, p[i])

AlarmInv ==
  /\ nticks \in 0 .. AlarmWord - 1 /\ TimesTyped(Timers!Now)
  /\ \E p, n, m : /\ Ring(links, p, n) /\ m \in 1 .. n + 1 /\ Timing(Timers!Now, p, n, m)
                  /\ cursor = p[m] \/ (cursor = "null" /\ m = n + 1)

\* A time that wraps at most once.
LEMMA LaterTime ==
  ASSUME Timers!AlarmAssumption, nticks \in 0 .. AlarmWord - 1,
         NEW d \in 1 .. AlarmWord - 1, NEW t, t = (nticks + d) % AlarmWord
  PROVE  /\ t \in 0 .. AlarmWord - 1
         /\ d = t - nticks + (IF t < nticks THEN AlarmWord ELSE 0)
<1> DEFINE w == AlarmWord
<1>1. w \in Nat \ {0, 1}
  BY DEF Timers!AlarmAssumption
<1>2. CASE nticks + d < w
  <2>1. (nticks + d) % w = nticks + d
    <3>1. nticks + d \in 0 .. w - 1 /\ w * 0 + (nticks + d) = nticks + d
      BY <1>1, <1>2
    <3>2. QED
      BY <1>1, <3>1, Quotient
  <2>2. QED
    BY <1>1, <1>2, <2>1
<1>3. CASE ~(nticks + d < w)
  <2>1. (nticks + d) % w = nticks + d - w
    <3>1. nticks + d - w \in 0 .. w - 1 /\ w * 1 + (nticks + d - w) = nticks + d
      BY <1>1, <1>3
    <3>2. QED
      BY <1>1, <3>1, Quotient
  <2>2. QED
    BY <1>1, <1>3, <2>1
<1>4. QED
  BY <1>2, <1>3

\* What starting and stopping an alarm changes.
LEMMA StartedTimes ==
  ASSUME Timers!AlarmAssumption, BelowWrap, nticks \in 0 .. AlarmWord - 1,
         NEW s, TimesTyped(s), NEW a \in Alarm, NEW k \in Intervals
  PROVE  LET r == Timers!Started(s, a, k)
         IN  /\ TimesTyped(r) /\ TimedIn(r, a) /\ r.links = Timers!Inserted(s.links, a)
             /\ \A b \in Alarm \ {a} : /\ r.time[b] = s.time[b] /\ r.due[b] = s.due[b]
                                       /\ r.rollover[b] = s.rollover[b]
<1> DEFINE t == (k + nticks + 1) % AlarmWord
           r == Timers!Started(s, a, k)
<1>1. k + 1 \in 1 .. AlarmWord - 1 /\ k + nticks + 1 = nticks + (k + 1)
  BY DEF BelowWrap, Timers!AlarmAssumption
<1>2. /\ t \in 0 .. AlarmWord - 1
      /\ k + 1 = t - nticks + (IF t < nticks THEN AlarmWord ELSE 0)
  BY <1>1, LaterTime
<1>3. r = [links |-> Timers!Inserted(s.links, a),
           time |-> [s.time EXCEPT ![a] = t],
           rollover |-> [s.rollover EXCEPT ![a] = t < nticks],
           due |-> [s.due EXCEPT ![a] = k + 1]]
  BY DEF Timers!Started, Timers!StartsAfterWrap
<1> HIDE DEF t, r
<1>4. /\ r.links = Timers!Inserted(s.links, a) /\ r.time = [s.time EXCEPT ![a] = t]
      /\ r.rollover = [s.rollover EXCEPT ![a] = t < nticks]
      /\ r.due = [s.due EXCEPT ![a] = k + 1]
  BY <1>3
<1>6. /\ r.time[a] = t /\ r.due[a] = k + 1 /\ r.rollover[a] = (t < nticks)
      /\ \A b \in Alarm \ {a} : /\ r.time[b] = s.time[b] /\ r.due[b] = s.due[b]
                                /\ r.rollover[b] = s.rollover[b]
      /\ r.time \in [Alarm -> 0 .. AlarmWord - 1] /\ r.due \in [Alarm -> 0 .. AlarmWord - 1]
      /\ r.rollover \in [Alarm -> BOOLEAN]
  <2>1. r.time \in [Alarm -> 0 .. AlarmWord - 1] /\ r.due \in [Alarm -> 0 .. AlarmWord - 1]
    BY <1>1, <1>2, <1>4 DEF TimesTyped, Timers!AlarmAssumption
  <2>2. r.rollover \in [Alarm -> BOOLEAN]
    BY <1>4 DEF TimesTyped
  <2>3. r.time[a] = t /\ r.due[a] = k + 1 /\ r.rollover[a] = (t < nticks)
    BY <1>4 DEF TimesTyped
  <2>4. \A b \in Alarm \ {a} : /\ r.time[b] = s.time[b] /\ r.due[b] = s.due[b]
                               /\ r.rollover[b] = s.rollover[b]
    BY <1>4 DEF TimesTyped
  <2>5. QED
    BY <2>1, <2>2, <2>3, <2>4
<1>7. TimedIn(r, a)
  BY <1>1, <1>2, <1>6 DEF TimedIn
<1>8. QED
  BY <1>4, <1>6, <1>7 DEF TimesTyped, r

LEMMA StoppedTimes ==
  ASSUME Timers!AlarmAssumption, NEW s, TimesTyped(s), NEW a \in Alarm
  PROVE  LET r == Timers!Stopped(s, a)
         IN  /\ TimesTyped(r) /\ r.links = Timers!Removed(s.links, a)
             /\ r.time = s.time /\ r.rollover = s.rollover
             /\ \A b \in Alarm \ {a} : r.due[b] = s.due[b]
<1> DEFINE r == Timers!Stopped(s, a)
<1>1. r = [links |-> Timers!Removed(s.links, a), time |-> s.time, rollover |-> s.rollover,
           due |-> [s.due EXCEPT ![a] = 0]]
  BY DEF Timers!Stopped
<1> HIDE DEF r
<1>2. /\ r.links = Timers!Removed(s.links, a) /\ r.time = s.time /\ r.rollover = s.rollover
      /\ r.due = [s.due EXCEPT ![a] = 0]
  BY <1>1
<1>3. 0 \in 0 .. AlarmWord - 1
  BY DEF Timers!AlarmAssumption
<1>4. r.due \in [Alarm -> 0 .. AlarmWord - 1] /\ \A b \in Alarm \ {a} : r.due[b] = s.due[b]
  BY <1>2, <1>3 DEF TimesTyped
<1>5. QED
  BY <1>2, <1>4 DEF TimesTyped, r


\* A callback has run, before alt_tick uses what it returned: its alarm is in
\* the list, with the others before and after it, or the callback stopped it.
InList(s, nx) ==
  \E q, k, j : /\ Ring(s.links, q, k) /\ j \in 1 .. k /\ q[j] = cursor /\ q[j + 1] = nx
               /\ \A i \in 1 .. k : i # j =>
                     IF i < j THEN TimedIn(s, q[i]) ELSE PendingIn(s, q[i])
OutOfList(s, nx) ==
  \E q, k, j : /\ Ring(s.links, q, k) /\ j \in 1 .. k + 1 /\ q[j] = nx /\ Timing(s, q, k, j)
               /\ s.links.next[cursor] # "null" /\ \A i \in 1 .. k : q[i] # cursor
Walked(s, nx) ==
  \E q, k, j : Ring(s.links, q, k) /\ j \in 1 .. k + 1 /\ q[j] = nx /\ Timing(s, q, k, j)

\* What is timed or pending is so by its own times.
LEMMA SameTimes ==
  ASSUME NEW s, NEW r, NEW a, r.time[a] = s.time[a], r.rollover[a] = s.rollover[a],
         r.due[a] = s.due[a]
  PROVE  /\ TimedIn(s, a) => TimedIn(r, a)
         /\ PendingIn(s, a) => PendingIn(r, a)
  BY DEF TimedIn, PendingIn

\* A callback starts an alarm: in front, where this walk does not come.
LEMMA StartsInFront ==
  ASSUME Timers!AlarmAssumption, BelowWrap, nticks \in 0 .. AlarmWord - 1,
         NEW s, TimesTyped(s), NEW a \in Alarm \ Timers!Armed(s.links), NEW d \in Intervals,
         NEW nx, InList(s, nx)
  PROVE  InList(Timers!Started(s, a, d), nx)
<1> DEFINE r == Timers!Started(s, a, d)
<1>1. PICK q, k, j : /\ Ring(s.links, q, k) /\ j \in 1 .. k /\ q[j] = cursor /\ q[j + 1] = nx
                     /\ \A i \in 1 .. k : i # j =>
                           IF i < j THEN TimedIn(s, q[i]) ELSE PendingIn(s, q[i])
  BY DEF InList
<1> DEFINE f == InFront(q, k, a)
<1>2. \A i \in 1 .. k : q[i] # a
  BY <1>1, RingArmed
<1>3. /\ TimedIn(r, a) /\ r.links = Timers!Inserted(s.links, a)
      /\ \A b \in Alarm \ {a} : /\ r.time[b] = s.time[b] /\ r.due[b] = s.due[b]
                                /\ r.rollover[b] = s.rollover[b]
  BY StartedTimes
<1> HIDE DEF r
<1>4. Ring(r.links, f, k + 1)
  BY <1>1, <1>2, <1>3, RingInserted
<1>5. k \in Nat /\ \A i \in 1 .. k : q[i] \in Alarm
  BY <1>1 DEF Ring
<1>6. /\ \A i \in 2 .. k + 2 : f[i] = q[i - 1] /\ i - 1 \in 1 .. k + 1
      /\ f[1] = a
  BY <1>5 DEF InFront
<1> HIDE DEF f
<1>7. j + 1 \in 1 .. k + 1 /\ f[j + 1] = cursor /\ f[(j + 1) + 1] = nx
  <2>1. j + 1 \in 2 .. k + 2 /\ j + 2 \in 2 .. k + 2 /\ (j + 1) - 1 = j /\ (j + 2) - 1 = j + 1
        /\ (j + 1) + 1 = j + 2
    BY <1>1, <1>5
  <2>2. f[j + 1] = q[(j + 1) - 1] /\ f[j + 2] = q[(j + 2) - 1]
    BY <1>6, <2>1
  <2>3. QED
    BY <1>1, <1>5, <2>1, <2>2
<1>8. ASSUME NEW i \in 1 .. k + 1, i # j + 1
      PROVE  IF i < j + 1 THEN TimedIn(r, f[i]) ELSE PendingIn(r, f[i])
  <2>1. CASE i = 1
    BY <1>1, <1>3, <1>6, <2>1
  <2>2. CASE i # 1
    <3>1. /\ i \in 2 .. k + 2 /\ i - 1 \in 1 .. k /\ i - 1 # j /\ (i - 1 < j <=> i < j + 1)
      BY <1>1, <1>5, <1>8, <2>2
    <3>2. f[i] = q[i - 1] /\ q[i - 1] \in Alarm \ {a}
      BY <1>2, <1>5, <1>6, <3>1
    <3>3. IF i - 1 < j THEN TimedIn(s, q[i - 1]) ELSE PendingIn(s, q[i - 1])
      BY <1>1, <3>1
    <3>4. /\ TimedIn(s, q[i - 1]) => TimedIn(r, q[i - 1])
          /\ PendingIn(s, q[i - 1]) => PendingIn(r, q[i - 1])
      BY <1>3, <3>2, SameTimes
    <3>5. QED
      BY <3>1, <3>2, <3>3, <3>4
  <2>3. QED
    BY <2>1, <2>2
<1>9. QED
  BY <1>4, <1>7, <1>8 DEF InList, r

\* A callback stops an alarm that is not the one after its own.
LEMMA StopsInList ==
  ASSUME Timers!AlarmAssumption, NEW s, TimesTyped(s), NEW a \in Alarm,
         Timers!Known(s.links, a), cursor \in Alarm,
         NEW nx, a # nx, InList(s, nx)
  PROVE  /\ a = cursor => OutOfList(Timers!Stopped(s, a), nx)
         /\ a # cursor => InList(Timers!Stopped(s, a), nx)
<1> DEFINE r == Timers!Stopped(s, a)
<1>1. PICK q, k, j : /\ Ring(s.links, q, k) /\ j \in 1 .. k /\ q[j] = cursor /\ q[j + 1] = nx
                     /\ \A i \in 1 .. k : i # j =>
                           IF i < j THEN TimedIn(s, q[i]) ELSE PendingIn(s, q[i])
  BY DEF InList
<1>2. /\ r.links = Timers!Removed(s.links, a) /\ r.time = s.time /\ r.rollover = s.rollover
      /\ \A b \in Alarm \ {a} : r.due[b] = s.due[b]
  BY StoppedTimes
<1> HIDE DEF r
<1>3. /\ k \in Nat /\ (\A i \in 1 .. k : q[i] \in Alarm)
      /\ \A i, l \in 1 .. k : q[i] = q[l] => i = l
  BY <1>1 DEF Ring
<1>4. ASSUME NEW i \in 1 .. k, q[i] # a
      PROVE  /\ TimedIn(s, q[i]) => TimedIn(r, q[i])
             /\ PendingIn(s, q[i]) => PendingIn(r, q[i])
  BY <1>2, <1>3, <1>4, SameTimes
<1>5. CASE \A i \in 1 .. k : q[i] # a
  <2>1. r.links = s.links
    BY <1>1, <1>2, <1>5, RemovedAgain DEF Timers!Known
  <2>2. \A i \in 1 .. k : i # j => IF i < j THEN TimedIn(r, q[i]) ELSE PendingIn(r, q[i])
    BY <1>1, <1>4, <1>5
  <2>3. a # cursor
    BY <1>1, <1>5
  <2>4. QED
    BY <1>1, <2>1, <2>2, <2>3 DEF InList, r
<1>6. CASE \E i \in 1 .. k : q[i] = a
  <2>1. PICK m \in 1 .. k : q[m] = a
    BY <1>6
  <2> DEFINE f == Without(q, k, m)
  <2>2. /\ Ring(r.links, f, k - 1) /\ r.links.next[a] = a /\ \A i \in 1 .. k - 1 : f[i] # a
    BY <1>1, <1>2, <2>1, RingRemoved
  <2>3. \A i \in 0 .. k : f[i] = IF i < m THEN q[i] ELSE q[i + 1]
    BY DEF Without
  <2> HIDE DEF f
  <2>4. m # j + 1
    <3>1. q[j + 1] # a
      BY <1>1
    <3>2. QED
      BY <2>1, <3>1
  <2>5. \A i \in 1 .. k : i # m => q[i] # a
    BY <1>3, <2>1
  <2>6. \A i \in 1 .. k - 1 : /\ i \in 0 .. k /\ i \in 1 .. k /\ i + 1 \in 1 .. k
    BY <1>3
  <2>7. CASE m = j
    <3>1. f[j] = nx /\ j \in 1 .. (k - 1) + 1
      <4>1. j \in 0 .. k /\ ~(j < m) /\ j \in 1 .. (k - 1) + 1
        BY <1>1, <1>3, <2>7
      <4>2. QED
        BY <1>1, <2>3, <4>1
    <3>2. ASSUME NEW i \in 1 .. k - 1
          PROVE  IF i < j THEN TimedIn(r, f[i]) ELSE PendingIn(r, f[i])
      <4>1. CASE i < j
        <5>1. f[i] = q[i] /\ i # j /\ i \in 1 .. k
          BY <1>1, <1>3, <2>3, <2>6, <2>7, <4>1
        <5>2. QED
          BY <1>1, <1>4, <2>5, <2>7, <4>1, <5>1
      <4>2. CASE ~(i < j)
        <5>1. f[i] = q[i + 1] /\ i + 1 # j /\ ~(i + 1 < j) /\ i + 1 \in 1 .. k
          BY <1>1, <1>3, <2>3, <2>6, <2>7, <4>2
        <5>2. QED
          BY <1>1, <1>4, <2>5, <2>7, <4>2, <5>1
      <4>3. QED
        BY <4>1, <4>2
    <3>3. a = cursor
      BY <1>1, <2>1, <2>7
    <3>4. Timing(r, f, k - 1, j)
      BY <3>2 DEF Timing
    <3>5. r.links.next[cursor] # "null"
      BY <2>2, <3>3 DEF Timers!AlarmAssumption
    <3>6. OutOfList(r, nx)
      BY <2>2, <3>1, <3>3, <3>4, <3>5 DEF OutOfList
    <3>7. QED
      BY <3>3, <3>6 DEF r
  <2>8. CASE m < j
    <3>1. f[j - 1] = cursor /\ f[(j - 1) + 1] = nx /\ j - 1 \in 1 .. k - 1
      <4>1. j - 1 \in 0 .. k /\ ~(j - 1 < m) /\ (j - 1) + 1 = j /\ j \in 0 .. k /\ ~(j < m)
        BY <1>1, <1>3, <2>1, <2>8
      <4>2. f[j - 1] = q[(j - 1) + 1] /\ f[j] = q[j + 1]
        BY <2>3, <4>1
      <4>3. j - 1 \in 1 .. k - 1
        BY <1>1, <1>3, <2>1, <2>8
      <4>4. QED
        BY <1>1, <4>1, <4>2, <4>3
    <3>2. ASSUME NEW i \in 1 .. k - 1, i # j - 1
          PROVE  IF i < j - 1 THEN TimedIn(r, f[i]) ELSE PendingIn(r, f[i])
      <4>1. CASE i < m
        <5>1. f[i] = q[i] /\ i # j /\ i \in 1 .. k /\ i # m /\ i < j /\ i < j - 1
          BY <1>1, <1>3, <2>1, <2>3, <2>6, <2>8, <4>1
        <5>2. QED
          BY <1>1, <1>4, <2>5, <5>1
      <4>2. CASE ~(i < m)
        <5>1. /\ f[i] = q[i + 1] /\ i + 1 # j /\ i + 1 # m /\ i + 1 \in 1 .. k
              /\ (i + 1 < j <=> i < j - 1)
          BY <1>1, <1>3, <2>1, <2>3, <2>6, <2>8, <3>2, <4>2
        <5>2. q[i + 1] # a
          BY <2>5, <5>1
        <5>3. QED
          BY <1>1, <1>4, <5>1, <5>2
      <4>3. QED
        BY <4>1, <4>2
    <3>3. InList(r, nx)
      BY <2>2, <3>1, <3>2 DEF InList
    <3>4. a # cursor
      BY <1>1, <1>3, <2>1, <2>8
    <3>5. QED
      BY <3>3, <3>4 DEF r
  <2>9. CASE m > j + 1
    <3>1. f[j] = cursor /\ f[j + 1] = nx /\ j \in 1 .. k - 1
      <4>1. j \in 0 .. k /\ j < m /\ j + 1 \in 0 .. k /\ j + 1 < m /\ j \in 1 .. k - 1
        BY <1>1, <1>3, <2>1, <2>9
      <4>2. QED
        BY <1>1, <2>3, <4>1
    <3>2. ASSUME NEW i \in 1 .. k - 1, i # j
          PROVE  IF i < j THEN TimedIn(r, f[i]) ELSE PendingIn(r, f[i])
      <4>1. CASE i < m
        <5>1. f[i] = q[i] /\ i \in 1 .. k /\ i # m
          BY <1>1, <1>3, <2>1, <2>3, <2>6, <4>1
        <5>2. QED
          BY <1>1, <1>4, <2>5, <3>2, <5>1
      <4>2. CASE ~(i < m)
        <5>1. /\ f[i] = q[i + 1] /\ i + 1 # j /\ i + 1 # m /\ i + 1 \in 1 .. k
              /\ ~(i + 1 < j) /\ ~(i < j)
          BY <1>1, <1>3, <2>1, <2>3, <2>6, <2>9, <3>2, <4>2
        <5>2. q[i + 1] # a
          BY <2>5, <5>1
        <5>3. QED
          BY <1>1, <1>4, <5>1, <5>2
      <4>3. QED
        BY <4>1, <4>2
    <3>3. InList(r, nx)
      BY <2>2, <3>1, <3>2 DEF InList
    <3>4. a # cursor
      BY <1>1, <1>3, <2>1, <2>9
    <3>5. QED
      BY <3>3, <3>4 DEF r
  <2>10. QED
    BY <1>1, <1>3, <2>1, <2>4, <2>7, <2>8, <2>9
<1>7. QED
  BY <1>5, <1>6


\* The callback returned zero, or a period.
LEMMA EndsAlarm ==
  ASSUME Timers!AlarmAssumption, NEW s, TimesTyped(s), cursor \in Alarm,
         NEW nx, nx # cursor, InList(s, nx) \/ OutOfList(s, nx)
  PROVE  LET r == Timers!Stopped(s, cursor) IN TimesTyped(r) /\ Walked(r, nx)
<1> DEFINE r == Timers!Stopped(s, cursor)
<1>1. /\ TimesTyped(r) /\ r.links = Timers!Removed(s.links, cursor)
      /\ r.time = s.time /\ r.rollover = s.rollover
      /\ \A b \in Alarm \ {cursor} : r.due[b] = s.due[b]
  BY StoppedTimes
<1>2. CASE InList(s, nx)
  <2>1. Timers!Known(s.links, cursor)
    <3>1. PICK q, k, j : Ring(s.links, q, k) /\ j \in 1 .. k /\ q[j] = cursor
      BY <1>2 DEF InList
    <3>2. cursor \in Timers!Armed(s.links)
      BY <3>1, RingArmed
    <3>3. QED
      BY <3>2 DEF Timers!Armed, Timers!Known
  <2>2. OutOfList(r, nx)
    BY <1>2, <2>1, StopsInList
  <2>3. QED
    BY <1>1, <2>2 DEF OutOfList, Walked
<1>3. CASE OutOfList(s, nx)
  <2>1. PICK q, k, j :
           /\ Ring(s.links, q, k) /\ j \in 1 .. k + 1 /\ q[j] = nx /\ Timing(s, q, k, j)
           /\ s.links.next[cursor] # "null" /\ \A i \in 1 .. k : q[i] # cursor
    BY <1>3 DEF OutOfList
  <2>2. r.links = s.links
    BY <1>1, <2>1, RemovedAgain
  <2>3. \A i \in 1 .. k : /\ TimedIn(s, q[i]) => TimedIn(r, q[i])
                          /\ PendingIn(s, q[i]) => PendingIn(r, q[i])
    <3>1. ASSUME NEW i \in 1 .. k
          PROVE  /\ TimedIn(s, q[i]) => TimedIn(r, q[i])
                 /\ PendingIn(s, q[i]) => PendingIn(r, q[i])
      <4>1. q[i] \in Alarm \ {cursor}
        BY <2>1 DEF Ring
      <4> HIDE DEF r
      <4>2. QED
        BY <1>1, <4>1, SameTimes
    <3>2. QED
      BY <3>1
  <2> HIDE DEF r
  <2>4. Timing(r, q, k, j)
    BY <2>1, <2>3 DEF Timing
  <2>5. Walked(r, nx)
    BY <2>1, <2>2, <2>4 DEF Walked
  <2>6. QED
    BY <1>1, <2>5 DEF r
<1>4. QED
  BY <1>2, <1>3

\* A period other than zero times it anew, in the list or, without effect, out of it.
LEMMA RepeatsAlarm ==
  ASSUME Timers!AlarmAssumption, nticks \in 0 .. AlarmWord - 1,
         NEW s, TimesTyped(s), cursor \in Alarm, s.time[cursor] = nticks,
         NEW nx, InList(s, nx) \/ OutOfList(s, nx), NEW d \in Repeats, d # 0
  PROVE  LET r == Timers!Repeated(s, d) IN TimesTyped(r) /\ Walked(r, nx)
<1> DEFINE r == Timers!Repeated(s, d)
           t == (nticks + d) % AlarmWord
<1>1. d \in 1 .. AlarmWord - 1
  BY DEF Timers!AlarmAssumption
<1>2. /\ t \in 0 .. AlarmWord - 1
      /\ d = t - nticks + (IF t < nticks THEN AlarmWord ELSE 0)
  BY <1>1, LaterTime
<1>3. r = [links |-> s.links,
           time |-> [s.time EXCEPT ![cursor] = t],
           rollover |-> [s.rollover EXCEPT ![cursor] = t < nticks],
           due |-> [s.due EXCEPT ![cursor] =
                      IF cursor \in Timers!Armed(s.links) THEN d ELSE 0]]
  BY DEF Timers!Repeated
<1> HIDE DEF r, t
<1>4. /\ r.links = s.links /\ r.time = [s.time EXCEPT ![cursor] = t]
      /\ r.rollover = [s.rollover EXCEPT ![cursor] = t < nticks]
      /\ r.due = [s.due EXCEPT ![cursor] =
                    IF cursor \in Timers!Armed(s.links) THEN d ELSE 0]
  BY <1>3
<1>5. TimesTyped(r)
  <2>1. 0 \in 0 .. AlarmWord - 1 /\ d \in 0 .. AlarmWord - 1
    BY <1>1 DEF Timers!AlarmAssumption
  <2>2. r.time \in [Alarm -> 0 .. AlarmWord - 1] /\ r.due \in [Alarm -> 0 .. AlarmWord - 1]
    BY <1>2, <1>4, <2>1 DEF TimesTyped
  <2>3. r.rollover \in [Alarm -> BOOLEAN]
    BY <1>4 DEF TimesTyped
  <2>4. QED
    BY <2>2, <2>3 DEF TimesTyped
<1>6. ASSUME NEW b \in Alarm \ {cursor}
      PROVE  /\ TimedIn(s, b) => TimedIn(r, b)
             /\ PendingIn(s, b) => PendingIn(r, b)
  <2>1. r.time[b] = s.time[b] /\ r.due[b] = s.due[b] /\ r.rollover[b] = s.rollover[b]
    BY <1>4 DEF TimesTyped
  <2>2. QED
    BY <2>1, SameTimes
<1>7. CASE InList(s, nx)
  <2>1. PICK q, k, j : /\ Ring(s.links, q, k) /\ j \in 1 .. k /\ q[j] = cursor /\ q[j + 1] = nx
                       /\ \A i \in 1 .. k : i # j =>
                             IF i < j THEN TimedIn(s, q[i]) ELSE PendingIn(s, q[i])
    BY <1>7 DEF InList
  <2>2. /\ k \in Nat /\ (\A i \in 1 .. k : q[i] \in Alarm)
        /\ \A i, l \in 1 .. k : q[i] = q[l] => i = l
    BY <2>1 DEF Ring
  <2>3. TimedIn(r, cursor)
    <3>1. cursor \in Timers!Armed(s.links)
      BY <2>1, RingArmed
    <3>2. r.time[cursor] = t /\ r.due[cursor] = d /\ r.rollover[cursor] = (t < nticks)
      BY <1>4, <3>1 DEF TimesTyped
    <3>3. QED
      BY <1>1, <1>2, <3>2 DEF TimedIn
  <2>4. ASSUME NEW i \in 1 .. k
        PROVE  IF i < j + 1 THEN TimedIn(r, q[i]) ELSE PendingIn(r, q[i])
    <3>1. CASE i = j
      BY <2>1, <2>2, <2>3, <3>1
    <3>2. CASE i # j
      <4>1. q[i] \in Alarm \ {cursor} /\ (i < j + 1 <=> i < j)
        BY <2>1, <2>2, <3>2
      <4>2. QED
        BY <1>6, <2>1, <3>2, <4>1
    <3>3. QED
      BY <3>1, <3>2
  <2>5. j + 1 \in 1 .. k + 1
    BY <2>1, <2>2
  <2>6. QED
    BY <1>4, <1>5, <2>1, <2>4, <2>5 DEF Walked, Timing, r
<1>8. CASE OutOfList(s, nx)
  <2>1. PICK q, k, j :
           /\ Ring(s.links, q, k) /\ j \in 1 .. k + 1 /\ q[j] = nx /\ Timing(s, q, k, j)
           /\ s.links.next[cursor] # "null" /\ \A i \in 1 .. k : q[i] # cursor
    BY <1>8 DEF OutOfList
  <2>2. \A i \in 1 .. k : q[i] \in Alarm \ {cursor}
    BY <2>1 DEF Ring
  <2>3. Timing(r, q, k, j)
    BY <1>6, <2>1, <2>2 DEF Timing
  <2>4. QED
    BY <1>4, <1>5, <2>1, <2>3 DEF Walked, r
<1>9. QED
  BY <1>7, <1>8

\* What has to be done at the end of a step of alt_tick's walk.
LEMMA WalksOn ==
  ASSUME nticks \in 0 .. AlarmWord - 1, nticks' = nticks,
         NEW s, TimesTyped(s), Timers!Become(s), Walked(s, cursor')
  PROVE  AlarmInv'
<1>1. PICK q, k, j : /\ Ring(s.links, q, k) /\ j \in 1 .. k + 1 /\ q[j] = cursor'
                     /\ Timing(s, q, k, j)
  BY DEF Walked
<1>2. links' = s.links /\ time' = s.time /\ rollover' = s.rollover /\ due' = s.due
  BY DEF Timers!Become
<1>3. /\ Timers!Now'.time = s.time /\ Timers!Now'.rollover = s.rollover /\ Timers!Now'.due = s.due
  BY <1>2 DEF Timers!Now
<1>4. TimesTyped(Timers!Now)'
  BY <1>3 DEF TimesTyped
<1>5. Timing(Timers!Now, q, k, j)'
  BY <1>1, <1>3 DEF Timing, TimedIn, PendingIn
<1>6. Ring(links', q, k)
  BY <1>1, <1>2
<1>7. QED
  BY <1>1, <1>4, <1>5, <1>6 DEF AlarmInv


\* Outside of alt_tick every alarm of the list is timed.
LEMMA RestsTimed ==
  ASSUME Timers!AlarmAssumption, AlarmInv, cursor = "null"
  PROVE  \E p, n : Ring(links, p, n) /\ \A i \in 1 .. n : TimedIn(Timers!Now, p[i])
<1>1. PICK p, n, m : /\ Ring(links, p, n) /\ m \in 1 .. n + 1 /\ Timing(Timers!Now, p, n, m)
                     /\ cursor = p[m] \/ (cursor = "null" /\ m = n + 1)
  BY DEF AlarmInv
<1>2. n \in Nat /\ \A i \in 1 .. n + 1 : p[i] # "null"
  <2>1. n \in Nat /\ \A i \in 1 .. n + 1 : p[i] \in Timers!Node
    BY <1>1 DEF Ring
  <2>2. QED
    BY <2>1 DEF Timers!Node, Timers!AlarmAssumption
<1>3. m = n + 1
  BY <1>1, <1>2
<1>4. \A i \in 1 .. n : i < m
  BY <1>2, <1>3
<1>5. QED
  BY <1>1, <1>4 DEF Timing

\* And so they are when a call from outside returns.
LEMMA TimedRests ==
  ASSUME nticks \in 0 .. AlarmWord - 1, nticks' = nticks, cursor' = "null",
         NEW s, TimesTyped(s), Timers!Become(s),
         NEW q, NEW k, Ring(s.links, q, k), \A i \in 1 .. k : TimedIn(s, q[i])
  PROVE  AlarmInv'
<1>1. k \in Nat /\ k + 1 \in 1 .. k + 1 /\ \A i \in 1 .. k : i < k + 1
  BY DEF Ring
<1>2. links' = s.links /\ time' = s.time /\ rollover' = s.rollover /\ due' = s.due
  BY DEF Timers!Become
<1>3. /\ Timers!Now'.time = s.time /\ Timers!Now'.rollover = s.rollover /\ Timers!Now'.due = s.due
  BY <1>2 DEF Timers!Now
<1>4. TimesTyped(Timers!Now)'
  BY <1>3 DEF TimesTyped
<1>5. Timing(Timers!Now, q, k, k + 1)'
  BY <1>1, <1>3 DEF Timing, TimedIn
<1>6. Ring(links', q, k)
  BY <1>2
<1>7. QED
  BY <1>1, <1>4, <1>5, <1>6 DEF AlarmInv

\* The head alone.
LEMMA AlarmInit ==
  ASSUME Timers!AlarmAssumption, Timers!Init
  PROVE  AlarmInv
<1> DEFINE p == [i \in 0 .. 1 |-> "list"]
<1>1. 0 \in 0 .. AlarmWord - 1
  BY DEF Timers!AlarmAssumption
<1>2. nticks \in 0 .. AlarmWord - 1 /\ TimesTyped(Timers!Now)
  <2>1. /\ Timers!Now.time = [a \in Alarm |-> 0] /\ Timers!Now.rollover = [a \in Alarm |-> FALSE]
        /\ Timers!Now.due = [a \in Alarm |-> 0] /\ nticks = 0
    BY DEF Timers!Init, Timers!Now
  <2>2. QED
    BY <1>1, <2>1 DEF TimesTyped
<1>3. Ring(links, p, 0)
  <2>1. /\ links.next = [n \in Timers!Node |-> IF n = "list" THEN "list" ELSE "null"]
        /\ links.prev = [n \in Timers!Node |-> IF n = "list" THEN "list" ELSE "null"]
        /\ links = [next |-> links.next, prev |-> links.prev]
    BY DEF Timers!Init
  <2>2. "list" \in Timers!Node /\ Alarm \subseteq Timers!Node /\ "list" \notin Alarm
    BY DEF Timers!Node, Timers!AlarmAssumption
  <2>3. links.next["list"] = "list" /\ links.prev["list"] = "list"
        /\ \A a \in Alarm : links.next[a] = "null" /\ links.prev[a] = "null"
    BY <2>1, <2>2
  <2>4. links \in [next : [Timers!Node -> Timers!Node \cup {"null"}],
                   prev : [Timers!Node -> Timers!Node \cup {"null"}]]
    BY <2>1, <2>2
  <2>5. p \in [0 .. 0 + 1 -> Timers!Node] /\ p[0] = "list" /\ p[0 + 1] = "list"
    BY <2>2
  <2>6. QED
    BY <2>3, <2>4, <2>5 DEF Ring
<1>4. Timing(Timers!Now, p, 0, 1)
  BY DEF Timing
<1>5. cursor = "null" /\ 1 \in 1 .. 0 + 1 /\ 1 = 0 + 1
  BY DEF Timers!Init
<1> HIDE DEF p
<1>6. QED
  BY <1>2, <1>3, <1>4, <1>5 DEF AlarmInv

LEMMA AlarmStart ==
  ASSUME Timers!AlarmAssumption, BelowWrap, AlarmInv,
         NEW a \in Alarm, NEW d \in Intervals, Timers!Start(a, d)
  PROVE  AlarmInv'
<1> DEFINE r == Timers!Started(Timers!Now, a, d)
<1>1. nticks \in 0 .. AlarmWord - 1 /\ TimesTyped(Timers!Now) /\ Timers!Now.links = links
  BY DEF AlarmInv, Timers!Now
<1>2. /\ cursor = "null" /\ a \notin Timers!Armed(links) /\ Timers!Become(r)
      /\ nticks' = nticks /\ cursor' = "null"
  BY DEF Timers!Start
<1>3. PICK p, n : Ring(links, p, n) /\ \A i \in 1 .. n : TimedIn(Timers!Now, p[i])
  BY <1>2, RestsTimed
<1>4. /\ TimesTyped(r) /\ TimedIn(r, a) /\ r.links = Timers!Inserted(links, a)
      /\ \A b \in Alarm \ {a} : /\ r.time[b] = Timers!Now.time[b] /\ r.due[b] = Timers!Now.due[b]
                                /\ r.rollover[b] = Timers!Now.rollover[b]
  BY <1>1, StartedTimes
<1> HIDE DEF r
<1>5. \A i \in 1 .. n : p[i] # a
  BY <1>2, <1>3, RingArmed
<1> DEFINE q == InFront(p, n, a)
<1>6. Ring(r.links, q, n + 1)
  BY <1>3, <1>4, <1>5, RingInserted
<1>7. n \in Nat /\ \A i \in 1 .. n : p[i] \in Alarm
  BY <1>3 DEF Ring
<1>8. q[1] = a /\ \A i \in 2 .. n + 1 : q[i] = p[i - 1] /\ i - 1 \in 1 .. n
  BY <1>7 DEF InFront
<1> HIDE DEF q
<1>9. \A i \in 1 .. n + 1 : TimedIn(r, q[i])
  <2>1. ASSUME NEW i \in 2 .. n + 1 PROVE TimedIn(r, q[i])
    <3>1. q[i] \in Alarm \ {a} /\ TimedIn(Timers!Now, q[i])
      BY <1>3, <1>5, <1>7, <1>8
    <3>2. QED
      BY <1>4, <3>1, SameTimes
  <2>2. \A i \in 1 .. n + 1 : i = 1 \/ i \in 2 .. n + 1
    BY <1>7
  <2>3. QED
    BY <1>4, <1>8, <2>1, <2>2
<1>10. QED
  BY <1>1, <1>2, <1>4, <1>6, <1>9, TimedRests

LEMMA AlarmStop ==
  ASSUME Timers!AlarmAssumption, AlarmInv, NEW a \in Alarm, Timers!Stop(a)
  PROVE  AlarmInv'
<1> DEFINE r == Timers!Stopped(Timers!Now, a)
<1>1. nticks \in 0 .. AlarmWord - 1 /\ TimesTyped(Timers!Now) /\ Timers!Now.links = links
  BY DEF AlarmInv, Timers!Now
<1>2. /\ cursor = "null" /\ links.next[a] # "null" /\ Timers!Become(r)
      /\ nticks' = nticks /\ cursor' = "null"
  BY DEF Timers!Stop, Timers!Known
<1>3. PICK p, n : Ring(links, p, n) /\ \A i \in 1 .. n : TimedIn(Timers!Now, p[i])
  BY <1>2, RestsTimed
<1>4. /\ TimesTyped(r) /\ r.links = Timers!Removed(links, a)
      /\ r.time = Timers!Now.time /\ r.rollover = Timers!Now.rollover
      /\ \A b \in Alarm \ {a} : r.due[b] = Timers!Now.due[b]
  BY <1>1, StoppedTimes
<1> HIDE DEF r
<1>5. n \in Nat /\ \A i \in 1 .. n : p[i] \in Alarm
  BY <1>3 DEF Ring
<1>6. ASSUME NEW i \in 1 .. n, p[i] # a PROVE TimedIn(r, p[i])
  BY <1>3, <1>4, <1>5, <1>6, SameTimes
<1>7. CASE \A i \in 1 .. n : p[i] # a
  <2>1. r.links = links
    BY <1>2, <1>3, <1>4, <1>7, RemovedAgain
  <2>2. QED
    BY <1>1, <1>2, <1>3, <1>4, <1>6, <1>7, <2>1, TimedRests
<1>8. CASE \E i \in 1 .. n : p[i] = a
  <2>1. PICK j \in 1 .. n : p[j] = a
    BY <1>8
  <2> DEFINE q == Without(p, n, j)
  <2>2. Ring(r.links, q, n - 1) /\ \A i \in 1 .. n - 1 : q[i] # a
    BY <1>3, <1>4, <2>1, RingRemoved
  <2>3. \A i \in 1 .. n - 1 : q[i] = IF i < j THEN p[i] ELSE p[i + 1]
    <3>1. \A i \in 1 .. n - 1 : i \in 0 .. n
      BY <1>5
    <3>2. QED
      BY <3>1 DEF Without
  <2> HIDE DEF q
  <2>4. ASSUME NEW i \in 1 .. n - 1 PROVE TimedIn(r, q[i])
    <3>1. i \in 1 .. n /\ i + 1 \in 1 .. n
      BY <1>5
    <3>2. \E k \in 1 .. n : q[i] = p[k]
      BY <2>3, <3>1
    <3>3. QED
      BY <1>6, <2>2, <3>2
  <2>5. QED
    BY <1>1, <1>2, <1>4, <2>2, <2>4, TimedRests
<1>9. QED
  BY <1>7, <1>8


\* A tick makes what was timed pending.
LEMMA TimedTicks ==
  ASSUME Timers!AlarmAssumption, nticks \in 0 .. AlarmWord - 1,
         nticks' = (nticks + 1) % AlarmWord,
         NEW a \in Alarm, TimesTyped(Timers!Now), TimedIn(Timers!Now, a),
         time' = time, rollover' = rollover, due'[a] = due[a] - 1
  PROVE  /\ due[a] - 1 \in 0 .. AlarmWord - 1
         /\ PendingIn(Timers!Now, a)'
<1>1. AlarmWord \in Nat \ {0, 1}
  BY DEF Timers!AlarmAssumption
<1>2. /\ due[a] \in 1 .. AlarmWord - 1 /\ (rollover[a] <=> time[a] < nticks)
      /\ due[a] = time[a] - nticks + (IF rollover[a] THEN AlarmWord ELSE 0)
      /\ time[a] \in 0 .. AlarmWord - 1
  BY DEF TimedIn, TimesTyped, Timers!Now
<1>3. /\ Timers!Now'.time[a] = time[a] /\ Timers!Now'.rollover[a] = rollover[a]
      /\ Timers!Now'.due[a] = due[a] - 1
  BY DEF Timers!Now
<1>4. CASE nticks + 1 < AlarmWord
  <2>1. nticks' = nticks + 1 /\ nticks' # 0
    <3>1. nticks + 1 \in 0 .. AlarmWord - 1 /\ AlarmWord * 0 + (nticks + 1) = nticks + 1
      BY <1>1, <1>4
    <3>2. QED
      BY <1>1, <3>1, Quotient
  <2>2. /\ rollover[a] <=> time[a] < nticks'
        /\ due[a] - 1 = time[a] - nticks' + (IF rollover[a] THEN AlarmWord ELSE 0)
    BY <1>1, <1>2, <2>1
  <2>3. QED
    BY <1>1, <1>2, <1>3, <2>1, <2>2 DEF PendingIn
<1>5. CASE ~(nticks + 1 < AlarmWord)
  <2>1. nticks' = 0
    <3>1. nticks + 1 = AlarmWord /\ 0 \in 0 .. AlarmWord - 1 /\ AlarmWord * 1 + 0 = AlarmWord
      BY <1>1, <1>5
    <3>2. QED
      BY <1>1, <3>1, Quotient
  <2>2. rollover[a] /\ due[a] - 1 = time[a]
    BY <1>1, <1>2, <1>5
  <2>3. QED
    BY <1>1, <1>2, <1>3, <2>1, <2>2 DEF PendingIn
<1>6. QED
  BY <1>4, <1>5

LEMMA AlarmTick ==
  ASSUME Timers!AlarmAssumption, AlarmInv, Timers!Tick
  PROVE  AlarmInv'
<1>1. nticks \in 0 .. AlarmWord - 1 /\ TimesTyped(Timers!Now)
  BY DEF AlarmInv
<1>2. /\ cursor = "null" /\ nticks' = (nticks + 1) % AlarmWord /\ cursor' = links.next["list"]
      /\ due' = [a \in Alarm |-> IF a \in Timers!Armed(links) THEN due[a] - 1 ELSE due[a]]
      /\ links' = links /\ time' = time /\ rollover' = rollover
  BY DEF Timers!Tick
<1>3. PICK p, n : Ring(links, p, n) /\ \A i \in 1 .. n : TimedIn(Timers!Now, p[i])
  BY <1>2, RestsTimed
<1>4. Timers!Armed(links) = {p[i] : i \in 1 .. n}
  BY <1>3, RingArmed
<1>5. n \in Nat /\ (\A i \in 1 .. n : p[i] \in Alarm) /\ links.next["list"] = p[1]
  <2>1. n \in Nat /\ 0 \in 0 .. n
    BY <1>3 DEF Ring
  <2>2. QED
    BY <1>3, <2>1 DEF Ring
<1>6. ASSUME NEW i \in 1 .. n
      PROVE  due[p[i]] - 1 \in 0 .. AlarmWord - 1 /\ PendingIn(Timers!Now, p[i])'
  <2>1. p[i] \in Alarm /\ p[i] \in Timers!Armed(links)
    BY <1>4, <1>5
  <2>2. due'[p[i]] = due[p[i]] - 1
    BY <1>2, <2>1
  <2>3. TimedIn(Timers!Now, p[i])
    BY <1>3
  <2>4. \A a \in Alarm : due'[a] = due[a] - 1 /\ TimedIn(Timers!Now, a) =>
           due[a] - 1 \in 0 .. AlarmWord - 1 /\ PendingIn(Timers!Now, a)'
    BY <1>1, <1>2, TimedTicks
  <2>5. \A a : a = p[i] => PendingIn(Timers!Now, a)' = PendingIn(Timers!Now, p[i])'
    OBVIOUS
  <2>6. QED
    BY <2>1, <2>2, <2>3, <2>4
<1>7. TimesTyped(Timers!Now)'
  <2>1. /\ time \in [Alarm -> 0 .. AlarmWord - 1] /\ rollover \in [Alarm -> BOOLEAN]
        /\ due \in [Alarm -> 0 .. AlarmWord - 1]
    BY <1>1 DEF TimesTyped, Timers!Now
  <2>2. \A a \in Alarm : a \in Timers!Armed(links) => due[a] - 1 \in 0 .. AlarmWord - 1
    BY <1>4, <1>6
  <2>3. due' \in [Alarm -> 0 .. AlarmWord - 1]
    BY <1>2, <2>1, <2>2
  <2>4. QED
    BY <1>2, <2>1, <2>3 DEF TimesTyped, Timers!Now
<1>8. nticks' \in 0 .. AlarmWord - 1
  <2>1. AlarmWord \in Nat \ {0} /\ nticks + 1 \in Int
    BY <1>1 DEF Timers!AlarmAssumption
  <2>2. QED
    BY <1>2, <2>1, Division
<1>9. Timing(Timers!Now, p, n, 1)'
  <2>1. \A i \in 1 .. n : ~(i < 1)
    BY <1>5
  <2>2. QED
    BY <1>6, <2>1 DEF Timing
<1>10. Ring(links', p, n) /\ 1 \in 1 .. n + 1 /\ cursor' = p[1]
  BY <1>2, <1>3, <1>5
<1>11. QED
  BY <1>7, <1>8, <1>9, <1>10 DEF AlarmInv

\* Where alt_tick stands: the alarm it looks at is pending.
LEMMA WalkStands ==
  ASSUME Timers!AlarmAssumption, AlarmInv, cursor \in Alarm
  PROVE  \E p, n, m : /\ Ring(links, p, n) /\ m \in 1 .. n /\ Timing(Timers!Now, p, n, m)
                      /\ cursor = p[m] /\ PendingIn(Timers!Now, cursor)
                      /\ links.next[cursor] = p[m + 1] /\ p[m + 1] # cursor
<1>1. PICK p, n, m : /\ Ring(links, p, n) /\ m \in 1 .. n + 1 /\ Timing(Timers!Now, p, n, m)
                     /\ cursor = p[m] \/ (cursor = "null" /\ m = n + 1)
  BY DEF AlarmInv
<1>2. cursor = p[m] /\ n \in Nat
  BY <1>1 DEF Timers!AlarmAssumption, Ring
<1>3. m # n + 1
  BY <1>1, <1>2 DEF Timers!AlarmAssumption, Ring
<1>4. m \in 1 .. n /\ m \in 0 .. n
  BY <1>1, <1>2, <1>3
<1>5. ~(m < m)
  BY <1>4
<1>6. PendingIn(Timers!Now, cursor)
  BY <1>1, <1>2, <1>4, <1>5 DEF Timing
<1>7. links.next[cursor] = p[m + 1]
  BY <1>1, <1>2, <1>4 DEF Ring
<1>8. cursor \in Timers!Armed(links)
  BY <1>1, <1>2, <1>4, RingArmed
<1>9. p[m + 1] # cursor
  BY <1>7, <1>8 DEF Timers!Armed
<1>10. QED
  BY <1>1, <1>2, <1>4, <1>6, <1>7, <1>9

\* An alarm expires in the tick that it was asked for.
LEMMA PendingExpires ==
  ASSUME Timers!AlarmAssumption, nticks \in 0 .. AlarmWord - 1, TimesTyped(Timers!Now),
         NEW a \in Alarm, PendingIn(Timers!Now, a)
  PROVE  /\ Timers!Expired(a) <=> due[a] <= 0
         /\ Timers!Expired(a) => time[a] = nticks /\ due[a] = 0 /\ ~Timers!StillAfterWrap(a)
         /\ ~Timers!Expired(a) =>
               /\ due[a] \in 1 .. AlarmWord - 1
               /\ Timers!StillAfterWrap(a) <=> time[a] < nticks
               /\ due[a] = time[a] - nticks
                             + (IF Timers!StillAfterWrap(a) THEN AlarmWord ELSE 0)
<1>1. /\ time[a] \in 0 .. AlarmWord - 1 /\ due[a] \in 0 .. AlarmWord - 1
      /\ rollover[a] \in BOOLEAN /\ AlarmWord \in Nat
  BY DEF TimesTyped, Timers!Now, Timers!AlarmAssumption
<1>2. CASE nticks = 0
  <2>1. rollover[a] /\ due[a] = time[a]
    BY <1>2 DEF PendingIn, Timers!Now
  <2>2. QED
    BY <1>1, <1>2, <2>1 DEF Timers!Expired, Timers!StillAfterWrap
<1>3. CASE nticks # 0
  <2>1. /\ rollover[a] <=> time[a] < nticks
        /\ due[a] = time[a] - nticks + (IF rollover[a] THEN AlarmWord ELSE 0)
    BY <1>3 DEF PendingIn, Timers!Now
  <2>2. Timers!StillAfterWrap(a) <=> rollover[a]
    BY <1>3 DEF Timers!StillAfterWrap
  <2>3. CASE rollover[a]
    BY <1>1, <2>1, <2>2, <2>3 DEF Timers!Expired
  <2>4. CASE ~rollover[a]
    BY <1>1, <2>1, <2>2, <2>4 DEF Timers!Expired
  <2>5. QED
    BY <2>3, <2>4
<1>4. QED
  BY <1>2, <1>3

LEMMA AlarmPass ==
  ASSUME Timers!AlarmAssumption, AlarmInv, Timers!Pass
  PROVE  AlarmInv'
<1> DEFINE s == [links |-> links, time |-> time,
                 rollover |-> [rollover EXCEPT ![cursor] = Timers!StillAfterWrap(cursor)],
                 due |-> due]
<1>1. nticks \in 0 .. AlarmWord - 1 /\ TimesTyped(Timers!Now)
  BY DEF AlarmInv
<1>2. /\ cursor \in Alarm /\ ~Timers!Expired(cursor) /\ cursor' = links.next[cursor]
      /\ Timers!Become(s) /\ nticks' = nticks
  BY DEF Timers!Pass, Timers!Become
<1>3. PICK p, n, m : /\ Ring(links, p, n) /\ m \in 1 .. n /\ Timing(Timers!Now, p, n, m)
                     /\ cursor = p[m] /\ PendingIn(Timers!Now, cursor)
                     /\ links.next[cursor] = p[m + 1]
  BY <1>2, WalkStands
<1>4. /\ due[cursor] \in 1 .. AlarmWord - 1
      /\ Timers!StillAfterWrap(cursor) <=> time[cursor] < nticks
      /\ due[cursor] = time[cursor] - nticks
                         + (IF Timers!StillAfterWrap(cursor) THEN AlarmWord ELSE 0)
  BY <1>1, <1>2, <1>3, PendingExpires
<1>5. /\ s.links = links /\ s.time = time /\ s.due = due
      /\ s.rollover = [rollover EXCEPT ![cursor] = Timers!StillAfterWrap(cursor)]
  OBVIOUS
<1> HIDE DEF s
<1>6. /\ time \in [Alarm -> 0 .. AlarmWord - 1] /\ rollover \in [Alarm -> BOOLEAN]
      /\ due \in [Alarm -> 0 .. AlarmWord - 1]
  BY <1>1 DEF TimesTyped, Timers!Now
<1>7. TimesTyped(s) /\ s.rollover[cursor] = Timers!StillAfterWrap(cursor)
  <2>1. Timers!StillAfterWrap(cursor) \in BOOLEAN
    BY DEF Timers!StillAfterWrap
  <2>2. s.rollover \in [Alarm -> BOOLEAN] /\ s.rollover[cursor] = Timers!StillAfterWrap(cursor)
    BY <1>2, <1>5, <1>6, <2>1
  <2>3. QED
    BY <1>5, <1>6, <2>2 DEF TimesTyped
<1>8. TimedIn(s, cursor)
  BY <1>4, <1>5, <1>7 DEF TimedIn
<1>9. /\ n \in Nat /\ (\A i \in 1 .. n : p[i] \in Alarm)
      /\ \A i, l \in 1 .. n : p[i] = p[l] => i = l
  BY <1>3 DEF Ring
<1>10. ASSUME NEW i \in 1 .. n
       PROVE  IF i < m + 1 THEN TimedIn(s, p[i]) ELSE PendingIn(s, p[i])
  <2>1. CASE i = m
    BY <1>3, <1>8, <1>9, <2>1
  <2>2. CASE i # m
    <3>1. p[i] \in Alarm \ {cursor} /\ (i < m + 1 <=> i < m)
      BY <1>3, <1>9, <2>2
    <3>2. /\ s.time[p[i]] = Timers!Now.time[p[i]] /\ s.due[p[i]] = Timers!Now.due[p[i]]
          /\ s.rollover[p[i]] = Timers!Now.rollover[p[i]]
      BY <1>5, <1>6, <3>1 DEF Timers!Now
    <3>3. /\ TimedIn(Timers!Now, p[i]) => TimedIn(s, p[i])
          /\ PendingIn(Timers!Now, p[i]) => PendingIn(s, p[i])
      BY <3>2, SameTimes
    <3>4. IF i < m THEN TimedIn(Timers!Now, p[i]) ELSE PendingIn(Timers!Now, p[i])
      BY <1>3 DEF Timing
    <3>5. QED
      BY <3>1, <3>3, <3>4
  <2>3. QED
    BY <2>1, <2>2
<1>11. Timing(s, p, n, m + 1) /\ m + 1 \in 1 .. n + 1
  BY <1>3, <1>9, <1>10 DEF Timing
<1>12. Walked(s, cursor')
  BY <1>2, <1>3, <1>5, <1>11 DEF Walked
<1>13. QED
  BY <1>1, <1>2, <1>7, <1>12, WalksOn


\* The alarm expires, its callback does what callbacks may, and alt_tick goes
\* on to the alarm that it noted before.
LEMMA AlarmFire ==
  ASSUME Timers!AlarmAssumption, BelowWrap, Careful, AlarmInv, Timers!Fire
  PROVE  AlarmInv'
<1> DEFINE s == Timers!Expiring
           nx == links.next[cursor]
<1>1. nticks \in 0 .. AlarmWord - 1 /\ TimesTyped(Timers!Now)
  BY DEF AlarmInv
<1>2. cursor \in Alarm /\ Timers!Expired(cursor) /\ nticks' = nticks
  BY DEF Timers!Fire
<1>3. PICK p, n, m : /\ Ring(links, p, n) /\ m \in 1 .. n /\ Timing(Timers!Now, p, n, m)
                     /\ cursor = p[m] /\ PendingIn(Timers!Now, cursor)
                     /\ nx = p[m + 1] /\ nx # cursor
  BY <1>2, WalkStands
<1>4. time[cursor] = nticks
  BY <1>1, <1>2, <1>3, PendingExpires
<1>5. /\ s.links = links /\ s.time = time /\ s.due = due
      /\ s.rollover = [rollover EXCEPT ![cursor] = Timers!StillAfterWrap(cursor)]
  BY DEF Timers!Expiring
<1> HIDE DEF s, nx
<1>6. /\ time \in [Alarm -> 0 .. AlarmWord - 1] /\ rollover \in [Alarm -> BOOLEAN]
      /\ due \in [Alarm -> 0 .. AlarmWord - 1]
  BY <1>1 DEF TimesTyped, Timers!Now
<1>7. TimesTyped(s)
  <2>1. Timers!StillAfterWrap(cursor) \in BOOLEAN
    BY DEF Timers!StillAfterWrap
  <2>2. s.rollover \in [Alarm -> BOOLEAN]
    BY <1>5, <1>6, <2>1
  <2>3. QED
    BY <1>5, <1>6, <2>2 DEF TimesTyped
<1>8. InList(s, nx)
  <2>1. /\ n \in Nat /\ (\A i \in 1 .. n : p[i] \in Alarm)
        /\ \A i, l \in 1 .. n : p[i] = p[l] => i = l
    BY <1>3 DEF Ring
  <2>2. ASSUME NEW i \in 1 .. n, i # m
        PROVE  IF i < m THEN TimedIn(s, p[i]) ELSE PendingIn(s, p[i])
    <3>1. p[i] \in Alarm \ {cursor}
      BY <1>3, <2>1, <2>2
    <3>2. /\ s.time[p[i]] = Timers!Now.time[p[i]] /\ s.due[p[i]] = Timers!Now.due[p[i]]
          /\ s.rollover[p[i]] = Timers!Now.rollover[p[i]]
      BY <1>5, <1>6, <3>1 DEF Timers!Now
    <3>3. /\ TimedIn(Timers!Now, p[i]) => TimedIn(s, p[i])
          /\ PendingIn(Timers!Now, p[i]) => PendingIn(s, p[i])
      BY <3>2, SameTimes
    <3>4. IF i < m THEN TimedIn(Timers!Now, p[i]) ELSE PendingIn(Timers!Now, p[i])
      BY <1>3 DEF Timing
    <3>5. QED
      BY <3>3, <3>4
  <2>3. Ring(s.links, p, n)
    BY <1>3, <1>5
  <2>4. QED
    BY <1>3, <2>2, <2>3 DEF InList
<1>9. PICK e \in Timers!CallbackEffects, d \in Repeats :
         LET r == IF d = 0 THEN Timers!Stopped(e, cursor) ELSE Timers!Repeated(e, d)
         IN  Timers!Become(r) /\ cursor' = Timers!NextNoted(r)
  BY DEF Timers!Fire
<1>10. \/ e = s
       \/ \E a \in Alarm \ Timers!Armed(links), k \in Intervals : e = Timers!Started(s, a, k)
       \/ \E a \in Alarm : Timers!Known(links, a) /\ a # nx /\ e = Timers!Stopped(s, a)
  BY DEF Timers!CallbackEffects, s, nx
<1>11. TimesTyped(e) /\ e.time[cursor] = nticks /\ (InList(e, nx) \/ OutOfList(e, nx))
  <2>1. CASE e = s
    BY <1>4, <1>5, <1>7, <1>8, <2>1
  <2>2. CASE \E a \in Alarm \ Timers!Armed(links), k \in Intervals : e = Timers!Started(s, a, k)
    <3>1. PICK a \in Alarm \ Timers!Armed(s.links), k \in Intervals : e = Timers!Started(s, a, k)
      BY <1>5, <2>2
    <3>2. cursor # a
      <4>1. cursor \in Timers!Armed(s.links)
        BY <1>3, <1>5, RingArmed
      <4>2. QED
        BY <3>1, <4>1
    <3>3. TimesTyped(e) /\ \A b \in Alarm \ {a} : e.time[b] = s.time[b]
      BY <1>1, <1>7, <3>1, StartedTimes
    <3>4. InList(e, nx)
      BY <1>1, <1>7, <1>8, <3>1, StartsInFront
    <3>5. QED
      BY <1>2, <1>4, <1>5, <3>2, <3>3, <3>4
  <2>3. CASE \E a \in Alarm : Timers!Known(links, a) /\ a # nx /\ e = Timers!Stopped(s, a)
    <3>1. PICK a \in Alarm : Timers!Known(s.links, a) /\ a # nx /\ e = Timers!Stopped(s, a)
      BY <1>5, <2>3
    <3>2. TimesTyped(e) /\ e.time = s.time
      BY <1>7, <3>1, StoppedTimes
    <3>3. InList(e, nx) \/ OutOfList(e, nx)
      BY <1>2, <1>7, <1>8, <3>1, StopsInList
    <3>4. QED
      BY <1>4, <1>5, <3>2, <3>3
  <2>4. QED
    BY <1>10, <2>1, <2>2, <2>3
<1>12. cursor' = nx
  BY <1>9 DEF Timers!NextNoted, nx
<1>13. CASE d = 0
  <2>1. Timers!Become(Timers!Stopped(e, cursor))
    BY <1>9, <1>13
  <2>2. TimesTyped(Timers!Stopped(e, cursor)) /\ Walked(Timers!Stopped(e, cursor), nx)
    BY <1>2, <1>3, <1>11, EndsAlarm
  <2>3. QED
    BY <1>1, <1>2, <1>12, <2>1, <2>2, WalksOn
<1>14. CASE d # 0
  <2>1. Timers!Become(Timers!Repeated(e, d))
    BY <1>9, <1>14
  <2>2. TimesTyped(Timers!Repeated(e, d)) /\ Walked(Timers!Repeated(e, d), nx)
    BY <1>1, <1>2, <1>11, <1>14, RepeatsAlarm
  <2>3. QED
    BY <1>1, <1>2, <1>12, <2>1, <2>2, WalksOn
<1>15. QED
  BY <1>13, <1>14

LEMMA AlarmTickDone ==
  ASSUME Timers!AlarmAssumption, AlarmInv, Timers!TickDone
  PROVE  AlarmInv'
<1>1. /\ nticks \in 0 .. AlarmWord - 1 /\ TimesTyped(Timers!Now)
      /\ cursor = "list" /\ cursor' = "null" /\ nticks' = nticks
      /\ Timers!Become(Timers!Now)
  BY DEF AlarmInv, Timers!TickDone, Timers!Become, Timers!Now
<1>2. PICK p, n, m : /\ Ring(links, p, n) /\ m \in 1 .. n + 1 /\ Timing(Timers!Now, p, n, m)
                     /\ cursor = p[m] \/ (cursor = "null" /\ m = n + 1)
  BY DEF AlarmInv
<1>3. n \in Nat /\ \A i \in 1 .. n : p[i] # "list"
  BY <1>2 DEF Ring, Timers!AlarmAssumption
<1>4. m = n + 1
  BY <1>1, <1>2, <1>3 DEF Timers!AlarmAssumption
<1>5. \A i \in 1 .. n : TimedIn(Timers!Now, p[i])
  <2>1. \A i \in 1 .. n : i < m
    BY <1>3, <1>4
  <2>2. QED
    BY <1>2, <2>1 DEF Timing
<1>6. Ring(Timers!Now.links, p, n)
  BY <1>2 DEF Timers!Now
<1>7. QED
  BY <1>1, <1>5, <1>6, TimedRests

LEMMA AlarmStep ==
  ASSUME Timers!AlarmAssumption, BelowWrap, Careful, AlarmInv, [Timers!Next]_(Timers!vars)
  PROVE  AlarmInv'
<1>1. ASSUME NEW a \in Alarm, Timers!Stop(a) PROVE AlarmInv'
  BY <1>1, AlarmStop
<1>2. ASSUME NEW a \in Alarm, NEW d \in Intervals, Timers!Start(a, d) PROVE AlarmInv'
  BY <1>2, AlarmStart
<1>3. CASE Timers!Tick
  BY <1>3, AlarmTick
<1>4. CASE Timers!Pass
  BY <1>4, AlarmPass
<1>5. CASE Timers!Fire
  BY <1>5, AlarmFire
<1>6. CASE Timers!TickDone
  BY <1>6, AlarmTickDone
<1>7. CASE UNCHANGED Timers!vars
  <2>1. /\ nticks' = nticks /\ links' = links /\ time' = time /\ rollover' = rollover
        /\ cursor' = cursor /\ due' = due
    BY <1>7 DEF Timers!vars
  <2>2. QED
    BY <2>1 DEF AlarmInv, TimesTyped, Timing, TimedIn, PendingIn, Timers!Now
<1>8. QED
  BY <1>1, <1>2, <1>3, <1>4, <1>5, <1>6, <1>7 DEF Timers!Next, Timers!Walk

\* What the invariant says to the list's users.
LEMMA AlarmInvImplies ==
  ASSUME Timers!AlarmAssumption, AlarmInv
  PROVE  Timers!TypeOK /\ Timers!WellLinked /\ Timers!ExpiresWhenDue /\ Timers!NoneMissed
<1>1. nticks \in 0 .. AlarmWord - 1 /\ TimesTyped(Timers!Now)
  BY DEF AlarmInv
<1>2. PICK p, n, m : /\ Ring(links, p, n) /\ m \in 1 .. n + 1 /\ Timing(Timers!Now, p, n, m)
                     /\ cursor = p[m] \/ (cursor = "null" /\ m = n + 1)
  BY DEF AlarmInv
<1>3. Timers!WellLinked
  BY <1>2, RingChained
<1>4. Timers!TypeOK
  <2>1. cursor \in Timers!Node \cup {"null"}
    BY <1>2 DEF Ring
  <2>2. links \in [next : [Timers!Node -> Timers!Node \cup {"null"}],
                   prev : [Timers!Node -> Timers!Node \cup {"null"}]]
    BY <1>2 DEF Ring
  <2>3. /\ time \in [Alarm -> 0 .. AlarmWord - 1] /\ rollover \in [Alarm -> BOOLEAN]
        /\ due \in [Alarm -> 0 .. AlarmWord - 1]
    BY <1>1 DEF TimesTyped, Timers!Now
  <2>4. due \in [Alarm -> 0 .. AlarmWord]
    BY <2>3 DEF Timers!AlarmAssumption
  <2>5. QED
    BY <1>1, <2>1, <2>2, <2>3, <2>4 DEF Timers!TypeOK
<1>5. Timers!ExpiresWhenDue
  <2>1. SUFFICES ASSUME cursor \in Timers!Armed(links)
                 PROVE  Timers!Expired(cursor) <=> due[cursor] <= 0
    BY DEF Timers!ExpiresWhenDue
  <2>2. cursor \in Alarm
    BY <2>1 DEF Timers!Armed
  <2>3. PendingIn(Timers!Now, cursor)
    BY <2>2, WalkStands
  <2>4. QED
    BY <1>1, <2>2, <2>3, PendingExpires
<1>6. Timers!NoneMissed
  <2>1. SUFFICES ASSUME cursor = "null", NEW a \in Timers!Armed(links) PROVE due[a] > 0
    BY DEF Timers!NoneMissed
  <2>2. PICK q, k : Ring(links, q, k) /\ \A i \in 1 .. k : TimedIn(Timers!Now, q[i])
    BY <2>1, RestsTimed
  <2>3. TimedIn(Timers!Now, a)
    BY <2>1, <2>2, RingArmed
  <2>4. QED
    BY <2>3 DEF TimedIn, Timers!Now, Timers!AlarmAssumption
<1>7. QED
  BY <1>3, <1>4, <1>5, <1>6

\* The alarms of alt_tick: whatever callbacks do to it during a walk, the list
\* is a ring of the armed alarms in both directions, and each alarm expires in
\* the tick it was asked for, neither early nor late nor never, whatever the
\* number of alarms, the width of the tick counter and the times asked for, as
\* long as those stay below the wrap and no callback stops the alarm after its
\* own.
THEOREM AlarmsWhenDue ==
  ASSUME Timers!AlarmAssumption, BelowWrap, Careful
  PROVE  Timers!Init /\ [][Timers!Next]_(Timers!vars) =>
           [](/\ Timers!TypeOK /\ Timers!WellLinked
              /\ Timers!ExpiresWhenDue /\ Timers!NoneMissed)
<1>1. Timers!Init => AlarmInv
  BY AlarmInit
<1>2. AlarmInv /\ [Timers!Next]_(Timers!vars) => AlarmInv'
  BY AlarmStep
<1>3. AlarmInv => /\ Timers!TypeOK /\ Timers!WellLinked
                  /\ Timers!ExpiresWhenDue /\ Timers!NoneMissed
  BY AlarmInvImplies
<1>4. QED
  BY <1>1, <1>2, <1>3, PTL

-----------------------------------------------------------------------------
\* LogPort.tla.

\* A character on its way and one that was sent, with whoever wrote it.
Item == [kind : {"echo", "boot", "beat", "report"},
         ch : {"plain", "nul", "newline", "return", "boot", "beat", "report", "escaped"}]
Said == [by : Log!Who, says : Item]

BeatText == [kind |-> "beat", ch |-> "beat"]
BeatEnd == [kind |-> "beat", ch |-> "return"]
ReportText == [kind |-> "report", ch |-> "report"]
ReportEnd == [kind |-> "report", ch |-> "return"]

\* What a handler can have left to log: what remains of the clock's message
\* and of the report.
Reporting == {<<BeatText, BeatEnd, ReportText, ReportEnd>>,
              <<BeatEnd, ReportText, ReportEnd>>, <<ReportText, ReportEnd>>}
HandlerTodo == Reporting \cup {<<>>, <<ReportEnd>>, <<BeatText, BeatEnd>>, <<BeatEnd>>}

LogTyped ==
  /\ level \in Levels /\ loading \in {"boot", "driver", "main"}
  /\ queued \in 0 .. Depth /\ shown \in Seq(Said) /\ dropped \in [Log!Who -> Nat]
  /\ running \in Log!Who /\ todo \in [Log!Who -> Seq(Item)]
  /\ ready \in [Log!Who -> BOOLEAN] /\ writes \in 0 .. MaxWrites
  /\ beats \in 0 .. Interval /\ ticks \in 0 .. LogTicks
  /\ reportIn \in {-1} \cup 1 .. ReportTicks + 1
  /\ todo["handler"] \in HandlerTodo

\* Who has seen room has a character to write; a handler that runs still has
\* the room it saw.
RoomSeen ==
  /\ \A t \in Log!Who : ready[t] => todo[t] # <<>>
  /\ running = "program" => todo["handler"] = <<>>
  /\ ready["handler"] => queued < Depth

\* The program loses the character whose room a handler took, and has not
\* lost one for this interrupt before.
LostAtMost ==
  /\ dropped["handler"] = 0
  /\ dropped["program"] <= ticks
  /\ ready["program"] /\ (queued = Depth \/ running = "handler") => dropped["program"] < ticks

\* What the level lets a program or a handler log.
Allowed(t, item) ==
  /\ item.ch # "ctrl-d" /\ level # -1
  /\ item.kind \in {"beat", "report"} => level >= 1
  /\ item.kind = "echo" => level >= 2
  /\ item.kind = "report" /\ t = "handler" => level >= 2

AllAllowed ==
  /\ \A t \in Log!Who : \A j \in 1 .. Len(todo[t]) : Allowed(t, todo[t][j])
  /\ \A i \in 1 .. Len(shown) : Allowed(shown[i].by, shown[i].says)

\* The end of a handler's message is sent next.
EndsNext ==
  \A i \in 1 .. Len(shown) :
     shown[i].by = "handler" /\ shown[i].says.ch # "return" =>
        LET end == [kind |-> shown[i].says.kind, ch |-> "return"]
        IN  \/ i < Len(shown) /\ shown[i + 1].by = "handler" /\ shown[i + 1].says = end
            \/ i = Len(shown) /\ todo["handler"] # <<>> /\ Head(todo["handler"]) = end

\* Each report took the ticks of its interval, and so does the next one.
Reports == {i \in 1 .. Len(shown) : shown[i].by = "handler" /\ shown[i].says.ch = "report"}
Begun == Cardinality(Reports) + (IF todo["handler"] \in Reporting THEN 1 ELSE 0)
Waited == IF reportIn = -1 THEN 0 ELSE ReportTicks + 1 - reportIn
ReportsTakeTime == level = 2 => (Begun * ReportTicks) + Waited <= ticks

LogInv == /\ LogTyped /\ RoomSeen /\ LostAtMost /\ AllAllowed /\ EndsNext
          /\ ReportsTakeTime

LEMMA ReportsCounted ==
  ASSUME shown \in Seq(Said)
  PROVE  IsFiniteSet(Reports) /\ Cardinality(Reports) \in Nat /\ Begun \in Nat
<1>1. IsFiniteSet(1 .. Len(shown))
  BY FS_Interval
<1>2. IsFiniteSet(Reports)
  BY <1>1, FS_Subset DEF Reports
<1>3. QED
  BY <1>2, FS_CardinalityType DEF Begun

LEMMA LogStarts == ASSUME Log!LogPortAssumption PROVE Log!Init => LogInv
<1> SUFFICES ASSUME Log!Init PROVE LogInv
  OBVIOUS
<1>1. LogTyped
  BY DEF Log!Init, Log!LogPortAssumption, LogTyped, HandlerTodo, Log!Who, Log!NoAlarm
<1>2. RoomSeen /\ LostAtMost /\ AllAllowed /\ EndsNext
  BY <1>1 DEF Log!Init, RoomSeen, LostAtMost, AllAllowed, EndsNext, Log!Who, Log!LogPortAssumption
<1>3. ReportsTakeTime
  <2>1. Reports = {}
    BY DEF Log!Init, Reports
  <2>2. <<>> \notin Reporting
    BY DEF Reporting
  <2>3. Begun = 0 /\ Waited = 0
    BY <2>1, <2>2, FS_EmptySet DEF Begun, Log!Init, Waited, Log!Who, Log!NoAlarm
  <2>4. QED
    BY <2>3 DEF Log!Init, ReportsTakeTime, Log!LogPortAssumption
<1>4. QED
  BY <1>1, <1>2, <1>3 DEF LogInv


\* A message that the flag turns on is two characters.
LEMMA MessageSays ==
  ASSUME NEW t \in Log!Who, NEW on \in BOOLEAN, NEW text \in {"boot", "beat", "report"},
         on => level # -1,
         on /\ text \in {"beat", "report"} => level >= 1,
         on /\ text = "report" /\ t = "handler" => level >= 2
  PROVE  /\ Log!Message(on, text) \in Seq(Item)
         /\ \A j \in 1 .. Len(Log!Message(on, text)) : Allowed(t, Log!Message(on, text)[j])
<1> DEFINE a == [kind |-> text, ch |-> text]
           b == [kind |-> text, ch |-> "return"]
<1>1. a \in Item /\ b \in Item
  BY DEF Item
<1>2. on => Allowed(t, a) /\ Allowed(t, b)
  BY DEF Allowed
<1>3. CASE on
  <2>1. Log!Message(on, text) = <<a, b>>
    BY <1>3 DEF Log!Message
  <2> HIDE DEF a, b
  <2>2. QED
    <3>1. Len(<<a, b>>) = 2 /\ <<a, b>>[1] = a /\ <<a, b>>[2] = b /\ <<a, b>> \in Seq(Item)
      BY <1>1
    <3>2. \A j \in 1 .. 2 : Allowed(t, <<a, b>>[j])
      <4>1. ASSUME NEW j \in 1 .. 2 PROVE Allowed(t, <<a, b>>[j])
        <5>1. <<a, b>>[j] = a \/ <<a, b>>[j] = b
          BY <3>1
        <5>2. QED
          BY <1>2, <1>3, <5>1, Zenon
      <4>2. QED
        BY <4>1
    <3>3. QED
      BY <2>1, <3>1, <3>2, Zenon
<1>4. CASE ~on
  <2>1. Log!Message(on, text) = <<>>
    BY <1>4 DEF Log!Message
  <2>2. QED
    BY <2>1
<1>5. QED
  BY <1>3, <1>4

\* The echo of what is written has no Ctrl-D, wherever there was one.
LEMMA EchoSays ==
  ASSUME Log!LogPortAssumption, level \in Levels,
         NEW s \in Seq({"plain", "ctrl-d", "nul"})
  PROVE  /\ Log!Echo(s) \in Seq(Item)
         /\ \A j \in 1 .. Len(Log!Echo(s)) : Allowed("program", Log!Echo(s)[j])
<1> DEFINE length == IF EchoLen > Len(s) THEN Len(s) ELSE EchoLen
           buf == [i \in 1 .. length + 1 |->
                     CASE i < length -> Log!EscapedAt(s, i)
                       [] i = length -> "newline"
                       [] OTHER -> "return"]
           IsEnd(n) == /\ \A i \in 1 .. n : buf[i] # "nul"
                       /\ n = length + 1 \/ buf[n + 1] = "nul"
           end == CHOOSE n \in 0 .. length + 1 : IsEnd(n)
           echo == [i \in 1 .. end |-> [kind |-> "echo", ch |-> buf[i]]]
<1>1. length \in Nat /\ length <= Len(s)
  BY DEF Log!LogPortAssumption
<1>2. \A i \in 1 .. length + 1 : buf[i] \in {"plain", "nul", "newline", "return", "escaped"}
  <2>1. \A i \in 1 .. Len(s) : s[i] \in {"plain", "ctrl-d", "nul"}
    OBVIOUS
  <2>2. QED
    BY <1>1, <2>1 DEF Log!EscapedAt
<1> HIDE DEF length, buf
<1>3. end \in 0 .. length + 1
  <2> DEFINE Ends == {n \in 0 .. length + 1 : n = length + 1 \/ buf[n + 1] = "nul"}
  <2>1. length + 1 \in Ends /\ Ends \in SUBSET Nat
    BY <1>1
  <2>2. PICK n \in Ends : \A m \in Ends : n <= m
    BY <2>1, SmallestOf
  <2>3. \A i \in 1 .. n : buf[i] # "nul"
    <3>1. SUFFICES ASSUME NEW i \in 1 .. n, buf[i] = "nul" PROVE FALSE
      OBVIOUS
    <3>2. i - 1 \in Ends
      BY <1>1, <3>1
    <3>3. QED
      BY <2>2, <3>1, <3>2
  <2>4. n \in 0 .. length + 1 /\ IsEnd(n)
    BY <2>2, <2>3
  <2>5. QED
    BY <2>4
<1> HIDE DEF end
<1>4. Log!Echo(s) = IF Log!WriteOn /\ length >= 2 THEN echo ELSE <<>>
  BY DEF Log!Echo, length, buf, end
<1>5. \A i \in 1 .. end : echo[i] \in Item /\ (Log!WriteOn => Allowed("program", echo[i]))
  <2>1. SUFFICES ASSUME NEW i \in 1 .. end
                 PROVE  echo[i] \in Item /\ (Log!WriteOn => Allowed("program", echo[i]))
    OBVIOUS
  <2>2. buf[i] \in {"plain", "nul", "newline", "return", "escaped"}
    BY <1>1, <1>2, <1>3
  <2>3. echo[i] = [kind |-> "echo", ch |-> buf[i]]
    OBVIOUS
  <2>4. QED
    BY <2>2, <2>3 DEF Item, Allowed, Log!WriteOn
<1>6. CASE Log!WriteOn /\ length >= 2
  <2>1. echo \in Seq(Item) /\ Len(echo) = end
    BY <1>1, <1>3, <1>5
  <2>2. QED
    BY <1>4, <1>5, <1>6, <2>1
<1>7. CASE ~(Log!WriteOn /\ length >= 2)
  <2>1. Log!Echo(s) = <<>>
    BY <1>4, <1>7
  <2>2. QED
    BY <2>1
<1>8. QED
  BY <1>6, <1>7


\* The program logs something while no handler runs; the UART's alarm may be
\* started with it.
LEMMA ProgramLogs ==
  ASSUME Log!LogPortAssumption, LogInv, running = "program",
         NEW s \in Seq(Item), \A j \in 1 .. Len(s) : Allowed("program", s[j]),
         todo["program"] = <<>>,
         todo' = [todo EXCEPT !["program"] = s],
         loading' \in {"boot", "driver", "main"}, writes' \in 0 .. MaxWrites,
         reportIn' \in {reportIn, -1, ReportTicks + 1},
         UNCHANGED <<level, queued, shown, dropped, running, ready, beats, ticks>>
  PROVE  LogInv'
<1>1. todo' \in [Log!Who -> Seq(Item)] /\ todo'["handler"] = todo["handler"] /\ todo'["program"] = s
  BY DEF LogInv, LogTyped, Log!Who
<1>2. LogTyped'
  <2>1. /\ level \in Levels /\ queued \in 0 .. Depth /\ shown \in Seq(Said)
        /\ dropped \in [Log!Who -> Nat] /\ running \in Log!Who
        /\ ready \in [Log!Who -> BOOLEAN] /\ beats \in 0 .. Interval /\ ticks \in 0 .. LogTicks
        /\ todo["handler"] \in HandlerTodo
    BY DEF LogInv, LogTyped
  <2>2. ReportTicks \in Nat /\ reportIn \in {-1} \cup 1 .. ReportTicks + 1
    BY DEF LogInv, LogTyped, Log!LogPortAssumption
  <2>3. reportIn' \in {-1} \cup 1 .. ReportTicks + 1
    <3>1. ReportTicks + 1 \in 1 .. ReportTicks + 1 /\ -1 \in {-1}
      BY <2>2
    <3>2. reportIn' = reportIn \/ reportIn' = -1 \/ reportIn' = ReportTicks + 1
      BY Zenon
    <3>3. QED
      BY <2>2, <3>1, <3>2, Zenon
  <2>4. QED
    BY <1>1, <2>1, <2>3 DEF LogTyped
<1>3. ~ready["program"]
  BY DEF LogInv, RoomSeen, Log!Who
<1>4. RoomSeen' /\ LostAtMost'
  BY <1>1, <1>3 DEF LogInv, RoomSeen, LostAtMost, Log!Who
<1>6. AllAllowed'
  <2>1. \A t \in Log!Who : \A j \in 1 .. Len(todo'[t]) : Allowed(t, todo'[t][j])
    BY <1>1 DEF LogInv, AllAllowed, Log!Who
  <2>2. QED
    BY <2>1 DEF LogInv, AllAllowed, Allowed
<1>7. EndsNext'
  BY <1>1 DEF LogInv, EndsNext
<1>8. ReportsTakeTime'
  <2>1. Begun' = Begun
    BY <1>1 DEF Begun, Reports
  <2>2. Waited \in Nat /\ (Waited' = Waited \/ Waited' = 0)
    <3>1. ReportTicks \in Nat /\ (reportIn = -1 \/ reportIn \in 1 .. ReportTicks + 1)
      BY DEF LogInv, LogTyped, Log!LogPortAssumption
    <3>2. Waited \in Nat
      BY <3>1 DEF Waited
    <3>3. reportIn' = reportIn => Waited' = Waited
      BY DEF Waited
    <3>4. reportIn' = -1 \/ reportIn' = ReportTicks + 1 => Waited' = 0
      BY <3>1 DEF Waited
    <3>5. QED
      BY <3>2, <3>3, <3>4
  <2> DEFINE p == Begun * ReportTicks
  <2>3. p \in Int
    BY ReportsCounted, SMT DEF LogInv, LogTyped, Log!LogPortAssumption
  <2>4. /\ level = 2 => p + Waited <= ticks
        /\ ReportsTakeTime' <=> (level = 2 => p + Waited' <= ticks)
    BY <2>1 DEF LogInv, ReportsTakeTime
  <2> HIDE DEF p
  <2>5. ticks \in Int
    BY DEF LogInv, LogTyped
  <2>6. QED
    BY <2>2, <2>3, <2>4, <2>5
<1>9. QED
  BY <1>2, <1>4, <1>6, <1>7, <1>8 DEF LogInv

LEMMA LogBootStep ==
  ASSUME Log!LogPortAssumption, LogInv, Log!LogBoot PROVE LogInv'
<1> DEFINE s == Log!Message(Log!BootOn, "boot")
<1>1. s \in Seq(Item) /\ \A j \in 1 .. Len(s) : Allowed("program", s[j])
  <2>1. Log!BootOn \in BOOLEAN /\ (Log!BootOn => level # -1) /\ "program" \in Log!Who
    BY DEF Log!BootOn, Log!Who
  <2>2. QED
    BY <2>1, MessageSays
<1> HIDE DEF s
<1>2. /\ running = "program" /\ todo["program"] = <<>> /\ todo' = [todo EXCEPT !["program"] = s]
      /\ loading' = "driver"
      /\ UNCHANGED <<level, queued, shown, dropped, running, ready, writes, beats, ticks, reportIn>>
  BY DEF Log!LogBoot, Log!port, Log!clock, s
<1>3. QED
  BY <1>1, <1>2, ProgramLogs DEF LogInv, LogTyped

LEMMA DriverInitStep ==
  ASSUME Log!LogPortAssumption, LogInv, Log!DriverInit PROVE LogInv'
<1> DEFINE s == Log!Message(Log!StartupOn, "report")
<1>1. s \in Seq(Item) /\ \A j \in 1 .. Len(s) : Allowed("program", s[j])
  <2>1. /\ Log!StartupOn \in BOOLEAN /\ (Log!StartupOn => level # -1 /\ level >= 1)
        /\ "program" \in Log!Who
    BY DEF Log!StartupOn, Log!Who
  <2>2. QED
    BY <2>1, MessageSays
<1> HIDE DEF s
<1>2. /\ running = "program" /\ todo["program"] = <<>> /\ todo' = [todo EXCEPT !["program"] = s]
      /\ loading' = "main" /\ reportIn' \in {-1, ReportTicks + 1}
      /\ UNCHANGED <<level, queued, shown, dropped, running, ready, writes, beats, ticks>>
  BY DEF Log!DriverInit, Log!port, Log!NoAlarm, s
<1>3. QED
  BY <1>1, <1>2, ProgramLogs DEF LogInv, LogTyped

LEMMA WriteStep ==
  ASSUME Log!LogPortAssumption, LogInv,
         NEW s \in Log!SeqOf({"plain", "ctrl-d", "nul"}, MaxLen), Log!Write(s)
  PROVE  LogInv'
<1>1. s \in Seq({"plain", "ctrl-d", "nul"})
  BY DEF Log!SeqOf, Log!LogPortAssumption
<1>2. /\ Log!Echo(s) \in Seq(Item)
      /\ \A j \in 1 .. Len(Log!Echo(s)) : Allowed("program", Log!Echo(s)[j])
  BY <1>1, EchoSays DEF LogInv, LogTyped
<1>3. /\ running = "program" /\ todo["program"] = <<>>
      /\ todo' = [todo EXCEPT !["program"] = Log!Echo(s)]
      /\ writes' \in 0 .. MaxWrites
      /\ UNCHANGED <<level, loading, queued, shown, dropped, running, ready>>
      /\ UNCHANGED <<beats, ticks, reportIn>>
  BY DEF Log!Write, Log!port, Log!clock, LogInv, LogTyped, Log!LogPortAssumption
<1>4. QED
  BY <1>2, <1>3, ProgramLogs DEF LogInv, LogTyped

\* A character is written to the port only where there was room.
LEMMA LogTestStep ==
  ASSUME Log!LogPortAssumption, LogInv, Log!Test PROVE LogInv'
<1>1. /\ todo[running] # <<>> /\ queued < Depth /\ ready' = [ready EXCEPT ![running] = TRUE]
      /\ UNCHANGED <<level, loading, queued, shown, dropped, running, todo, writes, beats, ticks,
                     reportIn>>
  BY DEF Log!Test, Log!HasRoom, Log!port, Log!clock
<1>2. LogTyped'
  BY <1>1 DEF LogInv, LogTyped
<1>3. running \in Log!Who /\ ready \in [Log!Who -> BOOLEAN]
  BY DEF LogInv, LogTyped
<1>4. RoomSeen'
  <2>1. \A t \in Log!Who : ready'[t] => t = running \/ ready[t]
    BY <1>1, <1>3
  <2>2. QED
    BY <1>1, <2>1 DEF LogInv, RoomSeen, Log!Who
<1>5. LostAtMost'
  <2>1. CASE running = "program"
    BY <1>1, <1>3, <2>1 DEF LogInv, LogTyped, LostAtMost, Log!Who, Log!LogPortAssumption
  <2>2. CASE running = "handler"
    <3>1. ready'["program"] = ready["program"]
      BY <1>1, <1>3, <2>2 DEF Log!Who
    <3>2. QED
      BY <1>1, <3>1 DEF LogInv, LostAtMost
  <2>3. QED
    BY <1>3, <2>1, <2>2 DEF Log!Who
<1>6. AllAllowed' /\ EndsNext' /\ ReportsTakeTime'
  BY <1>1 DEF LogInv, AllAllowed, EndsNext, ReportsTakeTime, Allowed, Begun, Reports, Waited
<1>7. QED
  BY <1>2, <1>4, <1>5, <1>6 DEF LogInv

LEMMA DrainStep ==
  ASSUME Log!LogPortAssumption, LogInv, Log!Drain PROVE LogInv'
<1>1. /\ queued > 0 /\ queued' = queued - 1
      /\ UNCHANGED <<level, loading, shown, dropped, running, todo, ready, writes, beats, ticks,
                     reportIn>>
  BY DEF Log!Drain, Log!clock
<1>2. LogTyped' /\ RoomSeen' /\ LostAtMost'
  BY <1>1 DEF LogInv, LogTyped, RoomSeen, LostAtMost, Log!Who, Log!LogPortAssumption
<1>3. AllAllowed' /\ EndsNext' /\ ReportsTakeTime'
  BY <1>1 DEF LogInv, AllAllowed, EndsNext, ReportsTakeTime, Allowed, Begun, Reports, Waited
<1>4. QED
  BY <1>2, <1>3 DEF LogInv


\* What a handler has left after a character.
LEMMA HandlerLeft ==
  ASSUME NEW s \in HandlerTodo
  PROVE  /\ s \in Seq(Item)
         /\ s # <<>> =>
              /\ Tail(s) \in HandlerTodo
              /\ Head(s).ch # "return" =>
                   Tail(s) # <<>> /\ Head(Tail(s)) = [kind |-> Head(s).kind, ch |-> "return"]
              /\ Head(s).ch = "report" => s \in Reporting /\ Tail(s) \notin Reporting
              /\ Head(s).ch # "report" => (s \in Reporting <=> Tail(s) \in Reporting)
<1> DEFINE a == BeatText
           b == BeatEnd
           c == ReportText
           d == ReportEnd
<1>1. {a, b, c, d} \subseteq Item
  BY DEF Item, BeatText, BeatEnd, ReportText, ReportEnd
<1>2. /\ a.ch = "beat" /\ b = [kind |-> a.kind, ch |-> "return"] /\ b.ch = "return"
      /\ c.ch = "report" /\ d = [kind |-> c.kind, ch |-> "return"] /\ d.ch = "return"
  BY DEF BeatText, BeatEnd, ReportText, ReportEnd
<1>3. /\ Reporting = {<<a, b, c, d>>, <<b, c, d>>, <<c, d>>}
      /\ HandlerTodo = Reporting \cup {<<>>, <<d>>, <<a, b>>, <<b>>}
  BY DEF Reporting, HandlerTodo
<1> HIDE DEF a, b, c, d
<1>4. c # b /\ c # d /\ c # a
  BY <1>2
<1>5. {<<>>, <<d>>, <<b>>, <<a, b>>} \cap Reporting = {}
  BY <1>3, <1>4
<1>6. CASE s = <<a, b, c, d>>
  <2>1. Head(s) = a /\ Tail(s) = <<b, c, d>> /\ s \in Seq(Item) /\ Head(Tail(s)) = b
    BY <1>1, <1>6
  <2>2. QED
    BY <1>2, <1>3, <1>6, <2>1
<1>7. CASE s = <<b, c, d>>
  <2>1. Head(s) = b /\ Tail(s) = <<c, d>> /\ s \in Seq(Item)
    BY <1>1, <1>7
  <2>2. QED
    BY <1>2, <1>3, <1>7, <2>1
<1>8. CASE s = <<c, d>>
  <2>1. Head(s) = c /\ Tail(s) = <<d>> /\ s \in Seq(Item) /\ Head(Tail(s)) = d
    BY <1>1, <1>8
  <2>2. QED
    BY <1>2, <1>3, <1>5, <1>8, <2>1
<1>9. CASE s = <<d>>
  <2>1. Head(s) = d /\ Tail(s) = <<>> /\ s \in Seq(Item)
    BY <1>1, <1>9
  <2>2. QED
    BY <1>2, <1>3, <1>5, <1>9, <2>1
<1>10. CASE s = <<a, b>>
  <2>1. Head(s) = a /\ Tail(s) = <<b>> /\ s \in Seq(Item) /\ Head(Tail(s)) = b
    BY <1>1, <1>10
  <2>2. QED
    BY <1>2, <1>3, <1>5, <1>10, <2>1
<1>11. CASE s = <<b>>
  <2>1. Head(s) = b /\ Tail(s) = <<>> /\ s \in Seq(Item)
    BY <1>1, <1>11
  <2>2. QED
    BY <1>2, <1>3, <1>5, <1>11, <2>1
<1>12. CASE s = <<>>
  BY <1>12
<1>13. QED
  BY <1>3, <1>6, <1>7, <1>8, <1>9, <1>10, <1>11, <1>12

\* A handler interrupts the program, wherever that is, with what it has to log.
LEMMA HandlerEnters ==
  ASSUME Log!LogPortAssumption, LogInv, running = "program", ticks < LogTicks,
         NEW s \in HandlerTodo, \A j \in 1 .. Len(s) : Allowed("handler", s[j]),
         todo' = [todo EXCEPT !["handler"] = s], running' = "handler", ticks' = ticks + 1,
         beats' \in 0 .. Interval, reportIn' \in {-1} \cup 1 .. ReportTicks + 1,
         level = 2 => (IF s \in Reporting THEN ReportTicks ELSE 0) + Waited' <= Waited + 1,
         UNCHANGED <<level, loading, queued, shown, dropped, ready, writes>>
  PROVE  LogInv'
<1>1. s \in Seq(Item)
  BY HandlerLeft
<1>2. todo' \in [Log!Who -> Seq(Item)] /\ todo'["program"] = todo["program"] /\ todo'["handler"] = s
  BY <1>1 DEF LogInv, LogTyped, Log!Who
<1>3. LogTyped'
  BY <1>2 DEF LogInv, LogTyped, Log!LogPortAssumption, Log!Who
<1>4. todo["handler"] = <<>> /\ ~ready["handler"]
  BY DEF LogInv, RoomSeen, Log!Who
<1>5. RoomSeen' /\ LostAtMost'
  BY <1>2, <1>4 DEF LogInv, LogTyped, RoomSeen, LostAtMost, Log!Who
<1>6. AllAllowed'
  <2>1. \A t \in Log!Who : \A j \in 1 .. Len(todo'[t]) : Allowed(t, todo'[t][j])
    BY <1>2 DEF LogInv, AllAllowed, Log!Who
  <2>2. QED
    BY <2>1 DEF LogInv, AllAllowed, Allowed
<1>7. EndsNext'
  BY <1>4 DEF LogInv, EndsNext
<1>8. ReportsTakeTime'
  <2> DEFINE c == Cardinality(Reports)
             m == IF s \in Reporting THEN 1 ELSE 0
             p == c * ReportTicks
  <2>1. c \in Nat /\ ReportTicks \in Nat
    BY ReportsCounted DEF LogInv, LogTyped, Log!LogPortAssumption
  <2>2. Begun = c
    <3>1. <<>> \notin Reporting
      BY DEF Reporting
    <3>2. QED
      BY <1>4, <2>1, <3>1 DEF Begun
  <2>3. Begun' = c + m
    BY <1>2 DEF Begun, Reports
  <2> HIDE DEF c
  <2>4. (c + m) * ReportTicks = p + (IF s \in Reporting THEN ReportTicks ELSE 0) /\ p \in Nat
    <3>1. CASE s \in Reporting
      <4>1. (c + 1) * ReportTicks = (c * ReportTicks) + ReportTicks /\ c * ReportTicks \in Nat
        BY <2>1, SMT
      <4>2. QED
        BY <3>1, <4>1
    <3>2. CASE s \notin Reporting
      <4>1. (c + 0) * ReportTicks = c * ReportTicks /\ c * ReportTicks \in Nat
        BY <2>1, SMT
      <4>2. QED
        BY <3>2, <4>1
    <3>3. QED
      BY <3>1, <3>2
  <2>5. level = 2 => p + Waited <= ticks
    BY <2>2 DEF LogInv, ReportsTakeTime
  <2>6. ReportsTakeTime' <=>
          (level = 2 => (p + (IF s \in Reporting THEN ReportTicks ELSE 0)) + Waited' <= ticks + 1)
    BY <2>3, <2>4 DEF ReportsTakeTime
  <2> DEFINE k == IF s \in Reporting THEN ReportTicks ELSE 0
  <2>7. p \in Nat /\ k \in Nat /\ Waited \in Int /\ Waited' \in Int /\ ticks \in Int
    BY <2>1, <2>4 DEF LogInv, LogTyped, Waited
  <2>8. level = 2 => k + Waited' <= Waited + 1
    OBVIOUS
  <2> HIDE DEF p, k
  <2>9. level = 2 => (p + k) + Waited' <= ticks + 1
    <3>1. \A x \in Nat, y \in Nat, v \in Int, w \in Int, n \in Int :
             x + v <= n /\ y + w <= v + 1 => (x + y) + w <= n + 1
      BY SMT
    <3>2. QED
      BY <2>5, <2>7, <2>8, <3>1, Zenon
  <2>10. QED
    BY <2>6, <2>9 DEF k
<1>9. QED
  BY <1>3, <1>5, <1>6, <1>7, <1>8 DEF LogInv


\* Two sequences of two elements, in a row.
LEMMA TwoAndTwo ==
  ASSUME NEW a, NEW b, NEW c, NEW d
  PROVE  <<a, b>> \o <<c, d>> = <<a, b, c, d>>
<1> DEFINE S == {a, b, c, d}
           s == <<a, b>>
           t == <<c, d>>
<1>1. /\ s \in Seq(S) /\ Len(s) = 2 /\ s[1] = a /\ s[2] = b
      /\ t \in Seq(S) /\ Len(t) = 2 /\ t[1] = c /\ t[2] = d
      /\ <<a, b, c, d>> \in Seq(S) /\ Len(<<a, b, c, d>>) = 4
      /\ <<a, b, c, d>>[1] = a /\ <<a, b, c, d>>[2] = b
      /\ <<a, b, c, d>>[3] = c /\ <<a, b, c, d>>[4] = d
  OBVIOUS
<1> HIDE DEF s, t
<1>2. /\ s \o t \in Seq(S) /\ Len(s \o t) = 4
      /\ \A i \in 1 .. 4 : (s \o t)[i] = IF i <= 2 THEN s[i] ELSE t[i - 2]
  <2>1. /\ s \o t \in Seq(S) /\ Len(s \o t) = Len(s) + Len(t)
        /\ \A i \in 1 .. Len(s) + Len(t) : (s \o t)[i] = IF i <= Len(s) THEN s[i] ELSE t[i - Len(s)]
    <3> HIDE DEF S
    <3>1. s \in Seq(S) /\ t \in Seq(S)
      BY <1>1
    <3>2. QED
      BY <3>1, ConcatProperties, Zenon
  <2>2. Len(s) = 2 /\ Len(s) + Len(t) = 4
    BY <1>1
  <2>3. QED
    BY <2>1, <2>2
<1>3. \A i \in 1 .. 4 : (s \o t)[i] = <<a, b, c, d>>[i]
  BY <1>1, <1>2
<1>4. s \o t = <<a, b, c, d>>
  BY <1>1, <1>2, <1>3, SeqEqual
<1>5. QED
  BY <1>4 DEF s, t

LEMMA ClockTickStep ==
  ASSUME Log!LogPortAssumption, LogInv, Log!Tick PROVE LogInv'
<1> DEFINE beat == Log!Message(Log!BeatDue, "beat")
           report == Log!Message(Log!ReportDue /\ Log!AlarmOn, "report")
           s == beat \o report
<1>1. /\ running = "program" /\ ticks < LogTicks /\ running' = "handler" /\ ticks' = ticks + 1
      /\ todo' = [todo EXCEPT !["handler"] = s]
      /\ UNCHANGED <<level, loading, queued, shown, dropped, ready, writes>>
  BY DEF Log!Tick, Log!port
<1>2. beats' \in 0 .. Interval
  <2>1. Interval \in Nat /\ beats \in 0 .. Interval
    BY DEF Log!LogPortAssumption, LogInv, LogTyped
  <2>2. beats' = 0 \/ (beats' = beats + 1 /\ ~(beats + 1 > Interval))
    BY DEF Log!Tick, Log!BeatDue
  <2>3. QED
    BY <2>1, <2>2
<1>3. ReportTicks \in Nat /\ (reportIn = -1 \/ reportIn \in 1 .. ReportTicks + 1)
  BY DEF LogInv, LogTyped, Log!LogPortAssumption
<1>4. reportIn' \in {-1} \cup 1 .. ReportTicks + 1
  BY <1>3 DEF Log!Tick, Log!ReportDue, Log!ReportAgain, Log!NoAlarm
<1>5. beat = IF Log!BeatDue THEN <<BeatText, BeatEnd>> ELSE <<>>
  BY DEF Log!Message, BeatText, BeatEnd
<1>6. report = IF Log!ReportDue /\ Log!AlarmOn THEN <<ReportText, ReportEnd>> ELSE <<>>
  BY DEF Log!Message, ReportText, ReportEnd
<1>7. /\ Log!BeatDue => Allowed("handler", BeatText) /\ Allowed("handler", BeatEnd)
      /\ Log!AlarmOn => Allowed("handler", ReportText) /\ Allowed("handler", ReportEnd)
  BY DEF Allowed, BeatText, BeatEnd, ReportText, ReportEnd, Log!BeatDue, Log!ClockOn, Log!AlarmOn
<1>8. /\ s \in HandlerTodo /\ \A j \in 1 .. Len(s) : Allowed("handler", s[j])
      /\ s \in Reporting => Log!ReportDue
  <2> DEFINE a == BeatText
             b == BeatEnd
             c == ReportText
             d == ReportEnd
  <2>1. /\ Reporting = {<<a, b, c, d>>, <<b, c, d>>, <<c, d>>}
        /\ HandlerTodo = Reporting \cup {<<>>, <<d>>, <<a, b>>, <<b>>}
    BY DEF Reporting, HandlerTodo
  <2>2. c # a
    BY DEF BeatText, ReportText
  <2> HIDE DEF a, b, c, d
  <2>3. CASE Log!BeatDue /\ Log!ReportDue /\ Log!AlarmOn
    <3>1. s = <<a, b, c, d>>
      <4>1. beat = <<a, b>> /\ report = <<c, d>>
        BY <1>5, <1>6, <2>3 DEF a, b, c, d
      <4>2. <<a, b>> \o <<c, d>> = <<a, b, c, d>>
        BY TwoAndTwo
      <4> HIDE DEF beat, report
      <4>3. QED
        BY <4>1, <4>2
    <3>2. Len(<<a, b, c, d>>) = 4 /\ \A j \in 1 .. 4 : <<a, b, c, d>>[j] \in {a, b, c, d}
      OBVIOUS
    <3> HIDE DEF s
    <3>3. QED
      BY <1>7, <2>1, <2>3, <3>1, <3>2 DEF a, b, c, d
  <2>4. CASE Log!BeatDue /\ ~(Log!ReportDue /\ Log!AlarmOn)
    <3>1. s = <<a, b>>
      <4>1. beat = <<a, b>> /\ report = <<>>
        BY <1>5, <1>6, <2>4 DEF a, b, c, d
      <4>2. <<a, b>> \o <<>> = <<a, b>>
        OBVIOUS
      <4> HIDE DEF beat, report
      <4>3. QED
        BY <4>1, <4>2
    <3>2. Len(<<a, b>>) = 2 /\ \A j \in 1 .. 2 : <<a, b>>[j] \in {a, b}
      OBVIOUS
    <3>3. <<a, b>> \notin Reporting
      BY <2>1, <2>2
    <3> HIDE DEF s
    <3>4. QED
      BY <1>7, <2>1, <2>4, <3>1, <3>2, <3>3 DEF a, b
  <2>5. CASE ~Log!BeatDue /\ Log!ReportDue /\ Log!AlarmOn
    <3>1. s = <<c, d>>
      <4>1. beat = <<>> /\ report = <<c, d>>
        BY <1>5, <1>6, <2>5 DEF a, b, c, d
      <4>2. <<>> \o <<c, d>> = <<c, d>>
        OBVIOUS
      <4> HIDE DEF beat, report
      <4>3. QED
        BY <4>1, <4>2
    <3>2. Len(<<c, d>>) = 2 /\ \A j \in 1 .. 2 : <<c, d>>[j] \in {c, d}
      OBVIOUS
    <3> HIDE DEF s
    <3>3. QED
      BY <1>7, <2>1, <2>5, <3>1, <3>2 DEF c, d
  <2>6. CASE ~Log!BeatDue /\ ~(Log!ReportDue /\ Log!AlarmOn)
    <3>1. s = <<>>
      BY <1>5, <1>6, <2>6
    <3>2. <<>> \notin Reporting
      BY <2>1
    <3> HIDE DEF s
    <3>3. QED
      BY <2>1, <3>1, <3>2
  <2>7. QED
    BY <2>3, <2>4, <2>5, <2>6, Zenon
<1> HIDE DEF s
<1>9. (IF s \in Reporting THEN ReportTicks ELSE 0) + Waited' <= Waited + 1
  <2>1. CASE reportIn = -1
    <3>1. reportIn' = -1 /\ ~Log!ReportDue
      BY <2>1 DEF Log!Tick, Log!NoAlarm, Log!ReportDue
    <3>2. QED
      BY <1>8, <2>1, <3>1 DEF Waited
  <2>2. CASE reportIn = 1
    <3>1. reportIn' = IF ReportTicks = 0 THEN -1 ELSE ReportTicks
      BY <2>2 DEF Log!Tick, Log!NoAlarm, Log!ReportDue, Log!ReportAgain
    <3>2. Waited = ReportTicks /\ Waited \in Int
      BY <1>3, <2>2 DEF Waited
    <3>3. Waited' <= 1 /\ Waited' \in Int
      BY <1>3, <3>1 DEF Waited
    <3> DEFINE k == IF s \in Reporting THEN ReportTicks ELSE 0
    <3>4. k \in Int /\ k <= ReportTicks
      BY <1>3
    <3> HIDE DEF k
    <3>5. k + Waited' <= Waited + 1
      <4>1. \A x \in Int, v \in Int, w \in Int : x <= w /\ v <= 1 => x + v <= w + 1
        BY SMT
      <4>2. QED
        BY <3>2, <3>3, <3>4, <4>1, Zenon
    <3>6. QED
      BY <3>5 DEF k
  <2>3. CASE reportIn \notin {-1, 1}
    <3>1. reportIn' = reportIn - 1 /\ ~Log!ReportDue
      BY <2>3 DEF Log!Tick, Log!NoAlarm, Log!ReportDue
    <3>2. QED
      BY <1>3, <1>8, <2>3, <3>1 DEF Waited
  <2>4. QED
    BY <2>1, <2>2, <2>3
<1>10. QED
  BY <1>1, <1>2, <1>4, <1>8, <1>9, HandlerEnters

LEMMA UartInterruptStep ==
  ASSUME Log!LogPortAssumption, LogInv, Log!UartInterrupt PROVE LogInv'
<1> DEFINE s == Log!Message(Log!IsrOn, "report")
<1>1. /\ running = "program" /\ ticks < LogTicks /\ running' = "handler" /\ ticks' = ticks + 1
      /\ todo' = [todo EXCEPT !["handler"] = s]
      /\ UNCHANGED <<level, loading, queued, shown, dropped, ready, writes, beats, reportIn>>
  BY DEF Log!UartInterrupt, Log!port
<1>2. \A j \in 1 .. Len(s) : Allowed("handler", s[j])
  <2>1. Log!IsrOn \in BOOLEAN /\ (Log!IsrOn => level = 3) /\ "handler" \in Log!Who
    BY DEF Log!IsrOn, Log!Who
  <2>2. QED
    BY <2>1, MessageSays
<1>3. s = IF Log!IsrOn THEN <<ReportText, ReportEnd>> ELSE <<>>
  BY DEF Log!Message, ReportText, ReportEnd
<1>4. s \in HandlerTodo /\ (level = 2 => s \notin Reporting)
  BY <1>3 DEF HandlerTodo, Reporting, Log!IsrOn
<1>5. /\ beats \in 0 .. Interval /\ reportIn \in {-1} \cup 1 .. ReportTicks + 1
      /\ Waited' = Waited /\ Waited \in Int
  BY <1>1 DEF LogInv, LogTyped, Waited, Log!LogPortAssumption
<1> HIDE DEF s
<1>6. level = 2 => (IF s \in Reporting THEN ReportTicks ELSE 0) + Waited' <= Waited + 1
  BY <1>4, <1>5
<1>7. QED
  BY <1>1, <1>2, <1>4, <1>5, <1>6, HandlerEnters

LEMMA ResumeStep ==
  ASSUME Log!LogPortAssumption, LogInv, Log!Resume PROVE LogInv'
<1>1. /\ running = "handler" /\ todo["handler"] = <<>> /\ running' = "program"
      /\ UNCHANGED <<level, loading, queued, shown, dropped, todo, ready, writes, beats, ticks,
                     reportIn>>
  BY DEF Log!Resume, Log!port, Log!clock
<1>2. LogTyped' /\ RoomSeen' /\ LostAtMost'
  BY <1>1 DEF LogInv, LogTyped, RoomSeen, LostAtMost, Log!Who
<1>3. AllAllowed' /\ EndsNext' /\ ReportsTakeTime'
  BY <1>1 DEF LogInv, AllAllowed, EndsNext, ReportsTakeTime, Allowed, Begun, Reports, Waited
<1>4. QED
  BY <1>2, <1>3 DEF LogInv


\* The program's character is sent, or lost to a handler that took its room.
LEMMA ProgramPuts ==
  ASSUME Log!LogPortAssumption, LogInv, Log!Put, running = "program" PROVE LogInv'
<1> DEFINE s == todo["program"]
           said == [by |-> "program", says |-> Head(s)]
<1>1. /\ ready["program"] /\ ready' = [ready EXCEPT !["program"] = FALSE]
      /\ todo' = [todo EXCEPT !["program"] = Tail(s)]
      /\ \/ /\ queued < Depth /\ queued' = queued + 1
            /\ shown' = Append(shown, said) /\ dropped' = dropped
         \/ /\ ~(queued < Depth) /\ queued' = queued /\ shown' = shown
            /\ dropped' = [dropped EXCEPT !["program"] = @ + 1]
      /\ UNCHANGED <<level, loading, running, writes, beats, ticks, reportIn>>
  BY DEF Log!Put, Log!clock, LogInv, LogTyped
<1>2. s \in Seq(Item) /\ s # <<>> /\ todo["handler"] = <<>> /\ ~ready["handler"]
  BY <1>1 DEF LogInv, LogTyped, RoomSeen, Log!Who
<1>3. Head(s) \in Item /\ Tail(s) \in Seq(Item) /\ Len(Tail(s)) = Len(s) - 1
      /\ Head(s) = s[1] /\ (\A j \in 1 .. Len(s) - 1 : Tail(s)[j] = s[j + 1])
      /\ Len(s) \in Nat \ {0}
  BY <1>2
<1>4. said \in Said /\ said.by = "program" /\ said.says = Head(s)
  BY <1>3 DEF Said, Log!Who
<1>5. todo' \in [Log!Who -> Seq(Item)] /\ todo'["handler"] = <<>> /\ todo'["program"] = Tail(s)
  BY <1>1, <1>2, <1>3 DEF LogInv, LogTyped, Log!Who
<1>6. shown \in Seq(Said) /\ Len(shown) \in Nat
  BY DEF LogInv, LogTyped
<1> HIDE DEF said
<1>7. /\ shown' \in Seq(Said) /\ Len(shown') \in {Len(shown), Len(shown) + 1}
      /\ \A i \in 1 .. Len(shown) : shown'[i] = shown[i]
      /\ Len(shown') = Len(shown) + 1 => shown'[Len(shown) + 1] = said
  <2>1. CASE shown' = Append(shown, said)
    BY <1>4, <1>6, <2>1, AppendProperties
  <2>2. CASE shown' = shown
    BY <1>6, <2>2
  <2>3. QED
    BY <1>1, <2>1, <2>2
<1>8. LogTyped'
  <2>1. /\ queued' \in 0 .. Depth /\ dropped' \in [Log!Who -> Nat]
        /\ ready' \in [Log!Who -> BOOLEAN]
    <3>1. /\ queued \in 0 .. Depth /\ dropped \in [Log!Who -> Nat] /\ Depth \in Nat
          /\ ready \in [Log!Who -> BOOLEAN]
      BY DEF LogInv, LogTyped, Log!LogPortAssumption
    <3>2. queued' \in 0 .. Depth
      BY <1>1, <3>1
    <3>3. dropped' \in [Log!Who -> Nat]
      BY <1>1, <3>1
    <3>4. ready' \in [Log!Who -> BOOLEAN]
      BY <1>1, <3>1
    <3>5. QED
      BY <3>2, <3>3, <3>4
  <2>2. QED
    BY <1>1, <1>5, <1>7, <2>1 DEF LogInv, LogTyped, HandlerTodo
<1>9. RoomSeen'
  BY <1>1, <1>2, <1>5 DEF LogInv, LogTyped, RoomSeen, Log!Who
<1>10. LostAtMost'
  BY <1>1 DEF LogInv, LogTyped, LostAtMost, Log!Who, Log!LogPortAssumption
<1>11. AllAllowed'
  <2>1. \A j \in 1 .. Len(s) : Allowed("program", s[j])
    BY DEF LogInv, AllAllowed, Log!Who
  <2>2. \A j \in 1 .. Len(Tail(s)) : Allowed("program", Tail(s)[j])
    BY <1>3, <2>1
  <2>3. \A t \in Log!Who : \A j \in 1 .. Len(todo'[t]) : Allowed(t, todo'[t][j])
    <3>1. ASSUME NEW t \in Log!Who PROVE \A j \in 1 .. Len(todo'[t]) : Allowed(t, todo'[t][j])
      <4>1. CASE t = "program"
        BY <1>5, <2>2, <4>1
      <4>2. CASE t = "handler"
        BY <1>5, <4>2
      <4>3. QED
        BY <4>1, <4>2 DEF Log!Who
    <3>2. QED
      BY <3>1
  <2>4. Allowed(said.by, said.says)
    BY <1>3, <1>4, <2>1
  <2>5. ASSUME NEW i \in 1 .. Len(shown') PROVE Allowed(shown'[i].by, shown'[i].says)
    <3>1. i \in 1 .. Len(shown) \/ shown'[i] = said
      BY <1>6, <1>7
    <3>2. QED
      BY <1>7, <2>4, <3>1 DEF LogInv, AllAllowed
  <2>6. level' = level
    BY <1>1
  <2>7. QED
    BY <2>3, <2>5, <2>6 DEF AllAllowed, Allowed
<1>12. \A i \in 1 .. Len(shown') : shown'[i].by = "handler" => i \in 1 .. Len(shown)
  BY <1>4, <1>6, <1>7
<1>13. EndsNext'
  BY <1>2, <1>6, <1>7, <1>12 DEF LogInv, EndsNext
<1>14. ReportsTakeTime'
  <2>1. Reports' = Reports
    BY <1>6, <1>7, <1>12 DEF Reports
  <2>2. Begun' = Begun
    BY <1>2, <1>5, <2>1 DEF Begun
  <2>3. QED
    BY <1>1, <2>2 DEF LogInv, ReportsTakeTime, Waited
<1>15. QED
  BY <1>8, <1>9, <1>10, <1>11, <1>13, <1>14 DEF LogInv

\* A handler's character is always sent.
LEMMA HandlerPuts ==
  ASSUME Log!LogPortAssumption, LogInv, Log!Put, running = "handler" PROVE LogInv'
<1> DEFINE s == todo["handler"]
           said == [by |-> "handler", says |-> Head(s)]
<1>1. queued < Depth /\ ready["handler"]
  BY DEF Log!Put, LogInv, RoomSeen
<1>2. /\ ready' = [ready EXCEPT !["handler"] = FALSE]
      /\ todo' = [todo EXCEPT !["handler"] = Tail(s)]
      /\ queued' = queued + 1 /\ shown' = Append(shown, said)
      /\ UNCHANGED <<level, loading, running, dropped, writes, beats, ticks, reportIn>>
  BY <1>1 DEF Log!Put, Log!clock, LogInv, LogTyped
<1>3. s \in HandlerTodo /\ s # <<>>
  BY <1>1 DEF LogInv, LogTyped, RoomSeen, Log!Who
<1>4. /\ s \in Seq(Item) /\ Tail(s) \in HandlerTodo
      /\ Head(s).ch # "return" =>
           Tail(s) # <<>> /\ Head(Tail(s)) = [kind |-> Head(s).kind, ch |-> "return"]
      /\ Head(s).ch = "report" => s \in Reporting /\ Tail(s) \notin Reporting
      /\ Head(s).ch # "report" => (s \in Reporting <=> Tail(s) \in Reporting)
  BY <1>3, HandlerLeft
<1>5. Head(s) \in Item /\ Tail(s) \in Seq(Item) /\ Len(Tail(s)) = Len(s) - 1
      /\ Head(s) = s[1] /\ (\A j \in 1 .. Len(s) - 1 : Tail(s)[j] = s[j + 1])
      /\ Len(s) \in Nat \ {0}
  BY <1>3, <1>4
<1>6. said \in Said /\ said.by = "handler" /\ said.says = Head(s)
  BY <1>5 DEF Said, Log!Who
<1>7. /\ todo' \in [Log!Who -> Seq(Item)] /\ todo'["handler"] = Tail(s)
      /\ todo'["program"] = todo["program"]
  BY <1>2, <1>5 DEF LogInv, LogTyped, Log!Who
<1>8. shown \in Seq(Said) /\ Len(shown) \in Nat
  BY DEF LogInv, LogTyped
<1> HIDE DEF said
<1>9. /\ shown' \in Seq(Said) /\ Len(shown') = Len(shown) + 1
      /\ \A i \in 1 .. Len(shown) : shown'[i] = shown[i]
      /\ shown'[Len(shown) + 1] = said
  BY <1>2, <1>6, <1>8, AppendProperties
<1>10. LogTyped'
  <2>1. queued' \in 0 .. Depth /\ ready' \in [Log!Who -> BOOLEAN]
    BY <1>1, <1>2 DEF LogInv, LogTyped, Log!LogPortAssumption, Log!Who
  <2>2. QED
    BY <1>2, <1>4, <1>7, <1>9, <2>1 DEF LogInv, LogTyped
<1>11. RoomSeen'
  BY <1>2, <1>7 DEF LogInv, LogTyped, RoomSeen, Log!Who
<1>12. LostAtMost'
  BY <1>1, <1>2 DEF LogInv, LogTyped, LostAtMost, Log!Who, Log!LogPortAssumption
<1>13. AllAllowed'
  <2>1. \A j \in 1 .. Len(s) : Allowed("handler", s[j])
    BY DEF LogInv, AllAllowed, Log!Who
  <2>2. \A j \in 1 .. Len(Tail(s)) : Allowed("handler", Tail(s)[j])
    BY <1>5, <2>1
  <2>3. \A t \in Log!Who : \A j \in 1 .. Len(todo'[t]) : Allowed(t, todo'[t][j])
    BY <1>7, <2>2 DEF Log!Who, LogInv, AllAllowed
  <2>4. Allowed(said.by, said.says)
    BY <1>5, <1>6, <2>1
  <2>5. ASSUME NEW i \in 1 .. Len(shown') PROVE Allowed(shown'[i].by, shown'[i].says)
    <3>1. i \in 1 .. Len(shown) \/ shown'[i] = said
      BY <1>8, <1>9
    <3>2. QED
      BY <1>9, <2>4, <3>1 DEF LogInv, AllAllowed
  <2>6. level' = level
    BY <1>2
  <2>7. QED
    BY <2>3, <2>5, <2>6 DEF AllAllowed, Allowed
<1>14. EndsNext'
  <2> DEFINE e(x) == [kind |-> x.says.kind, ch |-> "return"]
  <2>1. SUFFICES ASSUME NEW i \in 1 .. Len(shown'),
                        shown'[i].by = "handler", shown'[i].says.ch # "return"
                 PROVE  \/ /\ i < Len(shown') /\ shown'[i + 1].by = "handler"
                           /\ shown'[i + 1].says = e(shown'[i])
                        \/ /\ i = Len(shown') /\ todo'["handler"] # <<>>
                           /\ Head(todo'["handler"]) = e(shown'[i])
    BY DEF EndsNext
  <2>2. CASE i = Len(shown) + 1
    <3>1. shown'[i] = said /\ i = Len(shown')
      BY <1>9, <2>2
    <3>2. Head(s).ch # "return" /\ e(shown'[i]) = [kind |-> Head(s).kind, ch |-> "return"]
      BY <1>6, <2>1, <3>1
    <3>3. todo'["handler"] # <<>> /\ Head(todo'["handler"]) = e(shown'[i])
      BY <1>4, <1>7, <3>2
    <3>4. QED
      BY <3>1, <3>3
  <2>3. CASE i \in 1 .. Len(shown)
    <3>1. \/ /\ i < Len(shown) /\ shown[i + 1].by = "handler"
             /\ shown[i + 1].says = e(shown[i])
          \/ i = Len(shown) /\ Head(s) = e(shown[i])
      BY <1>9, <2>1, <2>3 DEF LogInv, EndsNext
    <3>2. shown'[i] = shown[i] /\ Len(shown') = Len(shown) + 1 /\ i < Len(shown')
      BY <1>8, <1>9, <2>3
    <3> HIDE DEF e
    <3>3. CASE i < Len(shown)
      <4>1. i + 1 \in 1 .. Len(shown)
        BY <1>8, <2>3, <3>3
      <4>2. shown'[i + 1] = shown[i + 1]
        BY <1>9, <4>1
      <4>3. QED
        BY <1>8, <2>3, <3>1, <3>2, <3>3, <4>2
    <3>4. CASE i = Len(shown)
      <4>1. shown'[i + 1] = said
        BY <1>9, <3>4
      <4>2. QED
        BY <1>6, <1>8, <3>1, <3>2, <3>4, <4>1
    <3>5. QED
      BY <2>3, <1>8, <3>3, <3>4
  <2>4. QED
    BY <1>8, <1>9, <2>2, <2>3
<1>15. ReportsTakeTime'
  <2>1. Reports' = Reports \cup (IF Head(s).ch = "report" THEN {Len(shown) + 1} ELSE {})
    BY <1>6, <1>8, <1>9 DEF Reports
  <2>2. IsFiniteSet(Reports) /\ Cardinality(Reports) \in Nat /\ Len(shown) + 1 \notin Reports
    BY <1>8, ReportsCounted DEF Reports
  <2>3. Begun' = Begun
    <3>1. CASE Head(s).ch = "report"
      <4>1. Cardinality(Reports') = Cardinality(Reports) + 1
        BY <2>1, <2>2, <3>1, FS_AddElement
      <4>2. QED
        BY <1>4, <1>7, <2>2, <3>1, <4>1 DEF Begun
    <3>2. CASE Head(s).ch # "report"
      <4>1. Reports' = Reports
        BY <2>1, <3>2
      <4>2. QED
        BY <1>4, <1>7, <3>2, <4>1 DEF Begun
    <3>3. QED
      BY <3>1, <3>2
  <2>4. QED
    BY <1>2, <2>3 DEF LogInv, ReportsTakeTime, Waited
<1>16. QED
  BY <1>10, <1>11, <1>12, <1>13, <1>14, <1>15 DEF LogInv

LEMMA LogStep ==
  ASSUME Log!LogPortAssumption
  PROVE  LogInv /\ [Log!Next]_(Log!vars) => LogInv'
<1> SUFFICES ASSUME LogInv, [Log!Next]_(Log!vars) PROVE LogInv'
  OBVIOUS
<1>1. ASSUME Log!Put PROVE LogInv'
  <2>1. running \in {"program", "handler"}
    BY DEF LogInv, LogTyped, Log!Who
  <2>2. QED
    BY <1>1, <2>1, ProgramPuts, HandlerPuts
<1>2. CASE UNCHANGED Log!vars
  <2>1. UNCHANGED <<level, loading, queued, shown, dropped, running, todo, ready, writes, beats,
                    ticks, reportIn>>
    BY <1>2 DEF Log!vars
  <2>2. LogTyped' /\ RoomSeen' /\ LostAtMost'
    BY <2>1 DEF LogInv, LogTyped, RoomSeen, LostAtMost
  <2>3. AllAllowed' /\ EndsNext' /\ ReportsTakeTime'
    BY <2>1 DEF LogInv, AllAllowed, EndsNext, ReportsTakeTime, Allowed, Begun, Reports, Waited
  <2>4. QED
    BY <2>2, <2>3 DEF LogInv
<1>3. QED
  BY <1>1, <1>2, LogBootStep, DriverInitStep, WriteStep, LogTestStep, DrainStep, ClockTickStep,
     UartInterruptStep, ResumeStep DEF Log!Next

\* A handler's messages arrive whole, the program loses at most a character
\* for each interrupt, no Ctrl-D is sent, and who is heard of what is as the
\* level says, for any sizes of the port, the messages and the intervals.
THEOREM LogIsWhole ==
  ASSUME Log!LogPortAssumption
  PROVE  Log!Spec => [](/\ Log!TypeOK /\ Log!NoCtrlD /\ Log!HandlerWhole
                        /\ Log!LostPerTick /\ Log!ByLevel)
<1>1. LogInv => Log!TypeOK
  BY DEF LogInv, LogTyped, RoomSeen, Log!TypeOK, Log!NoAlarm
<1>2. LogInv => Log!NoCtrlD /\ Log!LostPerTick
  BY DEF LogInv, LogTyped, AllAllowed, Allowed, LostAtMost, Log!NoCtrlD, Log!LostPerTick
<1>3. LogInv => Log!HandlerWhole
  BY DEF LogInv, LogTyped, LostAtMost, EndsNext, Log!HandlerWhole
<1>4. LogInv => Log!ByLevel
  <2>1. SUFFICES ASSUME LogInv PROVE Log!ByLevel
    OBVIOUS
  <2>2. shown \in Seq(Said) /\ DOMAIN shown = 1 .. Len(shown)
    BY <2>1 DEF LogInv, LogTyped
  <2>3. level = -1 => shown = <<>>
    <3>1. level = -1 => ~(1 \in 1 .. Len(shown))
      BY <2>1 DEF LogInv, AllAllowed, Allowed
    <3>2. QED
      BY <2>2, <3>1
  <2>4. \A i \in DOMAIN shown :
          /\ shown[i].says.kind \in {"beat", "report"} => level >= 1
          /\ shown[i].says.kind = "echo" => level >= 2
          /\ shown[i].says.kind = "report" /\ shown[i].by = "handler" => level >= 2
    BY <2>1, <2>2 DEF LogInv, AllAllowed, Allowed
  <2>5. Reports = {i \in DOMAIN shown : shown[i].by = "handler" /\ shown[i].says.ch = "report"}
    BY <2>2 DEF Reports
  <2>6. level = 2 => Cardinality(Reports) * ReportTicks <= ticks
    <3> DEFINE c == Cardinality(Reports)
    <3>1. c \in Nat /\ Begun \in {c, c + 1} /\ ReportTicks \in Nat
      BY <2>2, ReportsCounted DEF Begun, Log!LogPortAssumption
    <3> HIDE DEF c
    <3>2. /\ Begun * ReportTicks >= c * ReportTicks
          /\ c * ReportTicks \in Nat /\ Begun * ReportTicks \in Nat
      <4>1. (c + 1) * ReportTicks = (c * ReportTicks) + ReportTicks
        BY <3>1, SMT
      <4>2. c * ReportTicks \in Nat
        BY <3>1, SMT
      <4>3. QED
        BY <3>1, <4>1, <4>2
    <3>3. Waited \in Nat /\ ticks \in Nat
      BY <2>1, <3>1 DEF LogInv, LogTyped, Waited
    <3>4. level = 2 => (Begun * ReportTicks) + Waited <= ticks
      BY <2>1 DEF LogInv, ReportsTakeTime
    <3>5. \A x \in Nat, y \in Nat, w \in Nat, n \in Nat : x >= y /\ x + w <= n => y <= n
      BY SMT
    <3>6. QED
      BY <3>2, <3>3, <3>4, <3>5, Zenon DEF c
  <2>7. Log!Cardinality(Reports) = Cardinality(Reports)
    BY Zenon DEF Log!Cardinality, Cardinality
  <2>8. QED
    BY <2>3, <2>4, <2>5, <2>6, <2>7 DEF Log!ByLevel
<1>5. QED
  BY <1>1, <1>2, <1>3, <1>4, LogStarts, LogStep, PTL DEF Log!Spec

-----------------------------------------------------------------------------
\* MCTicks.tla: the parts as the run composes them.
LEMMA TicksAssumed ==
  /\ Irqs!InterruptAssumption /\ (ExtraInfo \/ ~Retracts) /\ ~CallsInIsr
  /\ Start!BootAssumption /\ Clock!TimeAssumption /\ WholeTicks
  /\ Stamp!TimestampAssumption /\ Sleep!SleepAssumption
  /\ Timers!AlarmAssumption /\ BelowWrap /\ Careful /\ Log!LogPortAssumption
  /\ Calls!ProfileAssumption /\ TextBytes % BucketBytes = 0
  BY TicksAssumption, OthersAssumption DEF TicksAssumption, OthersAssumption

\* A step of the composition is a step of each of these parts or leaves it alone.
Stutters ==
  /\ [Irqs!Next]_(Irqs!vars) /\ [Start!Next]_(Start!vars) /\ [Clock!Next]_(Clock!vars)
  /\ [Stamp!Next]_(Stamp!vars) /\ [Sleep!Next]_(Sleep!vars)
  /\ [Timers!Next]_(Timers!vars) /\ [Log!Next]_(Log!vars) /\ [Calls!Next]_(Calls!vars)

\* What Keeps leaves alone is a part's state.
LEMMA KeepsParts ==
  /\ Keeps("interrupts") => UNCHANGED Irqs!vars
  /\ Keeps("boot") => UNCHANGED Start!vars
  /\ Keeps("clock") => UNCHANGED Clock!vars
  /\ Keeps("timestamp") => UNCHANGED Stamp!vars
  /\ Keeps("sleep") => UNCHANGED Sleep!vars
  /\ Keeps("alarms") => UNCHANGED Timers!vars
  /\ Keeps("log") => UNCHANGED Log!vars
  /\ Keeps("profile") => UNCHANGED Calls!vars
<1>1. Keeps("interrupts") => UNCHANGED irqVars
  BY DEF Keeps
<1>2. Keeps("boot") => UNCHANGED bootVars
  BY DEF Keeps
<1>3. Keeps("clock") => UNCHANGED clockVars
  BY DEF Keeps
<1>4. Keeps("timestamp") => UNCHANGED stampVars
  BY DEF Keeps
<1>5. Keeps("sleep") => UNCHANGED sleepVars
  BY DEF Keeps
<1>6. Keeps("alarms") => UNCHANGED timerVars
  BY DEF Keeps
<1>7. Keeps("log") => UNCHANGED logVars
  BY DEF Keeps
<1>8. Keeps("profile") => UNCHANGED Calls!vars
  BY DEF Keeps, profileVars, Calls!vars
<1>9. QED
  BY <1>1, <1>2, <1>3, <1>4, <1>5, <1>6, <1>7, <1>8
     DEF Irqs!vars, irqVars, Clock!vars, clockVars, Stamp!vars, stampVars, Sleep!vars, sleepVars,
         Start!vars, bootVars, Start!Interrupting, Start!Host, Start!End,
         Timers!vars, timerVars, Log!vars, logVars

LEMMA StuttersHold == ASSUME [MCNext]_MCVars PROVE Stutters
<1>1. ASSUME NEW p \in Parts, \A q \in Parts \ {p} : Keeps(q),
             p = "interrupts" => Irqs!Next, p = "boot" => Start!Next,
             p = "clock" => Clock!Next, p = "timestamp" => Stamp!Next,
             p = "sleep" => Sleep!Next, p = "alarms" => Timers!Next,
             p = "log" => Log!Next, p = "profile" => Calls!Next
      PROVE  Stutters
  <2>1. \A q \in {"interrupts", "boot", "clock", "timestamp", "sleep", "alarms", "log",
                "profile"} :
           p = q \/ Keeps(q)
    BY <1>1 DEF Parts
  <2>2. [Irqs!Next]_(Irqs!vars) /\ [Start!Next]_(Start!vars) /\ [Clock!Next]_(Clock!vars)
    BY <1>1, <2>1, KeepsParts
  <2>3. [Stamp!Next]_(Stamp!vars) /\ [Sleep!Next]_(Sleep!vars)
    BY <1>1, <2>1, KeepsParts
  <2>4. [Timers!Next]_(Timers!vars) /\ [Log!Next]_(Log!vars)
    BY <1>1, <2>1, KeepsParts
  <2>5. [Calls!Next]_(Calls!vars)
    BY <1>1, <2>1, KeepsParts
  <2>6. QED
    BY <2>2, <2>3, <2>4, <2>5 DEF Stutters
<1>2. ASSUME By("interrupts", Irqs!Next) PROVE Stutters
  BY <1>1, <1>2 DEF By, Parts
<1>3. ASSUME By("boot", Start!Next) PROVE Stutters
  BY <1>1, <1>3 DEF By, Parts
<1>4. ASSUME By("alarms", Timers!Next) PROVE Stutters
  BY <1>1, <1>4 DEF By, Parts
<1>5. ASSUME By("clock", Clock!Next) PROVE Stutters
  BY <1>1, <1>5 DEF By, Parts
<1>6. ASSUME By("timestamp", Stamp!Next) PROVE Stutters
  BY <1>1, <1>6 DEF By, Parts
<1>7. ASSUME By("profile", Calls!Next /\ InCallGraph) PROVE Stutters
  BY <1>1, <1>7 DEF By, Parts
<1>8. ASSUME By("log", Log!Next) PROVE Stutters
  BY <1>1, <1>8 DEF By, Parts
<1>9. ASSUME By("sleep", Sleep!Next) PROVE Stutters
  BY <1>1, <1>9 DEF By, Parts
<1>10. ASSUME UNCHANGED MCVars PROVE Stutters
  <2>1. UNCHANGED <<irqVars, bootVars, clockVars, stampVars, sleepVars, timerVars, logVars>>
    BY <1>10 DEF MCVars
  <2>2. UNCHANGED Calls!vars
    BY <1>10 DEF MCVars, profileVars, Calls!vars
  <2>3. QED
    BY <2>1, <2>2 DEF Stutters, Irqs!vars, irqVars, Clock!vars, clockVars, Stamp!vars, stampVars,
                Sleep!vars, sleepVars, Start!vars, bootVars, Start!Interrupting, Start!Host,
                Start!End, Timers!vars, timerVars, Log!vars, logVars
<1>11. QED
  BY <1>2, <1>3, <1>4, <1>5, <1>6, <1>7, <1>8, <1>9, <1>10 DEF MCNext

\* Each part behaves in the composition as its own specification says.
LEMMA PartsBehave ==
  MCSpec => /\ Irqs!Spec /\ Start!Spec /\ Clock!Spec /\ Stamp!Spec /\ Sleep!Spec /\ Log!Spec
            /\ Calls!Spec /\ Timers!Init /\ [][Timers!Next]_(Timers!vars)
<1>1. MCInit => /\ Irqs!Init /\ Start!Init /\ Clock!Init /\ Stamp!Init /\ Sleep!Init
                /\ Log!Init /\ Calls!Init /\ Timers!Init
  BY DEF MCInit
<1>2. [MCNext]_MCVars => [Irqs!Next]_(Irqs!vars) /\ [Start!Next]_(Start!vars)
  BY StuttersHold DEF Stutters
<1>3. [MCNext]_MCVars => [Clock!Next]_(Clock!vars) /\ [Stamp!Next]_(Stamp!vars)
  BY StuttersHold DEF Stutters
<1>4. [MCNext]_MCVars => [Sleep!Next]_(Sleep!vars) /\ [Log!Next]_(Log!vars)
  BY StuttersHold DEF Stutters
<1>5. [MCNext]_MCVars => [Timers!Next]_(Timers!vars)
  BY StuttersHold DEF Stutters
<1>6. [MCNext]_MCVars => [Calls!Next]_(Calls!vars)
  BY StuttersHold DEF Stutters
<1>7. QED
  BY <1>1, <1>2, <1>3, <1>4, <1>5, <1>6, PTL
     DEF MCSpec, Irqs!Spec, Start!Spec, Clock!Spec, Stamp!Spec, Sleep!Spec, Log!Spec, Calls!Spec

\* What is read of the clock, a timestamp or a sleep is the time there was, of
\* every rate, counter and speed that the run's constants can give them.
THEOREM TimesReadHolds == MCSpec => []TimesRead
<1>1. Clock!Spec => []Clock!ReadsElapsed
  BY TicksAssumed, ReadsElapsedHolds, PTL
<1>2. Stamp!Spec => []Stamp!ReadsElapsed
  BY TicksAssumed, StampReadsElapsed, PTL
<1>3. Sleep!Spec => []Sleep!ShortByDropped
  BY TicksAssumed, SleepsOutLoops, PTL
<1>4. Clock!ReadsElapsed /\ Stamp!ReadsElapsed /\ Sleep!ShortByDropped => TimesRead
  BY DEF TimesRead
<1>5. QED
  BY <1>1, <1>2, <1>3, <1>4, PartsBehave, PTL

\* Interrupts find their handlers, nest by priority and outside of critical
\* sections, and skip nothing but faults, for any number of lines, handlers,
\* requests and faults.
THEOREM IsrsNestHolds == MCSpec => IsrsNest
<1>1. Start!Spec => [](Start!HandlerFound /\ Start!ReadyForMain)
  BY TicksAssumed, StartsReady
<1>2. Irqs!Spec => /\ [](Irqs!CalledWithOwnContext /\ Irqs!CriticalKeepsOff)
                   /\ Irqs!CalledWhenRaised
  BY TicksAssumed, DispatchSound
<1>3. Irqs!Spec => Irqs!SkipsOnlyFaults
  BY TicksAssumed, OnlyFaultsSkipped
<1>4. Irqs!Spec => [](Irqs!TypeOK /\ Irqs!OnlyHigher)
  BY TicksAssumed, NestsByPriority
<1>5. QED
  BY <1>1, <1>2, <1>3, <1>4, PartsBehave, PTL DEF IsrsNest

\* Every alarm runs in the tick it was asked for, and the list of alarms stays
\* a ring whatever callbacks do to it in the middle of a walk; the UART's host
\* is timed out by its alarm or not at all.
THEOREM AlarmsOnTimeHolds == MCSpec => []AlarmsOnTime
<1>1. Timers!Init /\ [][Timers!Next]_(Timers!vars) =>
         [](/\ Timers!TypeOK /\ Timers!WellLinked
            /\ Timers!ExpiresWhenDue /\ Timers!NoneMissed)
  BY TicksAssumed, AlarmsWhenDue
<1>2. Start!Spec => []Start!CountsOnlyByAlarm
  BY TicksAssumed, HostTimedByAlarm
<1>3. /\ Timers!WellLinked /\ Timers!ExpiresWhenDue /\ Timers!NoneMissed
      /\ Start!CountsOnlyByAlarm
      => AlarmsOnTime
  BY DEF AlarmsOnTime
<1>4. QED
  BY <1>1, <1>2, <1>3, PartsBehave, PTL

\* What is logged is whole where a handler logs it, lacks a character a tick at
\* most where the program does, keeps to its level and never ends the
\* terminal's connection, for any levels, depth of the queue and messages.
THEOREM LogWholeHolds == MCSpec => []LogWhole
<1>1. Log!Spec => [](/\ Log!TypeOK /\ Log!NoCtrlD /\ Log!HandlerWhole
                     /\ Log!LostPerTick /\ Log!ByLevel)
  BY TicksAssumed, LogIsWhole
<1>2. Log!NoCtrlD /\ Log!HandlerWhole /\ Log!LostPerTick /\ Log!ByLevel => LogWhole
  BY DEF LogWhole
<1>3. QED
  BY <1>1, <1>2, PartsBehave, PTL

\* Profiling counts every call of the program once, whatever interrupts it:
\* nothing is dropped from a list, no function has more than two entries and no
\* entry more than two copies of an arc, and no sample lies outside of the
\* histogram.
THEOREM ArcsCountedHolds == MCSpec => []ArcsCounted
<1>1. Calls!Spec => [](/\ Calls!TypeOK /\ Calls!NothingDropped
                       /\ Calls!CopiesBounded /\ Calls!ProgramCounted)
  BY TicksAssumed, Calls!ListsHold, PTL
<1>2. Calls!Spec => []Calls!SampledInHistogram
  BY TicksAssumed, Calls!SamplesHold
<1>3. /\ Calls!NothingDropped /\ Calls!CopiesBounded /\ Calls!ProgramCounted
      /\ Calls!SampledInHistogram
      => ArcsCounted
  BY DEF ArcsCounted
<1>4. QED
  BY <1>1, <1>2, <1>3, PartsBehave, PTL

\* Every register, list, table and counter of these parts keeps its type and
\* its bounds, whatever interrupts whatever.
THEOREM TicksTypeCorrect == MCSpec => []TypeOK
<1>1. Irqs!Spec => []Irqs!TypeOK
  <2>1. Irqs!Spec => [](Irqs!TypeOK /\ Irqs!OnlyHigher)
    BY TicksAssumed, NestsByPriority
  <2>2. QED
    BY <2>1, PTL
<1>2. Start!Spec => []Start!TypeOK
  <2>1. Start!Spec => [](Start!TypeOK /\ Start!CountsOnlyByAlarm)
    BY TicksAssumed, HostTimedByAlarm
  <2>2. QED
    BY <2>1, PTL
<1>3. Timers!Init /\ [][Timers!Next]_(Timers!vars) => []Timers!TypeOK
  <2>1. Timers!Init /\ [][Timers!Next]_(Timers!vars) =>
           [](/\ Timers!TypeOK /\ Timers!WellLinked
              /\ Timers!ExpiresWhenDue /\ Timers!NoneMissed)
    BY TicksAssumed, AlarmsWhenDue
  <2>2. QED
    BY <2>1, PTL
<1>4. Clock!Spec => []Clock!TypeOK
  <2>1. Clock!Spec => [](Clock!TypeOK /\ Clock!ReadsElapsed)
    BY TicksAssumed, ReadsElapsedHolds
  <2>2. QED
    BY <2>1, PTL
<1>5. Stamp!Spec => []Stamp!TypeOK
  <2>1. Stamp!Spec => [](Stamp!TypeOK /\ Stamp!ReadsElapsed)
    BY TicksAssumed, StampReadsElapsed
  <2>2. QED
    BY <2>1, PTL
<1>6. Calls!Spec => []Calls!TypeOK
  <2>1. Calls!Spec => [](/\ Calls!TypeOK /\ Calls!NothingDropped
                         /\ Calls!CopiesBounded /\ Calls!ProgramCounted)
    BY TicksAssumed, Calls!ListsHold, PTL
  <2>2. QED
    BY <2>1, PTL
<1>7. Log!Spec => []Log!TypeOK
  <2>1. Log!Spec => [](/\ Log!TypeOK /\ Log!NoCtrlD /\ Log!HandlerWhole
                       /\ Log!LostPerTick /\ Log!ByLevel)
    BY TicksAssumed, LogIsWhole
  <2>2. QED
    BY <2>1, PTL
<1>8. Sleep!Spec => []Sleep!TypeOK
  <2>1. Sleep!Spec => [](Sleep!TypeOK /\ Sleep!ShortByDropped)
    BY TicksAssumed, SleepsOutLoops
  <2>2. QED
    BY <2>1, PTL
<1>9. MCSpec => [](part \in Parts)
  <2>1. MCInit => part \in Parts
    BY DEF MCInit
  <2>2. part \in Parts /\ [MCNext]_MCVars => (part \in Parts)'
    BY DEF MCNext, MCVars, By
  <2>3. QED
    BY <2>1, <2>2, PTL DEF MCSpec
<1>10. /\ part \in Parts /\ Irqs!TypeOK /\ Start!TypeOK /\ Timers!TypeOK /\ Clock!TypeOK
       /\ Stamp!TypeOK /\ Calls!TypeOK /\ Log!TypeOK /\ Sleep!TypeOK
       => TypeOK
  BY DEF TypeOK
<1>11. QED
  BY <1>1, <1>2, <1>3, <1>4, <1>5, <1>6, <1>7, <1>8, <1>9, <1>10, PartsBehave, PTL
=============================================================================
