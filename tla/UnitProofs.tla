----------------------------- MODULE UnitProofs -----------------------------
(***************************************************************************)
(* Theorems about the parts that MCUnits sets side by side: that every     *)
(* instruction but two kinds gives what the instruction set says, and that *)
(* patched code computes what its source would on a memory without         *)
(* latency, for words of every width.                                      *)
(*                                                                         *)
(* In order: recursion over the numbers and the powers of two; words and   *)
(* their ones; the arithmetic unit; the places of the patches; lanes and   *)
(* bytes; the machine without latency; the ROM of a patched source; one    *)
(* edge of the core for each instruction; the invariant that keeps the     *)
(* core abreast of the machine without latency, and its steps; the         *)
(* composition.                                                            *)
(***************************************************************************)
EXTENDS MCUnits, CoreProofs, WellFoundedInduction

\* Of some numbers, one is the smallest.
LEMMA SmallestOf ==
  ASSUME NEW X \in SUBSET Nat, X # {}
  PROVE  \E x \in X : \A y \in X : x <= y
<1> DEFINE Below == {p \in Nat \X Nat : p[1] < p[2]}
<1>1. OpToRel(<, Nat) = Below
  BY Zenon DEF OpToRel
<1>2. IsWellFoundedOn(Below, Nat)
  BY <1>1, NatLessThanWellFounded, Zenon
<1>3. PICK x \in X : \A y \in X : ~ (<<y, x>> \in Below)
  <2> HIDE DEF Below
  <2> QED BY <1>2, WFMin, Zenon
<1>4. ASSUME NEW y \in X PROVE x <= y
  <2>1. ~(<<y, x>>[1] < <<y, x>>[2])
    BY <1>3, <1>4
  <2> QED BY <2>1
<1> QED BY <1>4

\* What holds of 0, and of n + 1 if of n, holds of every number; S is the set
\* of the numbers it holds of.
LEMMA EveryNumber ==
  ASSUME NEW S \in SUBSET Nat, 0 \in S, \A n \in S : n + 1 \in S
  PROVE  S = Nat
<1> SUFFICES ASSUME S # Nat PROVE FALSE
  OBVIOUS
<1>1. PICK n \in Nat \ S : \A m \in Nat \ S : n <= m
  <2>1. Nat \ S \in SUBSET Nat /\ Nat \ S # {}
    OBVIOUS
  <2> QED BY <2>1, SmallestOf
<1>2. n # 0 /\ n - 1 \in Nat /\ ~(n <= n - 1)
  BY <1>1
<1>3. n - 1 \in S
  BY <1>1, <1>2
<1> QED BY <1>1, <1>2, <1>3

\* A function can be defined by recursion over the numbers.
Recursive(V, v0, step, f, D) ==
  /\ f \in [D -> V]
  /\ \A n \in D : f[n] = IF n = 0 THEN v0 ELSE step[n][f[n - 1]]

\* A function defined by recursion over the numbers exists.
LEMMA RecursionExists ==
  ASSUME NEW V, NEW v0 \in V, NEW step \in [Nat -> [V -> V]]
  PROVE  \E f : Recursive(V, v0, step, f, Nat)
<1> DEFINE Upto(n) == \E g : Recursive(V, v0, step, g, 0 .. n)
           S == {n \in Nat : Upto(n)}
<1>1. 0 \in S
  <2> DEFINE g == [k \in 0 .. 0 |-> v0]
  <2>1. Recursive(V, v0, step, g, 0 .. 0)
    BY DEF Recursive
  <2> QED BY <2>1
<1>2. ASSUME NEW n \in S PROVE n + 1 \in S
  <2>1. PICK g : Recursive(V, v0, step, g, 0 .. n)
    BY <1>2
  <2> DEFINE h == [k \in 0 .. n + 1 |-> IF k = n + 1 THEN step[n + 1][g[n]] ELSE g[k]]
  <2>2. n \in Nat /\ n + 1 \in Nat /\ n \in 0 .. n /\ g[n] \in V
    BY <2>1 DEF Recursive
  <2>3. step[n + 1][g[n]] \in V
    BY <2>2
  <2>4. h \in [0 .. n + 1 -> V]
    BY <2>1, <2>2, <2>3 DEF Recursive
  <2>5. ASSUME NEW k \in 0 .. n + 1
        PROVE  h[k] = IF k = 0 THEN v0 ELSE step[k][h[k - 1]]
    <3>1. CASE k = n + 1
      <4>1. k # 0 /\ k - 1 = n /\ h[n] = g[n]
        BY <2>2, <3>1
      <4> QED BY <3>1, <4>1
    <3>2. CASE k # n + 1
      <4>1. k \in 0 .. n /\ h[k] = g[k]
        BY <2>2, <3>2
      <4>2. k # 0 => k - 1 \in 0 .. n /\ h[k - 1] = g[k - 1]
        BY <2>2, <4>1
      <4> QED BY <2>1, <4>1, <4>2 DEF Recursive
    <3> QED BY <3>1, <3>2
  <2>6. Recursive(V, v0, step, h, 0 .. n + 1)
    <3> HIDE DEF h
    <3> QED BY <2>4, <2>5 DEF Recursive
  <2> QED BY <2>2, <2>6
<1>3. S = Nat
  <2> HIDE DEF S
  <2>1. S \in SUBSET Nat
    BY DEF S
  <2> QED BY <1>1, <1>2, <2>1, EveryNumber
<1>4. ASSUME NEW n \in Nat, NEW m \in Nat, NEW g, NEW h, n <= m,
             Recursive(V, v0, step, g, 0 .. n), Recursive(V, v0, step, h, 0 .. m)
      PROVE  g[n] = h[n]
  <2> DEFINE T == {k \in Nat : k <= n => g[k] = h[k]}
  <2>1. 0 \in T
    BY <1>4 DEF Recursive
  <2>2. ASSUME NEW k \in T PROVE k + 1 \in T
    <3>1. CASE k + 1 <= n
      <4>1. k \in Nat /\ k + 1 \in 0 .. n /\ k + 1 \in 0 .. m /\ k + 1 # 0
            /\ (k + 1) - 1 = k
        BY <1>4, <3>1
      <4>2. g[k] = h[k]
        BY <2>2, <3>1
      <4> QED BY <1>4, <4>1, <4>2 DEF Recursive
    <3> QED BY <3>1
  <2>3. T = Nat
    <3> HIDE DEF T
    <3>1. T \in SUBSET Nat
      BY DEF T
    <3> QED BY <2>1, <2>2, <3>1, EveryNumber
  <2> QED BY <2>3
<1> DEFINE Of(n) == CHOOSE g : Recursive(V, v0, step, g, 0 .. n)
           f == [n \in Nat |-> Of(n)[n]]
<1>5. ASSUME NEW n \in Nat PROVE Recursive(V, v0, step, Of(n), 0 .. n)
  BY <1>3
<1>6. f \in [Nat -> V]
  <2>1. ASSUME NEW n \in Nat PROVE Of(n)[n] \in V
    <3> HIDE DEF Of
    <3> QED BY <1>5 DEF Recursive
  <2> HIDE DEF Of
  <2> QED BY <2>1
<1>7. ASSUME NEW n \in Nat
      PROVE  f[n] = IF n = 0 THEN v0 ELSE step[n][f[n - 1]]
  <2> HIDE DEF Of
  <2>1. Of(n)[n] = IF n = 0 THEN v0 ELSE step[n][Of(n)[n - 1]]
    BY <1>5 DEF Recursive
  <2>2. CASE n = 0
    BY <2>1, <2>2
  <2>3. CASE n # 0
    <3>1. n - 1 \in Nat /\ n - 1 <= n
      BY <2>3
    <3>2. Of(n - 1)[n - 1] = Of(n)[n - 1]
      BY <1>4, <1>5, <3>1
    <3> QED BY <2>1, <2>3, <3>1, <3>2
  <2> QED BY <2>2, <2>3
<1>8. Recursive(V, v0, step, f, Nat)
  <2> HIDE DEF f
  <2> QED BY <1>6, <1>7 DEF Recursive
<1> QED BY <1>8

\* The powers of two.
LEMMA PowersOfTwo ==
  /\ Pow2 \in [Nat -> Nat] /\ Pow2[0] = 1
  /\ \A n \in Nat : Pow2[n + 1] = 2 * Pow2[n]
<1> DEFINE Def(f) == f = [n \in Nat |-> IF n = 0 THEN 1 ELSE 2 * f[n - 1]]
           step == [n \in Nat |-> [v \in Nat |-> 2 * v]]
<1>1. PICK f : Recursive(Nat, 1, step, f, Nat)
  <2>1. step \in [Nat -> [Nat -> Nat]] /\ 1 \in Nat
    OBVIOUS
  <2> QED BY <2>1, RecursionExists
<1>2. Def(f)
  <2>1. f \in [Nat -> Nat]
    BY <1>1 DEF Recursive
  <2>2. ASSUME NEW n \in Nat PROVE f[n] = IF n = 0 THEN 1 ELSE 2 * f[n - 1]
    <3>1. f[n] = IF n = 0 THEN 1 ELSE step[n][f[n - 1]]
      BY <1>1, Zenon DEF Recursive
    <3>2. n # 0 => f[n - 1] \in Nat
      BY <2>1
    <3> QED BY <3>1, <3>2
  <2> QED BY <2>1, <2>2
<1>3. Def(Pow2)
  <2>1. Pow2 = CHOOSE g : Def(g)
    BY Zenon DEF Pow2
  <2> HIDE DEF Def
  <2> QED BY <1>2, <2>1
<1>4. ASSUME NEW n \in Nat PROVE Pow2[n] = IF n = 0 THEN 1 ELSE 2 * Pow2[n - 1]
  <2> DEFINE P == Pow2
  <2>1. P = [k \in Nat |-> IF k = 0 THEN 1 ELSE 2 * P[k - 1]]
    BY <1>3, Zenon
  <2> HIDE DEF P
  <2>2. P[n] = IF n = 0 THEN 1 ELSE 2 * P[n - 1]
    BY <2>1
  <2> QED BY <2>2 DEF P
<1> DEFINE S == {n \in Nat : Pow2[n] \in Nat}
<1>5. S = Nat
  <2>1. 0 \in S
    BY <1>4
  <2>2. ASSUME NEW n \in S PROVE n + 1 \in S
    BY <1>4, n + 1 # 0, (n + 1) - 1 = n
  <2> HIDE DEF S
  <2>3. S \in SUBSET Nat
    BY DEF S
  <2> QED BY <2>1, <2>2, <2>3, EveryNumber
<1>6. Pow2 \in [Nat -> Nat]
  <2>1. Pow2 = [n \in Nat |-> Pow2[n]]
    BY <1>3
  <2> QED BY <1>5, <2>1
<1>7. ASSUME NEW n \in Nat PROVE Pow2[n + 1] = 2 * Pow2[n]
  BY <1>4, n + 1 # 0, (n + 1) - 1 = n
<1> QED BY <1>4, <1>6, <1>7

\* The same of the numbers up to n.
LEMMA RecursionUpto ==
  ASSUME NEW n \in Nat, NEW V, NEW v0 \in V, NEW step \in [0 .. n -> [V -> V]]
  PROVE  \E f : Recursive(V, v0, step, f, 0 .. n)
<1> DEFINE onwards == [k \in Nat |-> IF k \in 0 .. n THEN step[k] ELSE [v \in V |-> v]]
<1>1. onwards \in [Nat -> [V -> V]]
  OBVIOUS
<1>2. PICK f : Recursive(V, v0, onwards, f, Nat)
  <2> HIDE DEF onwards
  <2> QED BY <1>1, RecursionExists
<1> DEFINE g == [k \in 0 .. n |-> f[k]]
<1>3. ASSUME NEW k \in 0 .. n
      PROVE  g[k] \in V /\ g[k] = IF k = 0 THEN v0 ELSE step[k][g[k - 1]]
  <2>1. k \in Nat /\ onwards[k] = step[k] /\ g[k] = f[k] /\ (k # 0 => g[k - 1] = f[k - 1])
    OBVIOUS
  <2>2. f[k] \in V /\ f[k] = IF k = 0 THEN v0 ELSE onwards[k][f[k - 1]]
    <3> HIDE DEF onwards
    <3> QED BY <1>2, <2>1 DEF Recursive
  <2> HIDE DEF onwards, g
  <2> QED BY <2>1, <2>2
<1>4. g \in [0 .. n -> V]
  <2>1. g = [k \in 0 .. n |-> g[k]]
    OBVIOUS
  <2> HIDE DEF g
  <2> QED BY <1>3, <2>1
<1>5. Recursive(V, v0, step, g, 0 .. n)
  <2> HIDE DEF g
  <2> QED BY <1>3, <1>4 DEF Recursive
<1> QED BY <1>5

\* Sums of the first terms are defined, and are numbers.
Summed(n, term, f) ==
  f = [k \in 0 .. n |-> IF k = 0 THEN 0 ELSE f[k - 1] + term[k]]

\* The sums of the first so many terms exist, as a recursive function.
LEMMA SumsExist ==
  ASSUME NEW n \in Nat, NEW term \in [1 .. n -> Nat]
  PROVE  \E f \in [0 .. n -> Nat] : Summed(n, term, f)
<1> DEFINE more(k, v) == IF k = 0 THEN v ELSE v + term[k]
           step == [k \in 0 .. n |-> [v \in Nat |-> more(k, v)]]
<1>1. step \in [0 .. n -> [Nat -> Nat]]
  <2>1. ASSUME NEW k \in 0 .. n, NEW v \in Nat PROVE more(k, v) \in Nat
    <3>1. k # 0 => term[k] \in Nat
      OBVIOUS
    <3> QED BY <3>1
  <2> HIDE DEF more
  <2> QED BY <2>1
<1>2. PICK f : Recursive(Nat, 0, step, f, 0 .. n)
  <2> HIDE DEF step
  <2> QED BY <1>1, RecursionUpto
<1>3. f \in [0 .. n -> Nat]
  BY <1>2, Zenon DEF Recursive
<1>4. ASSUME NEW k \in 0 .. n PROVE f[k] = IF k = 0 THEN 0 ELSE f[k - 1] + term[k]
  <2>1. f[k] = IF k = 0 THEN 0 ELSE step[k][f[k - 1]]
    <3> HIDE DEF step
    <3> QED BY <1>2, Zenon DEF Recursive
  <2>2. k # 0 => f[k - 1] \in Nat
    BY <1>3
  <2>3. k # 0 => step[k][f[k - 1]] = f[k - 1] + term[k]
    BY <2>2
  <2> HIDE DEF step
  <2> QED BY <2>1, <2>3
<1>5. Summed(n, term, f)
  <2>1. f = [k \in 0 .. n |-> f[k]]
    BY <1>3
  <2> QED BY <1>4, <2>1 DEF Summed
<1> QED BY <1>3, <1>5

-----------------------------------------------------------------------------
\* Division with remainder: the quotient and the remainder are what fits.
LEMMA Division ==
  ASSUME NEW d \in Nat \ {0}, NEW x \in Int
  PROVE  /\ x \div d \in Int /\ x % d \in 0 .. d - 1
         /\ x = (d * (x \div d)) + (x % d)
  BY SMT

\* What fits as quotient and remainder is the quotient and the remainder.
LEMMA Quotient ==
  ASSUME NEW d \in Nat \ {0}, NEW q \in Int, NEW r \in 0 .. d - 1
  PROVE  (d * q + r) \div d = q /\ (d * q + r) % d = r
  BY SMT

\* A number below the divisor is its own remainder.
LEMMA SmallRemainder ==
  ASSUME NEW d \in Nat \ {0}, NEW r \in 0 .. d - 1
  PROVE  r % d = r
  BY SMT

\* No power of two is zero.
LEMMA PowersPositive == \A n \in Nat : Pow2[n] \in Nat \ {0}
<1> DEFINE S == {n \in Nat : Pow2[n] \in Nat \ {0}}
<1>1. 0 \in S
  BY PowersOfTwo
<1>2. ASSUME NEW n \in S PROVE n + 1 \in S
  <2> DEFINE p == Pow2[n]
  <2>1. p \in Nat \ {0} /\ n \in Nat /\ Pow2[n + 1] = 2 * p
    BY PowersOfTwo
  <2> HIDE DEF p
  <2>2. 2 * p \in Nat \ {0}
    BY <2>1
  <2> QED BY <2>1, <2>2
<1> HIDE DEF S
<1>3. S = Nat
  <2>1. S \in SUBSET Nat
    BY DEF S
  <2> QED BY <1>1, <1>2, <2>1, EveryNumber
<1> QED BY <1>3 DEF S

\* Powers are multiplied by adding their exponents.
LEMMA PowersAdd ==
  ASSUME NEW m \in Nat, NEW n \in Nat
  PROVE  Pow2[m + n] = Pow2[m] * Pow2[n]
<1> DEFINE S == {k \in Nat : Pow2[m + k] = Pow2[m] * Pow2[k]}
<1>0. \A k \in Nat : Pow2[k] \in Nat
  BY PowersPositive
<1>1. 0 \in S
  <2>1. m + 0 = m /\ Pow2[m] * 1 = Pow2[m]
    BY <1>0
  <2> QED BY <2>1, PowersOfTwo
<1>2. ASSUME NEW k \in S PROVE k + 1 \in S
  <2> DEFINE p == Pow2[m]
             q == Pow2[k]
  <2>1. k \in Nat /\ m + k \in Nat /\ (m + k) + 1 = m + (k + 1) /\ k + 1 \in Nat
    OBVIOUS
  <2>2. Pow2[m + (k + 1)] = 2 * Pow2[m + k]
    BY <2>1, PowersOfTwo
  <2>3. Pow2[m + k] = p * q /\ Pow2[k + 1] = 2 * q /\ p \in Nat /\ q \in Nat
    BY <1>0, <2>1, PowersOfTwo
  <2> HIDE DEF p, q
  <2>4. 2 * (p * q) = p * (2 * q)
    BY <2>3
  <2>5. Pow2[m + (k + 1)] = p * Pow2[k + 1]
    BY <2>2, <2>3, <2>4
  <2> QED BY <2>1, <2>5 DEF p
<1> HIDE DEF S
<1>3. S = Nat
  <2>1. S \in SUBSET Nat
    BY DEF S
  <2> QED BY <1>1, <1>2, <2>1, EveryNumber
<1> QED BY <1>3 DEF S

\* A smaller power divides a larger one.
LEMMA PowerDivides ==
  ASSUME NEW m \in Nat, NEW n \in Nat, m <= n
  PROVE  /\ n - m \in Nat /\ Pow2[n] = Pow2[m] * Pow2[n - m]
         /\ Pow2[m] <= Pow2[n]
<1> DEFINE p == Pow2[m]
           q == Pow2[n - m]
<1>1. n - m \in Nat /\ m + (n - m) = n
  OBVIOUS
<1>2. Pow2[n] = p * q /\ p \in Nat \ {0} /\ q \in Nat \ {0}
  <2> DEFINE d == n - m
  <2>1. d \in Nat /\ m + d = n
    BY <1>1
  <2> HIDE DEF d
  <2>2. Pow2[m + d] = Pow2[m] * Pow2[d] /\ Pow2[m] \in Nat \ {0} /\ Pow2[d] \in Nat \ {0}
    BY <2>1, PowersAdd, PowersPositive
  <2> QED BY <2>1, <2>2 DEF d
<1> HIDE DEF p, q
<1>3. p <= p * q
  BY <1>2
<1> QED BY <1>1, <1>2, <1>3 DEF p, q

\* The halves of a word.
LEMMA HalvesOfWord ==
  \E h \in Nat \ {0}, e \in Nat \ {0} :
    /\ Bits = 2 * h /\ Bits \div 2 = h /\ Half32 = 2 * e
    /\ Half32 = Pow2[h] /\ Whole = Half32 * Half32
    /\ Whole \div 2 = e * Half32 /\ Half32 <= Whole \div 2
    /\ Half32 \in Nat \ {0} /\ Whole \in Nat \ {0}
<1>1. PICK h \in Nat \ {0} : Bits = 2 * h
  BY AluAssumption
<1>2. Bits \div 2 = h /\ h - 1 \in Nat /\ (h - 1) + 1 = h /\ h + h = Bits
  BY <1>1
<1> DEFINE e == Pow2[h - 1]
           H == Pow2[h]
           W == Pow2[Bits]
<1>3. e \in Nat \ {0} /\ H \in Nat \ {0}
  BY <1>2, PowersPositive
<1>4. H = 2 * e
  BY <1>2, PowersOfTwo
<1>5. W = H * H
  BY <1>1, <1>2, PowersAdd
<1>6. Half32 = H /\ Whole = W
  BY <1>2 DEF Half32, Whole
<1> HIDE DEF e, H, W
<1>7. W = 2 * (e * H) /\ e * H \in Nat
  BY <1>3, <1>4, <1>5
<1>8. W \div 2 = e * H /\ W \in Nat \ {0}
  <2> DEFINE x == e * H
  <2>1. x \in Nat /\ W = 2 * x /\ x # 0
    BY <1>3, <1>7
  <2> HIDE DEF x
  <2>2. W \div 2 = x /\ W \in Nat \ {0}
    BY <2>1
  <2> QED BY <2>2 DEF x
<1>9. H <= e * H
  BY <1>3
<1> QED BY <1>1, <1>2, <1>3, <1>4, <1>5, <1>6, <1>8, <1>9 DEF H

-----------------------------------------------------------------------------
\* Bits that are added above leave those below alone.
LEMMA BitsBelow ==
  ASSUME NEW p \in Nat \ {0}, NEW e \in Nat, NEW x \in Nat
  PROVE  ((x + p * (2 * e)) \div p) % 2 = (x \div p) % 2
<1> DEFINE q == x \div p
           r == x % p
           y == q + 2 * e
<1>1. q \in Int /\ r \in 0 .. p - 1 /\ x = p * q + r
  BY Division
<1>2. x + p * (2 * e) = p * y + r
  <2> HIDE DEF q, r
  <2> QED BY <1>1
<1>3. y \in Int
  BY <1>1
<1>4. (p * y + r) \div p = y
  <2> HIDE DEF y, q, r
  <2> QED BY <1>1, <1>3, Quotient
<1>5. y % 2 = q % 2
  <2> HIDE DEF q
  <2> QED BY <1>1
<1> HIDE DEF y, q, r
<1>6. (x + p * (2 * e)) \div p = y
  BY <1>2, <1>4
<1> QED BY <1>5, <1>6 DEF q

\* The word with given ones has these ones, and is a word.
LEMMA OnesOfWord ==
  ASSUME NEW S \in SUBSET (0 .. Bits - 1)
  PROVE  WithOnes(S) \in 0 .. Whole - 1 /\ Ones(WithOnes(S)) = S
<1> DEFINE Def(f) == f = [k \in 0 .. Bits |->
               IF k = 0 THEN 0 ELSE f[k - 1] + (IF k - 1 \in S THEN Pow2[k - 1] ELSE 0)]
           bit(k) == IF k - 1 \in S THEN Pow2[k - 1] ELSE 0
           step == [k \in Nat |-> [v \in Nat |-> IF k = 0 THEN 0 ELSE v + bit(k)]]
           low == CHOOSE f : Def(f)
<1>0. Bits \in Nat /\ \A k \in Nat : Pow2[k] \in Nat \ {0}
  BY AluAssumption, PowersPositive
<1>1. \E f : Def(f)
  <2>1. step \in [Nat -> [Nat -> Nat]]
    <3>1. ASSUME NEW k \in Nat \ {0} PROVE bit(k) \in Nat
      <4>1. k - 1 \in Nat
        OBVIOUS
      <4> QED BY <1>0, <4>1
    <3> HIDE DEF bit
    <3>2. ASSUME NEW k \in Nat, NEW v \in Nat
          PROVE  (IF k = 0 THEN 0 ELSE v + bit(k)) \in Nat
      BY <3>1
    <3> QED BY <3>2
  <2>2. PICK f : Recursive(Nat, 0, step, f, Nat)
    <3> HIDE DEF step
    <3> QED BY <2>1, RecursionExists
  <2> DEFINE g == [k \in 0 .. Bits |-> f[k]]
  <2>3. ASSUME NEW k \in 0 .. Bits
        PROVE  g[k] = IF k = 0 THEN 0 ELSE g[k - 1] + bit(k)
    <3>0. k \in Nat
      BY <1>0
    <3>1. f[k] = IF k = 0 THEN 0 ELSE step[k][f[k - 1]]
      <4> HIDE DEF step
      <4> QED BY <2>2, <3>0, Zenon DEF Recursive
    <3>2. k # 0 => /\ k - 1 \in Nat /\ f[k - 1] \in Nat /\ g[k - 1] = f[k - 1]
      BY <1>0, <2>2, <3>0 DEF Recursive
    <3>3. k # 0 => step[k][f[k - 1]] = f[k - 1] + bit(k)
      <4> HIDE DEF bit
      <4> QED BY <3>0, <3>2
    <3> HIDE DEF step, bit
    <3> QED BY <3>0, <3>1, <3>2, <3>3
  <2>4. Def(g)
    <3>1. g = [k \in 0 .. Bits |-> g[k]]
      OBVIOUS
    <3> HIDE DEF g
    <3> QED BY <2>3, <3>1
  <2> QED BY <2>4
<1>2. Def(low)
  <2> HIDE DEF Def
  <2> QED BY <1>1
<1>3. WithOnes(S) = low[Bits]
  BY Zenon DEF WithOnes
<1>4. ASSUME NEW k \in 0 .. Bits
      PROVE  low[k] = IF k = 0 THEN 0 ELSE low[k - 1] + bit(k)
  <2> HIDE DEF low
  <2> QED BY <1>2
<1> HIDE DEF low
<1> DEFINE T == {k \in Nat : k <= Bits =>
                   /\ low[k] \in Nat /\ low[k] < Pow2[k]
                   /\ \A j \in 0 .. k - 1 : ((low[k] \div Pow2[j]) % 2 = 1) <=> j \in S}
<1>5. 0 \in T
  <2>1. 0 \in 0 .. Bits /\ low[0] = 0 /\ Pow2[0] = 1
    BY <1>0, <1>4, PowersOfTwo
  <2>2. 0 \in Nat /\ low[0] \in Nat /\ low[0] < Pow2[0] /\ 0 .. 0 - 1 = {}
    BY <2>1
  <2> QED BY <2>2
<1>6. ASSUME NEW k \in T, k + 1 <= Bits
      PROVE  /\ low[k + 1] \in Nat /\ low[k + 1] < Pow2[k + 1]
             /\ \A j \in 0 .. k : ((low[k + 1] \div Pow2[j]) % 2 = 1) <=> j \in S
  <2> DEFINE x == low[k]
             P == Pow2[k]
             u == IF k \in S THEN 1 ELSE 0
  <2>1. k \in Nat /\ k + 1 \in 0 .. Bits /\ (k + 1) - 1 = k /\ k <= Bits /\ k + 1 # 0
    BY <1>0, <1>6
  <2>2. x \in Nat /\ P \in Nat \ {0} /\ x < P /\ Pow2[k + 1] = 2 * P
    BY <1>0, <2>1, PowersOfTwo
  <2>3. u \in {0, 1} /\ bit(k + 1) = P * u
    <3>1. CASE k \in S
      BY <2>1, <2>2, <3>1
    <3>2. CASE k \notin S
      BY <2>1, <2>2, <3>2
    <3> QED BY <3>1, <3>2
  <2>4. low[k + 1] = x + P * u
    BY <1>4, <2>1, <2>3
  <2>5. \A j \in 0 .. k - 1 : ((x \div Pow2[j]) % 2 = 1) <=> j \in S
    BY <2>1
  <2>6. ASSUME NEW j \in 0 .. k - 1
        PROVE  ((low[k + 1] \div Pow2[j]) % 2 = 1) <=> j \in S
    <3> DEFINE p == Pow2[j]
               d == k - j - 1
               e == Pow2[d] * u
    <3>1. j \in Nat /\ j <= k /\ d \in Nat /\ k - j = d + 1
      BY <2>1
    <3>2. p \in Nat \ {0} /\ Pow2[d] \in Nat
      BY <1>0, <3>1
    <3>3. P = p * (2 * Pow2[d])
      <4>1. P = p * Pow2[k - j]
        BY <2>1, <3>1, PowerDivides
      <4>2. Pow2[d + 1] = 2 * Pow2[d]
        BY <3>1, PowersOfTwo
      <4> QED BY <3>1, <4>1, <4>2
    <3>4. P * u = p * (2 * e) /\ e \in Nat
      <4> HIDE DEF P, u, p, d
      <4> QED BY <2>3, <3>2, <3>3
    <3> HIDE DEF p, e, P, u, x
    <3>5. ((x + p * (2 * e)) \div p) % 2 = (x \div p) % 2
      BY <2>2, <3>2, <3>4, BitsBelow
    <3>6. ((low[k + 1] \div p) % 2 = 1) <=> ((x \div p) % 2 = 1)
      BY <2>4, <3>4, <3>5
    <3> QED BY <2>5, <3>6 DEF p
  <2>7. ((low[k + 1] \div P) % 2 = 1) <=> k \in S
    <3>1. low[k + 1] = P * u + x /\ x \in 0 .. P - 1 /\ u \in Int
      <4> HIDE DEF P, u, x
      <4> QED BY <2>2, <2>3, <2>4
    <3>2. low[k + 1] \div P = u
      <4> HIDE DEF P, u, x
      <4> QED BY <2>2, <3>1, Quotient
    <3>3. (u % 2 = 1) <=> k \in S
      BY SMT
    <3> HIDE DEF u, P
    <3> QED BY <3>2, <3>3
  <2>8. low[k + 1] \in Nat /\ low[k + 1] < Pow2[k + 1]
    <3> HIDE DEF P, u, x
    <3> QED BY <2>2, <2>3, <2>4
  <2>9. ASSUME NEW j \in 0 .. k, j # k PROVE j \in 0 .. k - 1
    BY <2>1, <2>9
  <2> QED BY <2>6, <2>7, <2>8, <2>9
<1>7. T = Nat
  <2>1. ASSUME NEW k \in T PROVE k + 1 \in T
    <3>1. k \in Nat /\ (k + 1) - 1 = k /\ k + 1 \in Nat
      OBVIOUS
    <3> QED BY <1>6, <3>1
  <2>2. T \in SUBSET Nat
    OBVIOUS
  <2> HIDE DEF T
  <2> QED BY <1>5, <2>1, <2>2, EveryNumber
<1>8. /\ low[Bits] \in Nat /\ low[Bits] < Whole
      /\ \A j \in 0 .. Bits - 1 : ((low[Bits] \div Pow2[j]) % 2 = 1) <=> j \in S
  <2>1. Bits \in T
    BY <1>0, <1>7
  <2> QED BY <1>0, <2>1 DEF Whole
<1>9. Ones(low[Bits]) = S
  BY <1>8 DEF Ones
<1>10. Whole \in Nat
  BY <1>0 DEF Whole
<1> QED BY <1>3, <1>8, <1>9, <1>10

-----------------------------------------------------------------------------
\* What the classes of instructions have in common.
LEMMA InstrForms ==
  ASSUME NEW i \in AluInstrs
  PROVE  /\ i.class \in {"register", "immediate", "branch", "address"}
         /\ i.w \in BOOLEAN /\ i.alt \in BOOLEAN
         /\ i.class = "branch" => i.funct \in Branches /\ ~i.w /\ ~i.alt
         /\ i.class = "address" => i.funct = "add" /\ ~i.w /\ ~i.alt
         /\ i.class # "branch" => i.funct \in Funct
         /\ i.w => i.funct \in WForms
         /\ i.funct = "sll" => ~i.alt
BY DEF AluInstrs

\* A remainder of a remainder of a multiple is the remainder.
LEMMA RemainderOfRemainder ==
  ASSUME NEW n \in Int, NEW H \in Nat \ {0}, NEW d \in Nat \ {0}
  PROVE  (n % (H * d)) % H = n % H
<1> DEFINE W == H * d
           q == n \div W
           r == n % W
           s == r \div H
           t == r % H
<1>1. W \in Nat \ {0}
  BY SMT
<1>2. q \in Int /\ r \in Int /\ n = (W * q) + r
  <2> HIDE DEF W
  <2> QED BY <1>1, Division
<1>3. s \in Int /\ t \in 0 .. H - 1 /\ r = (H * s) + t
  <2> HIDE DEF W, r
  <2> QED BY <1>2, Division
<1> DEFINE u == (d * q) + s
<1>4. u \in Int /\ n = (H * u) + t
  <2> HIDE DEF q, r, s, t
  <2> QED BY <1>2, <1>3
<1>5. (H * u + t) % H = t
  <2> HIDE DEF u, t
  <2> QED BY <1>3, <1>4, Quotient
<1> HIDE DEF u, t
<1> QED BY <1>4, <1>5 DEF t

\* Two's complement numbers tell words apart, extended too.
LEMMA SignedTellsApart ==
  ASSUME NEW e \in Nat \ {0}, NEW H, H = 2 * e, NEW W \in Nat, H <= W,
         NEW x \in 0 .. H - 1, NEW y \in 0 .. H - 1,
         Signed(x, H) % W = Signed(y, H) % W
  PROVE  x = y
<1> DEFINE p == Signed(x, H)
           q == Signed(y, H)
<1>1. p \in -e .. e - 1 /\ q \in -e .. e - 1 /\ H \div 2 = e
  BY DEF Signed
<1>2. p = q
  <2> HIDE DEF p, q
  <2>1. W \in Nat \ {0} /\ e <= W - e
    OBVIOUS
  <2>2. p % W = IF p < 0 THEN p + W ELSE p
    BY <1>1, <2>1
  <2>3. q % W = IF q < 0 THEN q + W ELSE q
    BY <1>1, <2>1
  <2>4. p % W = q % W
    BY DEF p, q
  <2> QED BY <1>1, <2>1, <2>2, <2>3, <2>4
<1> QED BY <1>1, <1>2 DEF Signed

-----------------------------------------------------------------------------
Operands == ins \in AluInstrs /\ a \in 0 .. Whole - 1 /\ b \in 0 .. Whole - 1

\* What the unit is given, and what it gives for one control code.
Yield(ctl) == AluResult(ctl, AluIn(a, ins.w), AluIn(b, ins.w), ins.w)

\* What execute yields, by what the unit yields.
LEMMA ExecutedIs ==
  /\ Executed.result = AluOut(Yield(AluControl(ins)), ins.w)
  /\ Executed.taken = Taken(ins.funct, Yield(AluControl(ins)) = 0,
                            Yield(AluControl(ins)) >= Whole \div 2,
                            Overflow(AluControl(ins), AluIn(a, ins.w), AluIn(b, ins.w)))
BY DEF Executed, Yield

\* A branch decides by the flags of a subtraction.
LEMMA BranchesMean ==
  ASSUME Operands, ins.class = "branch"
  PROVE  Executed.taken = MeansTaken(ins.funct)
           <=> ~(ins.funct \in {"blt", "bge"} /\ DifferenceOverflows)
<1> DEFINE K == Whole \div 2
           r == (a - b) % Whole
<1>1. PICK k \in Nat \ {0} : Whole = 2 * k /\ K = k
  <2>1. PICK h \in Nat \ {0}, e \in Nat \ {0} :
           /\ Half32 = 2 * e /\ Half32 \in Nat \ {0} /\ Whole = Half32 * Half32
           /\ Whole \div 2 = e * Half32
    BY HalvesOfWord
  <2>2. e * Half32 \in Nat \ {0} /\ Half32 * Half32 = 2 * (e * Half32)
    BY <2>1
  <2> QED BY <2>1, <2>2
<1>2. ins.funct \in Branches /\ ~ins.w /\ AluControl(ins) = "sub"
  BY InstrForms DEF Operands, AluControl
<1>3. AluIn(a, ins.w) = a /\ AluIn(b, ins.w) = b
  BY <1>2 DEF AluIn
<1>4. Yield("sub") = r
  BY <1>3 DEF Yield, AluResult
<1>5. Overflow("sub", a, b) <=> a < b
  BY DEF Overflow
<1>6. a \in 0 .. Whole - 1 /\ b \in 0 .. Whole - 1
  BY DEF Operands
<1>7. r = IF a >= b THEN a - b ELSE a - b + Whole
  BY <1>1, <1>6
<1>8. Executed.taken = Taken(ins.funct, r = 0, r >= K, a < b)
  <2>1. Executed.taken = Taken(ins.funct, r = 0, r >= K, Overflow("sub", a, b))
    BY <1>2, <1>3, <1>4, ExecutedIs
  <2>2. (Overflow("sub", a, b)) = (a < b)
    BY DEF Overflow
  <2> QED BY <2>1, <2>2
<1> DEFINE sa == Signed(a, Whole)
           sb == Signed(b, Whole)
<1>9. /\ sa = IF a >= K THEN a - Whole ELSE a
      /\ sb = IF b >= K THEN b - Whole ELSE b
  BY DEF Signed
<1>10. DifferenceOverflows <=> ~(-K <= sa - sb /\ sa - sb <= K - 1)
  <2>1. sa - sb \in Int /\ K \in Int
    BY <1>1, <1>6, <1>9
  <2> HIDE DEF sa, sb, K
  <2> QED BY <2>1 DEF DifferenceOverflows, sa, sb, K
<1> DEFINE t(f) == Taken(f, r = 0, r >= K, a < b)
<1>11. ASSUME NEW f, ins.funct = f, NEW p, NEW q, t(f) <=> p, MeansTaken(f) <=> q,
              MeansTaken(f) \in BOOLEAN,
              (p <=> q) <=> ~(f \in {"blt", "bge"} /\ DifferenceOverflows)
       PROVE  Executed.taken = MeansTaken(ins.funct)
                <=> ~(ins.funct \in {"blt", "bge"} /\ DifferenceOverflows)
  <2>1. t(f) \in BOOLEAN
    BY Zenon DEF Taken
  <2>2. Executed.taken = t(f)
    BY <1>8, <1>11, Zenon
  <2> HIDE DEF t
  <2>3. (t(f) = MeansTaken(f)) <=> (t(f) <=> MeansTaken(f))
    BY <2>1, <1>11, Zenon
  <2> QED BY <1>11, <2>2, <2>3, Zenon
<1> HIDE DEF sa, sb
<1>12. CASE ins.funct = "beq"
  <2> DEFINE p == r = 0
             q == a = b
  <2>1. (t("beq") <=> p) /\ MeansTaken("beq") = q
    BY DEF Taken, MeansTaken
  <2>2. q \in BOOLEAN
    OBVIOUS
  <2>3. p <=> q
    <3> HIDE DEF r
    <3> QED BY <1>1, <1>6, <1>7
  <2> HIDE DEF t, p, q
  <2> QED BY <1>11, <1>12, <2>1, <2>2, <2>3, Zenon
<1>13. CASE ins.funct = "bne"
  <2> DEFINE p == r # 0
             q == a # b
  <2>1. (t("bne") <=> p) /\ MeansTaken("bne") = q
    BY DEF Taken, MeansTaken
  <2>2. q \in BOOLEAN
    OBVIOUS
  <2>3. p <=> q
    <3> HIDE DEF r
    <3> QED BY <1>1, <1>6, <1>7
  <2> HIDE DEF t, p, q
  <2> QED BY <1>11, <1>13, <2>1, <2>2, <2>3, Zenon
<1>14. CASE ins.funct = "bltu"
  <2> DEFINE p == a < b /\ r # 0
             q == a < b
  <2>1. (t("bltu") <=> p) /\ MeansTaken("bltu") = q
    BY DEF Taken, MeansTaken
  <2>2. q \in BOOLEAN
    OBVIOUS
  <2>3. p <=> q
    <3> HIDE DEF r
    <3> QED BY <1>1, <1>6, <1>7
  <2> HIDE DEF t, p, q
  <2> QED BY <1>11, <1>14, <2>1, <2>2, <2>3, Zenon
<1>15. CASE ins.funct = "bgeu"
  <2> DEFINE p == ~(a < b) \/ r = 0
             q == a >= b
  <2>1. (t("bgeu") <=> p) /\ MeansTaken("bgeu") = q
    BY DEF Taken, MeansTaken
  <2>2. q \in BOOLEAN
    OBVIOUS
  <2>3. p <=> q
    <3> HIDE DEF r
    <3> QED BY <1>1, <1>6, <1>7
  <2> HIDE DEF t, p, q
  <2> QED BY <1>11, <1>15, <2>1, <2>2, <2>3, Zenon
<1>16. CASE ins.funct = "blt"
  <2> DEFINE p == r >= K /\ r # 0
             q == sa < sb
  <2>1. (t("blt") <=> p) /\ MeansTaken("blt") = q
    BY DEF Taken, MeansTaken, sa, sb
  <2>2. q \in BOOLEAN
    OBVIOUS
  <2>3. (p <=> q) <=> ~DifferenceOverflows
    <3> HIDE DEF r, K
    <3> QED BY <1>1, <1>6, <1>7, <1>9, <1>10
  <2> HIDE DEF t, p, q
  <2> QED BY <1>11, <1>16, <2>1, <2>2, <2>3, Zenon
<1>17. CASE ins.funct = "bge"
  <2> DEFINE p == ~(r >= K) \/ r = 0
             q == sa >= sb
  <2>1. (t("bge") <=> p) /\ MeansTaken("bge") = q
    BY DEF Taken, MeansTaken, sa, sb
  <2>2. q \in BOOLEAN
    OBVIOUS
  <2>3. (p <=> q) <=> ~DifferenceOverflows
    <3> HIDE DEF r, K
    <3> QED BY <1>1, <1>6, <1>7, <1>9, <1>10
  <2> HIDE DEF t, p, q
  <2> QED BY <1>11, <1>17, <2>1, <2>2, <2>3, Zenon
<1> QED BY <1>2, <1>12, <1>13, <1>14, <1>15, <1>16, <1>17 DEF Branches

\* A bitwise operation gives the ones it should.
LEMMA LogicMeans ==
  ASSUME Operands, ins.class # "branch", ins.funct \in BitOps
  PROVE  IsBitOp(ins.funct, a, b, Executed.result)
<1> DEFINE f == ins.funct
           S == CASE f = "and" -> Ones(a) \cap Ones(b)
                  [] f = "or"  -> Ones(a) \cup Ones(b)
                  [] f = "xor" -> (Ones(a) \cup Ones(b)) \ (Ones(a) \cap Ones(b))
<1>1. ~ins.w /\ AluControl(ins) = f /\ f \in {"and", "or", "xor"}
  BY InstrForms DEF Operands, AluControl, WForms, BitOps
<1>2. AluIn(a, ins.w) = a /\ AluIn(b, ins.w) = b /\ \A r : AluOut(r, ins.w) = r
  BY <1>1 DEF AluIn, AluOut
<1>3. S \in SUBSET (0 .. Bits - 1)
  BY <1>1 DEF Ones
<1>4. Yield(f) = WithOnes(S)
  <2>1. {k \in Ones(a) : k \in Ones(b)} = Ones(a) \cap Ones(b)
    OBVIOUS
  <2>2. {k \in 0 .. Bits - 1 : (k \in Ones(a)) # (k \in Ones(b))}
          = (Ones(a) \cup Ones(b)) \ (Ones(a) \cap Ones(b))
    BY DEF Ones
  <2> QED BY <1>1, <1>2, <2>1, <2>2 DEF Yield, AluResult
<1>5. Executed.result = WithOnes(S)
  BY <1>1, <1>2, <1>4, ExecutedIs
<1>6. Ones(Executed.result) = S
  <2> HIDE DEF S
  <2> QED BY <1>3, <1>5, OnesOfWord
<1> QED BY <1>6 DEF IsBitOp

\* The distance of a 32-bit shift is the low bits of the whole operand.
LEMMA ShiftDistance ==
  ASSUME b \in Nat
  PROVE  (b % Half32) % (Bits \div 2) = b % (Bits \div 2)
<1> DEFINE h == Bits \div 2
           H == Half32
           d == H \div h
<1>1. h \in Nat \ {0} /\ H \in Nat \ {0} /\ H % h = 0
  BY HalvesOfWord, AluAssumption DEF Half32
<1> HIDE DEF h, H
<1>2. d \in Int /\ H = h * d
  <2>1. H \in Int /\ H \div h \in Int /\ H = (h * (H \div h)) + (H % h)
    BY <1>1, Division
  <2> QED BY <1>1, <2>1
<1> HIDE DEF d
<1>3. d \in Nat \ {0}
  BY <1>1, <1>2
<1>4. (b % (h * d)) % h = b % h
  <2>1. b \in Int
    OBVIOUS
  <2> QED BY <1>1, <1>3, <2>1, RemainderOfRemainder, Zenon
<1> QED BY <1>2, <1>4 DEF h, H

\* What a 32-bit form loses above the lower half does not matter.
LEMMA LowerHalf ==
  ASSUME NEW n \in Int
  PROVE  (n % Whole) % Half32 = n % Half32
<1>1. Half32 \in Nat \ {0} /\ Whole = Half32 * Half32
  BY HalvesOfWord
<1> QED BY <1>1, RemainderOfRemainder

\* The operand of a 32-bit form.
LEMMA OperandTypes ==
  ASSUME Operands
  PROVE  /\ a \in Nat /\ b \in Nat /\ Whole \in Nat \ {0} /\ Half32 \in Nat \ {0}
         /\ a % Half32 \in 0 .. Half32 - 1 /\ b % Half32 \in 0 .. Half32 - 1
         /\ Bits \in Nat \ {0} /\ Bits \div 2 \in Nat \ {0}
<1>1. Whole \in Nat \ {0} /\ Half32 \in Nat \ {0} /\ Bits \in Nat \ {0} /\ Bits \div 2 \in Nat \ {0}
  BY HalvesOfWord
<1>2. a \in Nat /\ b \in Nat
  BY <1>1 DEF Operands
<1> DEFINE H == Half32
<1> HIDE DEF H
<1>3. H \in Nat \ {0} => a % H \in 0 .. H - 1 /\ b % H \in 0 .. H - 1
  BY <1>2
<1> QED BY <1>1, <1>2, <1>3 DEF H

\* A shift to the right does not lengthen a word.
LEMMA ShortAfterShift ==
  ASSUME NEW x \in Nat, NEW W \in Nat, x < W, NEW p \in Nat \ {0}
  PROVE  x \div p \in 0 .. W - 1
<1>1. x \div p \in Int /\ x % p \in 0 .. p - 1 /\ x = (p * (x \div p)) + (x % p)
  BY Division
<1> DEFINE q == x \div p
           r == x % p
<1> HIDE DEF q, r
<1>2. q >= 0
  <2>1. ~(q <= -1)
    <3> SUFFICES ASSUME q <= -1 PROVE FALSE
      OBVIOUS
    <3>1. p * q <= p * (-1)
      BY <1>1 DEF q, r
    <3> QED BY <1>1, <3>1 DEF q, r
  <2> QED BY <1>1, <2>1 DEF q
<1>3. q <= p * q
  BY <1>1, <1>2 DEF q
<1> QED BY <1>1, <1>2, <1>3 DEF q, r

\* An operation on whole words yields the number the instruction set says.
LEMMA WordNumbersMean ==
  ASSUME Operands, ins.class # "branch", ins.funct \notin BitOps, ~ins.w
  PROVE  Executed.result = Meaning(ins)
<1> DEFINE c == AluControl(ins)
           n == Number(ins, a, b, Bits)
           s == b % Bits
<1>1. /\ ins.funct \in {"add", "sll", "slt", "sltu", "srl"}
      /\ ins.funct = "sll" => ~ins.alt /\ ins.alt \in BOOLEAN
      /\ ins.class \in {"register", "immediate", "address"}
      /\ ins.class = "address" => ins.funct = "add" /\ ~ins.alt
  BY InstrForms DEF Operands, Funct, BitOps
<1>2. /\ Executed.result = Yield(c)
      /\ AluIn(a, ins.w) = a /\ AluIn(b, ins.w) = b
      /\ Meaning(ins) = n % Whole
      /\ ShiftBy(b, ins.w) = s /\ Pow2[Bits] = Whole
  BY ExecutedIs, Zenon DEF AluOut, AluIn, Meaning, ShiftBy, Whole
<1>3. /\ a \in Nat /\ b \in Nat /\ a < Whole /\ b < Whole /\ Whole \in Nat /\ Whole > 1
      /\ s \in Nat /\ Pow2[s] \in Nat \ {0}
  <2>1. Whole > 1
    <3>1. PICK e \in Nat \ {0} : Half32 = 2 * e /\ Whole = Half32 * Half32
      BY HalvesOfWord
    <3> QED BY <3>1
  <2>2. s \in Nat
    BY OperandTypes
  <2> QED BY <2>1, <2>2, OperandTypes, PowersPositive DEF Operands
<1>4. CASE ins.funct = "add"
  <2>1. CASE ins.class = "register" /\ ins.alt
    <3>1. c = "sub" /\ n = a - b
      BY <1>4, <2>1 DEF AluControl, Number
    <3>2. Yield("sub") = (a - b) % Whole
      BY <1>2 DEF Yield, AluResult
    <3> QED BY <1>2, <3>1, <3>2
  <2>2. CASE ~(ins.class = "register" /\ ins.alt)
    <3>1. c = "add" /\ n = a + b
      BY <1>1, <1>4, <2>2 DEF AluControl, Number
    <3>2. Yield("add") = (a + b) % Whole
      BY <1>2 DEF Yield, AluResult
    <3> QED BY <1>2, <3>1, <3>2
  <2> QED BY <2>1, <2>2
<1>5. CASE ins.funct = "sll"
  <2>1. c = "sll" /\ n = a * Pow2[s]
    BY <1>1, <1>5 DEF AluControl, Number
  <2>2. Yield("sll") = (a * Pow2[s]) % Whole
    BY <1>2 DEF Yield, AluResult
  <2> QED BY <1>2, <2>1, <2>2
<1>6. CASE ins.funct = "srl" /\ ~ins.alt
  <2>1. c = "srl" /\ n = a \div Pow2[s]
    BY <1>1, <1>6 DEF AluControl, Number
  <2>2. Yield("srl") = a \div Pow2[s]
    BY <1>2 DEF Yield, AluResult
  <2>3. n % Whole = n
    <3> DEFINE p == Pow2[s]
    <3>1. p \in Nat \ {0}
      BY <1>3
    <3> HIDE DEF p
    <3>2. a \div p \in 0 .. Whole - 1
      BY <1>3, <3>1, ShortAfterShift
    <3>3. n \in 0 .. Whole - 1
      BY <2>1, <3>2 DEF p
    <3> HIDE DEF n
    <3> QED BY <1>3, <3>3
  <2> QED BY <1>2, <2>1, <2>2, <2>3
<1>7. CASE ins.funct = "srl" /\ ins.alt
  <2>1. c = "sra" /\ n = Signed(a, Whole) \div Pow2[s]
    BY <1>1, <1>2, <1>7 DEF AluControl, Number
  <2>2. Yield("sra") = (Signed(a, Whole) \div Pow2[s]) % Whole
    BY <1>2 DEF Yield, AluResult
  <2> QED BY <1>2, <2>1, <2>2
<1>8. CASE ins.funct = "slt"
  <2>1. c = "slt" /\ n = (IF Signed(a, Whole) < Signed(b, Whole) THEN 1 ELSE 0)
    BY <1>1, <1>2, <1>8 DEF AluControl, Number
  <2>2. Yield("slt") = (IF Signed(a, Whole) < Signed(b, Whole) THEN 1 ELSE 0)
    BY <1>2 DEF Yield, AluResult
  <2>3. n % Whole = n
    BY <1>3, <2>1
  <2> QED BY <1>2, <2>1, <2>2, <2>3
<1>9. CASE ins.funct = "sltu"
  <2>1. c = "sltu" /\ n = (IF a < b THEN 1 ELSE 0)
    BY <1>1, <1>9 DEF AluControl, Number
  <2>2. Yield("sltu") = (IF a < b THEN 1 ELSE 0)
    BY <1>2 DEF Yield, AluResult
  <2>3. n % Whole = n
    BY <1>3, <2>1
  <2> QED BY <1>2, <2>1, <2>2, <2>3
<1> QED BY <1>1, <1>4, <1>5, <1>6, <1>7, <1>8, <1>9

\* Signed division of a negative half word differs from that of the word by
\* less than the half word: the sign bits a 32-bit shift should bring in.
LEMMA SignBitsMissed ==
  ASSUME NEW x \in Nat, NEW H \in Nat, NEW p \in Nat \ {0}, NEW q \in Nat \ {0},
         H = p * q, 1 < p, 1 < q, x < H
  PROVE  ((x - H) \div p) % H # (x \div p) % H
<1> DEFINE u == x \div p
           r == x % p
<1>1. u \in Int /\ r \in 0 .. p - 1 /\ x = (p * u) + r
  BY Division
<1> HIDE DEF u, r
<1>2. x - H = (p * (u - q)) + r
  BY <1>1
<1>3. (x - H) \div p = u - q
  <2> DEFINE v == u - q
  <2>1. v \in Int
    BY <1>1
  <2> HIDE DEF v
  <2>2. ((p * v) + r) \div p = v
    BY <1>1, <2>1, Quotient
  <2>3. x - H = (p * v) + r
    BY <1>2 DEF v
  <2> QED BY <2>2, <2>3 DEF v
<1>4. u \in 0 .. H - 1
  <2>1. x \div p \in 0 .. H - 1
    BY ShortAfterShift
  <2> QED BY <2>1 DEF u
<1>5. q < H
  <2>1. 2 * q <= p * q
    BY SMT
  <2> QED BY <2>1
<1>6. u % H = u
  BY <1>4
<1>7. (u - q) % H = IF u >= q THEN u - q ELSE u - q + H
  BY <1>4, <1>5
<1> QED BY <1>3, <1>4, <1>5, <1>6, <1>7 DEF u

\* A 32-bit form yields it but where it misses the sign.
LEMMA HalfNumbersMean ==
  ASSUME Operands, ins.class # "branch", ins.w
  PROVE  Executed.result = Meaning(ins)
           <=> ~(/\ ins.funct = "srl" /\ ins.alt
                 /\ a % Half32 >= Half32 \div 2 /\ b % (Bits \div 2) # 0)
<1> DEFINE c == AluControl(ins)
           H == Half32
           W == Whole
           x == a % H
           y == b % H
           h == Bits \div 2
           n == Number(ins, x, y, h)
           s == y % h
           X(r) == Signed(r % H, H) % W
<1>1. /\ ins.funct \in {"add", "sll", "srl"}
      /\ ins.funct = "sll" => ~ins.alt
      /\ ins.class \in {"register", "immediate"}
  BY InstrForms DEF Operands, WForms
<1>2. /\ Executed.result = X(Yield(c))
      /\ AluIn(a, ins.w) = x /\ AluIn(b, ins.w) = y
      /\ Meaning(ins) = X(n)
      /\ ShiftBy(y, ins.w) = s /\ Pow2[h] = H
  BY ExecutedIs, Zenon DEF AluOut, AluIn, Meaning, ShiftBy, Half32
<1>3. /\ x \in 0 .. H - 1 /\ y \in 0 .. H - 1 /\ H \in Nat \ {0} /\ W \in Nat \ {0}
      /\ h \in Nat \ {0} /\ s \in 0 .. h - 1 /\ Pow2[s] \in Nat \ {0}
      /\ s = b % h
  <2>1. /\ x \in 0 .. H - 1 /\ y \in 0 .. H - 1 /\ H \in Nat \ {0} /\ W \in Nat \ {0}
        /\ h \in Nat \ {0} /\ b \in Nat
    BY OperandTypes
  <2>2. s = b % h
    BY <2>1, ShiftDistance
  <2>3. s \in 0 .. h - 1
    <3> HIDE DEF y, h
    <3> QED BY <2>1
  <2> QED BY <2>1, <2>2, <2>3, PowersPositive
<1>4. CASE ins.funct = "add"
  <2>1. CASE ins.class = "register" /\ ins.alt
    <3>1. c = "sub" /\ n = x - y
      BY <1>4, <2>1 DEF AluControl, Number
    <3>2. Yield("sub") = (x - y) % W
      BY <1>2 DEF Yield, AluResult
    <3>3. x - y \in Int
      BY <1>3
    <3>4. ((x - y) % W) % H = (x - y) % H
      BY <3>3, LowerHalf
    <3> QED BY <1>2, <1>4, <3>1, <3>2, <3>4
  <2>2. CASE ~(ins.class = "register" /\ ins.alt)
    <3>1. c = "add" /\ n = x + y
      BY <1>1, <1>4, <2>2 DEF AluControl, Number
    <3>2. Yield("add") = (x + y) % W
      BY <1>2 DEF Yield, AluResult
    <3>3. x + y \in Int
      BY <1>3
    <3>4. ((x + y) % W) % H = (x + y) % H
      BY <3>3, LowerHalf
    <3> QED BY <1>2, <1>4, <3>1, <3>2, <3>4
  <2> QED BY <2>1, <2>2
<1>5. CASE ins.funct = "sll"
  <2>1. c = "sll" /\ n = x * Pow2[s]
    BY <1>1, <1>5 DEF AluControl, Number
  <2>2. Yield("sll") = (x * Pow2[s]) % W
    BY <1>2 DEF Yield, AluResult
  <2>3. x * Pow2[s] \in Int
    BY <1>3
  <2>4. ((x * Pow2[s]) % W) % H = (x * Pow2[s]) % H
    BY <2>3, LowerHalf
  <2> QED BY <1>2, <1>5, <2>1, <2>2, <2>4
<1>6. CASE ins.funct = "srl" /\ ~ins.alt
  <2>1. c = "srl" /\ n = x \div Pow2[s]
    BY <1>1, <1>6 DEF AluControl, Number
  <2>2. Yield("srl") = x \div Pow2[s]
    BY <1>2 DEF Yield, AluResult
  <2> QED BY <1>2, <1>6, <2>1, <2>2
<1>7. CASE ins.funct = "srl" /\ ins.alt
  <2> DEFINE p == Pow2[s]
             u == x \div p
             v == Signed(x, H) \div p
  <2>1. c = "sra" /\ n = v
    BY <1>1, <1>2, <1>7 DEF AluControl, Number
  <2>2. Yield("sra") = u % W
    <3>1. Yield("sra") = (Signed(x, W) \div p) % W
      BY <1>2 DEF Yield, AluResult
    <3>2. Signed(x, W) = x
      <4>1. x < W \div 2
        BY <1>3, HalvesOfWord
      <4> HIDE DEF x, W
      <4> QED BY <1>3, <4>1 DEF Signed
    <3> QED BY <3>1, <3>2
  <2>3. u \in Int /\ v \in Int /\ p \in Nat \ {0}
    <3> HIDE DEF x
    <3>1. Signed(x, H) \in Int
      BY <1>3 DEF Signed
    <3> DEFINE z == Signed(x, H)
    <3> HIDE DEF z, p
    <3>2. x \div p \in Int /\ z \div p \in Int
      BY <1>3, <3>1 DEF p, z
    <3> QED BY <1>3, <3>2 DEF z, p
  <2>4. (u % W) % H = u % H
    BY <2>3, LowerHalf
  <2>5. X(u % W) = X(u)
    BY <2>4
  <2>6. Executed.result = X(u) /\ Meaning(ins) = X(v)
    BY <1>2, <2>1, <2>2, <2>5
  <2>7. CASE x < H \div 2
    <3>1. Signed(x, H) = x /\ ~(x >= H \div 2)
      <4> HIDE DEF x
      <4> QED BY <1>3, <2>7 DEF Signed
    <3> QED BY <2>6, <3>1
  <2>8. CASE ~(x < H \div 2) /\ s = 0
    <3>1. p = 1 /\ Signed(x, H) = x - H
      <4> HIDE DEF x
      <4> QED BY <1>3, <2>8, PowersOfTwo DEF Signed
    <3>2. u = x /\ v = x - H
      <4> HIDE DEF x, p
      <4> QED BY <1>3, <3>1
    <3>3. (x - H) % H = x % H
      <4> HIDE DEF x
      <4> QED BY <1>3
    <3> HIDE DEF x, u, v
    <3> QED BY <1>3, <2>6, <2>8, <3>2, <3>3
  <2>9. CASE ~(x < H \div 2) /\ s # 0
    <3>1. PICK e \in Nat \ {0} : H = 2 * e /\ H <= W
      <4>1. PICK e \in Nat \ {0} : /\ H = 2 * e /\ W \div 2 >= H /\ W \in Nat
        BY HalvesOfWord
      <4> QED BY <4>1
    <3>2. H = p * Pow2[h - s] /\ 1 < p /\ 1 < Pow2[h - s] /\ Pow2[h - s] \in Nat \ {0}
      <4> DEFINE d == h - s
      <4> HIDE DEF s, h
      <4>1. s \in Nat \ {0} /\ d \in Nat \ {0} /\ s + d = h
        BY <1>3, <2>9
      <4> HIDE DEF d
      <4>2. Pow2[h] = Pow2[s] * Pow2[d] /\ Pow2[d] \in Nat \ {0}
        BY <4>1, PowersAdd, PowersPositive
      <4>3. \A m \in Nat \ {0} : 1 < Pow2[m]
        <5> TAKE m \in Nat \ {0}
        <5> DEFINE k == m - 1
        <5>1. k \in Nat /\ k + 1 = m
          OBVIOUS
        <5> HIDE DEF k
        <5>2. Pow2[m] = 2 * Pow2[k] /\ Pow2[k] \in Nat \ {0}
          BY <5>1, PowersOfTwo, PowersPositive
        <5> QED BY <5>2
      <4>4. 1 < Pow2[s] /\ 1 < Pow2[d]
        BY <4>1, <4>3
      <4> QED BY <1>2, <4>2, <4>4 DEF d
    <3>3. v = (x - H) \div p
      <4>1. Signed(x, H) = x - H
        <5> HIDE DEF x
        <5> QED BY <1>3, <2>9 DEF Signed
      <4> QED BY <4>1
    <3>4. v % H # u % H
      <4> DEFINE q == Pow2[h - s]
      <4> HIDE DEF q, p
      <4>1. p \in Nat \ {0} /\ q \in Nat \ {0} /\ H = p * q /\ 1 < p /\ 1 < q
        BY <2>3, <3>2 DEF q
      <4>2. x \in Nat /\ x < H /\ H \in Nat
        BY <1>3
      <4> HIDE DEF x, H
      <4>3. ((x - H) \div p) % H # (x \div p) % H
        BY <4>1, <4>2, SignBitsMissed
      <4> QED BY <3>3, <4>3 DEF H
    <3>5. v % H \in 0 .. H - 1 /\ u % H \in 0 .. H - 1
      <4> HIDE DEF v, u, H
      <4> QED BY <1>3, <2>3
    <3>6. X(v) # X(u)
      <4> DEFINE vv == v % H
                 uu == u % H
      <4> HIDE DEF vv, uu, H, W
      <4>1. Signed(vv, H) % W = Signed(uu, H) % W => vv = uu
        BY <1>3, <3>1, <3>5, SignedTellsApart DEF vv, uu
      <4> QED BY <3>4, <4>1 DEF vv, uu, H, W
    <3> QED BY <1>3, <1>7, <2>6, <2>9, <3>6
  <2> QED BY <2>7, <2>8, <2>9
<1> QED BY <1>1, <1>4, <1>5, <1>6, <1>7

\* What execution yields: the word an instruction means, but for two kinds.
LEMMA ExecutionMeans ==
  ASSUME Operands
  PROVE  AsTheIsaSays(ins, Executed) <=>
           ~ \/ ins.class = "branch" /\ ins.funct \in {"blt", "bge"} /\ DifferenceOverflows
             \/ /\ ins.class # "branch" /\ ins.funct = "srl" /\ ins.alt /\ ins.w
                /\ a % Half32 >= Half32 \div 2 /\ b % (Bits \div 2) # 0
<1>1. CASE ins.class = "branch"
  <2>1. AsTheIsaSays(ins, Executed) <=> Executed.taken = MeansTaken(ins.funct)
    BY <1>1, Zenon DEF AsTheIsaSays
  <2> QED BY <1>1, <2>1, BranchesMean, Zenon
<1>2. CASE ins.class # "branch" /\ ins.funct \in BitOps
  <2>1. AsTheIsaSays(ins, Executed) <=> IsBitOp(ins.funct, a, b, Executed.result)
    BY <1>2, Zenon DEF AsTheIsaSays
  <2>2. ins.funct # "srl"
    BY <1>2 DEF BitOps
  <2> QED BY <1>2, <2>1, <2>2, LogicMeans, Zenon
<1>3. CASE ins.class # "branch" /\ ins.funct \notin BitOps
  <2>1. AsTheIsaSays(ins, Executed) <=> Executed.result = Meaning(ins)
    BY <1>3, Zenon DEF AsTheIsaSays
  <2>2. CASE ins.w
    BY <1>3, <2>1, <2>2, HalfNumbersMean, Zenon
  <2>3. CASE ~ins.w
    BY <1>3, <2>1, <2>3, WordNumbersMean, Zenon
  <2> QED BY <2>2, <2>3
<1> QED BY <1>1, <1>2, <1>3

\* What an instruction is executed on does not change, and it is executed once.
AluInv == Operands /\ out \in {{}, {Executed}}

\* The unit starts with its invariant.
LEMMA AluStarts == AluInit => AluInv
BY DEF AluInit, AluInv, Operands

\* Execution keeps the unit's invariant.
LEMMA AluSteps == AluInv /\ [Execute]_aluVars => AluInv'
<1> SUFFICES ASSUME AluInv, [Execute]_aluVars PROVE AluInv'
  OBVIOUS
<1>1. UNCHANGED <<ins, a, b>> /\ out' \in {out, {Executed}}
  BY DEF Execute, aluVars
<1>2. Operands' /\ Executed' = Executed
  <2>1. ins' = ins /\ a' = a /\ b' = b
    BY <1>1
  <2>2. Operands'
    BY <2>1 DEF AluInv, Operands
  <2>3. Executed' = Executed
    BY <2>1, Zenon DEF Executed
  <2> QED BY <2>2, <2>3
<1> QED BY <1>1, <1>2 DEF AluInv

\* The unit's invariant is what the run checks of it.
LEMMA AluInvMeets == AluInv => MeetsIsaBut
<1> SUFFICES ASSUME AluInv, NEW o \in out PROVE o = Executed /\ Operands
  BY ExecutionMeans DEF MeetsIsaBut
<1> QED BY DEF AluInv

\* What execution yields is a word and a decision.
LEMMA ExecutedTypes ==
  ASSUME Operands
  PROVE  Executed.result \in 0 .. Whole - 1 /\ Executed.taken \in BOOLEAN
<1> DEFINE W == Whole
           c == AluControl(ins)
<1>1. W \in Nat \ {0} /\ Half32 \in Nat \ {0} /\ a \in 0 .. W - 1 /\ b \in 0 .. W - 1 /\ W > 1
  <2>1. PICK e \in Nat \ {0} : Half32 = 2 * e /\ W = Half32 * Half32
    BY HalvesOfWord
  <2>2. W > 1
    BY <2>1
  <2> QED BY <2>1, <2>2, OperandTypes DEF Operands
<1>2. \A n \in Int : n % W \in 0 .. W - 1
  <2> HIDE DEF W
  <2> QED BY <1>1
<1>3. Executed.taken \in BOOLEAN
  BY ExecutedIs, Zenon DEF Taken
<1>4. CASE ins.w
  <2> DEFINE r == Yield(c)
             s == Signed(r % Half32, Half32)
  <2>1. Executed.result = s % W
    BY <1>4, ExecutedIs DEF AluOut
  <2>2. r \in Int
    <3>1. /\ ins.funct \in {"add", "sll", "srl"}
          /\ ins.funct = "sll" => ~ins.alt
          /\ ins.class \in {"register", "immediate", "branch", "address"}
      BY <1>4, InstrForms DEF Operands, WForms
    <3>2. c \in {"add", "sub", "sll", "srl", "sra"}
      BY <1>4, <3>1, InstrForms DEF Operands, AluControl
    <3> DEFINE x == AluIn(a, ins.w)
               y == AluIn(b, ins.w)
               p == Pow2[ShiftBy(y, ins.w)]
    <3>3. x \in Nat /\ y \in Nat /\ ShiftBy(y, ins.w) \in Nat
      <4>1. x = a % Half32 /\ y = b % Half32
        BY <1>4 DEF AluIn
      <4>2. x \in Nat /\ y \in Nat
        BY <4>1, OperandTypes
      <4> HIDE DEF x, y
      <4>3. ShiftBy(y, ins.w) = y % (Bits \div 2)
        BY <1>4 DEF ShiftBy
      <4> QED BY <4>2, <4>3, OperandTypes
    <3>4. p \in Nat \ {0}
      BY <3>3, PowersPositive
    <3> HIDE DEF x, y, p, W
    <3>5. /\ (x + y) % W \in Int /\ (x - y) % W \in Int /\ (x * p) % W \in Int
          /\ x \div p \in Int
      BY <1>2, <3>3, <3>4
    <3>6. (Signed(x, W) \div p) % W \in Int
      <4> DEFINE z == Signed(x, W)
      <4>1. z \in Int
        BY <1>1, <3>3 DEF Signed
      <4> HIDE DEF z
      <4>2. z \div p \in Int
        BY <3>4, <4>1
      <4> QED BY <1>2, <4>2 DEF z
    <3>7. CASE c = "add"
      BY <3>5, <3>7 DEF Yield, AluResult, x, y, W
    <3>8. CASE c = "sub"
      BY <3>5, <3>8 DEF Yield, AluResult, x, y, W
    <3>9. CASE c = "sll"
      BY <3>5, <3>9 DEF Yield, AluResult, x, y, p, W
    <3>10. CASE c = "srl"
      BY <3>5, <3>10 DEF Yield, AluResult, x, y, p
    <3>11. CASE c = "sra"
      BY <3>6, <3>11 DEF Yield, AluResult, x, y, p, W
    <3> QED BY <3>2, <3>7, <3>8, <3>9, <3>10, <3>11
  <2>3. s \in Int
    <3> HIDE DEF r
    <3> QED BY <1>1, <2>2 DEF Signed
  <2> HIDE DEF s, W
  <2> QED BY <1>2, <1>3, <2>1, <2>3 DEF W
<1>5. CASE ~ins.w
  <2>1. AluIn(a, ins.w) = a /\ AluIn(b, ins.w) = b /\ Executed.result = Yield(c)
    BY <1>5, ExecutedIs DEF AluIn, AluOut
  <2>2. CASE ins.class = "branch"
    <3>1. c = "sub"
      BY <2>2, InstrForms DEF Operands, AluControl
    <3>2. Yield("sub") = (a - b) % W
      BY <2>1 DEF Yield, AluResult
    <3>3. a - b \in Int
      BY <1>1
    <3> HIDE DEF W
    <3> QED BY <1>2, <1>3, <2>1, <3>1, <3>2, <3>3 DEF W
  <2>3. CASE ins.class # "branch" /\ ins.funct \notin BitOps
    <3>1. Executed.result = Number(ins, a, b, Bits) % W
      BY <1>5, <2>3, WordNumbersMean DEF Meaning
    <3>2. Number(ins, a, b, Bits) \in Int
      <4> DEFINE p == Pow2[b % Bits]
      <4>1. p \in Nat \ {0}
        <5>1. b % Bits \in Nat
          BY OperandTypes
        <5> QED BY <5>1, PowersPositive
      <4>2. /\ ins.funct \in {"add", "sll", "slt", "sltu", "srl"} /\ ins.alt \in BOOLEAN
            /\ Pow2[Bits] = W
        BY <2>3, InstrForms, Zenon DEF Operands, Funct, BitOps, Whole
      <4> HIDE DEF p, W
      <4>3. a \in Int /\ b \in Int /\ Signed(a, W) \in Int
        BY <1>1 DEF Signed
      <4> DEFINE z == Signed(a, W)
      <4>4. z \in Int
        BY <4>3
      <4> HIDE DEF z
      <4>5. a - b \in Int /\ a + b \in Int /\ a * p \in Int /\ a \div p \in Int /\ z \div p \in Int
        BY <4>1, <4>3, <4>4
      <4>6. CASE ins.funct = "add"
        BY <4>5, <4>6 DEF Number
      <4>7. CASE ins.funct = "sll"
        BY <4>5, <4>7 DEF Number, p
      <4>8. CASE ins.funct = "srl"
        BY <4>2, <4>5, <4>8 DEF Number, p, z
      <4>9. CASE ins.funct \in {"slt", "sltu"}
        BY <4>9 DEF Number
      <4> QED BY <4>2, <4>6, <4>7, <4>8, <4>9
    <3> DEFINE n == Number(ins, a, b, Bits)
    <3> HIDE DEF W, n
    <3> QED BY <1>2, <1>3, <3>1, <3>2 DEF W, n
  <2>4. CASE ins.class # "branch" /\ ins.funct \in BitOps
    <3>1. c = ins.funct /\ ins.funct \in {"and", "or", "xor"}
      BY <2>4 , InstrForms DEF Operands, AluControl, BitOps
    <3> DEFINE S1 == {k \in Ones(a) : k \in Ones(b)}
               S2 == Ones(a) \cup Ones(b)
               S3 == {k \in 0 .. Bits - 1 : (k \in Ones(a)) # (k \in Ones(b))}
    <3>2. S1 \in SUBSET (0 .. Bits - 1) /\ S2 \in SUBSET (0 .. Bits - 1) /\ S3 \in SUBSET (0 .. Bits - 1)
      BY DEF Ones
    <3>3. Yield(c) \in {WithOnes(S1), WithOnes(S2), WithOnes(S3)}
      BY <2>1, <3>1 DEF Yield, AluResult
    <3> HIDE DEF S1, S2, S3
    <3>4. \A S \in {S1, S2, S3} : WithOnes(S) \in 0 .. W - 1
      BY <3>2, OnesOfWord
    <3> QED BY <1>3, <2>1, <3>3, <3>4
  <2> QED BY <2>2, <2>3, <2>4
<1> QED BY <1>4, <1>5

\* The unit's invariant bounds the result.
LEMMA AluInvTypes == AluInv => AluTypeOK
<1> SUFFICES ASSUME AluInv PROVE AluTypeOK
  OBVIOUS
<1>1. Operands /\ \A o \in out : o = Executed
  BY DEF AluInv
<1>2. \A o \in out : o.result \in 0 .. Whole - 1 /\ o.taken \in BOOLEAN
  BY <1>1, ExecutedTypes
<1> QED BY <1>1, <1>2 DEF AluTypeOK, Operands

-----------------------------------------------------------------------------
\* The sums of numbers are numbers, and do not fall.
LEMMA SumsRise ==
  ASSUME NEW n \in Nat, NEW term \in [1 .. n -> Nat], NEW f, Summed(n, term, f)
  PROVE  /\ f \in [0 .. n -> Nat] /\ f[0] = 0
         /\ \A k \in 1 .. n : f[k] = f[k - 1] + term[k]
         /\ \A k \in 0 .. n : \A j \in 0 .. k : f[j] <= f[k]
<1>1. ASSUME NEW k \in 0 .. n PROVE f[k] = IF k = 0 THEN 0 ELSE f[k - 1] + term[k]
  BY DEF Summed
<1> DEFINE S == {k \in Nat : k <= n => /\ f[k] \in Nat
                                      /\ \A j \in 0 .. k : f[j] \in Nat /\ f[j] <= f[k]}
<1>2. 0 \in S
  <2>1. f[0] = 0 /\ \A j \in 0 .. 0 : j = 0
    BY <1>1
  <2> QED BY <2>1
<1>3. ASSUME NEW k \in S PROVE k + 1 \in S
  <2> SUFFICES ASSUME k + 1 <= n
               PROVE  /\ f[k + 1] \in Nat
                      /\ \A j \in 0 .. k + 1 : f[j] \in Nat /\ f[j] <= f[k + 1]
    OBVIOUS
  <2>1. k \in Nat /\ k + 1 \in 1 .. n /\ k + 1 \in 0 .. n /\ k + 1 # 0 /\ (k + 1) - 1 = k
    OBVIOUS
  <2>2. f[k + 1] = f[k] + term[k + 1] /\ term[k + 1] \in Nat
    BY <1>1, <2>1
  <2>3. f[k] \in Nat /\ \A j \in 0 .. k : f[j] \in Nat /\ f[j] <= f[k]
    BY <2>1
  <2>4. f[k + 1] \in Nat /\ f[k] <= f[k + 1]
    BY <2>2, <2>3
  <2>5. ASSUME NEW j \in 0 .. k + 1 PROVE f[j] \in Nat /\ f[j] <= f[k + 1]
    <3>1. CASE j = k + 1
      BY <2>4, <3>1
    <3>2. CASE j # k + 1
      <4>1. j \in 0 .. k
        BY <2>1, <3>2
      <4> QED BY <2>3, <2>4, <4>1
    <3> QED BY <3>1, <3>2
  <2> QED BY <2>4, <2>5
<1>4. S = Nat
  <2>1. S \in SUBSET Nat
    OBVIOUS
  <2> HIDE DEF S
  <2> QED BY <1>2, <1>3, <2>1, EveryNumber
<1>5. \A k \in 0 .. n : f[k] \in Nat /\ \A j \in 0 .. k : f[j] <= f[k]
  BY <1>4
<1>6. f \in [0 .. n -> Nat]
  <2>1. f = [k \in 0 .. n |-> f[k]]
    BY DEF Summed
  <2> QED BY <1>5, <2>1
<1>7. f[0] = 0 /\ \A k \in 1 .. n : f[k] = f[k - 1] + term[k]
  BY <1>1
<1> QED BY <1>5, <1>6, <1>7

\* A patch is of one to three instructions.
LEMMA PatchLengths ==
  ASSUME NEW i \in Instructions
  PROVE  /\ i.op \notin Loads => InstrPatch(i) = <<i>>
         /\ i.op \in Loads /\ i.rd # i.rs1 => InstrPatch(i) = <<i, i>>
         /\ i.op \in Loads /\ i.rd = i.rs1 =>
              InstrPatch(i) = <<Move(Temp, i.rd), [i EXCEPT !.rs1 = Temp], [i EXCEPT !.rs1 = Temp]>>
         /\ Len(InstrPatch(i)) \in 1 .. 3
         /\ Len(InstrPatch(i)) = 3 => i.op \in Loads /\ i.rd = i.rs1
         /\ i.op \in Loads => Len(InstrPatch(i)) # 1
BY DEF InstrPatch

\* Where the patches of a source begin.
LEMMA PatchesInOrder ==
  ASSUME NEW src \in Sources
  PROVE  /\ src \in Seq(Instructions) /\ Len(src) \in Nat \ {0}
         /\ Begins(src) \in [0 .. Len(src) -> Nat] /\ Begins(src)[0] = 0
         /\ \A k \in 1 .. Len(src) : Begins(src)[k] = Begins(src)[k - 1] + Len(InstrPatch(src[k]))
         /\ \A k \in 0 .. Len(src) : \A j \in 0 .. k : Begins(src)[j] <= Begins(src)[k]
<1> DEFINE n == Len(src)
           term == [k \in 1 .. n |-> Len(InstrPatch(src[k]))]
           Def(f) == f = [k \in 0 .. n |-> IF k = 0 THEN 0 ELSE f[k - 1] + Len(InstrPatch(src[k]))]
           B == Begins(src)
<1>1. src \in Seq(Instructions) /\ src # <<>>
  BY PatchAssumption
<1>2. n \in Nat \ {0} /\ \A k \in 1 .. n : src[k] \in Instructions
  BY <1>1
<1>3. \A k \in 1 .. n : Len(InstrPatch(src[k])) \in Nat
  <2>1. \A k \in 1 .. n : Len(InstrPatch(src[k])) \in 1 .. 3
    BY <1>2, PatchLengths
  <2> QED BY <2>1
<1>4. term \in [1 .. n -> Nat]
  BY <1>3
<1>5. ASSUME NEW f PROVE Def(f) <=> Summed(n, term, f)
  <2>1. \A k \in 0 .. n : k # 0 => term[k] = Len(InstrPatch(src[k]))
    BY <1>2
  <2> DEFINE left == [k \in 0 .. n |-> IF k = 0 THEN 0 ELSE f[k - 1] + Len(InstrPatch(src[k]))]
             right == [k \in 0 .. n |-> IF k = 0 THEN 0 ELSE f[k - 1] + term[k]]
  <2>2. left = right
    <3> HIDE DEF term
    <3> QED BY <2>1
  <2> QED BY <2>2, Zenon DEF Summed
<1>6. \E f : Def(f)
  <2> HIDE DEF term, Def, n
  <2>1. PICK f \in [0 .. n -> Nat] : Summed(n, term, f)
    BY <1>2, <1>4, SumsExist
  <2> QED BY <1>5, <2>1
<1>7. Def(B)
  <2>1. B = CHOOSE f : Def(f)
    BY Zenon DEF Begins
  <2> HIDE DEF Def, B
  <2> QED BY <1>6, <2>1
<1>8. Summed(n, term, B)
  BY <1>5, <1>7, Zenon
<1>9. /\ B \in [0 .. n -> Nat] /\ B[0] = 0
      /\ \A k \in 1 .. n : B[k] = B[k - 1] + term[k]
      /\ \A k \in 0 .. n : \A j \in 0 .. k : B[j] <= B[k]
  <2> HIDE DEF n, term, B
  <2> QED BY <1>2, <1>4, <1>8, SumsRise
<1>10. \A k \in 1 .. n : term[k] = Len(InstrPatch(src[k]))
  OBVIOUS
<1> HIDE DEF term
<1> QED BY <1>1, <1>2, <1>9, <1>10

-----------------------------------------------------------------------------
\* The weights of the lanes.
LEMMA LaneWeights ==
  /\ Place[0] = 1
  /\ \A k \in 0 .. Lanes - 1 : Place[k + 1] = LaneSize * Place[k]
  /\ \A k \in 0 .. Lanes : /\ Place[k] \in Nat \ {0}
                           /\ \A j \in 0 .. k : Place[j] <= Place[k]
<1> DEFINE Def(f) == f = [k \in 0 .. Lanes |-> IF k = 0 THEN 1 ELSE LaneSize * f[k - 1]]
           step == [k \in 0 .. Lanes |-> [v \in Nat |-> LaneSize * v]]
<1>1. Lanes \in Nat \ {0} /\ LaneSize \in Nat /\ LaneSize > 1
  BY CoreAssumption, LanesAssumption
<1>2. PICK f : Recursive(Nat, 1, step, f, 0 .. Lanes)
  <2>1. step \in [0 .. Lanes -> [Nat -> Nat]]
    BY <1>1
  <2> HIDE DEF step
  <2> QED BY <1>1, <2>1, RecursionUpto
<1>3. Def(f)
  <2>1. f \in [0 .. Lanes -> Nat]
    BY <1>2, Zenon DEF Recursive
  <2>2. ASSUME NEW k \in 0 .. Lanes PROVE f[k] = IF k = 0 THEN 1 ELSE LaneSize * f[k - 1]
    <3>1. f[k] = IF k = 0 THEN 1 ELSE step[k][f[k - 1]]
      <4> HIDE DEF step
      <4> QED BY <1>2, Zenon DEF Recursive
    <3>2. k # 0 => f[k - 1] \in Nat
      BY <1>1, <2>1
    <3>3. k # 0 => step[k][f[k - 1]] = LaneSize * f[k - 1]
      BY <3>2
    <3> HIDE DEF step
    <3> QED BY <3>1, <3>3
  <2> HIDE DEF step
  <2> QED BY <2>1, <2>2
<1> DEFINE P == Place
<1>4. Def(P)
  <2>1. P = CHOOSE g : Def(g)
    BY Zenon DEF Place
  <2> HIDE DEF Def, P
  <2> QED BY <1>3, <2>1
<1>5. ASSUME NEW k \in 0 .. Lanes PROVE P[k] = IF k = 0 THEN 1 ELSE LaneSize * P[k - 1]
  <2> HIDE DEF P
  <2> QED BY <1>4
<1> HIDE DEF P, Def, step
<1>6. P[0] = 1 /\ \A k \in 0 .. Lanes - 1 : P[k + 1] = LaneSize * P[k]
  <2>1. P[0] = 1
    BY <1>1, <1>5
  <2>2. ASSUME NEW k \in 0 .. Lanes - 1 PROVE P[k + 1] = LaneSize * P[k]
    <3>1. k + 1 \in 0 .. Lanes /\ k + 1 # 0 /\ (k + 1) - 1 = k
      BY <1>1
    <3> QED BY <1>5, <3>1
  <2> QED BY <2>1, <2>2
<1> DEFINE S == {k \in Nat : k <= Lanes => /\ P[k] \in Nat \ {0}
                                          /\ \A j \in 0 .. k : P[j] \in Nat /\ P[j] <= P[k]}
<1>7. 0 \in S
  <2>1. \A j \in 0 .. 0 : j = 0
    OBVIOUS
  <2> QED BY <1>6, <2>1
<1>8. ASSUME NEW k \in S PROVE k + 1 \in S
  <2> SUFFICES ASSUME k + 1 <= Lanes
               PROVE  /\ P[k + 1] \in Nat \ {0}
                      /\ \A j \in 0 .. k + 1 : P[j] \in Nat /\ P[j] <= P[k + 1]
    OBVIOUS
  <2>1. k \in Nat /\ k \in 0 .. Lanes - 1
    BY <1>1
  <2>2. /\ P[k + 1] = LaneSize * P[k] /\ P[k] \in Nat \ {0}
        /\ \A j \in 0 .. k : P[j] \in Nat /\ P[j] <= P[k]
    BY <1>1, <1>6, <2>1
  <2>3. P[k + 1] \in Nat \ {0} /\ P[k] <= P[k + 1]
    <3> DEFINE p == P[k]
    <3> HIDE DEF p
    <3>1. \A z \in Nat \ {0} : LaneSize * z \in Nat \ {0} /\ z <= LaneSize * z
      BY <1>1
    <3> QED BY <2>2, <3>1 DEF p
  <2>4. ASSUME NEW j \in 0 .. k + 1 PROVE P[j] \in Nat /\ P[j] <= P[k + 1]
    <3>1. CASE j = k + 1
      BY <2>3, <3>1
    <3>2. CASE j # k + 1
      <4>1. j \in 0 .. k
        BY <2>1, <3>2
      <4> QED BY <2>2, <2>3, <4>1
    <3> QED BY <3>1, <3>2
  <2> QED BY <2>3, <2>4
<1>9. S = Nat
  <2>1. S \in SUBSET Nat
    OBVIOUS
  <2> HIDE DEF S
  <2> QED BY <1>7, <1>8, <2>1, EveryNumber
<1>10. \A k \in 0 .. Lanes : P[k] \in Nat \ {0} /\ \A j \in 0 .. k : P[j] <= P[k]
  BY <1>1, <1>9
<1> HIDE DEF S
<1> QED BY <1>6, <1>10 DEF P

\* The number that some bytes stand for fits in as many lanes.
LEMMA NumberFits ==
  ASSUME NEW n \in 0 .. Lanes, NEW bytes, \A k \in 0 .. n - 1 : bytes[k] \in 0 .. LaneSize - 1
  PROVE  NumberOf(n, bytes) \in 0 .. Place[n] - 1
<1> DEFINE Def(f) == f = [k \in 0 .. n |-> IF k = 0 THEN 0 ELSE f[k - 1] + bytes[k - 1] * Place[k - 1]]
           term == [k \in 1 .. n |-> bytes[k - 1] * Place[k - 1]]
           below == CHOOSE f : Def(f)
<1>1. n \in Nat /\ Lanes \in Nat /\ n <= Lanes /\ LaneSize \in Nat
  BY CoreAssumption, LanesAssumption
<1>2. ASSUME NEW k \in 0 .. n - 1
      PROVE  /\ Place[k] \in Nat \ {0} /\ Place[k + 1] = LaneSize * Place[k]
             /\ bytes[k] \in 0 .. LaneSize - 1
             /\ bytes[k] * Place[k] \in Nat
             /\ bytes[k] * Place[k] <= (LaneSize * Place[k]) - Place[k]
  <2>1. k \in 0 .. Lanes /\ k \in 0 .. Lanes - 1
    BY <1>1
  <2>2. Place[k] \in Nat \ {0} /\ Place[k + 1] = LaneSize * Place[k] /\ bytes[k] \in 0 .. LaneSize - 1
    BY <2>1, LaneWeights
  <2> DEFINE x == bytes[k]
             p == Place[k]
  <2> HIDE DEF x, p
  <2>3. x * p \in Nat /\ x * p <= (LaneSize * p) - p
    <3>1. x \in Nat /\ p \in Nat /\ x <= LaneSize - 1
      BY <1>1, <2>2 DEF x, p
    <3>2. x * p <= (LaneSize - 1) * p
      BY <1>1, <3>1
    <3>3. (LaneSize - 1) * p = (LaneSize * p) - p
      BY <1>1, <3>1
    <3> QED BY <3>1, <3>2, <3>3
  <2> QED BY <2>2, <2>3 DEF x, p
<1>3. term \in [1 .. n -> Nat]
  <2>1. ASSUME NEW k \in 1 .. n PROVE bytes[k - 1] * Place[k - 1] \in Nat
    <3>1. k - 1 \in 0 .. n - 1
      BY <1>1
    <3> QED BY <1>2, <3>1
  <2> QED BY <2>1
<1>4. ASSUME NEW f PROVE Def(f) <=> Summed(n, term, f)
  <2>1. \A k \in 0 .. n : k # 0 => term[k] = bytes[k - 1] * Place[k - 1]
    BY <1>1
  <2> DEFINE left == [k \in 0 .. n |-> IF k = 0 THEN 0 ELSE f[k - 1] + bytes[k - 1] * Place[k - 1]]
             right == [k \in 0 .. n |-> IF k = 0 THEN 0 ELSE f[k - 1] + term[k]]
  <2>2. left = right
    <3> HIDE DEF term
    <3> QED BY <2>1
  <2> QED BY <2>2, Zenon DEF Summed
<1>5. NumberOf(n, bytes) = below[n]
  BY Zenon DEF NumberOf
<1>6. Summed(n, term, below)
  <2>1. \E f : Def(f)
    <3> HIDE DEF term, Def
    <3>1. PICK f \in [0 .. n -> Nat] : Summed(n, term, f)
      BY <1>1, <1>3, SumsExist
    <3> QED BY <1>4, <3>1
  <2>2. Def(below)
    <3> HIDE DEF Def
    <3> QED BY <2>1
  <2> HIDE DEF below
  <2> QED BY <1>4, <2>2, Zenon
<1> HIDE DEF below
<1>7. below \in [0 .. n -> Nat] /\ below[0] = 0 /\ \A k \in 1 .. n : below[k] = below[k - 1] + term[k]
  <2> HIDE DEF term
  <2> QED BY <1>1, <1>3, <1>6, SumsRise
<1> DEFINE S == {k \in Nat : k <= n => below[k] < Place[k]}
<1>8. 0 \in S
  BY <1>7, LaneWeights
<1>9. ASSUME NEW k \in S PROVE k + 1 \in S
  <2> SUFFICES ASSUME k + 1 <= n PROVE below[k + 1] < Place[k + 1]
    OBVIOUS
  <2>1. k \in Nat /\ k \in 0 .. n - 1 /\ k + 1 \in 1 .. n /\ k \in 0 .. n /\ (k + 1) - 1 = k
    BY <1>1
  <2>2. below[k + 1] = below[k] + bytes[k] * Place[k]
    BY <1>7, <2>1
  <2>3. below[k] < Place[k] /\ below[k] \in Nat
    BY <1>7, <2>1
  <2> DEFINE t == bytes[k] * Place[k]
             p == Place[k]
             q == LaneSize * p
  <2>4. t \in Nat /\ p \in Nat /\ q \in Int /\ t <= q - p /\ Place[k + 1] = q
    <3>1. t \in Nat /\ p \in Nat /\ t <= q - p /\ Place[k + 1] = q
      BY <1>2, <2>1
    <3> HIDE DEF p, t
    <3> QED BY <1>1, <3>1
  <2> HIDE DEF t, p, q
  <2>5. below[k] < p /\ below[k + 1] = below[k] + t
    BY <2>2, <2>3 DEF t, p
  <2> QED BY <2>3, <2>4, <2>5
<1>10. S = Nat
  <2>1. S \in SUBSET Nat
    OBVIOUS
  <2> HIDE DEF S
  <2> QED BY <1>8, <1>9, <2>1, EveryNumber
<1>11. n \in 0 .. n /\ below[n] < Place[n] /\ Place[n] \in Nat
  BY <1>1, <1>10, LaneWeights
<1> HIDE DEF S, term
<1> QED BY <1>5, <1>7, <1>11

\* The widths of the accesses.
LEMMA WidthFits ==
  ASSUME NEW o \in Loads \cup Stores
  PROVE  Width(o) \in Nat \ {0} /\ Width(o) <= Lanes
<1>1. Width(o) \in {1, 2, 4, 8}
  BY DEF Width
<1> QED BY <1>1, CoreAssumption, LanesAssumption

\* What bytes mean to a load is a word.
LEMMA ValueIsWord ==
  ASSUME NEW o \in Loads, NEW bytes, \A k \in 0 .. Width(o) - 1 : bytes[k] \in 0 .. LaneSize - 1
  PROVE  ValueOf(o, bytes) \in Word
<1> DEFINE n == Width(o)
           v == NumberOf(n, bytes)
           p == Place[n]
<1>1. n \in Nat \ {0} /\ n <= Lanes /\ Lanes \in Nat /\ WordSize \in Nat
  BY WidthFits, CoreAssumption, WordAssumption
<1>2. v \in 0 .. p - 1
  <2> HIDE DEF n
  <2>1. n \in 0 .. Lanes /\ \A k \in 0 .. n - 1 : bytes[k] \in 0 .. LaneSize - 1
    BY <1>1 DEF n
  <2> QED BY <2>1, NumberFits
<1>3. p \in Nat \ {0} /\ p <= WordSize
  <2> HIDE DEF n
  <2>1. n \in 0 .. Lanes /\ Lanes \in 0 .. Lanes
    BY <1>1
  <2>2. Place[n] \in Nat \ {0} /\ Place[n] <= Place[Lanes]
    BY <2>1, LaneWeights
  <2> QED BY <2>2, LanesAssumption
<1>4. ValueOf(o, bytes) \in {v, v + WordSize - p} /\ (v + WordSize - p >= 0)
  BY <1>1, <1>2, <1>3 DEF ValueOf, Extended
<1> HIDE DEF n, v, p
<1> QED BY <1>1, <1>2, <1>3, <1>4 DEF Word

-----------------------------------------------------------------------------
\* The byte at an address is a lane of a word.
LEMMA LaneOfByte ==
  ASSUME NEW x \in 0 .. Bytes - 1
  PROVE  /\ x \div Lanes \in RamAddr /\ x % Lanes \in 0 .. Lanes - 1
         /\ x = (Lanes * (x \div Lanes)) + (x % Lanes)
<1>1. Lanes \in Nat \ {0} /\ MemWords \in Nat \ {0}
  BY CoreAssumption
<1>2. x \in Nat /\ x < Lanes * MemWords
  BY <1>1 DEF Bytes
<1> DEFINE q == x \div Lanes
           r == x % Lanes
<1>3. q \in Int /\ r \in 0 .. Lanes - 1 /\ x = (Lanes * q) + r
  BY <1>1, <1>2, Division
<1>4. q \in 0 .. MemWords - 1
  <2> HIDE DEF q, r
  <2>1. q >= 0
    <3> SUFFICES ASSUME q <= -1 PROVE FALSE
      BY <1>3
    <3>1. Lanes * q <= -Lanes
      BY <1>1, <1>3
    <3> QED BY <1>1, <1>2, <1>3, <3>1
  <2>2. q < MemWords
    <3> SUFFICES ASSUME q >= MemWords PROVE FALSE
      BY <1>1, <1>3
    <3>1. Lanes * q >= Lanes * MemWords
      BY <1>1, <1>3
    <3> QED BY <1>1, <1>2, <1>3, <3>1
  <2> QED BY <1>1, <1>3, <2>1, <2>2
<1> QED BY <1>3, <1>4 DEF RamAddr

\* Each lane of a word is a byte.
LEMMA LanesAreBytes ==
  ASSUME NEW w \in Word
  PROVE  /\ BytesIn[w] \in [0 .. Lanes - 1 -> 0 .. LaneSize - 1]
         /\ \A k \in 0 .. Lanes - 1 : BytesIn[w][k] \in 0 .. LaneSize - 1
<1>1. \A k \in 0 .. Lanes - 1 : (w \div Place[k]) % LaneSize \in 0 .. LaneSize - 1
  <2> SUFFICES ASSUME NEW k \in 0 .. Lanes - 1
               PROVE  (w \div Place[k]) % LaneSize \in 0 .. LaneSize - 1
    OBVIOUS
  <2> DEFINE p == Place[k]
             q == w \div p
  <2>1. p \in Nat \ {0}
    BY LaneWeights, CoreAssumption
  <2>2. w \in Int /\ LaneSize \in Nat \ {0}
    BY WordAssumption, LanesAssumption DEF Word
  <2> HIDE DEF p
  <2>3. q \in Int
    BY <2>1, <2>2, Division
  <2> HIDE DEF q
  <2> QED BY <2>2, <2>3, Division DEF q, p
<1>2. BytesIn[w] = [k \in 0 .. Lanes - 1 |-> (w \div Place[k]) % LaneSize]
  BY DEF BytesIn
<1> QED BY <1>1, <1>2

\* A RAM of words is a memory of bytes.
LEMMA RamIsBytes ==
  ASSUME NEW words \in [RamAddr -> Word]
  PROVE  BytesOf(words) \in [0 .. Bytes - 1 -> 0 .. LaneSize - 1]
<1>1. ASSUME NEW x \in 0 .. Bytes - 1
      PROVE  BytesIn[words[x \div Lanes]][x % Lanes] \in 0 .. LaneSize - 1
  <2>1. words[x \div Lanes] \in Word
    BY LaneOfByte
  <2> QED BY <2>1, LaneOfByte, LanesAreBytes
<1> QED BY <1>1 DEF BytesOf

-----------------------------------------------------------------------------
\* The machine without latency keeps its types.
PlainTyped == plain \in [ regs : [RegId -> Word], bytes : [0 .. Bytes - 1 -> 0 .. LaneSize - 1] ]
PlainOps == Loads \cup Stores \cup {"addi"}

\* The address of a byte, cut to the memory, is one of it.
LEMMA ByteInRam ==
  ASSUME PlainTyped, NEW i \in Instructions, NEW k \in Nat
  PROVE  Byte(i, k) \in 0 .. Bytes - 1
<1>1. plain.regs[i.rs1] \in Int /\ i.imm \in Int
  BY WordAssumption DEF PlainTyped, Instructions, Word
<1>2. Lanes \in Nat \ {0} /\ MemWords \in Nat \ {0}
  BY CoreAssumption
<1>3. Bytes \in Nat \ {0}
  BY <1>2 DEF Bytes
<1> DEFINE z == plain.regs[i.rs1] + i.imm + k
<1>4. z \in Int
  BY <1>1
<1> HIDE DEF z
<1>5. z % Bytes \in 0 .. Bytes - 1
  BY <1>3, <1>4
<1> QED BY <1>5 DEF z, Byte

\* The zero register of the machine without latency stays zero.
LEMMA PlainZero ==
  ASSUME PlainTyped, plain.regs[0] = 0, NEW i \in Instructions, i.op \in PlainOps
  PROVE  PlainAfter(i).regs[0] = 0
<1>1. i.rd \in RegId /\ 0 \in RegId
  BY CoreAssumption DEF Instructions, RegId
<1>2. \A v : Written(i.rd, v).regs[0] = 0
  BY <1>1 DEF Written, PlainTyped
<1>3. Stored(i).regs[0] = 0
  <2>1. Stored(i).regs = plain.regs
    BY DEF Stored, PlainTyped
  <2> QED BY <2>1
<1>4. \/ PlainAfter(i) = Stored(i)
      \/ \E v : PlainAfter(i) = Written(i.rd, v)
  <2>1. CASE i.op \in Loads
    <3>1. i.op \notin Stores /\ i.op # "addi"
      BY <2>1 DEF Loads, Stores
    <3> QED BY <2>1, <3>1, Zenon DEF PlainAfter
  <2>2. CASE i.op \in Stores
    <3>1. i.op \notin Loads /\ i.op # "addi"
      BY <2>2 DEF Loads, Stores
    <3> QED BY <2>2, <3>1, Zenon DEF PlainAfter
  <2>3. CASE i.op = "addi"
    <3>1. i.op \notin Loads /\ i.op \notin Stores
      BY <2>3 DEF Loads, Stores
    <3> QED BY <2>3, <3>1, Zenon DEF PlainAfter
  <2> QED BY <2>1, <2>2, <2>3 DEF PlainOps
<1> QED BY <1>2, <1>3, <1>4

\* What a source is made of keeps that machine's types.
LEMMA PlainStays ==
  ASSUME PlainTyped, NEW i \in Instructions, i.op \in PlainOps
  PROVE  PlainAfter(i) \in [ regs : [RegId -> Word], bytes : [0 .. Bytes - 1 -> 0 .. LaneSize - 1] ]
<1>1. i.rd \in RegId /\ i.rs1 \in RegId /\ i.rs2 \in RegId /\ i.imm \in Word
  BY DEF Instructions
<1>2. ASSUME NEW v \in Word
      PROVE  Written(i.rd, v) \in [ regs : [RegId -> Word], bytes : [0 .. Bytes - 1 -> 0 .. LaneSize - 1] ]
  <2>1. 0 \in Word
    BY WordAssumption DEF Word
  <2> QED BY <1>1, <1>2, <2>1 DEF Written, PlainTyped
<1>3. CASE i.op \in Loads
  <2> DEFINE bytes == [k \in 0 .. Width(i.op) - 1 |-> plain.bytes[Byte(i, k)]]
  <2>1. \A k \in 0 .. Width(i.op) - 1 : k \in Nat
    BY <1>3, WidthFits
  <2>2. \A k \in 0 .. Width(i.op) - 1 : bytes[k] \in 0 .. LaneSize - 1
    <3>1. \A x \in 0 .. Bytes - 1 : plain.bytes[x] \in 0 .. LaneSize - 1
      BY DEF PlainTyped
    <3>2. \A k \in 0 .. Width(i.op) - 1 : Byte(i, k) \in 0 .. Bytes - 1
      BY <2>1, ByteInRam
    <3> QED BY <3>1, <3>2
  <2>3. Loaded(i) = ValueOf(i.op, bytes)
    BY DEF Loaded
  <2>4. Loaded(i) \in Word
    <3> HIDE DEF bytes
    <3> QED BY <1>3, <2>2, <2>3, ValueIsWord
  <2>5. PlainAfter(i) = Written(i.rd, Loaded(i))
    <3>1. i.op \notin Stores /\ i.op # "addi"
      BY <1>3 DEF Loads, Stores
    <3> QED BY <1>3, <3>1, Zenon DEF PlainAfter
  <2> QED BY <1>2, <2>4, <2>5
<1>4. CASE i.op \in Stores
  <2> DEFINE W == 0 .. Width(i.op) - 1
             d == plain.regs[i.rs2]
             byte(x) == IF \E k \in W : x = Byte(i, k)
                        THEN BytesIn[d][CHOOSE k \in W : x = Byte(i, k)] ELSE plain.bytes[x]
  <2>1. W \subseteq 0 .. Lanes - 1
    BY <1>4, WidthFits, CoreAssumption
  <2>2. d \in Word
    BY <1>1 DEF PlainTyped
  <2>3. ASSUME NEW x \in 0 .. Bytes - 1 PROVE byte(x) \in 0 .. LaneSize - 1
    <3>1. plain.bytes[x] \in 0 .. LaneSize - 1
      BY DEF PlainTyped
    <3>2. ASSUME \E k \in W : x = Byte(i, k)
          PROVE  BytesIn[d][CHOOSE k \in W : x = Byte(i, k)] \in 0 .. LaneSize - 1
      <4> DEFINE c == CHOOSE k \in W : x = Byte(i, k)
      <4> HIDE DEF W, d
      <4>1. c \in W
        BY <3>2
      <4> HIDE DEF c
      <4>2. c \in 0 .. Lanes - 1
        BY <2>1, <4>1
      <4>3. BytesIn[d][c] \in 0 .. LaneSize - 1
        BY <2>2, <4>2, LanesAreBytes
      <4> QED BY <4>3 DEF c
    <3> QED BY <3>1, <3>2
  <2>4. PlainAfter(i) = [plain EXCEPT !.bytes = [x \in 0 .. Bytes - 1 |-> byte(x)]]
    <3>1. i.op \notin Loads /\ i.op # "addi"
      BY <1>4 DEF Loads, Stores
    <3>2. PlainAfter(i) = Stored(i)
      BY <1>4, <3>1, Zenon DEF PlainAfter
    <3> QED BY <3>2 DEF Stored
  <2> HIDE DEF byte
  <2> QED BY <2>3, <2>4 DEF PlainTyped
<1>5. CASE i.op = "addi"
  <2>1. PlainAfter(i) = Written(i.rd, Sum(plain.regs[i.rs1], i.imm))
    BY <1>5 DEF PlainAfter, Loads, Stores
  <2>2. plain.regs[i.rs1] \in Int /\ i.imm \in Int
    BY <1>1, WordAssumption DEF PlainTyped, Word
  <2> QED BY <1>2, <2>1, <2>2, SumIsWord
<1> QED BY <1>3, <1>4, <1>5 DEF PlainOps

-----------------------------------------------------------------------------
\* The patches stand in the ROM one after the other, and before its end.
LEMMA PatchApart ==
  ASSUME NEW src \in Sources, NEW j \in 1 .. Len(src), NEW k \in 1 .. Len(src), NEW p \in Nat,
         Begins(src)[j - 1] <= p, p < Begins(src)[j], Begins(src)[k - 1] <= p, p < Begins(src)[k]
  PROVE  j = k
<1> DEFINE n == Len(src)
           B == Begins(src)
<1>1. /\ n \in Nat /\ B \in [0 .. n -> Nat]
      /\ \A x \in 0 .. n : \A y \in 0 .. x : B[y] <= B[x]
  BY PatchesInOrder
<1>2. B[j - 1] <= p /\ p < B[j] /\ B[k - 1] <= p /\ p < B[k]
  OBVIOUS
<1> HIDE DEF n, B
<1>3. j \in 1 .. n /\ k \in 1 .. n
  BY DEF n
<1>4. j - 1 \in 0 .. n /\ k - 1 \in 0 .. n /\ j \in 0 .. n /\ k \in 0 .. n
  BY <1>1, <1>3
<1>5. B[j - 1] \in Nat /\ B[k - 1] \in Nat /\ B[j] \in Nat /\ B[k] \in Nat
  BY <1>1, <1>4
<1>6. ~(j <= k - 1)
  <2> SUFFICES ASSUME j <= k - 1 PROVE FALSE
    OBVIOUS
  <2>1. j \in 0 .. k - 1
    BY <1>1, <1>3, <1>4
  <2>2. B[j] <= B[k - 1]
    BY <1>1, <1>4, <2>1
  <2> QED BY <1>2, <1>5, <2>2
<1>7. ~(k <= j - 1)
  <2> SUFFICES ASSUME k <= j - 1 PROVE FALSE
    OBVIOUS
  <2>1. k \in 0 .. j - 1
    BY <1>1, <1>3, <1>4
  <2>2. B[k] <= B[j - 1]
    BY <1>1, <1>4, <2>1
  <2> QED BY <1>2, <1>5, <2>2
<1> QED BY <1>1, <1>3, <1>6, <1>7

\* Each place of a patch holds the patch's instruction there.
LEMMA RomHolds ==
  ASSUME NEW src \in Sources, NEW k \in 1 .. Len(src), NEW o \in 0 .. 2,
         o < Len(InstrPatch(src[k]))
  PROVE  /\ Begins(src)[k - 1] + o \in Nat /\ Begins(src)[k] \in Nat
         /\ Begins(src)[k - 1] + o + 1 <= Begins(src)[k]
         /\ (Begins(src)[k - 1] + o + 1 = Begins(src)[k]) <=> (o + 1 = Len(InstrPatch(src[k])))
         /\ Begins(src)[k] < RomSize
         /\ Rom(src)[Begins(src)[k - 1] + o] = InstrPatch(src[k])[o + 1]
<1> DEFINE n == Len(src)
           B == Begins(src)
           l == Len(InstrPatch(src[k]))
           p == B[k - 1] + o
<1>1. /\ n \in Nat /\ B \in [0 .. n -> Nat] /\ B[k] = B[k - 1] + l
      /\ \A x \in 0 .. n : \A y \in 0 .. x : B[y] <= B[x]
      /\ DOMAIN src = 1 .. n /\ src[k] \in Instructions
  BY PatchesInOrder
<1>2. l \in Nat /\ RomSize \in Nat /\ B[n] < RomSize
  BY <1>1, PatchLengths, PatchAssumption, CoreAssumption
<1> HIDE DEF B, l, n
<1>3. k \in 1 .. n /\ k - 1 \in 0 .. n /\ k \in 0 .. n /\ n \in 0 .. n
  BY <1>1 DEF n
<1>4. B[k - 1] \in Nat /\ B[k] \in Nat /\ B[n] \in Nat /\ B[k] <= B[n]
  BY <1>1, <1>3
<1>5. o < l
  BY DEF l
<1>6. p \in Nat /\ p + 1 <= B[k] /\ (p + 1 = B[k] <=> o + 1 = l) /\ B[k] < RomSize /\ B[k - 1] <= p
      /\ p < B[k]
  BY <1>1, <1>2, <1>4, <1>5
<1> HIDE DEF p
<1>7. p \in 0 .. RomSize - 1
  BY <1>2, <1>4, <1>6
<1> DEFINE Patches(q) == {j \in DOMAIN src : B[j - 1] <= q /\ q < B[j]}
           InstrOf(j, q) == InstrPatch(src[j])[q - B[j - 1] + 1]
<1>8. Rom(src) = [q \in 0 .. RomSize - 1 |->
         IF Patches(q) = {} THEN JumpBack(q) ELSE InstrOf(CHOOSE j \in Patches(q) : TRUE, q)]
  BY Zenon DEF Rom, B
<1>9. Patches(p) = {k}
  <2>1. k \in Patches(p)
    BY <1>1, <1>3, <1>6
  <2>2. ASSUME NEW j \in Patches(p) PROVE j = k
    <3>1. j \in 1 .. n /\ B[j - 1] <= p /\ p < B[j]
      BY <1>1
    <3> QED BY <1>6, <3>1, PatchApart DEF B, n
  <2> QED BY <2>1, <2>2
<1>10. (CHOOSE j \in {k} : TRUE) = k
  OBVIOUS
<1>11. Rom(src)[p] = InstrOf(k, p)
  <2> HIDE DEF Patches, InstrOf
  <2>1. Rom(src)[p] = IF Patches(p) = {} THEN JumpBack(p) ELSE InstrOf(CHOOSE j \in Patches(p) : TRUE, p)
    BY <1>7, <1>8
  <2> QED BY <1>9, <1>10, <2>1
<1>12. p - B[k - 1] + 1 = o + 1
  BY <1>4 DEF p
<1>13. Rom(src)[p] = InstrPatch(src[k])[o + 1]
  <2>1. Rom(src)[p] = InstrPatch(src[k])[p - B[k - 1] + 1]
    BY <1>11
  <2> QED BY <1>12, <2>1
<1>14. B[k - 1] + o + 1 = p + 1 /\ B[k - 1] + o = p
  BY <1>4 DEF p
<1> QED BY <1>4, <1>6, <1>13, <1>14 DEF B, l

\* The place after the last patch holds the jump to the start.
LEMMA RomJumpsBack ==
  ASSUME NEW src \in Sources
  PROVE  /\ Begins(src)[Len(src)] \in Nat /\ Begins(src)[Len(src)] < RomSize
         /\ Rom(src)[Begins(src)[Len(src)]] = JumpBack(Begins(src)[Len(src)])
<1> DEFINE n == Len(src)
           B == Begins(src)
           p == B[n]
<1>1. /\ n \in Nat /\ B \in [0 .. n -> Nat]
      /\ \A x \in 0 .. n : \A y \in 0 .. x : B[y] <= B[x]
      /\ DOMAIN src = 1 .. n
  BY PatchesInOrder
<1>2. RomSize \in Nat /\ p < RomSize
  BY PatchAssumption, CoreAssumption
<1> HIDE DEF B, n
<1>3. p \in Nat /\ n \in 0 .. n
  BY <1>1
<1>4. p \in 0 .. RomSize - 1
  BY <1>2, <1>3
<1> DEFINE Patches(q) == {j \in DOMAIN src : B[j - 1] <= q /\ q < B[j]}
           InstrOf(j, q) == InstrPatch(src[j])[q - B[j - 1] + 1]
<1>5. Rom(src) = [q \in 0 .. RomSize - 1 |->
         IF Patches(q) = {} THEN JumpBack(q) ELSE InstrOf(CHOOSE j \in Patches(q) : TRUE, q)]
  BY Zenon DEF Rom, B
<1>6. Patches(p) = {}
  <2> SUFFICES ASSUME NEW j \in 1 .. n, p < B[j] PROVE FALSE
    BY <1>1
  <2>1. j \in 0 .. n
    BY <1>1
  <2>2. B[j] <= B[n] /\ B[j] \in Nat
    BY <1>1, <1>3, <2>1
  <2> QED BY <1>3, <2>2
<1>7. Rom(src)[p] = JumpBack(p)
  <2> HIDE DEF Patches, InstrOf, p
  <2> QED BY <1>4, <1>5, <1>6
<1> QED BY <1>2, <1>3, <1>7 DEF B, n

-----------------------------------------------------------------------------
\* Where the core finds the bytes of an access that stays within its word.
LEMMA BytesOfAccess ==
  ASSUME NEW base \in Word, NEW imm \in Word, NEW k \in Nat,
         Offset(Sum(base, imm)) + k < Lanes
  PROVE  /\ (base + imm + k) % Bytes = (Lanes * RamWord(Sum(base, imm))) + (Offset(Sum(base, imm)) + k)
         /\ ((base + imm + k) % Bytes) \div Lanes = RamWord(Sum(base, imm))
         /\ ((base + imm + k) % Bytes) % Lanes = Offset(Sum(base, imm)) + k
         /\ (base + imm + k) % Bytes \in 0 .. Bytes - 1
<1> DEFINE z == base + imm
           A == Sum(base, imm)
           off == Offset(A)
           w == RamWord(A)
           q == z \div WordSize
           e == WordSize \div Bytes
           h == (A \div Lanes) \div MemWords
           r == (Lanes * w) + (off + k)
<1>1. /\ Lanes \in Nat \ {0} /\ MemWords \in Nat \ {0} /\ WordSize \in Nat \ {0}
      /\ WordSize % Bytes = 0 /\ z \in Int
  BY CoreAssumption, WordAssumption, LanesAssumption DEF Word
<1>2. Bytes \in Nat \ {0} /\ Bytes = Lanes * MemWords
  BY <1>1 DEF Bytes
<1>3. A = z % WordSize
  BY DEF Sum
<1> HIDE DEF z, A
<1>4. q \in Int /\ A \in 0 .. WordSize - 1 /\ z = (WordSize * q) + A
  BY <1>1, <1>3, Division
<1>5. e \in Int /\ WordSize = Bytes * e
  <2>1. WordSize \in Int
    BY <1>1
  <2>2. WordSize \div Bytes \in Int /\ WordSize = (Bytes * (WordSize \div Bytes)) + (WordSize % Bytes)
    BY <1>2, <2>1, Division
  <2> HIDE DEF e
  <2>3. e \in Int /\ WordSize = (Bytes * e) + 0
    BY <1>1, <2>2 DEF e
  <2> QED BY <1>2, <2>3
<1>6. /\ A \div Lanes \in Int /\ off \in 0 .. Lanes - 1 /\ A = (Lanes * (A \div Lanes)) + off
  <2>1. A \in Int
    BY <1>1, <1>4
  <2>2. /\ A \div Lanes \in Int /\ A % Lanes \in 0 .. Lanes - 1
        /\ A = (Lanes * (A \div Lanes)) + (A % Lanes)
    BY <1>1, <2>1, Division, Zenon
  <2> QED BY <2>2 DEF Offset
<1>7. /\ h \in Int /\ w \in 0 .. MemWords - 1 /\ A \div Lanes = (MemWords * h) + w
  BY <1>1, <1>6, Division DEF RamWord
<1> HIDE DEF q, e, h, w, off
<1>8. off + k \in 0 .. Lanes - 1
  BY <1>1, <1>6 DEF off, A
<1>9. r \in 0 .. Bytes - 1
  <2>1. Lanes * w <= Lanes * (MemWords - 1) /\ Lanes * w >= 0
    BY <1>1, <1>7
  <2>2. Lanes * (MemWords - 1) = (Lanes * MemWords) - Lanes
    BY <1>1
  <2> DEFINE lw == Lanes * w
             lm == Lanes * MemWords
  <2>3. lw \in Int /\ lm \in Int
    BY <1>1, <1>7
  <2> HIDE DEF lw, lm
  <2>4. lw >= 0 /\ lw <= lm - Lanes /\ Bytes = lm
    BY <1>2, <2>1, <2>2 DEF lw, lm
  <2>5. r = lw + (off + k)
    BY DEF lw
  <2> HIDE DEF r
  <2> QED BY <1>1, <1>8, <2>3, <2>4, <2>5
<1>10. z + k = (Bytes * ((e * q) + h)) + r
  <2>1. WordSize * q = Bytes * (e * q)
    BY <1>2, <1>4, <1>5
  <2>2. Lanes * ((MemWords * h) + w) = (Bytes * h) + (Lanes * w)
    BY <1>1, <1>2, <1>7
  <2>3. Bytes * ((e * q) + h) = (Bytes * (e * q)) + (Bytes * h)
    BY <1>2, <1>4, <1>5, <1>7
  <2> DEFINE x1 == Bytes * (e * q)
             x2 == Bytes * h
             x3 == Lanes * w
             x4 == Bytes * ((e * q) + h)
  <2>4. x1 \in Int /\ x2 \in Int /\ x3 \in Int /\ off \in Int /\ off + k \in Int
    BY <1>1, <1>2, <1>4, <1>5, <1>6, <1>7
  <2>5. z = x1 + A /\ A = (x2 + x3) + off /\ x4 = x1 + x2 /\ r = x3 + (off + k)
    BY <1>4, <1>6, <1>7, <2>1, <2>2, <2>3
  <2> HIDE DEF x1, x2, x3, x4, r
  <2>6. z + k = x4 + r
    BY <2>4, <2>5
  <2> QED BY <2>6 DEF x4
<1>11. (z + k) % Bytes = r
  <2> DEFINE t == (e * q) + h
  <2>1. t \in Int
    BY <1>4, <1>5, <1>7
  <2> HIDE DEF t, r
  <2>2. z + k = (Bytes * t) + r
    BY <1>10 DEF t
  <2> QED BY <1>2, <1>9, <2>1, <2>2, Quotient
<1>12. r \div Lanes = w /\ r % Lanes = off + k
  <2> DEFINE s == off + k
  <2>1. s \in 0 .. Lanes - 1 /\ r = (Lanes * w) + s /\ w \in Int
    BY <1>7, <1>8
  <2> HIDE DEF r, s
  <2>2. r \div Lanes = w /\ r % Lanes = s
    BY <1>1, <2>1, Quotient
  <2> QED BY <2>2 DEF s
<1> HIDE DEF r
<1>13. (base + imm + k) % Bytes = r
  BY <1>11 DEF z
<1> QED BY <1>9, <1>12, <1>13 DEF r, w, off, A

-----------------------------------------------------------------------------
\* One edge of the core under each kind of instruction of a patched source.
LEMMA StalledCore ==
  ASSUME CoreEdge(FALSE, TRUE)
  PROVE  pc' = pc /\ regs' = regs /\ ram' = ram /\ ramQ' = ramQ
BY DEF CoreEdge, Control, ControlEdge, RunEdge, RegEdge, RamEdge, Idle

\* The control lines of what patched code is made of.
LEMMA ControlLines ==
  ASSUME NEW o
  PROVE  /\ o \in Loads  => Control(o, FALSE) = [ Idle EXCEPT !.regWrite = TRUE, !.aluImm = TRUE,
                                        !.memtoReg = TRUE, !.memRead = TRUE ]
         /\ o \in Stores => Control(o, FALSE) = [ Idle EXCEPT !.memWrite = TRUE, !.aluImm = TRUE ]
         /\ o = "addi"   => Control(o, FALSE) = [ Idle EXCEPT !.regWrite = TRUE, !.aluImm = TRUE ]
         /\ o = "jal"    => Control(o, FALSE) = [ Idle EXCEPT !.branch = "always", !.regWrite = TRUE ]
<1>1. Control(o, FALSE) = Decoded(o)
  BY DEF Control
<1>2. CASE o \in Loads
  <2>1. o \notin Branches \cup Stores \cup {"jal", "jalr", "add", "addi"}
    BY <1>2 DEF Branches, Loads, Stores
  <2>2. o \notin Branches /\ o \notin Stores /\ o # "jal" /\ o # "jalr" /\ o # "add" /\ o # "addi"
    BY <2>1
  <2>3. o \notin CsrRegs /\ o \notin CsrImms /\ o \notin Faults /\ o # "mret"
    BY <1>2 DEF Loads, CsrRegs, CsrImms, Faults
  <2> QED BY <1>1, <1>2, <2>2, <2>3, Zenon DEF Decoded
<1>3. CASE o \in Stores
  <2>1. o \notin Branches /\ o \notin Loads /\ o # "jal" /\ o # "jalr" /\ o # "add" /\ o # "addi"
    BY <1>3 DEF Branches, Loads, Stores
  <2>2. o \notin CsrRegs /\ o \notin CsrImms /\ o \notin Faults /\ o # "mret"
    BY <1>3 DEF Stores, CsrRegs, CsrImms, Faults
  <2> QED BY <1>1, <1>3, <2>1, <2>2, Zenon DEF Decoded
<1>4. CASE o = "addi"
  <2>1. o \notin Branches /\ o \notin Loads /\ o \notin Stores /\ o # "jal" /\ o # "jalr" /\ o # "add"
    BY <1>4 DEF Branches, Loads, Stores
  <2>2. o \notin CsrRegs /\ o \notin CsrImms /\ o \notin Faults /\ o # "mret"
    BY <1>4 DEF Stores, CsrRegs, CsrImms, Faults
  <2> QED BY <1>1, <1>4, <2>1, <2>2, Zenon DEF Decoded
<1>5. CASE o = "jal"
  <2>1. o \notin Branches /\ o \notin Loads /\ o \notin Stores /\ o # "jalr" /\ o # "add" /\ o # "addi"
    BY <1>5 DEF Branches, Loads, Stores
  <2>2. o \notin CsrRegs /\ o \notin CsrImms /\ o \notin Faults /\ o # "mret"
    BY <1>5 DEF Stores, CsrRegs, CsrImms, Faults
  <2> QED BY <1>1, <1>5, <2>1, <2>2, Zenon DEF Decoded
<1> QED BY <1>2, <1>3, <1>4, <1>5

\* Without an exception, a return or a branch the next instruction follows.
LEMMA QuietEdge ==
  ASSUME NEW ctl, ctl.fault = "none", ctl.trapReturn = FALSE, ctl.branch = "never",
         ctl.memRead \/ ctl.memWrite => ~(Offset(Address) + Width(Instr.op) > Lanes)
  PROVE  NextPc(ctl) = Sum(pc, 4)
<1>1. Signal(ctl) = {}
  BY DEF Signal, ExceptSignal
<1>2. ~TrapTrigger(Signal(ctl))
  BY <1>1 DEF TrapTrigger
<1>3. ~BranchTaken(ctl)
  BY Zenon DEF BranchTaken, Taken
<1> QED BY <1>2, <1>3, Zenon DEF NextPc

\* A load takes the word latched and latches the word of its address.
LEMMA LoadEdge ==
  ASSUME CoreTypeOK, CoreEdge(FALSE, FALSE), WithinWord, Instr.op \in Loads
  PROVE  /\ pc' = Sum(pc, 4) /\ ram' = ram /\ ramQ' = ram[RamWord(Address)]
         /\ regs' = IF Instr.rd # 0
                    THEN [regs EXCEPT ![Instr.rd] = PickLanes(Instr.op, Offset(Address), ramQ)]
                    ELSE regs
<1> DEFINE ctl == Control(Instr.op, FALSE)
<1>1. /\ ctl.regWrite = TRUE /\ ctl.memRead = TRUE /\ ctl.memWrite = FALSE /\ ctl.memtoReg = TRUE
      /\ ctl.csrWrite = FALSE /\ ctl.fault = "none" /\ ctl.trapReturn = FALSE /\ ctl.branch = "never"
  <2>1. ctl = [ Idle EXCEPT !.regWrite = TRUE, !.aluImm = TRUE, !.memtoReg = TRUE, !.memRead = TRUE ]
    BY ControlLines
  <2> HIDE DEF ctl
  <2> QED BY <2>1 DEF Idle
<1>2. /\ Offset(Address) \in Int /\ Width(Instr.op) \in Int /\ Lanes \in Int
  <2>1. Address \in Int
    <3>1. Word \subseteq Int
      BY WordAssumption DEF Word
    <3> QED BY <3>1, OperandsAreWords, SumIsWord DEF Address
  <2> QED BY <2>1, CoreAssumption, WidthFits DEF Offset
<1>3. ~(Offset(Address) + Width(Instr.op) > Lanes)
  BY <1>2 DEF WithinWord
<1> HIDE DEF ctl
<1>4. NextPc(ctl) = Sum(pc, 4)
  BY <1>1, <1>3, QuietEdge
<1>5. Result(ctl) = PickLanes(Instr.op, Offset(Address), ramQ)
  <2>1. ctl.branch # "always" /\ ctl.memtoReg /\ ~ctl.csrWrite
    BY <1>1
  <2> QED BY <2>1, Zenon DEF Result
<1>6. /\ pc' = NextPc(ctl) /\ RegEdge(ctl.regWrite, Instr.rd, Result(ctl))
      /\ RamEdge(ctl.memRead, ctl.memWrite, Instr.op, Address, Rs2)
  BY DEF ctl, CoreEdge, ControlEdge, RunEdge
<1> QED BY <1>1, <1>4, <1>5, <1>6 DEF RegEdge, RamEdge

\* A store merges its lanes into the word of its address.
LEMMA StoreEdge ==
  ASSUME CoreTypeOK, CoreEdge(FALSE, FALSE), WithinWord, Instr.op \in Stores
  PROVE  /\ pc' = Sum(pc, 4) /\ regs' = regs
         /\ ram' = [ram EXCEPT ![RamWord(Address)] = MergeLanes(Instr.op, Offset(Address), @, Rs2)]
<1> DEFINE ctl == Control(Instr.op, FALSE)
<1>1. /\ ctl.regWrite = FALSE /\ ctl.memRead = FALSE /\ ctl.memWrite = TRUE
      /\ ctl.fault = "none" /\ ctl.trapReturn = FALSE /\ ctl.branch = "never"
  <2>1. ctl = [ Idle EXCEPT !.memWrite = TRUE, !.aluImm = TRUE ]
    BY ControlLines
  <2> HIDE DEF ctl
  <2> QED BY <2>1 DEF Idle
<1>2. /\ Offset(Address) \in Int /\ Width(Instr.op) \in Int /\ Lanes \in Int
  <2>1. Address \in Int
    <3>1. Word \subseteq Int
      BY WordAssumption DEF Word
    <3> QED BY <3>1, OperandsAreWords, SumIsWord DEF Address
  <2> QED BY <2>1, CoreAssumption, WidthFits DEF Offset
<1>3. ~(Offset(Address) + Width(Instr.op) > Lanes)
  BY <1>2 DEF WithinWord
<1> HIDE DEF ctl
<1>4. NextPc(ctl) = Sum(pc, 4)
  BY <1>1, <1>3, QuietEdge
<1>5. /\ pc' = NextPc(ctl) /\ RegEdge(ctl.regWrite, Instr.rd, Result(ctl))
      /\ RamEdge(ctl.memRead, ctl.memWrite, Instr.op, Address, Rs2)
  BY DEF ctl, CoreEdge, ControlEdge, RunEdge
<1> QED BY <1>1, <1>4, <1>5 DEF RegEdge, RamEdge

\* An addition writes its sum.
LEMMA AddEdge ==
  ASSUME CoreTypeOK, CoreEdge(FALSE, FALSE), Instr.op = "addi"
  PROVE  /\ pc' = Sum(pc, 4) /\ ram' = ram /\ ramQ' = ramQ
         /\ regs' = IF Instr.rd # 0
                    THEN [regs EXCEPT ![Instr.rd] = Sum(Rs1, Instr.imm)] ELSE regs
<1> DEFINE ctl == Control(Instr.op, FALSE)
<1>1. /\ ctl.regWrite = TRUE /\ ctl.memRead = FALSE /\ ctl.memWrite = FALSE /\ ctl.memtoReg = FALSE
      /\ ctl.csrWrite = FALSE /\ ctl.aluImm = TRUE
      /\ ctl.fault = "none" /\ ctl.trapReturn = FALSE /\ ctl.branch = "never"
  <2>1. ctl = [ Idle EXCEPT !.regWrite = TRUE, !.aluImm = TRUE ]
    BY ControlLines
  <2> HIDE DEF ctl
  <2> QED BY <2>1 DEF Idle
<1> HIDE DEF ctl
<1>2. NextPc(ctl) = Sum(pc, 4)
  BY <1>1, QuietEdge
<1>3. Result(ctl) = Sum(Rs1, Instr.imm)
  BY <1>1 DEF Result, Operand
<1>4. /\ pc' = NextPc(ctl) /\ RegEdge(ctl.regWrite, Instr.rd, Result(ctl))
      /\ RamEdge(ctl.memRead, ctl.memWrite, Instr.op, Address, Rs2)
  BY DEF ctl, CoreEdge, ControlEdge, RunEdge
<1> QED BY <1>1, <1>2, <1>3, <1>4 DEF RegEdge, RamEdge

\* A jump goes where it says, and changes nothing else.
LEMMA JumpEdge ==
  ASSUME CoreTypeOK, CoreEdge(FALSE, FALSE), Instr.op = "jal", Instr.rd = 0
  PROVE  pc' = Sum(pc, 2 * Instr.imm) /\ ram' = ram /\ ramQ' = ramQ /\ regs' = regs
<1> DEFINE ctl == Control(Instr.op, FALSE)
<1>1. /\ ctl.memRead = FALSE /\ ctl.memWrite = FALSE /\ ctl.aluImm = FALSE
      /\ ctl.fault = "none" /\ ctl.trapReturn = FALSE /\ ctl.branch = "always"
  <2>1. ctl = [ Idle EXCEPT !.branch = "always", !.regWrite = TRUE ]
    BY ControlLines
  <2> HIDE DEF ctl
  <2> QED BY <2>1 DEF Idle
<1> HIDE DEF ctl
<1>2. ~TrapTrigger(Signal(ctl))
  <2>1. Signal(ctl) = {}
    BY <1>1 DEF Signal, ExceptSignal
  <2> QED BY <2>1 DEF TrapTrigger
<1>3. BranchTaken(ctl)
  BY <1>1, Zenon DEF BranchTaken, Taken
<1>4. NextPc(ctl) = Target(ctl)
  BY <1>1, <1>2, <1>3, Zenon DEF NextPc
<1>5. /\ pc' = NextPc(ctl) /\ RegEdge(ctl.regWrite, Instr.rd, Result(ctl))
      /\ RamEdge(ctl.memRead, ctl.memWrite, Instr.op, Address, Rs2)
  BY DEF ctl, CoreEdge, ControlEdge, RunEdge
<1> QED BY <1>1, <1>4, <1>5 DEF RegEdge, RamEdge, Target

-----------------------------------------------------------------------------
\* The core beside the machine without latency.  With o instructions of the
\* patch of i executed, the two agree but for t6 and, before the last load, for
\* the register loaded; that load finds its word latched, and its base kept.
Agree == \A r \in RegId \ {Temp} : regs[r] = plain.regs[r]

LastLoad(i, o) == i.op \in Loads /\ o + 1 = Len(InstrPatch(i))

Within(i, o) ==
  /\ \A r \in RegId \ {Temp} : (LastLoad(i, o) /\ r = i.rd) \/ regs[r] = plain.regs[r]
  /\ LastLoad(i, o) => ramQ = ram[RamWord(Sum(plain.regs[i.rs1], i.imm))]
  /\ Len(InstrPatch(i)) = 3 /\ o # 0 => regs[Temp] = plain.regs[i.rs1]

At(k, o) == pc = 4 * (Begins(source)[k - 1] + o)

Abreast ==
  \/ pc = 4 * Begins(source)[Len(source)] /\ Agree
  \/ \E k \in 1 .. Len(source), o \in 0 .. 2 :
       o < Len(InstrPatch(source[k])) /\ At(k, o) /\ Within(source[k], o)

PatchedInv ==
  /\ CoreTypeOK /\ PlainTyped /\ source \in Sources /\ rom = Rom(source)
  /\ ends = [k \in DOMAIN source |-> 4 * Begins(source)[k]]
  /\ BytesOf(ram) = plain.bytes
  /\ regs[0] = 0 /\ plain.regs[0] = 0
  /\ Abreast

\* Of the ends of the patches, none is inside another patch.
LEMMA PatchEnds ==
  ASSUME NEW src \in Sources, NEW j \in 1 .. Len(src), NEW k \in 1 .. Len(src),
         Begins(src)[k - 1] < Begins(src)[j], Begins(src)[j] <= Begins(src)[k]
  PROVE  j = k
<1> DEFINE n == Len(src)
           B == Begins(src)
           p == B[j] - 1
           l == Len(InstrPatch(src[j]))
<1>1. /\ n \in Nat /\ B \in [0 .. n -> Nat] /\ B[j] = B[j - 1] + l
      /\ src[j] \in Instructions
  BY PatchesInOrder
<1>2. l \in 1 .. 3
  BY <1>1, PatchLengths
<1>3. B[k - 1] < B[j] /\ B[j] <= B[k]
  OBVIOUS
<1> HIDE DEF B, n, l
<1>4. j \in 1 .. n /\ k \in 1 .. n
  BY DEF n
<1>5. j - 1 \in 0 .. n /\ k - 1 \in 0 .. n /\ j \in 0 .. n /\ k \in 0 .. n
  BY <1>1, <1>4
<1>6. B[j - 1] \in Nat /\ B[k - 1] \in Nat /\ B[j] \in Nat /\ B[k] \in Nat
  BY <1>1, <1>5
<1>7. p \in Nat /\ B[j - 1] <= p /\ p < B[j] /\ B[k - 1] <= p /\ p < B[k]
  <2> DEFINE x == B[j - 1]
             y == B[j]
             z == B[k - 1]
             w == B[k]
  <2>1. y = x + l /\ z < y /\ y <= w /\ x \in Nat /\ y \in Nat /\ z \in Nat /\ w \in Nat
    BY <1>1, <1>3, <1>6
  <2> HIDE DEF x, y, z, w
  <2>2. y - 1 \in Nat /\ x <= y - 1 /\ y - 1 < y /\ z <= y - 1 /\ y - 1 < w
    BY <1>2, <2>1
  <2> QED BY <2>2 DEF p, x, y, z, w
<1> HIDE DEF p
<1> QED BY <1>7, PatchApart DEF B

\* The instruction at hand, the place after it, and the step of the machine
\* without latency.
LEMMA PatchedFetch ==
  ASSUME PatchedInv, NEW k \in 1 .. Len(source), NEW o \in 0 .. 2,
         o < Len(InstrPatch(source[k])), At(k, o)
  PROVE  /\ Instr = InstrPatch(source[k])[o + 1]
         /\ Sum(pc, 4) = 4 * (Begins(source)[k - 1] + o + 1)
         /\ o + 1 = Len(InstrPatch(source[k])) => Sum(pc, 4) = 4 * Begins(source)[k]
<1> DEFINE p == Begins(source)[k - 1] + o
           e == Begins(source)[k]
           l == Len(InstrPatch(source[k]))
<1>1. source \in Sources /\ rom = Rom(source)
  BY DEF PatchedInv
<1>2. /\ p \in Nat /\ p + 1 <= e /\ e \in Nat /\ e < RomSize /\ (p + 1 = e <=> o + 1 = l)
      /\ Rom(source)[p] = InstrPatch(source[k])[o + 1]
  BY <1>1, RomHolds
<1>3. pc = 4 * p
  BY DEF At
<1>4. RomSize \in Nat /\ 4 * RomSize <= WordSize /\ WordSize \in Nat
  BY CoreAssumption, PatchAssumption, WordAssumption
<1> HIDE DEF p, e, l
<1>5. (pc \div 4) % RomSize = p
  <2>1. pc \div 4 = p
    BY <1>2, <1>3
  <2>2. p % RomSize = p
    <3>1. p \in 0 .. RomSize - 1 /\ RomSize \in Nat \ {0}
      BY <1>2, <1>4
    <3> QED BY <3>1, SmallRemainder
  <2> QED BY <2>1, <2>2
<1>6. Instr = InstrPatch(source[k])[o + 1]
  BY <1>1, <1>2, <1>5 DEF Instr
<1>7. Sum(pc, 4) = 4 * (p + 1)
  <2>1. pc + 4 = 4 * (p + 1) /\ pc + 4 \in 0 .. WordSize - 1 /\ WordSize \in Nat \ {0}
    BY <1>2, <1>3, <1>4
  <2>2. (pc + 4) % WordSize = pc + 4
    BY <2>1, SmallRemainder
  <2> QED BY <2>1, <2>2 DEF Sum
<1>8. o + 1 = l => Sum(pc, 4) = 4 * e
  BY <1>2, <1>7
<1>9. 4 * (p + 1) = 4 * (Begins(source)[k - 1] + o + 1)
  BY DEF p
<1> QED BY <1>6, <1>7, <1>8, <1>9 DEF e, l

\* The machine without latency steps with the last of a patch, and only then.
LEMMA PlainSteps ==
  ASSUME PatchedInv, PatchedEdge(FALSE), NEW k \in 1 .. Len(source), NEW o \in 0 .. 2,
         o < Len(InstrPatch(source[k])), At(k, o)
  PROVE  plain' = IF o + 1 = Len(InstrPatch(source[k])) THEN PlainAfter(source[k]) ELSE plain
<1> DEFINE n == Len(source)
           B == Begins(source)
           p == B[k - 1] + o
           l == Len(InstrPatch(source[k]))
           Ended(j) == pc + 4 = ends[j]
<1>1. source \in Sources /\ DOMAIN ends = 1 .. n /\ DOMAIN source = 1 .. n
  <2>1. source \in Sources /\ source \in Seq(Instructions)
    BY PatchesInOrder DEF PatchedInv
  <2> QED BY <2>1 DEF PatchedInv
<1>2. /\ p \in Nat /\ p + 1 <= B[k] /\ B[k] \in Nat /\ (p + 1 = B[k] <=> o + 1 = l)
  BY <1>1, RomHolds
<1>3. pc = 4 * p
  BY DEF At
<1>4. n \in Nat /\ B \in [0 .. n -> Nat] /\ \A j \in 1 .. n : ends[j] = 4 * B[j]
  BY <1>1, PatchesInOrder DEF PatchedInv
<1>5. plain' = IF \E j \in DOMAIN ends : Ended(j)
               THEN PlainAfter(source[CHOOSE j \in DOMAIN ends : Ended(j)]) ELSE plain
  BY DEF PatchedEdge
<1>6. B[k - 1] \in Nat /\ B[k - 1] <= p
  <2>1. k - 1 \in 0 .. n
    BY <1>4
  <2> HIDE DEF B, n
  <2> QED BY <1>4, <2>1
<1> HIDE DEF B, n, p, l
<1>7. ASSUME NEW j \in 1 .. n PROVE Ended(j) <=> (o + 1 = l /\ j = k)
  <2>1. B[j] \in Nat /\ ends[j] = 4 * B[j]
    <3>1. j \in 0 .. n
      BY <1>4
    <3> QED BY <1>4, <3>1
  <2>2. Ended(j) <=> B[j] = p + 1
    <3> DEFINE x == B[j]
    <3> HIDE DEF x
    <3> QED BY <1>2, <1>3, <2>1 DEF x
  <2>3. B[j] = p + 1 => j = k
    <3> SUFFICES ASSUME B[j] = p + 1 PROVE j = k
      OBVIOUS
    <3>1. B[k - 1] < B[j] /\ B[j] <= B[k]
      BY <1>2, <1>6
    <3> QED BY <1>1, <3>1, PatchEnds DEF B, n
  <2> QED BY <1>2, <2>2, <2>3
<1> HIDE DEF Ended
<1>8. k \in 1 .. n
  BY DEF n
<1>9. CASE o + 1 = l
  <2>1. (CHOOSE j \in DOMAIN ends : Ended(j)) = k /\ \E j \in DOMAIN ends : Ended(j)
    BY <1>1, <1>7, <1>8, <1>9
  <2> QED BY <1>5, <1>9, <2>1 DEF l
<1>10. CASE o + 1 # l
  <2>1. ~\E j \in DOMAIN ends : Ended(j)
    BY <1>1, <1>7, <1>10
  <2> QED BY <1>5, <1>10, <2>1 DEF l
<1> QED BY <1>9, <1>10

\* A load of the latched word is a load of the bytes.
LEMMA LoadMeetsBytes ==
  ASSUME PatchedInv, NEW i \in Instructions, i.op \in Loads, NEW A,
         A = Sum(plain.regs[i.rs1], i.imm), Offset(A) + Width(i.op) <= Lanes
  PROVE  PickLanes(i.op, Offset(A), ram[RamWord(A)]) = Loaded(i)
<1> DEFINE base == plain.regs[i.rs1]
           off == Offset(A)
           w == ram[RamWord(A)]
           n == Width(i.op)
<1>1. base \in Word /\ i.imm \in Word
  BY DEF PatchedInv, PlainTyped, Instructions
<1>2. Word \subseteq Int /\ Lanes \in Nat \ {0} /\ MemWords \in Nat \ {0}
  BY WordAssumption, CoreAssumption DEF Word
<1>3. A \in Int
  BY <1>1, <1>2, SumIsWord
<1>4. off \in 0 .. Lanes - 1 /\ n \in Nat \ {0} /\ n <= Lanes
  BY <1>2, <1>3, WidthFits DEF Offset
<1>5. RamWord(A) \in RamAddr
  <2>1. A \div Lanes \in Int
    BY <1>2, <1>3, Division
  <2> QED BY <1>2, <2>1 DEF RamWord, RamAddr
<1>6. w \in Word
  BY <1>5 DEF PatchedInv, CoreTypeOK
<1>7. off \in 0 .. Lanes - n
  BY <1>2, <1>4 DEF n
<1>8. PickLanes(i.op, off, w) = ValueOf(i.op, [k \in 0 .. n - 1 |-> BytesIn[w][off + k]])
  BY <1>6, <1>7, LanesAssumption
<1>9. ASSUME NEW k \in 0 .. n - 1 PROVE plain.bytes[Byte(i, k)] = BytesIn[w][off + k]
  <2>1. k \in Nat /\ off + k < Lanes
    <3> HIDE DEF off, n
    <3> QED BY <1>2, <1>4, <1>7
  <2> DEFINE x == (base + i.imm + k) % Bytes
  <2>2. x \div Lanes = RamWord(A) /\ x % Lanes = off + k /\ x \in 0 .. Bytes - 1
    BY <1>1, <2>1, BytesOfAccess
  <2>3. Byte(i, k) = x
    BY DEF Byte
  <2> HIDE DEF x
  <2>4. BytesOf(ram)[x] = BytesIn[ram[x \div Lanes]][x % Lanes]
    BY <2>2 DEF BytesOf
  <2>5. plain.bytes = BytesOf(ram)
    BY DEF PatchedInv
  <2> QED BY <2>2, <2>3, <2>4, <2>5
<1>10. [k \in 0 .. n - 1 |-> BytesIn[w][off + k]] = [k \in 0 .. n - 1 |-> plain.bytes[Byte(i, k)]]
  <2> HIDE DEF n, w, off
  <2> QED BY <1>9
<1>11. Loaded(i) = ValueOf(i.op, [k \in 0 .. n - 1 |-> plain.bytes[Byte(i, k)]])
  BY DEF Loaded
<1> QED BY <1>8, <1>10, <1>11

\* A store into its word is a store of the bytes.
LEMMA StoreMeetsBytes ==
  ASSUME PatchedInv, NEW i \in Instructions, i.op \in Stores, NEW A,
         A = Sum(plain.regs[i.rs1], i.imm), Offset(A) + Width(i.op) <= Lanes,
         NEW words, words = [ram EXCEPT ![RamWord(A)] =
                               MergeLanes(i.op, Offset(A), @, plain.regs[i.rs2])]
  PROVE  BytesOf(words) = Stored(i).bytes
<1> DEFINE base == plain.regs[i.rs1]
           off == Offset(A)
           place == RamWord(A)
           w == ram[place]
           d == plain.regs[i.rs2]
           n == Width(i.op)
           m == MergeLanes(i.op, off, w, d)
           S == 0 .. n - 1
           byte(x) == IF \E k \in S : x = Byte(i, k)
                      THEN BytesIn[d][CHOOSE k \in S : x = Byte(i, k)] ELSE plain.bytes[x]
<1>1. base \in Word /\ i.imm \in Word /\ d \in Word
  BY DEF PatchedInv, PlainTyped, Instructions
<1>2. Word \subseteq Int /\ Lanes \in Nat \ {0} /\ MemWords \in Nat \ {0}
  BY WordAssumption, CoreAssumption DEF Word
<1>3. A \in Int
  BY <1>1, <1>2, SumIsWord
<1>4. off \in 0 .. Lanes - 1 /\ n \in Nat \ {0} /\ n <= Lanes
  BY <1>2, <1>3, WidthFits DEF Offset
<1>5. place \in RamAddr
  <2>1. A \div Lanes \in Int
    BY <1>2, <1>3, Division
  <2> QED BY <1>2, <2>1 DEF RamWord, RamAddr
<1>6. w \in Word /\ ram \in [RamAddr -> Word]
  BY <1>5 DEF PatchedInv, CoreTypeOK
<1>7. off \in 0 .. Lanes - n
  BY <1>2, <1>4 DEF n
<1>8. ASSUME NEW y \in 0 .. Lanes - 1
      PROVE  BytesIn[m][y] = IF y \in off .. off + n - 1 THEN BytesIn[d][y - off] ELSE BytesIn[w][y]
  BY <1>1, <1>6, <1>7, <1>8, LanesAssumption
<1>9. words = [ram EXCEPT ![place] = m]
  BY <1>6
<1> HIDE DEF m
<1>10. ASSUME NEW x \in 0 .. Bytes - 1
       PROVE  BytesIn[words[x \div Lanes]][x % Lanes] = byte(x)
  <2> DEFINE q == x \div Lanes
             y == x % Lanes
  <2>1. q \in RamAddr /\ y \in 0 .. Lanes - 1 /\ x = (Lanes * q) + y
    BY LaneOfByte
  <2>2. plain.bytes[x] = BytesIn[ram[q]][y]
    BY DEF PatchedInv, BytesOf
  <2>3. ASSUME NEW k \in S
        PROVE  x = Byte(i, k) <=> (q = place /\ y = off + k)
    <3>1. k \in Nat /\ off + k < Lanes
      <4> HIDE DEF off, n
      <4> QED BY <1>2, <1>4, <1>7
    <3> DEFINE z == (base + i.imm + k) % Bytes
    <3>2. z \div Lanes = place /\ z % Lanes = off + k /\ z = (Lanes * place) + (off + k)
      BY <1>1, <3>1, BytesOfAccess
    <3>3. Byte(i, k) = z
      BY DEF Byte
    <3> HIDE DEF z
    <3>4. x = z => q = place /\ y = off + k
      BY <3>2
    <3> HIDE DEF q, y
    <3>5. q = place /\ y = off + k => x = z
      BY <2>1, <3>2
    <3> HIDE DEF off, place
    <3> QED BY <3>3, <3>4, <3>5
  <2> HIDE DEF q, y
  <2>4. CASE q = place /\ y \in off .. off + n - 1
    <3> DEFINE k == y - off
    <3>1. k \in S /\ y = off + k
      <4> HIDE DEF off, n
      <4> QED BY <1>4, <2>1, <2>4
    <3> HIDE DEF k
    <3>2. \A j \in S : x = Byte(i, j) <=> j = k
      <4> SUFFICES ASSUME NEW j \in S PROVE x = Byte(i, j) <=> j = k
        OBVIOUS
      <4>1. x = Byte(i, j) <=> y = off + j
        BY <2>3, <2>4
      <4>2. j \in Int /\ k \in Int /\ off \in Int
        <5> HIDE DEF off, n
        <5> QED BY <1>4, <3>1
      <4> HIDE DEF off, n
      <4> QED BY <3>1, <4>1, <4>2
    <3>3. (CHOOSE j \in S : x = Byte(i, j)) = k /\ \E j \in S : x = Byte(i, j)
      <4> HIDE DEF S
      <4> QED BY <3>1, <3>2
    <3>4. byte(x) = BytesIn[d][k]
      BY <3>3
    <3>5. words[q] = m
      BY <1>6, <1>9, <2>1, <2>4
    <3>6. BytesIn[m][y] = BytesIn[d][y - off]
      BY <1>8, <2>1, <2>4
    <3> HIDE DEF byte, off, d
    <3> QED BY <3>4, <3>5, <3>6 DEF k, q, y
  <2>5. CASE ~(q = place /\ y \in off .. off + n - 1)
    <3>1. ~\E j \in S : x = Byte(i, j)
      <4> SUFFICES ASSUME NEW j \in S, x = Byte(i, j) PROVE FALSE
        OBVIOUS
      <4>1. q = place /\ y = off + j
        BY <2>3
      <4>2. y \in off .. off + n - 1
        <5> HIDE DEF off, n
        <5> QED BY <1>4, <2>1, <4>1
      <4> QED BY <2>5, <4>1, <4>2
    <3>2. byte(x) = BytesIn[ram[q]][y]
      BY <2>2, <3>1
    <3>3. BytesIn[words[q]][y] = BytesIn[ram[q]][y]
      <4>1. CASE q = place
        <5>1. words[q] = m /\ ram[q] = w
          BY <1>6, <1>9, <2>1, <4>1
        <5>2. BytesIn[m][y] = BytesIn[w][y]
          BY <1>8, <2>1, <2>5, <4>1
        <5> QED BY <5>1, <5>2
      <4>2. CASE q # place
        BY <1>6, <1>9, <2>1, <4>2
      <4> QED BY <4>1, <4>2
    <3> HIDE DEF byte
    <3> QED BY <3>2, <3>3 DEF q, y
  <2> QED BY <2>4, <2>5
<1>11. Stored(i).bytes = [x \in 0 .. Bytes - 1 |-> byte(x)]
  BY DEF Stored, PatchedInv, PlainTyped
<1>12. BytesOf(words) = [x \in 0 .. Bytes - 1 |-> BytesIn[words[x \div Lanes]][x % Lanes]]
  BY DEF BytesOf
<1> HIDE DEF byte
<1> QED BY <1>10, <1>11, <1>12

-----------------------------------------------------------------------------
\* Between two instructions of the source the machines agree.
LEMMA ArriveAbreast ==
  ASSUME source \in Sources, source' = source, NEW k \in 0 .. Len(source),
         pc' = 4 * Begins(source)[k], Agree'
  PROVE  Abreast'
<1> DEFINE n == Len(source)
           B == Begins(source)
<1>1. n \in Nat \ {0} /\ source \in Seq(Instructions) /\ B \in [0 .. n -> Nat]
  BY PatchesInOrder
<1>2. CASE k = n
  BY <1>2 DEF Abreast
<1>3. CASE k # n
  <2> DEFINE j == k + 1
             i == source[j]
  <2>1. j \in 1 .. n /\ j - 1 = k /\ B[k] \in Nat
    <3> HIDE DEF B, n
    <3>1. k \in 0 .. n
      BY DEF n
    <3> QED BY <1>1, <1>3, <3>1
  <2>2. i \in Instructions
    BY <1>1, <2>1
  <2>3. Len(InstrPatch(i)) \in 1 .. 3 /\ (i.op \in Loads => Len(InstrPatch(i)) # 1)
    <3> HIDE DEF i
    <3> QED BY <2>2, PatchLengths
  <2> HIDE DEF i
  <2>4. Within(i, 0)'
    <3>1. ~LastLoad(i, 0)
      BY <2>3 DEF LastLoad
    <3>2. i' = i
      BY DEF i
    <3>3. LastLoad(i, 0)' <=> LastLoad(i, 0)
      BY <3>2 DEF LastLoad
    <3> QED BY <3>1, <3>2, <3>3 DEF Within, Agree
  <2>5. At(j, 0)'
    <3>1. B[j - 1] + 0 = B[k]
      BY <2>1
    <3> QED BY <3>1 DEF At
  <2>6. 0 \in 0 .. 2 /\ 0 < Len(InstrPatch(i))
    BY <2>3
  <2> QED BY <2>1, <2>4, <2>5, <2>6 DEF Abreast, i
<1> QED BY <1>2, <1>3

\* What is known of an instruction of the source.
LEMMA SourceInstr ==
  ASSUME source \in Sources, NEW k \in 1 .. Len(source)
  PROVE  /\ source[k] \in Instructions /\ source[k].op \in PlainOps
         /\ source[k].rd \in RegId \ {Temp} /\ source[k].rs1 \in RegId \ {Temp}
         /\ source[k].rs2 \in RegId \ {Temp} /\ source[k].imm \in Word
         /\ Temp \in RegId \ {0}
<1>1. source \in Seq(Instructions) /\ DOMAIN source = 1 .. Len(source)
  BY PatchAssumption
<1>2. source[k] \in Instructions
  BY <1>1
<1>3. /\ source[k].op \in PlainOps /\ Temp \notin {source[k].rd, source[k].rs1, source[k].rs2}
      /\ Temp \in RegId \ {0}
  BY <1>1, PatchAssumption DEF PlainOps
<1> QED BY <1>2, <1>3 DEF Instructions

\* A load of the patch goes where the load of the source does.
LEMMA PatchedLoad ==
  ASSUME PatchedInv, NEW k \in 1 .. Len(source), NEW o \in 0 .. 2,
         o < Len(InstrPatch(source[k])), At(k, o), Within(source[k], o),
         source[k].op \in Loads, ~(Len(InstrPatch(source[k])) = 3 /\ o = 0)
  PROVE  /\ Instr.op = source[k].op /\ Instr.rd = source[k].rd
         /\ Address = Sum(plain.regs[source[k].rs1], source[k].imm)
<1> DEFINE i == source[k]
           moved == [i EXCEPT !.rs1 = Temp]
<1>1. /\ i \in Instructions /\ i.rd \in RegId \ {Temp} /\ i.rs1 \in RegId \ {Temp}
      /\ Temp \in RegId
  BY SourceInstr DEF PatchedInv
<1>2. Instr = InstrPatch(i)[o + 1]
  BY PatchedFetch
<1>3. /\ o < Len(InstrPatch(i)) /\ i.op \in Loads /\ ~(Len(InstrPatch(i)) = 3 /\ o = 0)
      /\ Within(i, o)
  OBVIOUS
<1> HIDE DEF i
<1>4. CASE i.rd # i.rs1
  <2>1. InstrPatch(i) = <<i, i>>
    BY <1>1, <1>3, <1>4, PatchLengths
  <2>2. Instr = i
    <3>1. o \in {0, 1}
      BY <1>3, <2>1
    <3> QED BY <1>2, <2>1, <3>1
  <2>3. regs[i.rs1] = plain.regs[i.rs1]
    BY <1>1, <1>3, <1>4 DEF Within
  <2> QED BY <2>2, <2>3 DEF Address, Rs1, i
<1>5. CASE i.rd = i.rs1
  <2>1. InstrPatch(i) = <<Move(Temp, i.rd), moved, moved>>
    BY <1>1, <1>3, <1>5, PatchLengths
  <2>2. Len(InstrPatch(i)) = 3 /\ o \in {1, 2}
    BY <1>3, <2>1
  <2>3. Instr = moved
    BY <1>2, <2>1, <2>2
  <2>4. regs[Temp] = plain.regs[i.rs1]
    BY <1>3, <2>2 DEF Within
  <2>5. moved.op = i.op /\ moved.rd = i.rd /\ moved.imm = i.imm /\ moved.rs1 = Temp
    BY <1>1 DEF Instructions
  <2> HIDE DEF moved
  <2> QED BY <2>3, <2>4, <2>5 DEF Address, Rs1, i
<1> QED BY <1>4, <1>5

\* The last load of a patch.
LEMMA LastLoadStep ==
  ASSUME PatchedInv, PatchedEdge(FALSE), WithinWord, NEW k \in 1 .. Len(source), NEW o \in 0 .. 2,
         o < Len(InstrPatch(source[k])), At(k, o), Within(source[k], o), LastLoad(source[k], o)
  PROVE  Agree' /\ pc' = 4 * Begins(source)[k] /\ BytesOf(ram)' = plain'.bytes /\ regs'[0] = 0
<1> DEFINE i == source[k]
           A == Address
           v == PickLanes(Instr.op, Offset(A), ramQ)
<1>1. /\ i \in Instructions /\ i.op \in Loads /\ o + 1 = Len(InstrPatch(i))
      /\ i.rd \in RegId /\ ~(Len(InstrPatch(i)) = 3 /\ o = 0)
      /\ CoreEdge(FALSE, FALSE)
  <2>1. i \in Instructions /\ i.rd \in RegId
    BY SourceInstr DEF PatchedInv
  <2>2. i.op \in Loads /\ o + 1 = Len(InstrPatch(i))
    BY DEF LastLoad
  <2>3. CoreEdge(FALSE, FALSE)
    BY DEF PatchedEdge
  <2>4. ~(Len(InstrPatch(i)) = 3 /\ o = 0)
    <3> SUFFICES ASSUME Len(InstrPatch(i)) = 3, o = 0 PROVE FALSE
      OBVIOUS
    <3>1. 0 + 1 = 3
      BY <2>2
    <3> QED BY <3>1
  <2> HIDE DEF i
  <2> QED BY <2>1, <2>2, <2>3, <2>4, Zenon
<1>2. Instr.op = i.op /\ Instr.rd = i.rd /\ A = Sum(plain.regs[i.rs1], i.imm)
  BY <1>1, PatchedLoad
<1>3. CoreTypeOK
  BY DEF PatchedInv
<1>4. /\ pc' = Sum(pc, 4) /\ ram' = ram
      /\ regs' = IF Instr.rd # 0 THEN [regs EXCEPT ![Instr.rd] = v] ELSE regs
  BY <1>1, <1>2, <1>3, LoadEdge
<1>5. pc' = 4 * Begins(source)[k]
  BY <1>1, <1>4, PatchedFetch
<1>6. ramQ = ram[RamWord(A)]
  BY <1>2 DEF Within
<1>7. v = Loaded(i)
  <2>1. Offset(A) + Width(i.op) <= Lanes
    BY <1>1, <1>2 DEF WithinWord
  <2> HIDE DEF A, i
  <2> QED BY <1>1, <1>2, <1>6, <2>1, LoadMeetsBytes
<1>8. plain' = Written(i.rd, v)
  <2>1. plain' = PlainAfter(i)
    BY <1>1, PlainSteps
  <2>2. i.op \notin Stores /\ i.op # "addi"
    BY <1>1 DEF Loads, Stores
  <2>3. PlainAfter(i) = Written(i.rd, Loaded(i))
    BY <1>1, <2>2, Zenon DEF PlainAfter
  <2> QED BY <1>7, <2>1, <2>3
<1> HIDE DEF v, A, i
<1>9. /\ regs \in [RegId -> Word] /\ plain.regs \in [RegId -> Word] /\ plain.bytes = BytesOf(ram)
      /\ plain \in [ regs : [RegId -> Word], bytes : [0 .. Bytes - 1 -> 0 .. LaneSize - 1] ]
      /\ regs[0] = 0 /\ 0 \in RegId
  BY CoreAssumption DEF PatchedInv, CoreTypeOK, PlainTyped, RegId
<1>10. /\ plain'.bytes = plain.bytes
       /\ plain'.regs = [plain.regs EXCEPT ![i.rd] = IF i.rd = 0 THEN 0 ELSE v]
  BY <1>8, <1>9 DEF Written
<1>11. \A r \in RegId \ {Temp} : r = i.rd \/ regs[r] = plain.regs[r]
  BY DEF Within, i
<1>12. ASSUME NEW r \in RegId \ {Temp} PROVE regs'[r] = plain'.regs[r]
  <2>1. CASE r = i.rd
    BY <1>1, <1>2, <1>4, <1>9, <1>10, <2>1
  <2>2. CASE r # i.rd
    BY <1>1, <1>2, <1>4, <1>9, <1>10, <1>11, <2>2
  <2> QED BY <2>1, <2>2
<1>13. regs'[0] = 0
  BY <1>2, <1>4, <1>9
<1>14. BytesOf(ram)' = plain'.bytes
  <2>1. BytesOf(ram)' = BytesOf(ram)
    BY <1>4, Zenon DEF BytesOf
  <2> QED BY <1>9, <1>10, <2>1
<1> QED BY <1>5, <1>12, <1>13, <1>14 DEF Agree

\* An instruction that is not a load has no patch.
LEMMA Unpatched ==
  ASSUME PatchedInv, NEW k \in 1 .. Len(source), NEW o \in 0 .. 2,
         o < Len(InstrPatch(source[k])), At(k, o), Within(source[k], o),
         source[k].op \notin Loads
  PROVE  /\ Instr = source[k] /\ o = 0 /\ o + 1 = Len(InstrPatch(source[k])) /\ Agree
         /\ Address = Sum(plain.regs[source[k].rs1], source[k].imm)
         /\ Rs1 = plain.regs[source[k].rs1] /\ Rs2 = plain.regs[source[k].rs2]
<1> DEFINE i == source[k]
<1>1. i \in Instructions /\ i.rs1 \in RegId \ {Temp} /\ i.rs2 \in RegId \ {Temp}
  BY SourceInstr DEF PatchedInv
<1>2. Instr = InstrPatch(i)[o + 1]
  BY PatchedFetch
<1>3. o < Len(InstrPatch(i)) /\ i.op \notin Loads /\ Within(i, o)
  OBVIOUS
<1> HIDE DEF i
<1>4. InstrPatch(i) = <<i>>
  BY <1>1, <1>3, PatchLengths
<1>5. o = 0 /\ Len(InstrPatch(i)) = 1
  BY <1>3, <1>4
<1>6. Instr = i /\ o + 1 = Len(InstrPatch(i))
  BY <1>2, <1>4, <1>5
<1>7. Agree
  BY <1>3 DEF Within, LastLoad, Agree
<1>8. Rs1 = plain.regs[i.rs1] /\ Rs2 = plain.regs[i.rs2]
  BY <1>1, <1>6, <1>7 DEF Agree, Rs1, Rs2
<1>9. Address = Sum(plain.regs[i.rs1], i.imm)
  BY <1>6, <1>8 DEF Address
<1> QED BY <1>5, <1>6, <1>7, <1>8, <1>9 DEF i

\* A store keeps the two abreast: both change the same bytes.
LEMMA StoreStep ==
  ASSUME PatchedInv, PatchedEdge(FALSE), WithinWord, NEW k \in 1 .. Len(source), NEW o \in 0 .. 2,
         o < Len(InstrPatch(source[k])), At(k, o), Within(source[k], o), source[k].op \in Stores
  PROVE  Agree' /\ pc' = 4 * Begins(source)[k] /\ BytesOf(ram)' = plain'.bytes /\ regs'[0] = 0
<1> DEFINE i == source[k]
           A == Address
<1>1. i \in Instructions /\ i.op \in Stores /\ i.op \notin Loads /\ i.op # "addi"
  <2>1. i \in Instructions /\ i.op \in Stores
    BY SourceInstr DEF PatchedInv
  <2> HIDE DEF i
  <2> QED BY <2>1 DEF Loads, Stores
<1>2. /\ Instr = i /\ o + 1 = Len(InstrPatch(i)) /\ Agree
      /\ A = Sum(plain.regs[i.rs1], i.imm) /\ Rs2 = plain.regs[i.rs2]
  BY <1>1, Unpatched
<1>3. CoreTypeOK /\ CoreEdge(FALSE, FALSE)
  BY DEF PatchedInv, PatchedEdge
<1>4. /\ pc' = Sum(pc, 4) /\ regs' = regs
      /\ ram' = [ram EXCEPT ![RamWord(A)] = MergeLanes(Instr.op, Offset(A), @, Rs2)]
  BY <1>1, <1>2, <1>3, StoreEdge
<1>5. pc' = 4 * Begins(source)[k]
  BY <1>2, <1>4, PatchedFetch
<1>6. plain' = Stored(i)
  <2>1. plain' = PlainAfter(i)
    BY <1>2, PlainSteps
  <2>2. PlainAfter(i) = Stored(i)
    BY <1>1, Zenon DEF PlainAfter
  <2> QED BY <2>1, <2>2
<1>7. BytesOf(ram') = Stored(i).bytes
  <2>1. Offset(A) + Width(i.op) <= Lanes
    BY <1>1, <1>2 DEF WithinWord
  <2>2. ram' = [ram EXCEPT ![RamWord(A)] = MergeLanes(i.op, Offset(A), @, plain.regs[i.rs2])]
    BY <1>2, <1>4
  <2> HIDE DEF A, i
  <2> QED BY <1>1, <1>2, <2>1, <2>2, StoreMeetsBytes
<1>8. plain'.regs = plain.regs
  <2>1. plain \in [ regs : [RegId -> Word], bytes : [0 .. Bytes - 1 -> 0 .. LaneSize - 1] ]
    BY DEF PatchedInv, PlainTyped
  <2> HIDE DEF i
  <2> QED BY <1>6, <2>1 DEF Stored
<1>9. BytesOf(ram)' = plain'.bytes
  <2>1. BytesOf(ram)' = BytesOf(ram')
    BY Zenon DEF BytesOf
  <2> QED BY <1>6, <1>7, <2>1
<1>10. Agree' /\ regs'[0] = 0
  BY <1>2, <1>4, <1>8 DEF Agree, PatchedInv
<1> QED BY <1>5, <1>9, <1>10

\* An addition keeps the two abreast: both read the same registers.
LEMMA AddStep ==
  ASSUME PatchedInv, PatchedEdge(FALSE), NEW k \in 1 .. Len(source), NEW o \in 0 .. 2,
         o < Len(InstrPatch(source[k])), At(k, o), Within(source[k], o), source[k].op = "addi"
  PROVE  Agree' /\ pc' = 4 * Begins(source)[k] /\ BytesOf(ram)' = plain'.bytes /\ regs'[0] = 0
<1> DEFINE i == source[k]
           v == Sum(plain.regs[i.rs1], i.imm)
<1>1. i \in Instructions /\ i.op = "addi" /\ i.op \notin Loads /\ i.op \notin Stores /\ i.rd \in RegId
  <2>1. i \in Instructions /\ i.op = "addi" /\ i.rd \in RegId
    BY SourceInstr DEF PatchedInv
  <2> HIDE DEF i
  <2> QED BY <2>1 DEF Loads, Stores
<1>2. /\ Instr = i /\ o + 1 = Len(InstrPatch(i)) /\ Agree /\ Rs1 = plain.regs[i.rs1]
  BY <1>1, Unpatched
<1>3. CoreTypeOK /\ CoreEdge(FALSE, FALSE)
  BY DEF PatchedInv, PatchedEdge
<1>4. /\ pc' = Sum(pc, 4) /\ ram' = ram
      /\ regs' = IF i.rd # 0 THEN [regs EXCEPT ![i.rd] = v] ELSE regs
  BY <1>1, <1>2, <1>3, AddEdge
<1>5. pc' = 4 * Begins(source)[k]
  BY <1>2, <1>4, PatchedFetch
<1>6. plain' = Written(i.rd, v)
  <2>1. plain' = PlainAfter(i)
    BY <1>2, PlainSteps
  <2>2. PlainAfter(i) = Written(i.rd, v)
    BY <1>1, Zenon DEF PlainAfter
  <2> QED BY <2>1, <2>2
<1> HIDE DEF v, i
<1>7. /\ regs \in [RegId -> Word] /\ plain.regs \in [RegId -> Word] /\ plain.bytes = BytesOf(ram)
      /\ plain \in [ regs : [RegId -> Word], bytes : [0 .. Bytes - 1 -> 0 .. LaneSize - 1] ]
      /\ regs[0] = 0 /\ 0 \in RegId
  BY CoreAssumption DEF PatchedInv, CoreTypeOK, PlainTyped, RegId
<1>8. /\ plain'.bytes = plain.bytes
      /\ plain'.regs = [plain.regs EXCEPT ![i.rd] = IF i.rd = 0 THEN 0 ELSE v]
  BY <1>6, <1>7 DEF Written
<1>9. ASSUME NEW r \in RegId \ {Temp} PROVE regs'[r] = plain'.regs[r]
  <2>1. regs[r] = plain.regs[r]
    BY <1>2 DEF Agree
  <2>2. CASE r = i.rd
    BY <1>1, <1>4, <1>7, <1>8, <2>2
  <2>3. CASE r # i.rd
    BY <1>1, <1>4, <1>7, <1>8, <2>1, <2>3
  <2> QED BY <2>2, <2>3
<1>10. regs'[0] = 0
  BY <1>4, <1>7
<1>11. BytesOf(ram)' = plain'.bytes
  <2>1. BytesOf(ram)' = BytesOf(ram)
    BY <1>4, Zenon DEF BytesOf
  <2> QED BY <1>7, <1>8, <2>1
<1> QED BY <1>5, <1>9, <1>10, <1>11 DEF Agree

\* A patch begins at a place.
LEMMA PatchBegins ==
  ASSUME NEW src \in Sources, NEW k \in 1 .. Len(src)
  PROVE  Begins(src)[k - 1] \in Nat
<1> DEFINE n == Len(src)
           B == Begins(src)
<1>1. n \in Nat /\ B \in [0 .. n -> Nat]
  BY PatchesInOrder
<1>2. k \in 1 .. n
  OBVIOUS
<1> HIDE DEF n, B
<1>3. k - 1 \in 0 .. n
  BY <1>1, <1>2
<1>4. B[k - 1] \in Nat
  BY <1>1, <1>3
<1> QED BY <1>4 DEF B

\* Within a patch: the base is kept, or the word is latched.
LEMMA KeepBaseStep ==
  ASSUME PatchedInv, PatchedEdge(FALSE), NEW k \in 1 .. Len(source),
         0 < Len(InstrPatch(source[k])), At(k, 0), Within(source[k], 0),
         Len(InstrPatch(source[k])) = 3
  PROVE  Abreast' /\ BytesOf(ram)' = plain'.bytes /\ regs'[0] = 0
<1> DEFINE i == source[k]
           l == Len(InstrPatch(i))
<1>1. i \in Instructions /\ i.rd \in RegId \ {Temp} /\ Temp \in RegId \ {0}
  BY SourceInstr DEF PatchedInv
<1>2. Instr = InstrPatch(i)[1] /\ Sum(pc, 4) = 4 * (Begins(source)[k - 1] + 1)
  <2>1. 0 \in 0 .. 2 /\ 0 + 1 = 1
    OBVIOUS
  <2>2. Instr = InstrPatch(i)[0 + 1] /\ Sum(pc, 4) = 4 * (Begins(source)[k - 1] + 0 + 1)
    BY <2>1, PatchedFetch
  <2>3. Begins(source)[k - 1] \in Nat
    BY PatchBegins DEF PatchedInv
  <2> QED BY <2>2, <2>3
<1>3. plain' = plain
  <2>1. 0 \in 0 .. 2 /\ 0 + 1 # 3
    OBVIOUS
  <2> QED BY <2>1, PlainSteps
<1>4. source' = source /\ CoreTypeOK /\ CoreEdge(FALSE, FALSE)
  BY DEF PatchedInv, PatchedEdge
<1>5. l = 3 /\ Within(i, 0)
  OBVIOUS
<1>6. i' = i
  BY <1>4
<1>7. k \in 1 .. Len(source)
  OBVIOUS
<1> HIDE DEF i
<1>8. i.op \in Loads /\ i.rd = i.rs1
  BY <1>1, <1>5, PatchLengths DEF l
<1>9. Instr = Move(Temp, i.rd)
  BY <1>1, <1>2, <1>8, PatchLengths
<1>10. Instr.op = "addi" /\ Instr.rd = Temp /\ Instr.rs1 = i.rd /\ Instr.imm = 0
  BY <1>9 DEF Move
<1>11. /\ pc' = Sum(pc, 4) /\ ram' = ram
       /\ regs' = [regs EXCEPT ![Temp] = Sum(Rs1, 0)]
  BY <1>1, <1>4, <1>10, AddEdge
<1>12. Sum(Rs1, 0) = regs[i.rd] /\ regs \in [RegId -> Word] /\ regs[0] = 0 /\ plain.bytes = BytesOf(ram)
  <2>1. regs \in [RegId -> Word] /\ regs[0] = 0 /\ plain.bytes = BytesOf(ram)
    BY DEF PatchedInv, CoreTypeOK
  <2> DEFINE w == regs[i.rd]
  <2>2. w \in Word /\ Rs1 = w
    BY <1>1, <1>10, <2>1 DEF Rs1
  <2> HIDE DEF w
  <2>3. w + 0 = w /\ w \in 0 .. WordSize - 1 /\ WordSize \in Nat \ {0}
    BY <2>2, WordAssumption DEF Word
  <2>4. w % WordSize = w
    BY <2>3, SmallRemainder
  <2> QED BY <2>1, <2>2, <2>3, <2>4 DEF Sum, w
<1>13. \A r \in RegId \ {Temp} : regs[r] = plain.regs[r]
  <2>1. ~LastLoad(i, 0)
    BY <1>5 DEF LastLoad, l
  <2> QED BY <1>5, <2>1 DEF Within
<1>14. (\A r \in RegId \ {Temp} : regs'[r] = plain.regs[r]) /\ regs'[Temp] = plain.regs[i.rs1]
  BY <1>1, <1>8, <1>11, <1>12, <1>13
<1>15. Within(i, 1)'
  <2>1. l' = l
    BY <1>6 DEF l
  <2> HIDE DEF l
  <2>2. l' = 3 /\ 1 + 1 # 3
    BY <1>5, <2>1
  <2>3. ~LastLoad(i, 1)'
    BY <2>2 DEF LastLoad, l
  <2> QED BY <1>3, <1>6, <1>14, <2>3 DEF Within
<1>16. At(k, 1)'
  BY <1>2, <1>4, <1>11 DEF At
<1>17. Abreast'
  <2>1. 1 \in 0 .. 2 /\ 1 < 3 /\ Len(InstrPatch(i')) = 3
    BY <1>5, <1>6 DEF l
  <2> QED BY <1>4, <1>7, <1>15, <1>16, <2>1 DEF Abreast, i
<1>18. BytesOf(ram)' = plain'.bytes /\ regs'[0] = 0
  <2>1. BytesOf(ram)' = BytesOf(ram)
    BY <1>11, Zenon DEF BytesOf
  <2> QED BY <1>1, <1>3, <1>11, <1>12, <2>1
<1> QED BY <1>17, <1>18

\* The first of two loads latches the word that the second is to take.
LEMMA FirstLoadStep ==
  ASSUME PatchedInv, PatchedEdge(FALSE), WithinWord, NEW k \in 1 .. Len(source), NEW o \in 0 .. 2,
         o < Len(InstrPatch(source[k])), At(k, o), Within(source[k], o),
         source[k].op \in Loads, o + 1 # Len(InstrPatch(source[k])),
         ~(Len(InstrPatch(source[k])) = 3 /\ o = 0)
  PROVE  Abreast' /\ BytesOf(ram)' = plain'.bytes /\ regs'[0] = 0
<1> DEFINE i == source[k]
           A == Address
           v == PickLanes(Instr.op, Offset(A), ramQ)
           l == Len(InstrPatch(i))
           n == o + 1
<1>1. i \in Instructions /\ i.rd \in RegId \ {Temp} /\ i.rs1 \in RegId \ {Temp} /\ Temp \in RegId \ {0}
  BY SourceInstr DEF PatchedInv
<1>2. l \in 1 .. 3
  BY <1>1, PatchLengths
<1>3. i.op \in Loads /\ o < l /\ n # l /\ ~(l = 3 /\ o = 0) /\ Within(i, o)
  OBVIOUS
<1>4. n \in {1, 2} /\ n + 1 = l /\ n < l /\ n \in 0 .. 2 /\ (l = 3 => o # 0)
  <2> HIDE DEF l
  <2> QED BY <1>2, <1>3
<1>5. Sum(pc, 4) = 4 * (Begins(source)[k - 1] + n)
  <2>1. Begins(source)[k - 1] \in Nat
    BY PatchBegins DEF PatchedInv
  <2>2. Sum(pc, 4) = 4 * (Begins(source)[k - 1] + o + 1)
    BY PatchedFetch
  <2> QED BY <2>1, <2>2
<1>6. plain' = plain
  BY PlainSteps
<1>7. source' = source /\ CoreTypeOK /\ CoreEdge(FALSE, FALSE)
  BY DEF PatchedInv, PatchedEdge
<1>8. Instr.op = i.op /\ Instr.rd = i.rd /\ A = Sum(plain.regs[i.rs1], i.imm)
  BY PatchedLoad
<1>9. /\ pc' = Sum(pc, 4) /\ ram' = ram /\ ramQ' = ram[RamWord(A)]
      /\ regs' = IF Instr.rd # 0 THEN [regs EXCEPT ![Instr.rd] = v] ELSE regs
  BY <1>3, <1>7, <1>8, LoadEdge
<1>10. i' = i /\ k \in 1 .. Len(source)
  BY <1>7
<1> HIDE DEF i, A, v
<1>11. regs \in [RegId -> Word] /\ regs[0] = 0 /\ plain.bytes = BytesOf(ram)
  BY DEF PatchedInv, CoreTypeOK
<1>12. ASSUME NEW r \in RegId \ {Temp}, r # i.rd PROVE regs'[r] = plain.regs[r]
  <2>1. regs[r] = plain.regs[r]
    BY <1>3, <1>12 DEF Within
  <2> QED BY <1>8, <1>9, <1>11, <1>12, <2>1
<1>13. regs'[Temp] = regs[Temp] /\ regs'[0] = 0
  BY <1>1, <1>8, <1>9, <1>11
<1>14. l = 3 => regs'[Temp] = plain.regs[i.rs1]
  BY <1>3, <1>4, <1>13 DEF Within, l
<1>15. Within(i, n)'
  <2>1. LastLoad(i, n)'
    BY <1>3, <1>4, <1>10 DEF LastLoad, l
  <2>2. ramQ' = ram'[RamWord(Sum(plain'.regs[i'.rs1], i'.imm))]
    BY <1>6, <1>8, <1>9, <1>10
  <2>3. l' = l
    BY <1>10 DEF l
  <2> HIDE DEF n
  <2> QED BY <1>6, <1>10, <1>12, <1>14, <2>1, <2>2, <2>3 DEF Within, l
<1>16. At(k, n)'
  BY <1>5, <1>7, <1>9 DEF At
<1>17. Abreast'
  <2>1. n \in 0 .. 2 /\ n < Len(InstrPatch(i'))
    BY <1>4, <1>10 DEF l
  <2> HIDE DEF n
  <2> QED BY <1>7, <1>10, <1>15, <1>16, <2>1 DEF Abreast, i
<1>18. BytesOf(ram)' = plain'.bytes
  <2>1. BytesOf(ram)' = BytesOf(ram)
    BY <1>9, Zenon DEF BytesOf
  <2> QED BY <1>6, <1>11, <2>1
<1> QED BY <1>13, <1>17, <1>18

\* The jump back to the first instruction.
LEMMA JumpBackStep ==
  ASSUME PatchedInv, PatchedEdge(FALSE), pc = 4 * Begins(source)[Len(source)], Agree
  PROVE  Agree' /\ pc' = 4 * Begins(source)[0] /\ BytesOf(ram)' = plain'.bytes /\ regs'[0] = 0
<1> DEFINE n == Len(source)
           B == Begins(source)
           p == B[n]
           W == WordSize
<1>1. source \in Sources /\ rom = Rom(source) /\ CoreTypeOK /\ CoreEdge(FALSE, FALSE)
  BY DEF PatchedInv, PatchedEdge
<1>2. p \in Nat /\ p < RomSize /\ Rom(source)[p] = JumpBack(p)
  BY <1>1, RomJumpsBack
<1>3. RomSize \in Nat /\ 4 * RomSize <= W /\ W \in Nat \ {0} /\ W % 2 = 0
  BY CoreAssumption, PatchAssumption, WordAssumption
<1>4. pc = 4 * p
  OBVIOUS
<1>5. ASSUME NEW j \in DOMAIN ends PROVE pc + 4 # ends[j]
  <2>1. /\ n \in Nat /\ B \in [0 .. n -> Nat] /\ \A x \in 0 .. n : \A y \in 0 .. x : B[y] <= B[x]
        /\ DOMAIN source = 1 .. n
    BY <1>1, PatchesInOrder
  <2>2. ends[j] = 4 * B[j] /\ j \in 1 .. n
    BY <2>1 DEF PatchedInv
  <2> HIDE DEF B, n
  <2>3. n \in 0 .. n /\ j \in 0 .. n
    BY <2>1, <2>2
  <2>4. B[j] <= B[n] /\ B[j] \in Nat
    BY <2>1, <2>2, <2>3
  <2> DEFINE x == B[j]
  <2> HIDE DEF p, x
  <2>5. x <= p /\ x \in Nat /\ ends[j] = 4 * x
    BY <2>2, <2>4 DEF p, x
  <2> QED BY <1>2, <1>4, <2>5
<1>6. plain' = plain
  <2>1. ~\E j \in DOMAIN ends : pc + 4 = ends[j]
    BY <1>5
  <2> QED BY <2>1 DEF PatchedEdge
<1> HIDE DEF p, W
<1>7. (pc \div 4) % RomSize = p
  <2>1. pc \div 4 = p
    BY <1>2, <1>4
  <2>2. p \in 0 .. RomSize - 1 /\ RomSize \in Nat \ {0}
    BY <1>2, <1>3
  <2> QED BY <2>1, <2>2, SmallRemainder
<1>8. Instr = JumpBack(p)
  BY <1>1, <1>2, <1>7 DEF Instr
<1>9. Instr.op = "jal" /\ Instr.rd = 0 /\ Instr.imm = (W \div 2 - 2 * p) % W
  BY <1>8 DEF JumpBack, W
<1>10. pc' = Sum(pc, 2 * Instr.imm) /\ ram' = ram /\ regs' = regs
  BY <1>1, <1>9, JumpEdge
<1>11. Sum(pc, 2 * Instr.imm) = 0
  <2> DEFINE h == W \div 2
             z == h - 2 * p
  <2>1. h \in Nat /\ W = 2 * h
    BY <1>3
  <2> HIDE DEF h
  <2>2. z \in 0 .. W - 1
    BY <1>2, <1>3, <2>1
  <2>3. Instr.imm = z % W
    BY <1>9 DEF h
  <2>4. z % W = z
    BY <1>3, <2>2, SmallRemainder
  <2>5. pc + 2 * Instr.imm = W
    BY <1>2, <1>4, <2>1, <2>3, <2>4
  <2>6. W % W = 0
    <3>1. W = (W * 1) + 0 /\ 0 \in 0 .. W - 1 /\ 1 \in Int
      BY <1>3
    <3> QED BY <1>3, <3>1, Quotient
  <2> QED BY <2>5, <2>6 DEF Sum, W
<1>12. B[0] = 0
  BY <1>1, PatchesInOrder
<1>13. BytesOf(ram)' = plain'.bytes
  <2>1. BytesOf(ram)' = BytesOf(ram)
    BY <1>10, Zenon DEF BytesOf
  <2>2. plain.bytes = BytesOf(ram)
    BY DEF PatchedInv
  <2> QED BY <1>6, <2>1, <2>2
<1>14. Agree' /\ regs'[0] = 0
  BY <1>6, <1>10 DEF Agree, PatchedInv
<1> QED BY <1>10, <1>11, <1>12, <1>13, <1>14

-----------------------------------------------------------------------------
\* Every edge keeps the machines abreast of each other.
LEMMA PatchedStarts == PatchedInit => PatchedInv
<1> SUFFICES ASSUME PatchedInit PROVE PatchedInv
  OBVIOUS
<1>1. CoreTypeOK
  <2>1. 0 \in Word /\ 0 \in Modes /\ 3 \in Modes /\ 0 \in Causes
    BY WordAssumption DEF Word, Modes, Causes
  <2> QED BY <2>1, CoreAssumption DEF PatchedInit, CoreInit, CoreTypeOK, TrapInit, TrapTypeOK
<1>2. source \in Sources /\ rom = Rom(source) /\ ends = [k \in DOMAIN source |-> 4 * Begins(source)[k]]
      /\ plain.regs = regs /\ plain.bytes = BytesOf(ram)
  BY DEF PatchedInit
<1>3. PlainTyped
  <2>1. ram \in [RamAddr -> Word] /\ regs \in [RegId -> Word]
    BY <1>1 DEF CoreTypeOK
  <2>2. BytesOf(ram) \in [0 .. Bytes - 1 -> 0 .. LaneSize - 1]
    BY <2>1, RamIsBytes
  <2>3. plain = [regs |-> regs, bytes |-> BytesOf(ram)]
    BY DEF PatchedInit
  <2> QED BY <2>1, <2>2, <2>3 DEF PlainTyped
<1>4. regs[0] = 0 /\ plain.regs[0] = 0
  BY <1>2, CoreAssumption DEF PatchedInit, CoreInit, RegId
<1>5. Abreast
  <2> DEFINE i == source[1]
  <2>1. /\ Len(source) \in Nat \ {0} /\ source \in Seq(Instructions)
        /\ Begins(source)[0] = 0
    BY <1>2, PatchesInOrder
  <2>2. 1 \in 1 .. Len(source) /\ i \in Instructions /\ 1 - 1 = 0 /\ 0 \in 0 .. 2
    BY <2>1
  <2>3. Len(InstrPatch(i)) \in 1 .. 3 /\ (i.op \in Loads => Len(InstrPatch(i)) # 1)
    <3> HIDE DEF i
    <3> QED BY <2>2, PatchLengths
  <2> HIDE DEF i
  <2>4. Within(i, 0)
    BY <1>2, <2>3 DEF Within, LastLoad
  <2>5. At(1, 0)
    BY <2>1, <2>2 DEF At, PatchedInit, CoreInit
  <2>6. 0 < Len(InstrPatch(i))
    BY <2>3
  <2> QED BY <2>2, <2>4, <2>5, <2>6 DEF Abreast, i
<1> QED BY <1>1, <1>2, <1>3, <1>4, <1>5 DEF PatchedInv

\* An edge of the core that runs is one of the steps above.
LEMMA PatchedRun ==
  ASSUME PatchedInv, PatchedEdge(FALSE), WithinWord
  PROVE  Abreast' /\ BytesOf(ram)' = plain'.bytes /\ regs'[0] = 0
<1>1. source \in Sources /\ source' = source
  BY DEF PatchedInv, PatchedEdge
<1>2. Len(source) \in Nat
  BY <1>1, PatchesInOrder
<1>3. CASE pc = 4 * Begins(source)[Len(source)] /\ Agree
  <2>1. 0 \in 0 .. Len(source)
    BY <1>2
  <2> QED BY <1>1, <1>3, <2>1, JumpBackStep, ArriveAbreast
<1>4. ASSUME NEW k \in 1 .. Len(source), NEW o \in 0 .. 2,
             o < Len(InstrPatch(source[k])), At(k, o), Within(source[k], o)
      PROVE  Abreast' /\ BytesOf(ram)' = plain'.bytes /\ regs'[0] = 0
  <2>1. k \in 0 .. Len(source)
    BY <1>2
  <2>2. source[k].op \in PlainOps
    BY <1>1, SourceInstr
  <2>3. CASE source[k].op \in Stores
    BY <1>1, <1>4, <2>1, <2>3, StoreStep, ArriveAbreast
  <2>4. CASE source[k].op = "addi"
    BY <1>1, <1>4, <2>1, <2>4, AddStep, ArriveAbreast
  <2>5. CASE source[k].op \in Loads
    <3>1. CASE o + 1 = Len(InstrPatch(source[k]))
      <4>1. LastLoad(source[k], o)
        BY <2>5, <3>1 DEF LastLoad
      <4> QED BY <1>1, <1>4, <2>1, <4>1, LastLoadStep, ArriveAbreast
    <3>2. CASE Len(InstrPatch(source[k])) = 3 /\ o = 0
      BY <1>4, <3>2, KeepBaseStep
    <3>3. CASE o + 1 # Len(InstrPatch(source[k])) /\ ~(Len(InstrPatch(source[k])) = 3 /\ o = 0)
      BY <1>4, <2>5, <3>3, FirstLoadStep
    <3> QED BY <3>1, <3>2, <3>3
  <2> QED BY <2>2, <2>3, <2>4, <2>5 DEF PlainOps
<1> QED BY <1>3, <1>4 DEF PatchedInv, Abreast

\* At an edge of the core that is stalled, neither machine moves.
LEMMA PatchedStall ==
  ASSUME PatchedInv, PatchedEdge(TRUE)
  PROVE  Abreast' /\ BytesOf(ram)' = plain'.bytes /\ regs'[0] = 0
<1>1. /\ pc' = pc /\ regs' = regs /\ ram' = ram /\ ramQ' = ramQ /\ plain' = plain
      /\ source' = source
  BY StalledCore DEF PatchedEdge
<1>2. Abreast' <=> Abreast
  BY <1>1 DEF Abreast, At, Within, LastLoad, Agree
<1>3. BytesOf(ram)' = BytesOf(ram)
  BY <1>1, Zenon DEF BytesOf
<1> QED BY <1>1, <1>2, <1>3 DEF PatchedInv

\* No edge takes the machine without latency out of its types.
LEMMA PlainKept ==
  ASSUME PlainTyped, source \in Sources, DOMAIN ends = DOMAIN source,
         NEW stall \in BOOLEAN, PatchedEdge(stall)
  PROVE  PlainTyped' /\ (plain.regs[0] = 0 => plain'.regs[0] = 0)
<1>1. plain' = plain \/ \E k \in DOMAIN ends : plain' = PlainAfter(source[k])
  BY DEF PatchedEdge
<1>2. DOMAIN source = 1 .. Len(source)
  BY PatchesInOrder
<1>3. \A k \in DOMAIN ends :
        /\ PlainAfter(source[k]) \in [ regs : [RegId -> Word], bytes : [0 .. Bytes - 1 -> 0 .. LaneSize - 1] ]
        /\ plain.regs[0] = 0 => PlainAfter(source[k]).regs[0] = 0
  BY <1>2, SourceInstr, PlainStays, PlainZero
<1> QED BY <1>1, <1>3 DEF PlainTyped

\* Every edge keeps the two abreast.
LEMMA PatchedSteps ==
  ASSUME PatchedInv, NEW stall \in BOOLEAN, PatchedEdge(stall), WithinWord
  PROVE  PatchedInv'
<1>1. CoreTypeOK'
  BY CoreEdgeTypes DEF PatchedInv, PatchedEdge
<1>2. PlainTyped' /\ plain'.regs[0] = 0
  BY PlainKept DEF PatchedInv
<1>3. source' = source /\ ends' = ends /\ rom' = rom
  BY DEF PatchedEdge, CoreEdge
<1>4. Abreast' /\ BytesOf(ram)' = plain'.bytes /\ regs'[0] = 0
  <2>1. CASE stall = FALSE
    BY <2>1, PatchedRun
  <2>2. CASE stall = TRUE
    BY <2>2, PatchedStall
  <2> QED BY <2>1, <2>2
<1> QED BY <1>1, <1>2, <1>3, <1>4 DEF PatchedInv

\* The steps of other parts leave the two as they are.
LEMMA PatchedStutters ==
  ASSUME PatchedInv, UNCHANGED patchedVars
  PROVE  PatchedInv'
<1>1. /\ rom' = rom /\ pc' = pc /\ regs' = regs /\ ram' = ram /\ ramQ' = ramQ /\ cycle' = cycle
      /\ UNCHANGED trapVars /\ source' = source /\ ends' = ends /\ plain' = plain
  BY DEF patchedVars, coreVars
<1>2. CoreTypeOK'
  BY <1>1 DEF PatchedInv, CoreTypeOK, TrapTypeOK, trapVars
<1>3. Abreast'
  BY <1>1 DEF PatchedInv, Abreast, At, Within, LastLoad, Agree
<1>4. BytesOf(ram)' = BytesOf(ram)
  BY <1>1, Zenon DEF BytesOf
<1> QED BY <1>1, <1>2, <1>3, <1>4 DEF PatchedInv, PlainTyped

\* Between two instructions of the source every patch before is complete.
LEMMA AbreastMeans == PatchedInv => LoadsFresh
<1> SUFFICES ASSUME PatchedInv, pc = 0 \/ \E j \in DOMAIN ends : pc = ends[j]
             PROVE  Agree
  BY DEF LoadsFresh, Agree, PatchedInv
<1> DEFINE n == Len(source)
           B == Begins(source)
<1>1. /\ source \in Sources /\ n \in Nat /\ DOMAIN source = 1 .. n
      /\ B \in [0 .. n -> Nat] /\ \A x \in 0 .. n : \A y \in 0 .. x : B[y] <= B[x]
      /\ ends = [j \in 1 .. n |-> 4 * B[j]]
  BY PatchesInOrder DEF PatchedInv
<1>2. ASSUME NEW k \in 1 .. n, NEW o \in 0 .. 2,
             o < Len(InstrPatch(source[k])), At(k, o), Within(source[k], o)
      PROVE  Agree
  <2> DEFINE i == source[k]
             l == Len(InstrPatch(i))
             p == B[k - 1] + o
  <2>1. i \in Instructions
    BY <1>1, SourceInstr
  <2>2. l \in 1 .. 3 /\ (i.op \in Loads => l # 1)
    <3> HIDE DEF i
    <3> QED BY <2>1, PatchLengths
  <2>3. /\ p \in Nat /\ p + 1 <= B[k] /\ B[k] \in Nat
    BY <1>1, <1>2, RomHolds
  <2>4. B[k - 1] \in Nat
    BY <1>1, PatchBegins
  <2>5. pc = 4 * p
    BY <1>2 DEF At
  <2>6. o = 0
    <3> SUFFICES ASSUME o # 0 PROVE FALSE
      OBVIOUS
    <3>1. p # 0 /\ B[k - 1] < p
      BY <2>4
    <3>2. PICK j \in 1 .. n : pc = 4 * B[j]
      <4>1. pc # 0
        <5> HIDE DEF p
        <5> QED BY <2>3, <2>5, <3>1
      <4> HIDE DEF B, n
      <4>2. PICK j \in DOMAIN ends : pc = ends[j]
        BY <4>1
      <4> QED BY <1>1, <4>2
    <3>3. B[j] \in Nat
      <4> HIDE DEF B, n
      <4>1. j \in 0 .. n
        BY <1>1
      <4> QED BY <1>1, <4>1
    <3>4. B[j] = p
      <4> DEFINE x == B[j]
      <4> HIDE DEF p, x
      <4>1. x \in Nat /\ pc = 4 * x
        BY <3>2, <3>3 DEF x
      <4> QED BY <2>3, <2>5, <4>1 DEF x
    <3> HIDE DEF p, B
    <3>5. B[k - 1] < B[j] /\ B[j] <= B[k] /\ B[j] # B[k]
      BY <2>3, <3>1, <3>4
    <3>6. j = k
      BY <1>1, <3>5, PatchEnds DEF B
    <3> QED BY <3>5, <3>6
  <2>7. ~LastLoad(i, o)
    <3> HIDE DEF i
    <3> QED BY <2>2, <2>6 DEF LastLoad
  <2> QED BY <1>2, <2>7 DEF Within, Agree
<1> QED BY <1>2 DEF PatchedInv, Abreast

\* Bytes, and accesses at a fixed place, stay within their words.
LEMMA StaysWithin == PatchedInv => WithinWord
<1> SUFFICES ASSUME PatchedInv, Instr.op \in Loads \cup Stores
             PROVE  Offset(Address) + Width(Instr.op) <= Lanes
  BY DEF WithinWord
<1>1. source \in Sources /\ rom = Rom(source) /\ CoreTypeOK
  BY DEF PatchedInv
<1>2. Lanes \in Nat \ {0} /\ Word \subseteq Int
  BY CoreAssumption, WordAssumption DEF Word
<1>3. CASE pc = 4 * Begins(source)[Len(source)] /\ Agree
  <2> DEFINE p == Begins(source)[Len(source)]
  <2>1. p \in Nat /\ p < RomSize /\ Rom(source)[p] = JumpBack(p) /\ RomSize \in Nat
    BY <1>1, RomJumpsBack, CoreAssumption
  <2>2. pc = 4 * p
    BY <1>3
  <2> HIDE DEF p
  <2>3. (pc \div 4) % RomSize = p
    <3>1. pc \div 4 = p
      BY <2>1, <2>2
    <3>2. p \in 0 .. RomSize - 1 /\ RomSize \in Nat \ {0}
      BY <2>1
    <3> QED BY <3>1, <3>2, SmallRemainder
  <2>4. Instr.op = "jal"
    BY <1>1, <2>1, <2>3 DEF Instr, JumpBack
  <2> QED BY <2>4 DEF Loads, Stores
<1>4. ASSUME NEW k \in 1 .. Len(source), NEW o \in 0 .. 2,
             o < Len(InstrPatch(source[k])), At(k, o), Within(source[k], o)
      PROVE  Offset(Address) + Width(Instr.op) <= Lanes
  <2> DEFINE i == source[k]
             A == Sum(plain.regs[i.rs1], i.imm)
  <2>1. i \in Instructions /\ i.imm \in Word
    BY <1>1, SourceInstr
  <2>2. Instr.op = i.op /\ Address = A
    <3>1. CASE i.op \notin Loads
      BY <1>4, <3>1, Unpatched
    <3>2. CASE i.op \in Loads /\ ~(Len(InstrPatch(i)) = 3 /\ o = 0)
      BY <1>4, <3>2, PatchedLoad
    <3>3. CASE Len(InstrPatch(i)) = 3 /\ o = 0
      <4>1. Instr = InstrPatch(i)[0 + 1]
        BY <1>4, <3>3, PatchedFetch
      <4> HIDE DEF i
      <4>2. i.op \in Loads /\ i.rd = i.rs1
        BY <2>1, <3>3, PatchLengths
      <4>3. Instr = Move(Temp, i.rd)
        BY <2>1, <4>1, <4>2, PatchLengths
      <4>4. Instr.op = "addi"
        BY <4>3 DEF Move
      <4> QED BY <4>4 DEF Loads, Stores
    <3> QED BY <3>1, <3>2, <3>3
  <2>3. Width(i.op) = 1 \/ (i.rs1 = 0 /\ (i.imm % Lanes) + Width(i.op) <= Lanes)
    <3>1. DOMAIN source = 1 .. Len(source)
      BY <1>1, PatchesInOrder
    <3> QED BY <1>1, <2>2, <3>1, AccessAssumption
  <2>4. plain.regs[0] = 0 /\ plain.regs[i.rs1] \in Word
    BY <2>1 DEF PatchedInv, PlainTyped, Instructions
  <2> HIDE DEF i
  <2>5. CASE Width(i.op) = 1
    <3>1. A \in Int
      BY <1>2, <2>1, <2>4, SumIsWord
    <3> HIDE DEF A
    <3>2. Offset(A) \in 0 .. Lanes - 1
      BY <1>2, <3>1 DEF Offset
    <3> QED BY <1>2, <2>2, <2>5, <3>2
  <2>6. CASE i.rs1 = 0 /\ (i.imm % Lanes) + Width(i.op) <= Lanes
    <3>1. i.imm \in 0 .. WordSize - 1 /\ WordSize \in Nat \ {0}
      BY <2>1, WordAssumption DEF Word
    <3>2. 0 + i.imm = i.imm /\ i.imm % WordSize = i.imm
      BY <3>1, SmallRemainder
    <3>3. A = i.imm
      BY <2>4, <2>6, <3>2 DEF Sum
    <3> QED BY <2>2, <2>6, <3>3 DEF Offset
  <2> QED BY <2>3, <2>5, <2>6
<1> QED BY <1>3, <1>4 DEF PatchedInv, Abreast

\* Wherever the core is stalled and however often the code runs, patched code
\* computes what its source would on a memory without latency; for every code
\* no access of which leaves its word, every memory and every width.
THEOREM LoadsFreshHolds == PatchedSpec /\ []WithinWord => []LoadsFresh
<1>1. PatchedInv /\ WithinWord /\ [PatchedNext]_patchedVars => PatchedInv'
  <2> SUFFICES ASSUME PatchedInv, WithinWord, [PatchedNext]_patchedVars PROVE PatchedInv'
    OBVIOUS
  <2>1. CASE PatchedNext
    BY <2>1, PatchedSteps DEF PatchedNext
  <2>2. CASE UNCHANGED patchedVars
    BY <2>2, PatchedStutters
  <2> QED BY <2>1, <2>2
<1> QED BY <1>1, PatchedStarts, AbreastMeans, PTL DEF PatchedSpec

-----------------------------------------------------------------------------
\* The four parts side by side.
UnitsInv ==
  /\ AluInv
  /\ CoreTypeOK
  /\ part = "patched" => PatchedInv
  /\ part = "startup" => StartupTypeOK

\* An edge under the start-up program keeps its types.
LEMMA StartupEdgeTypes ==
  ASSUME CoreTypeOK, StartupTypeOK, NEW stall \in BOOLEAN, StartupEdge(stall)
  PROVE  StartupTypeOK'
<1> DEFINE ctl == Control(Instr.op, stall)
           e == [cause |-> ExceptCode(Signal(ctl)), at |-> pc, a0 |-> regs[A0]]
<1>1. CoreTypeOK'
  BY CoreEdgeTypes DEF StartupEdge
<1>2. main' = main /\ breaks' \in 0 .. 2
  <2>1. breaks' = (IF ctl.fault = "ebreak" /\ breaks < 2 THEN breaks + 1 ELSE breaks)
    BY DEF StartupEdge
  <2> HIDE DEF ctl
  <2> QED BY <2>1 DEF StartupEdge, StartupTypeOK
<1>3. TrapTrigger(Signal(ctl)) => e \in [cause : Causes, at : Word, a0 : Word]
  <2>1. A0 \in RegId
    BY StartupAssumption, CoreAssumption DEF RegId, A0, T6
  <2>2. pc \in Word /\ regs[A0] \in Word
    BY <2>1 DEF CoreTypeOK
  <2>3. TrapTrigger(Signal(ctl)) => ExceptCode(Signal(ctl)) \in Causes
    <3> HIDE DEF ctl
    <3> QED BY CauseIsNamed DEF TrapTrigger, Causes
  <2> HIDE DEF ctl
  <2> QED BY <2>2, <2>3
<1>4. \A x \in raised' : x \in [cause : Causes, at : Word, a0 : Word]
  <2>1. raised' = raised \/ (TrapTrigger(Signal(ctl)) /\ raised' = {e})
    BY DEF StartupEdge
  <2> HIDE DEF e, ctl
  <2> QED BY <1>3, <2>1 DEF StartupTypeOK
<1> QED BY <1>1, <1>2, <1>4 DEF StartupTypeOK, CoreTypeOK

\* All parts start with their invariants.
LEMMA UnitsStart == MCInit => UnitsInv
<1> SUFFICES ASSUME MCInit PROVE UnitsInv
  OBVIOUS
<1>1. AluIdle => AluInv
  <2>1. NoIns \in AluInstrs
    BY Zenon DEF NoIns, AluInstrs, AluIns, Funct, Branches
  <2>2. Whole \in Nat \ {0}
    BY AluAssumption, PowersPositive DEF Whole
  <2> QED BY <2>1, <2>2 DEF AluIdle, AluInv, Operands
<1>2. AluInv
  BY <1>1, AluStarts DEF MCInit
<1>3. CoreInit
  BY DEF MCInit, PatchedInit, StartupInit
<1>4. CoreTypeOK
  <2>1. 0 \in Word /\ 0 \in Modes /\ 3 \in Modes /\ 0 \in Causes
    BY WordAssumption DEF Word, Modes, Causes
  <2> QED BY <1>3, <2>1, CoreAssumption DEF CoreInit, CoreTypeOK, TrapInit, TrapTypeOK
<1>5. part = "patched" => PatchedInv
  BY PatchedStarts DEF MCInit
<1>6. part = "startup" => StartupTypeOK
  BY <1>4 DEF MCInit, StartupInit, StartupTypeOK, CoreTypeOK
<1> QED BY <1>2, <1>4, <1>5, <1>6 DEF UnitsInv

\* What a part that does not run leaves alone.
LEMMA AluStill == ASSUME AluInv, UNCHANGED aluVars PROVE AluInv'
BY AluSteps

\* The types of the core are about its variables only.
LEMMA CoreStill ==
  ASSUME CoreTypeOK, UNCHANGED coreVars
  PROVE  CoreTypeOK'
BY DEF CoreTypeOK, TrapTypeOK, coreVars, trapVars

\* So are those of the start-up program.
LEMMA StartupStill ==
  ASSUME StartupTypeOK, UNCHANGED <<coreVars, main, breaks, raised>>
  PROVE  StartupTypeOK'
BY DEF StartupTypeOK, TrapTypeOK, coreVars, trapVars

\* Whichever part runs, its step keeps the invariants of all.
LEMMA UnitsStep == UnitsInv /\ [MCNext]_MCVars => UnitsInv'
<1> SUFFICES ASSUME UnitsInv, [MCNext]_MCVars PROVE UnitsInv'
  OBVIOUS
<1>1. AluInv /\ CoreTypeOK /\ (part = "patched" => PatchedInv) /\ (part = "startup" => StartupTypeOK)
  BY DEF UnitsInv
<1>2. CASE AluStep
  <2>1. /\ part' = part /\ UNCHANGED coreVars /\ UNCHANGED <<source, ends, plain>> /\ Execute
        /\ part = "alu"
    BY <1>2 DEF AluStep
  <2>2. AluInv'
    BY <1>1, <2>1, AluSteps
  <2> QED BY <1>1, <2>1, <2>2, CoreStill DEF UnitsInv
<1>3. CASE PatchedStep
  <2>1. part = "patched" /\ part' = part /\ UNCHANGED aluVars
    BY <1>3 DEF PatchedStep
  <2>2. PICK stall \in BOOLEAN : PatchedEdge(stall)
    BY <1>3 DEF PatchedStep, PatchedNext
  <2>3. PatchedInv'
    BY <1>1, <2>1, <2>2, StaysWithin, PatchedSteps
  <2>4. CoreTypeOK'
    BY <2>3 DEF PatchedInv
  <2> QED BY <1>1, <2>1, <2>3, <2>4, AluStill DEF UnitsInv
<1>4. ASSUME NEW stall \in BOOLEAN, StartupStep(stall) PROVE UnitsInv'
  <2>1. part = "startup" /\ part' = part /\ UNCHANGED aluVars /\ StartupEdge(stall)
    BY <1>4 DEF StartupStep
  <2>2. CoreTypeOK'
    BY <1>1, <2>1, CoreEdgeTypes DEF StartupEdge
  <2>3. StartupTypeOK'
    BY <1>1, <2>1, StartupEdgeTypes
  <2> QED BY <1>1, <2>1, <2>2, <2>3, AluStill DEF UnitsInv
<1>5. CASE MemStep(MemNext)
  <2>1. /\ part = "sdram" /\ part' = part /\ UNCHANGED aluVars /\ UNCHANGED coreVars
    BY <1>5 DEF MemStep
  <2> QED BY <1>1, <2>1, AluStill, CoreStill DEF UnitsInv
<1>6. CASE UNCHANGED MCVars
  <2>1. /\ part' = part /\ UNCHANGED aluVars /\ UNCHANGED coreVars /\ UNCHANGED patchedVars
        /\ UNCHANGED <<coreVars, main, breaks, raised>>
    BY <1>6 DEF MCVars, patchedVars
  <2> QED BY <1>1, <2>1, AluStill, CoreStill, PatchedStutters, StartupStill DEF UnitsInv
<1> QED BY <1>2, <1>3, <1>4, <1>5, <1>6 DEF MCNext

\* The inductive invariant of the composition.
LEMMA UnitsHold == MCSpec => []UnitsInv
BY UnitsStart, UnitsStep, PTL DEF MCSpec

\* Every instruction on every operands gives what the instruction set says but
\* for blt and bge whose difference overflows, and sraw and sraiw of a negative
\* word that really shift; for words of every width.
THEOREM ExecutionCorrect == MCSpec => []MeetsIsaBut
<1>1. UnitsInv => MeetsIsaBut
  BY AluInvMeets DEF UnitsInv
<1> QED BY <1>1, UnitsHold, PTL

\* Instructions, words and flags stay in their sets, in the unit, the core, the
\* machine without latency and the account of the program's end.
THEOREM UnitsTypeCorrect == MCSpec => []UnitsTypeOK
<1>1. UnitsInv => UnitsTypeOK
  <2> SUFFICES ASSUME UnitsInv PROVE UnitsTypeOK
    OBVIOUS
  <2>1. AluTypeOK
    BY AluInvTypes DEF UnitsInv
  <2>2. PatchedInv => PatchedTypeOK
    BY DEF PatchedInv, PatchedTypeOK, PlainTyped, CoreTypeOK
  <2> QED BY <2>1, <2>2 DEF UnitsInv, UnitsTypeOK
<1> QED BY <1>1, UnitsHold, PTL

\* The patched loads of the run see the stores before them.
THEOREM LoadsSeeStoresHolds == MCSpec => []LoadsSeeStores
<1>1. UnitsInv => LoadsSeeStores
  BY AbreastMeans DEF UnitsInv, LoadsSeeStores
<1> QED BY <1>1, UnitsHold, PTL
=============================================================================
