-------------------------------- MODULE Profile --------------------------------
(***************************************************************************)
(* Profiling: mcount, called at the start of every function, counts the    *)
(* arc from the caller, and the timer samples the program counter.  mcount *)
(* looks for the arc with the interrupts on, and an interrupt handler's    *)
(* functions call mcount too.                                              *)
(***************************************************************************)
EXTENDS Integers, FiniteSetsExt, WellFoundedInduction, FiniteSetTheorems, TLAPS

CONSTANTS Program, Handler,  \* who runs: the program, or an interrupt's handler
          Functions, Callers,
          Buckets,           \* of the hash of functions
          SlabEntries,       \* entries in MCOUNT_SLAB_INCREMENT
          TextBytes,         \* etext - stext
          BucketBytes,       \* PCSAMPLE_BYTES_PER_BUCKET
          MaxCalls,          \* bound: calls the program makes, and a handler
          MaxSamples         \* bound: samples taken

ProfileAssumption ==
    /\ Program # Handler /\ Functions \subseteq Nat /\ Buckets \in Nat \ {0}
    /\ SlabEntries \in Nat \ {0} /\ TextBytes \in Nat \ {0}
    /\ BucketBytes \in Nat \ {0} /\ MaxCalls \in Nat /\ MaxSamples \in Nat

VARIABLES heads,     \* __mcount_fn_head
          mem,       \* the entries written so far, by address
          slab,      \* mcount_slab_ptr and mcount_slab_size
          heap,      \* the end of the heap
          needInit,  \* pcsample_need_init
          timerUp,   \* alt_ticks_per_second() is not 0
          starts,    \* times the sampling alarm was started
          samples,   \* s_pcsamples, with what lies behind it
          irqOn, running,
          frame,     \* mcount's registers, of the program and of the handler
          called     \* calls made and counted, as the reader would count them

vars == <<heads, mem, slab, heap, needInit, timerUp, starts, samples,
          irqOn, running, frame, called>>
lists == <<heads, mem, slab, heap>>
sampler == <<needInit, timerUp, starts, samples>>

Nil == 0
Idle == [pc |-> "idle", self |-> Nil, from |-> Nil, fn |-> Nil, arc |-> Nil,
         val |-> 0, data |-> Nil, irq |-> FALSE]
Arcs == Functions \X Callers
Histogram == 0 .. (TextBytes \div BucketBytes) - 1
Bucket(f) == f % Buckets

Init == /\ heads = [b \in 0 .. Buckets - 1 |-> Nil] /\ mem = <<>>
        /\ slab = [ptr |-> Nil, left |-> 0] /\ heap = 1
        /\ needInit = TRUE /\ timerUp = FALSE /\ starts = 0
        /\ samples = [i \in 0 .. (TextBytes - 1) \div BucketBytes |-> 0]
        /\ irqOn = TRUE /\ running = Program
        /\ frame = [t \in {Program, Handler} |-> Idle]
        /\ called = [t \in {Program, Handler} |-> [a \in Arcs |-> 0]]

Me == frame[running]
Goto(f) == frame' = [frame EXCEPT ![running] = f]
\* Memory m with a value written at an address, whether it was used or not.
Put(m, at, value) == [x \in DOMAIN m \cup {at} |-> IF x = at THEN value ELSE m[x]]
CallsOf(t) == MapThenSumSet(LAMBDA a : called[t][a], Arcs)

-----------------------------------------------------------------------------
(* The assembler part.                                                     *)

Call(f, c) ==
    /\ Me.pc = "idle" /\ CallsOf(running) < MaxCalls
    /\ Goto([Idle EXCEPT !.pc = "functions", !.self = f, !.from = c,
                         !.fn = heads[Bucket(f)]])
    /\ UNCHANGED <<lists, sampler, irqOn, running, called>>

FindFunction ==
    /\ Me.pc = "functions"
    /\ Goto(CASE Me.fn = Nil -> [Me EXCEPT !.pc = "record"]
              [] Me.fn # Nil /\ mem[Me.fn].self = Me.self ->
                     [Me EXCEPT !.pc = "arcs", !.arc = mem[Me.fn].arcs]
              [] OTHER -> [Me EXCEPT !.fn = mem[@].next])
    /\ UNCHANGED <<lists, sampler, irqOn, running, called>>

LastArcLost(a) == a = Nil \/ mem[a].next = Nil
LastArc(a) == a = Nil

FindArc ==
    /\ Me.pc = "arcs"
    /\ Goto(CASE LastArc(Me.arc) -> [Me EXCEPT !.pc = "record"]
              [] ~LastArc(Me.arc) /\ mem[Me.arc].from = Me.from ->
                     [Me EXCEPT !.pc = "count", !.val = mem[Me.arc].count]
              [] OTHER -> [Me EXCEPT !.arc = mem[@].next])
    /\ UNCHANGED <<lists, sampler, irqOn, running, called>>

Finished == called' = [called EXCEPT ![running][<<Me.self, Me.from>>] = @ + 1]

\* The count was loaded by an instruction of its own.
CountedOver(v) == v
Counted(v) == v + 1

Count ==
    /\ Me.pc = "count"
    /\ mem' = [mem EXCEPT ![Me.arc].count = Counted(Me.val)]
    /\ Finished /\ Goto(Idle)
    /\ UNCHANGED <<heads, slab, heap, sampler, irqOn, running>>

-----------------------------------------------------------------------------
(* __mcount_record.                                                        *)

Record ==
    /\ Me.pc = "record"
    /\ Goto([Me EXCEPT !.pc = IF needInit THEN "starting" ELSE "lock"])
    /\ UNCHANGED <<lists, sampler, irqOn, running, called>>

Starting ==
    /\ Me.pc = "starting"
    /\ needInit' = FALSE
    /\ Goto([Me EXCEPT !.pc = "start"])
    /\ UNCHANGED <<lists, timerUp, starts, samples, irqOn, running, called>>

\* nios2_pcsample_init: the histogram is new and empty.
Start ==
    /\ Me.pc = "start"
    /\ needInit' = ~timerUp
    /\ starts' = IF timerUp THEN starts + 1 ELSE starts
    /\ samples' = IF timerUp THEN [i \in DOMAIN samples |-> 0] ELSE samples
    /\ Goto([Me EXCEPT !.pc = "lock"])
    /\ UNCHANGED <<lists, timerUp, irqOn, running, called>>

\* The list is searched without the lock and changed under it.
LockedNot == irqOn
Locked == FALSE

Lock ==
    /\ Me.pc = "lock"
    /\ irqOn' = Locked
    /\ Goto([Me EXCEPT !.pc = "take", !.irq = irqOn])
    /\ UNCHANGED <<lists, sampler, running, called>>

\* mcount_allocate: an entry from the slab, or from a new one.
Take ==
    /\ Me.pc = "take"
    /\ IF slab.left = 0
       THEN /\ heap' = heap + SlabEntries
            /\ slab' = [ptr |-> heap, left |-> SlabEntries]
            /\ Goto([Me EXCEPT !.pc = "link", !.data = heap])
       ELSE /\ Goto([Me EXCEPT !.pc = "link", !.data = slab.ptr])
            /\ UNCHANGED <<slab, heap>>
    /\ UNCHANGED <<heads, mem, sampler, irqOn, running, called>>

Used == slab' = [ptr |-> slab.ptr + 1, left |-> slab.left - 1]

LinkFunction ==
    /\ Me.pc = "link" /\ Me.fn = Nil /\ Used
    /\ mem' = Put(mem, Me.data, [next |-> heads[Bucket(Me.self)], self |-> Me.self,
                                arcs |-> Nil])
    /\ heads' = [heads EXCEPT ![Bucket(Me.self)] = Me.data]
    /\ Goto([Me EXCEPT !.pc = "take", !.fn = Me.data])
    /\ UNCHANGED <<heap, sampler, irqOn, running, called>>

LinkArc ==
    /\ Me.pc = "link" /\ Me.fn # Nil /\ Used
    /\ mem' = Put([mem EXCEPT ![Me.fn].arcs = Me.data], Me.data,
                  [next |-> mem[Me.fn].arcs, from |-> Me.from, count |-> 1])
    /\ Finished /\ Goto([Idle EXCEPT !.pc = "unlock", !.irq = Me.irq])
    /\ UNCHANGED <<heads, heap, sampler, irqOn, running>>

Unlock ==
    /\ Me.pc = "unlock"
    /\ irqOn' = Me.irq
    /\ Goto(Idle)
    /\ UNCHANGED <<lists, sampler, running, called>>

-----------------------------------------------------------------------------
(* Interrupts.                                                             *)

\* A handler runs from start to end.
Interrupt ==
    /\ irqOn /\ running = Program
    /\ irqOn' = FALSE /\ running' = Handler
    /\ UNCHANGED <<lists, sampler, frame, called>>

Return ==
    /\ running = Handler /\ Me.pc = "idle"
    /\ irqOn' = TRUE /\ running' = Program
    /\ UNCHANGED <<lists, sampler, frame, called>>

TimerStarts ==
    /\ ~timerUp /\ timerUp' = TRUE
    /\ UNCHANGED <<lists, needInit, starts, samples, irqOn, running, frame, called>>

\* nios2_pcsample, from the timer's interrupt: pc - s_low_pc.
SampleBeyond(pc) == (pc + BucketBytes) \div BucketBytes
SampleBucket(pc) == pc \div BucketBytes

Sample(pc) ==
    /\ irqOn /\ running = Program /\ starts > 0
    /\ MapThenSumSet(LAMBDA i : samples[i], DOMAIN samples) < MaxSamples
    /\ samples' = Put(samples, SampleBucket(pc),
                      1 + (IF SampleBucket(pc) \in DOMAIN samples
                           THEN samples[SampleBucket(pc)] ELSE 0))
    /\ UNCHANGED <<lists, needInit, timerUp, starts, irqOn, running, frame, called>>

Next == \/ \E f \in Functions, c \in Callers : Call(f, c)
        \/ FindFunction \/ FindArc \/ Count
        \/ Record \/ Starting \/ Start \/ Lock \/ Take
        \/ LinkFunction \/ LinkArc \/ Unlock
        \/ Interrupt \/ Return \/ TimerStarts
        \/ \E pc \in 0 .. TextBytes - 1 : Sample(pc)

Spec == Init /\ [][Next]_vars

-----------------------------------------------------------------------------
\* The addresses on a list.
Chain(head) ==
    LET at[n \in 0 .. Cardinality(DOMAIN mem)] ==
            IF n = 0 THEN head
            ELSE IF at[n - 1] = Nil THEN Nil ELSE mem[at[n - 1]].next
    IN  {at[n] : n \in DOMAIN at} \ {Nil}

Linked == UNION {Chain(heads[b]) : b \in DOMAIN heads}
Copies(a) == {x \in UNION {Chain(mem[e].arcs) : e \in {e \in Linked : mem[e].self = a[1]}} :
                 mem[x].from = a[2]}
Total(a) == MapThenSumSet(LAMBDA x : mem[x].count, Copies(a))

\* Type invariant.
TypeOK ==
    /\ DOMAIN mem \subseteq 1 .. heap - 1
    /\ \A b \in DOMAIN heads : heads[b] \in DOMAIN mem \cup {Nil}
    /\ slab.left \in 0 .. SlabEntries /\ slab.ptr + slab.left <= heap
    /\ needInit \in BOOLEAN /\ timerUp \in BOOLEAN /\ starts \in Nat
    /\ irqOn \in BOOLEAN /\ running \in {Program, Handler}

\* "We must disable interrupts around the allocation and the list update to
\* prevent corruption": whatever interrupts whatever, an entry written is on
\* its list and on no other.
NothingDropped ==
    LET fns == {e \in DOMAIN mem : "self" \in DOMAIN mem[e]}
    IN  /\ Linked = fns
        /\ UNION {Chain(mem[e].arcs) : e \in fns} = DOMAIN mem \ fns
        /\ \A d \in fns, e \in fns : d # e => Chain(mem[d].arcs) \cap Chain(mem[e].arcs) = {}

\* However often a search is interrupted, a function has at most two entries
\* and each of them at most two copies of an arc.
CopiesBounded ==
    /\ \A e \in Linked, c \in Callers :
           Cardinality({x \in Chain(mem[e].arcs) : mem[x].from = c}) <= 2
    /\ \A f \in Functions : Cardinality({e \in Linked : mem[e].self = f}) <= 2

\* The copies of an arc count every call of the program, and no call twice:
\* an interrupt between the load and the store of a count loses only calls of
\* its own handler.
ProgramCounted ==
    \A a \in Arcs : Total(a) \in called[Program][a] ..
                                 called[Program][a] + called[Handler][a]

\* "increment the relevant bucket in the histogram": a sample is counted in
\* the memory that the histogram was given.
SampledInHistogram == \A i \in DOMAIN samples : samples[i] > 0 => i \in Histogram

-----------------------------------------------------------------------------
(* The proofs.  A list is the set of its entries, each of them pointing at *)
(* the next lower address of the set, for entries are allocated upwards    *)
(* and linked in at the front.                                             *)

\* Of some numbers, one is the smallest.
LEMMA SmallestOf ==
  ASSUME NEW X \in SUBSET Nat, X # {}
  PROVE  \E x \in X : \A y \in X : x <= y
<1> DEFINE Below == {p \in Nat \X Nat : p[1] < p[2]}
<1>1. OpToRel(<, Nat) = Below
  BY Zenon DEF OpToRel
<1>2. IsWellFoundedOn(Below, Nat)
  BY <1>1, NatLessThanWellFounded, Zenon
<1>3. PICK x \in X : \A y \in X : ~ (<<y, x>> \in Below)
  <2> HIDE DEF Below
  <2> QED BY <1>2, WFMin, Zenon
<1>4. ASSUME NEW y \in X PROVE x <= y
  <2>1. ~(<<y, x>>[1] < <<y, x>>[2])
    BY <1>3, <1>4
  <2> QED BY <2>1
<1> QED BY <1>4

-----------------------------------------------------------------------------
(* Sums of counts over sets of entries.                                    *)

\* The sum of the counts of the entries S, for memory m.
SumOf(m, S) == MapThenSumSet(LAMBDA x : m[x].count, S)

One(s) == CHOOSE x \in s : TRUE

\* What the fold of SumOf computes for each subset.
Folds(m, S, g) ==
    g = [s \in SUBSET S |-> IF s = {} THEN 0 ELSE m[One(s)].count + g[s \ {One(s)}]]

LEMMA SumIsFold ==
  ASSUME NEW m, NEW S
  PROVE  SumOf(m, S) = (CHOOSE g : Folds(m, S, g))[S]
  BY Zenon DEF SumOf, MapThenSumSet, MapThenFoldSet, Folds, One

\* A set that is not empty has its chosen element, and is larger than without.
LEMMA WithoutOne ==
  ASSUME NEW s, IsFiniteSet(s), s # {}
  PROVE  /\ One(s) \in s /\ IsFiniteSet(s \ {One(s)})
         /\ Cardinality(s) \in Nat \ {0}
         /\ Cardinality(s \ {One(s)}) = Cardinality(s) - 1
<1>1. One(s) \in s
  BY DEF One
<1>2. Cardinality(s) \in Nat /\ Cardinality(s) # 0
  BY FS_CardinalityType, FS_EmptySet
<1> QED BY <1>1, <1>2, FS_RemoveElement

\* The fold exists, and its values are numbers.
LEMMA FoldExists ==
  ASSUME NEW m, NEW S, IsFiniteSet(S), \A x \in S : m[x].count \in Nat
  PROVE  \E g : Folds(m, S, g) /\ \A s \in SUBSET S : g[s] \in Nat
<1> DEFINE Small(n) == {s \in SUBSET S : Cardinality(s) <= n}
           At(g, s) == IF s = {} THEN 0 ELSE m[One(s)].count + g[s \ {One(s)}]
           Part(n) == \E g \in [Small(n) -> Nat] : \A s \in Small(n) : g[s] = At(g, s)
           Bad == {n \in Nat : ~Part(n)}
<1>1. ASSUME NEW s \in SUBSET S
      PROVE  IsFiniteSet(s) /\ Cardinality(s) \in Nat /\ Cardinality(s) <= Cardinality(S)
  BY FS_Subset, FS_CardinalityType
<1>2. Part(0)
  <2> DEFINE g == [s \in Small(0) |-> 0]
  <2>1. \A s \in Small(0) : s = {}
    <3>1. SUFFICES ASSUME NEW s \in Small(0) PROVE s = {}
      OBVIOUS
    <3>2. IsFiniteSet(s) /\ Cardinality(s) = 0
      BY <1>1
    <3> QED BY <3>2, FS_EmptySet
  <2>2. g \in [Small(0) -> Nat]
    OBVIOUS
  <2>3. \A s \in Small(0) : g[s] = At(g, s)
    BY <2>1
  <2> QED BY <2>2, <2>3
<1>3. ASSUME NEW n \in Nat, Part(n) PROVE Part(n + 1)
  <2>1. PICK g \in [Small(n) -> Nat] : \A s \in Small(n) : g[s] = At(g, s)
    BY <1>3
  <2> DEFINE h == [s \in Small(n + 1) |-> IF s \in Small(n) THEN g[s] ELSE At(g, s)]
  <2>2. ASSUME NEW s \in Small(n + 1), s # {}
        PROVE  s \ {One(s)} \in Small(n) /\ One(s) \in S
    <3>1. IsFiniteSet(s) /\ Cardinality(s) \in Nat /\ Cardinality(s) <= n + 1
      BY <1>1
    <3>2. One(s) \in s /\ Cardinality(s \ {One(s)}) = Cardinality(s) - 1
      BY <2>2, <3>1, WithoutOne
    <3> QED BY <3>1, <3>2
  <2>3. Small(n) \subseteq Small(n + 1)
    BY <1>1
  <2>4. h \in [Small(n + 1) -> Nat]
    <3>1. SUFFICES ASSUME NEW s \in Small(n + 1), s \notin Small(n) PROVE At(g, s) \in Nat
      BY <2>1
    <3>2. CASE s = {}
      BY <3>2
    <3>3. CASE s # {}
      <4>1. g[s \ {One(s)}] \in Nat /\ m[One(s)].count \in Nat
        BY <2>1, <2>2, <3>3
      <4> QED BY <4>1, <3>3
    <3> QED BY <3>2, <3>3
  <2>5. ASSUME NEW s \in Small(n + 1) PROVE h[s] = At(h, s)
    <3>1. h[s] = At(g, s)
      BY <2>1
    <3>2. CASE s = {}
      BY <3>1, <3>2
    <3>3. CASE s # {}
      <4>1. h[s \ {One(s)}] = g[s \ {One(s)}]
        BY <2>2, <2>3, <3>3
      <4> QED BY <3>1, <3>3, <4>1
    <3> QED BY <3>2, <3>3
  <2> HIDE DEF h
  <2> QED BY <2>4, <2>5
<1>4. Bad = {}
  <2> HIDE DEF Part
  <2>1. SUFFICES ASSUME Bad # {} PROVE FALSE
    OBVIOUS
  <2>2. PICK n \in Bad : \A k \in Bad : n <= k
    BY <2>1, SmallestOf, Zenon
  <2>3. n # 0 /\ n \in Nat
    BY <1>2
  <2>4. n - 1 \in Nat /\ n - 1 \notin Bad
    BY <2>2, <2>3
  <2> QED BY <1>3, <2>3, <2>4
<1>5. Cardinality(S) \in Nat
  BY FS_CardinalityType
<1>6. Part(Cardinality(S))
  <2> HIDE DEF Part
  <2> QED BY <1>4, <1>5
<1>7. PICK g \in [Small(Cardinality(S)) -> Nat] :
          \A s \in Small(Cardinality(S)) : g[s] = At(g, s)
  BY <1>6
<1>8. Small(Cardinality(S)) = SUBSET S
  BY <1>1
<1>9. g \in [SUBSET S -> Nat] /\ \A s \in SUBSET S : g[s] = At(g, s)
  BY <1>7, <1>8
<1>10. Folds(m, S, g)
  BY <1>9 DEF Folds
<1> QED BY <1>9, <1>10

\* Two folds agree on a set in which the counts they add agree.
LEMMA FoldsAgree ==
  ASSUME NEW m, NEW S, NEW g, Folds(m, S, g),
         NEW n, NEW T, NEW h, Folds(n, T, h),
         NEW s \in SUBSET S, s \in SUBSET T, IsFiniteSet(s),
         \A x \in s : m[x].count = n[x].count
  PROVE  g[s] = h[s]
<1> DEFINE Bad == {t \in SUBSET s : g[t] # h[t]}
           Sizes == {Cardinality(t) : t \in Bad}
<1>1. ASSUME NEW t \in SUBSET s
      PROVE  IsFiniteSet(t) /\ Cardinality(t) \in Nat
  BY FS_Subset, FS_CardinalityType
<1>2. SUFFICES ASSUME Bad # {} PROVE FALSE
  OBVIOUS
<1>3. Sizes \in SUBSET Nat /\ Sizes # {}
  BY <1>1, <1>2
<1>4. PICK k \in Sizes : \A j \in Sizes : k <= j
  BY <1>3, SmallestOf, Zenon
<1>5. PICK t \in Bad : Cardinality(t) = k
  BY <1>4
<1>6. g[t] = IF t = {} THEN 0 ELSE m[One(t)].count + g[t \ {One(t)}]
  BY <1>5 DEF Folds
<1>7. h[t] = IF t = {} THEN 0 ELSE n[One(t)].count + h[t \ {One(t)}]
  BY <1>5 DEF Folds
<1>8. t # {}
  BY <1>5, <1>6, <1>7
<1>9. /\ One(t) \in t /\ Cardinality(t \ {One(t)}) = Cardinality(t) - 1
      /\ Cardinality(t) \in Nat
  BY <1>1, <1>5, <1>8, WithoutOne
<1>10. t \ {One(t)} \in SUBSET s /\ t \ {One(t)} \notin Bad
  <2>1. SUFFICES ASSUME t \ {One(t)} \in Bad PROVE FALSE
    BY <1>5
  <2>2. Cardinality(t \ {One(t)}) \in Sizes
    BY <2>1
  <2>3. k <= Cardinality(t \ {One(t)})
    BY <1>4, <2>2
  <2> QED BY <1>5, <1>9, <2>3
<1>11. g[t \ {One(t)}] = h[t \ {One(t)}]
  BY <1>10
<1>12. m[One(t)].count = n[One(t)].count
  BY <1>5, <1>9
<1> QED BY <1>5, <1>6, <1>7, <1>8, <1>11, <1>12

\* A sum is what a fold over any larger set gives.
LEMMA SumFolded ==
  ASSUME NEW m, NEW S, IsFiniteSet(S), \A x \in S : m[x].count \in Nat
  PROVE  /\ SumOf(m, S) \in Nat
         /\ \E g : Folds(m, S, g) /\ \A s \in SUBSET S : SumOf(m, s) = g[s]
<1>1. PICK g : Folds(m, S, g) /\ \A s \in SUBSET S : g[s] \in Nat
  BY FoldExists
<1>2. ASSUME NEW s \in SUBSET S PROVE SumOf(m, s) = g[s]
  <2>1. IsFiniteSet(s) /\ \A x \in s : m[x].count \in Nat
    BY FS_Subset
  <2> DEFINE h == CHOOSE h : Folds(m, s, h)
  <2>2. \E f : Folds(m, s, f)
    BY <2>1, FoldExists
  <2>3. Folds(m, s, h)
    BY <2>2
  <2>4. SumOf(m, s) = h[s]
    BY SumIsFold, Zenon
  <2> HIDE DEF h
  <2>5. h[s] = g[s]
    <3>1. s \in SUBSET s /\ s \in SUBSET S /\ \A x \in s : m[x].count = m[x].count
      OBVIOUS
    <3>2. Folds(m, S, g)
      BY <1>1
    <3> QED BY <2>1, <2>3, <3>1, <3>2, FoldsAgree
  <2> QED BY <2>4, <2>5
<1> QED BY <1>1, <1>2

\* Equal counts have equal sums.
LEMMA SumKept ==
  ASSUME NEW m, NEW n, NEW S, IsFiniteSet(S),
         \A x \in S : m[x].count \in Nat /\ n[x].count = m[x].count
  PROVE  SumOf(n, S) = SumOf(m, S)
<1>1. PICK g : Folds(m, S, g) /\ \A s \in SUBSET S : SumOf(m, s) = g[s]
  BY SumFolded
<1>2. PICK h : Folds(n, S, h) /\ \A s \in SUBSET S : SumOf(n, s) = h[s]
  BY SumFolded
<1>3. g[S] = h[S]
  <2>1. S \in SUBSET S /\ \A x \in S : m[x].count = n[x].count
    OBVIOUS
  <2>2. Folds(m, S, g) /\ Folds(n, S, h)
    BY <1>1, <1>2
  <2> QED BY <2>1, <2>2, FoldsAgree
<1> QED BY <1>1, <1>2, <1>3

\* Whichever element is taken out, the rest and it make the sum.
LEMMA SumWithout ==
  ASSUME NEW m, NEW S, IsFiniteSet(S), \A x \in S : m[x].count \in Nat, NEW d \in S
  PROVE  SumOf(m, S) = m[d].count + SumOf(m, S \ {d})
<1>1. PICK g : Folds(m, S, g) /\ \A s \in SUBSET S : SumOf(m, s) = g[s]
  BY SumFolded
<1> DEFINE Wrong(s, x) == SumOf(m, s) # m[x].count + SumOf(m, s \ {x})
           Bad == {s \in SUBSET S : \E x \in s : Wrong(s, x)}
           Sizes == {Cardinality(s) : s \in Bad}
<1>2. ASSUME NEW s \in SUBSET S
      PROVE  /\ IsFiniteSet(s) /\ Cardinality(s) \in Nat /\ SumOf(m, s) \in Nat
             /\ s # {} => SumOf(m, s) = m[One(s)].count + SumOf(m, s \ {One(s)})
  <2>1. IsFiniteSet(s) /\ Cardinality(s) \in Nat
    BY FS_Subset, FS_CardinalityType
  <2>2. SumOf(m, s) \in Nat
    BY <2>1, SumFolded
  <2>3. s # {} => g[s] = m[One(s)].count + g[s \ {One(s)}]
    BY <1>1 DEF Folds
  <2>4. s \ {One(s)} \in SUBSET S
    OBVIOUS
  <2> QED BY <1>1, <2>1, <2>2, <2>3, <2>4
<1>3. SUFFICES ASSUME Bad # {} PROVE FALSE
  OBVIOUS
<1>4. Sizes \in SUBSET Nat /\ Sizes # {}
  <2>1. ASSUME NEW s \in Bad PROVE Cardinality(s) \in Nat
    BY <1>2
  <2> HIDE DEF Bad
  <2> QED BY <1>3, <2>1
<1>5. PICK k \in Sizes : \A j \in Sizes : k <= j
  BY <1>4, SmallestOf, Zenon
<1>6. PICK s \in Bad : Cardinality(s) = k
  BY <1>5
<1>7. PICK x \in s : Wrong(s, x)
  BY <1>6
<1> DEFINE y == One(s)
<1>8. s \in SUBSET S /\ s # {} /\ IsFiniteSet(s)
  BY <1>2, <1>6, <1>7
<1>9. y \in s /\ Cardinality(s) \in Nat
  BY <1>8, WithoutOne
<1>10. SumOf(m, s) = m[y].count + SumOf(m, s \ {y})
  BY <1>2, <1>8
<1> HIDE DEF y
<1>11. x # y
  BY <1>7, <1>10
<1>12. ASSUME NEW z \in s, NEW v \in s, v # z
       PROVE  SumOf(m, s \ {z}) = m[v].count + SumOf(m, (s \ {z}) \ {v})
  <2>1. s \ {z} \in SUBSET S /\ v \in s \ {z}
    BY <1>8, <1>12
  <2>2. Cardinality(s \ {z}) = Cardinality(s) - 1
    BY <1>8, FS_RemoveElement
  <2>3. s \ {z} \notin Bad
    <3>1. SUFFICES ASSUME s \ {z} \in Bad PROVE FALSE
      OBVIOUS
    <3>2. Cardinality(s \ {z}) \in Sizes
      BY <3>1
    <3>3. k <= Cardinality(s \ {z})
      BY <1>5, <3>2
    <3> QED BY <1>6, <1>9, <2>2, <3>3
  <2> QED BY <2>1, <2>3
<1>13. SumOf(m, s \ {y}) = m[x].count + SumOf(m, (s \ {y}) \ {x})
  BY <1>9, <1>11, <1>12
<1>14. SumOf(m, s \ {x}) = m[y].count + SumOf(m, (s \ {x}) \ {y})
  BY <1>9, <1>11, <1>12
<1>15. (s \ {x}) \ {y} = (s \ {y}) \ {x}
  OBVIOUS
<1>16. m[x].count \in Nat /\ m[y].count \in Nat /\ SumOf(m, (s \ {y}) \ {x}) \in Nat
  <2>1. (s \ {y}) \ {x} \in SUBSET S
    BY <1>8
  <2> QED BY <1>2, <1>8, <1>9, <2>1
<1>17. SumOf(m, s) = m[x].count + SumOf(m, s \ {x})
  <2>1. SumOf(m, s \ {x}) = m[y].count + SumOf(m, (s \ {y}) \ {x})
    BY <1>14, <1>15
  <2>2. \A a, b, c \in Nat : a + (b + c) = b + (a + c)
    OBVIOUS
  <2> DEFINE C == SumOf(m, (s \ {y}) \ {x})
  <2>3. SumOf(m, s) = m[y].count + (m[x].count + C)
    BY <1>10, <1>13, Zenon
  <2>4. m[y].count + (m[x].count + C) = m[x].count + (m[y].count + C)
    <3> HIDE DEF C
    <3>1. m[x].count \in Nat /\ m[y].count \in Nat /\ C \in Nat
      BY <1>16 DEF C
    <3> QED BY <2>2, <3>1, Zenon
  <2> QED BY <2>1, <2>3, <2>4, Zenon
<1> QED BY <1>7, <1>17

\* No entries sum up to nothing.
LEMMA SumOfNone == ASSUME NEW m PROVE SumOf(m, {}) = 0
<1>1. IsFiniteSet({})
  BY FS_EmptySet
<1>2. PICK g : Folds(m, {}, g) /\ \A s \in SUBSET {} : SumOf(m, s) = g[s]
  BY <1>1, SumFolded
<1>3. g[{}] = 0
  BY <1>2 DEF Folds
<1> QED BY <1>2, <1>3

\* An entry more adds its count.
LEMMA SumAdds ==
  ASSUME NEW m, NEW n, NEW S, IsFiniteSet(S), NEW d, d \notin S, n[d].count \in Nat,
         \A x \in S : m[x].count \in Nat /\ n[x].count = m[x].count
  PROVE  SumOf(n, S \cup {d}) = SumOf(m, S) + n[d].count
<1>1. IsFiniteSet(S \cup {d}) /\ \A x \in S \cup {d} : n[x].count \in Nat
  BY FS_AddElement
<1>2. SumOf(n, S \cup {d}) = n[d].count + SumOf(n, (S \cup {d}) \ {d})
  BY <1>1, SumWithout
<1>3. (S \cup {d}) \ {d} = S
  OBVIOUS
<1>4. SumOf(n, S) = SumOf(m, S) /\ SumOf(m, S) \in Nat
  BY SumKept, SumFolded
<1>5. SumOf(n, S \cup {d}) = n[d].count + SumOf(m, S)
  BY <1>2, <1>3, <1>4, Zenon
<1>6. \A a, b \in Nat : a + b = b + a
  OBVIOUS
<1> QED BY <1>4, <1>5, <1>6, Zenon

\* A count that changes changes the sum by as much.
LEMMA SumChanged ==
  ASSUME NEW m, NEW n, NEW S, IsFiniteSet(S), NEW d \in S, n[d].count \in Nat,
         \A x \in S : m[x].count \in Nat,
         \A x \in S \ {d} : n[x].count = m[x].count
  PROVE  /\ SumOf(n, S) = SumOf(m, S) - m[d].count + n[d].count
         /\ m[d].count <= SumOf(m, S) /\ SumOf(m, S) \in Nat
<1>1. IsFiniteSet(S \ {d}) /\ \A x \in S \ {d} : m[x].count \in Nat /\ n[x].count = m[x].count
  BY FS_RemoveElement
<1>2. \A x \in S : n[x].count \in Nat
  BY <1>1
<1>3. SumOf(n, S) = n[d].count + SumOf(n, S \ {d})
  BY <1>2, SumWithout
<1>4. SumOf(m, S) = m[d].count + SumOf(m, S \ {d})
  BY SumWithout
<1>5. SumOf(n, S \ {d}) = SumOf(m, S \ {d})
  BY <1>1, SumKept
<1>6. SumOf(m, S \ {d}) \in Nat /\ SumOf(m, S) \in Nat
  BY <1>1, SumFolded
<1> QED BY <1>3, <1>4, <1>5, <1>6

-----------------------------------------------------------------------------
(* Lists.  Entries are taken at ascending addresses and put in front, so a *)
(* list is a set of entries in descending order.                           *)

\* The first of the entries S of a list.
IsFirst(h, S) == IF S = {} THEN h = Nil ELSE h \in S /\ \A x \in S : x <= h

\* The entries S are the list at h, in memory m.
IsList(m, h, S) == /\ IsFirst(h, S)
                   /\ \A x \in S : IsFirst(m[x].next, {y \in S : y < x})

\* Chain, for memory m.
ChainIn(m, head) ==
    LET at[n \in 0 .. Cardinality(DOMAIN m)] ==
            IF n = 0 THEN head
            ELSE IF at[n - 1] = Nil THEN Nil ELSE m[at[n - 1]].next
    IN  {at[n] : n \in DOMAIN at} \ {Nil}

LEMMA ChainNow ==
  ASSUME NEW h
  PROVE  Chain(h) = ChainIn(mem, h)
  BY Zenon DEF Chain, ChainIn

LEMMA ChainThen ==
  \A e : Chain(mem[e].arcs)' = ChainIn(mem', mem'[e].arcs)
  BY Zenon DEF Chain, ChainIn

\* The steps of a walk from h.
Walks(m, h, at) ==
    at = [n \in 0 .. Cardinality(DOMAIN m) |->
             IF n = 0 THEN h
             ELSE IF at[n - 1] = Nil THEN Nil ELSE m[at[n - 1]].next]

LEMMA ChainWalked ==
  ASSUME NEW m, NEW h
  PROVE  ChainIn(m, h) = {(CHOOSE at : Walks(m, h, at))[n] :
                             n \in DOMAIN (CHOOSE at : Walks(m, h, at))} \ {Nil}
  BY Zenon DEF ChainIn, Walks

LEMMA WalkExists ==
  ASSUME NEW m, NEW h, NEW S, IsList(m, h, S), Cardinality(DOMAIN m) \in Nat
  PROVE  \E at : Walks(m, h, at) /\ at \in [0 .. Cardinality(DOMAIN m) -> S \cup {Nil}]
<1> DEFINE Step(g, k) == IF k = 0 THEN h
                         ELSE IF g[k - 1] = Nil THEN Nil ELSE m[g[k - 1]].next
           Part(n) == \E g \in [0 .. n -> S \cup {Nil}] : \A k \in 0 .. n : g[k] = Step(g, k)
           Bad == {n \in Nat : ~Part(n)}
<1>1. h \in S \cup {Nil} /\ \A x \in S : m[x].next \in S \cup {Nil}
  BY DEF IsList, IsFirst
<1>2. Part(0)
  <2> DEFINE g == [k \in 0 .. 0 |-> h]
  <2>1. g \in [0 .. 0 -> S \cup {Nil}] /\ \A k \in 0 .. 0 : g[k] = Step(g, k)
    BY <1>1
  <2> QED BY <2>1
<1>3. ASSUME NEW n \in Nat, Part(n) PROVE Part(n + 1)
  <2>1. PICK g \in [0 .. n -> S \cup {Nil}] : \A k \in 0 .. n : g[k] = Step(g, k)
    BY <1>3
  <2> DEFINE f == [k \in 0 .. n + 1 |-> IF k <= n THEN g[k] ELSE Step(g, k)]
  <2>2. Step(g, n + 1) \in S \cup {Nil}
    BY <1>1, <2>1
  <2>3. f \in [0 .. n + 1 -> S \cup {Nil}]
    <3>1. SUFFICES ASSUME NEW k \in 0 .. n + 1 PROVE f[k] \in S \cup {Nil}
      OBVIOUS
    <3>2. CASE k <= n
      BY <2>1, <3>2
    <3>3. CASE k = n + 1
      BY <2>2, <3>3
    <3> QED BY <3>2, <3>3
  <2>4. ASSUME NEW k \in 0 .. n + 1 PROVE f[k] = Step(f, k)
    <3>1. f[k] = Step(g, k)
      BY <2>1
    <3>2. CASE k = 0
      BY <3>1, <3>2
    <3>3. CASE k # 0
      <4>1. f[k - 1] = g[k - 1]
        BY <3>3
      <4> QED BY <3>1, <3>3, <4>1
    <3> QED BY <3>2, <3>3
  <2> HIDE DEF f
  <2> QED BY <2>3, <2>4
<1>4. Bad = {}
  <2> HIDE DEF Part
  <2>1. SUFFICES ASSUME Bad # {} PROVE FALSE
    OBVIOUS
  <2>2. PICK n \in Bad : \A k \in Bad : n <= k
    BY <2>1, SmallestOf, Zenon
  <2>3. n # 0 /\ n \in Nat
    BY <1>2
  <2>4. n - 1 \in Nat /\ n - 1 \notin Bad
    BY <2>2, <2>3
  <2> QED BY <1>3, <2>3, <2>4
<1> DEFINE N == Cardinality(DOMAIN m)
<1>5. Part(N)
  <2> HIDE DEF Part, N
  <2> QED BY <1>4 DEF N
<1>6. PICK g \in [0 .. N -> S \cup {Nil}] : \A k \in 0 .. N : g[k] = Step(g, k)
  BY <1>5
<1>7. Walks(m, h, g)
  BY <1>6 DEF Walks
<1> QED BY <1>6, <1>7

\* The chain from the head of a list is the list.
LEMMA ChainIs ==
  ASSUME NEW m, NEW h, NEW S, IsList(m, h, S), S \subseteq DOMAIN m,
         DOMAIN m \subseteq Nat \ {0}, IsFiniteSet(DOMAIN m)
  PROVE  ChainIn(m, h) = S
<1> DEFINE N == Cardinality(DOMAIN m)
           at == CHOOSE g : Walks(m, h, g)
<1>1. N \in Nat /\ IsFiniteSet(S)
  BY FS_CardinalityType, FS_Subset
<1>2. Walks(m, h, at) /\ \E g : Walks(m, h, g) /\ g \in [0 .. N -> S \cup {Nil}]
  <2>1. PICK g : Walks(m, h, g) /\ g \in [0 .. N -> S \cup {Nil}]
    BY <1>1, WalkExists
  <2> QED BY <2>1
<1>3. ChainIn(m, h) = {at[n] : n \in DOMAIN at} \ {Nil}
  BY ChainWalked, Zenon
<1> HIDE DEF at
<1>4. /\ DOMAIN at = 0 .. N
      /\ \A n \in 0 .. N : at[n] = IF n = 0 THEN h
                                   ELSE IF at[n - 1] = Nil THEN Nil ELSE m[at[n - 1]].next
  BY <1>2 DEF Walks
<1>5. h \in S \cup {Nil} /\ \A x \in S : m[x].next \in S \cup {Nil}
  BY DEF IsList, IsFirst
<1>6. \A n \in 0 .. N : at[n] \in S \cup {Nil}
  <2> DEFINE Bad == {n \in 0 .. N : at[n] \notin S \cup {Nil}}
  <2>1. SUFFICES ASSUME Bad # {} PROVE FALSE
    OBVIOUS
  <2>2. PICK n \in Bad : \A k \in Bad : n <= k
    <3>1. Bad \in SUBSET Nat
      OBVIOUS
    <3> QED BY <2>1, <3>1, SmallestOf, Zenon
  <2>3. n # 0
    BY <1>4, <1>5
  <2>4. n - 1 \in 0 .. N /\ n - 1 \notin Bad
    BY <1>1, <2>2, <2>3
  <2> QED BY <1>4, <1>5, <2>2, <2>3, <2>4
<1> DEFINE Above(x) == {y \in S : x < y}
<1>7. ASSUME NEW x \in S PROVE IsFiniteSet(Above(x)) /\ Cardinality(Above(x)) \in 0 .. N
  <2>1. Above(x) \in SUBSET DOMAIN m
    OBVIOUS
  <2> HIDE DEF Above
  <2> QED BY <1>1, <2>1, FS_Subset, FS_CardinalityType
<1> DEFINE Bad == {n \in 0 .. N : \E x \in S : Cardinality(Above(x)) = n /\ at[n] # x}
<1>8. Bad = {}
  <2>1. SUFFICES ASSUME Bad # {} PROVE FALSE
    OBVIOUS
  <2>2. PICK n \in Bad : \A k \in Bad : n <= k
    <3>1. Bad \in SUBSET Nat
      OBVIOUS
    <3> HIDE DEF Bad
    <3> QED BY <2>1, <3>1, SmallestOf, Zenon
  <2>3. PICK x \in S : Cardinality(Above(x)) = n /\ at[n] # x
    BY <2>2
  <2>4. x \in Nat /\ n \in 0 .. N /\ S # {} /\ S \subseteq Nat \ {0}
    BY <2>2
  <2>5. CASE Above(x) = {}
    <3>1. n = 0 /\ at[0] = h
      BY <1>1, <1>4, <2>3, <2>5, FS_EmptySet
    <3>2. h \in S /\ x <= h
      BY <2>4 DEF IsList, IsFirst
    <3> QED BY <2>3, <2>4, <2>5, <3>1, <3>2
  <2>6. CASE Above(x) # {}
    <3>1. PICK z \in Above(x) : \A y \in Above(x) : z <= y
      <4>1. Above(x) \in SUBSET Nat
        BY <2>4
      <4> HIDE DEF Above
      <4> QED BY <2>6, <4>1, SmallestOf, Zenon
    <3>2. z \in S /\ z \in Nat \ {0} /\ x < z
      BY <2>4, <3>1
    <3>3. Above(z) = Above(x) \ {z}
      BY <2>4, <3>1, <3>2
    <3>4. n # 0 /\ Cardinality(Above(z)) = n - 1
      <4>1. IsFiniteSet(Above(x))
        BY <1>7
      <4> HIDE DEF Above
      <4>2. Cardinality(Above(x)) # 0
        BY <2>6, <4>1, FS_EmptySet
      <4>3. Cardinality(Above(x) \ {z}) = n - 1
        BY <2>3, <3>1, <4>1, FS_RemoveElement
      <4> QED BY <2>3, <3>3, <4>2, <4>3
    <3>5. at[n - 1] = z
      <4>1. n - 1 \in 0 .. N /\ ~(n <= n - 1)
        BY <1>1, <2>4, <3>4
      <4>2. n - 1 \notin Bad
        BY <2>2, <4>1
      <4> QED BY <3>2, <3>4, <4>1, <4>2
    <3>6. at[n] = m[z].next
      BY <1>4, <2>4, <3>2, <3>4, <3>5 DEF Nil
    <3>7. IsFirst(m[z].next, {y \in S : y < z})
      BY <3>2 DEF IsList
    <3>8. m[z].next \in S /\ m[z].next < z /\ x <= m[z].next
      BY <3>2, <3>7 DEF IsFirst
    <3>9. ~(x < m[z].next)
      BY <2>4, <3>1, <3>2, <3>8
    <3> QED BY <2>3, <2>4, <3>6, <3>8, <3>9
  <2> QED BY <2>5, <2>6
<1>9. ASSUME NEW x \in S PROVE \E n \in 0 .. N : at[n] = x
  BY <1>7, <1>8
<1>10. 0 \notin S
  OBVIOUS
<1> HIDE DEF N
<1> QED BY <1>3, <1>4, <1>6, <1>9, <1>10 DEF Nil

\* A list stays one while its entries keep their successors.
LEMMA ListKept ==
  ASSUME NEW m, NEW n, NEW h, NEW S, IsList(m, h, S), \A x \in S : n[x].next = m[x].next
  PROVE  IsList(n, h, S)
  BY DEF IsList

\* An entry of a higher address is put in front.
LEMMA ListAdds ==
  ASSUME NEW m, NEW n, NEW h, NEW S \in SUBSET Nat, IsList(m, h, S),
         \A x \in S : n[x].next = m[x].next,
         NEW d \in Nat, \A x \in S : x < d, n[d].next = h
  PROVE  IsList(n, d, S \cup {d})
<1>1. IsFirst(d, S \cup {d})
  BY DEF IsFirst
<1>2. ASSUME NEW x \in S PROVE IsFirst(n[x].next, {y \in S \cup {d} : y < x})
  <2>1. {y \in S \cup {d} : y < x} = {y \in S : y < x}
    OBVIOUS
  <2> QED BY <2>1 DEF IsList
<1>3. IsFirst(n[d].next, {y \in S \cup {d} : y < d})
  <2>1. {y \in S \cup {d} : y < d} = S
    OBVIOUS
  <2> QED BY <2>1 DEF IsList
<1> QED BY <1>1, <1>2, <1>3 DEF IsList

LEMMA ListEmpty == ASSUME NEW m PROVE IsList(m, Nil, {})
  BY DEF IsList, IsFirst

\* Going from an entry of a list to the next skips none.
LEMMA ListNext ==
  ASSUME NEW m, NEW h, NEW S \in SUBSET (Nat \ {0}), IsList(m, h, S)
  PROVE  /\ h \in S \cup {Nil} /\ h \in Nat /\ \A y \in S : ~(h < y)
         /\ \A x \in S : /\ m[x].next \in S \cup {Nil} /\ m[x].next \in Nat
                         /\ \A y \in S : m[x].next < y => x <= y
<1>1. h \in S \cup {Nil} /\ h \in Nat /\ \A y \in S : ~(h < y)
  BY DEF IsList, IsFirst, Nil
<1>2. ASSUME NEW x \in S
      PROVE  /\ m[x].next \in S \cup {Nil} /\ m[x].next \in Nat
             /\ \A y \in S : m[x].next < y => x <= y
  <2> DEFINE Below == {y \in S : y < x}
  <2>1. IsFirst(m[x].next, Below)
    BY DEF IsList
  <2>2. CASE Below = {}
    BY <2>1, <2>2 DEF IsFirst, Nil
  <2>3. CASE Below # {}
    <3>1. m[x].next \in Below /\ \A y \in Below : y <= m[x].next
      BY <2>1, <2>3 DEF IsFirst
    <3> QED BY <3>1
  <2> QED BY <2>2, <2>3
<1> QED BY <1>1, <1>2

-----------------------------------------------------------------------------
(* The lists in memory.  What follows takes the memory and the heads as    *)
(* parameters, for a lemma to say what a change makes of them.             *)

FnEntry == [next : Nat, self : Functions, arcs : Nat]
ArcEntry == [next : Nat, from : Callers, count : Nat]

\* The entries of functions, those of one bucket, and those of one function.
FnsIn(m) == {e \in DOMAIN m : "self" \in DOMAIN m[e]}
InBucket(m, b) == {e \in FnsIn(m) : Bucket(m[e].self) = b}
Same(m, f) == {e \in FnsIn(m) : m[e].self = f}

\* The arcs of an entry, and the copies that it has of one.
OwnIn(m, e) == ChainIn(m, m[e].arcs)
CopiesIn(m, e, c) == {x \in OwnIn(m, e) : m[x].from = c}

Typed(m) == /\ IsFiniteSet(DOMAIN m) /\ DOMAIN m \subseteq Nat \ {0}
            /\ \A x \in DOMAIN m : m[x] \in FnEntry \cup ArcEntry

\* Every entry is on the list where it belongs and on no other.
ListsIn(m, h) ==
    /\ Typed(m)
    /\ h \in [0 .. Buckets - 1 -> Nat]
    /\ \A b \in 0 .. Buckets - 1 : IsList(m, h[b], InBucket(m, b))
    /\ \A e \in FnsIn(m) : /\ OwnIn(m, e) \subseteq DOMAIN m \ FnsIn(m)
                           /\ IsList(m, m[e].arcs, OwnIn(m, e))
    /\ \A x \in DOMAIN m \ FnsIn(m) : \E e \in FnsIn(m) : x \in OwnIn(m, e)
    /\ \A d \in FnsIn(m), e \in FnsIn(m) : d # e => OwnIn(m, d) \cap OwnIn(m, e) = {}

LEMMA Kinds ==
  /\ \A r \in FnEntry : /\ "self" \in DOMAIN r /\ r.next \in Nat /\ r.self \in Functions
                        /\ r.arcs \in Nat
  /\ \A r \in ArcEntry : /\ ~("self" \in DOMAIN r) /\ r.next \in Nat /\ r.from \in Callers
                         /\ r.count \in Nat
  BY DEF FnEntry, ArcEntry

LEMMA Entries ==
  ASSUME NEW m, Typed(m)
  PROVE  /\ \A e \in FnsIn(m) : /\ m[e] \in FnEntry /\ m[e].next \in Nat
                                /\ m[e].self \in Functions /\ m[e].arcs \in Nat
         /\ \A x \in DOMAIN m \ FnsIn(m) :
                /\ m[x] \in ArcEntry /\ m[x].next \in Nat /\ m[x].from \in Callers
                /\ m[x].count \in Nat
         /\ FnsIn(m) \subseteq DOMAIN m
  BY Kinds DEF Typed, FnsIn

LEMMA Buckets0 ==
  ASSUME ProfileAssumption, NEW f \in Functions
  PROVE  Bucket(f) \in 0 .. Buckets - 1
  BY SMT DEF ProfileAssumption, Bucket

\* __mcount_record: a new entry of a function.
FunctionAdded(m, h, f, d, n, k) ==
    /\ n = Put(m, d, [next |-> h[Bucket(f)], self |-> f, arcs |-> Nil])
    /\ k = [h EXCEPT ![Bucket(f)] = d]

LEMMA FunctionLinked ==
  ASSUME ProfileAssumption, NEW m, NEW h, ListsIn(m, h), NEW f \in Functions,
         NEW d \in Nat \ {0}, \A x \in DOMAIN m : x < d, NEW n, NEW k,
         FunctionAdded(m, h, f, d, n, k)
  PROVE  /\ ListsIn(n, k) /\ FnsIn(n) = FnsIn(m) \cup {d} /\ d \notin DOMAIN m
         /\ \A x \in DOMAIN m : n[x] = m[x]
         /\ n[d].self = f /\ n[d].arcs = Nil
         /\ OwnIn(n, d) = {} /\ \A e \in FnsIn(m) : OwnIn(n, e) = OwnIn(m, e)
<1> DEFINE r == [next |-> h[Bucket(f)], self |-> f, arcs |-> Nil]
<1>1. d \notin DOMAIN m
  BY DEF ListsIn, Typed
<1>2. DOMAIN n = DOMAIN m \cup {d} /\ n[d] = r /\ \A x \in DOMAIN m : n[x] = m[x]
  <2>1. n = Put(m, d, r)
    BY DEF FunctionAdded
  <2> HIDE DEF r
  <2>2. DOMAIN n = DOMAIN m \cup {d} /\ n[d] = r
    BY <2>1 DEF Put
  <2>3. ASSUME NEW x \in DOMAIN m PROVE n[x] = m[x]
    BY <1>1, <2>1 DEF Put
  <2> QED BY <2>2, <2>3
<1>3. h[Bucket(f)] \in Nat
  BY Buckets0 DEF ListsIn
<1>4. r \in FnEntry
  BY <1>3 DEF FnEntry, Nil
<1>5. Typed(n)
  BY <1>2, <1>4, FS_AddElement DEF ListsIn, Typed
<1>6. FnsIn(n) = FnsIn(m) \cup {d}
  <2>1. "self" \in DOMAIN n[d]
    BY <1>2, <1>4, Kinds
  <2> QED BY <1>1, <1>2, <2>1 DEF FnsIn
<1>7. \A x \in DOMAIN m : n[x].next = m[x].next
  BY <1>2
<1>8. FnsIn(m) \subseteq DOMAIN m /\ DOMAIN m \subseteq Nat \ {0} /\ IsFiniteSet(DOMAIN n)
      /\ DOMAIN n \subseteq Nat \ {0}
  BY <1>5 DEF FnsIn, ListsIn, Typed
<1>9. ASSUME NEW b \in 0 .. Buckets - 1 PROVE IsList(n, k[b], InBucket(n, b))
  <2>1. IsList(m, h[b], InBucket(m, b)) /\ InBucket(m, b) \subseteq DOMAIN m
    BY <1>8 DEF ListsIn, InBucket
  <2>2. CASE b = Bucket(f)
    <3>1. InBucket(n, b) = InBucket(m, b) \cup {d}
      BY <1>1, <1>2, <1>6, <1>8, <2>2 DEF InBucket
    <3>2. k[b] = d /\ n[d].next = h[b]
      BY <1>2, <2>2 DEF ListsIn, FunctionAdded
    <3> QED BY <1>7, <1>8, <2>1, <3>1, <3>2, ListAdds
  <2>3. CASE b # Bucket(f)
    <3>1. InBucket(n, b) = InBucket(m, b)
      BY <1>1, <1>2, <1>6, <1>8, <2>3 DEF InBucket
    <3>2. k[b] = h[b]
      BY <2>3 DEF ListsIn, FunctionAdded
    <3> QED BY <1>7, <2>1, <3>1, <3>2, ListKept
  <2> QED BY <2>2, <2>3
<1>10. OwnIn(n, d) = {} /\ IsList(n, n[d].arcs, {})
  <2>1. n[d].arcs = Nil
    BY <1>2
  <2>2. IsList(n, Nil, {}) /\ {} \subseteq DOMAIN n
    BY ListEmpty
  <2> QED BY <1>8, <2>1, <2>2, ChainIs DEF OwnIn
<1>11. ASSUME NEW e \in FnsIn(m)
       PROVE  OwnIn(n, e) = OwnIn(m, e) /\ IsList(n, n[e].arcs, OwnIn(m, e))
              /\ OwnIn(m, e) \subseteq DOMAIN m \ FnsIn(m)
  <2>1. OwnIn(m, e) \subseteq DOMAIN m \ FnsIn(m) /\ IsList(m, m[e].arcs, OwnIn(m, e))
    BY DEF ListsIn
  <2>2. n[e].arcs = m[e].arcs
    BY <1>2, <1>8
  <2>3. IsList(n, n[e].arcs, OwnIn(m, e))
    BY <1>7, <2>1, <2>2, ListKept
  <2>4. OwnIn(m, e) \subseteq DOMAIN n
    BY <1>2, <2>1
  <2>5. ChainIn(n, n[e].arcs) = OwnIn(m, e)
    BY <1>8, <2>3, <2>4, ChainIs
  <2> QED BY <2>1, <2>3, <2>5 DEF OwnIn
<1>12. ListsIn(n, k)
  <2>1. k \in [0 .. Buckets - 1 -> Nat]
    BY DEF ListsIn, FunctionAdded
  <2>2. ASSUME NEW e \in FnsIn(n)
        PROVE  /\ OwnIn(n, e) \subseteq DOMAIN n \ FnsIn(n)
               /\ IsList(n, n[e].arcs, OwnIn(n, e))
    BY <1>1, <1>2, <1>6, <1>10, <1>11
  <2>3. ASSUME NEW x \in DOMAIN n \ FnsIn(n) PROVE \E e \in FnsIn(n) : x \in OwnIn(n, e)
    <3>1. x \in DOMAIN m \ FnsIn(m)
      BY <1>2, <1>6
    <3>2. PICK e \in FnsIn(m) : x \in OwnIn(m, e)
      BY <3>1 DEF ListsIn
    <3> QED BY <1>6, <1>11, <3>2
  <2>4. ASSUME NEW a \in FnsIn(n), NEW e \in FnsIn(n), a # e
        PROVE  OwnIn(n, a) \cap OwnIn(n, e) = {}
    <3>1. CASE a = d \/ e = d
      BY <1>10, <3>1
    <3>2. CASE a # d /\ e # d
      BY <1>6, <1>11, <2>4, <3>2 DEF ListsIn
    <3> QED BY <3>1, <3>2
  <2> QED BY <1>5, <1>9, <2>1, <2>2, <2>3, <2>4 DEF ListsIn
<1>13. n[d].self = f /\ n[d].arcs = Nil
  BY <1>2
<1> QED BY <1>1, <1>2, <1>6, <1>10, <1>11, <1>12, <1>13

\* __mcount_record: a new copy of an arc of the entry e.
ArcAdded(m, e, c, d, n) ==
    n = Put([m EXCEPT ![e].arcs = d], d, [next |-> m[e].arcs, from |-> c, count |-> 1])

LEMMA ArcLinked ==
  ASSUME NEW m, NEW h, ListsIn(m, h), NEW e \in FnsIn(m), NEW c \in Callers,
         NEW d \in Nat \ {0}, \A x \in DOMAIN m : x < d, NEW n, ArcAdded(m, e, c, d, n)
  PROVE  /\ ListsIn(n, h) /\ FnsIn(n) = FnsIn(m) /\ d \notin DOMAIN m
         /\ \A x \in DOMAIN m \ {e} : n[x] = m[x]
         /\ n[e].self = m[e].self /\ n[e].next = m[e].next /\ n[e].arcs = d
         /\ n[d].from = c /\ n[d].count = 1
         /\ OwnIn(n, e) = OwnIn(m, e) \cup {d}
         /\ \A a \in FnsIn(m) \ {e} : OwnIn(n, a) = OwnIn(m, a)
<1> DEFINE r == [next |-> m[e].arcs, from |-> c, count |-> 1]
           q == [m[e] EXCEPT !.arcs = d]
<1>1. d \notin DOMAIN m /\ e \in DOMAIN m /\ d # e
  BY DEF ListsIn, Typed, FnsIn
<1>2. m[e] \in FnEntry /\ m[e].arcs \in Nat
  BY Entries DEF ListsIn
<1>3. q \in FnEntry /\ q.self = m[e].self /\ q.next = m[e].next /\ q.arcs = d
  BY <1>2 DEF FnEntry
<1>4. r \in ArcEntry /\ r.next = m[e].arcs /\ r.from = c /\ r.count = 1
  BY <1>2 DEF ArcEntry
<1>5. DOMAIN n = DOMAIN m \cup {d} /\ n[d] = r /\ n[e] = q /\ \A x \in DOMAIN m \ {e} : n[x] = m[x]
  <2>1. n = Put([m EXCEPT ![e] = q], d, r)
    BY DEF ArcAdded
  <2> HIDE DEF r, q
  <2>2. DOMAIN n = DOMAIN m \cup {d} /\ n[d] = r
    BY <2>1 DEF Put
  <2>3. n[e] = q
    BY <1>1, <2>1 DEF Put
  <2>4. ASSUME NEW x \in DOMAIN m \ {e} PROVE n[x] = m[x]
    BY <1>1, <2>1 DEF Put
  <2> QED BY <2>2, <2>3, <2>4
<1> HIDE DEF r, q
<1>6. Typed(n)
  <2>1. IsFiniteSet(DOMAIN n) /\ DOMAIN n \subseteq Nat \ {0}
    <3>1. IsFiniteSet(DOMAIN m) /\ DOMAIN m \subseteq Nat \ {0}
      BY DEF ListsIn, Typed
    <3>2. DOMAIN n = DOMAIN m \cup {d}
      BY <1>5
    <3>3. IsFiniteSet(DOMAIN m \cup {d})
      BY <3>1, FS_AddElement
    <3> QED BY <3>1, <3>2, <3>3
  <2>2. ASSUME NEW x \in DOMAIN m \ {e} PROVE n[x] \in FnEntry \cup ArcEntry
    BY <1>5 DEF ListsIn, Typed
  <2>3. n[d] \in FnEntry \cup ArcEntry /\ n[e] \in FnEntry \cup ArcEntry
    BY <1>3, <1>4, <1>5
  <2> QED BY <1>5, <2>1, <2>2, <2>3 DEF Typed
<1>7. FnsIn(n) = FnsIn(m)
  <2>1. ~("self" \in DOMAIN n[d]) /\ "self" \in DOMAIN n[e]
    BY <1>3, <1>4, <1>5, Kinds
  <2> QED BY <1>1, <1>5, <2>1 DEF FnsIn
<1>8. \A x \in DOMAIN m : n[x].next = m[x].next
  BY <1>3, <1>5
<1>9. FnsIn(m) \subseteq DOMAIN m /\ DOMAIN m \subseteq Nat \ {0} /\ IsFiniteSet(DOMAIN n)
      /\ DOMAIN n \subseteq Nat \ {0} /\ \A a \in FnsIn(m) : n[a].self = m[a].self
  BY <1>3, <1>5, <1>6 DEF FnsIn, ListsIn, Typed
<1>10. ASSUME NEW b \in 0 .. Buckets - 1 PROVE IsList(n, h[b], InBucket(n, b))
  <2>1. IsList(m, h[b], InBucket(m, b)) /\ InBucket(m, b) \subseteq DOMAIN m
    BY <1>9 DEF ListsIn, InBucket
  <2>2. InBucket(n, b) = InBucket(m, b)
    BY <1>7, <1>9 DEF InBucket
  <2> QED BY <1>8, <2>1, <2>2, ListKept
<1>11. ASSUME NEW a \in FnsIn(m)
       PROVE  OwnIn(m, a) \subseteq DOMAIN m \ FnsIn(m) /\ IsList(m, m[a].arcs, OwnIn(m, a))
  BY DEF ListsIn
<1>12. OwnIn(n, e) = OwnIn(m, e) \cup {d} /\ IsList(n, n[e].arcs, OwnIn(n, e))
  <2>1. n[e].arcs = d /\ n[d].next = m[e].arcs
    BY <1>3, <1>4, <1>5
  <2>2. IsList(n, d, OwnIn(m, e) \cup {d})
    BY <1>8, <1>9, <1>11, <2>1, ListAdds
  <2>3. OwnIn(m, e) \cup {d} \subseteq DOMAIN n
    BY <1>5, <1>11
  <2>4. ChainIn(n, n[e].arcs) = OwnIn(m, e) \cup {d}
    BY <1>9, <2>1, <2>2, <2>3, ChainIs
  <2> QED BY <2>1, <2>2, <2>4 DEF OwnIn
<1>13. ASSUME NEW a \in FnsIn(m) \ {e}
       PROVE  OwnIn(n, a) = OwnIn(m, a) /\ IsList(n, n[a].arcs, OwnIn(n, a))
  <2>1. n[a].arcs = m[a].arcs
    BY <1>5, <1>9
  <2>2. IsList(n, n[a].arcs, OwnIn(m, a))
    BY <1>8, <1>11, <2>1, ListKept
  <2>3. OwnIn(m, a) \subseteq DOMAIN n
    BY <1>5, <1>11
  <2>4. ChainIn(n, n[a].arcs) = OwnIn(m, a)
    BY <1>9, <2>2, <2>3, ChainIs
  <2> QED BY <2>2, <2>4 DEF OwnIn
<1>14. ListsIn(n, h)
  <2>1. h \in [0 .. Buckets - 1 -> Nat]
    BY DEF ListsIn
  <2>2. ASSUME NEW a \in FnsIn(n)
        PROVE  /\ OwnIn(n, a) \subseteq DOMAIN n \ FnsIn(n)
               /\ IsList(n, n[a].arcs, OwnIn(n, a))
    BY <1>1, <1>5, <1>7, <1>9, <1>11, <1>12, <1>13
  <2>3. ASSUME NEW x \in DOMAIN n \ FnsIn(n) PROVE \E a \in FnsIn(n) : x \in OwnIn(n, a)
    <3>1. CASE x = d
      BY <1>7, <1>12, <3>1
    <3>2. CASE x # d
      <4>1. PICK a \in FnsIn(m) : x \in OwnIn(m, a)
        BY <1>5, <1>7, <3>2 DEF ListsIn
      <4> QED BY <1>7, <1>12, <1>13, <4>1
    <3> QED BY <3>1, <3>2
  <2>4. ASSUME NEW a \in FnsIn(n), NEW b \in FnsIn(n), a # b
        PROVE  OwnIn(n, a) \cap OwnIn(n, b) = {}
    <3>1. OwnIn(m, a) \cap OwnIn(m, b) = {}
      BY <1>7, <2>4 DEF ListsIn
    <3>2. d \notin OwnIn(m, a) /\ d \notin OwnIn(m, b)
      BY <1>1, <1>7, <1>11
    <3>3. ASSUME NEW y \in OwnIn(n, a) PROVE y \notin OwnIn(n, b)
      <4>1. CASE a = e
        BY <1>7, <1>12, <1>13, <2>4, <3>1, <3>2, <3>3, <4>1
      <4>2. CASE b = e
        BY <1>7, <1>12, <1>13, <2>4, <3>1, <3>2, <3>3, <4>2
      <4>3. CASE a # e /\ b # e
        BY <1>7, <1>13, <3>1, <3>3, <4>3
      <4> QED BY <4>1, <4>2, <4>3
    <3> QED BY <3>3
  <2> QED BY <1>6, <1>10, <2>1, <2>2, <2>3, <2>4 DEF ListsIn
<1>15. /\ n[e].self = m[e].self /\ n[e].next = m[e].next /\ n[e].arcs = d
       /\ n[d].from = c /\ n[d].count = 1
  BY <1>3, <1>4, <1>5
<1> QED BY <1>1, <1>5, <1>7, <1>12, <1>13, <1>14, <1>15

\* mcount: the count of an arc is stored.
CountStored(m, x, v, n) == n = [m EXCEPT ![x].count = v]

LEMMA ArcCounted ==
  ASSUME NEW m, NEW h, ListsIn(m, h), NEW x \in DOMAIN m \ FnsIn(m), NEW v \in Nat, NEW n,
         CountStored(m, x, v, n)
  PROVE  /\ ListsIn(n, h) /\ FnsIn(n) = FnsIn(m) /\ DOMAIN n = DOMAIN m
         /\ \A y \in DOMAIN m \ {x} : n[y] = m[y]
         /\ n[x].count = v /\ n[x].from = m[x].from
         /\ \A a \in FnsIn(m) : OwnIn(n, a) = OwnIn(m, a)
<1> DEFINE q == [m[x] EXCEPT !.count = v]
<1>1. m[x] \in ArcEntry
  BY Entries DEF ListsIn
<1>2. q \in ArcEntry /\ q.next = m[x].next /\ q.from = m[x].from /\ q.count = v
  BY <1>1 DEF ArcEntry
<1>3. DOMAIN n = DOMAIN m /\ n[x] = q /\ \A y \in DOMAIN m \ {x} : n[y] = m[y]
  BY DEF CountStored
<1> HIDE DEF q
<1>4. Typed(n)
  BY <1>2, <1>3 DEF ListsIn, Typed
<1>5. FnsIn(n) = FnsIn(m)
  <2>1. ~("self" \in DOMAIN n[x])
    BY <1>2, <1>3, Kinds
  <2> QED BY <1>3, <2>1 DEF FnsIn
<1>6. \A y \in DOMAIN m : n[y].next = m[y].next
  BY <1>2, <1>3
<1>7. FnsIn(m) \subseteq DOMAIN m /\ \A a \in FnsIn(m) : n[a] = m[a]
  BY <1>3 DEF FnsIn
<1>8. ASSUME NEW b \in 0 .. Buckets - 1 PROVE IsList(n, h[b], InBucket(n, b))
  <2>1. IsList(m, h[b], InBucket(m, b)) /\ InBucket(m, b) \subseteq DOMAIN m
    BY <1>7 DEF ListsIn, InBucket
  <2>2. InBucket(n, b) = InBucket(m, b)
    BY <1>5, <1>7 DEF InBucket
  <2> QED BY <1>6, <2>1, <2>2, ListKept
<1>9. ASSUME NEW a \in FnsIn(m)
      PROVE  /\ OwnIn(n, a) = OwnIn(m, a) /\ IsList(n, n[a].arcs, OwnIn(n, a))
             /\ OwnIn(m, a) \subseteq DOMAIN m \ FnsIn(m)
  <2>1. OwnIn(m, a) \subseteq DOMAIN m \ FnsIn(m) /\ IsList(m, m[a].arcs, OwnIn(m, a))
    BY DEF ListsIn
  <2>2. IsList(n, n[a].arcs, OwnIn(m, a))
    BY <1>6, <1>7, <2>1, ListKept
  <2>3. ChainIn(n, n[a].arcs) = OwnIn(m, a)
    BY <1>3, <1>4, <2>1, <2>2, ChainIs DEF Typed
  <2> QED BY <2>1, <2>2, <2>3 DEF OwnIn
<1>10. ListsIn(n, h)
  <2>1. h \in [0 .. Buckets - 1 -> Nat]
    BY DEF ListsIn
  <2>2. ASSUME NEW y \in DOMAIN n \ FnsIn(n) PROVE \E a \in FnsIn(n) : y \in OwnIn(n, a)
    <3>1. PICK a \in FnsIn(m) : y \in OwnIn(m, a)
      BY <1>3, <1>5 DEF ListsIn
    <3> QED BY <1>5, <1>9, <3>1
  <2>3. ASSUME NEW a \in FnsIn(n), NEW b \in FnsIn(n), a # b
        PROVE  OwnIn(n, a) \cap OwnIn(n, b) = {}
    BY <1>5, <1>9, <2>3 DEF ListsIn
  <2> QED BY <1>3, <1>4, <1>5, <1>8, <1>9, <2>1, <2>2, <2>3 DEF ListsIn
<1> QED BY <1>2, <1>3, <1>5, <1>9, <1>10

-----------------------------------------------------------------------------
(* Searches.  The program's may be overtaken by a handler's, which runs    *)
(* from start to end: what the program has passed then is the only entry   *)
(* of its kind, and a handler passes none.                                 *)

Two(S) == \E x, y : S \subseteq {x, y}

BoundedIn(m) == /\ \A f \in Functions : Two(Same(m, f))
                /\ \A e \in FnsIn(m), c \in Callers : Two(CopiesIn(m, e, c))

\* Of the entries S, those before at in the list.
Passed(S, at, who) == \A x \in S : at < x => who = Program /\ S = {x}

\* The frame f of a search in m.
ForFunction(f) == f.pc = "functions" \/ f.fn = Nil
ForArc(f) == f.pc \notin {"functions", "count"} /\ f.fn # Nil

Searching(m, f, who) ==
    f.pc \notin {"idle", "unlock"} =>
        /\ f.self \in Functions /\ f.from \in Callers /\ f.fn \in Nat /\ f.arc \in Nat
        /\ f.fn # Nil => f.fn \in FnsIn(m)
        /\ f.pc = "functions" /\ f.fn # Nil => Bucket(m[f.fn].self) = Bucket(f.self)
        /\ f.pc # "functions" /\ f.fn # Nil =>
               m[f.fn].self = f.self /\ f.arc \in OwnIn(m, f.fn) \cup {Nil}
        /\ f.pc \in {"arcs", "count"} => f.fn # Nil
        /\ f.pc \notin {"arcs", "count"} => f.arc = Nil
        /\ ForFunction(f) => Passed(Same(m, f.self), f.fn, who)
        /\ ForArc(f) => Passed(CopiesIn(m, f.fn, f.from), f.arc, who)
        /\ f.pc = "count" => /\ f.arc \in OwnIn(m, f.fn) /\ m[f.arc].from = f.from
                             /\ f.val \in Nat /\ f.val <= m[f.arc].count
                             /\ who = Program \/ f.val = m[f.arc].count

\* A search goes on in memory in which entries stay what they were.
LEMMA SearchKept ==
  ASSUME NEW m, NEW n, NEW h, ListsIn(m, h), NEW f, Searching(m, f, Program),
         FnsIn(m) \subseteq FnsIn(n),
         \A e \in FnsIn(m) : n[e].self = m[e].self /\ OwnIn(m, e) \subseteq OwnIn(n, e),
         \A x \in DOMAIN m \ FnsIn(m) : /\ n[x].from = m[x].from /\ n[x].count \in Nat
                                        /\ m[x].count <= n[x].count,
         f.pc \notin {"idle", "unlock"} /\ ForFunction(f) =>
             Passed(Same(n, f.self), f.fn, Program),
         f.pc \notin {"idle", "unlock"} /\ ForArc(f) =>
             Passed(CopiesIn(n, f.fn, f.from), f.arc, Program)
  PROVE  Searching(n, f, Program)
<1>1. SUFFICES ASSUME f.pc \notin {"idle", "unlock"} PROVE Searching(n, f, Program)
  BY DEF Searching
<1>2. f.fn # Nil => /\ f.fn \in FnsIn(n) /\ n[f.fn].self = m[f.fn].self
                    /\ OwnIn(m, f.fn) \subseteq OwnIn(n, f.fn)
  BY <1>1 DEF Searching
<1>3. ASSUME f.pc = "count"
      PROVE  /\ f.arc \in OwnIn(n, f.fn) /\ n[f.arc].from = f.from
             /\ f.val \in Nat /\ f.val <= n[f.arc].count
  <2>1. /\ f.fn \in FnsIn(m) /\ f.arc \in OwnIn(m, f.fn) /\ m[f.arc].from = f.from
        /\ f.val \in Nat /\ f.val <= m[f.arc].count
    BY <1>1, <1>3 DEF Searching
  <2>2. f.arc \in DOMAIN m \ FnsIn(m)
    BY <2>1 DEF ListsIn
  <2>3. m[f.arc].count \in Nat
    BY <2>2, Entries DEF ListsIn
  <2> QED BY <1>2, <2>1, <2>2, <2>3
<1> QED BY <1>1, <1>2, <1>3 DEF Searching

LEMMA PassedFirst ==
  ASSUME Program # Handler, NEW S, NEW at, NEW d, Passed(S, at, Handler), \A x \in S : at < x
  PROVE  S = {} /\ Passed(S \cup {d}, at, Program) /\ Two(S \cup {d})
  BY DEF Passed, Two

LEMMA PassedAgain ==
  ASSUME NEW S, NEW at, NEW d, Passed(S, at, Program), \A x \in S : at < x
  PROVE  Two(S \cup {d})
<1>1. S = {} \/ \E x : S = {x}
  BY DEF Passed
<1>2. CASE S = {}
  BY <1>2 DEF Two
<1>3. CASE \E x : S = {x}
  <2>1. PICK x : S = {x}
    BY <1>3
  <2>2. S \cup {d} \subseteq {x, d}
    BY <2>1
  <2> QED BY <2>2 DEF Two
<1> QED BY <1>1, <1>2, <1>3

LEMMA TwoAtMost == ASSUME NEW S, Two(S) PROVE Cardinality(S) <= 2
<1>1. PICK x, y : S \subseteq {x, y}
  BY DEF Two
<1>2. IsFiniteSet({x}) /\ Cardinality({x}) = 1
  BY FS_Singleton
<1>3. {x, y} = {x} \cup {y}
  OBVIOUS
<1>4. IsFiniteSet({x} \cup {y}) /\ Cardinality({x} \cup {y}) \in {1, 2}
  BY <1>2, FS_AddElement
<1>5. IsFiniteSet({x, y}) /\ Cardinality({x, y}) \in {1, 2}
  BY <1>3, <1>4
<1>6. Cardinality(S) <= Cardinality({x, y}) /\ Cardinality(S) \in Nat
  BY <1>1, <1>5, FS_Subset, FS_CardinalityType
<1> QED BY <1>5, <1>6

\* The copies of an arc, and their sum.
ArcsOf(m, g, c) == {x \in DOMAIN m : \E e \in Same(m, g) : x \in CopiesIn(m, e, c)}

LEMMA ArcsCountable ==
  ASSUME NEW m, NEW h, ListsIn(m, h), NEW g, NEW c
  PROVE  /\ IsFiniteSet(ArcsOf(m, g, c)) /\ SumOf(m, ArcsOf(m, g, c)) \in Nat
         /\ \A x \in ArcsOf(m, g, c) :
                x \in DOMAIN m \ FnsIn(m) /\ m[x].count \in Nat /\ m[x].from = c
<1>1. ArcsOf(m, g, c) \in SUBSET DOMAIN m
  BY DEF ArcsOf
<1>2. IsFiniteSet(ArcsOf(m, g, c))
  BY <1>1, FS_Subset DEF ListsIn, Typed
<1>3. ASSUME NEW x \in ArcsOf(m, g, c)
      PROVE  x \in DOMAIN m \ FnsIn(m) /\ m[x].count \in Nat /\ m[x].from = c
  <2>1. x \in DOMAIN m \ FnsIn(m) /\ m[x].from = c
    BY <1>3 DEF ArcsOf, Same, CopiesIn, ListsIn
  <2> QED BY <2>1, Entries DEF ListsIn
<1>4. SumOf(m, ArcsOf(m, g, c)) \in Nat
  BY <1>2, <1>3, SumFolded
<1> QED BY <1>2, <1>3, <1>4

\* A new entry of a function has no arcs: the counts stay.
LEMMA FunctionCounts ==
  ASSUME NEW m, NEW h, ListsIn(m, h), NEW n, NEW d, d \notin DOMAIN m,
         DOMAIN n = DOMAIN m \cup {d}, \A x \in DOMAIN m : n[x] = m[x],
         FnsIn(n) = FnsIn(m) \cup {d}, OwnIn(n, d) = {},
         \A e \in FnsIn(m) : OwnIn(n, e) = OwnIn(m, e), NEW g, NEW c
  PROVE  SumOf(n, ArcsOf(n, g, c)) = SumOf(m, ArcsOf(m, g, c))
<1>1. FnsIn(m) \subseteq DOMAIN m
  BY DEF FnsIn
<1>2. \A e \in FnsIn(m) : CopiesIn(n, e, c) = CopiesIn(m, e, c)
  <2>1. ASSUME NEW e \in FnsIn(m) PROVE OwnIn(m, e) \subseteq DOMAIN m
    BY DEF ListsIn
  <2> QED BY <2>1 DEF CopiesIn
<1>3. ASSUME NEW x PROVE x \in ArcsOf(n, g, c) <=> x \in ArcsOf(m, g, c)
  <2>1. ASSUME x \in ArcsOf(n, g, c) PROVE x \in ArcsOf(m, g, c)
    <3>1. PICK e \in Same(n, g) : x \in CopiesIn(n, e, c)
      BY <2>1 DEF ArcsOf
    <3>2. e # d
      BY <3>1 DEF CopiesIn
    <3>3. e \in Same(m, g) /\ x \in CopiesIn(m, e, c)
      BY <1>1, <1>2, <3>1, <3>2 DEF Same
    <3>4. x \in DOMAIN m
      BY <3>3 DEF CopiesIn, Same, ListsIn
    <3> QED BY <3>3, <3>4 DEF ArcsOf
  <2>2. ASSUME x \in ArcsOf(m, g, c) PROVE x \in ArcsOf(n, g, c)
    <3>1. PICK e \in Same(m, g) : x \in CopiesIn(m, e, c)
      BY <2>2 DEF ArcsOf
    <3>2. e \in Same(n, g) /\ x \in CopiesIn(n, e, c)
      BY <1>1, <1>2, <3>1 DEF Same
    <3> QED BY <2>2, <3>2 DEF ArcsOf
  <2> QED BY <2>1, <2>2
<1>4. ArcsOf(n, g, c) = ArcsOf(m, g, c)
  BY <1>3
<1>5. IsFiniteSet(ArcsOf(m, g, c)) /\ \A x \in ArcsOf(m, g, c) :
          m[x].count \in Nat /\ n[x].count = m[x].count
  BY ArcsCountable
<1> QED BY <1>4, <1>5, SumKept

\* A new copy of an arc adds its count to those of its kind alone.
LEMMA ArcCounts ==
  ASSUME NEW m, NEW h, ListsIn(m, h), NEW n, NEW d, d \notin DOMAIN m, NEW e \in FnsIn(m),
         DOMAIN n = DOMAIN m \cup {d}, \A x \in DOMAIN m \ {e} : n[x] = m[x],
         n[e].self = m[e].self, n[d].count = 1,
         FnsIn(n) = FnsIn(m), OwnIn(n, e) = OwnIn(m, e) \cup {d},
         \A a \in FnsIn(m) \ {e} : OwnIn(n, a) = OwnIn(m, a), NEW g, NEW c
  PROVE  SumOf(n, ArcsOf(n, g, c)) =
             SumOf(m, ArcsOf(m, g, c)) + IF g = m[e].self /\ c = n[d].from THEN 1 ELSE 0
<1>1. FnsIn(m) \subseteq DOMAIN m
  BY DEF FnsIn
<1>2. ASSUME NEW a \in FnsIn(m), NEW x \in OwnIn(m, a)
      PROVE  x \in DOMAIN m \ FnsIn(m) /\ x # d /\ x # e /\ n[x] = m[x]
  BY <1>2 DEF ListsIn
<1>3. Same(n, g) = Same(m, g)
  BY <1>1 DEF Same
<1>4. ASSUME NEW x
      PROVE  x \in ArcsOf(n, g, c) <=>
                 \/ x \in ArcsOf(m, g, c)
                 \/ x = d /\ g = m[e].self /\ c = n[d].from
  <2>1. ASSUME x \in ArcsOf(n, g, c), x # d PROVE x \in ArcsOf(m, g, c)
    <3>1. PICK a \in Same(m, g) : x \in CopiesIn(n, a, c)
      BY <1>3, <2>1 DEF ArcsOf
    <3>2. a \in FnsIn(m) /\ x \in OwnIn(m, a)
      BY <2>1, <3>1 DEF Same, CopiesIn
    <3>3. x \in CopiesIn(m, a, c) /\ x \in DOMAIN m
      BY <1>2, <3>1, <3>2 DEF CopiesIn
    <3> QED BY <3>1, <3>3 DEF ArcsOf
  <2>2. ASSUME x \in ArcsOf(m, g, c) PROVE x \in ArcsOf(n, g, c)
    <3>1. PICK a \in Same(m, g) : x \in CopiesIn(m, a, c)
      BY <2>2 DEF ArcsOf
    <3>2. a \in FnsIn(m) /\ x \in OwnIn(m, a)
      BY <3>1 DEF Same, CopiesIn
    <3>3. x \in OwnIn(n, a) /\ n[x] = m[x] /\ x \in DOMAIN n
      BY <1>2, <3>2
    <3>4. x \in CopiesIn(n, a, c)
      BY <3>1, <3>3 DEF CopiesIn
    <3> QED BY <1>3, <3>1, <3>3, <3>4 DEF ArcsOf
  <2>3. d \in ArcsOf(n, g, c) <=> g = m[e].self /\ c = n[d].from
    <3>1. ASSUME d \in ArcsOf(n, g, c) PROVE g = m[e].self /\ c = n[d].from
      <4>1. PICK a \in Same(m, g) : d \in CopiesIn(n, a, c)
        BY <1>3, <3>1 DEF ArcsOf
      <4>2. a \in FnsIn(m) /\ d \in OwnIn(n, a) /\ n[d].from = c /\ m[a].self = g
        BY <4>1 DEF Same, CopiesIn
      <4>3. a = e
        BY <1>2, <4>2
      <4> QED BY <4>2, <4>3
    <3>2. ASSUME g = m[e].self, c = n[d].from PROVE d \in ArcsOf(n, g, c)
      <4>1. e \in Same(n, g) /\ d \in CopiesIn(n, e, c)
        BY <1>3, <3>2 DEF Same, CopiesIn
      <4> QED BY <4>1 DEF ArcsOf
    <3> QED BY <3>1, <3>2
  <2>4. d \notin ArcsOf(m, g, c)
    BY DEF ArcsOf
  <2> QED BY <2>1, <2>2, <2>3, <2>4
<1>5. /\ IsFiniteSet(ArcsOf(m, g, c)) /\ d \notin ArcsOf(m, g, c)
      /\ SumOf(m, ArcsOf(m, g, c)) \in Nat
      /\ \A x \in ArcsOf(m, g, c) : m[x].count \in Nat /\ n[x].count = m[x].count
  <2>1. ASSUME NEW x \in ArcsOf(m, g, c) PROVE m[x].count \in Nat /\ n[x].count = m[x].count
    <3>1. x \in DOMAIN m \ FnsIn(m) /\ m[x].count \in Nat
      BY ArcsCountable
    <3> QED BY <3>1
  <2>2. d \notin ArcsOf(m, g, c)
    BY DEF ArcsOf
  <2> QED BY <2>1, <2>2, ArcsCountable
<1>6. CASE g = m[e].self /\ c = n[d].from
  <2>1. ArcsOf(n, g, c) = ArcsOf(m, g, c) \cup {d}
    BY <1>4, <1>6
  <2>2. SumOf(n, ArcsOf(m, g, c) \cup {d}) = SumOf(m, ArcsOf(m, g, c)) + n[d].count
    BY <1>5, SumAdds
  <2> QED BY <1>6, <2>1, <2>2
<1>7. CASE ~(g = m[e].self /\ c = n[d].from)
  <2>1. ArcsOf(n, g, c) = ArcsOf(m, g, c)
    BY <1>4, <1>7
  <2>2. SumOf(n, ArcsOf(m, g, c)) = SumOf(m, ArcsOf(m, g, c))
    BY <1>5, SumKept
  <2> QED BY <1>5, <1>7, <2>1, <2>2
<1> QED BY <1>6, <1>7

\* A count that is stored changes the sum of its kind alone.
LEMMA CountCounts ==
  ASSUME NEW m, NEW h, ListsIn(m, h), NEW n, NEW e \in FnsIn(m), NEW x \in OwnIn(m, e),
         DOMAIN n = DOMAIN m, \A y \in DOMAIN m \ {x} : n[y] = m[y],
         n[x].from = m[x].from, n[x].count \in Nat, FnsIn(n) = FnsIn(m),
         \A a \in FnsIn(m) : OwnIn(n, a) = OwnIn(m, a), NEW g, NEW c
  PROVE  SumOf(n, ArcsOf(n, g, c)) =
             SumOf(m, ArcsOf(m, g, c)) +
                 IF g = m[e].self /\ c = m[x].from THEN n[x].count - m[x].count ELSE 0
<1>1. FnsIn(m) \subseteq DOMAIN m /\ x \in DOMAIN m \ FnsIn(m) /\ m[x].count \in Nat
  <2>1. FnsIn(m) \subseteq DOMAIN m /\ x \in DOMAIN m \ FnsIn(m)
    BY DEF FnsIn, ListsIn
  <2> QED BY <2>1, Entries DEF ListsIn
<1>2. ArcsOf(n, g, c) = ArcsOf(m, g, c)
  <2>1. Same(n, g) = Same(m, g) /\ Same(m, g) \subseteq FnsIn(m)
    BY <1>1 DEF Same
  <2>2. ASSUME NEW a \in FnsIn(m) PROVE CopiesIn(n, a, c) = CopiesIn(m, a, c)
    <3>1. OwnIn(m, a) \subseteq DOMAIN m
      BY DEF ListsIn
    <3> QED BY <3>1 DEF CopiesIn
  <2> QED BY <2>1, <2>2 DEF ArcsOf
<1>3. x \in ArcsOf(m, g, c) <=> g = m[e].self /\ c = m[x].from
  <2>1. ASSUME x \in ArcsOf(m, g, c) PROVE g = m[e].self /\ c = m[x].from
    <3>1. PICK a \in Same(m, g) : x \in CopiesIn(m, a, c)
      BY <2>1 DEF ArcsOf
    <3>2. a \in FnsIn(m) /\ x \in OwnIn(m, a) /\ m[x].from = c /\ m[a].self = g
      BY <3>1 DEF Same, CopiesIn
    <3>3. a = e
      BY <3>2 DEF ListsIn
    <3> QED BY <3>2, <3>3
  <2>2. ASSUME g = m[e].self, c = m[x].from PROVE x \in ArcsOf(m, g, c)
    BY <1>1, <2>2 DEF ArcsOf, Same, CopiesIn
  <2> QED BY <2>1, <2>2
<1>4. /\ IsFiniteSet(ArcsOf(m, g, c)) /\ SumOf(m, ArcsOf(m, g, c)) \in Nat
      /\ \A y \in ArcsOf(m, g, c) : y \in DOMAIN m /\ m[y].count \in Nat
  BY ArcsCountable
<1>5. CASE g = m[e].self /\ c = m[x].from
  <2>1. \A y \in ArcsOf(m, g, c) \ {x} : n[y].count = m[y].count
    BY <1>4
  <2>2. x \in ArcsOf(m, g, c)
    BY <1>3, <1>5
  <2>3. SumOf(n, ArcsOf(m, g, c)) = SumOf(m, ArcsOf(m, g, c)) - m[x].count + n[x].count
    BY <1>4, <2>1, <2>2, SumChanged
  <2> QED BY <1>1, <1>2, <1>4, <1>5, <2>3
<1>6. CASE ~(g = m[e].self /\ c = m[x].from)
  <2>1. \A y \in ArcsOf(m, g, c) : m[y].count \in Nat /\ n[y].count = m[y].count
    BY <1>3, <1>4, <1>6
  <2>2. SumOf(n, ArcsOf(m, g, c)) = SumOf(m, ArcsOf(m, g, c))
    BY <1>4, <2>1, SumKept
  <2> QED BY <1>2, <1>4, <1>6, <2>2
<1> QED BY <1>5, <1>6

-----------------------------------------------------------------------------
(* The inductive invariant.                                                *)

Who == {Program, Handler}
Locking == {"take", "link", "unlock"}
Pcs == {"idle", "functions", "arcs", "count", "record", "starting", "start", "lock"}
       \cup Locking
Frame == [pc : Pcs, self : Nat, from : Callers \cup {Nil}, fn : Nat, arc : Nat,
          val : Nat, data : Nat, irq : BOOLEAN]

\* A handler runs from start to end, never inside a locked section, and what
\* unlock restores is what was.
Locks ==
    /\ running \in Who /\ irqOn \in BOOLEAN
    /\ \A t \in Who : frame[t].pc \in Locking =>
           running = t /\ ~irqOn /\ (frame[t].irq <=> t = Program)
    /\ running = Handler => ~irqOn
    /\ running = Program => /\ frame[Handler].pc = "idle"
                            /\ frame[Program].pc \notin Locking => irqOn

\* What is left of the slab lies behind every entry, and whoever links one has
\* the first of it.
SlabKept ==
    /\ slab.ptr \in Nat /\ slab.left \in 0 .. SlabEntries
    /\ heap \in Nat \ {0} /\ slab.ptr + slab.left <= heap
    /\ \A x \in DOMAIN mem : x < heap
    /\ slab.left > 0 => slab.ptr # 0 /\ \A x \in DOMAIN mem : x < slab.ptr
    /\ \A t \in Who : frame[t].pc = "link" => slab.left > 0 /\ frame[t].data = slab.ptr

Searches == /\ frame \in [Who -> Frame]
            /\ \A t \in Who : Searching(mem, frame[t], t)

\* What was added to the count that the program has loaded.
Stale(m, f, g, c) ==
    IF f.pc = "count" /\ f.self = g /\ f.from = c THEN m[f.arc].count - f.val ELSE 0

\* The copies of the arc sum up to all that the program counted, and to no
\* more than were counted.
Within(m, f, p, h, g, c) ==
    /\ p[<<g, c>>] + Stale(m, f, g, c) <= SumOf(m, ArcsOf(m, g, c))
    /\ SumOf(m, ArcsOf(m, g, c)) <= p[<<g, c>>] + h[<<g, c>>]

Counts == /\ called \in [Who -> [Arcs -> Nat]]
          /\ \A g \in Functions, c \in Callers :
                 Within(mem, frame[Program], called[Program], called[Handler], g, c)

ListInv == /\ ListsIn(mem, heads) /\ BoundedIn(mem)
           /\ Locks /\ SlabKept /\ Searches /\ Counts

SamplerTyped == needInit \in BOOLEAN /\ timerUp \in BOOLEAN /\ starts \in Nat

ProfileInv == ListInv /\ SamplerTyped

LEMMA Gone ==
  ASSUME Searches, running \in Who, NEW f \in Frame, Goto(f)
  PROVE  /\ frame' \in [Who -> Frame] /\ frame'[running] = f
         /\ \A t \in Who \ {running} : frame'[t] = frame[t]
  BY DEF Searches, Goto

LEMMA Mine ==
  ASSUME ProfileAssumption, ListInv
  PROVE  /\ running \in Who /\ Me \in Frame /\ Searching(mem, Me, running)
         /\ Program \in Who /\ Handler \in Who /\ Program # Handler
<1>1. Program \in Who /\ Handler \in Who /\ Program # Handler
  BY DEF ProfileAssumption, Who
<1>2. running \in Who
  BY DEF ListInv, Locks
<1>3. Me \in Frame /\ Searching(mem, Me, running)
  BY <1>2 DEF ListInv, Searches, Me
<1> QED BY <1>1, <1>2, <1>3

\* The fields of a frame.
LEMMA FrameFields ==
  ASSUME NEW f \in Frame
  PROVE  /\ f.pc \in Pcs /\ f.self \in Nat /\ f.from \in Callers \cup {Nil} /\ f.fn \in Nat
         /\ f.arc \in Nat /\ f.val \in Nat /\ f.data \in Nat /\ f.irq \in BOOLEAN
  BY DEF Frame

\* A step of a search.
LEMMA SearchStep ==
  ASSUME ProfileAssumption, ListInv, NEW f \in Frame, Goto(f),
         UNCHANGED <<lists, irqOn, running, called>>,
         f.pc \notin Locking, Me.pc \notin Locking, Me.pc # "count",
         Searching(mem, f, running), f.pc = "count" => f.val = mem[f.arc].count,
         running = Program \/ running = Handler
  PROVE  ListInv'
<1>1. /\ frame' \in [Who -> Frame] /\ frame'[running] = f
      /\ \A t \in Who \ {running} : frame'[t] = frame[t]
  BY Gone DEF ListInv, Locks
<1>2. Program # Handler /\ Program \in Who /\ Handler \in Who
  BY Mine
<1>3. mem' = mem /\ heads' = heads /\ slab' = slab /\ heap' = heap
      /\ irqOn' = irqOn /\ running' = running /\ called' = called
  BY DEF lists
<1>4. Locks'
  BY <1>1, <1>2, <1>3 DEF ListInv, Locks, Me, Who
<1>5. SlabKept'
  <2>1. ASSUME NEW t \in Who PROVE frame'[t].pc = "link" => frame[t] = frame'[t]
    BY <1>1, <1>2 DEF Locking
  <2> QED BY <1>3, <2>1 DEF ListInv, SlabKept
<1>6. Searches'
  BY <1>1, <1>2, <1>3 DEF ListInv, Searches, Who
<1>7. Counts'
  <2>1. ASSUME NEW g \in Functions, NEW c \in Callers
        PROVE  Stale(mem, frame'[Program], g, c) = Stale(mem, frame[Program], g, c)
    <3>1. CASE running = Program
      <4>1. Stale(mem, frame[Program], g, c) = 0
        BY <3>1 DEF Stale, Me
      <4>2. Stale(mem, f, g, c) = 0
        <5>1. ASSUME f.pc = "count" PROVE mem[f.arc].count - f.val = 0
          <6>1. f.val \in Nat
            BY FrameFields
          <6> QED BY <5>1, <6>1
        <5> QED BY <5>1 DEF Stale
      <4> QED BY <1>1, <3>1, <4>1, <4>2
    <3>2. CASE running = Handler
      BY <1>1, <1>2, <3>2
    <3> QED BY <3>1, <3>2
  <2> QED BY <1>3, <2>1 DEF ListInv, Counts, Within
<1> QED BY <1>3, <1>4, <1>5, <1>6, <1>7 DEF ListInv

LEMMA CallStep ==
  ASSUME ProfileAssumption, ListInv, NEW f \in Functions, NEW c \in Callers, Call(f, c)
  PROVE  ListInv'
<1> DEFINE g == [Idle EXCEPT !.pc = "functions", !.self = f, !.from = c,
                             !.fn = heads[Bucket(f)]]
<1>1. ListsIn(mem, heads) /\ Bucket(f) \in 0 .. Buckets - 1 /\ f \in Nat
  BY Buckets0 DEF ListInv, ProfileAssumption
<1>2. heads[Bucket(f)] \in Nat /\ IsList(mem, heads[Bucket(f)], InBucket(mem, Bucket(f)))
  BY <1>1 DEF ListsIn
<1>3. InBucket(mem, Bucket(f)) \in SUBSET (Nat \ {0})
  BY <1>1 DEF ListsIn, Typed, InBucket, FnsIn
<1>4. /\ heads[Bucket(f)] \in InBucket(mem, Bucket(f)) \cup {Nil}
      /\ \A y \in InBucket(mem, Bucket(f)) : ~(heads[Bucket(f)] < y)
  BY <1>2, <1>3, ListNext
<1>5. g \in Frame /\ g.pc = "functions" /\ g.self = f /\ g.from = c
      /\ g.fn = heads[Bucket(f)] /\ g.arc = Nil
  BY <1>1, <1>2 DEF Frame, Idle, Nil, Pcs
<1> HIDE DEF g
<1>6. Passed(Same(mem, f), heads[Bucket(f)], running)
  BY <1>4 DEF Passed, Same, InBucket
<1>7. Searching(mem, g, running)
  BY <1>1, <1>2, <1>4, <1>5, <1>6 DEF Searching, InBucket, Nil, ForArc
<1>8. Goto(g) /\ UNCHANGED <<lists, irqOn, running, called>> /\ Me.pc = "idle"
  BY DEF Call, g
<1>9. g.pc \notin Locking /\ Me.pc \notin Locking
  BY <1>5, <1>8 DEF Locking
<1>10. running = Program \/ running = Handler
  BY Mine DEF Who
<1> QED BY <1>5, <1>7, <1>8, <1>9, <1>10, SearchStep

LEMMA FindFunctionStep ==
  ASSUME ProfileAssumption, ListInv, FindFunction
  PROVE  ListInv'
<1>1. /\ Me \in Frame /\ Searching(mem, Me, running) /\ Me.pc = "functions"
      /\ running = Program \/ running = Handler
  BY Mine DEF FindFunction, Who
<1>2. ListsIn(mem, heads)
  BY DEF ListInv
<1>3. /\ Me.self \in Functions /\ Me.from \in Callers /\ Me.fn \in Nat /\ Me.arc = Nil
      /\ Me.fn # Nil => Me.fn \in FnsIn(mem) /\ Bucket(mem[Me.fn].self) = Bucket(Me.self)
      /\ Passed(Same(mem, Me.self), Me.fn, running)
  BY <1>1 DEF Searching, ForFunction
<1>4. UNCHANGED <<lists, irqOn, running, called>> /\ Me.pc \notin Locking
  BY <1>1 DEF FindFunction, Locking
<1>5. CASE Me.fn = Nil
  <2> DEFINE g == [Me EXCEPT !.pc = "record"]
  <2>1. /\ g \in Frame /\ g.pc = "record" /\ g.self = Me.self /\ g.from = Me.from
        /\ g.fn = Nil /\ g.arc = Nil
    BY <1>1, <1>3, <1>5 DEF Frame, Pcs
  <2>2. Goto(g)
    BY <1>5 DEF FindFunction
  <2> HIDE DEF g
  <2>3. Searching(mem, g, running)
    BY <1>3, <1>5, <2>1 DEF Searching, ForArc, Nil
  <2> QED BY <1>1, <1>4, <2>1, <2>2, <2>3, SearchStep DEF Locking
<1>6. CASE Me.fn # Nil /\ mem[Me.fn].self = Me.self
  <2> DEFINE g == [Me EXCEPT !.pc = "arcs", !.arc = mem[Me.fn].arcs]
  <2>1. /\ IsList(mem, mem[Me.fn].arcs, OwnIn(mem, Me.fn)) /\ Me.fn \in FnsIn(mem)
        /\ OwnIn(mem, Me.fn) \in SUBSET (Nat \ {0})
    BY <1>2, <1>3, <1>6 DEF ListsIn, Typed
  <2>2. /\ mem[Me.fn].arcs \in Nat /\ mem[Me.fn].arcs \in OwnIn(mem, Me.fn) \cup {Nil}
        /\ \A y \in OwnIn(mem, Me.fn) : ~(mem[Me.fn].arcs < y)
    BY <2>1, ListNext
  <2>3. /\ g \in Frame /\ g.pc = "arcs" /\ g.self = Me.self /\ g.from = Me.from
        /\ g.fn = Me.fn /\ g.arc = mem[Me.fn].arcs
    BY <1>1, <2>2 DEF Frame, Pcs
  <2>4. Goto(g)
    BY <1>6 DEF FindFunction
  <2> HIDE DEF g
  <2>5. Passed(CopiesIn(mem, Me.fn, Me.from), g.arc, running)
    BY <2>2, <2>3 DEF Passed, CopiesIn
  <2>6. Searching(mem, g, running)
    BY <1>3, <1>6, <2>1, <2>2, <2>3, <2>5 DEF Searching, ForFunction
  <2> QED BY <1>1, <1>4, <2>3, <2>4, <2>6, SearchStep DEF Locking
<1>7. CASE Me.fn # Nil /\ mem[Me.fn].self # Me.self
  <2> DEFINE b == Bucket(Me.self)
             g == [Me EXCEPT !.fn = mem[@].next]
  <2>1. b \in 0 .. Buckets - 1 /\ Me.fn \in InBucket(mem, b)
    BY <1>3, <1>7, Buckets0 DEF InBucket
  <2>2. IsList(mem, heads[b], InBucket(mem, b)) /\ InBucket(mem, b) \in SUBSET (Nat \ {0})
    BY <1>2, <2>1 DEF ListsIn, Typed, InBucket, FnsIn
  <2>3. /\ mem[Me.fn].next \in Nat /\ mem[Me.fn].next \in InBucket(mem, b) \cup {Nil}
        /\ \A y \in InBucket(mem, b) : mem[Me.fn].next < y => Me.fn <= y
    BY <2>1, <2>2, ListNext
  <2>4. /\ g \in Frame /\ g.pc = "functions" /\ g.self = Me.self /\ g.from = Me.from
        /\ g.fn = mem[Me.fn].next /\ g.arc = Nil
    BY <1>1, <1>3, <2>3 DEF Frame, Pcs
  <2>5. Goto(g)
    BY <1>7 DEF FindFunction
  <2>6. Passed(Same(mem, Me.self), g.fn, running)
    <3>1. ASSUME NEW y \in Same(mem, Me.self), g.fn < y
          PROVE  Me.fn < y
      <4>1. y \in InBucket(mem, b) /\ y # Me.fn
        BY <1>7 DEF Same, InBucket
      <4>2. Me.fn <= y /\ y \in Nat
        BY <2>2, <2>3, <2>4, <3>1, <4>1
      <4> QED BY <1>3, <4>1, <4>2
    <3> QED BY <1>3, <3>1 DEF Passed
  <2>7. g.fn # Nil => g.fn \in FnsIn(mem) /\ Bucket(mem[g.fn].self) = b
    BY <2>3, <2>4 DEF InBucket
  <2> HIDE DEF g
  <2>8. Searching(mem, g, running)
    BY <1>3, <2>3, <2>4, <2>6, <2>7 DEF Searching, ForArc, Nil
  <2> QED BY <1>1, <1>4, <2>4, <2>5, <2>8, SearchStep DEF Locking
<1> QED BY <1>5, <1>6, <1>7

LEMMA FindArcStep ==
  ASSUME ProfileAssumption, ListInv, FindArc
  PROVE  ListInv'
<1>1. /\ Me \in Frame /\ Searching(mem, Me, running) /\ Me.pc = "arcs"
      /\ running = Program \/ running = Handler
  BY Mine DEF FindArc, Who
<1>2. ListsIn(mem, heads)
  BY DEF ListInv
<1>3. /\ Me.self \in Functions /\ Me.from \in Callers /\ Me.fn \in Nat /\ Me.arc \in Nat
      /\ Me.fn # Nil /\ Me.fn \in FnsIn(mem) /\ mem[Me.fn].self = Me.self
      /\ Me.arc \in OwnIn(mem, Me.fn) \cup {Nil}
      /\ Passed(CopiesIn(mem, Me.fn, Me.from), Me.arc, running)
  BY <1>1 DEF Searching, ForArc
<1>4. UNCHANGED <<lists, irqOn, running, called>> /\ Me.pc \notin Locking
  BY <1>1 DEF FindArc, Locking
<1>5. /\ IsList(mem, mem[Me.fn].arcs, OwnIn(mem, Me.fn))
      /\ OwnIn(mem, Me.fn) \in SUBSET (Nat \ {0})
      /\ OwnIn(mem, Me.fn) \subseteq DOMAIN mem \ FnsIn(mem)
  BY <1>2, <1>3 DEF ListsIn, Typed
<1>6. CASE Me.arc = Nil
  <2> DEFINE g == [Me EXCEPT !.pc = "record"]
  <2>1. /\ g \in Frame /\ g.pc = "record" /\ g.self = Me.self /\ g.from = Me.from
        /\ g.fn = Me.fn /\ g.arc = Nil
    BY <1>1, <1>6 DEF Frame, Pcs
  <2>2. Goto(g)
    BY <1>6 DEF FindArc, LastArc
  <2> HIDE DEF g
  <2>3. Searching(mem, g, running)
    BY <1>3, <1>6, <2>1 DEF Searching, ForFunction, Nil
  <2> QED BY <1>1, <1>4, <2>1, <2>2, <2>3, SearchStep DEF Locking
<1>7. CASE Me.arc # Nil /\ mem[Me.arc].from = Me.from
  <2> DEFINE g == [Me EXCEPT !.pc = "count", !.val = mem[Me.arc].count]
  <2>1. Me.arc \in OwnIn(mem, Me.fn) /\ mem[Me.arc].count \in Nat
    BY <1>2, <1>3, <1>5, <1>7, Entries DEF ListsIn
  <2>2. /\ g \in Frame /\ g.pc = "count" /\ g.self = Me.self /\ g.from = Me.from
        /\ g.fn = Me.fn /\ g.arc = Me.arc /\ g.val = mem[Me.arc].count
    BY <1>1, <2>1 DEF Frame, Pcs
  <2>3. Goto(g)
    BY <1>7 DEF FindArc, LastArc
  <2> HIDE DEF g
  <2>4. Searching(mem, g, running)
    BY <1>3, <1>7, <2>1, <2>2 DEF Searching, ForFunction, ForArc
  <2> QED BY <1>1, <1>4, <2>2, <2>3, <2>4, SearchStep DEF Locking
<1>8. CASE Me.arc # Nil /\ mem[Me.arc].from # Me.from
  <2> DEFINE g == [Me EXCEPT !.arc = mem[@].next]
  <2>1. Me.arc \in OwnIn(mem, Me.fn)
    BY <1>3, <1>8
  <2>2. /\ mem[Me.arc].next \in Nat /\ mem[Me.arc].next \in OwnIn(mem, Me.fn) \cup {Nil}
        /\ \A y \in OwnIn(mem, Me.fn) : mem[Me.arc].next < y => Me.arc <= y
    BY <1>5, <2>1, ListNext
  <2>3. /\ g \in Frame /\ g.pc = "arcs" /\ g.self = Me.self /\ g.from = Me.from
        /\ g.fn = Me.fn /\ g.arc = mem[Me.arc].next
    BY <1>1, <2>2 DEF Frame, Pcs
  <2>4. Goto(g)
    BY <1>8 DEF FindArc, LastArc
  <2>5. Passed(CopiesIn(mem, Me.fn, Me.from), g.arc, running)
    <3>1. ASSUME NEW y \in CopiesIn(mem, Me.fn, Me.from), g.arc < y
          PROVE  Me.arc < y
      <4>1. y \in OwnIn(mem, Me.fn) /\ y # Me.arc /\ y \in Nat
        BY <1>5, <1>8 DEF CopiesIn
      <4>2. Me.arc <= y
        BY <2>2, <2>3, <3>1, <4>1
      <4> QED BY <1>3, <4>1, <4>2
    <3> QED BY <1>3, <3>1 DEF Passed
  <2> HIDE DEF g
  <2>6. Searching(mem, g, running)
    BY <1>3, <2>2, <2>3, <2>5 DEF Searching, ForFunction
  <2> QED BY <1>1, <1>4, <2>3, <2>4, <2>6, SearchStep DEF Locking
<1> QED BY <1>6, <1>7, <1>8

\* From the end of a search to the lock only the program counter changes.
LEMMA RecordStep ==
  ASSUME ProfileAssumption, ListInv, NEW p \in {"starting", "start", "lock"},
         Me.pc \in {"record", "starting", "start"}, Goto([Me EXCEPT !.pc = p]),
         UNCHANGED <<lists, irqOn, running, called>>
  PROVE  ListInv'
<1> DEFINE g == [Me EXCEPT !.pc = p]
<1>1. Me \in Frame /\ Searching(mem, Me, running) /\ (running = Program \/ running = Handler)
  BY Mine DEF Who
<1>2. /\ g \in Frame /\ g.pc = p /\ g.self = Me.self /\ g.from = Me.from
      /\ g.fn = Me.fn /\ g.arc = Me.arc
  BY <1>1 DEF Frame, Pcs
<1>3. Goto(g)
  OBVIOUS
<1> HIDE DEF g
<1>4. Searching(mem, g, running)
  BY <1>1, <1>2 DEF Searching, ForFunction, ForArc
<1>5. g.pc \notin Locking /\ Me.pc \notin Locking /\ Me.pc # "count" /\ g.pc # "count"
  BY <1>2 DEF Locking
<1> QED BY <1>1, <1>2, <1>3, <1>4, <1>5, SearchStep

\* While one is in the locked section, the lists change by its steps alone.
LEMMA OthersOut ==
  ASSUME ProfileAssumption, ListInv, NEW t \in Who, t # running
  PROVE  /\ frame[t].pc \notin Locking /\ (running = Program => frame[t].pc = "idle")
         /\ t = Program => running = Handler
  BY DEF ListInv, Locks, Who, ProfileAssumption

LEMMA LockStep ==
  ASSUME ProfileAssumption, ListInv, Lock
  PROVE  ListInv'
<1> DEFINE g == [Me EXCEPT !.pc = "take", !.irq = irqOn]
<1>1. /\ Me \in Frame /\ Searching(mem, Me, running) /\ Me.pc = "lock" /\ running \in Who
      /\ irqOn \in BOOLEAN /\ Program # Handler /\ Program \in Who /\ Handler \in Who
  BY Mine DEF Lock, ListInv, Locks
<1>2. /\ g \in Frame /\ g.pc = "take" /\ g.self = Me.self /\ g.from = Me.from
      /\ g.fn = Me.fn /\ g.arc = Me.arc /\ g.irq = irqOn
  BY <1>1 DEF Frame, Pcs, Locking
<1>3. Goto(g) /\ UNCHANGED <<lists, running, called>> /\ irqOn' = FALSE
  BY DEF Lock, Locked
<1> HIDE DEF g
<1>4. Searching(mem, g, running)
  BY <1>1, <1>2 DEF Searching, ForFunction, ForArc
<1>5. /\ frame' \in [Who -> Frame] /\ frame'[running] = g
      /\ \A t \in Who \ {running} : frame'[t] = frame[t]
  BY <1>1, <1>2, <1>3, Gone DEF ListInv
<1>6. mem' = mem /\ heads' = heads /\ slab' = slab /\ heap' = heap /\ running' = running
      /\ called' = called
  BY <1>3 DEF lists
<1>7. irqOn <=> running = Program
  BY <1>1 DEF ListInv, Locks, Me, Locking, Who
<1>8. Locks'
  <2>1. ASSUME NEW t \in Who, frame'[t].pc \in Locking
        PROVE  running = t /\ (frame'[t].irq <=> t = Program)
    <3>1. t = running
      BY <1>5, <2>1, OthersOut
    <3> QED BY <1>2, <1>5, <1>7, <3>1
  <2>2. running = Program => frame'[Handler].pc = "idle" /\ frame'[Program].pc \in Locking
    BY <1>1, <1>2, <1>5, OthersOut DEF Locking
  <2>3. running' \in Who /\ ~irqOn' /\ irqOn' \in BOOLEAN
    BY <1>1, <1>3
  <2> QED BY <1>6, <2>1, <2>2, <2>3 DEF Locks
<1>9. SlabKept'
  <2>1. ASSUME NEW t \in Who PROVE frame'[t].pc = "link" => frame[t] = frame'[t]
    BY <1>2, <1>5
  <2> QED BY <1>6, <2>1 DEF ListInv, SlabKept
<1>10. Searches'
  BY <1>1, <1>4, <1>5, <1>6 DEF ListInv, Searches
<1>11. Counts'
  <2>1. ASSUME NEW f \in Functions, NEW c \in Callers
        PROVE  Stale(mem, frame'[Program], f, c) = Stale(mem, frame[Program], f, c)
    <3>1. CASE running = Program
      BY <1>1, <1>2, <1>5, <3>1 DEF Stale, Me
    <3>2. CASE running # Program
      BY <1>1, <1>5, <3>2
    <3> QED BY <3>1, <3>2
  <2> QED BY <1>6, <2>1 DEF ListInv, Counts, Within
<1> QED BY <1>6, <1>8, <1>9, <1>10, <1>11 DEF ListInv

LEMMA TakeStep ==
  ASSUME ProfileAssumption, ListInv, Take
  PROVE  ListInv'
<1> DEFINE d == IF slab.left = 0 THEN heap ELSE slab.ptr
           g == [Me EXCEPT !.pc = "link", !.data = d]
<1>1. /\ Me \in Frame /\ Searching(mem, Me, running) /\ Me.pc = "take" /\ running \in Who
      /\ Program # Handler /\ Program \in Who /\ Handler \in Who
  BY Mine DEF Take
<1>2. /\ slab.ptr \in Nat /\ slab.left \in 0 .. SlabEntries /\ heap \in Nat \ {0}
      /\ SlabEntries \in Nat \ {0}
  BY DEF ListInv, SlabKept, ProfileAssumption
<1>3. /\ g \in Frame /\ g.pc = "link" /\ g.self = Me.self /\ g.from = Me.from
      /\ g.fn = Me.fn /\ g.arc = Me.arc /\ g.irq = Me.irq /\ g.data = d
  BY <1>1, <1>2 DEF Frame, Pcs, Locking
<1>4. Goto(g) /\ UNCHANGED <<heads, mem, irqOn, running, called>>
  BY DEF Take
<1>5. /\ slab'.ptr = d /\ slab'.ptr \in Nat /\ slab'.left \in 1 .. SlabEntries
      /\ heap' \in Nat \ {0} /\ heap <= heap'
      /\ slab'.ptr + slab'.left <= heap' /\ slab'.ptr # 0
      /\ \A x \in DOMAIN mem : x < slab'.ptr
  <2>1. CASE slab.left = 0
    <3>1. heap' = heap + SlabEntries /\ slab' = [ptr |-> heap, left |-> SlabEntries]
      BY <2>1 DEF Take
    <3> QED BY <1>2, <2>1, <3>1 DEF ListInv, SlabKept
  <2>2. CASE slab.left # 0
    <3>1. heap' = heap /\ slab' = slab
      BY <2>2 DEF Take
    <3> QED BY <1>2, <2>2, <3>1 DEF ListInv, SlabKept
  <2> QED BY <2>1, <2>2
<1> HIDE DEF g, d
<1>6. Searching(mem, g, running)
  BY <1>1, <1>3 DEF Searching, ForFunction, ForArc
<1>7. /\ frame' \in [Who -> Frame] /\ frame'[running] = g
      /\ \A t \in Who \ {running} : frame'[t] = frame[t]
  BY <1>1, <1>3, <1>4, Gone DEF ListInv
<1>8. Locks'
  <2>1. ASSUME NEW t \in Who, frame'[t].pc \in Locking
        PROVE  running = t /\ (frame'[t].irq <=> t = Program) /\ ~irqOn
    <3>1. t = running
      BY <1>7, <2>1, OthersOut
    <3>2. Me.pc \in Locking
      BY <1>1 DEF Locking
    <3> QED BY <1>1, <1>3, <1>7, <3>1, <3>2 DEF ListInv, Locks, Me
  <2>2. running = Program => frame'[Handler].pc = "idle" /\ frame'[Program].pc \in Locking
    BY <1>1, <1>3, <1>7, OthersOut DEF Locking
  <2>3. running' \in Who /\ irqOn' \in BOOLEAN /\ (running = Handler => ~irqOn)
    BY <1>1, <1>4 DEF ListInv, Locks
  <2> QED BY <1>4, <2>1, <2>2, <2>3 DEF Locks
<1>9. SlabKept'
  <2>1. ASSUME NEW t \in Who, frame'[t].pc = "link" PROVE frame'[t].data = slab'.ptr
    <3>1. t = running
      BY <1>7, <2>1, OthersOut DEF Locking
    <3> QED BY <1>3, <1>5, <1>7, <3>1
  <2>2. ASSUME NEW x \in DOMAIN mem PROVE x < heap'
    <3>1. x < heap /\ x \in Nat
      BY DEF ListInv, SlabKept, ListsIn, Typed
    <3> QED BY <1>2, <1>5, <3>1
  <2> QED BY <1>2, <1>4, <1>5, <2>1, <2>2 DEF SlabKept
<1>10. Searches'
  BY <1>1, <1>4, <1>6, <1>7 DEF ListInv, Searches
<1>11. Counts'
  <2>1. ASSUME NEW f \in Functions, NEW c \in Callers
        PROVE  Stale(mem, frame'[Program], f, c) = Stale(mem, frame[Program], f, c)
    <3>1. CASE running = Program
      BY <1>1, <1>3, <1>7, <3>1 DEF Stale, Me
    <3>2. CASE running # Program
      BY <1>1, <1>7, <3>2
    <3> QED BY <3>1, <3>2
  <2> QED BY <1>4, <2>1 DEF ListInv, Counts, Within
<1> QED BY <1>4, <1>8, <1>9, <1>10, <1>11 DEF ListInv

LEMMA UnlockStep ==
  ASSUME ProfileAssumption, ListInv, Unlock
  PROVE  ListInv'
<1>1. /\ Me \in Frame /\ Me.pc = "unlock" /\ running \in Who
      /\ Program # Handler /\ Program \in Who /\ Handler \in Who
  BY Mine DEF Unlock
<1>2. Idle \in Frame /\ Idle.pc = "idle"
  BY DEF Idle, Frame, Pcs, Nil
<1>3. Goto(Idle) /\ UNCHANGED <<lists, running, called>> /\ irqOn' = Me.irq
  BY DEF Unlock
<1>4. /\ frame' \in [Who -> Frame] /\ frame'[running] = Idle
      /\ \A t \in Who \ {running} : frame'[t] = frame[t]
  BY <1>1, <1>2, <1>3, Gone DEF ListInv
<1>5. mem' = mem /\ heads' = heads /\ slab' = slab /\ heap' = heap /\ running' = running
      /\ called' = called
  BY <1>3 DEF lists
<1>6. Me.irq \in BOOLEAN /\ (Me.irq <=> running = Program)
  BY <1>1, FrameFields DEF ListInv, Locks, Me, Locking
<1>7. Locks'
  <2>1. ASSUME NEW t \in Who PROVE frame'[t].pc \notin Locking
    BY <1>2, <1>4, OthersOut DEF Locking
  <2>2. running = Program => frame'[Handler].pc = "idle"
    BY <1>1, <1>4, OthersOut
  <2> QED BY <1>1, <1>3, <1>5, <1>6, <2>1, <2>2 DEF Locks
<1>8. SlabKept'
  <2>1. ASSUME NEW t \in Who PROVE frame'[t].pc = "link" => frame[t] = frame'[t]
    BY <1>2, <1>4
  <2> QED BY <1>5, <2>1 DEF ListInv, SlabKept
<1>9. Searches'
  <2>1. Searching(mem, Idle, running)
    BY <1>2 DEF Searching
  <2> QED BY <1>1, <1>4, <1>5, <2>1 DEF ListInv, Searches
<1>10. Counts'
  <2>1. ASSUME NEW f \in Functions, NEW c \in Callers
        PROVE  Stale(mem, frame'[Program], f, c) = Stale(mem, frame[Program], f, c)
    <3>1. CASE running = Program
      BY <1>1, <1>2, <1>4, <3>1 DEF Stale, Me
    <3>2. CASE running # Program
      BY <1>1, <1>4, <3>2
    <3> QED BY <3>1, <3>2
  <2> QED BY <1>5, <2>1 DEF ListInv, Counts, Within
<1> QED BY <1>5, <1>7, <1>8, <1>9, <1>10 DEF ListInv

LEMMA InterruptStep ==
  ASSUME ProfileAssumption, ListInv, Interrupt
  PROVE  ListInv'
<1>1. UNCHANGED <<mem, heads, slab, heap, frame, called>> /\ running' = Handler /\ ~irqOn'
      /\ irqOn' \in BOOLEAN /\ irqOn
  BY DEF Interrupt, lists
<1>2. Program # Handler /\ Handler \in Who
  BY Mine
<1>3. Locks'
  BY <1>1, <1>2 DEF ListInv, Locks
<1>4. SlabKept' /\ Searches' /\ Counts'
  BY <1>1 DEF ListInv, SlabKept, Searches, Counts
<1> QED BY <1>1, <1>3, <1>4 DEF ListInv

LEMMA ReturnStep ==
  ASSUME ProfileAssumption, ListInv, Return
  PROVE  ListInv'
<1>1. UNCHANGED <<mem, heads, slab, heap, frame, called>> /\ running' = Program /\ irqOn'
      /\ irqOn' \in BOOLEAN /\ running = Handler /\ frame[Handler].pc = "idle"
  BY DEF Return, lists, Me
<1>2. Program # Handler /\ Program \in Who
  BY Mine
<1>3. \A t \in Who : frame[t].pc \notin Locking
  BY <1>1, OthersOut DEF Locking
<1>4. Locks'
  BY <1>1, <1>2, <1>3 DEF Locks
<1>5. SlabKept' /\ Searches' /\ Counts'
  BY <1>1 DEF ListInv, SlabKept, Searches, Counts
<1> QED BY <1>1, <1>4, <1>5 DEF ListInv

\* What both ways of linking the entry d leave of the slab and of the lock.
LEMMA LinkedOne ==
  ASSUME ProfileAssumption, ListInv, Me.pc = "link", Used, UNCHANGED <<heap, irqOn, running>>,
         NEW g \in Frame, Goto(g), g.pc \in {"take", "unlock"}, g.irq = Me.irq,
         DOMAIN mem' = DOMAIN mem \cup {Me.data}
  PROVE  /\ Locks' /\ SlabKept'
         /\ frame' \in [Who -> Frame] /\ frame'[running] = g
         /\ \A t \in Who \ {running} : frame'[t] = frame[t]
         /\ Me.data \in Nat \ {0} /\ \A x \in DOMAIN mem : x < Me.data
<1>1. /\ Me \in Frame /\ running \in Who
      /\ Program # Handler /\ Program \in Who /\ Handler \in Who
  BY Mine
<1>2. /\ slab.ptr \in Nat \ {0} /\ slab.left \in 1 .. SlabEntries /\ Me.data = slab.ptr
      /\ heap \in Nat \ {0} /\ slab.ptr + slab.left <= heap /\ SlabEntries \in Nat
      /\ \A x \in DOMAIN mem : x < slab.ptr
  <2>1. slab.left > 0 /\ Me.data = slab.ptr
    BY <1>1 DEF ListInv, SlabKept, Me
  <2> QED BY <2>1 DEF ListInv, SlabKept, ProfileAssumption
<1>3. /\ frame' \in [Who -> Frame] /\ frame'[running] = g
      /\ \A t \in Who \ {running} : frame'[t] = frame[t]
  BY <1>1, Gone DEF ListInv
<1>4. Locks'
  <2>1. ASSUME NEW t \in Who, frame'[t].pc \in Locking
        PROVE  running = t /\ (frame'[t].irq <=> t = Program) /\ ~irqOn
    <3>1. t = running
      BY <1>3, <2>1, OthersOut
    <3>2. Me.pc \in Locking
      BY DEF Locking
    <3> QED BY <1>1, <1>3, <3>1, <3>2 DEF ListInv, Locks, Me
  <2>2. running = Program => frame'[Handler].pc = "idle" /\ frame'[Program].pc \in Locking
    BY <1>1, <1>3, OthersOut DEF Locking
  <2>3. running' \in Who /\ irqOn' \in BOOLEAN /\ (running = Handler => ~irqOn)
    BY <1>1 DEF ListInv, Locks
  <2> QED BY <2>1, <2>2, <2>3 DEF Locks
<1>5. slab'.ptr = slab.ptr + 1 /\ slab'.left = slab.left - 1
  BY DEF Used
<1>6. SlabKept'
  <2>1. ASSUME NEW t \in Who PROVE frame'[t].pc # "link"
    BY <1>3, OthersOut DEF Locking
  <2>2. ASSUME NEW x \in DOMAIN mem' PROVE x < slab.ptr + 1 /\ x < heap /\ x \in Nat
    <3>1. x \in DOMAIN mem => x < slab.ptr /\ x \in Nat
      BY <1>2 DEF ListInv, ListsIn, Typed
    <3> QED BY <1>2, <3>1
  <2>3. slab.ptr + 1 \in Nat \ {0} /\ slab.left - 1 \in 0 .. SlabEntries
        /\ (slab.ptr + 1) + (slab.left - 1) <= heap
    BY <1>2
  <2> QED BY <1>2, <1>5, <2>1, <2>2, <2>3 DEF SlabKept
<1> QED BY <1>2, <1>3, <1>4, <1>6

LEMMA LinkFunctionStep ==
  ASSUME ProfileAssumption, ListInv, LinkFunction
  PROVE  ListInv'
<1> DEFINE g == [Me EXCEPT !.pc = "take", !.fn = Me.data]
           d == Me.data
<1>1. /\ Me \in Frame /\ Searching(mem, Me, running) /\ Me.pc = "link" /\ Me.fn = Nil
      /\ running \in Who /\ Program # Handler /\ Program \in Who /\ Handler \in Who
  BY Mine DEF LinkFunction
<1>2. /\ g \in Frame /\ g.pc = "take" /\ g.self = Me.self /\ g.from = Me.from
      /\ g.fn = d /\ g.arc = Me.arc /\ g.irq = Me.irq
  BY <1>1, FrameFields DEF Frame, Pcs, Locking
<1>3. /\ Goto(g) /\ Used /\ UNCHANGED <<heap, irqOn, running, called>>
      /\ heads' = [heads EXCEPT ![Bucket(Me.self)] = d]
      /\ mem' = Put(mem, d, [next |-> heads[Bucket(Me.self)], self |-> Me.self, arcs |-> Nil])
  BY DEF LinkFunction
<1> HIDE DEF g, d
<1>4. DOMAIN mem' = DOMAIN mem \cup {Me.data}
  BY <1>3 DEF Put, d
<1>5. /\ Locks' /\ SlabKept'
      /\ frame' \in [Who -> Frame] /\ frame'[running] = g
      /\ \A t \in Who \ {running} : frame'[t] = frame[t]
      /\ d \in Nat \ {0} /\ \A x \in DOMAIN mem : x < d
  BY <1>1, <1>2, <1>3, <1>4, LinkedOne DEF d
<1>6. /\ Me.self \in Functions /\ Me.from \in Callers /\ Me.arc = Nil
      /\ Passed(Same(mem, Me.self), Nil, running) /\ ListsIn(mem, heads)
  BY <1>1 DEF Searching, ForFunction, ListInv
<1>7. /\ ListsIn(mem', heads') /\ FnsIn(mem') = FnsIn(mem) \cup {d} /\ d \notin DOMAIN mem
      /\ \A x \in DOMAIN mem : mem'[x] = mem[x]
      /\ mem'[d].self = Me.self /\ mem'[d].arcs = Nil
      /\ OwnIn(mem', d) = {} /\ \A e \in FnsIn(mem) : OwnIn(mem', e) = OwnIn(mem, e)
  <2>1. FunctionAdded(mem, heads, Me.self, d, mem', heads')
    BY <1>3 DEF FunctionAdded
  <2>3. Me.self \in Functions /\ ListsIn(mem, heads)
    BY <1>6
  <2>4. d \in Nat \ {0} /\ \A x \in DOMAIN mem : x < d
    BY <1>5
  <2> QED BY <2>1, <2>3, <2>4, FunctionLinked
<1>8. FnsIn(mem) \subseteq DOMAIN mem /\ Same(mem, Me.self) \in SUBSET (Nat \ {0})
      /\ \A e \in FnsIn(mem) : OwnIn(mem, e) \subseteq DOMAIN mem \ FnsIn(mem)
  BY <1>6 DEF ListsIn, Typed, Same, FnsIn
<1>9. /\ Same(mem', Me.self) = Same(mem, Me.self) \cup {d}
      /\ \A f \in Functions \ {Me.self} : Same(mem', f) = Same(mem, f)
  BY <1>7, <1>8 DEF Same
<1>10. /\ \A e \in FnsIn(mem), c \in Callers : CopiesIn(mem', e, c) = CopiesIn(mem, e, c)
       /\ \A c \in Callers : CopiesIn(mem', d, c) = {}
  BY <1>7, <1>8 DEF CopiesIn
<1>11. \A x \in Same(mem, Me.self) : Nil < x
  BY <1>8 DEF Nil
<1>12. running = Handler => Same(mem, Me.self) = {}
  BY <1>1, <1>6, <1>11, PassedFirst
<1>13. BoundedIn(mem')
  <2>1. Two(Same(mem, Me.self) \cup {d})
    BY <1>1, <1>6, <1>11, PassedFirst, PassedAgain DEF Who
  <2>2. Two({})
    BY DEF Two
  <2>3. BoundedIn(mem)
    BY DEF ListInv
  <2>4. ASSUME NEW f \in Functions PROVE Two(Same(mem', f))
    BY <1>9, <2>1, <2>3 DEF BoundedIn
  <2>5. ASSUME NEW e \in FnsIn(mem'), NEW c \in Callers PROVE Two(CopiesIn(mem', e, c))
    BY <1>7, <1>10, <2>2, <2>3 DEF BoundedIn
  <2> QED BY <2>4, <2>5 DEF BoundedIn
<1>14. Searching(mem', g, running)
  <2>1. Passed(CopiesIn(mem', d, Me.from), Nil, running)
    BY <1>6, <1>10 DEF Passed
  <2>2. d \in FnsIn(mem') /\ d # Nil
    BY <1>5, <1>7 DEF Nil
  <2> QED BY <1>2, <1>5, <1>6, <1>7, <2>1, <2>2 DEF Searching, ForFunction, Nil
<1>15. ASSUME NEW t \in Who, t # running PROVE Searching(mem', frame[t], t)
  <2>1. CASE t = Handler
    <3>1. frame[t].pc = "idle"
      BY <1>1, <1>15, <2>1, OthersOut DEF Who
    <3> QED BY <3>1 DEF Searching
  <2>2. CASE t = Program
    <3> DEFINE f == frame[Program]
    <3>1. Searching(mem, f, Program) /\ running = Handler
      BY <1>1, <1>15, <2>2, OthersOut DEF ListInv, Searches
    <3> HIDE DEF f
    <3>2. ASSUME f.pc \notin {"idle", "unlock"}, ForFunction(f)
          PROVE  Passed(Same(mem', f.self), f.fn, Program)
      <4>1. f.self \in Functions /\ Passed(Same(mem, f.self), f.fn, Program)
        BY <3>1, <3>2 DEF Searching
      <4>2. CASE f.self = Me.self
        BY <1>9, <1>12, <3>1, <4>2 DEF Passed
      <4>3. CASE f.self # Me.self
        BY <1>9, <4>1, <4>3
      <4> QED BY <4>2, <4>3
    <3>3. ASSUME f.pc \notin {"idle", "unlock"}, ForArc(f)
          PROVE  Passed(CopiesIn(mem', f.fn, f.from), f.arc, Program)
      <4>1. /\ f.fn \in FnsIn(mem) /\ f.from \in Callers
            /\ Passed(CopiesIn(mem, f.fn, f.from), f.arc, Program)
        BY <3>1, <3>3 DEF Searching, ForArc
      <4> QED BY <1>10, <4>1
    <3>4. ASSUME NEW x \in DOMAIN mem \ FnsIn(mem)
          PROVE  /\ mem'[x].from = mem[x].from /\ mem'[x].count \in Nat
                 /\ mem[x].count <= mem'[x].count
      <4>1. mem[x].count \in Nat /\ mem'[x] = mem[x]
        BY <1>6, <1>7, Entries DEF ListsIn
      <4> QED BY <4>1
    <3>5. \A e \in FnsIn(mem) : mem'[e].self = mem[e].self /\ OwnIn(mem, e) \subseteq OwnIn(mem', e)
      BY <1>7, <1>8
    <3>6. FnsIn(mem) \subseteq FnsIn(mem')
      BY <1>7
    <3>7. Searching(mem', f, Program)
      BY <1>6, <3>1, <3>2, <3>3, <3>4, <3>5, <3>6, SearchKept
    <3> QED BY <2>2, <3>7 DEF f
  <2> QED BY <2>1, <2>2 DEF Who
<1>16. Searches'
  BY <1>1, <1>3, <1>5, <1>14, <1>15 DEF Searches
<1>17. Counts'
  <2>1. ASSUME NEW f \in Functions, NEW c \in Callers
        PROVE  Stale(mem', frame'[Program], f, c) = Stale(mem, frame[Program], f, c)
    <3>1. CASE running = Program
      BY <1>1, <1>2, <1>5, <3>1 DEF Stale, Me
    <3>2. CASE running # Program
      <4>1. frame'[Program] = frame[Program] /\ Searching(mem, frame[Program], Program)
        BY <1>1, <1>5, <3>2 DEF ListInv, Searches
      <4>2. frame[Program].pc = "count" => frame[Program].arc \in DOMAIN mem
        BY <1>8, <4>1 DEF Searching
      <4> QED BY <1>7, <4>1, <4>2 DEF Stale
    <3> QED BY <3>1, <3>2
  <2>2. ASSUME NEW f \in Functions, NEW c \in Callers
        PROVE  SumOf(mem', ArcsOf(mem', f, c)) = SumOf(mem, ArcsOf(mem, f, c))
    <3>1. DOMAIN mem' = DOMAIN mem \cup {d}
      BY <1>4 DEF d
    <3> QED BY <1>6, <1>7, <3>1, FunctionCounts
  <2> QED BY <1>3, <2>1, <2>2 DEF ListInv, Counts, Within
<1> QED BY <1>5, <1>7, <1>13, <1>16, <1>17 DEF ListInv

\* A call is counted, in the books of who made it.
LEMMA FinishedOne ==
  ASSUME ListInv, running \in Who, Me.self \in Functions, Me.from \in Callers, Finished
  PROVE  /\ called' \in [Who -> [Arcs -> Nat]]
         /\ \A t \in Who, g \in Functions, c \in Callers :
                called'[t][<<g, c>>] = called[t][<<g, c>>] +
                    IF t = running /\ g = Me.self /\ c = Me.from THEN 1 ELSE 0
<1> DEFINE a == <<Me.self, Me.from>>
<1>1. called \in [Who -> [Arcs -> Nat]] /\ a \in Arcs
  BY DEF ListInv, Counts, Arcs
<1>2. called' = [called EXCEPT ![running] = [called[running] EXCEPT ![a] = @ + 1]]
  BY DEF Finished
<1>3. \A g \in Functions, c \in Callers : /\ <<g, c>> \in Arcs
                                          /\ <<g, c>> = a <=> g = Me.self /\ c = Me.from
  BY DEF Arcs
<1> HIDE DEF a
<1>4. /\ called' \in [Who -> [Arcs -> Nat]]
      /\ \A t \in Who, x \in Arcs : called'[t][x] = called[t][x] + IF t = running /\ x = a
                                                                   THEN 1 ELSE 0
  BY <1>1, <1>2
<1> QED BY <1>3, <1>4

\* What is stale is a number.
LEMMA StaleInt ==
  ASSUME ListInv, Program \in Who, NEW f, NEW c
  PROVE  Stale(mem, frame[Program], f, c) \in Int
<1>1. CASE frame[Program].pc # "count"
  BY <1>1 DEF Stale
<1>2. CASE frame[Program].pc = "count"
  <2>1. /\ frame[Program].val \in Nat /\ frame[Program].fn \in FnsIn(mem)
        /\ frame[Program].arc \in OwnIn(mem, frame[Program].fn)
    BY <1>2 DEF ListInv, Searches, Searching
  <2>2. ListsIn(mem, heads) /\ frame[Program].arc \in DOMAIN mem \ FnsIn(mem)
    BY <2>1 DEF ListInv, ListsIn
  <2>3. mem[frame[Program].arc].count \in Nat
    BY <2>2, Entries DEF ListsIn
  <2> QED BY <2>1, <2>3 DEF Stale
<1> QED BY <1>1, <1>2

\* A call that is counted in the books and in the list.
LEMMA CallsFinished ==
  ASSUME ProfileAssumption, ListInv, running \in Who, Me.self \in Functions,
         Me.from \in Callers, Finished,
         \A f \in Functions, c \in Callers :
             Stale(mem', frame'[Program], f, c) = Stale(mem, frame[Program], f, c),
         \A f \in Functions, c \in Callers :
             SumOf(mem', ArcsOf(mem', f, c)) =
                 SumOf(mem, ArcsOf(mem, f, c)) + IF f = Me.self /\ c = Me.from THEN 1 ELSE 0
  PROVE  Counts'
<1>1. Program \in Who /\ Handler \in Who /\ Program # Handler
  BY Mine
<1>2. /\ called' \in [Who -> [Arcs -> Nat]]
      /\ \A t \in Who, f \in Functions, c \in Callers :
             called'[t][<<f, c>>] = called[t][<<f, c>>] +
                 IF t = running /\ f = Me.self /\ c = Me.from THEN 1 ELSE 0
  BY FinishedOne
<1>3. ASSUME NEW f \in Functions, NEW c \in Callers
      PROVE  Within(mem', frame'[Program], called'[Program], called'[Handler], f, c)
  <2> DEFINE p == called[Program][<<f, c>>]
             h == called[Handler][<<f, c>>]
             i == IF f = Me.self /\ c = Me.from THEN 1 ELSE 0
             k == Stale(mem, frame[Program], f, c)
             u == SumOf(mem, ArcsOf(mem, f, c))
  <2>1. p + k <= u /\ u <= p + h
    BY DEF ListInv, Counts, Within
  <2>2. p \in Nat /\ h \in Nat
    BY <1>1 DEF ListInv, Counts, Arcs
  <2>3. u \in Nat
    BY ArcsCountable DEF ListInv
  <2>4. k \in Int
    BY <1>1, StaleInt
  <2>5. /\ Stale(mem', frame'[Program], f, c) = k
        /\ SumOf(mem', ArcsOf(mem', f, c)) = u + i
    OBVIOUS
  <2>6. i \in {0, 1}
    OBVIOUS
  <2>7. CASE running = Program
    <3>1. called'[Program][<<f, c>>] = p + i /\ called'[Handler][<<f, c>>] = h + 0
      BY <1>1, <1>2, <2>7
    <3> HIDE DEF p, h, i, k, u
    <3> QED BY <2>1, <2>2, <2>3, <2>4, <2>5, <2>6, <3>1 DEF Within
  <2>8. CASE running = Handler
    <3>1. called'[Program][<<f, c>>] = p + 0 /\ called'[Handler][<<f, c>>] = h + i
      BY <1>1, <1>2, <2>8
    <3> HIDE DEF p, h, i, k, u
    <3> QED BY <2>1, <2>2, <2>3, <2>4, <2>5, <2>6, <3>1 DEF Within
  <2> QED BY <2>7, <2>8 DEF Who
<1> QED BY <1>2, <1>3 DEF Counts

LEMMA LinkArcStep ==
  ASSUME ProfileAssumption, ListInv, LinkArc
  PROVE  ListInv'
<1> DEFINE g == [Idle EXCEPT !.pc = "unlock", !.irq = Me.irq]
           d == Me.data
           e == Me.fn
<1>1. /\ Me \in Frame /\ Searching(mem, Me, running) /\ Me.pc = "link" /\ Me.fn # Nil
      /\ running \in Who /\ Program # Handler /\ Program \in Who /\ Handler \in Who
  BY Mine DEF LinkArc
<1>2. g \in Frame /\ g.pc = "unlock" /\ g.irq = Me.irq
  BY <1>1, FrameFields DEF Frame, Pcs, Locking, Idle, Nil
<1>3. /\ Goto(g) /\ Used /\ Finished /\ UNCHANGED <<heads, heap, irqOn, running>>
      /\ mem' = Put([mem EXCEPT ![e].arcs = d], d,
                    [next |-> mem[e].arcs, from |-> Me.from, count |-> 1])
  BY DEF LinkArc
<1> HIDE DEF g, d
<1>4. DOMAIN mem' = DOMAIN mem \cup {Me.data}
  BY <1>3 DEF Put, d
<1>5. /\ Locks' /\ SlabKept'
      /\ frame' \in [Who -> Frame] /\ frame'[running] = g
      /\ \A t \in Who \ {running} : frame'[t] = frame[t]
      /\ d \in Nat \ {0} /\ \A x \in DOMAIN mem : x < d
  BY <1>1, <1>2, <1>3, <1>4, LinkedOne DEF d
<1>6. /\ Me.self \in Functions /\ Me.from \in Callers /\ ListsIn(mem, heads)
      /\ e \in FnsIn(mem) /\ mem[e].self = Me.self
      /\ Passed(CopiesIn(mem, e, Me.from), Nil, running)
  BY <1>1 DEF Searching, ForArc, ListInv
<1> HIDE DEF e
<1>7. /\ ListsIn(mem', heads) /\ FnsIn(mem') = FnsIn(mem) /\ d \notin DOMAIN mem
      /\ \A x \in DOMAIN mem \ {e} : mem'[x] = mem[x]
      /\ mem'[e].self = mem[e].self /\ mem'[e].next = mem[e].next /\ mem'[e].arcs = d
      /\ mem'[d].from = Me.from /\ mem'[d].count = 1
      /\ OwnIn(mem', e) = OwnIn(mem, e) \cup {d}
      /\ \A a \in FnsIn(mem) \ {e} : OwnIn(mem', a) = OwnIn(mem, a)
  <2>1. ArcAdded(mem, e, Me.from, d, mem')
    BY <1>3 DEF ArcAdded
  <2>2. Me.from \in Callers /\ e \in FnsIn(mem) /\ ListsIn(mem, heads)
    BY <1>6
  <2>3. d \in Nat \ {0} /\ \A x \in DOMAIN mem : x < d
    BY <1>5
  <2> QED BY <2>1, <2>2, <2>3, ArcLinked
<1>8. /\ FnsIn(mem) \subseteq DOMAIN mem /\ CopiesIn(mem, e, Me.from) \in SUBSET (Nat \ {0})
      /\ \A a \in FnsIn(mem) : OwnIn(mem, a) \subseteq DOMAIN mem \ FnsIn(mem)
  BY <1>6 DEF ListsIn, Typed, CopiesIn, FnsIn
<1>9. \A f \in Functions : Same(mem', f) = Same(mem, f)
  BY <1>7, <1>8 DEF Same
<1>10. /\ CopiesIn(mem', e, Me.from) = CopiesIn(mem, e, Me.from) \cup {d}
       /\ \A a \in FnsIn(mem), c \in Callers :
              a # e \/ c # Me.from => CopiesIn(mem', a, c) = CopiesIn(mem, a, c)
  BY <1>6, <1>7, <1>8 DEF CopiesIn
<1>11. \A x \in CopiesIn(mem, e, Me.from) : Nil < x
  BY <1>8 DEF Nil
<1>12. running = Handler => CopiesIn(mem, e, Me.from) = {}
  BY <1>1, <1>6, <1>11, PassedFirst
<1>13. BoundedIn(mem')
  <2>1. Two(CopiesIn(mem, e, Me.from) \cup {d})
    BY <1>1, <1>6, <1>11, PassedFirst, PassedAgain DEF Who
  <2>2. BoundedIn(mem)
    BY DEF ListInv
  <2>3. ASSUME NEW f \in Functions PROVE Two(Same(mem', f))
    BY <1>9, <2>2 DEF BoundedIn
  <2>4. ASSUME NEW a \in FnsIn(mem'), NEW c \in Callers PROVE Two(CopiesIn(mem', a, c))
    <3>1. CASE a = e /\ c = Me.from
      BY <1>10, <2>1, <3>1
    <3>2. CASE a # e \/ c # Me.from
      BY <1>7, <1>10, <2>2, <3>2 DEF BoundedIn
    <3> QED BY <3>1, <3>2
  <2> QED BY <2>3, <2>4 DEF BoundedIn
<1>14. Searching(mem', g, running)
  BY <1>2 DEF Searching
<1>15. ASSUME NEW t \in Who, t # running PROVE Searching(mem', frame[t], t)
  <2>1. CASE t = Handler
    <3>1. frame[t].pc = "idle"
      BY <1>1, <1>15, <2>1, OthersOut DEF Who
    <3> QED BY <3>1 DEF Searching
  <2>2. CASE t = Program
    <3> DEFINE f == frame[Program]
    <3>1. Searching(mem, f, Program) /\ running = Handler
      BY <1>1, <1>15, <2>2, OthersOut DEF ListInv, Searches
    <3> HIDE DEF f
    <3>2. ASSUME f.pc \notin {"idle", "unlock"}, ForFunction(f)
          PROVE  Passed(Same(mem', f.self), f.fn, Program)
      <4>1. f.self \in Functions /\ Passed(Same(mem, f.self), f.fn, Program)
        BY <3>1, <3>2 DEF Searching
      <4> QED BY <1>9, <4>1
    <3>3. ASSUME f.pc \notin {"idle", "unlock"}, ForArc(f)
          PROVE  Passed(CopiesIn(mem', f.fn, f.from), f.arc, Program)
      <4>1. /\ f.fn \in FnsIn(mem) /\ f.from \in Callers
            /\ Passed(CopiesIn(mem, f.fn, f.from), f.arc, Program)
        BY <3>1, <3>3 DEF Searching, ForArc
      <4>2. CASE f.fn = e /\ f.from = Me.from
        <5>1. CopiesIn(mem', f.fn, f.from) = {d}
          BY <1>10, <1>12, <3>1, <4>2
        <5> QED BY <5>1 DEF Passed
      <4>3. CASE f.fn # e \/ f.from # Me.from
        BY <1>10, <4>1, <4>3
      <4> QED BY <4>2, <4>3
    <3>4. ASSUME NEW x \in DOMAIN mem \ FnsIn(mem)
          PROVE  /\ mem'[x].from = mem[x].from /\ mem'[x].count \in Nat
                 /\ mem[x].count <= mem'[x].count
      <4>1. mem[x].count \in Nat /\ mem'[x] = mem[x]
        BY <1>6, <1>7, Entries DEF ListsIn
      <4> QED BY <4>1
    <3>5. \A a \in FnsIn(mem) : mem'[a].self = mem[a].self /\ OwnIn(mem, a) \subseteq OwnIn(mem', a)
      BY <1>7, <1>8
    <3>6. Searching(mem', f, Program)
      BY <1>6, <1>7, <3>1, <3>2, <3>3, <3>4, <3>5, SearchKept
    <3> QED BY <2>2, <3>6 DEF f
  <2> QED BY <2>1, <2>2 DEF Who
<1>16. Searches'
  BY <1>1, <1>3, <1>5, <1>14, <1>15 DEF Searches
<1>17. ASSUME NEW f \in Functions, NEW c \in Callers
       PROVE  Stale(mem', frame'[Program], f, c) = Stale(mem, frame[Program], f, c)
  <2>1. CASE running = Program
    BY <1>1, <1>2, <1>5, <2>1 DEF Stale, Me
  <2>2. CASE running # Program
    <3>1. frame'[Program] = frame[Program] /\ Searching(mem, frame[Program], Program)
      BY <1>1, <1>5, <2>2 DEF ListInv, Searches
    <3>2. frame[Program].pc = "count" => frame[Program].arc \in DOMAIN mem \ {e}
      BY <1>6, <1>8, <3>1 DEF Searching
    <3> QED BY <1>7, <3>1, <3>2 DEF Stale
  <2> QED BY <2>1, <2>2
<1>18. ASSUME NEW f \in Functions, NEW c \in Callers
       PROVE  SumOf(mem', ArcsOf(mem', f, c)) =
                  SumOf(mem, ArcsOf(mem, f, c)) + IF f = Me.self /\ c = Me.from THEN 1 ELSE 0
  <2>1. DOMAIN mem' = DOMAIN mem \cup {d}
    BY <1>4 DEF d
  <2> QED BY <1>6, <1>7, <2>1, ArcCounts
<1>19. Counts'
  BY <1>1, <1>3, <1>6, <1>17, <1>18, CallsFinished
<1> QED BY <1>3, <1>5, <1>7, <1>13, <1>16, <1>19 DEF ListInv

\* A count that is stored may be stale: what an interrupt's handler counted
\* since the program loaded it is gone, and only that.
LEMMA CountStep ==
  ASSUME ProfileAssumption, ListInv, Count
  PROVE  ListInv'
<1> DEFINE x == Me.arc
           v == Me.val + 1
<1>1. /\ Me \in Frame /\ Searching(mem, Me, running) /\ Me.pc = "count"
      /\ running \in Who /\ Program # Handler /\ Program \in Who /\ Handler \in Who
  BY Mine DEF Count
<1>2. /\ Me.self \in Functions /\ Me.from \in Callers /\ ListsIn(mem, heads)
      /\ Me.fn \in FnsIn(mem) /\ mem[Me.fn].self = Me.self
      /\ x \in OwnIn(mem, Me.fn) /\ mem[x].from = Me.from
      /\ Me.val \in Nat /\ Me.val <= mem[x].count
      /\ (running = Handler => Me.val = mem[x].count)
  BY <1>1 DEF Searching, ListInv
<1>3. x \in DOMAIN mem \ FnsIn(mem) /\ mem[x].count \in Nat
  <2>1. x \in DOMAIN mem \ FnsIn(mem)
    BY <1>2 DEF ListsIn
  <2> QED BY <1>2, <2>1, Entries DEF ListsIn
<1>4. /\ Goto(Idle) /\ Finished
      /\ UNCHANGED <<heads, slab, heap, irqOn, running>>
      /\ CountStored(mem, x, v, mem')
  BY DEF Count, Counted, CountStored
<1>5. Idle \in Frame /\ Idle.pc = "idle"
  BY DEF Idle, Frame, Pcs, Nil
<1>6. /\ frame' \in [Who -> Frame] /\ frame'[running] = Idle
      /\ \A t \in Who \ {running} : frame'[t] = frame[t]
  BY <1>1, <1>4, <1>5, Gone DEF ListInv
<1> HIDE DEF x, v
<1>7. v = Me.val + 1 /\ v \in Nat
  BY <1>2 DEF v
<1>8. /\ ListsIn(mem', heads) /\ FnsIn(mem') = FnsIn(mem)
      /\ \A y \in DOMAIN mem \ {x} : mem'[y] = mem[y]
      /\ mem'[x].count = v /\ mem'[x].from = mem[x].from
      /\ \A a \in FnsIn(mem) : OwnIn(mem', a) = OwnIn(mem, a)
  BY <1>2, <1>3, <1>4, <1>7, ArcCounted
<1>9. DOMAIN mem' = DOMAIN mem
  BY <1>4 DEF CountStored
<1>10. /\ FnsIn(mem) \subseteq DOMAIN mem /\ \A a \in FnsIn(mem) : mem'[a] = mem[a]
       /\ \A a \in FnsIn(mem) : OwnIn(mem, a) \subseteq DOMAIN mem \ FnsIn(mem)
       /\ \A y \in DOMAIN mem : mem'[y].from = mem[y].from
  BY <1>2, <1>3, <1>8 DEF ListsIn, FnsIn
<1>11. /\ \A f \in Functions : Same(mem', f) = Same(mem, f)
       /\ \A a \in FnsIn(mem), c \in Callers : CopiesIn(mem', a, c) = CopiesIn(mem, a, c)
  BY <1>8, <1>10 DEF Same, CopiesIn
<1>12. BoundedIn(mem')
  BY <1>8, <1>11 DEF ListInv, BoundedIn
<1>13. Locks'
  <2>1. ASSUME NEW t \in Who PROVE frame'[t].pc \notin Locking
    BY <1>5, <1>6, OthersOut DEF Locking
  <2>2. running = Program => frame'[Handler].pc = "idle" /\ irqOn
    BY <1>1, <1>6, OthersOut DEF ListInv, Locks, Me, Locking
  <2>3. irqOn \in BOOLEAN /\ (running = Handler => ~irqOn)
    BY DEF ListInv, Locks
  <2> QED BY <1>1, <1>4, <2>1, <2>2, <2>3 DEF Locks
<1>14. SlabKept'
  <2>1. ASSUME NEW t \in Who PROVE frame'[t].pc = "link" => frame[t] = frame'[t]
    BY <1>5, <1>6
  <2> QED BY <1>4, <1>9, <2>1 DEF ListInv, SlabKept
<1>15. ASSUME NEW t \in Who, t # running PROVE Searching(mem', frame[t], t)
  <2>1. CASE t = Handler
    <3>1. frame[t].pc = "idle"
      BY <1>1, <1>15, <2>1, OthersOut DEF Who
    <3> QED BY <3>1 DEF Searching
  <2>2. CASE t = Program
    <3> DEFINE f == frame[Program]
    <3>1. Searching(mem, f, Program) /\ running = Handler
      BY <1>1, <1>15, <2>2, OthersOut DEF ListInv, Searches
    <3> HIDE DEF f
    <3>2. ASSUME f.pc \notin {"idle", "unlock"}, ForFunction(f)
          PROVE  Passed(Same(mem', f.self), f.fn, Program)
      <4>1. f.self \in Functions /\ Passed(Same(mem, f.self), f.fn, Program)
        BY <3>1, <3>2 DEF Searching
      <4> QED BY <1>11, <4>1
    <3>3. ASSUME f.pc \notin {"idle", "unlock"}, ForArc(f)
          PROVE  Passed(CopiesIn(mem', f.fn, f.from), f.arc, Program)
      <4>1. /\ f.fn \in FnsIn(mem) /\ f.from \in Callers
            /\ Passed(CopiesIn(mem, f.fn, f.from), f.arc, Program)
        BY <3>1, <3>3 DEF Searching, ForArc
      <4> QED BY <1>11, <4>1
    <3>4. ASSUME NEW y \in DOMAIN mem \ FnsIn(mem)
          PROVE  /\ mem'[y].from = mem[y].from /\ mem'[y].count \in Nat
                 /\ mem[y].count <= mem'[y].count
      <4>1. CASE y = x
        BY <1>2, <1>3, <1>7, <1>8, <3>1, <4>1
      <4>2. CASE y # x
        <5>1. mem[y].count \in Nat /\ mem'[y] = mem[y]
          BY <1>2, <1>8, <4>2, Entries DEF ListsIn
        <5> QED BY <5>1
      <4> QED BY <4>1, <4>2
    <3>5. \A a \in FnsIn(mem) : mem'[a].self = mem[a].self /\ OwnIn(mem, a) \subseteq OwnIn(mem', a)
      BY <1>8, <1>10
    <3>6. Searching(mem', f, Program)
      BY <1>2, <1>8, <3>1, <3>2, <3>3, <3>4, <3>5, SearchKept
    <3> QED BY <2>2, <3>6 DEF f
  <2> QED BY <2>1, <2>2 DEF Who
<1>16. Searches'
  <2>1. Searching(mem', Idle, running)
    BY <1>5 DEF Searching
  <2> QED BY <1>1, <1>4, <1>6, <1>15, <2>1 DEF Searches
<1>17. ASSUME NEW f \in Functions, NEW c \in Callers
       PROVE  SumOf(mem', ArcsOf(mem', f, c)) =
                  SumOf(mem, ArcsOf(mem, f, c)) +
                      IF f = Me.self /\ c = Me.from THEN v - mem[x].count ELSE 0
  BY <1>2, <1>7, <1>8, <1>9, CountCounts
<1>18. /\ called' \in [Who -> [Arcs -> Nat]]
       /\ \A t \in Who, f \in Functions, c \in Callers :
              called'[t][<<f, c>>] = called[t][<<f, c>>] +
                  IF t = running /\ f = Me.self /\ c = Me.from THEN 1 ELSE 0
  BY <1>1, <1>2, <1>4, FinishedOne
<1>19. ASSUME NEW f \in Functions, NEW c \in Callers
       PROVE  Within(mem', frame'[Program], called'[Program], called'[Handler], f, c)
  <2> DEFINE p == called[Program][<<f, c>>]
             h == called[Handler][<<f, c>>]
             k == Stale(mem, frame[Program], f, c)
             l == Stale(mem', frame'[Program], f, c)
             u == SumOf(mem, ArcsOf(mem, f, c))
             w == SumOf(mem', ArcsOf(mem', f, c))
             n == mem[x].count
             here == f = Me.self /\ c = Me.from
  <2>1. p + k <= u /\ u <= p + h
    BY DEF ListInv, Counts, Within
  <2>2. p \in Nat /\ h \in Nat
    BY <1>1 DEF ListInv, Counts, Arcs
  <2>3. u \in Nat /\ k \in Int
    BY <1>1, ArcsCountable, StaleInt DEF ListInv
  <2>4. n \in Nat /\ Me.val \in Nat /\ Me.val <= n
    BY <1>2, <1>3
  <2>5. CASE running = Program
    <3>1. l = 0
      BY <1>5, <1>6, <2>5 DEF Stale
    <3>2. k = IF here THEN n - Me.val ELSE 0
      BY <1>1, <2>5 DEF Stale, Me, x
    <3>3. CASE here
      <4>1. called'[Program][<<f, c>>] = p + 1 /\ called'[Handler][<<f, c>>] = h + 0
        BY <1>1, <1>18, <2>5, <3>3
      <4>2. w = u + (Me.val + 1 - n) /\ k = n - Me.val
        <5>1. w = u + (v - n) /\ k = n - Me.val
          BY <1>17, <3>2, <3>3
        <5> HIDE DEF k, u, w, n
        <5> QED BY <1>7, <2>3, <2>4, <5>1
      <4> HIDE DEF p, h, k, l, u, w, n
      <4>3. (p + 1) + l <= w /\ w <= (p + 1) + (h + 0)
        BY <2>1, <2>2, <2>3, <2>4, <3>1, <4>2
      <4> QED BY <4>1, <4>3 DEF Within, l, w
    <3>4. CASE ~here
      <4>1. called'[Program][<<f, c>>] = p + 0 /\ called'[Handler][<<f, c>>] = h + 0
        BY <1>1, <1>18, <2>5, <3>4
      <4>2. w = u + 0 /\ k = 0
        BY <1>17, <3>2, <3>4
      <4> HIDE DEF p, h, k, l, u, w, n
      <4>3. (p + 0) + l <= w /\ w <= (p + 0) + (h + 0)
        BY <2>1, <2>2, <2>3, <3>1, <4>2
      <4> QED BY <4>1, <4>3 DEF Within, l, w
    <3> QED BY <3>3, <3>4
  <2>6. CASE running = Handler
    <3> DEFINE i == IF here THEN 1 ELSE 0
               q == frame[Program]
    <3>1. v - n = 1
      BY <1>2, <1>7, <2>4, <2>6
    <3>2. w = u + i
      BY <1>17, <3>1
    <3>3. called'[Program][<<f, c>>] = p + 0 /\ called'[Handler][<<f, c>>] = h + i
      BY <1>1, <1>18, <2>6
    <3>4. frame'[Program] = q /\ Searching(mem, q, Program)
      BY <1>1, <1>6, <2>6 DEF ListInv, Searches
    <3>5. l \in Int /\ l <= k + i
      <4>1. CASE q.pc = "count" /\ q.self = f /\ q.from = c
        <5>1. /\ q.fn \in FnsIn(mem) /\ mem[q.fn].self = f /\ q.arc \in OwnIn(mem, q.fn)
              /\ mem[q.arc].from = c /\ q.val \in Nat
          BY <3>4, <4>1 DEF Searching
        <5>2. q.arc \in DOMAIN mem \ FnsIn(mem) /\ mem[q.arc].count \in Nat
          <6>1. q.arc \in DOMAIN mem \ FnsIn(mem)
            BY <1>10, <5>1
          <6> QED BY <1>2, <6>1, Entries DEF ListsIn
        <5>3. k = mem[q.arc].count - q.val /\ l = mem'[q.arc].count - q.val
          BY <3>4, <4>1 DEF Stale
        <5>4. CASE q.arc = x
          <6>1. q.fn = Me.fn
            BY <1>2, <5>1, <5>4 DEF ListsIn
          <6>2. here
            BY <1>2, <5>1, <5>4, <6>1
          <6>3. mem'[q.arc].count = v /\ i = 1 /\ mem[q.arc].count = n
            BY <1>8, <5>4, <6>2
          <6> HIDE DEF i, k, l, n, q
          <6> QED BY <1>7, <2>4, <3>1, <5>1, <5>3, <6>3
        <5>5. CASE q.arc # x
          <6>1. mem'[q.arc] = mem[q.arc] /\ i \in {0, 1}
            BY <1>8, <5>2, <5>5
          <6> HIDE DEF i, k, l, n, q
          <6> QED BY <5>1, <5>2, <5>3, <6>1
        <5> QED BY <5>4, <5>5
      <4>2. CASE ~(q.pc = "count" /\ q.self = f /\ q.from = c)
        BY <3>4, <4>2 DEF Stale
      <4> QED BY <4>1, <4>2
    <3>6. i \in {0, 1}
      OBVIOUS
    <3> HIDE DEF p, h, k, l, u, w, n, i
    <3>7. (p + 0) + l <= w /\ w <= (p + 0) + (h + i)
      BY <2>1, <2>2, <2>3, <3>2, <3>5, <3>6
    <3> QED BY <3>3, <3>7 DEF Within, l, w
  <2> QED BY <1>1, <2>5, <2>6 DEF Who
<1>20. Counts'
  BY <1>18, <1>19 DEF Counts
<1> QED BY <1>4, <1>8, <1>12, <1>13, <1>14, <1>16, <1>20 DEF ListInv

LEMMA TimerStep ==
  ASSUME ListInv, UNCHANGED <<lists, irqOn, running, frame, called>>
  PROVE  ListInv'
<1>1. UNCHANGED <<mem, heads, slab, heap, irqOn, running, frame, called>>
  BY DEF lists
<1> QED BY <1>1 DEF ListInv, Locks, SlabKept, Searches, Counts

LEMMA SamplerStep ==
  ASSUME SamplerTyped, [Next]_vars
  PROVE  SamplerTyped'
<1>1. needInit' \in BOOLEAN
  BY DEF SamplerTyped, Next, vars, sampler, Call, FindFunction, FindArc, Count, Record,
         Starting, Start, Lock, Take, LinkFunction, LinkArc, Unlock, Interrupt, Return,
         TimerStarts, Sample
<1>2. timerUp' \in BOOLEAN
  BY DEF SamplerTyped, Next, vars, sampler, Call, FindFunction, FindArc, Count, Record,
         Starting, Start, Lock, Take, LinkFunction, LinkArc, Unlock, Interrupt, Return,
         TimerStarts, Sample
<1>3. starts' \in Nat
  <2>1. starts' = starts \/ starts' = starts + 1
    BY DEF Next, vars, sampler, Call, FindFunction, FindArc, Count, Record,
           Starting, Start, Lock, Take, LinkFunction, LinkArc, Unlock, Interrupt, Return,
           TimerStarts, Sample
  <2> QED BY <2>1 DEF SamplerTyped
<1> QED BY <1>1, <1>2, <1>3 DEF SamplerTyped

\* No list, no frame, no count.
LEMMA InitLists == ASSUME ProfileAssumption, Init PROVE ListInv
<1>1. /\ mem = <<>> /\ heads = [b \in 0 .. Buckets - 1 |-> Nil]
      /\ frame = [t \in Who |-> Idle] /\ running = Program /\ irqOn = TRUE
      /\ slab = [ptr |-> Nil, left |-> 0] /\ heap = 1
      /\ called = [t \in Who |-> [a \in Arcs |-> 0]]
  BY DEF Init, Who
<1>2. DOMAIN mem = {}
  BY <1>1
<1>3. FnsIn(mem) = {} /\ (\A f : Same(mem, f) = {}) /\ \A b : InBucket(mem, b) = {}
  BY <1>2 DEF FnsIn, Same, InBucket
<1>4. ListsIn(mem, heads)
  <2>1. Typed(mem)
    BY <1>2, FS_EmptySet DEF Typed
  <2>2. heads \in [0 .. Buckets - 1 -> Nat]
    BY <1>1 DEF Nil
  <2>3. ASSUME NEW b \in 0 .. Buckets - 1 PROVE IsList(mem, heads[b], InBucket(mem, b))
    <3>1. heads[b] = Nil
      BY <1>1
    <3> QED BY <1>3, <3>1, ListEmpty
  <2> QED BY <1>2, <1>3, <2>1, <2>2, <2>3 DEF ListsIn
<1>5. BoundedIn(mem)
  <2>1. Two({})
    BY DEF Two
  <2> QED BY <1>3, <2>1 DEF BoundedIn
<1>6. Idle \in Frame /\ Idle.pc = "idle"
  BY DEF Idle, Frame, Pcs, Nil
<1>7. Program \in Who /\ Handler \in Who /\ Program # Handler
  BY DEF Who, ProfileAssumption
<1>8. \A t \in Who : frame[t] = Idle
  BY <1>1
<1>9. Locks
  BY <1>1, <1>6, <1>7, <1>8 DEF Locks, Locking
<1>10. SlabKept
  BY <1>1, <1>2, <1>6, <1>8 DEF SlabKept, ProfileAssumption, Nil
<1>11. Searches
  BY <1>1, <1>6, <1>8 DEF Searches, Searching
<1>12. Counts
  <2>1. called \in [Who -> [Arcs -> Nat]]
    BY <1>1
  <2>2. ASSUME NEW g \in Functions, NEW c \in Callers
        PROVE  Within(mem, frame[Program], called[Program], called[Handler], g, c)
    <3>1. <<g, c>> \in Arcs
      BY DEF Arcs
    <3>2. called[Program][<<g, c>>] = 0 /\ called[Handler][<<g, c>>] = 0
      BY <1>1, <1>7, <3>1
    <3>3. Stale(mem, frame[Program], g, c) = 0
      BY <1>6, <1>7, <1>8 DEF Stale
    <3>4. SumOf(mem, ArcsOf(mem, g, c)) = 0
      <4>1. ArcsOf(mem, g, c) = {}
        BY <1>2 DEF ArcsOf
      <4> QED BY <4>1, SumOfNone
    <3> QED BY <3>2, <3>3, <3>4 DEF Within
  <2> QED BY <2>1, <2>2 DEF Counts
<1> QED BY <1>4, <1>5, <1>9, <1>10, <1>11, <1>12 DEF ListInv

LEMMA ListsStep ==
  ASSUME ProfileAssumption, ListInv, [Next]_vars
  PROVE  ListInv'
<1>1. ASSUME NEW f \in Functions, NEW c \in Callers, Call(f, c) PROVE ListInv'
  BY <1>1, CallStep
<1>2. CASE FindFunction
  BY <1>2, FindFunctionStep
<1>3. CASE FindArc
  BY <1>3, FindArcStep
<1>4. CASE Count
  BY <1>4, CountStep
<1>5. ASSUME NEW p \in {"starting", "start", "lock"}, Goto([Me EXCEPT !.pc = p]),
             Me.pc \in {"record", "starting", "start"},
             UNCHANGED <<lists, irqOn, running, called>>
      PROVE  ListInv'
  BY <1>5, RecordStep
<1>6. CASE Record
  <2>1. CASE needInit
    BY <1>5, <1>6, <2>1 DEF Record
  <2>2. CASE ~needInit
    BY <1>5, <1>6, <2>2 DEF Record
  <2> QED BY <2>1, <2>2
<1>7. CASE Starting
  BY <1>5, <1>7 DEF Starting
<1>8. CASE Start
  BY <1>5, <1>8 DEF Start
<1>9. CASE Lock
  BY <1>9, LockStep
<1>10. CASE Take
  BY <1>10, TakeStep
<1>11. CASE LinkFunction
  BY <1>11, LinkFunctionStep
<1>12. CASE LinkArc
  BY <1>12, LinkArcStep
<1>13. CASE Unlock
  BY <1>13, UnlockStep
<1>14. CASE Interrupt
  BY <1>14, InterruptStep
<1>15. CASE Return
  BY <1>15, ReturnStep
<1>16. CASE UNCHANGED <<lists, irqOn, running, frame, called>>
  BY <1>16, TimerStep
<1>17. CASE TimerStarts
  BY <1>16, <1>17 DEF TimerStarts
<1>18. ASSUME NEW pc \in 0 .. TextBytes - 1, Sample(pc) PROVE ListInv'
  BY <1>16, <1>18 DEF Sample
<1>19. CASE UNCHANGED vars
  BY <1>16, <1>19 DEF vars, lists
<1>20. CASE \E f \in Functions, c \in Callers : Call(f, c)
  BY <1>1, <1>20
<1>21. CASE \E pc \in 0 .. TextBytes - 1 : Sample(pc)
  BY <1>18, <1>21
<1>22. CASE Next
  BY <1>2, <1>3, <1>4, <1>6, <1>7, <1>8, <1>9, <1>10, <1>11, <1>12, <1>13,
     <1>14, <1>15, <1>17, <1>20, <1>21, <1>22, SMT DEF Next
<1> QED BY <1>19, <1>22

\* The bucket of the last byte of the text, and of any.
LEMMA BucketOf ==
  ASSUME ProfileAssumption, NEW pc \in 0 .. TextBytes - 1
  PROVE  pc \div BucketBytes \in 0 .. (TextBytes - 1) \div BucketBytes
  BY SMT DEF ProfileAssumption

LEMMA LastBucket ==
  ASSUME ProfileAssumption, TextBytes % BucketBytes = 0
  PROVE  (TextBytes - 1) \div BucketBytes = (TextBytes \div BucketBytes) - 1
  BY SMT DEF ProfileAssumption

-----------------------------------------------------------------------------
(* What the invariant says of Profile's own terms.                         *)

LEMMA LinkedAll ==
  ASSUME ProfileAssumption, ListInv
  PROVE  Linked = FnsIn(mem) /\ \A e : Chain(mem[e].arcs) = OwnIn(mem, e)
<1>1. ListsIn(mem, heads)
  BY DEF ListInv
<1>2. DOMAIN heads = 0 .. Buckets - 1
  BY <1>1 DEF ListsIn
<1>3. ASSUME NEW b \in 0 .. Buckets - 1 PROVE Chain(heads[b]) = InBucket(mem, b)
  <2>1. /\ IsList(mem, heads[b], InBucket(mem, b)) /\ InBucket(mem, b) \subseteq DOMAIN mem
        /\ DOMAIN mem \subseteq Nat \ {0} /\ IsFiniteSet(DOMAIN mem)
    BY <1>1 DEF ListsIn, Typed, InBucket, FnsIn
  <2>2. ChainIn(mem, heads[b]) = InBucket(mem, b)
    BY <2>1, ChainIs
  <2> QED BY <2>2, ChainNow
<1>4. ASSUME NEW e \in FnsIn(mem)
      PROVE  Bucket(mem[e].self) \in 0 .. Buckets - 1 /\ e \in InBucket(mem, Bucket(mem[e].self))
  <2>1. mem[e].self \in Functions
    BY <1>1, Entries DEF ListsIn
  <2> QED BY <2>1, Buckets0 DEF InBucket
<1>5. Linked = FnsIn(mem)
  <2>1. ASSUME NEW e \in Linked PROVE e \in FnsIn(mem)
    <3>1. PICK b \in DOMAIN heads : e \in Chain(heads[b])
      BY <2>1 DEF Linked
    <3> QED BY <1>2, <1>3, <3>1 DEF InBucket
  <2>2. ASSUME NEW e \in FnsIn(mem) PROVE e \in Linked
    BY <1>2, <1>3, <1>4, <2>2 DEF Linked
  <2> QED BY <2>1, <2>2
<1>6. \A e : Chain(mem[e].arcs) = OwnIn(mem, e)
  BY ChainNow DEF OwnIn
<1> QED BY <1>5, <1>6

LEMMA InvTypes == ASSUME ProfileAssumption, ProfileInv PROVE TypeOK
<1>1. ListsIn(mem, heads) /\ SlabKept /\ Locks
  BY DEF ProfileInv, ListInv
<1>2. DOMAIN mem \subseteq 1 .. heap - 1
  BY <1>1 DEF ListsIn, Typed, SlabKept
<1>3. ASSUME NEW b \in DOMAIN heads PROVE heads[b] \in DOMAIN mem \cup {Nil}
  <2>1. b \in 0 .. Buckets - 1
    BY <1>1, <1>3 DEF ListsIn
  <2>2. IsFirst(heads[b], InBucket(mem, b))
    BY <1>1, <2>1 DEF ListsIn, IsList
  <2> QED BY <2>2 DEF IsFirst, InBucket, FnsIn
<1>4. slab.left \in 0 .. SlabEntries /\ slab.ptr + slab.left <= heap
  BY <1>1 DEF SlabKept
<1>5. irqOn \in BOOLEAN /\ running \in {Program, Handler}
  BY <1>1 DEF Locks, Who
<1> QED BY <1>2, <1>3, <1>4, <1>5 DEF TypeOK, ProfileInv, SamplerTyped

LEMMA InvNothingDropped == ASSUME ProfileAssumption, ListInv PROVE NothingDropped
<1> DEFINE fns == {e \in DOMAIN mem : "self" \in DOMAIN mem[e]}
<1>1. fns = FnsIn(mem)
  BY DEF FnsIn
<1>2. Linked = fns /\ \A e : Chain(mem[e].arcs) = OwnIn(mem, e)
  BY <1>1, LinkedAll
<1>3. ListsIn(mem, heads)
  BY DEF ListInv
<1> HIDE DEF fns
<1>4. UNION {Chain(mem[e].arcs) : e \in fns} = DOMAIN mem \ fns
  <2>1. ASSUME NEW x \in UNION {Chain(mem[e].arcs) : e \in fns} PROVE x \in DOMAIN mem \ fns
    BY <1>1, <1>2, <1>3, <2>1 DEF ListsIn
  <2>2. ASSUME NEW x \in DOMAIN mem \ fns PROVE x \in UNION {Chain(mem[e].arcs) : e \in fns}
    <3>1. PICK e \in fns : x \in OwnIn(mem, e)
      BY <1>1, <1>3, <2>2 DEF ListsIn
    <3> QED BY <1>2, <3>1
  <2> QED BY <2>1, <2>2
<1>5. \A d \in fns, e \in fns : d # e => Chain(mem[d].arcs) \cap Chain(mem[e].arcs) = {}
  BY <1>1, <1>2, <1>3 DEF ListsIn
<1> QED BY <1>2, <1>4, <1>5, Zenon DEF NothingDropped, fns

LEMMA InvCopiesBounded == ASSUME ProfileAssumption, ListInv PROVE CopiesBounded
<1>1. Linked = FnsIn(mem) /\ \A e : Chain(mem[e].arcs) = OwnIn(mem, e)
  BY LinkedAll
<1>2. BoundedIn(mem)
  BY DEF ListInv
<1>3. ASSUME NEW e \in Linked, NEW c \in Callers
      PROVE  Cardinality({x \in Chain(mem[e].arcs) : mem[x].from = c}) <= 2
  <2>1. {x \in Chain(mem[e].arcs) : mem[x].from = c} = CopiesIn(mem, e, c)
    BY <1>1 DEF CopiesIn
  <2>2. Two(CopiesIn(mem, e, c))
    BY <1>1, <1>2 DEF BoundedIn
  <2> QED BY <2>1, <2>2, TwoAtMost
<1>4. ASSUME NEW f \in Functions PROVE Cardinality({e \in Linked : mem[e].self = f}) <= 2
  <2>1. {e \in Linked : mem[e].self = f} = Same(mem, f)
    BY <1>1 DEF Same
  <2>2. Two(Same(mem, f))
    BY <1>2 DEF BoundedIn
  <2> QED BY <2>1, <2>2, TwoAtMost
<1> QED BY <1>3, <1>4 DEF CopiesBounded

LEMMA InvProgramCounted == ASSUME ProfileAssumption, ListInv PROVE ProgramCounted
<1>1. Linked = FnsIn(mem) /\ \A e : Chain(mem[e].arcs) = OwnIn(mem, e)
  BY LinkedAll
<1>2. ListsIn(mem, heads)
  BY DEF ListInv
<1>3. ASSUME NEW g \in Functions, NEW c \in Callers
      PROVE  Total(<<g, c>>) \in called[Program][<<g, c>>] ..
                                 called[Program][<<g, c>>] + called[Handler][<<g, c>>]
  <2> DEFINE p == called[Program][<<g, c>>]
             h == called[Handler][<<g, c>>]
             k == Stale(mem, frame[Program], g, c)
             u == SumOf(mem, ArcsOf(mem, g, c))
  <2>1. Copies(<<g, c>>) = ArcsOf(mem, g, c)
    <3>1. Copies(<<g, c>>) =
             {x \in UNION {Chain(mem[e].arcs) : e \in {e \in Linked : mem[e].self = g}} :
                 mem[x].from = c}
      BY Zenon DEF Copies
    <3>2. ASSUME NEW x \in Copies(<<g, c>>) PROVE x \in ArcsOf(mem, g, c)
      <4>1. PICK e \in FnsIn(mem) : mem[e].self = g /\ x \in OwnIn(mem, e) /\ mem[x].from = c
        BY <1>1, <3>1, <3>2
      <4> QED BY <1>2, <4>1 DEF ArcsOf, Same, CopiesIn, ListsIn
    <3>3. ASSUME NEW x \in ArcsOf(mem, g, c) PROVE x \in Copies(<<g, c>>)
      <4>1. PICK e \in FnsIn(mem) : mem[e].self = g /\ x \in OwnIn(mem, e) /\ mem[x].from = c
        BY <3>3 DEF ArcsOf, Same, CopiesIn
      <4> QED BY <1>1, <3>1, <4>1
    <3> QED BY <3>2, <3>3
  <2>2. Total(<<g, c>>) = u
    <3>1. Total(<<g, c>>) = SumOf(mem, Copies(<<g, c>>))
      BY Zenon DEF Total, SumOf
    <3> QED BY <2>1, <3>1
  <2>3. p + k <= u /\ u <= p + h
    BY DEF ListInv, Counts, Within
  <2>4. Program \in Who /\ Handler \in Who
    BY DEF Who
  <2>5. p \in Nat /\ h \in Nat
    BY <2>4 DEF ListInv, Counts, Arcs
  <2>6. u \in Nat /\ k \in Int
    BY <1>2, <2>4, ArcsCountable, StaleInt
  <2>7. k >= 0
    <3>1. CASE ~(frame[Program].pc = "count" /\ frame[Program].self = g /\ frame[Program].from = c)
      BY <3>1 DEF Stale
    <3>2. CASE frame[Program].pc = "count" /\ frame[Program].self = g /\ frame[Program].from = c
      <4> DEFINE f == frame[Program]
      <4>1. f.fn \in FnsIn(mem) /\ f.arc \in OwnIn(mem, f.fn) /\ f.val \in Nat
            /\ f.val <= mem[f.arc].count
        BY <2>4, <3>2 DEF ListInv, Searches, Searching
      <4>2. mem[f.arc].count \in Nat
        <5>1. f.arc \in DOMAIN mem \ FnsIn(mem)
          BY <1>2, <4>1 DEF ListsIn
        <5> QED BY <1>2, <5>1, Entries DEF ListsIn
      <4>3. k = mem[f.arc].count - f.val
        BY <3>2 DEF Stale
      <4> HIDE DEF f, k
      <4> QED BY <4>1, <4>2, <4>3
    <3> QED BY <3>1, <3>2
  <2> HIDE DEF p, h, k, u
  <2>8. u \in p .. p + h
    BY <2>3, <2>5, <2>6, <2>7
  <2> QED BY <2>2, <2>8 DEF p, h
<1> QED BY <1>3 DEF ProgramCounted, Arcs

-----------------------------------------------------------------------------
(* The theorems.                                                           *)

\* Whatever interrupts mcount and wherever, an entry that was written is on
\* its list and on no other, a function has at most two entries and each at
\* most two copies of an arc, and no call of the program is lost from the
\* counts or counted twice: for any functions, callers, buckets and slabs.
THEOREM ListsHold ==
  ASSUME ProfileAssumption
  PROVE  Spec => [](TypeOK /\ NothingDropped /\ CopiesBounded /\ ProgramCounted)
<1>1. Init => ProfileInv
  <2>1. Init => SamplerTyped
    <3>1. Init => needInit \in BOOLEAN /\ timerUp \in BOOLEAN /\ starts = 0
      BY Zenon DEF Init
    <3> QED BY <3>1 DEF SamplerTyped
  <2> QED BY <2>1, InitLists DEF ProfileInv
<1>2. ProfileInv /\ [Next]_vars => ProfileInv'
  BY ListsStep, SamplerStep DEF ProfileInv
<1>3. ProfileInv => TypeOK /\ NothingDropped /\ CopiesBounded /\ ProgramCounted
  BY InvTypes, InvNothingDropped, InvCopiesBounded, InvProgramCounted DEF ProfileInv
<1> QED BY <1>1, <1>2, <1>3, PTL DEF Spec

SampledInv == /\ DOMAIN samples = Histogram
              /\ \A i \in Histogram : samples[i] \in Nat

\* A sample of the program counter is counted in the histogram, when the
\* buckets fill the text.
THEOREM SamplesHold ==
  ASSUME ProfileAssumption, TextBytes % BucketBytes = 0
  PROVE  Spec => []SampledInHistogram
<1>1. 0 .. (TextBytes - 1) \div BucketBytes = Histogram
  BY LastBucket DEF Histogram
<1>2. Init => SampledInv
  <2>1. Init => samples = [i \in 0 .. (TextBytes - 1) \div BucketBytes |-> 0]
    BY DEF Init
  <2>2. Init => samples = [i \in Histogram |-> 0]
    BY <1>1, <2>1
  <2> QED BY <2>2 DEF SampledInv
<1>3. ASSUME SampledInv, [Next]_vars PROVE SampledInv'
  <2>1. CASE UNCHANGED samples
    BY <1>3, <2>1 DEF SampledInv
  <2>2. CASE Start
    BY <1>3, <2>2 DEF Start, SampledInv
  <2>3. ASSUME NEW pc \in 0 .. TextBytes - 1, Sample(pc) PROVE SampledInv'
    <3> DEFINE b == SampleBucket(pc)
               n == 1 + (IF b \in DOMAIN samples THEN samples[b] ELSE 0)
    <3>1. b \in Histogram
      BY <1>1, BucketOf DEF SampleBucket
    <3>2. n \in Nat
      BY <1>3, <3>1 DEF SampledInv
    <3>3. samples' = Put(samples, b, n)
      BY <2>3 DEF Sample
    <3> HIDE DEF b, n
    <3> QED BY <1>3, <3>1, <3>2, <3>3 DEF SampledInv, Put
  <2>4. Next => \/ UNCHANGED samples \/ Start
                \/ \E pc \in 0 .. TextBytes - 1 : Sample(pc)
    BY DEF Next, sampler, Call, FindFunction, FindArc, Count, Record, Starting, Lock, Take,
           LinkFunction, LinkArc, Unlock, Interrupt, Return, TimerStarts
  <2>5. UNCHANGED vars => UNCHANGED samples
    BY DEF vars
  <2> QED BY <1>3, <2>1, <2>2, <2>3, <2>4, <2>5
<1>4. SampledInv => SampledInHistogram
  BY DEF SampledInv, SampledInHistogram
<1> QED BY <1>2, <1>3, <1>4, PTL DEF Spec
=============================================================================
