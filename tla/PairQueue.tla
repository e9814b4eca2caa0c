------------------------------- MODULE PairQueue -------------------------------
(***************************************************************************)
(* The queue of the test programs' library, which its users fill with      *)
(* pairs, a key and an item.  A window moves over an array and never back: *)
(* its size is checked and its end is not, and what is enqueued behind the *)
(* array falls on the queue's own fields.  The model stops there: what a   *)
(* program does with overwritten fields is not modelled.                   *)
(***************************************************************************)
EXTENDS Integers, SequencesExt

CONSTANTS QueueSize,    \* MAX_QUEUE_SIZE, a multiple of two
          Half,         \* values of an entry, of which a field is two: 2^32
          Keys, Items,  \* what is enqueued
          MaxPairs      \* bound: pairs enqueued

QueueAssumption ==
    /\ QueueSize \in Nat \ {0} /\ QueueSize % 2 = 0 /\ Half \in Nat \ {0}
    /\ Keys \cup Items \subseteq 0 .. Half - 1 /\ MaxPairs \in Nat

VARIABLES data,            \* the array, from index 0 on
          first, last, size, \* unsigned: a last of -1 is above every index
          pairs,           \* pairs enqueued
          left,            \* those not dequeued, in the order of the queue
          answer           \* the last find: the item and its index

vars == <<data, first, last, size, pairs, left, answer>>

Missing == -1
NoAnswer == [item |-> Missing, index |-> Missing]

Init == /\ data = [i \in {} |-> 0]
        /\ first = 0 /\ last = -1 /\ size = 0
        /\ pairs = 0 /\ left = <<>> /\ answer = NoAnswer

Full == size = QueueSize
Fresh == last = -1
Overrun == last >= QueueSize

\* Two calls of enqueue; a queue that is full ignores them.  Behind the array
\* lies first, the low half before the high one.
Put(d, i, v) == [j \in DOMAIN d \cup {i} |-> IF j = i THEN v ELSE d[j]]
EnqueuePair(k, v) ==
    /\ pairs < MaxPairs /\ ~Full
    /\ IF last + 2 < QueueSize
       THEN data' = Put(Put(data, last + 1, k), last + 2, v) /\ UNCHANGED first
       ELSE first' = k + Half * v /\ UNCHANGED data
    /\ last' = last + 2 /\ size' = size + 2
    /\ left' = Append(left, <<k, v>>) /\ pairs' = pairs + 1
    /\ answer' = NoAnswer

EnqueueIgnored ==
    /\ pairs < MaxPairs /\ Full
    /\ pairs' = pairs + 1
    /\ UNCHANGED <<data, first, last, size, left, answer>>

Advanced(f) == f + 2
DequeuePair ==
    /\ size >= 2
    /\ first' = Advanced(first) /\ size' = size - 2
    /\ left' = Tail(left) /\ answer' = NoAnswer
    /\ UNCHANGED <<data, last, pairs>>

\* sort: a pass for each pair, over the keys from first on.
SwappedKey(d, j) == [d EXCEPT ![j] = d[j + 2], ![j + 2] = d[j]]
Swapped(d, j) == [d EXCEPT ![j] = d[j + 2], ![j + 1] = d[j + 3],
                           ![j + 2] = d[j], ![j + 3] = d[j + 1]]
Passes == [i \in 1 .. size \div 2 |-> i]
Steps == [i \in 1 .. (last - first) \div 2 |-> first + 2 * (i - 1)]
OnePass(d) == FoldLeft(LAMBDA e, j : IF e[j + 2] < e[j] THEN Swapped(e, j) ELSE e, d, Steps)

\* A sequence of pairs sorted by key; pairs of the same key keep their order.
Sorted(s) ==
    LET order == CHOOSE p \in [DOMAIN s -> DOMAIN s] :
                     \A i \in DOMAIN s, j \in DOMAIN s : i < j =>
                         \/ s[p[i]][1] < s[p[j]][1]
                         \/ s[p[i]][1] = s[p[j]][1] /\ p[i] < p[j]
    IN  [i \in DOMAIN s |-> s[order[i]]]

Sort ==
    /\ data' = FoldLeft(LAMBDA d, i : OnePass(d), data, Passes)
    /\ left' = Sorted(left)
    /\ answer' = NoAnswer
    /\ UNCHANGED <<first, last, size, pairs>>

\* find: the last pair is not looked at; what it returns is the key's index.
\* In a fresh queue every index is below last: find goes on through memory that
\* was never written and returns an index of it, if it returns.
Strays == {2 * i : i \in 0 .. QueueSize}  \* bound: strays beyond the fields
LookedAtKeys == {i \in first .. last - 1 : (i - first) % 2 = 0}
LookedAt == {i \in first + 1 .. last - 1 : (i - first) % 2 = 1}
Find(item) ==
    LET hits == {i \in LookedAt : data[i] = item}
    IN  /\ \E i \in IF Fresh THEN Strays
                  ELSE IF hits = {} THEN {Missing} ELSE {Min(hits) - 1} :
               answer' = [item |-> item, index |-> i]
        /\ UNCHANGED <<data, first, last, size, pairs, left>>

Next == /\ ~Overrun
        /\ \/ \E k \in Keys, v \in Items : EnqueuePair(k, v)
           \/ EnqueueIgnored \/ DequeuePair \/ Sort
           \/ \E v \in Items : Find(v)

Spec == Init /\ [][Next]_vars

-----------------------------------------------------------------------------
Window == [i \in 1 .. size \div 2 |-> <<data[first + 2 * i - 2], data[first + 2 * i - 1]>>]

\* Type invariant; the size is that of the window, until first is overwritten.
\* The window passes the end of the array by one pair at most.
TypeOK ==
    /\ last \in -1 .. QueueSize + 1 /\ size \in 0 .. QueueSize
    /\ IF Overrun THEN DOMAIN data = 0 .. QueueSize - 1 /\ first \in Nat
       ELSE DOMAIN data = 0 .. last /\ first \in 0 .. QueueSize /\ size = last + 1 - first

\* What is in the window is what was enqueued and not dequeued, in order, for
\* as long as the array holds it: a key keeps its item when the keys are
\* sorted, and its place among its like.
InOrder == ~Overrun => Window = left

\* The check of the size protects what lies behind the array only until the
\* first pair is dequeued: it is overwritten by a queue that is not full, that
\* lost a pair before, and by none other.
OverrunsAfterDequeue == Overrun => 2 * Len(left) < last + 1

\* An index that find returns is that of a key whose item was asked for, in
\* the window; it misses only an item of the last pair.  A fresh queue has
\* nothing to look at and find looks all the same.
FindsItem ==
    answer.item # Missing /\ ~Fresh =>
        IF answer.index # Missing
        THEN answer.index >= first /\ answer.index < last /\ (answer.index - first) % 2 = 0
             /\ data[answer.index + 1] = answer.item
        ELSE \A i \in 1 .. Len(Window) - 1 : Window[i][2] # answer.item
=============================================================================
