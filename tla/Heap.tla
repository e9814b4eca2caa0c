-------------------------------- MODULE Heap --------------------------------
(***************************************************************************)
(* sbrk: the heap grows up from the end of the data towards the stack.     *)
(* Blocks start on a word boundary.  With stack checking, the stack limit  *)
(* is the end of the heap for as long as the program is on its first       *)
(* stack, and is how heap and stack are kept apart.  sbrk runs with the    *)
(* interrupts off and is one step.                                         *)
(***************************************************************************)
EXTENDS Integers, Sequences

CONSTANTS Start, Limit,  \* __alt_heap_start and __alt_heap_limit
          Word,          \* bytes in a word
          Grow, Shrink,  \* what sbrk is called with, and minus what
          ExceptionStack,  \* exceptions run on a stack of their own
          NoLimit,         \* a null limit, and
          ExceptionLimit,  \* that of the exceptions' stack
          MaxBlocks        \* bound: blocks given out

HeapAssumption ==
    /\ Word \in Nat \ {0} /\ Start \in Nat /\ Limit \in Nat /\ Start < Limit
    /\ ExceptionStack \in BOOLEAN /\ Start % Word = 0 /\ Limit % Word = 0
    /\ NoLimit \notin Nat /\ ExceptionLimit \notin Nat
    /\ Grow \subseteq Nat /\ Shrink \subseteq Nat /\ MaxBlocks \in Nat

VARIABLES heapEnd, sp,
          stackLimit, oldLimit,  \* alt_exception_old_stack_limit
          reported,  \* alt_report_stack_overflow was called; it does not return
          blocks     \* the blocks given out and not given back

vars == <<heapEnd, sp, stackLimit, oldLimit, reported, blocks>>

Init == /\ heapEnd = Start /\ sp = Limit
        /\ stackLimit = Start /\ oldLimit = NoLimit
        /\ reported = FALSE /\ blocks = <<>>

AlignedNever(a) == a
Aligned(a) == ((a + Word - 1) \div Word) * Word

\* A call that gives memory back shortens or removes the last blocks.
MinOf(a, b) == IF a < b THEN a ELSE b
Kept(bs, end) ==
    LET n == CHOOSE i \in 0 .. Len(bs) :
               /\ \A j \in 1 .. i : bs[j].base < end
               /\ \A j \in i + 1 .. Len(bs) : bs[j].base >= end
    IN  [j \in 1 .. n |-> [bs[j] EXCEPT !.end = MinOf(@, end)]]

\* A heap as large as the limit allows; a program gives back only its own.
Fits(end) == end <= Limit /\ end >= Start

OverflowNotSeen(end) == FALSE
OverflowSeenEarly(end) == sp <= end + Word
OverflowSeen(end) == sp <= end

\* A limit that points at the end of the heap moves with it.
Moved(limit, from, to) == IF limit = from THEN to ELSE limit

Sbrk(n) ==
    LET prev == Aligned(heapEnd)
        end  == prev + n
    IN  /\ ~reported
        /\ Fits(end)
        /\ n > 0 => Len(blocks) < MaxBlocks
        /\ heapEnd' = end
        /\ blocks' = IF n > 0 THEN Append(blocks, [base |-> prev, end |-> end])
                              ELSE Kept(blocks, end)
        /\ reported' = \/ stackLimit = prev /\ OverflowSeen(end)
                       \/ oldLimit = prev /\ oldLimit <= end
        /\ stackLimit' = Moved(stackLimit, prev, end)
        /\ oldLimit' = Moved(oldLimit, prev, end)
        /\ UNCHANGED sp

\* A call refused has still rounded the end of the heap up.
SbrkRefused(n) ==
    /\ ~reported
    /\ Aligned(heapEnd) + n > Limit
    /\ heapEnd' = Aligned(heapEnd)
    /\ UNCHANGED <<sp, stackLimit, oldLimit, reported, blocks>>

\* Functions are called and return; code compiled for stack checking compares
\* the stack pointer with the limit.
UseStack(to) ==
    /\ ~reported /\ oldLimit = NoLimit
    /\ sp' = to /\ reported' = (to < stackLimit)
    /\ UNCHANGED <<heapEnd, stackLimit, oldLimit, blocks>>

\* An exception changes to its own stack and stack limit, and back.
Enter ==
    /\ ExceptionStack /\ ~reported /\ oldLimit = NoLimit
    /\ oldLimit' = stackLimit /\ stackLimit' = ExceptionLimit
    /\ UNCHANGED <<heapEnd, sp, reported, blocks>>

Leave ==
    /\ ~reported /\ oldLimit # NoLimit
    /\ stackLimit' = oldLimit /\ oldLimit' = NoLimit
    /\ UNCHANGED <<heapEnd, sp, reported, blocks>>

Next == \/ Enter \/ Leave
        \/ \E n \in Grow : Sbrk(n) \/ SbrkRefused(n)
        \/ \E n \in Shrink : Sbrk(-n)
        \/ \E to \in Start .. Limit : to % Word = 0 /\ UseStack(to)

Spec == Init /\ [][Next]_vars

-----------------------------------------------------------------------------
\* Type invariant.
TypeOK ==
    /\ heapEnd \in Start .. Limit /\ sp \in Start .. Limit
    /\ stackLimit \in (Start .. Limit) \cup {ExceptionLimit}
    /\ oldLimit \in (Start .. Limit) \cup {NoLimit}
    /\ reported \in BOOLEAN

\* Blocks start on a word, follow one another without overlap and lie below
\* the end of the heap, whatever sizes were asked for and given back.
BlocksApart ==
    \A i \in 1 .. Len(blocks) :
        /\ blocks[i].base % Word = 0 /\ blocks[i].base >= Start
        /\ blocks[i].base < blocks[i].end /\ blocks[i].end <= heapEnd
        /\ i > 1 => blocks[i - 1].end <= blocks[i].base

\* "adjust the stack limit to note this, while checking for stack pointer
\* overflow": the heap never grows over the stack, nor the stack over the
\* heap, without a report.
NoOverlap == ~reported => heapEnd <= sp

\* "If we are executing from the exception stack then compare against the
\* stack we switched away from as well": an overflow is reported only when
\* that stack has reached the heap.
NoFalseAlarm == reported => sp <= heapEnd
=============================================================================
