--------------------------------- MODULE Cache ---------------------------------
(***************************************************************************)
(* The data and instruction caches and the functions that keep them in     *)
(* step with memory: flushing and discarding a region, memory that is not  *)
(* cached, and alt_load, which copies the sections of a program started    *)
(* from flash.  The caches are those of the processor, direct-mapped and   *)
(* known here by the instructions that the functions use.  What a line     *)
(* holds is the number of the store that last changed it.                  *)
(***************************************************************************)
EXTENDS Integers, FiniteSets

CONSTANTS MemLines, LineBytes,  \* memory
          DSets, ISets,         \* lines of each cache
          Lengths,              \* of the regions flushed and discarded
          NoBlock, MaxStores    \* bound: stores

CacheAssumption ==
    /\ {MemLines, LineBytes, DSets, ISets} \subseteq Nat \ {0}
    /\ Lengths \subseteq Nat /\ MaxStores \in Nat /\ NoBlock \notin Nat \X Nat

VARIABLES written,         \* what the program last stored in a line
          mem, dcache, icache,  \* of lines; the caches of those they hold
          stores,
          block,           \* a block of uncached memory: first byte and size
          pc               \* of alt_load

vars == <<written, mem, dcache, icache, stores, block, pc>>

Lines == 0 .. MemLines - 1
Bytes == 0 .. MemLines * LineBytes - 1
LineOf(b) == b \div LineBytes
LinesOf(bytes) == {LineOf(b) : b \in bytes}
Region(start, len) == {b \in Bytes : start <= b /\ b < start + len}
Empty == [l \in {} |-> 0]
Drop(cache, ls) == [l \in DOMAIN cache \ ls |-> cache[l]]
WrittenBackNone(ls) == mem
WrittenBack(ls) == [l \in Lines |-> IF l \in ls \cap DOMAIN dcache THEN dcache[l] ELSE mem[l]]

Init == /\ written = [l \in Lines |-> 0] /\ mem = written
        /\ dcache = Empty /\ icache = Empty
        /\ stores = 0 /\ block = NoBlock /\ pc = "copy"

\* Filling a line evicts the one in its place.
Evicted(l) == {k \in DOMAIN dcache : k # l /\ k % DSets = l % DSets}
Fill(l, v) ==
    LET out == Evicted(l)
    IN  /\ mem' = WrittenBack(out)
        /\ dcache' = [k \in (DOMAIN dcache \ out) \cup {l} |->
                          IF k = l THEN v ELSE dcache[k]]

\* The block as the allocator sees it.
RoundedNot(size) == size
Rounded(size) == ((size + LineBytes - 1) \div LineBytes) * LineBytes
Taken == IF block = NoBlock THEN {} ELSE Region(block[1], Rounded(block[2]))

Store(b) ==
    /\ stores < MaxStores /\ b \notin Taken
    /\ stores' = stores + 1
    /\ written' = [written EXCEPT ![LineOf(b)] = stores + 1]
    /\ Fill(LineOf(b), stores + 1)
    /\ UNCHANGED <<icache, block, pc>>

StoreUncached ==
    /\ stores < MaxStores /\ block # NoBlock
    /\ stores' = stores + 1
    /\ written' = [written EXCEPT ![LineOf(block[1])] = stores + 1]
    /\ mem' = [mem EXCEPT ![LineOf(block[1])] = stores + 1]
    /\ UNCHANGED <<dcache, icache, block, pc>>

Fetch(l) ==
    /\ icache' = [k \in {k \in DOMAIN icache : k % ISets # l % ISets} \cup {l} |->
                      IF k = l THEN mem[l] ELSE icache[k]]
    /\ UNCHANGED <<written, mem, dcache, stores, block, pc>>

-----------------------------------------------------------------------------
\* The addresses i of the loops: every line's width from start on, and one
\* more when start is not at the beginning of a line.
VisitedShort(start, len) ==
    {start + k * LineBytes : k \in {k \in 0 .. len : k * LineBytes < len}}
Visited(start, len) ==
    LET n == (len + LineBytes - 1) \div LineBytes
    IN  {start + k * LineBytes : k \in 0 .. n - 1}
        \cup (IF start % LineBytes = 0 THEN {} ELSE {start + n * LineBytes})

\* flushda and initda are about the line that holds an address.
Flush(start, len) ==
    LET ls == LinesOf(Visited(start, len))
    IN  /\ UNCHANGED <<written, icache, stores, block, pc>>
        /\ mem' = WrittenBack(ls) /\ dcache' = Drop(dcache, ls)

\* A program that discards what it stored finds what is in memory.
Discard(start, len) ==
    LET ls == LinesOf(Visited(start, len))
    IN  /\ UNCHANGED <<mem, icache, stores, block, pc>>
        /\ dcache' = Drop(dcache, ls)
        /\ written' = [l \in Lines |-> IF l \in ls THEN mem[l] ELSE written[l]]

\* flushi is about the place in the cache.
ClampedEarly(len) == IF len > (ISets - 1) * LineBytes THEN (ISets - 1) * LineBytes ELSE len
Clamped(len) == IF len > ISets * LineBytes THEN ISets * LineBytes ELSE len
InstructionsOut(start, len) ==
    {l \in Lines : \E k \in LinesOf(Visited(start, Clamped(len))) : l % ISets = k % ISets}

FlushInstructions(start, len) ==
    /\ UNCHANGED <<written, mem, dcache, stores, block, pc>>
    /\ icache' = Drop(icache, InstructionsOut(start, len))

\* alt_uncached_malloc: memalign gives any lines that are free.
UncachedMalloc(line, size) ==
    /\ block = NoBlock /\ Rounded(size) <= (MemLines - line) * LineBytes
    /\ block' = <<line * LineBytes, size>>
    /\ LET ls == LinesOf(Visited(line * LineBytes, Rounded(size)))
       IN  mem' = WrittenBack(ls) /\ dcache' = Drop(dcache, ls)
    /\ UNCHANGED <<written, icache, stores, pc>>

\* alt_remap_cached: the same memory, cached from now on.
RemapCached ==
    /\ block # NoBlock /\ block' = NoBlock
    /\ UNCHANGED <<written, mem, dcache, icache, stores, pc>>

\* alt_uncached_free gives the memory back, which is used cached after it.
UncachedFree == RemapCached

\* alt_load, once the sections are copied: alt_dcache_flush_all and
\* alt_icache_flush_all.
FlushAllData ==
    /\ pc = "copy" /\ pc' = "flushed"
    /\ mem' = WrittenBack(Lines) /\ dcache' = Empty
    /\ UNCHANGED <<written, icache, stores, block>>

FlushAllInstructions ==
    /\ pc = "flushed" /\ pc' = "loaded"
    /\ icache' = Drop(icache, InstructionsOut(0, ISets * LineBytes))
    /\ UNCHANGED <<written, mem, dcache, stores, block>>

Regions == {r \in Bytes \X Lengths : r[1] + r[2] <= MemLines * LineBytes}

Next == \/ \E b \in Bytes : Store(b)
        \/ StoreUncached
        \/ \E l \in Lines : Fetch(l)
        \/ \E r \in Regions : \/ Flush(r[1], r[2]) \/ Discard(r[1], r[2])
                             \/ FlushInstructions(r[1], r[2])
        \/ \E l \in Lines, size \in 1 .. LineBytes + 1 : UncachedMalloc(l, size)
        \/ UncachedFree \/ RemapCached \/ FlushAllData \/ FlushAllInstructions

Spec == Init /\ [][Next]_vars

-----------------------------------------------------------------------------
\* Type invariant; a cache holds one line in a place.
TypeOK ==
    /\ mem \in [Lines -> 0 .. MaxStores] /\ written \in [Lines -> 0 .. MaxStores]
    /\ DOMAIN dcache \subseteq Lines /\ DOMAIN icache \subseteq Lines
    /\ \A k \in DOMAIN dcache, l \in DOMAIN dcache : k % DSets = l % DSets => k = l
    /\ block = NoBlock \/ LinesOf(Taken) \subseteq Lines

\* Nothing stored is lost: it is in the cache or in memory.
NoStoreLost ==
    \A l \in Lines : written[l] = IF l \in DOMAIN dcache THEN dcache[l] ELSE mem[l]

\* "Any dirty lines in the data cache are written back to memory", for a
\* region however it lies on the lines; and no instruction of it stays.
RegionFlushed ==
    \A r \in Regions :
        LET region == LinesOf(Region(r[1], r[2]))
        IN  /\ Flush(r[1], r[2]) =>
                   \A l \in region : mem'[l] = written[l] /\ l \notin DOMAIN dcache'
            /\ FlushInstructions(r[1], r[2]) => region \cap DOMAIN icache' = {}

\* "Required to guarantee that cacheable and non-cacheable data won't be mixed
\* on the same cache line": no line of an uncached block is ever cached,
\* whatever is stored around it.
UncachedStaysOut ==
    block # NoBlock =>
        LinesOf(Region(block[1], block[2])) \cap DOMAIN dcache = {}

\* "Now ensure that the caches are in synch": once the sections are copied, the
\* data and the instruction caches agree with what was copied.
InSynch == [][FlushAllInstructions => icache' = Empty]_vars
=============================================================================
