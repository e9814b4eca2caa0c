------------------------------ MODULE MCStores ------------------------------
(***************************************************************************)
(* What the support package keeps and hands out, and the two workloads of  *)
(* the fault injection, checked for ten parts that share no state: the     *)
(* descriptor table, the calls on descriptors, the names of devices, the   *)
(* heap (twice: for sizes that are whole words, where nothing may go       *)
(* wrong, and for others), the caches, the performance counter, the log's  *)
(* printf, the router and the queue.  One part runs in each behaviour and  *)
(* the others keep an initial state, so that the parts' states add up and  *)
(* do not multiply.                                                        *)
(***************************************************************************)
EXTENDS Integers, Sequences

CONSTANTS \* the descriptor table: Thread is two threads, which are interchangeable
          Device, FileSystem, DevNull, None, FdCount, Thread, Asked, Arg, Used,
          \* the calls on descriptors
          Refused, Amounts, Functions, Ticks,
          \* the names of devices; MaxNames in all
          Letters, Slash, Nul, NameLen, MaxDevices, MaxChannels, MaxNames,
          \* the heap, with sizes of whole words and with any sizes
          Start, Limit, HeapWord, WordGrow, WordShrink, AnyGrow, AnyShrink,
          NoLimit, ExceptionLimit, MaxBlocks,
          \* the caches
          MemLines, LineBytes, DSets, ISets, Lengths, NoBlock, MaxStores,
          \* the performance counter
          HalfWord, MaxClocks,
          \* the log's printf
          WordBits, PrintWords, FormatChars, FormatLen, StringLen, BufferLen,
          \* the router
          NetNodes, NetCosts, WaitCost, NetRuns, PathLen,
          \* the queue
          QueueLen, EntryValues, QueueKeys, QueueItems, QueuePairs

VARIABLES part,
          fdList, maxFd, redirects, call, held,
          has, errno, answered, ended,
          devices, fileSystems, channels, asked, found,
          heapEnd, sp, stackLimit, oldLimit, reported, blocks,
          written, mem, dcache, icache, stores, block, loading,
          time, starts, enabled, clocks, reading, section, lo, shown,
          fmt, word, pos, state, spec, out,
          up, cost, phase, run, node, total, path,
          data, first, last, size, pairs, left, answer

\* Two slots beside the standard streams; the program works on one of these.
Files == INSTANCE FileTable

\* A driver like each of the JTAG UART's two, and one of files.
Calls == INSTANCE SystemCalls WITH last <- answered

\* Names of three characters, enough for a mount point, a slash and a letter.
Names == INSTANCE DeviceNames WITH
           Null <- Nul, MaxLen <- NameLen, NotFound <- <<>>,
           NotAsked <- [kind |-> "not asked", name |-> <<>>]

\* Sizes of whole words, where exceptions use the stack of the program, and any
\* sizes, where they have one of their own.
HeapParts == {"heap of words", "heap"}
GrowOf(kind) == IF kind = "heap of words" THEN WordGrow ELSE AnyGrow
ShrinkOf(kind) == IF kind = "heap of words" THEN WordShrink ELSE AnyShrink
OwnStack(kind) == kind # "heap of words"
Heaps(kind) == INSTANCE Heap WITH
                 Word <- HeapWord, Grow <- GrowOf(kind), Shrink <- ShrinkOf(kind),
                 ExceptionStack <- OwnStack(kind)

\* More lines of memory than either cache has, and regions of less than a line
\* and of more than the cache.
Caches == INSTANCE Cache WITH pc <- loading

\* Clocks enough for a report in which both halves of a time change.
Counter == INSTANCE PerfCounter WITH Word <- HalfWord, pc <- reading

\* A word of a byte, with the edges of its digits and of its sign.
Printf == INSTANCE LogPrintf WITH
            Bits <- WordBits, Words <- PrintWords, Chars <- FormatChars,
            MaxLen <- FormatLen, TextLen <- StringLen, PutBufSize <- BufferLen

\* Costs in either order, so that the greedy choice varies.
Router == INSTANCE Dtn WITH
            pc <- phase, Nodes <- NetNodes, Costs <- NetCosts,
            SameLevelCost <- WaitCost, Runs <- NetRuns, MaxPath <- PathLen
TwoCosts == {[i \in 0 .. NetNodes - 1 |-> 1 + i],
             [i \in 0 .. NetNodes - 1 |-> NetNodes - i]}

Queue == INSTANCE PairQueue WITH
           QueueSize <- QueueLen, Half <- EntryValues, Keys <- QueueKeys, Items <- QueueItems,
           MaxPairs <- QueuePairs

ASSUME StoresAssumption ==
    /\ Files!FileAssumption /\ Calls!CallsAssumption /\ Functions # {}
    /\ \A kind \in HeapParts : Heaps(kind)!HeapAssumption
    /\ \A n \in GrowOf("heap of words") \cup ShrinkOf("heap of words") : n % HeapWord = 0
    /\ Caches!CacheAssumption /\ Counter!PerfAssumption
    /\ Names!NamesAssumption /\ Letters # {} /\ NameLen > 0

ASSUME OthersAssumption ==
    /\ Printf!LogPrintfAssumption /\ 0 \in PrintWords
    /\ Router!DtnAssumption /\ NetCosts # {} /\ Queue!QueueAssumption

fileVars == <<fdList, maxFd, redirects, call, held>>
callVars == <<has, errno, answered, ended>>
nameVars == <<devices, fileSystems, channels, asked, found>>
heapVars == <<heapEnd, sp, stackLimit, oldLimit, reported, blocks>>
cacheVars == <<written, mem, dcache, icache, stores, block, loading>>
counterVars == <<time, starts, enabled, clocks, reading, section, lo, shown>>
printfVars == <<fmt, word, pos, state, spec, out>>
routerVars == <<up, cost, phase, run, node, total, path>>
queueVars == <<data, first, last, size, pairs, left, answer>>
MCVars == <<part, fileVars, callVars, nameVars, heapVars, cacheVars, counterVars,
            printfVars, routerVars, queueVars>>

Parts == HeapParts \cup {"files", "calls", "names", "caches", "counter", "printf",
                         "router", "queue"}

\* A step of part p leaves the others alone.
Keeps(q) == CASE q = "files" -> UNCHANGED fileVars
              [] q = "calls" -> UNCHANGED callVars
              [] q = "names" -> UNCHANGED nameVars
              [] q \in HeapParts -> UNCHANGED heapVars
              [] q = "caches" -> UNCHANGED cacheVars
              [] q = "counter" -> UNCHANGED counterVars
              [] q = "printf" -> UNCHANGED printfVars
              [] q = "router" -> UNCHANGED routerVars
              [] q = "queue" -> UNCHANGED queueVars

By(p, step) == /\ part = p /\ step /\ UNCHANGED part
               /\ \A q \in Parts \ (IF p \in HeapParts THEN HeapParts ELSE {p}) : Keeps(q)

\* Parts with a choice of initial states take any only when they run.
MCInit ==
    /\ part \in Parts
    /\ part = "calls" \/ (part # "calls" /\ has = CHOOSE f \in Functions : TRUE)
    /\ part = "names" \/ (part # "names" /\ devices = <<<<CHOOSE c \in Letters : TRUE>>>>)
    /\ part = "printf" \/ (part # "printf" /\ fmt = <<>> /\ word = 0)
    /\ \/ part = "router"
       \/ /\ part # "router"
          /\ cost = [n \in Router!Inner \cup {Router!Sender} |-> CHOOSE c \in NetCosts : TRUE]
    /\ Files!Init /\ Calls!Init /\ Names!Init /\ Heaps("heap")!Init
    /\ Caches!Init /\ Counter!Init /\ Printf!Init /\ Router!Init /\ Queue!Init

\* A channel counts for two names, and leaves the first device alone with it
\* where there may be three.
FewNames ==
    LET others == Len(channels'["receive"]) + Len(channels'["transmit"]) + Len(channels'["flash"])
    IN  Len(devices') + Len(fileSystems') + 2 * others <= MaxNames

MCNext == \/ By("files", Files!Next) \/ By("calls", Calls!Next)
          \/ By("names", Names!Next /\ FewNames)
          \/ \E kind \in HeapParts : By(kind, Heaps(kind)!Next)
          \/ By("caches", Caches!Next) \/ By("counter", Counter!Next)
          \/ By("printf", Printf!Next) \/ By("router", Router!Next)
          \/ By("queue", Queue!Next)

MCSpec == MCInit /\ [][MCNext]_MCVars

Symmetry == Files!Symmetry

-----------------------------------------------------------------------------
\* Type invariant of the ten parts.
TypeOK ==
    CASE part = "files" -> Files!TypeOK
      [] part = "calls" -> Calls!TypeOK
      [] part = "names" -> Names!TypeOK
      [] part \in HeapParts -> Heaps("heap")!TypeOK
      [] part = "caches" -> Caches!TypeOK
      [] part = "counter" -> Counter!TypeOK
      [] part = "printf" -> Printf!TypeOK
      [] part = "router" -> Router!TypeOK
      [] part = "queue" -> Queue!TypeOK

\* However threads interleave and whichever step of an open fails, no slot of
\* the descriptor table is lost or given twice, the mark covers every slot in
\* use, and a descriptor keeps the access that it was opened with; open finds
\* what the name belongs to, and fails while the device is locked.
FilesKept ==
    /\ [](part = "files" => Files!HighWater /\ Files!NoneLost /\ Files!AccessKept)
    /\ Files!LockedOut /\ Names!DeviceByItsName /\ Names!FileByItsDirectory

\* Memory is kept apart: blocks of the heap from each other, and the heap from
\* the stack when sizes are whole words; stores reach the cache or memory, and
\* no uncached block is ever in the cache.
MemoryKept ==
    /\ \A kind \in HeapParts : part = kind => Heaps(kind)!BlocksApart
    /\ part = "heap of words" => /\ Heaps("heap of words")!NoOverlap
                                 /\ Heaps("heap of words")!NoFalseAlarm
    /\ part = "caches" => Caches!NoStoreLost /\ Caches!UncachedStaysOut

\* What is flushed is in memory and gone from the cache, however the region
\* lies on the lines, and after alt_load the caches are in step.
CachesAgree ==
    [][part = "caches" => Caches!RegionFlushed]_MCVars /\ Caches!InSynch

\* What is reported is what is there: the counter's times although they are
\* read by halves with a handler in between, the arguments of printf, and what
\* a call on a descriptor did, alike in either build and with errno.
ReportsRight ==
    /\ [](part = "calls" => Calls!BuildsAgree /\ Calls!FailureTold)
    /\ Counter!ReadsWhole /\ []Counter!WithinWhole
    /\ Printf!PrintsItsArgument /\ [](part = "printf" => Printf!PrintsAlike)

\* The workloads compute what they are to: a route is the greedy one through
\* the levels and its cost the sum of its hops, and a queue keeps its pairs in
\* order and together.  Nothing checks the ends of the arrays: a route passes
\* that of its path only if it waited, and a queue that of its data only if it
\* lost a pair, and up to there neither is wrong.
WorkloadsCorrect ==
    /\ [](part = "router" => /\ Router!StartsInFirstLevel
                             /\ Router!NeverBackwards /\ Router!CostOfPath
                             /\ Router!OverrunsOnlyWaiting)
    /\ Router!ForwardFirst
    /\ [](part = "queue" => /\ Queue!InOrder /\ Queue!FindsItem
                            /\ Queue!OverrunsAfterDequeue)
=============================================================================
