# PassiFloRisc-V: a verification development

TLA+ models of the PassiFloRisc-V soft core, of the fault-injection equipment
built around it and of the coprocessor's board support package, with TLC
configurations and machine-checked proofs. Paths below are relative to the
repository; `hw_io_bsp/` is `de0_nano/nios/software/hw_io_bsp/`.

## 1. The system

The repository holds a single-cycle RV64I+Zicsr core in SystemVerilog
(`components/`), a DE0-Nano project that places it beside a Nios II coprocessor
(`de0_nano/`), the C program the coprocessor runs to flip one bit of one
register at one clock cycle (`de0_nano/nios/software/hw_io/inject.c`), the
support package that program is linked with (`hw_io_bsp/`), the Python campaign
around it (`fault-injection.py`), and test programs with the script that patches
them for the core (`software/`).

The Nios II and the core share one clock. The Nios II sees the core through six
parallel I/O registers: control (6 bits), address (15), data low and high (32
each, in and out) and flags (2). That port is the only interface between them.
`inject.c` reports to a terminal on the host through a JTAG UART.

**Configurations of the support package.** `hw_io_bsp/public.mk` builds it with
`ALT_USE_SMALL_DRIVERS`, `ALT_USE_DIRECT_DRIVERS` and `ALT_NO_EXIT`: one thread,
no system clock, the polled UART driver, no descriptor table. The interrupt-driven
driver, descriptors, alarms, the legacy interrupt interface, log, profiler, caches
and timestamp are the same sources compiled with other options. They are modelled
as those options build them; the module headers say which build they describe.

### 1.1 Inventory

The core and its equipment:

| Component | State | Operations | Interacts by | What makes it correct |
|---|---|---|---|---|
| Controller and decoders (`maindec.sv`, `exceptDecode.sv`, `except_e.sv`, `branching.sv`) | none | decode, raise, encode the cause, decide a branch | wires into every other component | one control word per instruction; an idle word under a stall |
| Trap unit (`core_status.sv`, `except_controller.sv`) | mode, mstatus{MPP,MPIE,MIE}, mcause, mepc, mtvec | reset, take a trap, mret, CSR write, hold | exception lines in, trap and return targets to fetch | a trap is recorded whole, kept through its handler, and undone by its mret |
| Datapath (`core.sv`, `datapath.sv`, `fetch.sv`, `decode.sv`, `regfile.sv`, `csr_dec.sv`) | pc, 32 registers, the cycle counter | execute one instruction per clock edge | stall and port lines from the coprocessor | an instruction executes whole or not at all, and is counted |
| Arithmetic unit (`alu.sv`, `atom_alu.sv`, `adder.sv`, `aludec.sv`, `execute.sv`) | none | arithmetic, comparison, shifts, 32-bit forms | datapath | agrees with the instruction set |
| Data memory (`datamemory.sv`, `memReadMask.sv`, `memWriteMask.sv`) | 4096 words, the latched output | read, write by byte lanes | datapath, port | a load returns the word last stored, if issued twice |
| Debug port (`core.sv`, `decode.sv`, `wideXOR.sv`, Qsys I/O registers) | the four I/O registers, the stall flag, the break flag | reset, arm the stall, hold, flip, read, write | stalls the core; second writer of registers and RAM | stops the core where asked; changes only what it addresses; loses no break |
| Injection program (`inject.c`) | its program counter, the watchdog, the loop index, its output | load the delay, launch, await, flip, resume, await the end, report, dump | stores and loads of the I/O registers | one fault, once, where asked; a truthful report; an end |
| Campaign (`fault-injection.py`) | the open files, the duration of the fault-free run | program the FPGA, generate a run, download, parse | writes the macros of `inject.c` | each run uses its own macros |
| Load patcher (`parse_helpers.py`, `rv_binary_patcher.py`) | none | double every load, keep its base | assembly text | patched code sees a memory without latency |
| Start-up (`entry.s`) | memory, CSRs | set the stack, enable traps, call main, ebreak; record a trap | the core | each program ends in one ebreak with its result |
| Test programs (`dtn.c`, `queue.c`, `cmatmul.c`, `csum.c`) | arrays | route, enqueue, sort, find, multiply, sum | the core | a route is the greedy one; pairs stay together and in order; no array is passed but where the code has no check |
| SDRAM controller (`memControl.sv`) | state, five timers, the refresh count, two latches | initialise, refresh, activate | commented out of the board | the command order and delays of the device |
| Multiplier, forwarding, hazard (`mul/`, `pipeline_optimizations/`) | none | combinational | not instantiated | agree with their definitions |
| Board (`DE0_NANO.sv`) | the LED latch | latch stores to address 0 | core, coprocessor | — |

The support package:

| Component | State | Operations | Interacts by | What makes it correct |
|---|---|---|---|---|
| JTAG UART (generated device, `altera_avalon_jtag_uart_*.c`) | two FIFOs, enables, activity; two rings, their indices, the shadow of the enables, the timeout | write, read, ioctl, close; interrupt routine; alarm; the host's end | a program, an interrupt and a host share rings and FIFOs without a lock | a stream of bytes each way; no lost wake-up; no wait without a cause; calls end |
| Alarms (`alt_alarm_start.c`, `alt_tick.c`) | tick counter, linked list, times | start, stop, tick with a walk, callbacks that start and stop | timer interrupt | each runs when due; the list stays a ring |
| Time of day (`alt_gettod.c`, `alt_settod.c`) | the clock at reset | set, read | tick counter | reads what it was set to plus the time since |
| Timestamp (`altera_avalon_timer_ts.c`) | timer, snapshot | start, read in pieces | program and handler share the snapshot | the time of its snapshot |
| Busy sleep (`alt_busy_sleep.c`) | a register | count down in one or several loops | — | as long as asked, but for what the division drops |
| Interrupts and exceptions (`alt_irq_*.c`, `alt_exception_entry.S`, `alt_instruction_exception_*.c`) | enables, priority mask, handler table, the stack of activations | register, enable, disable, critical sections, dispatch, handlers that let others in, skip or repeat an instruction | devices, every other part | nest by priority outside critical sections; own context; the program resumes |
| Boot (`alt_main.c`, `alt_sys_init.c`, driver inits, `alt_exit.c`) | where it is, enables, devices | initialise drivers in order, construct, main, close, exit in three builds, verdict | devices that may be asking since before the reset | a handler for every interrupt that can come |
| Descriptors (`alt_open.c`, `alt_get_fd.c`, `alt_fd_lock.c`, `alt_fcntl.c`, ...) | table, high-water mark | redirect, open, close, lock, unlock, fcntl | threads, a semaphore | no slot lost or doubled; access kept; locks respected |
| System calls (`alt_read.c`, `alt_ioctl.c`, ...) | errno | each call, in the table and the direct build | driver functions | both builds answer alike; a failure is told |
| Device names (`alt_find_dev.c`, `alt_find_file.c`, `alt_dma_*chan_open.c`, `alt_flash_dev.c`) | five lists | register, look up | open | the name finds what it belongs to |
| Heap (`alt_sbrk.c`) | end of heap, stack limit | grow, shrink, from either stack | interrupts off | blocks apart from each other and the stack |
| Caches (`alt_dcache_*.c`, `alt_icache_*.c`, `alt_uncached_*.c`, `alt_load.c`) | two caches, memory | flush, discard, uncached blocks, remap, load | program stores | nothing lost, flushed is in memory |
| Profiler (`alt_mcount.S`, `alt_gmon.c`) | lists of functions and arcs, histogram | count an arc, sample | interrupts call it too | a call counted once |
| Log (`alt_log_printf.c`, `alt_printf.c`, `alt_putcharbuf.c`) | level, port, buffer | format, write a character, messages of boot, clock, echo, UART | program and tick share the port | arguments printed; a handler's message whole |
| Performance counter (generated device, `altera_avalon_performance_counter.c`) | two 64-bit times and counts | reset, go, halt, begin, end, read | handlers mark sections | a time read is one that was there |

### 1.2 What is hard here

* **Two masters.** The core executes on every edge; the coprocessor stores on
  some of them, at a speed that depends on its instruction fetches, caches and
  printing. The stall condition is derived three times in the RTL.
* **Level-sensitive flips.** The XOR into the register file acts on every edge
  on which the flip bit and the mask are up, not once per store.
* **Latency.** The RAM latches its address; the dump loop and every compiled
  load make up for it in software.
* **Four enables for one trap.** mode/mstatus, mcause/mepc, mtvec and pc are
  updated by separate enables, under a stall that may fall on any instruction.
* **A race of two endings.** The break flag and the watchdog are polled together
  and tested apart.
* **What reset leaves alone.** The register file and the RAM have no reset, the
  controller is not stalled while reset is held, and a reset of the Nios II
  clears neither its devices nor the register of enabled interrupts.
* **Rings and lists without locks.** The UART's rings, the alarms' list, the
  profiler's lists and the log's port are shared with interrupt routines, and
  each relies on an order of a few loads and stores.
* **Copies that age.** The dispatch loop's pending word, the writer's free
  space, the walk's next alarm and fcntl's flags are used after what they were
  read from may have changed.
* **Several steps of which one fails.** open takes a slot, finds a device, looks
  for its lock and calls it; sbrk aligns, tests and moves a limit.

`PROJECT.json` lists each hazard at its line, with the properties that cover it.

## 2. Modules

```
Decode -- TrapUnit -- Core --+-- TrapHistory -- MCTrapHistory
   |                         +-- DebugPort ---- MCDebugPort
   |                         |      +---------- Injector -- MCInjector
   |                         +-- FaultModel - - - - ^  (abstract specification)
   |                         +-- PatchedLoads --+
   |                         +-- Startup -------+
   +-- Alu -------------------------------------+- MCUnits
PowerUp - - > MemControl -----------------------+
              TrapHistory, Injector -- CoreProofs --+
                                       MCUnits -----+- UnitProofs
              MCWords: word operations of the MC modules

JtagFifo --+-- JtagUart --------+- MCProgress  (with Interrupts, Alarms, LogPort)
           +-- JtagUartPolled --+
ByteStream - - ^  (abstract specification)
              MCProgress -- UartProofs
Interrupts Boot Alarms TimeOfDay Timestamp Profile LogPort BusySleep
              -- MCTicks -- TickProofs
FileTable SystemCalls DeviceNames Heap Cache PerfCounter LogPrintf Dtn PairQueue
              -- MCStores -- StoreProofs
```

`--` is EXTENDS or the composition of an MC module, `- - >` the refinement of an
abstract specification.

The core and its equipment:

| Module | Models | State | Actions |
|---|---|---|---|
| `Decode` | the decoders | — | operators: `Decoded`, `Control`, `ExceptSignal`, `ExceptCode`, `Taken` |
| `TrapUnit` | `core_status.sv`, `except_controller.sv` | `mode mpp mpie mie mcause mepc mtvec` | `StatusEdge`, `CauseEdge`, `TvecEdge`, `TrapReset`: one edge of each register |
| `Core` | the datapath and memories | adds `rom pc regs ram ramQ cycle` | `CoreEdge(rst, stall)`: one edge of everything |
| `TrapHistory` | the core under any reset and stall | adds the history variable `frame` | `HistEdge(rst, stall)` |
| `DebugPort` | the port and I/O registers | adds `ioControl ioAddr ioLow ioHigh stallFlag breakFlag` | `PortEdge` with one `Store…` or none |
| `Injector` | `inject.c` (and `hello_world_small.c`, its template) | adds `setup line idle watchdog word report dump` | one action per phase of `main`, one disjunct per I/O access |
| `FaultModel` | the abstract promise of a run | core state, `fault`, `stage` | `Boot Start Execute Flip Halt Inspect` |
| `Alu` | operation codes, unit, 32-bit forms, branch decision | `ins a b out` | `Execute`: one instruction on any operands |
| `PatchedLoads` | `instr_patch`, on the core and beside a machine without latency | adds `source ends plain` | `PatchedEdge` |
| `Startup` | `entry.s` around any short `main`, on the core | adds `main breaks raised` | `StartupEdge(stall)` |
| `MemControl` | `memControl.sv` | `currState timerInit timer counterRefresh modeRegSet op` | one action per arm of the state machine, and the reset |
| `PowerUp` | the abstract power-up protocol of an SDRAM | `command stage refs wait` | `Pass Precharge Refresh SetMode Use PowerOn` |
| `Dtn` | `dtn.c` | `up cost`, program counter, node, cost, path | `First`, `Forward`, `Wait`, `Arrive`; `Entered` writes the path |
| `PairQueue` | `queue.c` | the array, its window, the pairs left | `EnqueuePair`, `DequeuePair`, `Sort`, `Find` |

The support package:

| Module | Models | State | Actions |
|---|---|---|---|
| `JtagFifo` | the UART device and the host | two FIFOs, `ien ac pause connected` | `HostTake`, `HostSend`, `HostPoll`, `HostPlug`; registers as operators |
| `JtagUart` | the interrupt-driven driver | two rings, shadow, timeout, `pc`, `call` | `CallWrite … WriteTest`, `CallRead … ReadEnd`, `CallClose`, ioctl, `IsrPass`, `Timeout` (the alarm) |
| `JtagUartPolled` | the small driver | `pc left moved nonblock` | `WriteByte`, `ReadByte`, `ReadEmpty`, `Finish` |
| `ByteStream` | the abstract stream, one per direction | `pipe accepted delivered` | accept and deliver, many bytes at once |
| `Alarms` | `alt_alarm_start`, `alt_alarm_stop`, `alt_tick` | the links, times, the walk's cursor; `due` is history | `Start`, `Stop`, `Tick`, `Pass`, `Fire` (with what its callback does), `TickDone` |
| `TimeOfDay` | gettimeofday, settimeofday | ticks, rate, the time at reset | `SysclkInit`, `Tick`, `SetTimeOfDay` |
| `Timestamp` | the timestamp timer, of 32 and of 64 bits | count, snapshot, two readers | `Start`, `Tick`, `Snap`, `ReadPiece`, `Interrupt` |
| `BusySleep` | `alt_busy_sleep` | register, counts to go | `BigLoop`, `LastCount`, `Rest` |
| `Interrupts` | the entry, dispatch, registration, critical sections, instruction exceptions | enables, mask, table, requests, a stack of activations | one per step of the entry and of each call that can be cut |
| `Boot` | from `alt_main` to the verdict | where, drivers to do, enables, devices, exit code | `IrqInit`, a step of each driver's init, `Construct`, `CallMain`, `MainReturns`, `CloseOutput`, `Destroy`, `Exit`, `Ask`, `Interrupt` |
| `Profile` | mcount and the sampler | lists in memory, slab, two callers | `Call … Return`, one per load or store that an interrupt can separate |
| `LogPort` | the log's output at every level | port, what each has still to say | `Write`, `Test`, `Put`, `Tick`, `UartInterrupt`, `Drain`, … |
| `LogPrintf` | the log's printf, alt_printf and its semihosting buffer | format, position, state, output | `Literal`, `Percent`, `InSpec`, …: one per character |
| `FileTable` | the descriptor table | table, mark, what each thread is in | `Allocate`, `Checked`, `Opened`, `NotOpened`, `Close`, `FdLock`, `FdUnlock`, `FcntlReads`, `FcntlWrites`, `Redirect` |
| `SystemCalls` | the calls on descriptors in two builds | errno of each, the last call | `Call`, `Alone`, `Kill` |
| `DeviceNames` | lists of devices, file systems, channels, flash | the lists, the last open | `Register…`, `Open`, `OpenChannel` |
| `Heap` | sbrk | end, stack limits, blocks | `Sbrk`, `SbrkRefused`, `UseStack`, `Enter`, `Leave` |
| `Cache` | the cache routines and `alt_load`'s end | lines by number of the last store | `Flush`, `Discard`, `UncachedMalloc`, `UncachedFree`, `RemapCached`, … |
| `PerfCounter` | the counter and its driver | two times and counts; a reader | `Clock` with an access or none |

**A step of the core is a clock edge.** An edge reads the flip-flops before it
and sets all of them after it; combinational logic is a state function. In
`PortNext` and `InjNext` the coprocessor's store into an I/O register happens on
the same edge as the core's reaction to the old contents. The reset is
asynchronous (`posedge reset` in `flopre.sv`), so it acts on the edge that raises
its bit and still on the one that drops it.

**A step of the support package** is what runs between two accesses to
something an interrupt routine, a handler, another thread or the host also uses.
A call is cut at every such access and nowhere else; a region the code runs with
interrupts off, or holding the semaphore, is one step.

**Words.** A word is a number below `WordSize`; sums wrap. Bitwise operations and
byte lanes of the core are constants (`Xor`, `Or`, `AndNot`, `PickLanes`,
`MergeLanes`), of which the proofs assume that they map words to words, and those
about patched code what they do to the bytes of an access within a word.
`MCWords` gives them on words of `MCLanes` lanes (two of two bits, or eight of one
in `units`), following `wideXOR.sv`, `atom_alu.sv`, `memReadMask.sv` and
`memWriteMask.sv`; an operation on bits is one on sets of ones, there and in `Alu`. The positions
of the fields of mstatus are constants too, so that a 4-bit word can hold all
three. Register, RAM and ROM sizes are constants, and so are the contents the ROM
and the RAM may start with (`Programs`, `Images`). An immediate is a word, as
sign-extended. `Alu` has its own width, `Bits`. Counters of the support package
wrap at constants of their own.

**Instructions** are records with a mnemonic, two source registers, a
destination, an immediate and a CSR number. In the core one mnemonic stands for
each class the control logic tells apart; `Alu` has all of them.

**`inject.c`.** `line` is the source line of the next I/O access. Between two
accesses the core has any number of edges in `Gaps`. The two halves of a word are
read in one access; `ReadsAreStable` is what entitles the model to it, since it
says the core and the data register stand still at every read. A read returns
the input as it stands before the edge, the cycle the I/O register needs to
forward it being part of the next gap. `usleep` is a gap. That a call of
`alt_printf` ends is `CallsEndAndArrive`, of the polled driver.

**Bytes of a stream** carry their number modulo a constant larger than the
capacity, so that a lost, doubled or overtaken byte has the wrong number.

**History variables** (`frame`, `due`, `setTo`, `held`, `elapsed`, `called`, …) are
read by properties only.

## 3. Runs

| Run | Checks | Instance | States |
|---|---|---|---|
| `trap` | `HistTypeOK FrameKept ReturnsToTrap CauseWithTrap` | every 4-instruction program over CSR writes of mstatus, mtvec and mepc, ecall, illegal, a crossing store, mret; any stall and reset on every edge | 52,978 |
| `ecall` | `EcallNamesMode`: **violated** | the same | |
| `port` | `PortTypeOK CountedOrFrozen NeverOvershoots BreakKept` | two programs (a store and a loop; a masked then enabled ebreak, a crossing load), any store of seven control words, two addresses, a data value on every edge | 459,705 |
| `injector` | `InjTypeOK InjectedOnce ReadsAreStable DumpIsFresh ResultIsFinal`, `ImplementsFaultModel`, `RunEnds` | programs that end in a break, trap, and loop for ever; 4 faults, gaps of 1 and 2 edges, masks held for 1 or 3 | 280,878 |
| `evenhold` | `InjectedOnce`: **violated** | masks held for 1 or 2 edges | |
| `uart` | `UartTypeOK NoneStranded WaitIsJustified AreStreams` | both drivers, writes and reads of 0, 1 and 3 bytes, rings of 3 and FIFOs of 2, a host that types, stalls, goes and comes | 546,596 |
| `progress` | `CallsEndAndArrive ProgramResumes` | rings of 2, FIFOs of 1; two interrupts; two alarms; the log at its highest level | 59,332 |
| `ticks` | `TypeOK IsrsNest AlarmsOnTime TimesRead ArcsCounted LogWhole` | interrupt dispatch, boot, alarms, time of day, timestamp, profiling, log, busy sleep | 777,599 |
| `stores` | `TypeOK FilesKept MemoryKept CachesAgree ReportsRight WorkloadsCorrect` | descriptors, calls, names, two heaps, caches, performance counter, printf, router, queue | 1,084,557 |
| `units` | `UnitsTypeOK MeetsIsaBut LoadsSeeStores MemTypeOK EndsOnce FollowsPowerUp ComesUp` | every instruction on all 4-bit operands; every patched source of three instructions; every main of up to two; the SDRAM controller | 269,907 |
| `isa` | `MeetsIsa`: **violated** | every instruction on all 4-bit operands | |
| `file_lock` | `Exclusive`: **violated** | the descriptor table of `stores` | |

**Parts that share nothing.** `progress`, `ticks`, `stores` and `units` check several
components at once that have no state in common. A variable `part` is chosen at
the start; only that part takes steps, the others keep an initial state. The
reachable states are the sum of the parts', not their product, and nothing is
lost, since no part can influence another. A composite property is the
conjunction of the parts' own ones, named in the parts' modules (`IsrsNest` is
`Irqs!CalledWithOwnContext` and so on).

**Mutated forms.** Beside a definition a module may hold a second form of it with a
plausible mistake, which no specification uses: `EnableAllAlways` beside
`EnableAllAgain`, `FifoSpaceIgnored` beside `FifoSpace`. With it in the definition's
place the property named in `PROJECT.json` fails in the same run. For composite
properties there is one for every part.

What the runs of the core show:

* `FrameKept`, `ReturnsToTrap`, `CauseWithTrap`: the four enables of the trap
  registers act as one. Within a handler nothing but a rewrite of mstatus can
  disturb the saved state: not another exception, a CSR write of mepc (which the
  RTL ignores, its enable is commented out), a stall or mtvec.
* `CountedOrFrozen`, `NeverOvershoots`: the counter counts exactly the executed
  instructions, so "stop at cycle n" means "after n instructions", and the core
  stops there whatever else the coprocessor does.
* `BreakKept`: the end of a program reaches the slower coprocessor.
* `InjectedOnce`, `ReadsAreStable`, `DumpIsFresh`, `ResultIsFinal`: the report
  of a run is a truthful account of one fault. A result is reported only after an
  ebreak, including one seen on the last permitted poll.
* `ImplementsFaultModel`: between reset and the last edge, the core behaves as
  if nobody had touched it but for one XOR, between two instructions, after
  exactly `INJECT_DELAY` of them.
* `RunEnds`: the watchdog ends every run whose limit an `unsigned int` can
  exceed. The fault-free run's limit, `0xffffffff`, cannot be exceeded; the
  property excludes it by its antecedent.
* `MeetsIsaBut`: of all instructions and operands, exactly two kinds disagree with
  the instruction set, and they always do (see `isa` below).
* `LoadsSeeStores`: patched code computes what the source would on a memory
  without latency, wherever the core is stalled, loads of every width over their
  own base register included.
* `EndsOnce`: every program ends with one ebreak, with the result of main, or with
  the cause and place of its first exception in the RAM and -1 in a0.
* `FollowsPowerUp`, `ComesUp`: the SDRAM controller implements `PowerUp`, in
  which no command comes before the wait of the one before it is over, and it
  reaches the state that serves requests unless it is reset again and again. The
  next command comes one cycle later than the device needs it, since the timers
  are tested at zero.

What those of the support package show:

* `AreStreams`: either UART driver refines `ByteStream` in both directions
  (`TxIsAStream`, `RxIsAStream`): no byte is lost, doubled or overtaken, however
  call, interrupt routine, alarm and host interleave.
* `NoneStranded`, `WaitIsJustified`: bytes wait in a ring only while the interrupt
  that moves them is enabled or about to be; a caller waits only for an index
  that is as it read it, although indices wrap.
* `CallsEndAndArrive`, `ProgramResumes`: calls return and bytes arrive at a host
  that stays, dispatch and the walk of the alarms end, messages of the log end.
* `IsrsNest`: handlers nest by priority, outside every critical section, each
  called with its own context, for a request made at that moment; an instruction
  is skipped only if it raised the exception itself; from the first moment on
  there is a handler for what may interrupt (`HandlerFound`).
* `AlarmsOnTime`: no alarm is early, late or missed when the counter wraps, and the
  list stays a ring whatever callbacks do to it (but see `Careful`).
* `TimesRead`: the clock and timestamps tell the time that has passed, and a sleep takes
  the time asked but for the cycles of each microsecond that `ALT_CPU_FREQ /
  (cycles_per_loop * 1000000)` drops (`ShortByDropped`): 5 of 50 on this
  repository's core, so that every sleep is a tenth short there.
* `ArcsCounted`: each call of the program is counted once, with handlers calling
  mcount in between; lists lose nothing and hold at most two copies of an entry.
* `LogWhole`: a handler's message arrives whole, the program loses at most one
  character per tick, Ctrl-D is never sent, each level logs what it should.
* `FilesKept`: no slot of the descriptor table is lost or given twice, whichever
  step of an open fails; fcntl leaves the access alone; a locked device is
  refused; a name finds what it belongs to.
* `MemoryKept`, `CachesAgree`: heap blocks, stack and uncached blocks are apart, no
  store is lost, what is flushed is in memory.
* `ReportsRight`: times read by halves are times there were, printf prints its
  argument, and a call answers alike in either build, with errno.
* `WorkloadsCorrect`: the route is the greedy one and its cost the sum of its hops;
  the queue keeps pairs in order and together. Both hold up to the first write past
  the end of an array, which neither program checks, and which is a state of the
  model: a route passes its path only if it waited (`OverrunsOnlyWaiting`), and a
  queue passes its data only if a pair was dequeued and it is not full
  (`OverrunsAfterDequeue`). There the model stops.

**Bounds of the core's runs.** Two registers, because the datapath treats
register 0 and all others alike otherwise (eight in `units`, where programs use
them). One RAM word for the trap and port runs, where addresses do not matter,
two for the injector, where a stale read must show the wrong one, four in `units`.
Four ROM words: enough for enable, trap, handler and return, with the handler at
address 0 or 8. Four-bit words let the counter wrap within a run; in `units`
words are of eight lanes, as in the source, so that a doubleword is a word and an access
of a halfword can stay within it or leave it, and a lane is of one bit, which
is also its sign. Delays
0, 1, 2 and 3 put the injection on the first instruction, in the middle and past
the program's ebreak. `UintSize = 4` makes the watchdog's limits both reachable
and, for 3, unreachable. A gap of one edge is the fastest possible coprocessor
and a gap of two lets the core run between any two accesses, which is all that a
third would do again. A patched source has three instructions and loops for ever:
a store, a load and its use, in any order and with addresses that move. A `main`
has up to two: an exception as the first or after something. `Bits = 4` has every
case of signs, carries and shifts by nothing, some and half a word. The SDRAM
controller has no bound: the times are shortened (3, 2, 8 and 2 cycles for
`tInit`, `tRP`, `tRC`, `tMRD`), there are the eight refreshes of the source, a request
or none in every cycle, and a reset at any time.

**Bounds of the support package's runs.**

* `uart` and `progress` instantiate one module, with different `Parts`. In `uart`,
  `BufLen` 3 is two bytes in a ring, so that it can be empty, partly full,
  full and wrap; `FifoDepth` 2 likewise; calls of 0, 1 and 3 bytes fit, fill and
  exceed both. `Numbers` 6 exceeds what can be under way. `IntMax` 4 makes a timeout
  that is reached and one that is not. `Uses`: bytes in one direction without
  bound, or up to number `Few` in both; nothing in the driver depends on both.
  `progress` has rings and FIFOs one shorter.
* `Interrupts`: two lines, three requests, one fault, critical sections nested
  twice: enough for a nested handler, a lost request, and one during a fault's
  entry. `CallsInIsr` is FALSE; see *Readings* for TRUE.
* `Alarms`: three, so that a callback meets one on either side of its own; the
  counter wraps at 4, below the sum of the longest interval and period.
* `TimeOfDay`: seconds of 10 microseconds, rates that divide them, ticks whose
  product fits the word. `Timestamp`: pieces of one bit, two or four of them.
  `BusySleep`: every delay of a six-bit word, 50 cycles a microsecond and 9 a turn,
  which are this repository's (`system.h:79`, `:107`: a "tiny" core at 50 MHz;
  `alt_busy_sleep.c:66`).
* `Boot`: five orders of drivers, the generated one among them; at 50 Hz five
  timer periods, given in each unit the source converts; the three builds of exit.
* `Profile`: two functions in one bucket, one of them with two callers
  (`CallGraph`), two calls each of program and handler, a slab of three.
* `LogPort`: one write of up to three characters (two in `progress`, of up to two),
  a port of two, messages due on every tick.
* `FileTable`: three standard streams and two slots, two threads, which are
  interchangeable (`SYMMETRY`, in a run whose properties are safety properties
  that name no thread), two devices and a file system.
* `DeviceNames`: names of up to three characters and three names in all, or one
  channel beside a device (`MaxNames`).
* `Heap`: 20 bytes and four blocks; whole words, for which nothing may go wrong,
  and other sizes. `Cache`: three lines of memory and two of cache, regions of 1,
  2 and 5 bytes of lines of two, two stores. `PerfCounter`: halves of four, eleven
  clocks. `LogPrintf`: every format of four characters over ten, six words of a
  byte with the edges of digits and sign, a buffer of three.
* `Dtn`: two levels of two nodes between sender and receiver, costs in either order
  (`TwoCosts`), so that the greedy choice varies, a path of five entries and not of
  `PATH_MAX_SIZE`, which a route with two waits fills and one with a third passes.
  `PairQueue`: three keys, an array of three pairs, four pairs enqueued, of which the
  last is refused or, after a dequeue, passes the end; what find returns of a fresh queue is
  an index up to twice the array's length (`Strays`).

**Assumption on the hold.** `HoldGaps` in `injector` is odd: the two stores that
raise and clear a half of the mask are an odd number of edges apart. The code
does not ensure it; `evenhold` shows what an even number does. It is what the
equipment needs from the compiled program and the bus, and the README states it
because the source does not.

**Other assumptions, each a constant.** `Careful`: callbacks do not stop the alarm
after their own (`alt_tick.c:102` has already noted it). `Retracts` FALSE in
`progress`: a device that withdraws a request keeps the dispatch loop of
`alt_irq_handler.c:141` from what it waits for. `Used` in `stores`: the program works on
some descriptors only, none of them free.

**Fairness.** `FairInjSpec` adds `WF_injVars(InjNext)`: the clock does not stop.
No fairness between the Nios II and the core is assumed beyond the longest gap
of `Gaps`, which says that the Nios II's program goes on. `units` has
`WF_MCVars(MemStep(Clock))`, the SDRAM controller's clock, which a reset does not
count as a tick of, and `WF_MCVars(StartupStep(FALSE))`: the coprocessor does not
stall the core for ever. `progress` assumes that the processor goes on with what it
is in the middle of (weak fairness of a foreground step, of a pass of the
interrupt routine, of the alarm, of the entry's steps, of the walk, of the log's
next character) and that a host that is connected drains and polls; a host may
stay away for ever, and the properties say what then ends. Two fairness
assumptions are strong: a handler that lets others in does return, and stops
being interruptible before it does, however often it is interrupted meanwhile.
A handler is code of the program, so that this is asked of it.

**Deadlock** is checked in `trap`, `port`, `injector` and `uart`: neither the clocked
core nor the Nios II, whose last line is an endless loop, nor a UART with a host
ever stops. Elsewhere it is not, since parts really stop: in `units` and `isa` an
instruction has been executed; in `ticks`, `stores` and `progress` a program has
ended, a report has been printed, or a bounded counter of requests, calls, ticks or
stores is used up. That nothing stops which should go on is what `progress` checks
instead.

### Disagreements found

1. **Every ecall has cause 8** (run `ecall`). `core.sv:202-205` raises lines 8, 9
   and 11 from one decoder output and `exceptDecode.sv` takes 8 first, although
   its comments name 9 and 11 the S- and M-mode calls. The core starts in M mode.
2. **An even hold undoes the flip** (run `evenhold`). `inject.c:58` says "Set and
   clear to avoid flipping twice"; the register flips on every edge between the
   two stores.
3. **Two kinds of instruction differ from RV64I** (run `isa`), which `README.md:8`
   names. `branching.sv:9` decides blt and bge by the sign of the difference
   without the overflow of the subtraction, and `execute.sv:16` clears the upper half
   before an arithmetic 32-bit shift, which then shifts in zeros. `MeetsIsaBut` shows
   that there is no third kind.
4. **A lock may be granted on a device that is open twice** (run `file_lock`).
   `alt_fd_lock.c:61` searches `i < alt_max_fd`, where `alt_max_fd` is the highest
   descriptor in use, so that this one is not looked at; `alt_fd_lock.c:43` says the
   lock is granted "if there are no other open file descriptors".

### Readings

Things the source does that a caller may not expect. No doc or comment of the
repository that a run refutes says otherwise, or the case is outside what a run
assumes; each is visible at the line given (in `hw_io_bsp/` where no directory is
named, under `HAL/` or `drivers/`).

* UART: write returns -EIO also when its host is connected again by then
  (`altera_avalon_jtag_uart_write.c:187`). A driver initialised before the system clock
  never watches its host. The log's report prints the negated fill of the
  transmit ring (`alt_log_printf.c:403`).
* Alarms: an interval of 2^32-1 fires at once (`alt_alarm_start.c:89`); a callback that
  stops the alarm after its own breaks the walk (`alt_tick.c:102`).
* Clock: `alt_settod.c:84` multiplies in 32 bits, so that times late in a run wrap; a
  rate that does not divide a second makes the clock jump (`alt_gettod.c:93`). A busy
  sleep turns 2^32 times more when the compiler does not reload the counter
  (`alt_busy_sleep.c:104`), and rounds down the turns of a microsecond (`:129`): on the
  core of this repository to 5 turns of 9 cycles, 45 of its 50, so that a sleep of any
  length is a tenth shorter than asked. `ALTERA_AVALON_TIMER_FREQ` gives 1 for any period in
  seconds (`altera_avalon_timer.h:97`).
* Timestamp: a handler that reads one tears the program's (`altera_avalon_timer_ts.c:128`);
  it is 0 after a full period, where the comment promises -1 for a counter that is not
  there (`:92`).
* Interrupts: a request withdrawn in time leaves the dispatch loop spinning
  (`alt_irq_handler.c:141`). `alt_irq_enable` in a handler ignores the priority mask
  (`alt_legacy_irq.h:94`). With a skipping instruction handler and no exception register a
  request withdrawn at the entry loses the interrupted instruction (`ExtraInfo`); the
  comment at `alt_exception_entry.S:276` has the two results the wrong way round.
* Descriptors: closing a standard stream keeps its lock (`alt_release_fd.c:46`); fcntl
  undoes a lock granted between its read and its write (`alt_fcntl.c:89`). The direct
  build returns a driver's negative value and leaves errno; ioctl in the table build
  returns -code and not -1; a call on a free slot dereferences a null device; isatty
  looks at a structure a failed fstat did not write; TIOCEXCL reaches the driver in
  the direct build; stat of a missing name leaves EBADFD. `alt_dma_rxchan_depth`
  dereferences a channel that was not found (`alt_dma.h:213`), its siblings return
  -ENODEV.
* Boot: destructors run in the order of the constructors (`alt_do_dtors.c:62`), and
  with `ALT_NO_CLEAN_EXIT` not at all (`alt_main.c:132`). The close of standard output
  before exit (`alt_main.c:155`) waits for the device, as the UART's `Close` does, but the
  slot of a standard stream stays taken (`alt_release_fd.c:46`); in `Boot` it is a step that
  interrupts may come before.
* Queue (`software/c_progs/lib/queue.c`): `enqueue` checks the size and not `last` (`:23`).
  After a dequeue the array's end is reached while the queue is not full, and the next
  pair is written behind it: on the 64-bit cores the programs are compiled for, where an
  `unsigned long` is two entries of the data and `first` follows the data, onto the two
  halves of `first`. `last` of a fresh queue is the largest `unsigned long` (`:14`), so that
  `find` (`:57`) goes on through memory that holds no pair until it meets the item, or
  for ever.
* Router (`software/c_progs/dtn/dtn.c`): nothing bounds the path's index (`:115`), and each
  wait takes an entry of the 54.
* Heap: an unaligned size loses the stack limit (`alt_sbrk.c:107`); on the exception stack
  a growing heap reports an overflow that is none (`:124`). Discarding a region drops the
  line after it when the region starts inside one.
* Profiler: calls of a handler may be lost from a count, the sampler may be started
  twice, there is no retry when memory is short, the tail of the text is not sampled
  (`alt_mcount.S:82`, `:120`; `alt_gmon.c:167`, `:184`, `:265`).
* Log: a tick between test and write costs a character; the echo cuts the last one;
  a beat is one tick late; with a clock below 10 ticks a second the UART is reported
  once only.
* Performance counter: section 1 counts a begin on the clock of a restart.
* Patcher: the test for an own base is `args[0] in args[1]`, so that s1 is found in
  s10 and the patch is not valid assembly.
* A main that returns -1 looks like one that raised an exception.

## 4. Theorems

Proved by TLAPS for every value of the constants: every word size, register, RAM and
ROM size, program, fault and pace of the Nios II, every size of rings and FIFOs, every
descriptor table and set of threads, and every interleaving of what the
specifications let interleave:

| Theorem | States |
|---|---|
| `CoreProofs!HistTypeCorrect` | `HistSpec => []HistTypeOK` |
| `CoreProofs!FrameAlwaysKept` | `HistSpec => []FrameKept` |
| `CoreProofs!ReturnsToTrapHolds` | `HistSpec => ReturnsToTrap` |
| `CoreProofs!CauseWithTrapHolds` | `HistSpec => CauseWithTrap` |
| `CoreProofs!PortTypeCorrect` | `PortSpec => []PortTypeOK` |
| `CoreProofs!CountedOrFrozenHolds` | `PortSpec => CountedOrFrozen` |
| `CoreProofs!NeverOvershootsHolds` | `PortSpec => NeverOvershoots` |
| `CoreProofs!BreakKeptHolds` | `PortSpec => BreakKept` |
| `CoreProofs!InjTypeCorrect` | `InjSpec => []InjTypeOK` |
| `CoreProofs!ReadsAreStableHolds` | `InjSpec => []ReadsAreStable` |
| `CoreProofs!DelayArmedHolds` | `InjSpec => []DelayArmed`: the stall flag and the cycle counter at each line |
| `CoreProofs!DumpIsFreshHolds` | `InjSpec => []DumpIsFresh` |
| `CoreProofs!ResultIsFinalHolds` | `InjSpec => []ResultIsFinal` |
| `CoreProofs!InjectedOnceHolds` | `InjSpec => []InjectedOnce`, if holds are odd (`OddHolds`) |
| `CoreProofs!RefinesFaultModel` | `InjSpec => ImplementsFaultModel`, likewise |
| `MemControl!MemTypeCorrect` | `MemSpec => []MemTypeOK` |
| `MemControl!RefinesPowerUp` | `MemSpec => FollowsPowerUp` |
| `StoreProofs!SlotsKept` | `Files!Spec => [](Files!NoneLost /\ Files!AccessKept)`, for any descriptors, devices and threads |
| `StoreProofs!LocksRespected` | `Files!Spec => Files!LockedOut`, likewise |
| `StoreProofs!NamesFound` | `Names!Spec => Names!DeviceByItsName /\ Names!FileByItsDirectory`, for any names and lists |
| `StoreProofs!BlocksApartHolds` | `Heaps(kind)!Spec => []Heaps(kind)!BlocksApart`, for any sizes asked for |
| `StoreProofs!NoOverlapHolds` | `Heaps(kind)!Spec => []Heaps(kind)!NoOverlap`, if sizes are whole words (`WholeWords`) |
| `StoreProofs!NoFalseAlarmHolds` | `Heaps(kind)!Spec => []Heaps(kind)!NoFalseAlarm`, if moreover exceptions use the program's stack |
| `StoreProofs!StoresKept` | `Caches!Spec => [](Caches!NoStoreLost /\ Caches!UncachedStaysOut)`, for any lines and regions |
| `StoreProofs!RegionsFlushed` | `Caches!Spec => [][Caches!RegionFlushed]_(Caches!vars)` |
| `StoreProofs!LoadedInSynch` | `Caches!Spec => Caches!InSynch` |
| `StoreProofs!CounterRight` | `Counter!Spec => []Counter!WithinWhole /\ Counter!ReadsWhole` |
| `StoreProofs!CallsTell` | `Calls!Spec => [](Calls!BuildsAgree /\ Calls!FailureTold)` |
| `StoreProofs!FilesKeptHolds` | `MCSpec => FilesKept` of the run `stores` |
| `StoreProofs!MemoryKeptHolds` | `MCSpec => []MemoryKept` |
| `StoreProofs!CachesAgreeHolds` | `MCSpec => CachesAgree` |
| `StoreProofs!RoutesRight` | `Router!Spec => [](Router!StartsInFirstLevel /\ Router!NeverBackwards /\ Router!CostOfPath /\ Router!OverrunsOnlyWaiting) /\ Router!ForwardFirst`, for any number of nodes, any costs and any path that has a place for each level |
| `StoreProofs!PairsKept` | `Queue!Spec => [](Queue!TypeOK /\ Queue!InOrder /\ Queue!FindsItem /\ Queue!OverrunsAfterDequeue)`, for an array of any even length, any keys and items: order and `find` up to the end of the array, `find` of a queue that is not fresh |
| `StoreProofs!WorkloadsCorrectHolds` | `MCSpec => WorkloadsCorrect` |
| `StoreProofs!StoresTypeCorrect` | `MCSpec => []TypeOK` of the run `stores`, all ten parts; `last` and the path's length may pass their arrays' ends |
| `TickProofs!ReadsElapsedHolds` | `Clock!Spec => []Clock!ReadsElapsed`, for rates that divide a second (`WholeTicks`) |
| `TickProofs!StampReadsElapsed` | `Stamp!Spec => []Stamp!ReadsElapsed`, for timers of either size and any pieces |
| `TickProofs!SleepsOutLoops` | `Sleep!Spec => []Sleep!ShortByDropped`, for any core and loop |
| `TickProofs!DispatchSound` | `Irqs!Spec => [](Irqs!CalledWithOwnContext /\ Irqs!CriticalKeepsOff) /\ Irqs!CalledWhenRaised`, for any number of interrupts and depth of nesting |
| `TickProofs!OnlyFaultsSkipped` | `Irqs!Spec => Irqs!SkipsOnlyFaults`, if requests stay until served or the processor tells causes apart |
| `TickProofs!NestsByPriority` | `Irqs!Spec => []Irqs!OnlyHigher`, if handlers do not enable or register interrupts |
| `TickProofs!StartsReady` | `Start!Spec => [](Start!HandlerFound /\ Start!ReadyForMain)`, for any order of drivers |
| `TickProofs!HostTimedByAlarm` | `Start!Spec => []Start!CountsOnlyByAlarm`, likewise |
| `TickProofs!AlarmsWhenDue` | `Timers!Init /\ [][Timers!Next]_(Timers!vars) => [](Timers!WellLinked /\ Timers!ExpiresWhenDue /\ Timers!NoneMissed)`, for any number of alarms, width of the counter and times (`BelowWrap`, `Careful`), with or without fairness |
| `TickProofs!LogIsWhole` | `Log!Spec => [](Log!NoCtrlD /\ Log!HandlerWhole /\ Log!LostPerTick /\ Log!ByLevel)`, for any level, depth of the port and intervals |
| `TickProofs!TimesReadHolds` | `MCSpec => []TimesRead` of the run `ticks` |
| `TickProofs!IsrsNestHolds` | `MCSpec => IsrsNest` |
| `TickProofs!AlarmsOnTimeHolds` | `MCSpec => []AlarmsOnTime` |
| `TickProofs!LogWholeHolds` | `MCSpec => []LogWhole` |
| `TickProofs!ArcsCountedHolds` | `MCSpec => []ArcsCounted`, for any functions, callers, graph of calls, hash, slabs and bounds, if whole buckets fill the text |
| `TickProofs!TicksTypeCorrect` | `MCSpec => []TypeOK` of the run `ticks`, all parts |
| `Profile!ListsHold` | `Spec => [](TypeOK /\ NothingDropped /\ CopiesBounded /\ ProgramCounted)`, for any functions, callers, buckets and slabs |
| `Profile!SamplesHold` | `Spec => []SampledInHistogram`, if the buckets of the histogram fill the text |
| `UartProofs!DriverCorrect` | `Spec => []DriverInv` of the interrupt-driven driver |
| `UartProofs!DriverStreams` | `Spec => TxIsAStream /\ RxIsAStream`: both directions refine `ByteStream` |
| `UartProofs!UartTypeCorrect` | `MCSpec => []UartTypeOK`, of both drivers, as the run composes them |
| `UartProofs!NoneStrandedHolds` | `MCSpec => []NoneStranded` |
| `UartProofs!WaitIsJustifiedHolds` | `MCSpec => []WaitIsJustified` |
| `UartProofs!AreStreamsHolds` | `MCSpec => AreStreams` |
| `UnitProofs!ExecutionCorrect` | `MCSpec => []MeetsIsaBut` of the run `units`, for words of any even number of bits whose half is a power of two |
| `UnitProofs!LoadsFreshHolds` | `PatchedSpec /\ []WithinWord => []LoadsFresh`, for any sources no access of which leaves its word |
| `UnitProofs!LoadsSeeStoresHolds` | `MCSpec => []LoadsSeeStores` |
| `UnitProofs!UnitsTypeCorrect` | `MCSpec => []UnitsTypeOK` |

**Assumptions**, each named in the module that declares the constants:
`WordAssumption` (the fields of mstatus fit in a word, cause codes are words),
`CoreAssumption` (sizes are positive, programs are made of instructions and images of words),
`WordOpsAssumption` (bitwise operations, loads and stores return words), `PortAssumption`
(two halves make a word), `InjectorAssumption` (the constants of `inject.c`: gaps are
positive, a result register, a RAM the port's 16-bit address reaches, at most 32
registers), `XorAssumption` (of XOR: zero is neutral, a mask undoes itself, and a mask's two
halves are applied one after the other), `TimerAssumption` (times and refreshes are positive,
since a timer enabled at zero would wrap), `UartAssumption` (a ring of at least two
bytes, a timeout that is a positive int), `AluAssumption` (a word has two halves, and a
32-bit shift takes its distance from the low bits), `PatchAssumption` (sources are loads,
stores and additions that leave t6 alone and fit the ROM with the jump back),
`LanesAssumption` (a word is its lanes, the RAM's size divides the address space, and
`memReadMask` and `memWriteMask` do to the bytes of an access within a word what a load
and a store mean), `StartupAssumption` (there are the registers that `entry.s` uses),
`AccessAssumption` of `MCUnits` (the sources' accesses are of one byte, or at a fixed place
within a word). TLC evaluates all of them. Modules that
an MC module instantiates name theirs as definitions (`AlarmAssumption`, …), which the
MC module assumes: `StoresAssumption` and `OthersAssumption` in `MCStores` (the latter
for printf, the router and the queue), `TicksAssumption` in
`MCTicks`. `QueueAssumption` has an array of even length and keys and items that fit
an entry, `DtnAssumption` a path with a place for each level and the receiver, as the
sources' 64 and 54 are. `NamesAssumption` has room for a device, since the null device is always
registered.

`HeapAssumption` has the heap end, as the stack limit, on a word: the linker places
`__alt_heap_limit` at the end of the RAM. Without that the heap's type invariant is
false: an end rounded up to the next word passes the limit.

`OddHolds`, that each half of the mask is held for an odd number of edges, is a
hypothesis of the two theorems that need it and not an assumption of the module:
`evenhold` is the run without it. Everything else about the injection program holds for
any hold. Likewise the hypotheses of `StoreProofs` and `TickProofs` are those the code needs
and does not ensure, each with the reading of section 3 it comes from: `WholeWords`
(`alt_sbrk.c:107` keeps the limit of a size that is not a whole number of words),
`~OwnStack(kind)` (`alt_sbrk.c:124` reports an overflow of the program's stack from
the other one), `WholeTicks` (`alt_gettod.c:93` truncates the length of a tick, and
`alt_settod.c:84` multiplies in 32 bits), that the buckets fill the text (`alt_gmon.c:226`
rounds their number down), `BelowWrap` (`alt_alarm_start.c:89`: an interval that with the
tick under way goes once round the counter fires at once), `Careful` (`alt_tick.c:102` has
noted the next alarm before the callback runs), `ExtraInfo \/ ~Retracts` (a request withdrawn at the
entry looks like a fault) and `~CallsInIsr` (`alt_irq_enable` ignores the mask of the
priorities). A theorem about a part has the ones it needs as hypotheses; those about a
run's property have none, since `StoresAssumption` and `TicksAssumption` assume them of the
run's constants.

Both modules prove about the instances of the components that `MCStores` and `MCTicks`
have, whose constants are those of the MC module and get their values in its `.cfg`;
`Heaps(kind)` is the heap twice, with sizes of whole words and with any. The theorems about a run's property follow
from those about the parts because a step of the composition is a step of the part or
leaves it alone (`PartsStep`, `StuttersHold`), so that each part behaves as its own
specification says (`FilesBehave`, `OthersBehave`, `PartsBehave`).

**The core.** Type correctness is inductive; `CoreProofs` reduces it to one lemma
per group of flip-flops, shared by all specifications of the core. `FrameKept` is inductive
relative to it as it stands, because it includes `~mie`: with MIE clear no line
can raise a trap, and the only other writer of MIE closes the frame. The next-step
properties of a trap follow from it on one edge.

**The port.** A stalled controller drives the idle word (`StalledEdge`), and an edge
that is neither stalled nor in reset moves the counter (`RunningCounts`,
`CounterMoves`); an armed counter below its target is at most the target after one
step, since at the target the stall holds.

**The injection program.** None of its properties is inductive: what one line may rely on
was stored by lines long before it. The invariant is built in layers, each
inductive relative to those before:
`PortHeld` says, for each line, what the port's registers hold, and so which lines
hold the core (`ReadsAreStable` follows); `DelayArmed`, what the stall flag and
the counter are between arming and disarming, which gives the refinement its
delay; `TargetHeld`, which of the target register's four values (old, low half
masked, both, both with the report) goes with which line and with the parity of the edges
since the store; `ResultHeld`, what the break flag and the stopped registers are
after the poll; `DumpHeld`, that the RAM's output is the addressed word from the
second store on. The refinement then maps each access to `Boot`, `Start`,
`Execute`, `Flip`, `Halt`, `Inspect` or a stutter: a line on which the core runs to the edge of
the core itself, and the store that clears the high half to `Flip`.

**The UART driver.** `NoneStranded` and the type invariant are not inductive. The
invariant `DriverInv` adds three facts about copies a call holds: `CallFits`, that the
free or filled slots a call is to copy are still free or filled, in one run, though
the interrupt routine moves the other index, and that a call goes round its loop only
with something left to do; `CopyHeld`, that the bytes copied are in the ring
until they are published; and `SnapHeld`, that the index a waiting call compares
with is the one that meant full or empty. There is one lemma per action. The rings
rest on lemmas about indices that wrap (`WrapOnce`, `UsedMoves`) and about the ring as a
sequence (`RingIs`, `RingPut`, `RingTake`: publishing bytes appends them and
moving the other index drops them), by which every action of the driver, the routine and the
alarm is an accept, a deliver or a stutter of `ByteStream`. The polled driver has an
invariant of its own (`PolledInv`); `MCInv` composes the two as the run does.

**SDRAM controller.** `MemInv` adds to the types
that a timer is full unless its own state is counting it, and where all or none
of the refreshes are done; each edge is then a step of `PowerUp`, with the
remaining wait read off the timer of the state (`PowerView`).

**The descriptor table.** A slot alone does not say whose it is: `IInv` adds that a slot being opened is
in nobody's hands and, once past the search for a lock, has the access it will
have; that one fcntl works on stays open, so that what it writes back is no
other descriptor's; and that the mark covers every slot in use, without which the
search for a lock would miss one. That alt_get_fd finds a slot if there is one is
that the smallest of some numbers is one of them (`MinIn`), by the library's
theorem that < on the numbers is well founded.

**The names.** A name in memory is its characters, a null and anything behind it
(`LiesInMemory`): comparing up to the null finds the same name only (`DeviceMatch`), and
comparing up to the mount point's length and looking at one character more finds the names
below it (`MountMatch`), as what lies behind cannot be mistaken for a slash before the null.

**The heap.** `BlocksApart` is not inductive, nor is the type invariant: a call takes
back what the end allows, so that the blocks must be ascending and below the end,
whole words apart (`Ascending`, `AllBelow`), and the limits must be one of two
(`OneLimit`): that of the stack in use is put aside exactly while the other is in use.
`NoOverlap` adds that the limit is the end of the heap (`LimitIsEnd`), which needs
whole words.

**The caches.** `CacheInv` adds to `NoStoreLost` that no two cached lines share a
place (`OneInPlace`), and that the lines of an uncached block, rounded up to whole
lines, are not cached, those its bytes do not fill included (`TakenOut`); the block the
program knows is within them. The rest is arithmetic: a routine that goes through a region by the size of a
line visits a place for every line of the region (`PlacesCovered`), even when the
region starts inside a line, because it rounds or goes one further; and a region as
long as the cache visits every place in it.

**The clocks.** The time of day keeps the time at its last reset less the time
until then, modulo a second and with a borrow that settimeofday and gettimeofday each do
in their own way: `ClockSet` says that what is kept is that difference, and the reading
then is the time set plus the ticks since. The busy sleep's invariant is that the loops
turned so far make up for what is no longer left of the delay, in turns of which a
microsecond has a whole number; what the division dropped enters only at the end. The performance
counter's is that it stands still from the driver's first access to the last
(`StandsStill`), which makes two halves one time, and that a section's time is at most
that of the whole plus one for each of its starts.

**The timestamp.** `Counts` says that a timer that goes has counted down by the ticks since the
start, and that one that stopped is full again; so a snapshot stands for the time it was
asked for (`StandsFor`) as long as no handler takes another. `Reading` says that what has
been read is the snapshot modulo the weight of the next piece (`OneMorePiece`: a remainder
and one more piece are the remainder of the next weight).

**The start.** Interrupts come on before any driver. `Handled` says why none is lost: from
the initialisation of the controller on, what the processor lets in is what is active,
which is in the table and enabled in its device. `Counting` says that the UART's timeout is the
default one until its alarm is asked for, which happens once as all devices to come are
different (`ToCome`), and that there is a rate from the timer's first step on.

**The calls.** Each call is a lemma about what the two builds answer (`FailsTells`
and the like) for any driver: the conclusion holds of the last call, so that the
invariant is the property and the types.

**Interrupts.** The state is a stack of activations of any depth, which is what
makes it hard: every step changes the top and what lies below must still hold when it
is the top again. `IrqInv` says of each activation what it may rely on (`Sound`), and of the
whole (`Stacked`): interrupts are enabled exactly if the top lets them in, the status
each activation saved says whether the one below did, and only the outermost critical
section has enabled interrupts to restore. An active entry of the table has a handler
with its own context unless it is the one being registered (`TableSound`), and a
request an interrupt came with stays until it is looked for, unless devices retract
(`NotGone`). `StackMoves` is what
follows for a step. `NestInv` adds for priorities that the enables are what is active
and not masked, that each handler's mask, and each mask saved below it, keeps
off whatever is not higher, and hence that the stack is no deeper than there are
interrupts and faults, which is the bound of the type invariant.

**The alarms.** `WellLinked` is not inductive: a removal needs to know what the
neighbours of the entry are, at any distance from where the walk stands. `Ring` names
the whole list as a sequence, from the head round to the head, of different alarms with
both links between neighbours, and says that an alarm out of it points at itself or was never in
it; an insertion is a new first alarm (`RingInserted`), a removal closes the gap
(`RingRemoved`) and does nothing to an alarm that is out (`RemovedAgain`). That
following the links as often as there are alarms meets each of them (`RingChained`) is the
pigeonhole principle and a division. `AlarmInv` divides the ring where alt_tick stands: the
alarms before are `TimedIn`, those from there on `PendingIn` this tick, which differ in the
tick that wraps the counter, when the flag is still set for an alarm that the walk has
not come to. Both say that the ticks left are the time less the counter,
plus the counter's range if the flag is set, from which an alarm expires exactly when none are
left (`PendingExpires`). A callback may have put an alarm in front, taken one out on either side
or its own: `InList` and `OutOfList` say where the walk stands after that, and `EndsAlarm` and
`RepeatsAlarm` that alt_tick, whatever period comes back, goes on from a ring (`Walked`).

**The log.** `RoomSeen` says who may rely on the room it saw: a handler that runs, since
nothing interrupts it, and not the program. `LostAtMost` counts one character the
program may still lose for the interrupt that took its room; `AllAllowed` that
nothing is on its way, or was sent, that its level or the filter does not allow;
`EndsNext` that a message begun by a handler has its end at the head of what the handler has
left; and `ReportsTakeTime` that every report, the one under way included, took its
interval of ticks, which is the bound `ByLevel` states of the reports that were sent.

**The profiler.** Its proofs are in `Profile` itself. A list is reached by following
links as often as there are entries, so what it holds has no bound that a fact about
one link could say. The invariant names each list as a set of addresses in which every
entry points at the next lower one (`NothingDropped` follows): entries are allocated
upwards and linked in at the front, which `mcount_allocate` and the critical section
around it ensure. A search runs with the interrupts on. `Passed` says what an interrupt may
have put in front of where the program's search already is: one entry at most of its
function, and of its arc, so that there are two copies of either and no more. A count
that was loaded before a handler counted the same arc is too small by the handler's calls,
and by no call of the program. Sums over sets are folds that the library defines by
recursion; that they exist, and grow by what is added, is proved by choosing a smallest set
for which it fails. That a sample stays in the histogram needs that the buckets fill the
text (`alt_gmon.c:226` rounds their number down).

**The router.** The loops of the source are folds, which the library defines by recursion
on sets of indices; `FoldsExist` builds the fold round by round and `CheapestIs` follows the
loop: after k neighbours it has the cheapest of those that are up, the first of equals, or
the node itself if none is. `RouterInv` says of every pair of neighbours on the path that
it is a step onwards or a wait, from a node of one level to one of the same or the next; the
levels are the rows of a grid (`Grid`). A route that never waited has one entry for each
level up to its own, which bounds the path (`PathBounded`). That the total is the cost of the path is not
inductive by itself: a wait draws the links of the next level anew, and a hop that was taken
over one of them would no longer have the cost it was added with. The invariant therefore has
every node of the path at the level of the message or behind it, so that the links a wait
draws are not yet taken (`WaitStep`), and names the sums of the path's beginnings (`SumsTo`), to
which a step adds one (`SumGrows`).

**The queue.** A pass of sort is a fold over the places of the window, and sort one of as many
passes as there are pairs. The invariant of the passes names the rearrangement: what
is in the array is the pairs of the window before in some order, in which pairs of the same
key have theirs, and the last m are the greatest and sorted (`PassSettles`,
`SortSettles`). There is one such order only, the one that `Sorted` chooses
(`OneOrder`: two orders agree on the first place, and so on each next one). `QueueInv` holds
until the array's end is passed and `QueuePast` from then on: pairs begin at even places of an
array of even length, so that the window ends at its end when the next pair does not fit, and
it is not full only if it began later than at zero (`EnqueuePast`).

**printf.** A width or a precision is read figure by figure, so that its bound is
not inductive: `PrintfInv` bounds it by the power of ten of the characters read so far.

**The arithmetic unit.** An operation on bits is one on sets of ones, and shifts are
products and quotients by powers of two, which are a recursive function. The library's
principle of induction takes an operator, so that `EveryNumber` states it about a set, and
`RecursionExists` builds the function from its beginnings; with that, a word is the sum of
the powers of its ones (`OnesOfWord`). Every operation but a branch is then a lemma about
`Number` (`WordNumbersMean`, `HalfNumbersMean`, `LogicMeans`), the lower half of a sum, a
difference or a product being that of the lower halves. `BranchesMean` is linear
arithmetic on the carry and the sign of a difference. That blt, bge and sraw are wrong
whenever their operands are of the two kinds, which `MeetsIsaBut` says too, is that a sign
is on the wrong side (`SignBitsMissed` for the shift: what is shifted in differs by a
multiple that the lower half does not hide).

**The patched loads.** `LoadsFresh` looks at the core between two patches; inside one the two
machines differ. `PatchedInv` says how, after the first o instructions of the patch
of an instruction: registers agree but for t6 and, before the last load, for the
register that is loaded; that load finds the word of its address latched; and t6 holds
the base if it had to be kept. There is a lemma for each place (`KeepBaseStep`,
`FirstLoadStep`, `LastLoadStep`, `StoreStep`, `AddStep`, `JumpBackStep`). A program counter
is in one patch only, because where patches begin rises strictly (`PatchesInOrder`,
`PatchEnds`). The memory without latency is of bytes, the RAM of words: `BytesOfAccess`
says that the bytes of an access within a word are neighbours in it, also where the
address goes round the RAM, since the RAM's size divides the address space. `WithinWord`
is a hypothesis, as the masks cut off the bytes above a word, and such an access raises
an exception; of the run's sources `StaysWithin` proves it from `AccessAssumption`.

**Only model-checked**, and why:

* liveness (`RunEnds`, `CallsEndAndArrive`, `ProgramResumes`, `ComesUp`, the end in `EndsOnce`):
  out of the prover's reach;
* what a start-up program leaves (`EndsOnce`): a part of it is liveness, and for any
  `main` the rest is about programs as data;
* what printf prints (in `ReportsRight`; the rest of it is `CallsTell` and
  `CounterRight`): the digits of a number and the text of a format are each
  defined twice, by recursion from either end, and related by an induction over both.

## 5. Not modelled

* LUI and AUIPC, which pass an operand through the unit; bit patterns and
  immediates' encodings.
* Push button KEY[1], which also resets the core, and KEY[0], the coprocessor's.
  Downloading the injection program again without reprogramming the FPGA.
* Metastability and glitches of the reset; both sides are one clock domain.
* Interrupts of the core: their input is tied to zero in `core.sv`.
* SDRAM: address lines, data multiplexer, and the timers tRRD and tRCD, which
  nothing enables. The controller never reads or writes, in the code too.
* Of the support package: the emulation of multiplications and divisions, the fatal
  ECC handler, the transfer wrappers of DMA and flash, which call a driver that is
  not there, the uC/OS-II branches, and the headers that are register maps,
  macros or configuration (`system.h`, `nios2.h`, `io.h`, `termios.h`, the linker's).
  `alt_remap_uncached.c` is an error at link time on this processor.
* The matrix product and the checksum: straight-line arithmetic. What the queue's and the
  router's programs do after a write past the end of an array (see *Readings*).
* Multiplier, forwarding and hazard units, which nothing instantiates; the campaign
  script, which is files, subprocesses and serial text; generated Qsys code other than
  the devices above; the testbenches.

About half of the lines of the support package's `.c` and `.h` files are licence text,
comments and register macros, which no definition maps.

## 6. Plan

What is done is marked.

1. *(done)* `Decode`, `TrapUnit`, `Core`: the core, written to be proved about.
2. *(done)* `TrapHistory`, `DebugPort` with runs and proofs.
3. *(done)* `FaultModel`, `Injector`, with the refinement and liveness.
4. *(done)* `CoreProofs`: all its safety properties and the refinement.
5. *(done)* `PatchedLoads`, with proofs (`UnitProofs`).
6. *(done)* `PowerUp`, `MemControl`, with proofs.
7. *(done)* `Alu`: against the meaning of the instruction set, with proofs (`UnitProofs`).
8. *(done)* `Startup`.
9. *(done)* `PairQueue`, `Dtn`.
10. *(done)* The support package: UART and its refinement, interrupts, boot, clocks,
    descriptors, names, heap, caches, log, profiler, counters.
11. Proofs about the support package. *(done)* the UART with its refinement, `FileTable`,
    `DeviceNames`, `Heap`, `Cache`, `PerfCounter`, `SystemCalls`, `Interrupts`, `Boot`,
    `TimeOfDay`, `Timestamp`, `BusySleep`, `Alarms`, `LogPort`, `Profile`, and the properties of the
    runs they make up, and the type invariants of these.
12. `Mul` and `Forwarding` as pure operators; the campaign's loop.
