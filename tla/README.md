# Kendryte K210 standalone SDK: formal verification

TLA+ models of the K210 SDK in this repository (`src/lib/bsp`,
`src/lib/drivers` and the applications in `src/src`), model-checked with TLC
and, for the locks, the interrupt handlers, the allocator, DMA transfers,
timers, KPU tasks and the system controller, proved with TLAPS for every value
of the constants. Every definition is translated from the C source;
`PROJECT.json` gives the lines of each ("map"), the runs, the mutants of the
code that every property rejects, and the hazards the properties were written
for.

The K210 has two RISC-V harts, no operating system and no memory protection.
Main programs run on both harts, every handler runs in machine mode on top of
them with interrupts enabled again for part of its time, and what they share
is guarded by test-and-set locks or by nothing. That is what the models are
about: harts, interrupt handlers and devices in any order.

Contents: 1 inventory, 2 modules, 3 runs, 4 fairness, 5 proofs, 6 what the
code does against its own words, 7 what the models leave out, 8 plan.

## 1. Inventory

| Component | Code | State | Operations | Hard behaviour |
|---|---|---|---|---|
| spinlock, corelock | `bsp/include/atomic.h` | a word; a word, `count`, `core` | lock, trylock, unlock (owed or not) | waiting loop reads `count` outside the inner lock; two fields change together |
| newlib's recursive locks | `bsp/locks.c` | a word per lock, the table `reculock[]`, `reculock_mutex` | init, close, lock, trylock, unlock | slots freed without the mutex; a full table; the waiting loop looks at the wrong counter |
| semaphore | `bsp/include/atomic.h` | spinlock, count, waiting count | signal, wait | callers counted while they spin |
| interrupts | `bsp/crt.S`, `bsp/interrupt.c`, `drivers/plic.c`, `drivers/clint.c` | `mstatus.MIE`, `mie`, PLIC enables, thresholds and claims, `msip`, compare registers, the callback tables | the three handlers; enable, disable, register, timer start and stop, IPI send | nesting with saved and restored masks; two harts race for one claim; read-modify-write of enables against callbacks |
| boot | `bsp/entry_user.c`, `drivers/plic.c` (`plic_init`) | bss, `core1_instance`, the wake-up flag, `plic_init`'s flag | start of hart 0 and hart 1, `register_core1` | both harts initialise the PLIC |
| non-cached memory, program break | `drivers/iomem.c`, `bsp/syscalls.c` (`sys_brk`) | boundary tags, `_ioheap_line`, `_heap_line`, `_heap_cur` | `iomem_malloc`, `iomem_free`, `iomem_init`, brk | two allocators grow towards each other under two locks; handlers free in the middle of a scan |
| DMA | `drivers/dmac.c`, with its clients in `uart.c`, `spi.c`, `i2c.c`, `i2s.c`, `aes.c`, `sha256.c`, `fft.c`, `kpu.c` | channel registers, bounce buffers and callbacks of `dmac_context`, a spinlock per device and direction | register, set up, start, wait, handle | a lock taken by a caller and released by a handler, perhaps on another hart; callbacks that start the next transfer; the I2C bus aborts one |
| timers | `drivers/timer.c` | `timer_instance[3][4]`, interval, single shot | register, unregister, enable, handler | two channels share an interrupt and its registration |
| system controller | `drivers/sysctl.c` | clock gates, dividers, selects, PLLs, resets, DMA handshakes | enable, set, get, PLL set-up | unlocked bit fields; the order of a PLL change, made on the clock the CPU runs from; waits for a lock that a slip bit takes away; the search for divider values |
| KPU | `drivers/kpu.c` | a task, its layers, interrupt masks, two busy flags | `kpu_start`, `kpu_run`, `kpu_run_kmodel`, their AI and DMA interrupts | two interrupts of different priority hand the layers to each other; one channel for input and output; callbacks start the next task |
| UART, SPI, I2C, I2S byte interfaces | `drivers/{uart,spi,i2c,i2s}.c` | FIFOs, `g_write_count` | send, receive, interrupt callbacks | a write count shared by all users |
| other peripherals | `drivers/{aes,sha256,fft,fpioa,gpio,gpiohs,rtc,wdt,pwm,dvp,uarths,apu}.c` | mostly registers | programming, one callback each | little shared state |
| applications | `src/01-sha-uart`, `src/02-aes-ecb`, `src/03-nncase`, `src/04-gesture` | two corelocks, an image, a target list, a key ring | `main` on both harts, a timer callback | frames and boxes handed between two harts by an interrupt, a flag and two locks |
| third party | `lib/nncase` and prebuilt libraries | | | not looked at |

How they interact:

- Interrupts call *down* into drivers through the PLIC's callback table
  (`plic_irq_register`), and drivers call *up* into clients through a callback
  in their instance. A client's callback may call any driver again, and
  examples do.
- The iomem allocator is called by the DMA driver for its bounce buffers, from
  main (set-up, waited-for transfers) and from handlers (completion). It uses
  a recursive lock of newlib's, so a handler passes through the lock of the
  hart it interrupted.
- newlib's malloc uses the same kind of lock and calls `sys_brk`, whose
  `_heap_line` and iomem's `_ioheap_line` guard one memory from both ends.
- Device locks (`spinlock_t` in each UART, SPI and I2C instance) are handed from
  the caller of an asynchronous transfer to the handler that ends it.
- The KPU driver runs one DMA channel from its own interrupt handlers, as
  another client of `dmac.c`, and enables one interrupt from another's handler.
- Every driver opens clock gates and selects DMA handshakes in `sysctl.c`,
  whose words all of them share.

What makes each part correct, as properties: at most one hart in a lock, at
the depth it asked for, and nobody waits for ever; nested handlers leave masks
and thresholds as they found them, every interrupt raised is served, once; no
memory is given out twice; every transfer and every network run comes to an end,
its client is told once and after the data, and nothing it borrowed stays
behind; the CPU always has a clock, and a shared word ends as all its users
asked.

## 2. Modules

### RecursiveLock, Corelock, Corelock_proofs

`RecursiveLock` is the promise: `held[c]` levels per hart, `Acquire` when no
other hart has a level, `Release`.

`Corelock` is `corelock_t`. Its variables are the fields of the struct
(`lock`, `count`, `core`), each hart's place in the function it is in (`pc`,
`op`), the number of calls spent, and the history variable `depth`, the levels
that calls which *returned* gave a hart. One step is one access that another
hart can see: the swap (`SpinAcquire`, `TryAcquire`, `TryFail`), the update of
both fields under the inner lock (`Take`, `Drop`, `Refuse`, `StrayUnlock`),
the store that frees it (`Return`, `Backoff`) and the unprotected read of
`count` in the waiting loop (`SeeFree`). An unlock by a hart that is not the
owner ends in the exit system call in the code and in `halted` here.

### Reculock, Reculock_proofs

`bsp/locks.c`: lock words, `reculock_mutex` and the table. `get_reculock` is
one step, since entries of a lock change only under its word;
`get_free_reculock` is a step per entry, since other harts free entries while
it runs. `reculock_deinit` frees an entry with its first store and zeroes
counter and core with two more (`locks.c:97-102`), without the mutex
(`ClearLock`, `ClearCounter`, `ClearCore`): another hart may take the entry in
between and have its counter and core reset. The history variable `hit` has the
locks this has happened to, and `SlotIsNesting` and `ImplementsRecursiveLock`
are about the others. A lock is hit only when a lock is closed while the entry
of another is made; the lock that is closed itself is nobody's, which is a
client's duty. `SeeFree` waits for `slot[1].counter`, the counter of the first
entry of the table, because that is what the code reads (`locks.c:184`,
`reculock` is the array there, `v_reculock` the entry). `show_error` frees the
word and stops the hart.

### TrapNesting (with MCTrap), TrapNesting_proofs

The handlers `handle_irq_m_ext`, `handle_irq_m_timer`, `handle_irq_m_soft` on
a stack of frames per hart, over the PLIC and CLINT. Within a handler, while
interrupts are off, accesses to the hart's own CSRs and PLIC target are one
step; everything the other hart or a device can race with is a step of its
own. A callback is the time a frame is `running`: with interrupts enabled, it
can be interrupted by whatever the masks allow, and it makes the calls of
`CallbackCalls`. Main makes `MainCalls`. `TimerStart` and `PlicRead` have a
second step (`TimerArm`, `PlicWrite`) because the code reads a register or
sets a field, and writes another later, with interrupts enabled. Time is
abstract: an armed compare register may be passed at any moment, also between
the handler's computation of the next one and the store.

### SharedHeap, Iomem (with MCIomem), Iomem_proofs

`SharedHeap` is the promise of the two allocators: a heap `[0, brk)` and
blocks above it, disjoint. `Iomem` is the code, one step per loop iteration
and per shared access, with a `main` and, for some harts, an `isr` context per
hart. `iomem_lock` is an instance of `RecursiveLock`, whose promise `Reculock`
is shown to keep. Addresses count blocks of 256 bytes; the break, in bytes in
the code, is rounded to them. `live` are the blocks clients have. A core that
finds memory exhausted goes to `hang`, the code's `while(1)`.

### DmaTransfer (with MCDma), DmaTransfer_proofs

`uart_handle_data_dma` (both directions), `spi_handle_data_dma` (TRANS, RECV)
and the sending half of `i2c_handle_data_dma` over one channel. `dev` and
`unit` choose the device of a behaviour. A transfer is a number that stands
for its client buffer, its bounce buffer and its callback; `allocated`,
`moved`, `delivered`, `spoiled`, `dropped` and `ended` say what became of each.

The handlers find their unit in `uart_num`, `spi_num` and `i2c_num` of the
instance, which nothing assigns: they wait for unit 0 (`uart.c:421`), switch
SPI 0 off (`spi.c:93-98`) and give up on an abort of I2C 0 (`i2c.c:282`),
whichever unit the transfer is on. A waiting caller uses the number it was
given. So for `unit # 0` a handler (`Astray`) looks at `zero`, the state of
unit 0, which its own clients make busy, abort and end (`OthersStart`,
`OthersAbort`, `OthersEnd`), and leaves its own unit as it is. The order of the
steps is that of the code's statements: `Step` while a transfer is started,
`SyncStep` and `HandlerStep` for the two ways of finishing it (`After`). The
PLIC part is small: pending, in service, and for which cores the source is
enabled (`plicEn`) and has a callback (`registered`), which are different sets
because `plic_irq_unregister` clears only the current core's callback. Client
behaviour (`Call`) is external and comes from the examples: main starts
transfers of both kinds, a callback starts the next one. The I2C bus may refuse
what is in the FIFO (`Abort`): the handler that waits for the FIFO sees it,
unlocks and returns without calling the client (`GiveUp`), or finds the FIFO
already emptied and calls it as usual; the next transfer's `Fill` clears the
abort.

### Timer (with MCTimer), Timer_proofs

`timer_irq_register`, `timer_irq_unregister`, `timer_set_enable` and
`timer_interrupt_handler` over the registers of the timer units. `instance` is
`timer_instance`; `handler` is the context the PLIC has for each interrupt, of
which two channels share one. Frames of main and of handlers form a stack, as
in TrapNesting; a handler reads device and channel from its context and then
`intr_stat` in three steps (`ReadDevice`, `ReadChannel`, `ReadStatus`,
`timer.c:283-285`), between which other handlers run, and goes through its two
channels a step at a time. A context that is unregistered before or between
these reads leads the handler to the channels of another interrupt: the history
variable `strayed` has the channels such a handler has come to. A claim without
a handler changes nothing, so a line that nobody clears shows as an expiry that
is never answered.

### KpuTask (with MCKpu), KpuTask_proofs

One behaviour uses one of the three interfaces (`api`) for a network
(`model`, a sequence of kinds of layers). The single core's stack holds main
and the AI and DMA handlers; a frame is the list of statements it still has to
execute, and the functions of `kpu.c` are such lists (`DataReady` is
`kpu_data_ready`, `PushLayers` is `kpu_run_dma_input_done_push_layers`,
`Conv` is `kpu_conv`, and so on). Loops over the layers of a burst are a step
per layer, because that is where the other interrupt comes in. The accelerator
takes layers from its FIFO, computes them and sets its status bits; `mask`
decides which of them interrupt. A `kpu_start` AI interrupt has a higher
priority than the channel's, as in the code; the other two have the same.
Interrupts are taken at any time or late, and a callback may start the next
task while main is still in the call that started the last. `Unfinished` says
that something of the task before is left when one begins, an interrupt of the
KPU or main's call; the history variable `collided` remembers it.

### Gesture

`src/04-gesture` from reset: `_init_bsp` of both harts with the flag of
`plic_init` and the wake-up through `core1_instance`, then the camera, its
interrupt on hart 0, the network thread of hart 0 and the display thread of
hart 1. The camera waits for nobody: between any two of the handler's
statements, the look at the finish event, the read of the flag,
`dvp_start_convert` and the clearing of the event (`main.cpp:336-345`), a frame
may begin or end. `overrun` remembers that one ended between the first and the
third (`Window`), which arms the frame after it. A frame being written is
`frame /\ convert`; the boxes a run of the network leaves behind are the number
of that run modulo two, `num` for the count and `box` for the array, so that a
mixture shows. The two corelocks are an owner each: they keep `RecursiveLock`'s
promise, as `Corelock` shows.

### PllSearch, ClockTree, ClockTree_proofs

`PllSearch` is the search for dividers in `sysctl_pll_source_set_freq` as a
function of the asked frequency in whole MHz: the turns of the loop
(`Dividers`, `Better`, `Turn`) over fractions in place of the doubles, whose
margins of 1e-6 are below any difference of fractions of this size.
`NearSettings` is what it is held against: the settings the ranges allow
(`Legal`) that the loop can reach (`Reached`), which are those with NF of 1 to
63 but for NF = 32, because the loop ends before NF = 64 and a turn of NF = 32
that could be scaled up waits for it.

`ClockTree` is the words of `sysctl_t`. Bit fields are changed by a load and a
store of their word, so each function is a program of loads, stores and waits
(`ProgramOf`), and the harts execute theirs interleaved (`LoadWord`,
`StoreWord`, `Locked`, `NotLocked`), with nothing to keep them apart. Updates
are lost, as in the code, and the history variable `disputed` has the fields
they are lost of: those that two calls set at once (`SetAtOnce`) and those that
a store puts back to what its hart had read before another hart's store
(`PutBack`, by way of `stale`). The end of `sysctl_pll_set_freq` for PLL0,
`uart_debug_init(-1)`, is `UartInit`: it opens the gates of the console's UART
and resets it, by loads and stores of three further words. Frequencies are set
from one hart (`Setters`), as in all the repository's callers, which are `main`
on hart 0 (`03-nncase/main.c:18`, `04-gesture/main.cpp:513`). `asked` is what
the calls that returned have asked for, field by field, stated apart from their
programs (`Effect`). A PLL loses its lock without power, in reset and at new
dividers, and finds it again in its own time.

## 3. Runs

All runs are exhaustive over their instance; the longest take two to three
minutes on two workers. For every property `PROJECT.json` names a mutant, a
plausible bug put into a definition of the model, that makes TLC report the
property violated: no property here holds whatever the code does.

| Run | Instance | Checked | What it shows |
|---|---|---|---|
| `corelock` | 3 harts, 2 calls each besides the unlocks they owe | `TypeOK`, `MutualExclusion`, `CountIsNesting`, `ImplementsRecursiveLock`, `LockReturns` | the corelock is a recursive lock, also with stray unlocks, and a waiter gets in |
| `reculock_nested` | 2 harts, 3 locks, 2 slots, 2 calls, two locks held at a time | `NoOrphanWord`, `OneSlotPerLock`, `SlotIsNesting`, `ImplementsRecursiveLock`, `StuckOnlyOnFirstSlot` | the table is right when it is full and when slots come and go, but for the late stores of a close; the only lasting wait is the one for the first slot's counter |
| `trap_core` | 1 hart, 2 sources of two priorities, main makes every call, 3 calls, 4 interrupts | `NestingOrder`, `PriorityNesting`, `MaskRestored` | nesting leaves nothing behind |
| `trap_live` | 2 harts, a source both have enabled and a private one, IPIs from main and callbacks | `ServedOnce`, `IpiServed`, `SourceServed` | the claim race serves once; nothing raised or sent is lost |
| `trap_enable` | 1 hart, a source enabled in main and in a callback | `EnablesAsAsked` (violated) | section 6 |
| `iomem` | 2 harts, frees from the handler of one, a heap that moves on the other, 5 blocks, 5 calls | `TagsAreBlocks`, `LineBelowBlocks`, `ImplementsSharedHeap` | no memory is given out twice |
| `iomem_brk` | 2 harts, 4 blocks, 3 calls | `BrkReturns` (violated) | section 6 |
| `dma` | 2 harts, 4 transfers of UART, SPI or I2C, of unit 0 or another, one aborted | `BufferLive`, `QuietWhenFree`, `ToldOnceWhenDone`, `TransferEnds` | the hand-over of a transfer from caller to handler, and that an abort does not spoil the next one |
| `timer` | 1 core, units 0 and 1, a pair of channels and a single one, 6 calls, 2 expiries | `ServedWhileRegistered`, `TickNotLost`, `SingleShotOnce`, `TickAnswered` | no expiry is lost between two channels of one interrupt, not even to a handler that strays; a registered channel keeps its handler |
| `kpu` | each interface with networks of one to five layers, bursts of 2, 2 tasks | `InOrder`, `LayerAfterInput`, `OutputArmed`, `ToldWhenDone`, `TaskEnds` | until tasks collide, layers go in once, in order and not too early, whichever interrupt writes them; each client is told when its results are there |
| `gesture` | the application as it is, two boxes apart | `FrameKept`, `TargetsWhole`, `Core1Called`, `FramesShown` | boot leads to the application; frames and boxes are whole and go on coming |
| `clock` | 2 harts, 2 calls, each of ten kinds, nine frequencies for PLL1 and two for PLL0 | `CpuClocked`, `SettledAsAsked`, `PllNearest`, `CallsReturn` | the CPU keeps its clock, lost updates are the only way to a wrong field, PLLs get the nearest setting the search reaches and their lock |

Every detailed module has a `TypeOK`. Those of Reculock, TrapNesting, Iomem,
DmaTransfer, Timer, KpuTask, Gesture and ClockTree hold on the instances above
as well; only `Corelock`'s is listed, because the proofs rest on it.

Why the bounds are enough:

- `corelock`: three harts, one more than the chip has, are the least with an
  owner and two waiters that race after the release; two calls let a hart
  nest, come back after it was refused, and make a stray unlock while it holds
  nothing. The safety properties do not depend on the bounds: section 5.
- `reculock_nested`: two slots and three locks fill the table
  (`LOCK_MAX_NUM` is 1024; what matters is full or not, first entry or not),
  and a lock in the second slot has a waiter that does not wait on its own
  counter.
- `trap_*`: two priorities are enough for a nested callback and for one that
  must not nest; four raises let both sources, the timer and one of them again
  come in during one callback. Two harts and one shared source are the claim
  race.
- `iomem`: with five blocks, a table, an allocation of two, one of one and a
  hole between them fit, and so does the collision of heap and blocks; five
  calls are two allocations with the frees that go wrong, and a break in
  between.
- `dma`: four transfers are two callers and a callback with a transfer each,
  and one that comes after all of them and would find what they left behind;
  one abort has up to three transfers after it. Unit 0 becomes busy once with
  its own clients' work, which is enough for the handler of another unit to
  wait for it, to meet its abort, or to find it idle.
- `timer`: unit 1, because a record that has been reset names unit 0; six
  calls register and enable two channels of different interrupts, let a
  callback of one let the other go between the reads of its handler, and
  enable it again; two expiries are one before or during and one after the
  handler's look at `intr_stat`. Handlers that stray to either channel of the
  pair occur.

- `kpu`: five layers are three bursts, so that a burst is written by main or
  the DMA's handler, one by an AI handler and the last one by another; networks
  of one and two layers end within the first burst. The mixed networks of
  `kpu_run_kmodel` have each kind of layer first and last. A second task meets
  whatever the first left in the KPU, also a late interrupt or a call of main's
  that has not returned; the properties claim nothing from there on, and each
  of them is violated if it does.
- `gesture`: finite as it stands; frames and network runs are told apart by
  their parity, which is all the properties compare.
- `clock`: two calls are two that overlap, or one after the other on one hart.
  Programs have at most 31 steps, and the interleavings are all there. The
  frequencies include ones with no setting in tolerance, ones that need the
  output divider, ones near both ends of the oscillator's range, and ones the
  search serves badly or not at all (119, 277, 1664 MHz, section 6); each whole
  number of MHz from 10 to 1850 was also tried. Each kind of lost update
  occurs, of gates, resets, DMA selections, selects and PLL controls.

`CHECK_DEADLOCK FALSE` is used where a behaviour really ends: the bounded
clients have made their calls, a hart has stopped in `while(1)`, or (nested
locks) harts do deadlock.

## 4. Fairness

- Corelock: a hart keeps executing (`WF` of each hart's `Step`) and a client
  gives back what it holds (`WF` of `CallUnlock`). `LockReturns` needs no
  strong fairness, because a waiter waits while `count` is not zero and the
  other harts' calls are bounded: it says that the loop does not miss the
  release, not that the lock is fair, which it is not.
- Reculock: the same, and `SF` of the swap `TakeWord`. A waiter whose lock is
  not in the first slot does not wait at all: it repeats trylock, and takes
  the word again and again while the owner's unlock needs it. Only that the
  memory system serves both harts lets the owner through, so this is an
  assumption about the hardware, made where it is needed and nowhere else.
- TrapNesting: a hart takes interrupts that are pending and enabled and runs
  its handlers and calls to their end (`WF` of `Handler`, `CallEnd`). Nothing
  says that devices interrupt, or that main makes a call.
- Iomem: each context's steps are weakly fair; `Runs` is false for main while
  its hart's handler is active.
- DmaTransfer: running code runs, the channel moves words when the device lets
  it (for a UART receive: the peer sends), and a hart's claim is strongly
  fair: a hart without the callback may claim the interrupt and drop it, but
  not every time. The work of unit 0 that a handler of another unit waits for
  ends, and is bounded: for clients that keep unit 0 busy for ever the code
  promises nothing.
- Timer: the core runs its handlers and calls to their end and takes what is
  pending.
- KpuTask: the core executes what its frames hold, the accelerator computes,
  the channel moves and the PLIC forwards and is claimed (`WF` each). Nothing
  says that a client starts a task.
- Gesture: both harts run, the sensor goes on sending frames (`WF`), and the
  display thread is strongly fair, for its `corelock_lock`s only: a lock that
  is free again and again is taken at some time, although the other hart takes
  it in between. Corelock itself is not fair (above), but the network thread
  holds `target_lock` for a copy in each run of the network and leaves it free
  for the rest.
- ClockTree: each hart goes on with its call, and a PLL that has power and is
  not in reset locks at some time (`WF`).

## 5. Proofs

The theorems hold for every value of the constants: any number of harts,
calls, interrupts and transfers, any memory, table, sources and priorities.
Where clients must keep a rule that the code does not enforce, the theorem
assumes it by name; the runs obey the same rules, so every assumption has
instances.

| Module | Theorem | States | Assumes |
|---|---|---|---|
| `Corelock_proofs` | `TypeCorrect` | `TypeOK` | |
| | `InnerLockSafe` | `InnerLockExact` | |
| | `CountSafe` | `CountIsNesting` | |
| | `MutexSafe` | `MutualExclusion` | |
| | `Refinement` | `ImplementsRecursiveLock` | |
| `Reculock_proofs` | `OneSlotSafe` | `OneSlotPerLock` | |
| | `SlotSafe` | `SlotIsNesting` | |
| | `NoOrphanSafe` | `NoOrphanWord` | |
| | `Refinement` | `ImplementsRecursiveLock`, of each lock | |
| `TrapNesting_proofs` | `TypeCorrect` | `TypeOK` | |
| | `ServedOnceSafe` | `ServedOnce` | |
| | `NestingSafe` | `NestingOrder` | `QuietCallbacks` |
| | `MaskSafe` | `MaskRestored` | `QuietCallbacks` |
| | `PrioritySafe` | `PriorityNesting` | `QuietCallbacks`, `PrivateSources` |
| `Iomem_proofs` | `TypeCorrect` | `TypeOK` | `FreeingHandlers` |
| | `TagsSafe` | `TagsAreBlocks` | `FreeingHandlers` |
| | `LineSafe` | `LineBelowBlocks` | `FreeingHandlers` |
| | `Refinement` | `ImplementsSharedHeap` | `FreeingHandlers` |
| `DmaTransfer_proofs` | `BufferSafe` | `BufferLive` | |
| | `QuietSafe` | `QuietWhenFree` | |
| | `ToldSafe` | `ToldOnceWhenDone` | `TakeTurns`, `SpiCallers` |
| `Timer_proofs` | `TypeCorrect` | `TypeOK` | |
| | `TickSafe` | `TickNotLost` | |
| | `SingleShotSafe` | `SingleShotOnce` | |
| | `SingleWithoutUnregister` | every single shot calls back once | nothing is unregistered |
| | `ServedSafe` | `ServedWhileRegistered` | `LoneUnregisters`, `MainRegisters` |
| `KpuTask_proofs` | `TypeCorrect` | `TypeOK`, until tasks collide | |
| | `InOrderSafe` | `InOrder` | |
| | `LayerAfterInputSafe` | `LayerAfterInput` | |
| | `OutputArmedSafe` | `OutputArmed` | |
| | `ToldSafe` | `ToldWhenDone` | |
| `ClockTree_proofs` | `TypeCorrect` | `TypeOK` | |
| | `CpuClockedSafe` | `CpuClocked` | |
| | `SettledSafe` | `SettledAsAsked` | |

The assumptions, and what TLC shows without them (section 6):

- `QuietCallbacks`: callbacks send IPIs and enable or disable sources; they do
  not touch `mie` or `mstatus`. A callback that stops the timer has its change
  undone by the handler (`clint.c:233`).
- `PrivateSources`: no two harts have a source enabled (or there is one hart).
  A hart that loses the race for a claim may claim a lower source with the
  threshold it has (`plic.c:184`).
- `FreeingHandlers`: interrupt handlers free and do not allocate. The end of a
  DMA transfer keeps to this, as it frees its bounce buffer; a callback that
  starts the next transfer of cached data, and so allocates another, does not.
  A handler that allocates in the middle of its hart's scan gets an overlapping
  block (`iomem.c:101`), so this is a rule the code needs and does not state.
- `TakeTurns`: harts do not have transfers with a callback on one device at
  the same time; the handler reads the callback after it has unlocked
  (`uart.c:425`). `SpiCallers`: an SPI unit a hart waits for is that hart's;
  the waiting caller unlocks before it switches the unit off (`spi.c:1577`).
- `LoneUnregisters`: a channel that is let go
  does not share its interrupt; `timer_irq_unregister` takes the handler from
  both (`timer.c:353`). `MainRegisters`: callbacks do not register; one that
  does while main is between the two halves of its own registration, or of an
  unregistration, can be left without a handler.

Four models record damage that the code does when its steps come in an
unlucky order, where others assume it away, and their properties say what
holds of everything else. The theorems take nothing of clients or timing for
this: `hit` (Reculock: a late store of a close), `strayed` (Timer: a handler
led to another interrupt's channels), `collided` (KpuTask: a task begun when
the one before was not over) and `disputed` (ClockTree: a lost update). Each
property is violated in its run when the exception is dropped, and each
exception is as narrow as the damage: a lock, a channel, a field of a word;
only `collided` ends what is said of a behaviour. In DmaTransfer, `Awaited` is
of this kind: who tells a client before the words are out is the handler of
another unit than 0, for data it sends.

Besides these, the modules' own assumptions: sentinels such as `NoCore` are
not harts, bounds are natural numbers, clients' calls are calls, and a network
has layers of which the last leaves its result in main memory (in `kpu_start`
and `kpu_run` the last alone, which is where `kpu_single_task_init` asks for
it). The rules of use in the models themselves hold here too, for instance that
nobody uses a lock of newlib's that is being initialised or closed (`Reculock`),
or frees a block twice (`Iomem`).

Each proof has an inductive invariant, one lemma per action that it is kept,
with a step per conjunct the action can disturb, and lemmas on what a step of
one hart or context leaves alone, so that each action is compared with others
only where they meet. TLC has checked each invariant on the instances of the
runs before it was proved.

**Corelock.** `IInv == TypeOK /\ InnerLockExact /\ CountIsNesting /\
OpMatches`. `MutualExclusion` follows from `CountIsNesting` (a hart with
levels is the one `core` names) but is not inductive: that `Take` may trust
`count` needs that no other hart is changing it (`InnerLockExact`), and that
`Return` gives a level to the right hart needs what `Take` left in `core`.
`OpMatches` says that: which function a hart can be in at each point, and that
a hart about to return with a level is the one `core` names. For the
refinement, `Return` of a lock or trylock maps to `Acquire`: `IInv` gives that
all other harts have no levels. `Drop` maps to `Release`: the owner that
unlocks has a level it has been given, since it is not at `release`. Every
other step leaves `depth` alone.

**Reculock.** Who is inside a lock's word, and who has the mutex, is one hart
(`WordExact`, `MutexExact`). A lock's entry is made under both, by a hart that
has looked under the word and found none, and the scan for a free entry under
the mutex does not make one for another lock of its own (`IdxMatches`); entries
are freed under the word alone, which can only help the scan. So there is at
most one entry per lock, and its counter is the levels of its hart
(`SlotCounts`), counting the level that a call has taken and not yet returned.
A close that is between its stores spoils at most the entry it has freed, and
the step that stores over a new owner's puts its lock into `hit`: the
invariant speaks of an entry's counter and core where no such store has come.
`NoOrphanWord` is `WordExact` and `MutexExact` read the other way: what is
taken has somebody at work in it, also after `show_error`.

**TrapNesting.** Three invariants, on the stack of each hart from the bottom
to the top. `OneService`: a source is pending or in service, not both, and one
frame of all harts serves it; the claim, one access, is what makes this
true without any rule for clients. `Masks`: a frame's saved `mie` and
threshold are those its predecessor set (`OnTop`), so popping a frame leaves
the registers of the one below, by induction along the stack; frames are
ordered by `Rank` because each takes itself and all below it out of `mie`.
`Priorities`: thresholds rise along the stack, so the source claimed is above
the ones already being served. That a hart between trap and claim still has a
source above its threshold (`MEIP`) is what fails when another hart may take it.

**Iomem.** The scan, the tags and the two lines are many steps, and handlers
free in the middle of them. A context owns a part of the table (`Part`) from
the step that finds free entries to the one that gives the block out, or from
the call of `iomem_free` to the step that clears the last tag. `Placed`: parts
and clients' blocks never overlap. `Tagged`: the tags in the table are theirs,
at points that say which of the two are written (`Marks`), and nobody else's;
so an entry that is not 0 stands for a whole block, and a scan that skips by
it never lands inside one. `LineLow`: `_ioheap_line` is at or below every
block. `HeapLow`: so are `_heap_line` and `_heap_cur`, except between a line's
move and the check that compares it with the other, or after a check that
failed and stopped its hart for good (`IoPending`, `BrkPending`): each
allocator moves first and looks at the other's line after, so that at least
one of two that meet sees the collision. In the refinement the steps that
give a block to a client, take it at the call of free, and move `_heap_cur`
are SharedHeap's; all others stutter.

**DmaTransfer.** `IInv`: while the spinlock is taken, either one context is at
work under it, and the point it has reached says what it has set up or given
back (`Phase`); or nobody is, and the transfer is in flight (`Flight`): the
channel has its buffer, the interrupt is armed for the one hart whose
handler will end it. With the lock free nothing is left behind (`Quiet`). This
takes nothing of the clients, since whoever gets the lock finds `Quiet`. A
second invariant, `JInv`, says whose transfer is in flight and how far its data
has come, for `ToldSafe`; there the clients' rules come in. That the channel
has moved the words holds of every unit, because the handler is entered by the
channel's own interrupt; that they are out is what the wait adds, when it is
for the transfer's own unit.

**Timer.** `Ticks`: an expiry is owed while its channel runs, is set in the
raw status, and is in no callback; the status is cleared channel by channel,
after the callback, so whoever clears it owes nothing for it. `Once`: a single
shot that has fired is disabled or has its callback on the stack, and no frame
still has its channel ahead. For this, the handlers on the stack are those of
different interrupts, and one that is past its reads either scans its own
channels or has put those it scans into `strayed` (`Guided`); what happens
between its reads does not matter, because `strayed` is decided by what they
gave. `Served`: a registered channel has a handler whose context is a
registered record of its interrupt, or main is about to set it.

**KpuTask.** A state is described by where the frames have got to: each is the
rest of one of a few programs of `kpu.c`, `k` of whose statements are done
(`FrameOf`), and the invariant says for each place what may still happen.
`Pipe(m)` holds throughout: the layers computed, the one in the accelerator and
those in its queue are 1 to `m`, where `m` is the layers taken and those that
the loops of the frames have written since (`at + i + ii`). So the only thing
that can go wrong with the order is a second writer in the middle of a burst.
For `kpu_start` that is what the masks are for (`AiFacts`: while
`kpu_data_ready` writes the first burst, everything is masked and nothing is
pending; `SuspendedFacts`: main, interrupted after its own burst, had written
all layers); for `kpu_run` the priorities are equal. The channel is in one of
three states (`DmaFacts`): it brings the input and no layer is written; it
waits for the output, from before the first layer is written; or it is off and
its interrupt is on its way. For `kpu_run_kmodel` there are two kinds of state:
a frame is at work and the hardware has nothing to do (`Working`), or the
hardware is at work, at one of four stages (`Waiting`), and all frames have
left is to return. All of this holds until `collided`: a task that begins with
`Unfinished` false meets a KPU without an interrupt to be handled and main at
rest, which is the start that the places describe. What is delivered is counted
against the layers computed that send their result (`Counted`), which makes
`ToldWhenDone` a matter of an idle channel and an empty queue.

**ClockTree.** A call is a program of loads, stores and waits, and the harts'
programs interleave. The invariant says of each hart what the *rest* of its
program still does (`Own`): every store is of a word read since it last changed
(`Covered`), and each field of a word the call writes is either still to be set
to what the call means, last of all (`Leaves`), or left alone from here on and
already so (`Spares`). Such statements hold of a whole program because they
hold of the parts it is put together from, whatever the parts' order, and pass
from a program to its tail with every step. `CpuClocked` needs the order of one
program: the CPU enters PLL0 with the last step, after the wait for its lock
and with nothing that unlocks it in between (`AwaitsLock`), and PLL0 is touched
only after the CPU has left it (`QuitsFirst`). Other harts' loads and stores
come between any two of these. A store sets its fields and writes back what
its hart has read of the others; where that is no longer what the word holds,
the word is `stale` for this hart and `PutBack` has the fields that change. So
a field outside `disputed` changes only by a store that means to set it, and
two of those at once have put it into `disputed` when the second call began.

Not proved, and why:

- Liveness under fairness: TLAPS does none here. `LockReturns`,
  `StuckOnlyOnFirstSlot`, `IpiServed`, `SourceServed`, `TransferEnds`,
  `TickAnswered`, `TaskEnds`, `FramesShown` and `CallsReturn` are TLC's.
- `PllNearest`: what the search for dividers computes is an induction over the
  turns of its loop, which the installed provers cannot state; TLC evaluates it
  for the frequencies given in section 3.
- `FrameKept`, `TargetsWhole` and `Core1Called`: the application has no
  parameters, and TLC has seen every state it has.

`InnerLockExact` and the `TypeOK`s other than Corelock's are not properties of
a run: they are what the others rest on.

## 6. Where the code does not do what it says

1. *An enable is lost.* `plic_irq_enable` reads the word of 32 enables,
   changes it and writes it back with interrupts enabled (`plic.c:83`); if a
   callback enables another source of the word in between, its call returns 0,
   "Success" (`plic.h:393`), and the source stays disabled. `kpu.c` enables
   the AI interrupt from a DMA interrupt. Run `trap_enable`.
2. *brk does not return.* `syscalls.c:176` promises memory below `_heap_end`
   or -1; `sys_brk` of an address that passes `_ioheap_line` loops for ever,
   holding newlib's malloc lock (`syscalls.c:196`). Run `iomem_brk`.

TLC also shows the following, which have no run of their own (of most of them
no document, comment or test says anything to the contrary); they are hazards
in `PROJECT.json`, with a note on what the runs leave out because of them, and
each can be reproduced by the change named:

- *A timer stopped by a callback keeps running.* `clint_timer_stop` clears
  `MIE_MTIE`; when it is called by the timer's own callback, or by a PLIC
  callback, the handler then writes back the `mie` it saved (`clint.c:233`,
  `plic.c:203`). `TrapCore.cfg` with `"timer_stop"` among `CallbackCalls`
  violates `MaskRestored`.
- *Nested newlib locks deadlock* (`locks.c:184`): a hart that holds the lock
  of the first slot and waits for another waits for its own counter, also when
  the other lock has long been free. `StuckOnlyOnFirstSlot` without its
  exception for `slot[1].counter` is violated.
- *A handler that allocates in the middle of its hart's scan* gets an
  overlapping block (`iomem.c:101`). `Iomem.cfg` with `IsrCalls = {"malloc"}`
  violates `TagsAreBlocks`, and without it `ImplementsSharedHeap`.
- *A hart that loses the race for a claim serves a lower source*
  (`plic.c:184`): it sets its threshold to the priority of what it claims, and
  that is whatever is left. If other harts have the sources too, a source can
  be served above a higher one of its own hart: two harts that have three
  sources enabled violate `PriorityNesting`.
- *The handler reads the callback after it has unlocked* (`uart.c:425`), and
  *calls the client before the PLIC completion* (`uart.c:427`): with
  `TakeTurns = FALSE` another hart's transfer is told instead, and two harts
  whose callbacks wait for each other's transfers deadlock.
- *A timer channel loses its handler with its neighbour* (`timer.c:353`):
  `timer_irq_unregister` of one channel of a pair removes the handler of both
  when the unit's other interrupt has no callback (`||` where the comment
  above it, "Combine 0 and 1 to A interrupt, 2 and 3 to B interrupt", wants
  one group), and leaves a handler whose context has been reset when it has.
  With a channel of the pair in `Unregisters`, `ServedWhileRegistered` is
  violated.
- *A channel that is let go leads its handler astray* (`timer.c:283`): its
  context is a zeroed record. If the record is zeroed before the handler reads
  it, the handler serves unit 0, group A; if a nested callback zeroes it
  between the reads of device and channel, the handler serves group A of its
  own unit, also while that group's handler is at work. A single shot may then
  be called back twice: `SingleShotOnce` over all channels, without
  `\ strayed`, is violated with `MaxCalls = 8` and `MaxTicks = 3` in
  `Timer.cfg`, bounds too large for the other properties of the run.
- *The late stores of a close* (`locks.c:97-102`): `reculock_deinit` zeroes
  counter and core of an entry that another hart may have taken since it
  stored NULL for the lock. `SlotIsNesting` and `ImplementsRecursiveLock` over
  all locks, without `\ hit`, are violated in `ReculockNested.cfg`.
- *Handlers look at unit 0* (`uart.c:421`, `spi.c:93-98`, `i2c.c:282`): the
  unit's number in the instance is never assigned. With `unit` 1 a client is
  told before its data is out (`ToldOnceWhenDone` without `Awaited`), an SPI
  unit stays enabled, and an abort of I2C 0 ends a transfer of I2C 1 without a
  word to its client (`TransferEnds` with `spoiled` in place of `dropped`).
- *A frame that ends inside the camera's handler* (`main.cpp:343`): if a frame
  that was to be converted ends after the look at the finish event,
  `dvp_start_convert` arms the next one, which the camera then writes over the
  one core 1 shows. `FrameKept` without `overrun` is violated.
- *A waited-for SPI transfer unlocks before it switches the unit off*
  (`spi.c:1577`): with `Waiting("spi_send", c1)` among the calls, another
  hart's transfer is switched off and its data is lost (`ToldOnceWhenDone`).
- *A short SPI send with a callback* can be done before main has selected the
  slave; the handler then waits for a FIFO that nobody drains (`spi.c:95`):
  with `Asynchronous("spi_send", c0)` among the calls.
- *The first `iomem_malloc` may clear the other hart's heap* (`iomem.c:65`): it
  reads the heap's line without newlib's malloc lock and clears what is above.
  `ClearSparesHeap` is violated in `Iomem.cfg`.
- *A late AI interrupt* (`kpu.c:117`): the KPU is not masked when a `kpu_run`
  task ends, and an interrupt of its last layer that other handlers keep off
  until the next task is handled as one of that task.
- *A callback that starts a task while main is still in `kpu_start`*
  (`kpu.c:344`): for a task whose input is in place, main stores the number of
  remaining layers after the task may have ended, over those of the next.
  Both are in run `kpu`: without the exception for `collided`, each of the five
  properties is violated.
- *A late hart 1 zeroes PLIC priorities* (`plic.c:40`): both harts may find the
  flag of `plic_init` unset, and hart 1's loop may then run after main of hart
  0 has set a priority. `Gesture.cfg` with `Core1Late = TRUE` violates
  `FramesShown`.
- *Words of the system controller have no lock* (`sysctl.c:393`,
  `sysctl.c:1619`): one call undoes another's gate or selection, or takes the
  power from a PLL that the other waits for. Both are in run `clock`:
  `SettledAsAsked` and `CallsReturn` are violated without their exceptions for
  `disputed`.
- *The fast set-up* (`sysctl.c:1694`) reprograms PLL0 without moving the CPU
  off it, unlike `sysctl_pll_set_freq`: called with the CPU on PLL0 it violates
  `CpuClocked`.
- *The PLL search is not always right* (`sysctl.c:1096`). Its loop ends before
  `nf_max = 64`, a legal NF, and a turn of NF = 32 that could be scaled up waits
  for that of NF = 64. So 119 and 277 MHz get a setting that NF = 32 would
  better; NF = 64 would be nearer for 28 more whole numbers of MHz from 10 to
  1750, and is the only one for those from 1664 to 1690, which are refused.
  With `Reached` all legal settings, `PllNearest` is violated. Above `vco_max`
  the loop would divide by zero (`sysctl.c:1122`), but with the crystal's
  26 MHz it has no turn from 1664 MHz on; PLL2 fed from another PLL, which has,
  is not modelled.

Read in the code while modelling it, and either plain behaviour of the models or
outside them:

- *An aborted I2C transfer is not told, or told as if done* (`i2c.c:290`): the
  handler returns without the callback if it sees the abort before the FIFO is
  empty, and calls it otherwise. A waited-for transfer ends in an assertion.
- *Two KPU interfaces at once*: three interfaces, two flags (`kpu.c:145`,
  `kpu.c:339`), and none for `kpu_run_kmodel`.
- *The image is copied for the network without its lock* (`main.cpp:480`): the
  calls that would take it are commented out.
- *`sysctl_cpu_set_freq` returns PLL0's frequency* (`sysctl.c:1813`), where
  `sysctl.h:1038` has "The actual frequency of CPU after set"; and it asks PLL0
  for `(divider + 1) * 2` times the CPU's frequency, where the tree divides by
  `2 << divider` (`sysctl.c:1310`): the two agree for dividers 0 and 1.
- *DVP is not among the clocks that open APB1* (`sysctl.c:212`), although the
  comment above the list names it.

## 7. What is left out

- Memory order: each access is atomic and sequentially consistent. The locks
  have a fence after the swap and before the store that frees them, so this
  matters only for what is read without a lock, and such reads are steps of
  their own here.
- In the table of section 1, everything without a module; `PROJECT.json` has
  the reason for each component. Most are register programming without state.
- `iomem_unused`, which only reads, and clients that free a block twice or an
  address inside one: the code does not defend itself against them.
- In DmaTransfer: two channels at once (TRANS_RECV, EEROM, I2C receive), fill
  mode, linked lists and shadow registers, the older `uart_*_dma`, `spi_*_dma`
  and `i2c_*_dma` calls, lengths. Of the handlers that look at unit 0, what they
  do to a transfer of unit 0's own: an SPI handler of another unit may switch
  SPI 0 off under it. What a receive finds on an SPI unit that was left
  enabled is left out too. `i2s_handle_data_dma` is another protocol: it
  has no lock, waits for the channel to be idle and leaves everything else to
  its caller.
- In Timer: the deprecated `timer_set_irq` and `timer_isr`, which reads the
  end-of-interrupt of the whole unit, the conversion of `timer_set_interval`,
  a second core. A handler's claim is one step with what it finds in the PLIC
  (TrapNesting has the claim in detail).
- In TrapNesting: registration of callbacks (one is always there), PLIC
  priorities changed while in use, the fence and counter registers, nested
  traps of an exception inside a handler.
- In KpuTask: what a layer computes and where its results lie in the KPU's
  memory, loading a model, the setting up of a task, two interfaces used
  together, a second core.
- In Gesture: drawing, the network and the merging of its boxes, the LCD, the
  ring of key events, which nothing reads, and console and libc set-up at boot.
- In ClockTree: PLL2, which differs in its choice of input, the bypass bits,
  thresholds and selects other than one of each kind (they are further fields
  of the same words), resets of devices but of
  one and the console's, power modes, and the calls that only read.
- The semaphore of `atomic.h`, a counter under a spinlock that nothing in the
  repository uses, and pure algorithms over bytes (SHA-256, AES, FFT, the
  decoding of misaligned accesses).
- The number 1024 of lock slots, 12 layers of a burst, 256 bytes of a block and
  the widths of counters: no property depends on them at sizes that a program
  can reach.

## 8. Plan

Modelled and checked: RecursiveLock, Corelock, Reculock, TrapNesting,
SharedHeap, Iomem, DmaTransfer, Timer, KpuTask, Gesture, PllSearch, ClockTree.
Proved: the safety properties and refinements of Corelock, Reculock,
TrapNesting, Iomem, DmaTransfer, Timer, KpuTask and ClockTree, all but those
listed at the end of section 5.

Further modelling would start with a second channel in DmaTransfer
(TRANS_RECV, EEROM), and with two interfaces of the KPU used together; further
proofs with what `kpu_run` would keep if it masked the KPU at the end of a
task, the one statement that is missing there, and no `collided` with it.

## Running

    tlc -workers 2 -config Corelock.cfg Corelock.tla
    tlc -workers 2 -config Dma.cfg MCDma.tla
    tlc -workers 2 -config Clock.cfg ClockTree.tla
    tlapm Corelock_proofs.tla

and likewise for every run of `PROJECT.json` and the other `_proofs` modules.
The longest proofs, `Iomem_proofs` and `KpuTask_proofs`, take some minutes.
