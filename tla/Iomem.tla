------------------------------- MODULE Iomem -------------------------------
(***************************************************************************)
(* drivers/iomem.c, the allocator of non-cached memory, and sys_brk of     *)
(* bsp/syscalls.c, which shares the memory with it.  iomem.c keeps a table *)
(* with one entry per block of 256 bytes: the first and the last entry of  *)
(* an allocated block hold its length, every other entry is 0.  _heap_line *)
(* is how far the C heap has ever grown, _ioheap_line how far down blocks  *)
(* have been given out; each side moves its line and then looks at the     *)
(* other's.                                                                *)
(*                                                                         *)
(* Every loop iteration and every access to a shared variable is a step.   *)
(* The recursive lock keeps the other core out, but not an interrupt of    *)
(* the core that has it: a core's "isr" context runs calls of its own in   *)
(* the middle of the call of its "main" context.  Addresses count blocks,  *)
(* from _heap_start.                                                       *)
(***************************************************************************)
EXTENDS Integers, FiniteSets

CONSTANTS
    Cores,          \* the harts
    IsrCores,       \* those whose interrupt handlers call iomem
    IsrCalls,       \* what the handlers call: a subset of {"malloc", "free"}
    BrkCores,       \* the harts whose C heap grows or shrinks
    Size,           \* _heap_end - _heap_start, in blocks
    Lengths,        \* the lengths asked for, in blocks
    Nobody,         \* no core
    MaxCalls        \* bound: calls of all contexts together

ASSUME CoresAssumption == IsrCores \subseteq Cores /\ BrkCores \subseteq Cores /\ Nobody \notin Cores
ASSUME IsrCallsAssumption == IsrCalls \subseteq {"malloc", "free"}
ASSUME SizeAssumption == Size \in Nat \ {0} /\ Lengths \subseteq 1..Size
ASSUME MaxCallsAssumption == MaxCalls \in Nat

VARIABLES
    memrdy, membase, memtblsize, memmap,    \* malloc_cortol
    ioheapLine, heapLine, heapCur,          \* _ioheap_line, _heap_line, _heap_cur
    held,                                   \* held[c]: levels of iomem_lock that core c has
    mallocLock,                             \* the core inside newlib's malloc, or Nobody
    ctx,                                    \* where each context is, and its locals
    live,                                   \* the blocks clients have
    calls                                   \* calls made

table == <<memrdy, membase, memtblsize, memmap>>
lines == <<ioheapLine, heapLine, heapCur>>
locks == <<held, mallocLock>>
vars == <<table, lines, locks, ctx, live, calls>>

Contexts == (Cores \X {"main"}) \cup (IsrCores \X {"isr"})
Core(p) == p[1]

(* iomem_lock, a recursive lock of newlib's: Reculock is shown to keep the *)
(* promises of RecursiveLock. *)
Lock == INSTANCE RecursiveLock WITH Cores <- Cores, held <- held

Idle == [pc |-> "idle", op |-> "none", len |-> 0, off |-> 0, kmemb |-> 0, nmemb |-> 0, pos |-> 0]

Init ==
    /\ memrdy = FALSE
    /\ membase = 0
    /\ memtblsize = 0
    /\ memmap = [i \in 0..(Size - 1) |-> 0]
    /\ ioheapLine = Size
    /\ heapLine = 0
    /\ heapCur = 0
    /\ held = [c \in Cores |-> 0]
    /\ mallocLock = Nobody
    /\ ctx = [p \in Contexts |-> Idle]
    /\ live = {}
    /\ calls = 0

-----------------------------------------------------------------------------
At(p, pc) == ctx[p].pc = pc

(* Main does not run while its core's handler does. *)
HandlerIdle(c) == \A q \in Contexts : q = <<c, "isr">> => At(q, "idle")
Runs(p) == p[2] = "isr" \/ HandlerIdle(Core(p))

(* An ecall runs with interrupts disabled. *)
InEcall(p) == ctx[p].pc \in {"brk", "brkcheck", "brkcur"}

Goto(p, pc) == ctx' = [ctx EXCEPT ![p].pc = pc]
Set(p, r) == ctx' = [ctx EXCEPT ![p] = r]

MayCall(p, name) ==
    /\ calls < MaxCalls
    /\ At(p, "idle") /\ Runs(p)
    /\ p[2] = "isr" => name \in IsrCalls /\ ~InEcall(<<Core(p), "main">>)
    /\ calls' = calls + 1

CallMalloc(p, len) ==
    /\ MayCall(p, "malloc")
    /\ Set(p, [Idle EXCEPT !.pc = "acquire", !.op = "malloc", !.len = len])
    /\ UNCHANGED <<table, lines, locks, live>>

(* A block is freed by whoever has it, a handler's own core or the other.  *)
CallFree(p, b) ==
    /\ MayCall(p, "free")
    /\ Set(p, [Idle EXCEPT !.pc = "acquire", !.op = "free", !.off = b[1] - membase])
    /\ live' = live \ {b}
    /\ UNCHANGED <<table, lines, locks>>

Acquire(p) ==
    /\ Runs(p) /\ At(p, "acquire")
    /\ Lock!Acquire(Core(p))
    /\ Goto(p, IF memrdy THEN ctx[p].op ELSE "table")
    /\ UNCHANGED <<table, lines, mallocLock, live, calls>>

-----------------------------------------------------------------------------
(* iomem_init: base and size are taken from where the lines are; the table *)
(* comes from malloc, which may or may not move the heap's line; then base *)
(* and size are taken again, and everything in between is cleared.  (A     *)
(* malloc that fails returns NULL, which is written to: "hang".)           *)
Table(p) ==
    /\ Runs(p) /\ At(p, "table")
    /\ membase' = heapLine
    /\ memtblsize' = ioheapLine - heapLine
    /\ mallocLock = Nobody
    /\ \/ mallocLock' = Core(p) /\ Set(p, [ctx[p] EXCEPT !.pc = "brk", !.pos = heapCur + 1])
       \/ heapCur > 0 /\ Goto(p, "base") /\ UNCHANGED mallocLock
    /\ UNCHANGED <<memrdy, memmap, lines, held, live, calls>>

Base(p) ==
    /\ Runs(p) /\ At(p, "base")
    /\ membase' = heapLine
    /\ Goto(p, "size")
    /\ UNCHANGED <<memrdy, memtblsize, memmap, lines, locks, live, calls>>

TableSize(p) ==
    /\ Runs(p) /\ At(p, "size")
    /\ memtblsize' = ioheapLine - membase
    /\ Goto(p, "clear")
    /\ UNCHANGED <<memrdy, membase, memmap, lines, locks, live, calls>>

Clear(p) ==
    /\ Runs(p) /\ At(p, "clear")
    /\ memmap' = [i \in DOMAIN memmap |-> 0]
    /\ memrdy' = TRUE
    /\ Goto(p, IF ctx[p].op = "malloc" THEN "malloc" ELSE "release")
    /\ UNCHANGED <<membase, memtblsize, lines, locks, live, calls>>

-----------------------------------------------------------------------------
(* k_malloc: from the top of the table down, count free entries.           *)
StartScan(p) ==
    /\ Runs(p) /\ At(p, "malloc")
    /\ Set(p, [ctx[p] EXCEPT !.pc = "scan", !.off = memtblsize - 1])
    /\ UNCHANGED <<table, lines, locks, live, calls>>

Enough(p) == ctx[p].kmemb + 1 = ctx[p].len

ScanFree(p) ==
    /\ Runs(p) /\ At(p, "scan")
    /\ ctx[p].off >= 0 /\ memmap[ctx[p].off] = 0
    /\ IF Enough(p)
       THEN Goto(p, "tagfirst")
       ELSE Set(p, [ctx[p] EXCEPT !.off = @ - 1, !.kmemb = @ + 1])
    /\ UNCHANGED <<table, lines, locks, live, calls>>

ScanUsed(p) ==
    /\ Runs(p) /\ At(p, "scan")
    /\ ctx[p].off >= 0 /\ memmap[ctx[p].off] # 0
    /\ Goto(p, "skip")
    /\ UNCHANGED <<table, lines, locks, live, calls>>

(* The entry is read again: a handler may have freed the block. *)
SkipTo(off) == off - memmap[off]

Skip(p) ==
    /\ Runs(p) /\ At(p, "skip")
    /\ Set(p, [ctx[p] EXCEPT !.pc = "scan", !.off = SkipTo(@), !.kmemb = 0])
    /\ UNCHANGED <<table, lines, locks, live, calls>>

(* Nothing fits: NULL. *)
ScanFails(p) ==
    /\ Runs(p) /\ At(p, "scan")
    /\ ctx[p].off < 0
    /\ Goto(p, "release")
    /\ UNCHANGED <<table, lines, locks, live, calls>>

TagFirst(p) ==
    /\ Runs(p) /\ At(p, "tagfirst")
    /\ memmap' = [memmap EXCEPT ![ctx[p].off] = ctx[p].len]
    /\ Goto(p, "taglast")
    /\ UNCHANGED <<memrdy, membase, memtblsize, lines, locks, live, calls>>

(* Mutant of LastOf: the entry behind the block. *)
BehindLast(off, len) == off + len

LastOf(off, len) == off + len - 1

TagLast(p) ==
    /\ Runs(p) /\ At(p, "taglast")
    /\ memmap' = [memmap EXCEPT ![LastOf(ctx[p].off, ctx[p].len)] = ctx[p].len]
    /\ Goto(p, "line")
    /\ UNCHANGED <<memrdy, membase, memtblsize, lines, locks, live, calls>>

(* iomem_malloc: the line comes down to the block, if it is above it. *)
Address(p) == membase + ctx[p].off

LineTest(p) ==
    /\ Runs(p) /\ At(p, "line")
    /\ Goto(p, IF ioheapLine > Address(p) THEN "lower" ELSE "return")
    /\ UNCHANGED <<table, lines, locks, live, calls>>

Lower(p) ==
    /\ Runs(p) /\ At(p, "lower")
    /\ ioheapLine' = Address(p)
    /\ Goto(p, "check")
    /\ UNCHANGED <<table, heapLine, heapCur, locks, live, calls>>

(* Has the heap come this far?  Then the core stops for good. *)
(* Mutant of IoCollides: the check of iomem_malloc is dropped. *)
IoNeverCollides == FALSE

IoCollides == ioheapLine < heapLine

Check(p) ==
    /\ Runs(p) /\ At(p, "check")
    /\ Goto(p, IF IoCollides THEN "hang" ELSE "return")
    /\ UNCHANGED <<table, lines, locks, live, calls>>

Return(p) ==
    /\ Runs(p) /\ At(p, "return")
    /\ Lock!Release(Core(p))
    /\ live' = live \cup {<<Address(p), ctx[p].len>>}
    /\ Set(p, Idle)
    /\ UNCHANGED <<table, lines, mallocLock, calls>>

Release(p) ==
    /\ Runs(p) /\ At(p, "release")
    /\ Lock!Release(Core(p))
    /\ Set(p, Idle)
    /\ UNCHANGED <<table, lines, mallocLock, live, calls>>

-----------------------------------------------------------------------------
(* k_free: both tags are cleared; a block at the line takes it along. *)
UntagFirst(p) ==
    /\ Runs(p) /\ At(p, "free")
    /\ Set(p, [ctx[p] EXCEPT !.pc = "untaglast", !.nmemb = memmap[ctx[p].off]])
    /\ memmap' = [memmap EXCEPT ![ctx[p].off] = 0]
    /\ UNCHANGED <<memrdy, membase, memtblsize, lines, locks, live, calls>>

UntagLast(p) ==
    /\ Runs(p) /\ At(p, "untaglast")
    /\ memmap' = [memmap EXCEPT ![LastOf(ctx[p].off, ctx[p].nmemb)] = 0]
    /\ Goto(p, "raisetest")
    /\ UNCHANGED <<memrdy, membase, memtblsize, lines, locks, live, calls>>

(* Mutant of RaiseTest: the line goes up wherever the block was. *)
RaiseAlways(p) ==
    /\ Runs(p) /\ At(p, "raisetest")
    /\ Goto(p, "raise")
    /\ UNCHANGED <<table, lines, locks, live, calls>>

RaiseTest(p) ==
    /\ Runs(p) /\ At(p, "raisetest")
    /\ Goto(p, IF ioheapLine = Address(p) THEN "raise" ELSE "release")
    /\ UNCHANGED <<table, lines, locks, live, calls>>

Raised(p) == ioheapLine + ctx[p].nmemb

Raise(p) ==
    /\ Runs(p) /\ At(p, "raise")
    /\ ioheapLine' = Raised(p)
    /\ Goto(p, "release")
    /\ UNCHANGED <<table, heapLine, heapCur, locks, live, calls>>

-----------------------------------------------------------------------------
(* sys_brk, called by newlib's malloc or free under its lock; it gives up  *)
(* at _heap_end.                                                           *)
CallBrk(p, pos) ==
    /\ p[2] = "main" /\ Core(p) \in BrkCores
    /\ MayCall(p, "brk")
    /\ mallocLock = Nobody
    /\ mallocLock' = Core(p)
    /\ Set(p, [Idle EXCEPT !.pc = "brk", !.op = "brk", !.pos = pos])
    /\ UNCHANGED <<table, lines, held, live>>

AfterBrk(p) == IF ctx[p].op = "brk" THEN Set(p, Idle) ELSE Goto(p, "base")

BrkFails(p) ==
    /\ At(p, "brk") /\ ctx[p].pos > Size
    /\ mallocLock' = Nobody
    /\ IF ctx[p].op = "brk" THEN Set(p, Idle) ELSE Goto(p, "hang")
    /\ UNCHANGED <<table, lines, held, live, calls>>

BrkLine(p) ==
    /\ At(p, "brk") /\ ctx[p].pos <= Size
    /\ IF ctx[p].pos > heapLine
       THEN heapLine' = ctx[p].pos /\ Goto(p, "brkcheck")
       ELSE Goto(p, "brkcur") /\ UNCHANGED heapLine
    /\ UNCHANGED <<table, ioheapLine, heapCur, locks, live, calls>>

HeapCollides == heapLine > ioheapLine

BrkCheck(p) ==
    /\ At(p, "brkcheck")
    /\ Goto(p, IF HeapCollides THEN "hang" ELSE "brkcur")
    /\ UNCHANGED <<table, lines, locks, live, calls>>

BrkCur(p) ==
    /\ At(p, "brkcur")
    /\ heapCur' = ctx[p].pos
    /\ mallocLock' = Nobody
    /\ AfterBrk(p)
    /\ UNCHANGED <<table, ioheapLine, heapLine, held, live, calls>>

-----------------------------------------------------------------------------
Malloc(p) ==
    \/ StartScan(p) \/ ScanFree(p) \/ ScanUsed(p) \/ Skip(p) \/ ScanFails(p)
    \/ TagFirst(p) \/ TagLast(p) \/ LineTest(p) \/ Lower(p) \/ Check(p) \/ Return(p)

Free(p) == UntagFirst(p) \/ UntagLast(p) \/ RaiseTest(p) \/ Raise(p)

Brk(p) == BrkFails(p) \/ BrkLine(p) \/ BrkCheck(p) \/ BrkCur(p)

Step(p) ==
    \/ Acquire(p) \/ Release(p)
    \/ Table(p) \/ Base(p) \/ TableSize(p) \/ Clear(p)
    \/ Malloc(p) \/ Free(p) \/ Brk(p)

Call(p) ==
    \/ \E len \in Lengths : CallMalloc(p, len)
    \/ \E b \in live : CallFree(p, b)
    \/ \E pos \in 0..(Size + 1) : CallBrk(p, pos)

Next == \E p \in Contexts : Call(p) \/ Step(p)

(* Each core runs; which of its contexts does is what Runs says. *)
Fairness == \A p \in Contexts : WF_vars(Step(p))

Spec == Init /\ [][Next]_vars /\ Fairness

-----------------------------------------------------------------------------
PCs == {"idle", "acquire", "table", "base", "size", "clear", "malloc", "scan", "skip", "tagfirst",
        "taglast", "line", "lower", "check", "return", "release", "free", "untaglast", "raisetest",
        "raise", "brk", "brkcheck", "brkcur", "hang"}

(* Type invariant: in particular, the scan stays in the table, and no tag  *)
(* is longer than it. *)
TypeOK ==
    /\ memrdy \in BOOLEAN
    /\ membase \in 0..Size /\ memtblsize \in 0..Size
    /\ memmap \in [0..(Size - 1) -> 0..Size]
    /\ ioheapLine \in 0..Size /\ heapLine \in 0..Size /\ heapCur \in 0..Size
    /\ held \in [Cores -> Nat]
    /\ mallocLock \in Cores \cup {Nobody}
    /\ ctx \in [Contexts -> [pc : PCs, op : {"none", "malloc", "free", "brk"}, len : 0..Size,
                             off : (-1)..(Size - 1), kmemb : 0..Size, nmemb : 0..Size,
                             pos : 0..(Size + 1)]]
    /\ live \subseteq (0..Size) \X (1..Size)
    /\ calls \in 0..MaxCalls

(* The two allocators together keep the promise of SharedHeap: a block is  *)
(* given out above the heap and apart from all other blocks, and the heap  *)
(* ends below every block, although each side checks the other's line only *)
(* after it has moved its own, under different locks.                      *)
Heap == INSTANCE SharedHeap WITH Size <- Size, brk <- heapCur, blocks <- live
ImplementsSharedHeap == Heap!Init /\ [][Heap!Next]_(Heap!vars)

InTable(b) == membase <= b[1] /\ b[1] + b[2] <= membase + memtblsize
Tags(b) == {b[1] - membase, LastOf(b[1] - membase, b[2])}
Quiet == \A p \in Contexts : ctx[p].pc \in {"idle", "acquire", "hang"} \/ InEcall(p)
Hung == \E p \in Contexts : At(p, "hang")

(* Between calls the table says exactly what clients have: the boundary    *)
(* tags of the live blocks, and nothing else.                              *)
Freeing == {p \in Contexts : At(p, "acquire") /\ ctx[p].op = "free"}

TagsAreBlocks ==
    memrdy /\ Quiet /\ ~Hung /\ Freeing = {} =>
        /\ \A b \in live : InTable(b) /\ \A i \in Tags(b) : memmap[i] = b[2]
        /\ \A i \in 0..(memtblsize - 1) : memmap[i] # 0 => \E b \in live : i \in Tags(b)

(* Between calls _ioheap_line is not above any block, so that the check in *)
(* sys_brk protects all of them, and _heap_line is not above it.           *)
LineBelowBlocks ==
    Quiet /\ ~Hung =>
        /\ \A b \in live : ioheapLine <= b[1]
        /\ (\A p \in Contexts : ctx[p].pc # "brkcheck") => heapLine <= ioheapLine

(* The memory iomem_init clears is not the C heap's: true on one core only, *)
(* see iomem_init's unlocked read of _heap_line (iomem.c:60-66).           *)
ClearSparesHeap == \A p \in Contexts : At(p, "clear") => heapCur <= membase

(* "If ptr is below _heap_end, then allocate memory.  Otherwise throw out  *)
(* of memory error, return -1" (syscalls.c): sys_brk comes back.           *)
BrkReturns == \A p \in Contexts : ctx[p].op = "brk" ~> ctx[p].op # "brk"

=============================================================================
