---------------------------- MODULE Iomem_proofs ----------------------------
(***************************************************************************)
(* Proofs about Iomem, for any memory, any number of harts and calls, and  *)
(* any clients whose interrupt handlers free but do not allocate           *)
(* (FreeingHandlers).                                                      *)
(*                                                                         *)
(* The argument: a context at work on a block owns a part of the table,    *)
(* from the step that finds free entries to the one that gives the block   *)
(* out, or from the call of free to the step that clears its last tag.     *)
(* Parts and the clients' blocks never overlap (Placed), the tags in the   *)
(* table are theirs and nobody else's (Tagged), and so a scan cannot step  *)
(* into the middle of a block, whatever a handler frees meanwhile.  The    *)
(* two lines stay below all of them except between a move and the check    *)
(* that follows it, or after a check that stopped its core (HeapLow).      *)
(***************************************************************************)
EXTENDS Iomem, TLAPS

FreeingHandlers == IsrCalls \subseteq {"free"}

-----------------------------------------------------------------------------
(* The inductive invariant. *)

PC(p) == ctx[p].pc
Op(p) == ctx[p].op

(* What a context does, and when it has iomem_lock. *)
InitPoints == {"table", "brk", "brkcheck", "brkcur", "base", "size", "clear"}
MallocPoints == {"malloc", "scan", "skip", "tagfirst", "taglast", "line", "lower", "check", "return", "release"}
FreePoints == {"free", "untaglast", "raisetest", "raise", "release"}
OpFits(p, o, l, ready) ==
    /\ p = "idle" <=> o = "none"
    /\ o = "malloc" => /\ p \in {"acquire", "hang"} \cup InitPoints \cup MallocPoints
                       /\ p \in InitPoints => ~ready
                       /\ p \in MallocPoints => ready
                       /\ l > 0
    /\ o = "free" => ready /\ p \in {"acquire"} \cup FreePoints
    /\ o = "brk" => p \in {"brk", "brkcheck", "brkcur", "hang"}
Ops == \A p \in Contexts : /\ OpFits(PC(p), Op(p), ctx[p].len, memrdy)
                           /\ p[2] = "isr" => Op(p) \in {"none", "free"}

Locked(p) == Op(p) \in {"malloc", "free"} /\ PC(p) # "acquire"
LockExact ==
    /\ \A p \in Contexts : Locked(p) => held[Core(p)] > 0
    /\ \A p, q \in Contexts : p # q /\ Locked(p) /\ Locked(q) => Core(p) = Core(q) /\ held[Core(p)] > 1

MallocExact ==
    \A p \in Contexts :
        /\ PC(p) \in {"brk", "brkcheck", "brkcur"} => mallocLock = Core(p)
        /\ p[2] = "main" /\ mallocLock = Core(p) => PC(p) \in {"brk", "brkcheck", "brkcur", "hang"}

(* The part of the table a context works on: the window of free entries a  *)
(* scan has found, the block it allocates, or the block it frees.          *)
Scans(p) == PC(p) \in {"scan", "skip"}
Owns(p) ==
    \/ Op(p) = "free" /\ PC(p) # "release"
    \/ PC(p) \in MallocPoints \ {"malloc", "release"}
    \/ PC(p) = "hang" /\ Op(p) = "malloc" /\ memrdy
Span(p) ==
    IF Scans(p) THEN ctx[p].kmemb
    ELSE IF Op(p) = "malloc" THEN ctx[p].len
    ELSE IF PC(p) \in {"acquire", "free"} THEN memmap[ctx[p].off]
    ELSE ctx[p].nmemb
Part(p) == <<IF Scans(p) THEN Address(p) + 1 ELSE Address(p), Span(p)>>

Apart(b, d) == b[1] + b[2] <= d[1] \/ d[1] + d[2] <= b[1]
Within(b) == membase <= b[1] /\ b[1] + b[2] <= membase + memtblsize

(* Blocks and the parts contexts work on do not overlap. *)
Placed ==
    /\ \A b \in live : Within(b) /\ b[2] > 0
    /\ \A p \in Contexts : Owns(p) => Within(Part(p)) /\ (Scans(p) \/ Span(p) > 0)
    /\ \A b, d \in live : b # d => Apart(b, d)
    /\ \A p \in Contexts, b \in live : Owns(p) => Apart(Part(p), b)
    /\ \A p, q \in Contexts : p # q /\ Owns(p) /\ Owns(q) => Apart(Part(p), Part(q))

(* The table has their boundary tags, and nothing else. *)
Marks(p) ==
    IF ~Owns(p) THEN {}
    ELSE IF PC(p) \in {"acquire", "free", "line", "lower", "check", "return", "hang"}
    THEN {ctx[p].off, LastOf(ctx[p].off, Span(p))}
    ELSE IF PC(p) = "taglast" THEN {ctx[p].off}
    ELSE IF PC(p) = "untaglast" THEN {LastOf(ctx[p].off, Span(p))}
    ELSE {}
Tagged ==
    /\ \A b \in live : \A i \in Tags(b) : memmap[i] = b[2]
    /\ \A p \in Contexts : PC(p) # "untaglast" => \A i \in Marks(p) : memmap[i] = Span(p)
    /\ \A i \in 0 .. (Size - 1) :
          memmap[i] # 0 => (\E b \in live : i \in Tags(b)) \/ (\E p \in Contexts : i \in Marks(p))

(* Where the lines are. *)
IoPending == \E p \in Contexts : PC(p) = "check" \/ (PC(p) = "hang" /\ Op(p) = "malloc" /\ memrdy)
BrkPending == \E p \in Contexts : mallocLock = Core(p) /\ PC(p) \in {"brkcheck", "hang"} /\ p[2] = "main"
Lowered(p) == (Op(p) = "free" /\ PC(p) # "release") \/ PC(p) \in {"check", "return"}
LineLow ==
    /\ \A b \in live : ioheapLine <= b[1]
    /\ \A p \in Contexts : Lowered(p) => ioheapLine <= Address(p)
    /\ \A p \in Contexts : PC(p) \in {"raise", "check"} => ioheapLine = Address(p)
    /\ \A p \in Contexts : PC(p) = "lower" => Address(p) < ioheapLine
HeapLow ==
    /\ heapCur <= heapLine
    /\ \A p \in Contexts : PC(p) \in {"brkcheck", "brkcur"} => ctx[p].pos <= heapLine
    /\ \A b \in live : heapCur <= b[1] /\ (heapLine <= b[1] \/ BrkPending)
    /\ \A p \in Contexts : PC(p) = "return" => heapCur <= Address(p) /\ (heapLine <= Address(p) \/ BrkPending)
    /\ heapLine <= ioheapLine \/ BrkPending \/ IoPending
    /\ heapCur <= ioheapLine \/ IoPending

(* Before iomem_init there is nothing. *)
Unready ==
    /\ ~memrdy => live = {} /\ ioheapLine = Size
    /\ memrdy \/ (\E p \in Contexts : PC(p) = "clear") => membase + memtblsize <= Size

(* How far each scan has come. *)
Scanned(g) ==
    /\ g.pc \in {"acquire", "table", "brk", "brkcheck", "brkcur", "base", "size", "clear", "malloc"} =>
          g.kmemb = 0
    /\ g.pc \in {"scan", "skip"} => g.kmemb < g.len
    /\ g.pc = "skip" => g.off >= 0
Scanning == \A p \in Contexts : Scanned(ctx[p])

Records ==
    [pc : PCs, op : {"none", "malloc", "free", "brk"}, len : 0..Size, off : (-1)..(Size - 1),
     kmemb : 0..Size, nmemb : 0..Size, pos : 0..(Size + 1)]
Types ==
    /\ memrdy \in BOOLEAN
    /\ membase \in 0..Size /\ memtblsize \in 0..Size
    /\ memmap \in [0..(Size - 1) -> 0..Size]
    /\ ioheapLine \in 0..Size /\ heapLine \in 0..Size /\ heapCur \in 0..Size
    /\ held \in [Cores -> Nat]
    /\ mallocLock \in Cores \cup {Nobody}
    /\ ctx \in [Contexts -> Records]
    /\ live \subseteq (0..Size) \X (1..Size)
    /\ calls \in 0..MaxCalls

IInv ==
    /\ Types /\ Ops /\ LockExact /\ MallocExact /\ Unready /\ Scanning
    /\ Placed /\ Tagged /\ LineLow /\ HeapLow

-----------------------------------------------------------------------------
(* What a step does to the contexts. *)

LEMMA ContextParts ==
    ASSUME NEW p \in Contexts
    PROVE  /\ Core(p) \in Cores /\ p = <<Core(p), p[2]>> /\ p[2] \in {"main", "isr"}
           /\ \A q \in Contexts : Core(q) = Core(p) /\ q[2] = p[2] => q = p
BY CoresAssumption DEF Contexts, Core

LEMMA RecordParts ==
    ASSUME NEW g \in Records
    PROVE  /\ g.pc \in PCs /\ g.op \in {"none", "malloc", "free", "brk"} /\ g.len \in 0..Size
           /\ g.off \in (-1)..(Size - 1) /\ g.kmemb \in 0..Size /\ g.nmemb \in 0..Size
           /\ g.pos \in 0..(Size + 1)
BY DEF Records

Moved(p, g) ==
    /\ ctx' \in [Contexts -> Records] /\ g \in Records
    /\ ctx'[p] = g
    /\ \A q \in Contexts : q # p => ctx'[q] = ctx[q]

SameLocals(g, h) ==
    g.len = h.len /\ g.off = h.off /\ g.kmemb = h.kmemb /\ g.nmemb = h.nmemb /\ g.pos = h.pos

LEMMA SetMoved ==
    ASSUME Types, NEW p \in Contexts, NEW g \in Records, Set(p, g)
    PROVE  Moved(p, g)
BY DEF Types, Set, Moved

LEMMA GotoMoved ==
    ASSUME Types, NEW p \in Contexts, NEW c \in PCs, Goto(p, c)
    PROVE  \E g : Moved(p, g) /\ g.pc = c /\ g.op = Op(p) /\ SameLocals(g, ctx[p])
<1> DEFINE h == ctx[p]
           g == [h EXCEPT !.pc = c]
<1>1. h \in Records /\ ctx \in [Contexts -> Records]
  BY DEF Types
<1>2. ctx' = [ctx EXCEPT ![p] = g]
  BY DEF Goto
<1> HIDE DEF h
<1>3. g \in Records /\ g.pc = c /\ g.op = h.op /\ SameLocals(g, h)
  BY <1>1 DEF Records, SameLocals
<1> HIDE DEF g
<1>4. Moved(p, g)
  BY <1>1, <1>2, <1>3 DEF Moved
<1> QED
  BY <1>3, <1>4 DEF h, Op

LEMMA IdleRecord ==
    /\ Idle \in Records /\ Idle.pc = "idle" /\ Idle.op = "none" /\ Idle.kmemb = 0
BY SizeAssumption DEF Idle, Records, PCs

-----------------------------------------------------------------------------
(* What each part of the invariant needs of a step of context p. *)

LEMMA OpsStep ==
    ASSUME Ops, NEW p \in Contexts, NEW g, Moved(p, g), memrdy' = memrdy,
           OpFits(g.pc, g.op, g.len, memrdy), p[2] = "isr" => g.op \in {"none", "free"}
    PROVE  Ops'
BY DEF Ops, Moved, PC, Op

LEMMA LockStep ==
    ASSUME LockExact, NEW p \in Contexts, NEW g, Moved(p, g), held' = held,
           g.op \in {"malloc", "free"} /\ g.pc # "acquire" => Locked(p)
    PROVE  LockExact'
<1>1. \A q \in Contexts : Locked(q)' => Locked(q)
  BY DEF Moved, Locked, Op, PC
<1> QED
  BY <1>1 DEF LockExact

BrkPoints == {"brk", "brkcheck", "brkcur"}

LEMMA MallocStep ==
    ASSUME MallocExact, NEW p \in Contexts, NEW g, Moved(p, g), mallocLock' = mallocLock,
           g.pc \in BrkPoints => PC(p) \in BrkPoints,
           p[2] = "main" /\ mallocLock = Core(p) => g.pc \in BrkPoints \cup {"hang"}
    PROVE  MallocExact'
BY DEF MallocExact, Moved, PC, BrkPoints

LEMMA ScanningStep ==
    ASSUME Scanning, NEW p \in Contexts, NEW g, Moved(p, g), Scanned(g)
    PROVE  Scanning'
BY DEF Scanning, Moved

(* The other contexts keep their parts of the table. *)
Keeps(q) ==
    /\ ctx'[q] = ctx[q] /\ PC(q)' = PC(q) /\ Op(q)' = Op(q) /\ Address(q)' = Address(q)
    /\ (Owns(q)' <=> Owns(q)) /\ (Scans(q)' <=> Scans(q)) /\ Marks(q)' = Marks(q)
    /\ Owns(q) => Span(q)' = Span(q) /\ Part(q)' = Part(q)

LEMMA OthersKeep ==
    ASSUME NEW p \in Contexts, NEW g, Moved(p, g), membase' = membase, memrdy' = memrdy,
           NEW q \in Contexts, q # p, Ops,
           Op(q) = "free" /\ PC(q) \in {"acquire", "free"} =>
               memmap'[ctx[q].off] = memmap[ctx[q].off]
    PROVE  Keeps(q)
<1>1. ctx'[q] = ctx[q]
  BY DEF Moved
<1>2. PC(q)' = PC(q) /\ Op(q)' = Op(q) /\ (Owns(q)' <=> Owns(q)) /\ (Scans(q)' <=> Scans(q))
  BY <1>1 DEF PC, Op, Owns, Scans
<1>3. Address(q)' = Address(q)
  BY <1>1 DEF Address
<1>4. Owns(q) => Span(q)' = Span(q)
  <2> SUFFICES ASSUME Owns(q) PROVE Span(q)' = Span(q)
    OBVIOUS
  <2>1. CASE Op(q) = "free" /\ PC(q) \in {"acquire", "free"}
    BY <1>1, <1>2, <2>1 DEF Span, Scans
  <2>2. CASE ~(Op(q) = "free" /\ PC(q) \in {"acquire", "free"})
    <3>1. Scans(q) \/ Op(q) = "malloc" \/ PC(q) \notin {"acquire", "free"}
      BY <2>2 DEF Owns, Scans, Ops, OpFits, MallocPoints
    <3> QED
      BY <3>1, <1>1, <1>2 DEF Span
  <2> QED
    BY <2>1, <2>2
<1>5. Owns(q) => Part(q)' = Part(q)
  BY <1>2, <1>3, <1>4 DEF Part
<1>6. Marks(q)' = Marks(q)
  BY <1>1, <1>2, <1>4 DEF Marks, LastOf
<1> QED
  BY <1>1, <1>2, <1>3, <1>4, <1>5, <1>6 DEF Keeps

-----------------------------------------------------------------------------
(* The parts of the table, and the contexts that work on it. *)

LEMMA PartTypes ==
    ASSUME Types, Placed, NEW p \in Contexts, Owns(p)
    PROVE  /\ Part(p)[1] \in Int /\ Span(p) \in 0..Size /\ Part(p)[2] = Span(p) /\ Address(p) \in Int
           /\ Part(p)[1] = IF Scans(p) THEN Address(p) + 1 ELSE Address(p)
           /\ Within(Part(p)) /\ (Scans(p) \/ Span(p) > 0)
           /\ ctx[p].off \in (-1)..(Size - 1) /\ Address(p) = membase + ctx[p].off
           /\ ~Scans(p) => ctx[p].off \in 0..(Size - 1)
<1>1. ctx[p] \in Records /\ membase \in 0..Size
  BY DEF Types
<1>2. /\ ctx[p].len \in 0..Size /\ ctx[p].off \in (-1)..(Size - 1) /\ ctx[p].kmemb \in 0..Size
      /\ ctx[p].nmemb \in 0..Size
  BY <1>1, RecordParts
<1>3. Within(Part(p)) /\ (Scans(p) \/ Span(p) > 0)
  BY DEF Placed
<1>4. Address(p) \in Int /\ Address(p) = membase + ctx[p].off
  BY <1>1, <1>2, SizeAssumption DEF Address
<1>5. /\ Part(p)[1] = (IF Scans(p) THEN Address(p) + 1 ELSE Address(p))
      /\ Part(p)[2] = Span(p)
  BY DEF Part
<1>6. ~Scans(p) => ctx[p].off \in 0..(Size - 1)
  BY <1>1, <1>2, <1>3, <1>4, <1>5, SizeAssumption DEF Within
<1>7. Span(p) \in 0..Size
  <2>1. ~Scans(p) => memmap[ctx[p].off] \in 0..Size
    BY <1>6 DEF Types
  <2> QED
    BY <2>1, <1>2 DEF Span
<1> QED
  BY <1>2, <1>3, <1>4, <1>5, <1>6, <1>7

LEMMA BlockTypes ==
    ASSUME Types, Placed, NEW b \in live
    PROVE  /\ b[1] \in 0..Size /\ b[2] \in 1..Size /\ Within(b) /\ b = <<b[1], b[2]>>
BY DEF Types, Placed

Inside(i, d) == d[1] <= membase + i /\ membase + i < d[1] + d[2]

LEMMA ApartInside ==
    ASSUME NEW d, NEW e, d[1] \in Int, d[2] \in Int, e[1] \in Int, e[2] \in Int, membase \in Int,
           Apart(d, e) \/ Apart(e, d), NEW i \in Int, Inside(i, d)
    PROVE  ~Inside(i, e)
BY DEF Apart, Inside

LEMMA MarksInside ==
    ASSUME Types, Placed, NEW p \in Contexts
    PROVE  /\ \A i \in Marks(p) : Owns(p) /\ ~Scans(p) /\ i \in 0..(Size - 1) /\ Inside(i, Part(p))
           /\ Owns(p) /\ ~Scans(p) =>
                \A i \in {ctx[p].off, LastOf(ctx[p].off, Span(p))} : i \in 0..(Size - 1) /\ Inside(i, Part(p))
<1>1. /\ membase \in 0..Size /\ memtblsize \in 0..Size /\ Size \in Nat
      /\ (Owns(p) => membase + memtblsize <= 2 * Size)
  BY SizeAssumption DEF Types
<1>2. ASSUME Owns(p), ~Scans(p), NEW i \in {ctx[p].off, LastOf(ctx[p].off, Span(p))}
      PROVE  i \in 0..(Size - 1) /\ Inside(i, Part(p))
  <2>1. /\ Part(p)[1] = membase + ctx[p].off /\ ctx[p].off \in 0..(Size - 1) /\ Part(p)[2] = Span(p)
        /\ Span(p) \in 1..Size /\ Within(Part(p))
    BY <1>2, PartTypes
  <2>2. ctx[p].off + Span(p) <= memtblsize
    BY <2>1, <1>1 DEF Within
  <2>3. i \in 0..(Size - 1)
    BY <1>2, <2>1, <2>2, <1>1 DEF LastOf
  <2>4. Inside(i, Part(p))
    BY <1>2, <2>1, <1>1 DEF LastOf, Inside
  <2> QED
    BY <2>3, <2>4
<1>3. \A i \in Marks(p) : Owns(p) /\ ~Scans(p) /\ i \in {ctx[p].off, LastOf(ctx[p].off, Span(p))}
  BY DEF Marks, Scans
<1> QED
  BY <1>2, <1>3

LEMMA TagsInside ==
    ASSUME Types, Placed, NEW b \in live, NEW i \in Tags(b)
    PROVE  i \in 0..(Size - 1) /\ Inside(i, b)
<1>1. membase \in 0..Size /\ memtblsize \in 0..Size /\ Size \in Nat
  BY SizeAssumption DEF Types
<1>2. b[1] \in 0..Size /\ b[2] \in 1..Size /\ Within(b)
  BY BlockTypes
<1>3. i = b[1] - membase \/ i = b[1] - membase + b[2] - 1
  BY DEF Tags, LastOf
<1> QED
  BY <1>1, <1>2, <1>3 DEF Inside, Within

(* A main context that has the lock is alone at the table. *)
LEMMA Alone ==
    ASSUME Ops, LockExact, NEW p \in Contexts, Runs(p), Locked(p), Op(p) = "malloc",
           NEW q \in Contexts, q # p
    PROVE  ~Locked(q)
<1>1. SUFFICES ASSUME Locked(q) PROVE FALSE
  OBVIOUS
<1>2. p[2] = "main"
  BY ContextParts DEF Ops
<1>3. Core(q) = Core(p)
  BY <1>1 DEF LockExact
<1>4. q = <<Core(p), "isr">>
  BY <1>2, <1>3, ContextParts
<1>5. PC(q) = "idle"
  BY <1>2, <1>4 DEF Runs, HandlerIdle, At, PC
<1> QED
  BY <1>1, <1>5 DEF Locked, Ops, OpFits

LEMMA LockedPoints ==
    ASSUME Types, Ops, NEW p \in Contexts
    PROVE  /\ PC(p) \in {"table", "base", "size", "clear"} => Op(p) = "malloc" /\ Locked(p) /\ ~memrdy
           /\ PC(p) \in MallocPoints \ {"release"} => Op(p) = "malloc" /\ Locked(p) /\ memrdy
           /\ PC(p) \in FreePoints \ {"release"} => Op(p) = "free" /\ Locked(p) /\ memrdy
           /\ PC(p) = "release" => Op(p) \in {"malloc", "free"} /\ Locked(p) /\ memrdy
           /\ Owns(p) => memrdy /\ Op(p) \in {"malloc", "free"}
           /\ Owns(p) /\ ~Locked(p) => Op(p) = "free" /\ PC(p) = "acquire"
<1>1. Op(p) \in {"none", "malloc", "free", "brk"}
  BY RecordParts DEF Types, Op
<1> QED
  BY <1>1 DEF Ops, OpFits, Locked, MallocPoints, FreePoints, InitPoints, Owns
-----------------------------------------------------------------------------
(* What Placed, Tagged and the lines need of a step. *)

OthersKept(p) == \A q \in Contexts : q # p => Keeps(q)

LEMMA PlacedStep ==
    ASSUME Placed, NEW p \in Contexts, OthersKept(p), membase' = membase, memtblsize' = memtblsize,
           \A b \in live' : b \in live \/ (b = Part(p) /\ Owns(p) /\ ~Scans(p) /\ ~Owns(p)'),
           Owns(p)' => /\ Within(Part(p))' /\ (Scans(p)' \/ Span(p)' > 0)
                       /\ \A b \in live' : Apart(Part(p)', b)
                       /\ \A q \in Contexts : q # p /\ Owns(q) =>
                             Apart(Part(p)', Part(q)) /\ Apart(Part(q), Part(p)')
    PROVE  Placed'
<1>1. \A d : Within(d)' <=> (membase <= d[1] /\ d[1] + d[2] <= membase + memtblsize)
  BY DEF Within
<1>2. \A d : Within(d) <=> (membase <= d[1] /\ d[1] + d[2] <= membase + memtblsize)
  BY DEF Within
<1>3. \A q \in Contexts : q # p => (Owns(q)' <=> Owns(q)) /\ (Scans(q)' <=> Scans(q))
  BY DEF OthersKept, Keeps
<1>4. \A q \in Contexts : q # p /\ Owns(q) => Part(q)' = Part(q) /\ Span(q)' = Span(q)
  BY DEF OthersKept, Keeps
<1>5. Owns(p) /\ ~Scans(p) => Within(Part(p)) /\ Part(p)[2] > 0
  BY DEF Placed, Part
<1>6. (\A b \in live : Within(b) /\ b[2] > 0)'
  <2> SUFFICES ASSUME NEW b \in live' PROVE Within(b)' /\ b[2] > 0
    OBVIOUS
  <2> QED
    BY <1>1, <1>2, <1>5 DEF Placed
<1>7. (\A q \in Contexts : Owns(q) => Within(Part(q)) /\ (Scans(q) \/ Span(q) > 0))'
  <2> SUFFICES ASSUME NEW q \in Contexts, Owns(q)'
               PROVE  Within(Part(q))' /\ (Scans(q)' \/ Span(q)' > 0)
    OBVIOUS
  <2>1. CASE q = p
    BY <2>1
  <2>2. CASE q # p
    <3>1. Within(Part(q)) /\ (Scans(q) \/ Span(q) > 0)
      BY <2>2, <1>3 DEF Placed
    <3>2. Within(Part(q))'
      BY <3>1, <2>2, <1>3, <1>4 DEF Within
    <3> QED
      BY <3>1, <3>2, <2>2, <1>3, <1>4
  <2> QED
    BY <2>1, <2>2
<1>8. (\A b, d \in live : b # d => Apart(b, d))'
  <2> SUFFICES ASSUME NEW b \in live', NEW d \in live', b # d PROVE Apart(b, d)
    OBVIOUS
  <2> QED
    BY DEF Placed, Apart
<1>9. (\A q \in Contexts, b \in live : Owns(q) => Apart(Part(q), b))'
  <2> SUFFICES ASSUME NEW q \in Contexts, NEW b \in live', Owns(q)' PROVE Apart(Part(q)', b)
    OBVIOUS
  <2>1. CASE q = p
    BY <2>1
  <2>2. CASE q # p
    <3>1. Apart(Part(q), b)
      BY <2>2, <1>3 DEF Placed
    <3> QED
      BY <3>1, <2>2, <1>3, <1>4
  <2> QED
    BY <2>1, <2>2
<1>10. (\A q, r \in Contexts : q # r /\ Owns(q) /\ Owns(r) => Apart(Part(q), Part(r)))'
  <2> SUFFICES ASSUME NEW q \in Contexts, NEW r \in Contexts, q # r, Owns(q)', Owns(r)'
               PROVE  Apart(Part(q)', Part(r)')
    OBVIOUS
  <2>1. CASE q = p
    BY <2>1, <1>3, <1>4
  <2>2. CASE r = p
    BY <2>2, <1>3, <1>4
  <2>3. CASE q # p /\ r # p
    BY <2>3, <1>3, <1>4 DEF Placed
  <2> QED
    BY <2>1, <2>2, <2>3
<1> QED
  BY <1>6, <1>7, <1>8, <1>9, <1>10 DEF Placed

(* The part p has stays as it is, or is given up. *)
LEMMA PlacedSame ==
    ASSUME Placed, NEW p \in Contexts, OthersKept(p), membase' = membase, memtblsize' = memtblsize,
           \A b \in live' : b \in live \/ (b = Part(p) /\ Owns(p) /\ ~Scans(p) /\ ~Owns(p)'),
           Owns(p)' => Owns(p) /\ Part(p)' = Part(p) /\ Span(p)' = Span(p) /\ (Scans(p)' <=> Scans(p))
    PROVE  Placed'
<1>1. Owns(p)' => Within(Part(p))' /\ (Scans(p)' \/ Span(p)' > 0)
  BY DEF Placed, Within
<1>2. Owns(p)' => \A b \in live' : Apart(Part(p)', b)
  BY DEF Placed
<1>3. Owns(p)' => \A q \in Contexts : q # p /\ Owns(q) =>
                     Apart(Part(p)', Part(q)) /\ Apart(Part(q), Part(p)')
  BY DEF Placed
<1> QED
  BY <1>1, <1>2, <1>3, PlacedStep

LEMMA TaggedStep ==
    ASSUME Types, Tagged, NEW p \in Contexts, OthersKept(p), membase' = membase,
           \A b \in live' : \A i \in Tags(b) : memmap'[i] = b[2],
           \A q \in Contexts : q # p => \A i \in Marks(q) : memmap'[i] = memmap[i],
           PC(p)' # "untaglast" => \A i \in Marks(p)' : memmap'[i] = Span(p)',
           \A i \in 0..(Size - 1) : memmap'[i] # 0 =>
               \/ \E b \in live' : i \in Tags(b)
               \/ \E q \in Contexts : q # p /\ i \in Marks(q)
               \/ i \in Marks(p)'
    PROVE  Tagged'
<1>1. \A b : Tags(b)' = Tags(b)
  BY DEF Tags
<1>2. \A q \in Contexts : q # p => Marks(q)' = Marks(q) /\ PC(q)' = PC(q)
  BY DEF OthersKept, Keeps
<1>3. \A q \in Contexts : q # p /\ Marks(q) # {} => Span(q)' = Span(q)
  BY DEF OthersKept, Keeps, Marks
<1>4. ASSUME NEW q \in Contexts, PC(q)' # "untaglast", NEW i \in Marks(q)'
      PROVE  memmap'[i] = Span(q)'
  <2>1. CASE q = p
    BY <2>1, <1>4
  <2>2. CASE q # p
    <3>1. i \in Marks(q) /\ PC(q) # "untaglast"
      BY <2>2, <1>2, <1>4
    <3>2. memmap[i] = Span(q) /\ memmap'[i] = memmap[i] /\ Span(q)' = Span(q)
      BY <3>1, <2>2, <1>3 DEF Tagged
    <3> QED
      BY <3>2
  <2> QED
    BY <2>1, <2>2
<1>5. ASSUME NEW i \in 0..(Size - 1), memmap'[i] # 0
      PROVE  (\E b \in live' : i \in Tags(b)) \/ (\E q \in Contexts : i \in Marks(q)')
  BY <1>5, <1>2
<1> QED
  BY <1>1, <1>4, <1>5 DEF Tagged

(* Neither the table nor p's marks change. *)
LEMMA TaggedSame ==
    ASSUME Types, Tagged, NEW p \in Contexts, OthersKept(p), membase' = membase, memmap' = memmap,
           live' = live, Marks(p)' = Marks(p),
           PC(p)' # "untaglast" => (Marks(p) = {} \/ (Span(p)' = Span(p) /\ PC(p) # "untaglast"))
    PROVE  Tagged'
<1>1. \A b \in live' : \A i \in Tags(b) : memmap'[i] = b[2]
  BY DEF Tagged
<1>2. PC(p)' # "untaglast" => \A i \in Marks(p)' : memmap'[i] = Span(p)'
  BY DEF Tagged
<1>3. \A i \in 0..(Size - 1) : memmap'[i] # 0 =>
               \/ \E b \in live' : i \in Tags(b)
               \/ \E q \in Contexts : q # p /\ i \in Marks(q)
               \/ i \in Marks(p)'
  BY DEF Tagged
<1> QED
  BY <1>1, <1>2, <1>3, TaggedStep

Hangs(p) == PC(p) = "hang" /\ Op(p) = "malloc" /\ memrdy
IoPends(p) == PC(p) = "check" \/ Hangs(p)
BrkPends(p) == mallocLock = Core(p) /\ PC(p) \in {"brkcheck", "hang"} /\ p[2] = "main"

LEMMA PendingParts ==
    /\ IoPending <=> \E p \in Contexts : IoPends(p)
    /\ BrkPending <=> \E p \in Contexts : BrkPends(p)
    /\ IoPending' <=> \E p \in Contexts : IoPends(p)'
    /\ BrkPending' <=> \E p \in Contexts : BrkPends(p)'
BY DEF IoPending, BrkPending, IoPends, BrkPends, Hangs

LEMMA LineStep ==
    ASSUME LineLow, NEW p \in Contexts, OthersKept(p),
           ioheapLine' = ioheapLine,
           \A b \in live' : b \in live \/ ioheapLine <= b[1],
           Lowered(p)' => ioheapLine <= Address(p)',
           PC(p)' \in {"raise", "check"} => ioheapLine = Address(p)',
           PC(p)' = "lower" => Address(p)' < ioheapLine
    PROVE  LineLow'
<1>1. \A q \in Contexts : q # p =>
         /\ Address(q)' = Address(q) /\ PC(q)' = PC(q) /\ (Lowered(q)' <=> Lowered(q))
  BY DEF OthersKept, Keeps, Lowered
<1>2. \A q \in Contexts : Lowered(q)' => ioheapLine' <= Address(q)'
  BY <1>1 DEF LineLow
<1>3. \A q \in Contexts : PC(q)' \in {"raise", "check"} => ioheapLine' = Address(q)'
  BY <1>1 DEF LineLow
<1>4. \A q \in Contexts : PC(q)' = "lower" => Address(q)' < ioheapLine'
  BY <1>1 DEF LineLow
<1> QED
  BY <1>2, <1>3, <1>4 DEF LineLow

(* A step of iomem's that does not touch a line. *)
LEMMA HeapStep ==
    ASSUME HeapLow, NEW p \in Contexts, OthersKept(p), memrdy' = memrdy,
           ioheapLine' = ioheapLine, heapLine' = heapLine, heapCur' = heapCur, mallocLock' = mallocLock,
           \A b \in live' : b \in live \/ (heapCur <= b[1] /\ (heapLine <= b[1] \/ BrkPending)),
           PC(p) \notin {"brkcheck", "hang"}, PC(p)' \notin {"brkcheck", "brkcur"},
           IoPends(p) => Hangs(p)' \/ heapLine <= ioheapLine,
           PC(p)' = "return" =>
              heapCur <= Address(p)' /\ (heapLine <= Address(p)' \/ BrkPending),
           heapLine \in Nat, heapCur \in Nat, ioheapLine \in Nat
    PROVE  HeapLow'
<1>1. \A q \in Contexts : q # p =>
         /\ Address(q)' = Address(q) /\ PC(q)' = PC(q) /\ (IoPends(q) => IoPends(q)')
         /\ (BrkPends(q) => BrkPends(q)') /\ ctx'[q] = ctx[q]
  BY DEF OthersKept, Keeps, IoPends, BrkPends, Hangs
<1>2. ~BrkPends(p)
  BY DEF BrkPends
<1>3. BrkPending => BrkPending'
  BY <1>1, <1>2, PendingParts
<1>4. IoPending => IoPending' \/ heapLine <= ioheapLine
  BY <1>1, PendingParts DEF IoPends
<1>5. heapCur' <= heapLine'
  BY DEF HeapLow
<1>6. \A q \in Contexts : PC(q)' \in {"brkcheck", "brkcur"} => ctx'[q].pos <= heapLine'
  BY <1>1 DEF HeapLow
<1>7. \A b \in live' : heapCur' <= b[1] /\ (heapLine' <= b[1] \/ BrkPending')
  BY <1>3 DEF HeapLow
<1>8. \A q \in Contexts : PC(q)' = "return" =>
          heapCur' <= Address(q)' /\ (heapLine' <= Address(q)' \/ BrkPending')
  BY <1>1, <1>3 DEF HeapLow
<1>9. heapLine' <= ioheapLine' \/ BrkPending' \/ IoPending'
  BY <1>3, <1>4 DEF HeapLow
<1>10. heapCur' <= ioheapLine' \/ IoPending'
  BY <1>4, <1>5 DEF HeapLow
<1> QED
  BY <1>5, <1>6, <1>7, <1>8, <1>9, <1>10 DEF HeapLow
-----------------------------------------------------------------------------
(* Steps of a call that has the lock and stays in iomem: what is left to show. *)

Working == (MallocPoints \cup FreePoints) \ BrkPoints

LEMMA WorkStep ==
    ASSUME IInv, NEW p \in Contexts, NEW g, Moved(p, g), Locked(p), PC(p) \in Working,
           memrdy' = memrdy, membase' = membase, memtblsize' = memtblsize,
           locks' = locks, heapLine' = heapLine, heapCur' = heapCur, calls' = calls,
           ioheapLine' \in 0..Size, memmap' \in [0..(Size - 1) -> 0..Size], live' = live,
           g.op = Op(p), g.pc \in Working \cup {"hang"}, OpFits(g.pc, g.op, g.len, memrdy), Scanned(g),
           Placed', Tagged', LineLow', HeapLow'
    PROVE  IInv'
<1>1. memrdy
  BY LockedPoints DEF IInv, Working
<1>2. held' = held /\ mallocLock' = mallocLock
  BY DEF locks
<1>3. Types'
  BY <1>2 DEF IInv, Types, Moved
<1>4. Ops'
  <2>1. p[2] = "isr" => g.op \in {"none", "free"}
    BY DEF IInv, Ops
  <2> QED
    BY <2>1, OpsStep DEF IInv
<1>5. LockExact'
  BY <1>2, LockStep DEF IInv
<1>6. MallocExact'
  <2>1. g.pc \notin BrkPoints
    BY DEF Working, BrkPoints
  <2>2. p[2] = "main" => mallocLock # Core(p)
    BY DEF IInv, MallocExact, Working, BrkPoints, MallocPoints, FreePoints
  <2> QED
    BY <1>2, <2>1, <2>2, MallocStep DEF IInv
<1>7. Unready'
  BY <1>1 DEF IInv, Unready
<1>8. Scanning'
  BY ScanningStep DEF IInv
<1> QED
  BY <1>3, <1>4, <1>5, <1>6, <1>7, <1>8 DEF IInv

LEMMA SameTable ==
    ASSUME Ops, NEW p \in Contexts, NEW g, Moved(p, g), UNCHANGED table
    PROVE  OthersKept(p)
BY OthersKeep DEF table, OthersKept

LEMMA LocalStep ==
    ASSUME IInv, NEW p \in Contexts, NEW g, Moved(p, g), Locked(p), PC(p) \in Working,
           UNCHANGED <<table, lines, locks, live, calls>>,
           g.op = Op(p), g.pc \in Working \cup {"hang"}, OpFits(g.pc, g.op, g.len, memrdy), Scanned(g),
           Placed', Tagged',
           Lowered(p)' => ioheapLine <= Address(p)',
           g.pc \in {"raise", "check"} => ioheapLine = Address(p)',
           g.pc = "lower" => Address(p)' < ioheapLine,
           IoPends(p) => Hangs(p)' \/ heapLine <= ioheapLine,
           g.pc = "return" => heapCur <= Address(p)' /\ (heapLine <= Address(p)' \/ BrkPending)
    PROVE  IInv'
<1>1. /\ memrdy' = memrdy /\ membase' = membase /\ memtblsize' = memtblsize /\ memmap' = memmap
      /\ ioheapLine' = ioheapLine /\ heapLine' = heapLine /\ heapCur' = heapCur
      /\ held' = held /\ mallocLock' = mallocLock
  BY DEF table, lines, locks
<1>2. OthersKept(p)
  BY SameTable DEF IInv
<1>3. PC(p)' = g.pc
  BY DEF PC, Moved
<1>4. LineLow'
  BY <1>1, <1>2, <1>3, LineStep DEF IInv
<1>5. heapLine \in Nat /\ heapCur \in Nat /\ ioheapLine \in Nat
  BY SizeAssumption DEF IInv, Types
<1>6. PC(p) \notin {"brkcheck", "hang"} /\ PC(p)' \notin {"brkcheck", "brkcur"}
  BY <1>3 DEF Working, BrkPoints, MallocPoints, FreePoints
<1>7. HeapLow'
  BY <1>1, <1>2, <1>3, <1>5, <1>6, HeapStep DEF IInv
<1>8. ioheapLine' \in 0..Size /\ memmap' \in [0..(Size - 1) -> 0..Size]
  BY <1>1 DEF IInv, Types
<1> QED
  BY <1>1, <1>4, <1>7, <1>8, WorkStep

(* A step to another point that leaves p's part and marks alone, or gives  *)
(* up a part that has no marks. *)
LEMMA PointStep ==
    ASSUME IInv, NEW p \in Contexts, NEW c \in PCs, Goto(p, c), Locked(p), PC(p) \in Working,
           UNCHANGED <<table, lines, locks, live, calls>>,
           c \in Working \cup {"hang"}, OpFits(c, Op(p), ctx[p].len, memrdy),
           c # "malloc", c \in {"scan", "skip"} => Scans(p),
           c = "skip" => ctx[p].off >= 0,
           Owns(p)' => Owns(p) /\ Span(p)' = Span(p) /\ (Scans(p)' <=> Scans(p)),
           Marks(p)' = Marks(p),
           c # "untaglast" => Marks(p) = {} \/ (Span(p)' = Span(p) /\ PC(p) # "untaglast"),
           Lowered(p)' => ioheapLine <= Address(p),
           c \in {"raise", "check"} => ioheapLine = Address(p),
           c = "lower" => Address(p) < ioheapLine,
           IoPends(p) => Hangs(p)' \/ heapLine <= ioheapLine,
           c = "return" => heapCur <= Address(p) /\ (heapLine <= Address(p) \/ BrkPending)
    PROVE  IInv'
<1>1. PICK g : Moved(p, g) /\ g.pc = c /\ g.op = Op(p) /\ SameLocals(g, ctx[p])
  BY GotoMoved DEF IInv
<1>2. OthersKept(p)
  BY <1>1, SameTable DEF IInv
<1>3. membase' = membase /\ memtblsize' = memtblsize /\ memmap' = memmap /\ memrdy' = memrdy
  BY DEF table
<1>4. Address(p)' = Address(p) /\ PC(p)' = c /\ g.len = ctx[p].len
  BY <1>1, <1>3 DEF Address, Moved, SameLocals, PC
<1>6. Owns(p)' => Part(p)' = Part(p)
  BY <1>4 DEF Part
<1>7. Placed'
  BY <1>2, <1>3, <1>6, PlacedSame DEF IInv
<1>8. Tagged'
  BY <1>2, <1>3, <1>4, TaggedSame DEF IInv
<1>9. Scanned(g)
  <2>1. Scanned(ctx[p])
    BY DEF IInv, Scanning
  <2>2. g.kmemb = ctx[p].kmemb /\ g.len = ctx[p].len /\ g.off = ctx[p].off
    BY <1>1 DEF SameLocals
  <2>3. c \notin {"acquire", "table", "brk", "brkcheck", "brkcur", "base", "size", "clear", "malloc"}
    BY DEF Working, MallocPoints, FreePoints
  <2> QED
    BY <1>1, <2>1, <2>2, <2>3 DEF Scanned, Scans, PC
<1> QED
  BY <1>1, <1>4, <1>7, <1>8, <1>9, LocalStep
-----------------------------------------------------------------------------
(* The steps that read and decide. *)

(* What a step to c does to p's part, in terms of c. *)
LEMMA PointParts ==
    ASSUME Types, NEW p \in Contexts, NEW c \in PCs, Goto(p, c), UNCHANGED table
    PROVE  /\ PC(p)' = c /\ Op(p)' = Op(p) /\ ctx'[p].off = ctx[p].off /\ ctx'[p].len = ctx[p].len
           /\ ctx'[p].kmemb = ctx[p].kmemb /\ ctx'[p].nmemb = ctx[p].nmemb
           /\ memrdy' = memrdy /\ memmap' = memmap /\ membase' = membase
<1>1. PICK g : Moved(p, g) /\ g.pc = c /\ g.op = Op(p) /\ SameLocals(g, ctx[p])
  BY GotoMoved
<1> QED
  BY <1>1 DEF Moved, SameLocals, PC, Op, table

LEMMA MallocOp ==
    ASSUME Types, Ops, NEW p \in Contexts, PC(p) \in MallocPoints \ {"release"}
    PROVE  /\ Op(p) = "malloc" /\ Locked(p) /\ memrdy /\ PC(p) \in Working /\ ctx[p].len > 0
           /\ \A c \in MallocPoints \cup {"hang"} : OpFits(c, Op(p), ctx[p].len, memrdy)
<1>1. Op(p) = "malloc" /\ Locked(p) /\ memrdy /\ ctx[p].len > 0
  BY LockedPoints DEF Ops, OpFits
<1>2. PC(p) \in Working
  BY DEF Working, BrkPoints, MallocPoints
<1>3. \A c \in MallocPoints \cup {"hang"} : OpFits(c, "malloc", ctx[p].len, TRUE)
  BY <1>1 DEF OpFits, MallocPoints, InitPoints
<1> QED
  BY <1>1, <1>2, <1>3 DEF Types

LEMMA FreeOp ==
    ASSUME Types, Ops, NEW p \in Contexts, PC(p) \in FreePoints \ {"release"}
    PROVE  /\ Op(p) = "free" /\ Locked(p) /\ memrdy /\ PC(p) \in Working /\ Owns(p)
           /\ \A c \in FreePoints : OpFits(c, Op(p), ctx[p].len, memrdy)
<1>1. Op(p) = "free" /\ Locked(p) /\ memrdy
  BY LockedPoints
<1>2. PC(p) \in Working
  BY DEF Working, BrkPoints, FreePoints
<1>3. \A c \in FreePoints : OpFits(c, "free", ctx[p].len, TRUE)
  BY DEF OpFits, FreePoints
<1>4. Owns(p)
  BY <1>1 DEF Owns
<1> QED
  BY <1>1, <1>2, <1>3, <1>4 DEF Types

LEMMA WorkPCs == Working \cup {"hang"} \subseteq PCs
BY DEF Working, MallocPoints, FreePoints, PCs

LEMMA ScanUsedInv ==
    ASSUME IInv, NEW p \in Contexts, ScanUsed(p)
    PROVE  IInv'
<1>1. PC(p) = "scan" /\ Goto(p, "skip") /\ ctx[p].off >= 0 /\ UNCHANGED <<table, lines, locks, live, calls>>
  BY DEF ScanUsed, At, PC
<1>2. "skip" \in PCs /\ "skip" \in Working
  BY DEF PCs, Working, MallocPoints, BrkPoints
<1>3. /\ Op(p) = "malloc" /\ Locked(p) /\ memrdy /\ PC(p) \in Working
      /\ OpFits("skip", Op(p), ctx[p].len, memrdy)
  BY <1>1, MallocOp DEF IInv, MallocPoints
<1>4. PC(p)' = "skip" /\ Op(p)' = Op(p) /\ ctx'[p].kmemb = ctx[p].kmemb
  BY <1>1, <1>2, PointParts DEF IInv
<1>5. Scans(p) /\ Scans(p)' /\ Owns(p) /\ Span(p)' = Span(p)
  BY <1>1, <1>4 DEF Scans, Owns, Span, MallocPoints
<1>6. Marks(p) = {} /\ Marks(p)' = {}
  BY <1>1, <1>4 DEF Marks
<1>7. ~Lowered(p)' /\ ~IoPends(p)
  BY <1>1, <1>3, <1>4 DEF Lowered, IoPends, Hangs
<1> QED
  BY <1>1, <1>2, <1>3, <1>4, <1>5, <1>6, <1>7, PointStep

LEMMA ScanFailsInv ==
    ASSUME IInv, NEW p \in Contexts, ScanFails(p)
    PROVE  IInv'
<1>1. PC(p) = "scan" /\ Goto(p, "release") /\ UNCHANGED <<table, lines, locks, live, calls>>
  BY DEF ScanFails, At, PC
<1>2. "release" \in PCs /\ "release" \in Working
  BY DEF PCs, Working, MallocPoints, BrkPoints
<1>3. /\ Op(p) = "malloc" /\ Locked(p) /\ memrdy /\ PC(p) \in Working
      /\ OpFits("release", Op(p), ctx[p].len, memrdy)
  BY <1>1, MallocOp DEF IInv, MallocPoints
<1>4. PC(p)' = "release" /\ Op(p)' = Op(p)
  BY <1>1, <1>2, PointParts DEF IInv
<1>5. ~Owns(p)'
  BY <1>3, <1>4 DEF Owns
<1>6. Marks(p) = {} /\ Marks(p)' = {}
  BY <1>1, <1>5 DEF Marks
<1>7. ~Lowered(p)' /\ ~IoPends(p)
  BY <1>1, <1>3, <1>4 DEF Lowered, IoPends, Hangs
<1> QED
  BY <1>1, <1>2, <1>3, <1>4, <1>5, <1>6, <1>7, PointStep

LEMMA LineTestInv ==
    ASSUME IInv, NEW p \in Contexts, LineTest(p)
    PROVE  IInv'
<1> DEFINE c == IF ioheapLine > Address(p) THEN "lower" ELSE "return"
<1>1. /\ PC(p) = "line" /\ Goto(p, c) /\ UNCHANGED <<table, lines, locks, live, calls>> /\ Runs(p)
      /\ c \in {"lower", "return"} /\ (c = "lower" <=> ioheapLine > Address(p))
  BY DEF LineTest, At, PC
<1> HIDE DEF c
<1>2. c \in PCs /\ c \in Working /\ c \in MallocPoints
  BY <1>1 DEF PCs, Working, MallocPoints, BrkPoints
<1>3. /\ Op(p) = "malloc" /\ Locked(p) /\ memrdy /\ PC(p) \in Working
      /\ OpFits(c, Op(p), ctx[p].len, memrdy)
  BY <1>1, <1>2, MallocOp DEF IInv, MallocPoints
<1>4. /\ PC(p)' = c /\ Op(p)' = Op(p) /\ ctx'[p].len = ctx[p].len /\ ctx'[p].off = ctx[p].off
  BY <1>1, <1>2, PointParts DEF IInv
<1>5. ~Scans(p) /\ ~Scans(p)' /\ Owns(p) /\ Owns(p)' /\ Span(p)' = Span(p)
  BY <1>1, <1>3, <1>4 DEF Scans, Owns, Span, MallocPoints
<1>6. Marks(p)' = Marks(p)
  BY <1>1, <1>4, <1>5 DEF Marks, LastOf
<1>7. ioheapLine \in 0..Size /\ heapLine \in 0..Size /\ heapCur \in 0..Size /\ Address(p) \in Int
  BY <1>5, PartTypes DEF IInv, Types
<1>8. ~IoPends(p) /\ ~IoPending
  <2>1. ~IoPends(p)
    BY <1>1 DEF IoPends, Hangs
  <2>2. ASSUME NEW q \in Contexts, q # p PROVE ~IoPends(q)
    <3>1. ~Locked(q)
      BY <1>1, <1>3, <2>2, Alone DEF IInv
    <3> QED
      BY <3>1, LockedPoints DEF IInv, IoPends, Hangs, MallocPoints, Locked
  <2> QED
    BY <2>1, <2>2, PendingParts
<1>9. Lowered(p)' => ioheapLine <= Address(p)
  BY <1>1, <1>3, <1>4, <1>7 DEF Lowered
<1>10. c = "return" => heapCur <= Address(p) /\ (heapLine <= Address(p) \/ BrkPending)
  BY <1>1, <1>7, <1>8 DEF IInv, HeapLow
<1>11. c = "lower" => Address(p) < ioheapLine
  BY <1>1, <1>7
<1> QED
  BY <1>1, <1>2, <1>3, <1>4, <1>5, <1>6, <1>8, <1>9, <1>10, <1>11, PointStep

LEMMA CheckInv ==
    ASSUME IInv, NEW p \in Contexts, Check(p)
    PROVE  IInv'
<1> DEFINE c == IF IoCollides THEN "hang" ELSE "return"
<1>1. /\ PC(p) = "check" /\ Goto(p, c) /\ UNCHANGED <<table, lines, locks, live, calls>> /\ Runs(p)
      /\ c \in {"hang", "return"} /\ (c = "hang" <=> ioheapLine < heapLine)
  BY DEF Check, At, PC, IoCollides
<1> HIDE DEF c
<1>2. c \in PCs /\ c \in Working \cup {"hang"} /\ c \in MallocPoints \cup {"hang"}
  BY <1>1 DEF PCs, Working, MallocPoints, BrkPoints
<1>3. /\ Op(p) = "malloc" /\ Locked(p) /\ memrdy /\ PC(p) \in Working
      /\ OpFits(c, Op(p), ctx[p].len, memrdy)
  BY <1>1, <1>2, MallocOp DEF IInv, MallocPoints
<1>4. /\ PC(p)' = c /\ Op(p)' = Op(p) /\ ctx'[p].len = ctx[p].len /\ ctx'[p].off = ctx[p].off
      /\ memrdy' = memrdy
  BY <1>1, <1>2, PointParts DEF IInv
<1>5. ~Scans(p) /\ ~Scans(p)' /\ Owns(p) /\ Owns(p)' /\ Span(p)' = Span(p)
  BY <1>1, <1>3, <1>4 DEF Scans, Owns, Span, MallocPoints
<1>6. Marks(p)' = Marks(p)
  BY <1>1, <1>4, <1>5 DEF Marks, LastOf
<1>7. ioheapLine \in 0..Size /\ heapLine \in 0..Size /\ heapCur \in 0..Size /\ Address(p) \in Int
  BY <1>5, PartTypes DEF IInv, Types
<1>8. ioheapLine = Address(p) /\ heapCur <= heapLine
  BY <1>1 DEF IInv, LineLow, HeapLow
<1>9. c = "return" => heapCur <= Address(p) /\ heapLine <= Address(p)
  BY <1>1, <1>7, <1>8
<1>10. Hangs(p)' \/ heapLine <= ioheapLine
  BY <1>1, <1>3, <1>4, <1>7 DEF Hangs
<1>11. ioheapLine <= Address(p)
  BY <1>7, <1>8
<1> QED
  BY <1>1, <1>2, <1>3, <1>4, <1>5, <1>6, <1>9, <1>10, <1>11, PointStep

LEMMA RaiseTestInv ==
    ASSUME IInv, NEW p \in Contexts, RaiseTest(p)
    PROVE  IInv'
<1> DEFINE c == IF ioheapLine = Address(p) THEN "raise" ELSE "release"
<1>1. /\ PC(p) = "raisetest" /\ Goto(p, c) /\ UNCHANGED <<table, lines, locks, live, calls>> /\ Runs(p)
      /\ c \in {"raise", "release"} /\ (c = "raise" <=> ioheapLine = Address(p))
  BY DEF RaiseTest, At, PC
<1> HIDE DEF c
<1>2. c \in PCs /\ c \in Working /\ c \in FreePoints
  BY <1>1 DEF PCs, Working, FreePoints, BrkPoints
<1>3. /\ Op(p) = "free" /\ Locked(p) /\ memrdy /\ PC(p) \in Working /\ Owns(p)
      /\ OpFits(c, Op(p), ctx[p].len, memrdy)
  BY <1>1, <1>2, FreeOp DEF IInv, FreePoints
<1>4. /\ PC(p)' = c /\ Op(p)' = Op(p) /\ ctx'[p].nmemb = ctx[p].nmemb
  BY <1>1, <1>2, PointParts DEF IInv
<1>5. ~Scans(p) /\ ~Scans(p)' /\ Span(p)' = Span(p)
  BY <1>1, <1>3, <1>4 DEF Scans, Span
<1>6. Marks(p)' = {} /\ Marks(p) = {}
  BY <1>1, <1>4, <1>5 DEF Marks
<1>7. ioheapLine <= Address(p)
  BY <1>1, <1>3 DEF IInv, LineLow, Lowered
<1>8. ~IoPends(p)
  BY <1>1 DEF IoPends, Hangs
<1> QED
  BY <1>1, <1>2, <1>3, <1>4, <1>5, <1>6, <1>7, <1>8, PointStep
-----------------------------------------------------------------------------
(* The scan of k_malloc: what else there is in the table, and the window of *)
(* free entries the scan has found. *)

Taken(p) == live \cup {Part(q) : q \in {r \in Contexts \ {p} : Owns(r)}}

LEMMA ApartEither ==
    ASSUME NEW d, NEW e
    PROVE  Apart(d, e) <=> Apart(e, d)
BY DEF Apart

LEMMA OwnersWait ==
    ASSUME Types, Ops, LockExact, NEW p \in Contexts, Runs(p), Locked(p), Op(p) = "malloc",
           NEW q \in Contexts, q # p, Owns(q)
    PROVE  Op(q) = "free" /\ PC(q) = "acquire" /\ ~Scans(q)
           /\ Marks(q) = {ctx[q].off, LastOf(ctx[q].off, Span(q))}
<1>1. ~Locked(q)
  BY Alone
<1>2. Op(q) = "free" /\ PC(q) = "acquire"
  BY <1>1, LockedPoints
<1> QED
  BY <1>2 DEF Marks, Scans

LEMMA TakenFacts ==
    ASSUME IInv, NEW p \in Contexts, Runs(p), Locked(p), Op(p) = "malloc"
    PROVE  /\ \A d \in Taken(p) :
                /\ d[1] \in Int /\ d[2] \in 1..Size /\ Within(d)
                /\ \A i \in Tags(d) : memmap[i] = d[2]
                /\ Owns(p) => Apart(Part(p), d)
           /\ \A d, e \in Taken(p) : d # e => Apart(d, e)
           /\ \A i \in 0..(Size - 1) : memmap[i] # 0 =>
                 (\E d \in Taken(p) : i \in Tags(d)) \/ i \in Marks(p)
<1>1. ASSUME NEW q \in Contexts, q # p, Owns(q)
      PROVE  /\ Part(q)[1] \in Int /\ Part(q)[2] \in 1..Size /\ Within(Part(q))
             /\ Tags(Part(q)) = Marks(q)
             /\ \A i \in Tags(Part(q)) : memmap[i] = Part(q)[2]
             /\ Owns(p) => Apart(Part(p), Part(q))
  <2>1. /\ PC(q) = "acquire" /\ ~Scans(q) /\ Marks(q) = {ctx[q].off, LastOf(ctx[q].off, Span(q))}
    BY <1>1, OwnersWait DEF IInv
  <2>2. /\ Part(q)[1] \in Int /\ Part(q)[2] = Span(q) /\ Span(q) \in 1..Size /\ Within(Part(q))
        /\ Part(q)[1] = membase + ctx[q].off /\ ctx[q].off \in 0..(Size - 1) /\ membase \in 0..Size
    BY <1>1, <2>1, PartTypes, SizeAssumption DEF IInv, Types
  <2>3. Part(q)[1] - membase = ctx[q].off
    BY <2>2
  <2>4. Tags(Part(q)) = Marks(q)
    BY <2>1, <2>2, <2>3 DEF Tags
  <2>5. \A i \in Marks(q) : memmap[i] = Span(q)
    BY <2>1 DEF IInv, Tagged
  <2>6. Owns(p) => Apart(Part(p), Part(q))
    BY <1>1 DEF IInv, Placed
  <2> QED
    BY <2>2, <2>4, <2>5, <2>6
<1>2. ASSUME NEW b \in live
      PROVE  /\ b[1] \in Int /\ b[2] \in 1..Size /\ Within(b)
             /\ \A i \in Tags(b) : memmap[i] = b[2]
             /\ Owns(p) => Apart(Part(p), b)
  BY BlockTypes, SizeAssumption DEF IInv, Placed, Tagged
<1>3. \A d \in Taken(p) : d \in live \/ \E q \in Contexts : q # p /\ Owns(q) /\ d = Part(q)
  BY DEF Taken
<1>4. \A q \in Contexts : q # p /\ Owns(q) => Part(q) \in Taken(p)
  BY DEF Taken
<1>5. live \subseteq Taken(p)
  BY DEF Taken
<1>6. ASSUME NEW d \in Taken(p)
      PROVE  /\ d[1] \in Int /\ d[2] \in 1..Size /\ Within(d)
             /\ \A i \in Tags(d) : memmap[i] = d[2]
             /\ Owns(p) => Apart(Part(p), d)
  <2>1. CASE d \in live
    BY <2>1, <1>2
  <2>2. CASE \E q \in Contexts : q # p /\ Owns(q) /\ d = Part(q)
    BY <2>2, <1>1
  <2> QED
    BY <2>1, <2>2, <1>3
<1>7. ASSUME NEW d \in Taken(p), NEW e \in Taken(p), d # e
      PROVE  Apart(d, e)
  <2>1. CASE d \in live /\ e \in live
    BY <2>1, <1>7 DEF IInv, Placed
  <2>2. CASE d \in live /\ \E q \in Contexts : q # p /\ Owns(q) /\ e = Part(q)
    BY <2>2, ApartEither DEF IInv, Placed
  <2>3. CASE e \in live /\ \E q \in Contexts : q # p /\ Owns(q) /\ d = Part(q)
    BY <2>3 DEF IInv, Placed
  <2>4. CASE (\E q \in Contexts : q # p /\ Owns(q) /\ d = Part(q))
             /\ (\E q \in Contexts : q # p /\ Owns(q) /\ e = Part(q))
    <3>1. PICK q \in Contexts : Owns(q) /\ d = Part(q)
      BY <2>4
    <3>2. PICK r \in Contexts : Owns(r) /\ e = Part(r)
      BY <2>4
    <3>3. q # r
      BY <3>1, <3>2, <1>7
    <3> QED
      BY <3>1, <3>2, <3>3 DEF IInv, Placed
  <2> QED
    BY <2>1, <2>2, <2>3, <2>4, <1>3
<1>8. ASSUME NEW i \in 0..(Size - 1), memmap[i] # 0
      PROVE  (\E d \in Taken(p) : i \in Tags(d)) \/ i \in Marks(p)
  <2>1. CASE \E b \in live : i \in Tags(b)
    BY <2>1, <1>5
  <2>2. CASE \E q \in Contexts : i \in Marks(q)
    <3>1. PICK q \in Contexts : i \in Marks(q)
      BY <2>2
    <3>2. CASE q = p
      BY <3>1, <3>2
    <3>3. CASE q # p
      <4>1. Owns(q)
        BY <3>1 DEF Marks
      <4> QED
        BY <3>1, <3>3, <4>1, <1>1, <1>4
    <3> QED
      BY <3>2, <3>3
  <2> QED
    BY <1>8, <2>1, <2>2 DEF IInv, Tagged
<1> QED
  BY <1>6, <1>7, <1>8

(* A step of the scan: the window, or the block found, is apart from all   *)
(* that is in the table. *)
LEMMA WindowStep ==
    ASSUME IInv, NEW p \in Contexts, NEW g, Moved(p, g), PC(p) \in {"malloc", "scan", "skip"},
           UNCHANGED <<table, lines, locks, live, calls>>,
           g.op = Op(p), g.len = ctx[p].len, g.pc \in {"scan", "tagfirst"}, Scanned(g),
           NEW w, w = <<IF g.pc = "scan" THEN membase + g.off + 1 ELSE membase + g.off,
                        IF g.pc = "scan" THEN g.kmemb ELSE g.len>>,
           Within(w), \A d \in Taken(p) : Apart(w, d)
    PROVE  IInv'
<1>1. /\ Op(p) = "malloc" /\ Locked(p) /\ memrdy /\ PC(p) \in Working /\ ctx[p].len > 0
      /\ OpFits(g.pc, Op(p), ctx[p].len, memrdy) /\ g.pc \in Working
  BY MallocOp DEF IInv, MallocPoints, Working, BrkPoints
<1>2. /\ memrdy' = memrdy /\ membase' = membase /\ memtblsize' = memtblsize /\ memmap' = memmap
      /\ live' = live
  BY DEF table
<1>3. OthersKept(p)
  BY SameTable DEF IInv
<1>4. /\ PC(p)' = g.pc /\ Op(p)' = g.op /\ Address(p)' = membase + g.off
      /\ ctx'[p].kmemb = g.kmemb /\ ctx'[p].len = g.len
  BY <1>2 DEF Moved, PC, Op, Address
<1>5. (Scans(p)' <=> g.pc = "scan") /\ (Span(p)' = IF g.pc = "scan" THEN g.kmemb ELSE g.len)
  BY <1>1, <1>4 DEF Scans, Span
<1>6. Part(p)' = w
  BY <1>4, <1>5, Zenon DEF Part
<1>7. Within(Part(p))'
  BY <1>2, <1>6 DEF Within
<1>8. \A b \in live' : Apart(Part(p)', b)
  BY <1>2, <1>6 DEF Taken
<1>9. \A q \in Contexts : q # p /\ Owns(q) => Apart(Part(p)', Part(q)) /\ Apart(Part(q), Part(p)')
  <2> SUFFICES ASSUME NEW q \in Contexts, q # p, Owns(q) PROVE Apart(w, Part(q)) /\ Apart(Part(q), w)
    BY <1>6
  <2>1. Part(q) \in Taken(p)
    BY DEF Taken
  <2> QED
    BY <2>1, ApartEither
<1>10. Placed'
  BY <1>1, <1>2, <1>3, <1>5, <1>7, <1>8, <1>9, PlacedStep DEF IInv
<1>11. Marks(p) = {} /\ Marks(p)' = {} /\ PC(p)' # "untaglast"
  BY <1>1, <1>4 DEF Marks, Owns, MallocPoints
<1>12. Tagged'
  BY <1>2, <1>3, <1>11, TaggedSame DEF IInv
<1>13. ~Lowered(p)' /\ ~IoPends(p)
  BY <1>1, <1>4 DEF Lowered, IoPends, Hangs
<1> QED
  BY <1>1, <1>10, <1>12, <1>13, LocalStep
LEMMA MemoryTypes ==
    ASSUME IInv
    PROVE  /\ membase \in 0..Size /\ memtblsize \in 0..Size /\ Size \in Nat \ {0}
           /\ \A i \in 0..(Size - 1) : memmap[i] \in 0..Size
           /\ memrdy => membase + memtblsize <= Size
           /\ ctx \in [Contexts -> Records]
BY SizeAssumption DEF IInv, Types, Unready

LEMMA ScanRecord ==
    ASSUME NEW h \in Records, NEW o \in (-1)..(Size - 1), NEW k \in 0..Size
    PROVE  /\ [h EXCEPT !.pc = "scan", !.off = o, !.kmemb = k] \in Records
           /\ [h EXCEPT !.pc = "scan", !.off = o] \in Records
<1> DEFINE A == (-1)..(Size - 1)
           B == 0..Size
           C == 0..(Size + 1)
           D == {"none", "malloc", "free", "brk"}
           R == [pc : PCs, op : D, len : B, off : A, kmemb : B, nmemb : B, pos : C]
<1>1. h \in R /\ o \in A /\ k \in B /\ "scan" \in PCs /\ Records = R
  BY DEF Records, PCs
<1> HIDE DEF A, B, C, D
<1>2. [h EXCEPT !.pc = "scan", !.off = o, !.kmemb = k] \in R
  BY <1>1
<1>3. [h EXCEPT !.pc = "scan", !.off = o] \in R
  BY <1>1
<1> QED
  BY <1>1, <1>2, <1>3

LEMMA StartScanInv ==
    ASSUME IInv, NEW p \in Contexts, StartScan(p)
    PROVE  IInv'
<1> DEFINE h == ctx[p]
           g == [h EXCEPT !.pc = "scan", !.off = memtblsize - 1]
           w == <<membase + g.off + 1, g.kmemb>>
<1>1. PC(p) = "malloc" /\ Runs(p) /\ Set(p, g) /\ UNCHANGED <<table, lines, locks, live, calls>>
  BY DEF StartScan, At, PC
<1>2. h \in Records /\ h.kmemb = 0 /\ h.op = Op(p)
  BY <1>1, MemoryTypes DEF IInv, Scanning, Scanned, PC, Op
<1> HIDE DEF h
<1>3. /\ g \in Records /\ g.pc = "scan" /\ g.off = memtblsize - 1 /\ g.kmemb = 0
      /\ g.op = Op(p) /\ g.len = h.len
  <2>1. memtblsize - 1 \in (-1)..(Size - 1)
    BY MemoryTypes
  <2>2. g \in Records
    <3>1. 0 \in 0..Size
      BY MemoryTypes
    <3> HIDE DEF g
    <3>2. g = [h EXCEPT !.pc = "scan", !.off = memtblsize - 1]
      BY DEF g
    <3> QED
      BY <1>2, <2>1, <3>1, <3>2, ScanRecord
  <2> QED
    BY <1>2, <2>2 DEF Records
<1> HIDE DEF g
<1>4. /\ Op(p) = "malloc" /\ Locked(p) /\ memrdy /\ h.len > 0
  BY <1>1, MallocOp DEF IInv, MallocPoints, h
<1>5. Moved(p, g)
  BY <1>1, <1>3, SetMoved DEF IInv
<1>6. Scanned(g)
  BY <1>3, <1>4 DEF Scanned
<1>7. w[1] = membase + memtblsize /\ w[2] = 0
  BY <1>3, MemoryTypes
<1>8. Within(w)
  BY <1>7, MemoryTypes DEF Within
<1>9. \A d \in Taken(p) : Apart(w, d)
  <2> SUFFICES ASSUME NEW d \in Taken(p) PROVE Apart(w, d)
    OBVIOUS
  <2>1. d[1] \in Int /\ d[2] \in 1..Size /\ d[1] + d[2] <= membase + memtblsize
    BY <1>1, <1>4, TakenFacts DEF Within
  <2> QED
    BY <2>1, <1>7, MemoryTypes DEF Apart
<1>10. w = <<IF g.pc = "scan" THEN membase + g.off + 1 ELSE membase + g.off,
             IF g.pc = "scan" THEN g.kmemb ELSE g.len>>
  BY <1>3
<1> HIDE DEF w
<1> QED
  BY <1>1, <1>3, <1>5, <1>6, <1>8, <1>9, <1>10, WindowStep DEF h

(* The window of a scan, before the step: nothing in the table reaches     *)
(* over its lower end. *)
LEMMA WindowFacts ==
    ASSUME IInv, NEW p \in Contexts, Runs(p), Scans(p)
    PROVE  /\ Op(p) = "malloc" /\ Locked(p) /\ memrdy /\ Marks(p) = {}
           /\ ctx[p].off \in (-1)..(Size - 1) /\ ctx[p].kmemb \in 0..Size /\ ctx[p].len \in 1..Size
           /\ ctx[p].kmemb < ctx[p].len
           /\ membase + ctx[p].off + 1 + ctx[p].kmemb <= membase + memtblsize
           /\ \A d \in Taken(p) :
                 \/ d[1] + d[2] <= membase + ctx[p].off + 1
                 \/ membase + ctx[p].off + 1 + ctx[p].kmemb <= d[1]
<1>1. PC(p) \in {"scan", "skip"}
  BY DEF Scans
<1>2. Op(p) = "malloc" /\ Locked(p) /\ memrdy /\ ctx[p].len > 0 /\ Marks(p) = {}
  BY <1>1, MallocOp DEF IInv, MallocPoints, Marks
<1>3. Owns(p)
  BY <1>1 DEF Owns, MallocPoints
<1>4. ctx[p].off \in (-1)..(Size - 1) /\ ctx[p].kmemb \in 0..Size /\ ctx[p].len \in 0..Size
  BY MemoryTypes, RecordParts
<1>5. ctx[p].kmemb < ctx[p].len
  BY <1>1 DEF IInv, Scanning, Scanned, PC
<1>6. Part(p) = <<membase + ctx[p].off + 1, ctx[p].kmemb>>
  BY <1>1, <1>2 DEF Part, Span, Scans, Address
<1>7. Within(Part(p)) /\ \A d \in Taken(p) : Apart(Part(p), d)
  BY <1>2, <1>3, TakenFacts DEF IInv, Placed
<1> QED
  BY <1>2, <1>4, <1>5, <1>6, <1>7, MemoryTypes DEF Within, Apart

LEMMA ScanFreeInv ==
    ASSUME IInv, NEW p \in Contexts, ScanFree(p)
    PROVE  IInv'
<1> DEFINE h == ctx[p]
           f == [h EXCEPT !.pc = "tagfirst"]
           n == [h EXCEPT !.off = @ - 1, !.kmemb = @ + 1]
           g == IF Enough(p) THEN f ELSE n
           w == <<membase + h.off, h.kmemb + 1>>
<1>1. /\ PC(p) = "scan" /\ Runs(p) /\ UNCHANGED <<table, lines, locks, live, calls>>
      /\ h.off >= 0 /\ memmap[h.off] = 0
      /\ Enough(p) <=> h.kmemb + 1 = h.len
  BY DEF ScanFree, At, PC, Enough
<1>2. Set(p, g)
  BY DEF ScanFree, Set, Goto
<1>3. Scans(p) /\ PC(p) = "scan"
  BY <1>1 DEF Scans
<1>4. /\ Op(p) = "malloc" /\ Locked(p) /\ memrdy
      /\ h.off \in 0..(Size - 1) /\ h.kmemb \in 0..Size /\ h.len \in 1..Size
      /\ h.kmemb < h.len
      /\ membase + h.off + 1 + h.kmemb <= membase + memtblsize
      /\ \A d \in Taken(p) :
            \/ d[1] + d[2] <= membase + h.off + 1
            \/ membase + h.off + 1 + h.kmemb <= d[1]
  BY <1>1, <1>3, WindowFacts, MemoryTypes
<1>5. h \in Records /\ h.op = Op(p) /\ h.pc = "scan"
  BY <1>1, MemoryTypes DEF PC, Op
<1>6. \A d \in Taken(p) : Apart(w, d)
  <2> SUFFICES ASSUME NEW d \in Taken(p) PROVE Apart(w, d)
    OBVIOUS
  <2>1. d[1] \in Int /\ d[2] \in 1..Size /\ \A i \in Tags(d) : memmap[i] = d[2]
    BY <1>1, <1>4, TakenFacts
  <2>2. d[1] + d[2] # membase + h.off + 1
    <3>1. SUFFICES ASSUME d[1] + d[2] = membase + h.off + 1 PROVE FALSE
      OBVIOUS
    <3>2. h.off = LastOf(d[1] - membase, d[2])
      BY <3>1, <2>1, <1>4, MemoryTypes DEF LastOf
    <3>3. h.off \in Tags(d)
      BY <3>2 DEF Tags
    <3> QED
      BY <3>3, <2>1, <1>1
  <2>3. w[1] = membase + h.off /\ w[2] = h.kmemb + 1
    OBVIOUS
  <2> HIDE DEF w, h
  <2>4. d[1] + d[2] <= membase + h.off + 1 \/ membase + h.off + 1 + h.kmemb <= d[1]
    BY <1>4
  <2> QED
    BY <2>1, <2>2, <2>3, <2>4, <1>4, MemoryTypes DEF Apart
<1> HIDE DEF h
<1>7. Within(w)
  <2>1. w[1] = membase + h.off /\ w[2] = h.kmemb + 1
    OBVIOUS
  <2> HIDE DEF w
  <2> QED
    BY <2>1, <1>4, MemoryTypes DEF Within
<1>8. CASE Enough(p)
  <2>1. g = f
    BY <1>8
  <2>2. /\ f \in Records /\ f.pc = "tagfirst" /\ f.off = h.off /\ f.len = h.len /\ f.op = Op(p)
    BY <1>5 DEF Records, PCs
  <2>3. w = <<membase + f.off, f.len>>
    BY <2>2, <1>1, <1>8
  <2> HIDE DEF f, g, w
  <2>4. Moved(p, f)
    BY <1>2, <2>1, <2>2, SetMoved DEF IInv
  <2>5. Scanned(f)
    BY <2>2 DEF Scanned
  <2>6. w = <<IF f.pc = "scan" THEN membase + f.off + 1 ELSE membase + f.off,
             IF f.pc = "scan" THEN f.kmemb ELSE f.len>>
    BY <2>2, <2>3
  <2> QED
    BY <1>1, <1>6, <1>7, <2>2, <2>4, <2>5, <2>6, WindowStep DEF h
<1>9. CASE ~Enough(p)
  <2>1. g = n
    BY <1>9
  <2>2. h.kmemb + 1 \in 0..Size /\ h.off - 1 \in (-1)..(Size - 1) /\ h.kmemb + 1 < h.len
    BY <1>1, <1>4, <1>9, MemoryTypes
  <2>3. /\ n \in Records /\ n.pc = "scan" /\ n.off = h.off - 1 /\ n.len = h.len /\ n.op = Op(p)
        /\ n.kmemb = h.kmemb + 1
    BY <1>5, <2>2 DEF Records, PCs
  <2>4. w = <<membase + n.off + 1, n.kmemb>>
    BY <2>3, <1>4, MemoryTypes
  <2> HIDE DEF n, g, w
  <2>5. Moved(p, n)
    BY <1>2, <2>1, <2>3, SetMoved DEF IInv
  <2>6. Scanned(n)
    BY <2>2, <2>3 DEF Scanned
  <2>7. w = <<IF n.pc = "scan" THEN membase + n.off + 1 ELSE membase + n.off,
             IF n.pc = "scan" THEN n.kmemb ELSE n.len>>
    BY <2>3, <2>4
  <2> QED
    BY <1>1, <1>6, <1>7, <2>3, <2>5, <2>6, <2>7, WindowStep DEF h
<1> QED
  BY <1>8, <1>9

LEMMA SkipInv ==
    ASSUME IInv, NEW p \in Contexts, Skip(p)
    PROVE  IInv'
<1> DEFINE h == ctx[p]
           o == SkipTo(h.off)
           g == [h EXCEPT !.pc = "scan", !.off = o, !.kmemb = 0]
           w == <<membase + o + 1, 0>>
<1>1. /\ PC(p) = "skip" /\ Runs(p) /\ UNCHANGED <<table, lines, locks, live, calls>> /\ h.off >= 0
      /\ Set(p, g)
  BY DEF Skip, At, PC, IInv, Scanning, Scanned
<1>2. Scans(p)
  BY <1>1 DEF Scans
<1>3. /\ Op(p) = "malloc" /\ Locked(p) /\ memrdy /\ Marks(p) = {}
      /\ h.off \in 0..(Size - 1) /\ h.kmemb \in 0..Size /\ h.len \in 1..Size
      /\ membase + h.off + 1 + h.kmemb <= membase + memtblsize
      /\ \A d \in Taken(p) :
            \/ d[1] + d[2] <= membase + h.off + 1
            \/ membase + h.off + 1 + h.kmemb <= d[1]
  BY <1>1, <1>2, WindowFacts, MemoryTypes
<1>4. h \in Records /\ h.op = Op(p)
  BY MemoryTypes DEF Op
<1>5. o = h.off - memmap[h.off] /\ memmap[h.off] \in 0..Size
  BY <1>3, MemoryTypes DEF SkipTo
<1> HIDE DEF h, o
<1>6. /\ o \in (-1)..(Size - 1) /\ membase + o + 1 <= membase + memtblsize
      /\ \A d \in Taken(p) : d[1] + d[2] <= membase + o + 1 \/ membase + o + 1 <= d[1]
  <2>1. CASE memmap[h.off] = 0
    <3>1. o = h.off
      BY <1>3, <1>5, <2>1
    <3>2. \A d \in Taken(p) : d[1] \in Int /\ d[2] \in 1..Size
      BY <1>1, <1>3, TakenFacts
    <3> QED
      BY <1>3, <3>1, <3>2, MemoryTypes
  <2>2. CASE memmap[h.off] # 0
    <3>1. PICK e \in Taken(p) : h.off \in Tags(e)
      BY <1>1, <1>3, <2>2, TakenFacts
    <3>2. e[1] \in Int /\ e[2] \in 1..Size /\ Within(e) /\ memmap[h.off] = e[2]
      BY <1>1, <1>3, <3>1, TakenFacts
    <3>3. h.off = e[1] - membase \/ h.off = e[1] - membase + e[2] - 1
      BY <3>1 DEF Tags, LastOf
    <3>4. e[1] + e[2] <= membase + h.off + 1 \/ membase + h.off + 1 + h.kmemb <= e[1]
      BY <1>3
    <3>5. e[1] + e[2] = membase + h.off + 1
      BY <3>2, <3>3, <3>4, <1>3, MemoryTypes
    <3>6. membase + o + 1 = e[1]
      BY <3>2, <3>5, <1>3, <1>5, MemoryTypes
    <3>7. o \in (-1)..(Size - 1) /\ membase + o + 1 <= membase + memtblsize
      BY <3>2, <3>6, <1>3, <1>5, MemoryTypes DEF Within
    <3>8. ASSUME NEW d \in Taken(p)
          PROVE  d[1] + d[2] <= membase + o + 1 \/ membase + o + 1 <= d[1]
      <4>1. d[1] \in Int /\ d[2] \in 1..Size /\ (d # e => Apart(d, e))
        BY <1>1, <1>3, TakenFacts
      <4>2. CASE d = e
        BY <4>2, <3>2, <3>6
      <4>3. CASE d # e
        <5>1. d[1] + d[2] <= e[1] \/ e[1] + e[2] <= d[1]
          BY <4>1, <4>3 DEF Apart
        <5> QED
          BY <5>1, <4>1, <3>2, <3>6
      <4> QED
        BY <4>2, <4>3
    <3> QED
      BY <3>7, <3>8
  <2> QED
    BY <2>1, <2>2
<1>7. /\ g \in Records /\ g.pc = "scan" /\ g.off = o /\ g.kmemb = 0 /\ g.op = Op(p) /\ g.len = h.len
  <2>1. g \in Records
    <3>1. 0 \in 0..Size
      BY MemoryTypes
    <3> HIDE DEF g
    <3>2. g = [h EXCEPT !.pc = "scan", !.off = o, !.kmemb = 0]
      BY DEF g
    <3> QED
      BY <1>4, <1>6, <3>1, <3>2, ScanRecord
  <2> QED
    BY <1>4, <2>1 DEF Records
<1> HIDE DEF g
<1>8. Moved(p, g)
  BY <1>1, <1>7, SetMoved DEF IInv
<1>9. Scanned(g)
  BY <1>7, <1>3 DEF Scanned
<1>10. w[1] = membase + o + 1 /\ w[2] = 0
  OBVIOUS
<1>11. w = <<IF g.pc = "scan" THEN membase + g.off + 1 ELSE membase + g.off,
             IF g.pc = "scan" THEN g.kmemb ELSE g.len>>
  BY <1>7
<1> HIDE DEF w
<1>12. Within(w)
  BY <1>6, <1>10, MemoryTypes DEF Within
<1>13. \A d \in Taken(p) : Apart(w, d)
  <2> SUFFICES ASSUME NEW d \in Taken(p) PROVE Apart(w, d)
    OBVIOUS
  <2>1. w[1] + w[2] = membase + o + 1
    BY <1>10, <1>6, MemoryTypes
  <2> QED
    BY <2>1, <1>6, <1>10 DEF Apart
<1> QED
  BY <1>1, <1>7, <1>8, <1>9, <1>11, <1>12, <1>13, WindowStep DEF h
-----------------------------------------------------------------------------
(* The steps that write a tag. *)

LEMMA MarkApart ==
    ASSUME IInv, NEW p \in Contexts, Owns(p), ~Scans(p),
           NEW k \in {ctx[p].off, LastOf(ctx[p].off, Span(p))}
    PROVE  /\ k \in 0..(Size - 1)
           /\ \A b \in live : k \notin Tags(b)
           /\ \A q \in Contexts : q # p => k \notin Marks(q)
           /\ \A q \in Contexts : q # p /\ Owns(q) /\ ~Scans(q) => k # ctx[q].off
<1>1. k \in 0..(Size - 1) /\ Inside(k, Part(p))
  BY MarksInside DEF IInv
<1>2. /\ Part(p)[1] \in Int /\ Part(p)[2] \in Int /\ membase \in Int
  BY PartTypes, MemoryTypes DEF IInv
<1>3. ASSUME NEW b \in live PROVE k \notin Tags(b)
  <2>1. b[1] \in Int /\ b[2] \in Int
    BY BlockTypes DEF IInv
  <2>2. Apart(Part(p), b)
    BY DEF IInv, Placed
  <2>3. ~Inside(k, b)
    BY <1>1, <1>2, <2>1, <2>2, ApartInside
  <2> QED
    BY <2>3, TagsInside DEF IInv
<1>4. ASSUME NEW q \in Contexts, q # p, Owns(q), ~Scans(q)
      PROVE  k \notin Marks(q) /\ k # ctx[q].off
  <2>1. Part(q)[1] \in Int /\ Part(q)[2] \in Int
    BY <1>4, PartTypes DEF IInv
  <2>2. Apart(Part(p), Part(q))
    BY <1>4 DEF IInv, Placed
  <2>3. ~Inside(k, Part(q))
    BY <1>1, <1>2, <2>1, <2>2, ApartInside
  <2> QED
    BY <1>4, <2>3, MarksInside DEF IInv
<1>5. \A q \in Contexts : Marks(q) # {} => Owns(q) /\ ~Scans(q)
  BY DEF Marks, Scans
<1> QED
  BY <1>1, <1>3, <1>4, <1>5

LEMMA WriteStep ==
    ASSUME IInv, NEW p \in Contexts, NEW g, Moved(p, g), Locked(p), PC(p) \in Working,
           Owns(p), ~Scans(p),
           NEW k \in {ctx[p].off, LastOf(ctx[p].off, Span(p))}, NEW v \in 0..Size,
           memmap' = [memmap EXCEPT ![k] = v],
           UNCHANGED <<memrdy, membase, memtblsize, lines, locks, live, calls>>,
           g.op = Op(p), g.off = ctx[p].off, g.pc \in Working, g.pc \notin {"raise", "check", "lower", "return"},
           OpFits(g.pc, g.op, g.len, memrdy), Scanned(g),
           Owns(p)', ~Scans(p)', Span(p)' = Span(p),
           PC(p)' # "untaglast" => \A i \in Marks(p)' : memmap'[i] = Span(p),
           \A i \in Marks(p) : memmap'[i] = 0 \/ i \in Marks(p)',
           v # 0 => k \in Marks(p)',
           Lowered(p)' => Lowered(p), PC(p) # "check"
    PROVE  IInv'
<1>1. /\ memrdy' = memrdy /\ membase' = membase /\ memtblsize' = memtblsize /\ live' = live
      /\ ioheapLine' = ioheapLine /\ heapLine' = heapLine /\ heapCur' = heapCur
      /\ held' = held /\ mallocLock' = mallocLock
  BY DEF lines, locks
<1>2. /\ k \in 0..(Size - 1)
      /\ \A b \in live : k \notin Tags(b)
      /\ \A q \in Contexts : q # p => k \notin Marks(q)
      /\ \A q \in Contexts : q # p /\ Owns(q) /\ ~Scans(q) => k # ctx[q].off
  BY MarkApart
<1>3. /\ memmap \in [0..(Size - 1) -> 0..Size] /\ memmap' \in [0..(Size - 1) -> 0..Size]
      /\ memmap'[k] = v /\ \A i : i # k => memmap'[i] = memmap[i]
  <2>1. memmap \in [0..(Size - 1) -> 0..Size]
    BY DEF IInv, Types
  <2>2. memmap' \in [0..(Size - 1) -> 0..Size] /\ memmap'[k] = v
        /\ \A i \in 0..(Size - 1) : i # k => memmap'[i] = memmap[i]
    BY <2>1, <1>2
  <2>3. \A i : i \notin 0..(Size - 1) => memmap'[i] = memmap[i]
    BY <2>1, <1>2
  <2> QED
    BY <2>1, <2>2, <2>3
<1>4. OthersKept(p)
  <2> SUFFICES ASSUME NEW q \in Contexts, q # p PROVE Keeps(q)
    BY DEF OthersKept
  <2>1. Op(q) = "free" /\ PC(q) \in {"acquire", "free"} => Owns(q) /\ ~Scans(q)
    BY DEF Owns, Scans
  <2>2. Op(q) = "free" /\ PC(q) \in {"acquire", "free"} => memmap'[ctx[q].off] = memmap[ctx[q].off]
    BY <2>1, <1>2, <1>3
  <2> QED
    BY <2>2, <1>1, OthersKeep DEF IInv
<1>5. PC(p)' = g.pc /\ Address(p)' = Address(p)
  BY <1>1 DEF Moved, PC, Address
<1>6. Part(p)' = Part(p)
  BY <1>5 DEF Part
<1>7. Placed'
  BY <1>1, <1>4, <1>6, PlacedSame DEF IInv
<1>8. Tagged'
  <2>1. \A b \in live' : \A i \in Tags(b) : memmap'[i] = b[2]
    BY <1>1, <1>2, <1>3 DEF IInv, Tagged
  <2>2. \A q \in Contexts : q # p => \A i \in Marks(q) : memmap'[i] = memmap[i]
    BY <1>2, <1>3
  <2>3. ASSUME NEW i \in 0..(Size - 1), memmap'[i] # 0
        PROVE  \/ \E b \in live' : i \in Tags(b)
               \/ \E q \in Contexts : q # p /\ i \in Marks(q)
               \/ i \in Marks(p)'
    <3>1. CASE i = k
      BY <3>1, <2>3, <1>3
    <3>2. CASE i # k
      <4>1. memmap[i] # 0
        BY <3>2, <2>3, <1>3
      <4>2. (\E b \in live : i \in Tags(b)) \/ (\E q \in Contexts : i \in Marks(q))
        BY <4>1 DEF IInv, Tagged
      <4> QED
        BY <4>2, <2>3, <1>1
    <3> QED
      BY <3>1, <3>2
  <2> QED
    BY <1>1, <1>4, <2>1, <2>2, <2>3, TaggedStep DEF IInv
<1>9. LineLow'
  <2>1. Lowered(p)' => ioheapLine <= Address(p)'
    BY <1>5 DEF IInv, LineLow
  <2> QED
    BY <1>1, <1>4, <1>5, <2>1, LineStep DEF IInv
<1>10. heapLine \in Nat /\ heapCur \in Nat /\ ioheapLine \in Nat /\ ioheapLine' \in 0..Size
  BY <1>1, SizeAssumption DEF IInv, Types
<1>11. /\ PC(p) \notin {"brkcheck", "hang"} /\ PC(p)' \notin {"brkcheck", "brkcur"}
       /\ ~IoPends(p)
  BY <1>5 DEF Working, BrkPoints, MallocPoints, FreePoints, IoPends, Hangs
<1>12. HeapLow'
  BY <1>1, <1>4, <1>5, <1>10, <1>11, HeapStep DEF IInv
<1> QED
  BY <1>1, <1>3, <1>7, <1>8, <1>9, <1>10, <1>12, WorkStep

LEMMA TagFirstInv ==
    ASSUME IInv, NEW p \in Contexts, TagFirst(p)
    PROVE  IInv'
<1> DEFINE k == ctx[p].off
           v == ctx[p].len
<1>1. /\ PC(p) = "tagfirst" /\ Goto(p, "taglast") /\ memmap' = [memmap EXCEPT ![k] = v]
      /\ UNCHANGED <<memrdy, membase, memtblsize, lines, locks, live, calls>>
  BY DEF TagFirst, At, PC
<1>2. /\ Op(p) = "malloc" /\ Locked(p) /\ memrdy /\ PC(p) \in Working
      /\ OpFits("taglast", Op(p), v, memrdy)
  BY <1>1, MallocOp DEF IInv, MallocPoints
<1>3. PICK g : Moved(p, g) /\ g.pc = "taglast" /\ g.op = Op(p) /\ SameLocals(g, ctx[p])
  BY <1>1, GotoMoved DEF IInv, PCs
<1>4. Owns(p) /\ ~Scans(p) /\ Span(p) = v /\ Marks(p) = {}
  BY <1>1, <1>2 DEF Owns, Scans, Span, Marks, MallocPoints
<1>5. PC(p)' = "taglast" /\ Op(p)' = "malloc" /\ ctx'[p].len = v /\ ctx'[p].off = k
  BY <1>2, <1>3 DEF Moved, SameLocals, PC, Op
<1>6. Owns(p)' /\ ~Scans(p)' /\ Span(p)' = v
  BY <1>5 DEF Owns, Scans, Span, MallocPoints
<1>7. Marks(p)' = {k}
  BY <1>5, <1>6 DEF Marks
<1>8. v \in 0..Size /\ k \in 0..(Size - 1)
  BY <1>4, PartTypes DEF IInv
<1>9. memmap'[k] = v
  BY <1>1, <1>8 DEF IInv, Types
<1>10. ~Lowered(p)'
  BY <1>5 DEF Lowered
<1>11. Scanned(g) /\ g.off = k /\ g.len = v
  BY <1>3 DEF Scanned, SameLocals
<1>12. "taglast" \in Working
  BY DEF Working, MallocPoints, BrkPoints
<1> HIDE DEF k, v
<1> QED
  BY <1>1, <1>2, <1>3, <1>4, <1>5, <1>6, <1>7, <1>8, <1>9, <1>10, <1>11, <1>12, WriteStep DEF k

LEMMA TagLastInv ==
    ASSUME IInv, NEW p \in Contexts, TagLast(p)
    PROVE  IInv'
<1> DEFINE v == ctx[p].len
           k == LastOf(ctx[p].off, v)
<1>1. /\ PC(p) = "taglast" /\ Goto(p, "line") /\ memmap' = [memmap EXCEPT ![k] = v]
      /\ UNCHANGED <<memrdy, membase, memtblsize, lines, locks, live, calls>>
  BY DEF TagLast, At, PC
<1>2. /\ Op(p) = "malloc" /\ Locked(p) /\ memrdy /\ PC(p) \in Working
      /\ OpFits("line", Op(p), v, memrdy)
  BY <1>1, MallocOp DEF IInv, MallocPoints
<1>3. PICK g : Moved(p, g) /\ g.pc = "line" /\ g.op = Op(p) /\ SameLocals(g, ctx[p])
  BY <1>1, GotoMoved DEF IInv, PCs
<1>4. Owns(p) /\ ~Scans(p) /\ Span(p) = v
  BY <1>1, <1>2 DEF Owns, Scans, Span, MallocPoints
<1>5. PC(p)' = "line" /\ Op(p)' = "malloc" /\ ctx'[p].len = v /\ ctx'[p].off = ctx[p].off
  BY <1>2, <1>3 DEF Moved, SameLocals, PC, Op
<1>6. Owns(p)' /\ ~Scans(p)' /\ Span(p)' = v
  BY <1>5 DEF Owns, Scans, Span, MallocPoints
<1>7. Marks(p) = {ctx[p].off} /\ Marks(p)' = {ctx[p].off, k}
  BY <1>1, <1>4, <1>5, <1>6 DEF Marks, LastOf
<1>8. v \in 0..Size /\ ctx[p].off \in 0..(Size - 1) /\ k \in 0..(Size - 1)
  BY <1>4, PartTypes, MarksInside DEF IInv
<1>9. memmap[ctx[p].off] = v
  BY <1>1, <1>4, <1>7 DEF IInv, Tagged
<1>10. \A i \in Marks(p)' : memmap'[i] = v
  BY <1>1, <1>7, <1>8, <1>9 DEF IInv, Types
<1>11. ~Lowered(p)'
  BY <1>5 DEF Lowered
<1>12. Scanned(g) /\ g.off = ctx[p].off /\ g.len = v
  BY <1>3 DEF Scanned, SameLocals
<1>13. "line" \in Working
  BY DEF Working, MallocPoints, BrkPoints
<1>14. k \in {ctx[p].off, LastOf(ctx[p].off, Span(p))}
  BY <1>4
<1> HIDE DEF k, v
<1> QED
  BY <1>1, <1>2, <1>3, <1>4, <1>5, <1>6, <1>7, <1>8, <1>10, <1>11, <1>12, <1>13, <1>14, WriteStep

LEMMA UntagRecord ==
    ASSUME NEW h \in Records, NEW v \in 0..Size
    PROVE  LET g == [h EXCEPT !.pc = "untaglast", !.nmemb = v]
           IN  /\ g \in Records /\ g.pc = "untaglast" /\ g.nmemb = v /\ g.op = h.op
               /\ g.off = h.off /\ g.len = h.len
<1> DEFINE A == (-1)..(Size - 1)
           B == 0..Size
           C == 0..(Size + 1)
           D == {"none", "malloc", "free", "brk"}
           R == [pc : PCs, op : D, len : B, off : A, kmemb : B, nmemb : B, pos : C]
           g == [h EXCEPT !.pc = "untaglast", !.nmemb = v]
<1>1. h \in R /\ v \in B /\ "untaglast" \in PCs /\ Records = R
  BY DEF Records, PCs
<1> HIDE DEF A, B, C, D
<1>2. g \in R
  BY <1>1
<1>3. g.pc = "untaglast" /\ g.nmemb = v /\ g.op = h.op /\ g.off = h.off /\ g.len = h.len
  BY <1>1
<1> QED
  BY <1>1, <1>2, <1>3

LEMMA UntagFirstInv ==
    ASSUME IInv, NEW p \in Contexts, UntagFirst(p)
    PROVE  IInv'
<1> DEFINE h == ctx[p]
           k == h.off
           g == [h EXCEPT !.pc = "untaglast", !.nmemb = memmap[k]]
<1>1. /\ PC(p) = "free" /\ Set(p, g) /\ memmap' = [memmap EXCEPT ![k] = 0]
      /\ UNCHANGED <<memrdy, membase, memtblsize, lines, locks, live, calls>>
  BY DEF UntagFirst, At, PC
<1>2. /\ Op(p) = "free" /\ Locked(p) /\ memrdy /\ PC(p) \in Working /\ Owns(p)
      /\ OpFits("untaglast", Op(p), ctx[p].len, memrdy)
  BY <1>1, FreeOp DEF IInv, FreePoints
<1>3. ~Scans(p) /\ Span(p) = memmap[k] /\ Marks(p) = {k, LastOf(k, Span(p))}
  BY <1>1, <1>2 DEF Scans, Span, Marks
<1>4. Span(p) \in 1..Size /\ k \in 0..(Size - 1)
  BY <1>2, <1>3, PartTypes, MemoryTypes DEF IInv
<1>5. h \in Records /\ h.op = Op(p)
  BY MemoryTypes DEF Op
<1> HIDE DEF h
<1>6. /\ g \in Records /\ g.pc = "untaglast" /\ g.nmemb = Span(p) /\ g.op = Op(p)
      /\ g.off = h.off /\ g.len = h.len
  <2> DEFINE v == memmap[k]
  <2>1. v \in 0..Size /\ v = Span(p)
    BY <1>3, <1>4
  <2>2. g = [h EXCEPT !.pc = "untaglast", !.nmemb = v]
    OBVIOUS
  <2> HIDE DEF v, g
  <2> QED
    BY <1>5, <2>1, <2>2, UntagRecord
<1> HIDE DEF g
<1>7. Moved(p, g)
  BY <1>1, <1>6, SetMoved DEF IInv
<1>8. PC(p)' = "untaglast" /\ Op(p)' = "free" /\ ctx'[p].nmemb = Span(p) /\ ctx'[p].off = k
  BY <1>2, <1>6, <1>7 DEF Moved, PC, Op
<1>9. Owns(p)' /\ ~Scans(p)' /\ Span(p)' = Span(p)
  BY <1>8 DEF Owns, Scans, Span
<1>10. Marks(p)' = {LastOf(k, Span(p))}
  BY <1>8, <1>9 DEF Marks
<1>11. memmap'[k] = 0
  BY <1>1, <1>4 DEF IInv, Types
<1>12. Lowered(p)
  BY <1>1, <1>2 DEF Lowered
<1>13. Scanned(g) /\ "untaglast" \in Working /\ 0 \in 0..Size
  BY <1>6, MemoryTypes DEF Scanned, Working, FreePoints, BrkPoints
<1>14. /\ k \in {ctx[p].off, LastOf(ctx[p].off, Span(p))} /\ k = ctx[p].off /\ ctx[p].len = h.len
       /\ k = h.off
  BY DEF h
<1> HIDE DEF k
<1> QED
  BY <1>1, <1>2, <1>3, <1>6, <1>7, <1>8, <1>9, <1>10, <1>11, <1>12, <1>13, <1>14, WriteStep

LEMMA UntagLastInv ==
    ASSUME IInv, NEW p \in Contexts, UntagLast(p)
    PROVE  IInv'
<1> DEFINE k == LastOf(ctx[p].off, ctx[p].nmemb)
<1>1. /\ PC(p) = "untaglast" /\ Goto(p, "raisetest") /\ memmap' = [memmap EXCEPT ![k] = 0]
      /\ UNCHANGED <<memrdy, membase, memtblsize, lines, locks, live, calls>>
  BY DEF UntagLast, At, PC
<1>2. /\ Op(p) = "free" /\ Locked(p) /\ memrdy /\ PC(p) \in Working /\ Owns(p)
      /\ OpFits("raisetest", Op(p), ctx[p].len, memrdy)
  BY <1>1, FreeOp DEF IInv, FreePoints
<1>3. ~Scans(p) /\ Span(p) = ctx[p].nmemb
  BY <1>1, <1>2 DEF Scans, Span
<1>4. Marks(p) = {k} /\ k \in {ctx[p].off, LastOf(ctx[p].off, Span(p))}
  BY <1>1, <1>2, <1>3 DEF Marks
<1>5. PICK g : Moved(p, g) /\ g.pc = "raisetest" /\ g.op = Op(p) /\ SameLocals(g, ctx[p])
  BY <1>1, GotoMoved DEF IInv, PCs
<1>6. /\ PC(p)' = "raisetest" /\ Op(p)' = "free" /\ ctx'[p].nmemb = Span(p) /\ ctx'[p].off = ctx[p].off
  BY <1>2, <1>3, <1>5 DEF Moved, PC, Op, SameLocals
<1>7. Owns(p)' /\ ~Scans(p)' /\ Span(p)' = Span(p)
  BY <1>6 DEF Owns, Scans, Span
<1>8. Marks(p)' = {}
  BY <1>6 DEF Marks
<1>9. k \in 0..(Size - 1)
  BY <1>2, <1>3, <1>4, MarksInside DEF IInv
<1>10. memmap'[k] = 0
  BY <1>1, <1>9 DEF IInv, Types
<1>11. Lowered(p)
  BY <1>1, <1>2 DEF Lowered
<1>12. Scanned(g) /\ "raisetest" \in Working /\ 0 \in 0..Size /\ g.off = ctx[p].off /\ g.len = ctx[p].len
  BY <1>5, MemoryTypes DEF Scanned, Working, FreePoints, BrkPoints, SameLocals
<1> HIDE DEF k
<1> QED
  BY <1>1, <1>2, <1>3, <1>4, <1>5, <1>6, <1>7, <1>8, <1>10, <1>11, <1>12, WriteStep
-----------------------------------------------------------------------------
(* The steps that move _ioheap_line. *)

LEMMA OthersBrk ==
    ASSUME NEW p \in Contexts, OthersKept(p), mallocLock' = mallocLock, memrdy' = memrdy,
           PC(p) \notin {"brkcheck", "hang"}
    PROVE  BrkPending => BrkPending'
<1>1. ~BrkPends(p)
  BY DEF BrkPends
<1>2. \A q \in Contexts : q # p /\ BrkPends(q) => BrkPends(q)'
  BY DEF OthersKept, Keeps, BrkPends
<1> QED
  BY <1>1, <1>2, PendingParts

LEMMA LowerInv ==
    ASSUME IInv, NEW p \in Contexts, Lower(p)
    PROVE  IInv'
<1>1. /\ PC(p) = "lower" /\ Runs(p) /\ Goto(p, "check") /\ ioheapLine' = Address(p)
      /\ UNCHANGED <<table, heapLine, heapCur, locks, live, calls>>
  BY DEF Lower, At, PC
<1>2. /\ Op(p) = "malloc" /\ Locked(p) /\ memrdy /\ PC(p) \in Working
      /\ OpFits("check", Op(p), ctx[p].len, memrdy)
  BY <1>1, MallocOp DEF IInv, MallocPoints
<1>3. PICK g : Moved(p, g) /\ g.pc = "check" /\ g.op = Op(p) /\ SameLocals(g, ctx[p])
  BY <1>1, GotoMoved DEF IInv, PCs
<1>4. OthersKept(p)
  BY <1>1, <1>3, SameTable DEF IInv
<1>5. /\ memrdy' = memrdy /\ membase' = membase /\ memtblsize' = memtblsize /\ memmap' = memmap
      /\ live' = live /\ heapLine' = heapLine /\ heapCur' = heapCur /\ mallocLock' = mallocLock
  BY <1>1 DEF table, locks
<1>6. /\ PC(p)' = "check" /\ Op(p)' = "malloc" /\ ctx'[p].len = ctx[p].len
      /\ ctx'[p].off = ctx[p].off /\ Address(p)' = Address(p)
  BY <1>2, <1>3, <1>5 DEF Moved, SameLocals, PC, Op, Address
<1>7. Owns(p) /\ ~Scans(p) /\ Owns(p)' /\ ~Scans(p)' /\ Span(p)' = Span(p)
  BY <1>1, <1>2, <1>6 DEF Owns, Scans, Span, MallocPoints
<1>8. Part(p)' = Part(p) /\ Marks(p)' = Marks(p)
  BY <1>1, <1>6, <1>7 DEF Part, Marks, LastOf
<1>9. Placed'
  BY <1>4, <1>5, <1>7, <1>8, PlacedSame DEF IInv
<1>10. Tagged'
  BY <1>1, <1>4, <1>5, <1>6, <1>7, <1>8, TaggedSame DEF IInv
<1>11. /\ Address(p) \in 0..Size /\ ioheapLine \in 0..Size /\ heapLine \in 0..Size /\ heapCur \in 0..Size
  <2>1. /\ Part(p)[1] = Address(p) /\ Within(Part(p)) /\ Span(p) \in 0..Size /\ Part(p)[2] = Span(p)
        /\ Address(p) \in Int
    BY <1>7, PartTypes DEF IInv
  <2>2. Address(p) \in 0..Size
    BY <2>1, <1>2, MemoryTypes DEF Within
  <2> QED
    BY <2>2 DEF IInv, Types
<1>12. Address(p) < ioheapLine
  BY <1>1 DEF IInv, LineLow
<1>13. ASSUME NEW q \in Contexts, q # p PROVE ~Locked(q)
  BY <1>1, <1>2, <1>13, Alone DEF IInv
<1>14. \A q \in Contexts : q # p => PC(q) \notin {"raise", "check", "lower"}
  BY <1>13, LockedPoints DEF IInv, MallocPoints, FreePoints
<1>15. \A q \in Contexts : q # p => Address(q)' = Address(q) /\ PC(q)' = PC(q) /\ (Lowered(q)' <=> Lowered(q))
  BY <1>4 DEF OthersKept, Keeps, Lowered
<1>16. LineLow'
  <2>1. \A b \in live' : ioheapLine' <= b[1]
    <3> SUFFICES ASSUME NEW b \in live PROVE Address(p) <= b[1]
      BY <1>1, <1>5
    <3>1. b[1] \in 0..Size /\ ioheapLine <= b[1]
      BY BlockTypes DEF IInv, LineLow
    <3> QED
      BY <3>1, <1>11, <1>12
  <2>2. ASSUME NEW q \in Contexts, Lowered(q)' PROVE ioheapLine' <= Address(q)'
    <3>1. CASE q = p
      BY <3>1, <1>1, <1>6, <1>11
    <3>2. CASE q # p
      <4>1. Lowered(q) /\ ioheapLine <= Address(q)
        BY <3>2, <2>2, <1>15 DEF IInv, LineLow
      <4>2. Owns(q)
        BY <4>1, <1>13, <3>2, LockedPoints DEF Lowered, Owns, IInv, MallocPoints
      <4>3. Address(q) \in Int
        BY <4>2, PartTypes DEF IInv
      <4> QED
        BY <4>1, <4>3, <3>2, <1>1, <1>11, <1>12, <1>15
    <3> QED
      BY <3>1, <3>2
  <2>3. \A q \in Contexts : PC(q)' \in {"raise", "check"} => ioheapLine' = Address(q)'
    BY <1>1, <1>6, <1>14, <1>15
  <2>4. \A q \in Contexts : PC(q)' = "lower" => Address(q)' < ioheapLine'
    BY <1>6, <1>14, <1>15
  <2> QED
    BY <2>1, <2>2, <2>3, <2>4 DEF LineLow
<1>17. HeapLow'
  <2>1. IoPending'
    BY <1>6, PendingParts DEF IoPends
  <2>2. BrkPending => BrkPending'
    BY <1>1, <1>4, <1>5, OthersBrk
  <2>3. \A q \in Contexts : PC(q)' \in {"brkcheck", "brkcur"} => ctx'[q].pos <= heapLine'
    BY <1>4, <1>5, <1>6 DEF IInv, HeapLow, OthersKept, Keeps
  <2>4. \A b \in live' : heapCur' <= b[1] /\ (heapLine' <= b[1] \/ BrkPending')
    BY <1>5, <2>2 DEF IInv, HeapLow
  <2>5. \A q \in Contexts : PC(q)' = "return" =>
           heapCur' <= Address(q)' /\ (heapLine' <= Address(q)' \/ BrkPending')
    BY <1>5, <1>6, <1>15, <2>2 DEF IInv, HeapLow
  <2> QED
    BY <1>5, <2>1, <2>3, <2>4, <2>5 DEF IInv, HeapLow
<1>18. Scanned(g) /\ "check" \in Working /\ g.len = ctx[p].len
  BY <1>3 DEF Scanned, Working, MallocPoints, BrkPoints, SameLocals
<1>19. memmap' \in [0..(Size - 1) -> 0..Size] /\ ioheapLine' \in 0..Size
  BY <1>1, <1>5, <1>11 DEF IInv, Types
<1> QED
  BY <1>1, <1>2, <1>3, <1>5, <1>9, <1>10, <1>16, <1>17, <1>18, <1>19, WorkStep

LEMMA RaiseInv ==
    ASSUME IInv, NEW p \in Contexts, Raise(p)
    PROVE  IInv'
<1>1. /\ PC(p) = "raise" /\ Runs(p) /\ Goto(p, "release") /\ ioheapLine' = ioheapLine + ctx[p].nmemb
      /\ UNCHANGED <<table, heapLine, heapCur, locks, live, calls>>
  BY DEF Raise, At, PC, Raised
<1>2. /\ Op(p) = "free" /\ Locked(p) /\ memrdy /\ PC(p) \in Working /\ Owns(p)
      /\ OpFits("release", Op(p), ctx[p].len, memrdy)
  BY <1>1, FreeOp DEF IInv, FreePoints
<1>3. PICK g : Moved(p, g) /\ g.pc = "release" /\ g.op = Op(p) /\ SameLocals(g, ctx[p])
  BY <1>1, GotoMoved DEF IInv, PCs
<1>4. OthersKept(p)
  BY <1>1, <1>3, SameTable DEF IInv
<1>5. /\ memrdy' = memrdy /\ membase' = membase /\ memtblsize' = memtblsize /\ memmap' = memmap
      /\ live' = live /\ heapLine' = heapLine /\ heapCur' = heapCur /\ mallocLock' = mallocLock
  BY <1>1 DEF table, locks
<1>6. PC(p)' = "release" /\ Op(p)' = "free"
  BY <1>2, <1>3 DEF Moved, PC, Op
<1>7. ~Scans(p) /\ ~Owns(p)' /\ Span(p) = ctx[p].nmemb /\ Marks(p) = {} /\ Marks(p)' = {}
  BY <1>1, <1>2, <1>6 DEF Owns, Scans, Span, MallocPoints, Marks
<1>8. Placed'
  BY <1>4, <1>5, <1>7, PlacedSame DEF IInv
<1>9. Tagged'
  BY <1>4, <1>5, <1>6, <1>7, TaggedSame DEF IInv
<1> DEFINE n == ctx[p].nmemb
<1>10. /\ n \in 1..Size /\ ioheapLine = Address(p) /\ ioheapLine \in 0..Size
       /\ heapLine \in 0..Size /\ heapCur \in 0..Size
       /\ Part(p)[1] = ioheapLine /\ Part(p)[2] = n /\ ioheapLine + n <= Size
  <2>1. ioheapLine = Address(p)
    BY <1>1 DEF IInv, LineLow
  <2>2. /\ Part(p)[1] = Address(p) /\ Within(Part(p)) /\ Part(p)[2] = n /\ n \in 0..Size /\ n > 0
    BY <1>2, <1>7, PartTypes DEF IInv
  <2>3. ioheapLine \in 0..Size /\ heapLine \in 0..Size /\ heapCur \in 0..Size
    BY DEF IInv, Types
  <2> QED
    BY <2>1, <2>2, <2>3, <1>2, MemoryTypes DEF Within
<1>11. ASSUME NEW d, d[1] \in Int, d[2] \in Int, d[2] > 0, Apart(Part(p), d), ioheapLine <= d[1]
       PROVE  ioheapLine' <= d[1] /\ ioheapLine # d[1]
  BY <1>1, <1>10, <1>11 DEF Apart
<1>12. \A q \in Contexts : q # p => Address(q)' = Address(q) /\ PC(q)' = PC(q) /\ (Lowered(q)' <=> Lowered(q))
  BY <1>4 DEF OthersKept, Keeps, Lowered
<1>13. ASSUME NEW q \in Contexts, q # p, Owns(q), ~Scans(q), ioheapLine <= Address(q)
       PROVE  ioheapLine' <= Address(q) /\ ioheapLine # Address(q)
  <2>1. /\ Part(q)[1] = Address(q) /\ Address(q) \in Int /\ Part(q)[2] = Span(q) /\ Span(q) \in Int
        /\ Span(q) > 0
    BY <1>13, PartTypes DEF IInv
  <2>2. Apart(Part(p), Part(q))
    BY <1>2, <1>13 DEF IInv, Placed
  <2> QED
    BY <2>1, <2>2, <1>11, <1>13
<1>14. LineLow'
  <2>1. \A b \in live' : ioheapLine' <= b[1]
    <3> SUFFICES ASSUME NEW b \in live PROVE ioheapLine' <= b[1]
      BY <1>5
    <3>1. b[1] \in Int /\ b[2] \in Int /\ b[2] > 0 /\ ioheapLine <= b[1]
      BY BlockTypes DEF IInv, LineLow
    <3>2. Apart(Part(p), b)
      BY <1>2 DEF IInv, Placed
    <3> QED
      BY <3>1, <3>2, <1>11
  <2>2. ASSUME NEW q \in Contexts, Lowered(q)' PROVE ioheapLine' <= Address(q)'
    <3>1. q # p /\ Lowered(q)
      BY <2>2, <1>6, <1>12 DEF Lowered
    <3>2. Owns(q) /\ ~Scans(q)
      BY <3>1, LockedPoints DEF Lowered, Owns, Scans, IInv, Ops, OpFits, MallocPoints, FreePoints
    <3>3. ioheapLine <= Address(q)
      BY <3>1 DEF IInv, LineLow
    <3> QED
      BY <3>1, <3>2, <3>3, <1>12, <1>13
  <2>3. ASSUME NEW q \in Contexts, PC(q)' \in {"raise", "check"} PROVE FALSE
    <3>1. q # p /\ PC(q) \in {"raise", "check"}
      BY <2>3, <1>6, <1>12
    <3>2. Owns(q) /\ ~Scans(q)
      BY <3>1, FreeOp DEF Owns, Scans, MallocPoints, FreePoints, IInv
    <3>3. ioheapLine = Address(q) /\ ioheapLine <= Address(q)
      BY <3>1, <1>10 DEF IInv, LineLow
    <3> QED
      BY <3>1, <3>2, <3>3, <1>13
  <2>4. ASSUME NEW q \in Contexts, PC(q)' = "lower" PROVE Address(q)' < ioheapLine'
    <3>1. q # p /\ PC(q) = "lower"
      BY <2>4, <1>6, <1>12
    <3>2. Owns(q)
      BY <3>1 DEF Owns, MallocPoints
    <3>3. Address(q) < ioheapLine /\ Address(q) \in Int
      BY <3>1, <3>2, PartTypes DEF IInv, LineLow
    <3> QED
      BY <3>1, <3>3, <1>1, <1>10, <1>12
  <2> QED
    BY <2>1, <2>2, <2>3, <2>4 DEF LineLow
<1>15. HeapLow'
  <2>1. IoPending => IoPending'
    <3>1. ~IoPends(p)
      BY <1>1 DEF IoPends, Hangs
    <3>2. \A q \in Contexts : q # p /\ IoPends(q) => IoPends(q)'
      BY <1>4, <1>5 DEF OthersKept, Keeps, IoPends, Hangs
    <3> QED
      BY <3>1, <3>2, PendingParts
  <2>2. BrkPending => BrkPending'
    BY <1>1, <1>4, <1>5, OthersBrk
  <2>3. \A q \in Contexts : PC(q)' \in {"brkcheck", "brkcur"} => ctx'[q].pos <= heapLine'
    BY <1>4, <1>5, <1>6 DEF IInv, HeapLow, OthersKept, Keeps
  <2>4. \A b \in live' : heapCur' <= b[1] /\ (heapLine' <= b[1] \/ BrkPending')
    BY <1>5, <2>2 DEF IInv, HeapLow
  <2>5. \A q \in Contexts : PC(q)' = "return" =>
           heapCur' <= Address(q)' /\ (heapLine' <= Address(q)' \/ BrkPending')
    BY <1>5, <1>6, <1>12, <2>2 DEF IInv, HeapLow
  <2>6. heapLine' <= ioheapLine' \/ BrkPending' \/ IoPending'
    BY <1>1, <1>5, <1>10, <2>1, <2>2 DEF IInv, HeapLow
  <2>7. heapCur' <= ioheapLine' \/ IoPending'
    BY <1>1, <1>5, <1>10, <2>1 DEF IInv, HeapLow
  <2> QED
    BY <1>5, <2>3, <2>4, <2>5, <2>6, <2>7 DEF IInv, HeapLow
<1>16. Scanned(g) /\ "release" \in Working /\ g.len = ctx[p].len
  BY <1>3 DEF Scanned, Working, MallocPoints, BrkPoints, SameLocals
<1>17. memmap' \in [0..(Size - 1) -> 0..Size] /\ ioheapLine' \in 0..Size
  BY <1>1, <1>5, <1>10 DEF IInv, Types
<1> QED
  BY <1>1, <1>2, <1>3, <1>5, <1>8, <1>9, <1>14, <1>15, <1>16, <1>17, WorkStep
-----------------------------------------------------------------------------
(* Calls, and taking and giving up the lock. *)

LEMMA HeldLevels ==
    ASSUME Types, NEW c \in Cores
    PROVE  held[c] \in Nat
BY DEF Types

LEMMA AcquireInv ==
    ASSUME IInv, NEW p \in Contexts, Acquire(p)
    PROVE  IInv'
<1> DEFINE c == IF memrdy THEN ctx[p].op ELSE "table"
<1>1. /\ PC(p) = "acquire" /\ Runs(p) /\ Goto(p, c) /\ Lock!Acquire(Core(p))
      /\ UNCHANGED <<table, lines, mallocLock, live, calls>>
  BY DEF Acquire, At, PC
<1>2. c = IF memrdy THEN Op(p) ELSE "table"
  BY DEF Op
<1> HIDE DEF c
<1>3. /\ Op(p) \in {"malloc", "free"} /\ (Op(p) = "free" => memrdy) /\ (Op(p) = "malloc" => ctx[p].len > 0)
      /\ memrdy \in BOOLEAN
  <2>1. Op(p) \in {"none", "malloc", "free", "brk"}
    BY RecordParts, MemoryTypes DEF Op
  <2> QED
    BY <1>1, <2>1 DEF IInv, Ops, OpFits, Types
<1>4. c \in {"malloc", "free", "table"} /\ c \in PCs /\ (c = "free" <=> Op(p) = "free")
      /\ (c = "malloc" <=> Op(p) = "malloc" /\ memrdy)
  BY <1>2, <1>3 DEF PCs
<1>5. PICK g : Moved(p, g) /\ g.pc = c /\ g.op = Op(p) /\ SameLocals(g, ctx[p])
  BY <1>1, <1>4, GotoMoved DEF IInv
<1>6. /\ memrdy' = memrdy /\ membase' = membase /\ memtblsize' = memtblsize /\ memmap' = memmap
      /\ live' = live /\ heapLine' = heapLine /\ heapCur' = heapCur /\ ioheapLine' = ioheapLine
      /\ mallocLock' = mallocLock /\ calls' = calls
  BY <1>1 DEF table, lines
<1>7. /\ PC(p)' = c /\ Op(p)' = Op(p) /\ ctx'[p].off = ctx[p].off /\ Address(p)' = Address(p)
  BY <1>5, <1>6 DEF Moved, SameLocals, PC, Op, Address
<1>8. OthersKept(p)
  BY <1>1, <1>5, SameTable DEF IInv
<1>9. ~Scans(p) /\ ~Scans(p)' /\ (Owns(p) <=> Op(p) = "free") /\ (Owns(p)' <=> Op(p) = "free")
  BY <1>1, <1>3, <1>4, <1>7 DEF Scans, Owns, MallocPoints
<1>10. Owns(p) => Span(p)' = Span(p) /\ Part(p)' = Part(p)
  <2>1. Owns(p) => Span(p)' = Span(p)
    BY <1>1, <1>4, <1>6, <1>7, <1>9 DEF Span
  <2> QED
    BY <2>1, <1>7, <1>9 DEF Part
<1>11. Marks(p)' = Marks(p)
  BY <1>1, <1>4, <1>7, <1>9, <1>10 DEF Marks, LastOf
<1>12. Placed'
  BY <1>6, <1>8, <1>9, <1>10, PlacedSame DEF IInv
<1>13. Tagged'
  <2>1. PC(p) # "untaglast" /\ (Marks(p) = {} \/ Span(p)' = Span(p))
    BY <1>1, <1>10 DEF Marks
  <2> QED
    BY <2>1, <1>6, <1>8, <1>11, TaggedSame DEF IInv
<1>14. LineLow'
  <2>1. Lowered(p)' => ioheapLine <= Address(p)'
    BY <1>1, <1>4, <1>7 DEF IInv, LineLow, Lowered
  <2> QED
    BY <1>4, <1>6, <1>7, <1>8, <2>1, LineStep DEF IInv
<1>15. HeapLow'
  <2>1. heapLine \in Nat /\ heapCur \in Nat /\ ioheapLine \in Nat
    BY SizeAssumption DEF IInv, Types
  <2>2. ~IoPends(p)
    BY <1>1 DEF IoPends, Hangs
  <2> QED
    BY <1>1, <1>4, <1>6, <1>7, <1>8, <2>1, <2>2, HeapStep DEF IInv
<1>16. Core(p) \in Cores /\ held' = [held EXCEPT ![Core(p)] = @ + 1] /\ \A d \in Cores \ {Core(p)} : held[d] = 0
  BY <1>1, ContextParts DEF Lock!Acquire
<1>17. /\ held' \in [Cores -> Nat] /\ held'[Core(p)] = held[Core(p)] + 1
       /\ \A d \in Cores : held'[d] >= held[d] /\ held[d] \in Nat
  BY <1>16 DEF IInv, Types
<1>18. Types'
  BY <1>5, <1>6, <1>17 DEF IInv, Types, Moved
<1>19. Ops'
  <2>1. OpFits(g.pc, g.op, g.len, memrdy)
    BY <1>2, <1>3, <1>4, <1>5 DEF OpFits, InitPoints, MallocPoints, FreePoints, SameLocals
  <2>2. p[2] = "isr" => g.op \in {"none", "free"}
    BY <1>5 DEF IInv, Ops
  <2> QED
    BY <1>5, <1>6, <2>1, <2>2, OpsStep DEF IInv
<1>20. LockExact'
  <2>1. \A q \in Contexts : q # p => (Locked(q)' <=> Locked(q))
    BY <1>5 DEF Moved, Locked, Op, PC
  <2>2. \A q \in Contexts : Core(q) \in Cores
    BY ContextParts
  <2>3. ASSUME NEW q \in Contexts, q # p, Locked(q)
        PROVE  Core(q) = Core(p) /\ held[Core(p)] > 0
    <3>1. held[Core(q)] > 0
      BY <2>3 DEF IInv, LockExact
    <3> QED
      BY <3>1, <1>16, <2>2
  <2>4. ASSUME NEW q \in Contexts, Locked(q)' PROVE held'[Core(q)] > 0
    <3>1. CASE q = p
      BY <3>1, <1>16, <1>17
    <3>2. CASE q # p
      BY <3>2, <2>1, <2>3, <2>4, <1>16, <1>17
    <3> QED
      BY <3>1, <3>2
  <2>5. ASSUME NEW q \in Contexts, NEW r \in Contexts, q # r, Locked(q)', Locked(r)'
        PROVE  Core(q) = Core(r) /\ held'[Core(q)] > 1
    <3>1. CASE q = p
      BY <3>1, <2>1, <2>3, <2>5, <1>16, <1>17
    <3>2. CASE r = p
      BY <3>2, <2>1, <2>3, <2>5, <1>16, <1>17
    <3>3. CASE q # p /\ r # p
      <4>1. Core(q) = Core(r) /\ held[Core(q)] > 1
        BY <3>3, <2>1, <2>5 DEF IInv, LockExact
      <4>2. held'[Core(q)] >= held[Core(q)] /\ held[Core(q)] \in Nat /\ held'[Core(q)] \in Nat
        BY <2>2, <1>17
      <4> QED
        BY <4>1, <4>2
    <3> QED
      BY <3>1, <3>2, <3>3
  <2> QED
    BY <2>4, <2>5 DEF LockExact
<1>21. MallocExact'
  <2>1. p[2] = "main" => mallocLock # Core(p)
    BY <1>1 DEF IInv, MallocExact
  <2> QED
    BY <1>4, <1>5, <1>6, <2>1, MallocStep DEF IInv, BrkPoints
<1>22. Unready'
  <2>1. \A q \in Contexts : PC(q)' = "clear" => PC(q) = "clear"
    BY <1>4, <1>7, <1>8 DEF OthersKept, Keeps
  <2> QED
    BY <2>1, <1>6 DEF IInv, Unready
<1>23. Scanning'
  <2>1. Scanned(ctx[p]) /\ ctx[p].pc = "acquire"
    BY <1>1 DEF IInv, Scanning, PC
  <2>2. Scanned(g)
    BY <2>1, <1>4, <1>5 DEF Scanned, SameLocals
  <2> QED
    BY <1>5, <2>2, ScanningStep DEF IInv
<1> QED
  BY <1>12, <1>13, <1>14, <1>15, <1>18, <1>19, <1>20, <1>21, <1>22, <1>23 DEF IInv

LEMMA LeaveStep ==
    ASSUME IInv, NEW p \in Contexts, Set(p, Idle), Lock!Release(Core(p)), Locked(p), PC(p) \in Working,
           UNCHANGED <<table, lines, mallocLock, calls>>, live' \subseteq (0..Size) \X (1..Size),
           Placed', Tagged', LineLow', HeapLow'
    PROVE  IInv'
<1>1. Moved(p, Idle) /\ Idle.pc = "idle" /\ Idle.op = "none"
  BY IdleRecord, SetMoved DEF IInv
<1>2. /\ memrdy' = memrdy /\ membase' = membase /\ memtblsize' = memtblsize /\ memmap' = memmap
      /\ heapLine' = heapLine /\ heapCur' = heapCur /\ ioheapLine' = ioheapLine
      /\ mallocLock' = mallocLock /\ calls' = calls
  BY DEF table, lines
<1>3. Core(p) \in Cores /\ held[Core(p)] > 0 /\ held' = [held EXCEPT ![Core(p)] = @ - 1]
  BY ContextParts DEF Lock!Release
<1>4. /\ held' \in [Cores -> Nat] /\ held'[Core(p)] = held[Core(p)] - 1 /\ held[Core(p)] \in Nat
      /\ \A d \in Cores : d # Core(p) => held'[d] = held[d]
  BY <1>3 DEF IInv, Types
<1>5. Types'
  BY <1>1, <1>2, <1>4 DEF IInv, Types, Moved
<1>6. memrdy
  BY LockedPoints DEF IInv, Working
<1>7. Ops'
  BY <1>1, <1>2, OpsStep DEF IInv, OpFits
<1>8. LockExact'
  <2>1. \A q \in Contexts : Locked(q)' => q # p /\ Locked(q)
    BY <1>1 DEF Moved, Locked, Op, PC
  <2>2. ASSUME NEW q \in Contexts, Locked(q)' PROVE held'[Core(q)] > 0
    <3>1. Core(q) = Core(p) /\ held[Core(p)] > 1
      BY <2>1, <2>2 DEF IInv, LockExact
    <3> QED
      BY <3>1, <1>4
  <2>3. ASSUME NEW q \in Contexts, NEW r \in Contexts, q # r, Locked(q)', Locked(r)' PROVE FALSE
    <3>1. q # p /\ r # p /\ Core(q) = Core(p) /\ Core(r) = Core(p)
      BY <2>1, <2>3 DEF IInv, LockExact
    <3>2. /\ p[2] \in {"main", "isr"} /\ q[2] \in {"main", "isr"} /\ r[2] \in {"main", "isr"}
          /\ p[2] # q[2] /\ p[2] # r[2] /\ q[2] # r[2]
      BY <2>3, <3>1, ContextParts
    <3> QED
      BY <3>2
  <2> QED
    BY <2>2, <2>3 DEF LockExact
<1>9. MallocExact'
  <2>1. p[2] = "main" => mallocLock # Core(p)
    BY DEF IInv, MallocExact, Working, BrkPoints, MallocPoints, FreePoints
  <2> QED
    BY <1>1, <1>2, <2>1, MallocStep DEF IInv, BrkPoints
<1>10. Unready'
  BY <1>2, <1>6 DEF IInv, Unready
<1>11. Scanning'
  BY <1>1, ScanningStep DEF IInv, Scanned
<1> QED
  BY <1>5, <1>7, <1>8, <1>9, <1>10, <1>11 DEF IInv

LEMMA IdleParts ==
    ASSUME IInv, NEW p \in Contexts, Set(p, Idle), UNCHANGED table
    PROVE  /\ PC(p)' = "idle" /\ Op(p)' = "none" /\ ~Owns(p)' /\ Marks(p)' = {} /\ ~Lowered(p)'
           /\ ~IoPends(p)' /\ ~BrkPends(p)' /\ OthersKept(p)
<1>1. Moved(p, Idle) /\ Idle.pc = "idle" /\ Idle.op = "none"
  BY IdleRecord, SetMoved DEF IInv
<1>2. PC(p)' = "idle" /\ Op(p)' = "none"
  BY <1>1 DEF Moved, PC, Op
<1>3. ~Owns(p)'
  BY <1>2 DEF Owns, MallocPoints
<1>4. OthersKept(p)
  BY <1>1, SameTable DEF IInv
<1> QED
  BY <1>2, <1>3, <1>4 DEF Marks, Lowered, IoPends, BrkPends, Hangs

LEMMA ReleaseInv ==
    ASSUME IInv, NEW p \in Contexts, Release(p)
    PROVE  IInv'
<1>1. /\ PC(p) = "release" /\ Set(p, Idle) /\ Lock!Release(Core(p))
      /\ UNCHANGED <<table, lines, mallocLock, live, calls>>
  BY DEF Release, At, PC
<1>2. Op(p) \in {"malloc", "free"} /\ Locked(p) /\ PC(p) \in Working /\ PC(p) # "untaglast"
  BY <1>1, LockedPoints DEF IInv, Working, MallocPoints, BrkPoints
<1>3. /\ memrdy' = memrdy /\ membase' = membase /\ memtblsize' = memtblsize /\ memmap' = memmap
      /\ live' = live /\ heapLine' = heapLine /\ heapCur' = heapCur /\ ioheapLine' = ioheapLine
      /\ mallocLock' = mallocLock
  BY <1>1 DEF table, lines
<1>4. /\ PC(p)' = "idle" /\ ~Owns(p)' /\ Marks(p)' = {} /\ ~Lowered(p)' /\ OthersKept(p)
  BY <1>1, IdleParts
<1>5. ~Owns(p) /\ Marks(p) = {} /\ ~IoPends(p)
  BY <1>1 DEF Owns, Marks, IoPends, Hangs, MallocPoints
<1>6. Placed'
  BY <1>3, <1>4, PlacedSame DEF IInv
<1>7. Tagged'
  BY <1>2, <1>3, <1>4, <1>5, TaggedSame DEF IInv
<1>8. LineLow'
  BY <1>3, <1>4, LineStep DEF IInv
<1>9. heapLine \in Nat /\ heapCur \in Nat /\ ioheapLine \in Nat /\ live' \subseteq (0..Size) \X (1..Size)
  BY <1>3, SizeAssumption DEF IInv, Types
<1>10. HeapLow'
  BY <1>1, <1>3, <1>4, <1>5, <1>9, HeapStep DEF IInv
<1> QED
  BY <1>1, <1>2, <1>6, <1>7, <1>8, <1>9, <1>10, LeaveStep

LEMMA ReturnInv ==
    ASSUME IInv, NEW p \in Contexts, Return(p)
    PROVE  IInv'
<1> DEFINE b == <<Address(p), ctx[p].len>>
<1>1. /\ PC(p) = "return" /\ Set(p, Idle) /\ Lock!Release(Core(p)) /\ live' = live \cup {b}
      /\ UNCHANGED <<table, lines, mallocLock, calls>>
  BY DEF Return, At, PC
<1>2. Op(p) = "malloc" /\ Locked(p) /\ memrdy /\ PC(p) \in Working
  BY <1>1, MallocOp DEF IInv, MallocPoints
<1>3. /\ memrdy' = memrdy /\ membase' = membase /\ memtblsize' = memtblsize /\ memmap' = memmap
      /\ heapLine' = heapLine /\ heapCur' = heapCur /\ ioheapLine' = ioheapLine
      /\ mallocLock' = mallocLock
  BY <1>1 DEF table, lines
<1>4. /\ PC(p)' = "idle" /\ ~Owns(p)' /\ Marks(p)' = {} /\ ~Lowered(p)' /\ OthersKept(p)
  BY <1>1, IdleParts
<1>5. ~Scans(p) /\ Owns(p) /\ Span(p) = ctx[p].len /\ ~IoPends(p)
  BY <1>1, <1>2 DEF Owns, Scans, Span, IoPends, Hangs, MallocPoints
<1>6. b = Part(p)
  BY <1>5 DEF Part
<1>7. Placed'
  BY <1>1, <1>3, <1>4, <1>5, <1>6, PlacedSame DEF IInv
<1>8. /\ b[1] = Address(p) /\ b[2] = Span(p) /\ Span(p) \in 1..Size /\ Address(p) = membase + ctx[p].off
      /\ Address(p) \in 0..Size /\ ctx[p].off \in 0..(Size - 1)
  <2>1. /\ Part(p)[1] = Address(p) /\ Part(p)[2] = Span(p) /\ Within(Part(p)) /\ Span(p) \in 0..Size
        /\ Span(p) > 0 /\ Address(p) = membase + ctx[p].off /\ ctx[p].off \in 0..(Size - 1)
    BY <1>5, PartTypes DEF IInv
  <2> QED
    BY <2>1, <1>2, <1>5, MemoryTypes DEF Within
<1>9. Tags(b) = Marks(p) /\ \A i \in Tags(b) : memmap[i] = b[2]
  <2>1. b[1] - membase = ctx[p].off
    BY <1>8, MemoryTypes
  <2>2. Marks(p) = {ctx[p].off, LastOf(ctx[p].off, Span(p))}
    BY <1>1, <1>5 DEF Marks
  <2>3. Tags(b) = Marks(p)
    BY <2>1, <2>2, <1>8 DEF Tags
  <2> QED
    BY <1>1, <2>3, <1>8 DEF IInv, Tagged
<1> HIDE DEF b
<1>10. Tagged'
  <2>1. \A d \in live' : \A i \in Tags(d) : memmap'[i] = d[2]
    BY <1>1, <1>3, <1>9 DEF IInv, Tagged
  <2>2. ASSUME NEW i \in 0..(Size - 1), memmap'[i] # 0
        PROVE  \/ \E d \in live' : i \in Tags(d)
               \/ \E q \in Contexts : q # p /\ i \in Marks(q)
               \/ i \in Marks(p)'
    <3>1. (\E d \in live : i \in Tags(d)) \/ (\E q \in Contexts : i \in Marks(q))
      BY <2>2, <1>3 DEF IInv, Tagged
    <3> QED
      BY <3>1, <1>1, <1>9
  <2> QED
    BY <1>3, <1>4, <2>1, <2>2, TaggedStep DEF IInv
<1>11. ioheapLine <= b[1] /\ heapCur <= b[1] /\ (heapLine <= b[1] \/ BrkPending)
  BY <1>1, <1>8 DEF IInv, LineLow, HeapLow, Lowered
<1>12. LineLow'
  BY <1>1, <1>3, <1>4, <1>11, LineStep DEF IInv
<1>13. heapLine \in Nat /\ heapCur \in Nat /\ ioheapLine \in Nat /\ live' \subseteq (0..Size) \X (1..Size)
  <2>1. b \in (0..Size) \X (1..Size)
    BY <1>8, <1>5 DEF b
  <2> QED
    BY <2>1, <1>1, SizeAssumption DEF IInv, Types
<1>14. HeapLow'
  BY <1>1, <1>3, <1>4, <1>5, <1>11, <1>13, HeapStep DEF IInv
<1> QED
  BY <1>1, <1>2, <1>7, <1>10, <1>12, <1>13, <1>14, LeaveStep
LEMMA CallStep ==
    ASSUME IInv, NEW p \in Contexts, NEW g, Moved(p, g), PC(p) = "idle", g.pc = "acquire",
           g.op \in {"malloc", "free"}, g.op = "malloc" => g.len > 0, g.op = "free" => memrdy,
           p[2] = "isr" => g.op = "free", g.kmemb = 0, calls' \in 0..MaxCalls,
           UNCHANGED <<table, lines, locks>>, live' \subseteq live, Placed', Tagged', LineLow', HeapLow'
    PROVE  IInv'
<1>1. /\ memrdy' = memrdy /\ membase' = membase /\ memtblsize' = memtblsize /\ memmap' = memmap
      /\ heapLine' = heapLine /\ heapCur' = heapCur /\ ioheapLine' = ioheapLine
      /\ mallocLock' = mallocLock /\ held' = held
  BY DEF table, lines, locks
<1>2. Types'
  BY <1>1 DEF IInv, Types, Moved
<1>3. Ops'
  <2>1. OpFits(g.pc, g.op, g.len, memrdy)
    BY DEF OpFits, InitPoints, MallocPoints
  <2> QED
    BY <1>1, <2>1, OpsStep DEF IInv
<1>4. LockExact'
  BY <1>1, LockStep DEF IInv
<1>5. MallocExact'
  <2>1. p[2] = "main" => mallocLock # Core(p)
    BY DEF IInv, MallocExact
  <2> QED
    BY <1>1, <2>1, MallocStep DEF IInv, BrkPoints
<1>6. Unready'
  <2>1. \A q \in Contexts : PC(q)' = "clear" => PC(q) = "clear"
    BY DEF Moved, PC
  <2> QED
    BY <2>1, <1>1 DEF IInv, Unready
<1>7. Scanning'
  BY ScanningStep DEF IInv, Scanned
<1> QED
  BY <1>2, <1>3, <1>4, <1>5, <1>6, <1>7 DEF IInv

LEMMA CallTypes ==
    ASSUME IInv, NEW p \in Contexts, NEW name, MayCall(p, name)
    PROVE  PC(p) = "idle" /\ calls' \in 0..MaxCalls /\ (p[2] = "isr" => name \in IsrCalls)
BY MaxCallsAssumption DEF MayCall, At, PC, IInv, Types

LEMMA CallRecords ==
    ASSUME NEW len \in 0..Size, NEW o \in (-1)..(Size - 1), NEW pos \in 0..(Size + 1)
    PROVE  LET m == [Idle EXCEPT !.pc = "acquire", !.op = "malloc", !.len = len]
               f == [Idle EXCEPT !.pc = "acquire", !.op = "free", !.off = o]
               b == [Idle EXCEPT !.pc = "brk", !.op = "brk", !.pos = pos]
           IN  /\ m \in Records /\ m.pc = "acquire" /\ m.op = "malloc" /\ m.len = len /\ m.kmemb = 0
               /\ f \in Records /\ f.pc = "acquire" /\ f.op = "free" /\ f.off = o /\ f.kmemb = 0
               /\ b \in Records /\ b.pc = "brk" /\ b.op = "brk" /\ b.pos = pos /\ b.kmemb = 0
<1> DEFINE A == (-1)..(Size - 1)
           B == 0..Size
           C == 0..(Size + 1)
           D == {"none", "malloc", "free", "brk"}
           R == [pc : PCs, op : D, len : B, off : A, kmemb : B, nmemb : B, pos : C]
           h == Idle
           m == [h EXCEPT !.pc = "acquire", !.op = "malloc", !.len = len]
           f == [h EXCEPT !.pc = "acquire", !.op = "free", !.off = o]
           b == [h EXCEPT !.pc = "brk", !.op = "brk", !.pos = pos]
<1>1. h \in R /\ h.kmemb = 0 /\ Records = R
  BY IdleRecord DEF Records
<1>2. len \in B /\ o \in A /\ pos \in C /\ {"acquire", "brk"} \subseteq PCs /\ {"malloc", "free", "brk"} \subseteq D
  BY DEF PCs
<1> HIDE DEF h, A, B, C, D
<1>3. m \in R /\ f \in R /\ b \in R
  BY <1>1, <1>2
<1>4. /\ m.pc = "acquire" /\ m.op = "malloc" /\ m.len = len /\ m.kmemb = 0
      /\ f.pc = "acquire" /\ f.op = "free" /\ f.off = o /\ f.kmemb = 0
      /\ b.pc = "brk" /\ b.op = "brk" /\ b.pos = pos /\ b.kmemb = 0
  BY <1>1
<1> HIDE DEF m, f, b, R
<1>5. /\ m \in Records /\ m.pc = "acquire" /\ m.op = "malloc" /\ m.len = len /\ m.kmemb = 0
      /\ f \in Records /\ f.pc = "acquire" /\ f.op = "free" /\ f.off = o /\ f.kmemb = 0
      /\ b \in Records /\ b.pc = "brk" /\ b.op = "brk" /\ b.pos = pos /\ b.kmemb = 0
  BY <1>1, <1>3, <1>4
<1> QED
  BY <1>5 DEF m, f, b, h

LEMMA CallMallocInv ==
    ASSUME FreeingHandlers, IInv, NEW p \in Contexts, NEW len \in Lengths, CallMalloc(p, len)
    PROVE  IInv'
<1> DEFINE g == [Idle EXCEPT !.pc = "acquire", !.op = "malloc", !.len = len]
<1>1. MayCall(p, "malloc") /\ Set(p, g) /\ UNCHANGED <<table, lines, locks, live>>
  BY DEF CallMalloc
<1>2. PC(p) = "idle" /\ calls' \in 0..MaxCalls /\ p[2] # "isr"
  BY <1>1, CallTypes DEF FreeingHandlers
<1>3. len \in 0..Size /\ len > 0
  BY SizeAssumption
<1>4. g \in Records /\ g.pc = "acquire" /\ g.op = "malloc" /\ g.len = len /\ g.kmemb = 0
  <2>1. 0 \in (-1)..(Size - 1) /\ 0 \in 0..(Size + 1)
    BY MemoryTypes
  <2> QED
    BY <1>3, <2>1, CallRecords
<1> HIDE DEF g
<1>5. Moved(p, g)
  BY <1>1, <1>4, SetMoved DEF IInv
<1>6. OthersKept(p)
  BY <1>1, <1>5, SameTable DEF IInv
<1>7. /\ memrdy' = memrdy /\ membase' = membase /\ memtblsize' = memtblsize /\ memmap' = memmap
      /\ heapLine' = heapLine /\ heapCur' = heapCur /\ ioheapLine' = ioheapLine
      /\ mallocLock' = mallocLock /\ live' = live
  BY <1>1 DEF table, lines, locks
<1>8. PC(p)' = "acquire" /\ Op(p)' = "malloc"
  BY <1>4, <1>5 DEF Moved, PC, Op
<1>9. ~Owns(p)' /\ Marks(p)' = {} /\ ~Lowered(p)'
  BY <1>8 DEF Owns, Marks, Lowered, MallocPoints
<1>10. Marks(p) = {} /\ ~IoPends(p)
  BY <1>2 DEF Marks, IoPends, Hangs
<1>11. Placed'
  BY <1>6, <1>7, <1>9, PlacedSame DEF IInv
<1>12. Tagged'
  BY <1>2, <1>6, <1>7, <1>8, <1>9, <1>10, TaggedSame DEF IInv
<1>13. LineLow'
  BY <1>6, <1>7, <1>8, <1>9, LineStep DEF IInv
<1>14. heapLine \in Nat /\ heapCur \in Nat /\ ioheapLine \in Nat
  BY SizeAssumption DEF IInv, Types
<1>15. HeapLow'
  BY <1>2, <1>6, <1>7, <1>8, <1>10, <1>14, HeapStep DEF IInv
<1> QED
  BY <1>1, <1>2, <1>3, <1>4, <1>5, <1>7, <1>11, <1>12, <1>13, <1>15, CallStep

LEMMA CallFreeInv ==
    ASSUME IInv, NEW p \in Contexts, NEW b \in live, CallFree(p, b)
    PROVE  IInv'
<1> DEFINE o == b[1] - membase
           g == [Idle EXCEPT !.pc = "acquire", !.op = "free", !.off = o]
<1>1. MayCall(p, "free") /\ Set(p, g) /\ live' = live \ {b} /\ UNCHANGED <<table, lines, locks>>
  BY DEF CallFree
<1>2. PC(p) = "idle" /\ calls' \in 0..MaxCalls
  BY <1>1, CallTypes
<1>3. memrdy
  BY DEF IInv, Unready, Types
<1>4. /\ b[1] \in 0..Size /\ b[2] \in 1..Size /\ b = <<b[1], b[2]>> /\ Within(b)
      /\ o \in 0..(Size - 1) /\ membase + o = b[1]
  <2>1. /\ b[1] \in 0..Size /\ b[2] \in 1..Size /\ b = <<b[1], b[2]>> /\ Within(b)
    BY BlockTypes DEF IInv
  <2>2. b[1] - membase \in 0..(Size - 1)
    BY <2>1, <1>3, MemoryTypes DEF Within
  <2> QED
    BY <2>1, <2>2, MemoryTypes
<1>5. g \in Records /\ g.pc = "acquire" /\ g.op = "free" /\ g.off = o /\ g.kmemb = 0
  <2>1. o \in (-1)..(Size - 1) /\ 0 \in 0..Size /\ 0 \in 0..(Size + 1)
    BY <1>4, MemoryTypes
  <2> HIDE DEF o
  <2> QED
    BY <2>1, CallRecords
<1> HIDE DEF g
<1>6. Moved(p, g)
  BY <1>1, <1>5, SetMoved DEF IInv
<1>7. OthersKept(p)
  BY <1>1, <1>6, SameTable DEF IInv
<1>8. /\ memrdy' = memrdy /\ membase' = membase /\ memtblsize' = memtblsize /\ memmap' = memmap
      /\ heapLine' = heapLine /\ heapCur' = heapCur /\ ioheapLine' = ioheapLine
      /\ mallocLock' = mallocLock
  BY <1>1 DEF table, lines, locks
<1>9. PC(p)' = "acquire" /\ Op(p)' = "free" /\ ctx'[p].off = o
  BY <1>5, <1>6 DEF Moved, PC, Op
<1>10. Owns(p)' /\ ~Scans(p)' /\ Lowered(p)'
  BY <1>9 DEF Owns, Scans, Lowered
<1>11. \A i \in Tags(b) : memmap[i] = b[2]
  BY DEF IInv, Tagged
<1>12. Span(p)' = b[2]
  <2>1. o \in Tags(b)
    BY DEF Tags
  <2>2. Span(p)' = memmap'[o]
    BY <1>9 DEF Span, Scans
  <2> QED
    BY <2>1, <2>2, <1>8, <1>11
<1>13. Address(p)' = b[1]
  BY <1>4, <1>8, <1>9 DEF Address
<1>14. Part(p)' = b
  BY <1>4, <1>10, <1>12, <1>13 DEF Part
<1>15. Marks(p)' = Tags(b)
  BY <1>9, <1>10, <1>12 DEF Marks, Tags
<1>16. Placed'
  <2>1. Within(Part(p))' /\ Span(p)' > 0
    BY <1>4, <1>8, <1>12, <1>14 DEF Within
  <2>2. \A d \in live' : Apart(Part(p)', d)
    BY <1>1, <1>14 DEF IInv, Placed
  <2>3. \A q \in Contexts : q # p /\ Owns(q) => Apart(Part(p)', Part(q)) /\ Apart(Part(q), Part(p)')
    BY <1>14, ApartEither DEF IInv, Placed
  <2> QED
    BY <1>1, <1>7, <1>8, <2>1, <2>2, <2>3, PlacedStep DEF IInv
<1>17. Tagged'
  <2>1. \A d \in live' : \A i \in Tags(d) : memmap'[i] = d[2]
    BY <1>1, <1>8 DEF IInv, Tagged
  <2>2. ASSUME NEW i \in 0..(Size - 1), memmap'[i] # 0
        PROVE  \/ \E d \in live' : i \in Tags(d)
               \/ \E q \in Contexts : q # p /\ i \in Marks(q)
               \/ i \in Marks(p)'
    <3>1. (\E d \in live : i \in Tags(d)) \/ (\E q \in Contexts : i \in Marks(q))
      BY <2>2, <1>8 DEF IInv, Tagged
    <3>2. Marks(p) = {}
      BY <1>2 DEF Marks
    <3> QED
      BY <3>1, <3>2, <1>1, <1>15
  <2>3. \A i \in Marks(p)' : memmap'[i] = Span(p)'
    BY <1>8, <1>11, <1>12, <1>15
  <2> HIDE DEF o
  <2> QED
    BY <1>7, <1>8, <2>1, <2>2, <2>3, TaggedStep DEF IInv
<1>18. ioheapLine <= b[1]
  BY DEF IInv, LineLow
<1>19. LineLow'
  BY <1>1, <1>7, <1>8, <1>9, <1>13, <1>18, LineStep DEF IInv
<1>20. heapLine \in Nat /\ heapCur \in Nat /\ ioheapLine \in Nat
  BY SizeAssumption DEF IInv, Types
<1>21. ~IoPends(p)
  BY <1>2 DEF IoPends, Hangs
<1>22. HeapLow'
  BY <1>1, <1>2, <1>7, <1>8, <1>9, <1>20, <1>21, HeapStep DEF IInv
<1>23. live' \subseteq live
  BY <1>1
<1> HIDE DEF o
<1> QED
  BY <1>1, <1>2, <1>3, <1>5, <1>6, <1>16, <1>17, <1>19, <1>22, <1>23, CallStep
-----------------------------------------------------------------------------
(* iomem_init: before it is done there are no blocks, and nobody owns any. *)

LEMMA EarlyState ==
    ASSUME Types', Ops', Unready', ~memrdy', \A i \in 0..(Size - 1) : memmap'[i] = 0, heapCur' <= heapLine',
           \A q \in Contexts : PC(q)' \in {"brkcheck", "brkcur"} => ctx'[q].pos <= heapLine'
    PROVE  Placed' /\ Tagged' /\ LineLow' /\ HeapLow'
<1>1. \A q \in Contexts : ctx'[q].op \in {"none", "malloc", "free", "brk"}
  BY DEF Types, Records
<1>2. ASSUME NEW q \in Contexts
      PROVE  PC(q)' \notin (MallocPoints \cup FreePoints) /\ ~Owns(q)' /\ ~Lowered(q)'
  <2>1. OpFits(PC(q), Op(q), ctx[q].len, memrdy)'
    BY DEF Ops
  <2>2. Op(q)' \in {"none", "malloc", "brk"} /\ PC(q)' \notin (MallocPoints \cup FreePoints)
    BY <1>1, <2>1 DEF OpFits, Op, InitPoints, MallocPoints, FreePoints
  <2> QED
    BY <2>2 DEF Owns, Lowered, MallocPoints, FreePoints
<1>3. \A q \in Contexts : Marks(q)' = {}
  BY <1>2 DEF Marks
<1>4. live' = {} /\ ioheapLine' = Size
  BY DEF Unready
<1>5. Placed'
  BY <1>2, <1>4 DEF Placed
<1>6. Tagged'
  BY <1>3, <1>4 DEF Tagged
<1>7. LineLow'
  BY <1>2, <1>4 DEF LineLow, MallocPoints, FreePoints
<1>8. heapLine' <= ioheapLine' /\ heapCur' <= ioheapLine'
  BY <1>4, SizeAssumption DEF Types
<1>9. HeapLow'
  BY <1>2, <1>4, <1>8 DEF HeapLow, MallocPoints
<1> QED
  BY <1>5, <1>6, <1>7, <1>9

LEMMA EarlyFacts ==
    ASSUME IInv, NEW p \in Contexts, Runs(p), PC(p) \in {"table", "base", "size", "clear"}
    PROVE  /\ Op(p) = "malloc" /\ Locked(p) /\ ~memrdy /\ p[2] = "main" /\ ctx[p].len > 0 /\ ctx[p].kmemb = 0
           /\ live = {} /\ ioheapLine = Size
           /\ \A i \in 0..(Size - 1) : memmap[i] = 0
           /\ mallocLock # Core(p)
           /\ \A q \in Contexts : q # p => ~Locked(q)
<1>1. Op(p) = "malloc" /\ Locked(p) /\ ~memrdy
  BY LockedPoints DEF IInv
<1>2. p[2] = "main"
  BY <1>1, ContextParts DEF IInv, Ops
<1>3. ctx[p].len > 0 /\ ctx[p].kmemb = 0
  BY <1>1 DEF IInv, Ops, OpFits, Scanning, Scanned, PC
<1>4. live = {} /\ ioheapLine = Size
  BY <1>1 DEF IInv, Unready
<1>5. \A q \in Contexts : Marks(q) = {}
  BY <1>1, LockedPoints DEF Marks, IInv
<1>6. \A i \in 0..(Size - 1) : memmap[i] = 0
  BY <1>4, <1>5 DEF IInv, Tagged
<1>7. mallocLock # Core(p)
  BY <1>2 DEF IInv, MallocExact
<1>8. \A q \in Contexts : q # p => ~Locked(q)
  BY <1>1, Alone DEF IInv
<1> QED
  BY <1>1, <1>2, <1>3, <1>4, <1>6, <1>7, <1>8

LEMMA EarlyStep ==
    ASSUME IInv, NEW p \in Contexts, Runs(p), PC(p) \in {"table", "base", "size"},
           NEW g, Moved(p, g), g.op = Op(p), g.len = ctx[p].len, g.kmemb = 0,
           g.pc \in {"brk", "base", "size", "clear"},
           UNCHANGED <<memrdy, memmap, lines, held, live, calls>>,
           membase' \in 0..Size, memtblsize' \in 0..Size, mallocLock' \in Cores \cup {Nobody},
           MallocExact', g.pc = "clear" => membase' + memtblsize' <= Size
    PROVE  IInv'
<1>1. /\ Op(p) = "malloc" /\ Locked(p) /\ ~memrdy /\ p[2] = "main" /\ ctx[p].len > 0
      /\ live = {} /\ ioheapLine = Size
      /\ \A i \in 0..(Size - 1) : memmap[i] = 0
      /\ \A q \in Contexts : q # p => ~Locked(q)
  BY EarlyFacts
<1>2. heapLine' = heapLine /\ heapCur' = heapCur /\ ioheapLine' = ioheapLine
  BY DEF lines
<1>3. Types'
  BY <1>2 DEF IInv, Types, Moved
<1>4. Ops'
  <2>1. OpFits(g.pc, g.op, g.len, memrdy)
    BY <1>1 DEF OpFits, InitPoints, MallocPoints
  <2> QED
    BY <1>1, <2>1, OpsStep DEF IInv
<1>5. LockExact'
  BY <1>1, LockStep DEF IInv
<1>6. Unready'
  <2>1. ASSUME NEW q \in Contexts, PC(q)' = "clear" PROVE membase' + memtblsize' <= Size
    <3>1. CASE q = p
      BY <3>1, <2>1 DEF Moved, PC
    <3>2. CASE q # p
      <4>1. PC(q) = "clear"
        BY <3>2, <2>1 DEF Moved, PC
      <4> QED
        BY <3>2, <4>1, <1>1, LockedPoints DEF IInv
    <3> QED
      BY <3>1, <3>2
  <2> QED
    BY <1>1, <1>2, <2>1 DEF Unready
<1>7. Scanning'
  BY ScanningStep DEF IInv, Scanned
<1>8. \A q \in Contexts : PC(q)' \in {"brkcheck", "brkcur"} => ctx'[q].pos <= heapLine'
  BY <1>2 DEF IInv, HeapLow, Moved, PC
<1>9. heapCur' <= heapLine'
  BY <1>2 DEF IInv, HeapLow
<1>10. Placed' /\ Tagged' /\ LineLow' /\ HeapLow'
  BY <1>1, <1>3, <1>4, <1>6, <1>8, <1>9, EarlyState
<1> QED
  BY <1>3, <1>4, <1>5, <1>6, <1>7, <1>10 DEF IInv

LEMMA BrkRecord ==
    ASSUME NEW h \in Records, NEW x \in 0..(Size + 1)
    PROVE  LET g == [h EXCEPT !.pc = "brk", !.pos = x]
           IN  /\ g \in Records /\ g.pc = "brk" /\ g.pos = x /\ g.op = h.op
               /\ g.len = h.len /\ g.kmemb = h.kmemb
<1> DEFINE A == (-1)..(Size - 1)
           B == 0..Size
           C == 0..(Size + 1)
           D == {"none", "malloc", "free", "brk"}
           R == [pc : PCs, op : D, len : B, off : A, kmemb : B, nmemb : B, pos : C]
           g == [h EXCEPT !.pc = "brk", !.pos = x]
<1>1. h \in R /\ x \in C /\ "brk" \in PCs /\ Records = R
  BY DEF Records, PCs
<1> HIDE DEF A, B, C, D
<1>2. g \in R
  BY <1>1
<1>3. g.pc = "brk" /\ g.pos = x /\ g.op = h.op /\ g.len = h.len /\ g.kmemb = h.kmemb
  BY <1>1
<1> QED
  BY <1>1, <1>2, <1>3

LEMMA TableInv ==
    ASSUME IInv, NEW p \in Contexts, Table(p)
    PROVE  IInv'
<1> DEFINE h == ctx[p]
           n == [h EXCEPT !.pc = "brk", !.pos = heapCur + 1]
<1>1. /\ PC(p) = "table" /\ Runs(p) /\ membase' = heapLine /\ memtblsize' = ioheapLine - heapLine
      /\ mallocLock = Nobody
      /\ \/ mallocLock' = Core(p) /\ Set(p, n)
         \/ Goto(p, "base") /\ mallocLock' = mallocLock
      /\ UNCHANGED <<memrdy, memmap, lines, held, live, calls>>
  BY DEF Table, At, PC
<1>2. /\ Op(p) = "malloc" /\ p[2] = "main" /\ ctx[p].kmemb = 0 /\ ioheapLine = Size
  BY <1>1, EarlyFacts
<1>3. heapLine \in 0..Size /\ heapCur \in 0..Size
  BY DEF IInv, Types
<1>4. membase' \in 0..Size /\ memtblsize' \in 0..Size
  BY <1>1, <1>2, <1>3, SizeAssumption
<1>5. h \in Records /\ h.op = Op(p)
  BY MemoryTypes DEF Op
<1>6. /\ n \in Records /\ n.pc = "brk" /\ n.op = Op(p) /\ n.len = h.len /\ n.kmemb = h.kmemb
  <2>1. heapCur + 1 \in 0..(Size + 1)
    BY <1>3, SizeAssumption
  <2> DEFINE x == heapCur + 1
  <2>2. x \in 0..(Size + 1) /\ n = [h EXCEPT !.pc = "brk", !.pos = x]
    BY <2>1
  <2> HIDE DEF x, n, h
  <2> QED
    BY <1>5, <2>2, BrkRecord
<1>7. Nobody \notin Cores /\ Core(p) \in Cores
  BY CoresAssumption, ContextParts
<1> HIDE DEF n
<1>8. CASE mallocLock' = Core(p) /\ Set(p, n)
  <2>1. Moved(p, n)
    BY <1>6, <1>8, SetMoved DEF IInv
  <2>2. MallocExact'
    <3>1. \A q \in Contexts : q # p => PC(q)' = PC(q) /\ PC(q) \notin BrkPoints
      BY <2>1, <1>1, <1>7, ContextParts DEF Moved, PC, IInv, MallocExact, BrkPoints
    <3>2. PC(p)' = "brk"
      BY <1>6, <2>1 DEF Moved, PC
    <3>3. \A q \in Contexts : q[2] = "main" /\ Core(q) = Core(p) => q = p
      BY <1>2, ContextParts
    <3> QED
      BY <1>8, <3>1, <3>2, <3>3 DEF MallocExact, BrkPoints
  <2> QED
    BY <1>1, <1>2, <1>4, <1>6, <1>7, <1>8, <2>1, <2>2, EarlyStep
<1>9. CASE Goto(p, "base") /\ mallocLock' = mallocLock
  <2>1. PICK g : Moved(p, g) /\ g.pc = "base" /\ g.op = Op(p) /\ SameLocals(g, ctx[p])
    BY <1>9, GotoMoved DEF IInv, PCs
  <2>2. MallocExact'
    BY <1>1, <1>7, <1>9, <2>1, MallocStep DEF IInv, BrkPoints
  <2>3. g.len = h.len /\ g.kmemb = 0 /\ mallocLock' \in Cores \cup {Nobody}
    BY <1>1, <1>2, <1>9, <2>1 DEF SameLocals
  <2> QED
    BY <1>1, <1>2, <1>4, <2>1, <2>2, <2>3, EarlyStep
<1> QED
  BY <1>1, <1>8, <1>9

LEMMA BaseInv ==
    ASSUME IInv, NEW p \in Contexts, Base(p)
    PROVE  IInv'
<1>1. /\ PC(p) = "base" /\ Runs(p) /\ membase' = heapLine /\ memtblsize' = memtblsize /\ Goto(p, "size")
      /\ mallocLock' = mallocLock
      /\ UNCHANGED <<memrdy, memmap, lines, held, live, calls>>
  BY DEF Base, At, PC, locks
<1>2. /\ Op(p) = "malloc" /\ p[2] = "main" /\ ctx[p].kmemb = 0 /\ mallocLock # Core(p)
  BY <1>1, EarlyFacts
<1>3. /\ membase' \in 0..Size /\ memtblsize' \in 0..Size /\ mallocLock' \in Cores \cup {Nobody}
  BY <1>1 DEF IInv, Types
<1>4. PICK g : Moved(p, g) /\ g.pc = "size" /\ g.op = Op(p) /\ SameLocals(g, ctx[p])
  BY <1>1, GotoMoved DEF IInv, PCs
<1>5. MallocExact'
  BY <1>1, <1>2, <1>4, MallocStep DEF IInv, BrkPoints
<1>6. g.len = ctx[p].len /\ g.kmemb = 0
  BY <1>2, <1>4 DEF SameLocals
<1> QED
  BY <1>1, <1>3, <1>4, <1>5, <1>6, EarlyStep

LEMMA TableSizeInv ==
    ASSUME IInv, NEW p \in Contexts, TableSize(p)
    PROVE  IInv'
<1>1. /\ PC(p) = "size" /\ Runs(p) /\ membase' = membase /\ memtblsize' = ioheapLine - membase
      /\ Goto(p, "clear") /\ mallocLock' = mallocLock
      /\ UNCHANGED <<memrdy, memmap, lines, held, live, calls>>
  BY DEF TableSize, At, PC, locks
<1>2. /\ Op(p) = "malloc" /\ p[2] = "main" /\ ctx[p].kmemb = 0 /\ mallocLock # Core(p)
      /\ ioheapLine = Size
  BY <1>1, EarlyFacts
<1>3. /\ membase' \in 0..Size /\ memtblsize' \in 0..Size /\ mallocLock' \in Cores \cup {Nobody}
      /\ membase' + memtblsize' <= Size
  BY <1>1, <1>2, MemoryTypes DEF IInv, Types
<1>4. PICK g : Moved(p, g) /\ g.pc = "clear" /\ g.op = Op(p) /\ SameLocals(g, ctx[p])
  BY <1>1, GotoMoved DEF IInv, PCs
<1>5. MallocExact'
  BY <1>1, <1>2, <1>4, MallocStep DEF IInv, BrkPoints
<1>6. g.len = ctx[p].len /\ g.kmemb = 0
  BY <1>2, <1>4 DEF SameLocals
<1> QED
  BY <1>1, <1>3, <1>4, <1>5, <1>6, EarlyStep

LEMMA ClearInv ==
    ASSUME IInv, NEW p \in Contexts, Clear(p)
    PROVE  IInv'
<1>1. /\ PC(p) = "clear" /\ Runs(p) /\ memmap' = [i \in DOMAIN memmap |-> 0] /\ memrdy' = TRUE
      /\ Goto(p, IF ctx[p].op = "malloc" THEN "malloc" ELSE "release")
      /\ UNCHANGED <<membase, memtblsize, lines, locks, live, calls>>
  BY DEF Clear, At, PC
<1>2. /\ Op(p) = "malloc" /\ Locked(p) /\ ~memrdy /\ p[2] = "main" /\ ctx[p].len > 0 /\ ctx[p].kmemb = 0
      /\ live = {} /\ ioheapLine = Size /\ mallocLock # Core(p)
      /\ \A q \in Contexts : q # p => ~Locked(q)
  BY <1>1, EarlyFacts
<1>3. Goto(p, "malloc")
  BY <1>1, <1>2 DEF Op
<1>4. PICK g : Moved(p, g) /\ g.pc = "malloc" /\ g.op = Op(p) /\ SameLocals(g, ctx[p])
  BY <1>3, GotoMoved DEF IInv, PCs
<1>5. /\ heapLine' = heapLine /\ heapCur' = heapCur /\ ioheapLine' = ioheapLine
      /\ mallocLock' = mallocLock /\ held' = held /\ live' = live
  BY <1>1 DEF lines, locks
<1>6. /\ memmap' \in [0..(Size - 1) -> 0..Size] /\ \A i \in 0..(Size - 1) : memmap'[i] = 0
  BY <1>1, SizeAssumption DEF IInv, Types
<1>7. /\ PC(p)' = "malloc" /\ Op(p)' = "malloc"
      /\ \A q \in Contexts : q # p => PC(q)' = PC(q) /\ Op(q)' = Op(q) /\ ctx'[q] = ctx[q]
  BY <1>2, <1>4 DEF Moved, PC, Op
<1>8. Types'
  BY <1>1, <1>4, <1>5, <1>6 DEF IInv, Types, Moved
<1>9. ASSUME NEW q \in Contexts, q # p
      PROVE  Op(q) \in {"none", "malloc", "brk"} /\ (Op(q) = "malloc" => PC(q) = "acquire")
  <2>1. Op(q) \in {"none", "malloc", "free", "brk"}
    BY RecordParts, MemoryTypes DEF Op
  <2> QED
    BY <1>2, <1>9, <2>1 DEF IInv, Ops, OpFits, Locked
<1>10. Ops'
  <2>1. ASSUME NEW q \in Contexts
        PROVE  OpFits(PC(q)', Op(q)', ctx'[q].len, TRUE) /\ (p = q \/ (q[2] = "isr" => Op(q)' \in {"none", "free"}))
    <3>1. CASE q = p
      BY <3>1, <1>2, <1>4, <1>7 DEF OpFits, InitPoints, MallocPoints, SameLocals, Moved
    <3>2. CASE q # p
      BY <3>2, <1>7, <1>9 DEF IInv, Ops, OpFits, InitPoints, MallocPoints
    <3> QED
      BY <3>1, <3>2
  <2> QED
    BY <1>1, <1>2, <2>1 DEF Ops
<1>11. LockExact'
  BY <1>2, <1>4, <1>5, LockStep DEF IInv
<1>12. MallocExact'
  BY <1>2, <1>4, <1>5, MallocStep DEF IInv, BrkPoints
<1>13. Unready'
  <2>1. membase + memtblsize <= Size
    BY <1>1 DEF IInv, Unready
  <2> QED
    BY <1>1, <2>1 DEF Unready
<1>14. Scanning'
  <2>1. g.kmemb = 0
    BY <1>2, <1>4 DEF SameLocals
  <2> QED
    BY <2>1, <1>4, ScanningStep DEF IInv, Scanned
<1>15. \A q \in Contexts : PC(q)' \notin (MallocPoints \cup FreePoints) \ {"malloc"} /\ ~Owns(q)' /\ ~Lowered(q)'
  <2> SUFFICES ASSUME NEW q \in Contexts
               PROVE PC(q)' \notin (MallocPoints \cup FreePoints) \ {"malloc"} /\ ~Owns(q)' /\ ~Lowered(q)'
    OBVIOUS
  <2>1. PC(q)' \notin (MallocPoints \cup FreePoints) \ {"malloc"}
    BY <1>7, <1>9 DEF IInv, Ops, OpFits, MallocPoints, FreePoints
  <2>2. Op(q)' # "free" /\ ~(PC(q)' = "hang" /\ Op(q)' = "malloc")
    BY <1>7, <1>9
  <2> QED
    BY <2>1, <2>2 DEF Owns, Lowered, MallocPoints, FreePoints
<1>16. Placed'
  BY <1>2, <1>5, <1>15 DEF Placed
<1>17. Tagged'
  BY <1>2, <1>5, <1>6, <1>15 DEF Tagged, Marks
<1>18. LineLow'
  BY <1>2, <1>5, <1>15 DEF LineLow, MallocPoints, FreePoints
<1>19. HeapLow'
  <2>1. heapLine' <= ioheapLine' /\ heapCur' <= ioheapLine' /\ heapCur' <= heapLine'
    BY <1>2, <1>5, SizeAssumption DEF IInv, HeapLow, Types
  <2>2. \A q \in Contexts : PC(q)' \in {"brkcheck", "brkcur"} => ctx'[q].pos <= heapLine'
    BY <1>5, <1>7 DEF IInv, HeapLow
  <2> QED
    BY <1>2, <1>5, <1>15, <2>1, <2>2 DEF HeapLow, MallocPoints
<1> QED
  BY <1>8, <1>10, <1>11, <1>12, <1>13, <1>14, <1>16, <1>17, <1>18, <1>19 DEF IInv
-----------------------------------------------------------------------------
(* sys_brk. *)

LEMMA BrkFacts ==
    ASSUME IInv, NEW p \in Contexts, PC(p) \in BrkPoints
    PROVE  /\ p[2] = "main" /\ mallocLock = Core(p) /\ Core(p) \in Cores /\ Op(p) \in {"malloc", "brk"}
           /\ Op(p) = "malloc" => ~memrdy /\ Locked(p) /\ ctx[p].len > 0
           /\ ctx[p].kmemb = 0
           /\ \A q \in Contexts : q # p => PC(q) \notin BrkPoints
           /\ PC(p) # "brkcheck" => ~BrkPending
<1>1. Op(p) \in {"malloc", "brk"}
  <2>1. Op(p) \in {"none", "malloc", "free", "brk"}
    BY RecordParts, MemoryTypes DEF Op
  <2> QED
    BY <2>1 DEF IInv, Ops, OpFits, BrkPoints, FreePoints
<1>2. p[2] = "main" /\ Core(p) \in Cores
  BY <1>1, ContextParts DEF IInv, Ops
<1>3. mallocLock = Core(p)
  BY DEF IInv, MallocExact, BrkPoints
<1>4. Op(p) = "malloc" => ~memrdy /\ Locked(p) /\ ctx[p].len > 0
  BY DEF IInv, Ops, OpFits, BrkPoints, InitPoints, Locked
<1>5. ctx[p].kmemb = 0
  BY DEF IInv, Scanning, Scanned, PC, BrkPoints
<1>6. ASSUME NEW q \in Contexts, q # p PROVE ~(q[2] = "main" /\ mallocLock = Core(q))
  BY <1>2, <1>3, <1>6, ContextParts
<1>7. ASSUME NEW q \in Contexts, q # p PROVE PC(q) \notin BrkPoints
  <2>1. SUFFICES ASSUME PC(q) \in BrkPoints PROVE FALSE
    OBVIOUS
  <2>2. mallocLock = Core(q)
    BY <2>1 DEF IInv, MallocExact, BrkPoints
  <2>3. Op(q) \in {"none", "malloc", "free", "brk"}
    BY RecordParts, MemoryTypes DEF Op
  <2>4. q[2] = "main"
    BY <2>1, <2>3, ContextParts DEF IInv, Ops, OpFits, BrkPoints, FreePoints
  <2> QED
    BY <2>2, <2>4, <1>6, <1>7
<1>8. PC(p) # "brkcheck" => ~BrkPending
  <2>1. PC(p) # "brkcheck" => ~BrkPends(p)
    BY DEF BrkPends, BrkPoints
  <2>2. \A q \in Contexts : q # p => ~BrkPends(q)
    BY <1>6 DEF BrkPends
  <2> QED
    BY <2>1, <2>2, PendingParts
<1> QED
  BY <1>1, <1>2, <1>3, <1>4, <1>5, <1>7, <1>8

LEMMA HeapBrkStep ==
    ASSUME IInv, NEW p \in Contexts, OthersKept(p), memrdy' = memrdy, live' = live, ioheapLine' = ioheapLine,
           ~IoPends(p), PC(p)' # "return",
           PC(p)' \in {"brkcheck", "brkcur"} => ctx'[p].pos <= heapLine',
           heapLine' \in 0..Size, heapCur' \in 0..Size,
           \A q \in Contexts : q # p => PC(q) \notin BrkPoints,
           BrkPending' \/ (heapLine' = heapLine /\ ~BrkPending) \/ heapLine' <= ioheapLine,
           heapCur' = heapCur \/ (heapCur' <= heapLine /\ ~BrkPending), heapLine <= heapLine'
    PROVE  HeapLow'
<1>1. \A q \in Contexts : q # p =>
         /\ Address(q)' = Address(q) /\ PC(q)' = PC(q) /\ (Lowered(q)' <=> Lowered(q))
         /\ (IoPends(q) => IoPends(q)') /\ ctx'[q] = ctx[q]
  BY DEF OthersKept, Keeps, Lowered, IoPends, Hangs
<1>2. /\ ioheapLine \in 0..Size /\ heapLine \in 0..Size /\ heapCur \in 0..Size /\ Size \in Nat
      /\ \A b \in live : b[1] \in 0..Size
  BY SizeAssumption, BlockTypes DEF IInv, Types
<1>3. IoPending => IoPending'
  BY <1>1, PendingParts
<1>4. heapCur' <= heapLine'
  BY <1>2 DEF IInv, HeapLow
<1>5. \A q \in Contexts : PC(q)' \in {"brkcheck", "brkcur"} => ctx'[q].pos <= heapLine'
  BY <1>1 DEF BrkPoints
<1>6. ASSUME NEW a \in Int, ioheapLine <= a, heapCur <= a, heapLine <= a \/ BrkPending
      PROVE  heapCur' <= a /\ (heapLine' <= a \/ BrkPending')
  BY <1>2, <1>6
<1>7. \A b \in live' : heapCur' <= b[1] /\ (heapLine' <= b[1] \/ BrkPending')
  <2> SUFFICES ASSUME NEW b \in live PROVE heapCur' <= b[1] /\ (heapLine' <= b[1] \/ BrkPending')
    OBVIOUS
  <2>1. ioheapLine <= b[1] /\ heapCur <= b[1] /\ (heapLine <= b[1] \/ BrkPending) /\ b[1] \in Int
    BY <1>2 DEF IInv, LineLow, HeapLow
  <2> QED
    BY <2>1, <1>6
<1>8. ASSUME NEW q \in Contexts, PC(q)' = "return"
      PROVE  heapCur' <= Address(q)' /\ (heapLine' <= Address(q)' \/ BrkPending')
  <2>1. q # p /\ PC(q) = "return" /\ Address(q)' = Address(q)
    BY <1>1, <1>8
  <2>2. Owns(q)
    BY <2>1 DEF Owns, MallocPoints
  <2>3. Address(q) \in Int
    BY <2>2, PartTypes DEF IInv
  <2>4. ioheapLine <= Address(q) /\ heapCur <= Address(q) /\ (heapLine <= Address(q) \/ BrkPending)
    BY <2>1 DEF IInv, LineLow, HeapLow, Lowered
  <2> QED
    BY <2>1, <2>3, <2>4, <1>6
<1>9. heapLine' <= ioheapLine' \/ BrkPending' \/ IoPending'
  BY <1>2, <1>3 DEF IInv, HeapLow
<1>10. heapCur' <= ioheapLine' \/ IoPending'
  BY <1>2, <1>3 DEF IInv, HeapLow
<1> QED
  BY <1>4, <1>5, <1>7, <1>8, <1>9, <1>10 DEF HeapLow

(* Other steps of sys_brk do not touch the table or its blocks. *)
LEMMA BrkStep ==
    ASSUME IInv, NEW p \in Contexts, NEW g, Moved(p, g), PC(p) \in BrkPoints \cup {"idle"}, p[2] = "main",
           UNCHANGED <<table, ioheapLine, held, live>>, calls' \in 0..MaxCalls,
           heapLine' \in 0..Size, heapCur' \in 0..Size, heapLine <= heapLine',
           mallocLock' \in Cores \cup {Nobody},
           g.pc \in BrkPoints \cup {"idle", "hang", "base"},
           OpFits(g.pc, g.op, g.len, memrdy),
           g.op \in {"none", "brk"} \/ (g.op = "malloc" /\ Op(p) = "malloc"),
           g.kmemb = 0,
           \A q \in Contexts : q # p => PC(q) \notin BrkPoints,
           g.pc \in {"brkcheck", "brkcur"} => g.pos <= heapLine',
           BrkPending' \/ (heapLine' = heapLine /\ ~BrkPending) \/ heapLine' <= ioheapLine,
           heapCur' = heapCur \/ (heapCur' <= heapLine /\ ~BrkPending),
           MallocExact'
    PROVE  IInv'
<1>1. /\ memrdy' = memrdy /\ membase' = membase /\ memtblsize' = memtblsize /\ memmap' = memmap
  BY DEF table
<1>2. OthersKept(p)
  BY SameTable DEF IInv
<1>3. PC(p)' = g.pc /\ Op(p)' = g.op
  BY DEF Moved, PC, Op
<1>4. Op(p) = "malloc" => ~memrdy /\ Locked(p)
  BY DEF IInv, Ops, OpFits, BrkPoints, InitPoints, Locked
<1>5. g.op = "malloc" => Op(p) = "malloc" /\ Locked(p) /\ ~memrdy
  BY <1>4
<1>6. ~Owns(p)' /\ Marks(p)' = {} /\ ~Lowered(p)' /\ PC(p)' \notin {"raise", "check", "lower", "return", "clear"}
  <2>1. ~Owns(p)'
    BY <1>1, <1>3, <1>5 DEF Owns, MallocPoints, BrkPoints
  <2> QED
    BY <1>3, <2>1 DEF Marks, Lowered, BrkPoints
<1>7. ~Owns(p) /\ Marks(p) = {} /\ ~IoPends(p)
  <2>1. ~Owns(p)
    BY DEF Owns, MallocPoints, BrkPoints, IInv, Ops, OpFits, FreePoints
  <2> QED
    BY <2>1 DEF Marks, IoPends, Hangs, BrkPoints
<1>8. Types'
  BY <1>1 DEF IInv, Types, Moved
<1>9. Ops'
  BY <1>1, OpsStep DEF IInv
<1>10. LockExact'
  BY <1>5, LockStep DEF IInv
<1>11. Unready'
  <2>1. \A q \in Contexts : PC(q)' = "clear" => PC(q) = "clear"
    BY <1>2, <1>6 DEF OthersKept, Keeps
  <2> QED
    BY <2>1, <1>1 DEF IInv, Unready
<1>12. Scanning'
  BY ScanningStep DEF IInv, Scanned, BrkPoints
<1>13. Placed'
  BY <1>1, <1>2, <1>6, PlacedSame DEF IInv
<1>14. Tagged'
  BY <1>1, <1>2, <1>6, <1>7, TaggedSame DEF IInv
<1>15. LineLow'
  BY <1>2, <1>6, LineStep DEF IInv
<1>16. HeapLow'
  <2>1. PC(p)' \in {"brkcheck", "brkcur"} => ctx'[p].pos <= heapLine'
    BY <1>3 DEF Moved
  <2> QED
    BY <1>1, <1>2, <1>6, <1>7, <2>1, HeapBrkStep
<1> QED
  BY <1>8, <1>9, <1>10, <1>11, <1>12, <1>13, <1>14, <1>15, <1>16 DEF IInv

LEMMA CallBrkInv ==
    ASSUME IInv, NEW p \in Contexts, NEW pos \in 0..(Size + 1), CallBrk(p, pos)
    PROVE  IInv'
<1> DEFINE g == [Idle EXCEPT !.pc = "brk", !.op = "brk", !.pos = pos]
<1>1. /\ MayCall(p, "brk") /\ p[2] = "main" /\ mallocLock = Nobody /\ mallocLock' = Core(p)
      /\ Set(p, g) /\ UNCHANGED <<table, lines, held, live>>
  BY DEF CallBrk
<1>2. PC(p) = "idle" /\ calls' \in 0..MaxCalls
  BY <1>1, CallTypes
<1>3. g \in Records /\ g.pc = "brk" /\ g.op = "brk" /\ g.kmemb = 0
  <2>1. 0 \in (-1)..(Size - 1) /\ 0 \in 0..Size
    BY MemoryTypes
  <2> QED
    BY <2>1, CallRecords
<1> HIDE DEF g
<1>4. Moved(p, g)
  BY <1>1, <1>3, SetMoved DEF IInv
<1>5. ioheapLine' = ioheapLine /\ heapLine' = heapLine /\ heapCur' = heapCur
  BY <1>1 DEF lines
<1>6. heapLine' \in 0..Size /\ heapCur' \in 0..Size /\ heapLine <= heapLine'
  BY <1>5 DEF IInv, Types
<1>7. Nobody \notin Cores /\ \A q \in Contexts : Core(q) \in Cores
  BY CoresAssumption, ContextParts
<1>8. ~BrkPending
  BY <1>1, <1>7 DEF BrkPending
<1>9. \A q \in Contexts : PC(q) \notin BrkPoints
  BY <1>1, <1>7 DEF IInv, MallocExact, BrkPoints
<1>10. MallocExact'
  <2>1. \A q \in Contexts : q # p => PC(q)' = PC(q)
    BY <1>4 DEF Moved, PC
  <2>2. PC(p)' = "brk"
    BY <1>3, <1>4 DEF Moved, PC
  <2>3. \A q \in Contexts : q[2] = "main" /\ Core(q) = Core(p) => q = p
    BY <1>1, ContextParts
  <2> QED
    BY <1>1, <1>9, <2>1, <2>2, <2>3 DEF MallocExact, BrkPoints
<1>11. OpFits(g.pc, g.op, g.len, memrdy)
  BY <1>3 DEF OpFits
<1>12. g.pc \in BrkPoints
  BY <1>3 DEF BrkPoints
<1> QED
  BY <1>1, <1>2, <1>3, <1>4, <1>5, <1>6, <1>7, <1>8, <1>9, <1>10, <1>11, <1>12, BrkStep

(* mallocLock is given up together with sys_brk. *)
LEMMA BrkLeaves ==
    ASSUME IInv, NEW p \in Contexts, PC(p) \in BrkPoints, NEW g, Moved(p, g), mallocLock' = Nobody,
           g.pc \notin BrkPoints
    PROVE  MallocExact' /\ ~BrkPending'
<1>1. Nobody \notin Cores /\ \A q \in Contexts : Core(q) \in Cores
  BY CoresAssumption, ContextParts
<1>2. \A q \in Contexts : PC(q)' \notin BrkPoints
  BY BrkFacts DEF Moved, PC
<1> QED
  BY <1>1, <1>2 DEF MallocExact, BrkPending, BrkPoints

LEMMA BrkFailsInv ==
    ASSUME IInv, NEW p \in Contexts, BrkFails(p)
    PROVE  IInv'
<1>1. /\ PC(p) = "brk" /\ PC(p) \in BrkPoints /\ mallocLock' = Nobody
      /\ IF Op(p) = "brk" THEN Set(p, Idle) ELSE Goto(p, "hang")
      /\ UNCHANGED <<table, lines, held, live, calls>>
  BY DEF BrkFails, At, PC, BrkPoints, Op
<1>2. /\ p[2] = "main" /\ Op(p) \in {"malloc", "brk"} /\ ctx[p].kmemb = 0
      /\ Op(p) = "malloc" => ctx[p].len > 0
      /\ \A q \in Contexts : q # p => PC(q) \notin BrkPoints
      /\ ~BrkPending
  BY <1>1, BrkFacts
<1>3. \E g : /\ Moved(p, g) /\ g.kmemb = 0
             /\ g.pc \in {"idle", "hang"} /\ OpFits(g.pc, g.op, g.len, memrdy)
             /\ g.op \in {"none", "brk"} \/ (g.op = "malloc" /\ Op(p) = "malloc")
  <2>1. CASE Op(p) = "brk"
    <3>1. Moved(p, Idle)
      BY <1>1, <2>1, IdleRecord, SetMoved DEF IInv
    <3> QED
      BY <3>1, IdleRecord DEF OpFits
  <2>2. CASE Op(p) # "brk"
    <3>1. PICK g : Moved(p, g) /\ g.pc = "hang" /\ g.op = Op(p) /\ SameLocals(g, ctx[p])
      BY <1>1, <2>2, GotoMoved DEF IInv, PCs
    <3> QED
      BY <3>1, <1>2, <2>2 DEF OpFits, SameLocals, InitPoints, MallocPoints
  <2> QED
    BY <2>1, <2>2
<1>4. PICK g : /\ Moved(p, g) /\ g.kmemb = 0
               /\ g.pc \in {"idle", "hang"} /\ OpFits(g.pc, g.op, g.len, memrdy)
               /\ g.op \in {"none", "brk"} \/ (g.op = "malloc" /\ Op(p) = "malloc")
  BY <1>3
<1>5. MallocExact'
  BY <1>1, <1>4, BrkLeaves DEF BrkPoints
<1>6. ioheapLine' = ioheapLine /\ heapLine' = heapLine /\ heapCur' = heapCur /\ calls' = calls
  BY <1>1 DEF lines
<1>7. heapLine' \in 0..Size /\ heapCur' \in 0..Size /\ heapLine <= heapLine' /\ calls' \in 0..MaxCalls
  BY <1>6 DEF IInv, Types
<1> QED
  BY <1>1, <1>2, <1>4, <1>5, <1>6, <1>7, BrkStep

LEMMA BrkGoto ==
    ASSUME IInv, NEW p \in Contexts, PC(p) \in BrkPoints, NEW c \in BrkPoints \cup {"hang", "base"},
           Op(p) = "brk" => c # "base", Goto(p, c)
    PROVE  \E g : /\ Moved(p, g) /\ g.pc = c /\ g.op = Op(p) /\ g.kmemb = 0 /\ g.pos = ctx[p].pos
                  /\ OpFits(g.pc, g.op, g.len, memrdy)
<1>1. PICK g : Moved(p, g) /\ g.pc = c /\ g.op = Op(p) /\ SameLocals(g, ctx[p])
  BY GotoMoved DEF IInv, BrkPoints, PCs
<1>2. g.kmemb = 0 /\ g.pos = ctx[p].pos
  BY <1>1, BrkFacts DEF SameLocals
<1>3. OpFits(c, Op(p), ctx[p].len, memrdy)
  BY BrkFacts DEF OpFits, BrkPoints, InitPoints, MallocPoints
<1> QED
  BY <1>1, <1>2, <1>3 DEF SameLocals

LEMMA BrkLineInv ==
    ASSUME IInv, NEW p \in Contexts, BrkLine(p)
    PROVE  IInv'
<1> DEFINE c == IF ctx[p].pos > heapLine THEN "brkcheck" ELSE "brkcur"
<1>1. /\ PC(p) = "brk" /\ PC(p) \in BrkPoints /\ ctx[p].pos <= Size /\ Goto(p, c)
      /\ c \in {"brkcheck", "brkcur"}
      /\ c = "brkcheck" => ctx[p].pos > heapLine /\ heapLine' = ctx[p].pos
      /\ c = "brkcur" => ~(ctx[p].pos > heapLine) /\ heapLine' = heapLine
      /\ UNCHANGED <<table, ioheapLine, heapCur, held, mallocLock, live, calls>>
  BY DEF BrkLine, At, PC, BrkPoints, locks
<1> HIDE DEF c
<1>2. /\ p[2] = "main" /\ Op(p) \in {"malloc", "brk"} /\ mallocLock = Core(p) /\ Core(p) \in Cores
      /\ \A q \in Contexts : q # p => PC(q) \notin BrkPoints
      /\ ~BrkPending
  BY <1>1, BrkFacts
<1>3. /\ ctx[p].pos \in 0..Size /\ heapLine \in 0..Size /\ heapCur \in 0..Size /\ calls' \in 0..MaxCalls
  BY <1>1, RecordParts, MemoryTypes DEF IInv, Types
<1>4. /\ heapLine' \in 0..Size /\ heapCur' \in 0..Size /\ heapLine <= heapLine' /\ ctx[p].pos <= heapLine'
  BY <1>1, <1>3
<1>5. PICK g : /\ Moved(p, g) /\ g.pc = c /\ g.op = Op(p) /\ g.kmemb = 0 /\ g.pos = ctx[p].pos
               /\ OpFits(g.pc, g.op, g.len, memrdy)
  BY <1>1, BrkGoto DEF BrkPoints
<1>6. MallocExact'
  BY <1>1, <1>2, <1>5, MallocStep DEF IInv, BrkPoints
<1>7. BrkPending' \/ heapLine' = heapLine
  <2>1. CASE c = "brkcheck"
    <3>1. BrkPends(p)'
      BY <1>1, <1>2, <1>5, <2>1 DEF BrkPends, Moved, PC
    <3> QED
      BY <3>1, PendingParts
  <2> QED
    BY <2>1, <1>1
<1>8. g.pc \in BrkPoints
  BY <1>1, <1>5 DEF BrkPoints
<1> QED
  BY <1>1, <1>2, <1>3, <1>4, <1>5, <1>6, <1>7, <1>8, BrkStep

LEMMA BrkCheckInv ==
    ASSUME IInv, NEW p \in Contexts, BrkCheck(p)
    PROVE  IInv'
<1> DEFINE c == IF HeapCollides THEN "hang" ELSE "brkcur"
<1>1. /\ PC(p) = "brkcheck" /\ PC(p) \in BrkPoints /\ Goto(p, c)
      /\ c \in {"hang", "brkcur"}
      /\ c = "brkcur" => ~(heapLine > ioheapLine)
      /\ UNCHANGED <<table, lines, held, mallocLock, live, calls>>
  BY DEF BrkCheck, At, PC, BrkPoints, locks, HeapCollides
<1> HIDE DEF c
<1>2. /\ p[2] = "main" /\ Op(p) \in {"malloc", "brk"} /\ mallocLock = Core(p) /\ Core(p) \in Cores
      /\ \A q \in Contexts : q # p => PC(q) \notin BrkPoints
  BY <1>1, BrkFacts
<1>3. ioheapLine' = ioheapLine /\ heapLine' = heapLine /\ heapCur' = heapCur /\ calls' = calls
  BY <1>1 DEF lines
<1>4. /\ heapLine \in 0..Size /\ ioheapLine \in 0..Size /\ heapCur' \in 0..Size /\ calls' \in 0..MaxCalls
      /\ heapLine' \in 0..Size /\ heapLine <= heapLine'
  BY <1>3 DEF IInv, Types
<1>5. PICK g : /\ Moved(p, g) /\ g.pc = c /\ g.op = Op(p) /\ g.kmemb = 0 /\ g.pos = ctx[p].pos
               /\ OpFits(g.pc, g.op, g.len, memrdy)
  BY <1>1, BrkGoto DEF BrkPoints
<1>6. MallocExact'
  BY <1>1, <1>2, <1>5, MallocStep DEF IInv, BrkPoints
<1>7. BrkPending' \/ heapLine' <= ioheapLine
  <2>1. CASE c = "hang"
    <3>1. BrkPends(p)'
      BY <1>1, <1>2, <1>5, <2>1 DEF BrkPends, Moved, PC
    <3> QED
      BY <3>1, PendingParts
  <2>2. CASE c = "brkcur"
    BY <2>2, <1>1, <1>3, <1>4
  <2> QED
    BY <2>1, <2>2, <1>1
<1>8. g.pc \in BrkPoints \cup {"hang"} /\ mallocLock' \in Cores
  BY <1>1, <1>2, <1>5 DEF BrkPoints
<1>9. g.pc \in {"brkcheck", "brkcur"} => g.pos <= heapLine'
  BY <1>1, <1>3, <1>5 DEF IInv, HeapLow
<1> QED
  BY <1>1, <1>2, <1>3, <1>4, <1>5, <1>6, <1>7, <1>8, <1>9, BrkStep

LEMMA BrkCurInv ==
    ASSUME IInv, NEW p \in Contexts, BrkCur(p)
    PROVE  IInv'
<1>1. /\ PC(p) = "brkcur" /\ PC(p) \in BrkPoints /\ heapCur' = ctx[p].pos /\ mallocLock' = Nobody
      /\ IF Op(p) = "brk" THEN Set(p, Idle) ELSE Goto(p, "base")
      /\ UNCHANGED <<table, ioheapLine, heapLine, held, live, calls>>
  BY DEF BrkCur, AfterBrk, At, PC, BrkPoints, Op
<1>2. /\ p[2] = "main" /\ Op(p) \in {"malloc", "brk"}
      /\ \A q \in Contexts : q # p => PC(q) \notin BrkPoints
      /\ ~BrkPending
  BY <1>1, BrkFacts
<1>3. ctx[p].pos <= heapLine
  BY <1>1 DEF IInv, HeapLow
<1>4. /\ heapLine' \in 0..Size /\ heapLine <= heapLine' /\ calls' \in 0..MaxCalls /\ heapCur' \in 0..Size
  BY <1>1, <1>3, RecordParts, MemoryTypes DEF IInv, Types
<1>5. \E g : /\ Moved(p, g) /\ g.kmemb = 0
             /\ g.pc \in {"idle", "base"} /\ OpFits(g.pc, g.op, g.len, memrdy)
             /\ g.op \in {"none", "brk"} \/ (g.op = "malloc" /\ Op(p) = "malloc")
  <2>1. CASE Op(p) = "brk"
    <3>1. Moved(p, Idle)
      BY <1>1, <2>1, IdleRecord, SetMoved DEF IInv
    <3> QED
      BY <3>1, IdleRecord DEF OpFits
  <2>2. CASE Op(p) # "brk"
    <3>1. PICK g : /\ Moved(p, g) /\ g.pc = "base" /\ g.op = Op(p) /\ g.kmemb = 0
                   /\ OpFits(g.pc, g.op, g.len, memrdy)
      BY <1>1, <2>2, BrkGoto
    <3> QED
      BY <3>1, <1>2, <2>2
  <2> QED
    BY <2>1, <2>2
<1>6. PICK g : /\ Moved(p, g) /\ g.kmemb = 0
               /\ g.pc \in {"idle", "base"} /\ OpFits(g.pc, g.op, g.len, memrdy)
               /\ g.op \in {"none", "brk"} \/ (g.op = "malloc" /\ Op(p) = "malloc")
  BY <1>5
<1>7. MallocExact'
  BY <1>1, <1>6, BrkLeaves DEF BrkPoints
<1> QED
  BY <1>1, <1>2, <1>3, <1>4, <1>6, <1>7, BrkStep
-----------------------------------------------------------------------------
(* The invariant is inductive. *)

LEMMA InitInv == Init => IInv
<1> SUFFICES ASSUME Init PROVE IInv
  OBVIOUS
<1>1. /\ Idle \in Records /\ Idle.pc = "idle" /\ Idle.op = "none" /\ Idle.kmemb = 0
  BY IdleRecord
<1>2. \A p \in Contexts : ctx[p] = Idle /\ PC(p) = "idle" /\ Op(p) = "none"
  BY <1>1 DEF Init, PC, Op
<1>3. Types
  <2>1. 0 \in 0..Size /\ Size \in 0..Size /\ 0 \in 0..MaxCalls
    BY SizeAssumption, MaxCallsAssumption
  <2>2. memmap \in [0..(Size - 1) -> 0..Size] /\ held \in [Cores -> Nat]
    BY <2>1 DEF Init
  <2>3. ctx \in [Contexts -> Records]
    BY <1>1 DEF Init
  <2>4. memrdy \in BOOLEAN /\ mallocLock \in Cores \cup {Nobody} /\ live \subseteq (0..Size) \X (1..Size)
    BY DEF Init
  <2> QED
    BY <2>1, <2>2, <2>3, <2>4 DEF Init, Types
<1>4. Ops
  BY <1>1, <1>2 DEF Ops, OpFits
<1>5. LockExact
  BY <1>2 DEF LockExact, Locked
<1>6. MallocExact
  <2>1. Nobody \notin Cores /\ \A p \in Contexts : Core(p) \in Cores
    BY CoresAssumption, ContextParts
  <2> QED
    BY <2>1, <1>2 DEF MallocExact, Init
<1>7. Unready
  BY <1>2, SizeAssumption DEF Unready, Init
<1>8. Scanning
  BY <1>1, <1>2 DEF Scanning, Scanned
<1>9. \A p \in Contexts : ~Owns(p) /\ Marks(p) = {} /\ ~Lowered(p)
  BY <1>2 DEF Owns, Marks, Lowered, MallocPoints
<1>10. Placed
  BY <1>9 DEF Placed, Init
<1>11. Tagged
  BY <1>9 DEF Tagged, Init
<1>12. LineLow
  BY <1>2, <1>9 DEF LineLow, Init
<1>13. HeapLow
  BY <1>2, SizeAssumption DEF HeapLow, Init
<1> QED
  BY <1>3, <1>4, <1>5, <1>6, <1>7, <1>8, <1>10, <1>11, <1>12, <1>13 DEF IInv

LEMMA UnchangedInv == IInv /\ UNCHANGED vars => IInv'
<1> SUFFICES ASSUME IInv, UNCHANGED vars PROVE IInv'
  OBVIOUS
<1>1. /\ memrdy' = memrdy /\ membase' = membase /\ memtblsize' = memtblsize /\ memmap' = memmap
      /\ heapLine' = heapLine /\ heapCur' = heapCur /\ ioheapLine' = ioheapLine
      /\ mallocLock' = mallocLock /\ held' = held /\ ctx' = ctx /\ live' = live /\ calls' = calls
  BY DEF vars, table, lines, locks
<1>2. Types' /\ Ops' /\ LockExact' /\ MallocExact' /\ Unready' /\ Scanning'
  BY <1>1 DEF IInv, Types, Ops, LockExact, MallocExact, Unready, Scanning, PC, Op, Locked
<1>3. \A p \in Contexts : /\ PC(p)' = PC(p) /\ Op(p)' = Op(p) /\ Address(p)' = Address(p)
                          /\ (Owns(p)' <=> Owns(p)) /\ (Scans(p)' <=> Scans(p)) /\ Span(p)' = Span(p)
                          /\ (Lowered(p)' <=> Lowered(p))
  BY <1>1 DEF PC, Op, Address, Owns, Scans, Span, Lowered
<1>4. \A p \in Contexts : Part(p)' = Part(p) /\ Marks(p)' = Marks(p)
  BY <1>1, <1>3 DEF Part, Marks
<1>5. Placed'
  BY <1>1, <1>3, <1>4 DEF IInv, Placed, Within
<1>6. Tagged'
  BY <1>1, <1>3, <1>4 DEF IInv, Tagged, Tags
<1>7. LineLow'
  BY <1>1, <1>3 DEF IInv, LineLow
<1>8. (IoPending' <=> IoPending) /\ (BrkPending' <=> BrkPending)
  BY <1>1, <1>3 DEF IoPending, BrkPending
<1>9. HeapLow'
  BY <1>1, <1>3, <1>8 DEF IInv, HeapLow
<1> QED
  BY <1>2, <1>5, <1>6, <1>7, <1>9 DEF IInv

LEMMA NextInv ==
    ASSUME FreeingHandlers, IInv, Next
    PROVE  IInv'
<1>1. PICK p \in Contexts : Call(p) \/ Step(p)
  BY DEF Next
<1>2. CASE Call(p)
  BY <1>2, CallMallocInv, CallFreeInv, CallBrkInv DEF Call
<1>3. CASE Acquire(p) \/ Release(p)
  BY <1>3, AcquireInv, ReleaseInv
<1>4. CASE Table(p) \/ Base(p) \/ TableSize(p) \/ Clear(p)
  BY <1>4, TableInv, BaseInv, TableSizeInv, ClearInv
<1>5. CASE Malloc(p)
  BY <1>5, StartScanInv, ScanFreeInv, ScanUsedInv, SkipInv, ScanFailsInv, TagFirstInv, TagLastInv,
     LineTestInv, LowerInv, CheckInv, ReturnInv DEF Malloc
<1>6. CASE Free(p)
  BY <1>6, UntagFirstInv, UntagLastInv, RaiseTestInv, RaiseInv DEF Free
<1>7. CASE Brk(p)
  BY <1>7, BrkFailsInv, BrkLineInv, BrkCheckInv, BrkCurInv DEF Brk
<1> QED
  BY <1>1, <1>2, <1>3, <1>4, <1>5, <1>6, <1>7 DEF Step

(* All parts of the invariant hold in every state. *)
THEOREM Invariance ==
    ASSUME FreeingHandlers
    PROVE  Spec => []IInv
<1>1. Init => IInv
  BY InitInv
<1>2. IInv /\ [Next]_vars => IInv'
  BY NextInv, UnchangedInv
<1> QED
  BY <1>1, <1>2, PTL DEF Spec

-----------------------------------------------------------------------------
(* The allocator's variables stay in their ranges: the scan stays in the   *)
(* table, and no tag is longer than it (k_malloc, k_free). *)
THEOREM TypeCorrect ==
    ASSUME FreeingHandlers
    PROVE  Spec => []TypeOK
<1>1. IInv => TypeOK
  BY DEF IInv, Types, TypeOK, Records
<1> QED
  BY <1>1, Invariance, PTL

(* Between calls the table has the boundary tags of the blocks the clients *)
(* have and nothing else, although handlers free blocks in the middle of   *)
(* the allocator's own loops. *)
THEOREM TagsSafe ==
    ASSUME FreeingHandlers
    PROVE  Spec => []TagsAreBlocks
<1>1. IInv => TagsAreBlocks
  <2> SUFFICES ASSUME IInv, memrdy, Quiet, ~Hung, Freeing = {}
               PROVE  /\ \A b \in live : InTable(b) /\ \A i \in Tags(b) : memmap[i] = b[2]
                      /\ \A i \in 0..(memtblsize - 1) : memmap[i] # 0 => \E b \in live : i \in Tags(b)
    BY DEF TagsAreBlocks
  <2>1. ASSUME NEW p \in Contexts PROVE Marks(p) = {}
    <3>1. PC(p) \in {"idle", "acquire", "brk", "brkcheck", "brkcur"}
      BY DEF Quiet, Hung, At, InEcall, PC
    <3>2. PC(p) = "acquire" => Op(p) # "free"
      BY DEF Freeing, At, PC, Op
    <3>3. Op(p) = "free" => PC(p) \in {"acquire"} \cup FreePoints
      BY DEF IInv, Ops, OpFits
    <3>4. ~Owns(p)
      BY <3>1, <3>2, <3>3 DEF Owns, MallocPoints, FreePoints
    <3> QED
      BY <3>4 DEF Marks
  <2>2. \A b \in live : InTable(b)
    BY BlockTypes DEF IInv, Within, InTable
  <2>3. \A i \in 0..(memtblsize - 1) : i \in 0..(Size - 1)
    BY MemoryTypes
  <2> QED
    BY <2>1, <2>2, <2>3 DEF IInv, Tagged
<1> QED
  BY <1>1, Invariance, PTL

(* Between calls _ioheap_line is not above any block and _heap_line is not *)
(* above _ioheap_line: the checks of sys_brk and iomem_malloc protect every *)
(* block. *)
THEOREM LineSafe ==
    ASSUME FreeingHandlers
    PROVE  Spec => []LineBelowBlocks
<1>1. IInv => LineBelowBlocks
  <2> SUFFICES ASSUME IInv, Quiet, ~Hung
               PROVE  /\ \A b \in live : ioheapLine <= b[1]
                      /\ (\A p \in Contexts : ctx[p].pc # "brkcheck") => heapLine <= ioheapLine
    BY DEF LineBelowBlocks
  <2>1. \A p \in Contexts : PC(p) \in {"idle", "acquire", "brk", "brkcheck", "brkcur"}
    BY DEF Quiet, Hung, At, InEcall, PC
  <2>2. ~IoPending
    BY <2>1 DEF IoPending
  <2>3. (\A p \in Contexts : ctx[p].pc # "brkcheck") => ~BrkPending
    BY <2>1 DEF BrkPending, PC
  <2> QED
    BY <2>2, <2>3 DEF IInv, LineLow, HeapLow
<1> QED
  BY <1>1, Invariance, PTL

-----------------------------------------------------------------------------
(* The two allocators implement SharedHeap. *)

LEMMA FreeImplements ==
    ASSUME IInv, NEW p \in Contexts, NEW b \in live, CallFree(p, b)
    PROVE  Heap!Next
<1>1. b[1] \in 0..Size /\ b[2] \in 1..Size /\ b = <<b[1], b[2]>> /\ Within(b) /\ memrdy
  BY BlockTypes DEF IInv, Unready, Types
<1>2. b[1] + b[2] <= Size
  BY <1>1, MemoryTypes DEF Within
<1>3. b \in Heap!Blocks
  BY <1>1, <1>2 DEF Heap!Blocks
<1>4. Heap!Free(b)
  BY DEF CallFree, Heap!Free, lines
<1> QED
  BY <1>3, <1>4 DEF Heap!Next

LEMMA ReturnImplements ==
    ASSUME IInv, NEW p \in Contexts, Return(p)
    PROVE  Heap!Next
<1> DEFINE b == <<Address(p), ctx[p].len>>
<1>1. PC(p) = "return" /\ live' = live \cup {b} /\ heapCur' = heapCur
  BY DEF Return, At, PC, lines
<1>2. Op(p) = "malloc" /\ memrdy
  BY <1>1, MallocOp DEF IInv, MallocPoints
<1>3. ~Scans(p) /\ Owns(p) /\ Span(p) = ctx[p].len
  BY <1>1, <1>2 DEF Owns, Scans, Span, MallocPoints
<1>4. b = Part(p)
  BY <1>3 DEF Part
<1>5. /\ b[1] \in Int /\ b[2] = ctx[p].len /\ b[2] \in 0..Size /\ b[2] > 0 /\ Within(b)
      /\ b[1] = Address(p)
  BY <1>3, <1>4, PartTypes DEF IInv
<1>6. b[1] \in 0..Size /\ b[2] \in 1..Size /\ b[1] + b[2] <= Size
  BY <1>2, <1>5, MemoryTypes DEF Within
<1>7. b \in Heap!Blocks
  BY <1>6 DEF Heap!Blocks
<1>8. heapCur <= b[1]
  BY <1>1, <1>5 DEF IInv, HeapLow
<1>9. ASSUME NEW d \in live PROVE Heap!Extent(b) \cap Heap!Extent(d) = {}
  <2>1. d[1] \in 0..Size /\ d[2] \in 1..Size
    BY BlockTypes DEF IInv
  <2>2. Apart(b, d)
    BY <1>3, <1>4 DEF IInv, Placed
  <2> HIDE DEF b
  <2> QED
    BY <2>1, <2>2, <1>6 DEF Apart, Heap!Extent
<1> HIDE DEF b
<1>10. Heap!Alloc(b)
  BY <1>1, <1>8, <1>9 DEF Heap!Alloc
<1> QED
  BY <1>7, <1>10 DEF Heap!Next

LEMMA BrkImplements ==
    ASSUME IInv, NEW p \in Contexts, BrkCur(p)
    PROVE  Heap!Next
<1>1. PC(p) = "brkcur" /\ PC(p) \in BrkPoints /\ heapCur' = ctx[p].pos /\ live' = live
  BY DEF BrkCur, At, PC, BrkPoints
<1>2. ~BrkPending
  BY <1>1, BrkFacts
<1>3. ctx[p].pos \in 0..(Size + 1) /\ ctx[p].pos <= heapLine /\ heapLine \in 0..Size
  BY <1>1, RecordParts, MemoryTypes DEF IInv, HeapLow, Types
<1>4. ctx[p].pos \in 0..Size
  BY <1>3, MemoryTypes
<1>5. ASSUME NEW b \in live PROVE ctx[p].pos <= b[1]
  <2>1. heapLine <= b[1] /\ b[1] \in 0..Size
    BY <1>2, BlockTypes DEF IInv, HeapLow
  <2> QED
    BY <2>1, <1>3
<1>6. Heap!Brk(ctx[p].pos)
  BY <1>1, <1>5 DEF Heap!Brk
<1> QED
  BY <1>4, <1>6 DEF Heap!Next

LEMMA StepImplements ==
    ASSUME IInv, Next
    PROVE  Heap!Next \/ UNCHANGED Heap!vars
<1>1. PICK p \in Contexts : Call(p) \/ Step(p)
  BY DEF Next
<1>2. CASE Call(p)
  <2>1. CASE \E len \in Lengths : CallMalloc(p, len)
    BY <2>1 DEF CallMalloc, lines, Heap!vars
  <2>2. CASE \E b \in live : CallFree(p, b)
    BY <2>2, FreeImplements
  <2>3. CASE \E pos \in 0..(Size + 1) : CallBrk(p, pos)
    BY <2>3 DEF CallBrk, lines, Heap!vars
  <2> QED
    BY <1>2, <2>1, <2>2, <2>3 DEF Call
<1>3. CASE Acquire(p) \/ Release(p) \/ Table(p) \/ Base(p) \/ TableSize(p) \/ Clear(p)
  BY <1>3 DEF Acquire, Release, Table, Base, TableSize, Clear, lines, Heap!vars
<1>4. CASE Malloc(p)
  <2>1. CASE Return(p)
    BY <2>1, ReturnImplements
  <2>2. CASE StartScan(p) \/ ScanFree(p) \/ ScanUsed(p) \/ Skip(p) \/ ScanFails(p)
    BY <2>2 DEF StartScan, ScanFree, ScanUsed, Skip, ScanFails, lines, Heap!vars
  <2>3. CASE TagFirst(p) \/ TagLast(p) \/ LineTest(p) \/ Lower(p) \/ Check(p)
    BY <2>3 DEF TagFirst, TagLast, LineTest, Lower, Check, lines, Heap!vars
  <2> QED
    BY <1>4, <2>1, <2>2, <2>3 DEF Malloc
<1>5. CASE Free(p)
  BY <1>5 DEF Free, UntagFirst, UntagLast, RaiseTest, Raise, lines, Heap!vars
<1>6. CASE Brk(p)
  <2>1. CASE BrkCur(p)
    BY <2>1, BrkImplements
  <2>2. CASE BrkFails(p) \/ BrkLine(p) \/ BrkCheck(p)
    BY <2>2 DEF BrkFails, BrkLine, BrkCheck, lines, Heap!vars
  <2> QED
    BY <1>6, <2>1, <2>2 DEF Brk
<1> QED
  BY <1>1, <1>2, <1>3, <1>4, <1>5, <1>6 DEF Step

(* sys_brk and iomem together never give out memory that is in use: the C  *)
(* heap ends below every block, a block is given out above the heap and    *)
(* apart from all others, although each side looks at the other's line     *)
(* only after it has moved its own. *)
THEOREM Refinement ==
    ASSUME FreeingHandlers
    PROVE  Spec => ImplementsSharedHeap
<1>1. Init => Heap!Init
  BY DEF Init, Heap!Init
<1>2. IInv /\ [Next]_vars => [Heap!Next]_(Heap!vars)
  <2> SUFFICES ASSUME IInv, [Next]_vars PROVE Heap!Next \/ UNCHANGED Heap!vars
    OBVIOUS
  <2>1. CASE UNCHANGED vars
    BY <2>1 DEF vars, lines, Heap!vars
  <2> QED
    BY <2>1, StepImplements
<1> QED
  BY <1>1, <1>2, Invariance, PTL DEF Spec, ImplementsSharedHeap
=============================================================================
