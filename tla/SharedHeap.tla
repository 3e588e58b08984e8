----------------------------- MODULE SharedHeap -----------------------------
(***************************************************************************)
(* What the two allocators of the SDK promise together: the C heap grows   *)
(* from the bottom of one memory (sys_brk), non-cached blocks are given    *)
(* out from its top (iomem_malloc), and neither is ever given memory that  *)
(* is in use.  Addresses count blocks.  Iomem implements this.             *)
(***************************************************************************)
EXTENDS Naturals

CONSTANT Size           \* the size of the memory

VARIABLES
    brk,                \* the C heap is [0, brk)
    blocks              \* the blocks given out, <<start, length>>

vars == <<brk, blocks>>

Extent(b) == b[1]..(b[1] + b[2] - 1)
Blocks == {b \in (0..Size) \X (1..Size) : b[1] + b[2] <= Size}

Init == brk = 0 /\ blocks = {}

(* The heap ends at pos from now on: below every block. *)
Brk(pos) ==
    /\ \A b \in blocks : pos <= b[1]
    /\ brk' = pos
    /\ UNCHANGED blocks

(* A block is given out: above the heap, and disjoint from all others. *)
Alloc(b) ==
    /\ brk <= b[1]
    /\ \A d \in blocks : Extent(b) \cap Extent(d) = {}
    /\ blocks' = blocks \cup {b}
    /\ UNCHANGED brk

Free(b) ==
    /\ b \in blocks
    /\ blocks' = blocks \ {b}
    /\ UNCHANGED brk

Next ==
    \/ \E pos \in 0..Size : Brk(pos)
    \/ \E b \in Blocks : Alloc(b) \/ Free(b)

Spec == Init /\ [][Next]_vars

=============================================================================
