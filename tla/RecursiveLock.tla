--------------------------- MODULE RecursiveLock ---------------------------
(***************************************************************************)
(* What a recursive, per-core lock of the SDK promises its clients: a core *)
(* may take the lock as often as it likes while no other core has it, and  *)
(* gives it up one level at a time.  corelock_t (bsp/include/atomic.h)     *)
(* implements it; see Corelock.                                            *)
(***************************************************************************)
EXTENDS Naturals

CONSTANT Cores          \* the harts that compete for the lock

VARIABLE held           \* held[c]: how many levels of the lock core c has

vars == <<held>>

Init == held = [c \in Cores |-> 0]

(* Core c gets one more level; nobody else may have any. *)
Acquire(c) ==
    /\ \A d \in Cores \ {c} : held[d] = 0
    /\ held' = [held EXCEPT ![c] = @ + 1]

(* Core c gives one level back. *)
Release(c) ==
    /\ held[c] > 0
    /\ held' = [held EXCEPT ![c] = @ - 1]

Next == \E c \in Cores : Acquire(c) \/ Release(c)

Spec == Init /\ [][Next]_vars

=============================================================================
