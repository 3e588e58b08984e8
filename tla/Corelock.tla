------------------------------ MODULE Corelock ------------------------------
(***************************************************************************)
(* corelock_t of bsp/include/atomic.h: a recursive lock owned by a hart,   *)
(* built from a test-and-set spinlock that protects (count, core).         *)
(*                                                                         *)
(* Each atomic access another hart can observe is a step of its own: the   *)
(* swap that takes the inner spinlock, the update of (count, core) under   *)
(* it, the store that frees it, and the unprotected read of count in the   *)
(* waiting loop.  A failed swap of spinlock_lock writes -1 over -1, so it  *)
(* is a stuttering step.                                                   *)
(***************************************************************************)
EXTENDS Integers, FiniteSets

CONSTANTS
    Cores,      \* the harts (mhartid)
    NoCore,     \* the value -1 of the field core
    MaxCalls    \* bound: lock and trylock calls, and stray unlocks, per core

ASSUME NoCoreAssumption == NoCore \notin Cores
ASSUME MaxCallsAssumption == MaxCalls \in Nat

VARIABLES
    lock,       \* the inner spinlock word: TRUE is -1, FALSE is 0
    count,      \* corelock_t.count
    core,       \* corelock_t.core
    pc,         \* where each core is in the function it calls
    op,         \* the function each core is in
    calls,      \* calls[c]: how many calls core c has spent of its MaxCalls
    depth       \* history: levels the calls that returned gave core c and
                \* no unlock has taken back

vars == <<lock, count, core, pc, op, calls, depth>>

Ops == {"lock", "trylock", "unlock"}

(* Points at which a core has the inner spinlock. *)
InsidePoints == {"test", "release", "backoff"}

Points == {"idle", "spin", "try", "wait", "halted"} \cup InsidePoints

Init ==
    /\ lock = FALSE
    /\ count = 0
    /\ core = NoCore
    /\ pc = [c \in Cores |-> "idle"]
    /\ op = [c \in Cores |-> "none"]
    /\ calls = [c \in Cores |-> 0]
    /\ depth = [c \in Cores |-> 0]

Goto(c, p) == pc' = [pc EXCEPT ![c] = p]

-----------------------------------------------------------------------------
(* The calls a client makes. *)

Enter(c, o) ==
    /\ pc[c] = "idle"
    /\ op' = [op EXCEPT ![c] = o]
    /\ Goto(c, IF o = "trylock" THEN "try" ELSE "spin")
    /\ UNCHANGED <<lock, count, core, depth>>

(* corelock_lock or corelock_trylock, or an unlock the core does not owe:  *)
(* the code has a branch for it.                                           *)
Call(c, o) ==
    /\ o = "unlock" => depth[c] = 0
    /\ calls[c] < MaxCalls
    /\ calls' = [calls EXCEPT ![c] = @ + 1]
    /\ Enter(c, o)

(* corelock_unlock by a core that has the lock. *)
CallUnlock(c) ==
    /\ depth[c] > 0
    /\ Enter(c, "unlock")
    /\ UNCHANGED calls

-----------------------------------------------------------------------------
(* spinlock_lock: the swap that finds 0. *)
SpinAcquire(c) ==
    /\ pc[c] = "spin"
    /\ ~lock
    /\ lock' = TRUE
    /\ Goto(c, "test")
    /\ UNCHANGED <<count, core, op, calls, depth>>

(* spinlock_trylock finds 0 ... *)
TryAcquire(c) ==
    /\ pc[c] = "try"
    /\ ~lock
    /\ lock' = TRUE
    /\ Goto(c, "test")
    /\ UNCHANGED <<count, core, op, calls, depth>>

(* Return from a call without the lock, or back to the loop that waits for *)
(* it: corelock_lock retries corelock_trylock until it returns 0; an       *)
(* unlock by a core that is not the owner ends in the exit system call,    *)
(* which never returns.                                                    *)
NotAcquired(c) ==
    \/ op[c] = "lock"    /\ Goto(c, "wait")   /\ op' = op
    \/ op[c] = "trylock" /\ Goto(c, "idle")   /\ op' = [op EXCEPT ![c] = "none"]
    \/ op[c] = "unlock"  /\ Goto(c, "halted") /\ op' = [op EXCEPT ![c] = "none"]

(* ... or -1. *)
TryFail(c) ==
    /\ pc[c] = "try"
    /\ lock
    /\ NotAcquired(c)
    /\ UNCHANGED <<lock, count, core, calls, depth>>

(* Mutant of Take: the owner is not compared. *)
TakeAlways(c) ==
    /\ pc[c] = "test"
    /\ op[c] \in {"lock", "trylock"}
    /\ count' = count + 1
    /\ core' = c
    /\ Goto(c, "release")
    /\ UNCHANGED <<lock, op, calls, depth>>

(* Under the inner lock: the lock is free, or this core has it already. *)
Take(c) ==
    /\ pc[c] = "test"
    /\ op[c] \in {"lock", "trylock"}
    /\ count = 0 \/ core = c
    /\ count' = count + 1
    /\ core' = c
    /\ Goto(c, "release")
    /\ UNCHANGED <<lock, op, calls, depth>>

(* Another core has it. *)
Refuse(c) ==
    /\ pc[c] = "test"
    /\ op[c] \in {"lock", "trylock"}
    /\ count # 0 /\ core # c
    /\ Goto(c, "backoff")
    /\ UNCHANGED <<lock, count, core, op, calls, depth>>

(* Mutants of Drop: any core may drop a level; the count is not clamped at *)
(* zero either; the owner is not reset with the last level.                *)
DropByAnyone(c) ==
    /\ pc[c] = "test"
    /\ op[c] = "unlock"
    /\ count' = IF count - 1 <= 0 THEN 0 ELSE count - 1
    /\ core' = IF count - 1 <= 0 THEN NoCore ELSE core
    /\ depth' = [depth EXCEPT ![c] = IF @ > 0 THEN @ - 1 ELSE 0]
    /\ Goto(c, "release")
    /\ UNCHANGED <<lock, op, calls>>

DropUnclamped(c) ==
    /\ pc[c] = "test"
    /\ op[c] = "unlock"
    /\ count' = count - 1
    /\ core' = IF count = 1 THEN NoCore ELSE core
    /\ depth' = [depth EXCEPT ![c] = IF @ > 0 THEN @ - 1 ELSE 0]
    /\ Goto(c, "release")
    /\ UNCHANGED <<lock, op, calls>>

DropKeepsOwner(c) ==
    /\ pc[c] = "test"
    /\ op[c] = "unlock"
    /\ core = c
    /\ count' = IF count - 1 <= 0 THEN 0 ELSE count - 1
    /\ depth' = [depth EXCEPT ![c] = IF @ > 0 THEN @ - 1 ELSE 0]
    /\ Goto(c, "release")
    /\ UNCHANGED <<lock, core, op, calls>>

(* corelock_unlock by the owner: one level less, and free at the last. *)
Drop(c) ==
    /\ pc[c] = "test"
    /\ op[c] = "unlock"
    /\ core = c
    /\ count' = IF count - 1 <= 0 THEN 0 ELSE count - 1
    /\ core' = IF count - 1 <= 0 THEN NoCore ELSE core
    /\ depth' = [depth EXCEPT ![c] = IF @ > 0 THEN @ - 1 ELSE 0]
    /\ Goto(c, "release")
    /\ UNCHANGED <<lock, op, calls>>

(* corelock_unlock by a core that is not the owner. *)
StrayUnlock(c) ==
    /\ pc[c] = "test"
    /\ op[c] = "unlock"
    /\ core # c
    /\ Goto(c, "backoff")
    /\ UNCHANGED <<lock, count, core, op, calls, depth>>

(* spinlock_unlock after (count, core) was updated; the call returns. *)
Return(c) ==
    /\ pc[c] = "release"
    /\ lock' = FALSE
    /\ depth' = [depth EXCEPT ![c] = IF op[c] = "unlock" THEN @ ELSE @ + 1]
    /\ Goto(c, "idle")
    /\ op' = [op EXCEPT ![c] = "none"]
    /\ UNCHANGED <<count, core, calls>>

(* Mutant of Backoff: the refused core forgets spinlock_unlock. *)
BackoffKeepsInner(c) ==
    /\ pc[c] = "backoff"
    /\ NotAcquired(c)
    /\ UNCHANGED <<lock, count, core, calls, depth>>

(* spinlock_unlock after the core was refused. *)
Backoff(c) ==
    /\ pc[c] = "backoff"
    /\ lock' = FALSE
    /\ NotAcquired(c)
    /\ UNCHANGED <<count, core, calls, depth>>

(* corelock_lock, slow path: while(atomic_read(&lock->count)). *)
SeeFree(c) ==
    /\ pc[c] = "wait"
    /\ count = 0
    /\ Goto(c, "try")
    /\ UNCHANGED <<lock, count, core, op, calls, depth>>

Step(c) ==
    \/ SpinAcquire(c) \/ TryAcquire(c) \/ TryFail(c)
    \/ Take(c) \/ Refuse(c) \/ Drop(c) \/ StrayUnlock(c)
    \/ Return(c) \/ Backoff(c) \/ SeeFree(c)

(* No call is under way. *)
Quiet ==
    /\ \A c \in Cores : pc[c] \in {"idle", "halted"}
    /\ UNCHANGED vars

Next ==
    \/ \E c \in Cores : Step(c) \/ CallUnlock(c) \/ \E o \in Ops : Call(c, o)
    \/ Quiet

Spec == Init /\ [][Next]_vars

(* A hart keeps executing, and a client gives back what it has. *)
Fairness == \A c \in Cores : WF_vars(Step(c)) /\ WF_vars(CallUnlock(c))

FairSpec == Spec /\ Fairness

-----------------------------------------------------------------------------
TypeOK ==
    /\ lock \in BOOLEAN
    /\ count \in Nat
    /\ core \in Cores \cup {NoCore}
    /\ pc \in [Cores -> Points]
    /\ op \in [Cores -> Ops \cup {"none"}]
    /\ calls \in [Cores -> Nat]
    /\ depth \in [Cores -> Nat]

(* Two harts never have the lock at once, whatever the interleaving of     *)
(* their lock, trylock, unlock and stray unlock calls (atomic.h:133-230).  *)
MutualExclusion ==
    \A c, d \in Cores : depth[c] > 0 /\ depth[d] > 0 => c = d

(* The inner spinlock word is -1 exactly while one hart is between its     *)
(* swap and its store, so (count, core) is never updated by two harts and  *)
(* no return path leaves the word set (atomic.h:72-92).                    *)
InnerLockExact ==
    /\ \A c, d \in Cores :
          pc[c] \in InsidePoints /\ pc[d] \in InsidePoints => c = d
    /\ lock <=> \E c \in Cores : pc[c] \in InsidePoints

(* Levels core c has, the one it has just been given included. *)
Levels(c) ==
    depth[c] + (IF pc[c] = "release" /\ op[c] # "unlock" THEN 1 ELSE 0)

(* (count, core) always says who has the lock and how deep, even to the    *)
(* waiting loop that reads count without the inner lock: count is zero iff *)
(* nobody has a level, and otherwise core has exactly count of them.       *)
CountIsNesting ==
    /\ core = NoCore => count = 0
    /\ \A c \in Cores : IF core = c THEN count > 0 /\ Levels(c) = count
                                    ELSE Levels(c) = 0

(* The lock does what a recursive lock promises, for the levels its calls  *)
(* have returned.                                                          *)
Abstract == INSTANCE RecursiveLock WITH held <- depth
ImplementsRecursiveLock == Abstract!Spec

(* A core in corelock_lock gets the lock, once the other cores' calls (at  *)
(* most MaxCalls each) are over and if every owner unlocks.                *)
LockReturns == \A c \in Cores : op[c] = "lock" ~> depth[c] > 0

=============================================================================
