------------------------------ MODULE Reculock ------------------------------
(***************************************************************************)
(* The recursive locks newlib asks the SDK for (bsp/locks.c): a lock is    *)
(* one word, and the owner and depth of a lock in use live in a slot of    *)
(* the table reculock[].  A call takes the word, finds the slot of its     *)
(* lock, claims a free one under reculock_mutex when there is none, and    *)
(* the last unlock gives the slot back without that mutex.                 *)
(*                                                                         *)
(* Steps are the accesses other harts see.  get_reculock is one step: the  *)
(* entries of a lock change only under its word.  get_free_reculock is one *)
(* step per entry, because other harts free entries behind and ahead of it.*)
(* reculock_deinit clears its entry with one step per store, the lock      *)
(* first: from then on another hart may claim the entry, and the rest of   *)
(* the stores land in what is that hart's by now.                          *)
(***************************************************************************)
EXTENDS Integers, FiniteSets

CONSTANTS
    Cores,      \* the harts
    Core0,      \* hart 0: the value .core = 0 of a reset slot
    Locks,      \* the lock words that are used recursively
    NoLock,     \* NULL
    NSlots,     \* LOCK_MAX_NUM, entries of reculock[] (entry 1 is reculock[0])
    MaxCalls,   \* bound: calls other than an owed unlock, per core
    MaxHeld     \* bound: locks a client core holds at once

ASSUME CoresAssumption == Core0 \in Cores
ASSUME LocksAssumption == NoLock \notin Locks
ASSUME BoundsAssumption == NSlots \in Nat \ {0} /\ MaxCalls \in Nat /\ MaxHeld \in Nat

VARIABLES
    word,       \* word[l]: *lock is -1
    mutex,      \* reculock_mutex is -1
    slot,       \* reculock[]
    pc, op, on, \* where each core is, in which function, for which lock
    idx,        \* v_reculock, or the loop variable of get_free_reculock; 0 is NULL
    calls,      \* calls spent
    depth,      \* history: depth[c][l] levels of l that core c was given
    hit         \* history: locks whose entry the close of another has reset

vars == <<word, mutex, slot, pc, op, on, idx, calls, depth, hit>>

Slots == 1 .. NSlots
FreeSlot == [lock |-> NoLock, counter |-> 0, core |-> Core0]

Acquirers == {"lock", "trylock"}
Ops == Acquirers \cup {"unlock", "init", "deinit"}

(* Points at which a core has the word of its lock (or, in init, acts      *)
(* without it).                                                            *)
InsidePoints == {"lookup", "mutex", "scan", "fill", "mutexrel", "test", "counter", "core",
                 "release", "refused", "error"}
Points == {"idle", "word", "tryword", "wait", "halted"} \cup InsidePoints

Init ==
    /\ word = [l \in Locks |-> FALSE]
    /\ mutex = FALSE
    /\ slot = [i \in Slots |-> FreeSlot]
    /\ pc = [c \in Cores |-> "idle"]
    /\ op = [c \in Cores |-> "none"]
    /\ on = [c \in Cores |-> NoLock]
    /\ idx = [c \in Cores |-> 0]
    /\ calls = [c \in Cores |-> 0]
    /\ depth = [c \in Cores |-> [l \in Locks |-> 0]]
    /\ hit = {}

Goto(c, p) == pc' = [pc EXCEPT ![c] = p]

Finish(c, p) ==
    /\ Goto(c, p)
    /\ op' = [op EXCEPT ![c] = "none"]
    /\ on' = [on EXCEPT ![c] = NoLock]
    /\ idx' = [idx EXCEPT ![c] = 0]

Held(c) == {l \in Locks : depth[c][l] > 0}
InUse(l) == \E c \in Cores : depth[c][l] > 0 \/ on[c] = l

-----------------------------------------------------------------------------
(* Calls. *)

Enter(c, o, l, p) ==
    /\ pc[c] = "idle"
    /\ Goto(c, p)
    /\ op' = [op EXCEPT ![c] = o]
    /\ on' = [on EXCEPT ![c] = l]
    /\ UNCHANGED <<word, mutex, slot, idx, depth, hit>>

Spend(c) == calls[c] < MaxCalls /\ calls' = [calls EXCEPT ![c] = @ + 1]

(* Nobody uses a lock while it is being initialised or closed. *)
Settled(l) == \A d \in Cores : on[d] = l => op[d] \notin {"init", "deinit"}

(* _lock_acquire_recursive *)
CallLock(c, l) ==
    /\ Settled(l)
    /\ Cardinality(Held(c) \cup {l}) <= MaxHeld
    /\ Spend(c)
    /\ Enter(c, "lock", l, "word")

(* _lock_try_acquire_recursive *)
CallTrylock(c, l) ==
    /\ Settled(l)
    /\ Cardinality(Held(c) \cup {l}) <= MaxHeld
    /\ Spend(c)
    /\ Enter(c, "trylock", l, "tryword")

(* _lock_release_recursive, owed ... *)
CallUnlock(c, l) ==
    /\ l \in Held(c)
    /\ Enter(c, "unlock", l, "word")
    /\ UNCHANGED calls

(* ... or not. *)
CallStrayUnlock(c, l) ==
    /\ Settled(l)
    /\ l \notin Held(c)
    /\ Spend(c)
    /\ Enter(c, "unlock", l, "word")

(* _lock_init_recursive, of a lock that has no slot and no user. *)
CallInit(c, l) ==
    /\ ~InUse(l)
    /\ \A i \in Slots : slot[i].lock # l
    /\ Spend(c)
    /\ Enter(c, "init", l, "mutex")

(* _lock_close_recursive, of a lock that has no user. *)
CallDeinit(c, l) ==
    /\ ~InUse(l)
    /\ Spend(c)
    /\ Enter(c, "deinit", l, "word")

-----------------------------------------------------------------------------
(* lock_lock: the swap that finds 0. *)
TakeWord(c) ==
    /\ pc[c] = "word"
    /\ ~word[on[c]]
    /\ word' = [word EXCEPT ![on[c]] = TRUE]
    /\ Goto(c, "lookup")
    /\ UNCHANGED <<mutex, slot, op, on, idx, calls, depth, hit>>

(* Mutant of TryWord: the result of the swap is not tested. *)
TryWordBlind(c) ==
    /\ pc[c] = "tryword"
    /\ word' = [word EXCEPT ![on[c]] = TRUE]
    /\ Goto(c, "lookup")
    /\ UNCHANGED <<mutex, slot, op, on, idx, calls, depth, hit>>

(* lock_trylock finds 0 ... *)
TryWord(c) ==
    /\ pc[c] = "tryword"
    /\ ~word[on[c]]
    /\ word' = [word EXCEPT ![on[c]] = TRUE]
    /\ Goto(c, "lookup")
    /\ UNCHANGED <<mutex, slot, op, on, idx, calls, depth, hit>>

(* reculock_trylock returns -1: to its caller, or to reculock_lock's loop. *)
Denied(c) ==
    \/ op[c] = "lock"    /\ Goto(c, "wait") /\ UNCHANGED <<op, on, idx>>
    \/ op[c] = "trylock" /\ Finish(c, "idle")

(* ... or -1. *)
TryWordFail(c) ==
    /\ pc[c] = "tryword"
    /\ word[on[c]]
    /\ Denied(c)
    /\ UNCHANGED <<word, mutex, slot, calls, depth, hit>>

SlotOf(l) == {i \in Slots : slot[i].lock = l}
First(S) == CHOOSE i \in S : \A j \in S : i <= j

(* get_reculock finds the slot. *)
LookupHit(c) ==
    /\ pc[c] = "lookup"
    /\ SlotOf(on[c]) # {}
    /\ idx' = [idx EXCEPT ![c] = First(SlotOf(on[c]))]
    /\ Goto(c, "test")
    /\ UNCHANGED <<word, mutex, slot, op, on, calls, depth, hit>>

(* get_reculock returns NULL: an acquirer claims a slot, an unlock is an   *)
(* error, a deinit has nothing to do.                                      *)
LookupMiss(c) ==
    /\ pc[c] = "lookup"
    /\ SlotOf(on[c]) = {}
    /\ Goto(c, CASE op[c] \in Acquirers -> "mutex"
                 [] op[c] = "unlock"    -> "error"
                 [] op[c] = "deinit"    -> "release")
    /\ UNCHANGED <<word, mutex, slot, op, on, idx, calls, depth, hit>>

(* Mutant of TakeMutex: entries are claimed without the mutex. *)
TakeMutexBlind(c) ==
    /\ pc[c] = "mutex"
    /\ mutex' = TRUE
    /\ idx' = [idx EXCEPT ![c] = 1]
    /\ Goto(c, "scan")
    /\ UNCHANGED <<word, slot, op, on, calls, depth, hit>>

(* reculock_init: lock_lock(&reculock_mutex). *)
TakeMutex(c) ==
    /\ pc[c] = "mutex"
    /\ ~mutex
    /\ mutex' = TRUE
    /\ idx' = [idx EXCEPT ![c] = 1]
    /\ Goto(c, "scan")
    /\ UNCHANGED <<word, slot, op, on, calls, depth, hit>>

(* get_free_reculock, an entry in use: go on, or return NULL at the end. *)
ScanBusy(c) ==
    /\ pc[c] = "scan"
    /\ slot[idx[c]].lock # NoLock
    /\ IF idx[c] < NSlots
       THEN idx' = [idx EXCEPT ![c] = @ + 1] /\ UNCHANGED pc
       ELSE idx' = [idx EXCEPT ![c] = 0] /\ Goto(c, "mutexrel")
    /\ UNCHANGED <<word, mutex, slot, op, on, calls, depth, hit>>

(* A free entry: it is returned, ... *)
ScanFree(c) ==
    /\ pc[c] = "scan"
    /\ slot[idx[c]].lock = NoLock
    /\ Goto(c, "fill")
    /\ UNCHANGED <<word, mutex, slot, op, on, idx, calls, depth, hit>>

(* ... and becomes the lock's. *)
Fill(c) ==
    /\ pc[c] = "fill"
    /\ slot' = [slot EXCEPT ![idx[c]] = [FreeSlot EXCEPT !.lock = on[c]]]
    /\ Goto(c, "mutexrel")
    /\ UNCHANGED <<word, mutex, op, on, idx, calls, depth, hit>>

(* lock_unlock(&reculock_mutex); no slot is an error of an acquirer, and   *)
(* init returns either way.                                                *)
LeaveMutex(c) ==
    /\ pc[c] = "mutexrel"
    /\ mutex' = FALSE
    /\ IF op[c] = "init" THEN Finish(c, "idle")
       ELSE /\ Goto(c, IF idx[c] = 0 THEN "error" ELSE "test")
            /\ UNCHANGED <<op, on, idx>>
    /\ UNCHANGED <<word, slot, calls, depth, hit>>

(* The lock is free, or this core has it already. *)
Take(c) ==
    /\ pc[c] = "test"
    /\ op[c] \in Acquirers
    /\ slot[idx[c]].counter = 0 \/ slot[idx[c]].core = c
    /\ slot' = [slot EXCEPT ![idx[c]].counter = @ + 1, ![idx[c]].core = c]
    /\ Goto(c, "release")
    /\ UNCHANGED <<word, mutex, op, on, idx, calls, depth, hit>>

(* Another core has it. *)
Refuse(c) ==
    /\ pc[c] = "test"
    /\ op[c] \in Acquirers
    /\ slot[idx[c]].counter # 0 /\ slot[idx[c]].core # c
    /\ Goto(c, "refused")
    /\ UNCHANGED <<word, mutex, slot, op, on, idx, calls, depth, hit>>

(* Mutants of Drop: any core drops a level; the counter is not clamped     *)
(* either; the last unlock frees the slot and leaves its counter.          *)
DropByAnyone(c) ==
    /\ pc[c] = "test"
    /\ op[c] = "unlock"
    /\ IF slot[idx[c]].counter - 1 <= 0
       THEN slot' = [slot EXCEPT ![idx[c]] = FreeSlot]
       ELSE slot' = [slot EXCEPT ![idx[c]].counter = @ - 1]
    /\ depth' = [depth EXCEPT ![c][on[c]] = IF @ > 0 THEN @ - 1 ELSE 0]
    /\ Goto(c, "release")
    /\ UNCHANGED <<word, mutex, op, on, idx, calls, hit>>

(* reculock_unlock by the core the slot names; the last level frees it. *)
Drop(c) ==
    /\ pc[c] = "test"
    /\ op[c] = "unlock"
    /\ slot[idx[c]].core = c
    /\ IF slot[idx[c]].counter - 1 <= 0
       THEN slot' = [slot EXCEPT ![idx[c]] = FreeSlot]
       ELSE slot' = [slot EXCEPT ![idx[c]].counter = @ - 1]
    /\ depth' = [depth EXCEPT ![c][on[c]] = IF @ > 0 THEN @ - 1 ELSE 0]
    /\ Goto(c, "release")
    /\ UNCHANGED <<word, mutex, op, on, idx, calls, hit>>

(* reculock_unlock by another core: show_error. *)
StrayUnlock(c) ==
    /\ pc[c] = "test"
    /\ op[c] = "unlock"
    /\ slot[idx[c]].core # c
    /\ Goto(c, "error")
    /\ UNCHANGED <<word, mutex, slot, op, on, idx, calls, depth, hit>>

(* reculock_deinit clears the slot: its lock, ... *)
ClearLock(c) ==
    /\ pc[c] = "test"
    /\ op[c] = "deinit"
    /\ slot' = [slot EXCEPT ![idx[c]].lock = NoLock]
    /\ Goto(c, "counter")
    /\ UNCHANGED <<word, mutex, op, on, idx, calls, depth, hit>>

(* ... then its counter and its core, whoever has the entry by now; a hart *)
(* that is counting there has read the counter, and may write over the 0.  *)
Counting(d, i) == pc[d] = "test" /\ idx[d] = i
Spoils(c) == hit' = hit \cup ({slot[idx[c]].lock} \ {NoLock})

ClearCounter(c) ==
    /\ pc[c] = "counter"
    /\ \/ slot' = [slot EXCEPT ![idx[c]].counter = 0]
       \/ (\E d \in Cores : Counting(d, idx[c])) /\ UNCHANGED slot
    /\ Spoils(c)
    /\ Goto(c, "core")
    /\ UNCHANGED <<word, mutex, op, on, idx, calls, depth>>

ClearCore(c) ==
    /\ pc[c] = "core"
    /\ slot' = [slot EXCEPT ![idx[c]].core = Core0]
    /\ Spoils(c)
    /\ Goto(c, "release")
    /\ UNCHANGED <<word, mutex, op, on, idx, calls, depth>>

FreeWord(c) == word' = [word EXCEPT ![on[c]] = FALSE]

(* lock_unlock(lock) and return. *)
Return(c) ==
    /\ pc[c] = "release"
    /\ FreeWord(c)
    /\ depth' = [depth EXCEPT ![c][on[c]] = IF op[c] \in Acquirers THEN @ + 1 ELSE @]
    /\ Finish(c, "idle")
    /\ UNCHANGED <<mutex, slot, calls, hit>>

(* Mutant of Backoff: the refused core keeps the word. *)
BackoffKeepsWord(c) ==
    /\ pc[c] = "refused"
    /\ Denied(c)
    /\ UNCHANGED <<word, mutex, slot, calls, depth, hit>>

(* lock_unlock(lock) of an acquirer that was refused. *)
Backoff(c) ==
    /\ pc[c] = "refused"
    /\ FreeWord(c)
    /\ Denied(c)
    /\ UNCHANGED <<mutex, slot, calls, depth, hit>>

(* Mutant of ShowError: the word is not freed before the hart stops. *)
ShowErrorKeepsWord(c) ==
    /\ pc[c] = "error"
    /\ Finish(c, "halted")
    /\ UNCHANGED <<word, mutex, slot, calls, depth, hit>>

(* lock_unlock(lock) and show_error: the exit system call never returns. *)
ShowError(c) ==
    /\ pc[c] = "error"
    /\ FreeWord(c)
    /\ Finish(c, "halted")
    /\ UNCHANGED <<mutex, slot, calls, depth, hit>>

(* reculock_lock, slow path: while(atomic_read(&reculock->counter)), where *)
(* reculock is the table, so the counter is that of its first entry,       *)
(* whichever lock the core waits for.                                      *)
SeeFree(c) ==
    /\ pc[c] = "wait"
    /\ slot[1].counter = 0
    /\ Goto(c, "tryword")
    /\ UNCHANGED <<word, mutex, slot, op, on, idx, calls, depth, hit>>

Step(c) ==
    \/ TakeWord(c) \/ TryWord(c) \/ TryWordFail(c) \/ LookupHit(c) \/ LookupMiss(c)
    \/ TakeMutex(c) \/ ScanBusy(c) \/ ScanFree(c) \/ Fill(c) \/ LeaveMutex(c)
    \/ Take(c) \/ Refuse(c) \/ Drop(c) \/ StrayUnlock(c)
    \/ ClearLock(c) \/ ClearCounter(c) \/ ClearCore(c)
    \/ Return(c) \/ Backoff(c) \/ ShowError(c) \/ SeeFree(c)

(* No call is under way, or a hart has stopped with an error and the other *)
(* may wait for its locks for ever.                                        *)
Quiet ==
    /\ (\A c \in Cores : pc[c] = "idle") \/ (\E c \in Cores : pc[c] = "halted")
    /\ UNCHANGED vars

Next ==
    \/ \E c \in Cores :
          \/ Step(c)
          \/ \E l \in Locks : \/ CallLock(c, l) \/ CallTrylock(c, l) \/ CallUnlock(c, l)
                              \/ CallStrayUnlock(c, l) \/ CallInit(c, l) \/ CallDeinit(c, l)
    \/ Quiet

Spec == Init /\ [][Next]_vars

(* A hart keeps executing, a client gives back what it has, and a swap     *)
(* that is repeated while the word is free again and again wins in the end:*)
(* a waiter whose lock is not in the first slot retries without a pause,   *)
(* so only the arbitration of the memory system lets the owner unlock.     *)
Fairness ==
    \A c \in Cores : /\ WF_vars(Step(c))
                     /\ SF_vars(TakeWord(c))
                     /\ WF_vars(\E l \in Locks : CallUnlock(c, l))

FairSpec == Spec /\ Fairness

-----------------------------------------------------------------------------
TypeOK ==
    /\ word \in [Locks -> BOOLEAN]
    /\ mutex \in BOOLEAN
    /\ slot \in [Slots -> [lock : Locks \cup {NoLock}, counter : Nat, core : Cores]]
    /\ pc \in [Cores -> Points]
    /\ op \in [Cores -> Ops \cup {"none"}]
    /\ on \in [Cores -> Locks \cup {NoLock}]
    /\ idx \in [Cores -> 0 .. NSlots]
    /\ calls \in [Cores -> Nat]
    /\ depth \in [Cores -> [Locks -> Nat]]
    /\ hit \subseteq Locks

(* Each lock does what a recursive lock promises for the levels its calls  *)
(* have returned, above all that two harts never have it together, whatever *)
(* slots come and go between them (locks.c:106-224): until its entry is    *)
(* reset by the late stores of a close of another lock (locks.c:97-102),   *)
(* which do break the promise.  iomem_lock (drivers/iomem.c), one of these *)
(* locks, is used as RecursiveLock in Iomem.                               *)
Abstract(l) == INSTANCE RecursiveLock WITH held <- [c \in Cores |-> depth[c][l]]
ImplementsRecursiveLock ==
    /\ \A l \in Locks : Abstract(l)!Init
    /\ [][\A l \in Locks \ hit : [Abstract(l)!Next]_(Abstract(l)!vars)]_vars

(* No lock ever has two slots: two harts that miss the same lock in the    *)
(* table do not both claim one, and a slot freed without reculock_mutex is *)
(* not claimed twice (locks.c:75-89, 207-216).                             *)
OneSlotPerLock ==
    \A i, j \in Slots : slot[i].lock = slot[j].lock /\ slot[i].lock # NoLock => i = j

(* A held lock keeps its slot, and the slot counts the owner's levels: no  *)
(* other hart's claim, free, init or close ever resets it, but for the     *)
(* counter and core that a close stores late, into an entry that another   *)
(* hart claimed once its lock was NULL (locks.c:97-102): SlotIsNesting is  *)
(* about the locks this has not happened to.                               *)
Levels(c, l) ==
    depth[c][l] + (IF pc[c] = "release" /\ on[c] = l /\ op[c] \in Acquirers THEN 1 ELSE 0)
SlotIsNesting ==
    \A c \in Cores, l \in Locks \ hit :
        Levels(c, l) > 0 => \E i \in Slots : slot[i] = [lock |-> l, counter |-> Levels(c, l), core |-> c]

(* A hart that stops in show_error leaves no lock word and not the mutex   *)
(* behind, so the other hart is not stopped with it (locks.c:122-126).     *)
NoOrphanWord ==
    /\ mutex => \E c \in Cores : pc[c] \in {"scan", "fill", "mutexrel"}
    /\ \A l \in Locks : word[l] =>
          \E c \in Cores : on[c] = l /\ pc[c] \in InsidePoints /\ op[c] # "init"

(* Whatever the clients nest, a core is never stuck in a lock call while   *)
(* the first slot's counter stays zero: words and mutex are always freed,  *)
(* and the waiting loop is the only long wait (locks.c:182-186).           *)
StuckOnlyOnFirstSlot ==
    \A c \in Cores : []<>(op[c] # "lock" \/ slot[1].counter # 0 \/ \E d \in Cores : pc[d] = "halted")

=============================================================================
