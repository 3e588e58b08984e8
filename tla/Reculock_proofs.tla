-------------------------- MODULE Reculock_proofs --------------------------
(***************************************************************************)
(* Proofs about Reculock, for any number of harts, locks, slots and calls. *)
(*                                                                         *)
(* A step moves one core and changes the shared state in few ways.  The    *)
(* lemmas of the first part say what each conjunct of the invariant needs  *)
(* of such a step; the second part has a lemma for each action.            *)
(***************************************************************************)
EXTENDS Reculock, TLAPS

(* c has the word of its lock; c has reculock_mutex. *)
HasWord(c) == pc[c] \in InsidePoints /\ op[c] # "init"
HasMutex(c) == pc[c] \in {"scan", "fill", "mutexrel"}

(* Which function a core at point p can be in, and that it has a lock.     *)
OpFits(p, o, l) ==
    IF p \in {"idle", "halted"} THEN o = "none" /\ l = NoLock
    ELSE /\ o \in Ops /\ l \in Locks
         /\ p \in {"tryword", "wait", "refused"} => o \in Acquirers
         /\ p \in {"mutex", "scan", "fill", "mutexrel"} => o \in Acquirers \cup {"init"}
         /\ p \in {"word", "lookup", "test", "release"} => o # "init"
         /\ p \in {"counter", "core"} => o = "deinit"
         /\ p = "error" => o \in Acquirers \cup {"unlock"}
OpMatches == \A c \in Cores : OpFits(pc[c], op[c], on[c])

(* A word is -1 while one core has it, and so is the mutex. *)
WordExact ==
    /\ \A l \in Locks : word[l] => \E c \in Cores : on[c] = l /\ HasWord(c)
    /\ \A c \in Cores : HasWord(c) => word[on[c]]
    /\ \A c, d \in Cores : HasWord(c) /\ HasWord(d) /\ on[c] = on[d] => c = d

MutexExact ==
    /\ mutex => \E c \in Cores : HasMutex(c)
    /\ \A c \in Cores : HasMutex(c) => mutex
    /\ \A c, d \in Cores : HasMutex(c) /\ HasMutex(d) => c = d

(* What the clients promise: a lock that is being initialised or closed is *)
(* nobody else's, and nobody has it.                                       *)
Closing(c) == op[c] \in {"init", "deinit"}
ClosedAlone ==
    \A c \in Cores : Closing(c) =>
        \A d \in Cores : depth[d][on[c]] = 0 /\ (on[d] = on[c] => d = c)

(* Where idx points, and what a claimer knows of the table. *)
IdxFits(p, l, i) ==
    /\ p \in {"scan", "fill", "test", "counter", "core"} => i \in Slots
    /\ p \in {"mutex", "scan", "fill"} => \A j \in Slots : slot[j].lock # l
    /\ p = "fill" => slot[i].lock = NoLock
    /\ p = "test" \/ (p = "mutexrel" /\ i # 0) => slot[i].lock = l
IdxMatches == \A c \in Cores : IdxFits(pc[c], on[c], idx[c])

(* The slot of a lock says how deep each core is in it; a lock without a   *)
(* slot is nobody's.  Not so once the late stores of a close have hit it.  *)
Counts(i, c) == IF slot[i].core = c THEN slot[i].counter ELSE 0
SlotCounts ==
    \A c \in Cores, l \in Locks \ hit :
        /\ \A i \in Slots : slot[i].lock = l => Levels(c, l) = Counts(i, c)
        /\ (\A i \in Slots : slot[i].lock # l) => Levels(c, l) = 0

(* The inductive invariant. *)
IInv ==
    TypeOK /\ OpMatches /\ WordExact /\ MutexExact /\ ClosedAlone /\ IdxMatches
    /\ OneSlotPerLock /\ SlotCounts

-----------------------------------------------------------------------------
(* Steps that move one core. *)

Only(c) ==
    \A d \in Cores \ {c} :
        /\ pc'[d] = pc[d] /\ op'[d] = op[d] /\ on'[d] = on[d] /\ idx'[d] = idx[d]
        /\ depth'[d] = depth[d]

(* c is as deep in each lock as it was, once what it is about to be given  *)
(* is counted.                                                             *)
SameLevels(c) == \A l \in Locks : Levels(c, l)' = Levels(c, l)

(* What the invariant says of another core does not change. *)
LEMMA OthersKept ==
    ASSUME NEW c \in Cores, Only(c), NEW d \in Cores, d # c
    PROVE  /\ HasWord(d)' <=> HasWord(d)
           /\ HasMutex(d)' <=> HasMutex(d)
           /\ Closing(d)' <=> Closing(d)
           /\ \A l \in Locks : Levels(d, l)' = Levels(d, l)
BY DEF Only, HasWord, HasMutex, Closing, Levels

LEMMA OpStep ==
    ASSUME OpMatches, NEW c \in Cores, Only(c), OpFits(pc'[c], op'[c], on'[c])
    PROVE  OpMatches'
<1> SUFFICES ASSUME NEW d \in Cores PROVE OpFits(pc[d], op[d], on[d])'
  BY DEF OpMatches
<1>1. CASE d = c
  BY <1>1 DEF OpFits
<1>2. CASE d # c
  BY <1>2 DEF OpMatches, Only, OpFits
<1> QED
  BY <1>1, <1>2

(* The word is left alone, ... *)
LEMMA WordKept ==
    ASSUME WordExact, NEW c \in Cores, Only(c), word' = word, HasWord(c)' <=> HasWord(c),
           HasWord(c) => on'[c] = on[c]
    PROVE  WordExact'
<1>1. \A d \in Cores : (HasWord(d)' <=> HasWord(d)) /\ (HasWord(d) => on'[d] = on[d])
  BY OthersKept DEF Only
<1> QED
  BY <1>1 DEF WordExact

(* ... taken by c, which finds 0, ... *)
LEMMA WordTaken ==
    ASSUME WordExact, TypeOK, NEW c \in Cores, Only(c), on'[c] = on[c], on[c] \in Locks,
           ~word[on[c]], word' = [word EXCEPT ![on[c]] = TRUE], HasWord(c)'
    PROVE  WordExact'
<1>1. \A d \in Cores \ {c} : (HasWord(d)' <=> HasWord(d)) /\ on'[d] = on[d]
  BY OthersKept DEF Only
<1>2. \A d \in Cores : HasWord(d) => on[d] # on[c]
  BY DEF WordExact
<1>3. \A l \in Locks : word'[l] <=> (l = on[c] \/ word[l])
  BY DEF TypeOK
<1> QED
  BY <1>1, <1>2, <1>3 DEF WordExact

(* ... or freed by c, which has it. *)
LEMMA WordFreed ==
    ASSUME WordExact, OpMatches, TypeOK, NEW c \in Cores, Only(c), HasWord(c), ~HasWord(c)',
           word' = [word EXCEPT ![on[c]] = FALSE]
    PROVE  WordExact'
<1>1. \A d \in Cores \ {c} : (HasWord(d)' <=> HasWord(d)) /\ on'[d] = on[d]
  BY OthersKept DEF Only
<1>2. \A d \in Cores \ {c} : HasWord(d) => on[d] # on[c]
  BY DEF WordExact
<1>3. \A d \in Cores : HasWord(d) => on[d] \in Locks
  BY DEF OpMatches, OpFits, HasWord, InsidePoints
<1>4. \A l \in Locks : word'[l] <=> (l # on[c] /\ word[l])
  BY DEF TypeOK
<1> QED
  BY <1>1, <1>2, <1>3, <1>4 DEF WordExact

(* The same of the mutex. *)
LEMMA MutexKept ==
    ASSUME MutexExact, NEW c \in Cores, Only(c), mutex' = mutex, HasMutex(c)' <=> HasMutex(c)
    PROVE  MutexExact'
<1>1. \A d \in Cores : HasMutex(d)' <=> HasMutex(d)
  BY OthersKept
<1> QED
  BY <1>1 DEF MutexExact

LEMMA MutexTaken ==
    ASSUME MutexExact, NEW c \in Cores, Only(c), ~mutex, mutex' = TRUE, HasMutex(c)'
    PROVE  MutexExact'
<1>1. \A d \in Cores \ {c} : HasMutex(d)' <=> HasMutex(d)
  BY OthersKept
<1> QED
  BY <1>1 DEF MutexExact

LEMMA MutexFreed ==
    ASSUME MutexExact, NEW c \in Cores, Only(c), HasMutex(c), mutex' = FALSE, ~HasMutex(c)'
    PROVE  MutexExact'
<1>1. \A d \in Cores \ {c} : HasMutex(d)' <=> HasMutex(d)
  BY OthersKept
<1> QED
  BY <1>1 DEF MutexExact

(* A core stays in its call, or leaves it; only a core that nobody keeps   *)
(* out gets a level.                                                       *)
LEMMA ClosedKept ==
    ASSUME ClosedAlone, OpMatches, LocksAssumption, NEW c \in Cores, Only(c),
           Closing(c)' => Closing(c) /\ on'[c] = on[c] /\ depth'[c] = depth[c],
           on'[c] \in {on[c], NoLock},
           \A l \in Locks \ {on[c]} : depth'[c][l] = 0 \/ depth'[c][l] = depth[c][l],
           on[c] \in Locks => \/ depth'[c][on[c]] = 0
                              \/ depth'[c][on[c]] = depth[c][on[c]]
                              \/ ~Closing(c)
    PROVE  ClosedAlone'
<1> SUFFICES ASSUME NEW e \in Cores, Closing(e)', NEW d \in Cores
             PROVE  depth'[d][on'[e]] = 0 /\ (on'[d] = on'[e] => d = e)
  BY DEF ClosedAlone
<1>1. Closing(e) /\ on'[e] = on[e] /\ on[e] \in Locks
  BY OthersKept DEF Only, OpMatches, OpFits, Closing
<1>2. depth[d][on[e]] = 0 /\ (on[d] = on[e] => d = e)
  BY <1>1 DEF ClosedAlone
<1>3. CASE d # c
  BY <1>1, <1>2, <1>3 DEF Only, LocksAssumption
<1>4. CASE d = c /\ e = c
  BY <1>1, <1>2, <1>4
<1>5. CASE d = c /\ e # c
  BY <1>1, <1>2, <1>5 DEF LocksAssumption
<1> QED
  BY <1>3, <1>4, <1>5

(* The table is left alone. *)
LEMMA IdxKept ==
    ASSUME IdxMatches, NEW c \in Cores, Only(c), slot' = slot, IdxFits(pc'[c], on'[c], idx'[c])
    PROVE  IdxMatches'
<1> SUFFICES ASSUME NEW d \in Cores PROVE IdxFits(pc[d], on[d], idx[d])'
  BY DEF IdxMatches
<1>1. CASE d = c
  BY <1>1 DEF IdxFits
<1>2. CASE d # c
  BY <1>2 DEF IdxMatches, Only, IdxFits
<1> QED
  BY <1>1, <1>2

LEMMA CountsKept ==
    ASSUME SlotCounts, NEW c \in Cores, Only(c), slot' = slot, hit' = hit, SameLevels(c)
    PROVE  SlotCounts'
<1>1. \A d \in Cores, l \in Locks : Levels(d, l)' = Levels(d, l)
  BY OthersKept DEF SameLevels
<1>2. \A i \in Slots, d \in Cores : Counts(i, d)' = Counts(i, d)
  BY DEF Counts
<1> QED
  BY <1>1, <1>2 DEF SlotCounts

-----------------------------------------------------------------------------
(* Two kinds of steps. *)

(* A core goes on in its call, and changes nothing others see. *)
LEMMA StayIInv ==
    ASSUME IInv, TypeOK', NEW c \in Cores, Only(c), UNCHANGED <<word, mutex, slot, hit>>,
           op'[c] = op[c], on'[c] = on[c], depth'[c] = depth[c], SameLevels(c),
           HasWord(c)' <=> HasWord(c), HasMutex(c)' <=> HasMutex(c),
           OpFits(pc'[c], op[c], on[c]), IdxFits(pc'[c], on[c], idx'[c])
    PROVE  IInv'
<1>1. OpMatches'
  BY OpStep DEF IInv
<1>2. WordExact' /\ MutexExact'
  BY WordKept, MutexKept DEF IInv
<1>3. ClosedAlone'
  BY ClosedKept, LocksAssumption DEF IInv, Closing
<1>4. IdxMatches' /\ SlotCounts'
  BY IdxKept, CountsKept DEF IInv
<1>5. OneSlotPerLock'
  BY DEF IInv, OneSlotPerLock
<1> QED
  BY <1>1, <1>2, <1>3, <1>4, <1>5 DEF IInv

(* A core begins a call: an init or deinit of a lock nobody uses, another  *)
(* call of a lock nobody initialises or closes.                            *)
LEMMA EnterIInv ==
    ASSUME IInv, NEW c \in Cores, NEW l \in Locks, NEW o \in Ops,
           NEW p \in {"word", "tryword", "mutex"},
           Enter(c, o, l, p), OpFits(p, o, l), p = "mutex" => o = "init",
           IdxFits(p, l, idx[c]),
           UNCHANGED calls \/ Spend(c),
           o \in {"init", "deinit"} => ~InUse(l),
           o \notin {"init", "deinit"} => Settled(l)
    PROVE  IInv'
<1>1. TypeOK'
  BY DEF IInv, TypeOK, Enter, Goto, Spend, Points, InsidePoints
<1>2. /\ Only(c) /\ UNCHANGED <<word, mutex, slot, depth, hit>>
      /\ pc[c] = "idle" /\ pc'[c] = p /\ op'[c] = o /\ on'[c] = l /\ idx'[c] = idx[c]
  BY DEF IInv, TypeOK, Enter, Goto, Only
<1>3. op[c] = "none" /\ on[c] = NoLock
  BY <1>2 DEF IInv, OpMatches, OpFits
<1>4. ~HasWord(c) /\ ~HasMutex(c) /\ ~HasWord(c)' /\ ~HasMutex(c)'
  BY <1>2 DEF HasWord, HasMutex, InsidePoints, OpFits
<1>5. OpMatches'
  BY <1>2, OpStep DEF IInv
<1>6. WordExact' /\ MutexExact'
  BY <1>2, <1>4, WordKept, MutexKept DEF IInv
<1>7. ClosedAlone'
  <2> SUFFICES ASSUME NEW e \in Cores, Closing(e)', NEW d \in Cores
               PROVE  depth[d][on'[e]] = 0 /\ (on'[d] = on'[e] => d = e)
    BY <1>2 DEF ClosedAlone
  <2>1. CASE e = c
    <3>1. ~InUse(l)
      BY <1>2, <2>1 DEF Closing
    <3>2. \A b \in Cores : depth[b][l] = 0 /\ on[b] # l
      BY <3>1 DEF InUse, IInv, TypeOK
    <3> QED
      BY <1>2, <2>1, <3>2 DEF Only
  <2>2. CASE e # c
    <3>1. Closing(e) /\ on'[e] = on[e]
      BY <1>2, <2>2, OthersKept DEF Only
    <3>2. on[e] # l
      BY <3>1 DEF Settled, Closing, InUse
    <3> QED
      BY <1>2, <2>2, <3>1, <3>2 DEF IInv, ClosedAlone, Only
  <2> QED
    BY <2>1, <2>2
<1>8. IdxMatches' /\ SlotCounts'
  <2>1. SameLevels(c)
    BY <1>2 DEF SameLevels, Levels
  <2> QED
    BY <1>2, <2>1, IdxKept, CountsKept DEF IInv
<1>9. OneSlotPerLock'
  BY <1>2 DEF IInv, OneSlotPerLock
<1> QED
  BY <1>1, <1>5, <1>6, <1>7, <1>8, <1>9 DEF IInv

-----------------------------------------------------------------------------
(* Calls. *)

(* _lock_acquire_recursive begins. *)
LEMMA CallLockIInv ==
    ASSUME IInv, NEW c \in Cores, NEW l \in Locks, CallLock(c, l)
    PROVE  IInv'
<1> QED
  BY EnterIInv DEF CallLock, OpFits, IdxFits, Ops, Acquirers

(* _lock_try_acquire_recursive begins. *)
LEMMA CallTrylockIInv ==
    ASSUME IInv, NEW c \in Cores, NEW l \in Locks, CallTrylock(c, l)
    PROVE  IInv'
<1> QED
  BY EnterIInv DEF CallTrylock, OpFits, IdxFits, Ops, Acquirers

(* An unlock that is owed begins: a lock that c has is not being closed. *)
LEMMA CallUnlockIInv ==
    ASSUME IInv, NEW c \in Cores, NEW l \in Locks, CallUnlock(c, l)
    PROVE  IInv'
<1>1. depth[c][l] # 0
  BY DEF CallUnlock, Held, IInv, TypeOK
<1>2. Settled(l)
  BY <1>1 DEF Settled, IInv, ClosedAlone, Closing
<1> QED
  BY <1>2, EnterIInv DEF CallUnlock, OpFits, IdxFits, Ops, Acquirers

(* An unlock that is not owed begins. *)
LEMMA CallStrayUnlockIInv ==
    ASSUME IInv, NEW c \in Cores, NEW l \in Locks, CallStrayUnlock(c, l)
    PROVE  IInv'
<1> QED
  BY EnterIInv DEF CallStrayUnlock, OpFits, IdxFits, Ops, Acquirers

(* _lock_init_recursive begins. *)
LEMMA CallInitIInv ==
    ASSUME IInv, NEW c \in Cores, NEW l \in Locks, CallInit(c, l)
    PROVE  IInv'
<1> QED
  BY EnterIInv DEF CallInit, OpFits, IdxFits, Ops, Acquirers

(* _lock_close_recursive begins. *)
LEMMA CallDeinitIInv ==
    ASSUME IInv, NEW c \in Cores, NEW l \in Locks, CallDeinit(c, l)
    PROVE  IInv'
<1> QED
  BY EnterIInv DEF CallDeinit, OpFits, IdxFits, Ops, Acquirers

-----------------------------------------------------------------------------
(* Steps in a call. *)

(* An entry that is free is returned. *)
LEMMA ScanFreeIInv ==
    ASSUME IInv, NEW c \in Cores, ScanFree(c)
    PROVE  IInv'
<1>1. TypeOK'
  BY DEF IInv, TypeOK, ScanFree, Goto, Points, InsidePoints
<1>2. /\ Only(c) /\ UNCHANGED <<word, mutex, slot, op, on, depth, hit>>
      /\ pc'[c] = "fill" /\ idx'[c] = idx[c]
  BY DEF IInv, TypeOK, ScanFree, Goto, Only
<1>3. HasWord(c)' <=> HasWord(c)
  BY <1>2 DEF ScanFree, HasWord, InsidePoints
<1>4. HasMutex(c)' <=> HasMutex(c)
  BY <1>2 DEF ScanFree, HasMutex
<1>5. SameLevels(c)
  BY <1>2 DEF ScanFree, SameLevels, Levels, Acquirers
<1>6. OpFits(pc'[c], op[c], on[c])
  BY <1>2 DEF ScanFree, IInv, OpMatches, OpFits, Ops, Acquirers
<1>7. IdxFits(pc'[c], on[c], idx'[c])
  BY <1>2 DEF ScanFree, IInv, IdxMatches, IdxFits
<1> QED
  BY <1>1, <1>2, <1>3, <1>4, <1>5, <1>6, <1>7, StayIInv

(* Another core has the lock. *)
LEMMA RefuseIInv ==
    ASSUME IInv, NEW c \in Cores, Refuse(c)
    PROVE  IInv'
<1>1. TypeOK'
  BY DEF IInv, TypeOK, Refuse, Goto, Points, InsidePoints
<1>2. /\ Only(c) /\ UNCHANGED <<word, mutex, slot, op, on, depth, hit>>
      /\ pc'[c] = "refused" /\ idx'[c] = idx[c]
  BY DEF IInv, TypeOK, Refuse, Goto, Only
<1>3. HasWord(c)' <=> HasWord(c)
  BY <1>2 DEF Refuse, HasWord, InsidePoints
<1>4. HasMutex(c)' <=> HasMutex(c)
  BY <1>2 DEF Refuse, HasMutex
<1>5. SameLevels(c)
  BY <1>2 DEF Refuse, SameLevels, Levels, Acquirers
<1>6. OpFits(pc'[c], op[c], on[c])
  BY <1>2 DEF Refuse, IInv, OpMatches, OpFits, Ops, Acquirers
<1>7. IdxFits(pc'[c], on[c], idx'[c])
  BY <1>2 DEF Refuse, IInv, IdxMatches, IdxFits
<1> QED
  BY <1>1, <1>2, <1>3, <1>4, <1>5, <1>6, <1>7, StayIInv

(* Another core has the lock that is unlocked. *)
LEMMA StrayUnlockIInv ==
    ASSUME IInv, NEW c \in Cores, StrayUnlock(c)
    PROVE  IInv'
<1>1. TypeOK'
  BY DEF IInv, TypeOK, StrayUnlock, Goto, Points, InsidePoints
<1>2. /\ Only(c) /\ UNCHANGED <<word, mutex, slot, op, on, depth, hit>>
      /\ pc'[c] = "error" /\ idx'[c] = idx[c]
  BY DEF IInv, TypeOK, StrayUnlock, Goto, Only
<1>3. HasWord(c)' <=> HasWord(c)
  BY <1>2 DEF StrayUnlock, HasWord, InsidePoints
<1>4. HasMutex(c)' <=> HasMutex(c)
  BY <1>2 DEF StrayUnlock, HasMutex
<1>5. SameLevels(c)
  BY <1>2 DEF StrayUnlock, SameLevels, Levels, Acquirers
<1>6. OpFits(pc'[c], op[c], on[c])
  BY <1>2 DEF StrayUnlock, IInv, OpMatches, OpFits, Ops, Acquirers
<1>7. IdxFits(pc'[c], on[c], idx'[c])
  BY <1>2 DEF StrayUnlock, IInv, IdxMatches, IdxFits
<1> QED
  BY <1>1, <1>2, <1>3, <1>4, <1>5, <1>6, <1>7, StayIInv

(* A waiting core goes for the word again. *)
LEMMA SeeFreeIInv ==
    ASSUME IInv, NEW c \in Cores, SeeFree(c)
    PROVE  IInv'
<1>1. TypeOK'
  BY DEF IInv, TypeOK, SeeFree, Goto, Points, InsidePoints
<1>2. /\ Only(c) /\ UNCHANGED <<word, mutex, slot, op, on, depth, hit>>
      /\ pc'[c] = "tryword" /\ idx'[c] = idx[c]
  BY DEF IInv, TypeOK, SeeFree, Goto, Only
<1>3. HasWord(c)' <=> HasWord(c)
  BY <1>2 DEF SeeFree, HasWord, InsidePoints
<1>4. HasMutex(c)' <=> HasMutex(c)
  BY <1>2 DEF SeeFree, HasMutex
<1>5. SameLevels(c)
  BY <1>2 DEF SeeFree, SameLevels, Levels, Acquirers
<1>6. OpFits(pc'[c], op[c], on[c])
  BY <1>2 DEF SeeFree, IInv, OpMatches, OpFits, Ops, Acquirers
<1>7. IdxFits(pc'[c], on[c], idx'[c])
  BY <1>2 DEF SeeFree, IInv, IdxMatches, IdxFits
<1> QED
  BY <1>1, <1>2, <1>3, <1>4, <1>5, <1>6, <1>7, StayIInv

(* get_reculock finds the slot: the only one of the lock. *)
LEMMA LookupHitIInv ==
    ASSUME IInv, NEW c \in Cores, LookupHit(c)
    PROVE  IInv'
<1>1. First(SlotOf(on[c])) \in SlotOf(on[c])
  <2>1. on[c] \in Locks
    BY DEF LookupHit, IInv, OpMatches, OpFits
  <2>2. PICK i \in Slots : slot[i].lock = on[c]
    BY DEF LookupHit, SlotOf
  <2>3. SlotOf(on[c]) = {i}
    BY <2>1, <2>2, LocksAssumption DEF SlotOf, IInv, OneSlotPerLock
  <2>4. i <= i
    BY <2>2, BoundsAssumption DEF Slots
  <2> QED
    BY <2>3, <2>4 DEF First
<1>2. TypeOK'
  BY <1>1, BoundsAssumption, SMTT(30) DEF IInv, TypeOK, LookupHit, Goto, Points, InsidePoints, SlotOf, Slots
<1>3. /\ Only(c) /\ UNCHANGED <<word, mutex, slot, op, on, depth, hit>>
      /\ pc[c] = "lookup" /\ pc'[c] = "test" /\ idx'[c] \in SlotOf(on[c])
  BY <1>1 DEF IInv, TypeOK, LookupHit, Goto, Only
<1>4. HasWord(c)' <=> HasWord(c)
  BY <1>3 DEF HasWord, InsidePoints
<1>5. HasMutex(c)' <=> HasMutex(c)
  BY <1>3 DEF HasMutex
<1>6. SameLevels(c)
  BY <1>3 DEF SameLevels, Levels
<1>7. OpFits(pc'[c], op[c], on[c])
  BY <1>3 DEF IInv, OpMatches, OpFits
<1>8. IdxFits(pc'[c], on[c], idx'[c])
  BY <1>3 DEF IdxFits, SlotOf
<1> QED
  BY <1>2, <1>3, <1>4, <1>5, <1>6, <1>7, <1>8, StayIInv

(* get_reculock returns NULL. *)
LEMMA LookupMissIInv ==
    ASSUME IInv, NEW c \in Cores, LookupMiss(c)
    PROVE  IInv'
<1> DEFINE p == CASE op[c] \in Acquirers -> "mutex"
                  [] op[c] = "unlock"    -> "error"
                  [] op[c] = "deinit"    -> "release"
<1>1. op[c] \in Acquirers \cup {"unlock", "deinit"}
  BY DEF LookupMiss, IInv, OpMatches, OpFits, Ops
<1>2. /\ op[c] \in Acquirers => p = "mutex"
      /\ op[c] = "unlock" => p = "error"
      /\ op[c] = "deinit" => p = "release"
  BY DEF Acquirers
<1>3. TypeOK'
  BY <1>1, <1>2 DEF IInv, TypeOK, LookupMiss, Goto, Points, InsidePoints
<1>4. /\ Only(c) /\ UNCHANGED <<word, mutex, slot, op, on, depth, hit>>
      /\ pc[c] = "lookup" /\ pc'[c] = p /\ idx'[c] = idx[c]
  BY DEF IInv, TypeOK, LookupMiss, Goto, Only
<1>5. HasWord(c)' <=> HasWord(c)
  BY <1>1, <1>2, <1>4 DEF HasWord, InsidePoints
<1>6. HasMutex(c)' <=> HasMutex(c)
  BY <1>1, <1>2, <1>4 DEF HasMutex
<1>7. SameLevels(c)
  BY <1>1, <1>2, <1>4 DEF SameLevels, Levels, Acquirers
<1>8. OpFits(pc'[c], op[c], on[c])
  BY <1>1, <1>2, <1>4 DEF IInv, OpMatches, OpFits, Acquirers
<1>9. IdxFits(pc'[c], on[c], idx'[c])
  BY <1>1, <1>2, <1>4 DEF LookupMiss, IdxFits, SlotOf
<1> QED
  BY <1>3, <1>4, <1>5, <1>6, <1>7, <1>8, <1>9, StayIInv

(* An entry in use: the scan goes on, or ends without one. *)
LEMMA ScanBusyIInv ==
    ASSUME IInv, NEW c \in Cores, ScanBusy(c)
    PROVE  IInv'
<1>1. idx[c] \in Slots
  BY DEF ScanBusy, IInv, IdxMatches, IdxFits
<1>2. /\ Only(c) /\ UNCHANGED <<word, mutex, slot, op, on, depth, hit>> /\ pc[c] = "scan"
      /\ \/ pc' = pc /\ idx[c] < NSlots /\ idx'[c] = idx[c] + 1
         \/ pc'[c] = "mutexrel" /\ idx'[c] = 0
  BY DEF IInv, TypeOK, ScanBusy, Goto, Only
<1>3. TypeOK'
  <2>1. idx' \in [Cores -> 0 .. NSlots]
    <3>1. 0 \in 0 .. NSlots /\ (idx[c] < NSlots => idx[c] + 1 \in 0 .. NSlots)
      BY <1>1, BoundsAssumption DEF Slots
    <3>2. idx \in [Cores -> 0 .. NSlots]
      BY DEF IInv, TypeOK
    <3>3. CASE idx[c] < NSlots
      BY <3>1, <3>2, <3>3 DEF ScanBusy
    <3>4. CASE ~(idx[c] < NSlots)
      BY <3>1, <3>2, <3>4 DEF ScanBusy
    <3> QED
      BY <3>3, <3>4
  <2>2. pc' \in [Cores -> Points]
    BY DEF IInv, TypeOK, ScanBusy, Goto, Points, InsidePoints
  <2> QED
    BY <2>1, <2>2 DEF IInv, TypeOK, ScanBusy
<1>4. HasWord(c)' <=> HasWord(c)
  BY <1>2 DEF HasWord, InsidePoints
<1>5. HasMutex(c)' <=> HasMutex(c)
  BY <1>2 DEF HasMutex
<1>6. SameLevels(c)
  BY <1>2 DEF SameLevels, Levels
<1>7. OpFits(pc'[c], op[c], on[c])
  BY <1>2 DEF IInv, OpMatches, OpFits
<1>8. IdxFits(pc'[c], on[c], idx'[c])
  <2>1. IdxFits("scan", on[c], idx[c])
    BY <1>2 DEF IInv, IdxMatches
  <2> QED
    BY <1>1, <1>2, <2>1, BoundsAssumption DEF IdxFits, Slots
<1> QED
  BY <1>2, <1>3, <1>4, <1>5, <1>6, <1>7, <1>8, StayIInv

-----------------------------------------------------------------------------
(* Steps that take or free a word or the mutex. *)

(* lock_lock and lock_trylock find 0 in the word. *)
LEMMA TakeWordIInv ==
    ASSUME IInv, NEW c \in Cores, TakeWord(c) \/ TryWord(c)
    PROVE  IInv'
<1>1. TypeOK'
  BY DEF IInv, TypeOK, TakeWord, TryWord, Goto, Points, InsidePoints
<1>2. /\ Only(c) /\ UNCHANGED <<mutex, slot, op, on, idx, depth, hit>>
      /\ pc[c] \in {"word", "tryword"} /\ pc'[c] = "lookup"
      /\ ~word[on[c]] /\ word' = [word EXCEPT ![on[c]] = TRUE]
  BY DEF IInv, TypeOK, TakeWord, TryWord, Goto, Only
<1>3. on[c] \in Locks /\ op[c] \in Ops \ {"init"}
  BY <1>2 DEF IInv, OpMatches, OpFits, Acquirers
<1>4. OpMatches'
  <2>1. OpFits(pc'[c], op'[c], on'[c])
    BY <1>2, <1>3 DEF OpFits
  <2> QED
    BY <1>2, <2>1, OpStep DEF IInv
<1>5. WordExact'
  <2>1. HasWord(c)'
    BY <1>2, <1>3 DEF HasWord, InsidePoints
  <2> QED
    BY <1>2, <1>3, <2>1, WordTaken DEF IInv
<1>6. MutexExact'
  BY <1>2, MutexKept DEF IInv, HasMutex
<1>7. ClosedAlone'
  BY <1>2, ClosedKept, LocksAssumption DEF IInv, Closing
<1>8. IdxMatches'
  <2>1. IdxFits(pc'[c], on'[c], idx'[c])
    BY <1>2 DEF IdxFits
  <2> QED
    BY <1>2, <2>1, IdxKept DEF IInv
<1>9. OneSlotPerLock' /\ SlotCounts'
  <2>1. SameLevels(c)
    BY <1>2 DEF SameLevels, Levels
  <2> QED
    BY <1>2, <2>1, CountsKept DEF IInv, OneSlotPerLock
<1> QED
  BY <1>1, <1>4, <1>5, <1>6, <1>7, <1>8, <1>9 DEF IInv

(* A core that is not inside stays outside: it waits, or its call is over. *)
LEMMA OutsideIInv ==
    ASSUME IInv, TypeOK', NEW c \in Cores, Only(c), UNCHANGED <<mutex, slot, hit>>,
           ~HasMutex(c), pc'[c] \in {"wait", "idle", "halted"},
           OpFits(pc'[c], op'[c], on'[c]), on'[c] \in {on[c], NoLock},
           SameLevels(c), WordExact',
           \A l \in Locks : depth'[c][l] # depth[c][l] => l = on[c] /\ ~Closing(c)
    PROVE  IInv'
<1>1. OpMatches'
  BY OpStep DEF IInv
<1>2. MutexExact'
  BY MutexKept DEF IInv, HasMutex
<1>3. ClosedAlone'
  <2>1. ~Closing(c)'
    BY DEF Closing, OpFits, Acquirers
  <2> QED
    BY <2>1, ClosedKept, LocksAssumption DEF IInv
<1>4. IdxMatches'
  <2>1. IdxFits(pc'[c], on'[c], idx'[c])
    BY DEF IdxFits
  <2> QED
    BY <2>1, IdxKept DEF IInv
<1>5. OneSlotPerLock' /\ SlotCounts'
  BY CountsKept DEF IInv, OneSlotPerLock
<1> QED
  BY <1>1, <1>2, <1>3, <1>4, <1>5 DEF IInv

(* Where reculock_trylock's -1 leads. *)
LEMMA DeniedStep ==
    ASSUME IInv, NEW c \in Cores, Denied(c), pc[c] \in {"tryword", "refused"},
           UNCHANGED <<slot, calls, depth, hit>>
    PROVE  /\ Only(c)
           /\ pc' \in [Cores -> Points] /\ op' \in [Cores -> Ops \cup {"none"}]
           /\ on' \in [Cores -> Locks \cup {NoLock}] /\ idx' \in [Cores -> 0 .. NSlots]
           /\ pc'[c] \in {"wait", "idle"} /\ on'[c] \in {on[c], NoLock}
           /\ OpFits(pc'[c], op'[c], on'[c])
           /\ SameLevels(c)
<1>1. op[c] \in Acquirers /\ on[c] \in Locks
  BY DEF IInv, OpMatches, OpFits
<1>2. CASE op[c] = "lock" /\ Goto(c, "wait") /\ UNCHANGED <<op, on, idx>>
  BY <1>1, <1>2 DEF IInv, TypeOK, Goto, Only, Points, OpFits, SameLevels, Levels, Ops, Acquirers
<1>3. CASE op[c] = "trylock" /\ Finish(c, "idle")
  BY <1>1, <1>3, BoundsAssumption
     DEF IInv, TypeOK, Finish, Goto, Only, Points, OpFits, SameLevels, Levels
<1> QED
  BY <1>2, <1>3 DEF Denied

(* lock_trylock finds -1. *)
LEMMA TryWordFailIInv ==
    ASSUME IInv, NEW c \in Cores, TryWordFail(c)
    PROVE  IInv'
<1> USE DEF TryWordFail
<1>1. TypeOK'
  BY DeniedStep DEF IInv, TypeOK
<1>2. ~HasWord(c) /\ ~HasWord(c)' /\ ~HasMutex(c)
  BY DeniedStep DEF HasWord, HasMutex, InsidePoints
<1>3. WordExact'
  BY <1>2, DeniedStep, WordKept DEF IInv
<1> QED
  BY <1>1, <1>2, <1>3, DeniedStep, OutsideIInv

(* The word is freed by a core that was refused. *)
LEMMA BackoffIInv ==
    ASSUME IInv, NEW c \in Cores, Backoff(c)
    PROVE  IInv'
<1> USE DEF Backoff, FreeWord
<1>1. TypeOK'
  BY DeniedStep DEF IInv, TypeOK
<1>2. HasWord(c) /\ ~HasWord(c)' /\ ~HasMutex(c)
  BY DeniedStep DEF HasWord, HasMutex, InsidePoints, IInv, OpMatches, OpFits, Acquirers
<1>3. WordExact'
  BY <1>2, DeniedStep, WordFreed DEF IInv
<1> QED
  BY <1>1, <1>2, <1>3, DeniedStep, OutsideIInv

(* The word is freed by a core that stops. *)
LEMMA ShowErrorIInv ==
    ASSUME IInv, NEW c \in Cores, ShowError(c)
    PROVE  IInv'
<1>1. TypeOK'
  <2>1. 0 \in 0 .. NSlots
    BY BoundsAssumption
  <2>2. idx' \in [Cores -> 0 .. NSlots]
    BY <2>1 DEF IInv, TypeOK, ShowError, Finish
  <2>3. /\ pc' \in [Cores -> Points] /\ op' \in [Cores -> Ops \cup {"none"}]
        /\ on' \in [Cores -> Locks \cup {NoLock}]
    BY DEF IInv, TypeOK, ShowError, Finish, Goto, Points
  <2> QED
    BY <2>2, <2>3 DEF IInv, TypeOK, ShowError, FreeWord
<1>2. /\ Only(c) /\ UNCHANGED <<mutex, slot, depth, hit>>
      /\ pc[c] = "error" /\ pc'[c] = "halted" /\ op'[c] = "none" /\ on'[c] = NoLock
      /\ word' = [word EXCEPT ![on[c]] = FALSE]
  BY DEF IInv, TypeOK, ShowError, FreeWord, Finish, Goto, Only
<1>3. HasWord(c) /\ ~HasWord(c)' /\ ~HasMutex(c)
  BY <1>2 DEF HasWord, HasMutex, InsidePoints, IInv, OpMatches, OpFits, Acquirers
<1>4. WordExact'
  BY <1>2, <1>3, WordFreed DEF IInv
<1>5. SameLevels(c)
  BY <1>2 DEF SameLevels, Levels
<1>6. OpFits(pc'[c], op'[c], on'[c])
  BY <1>2 DEF OpFits
<1> QED
  BY <1>1, <1>2, <1>3, <1>4, <1>5, <1>6, OutsideIInv

(* The word is freed and the call returns: the level that Take counted is  *)
(* the caller's now.                                                       *)
LEMMA ReturnIInv ==
    ASSUME IInv, NEW c \in Cores, Return(c)
    PROVE  IInv'
<1>1. depth' \in [Cores -> [Locks -> Nat]]
  <2>1. \A n \in Nat : (IF op[c] \in Acquirers THEN n + 1 ELSE n) \in Nat
    OBVIOUS
  <2>2. on[c] \in Locks /\ depth[c][on[c]] \in Nat
    <3>1. on[c] \in Locks
      BY DEF Return, IInv, OpMatches, OpFits
    <3> QED
      BY <3>1 DEF IInv, TypeOK
  <2> QED
    BY <2>1, <2>2 DEF IInv, TypeOK, Return
<1>2. TypeOK'
  BY <1>1, BoundsAssumption DEF IInv, TypeOK, Return, FreeWord, Finish, Goto, Points
<1>3. /\ Only(c) /\ UNCHANGED <<mutex, slot, hit>>
      /\ pc[c] = "release" /\ pc'[c] = "idle" /\ op'[c] = "none" /\ on'[c] = NoLock
      /\ word' = [word EXCEPT ![on[c]] = FALSE]
      /\ \A l \in Locks : depth'[c][l] =
            IF l = on[c] /\ op[c] \in Acquirers THEN depth[c][l] + 1 ELSE depth[c][l]
  BY DEF IInv, TypeOK, Return, FreeWord, Finish, Goto, Only
<1>4. HasWord(c) /\ ~HasWord(c)' /\ ~HasMutex(c)
  BY <1>3 DEF HasWord, HasMutex, InsidePoints, IInv, OpMatches, OpFits
<1>5. WordExact'
  BY <1>3, <1>4, WordFreed DEF IInv
<1>6. SameLevels(c)
  BY <1>3 DEF SameLevels, Levels, IInv, TypeOK
<1>7. OpFits(pc'[c], op'[c], on'[c])
  BY <1>3 DEF OpFits
<1>8. \A l \in Locks : depth'[c][l] # depth[c][l] => l = on[c] /\ ~Closing(c)
  BY <1>3 DEF Closing, Acquirers
<1> QED
  BY <1>2, <1>3, <1>4, <1>5, <1>6, <1>7, <1>8, OutsideIInv

(* reculock_mutex is taken. *)
LEMMA TakeMutexIInv ==
    ASSUME IInv, NEW c \in Cores, TakeMutex(c)
    PROVE  IInv'
<1>1. TypeOK'
  BY BoundsAssumption DEF IInv, TypeOK, TakeMutex, Goto, Points, InsidePoints
<1>2. /\ Only(c) /\ UNCHANGED <<word, slot, op, on, depth, hit>>
      /\ pc[c] = "mutex" /\ pc'[c] = "scan" /\ idx'[c] = 1
      /\ ~mutex /\ mutex' = TRUE
  BY DEF IInv, TypeOK, TakeMutex, Goto, Only
<1>3. OpMatches'
  <2>1. OpFits(pc'[c], op'[c], on'[c])
    BY <1>2 DEF IInv, OpMatches, OpFits
  <2> QED
    BY <1>2, <2>1, OpStep DEF IInv
<1>4. WordExact'
  BY <1>2, WordKept DEF IInv, HasWord, InsidePoints
<1>5. MutexExact'
  BY <1>2, MutexTaken DEF IInv, HasMutex
<1>6. ClosedAlone'
  BY <1>2, ClosedKept, LocksAssumption DEF IInv, Closing
<1>7. IdxMatches'
  <2>1. IdxFits(pc'[c], on'[c], idx'[c])
    BY <1>2, BoundsAssumption DEF IInv, IdxMatches, IdxFits, Slots
  <2> QED
    BY <1>2, <2>1, IdxKept DEF IInv
<1>8. OneSlotPerLock' /\ SlotCounts'
  <2>1. SameLevels(c)
    BY <1>2 DEF SameLevels, Levels
  <2> QED
    BY <1>2, <2>1, CountsKept DEF IInv, OneSlotPerLock
<1> QED
  BY <1>1, <1>3, <1>4, <1>5, <1>6, <1>7, <1>8 DEF IInv

(* reculock_mutex is freed; an init returns.                               *)
LEMMA LeaveMutexIInv ==
    ASSUME IInv, NEW c \in Cores, LeaveMutex(c)
    PROVE  IInv'
<1>1. /\ Only(c) /\ UNCHANGED <<word, slot, depth, calls, hit>>
      /\ pc[c] = "mutexrel" /\ HasMutex(c) /\ mutex' = FALSE
      /\ op[c] \in Acquirers \cup {"init"} /\ on[c] \in Locks /\ idx[c] \in 0 .. NSlots
  BY DEF IInv, TypeOK, LeaveMutex, Finish, Goto, Only, HasMutex, OpMatches, OpFits
<1>2. CASE op[c] = "init"
  <2>1. TypeOK' /\ pc'[c] = "idle" /\ op'[c] = "none" /\ on'[c] = NoLock
    <3>1. 0 \in 0 .. NSlots
      BY BoundsAssumption
    <3>2. idx' \in [Cores -> 0 .. NSlots]
      BY <1>2, <3>1 DEF IInv, TypeOK, LeaveMutex, Finish
    <3>3. /\ pc' \in [Cores -> Points] /\ op' \in [Cores -> Ops \cup {"none"}]
          /\ on' \in [Cores -> Locks \cup {NoLock}]
          /\ pc'[c] = "idle" /\ op'[c] = "none" /\ on'[c] = NoLock
      BY <1>2 DEF IInv, TypeOK, LeaveMutex, Finish, Goto, Points
    <3> QED
      BY <1>1, <3>2, <3>3 DEF IInv, TypeOK
  <2>2. OpMatches'
    BY <1>1, <2>1, OpStep DEF IInv, OpFits
  <2>3. WordExact'
    BY <1>1, <1>2, <2>1, WordKept DEF IInv, HasWord, InsidePoints
  <2>4. MutexExact'
    BY <1>1, <2>1, MutexFreed DEF IInv, HasMutex
  <2>5. ClosedAlone'
    BY <1>1, <2>1, ClosedKept, LocksAssumption DEF IInv, Closing
  <2>6. IdxMatches'
    BY <1>1, <2>1, IdxKept DEF IInv, IdxFits
  <2>7. OneSlotPerLock' /\ SlotCounts'
    <3>1. SameLevels(c)
      BY <1>1, <2>1 DEF SameLevels, Levels
    <3> QED
      BY <1>1, <3>1, CountsKept DEF IInv, OneSlotPerLock
  <2> QED
    BY <2>1, <2>2, <2>3, <2>4, <2>5, <2>6, <2>7 DEF IInv
<1>3. CASE op[c] # "init"
  <2>1. /\ UNCHANGED <<op, on, idx>>
        /\ pc' \in [Cores -> Points]
        /\ pc'[c] = IF idx[c] = 0 THEN "error" ELSE "test"
    BY <1>3 DEF IInv, TypeOK, LeaveMutex, Goto, Points, InsidePoints
  <2>2. TypeOK'
    BY <1>1, <2>1 DEF IInv, TypeOK
  <2>3. OpMatches'
    <3>1. OpFits(pc'[c], op'[c], on'[c])
      BY <1>1, <1>3, <2>1 DEF OpFits, Acquirers, Ops
    <3> QED
      BY <1>1, <3>1, OpStep DEF IInv
  <2>4. WordExact'
    BY <1>1, <2>1, WordKept DEF IInv, HasWord, InsidePoints
  <2>5. MutexExact'
    BY <1>1, <2>1, MutexFreed DEF IInv, HasMutex
  <2>6. ClosedAlone'
    BY <1>1, <2>1, ClosedKept, LocksAssumption DEF IInv, Closing
  <2>7. IdxMatches'
    <3>1. IdxFits("mutexrel", on[c], idx[c])
      BY <1>1 DEF IInv, IdxMatches
    <3>2. IdxFits(pc'[c], on'[c], idx'[c])
      BY <1>1, <2>1, <3>1, BoundsAssumption DEF IdxFits, Slots
    <3> QED
      BY <1>1, <3>2, IdxKept DEF IInv
  <2>8. OneSlotPerLock' /\ SlotCounts'
    <3>1. SameLevels(c)
      BY <1>1, <2>1 DEF SameLevels, Levels
    <3> QED
      BY <1>1, <3>1, CountsKept DEF IInv, OneSlotPerLock
  <2> QED
    BY <2>2, <2>3, <2>4, <2>5, <2>6, <2>7, <2>8 DEF IInv
<1> QED
  BY <1>2, <1>3

-----------------------------------------------------------------------------
(* Steps that change the table. *)

(* c changes nothing of the table but entry i. *)
OnlySlot(i) == \A j \in Slots \ {i} : slot'[j] = slot[j]

SlotType == [lock : Locks \cup {NoLock}, counter : Nat, core : Cores]

LEMMA PutSlot ==
    ASSUME TypeOK, NEW i \in Slots, NEW v \in SlotType, slot' = [slot EXCEPT ![i] = v]
    PROVE  slot'[i] = v /\ OnlySlot(i) /\ slot' \in [Slots -> SlotType]
BY DEF TypeOK, SlotType, OnlySlot

(* Two cores never work on the table for the same lock. *)
Inside(c) == HasWord(c) \/ op[c] = "init"
LEMMA Alone ==
    ASSUME IInv, NEW c \in Cores, NEW d \in Cores, Inside(c), Inside(d), on[c] = on[d]
    PROVE  c = d
<1>1. CASE HasWord(c) /\ HasWord(d)
  BY <1>1 DEF IInv, WordExact
<1>2. CASE op[c] = "init" \/ op[d] = "init"
  BY <1>2 DEF IInv, ClosedAlone, Closing
<1> QED
  BY <1>1, <1>2 DEF Inside

(* What a core at these points is sure of. *)
LEMMA AtWork ==
    ASSUME IInv, NEW d \in Cores, pc[d] \in {"mutex", "scan", "fill", "mutexrel", "test"}
    PROVE  /\ Inside(d) /\ on[d] \in Locks /\ on[d] # NoLock /\ idx[d] \in 0 .. NSlots
           /\ IdxFits(pc[d], on[d], idx[d])
BY LocksAssumption
   DEF IInv, TypeOK, OpMatches, OpFits, Inside, HasWord, InsidePoints, Ops, Acquirers, IdxMatches

(* A claimed entry gets its lock, ... *)
LEMMA IdxFilled ==
    ASSUME IInv, NEW c \in Cores, Only(c), pc[c] = "fill", OnlySlot(idx[c]),
           slot'[idx[c]].lock = on[c], pc'[c] = "mutexrel", on'[c] = on[c], idx'[c] = idx[c]
    PROVE  IdxMatches'
<1>0. Inside(c) /\ idx[c] \in Slots /\ slot[idx[c]].lock = NoLock
  BY AtWork DEF IdxFits
<1> SUFFICES ASSUME NEW d \in Cores PROVE IdxFits(pc[d], on[d], idx[d])'
  BY DEF IdxMatches
<1>1. CASE d = c
  BY <1>1 DEF IdxFits
<1>2. CASE d # c /\ pc[d] \in {"mutex", "scan", "fill", "mutexrel", "test"}
  <2>1. /\ on[d] # on[c] /\ on[d] # NoLock /\ idx[d] \in 0 .. NSlots
        /\ IdxFits(pc[d], on[d], idx[d])
    BY <1>0, <1>2, AtWork, Alone
  <2>2. pc[d] # "fill"
    BY <1>2 DEF IInv, MutexExact, HasMutex
  <2>3. idx[d] # 0 => idx[d] \in Slots
    BY <2>1, BoundsAssumption DEF Slots
  <2>4. pc'[d] = pc[d] /\ on'[d] = on[d] /\ idx'[d] = idx[d]
    BY <1>2 DEF Only
  <2>5. \A j \in Slots : slot'[j].lock = IF j = idx[c] THEN on[c] ELSE slot[j].lock
    BY <1>0 DEF OnlySlot
  <2> QED
    BY <1>0, <1>2, <2>1, <2>2, <2>3, <2>4, <2>5 DEF IdxFits
<1>3. CASE d # c /\ pc[d] \notin {"mutex", "scan", "fill", "mutexrel", "test"}
  BY <1>3 DEF IdxFits, Only, IInv, IdxMatches
<1> QED
  BY <1>1, <1>2, <1>3

(* ... and the entry of a lock keeps it or is freed. *)
LEMMA IdxTested ==
    ASSUME IInv, NEW c \in Cores, Only(c), pc[c] = "test", OnlySlot(idx[c]),
           slot'[idx[c]].lock \in {on[c], NoLock},
           pc'[c] \in {"release", "counter"}, idx'[c] = idx[c]
    PROVE  IdxMatches'
<1>0. Inside(c) /\ idx[c] \in Slots /\ slot[idx[c]].lock = on[c] /\ on[c] # NoLock
  BY AtWork DEF IdxFits
<1> SUFFICES ASSUME NEW d \in Cores PROVE IdxFits(pc[d], on[d], idx[d])'
  BY DEF IdxMatches
<1>1. CASE d = c
  BY <1>0, <1>1 DEF IdxFits
<1>2. CASE d # c /\ pc[d] \in {"mutex", "scan", "fill", "mutexrel", "test"}
  <2>1. /\ on[d] # on[c] /\ on[d] # NoLock /\ idx[d] \in 0 .. NSlots
        /\ IdxFits(pc[d], on[d], idx[d])
    BY <1>0, <1>2, AtWork, Alone
  <2>2. idx[d] # 0 => idx[d] \in Slots
    BY <2>1, BoundsAssumption DEF Slots
  <2>3. pc'[d] = pc[d] /\ on'[d] = on[d] /\ idx'[d] = idx[d]
    BY <1>2 DEF Only
  <2> QED
    BY <1>0, <1>2, <2>1, <2>2, <2>3 DEF IdxFits, OnlySlot
<1>3. CASE d # c /\ pc[d] \notin {"mutex", "scan", "fill", "mutexrel", "test"}
  BY <1>3 DEF IdxFits, Only, IInv, IdxMatches
<1> QED
  BY <1>1, <1>2, <1>3

(* The counts stay right if they are right of the lock c is at work for. *)
LEMMA CountsMoved ==
    ASSUME SlotCounts, LocksAssumption, NEW c \in Cores, Only(c), NEW i \in Slots, OnlySlot(i),
           on[c] \in Locks, on'[c] = on[c], hit' = hit,
           slot[i].lock \in {on[c], NoLock}, slot'[i].lock \in {on[c], NoLock},
           \A j \in Slots \ {i} : slot[j].lock # on[c],
           \A l \in Locks \ {on[c]} : Levels(c, l)' = Levels(c, l),
           on[c] \notin hit => \A d \in Cores :
               Levels(d, on[c])' = IF slot'[i].lock = on[c] THEN Counts(i, d)' ELSE 0
    PROVE  SlotCounts'
<1> SUFFICES ASSUME NEW d \in Cores, NEW l \in Locks \ hit
             PROVE  /\ \A j \in Slots : slot'[j].lock = l => Levels(d, l)' = Counts(j, d)'
                    /\ (\A j \in Slots : slot'[j].lock # l) => Levels(d, l)' = 0
  BY DEF SlotCounts
<1>1. CASE l = on[c]
  <2>1. \A j \in Slots \ {i} : slot'[j].lock # l
    BY <1>1 DEF OnlySlot
  <2> QED
    BY <1>1, <2>1, LocksAssumption
<1>2. CASE l # on[c]
  <2>1. Levels(d, l)' = Levels(d, l)
    BY <1>2, OthersKept
  <2>2. slot[i].lock # l /\ slot'[i].lock # l
    BY <1>2, LocksAssumption
  <2>3. \A j \in Slots \ {i} : slot'[j] = slot[j] /\ Counts(j, d)' = Counts(j, d)
    BY DEF OnlySlot, Counts
  <2> QED
    BY <2>1, <2>2, <2>3 DEF SlotCounts
<1> QED
  BY <1>1, <1>2

(* A claimed entry becomes the lock's. *)
LEMMA FillIInv ==
    ASSUME IInv, NEW c \in Cores, Fill(c)
    PROVE  IInv'
<1>1. /\ idx[c] \in Slots /\ slot[idx[c]].lock = NoLock /\ on[c] \in Locks /\ on[c] # NoLock
      /\ \A j \in Slots : slot[j].lock # on[c]
  BY AtWork DEF Fill, IdxFits
<1>2. /\ Only(c) /\ OnlySlot(idx[c]) /\ UNCHANGED <<word, mutex, op, on, idx, calls, depth, hit>>
      /\ pc[c] = "fill" /\ pc'[c] = "mutexrel"
      /\ slot'[idx[c]] = [lock |-> on[c], counter |-> 0, core |-> Core0]
  BY <1>1 DEF IInv, TypeOK, Fill, Goto, Only, OnlySlot, FreeSlot
<1>3. TypeOK'
  BY <1>1, CoresAssumption DEF IInv, TypeOK, Fill, Goto, Points, InsidePoints, FreeSlot
<1>4. OpMatches'
  <2>1. OpFits(pc'[c], op'[c], on'[c])
    BY <1>2 DEF IInv, OpMatches, OpFits
  <2> QED
    BY <1>2, <2>1, OpStep DEF IInv
<1>5. WordExact' /\ MutexExact'
  BY <1>2, WordKept, MutexKept DEF IInv, HasWord, HasMutex, InsidePoints
<1>6. ClosedAlone'
  BY <1>2, ClosedKept, LocksAssumption DEF IInv, Closing
<1>7. IdxMatches'
  BY <1>2, IdxFilled
<1>8. OneSlotPerLock'
  BY <1>1, <1>2 DEF IInv, OneSlotPerLock, OnlySlot
<1>9. SlotCounts'
  <2>1. \A d \in Cores, l \in Locks : Levels(d, l)' = Levels(d, l)
    BY <1>2, OthersKept DEF Levels
  <2>2. on[c] \notin hit => \A d \in Cores : Levels(d, on[c]) = 0
    BY <1>1 DEF IInv, SlotCounts
  <2>3. \A d \in Cores : Counts(idx[c], d)' = 0
    BY <1>2 DEF Counts
  <2> QED
    BY <1>1, <1>2, <2>1, <2>2, <2>3, CountsMoved, LocksAssumption DEF IInv
<1> QED
  BY <1>3, <1>4, <1>5, <1>6, <1>7, <1>8, <1>9 DEF IInv

(* A core that has found the slot of its lock changes it and goes on to    *)
(* free the word.                                                          *)
LEMMA TestIInv ==
    ASSUME IInv, NEW c \in Cores, Only(c), UNCHANGED <<word, mutex, op, on, idx, calls, hit>>,
           pc[c] = "test", pc'[c] \in {"release", "counter"},
           pc'[c] = "counter" => op[c] = "deinit", pc' \in [Cores -> Points],
           slot' \in [Slots -> SlotType],
           depth' \in [Cores -> [Locks -> Nat]],
           OnlySlot(idx[c]), slot'[idx[c]].lock \in {on[c], NoLock},
           \A l \in Locks \ {on[c]} : depth'[c][l] = depth[c][l],
           Closing(c) => depth'[c] = depth[c],
           on[c] \notin hit => \A d \in Cores : Levels(d, on[c])' =
               IF slot'[idx[c]].lock = on[c] THEN Counts(idx[c], d)' ELSE 0
    PROVE  IInv'
<1>1. /\ idx[c] \in Slots /\ slot[idx[c]].lock = on[c] /\ on[c] \in Locks /\ on[c] # NoLock
      /\ \A j \in Slots \ {idx[c]} : slot[j].lock # on[c]
  BY AtWork DEF IdxFits, IInv, OneSlotPerLock
<1>2. TypeOK'
  BY DEF IInv, TypeOK, SlotType
<1>3. OpMatches'
  <2>1. OpFits(pc'[c], op'[c], on'[c])
    BY DEF IInv, OpMatches, OpFits
  <2> QED
    BY <2>1, OpStep DEF IInv
<1>4. WordExact' /\ MutexExact'
  BY WordKept, MutexKept DEF IInv, HasWord, HasMutex, InsidePoints
<1>5. ClosedAlone'
  BY <1>1, ClosedKept, LocksAssumption DEF IInv, Closing
<1>6. IdxMatches'
  BY IdxTested
<1>7. OneSlotPerLock'
  BY <1>1 DEF IInv, OneSlotPerLock, OnlySlot
<1>8. SlotCounts'
  <2>1. \A l \in Locks \ {on[c]} : Levels(c, l)' = Levels(c, l)
    BY DEF Levels
  <2> QED
    BY <1>1, <2>1, CountsMoved, LocksAssumption DEF IInv
<1> QED
  BY <1>2, <1>3, <1>4, <1>5, <1>6, <1>7, <1>8 DEF IInv

(* What c knows of its lock when it has found the slot. *)
LEMMA AtTest ==
    ASSUME IInv, NEW c \in Cores, pc[c] = "test"
    PROVE  /\ idx[c] \in Slots /\ slot[idx[c]].lock = on[c]
           /\ on[c] \in Locks /\ on[c] # NoLock
           /\ slot[idx[c]] \in SlotType
           /\ depth[c][on[c]] \in Nat
           /\ Levels(c, on[c]) = depth[c][on[c]]
           /\ on[c] \notin hit => \A d \in Cores : Levels(d, on[c]) = Counts(idx[c], d)
<1>1. /\ idx[c] \in Slots /\ slot[idx[c]].lock = on[c]
      /\ on[c] \in Locks /\ on[c] # NoLock
  BY AtWork DEF IdxFits
<1>2. depth[c][on[c]] \in Nat
  BY <1>1 DEF IInv, TypeOK
<1>3. slot[idx[c]] \in SlotType
  BY <1>1 DEF IInv, TypeOK, SlotType
<1>4. Levels(c, on[c]) = depth[c][on[c]]
  BY <1>2 DEF Levels
<1>5. on[c] \notin hit => \A d \in Cores : Levels(d, on[c]) = Counts(idx[c], d)
  BY <1>1 DEF IInv, SlotCounts
<1> QED
  BY <1>1, <1>2, <1>3, <1>4, <1>5

LEMMA CountUp ==
    ASSUME slot \in [Slots -> SlotType], NEW i \in Slots, NEW c,
           slot' = [slot EXCEPT ![i].counter = @ + 1, ![i].core = c]
    PROVE  slot' = [slot EXCEPT ![i] =
                       [lock |-> slot[i].lock, counter |-> slot[i].counter + 1, core |-> c]]
<1> DEFINE a == [slot EXCEPT ![i].counter = @ + 1]
<1>1. slot' = [a EXCEPT ![i].core = c]
  OBVIOUS
<1>2. slot[i] \in SlotType
  OBVIOUS
<1>3. a[i] = [lock |-> slot[i].lock, counter |-> slot[i].counter + 1, core |-> slot[i].core]
  BY <1>2 DEF SlotType
<1> QED
  BY <1>1, <1>3 DEF SlotType

(* An acquirer counts its level. *)
LEMMA TakeIInv ==
    ASSUME IInv, NEW c \in Cores, Take(c)
    PROVE  IInv'
<1> DEFINE i == idx[c]
           s == slot[i]
<1>1. /\ pc[c] = "test" /\ op[c] \in Acquirers /\ (s.counter = 0 \/ s.core = c)
      /\ pc'[c] = "release" /\ pc' \in [Cores -> Points]
      /\ Only(c) /\ UNCHANGED <<word, mutex, op, on, idx, calls, depth, hit>>
  BY DEF Take, IInv, TypeOK, Goto, Only, Points, InsidePoints
<1> DEFINE v == [lock |-> s.lock, counter |-> s.counter + 1, core |-> c]
<1>2. slot'[i] = v /\ OnlySlot(i) /\ slot' \in [Slots -> SlotType]
  <2>1. i \in Slots /\ s \in SlotType /\ slot \in [Slots -> SlotType]
    BY <1>1, AtTest DEF IInv, TypeOK, SlotType
  <2>2. v \in SlotType
    BY <2>1 DEF SlotType
  <2>3. slot' = [slot EXCEPT ![i] = v]
    BY <2>1, CountUp DEF Take
  <2> QED
    BY <2>1, <2>2, <2>3, PutSlot DEF IInv
<1>6. ASSUME on[c] \notin hit, NEW d \in Cores
      PROVE  Levels(d, on[c])' = IF slot'[i].lock = on[c] THEN Counts(i, d)' ELSE 0
  <2>1. Levels(c, on[c])' = s.counter + 1
    <3>1. Levels(c, on[c])' = depth[c][on[c]] + 1
      BY <1>1 DEF Levels
    <3>2. depth[c][on[c]] = s.counter
      BY <1>1, <1>6, AtTest DEF Counts
    <3> QED
      BY <3>1, <3>2
  <2>2. d # c => Levels(d, on[c])' = 0
    BY <1>1, <1>6, AtTest, OthersKept DEF Counts
  <2>3. Counts(i, d)' = IF d = c THEN s.counter + 1 ELSE 0
    BY <1>1, <1>2 DEF Counts
  <2> QED
    BY <1>1, <1>2, <2>1, <2>2, <2>3, AtTest
<1>7. slot'[i].lock \in {on[c], NoLock} /\ depth' \in [Cores -> [Locks -> Nat]]
  BY <1>1, <1>2, AtTest DEF IInv, TypeOK
<1> QED
  BY <1>1, <1>2, <1>6, <1>7, TestIInv

(* The owner gives a level back, and the slot with the last one. *)
LEMMA DropIInv ==
    ASSUME IInv, NEW c \in Cores, Drop(c)
    PROVE  IInv'
<1> DEFINE i == idx[c]
           s == slot[i]
           m == depth[c][on[c]]
           n == IF s.counter > 0 THEN s.counter - 1 ELSE 0
           k == IF m > 0 THEN m - 1 ELSE 0
<1>1. /\ pc[c] = "test" /\ op[c] = "unlock" /\ s.core = c
      /\ pc'[c] = "release" /\ pc' \in [Cores -> Points]
      /\ UNCHANGED <<word, mutex, op, on, idx, calls, hit>>
  BY DEF Drop, IInv, TypeOK, Goto, Points, InsidePoints
<1>2. s.counter \in Nat /\ n \in Nat /\ m \in Nat /\ k \in Nat
  BY <1>1, AtTest DEF SlotType
<1>3. /\ depth' \in [Cores -> [Locks -> Nat]] /\ Only(c)
      /\ depth'[c][on[c]] = k
      /\ \A l \in Locks \ {on[c]} : depth'[c][l] = depth[c][l]
  <2>1. depth' = [depth EXCEPT ![c][on[c]] = k]
    BY DEF Drop, IInv, TypeOK
  <2> HIDE DEF k
  <2> QED
    BY <1>1, <1>2, <2>1, AtTest DEF Drop, Goto, Only, IInv, TypeOK
<1> DEFINE v == IF s.counter - 1 <= 0 THEN FreeSlot ELSE [s EXCEPT !.counter = s.counter - 1]
<1>4. v = IF s.counter - 1 <= 0 THEN FreeSlot ELSE [lock |-> s.lock, counter |-> n, core |-> s.core]
  BY <1>1, <1>2, AtTest DEF SlotType
<1>5. slot'[i] = v /\ OnlySlot(i) /\ slot' \in [Slots -> SlotType]
  <2>1. i \in Slots /\ s \in SlotType /\ slot \in [Slots -> SlotType]
    BY <1>1, AtTest DEF IInv, TypeOK, SlotType
  <2>2. v \in SlotType
    BY <1>2, <1>4, <2>1, CoresAssumption DEF FreeSlot, SlotType
  <2>3. slot' = [slot EXCEPT ![i] = v]
    <3>1. CASE s.counter - 1 <= 0
      BY <3>1 DEF Drop
    <3>2. CASE ~(s.counter - 1 <= 0)
      BY <2>1, <3>2 DEF Drop, SlotType
    <3> QED
      BY <3>1, <3>2
  <2> QED
    BY <2>1, <2>2, <2>3, PutSlot DEF IInv
<1>8. ASSUME on[c] \notin hit, NEW d \in Cores
      PROVE  Levels(d, on[c])' = IF slot'[i].lock = on[c] THEN Counts(i, d)' ELSE 0
  <2>1. m = s.counter /\ k = n
    BY <1>1, <1>8, AtTest DEF Counts
  <2>2. Levels(c, on[c])' = n
    <3>1. depth'[c][on'[c]] = n /\ n \in Nat
      BY <1>1, <1>2, <1>3, <2>1
    <3>2. op'[c] \notin Acquirers
      BY <1>1 DEF Acquirers
    <3> HIDE DEF n
    <3> QED
      BY <1>1, <3>1, <3>2 DEF Levels
  <2>3. d # c => Levels(d, on[c])' = 0
    BY <1>1, <1>3, <1>8, AtTest, OthersKept DEF Counts
  <2>4. CASE s.counter - 1 <= 0
    BY <1>1, <1>2, <1>4, <1>5, <2>2, <2>3, <2>4, AtTest DEF FreeSlot
  <2>5. CASE ~(s.counter - 1 <= 0)
    BY <1>1, <1>2, <1>4, <1>5, <2>2, <2>3, <2>5, AtTest DEF Counts
  <2> QED
    BY <2>4, <2>5
<1>9. slot'[i].lock \in {on[c], NoLock}
  BY <1>1, <1>4, <1>5, AtTest DEF FreeSlot
<1>10. ~Closing(c)
  BY <1>1 DEF Closing
<1> QED
  BY <1>1, <1>3, <1>5, <1>8, <1>9, <1>10, TestIInv

(* The slot of a lock that is closed is cleared: nobody has the lock. *)
LEMMA ClearLockIInv ==
    ASSUME IInv, NEW c \in Cores, ClearLock(c)
    PROVE  IInv'
<1>1. /\ pc[c] = "test" /\ op[c] = "deinit" /\ pc'[c] = "counter" /\ pc' \in [Cores -> Points]
      /\ Only(c) /\ UNCHANGED <<word, mutex, op, on, idx, calls, depth, hit>>
  BY DEF ClearLock, IInv, TypeOK, Goto, Only, Points, InsidePoints
<1> DEFINE v == [slot[idx[c]] EXCEPT !.lock = NoLock]
<1>2. /\ OnlySlot(idx[c]) /\ slot'[idx[c]] = v /\ v.lock = NoLock
      /\ slot' \in [Slots -> SlotType]
  <2>1. v \in SlotType /\ v.lock = NoLock
    BY <1>1, AtTest DEF SlotType
  <2>2. slot' = [slot EXCEPT ![idx[c]] = v]
    BY DEF ClearLock
  <2> HIDE DEF v
  <2> QED
    BY <1>1, <2>1, <2>2, AtTest, PutSlot DEF IInv
<1>3. \A d \in Cores : Levels(d, on[c])' = 0
  <2>1. \A d \in Cores : depth[d][on[c]] = 0 /\ (on[d] = on[c] => d = c)
    BY <1>1 DEF IInv, ClosedAlone, Closing
  <2> QED
    BY <1>1, <2>1 DEF Levels, Acquirers, Only
<1>4. slot'[idx[c]].lock = NoLock /\ NoLock # on[c] /\ depth' \in [Cores -> [Locks -> Nat]]
  BY <1>1, <1>2, AtTest DEF IInv, TypeOK
<1> QED
  BY <1>1, <1>2, <1>3, <1>4, TestIInv

(* A late store changes an entry only for the lock that it counts as hit,  *)
(* and moves no entry from one lock to another.                            *)
LEMMA LateIInv ==
    ASSUME IInv, NEW c \in Cores, Only(c), UNCHANGED <<word, mutex, op, on, idx, calls, depth>>,
           pc[c] \in {"counter", "core"}, pc'[c] \in {"core", "release"},
           pc' \in [Cores -> Points], slot' \in [Slots -> SlotType], OnlySlot(idx[c]),
           slot'[idx[c]].lock = slot[idx[c]].lock, Spoils(c)
    PROVE  IInv'
<1>1. /\ op[c] = "deinit" /\ on[c] \in Locks /\ idx[c] \in Slots
      /\ slot[idx[c]].lock \in Locks \cup {NoLock}
  BY DEF IInv, OpMatches, OpFits, IdxMatches, IdxFits, TypeOK
<1>2. TypeOK'
  BY <1>1 DEF IInv, TypeOK, SlotType, Spoils
<1>3. OpMatches'
  <2>1. OpFits(pc'[c], op'[c], on'[c])
    BY <1>1 DEF OpFits, Ops, Acquirers
  <2> QED
    BY <2>1, OpStep DEF IInv
<1>4. WordExact' /\ MutexExact'
  BY WordKept, MutexKept DEF IInv, HasWord, HasMutex, InsidePoints
<1>5. ClosedAlone'
  BY ClosedKept, LocksAssumption DEF IInv, Closing
<1>6. \A j \in Slots : slot'[j].lock = slot[j].lock
  BY <1>1 DEF OnlySlot
<1>7. IdxMatches'
  <2> SUFFICES ASSUME NEW d \in Cores PROVE IdxFits(pc[d], on[d], idx[d])'
    BY DEF IdxMatches
  <2>1. CASE d = c
    BY <1>1, <2>1 DEF IdxFits
  <2>2. CASE d # c
    <3>1. IdxFits(pc[d], on[d], idx[d]) /\ idx[d] \in 0 .. NSlots
      BY DEF IInv, IdxMatches, TypeOK
    <3>2. idx[d] # 0 => idx[d] \in Slots
      BY <3>1, BoundsAssumption DEF Slots
    <3>3. pc'[d] = pc[d] /\ on'[d] = on[d] /\ idx'[d] = idx[d]
      BY <2>2 DEF Only
    <3> QED
      BY <1>6, <3>1, <3>2, <3>3 DEF IdxFits
  <2> QED
    BY <2>1, <2>2
<1>8. OneSlotPerLock'
  BY <1>6 DEF IInv, OneSlotPerLock
<1>9. SlotCounts'
  <2>1. \A d \in Cores, l \in Locks : Levels(d, l)' = Levels(d, l)
    BY <1>1, OthersKept DEF Levels, Acquirers
  <2>2. ASSUME NEW d \in Cores, NEW l \in Locks \ hit'
        PROVE  /\ \A i \in Slots : slot'[i].lock = l => Levels(d, l)' = Counts(i, d)'
               /\ (\A i \in Slots : slot'[i].lock # l) => Levels(d, l)' = 0
    <3>1. l \in Locks \ hit /\ l # slot[idx[c]].lock
      BY <2>2, LocksAssumption DEF Spoils
    <3>2. \A i \in Slots : slot[i].lock = l => Counts(i, d)' = Counts(i, d)
      BY <3>1 DEF OnlySlot, Counts
    <3> QED
      BY <1>6, <2>1, <3>1, <3>2 DEF IInv, SlotCounts
  <2> QED
    BY <2>2 DEF SlotCounts
<1> QED
  BY <1>2, <1>3, <1>4, <1>5, <1>7, <1>8, <1>9 DEF IInv

(* The two late stores. *)
LEMMA ClearCounterIInv ==
    ASSUME IInv, NEW c \in Cores, ClearCounter(c)
    PROVE  IInv'
<1>1. /\ pc[c] = "counter" /\ pc'[c] = "core" /\ pc' \in [Cores -> Points] /\ Spoils(c)
      /\ Only(c) /\ UNCHANGED <<word, mutex, op, on, idx, calls, depth>>
  BY DEF ClearCounter, IInv, TypeOK, Goto, Only, Points, InsidePoints
<1>2. idx[c] \in Slots /\ slot[idx[c]] \in SlotType /\ slot \in [Slots -> SlotType]
  BY <1>1 DEF IInv, IdxMatches, IdxFits, TypeOK, SlotType
<1>3. /\ slot' \in [Slots -> SlotType] /\ OnlySlot(idx[c])
      /\ slot'[idx[c]].lock = slot[idx[c]].lock
  <2>1. CASE UNCHANGED slot
    BY <1>2, <2>1 DEF OnlySlot
  <2>2. CASE slot' = [slot EXCEPT ![idx[c]].counter = 0]
    <3> DEFINE v == [slot[idx[c]] EXCEPT !.counter = 0]
    <3>1. v \in SlotType /\ v.lock = slot[idx[c]].lock
      BY <1>2 DEF SlotType
    <3>2. slot' = [slot EXCEPT ![idx[c]] = v]
      BY <2>2
    <3> HIDE DEF v
    <3> QED
      BY <1>2, <3>1, <3>2, PutSlot DEF IInv
  <2> QED
    BY <2>1, <2>2 DEF ClearCounter
<1> QED
  BY <1>1, <1>3, LateIInv

LEMMA ClearCoreIInv ==
    ASSUME IInv, NEW c \in Cores, ClearCore(c)
    PROVE  IInv'
<1>1. /\ pc[c] = "core" /\ pc'[c] = "release" /\ pc' \in [Cores -> Points] /\ Spoils(c)
      /\ Only(c) /\ UNCHANGED <<word, mutex, op, on, idx, calls, depth>>
  BY DEF ClearCore, IInv, TypeOK, Goto, Only, Points, InsidePoints
<1>2. idx[c] \in Slots /\ slot[idx[c]] \in SlotType /\ slot \in [Slots -> SlotType]
  BY <1>1 DEF IInv, IdxMatches, IdxFits, TypeOK, SlotType
<1>3. /\ slot' \in [Slots -> SlotType] /\ OnlySlot(idx[c])
      /\ slot'[idx[c]].lock = slot[idx[c]].lock
  <2> DEFINE v == [slot[idx[c]] EXCEPT !.core = Core0]
  <2>1. v \in SlotType /\ v.lock = slot[idx[c]].lock
    BY <1>2, CoresAssumption DEF SlotType
  <2>2. slot' = [slot EXCEPT ![idx[c]] = v]
    BY DEF ClearCore
  <2> HIDE DEF v
  <2> QED
    BY <1>2, <2>1, <2>2, PutSlot DEF IInv
<1> QED
  BY <1>1, <1>3, LateIInv

-----------------------------------------------------------------------------
(* The invariant holds at the start, and every step keeps it. *)

LEMMA InitIInv == Init => IInv
<1> SUFFICES ASSUME Init PROVE IInv
  OBVIOUS
<1> USE DEF Init
<1>1. TypeOK
  <2>1. 0 \in 0 .. NSlots
    BY BoundsAssumption
  <2>2. FreeSlot \in SlotType
    BY CoresAssumption DEF FreeSlot, SlotType
  <2> QED
    BY <2>1, <2>2 DEF TypeOK, SlotType, Points
<1>2. OpMatches
  BY DEF OpMatches, OpFits
<1>3. WordExact /\ MutexExact
  BY DEF WordExact, MutexExact, HasWord, HasMutex, InsidePoints
<1>4. ClosedAlone
  BY DEF ClosedAlone, Closing
<1>5. IdxMatches
  BY DEF IdxMatches, IdxFits
<1>6. OneSlotPerLock
  BY DEF OneSlotPerLock, FreeSlot
<1>7. SlotCounts
  BY LocksAssumption DEF SlotCounts, Levels, Counts, FreeSlot
<1> QED
  BY <1>1, <1>2, <1>3, <1>4, <1>5, <1>6, <1>7 DEF IInv

LEMMA StepIInv ==
    ASSUME IInv, NEW c \in Cores, Step(c)
    PROVE  IInv'
BY TakeWordIInv, TryWordFailIInv, LookupHitIInv, LookupMissIInv, TakeMutexIInv, ScanBusyIInv,
   ScanFreeIInv, FillIInv, LeaveMutexIInv, TakeIInv, RefuseIInv, DropIInv, StrayUnlockIInv,
   ClearLockIInv, ClearCounterIInv, ClearCoreIInv, ReturnIInv, BackoffIInv, ShowErrorIInv, SeeFreeIInv DEF Step

LEMMA UnchangedIInv == IInv /\ UNCHANGED vars => IInv'
<1> SUFFICES ASSUME IInv, UNCHANGED vars PROVE IInv'
  OBVIOUS
<1> USE DEF vars
<1>1. TypeOK' /\ OpMatches'
  BY DEF IInv, TypeOK, OpMatches, OpFits
<1>2. WordExact' /\ MutexExact'
  BY DEF IInv, WordExact, MutexExact, HasWord, HasMutex
<1>3. ClosedAlone' /\ IdxMatches'
  BY DEF IInv, ClosedAlone, Closing, IdxMatches, IdxFits
<1>4. OneSlotPerLock' /\ SlotCounts'
  BY DEF IInv, OneSlotPerLock, SlotCounts, Levels, Counts
<1> QED
  BY <1>1, <1>2, <1>3, <1>4 DEF IInv

LEMMA NextIInv == IInv /\ [Next]_vars => IInv'
<1> SUFFICES ASSUME IInv, [Next]_vars PROVE IInv'
  OBVIOUS
<1>1. CASE \E c \in Cores : Step(c)
  BY <1>1, StepIInv
<1>2. CASE \E c \in Cores, l \in Locks :
              \/ CallLock(c, l) \/ CallTrylock(c, l) \/ CallUnlock(c, l)
              \/ CallStrayUnlock(c, l) \/ CallInit(c, l) \/ CallDeinit(c, l)
  BY <1>2, CallLockIInv, CallTrylockIInv, CallUnlockIInv, CallStrayUnlockIInv, CallInitIInv,
     CallDeinitIInv
<1>3. CASE Quiet \/ UNCHANGED vars
  BY <1>3, UnchangedIInv DEF Quiet
<1> QED
  BY <1>1, <1>2, <1>3 DEF Next

LEMMA SpecIInv == Spec => []IInv
BY InitIInv, NextIInv, PTL DEF Spec

-----------------------------------------------------------------------------
(* No lock ever has two slots: a core claims one only under its lock's     *)
(* word, when the table has none, and under reculock_mutex.                *)
THEOREM OneSlotSafe == Spec => []OneSlotPerLock
<1>1. IInv => OneSlotPerLock
  BY DEF IInv
<1> QED
  BY <1>1, SpecIInv, PTL

(* A lock that is held keeps its slot, which names the owner and counts    *)
(* its levels (locks.c:130-217), until the late stores of a close hit it.  *)
THEOREM SlotSafe == Spec => []SlotIsNesting
<1>1. IInv => SlotIsNesting
  <2> SUFFICES ASSUME IInv, NEW c \in Cores, NEW l \in Locks \ hit, Levels(c, l) > 0
               PROVE  \E i \in Slots : slot[i] = [lock |-> l, counter |-> Levels(c, l), core |-> c]
    BY DEF SlotIsNesting
  <2>1. Levels(c, l) # 0
    OBVIOUS
  <2>2. PICK i \in Slots : slot[i].lock = l
    BY <2>1 DEF IInv, SlotCounts
  <2>3. Levels(c, l) = Counts(i, c)
    BY <2>2 DEF IInv, SlotCounts
  <2>4. slot[i] \in SlotType
    BY DEF IInv, TypeOK, SlotType
  <2>5. slot[i].core = c /\ slot[i].counter = Levels(c, l)
    BY <2>1, <2>3 DEF Counts
  <2> QED
    BY <2>2, <2>4, <2>5 DEF SlotType
<1> QED
  BY <1>1, SpecIInv, PTL

(* A word or the mutex that is taken has a core that is at work under it,  *)
(* also after a core has stopped in show_error (locks.c:122-126).          *)
THEOREM NoOrphanSafe == Spec => []NoOrphanWord
<1>1. IInv => NoOrphanWord
  BY DEF IInv, WordExact, MutexExact, HasWord, HasMutex, NoOrphanWord
<1> QED
  BY <1>1, SpecIInv, PTL

(* Two cores never have levels of one lock that was not hit. *)
LEMMA LevelsExclude ==
    ASSUME IInv, NEW c \in Cores, NEW d \in Cores, NEW l \in Locks \ hit,
           Levels(c, l) # 0, Levels(d, l) # 0
    PROVE  c = d
<1>1. PICK i \in Slots : slot[i].lock = l
  BY DEF IInv, SlotCounts
<1>2. Counts(i, c) # 0 /\ Counts(i, d) # 0
  BY <1>1 DEF IInv, SlotCounts
<1> QED
  BY <1>2 DEF Counts

(* What a step does to the levels that calls have returned. *)
LEMMA ReturnRefines ==
    ASSUME IInv, NEW c \in Cores, Return(c), NEW l \in Locks \ hit
    PROVE  [Abstract(l)!Next]_(Abstract(l)!vars)
<1> DEFINE held == [d \in Cores |-> depth[d][l]]
<1>1. CASE l = on[c] /\ op[c] \in Acquirers
  <2>1. Levels(c, l) # 0
    BY <1>1 DEF Levels, Return, IInv, TypeOK
  <2>2. \A d \in Cores \ {c} : depth[d][l] = 0
    <3>1. \A d \in Cores \ {c} : Levels(d, l) = 0
      BY <2>1, LevelsExclude
    <3> QED
      BY <3>1 DEF Levels, IInv, TypeOK
  <2>3. \A d \in Cores : depth'[d][l] = IF d = c THEN depth[d][l] + 1 ELSE depth[d][l]
    BY <1>1 DEF Return, IInv, TypeOK
  <2>4. held' = [held EXCEPT ![c] = @ + 1]
    BY <2>3
  <2> QED
    BY <2>2, <2>4 DEF Abstract!Next, Abstract!Acquire
<1>2. CASE ~(l = on[c] /\ op[c] \in Acquirers)
  <2>1. \A d \in Cores : depth'[d][l] = depth[d][l]
    BY <1>2 DEF Return, IInv, TypeOK
  <2> QED
    BY <2>1 DEF Abstract!vars
<1> QED
  BY <1>1, <1>2

LEMMA DropRefines ==
    ASSUME IInv, NEW c \in Cores, Drop(c), NEW l \in Locks
    PROVE  [Abstract(l)!Next]_(Abstract(l)!vars)
<1> DEFINE held == [d \in Cores |-> depth[d][l]]
<1>1. \A d \in Cores : depth'[d][l] =
          IF d = c /\ l = on[c] /\ depth[d][l] > 0 THEN depth[d][l] - 1 ELSE depth[d][l]
  BY DEF Drop, IInv, TypeOK
<1>2. CASE l = on[c] /\ depth[c][l] > 0
  <2>1. held' = [held EXCEPT ![c] = @ - 1]
    BY <1>1, <1>2
  <2> QED
    BY <1>2, <2>1 DEF Abstract!Next, Abstract!Release
<1>3. CASE ~(l = on[c] /\ depth[c][l] > 0)
  BY <1>1, <1>3 DEF Abstract!vars
<1> QED
  BY <1>2, <1>3

(* Each lock is a recursive lock: a call's return gives a level while no   *)
(* other core has one, an unlock gives one back (RecursiveLock), until the *)
(* late stores of a close (locks.c:97-102) hit the lock's entry.           *)
THEOREM Refinement == Spec => ImplementsRecursiveLock
<1>1. Init => \A l \in Locks : Abstract(l)!Init
  BY DEF Init, Abstract!Init
<1>2. IInv /\ [Next]_vars => [\A l \in Locks \ hit : [Abstract(l)!Next]_(Abstract(l)!vars)]_vars
  <2> SUFFICES ASSUME IInv, [Next]_vars, NEW l \in Locks \ hit
               PROVE  [Abstract(l)!Next]_(Abstract(l)!vars)
    OBVIOUS
  <2>1. CASE \E c \in Cores : Return(c)
    BY <2>1, ReturnRefines
  <2>2. CASE \E c \in Cores : Drop(c)
    BY <2>2, DropRefines
  <2>3. CASE UNCHANGED depth
    BY <2>3 DEF Abstract!vars
  <2>4. (\E c \in Cores : Return(c)) \/ (\E c \in Cores : Drop(c)) \/ UNCHANGED depth
    <3>1. CASE \E c \in Cores : Step(c)
      BY <3>1 DEF Step, TakeWord, TryWord, TryWordFail, LookupHit, LookupMiss, TakeMutex,
         ScanBusy, ScanFree, Fill, LeaveMutex, Take, Refuse, StrayUnlock, ClearLock, ClearCounter,
         ClearCore, Backoff, ShowError, SeeFree
    <3>2. CASE \E c \in Cores, m \in Locks :
                  \/ CallLock(c, m) \/ CallTrylock(c, m) \/ CallUnlock(c, m)
                  \/ CallStrayUnlock(c, m) \/ CallInit(c, m) \/ CallDeinit(c, m)
      BY <3>2 DEF CallLock, CallTrylock, CallUnlock, CallStrayUnlock, CallInit, CallDeinit, Enter
    <3>3. CASE Quiet \/ UNCHANGED vars
      BY <3>3 DEF Quiet, vars
    <3> QED
      BY <3>1, <3>2, <3>3 DEF Next
  <2> QED
    BY <2>1, <2>2, <2>3, <2>4
<1> QED
  BY <1>1, <1>2, SpecIInv, PTL DEF Spec, ImplementsRecursiveLock

=============================================================================
