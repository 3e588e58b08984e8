-------------------------- MODULE Corelock_proofs --------------------------
(***************************************************************************)
(* Proofs about Corelock, for any number of harts and of calls.            *)
(***************************************************************************)
EXTENDS Corelock, TLAPS

(* Which function a core can be in at each point, and that a core about to *)
(* return with a level is the one the field core names.                    *)
OpMatches ==
    \A c \in Cores :
        /\ pc[c] \in {"spin", "try", "test", "release", "backoff"} => op[c] \in Ops
        /\ pc[c] = "wait" => op[c] = "lock"
        /\ pc[c] = "try" => op[c] # "unlock"
        /\ pc[c] = "release" /\ op[c] # "unlock" => core = c

(* The inductive invariant. *)
IInv == TypeOK /\ InnerLockExact /\ CountIsNesting /\ OpMatches

(* The initial state satisfies the inductive invariant. *)
LEMMA InitIInv == Init => IInv
<1> SUFFICES ASSUME Init PROVE IInv
  OBVIOUS
<1> USE NoCoreAssumption DEF Init
<1>1. TypeOK
  BY DEF TypeOK, Points, InsidePoints, Ops
<1>2. InnerLockExact
  BY DEF InnerLockExact, InsidePoints
<1>3. CountIsNesting
  BY DEF CountIsNesting, Levels
<1>4. OpMatches
  BY DEF OpMatches
<1> QED
  BY <1>1, <1>2, <1>3, <1>4 DEF IInv

(* A call that starts changes no lock state. *)
LEMMA CallIInv ==
    ASSUME IInv, NEW c \in Cores, NEW o \in Ops, Call(c, o)
    PROVE  IInv'
<1> USE NoCoreAssumption, MaxCallsAssumption DEF Call, Enter, Goto
<1>1. TypeOK'
  BY DEF IInv, TypeOK, Points, InsidePoints, Ops
<1>2. InnerLockExact'
  BY DEF IInv, TypeOK, InnerLockExact, Points, InsidePoints
<1>3. CountIsNesting'
  BY DEF IInv, TypeOK, CountIsNesting, InnerLockExact, OpMatches, Levels, Points, InsidePoints, Ops
<1>4. OpMatches'
  BY DEF IInv, TypeOK, OpMatches, CountIsNesting, InnerLockExact, Points, InsidePoints, Ops
<1> QED
  BY <1>1, <1>2, <1>3, <1>4 DEF IInv

(* Nor does an unlock that starts. *)
LEMMA CallUnlockIInv ==
    ASSUME IInv, NEW c \in Cores, CallUnlock(c)
    PROVE  IInv'
<1> USE NoCoreAssumption, MaxCallsAssumption DEF CallUnlock, Enter, Goto
<1>1. TypeOK'
  BY DEF IInv, TypeOK, Points, InsidePoints, Ops
<1>2. InnerLockExact'
  BY DEF IInv, TypeOK, InnerLockExact, Points, InsidePoints
<1>3. CountIsNesting'
  BY DEF IInv, TypeOK, CountIsNesting, InnerLockExact, OpMatches, Levels, Points, InsidePoints, Ops
<1>4. OpMatches'
  BY DEF IInv, TypeOK, OpMatches, CountIsNesting, InnerLockExact, Points, InsidePoints, Ops
<1> QED
  BY <1>1, <1>2, <1>3, <1>4 DEF IInv

(* The swap of spinlock_lock that finds 0. *)
LEMMA SpinAcquireIInv ==
    ASSUME IInv, NEW c \in Cores, SpinAcquire(c)
    PROVE  IInv'
<1> USE NoCoreAssumption, MaxCallsAssumption DEF SpinAcquire, Goto
<1>1. TypeOK'
  BY DEF IInv, TypeOK, Points, InsidePoints, Ops
<1>2. InnerLockExact'
  BY DEF IInv, TypeOK, InnerLockExact, Points, InsidePoints
<1>3. CountIsNesting'
  BY DEF IInv, TypeOK, CountIsNesting, InnerLockExact, OpMatches, Levels, Points, InsidePoints, Ops
<1>4. OpMatches'
  BY DEF IInv, TypeOK, OpMatches, CountIsNesting, InnerLockExact, Points, InsidePoints, Ops
<1> QED
  BY <1>1, <1>2, <1>3, <1>4 DEF IInv

(* The swap of spinlock_trylock that finds 0. *)
LEMMA TryAcquireIInv ==
    ASSUME IInv, NEW c \in Cores, TryAcquire(c)
    PROVE  IInv'
<1> USE NoCoreAssumption, MaxCallsAssumption DEF TryAcquire, Goto
<1>1. TypeOK'
  BY DEF IInv, TypeOK, Points, InsidePoints, Ops
<1>2. InnerLockExact'
  BY DEF IInv, TypeOK, InnerLockExact, Points, InsidePoints
<1>3. CountIsNesting'
  BY DEF IInv, TypeOK, CountIsNesting, InnerLockExact, OpMatches, Levels, Points, InsidePoints, Ops
<1>4. OpMatches'
  BY DEF IInv, TypeOK, OpMatches, CountIsNesting, InnerLockExact, Points, InsidePoints, Ops
<1> QED
  BY <1>1, <1>2, <1>3, <1>4 DEF IInv

(* The swap that finds -1. *)
LEMMA TryFailIInv ==
    ASSUME IInv, NEW c \in Cores, TryFail(c)
    PROVE  IInv'
<1> USE NoCoreAssumption, MaxCallsAssumption DEF TryFail, NotAcquired, Goto
<1>1. TypeOK'
  BY DEF IInv, TypeOK, Points, InsidePoints, Ops
<1>2. InnerLockExact'
  BY DEF IInv, TypeOK, InnerLockExact, Points, InsidePoints
<1>3. CountIsNesting'
  BY DEF IInv, TypeOK, CountIsNesting, InnerLockExact, OpMatches, Levels, Points, InsidePoints, Ops
<1>4. OpMatches'
  BY DEF IInv, TypeOK, OpMatches, CountIsNesting, InnerLockExact, Points, InsidePoints, Ops
<1> QED
  BY <1>1, <1>2, <1>3, <1>4 DEF IInv

(* A core is given a level. *)
LEMMA TakeIInv ==
    ASSUME IInv, NEW c \in Cores, Take(c)
    PROVE  IInv'
<1> USE NoCoreAssumption, MaxCallsAssumption DEF Take, Goto
<1>1. TypeOK'
  BY DEF IInv, TypeOK, Points, InsidePoints, Ops
<1>2. InnerLockExact'
  BY DEF IInv, TypeOK, InnerLockExact, Points, InsidePoints
<1>3. CountIsNesting'
  BY DEF IInv, TypeOK, CountIsNesting, InnerLockExact, OpMatches, Levels, Points, InsidePoints, Ops
<1>4. OpMatches'
  BY DEF IInv, TypeOK, OpMatches, CountIsNesting, InnerLockExact, Points, InsidePoints, Ops
<1> QED
  BY <1>1, <1>2, <1>3, <1>4 DEF IInv

(* A core is refused. *)
LEMMA RefuseIInv ==
    ASSUME IInv, NEW c \in Cores, Refuse(c)
    PROVE  IInv'
<1> USE NoCoreAssumption, MaxCallsAssumption DEF Refuse, Goto
<1>1. TypeOK'
  BY DEF IInv, TypeOK, Points, InsidePoints, Ops
<1>2. InnerLockExact'
  BY DEF IInv, TypeOK, InnerLockExact, Points, InsidePoints
<1>3. CountIsNesting'
  BY DEF IInv, TypeOK, CountIsNesting, InnerLockExact, OpMatches, Levels, Points, InsidePoints, Ops
<1>4. OpMatches'
  BY DEF IInv, TypeOK, OpMatches, CountIsNesting, InnerLockExact, Points, InsidePoints, Ops
<1> QED
  BY <1>1, <1>2, <1>3, <1>4 DEF IInv

(* The owner gives a level back. *)
LEMMA DropIInv ==
    ASSUME IInv, NEW c \in Cores, Drop(c)
    PROVE  IInv'
<1> USE NoCoreAssumption, MaxCallsAssumption DEF Drop, Goto
<1>1. TypeOK'
  BY DEF IInv, TypeOK, Points, InsidePoints, Ops
<1>2. InnerLockExact'
  BY DEF IInv, TypeOK, InnerLockExact, Points, InsidePoints
<1>3. CountIsNesting'
  BY DEF IInv, TypeOK, CountIsNesting, InnerLockExact, OpMatches, Levels, Points, InsidePoints, Ops
<1>4. OpMatches'
  BY DEF IInv, TypeOK, OpMatches, CountIsNesting, InnerLockExact, Points, InsidePoints, Ops
<1> QED
  BY <1>1, <1>2, <1>3, <1>4 DEF IInv

(* A core that is not the owner unlocks. *)
LEMMA StrayUnlockIInv ==
    ASSUME IInv, NEW c \in Cores, StrayUnlock(c)
    PROVE  IInv'
<1> USE NoCoreAssumption, MaxCallsAssumption DEF StrayUnlock, Goto
<1>1. TypeOK'
  BY DEF IInv, TypeOK, Points, InsidePoints, Ops
<1>2. InnerLockExact'
  BY DEF IInv, TypeOK, InnerLockExact, Points, InsidePoints
<1>3. CountIsNesting'
  BY DEF IInv, TypeOK, CountIsNesting, InnerLockExact, OpMatches, Levels, Points, InsidePoints, Ops
<1>4. OpMatches'
  BY DEF IInv, TypeOK, OpMatches, CountIsNesting, InnerLockExact, Points, InsidePoints, Ops
<1> QED
  BY <1>1, <1>2, <1>3, <1>4 DEF IInv

(* A call returns. *)
LEMMA ReturnIInv ==
    ASSUME IInv, NEW c \in Cores, Return(c)
    PROVE  IInv'
<1> USE NoCoreAssumption, MaxCallsAssumption DEF Return, Goto
<1>1. TypeOK'
  <2>1. depth' \in [Cores -> Nat]
    <3>1. CASE op[c] = "unlock"
      BY <3>1 DEF IInv, TypeOK
    <3>2. CASE op[c] # "unlock"
      BY <3>2 DEF IInv, TypeOK
    <3> QED
      BY <3>1, <3>2
  <2> QED
    BY <2>1 DEF IInv, TypeOK, Points, InsidePoints, Ops
<1>2. InnerLockExact'
  BY DEF IInv, TypeOK, InnerLockExact, Points, InsidePoints
<1>3. CountIsNesting'
  BY DEF IInv, TypeOK, CountIsNesting, InnerLockExact, OpMatches, Levels, Points, InsidePoints, Ops
<1>4. OpMatches'
  BY DEF IInv, TypeOK, OpMatches, CountIsNesting, InnerLockExact, Points, InsidePoints, Ops
<1> QED
  BY <1>1, <1>2, <1>3, <1>4 DEF IInv

(* A refused core leaves the inner lock. *)
LEMMA BackoffIInv ==
    ASSUME IInv, NEW c \in Cores, Backoff(c)
    PROVE  IInv'
<1> USE NoCoreAssumption, MaxCallsAssumption DEF Backoff, NotAcquired, Goto
<1>1. TypeOK'
  BY DEF IInv, TypeOK, Points, InsidePoints, Ops
<1>2. InnerLockExact'
  BY DEF IInv, TypeOK, InnerLockExact, Points, InsidePoints
<1>3. CountIsNesting'
  BY DEF IInv, TypeOK, CountIsNesting, InnerLockExact, OpMatches, Levels, Points, InsidePoints, Ops
<1>4. OpMatches'
  BY DEF IInv, TypeOK, OpMatches, CountIsNesting, InnerLockExact, Points, InsidePoints, Ops
<1> QED
  BY <1>1, <1>2, <1>3, <1>4 DEF IInv

(* A waiting core reads count. *)
LEMMA SeeFreeIInv ==
    ASSUME IInv, NEW c \in Cores, SeeFree(c)
    PROVE  IInv'
<1> USE NoCoreAssumption, MaxCallsAssumption DEF SeeFree, Goto
<1>1. TypeOK'
  BY DEF IInv, TypeOK, Points, InsidePoints, Ops
<1>2. InnerLockExact'
  BY DEF IInv, TypeOK, InnerLockExact, Points, InsidePoints
<1>3. CountIsNesting'
  BY DEF IInv, TypeOK, CountIsNesting, InnerLockExact, OpMatches, Levels, Points, InsidePoints, Ops
<1>4. OpMatches'
  BY DEF IInv, TypeOK, OpMatches, CountIsNesting, InnerLockExact, Points, InsidePoints, Ops
<1> QED
  BY <1>1, <1>2, <1>3, <1>4 DEF IInv

(* Every step of a client or of the lock's code preserves the invariant. *)
LEMMA NextIInv == IInv /\ [Next]_vars => IInv'
<1> SUFFICES ASSUME IInv, [Next]_vars PROVE IInv'
  OBVIOUS
<1>1. CASE UNCHANGED vars
  BY <1>1 DEF vars, IInv, TypeOK, InnerLockExact, CountIsNesting, Levels, OpMatches
<1>2. ASSUME NEW c \in Cores, NEW o \in Ops, Call(c, o) PROVE IInv'
  BY <1>2, CallIInv
<1>3. ASSUME NEW c \in Cores, CallUnlock(c) PROVE IInv'
  BY <1>3, CallUnlockIInv
<1>4. ASSUME NEW c \in Cores, Step(c) PROVE IInv'
  BY <1>4, SpinAcquireIInv, TryAcquireIInv, TryFailIInv, TakeIInv, RefuseIInv, DropIInv,
     StrayUnlockIInv, ReturnIInv, BackoffIInv, SeeFreeIInv DEF Step
<1> QED
  BY <1>1, <1>2, <1>3, <1>4 DEF Next, Quiet

(* The inductive invariant holds in every behaviour. *)
LEMMA SpecIInv == Spec => []IInv
BY InitIInv, NextIInv, PTL DEF Spec

(* Type correctness of the lock's state. *)
THEOREM TypeCorrect == Spec => []TypeOK
<1>1. IInv => TypeOK
  BY DEF IInv
<1> QED
  BY SpecIInv, <1>1, PTL

(* The inner spinlock word is set exactly while one hart is inside. *)
THEOREM InnerLockSafe == Spec => []InnerLockExact
<1>1. IInv => InnerLockExact
  BY DEF IInv
<1> QED
  BY SpecIInv, <1>1, PTL

(* count and core say who has the lock, at every instant. *)
THEOREM CountSafe == Spec => []CountIsNesting
<1>1. IInv => CountIsNesting
  BY DEF IInv
<1> QED
  BY SpecIInv, <1>1, PTL

(* At most one hart has levels of the lock: the owner is the one core      *)
(* names, because a hart that core does not name has no level.             *)
THEOREM MutexSafe == Spec => []MutualExclusion
<1>1. IInv => MutualExclusion
  <2> SUFFICES ASSUME IInv, NEW c \in Cores, NEW d \in Cores, depth[c] > 0, depth[d] > 0
               PROVE  c = d
    BY DEF MutualExclusion
  <2>1. \A e \in Cores : depth[e] > 0 => Levels(e) # 0
    BY DEF IInv, TypeOK, Levels
  <2> QED
    BY <2>1 DEF IInv, CountIsNesting
<1> QED
  BY SpecIInv, <1>1, PTL

-----------------------------------------------------------------------------
(* Refinement: every step is a step of RecursiveLock or leaves depth alone. *)

(* Only Return adds a level, and then no other core has one. *)
LEMMA ReturnRefines ==
    ASSUME IInv, NEW c \in Cores, Return(c)
    PROVE  [Abstract!Next]_depth
<1>1. CASE op[c] = "unlock"
  BY <1>1 DEF Return, IInv, TypeOK
<1>2. CASE op[c] # "unlock"
  <2>1. \A d \in Cores \ {c} : Levels(d) = 0
    BY <1>2 DEF Return, IInv, OpMatches, CountIsNesting
  <2>2. \A d \in Cores \ {c} : depth[d] = 0
    BY <2>1 DEF Levels, IInv, TypeOK
  <2>3. Abstract!Acquire(c)
    BY <1>2, <2>2 DEF Return, Abstract!Acquire
  <2> QED
    BY <2>3 DEF Abstract!Next
<1> QED
  BY <1>1, <1>2

(* Only Drop takes one, from a core that has one. *)
LEMMA DropRefines ==
    ASSUME IInv, NEW c \in Cores, Drop(c)
    PROVE  [Abstract!Next]_depth
<1>1. Levels(c) = count /\ count > 0
  BY DEF Drop, IInv, CountIsNesting
<1>2. depth[c] > 0
  BY <1>1 DEF Drop, Levels, IInv, TypeOK
<1>3. Abstract!Release(c)
  BY <1>2 DEF Drop, Abstract!Release
<1> QED
  BY <1>3 DEF Abstract!Next

(* corelock_t implements the recursive lock its clients rely on. *)
THEOREM Refinement == Spec => ImplementsRecursiveLock
<1>1. Init => Abstract!Init
  BY DEF Init, Abstract!Init
<1>2. IInv /\ [Next]_vars => [Abstract!Next]_(Abstract!vars)
  <2> SUFFICES ASSUME IInv, [Next]_vars PROVE [Abstract!Next]_depth
    BY DEF Abstract!vars
  <2>1. ASSUME NEW c \in Cores, Return(c) PROVE [Abstract!Next]_depth
    BY <2>1, ReturnRefines
  <2>2. ASSUME NEW c \in Cores, Drop(c) PROVE [Abstract!Next]_depth
    BY <2>2, DropRefines
  <2>3. ASSUME NEW c \in Cores, Step(c), ~Return(c), ~Drop(c) PROVE UNCHANGED depth
    BY <2>3 DEF Step, SpinAcquire, TryAcquire, TryFail, Take, Refuse, StrayUnlock,
                Backoff, SeeFree
  <2>4. ASSUME NEW c \in Cores, CallUnlock(c) \/ \E o \in Ops : Call(c, o)
        PROVE  UNCHANGED depth
    BY <2>4 DEF CallUnlock, Call, Enter
  <2> QED
    BY <2>1, <2>2, <2>3, <2>4 DEF Next, Quiet, vars
<1> QED
  BY <1>1, <1>2, SpecIInv, PTL DEF Spec, Abstract!Spec, ImplementsRecursiveLock

=============================================================================
