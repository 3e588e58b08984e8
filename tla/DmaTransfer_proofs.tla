------------------------ MODULE DmaTransfer_proofs ------------------------
(***************************************************************************)
(* Proofs about DmaTransfer, for any number of harts and transfers.        *)
(*                                                                         *)
(* While the spinlock is taken either one context is at work under it, and *)
(* the point it is at says what it has set up or given back, or none is:   *)
(* the transfer is in flight, and only the interrupt of the core that has  *)
(* registered the callback ends it (IInv).  That takes nothing of the      *)
(* clients.                                                                *)
(*                                                                         *)
(* A second invariant, JInv, says whose transfer that is and how far its   *)
(* data has come.  It holds for clients as the run has them: cores take    *)
(* turns with callbacks, and do not share an SPI unit one of them waits    *)
(* for.                                                                    *)
(***************************************************************************)
EXTENDS DmaTransfer, TLAPS

(* x works under the spinlock.  A call with a callback leaves it behind    *)
(* when the channel starts; a waiting SPI caller unlocks before "off".     *)
HoldsAt(p, m) ==
    \/ p \in {"fill", "register", "clear", "buffers", "start", "wait",
              "iclear", "copy", "free", "unregister", "drain", "unlock"}
    \/ p = "select" /\ m = "sync"
    \/ p = "off" /\ m = "irq"
Holds(x) == HoldsAt(pc[x], cur[x].mode)

(* What is at work where. *)
ModeFits(p, m) ==
    /\ p \in {"lock", "fill", "register", "clear", "buffers", "start", "select"} => m \in Modes
    /\ p = "register" => m = "async"
    /\ p \in {"wait", "return"} => m = "sync"
    /\ p \in {"iclear", "unregister", "notify"} => m = "irq"
    /\ p \in {"copy", "free", "drain", "unlock", "off"} => m \in {"sync", "irq"}
InPlace(x) == cur[x].mode = "irq" \/ pc[x] \in {"client", "complete"} => Isr(x)
ModesFit == \A x \in Contexts : ModeFits(pc[x], cur[x].mode) /\ InPlace(x)

LockExact ==
    /\ \A x \in Contexts : Holds(x) => lock = -1
    /\ \A x, y \in Contexts : Holds(x) /\ Holds(y) => x = y

(* The handler's part of the channel: a callback of core c, or none. *)
Armed(c) == intEn /\ hasCb /\ registered = {c}
Unarmed == ~intEn /\ ~hasCb /\ registered = {}

(* The bounce buffer: the transfer's, and the channel's. *)
Owned == allocated = {bounce} /\ prog = bounce
Quiet == ~chen /\ Unarmed /\ allocated = {}

(* What x has set up or given back when it is at p, in a call or handler   *)
(* of mode m.                                                              *)
Phase(x, p, m) ==
    /\ p \in {"fill", "register", "drain", "off", "unlock"} => Quiet
    /\ p \in {"clear", "buffers", "start"} =>
          /\ ~chen
          /\ IF m = "async" THEN Armed(Core(x)) /\ ~intStat ELSE Unarmed
          /\ IF p = "start" THEN Owned ELSE allocated = {}
    /\ p \in {"select", "wait"} => Unarmed /\ Owned
    /\ p \in {"iclear", "copy", "free", "unregister"} =>
          /\ ~chen
          /\ IF m = "irq" THEN Armed(Core(x)) /\ (p = "iclear" \/ ~intStat) ELSE Unarmed
          /\ IF p = "unregister" THEN allocated = {} ELSE Owned

Phases == \A x \in Contexts : Holds(x) => Phase(x, pc[x], cur[x].mode)

(* Nobody is at work. *)
Flight == Owned /\ (\E c \in Cores : Armed(c)) /\ (chen => ~intStat)
Alone == \A x \in Contexts : ~Holds(x)
Left == Alone => IF lock = 0 THEN Quiet ELSE Flight

(* One core serves at a time, and a forwarded interrupt is that of a       *)
(* transfer in flight whose channel is done.                               *)
Served ==
    /\ \A x \in Contexts : Isr(x) /\ pc[x] # "idle" => inService
    /\ \A x, y \in Contexts : Isr(x) /\ pc[x] # "idle" /\ Isr(y) /\ pc[y] # "idle" => x = y
    /\ pend => ~inService /\ lock = -1 /\ Alone /\ ~chen

Types ==
    /\ lock \in {0, -1}
    /\ pc \in [Contexts -> InCall \cup InHandler \cup {"idle"}]
    /\ cur = [x \in Contexts |-> cur[x]]

(* The inductive invariant. *)
IInv == Types /\ ModesFit /\ LockExact /\ Phases /\ Left /\ Served

-----------------------------------------------------------------------------
(* Where a step leads. *)

LEMMA StepAt ==
    ASSUME NEW x \in Contexts
    PROVE  /\ pc[x] = "lock" => Step(x) = "fill"
           /\ pc[x] = "fill" => Step(x) = IF cur[x].mode = "async" THEN "register" ELSE "clear"
           /\ pc[x] = "register" => Step(x) = "clear"
           /\ pc[x] = "clear" => Step(x) = "buffers"
           /\ pc[x] = "buffers" => Step(x) = "start"
           /\ pc[x] = "start" => Step(x) = IF Spi THEN "select" ELSE AfterStart(x)
           /\ pc[x] = "select" => Step(x) = AfterStart(x)
BY DEF Step

LEMMA AfterAt ==
    ASSUME NEW x \in Contexts
    PROVE  /\ cur[x].mode = "irq" =>
                 /\ pc[x] = "iclear" => After(x) = "copy"
                 /\ pc[x] = "copy" => After(x) = "free"
                 /\ pc[x] = "free" => After(x) = "unregister"
                 /\ pc[x] = "unregister" => After(x) = "drain"
                 /\ pc[x] = "drain" => After(x) = IF Spi THEN "off" ELSE "unlock"
                 /\ pc[x] = "off" => After(x) = "unlock"
                 /\ pc[x] = "unlock" => After(x) = "notify"
           /\ cur[x].mode # "irq" =>
                 /\ pc[x] = "wait" => After(x) = "copy"
                 /\ pc[x] = "copy" => After(x) = "free"
                 /\ pc[x] = "free" => After(x) = "drain"
                 /\ pc[x] = "drain" => After(x) = "unlock"
                 /\ pc[x] = "unlock" => After(x) = IF Spi THEN "off" ELSE "return"
                 /\ pc[x] = "off" => After(x) = "return"
<1>1. CASE cur[x].mode = "irq"
  BY <1>1 DEF After, HandlerStep
<1>2. CASE cur[x].mode # "irq"
  BY <1>2 DEF After, SyncStep
<1> QED
  BY <1>1, <1>2

-----------------------------------------------------------------------------
(* Steps that move one context. *)

Only(x) == \A y \in Contexts \ {x} : pc'[y] = pc[y] /\ cur'[y] = cur[y]

(* The resources a phase is about. *)
resources == <<chen, prog, intStat, intEn, bounce, hasCb, registered, allocated>>

LEMMA GotoOnly ==
    ASSUME Types, NEW x \in Contexts, UNCHANGED cur,
           NEW p \in InCall \cup InHandler \cup {"idle"}, Goto(x, p)
    PROVE  /\ pc'[x] = p /\ Only(x)
           /\ pc' \in [Contexts -> InCall \cup InHandler \cup {"idle"}]
BY DEF Types, Goto, Only

LEMMA ModesStep ==
    ASSUME ModesFit, NEW x \in Contexts, Only(x), ModeFits(pc'[x], cur'[x].mode),
           InPlace(x)'
    PROVE  ModesFit'
<1> SUFFICES ASSUME NEW y \in Contexts
             PROVE  ModeFits(pc'[y], cur'[y].mode) /\ InPlace(y)'
  BY DEF ModesFit, ModeFits
<1>1. CASE y = x
  BY <1>1
<1>2. CASE y # x
  BY <1>2 DEF ModesFit, Only, InPlace
<1> QED
  BY <1>1, <1>2

LEMMA OthersHold ==
    ASSUME NEW x \in Contexts, Only(x), NEW y \in Contexts, y # x
    PROVE  Holds(y)' <=> Holds(y)
BY DEF Only, Holds

(* x goes on under the spinlock. *)
LEMMA InsideIInv ==
    ASSUME IInv, Types', NEW x \in Contexts, Only(x), UNCHANGED <<lock, pend, inService>>,
           cur'[x] = cur[x], Holds(x), Holds(x)', ModeFits(pc'[x], cur'[x].mode),
           pc'[x] # "idle", Phase(x, pc[x], cur[x].mode)'
    PROVE  IInv'
<1>1. ModesFit'
  BY ModesStep DEF IInv, ModesFit, InPlace, Holds, HoldsAt
<1>2. \A y \in Contexts : Holds(y)' <=> y = x
  BY OthersHold DEF IInv, LockExact
<1>3. LockExact' /\ Phases'
  BY <1>2 DEF IInv, LockExact, Phases
<1>4. Left'
  BY <1>2 DEF Left, Alone
<1>5. Served'
  <2>1. pc[x] # "idle"
    BY DEF Holds, HoldsAt
  <2>2. ~pend
    BY DEF IInv, Served, Alone
  <2> QED
    BY <2>1, <2>2 DEF IInv, Served, Only
<1> QED
  BY <1>1, <1>3, <1>4, <1>5 DEF IInv

(* x comes to hold the spinlock. *)
LEMMA LockIInv ==
    ASSUME IInv, NEW x \in Contexts, Lock(x)
    PROVE  IInv'
<1>1. /\ pc[x] = "lock" /\ pc'[x] = "fill" /\ Only(x) /\ cur' = cur /\ lock = 0 /\ lock' = -1
      /\ UNCHANGED <<resources, pend, inService>>
      /\ Types'
  BY StepAt, GotoOnly DEF IInv, Types, Lock, At, InCall, Goto, channelVars, contextVars, plicVars,
     dataVars, resources
<1>2. \A y \in Contexts : ~Holds(y)
  BY <1>1 DEF IInv, LockExact
<1>3. \A y \in Contexts : Holds(y)' <=> y = x
  BY <1>1, <1>2, OthersHold DEF Holds, HoldsAt
<1>4. ModesFit'
  BY <1>1, ModesStep DEF IInv, ModesFit, ModeFits, InPlace
<1>5. Phase(x, pc[x], cur[x].mode)'
  BY <1>1, <1>2 DEF IInv, Left, Alone, Phase, Quiet, Unarmed, resources
<1>6. LockExact' /\ Phases'
  BY <1>1, <1>3, <1>5 DEF LockExact, Phases
<1>7. Left'
  BY <1>3 DEF Left, Alone
<1>8. Served'
  BY <1>1 DEF IInv, Served, Only
<1> QED
  BY <1>1, <1>4, <1>6, <1>7, <1>8 DEF IInv

(* x ends its work under the spinlock: it unlocks when all is given back,  *)
(* or leaves the transfer in flight.                                       *)
LEMMA LeaveIInv ==
    ASSUME IInv, Types', NEW x \in Contexts, Only(x), UNCHANGED <<pend, inService>>,
           cur'[x] = cur[x], Holds(x), ~Holds(x)', ModeFits(pc'[x], cur'[x].mode),
           pc'[x] # "idle" \/ ~Isr(x), InPlace(x)',
           IF lock' = 0 THEN Quiet' ELSE Flight'
    PROVE  IInv'
<1>1. ModesFit'
  BY ModesStep DEF IInv, ModesFit
<1>2. \A y \in Contexts : ~Holds(y)'
  BY OthersHold DEF IInv, LockExact
<1>3. LockExact' /\ Phases' /\ Left'
  BY <1>2 DEF LockExact, Phases, Left
<1>4. Served'
  <2>1. pc[x] # "idle"
    BY DEF Holds, HoldsAt
  <2>2. ~pend
    BY DEF IInv, Served, Alone
  <2> QED
    BY <2>1, <2>2 DEF IInv, Served, Only
<1> QED
  BY <1>1, <1>3, <1>4 DEF IInv

(* x moves outside, and touches none of the resources. *)
LEMMA OutsideIInv ==
    ASSUME IInv, Types', NEW x \in Contexts, Only(x), UNCHANGED <<lock, resources>>,
           ~Holds(x), ~Holds(x)', ModeFits(pc'[x], cur'[x].mode),
           InPlace(x)',
           Served'
    PROVE  IInv'
<1>1. ModesFit'
  BY ModesStep DEF IInv
<1>2. \A y \in Contexts : Holds(y)' <=> Holds(y)
  BY OthersHold
<1>3. LockExact'
  BY <1>2 DEF IInv, LockExact
<1>4. Phases'
  <2> SUFFICES ASSUME NEW y \in Contexts, Holds(y)' PROVE Phase(y, pc[y], cur[y].mode)'
    BY DEF Phases
  <2>1. Holds(y) /\ pc'[y] = pc[y] /\ cur'[y] = cur[y]
    BY <1>2 DEF Only
  <2>2. Phase(y, pc[y], cur[y].mode)
    BY <2>1 DEF IInv, Phases
  <2> QED
    BY <2>1, <2>2 DEF Phase, Quiet, Owned, Armed, Unarmed, resources
<1>5. Left'
  BY <1>2 DEF IInv, Left, Alone, Flight, Quiet, Owned, Armed, Unarmed, resources
<1> QED
  BY <1>1, <1>3, <1>4, <1>5 DEF IInv

(* The handlers of no core begin or end. *)
LEMMA ServedKept ==
    ASSUME IInv, NEW x \in Contexts, Only(x), UNCHANGED <<lock, pend, inService, chen>>,
           ~Holds(x), ~Holds(x)', Isr(x) => pc[x] # "idle"
    PROVE  Served'
<1>1. \A y \in Contexts : Holds(y)' <=> Holds(y)
  BY OthersHold
<1> QED
  BY <1>1 DEF IInv, Served, Only, Alone

-----------------------------------------------------------------------------
(* Beginning a transfer. *)

(* The client's callback goes into the instance. *)
LEMMA FillIInv ==
    ASSUME IInv, NEW x \in Contexts, Fill(x)
    PROVE  IInv'
<1>1. pc[x] = "fill" /\ cur[x].mode \in Modes /\ UNCHANGED <<lock, cur, pend, inService, resources>>
  BY DEF Fill, At, IInv, ModesFit, ModeFits, channelVars, contextVars, plicVars, dataVars, resources
<1>2. /\ pc'[x] = IF cur[x].mode = "async" THEN "register" ELSE "clear"
      /\ Only(x) /\ Types'
  BY <1>1, StepAt, GotoOnly DEF Fill, IInv, Types, InCall
<1>3. Holds(x) /\ Holds(x)'
  BY <1>1, <1>2 DEF Holds, HoldsAt
<1>4. Quiet /\ Quiet'
  BY <1>1, <1>3 DEF IInv, Phases, Phase, Quiet, Unarmed, resources
<1>5. Phase(x, pc[x], cur[x].mode)'
  BY <1>1, <1>2, <1>4 DEF Phase, Quiet, Unarmed, Modes
<1>6. ModeFits(pc'[x], cur'[x].mode) /\ pc'[x] # "idle"
  BY <1>1, <1>2 DEF ModeFits
<1> QED
  BY <1>1, <1>2, <1>3, <1>5, <1>6, InsideIInv

(* The handler is registered before the channel starts. *)
LEMMA RegisterIInv ==
    ASSUME IInv, NEW x \in Contexts, Register(x)
    PROVE  IInv'
<1>1. /\ pc[x] = "register" /\ cur[x].mode = "async"
      /\ UNCHANGED <<lock, cur, pend, inService, chen, allocated>>
      /\ hasCb' = TRUE /\ intStat' = FALSE /\ intEn' = TRUE
      /\ registered' = registered \cup {Core(x)}
  BY DEF Register, At, IInv, ModesFit, ModeFits, dataVars
<1>2. pc'[x] = "clear" /\ Only(x) /\ Types'
  BY <1>1, StepAt, GotoOnly DEF Register, IInv, Types, InCall
<1>3. Holds(x) /\ Holds(x)'
  BY <1>1, <1>2 DEF Holds, HoldsAt
<1>4. Quiet
  BY <1>1, <1>3 DEF IInv, Phases, Phase
<1>5. Phase(x, pc[x], cur[x].mode)'
  BY <1>1, <1>2, <1>4 DEF Phase, Quiet, Unarmed, Armed
<1>6. ModeFits(pc'[x], cur'[x].mode) /\ pc'[x] # "idle"
  BY <1>1, <1>2 DEF ModeFits, Modes
<1> QED
  BY <1>1, <1>2, <1>3, <1>5, <1>6, InsideIInv

(* The channel is cleared, ... *)
LEMMA ClearIInv ==
    ASSUME IInv, NEW x \in Contexts, Clear(x)
    PROVE  IInv'
<1>1. /\ pc[x] = "clear" /\ cur[x].mode \in Modes
      /\ UNCHANGED <<lock, cur, pend, inService, intEn, hasCb, registered, allocated>>
      /\ chen' = FALSE /\ intStat' = FALSE
  BY DEF Clear, At, IInv, ModesFit, ModeFits, contextVars, plicVars, dataVars
<1>2. pc'[x] = "buffers" /\ Only(x) /\ Types'
  BY <1>1, StepAt, GotoOnly DEF Clear, IInv, Types, InCall
<1>3. Holds(x) /\ Holds(x)'
  BY <1>1, <1>2 DEF Holds, HoldsAt
<1>4. Phase(x, "clear", cur[x].mode)
  BY <1>1, <1>3 DEF IInv, Phases
<1>5. Phase(x, pc[x], cur[x].mode)'
  BY <1>1, <1>2, <1>4 DEF Phase, Unarmed, Armed
<1>6. ModeFits(pc'[x], cur'[x].mode) /\ pc'[x] # "idle"
  BY <1>1, <1>2 DEF ModeFits
<1> QED
  BY <1>1, <1>2, <1>3, <1>5, <1>6, InsideIInv

(* ... and gets a bounce buffer. *)
LEMMA BuffersIInv ==
    ASSUME IInv, NEW x \in Contexts, Buffers(x)
    PROVE  IInv'
<1>1. /\ pc[x] = "buffers" /\ cur[x].mode \in Modes
      /\ UNCHANGED <<lock, cur, pend, inService, chen, intStat, intEn, hasCb, registered>>
      /\ allocated' = allocated \cup {cur[x].id} /\ bounce' = cur[x].id /\ prog' = cur[x].id
  BY DEF Buffers, At, IInv, ModesFit, ModeFits, plicVars
<1>2. pc'[x] = "start" /\ Only(x) /\ Types'
  BY <1>1, StepAt, GotoOnly DEF Buffers, IInv, Types, InCall
<1>3. Holds(x) /\ Holds(x)'
  BY <1>1, <1>2 DEF Holds, HoldsAt
<1>4. Phase(x, "buffers", cur[x].mode)
  BY <1>1, <1>3 DEF IInv, Phases
<1>5. Phase(x, pc[x], cur[x].mode)'
  BY <1>1, <1>2, <1>4 DEF Phase, Unarmed, Armed, Owned
<1>6. ModeFits(pc'[x], cur'[x].mode) /\ pc'[x] # "idle"
  BY <1>1, <1>2 DEF ModeFits
<1> QED
  BY <1>1, <1>2, <1>3, <1>5, <1>6, InsideIInv

(* The channel starts: a caller that does not wait leaves the spinlock to  *)
(* the handler.                                                            *)
LEMMA StartIInv ==
    ASSUME IInv, NEW x \in Contexts, Start(x)
    PROVE  IInv'
<1>1. /\ pc[x] = "start" /\ cur[x].mode \in Modes
      /\ UNCHANGED <<lock, cur, pend, inService, prog, intStat, intEn, bounce, hasCb, registered,
                     allocated>>
  BY DEF Start, At, IInv, ModesFit, ModeFits, contextVars, plicVars, dataVars
<1>2. AfterStart(x) = IF cur[x].mode = "sync" THEN "wait" ELSE IF Isr(x) THEN "complete" ELSE "idle"
  BY DEF AfterStart
<1>3. pc'[x] = (IF Spi THEN "select" ELSE AfterStart(x)) /\ Only(x) /\ Types'
  BY <1>1, <1>2, StepAt, GotoOnly DEF Start, IInv, Types, InCall, InHandler
<1>4. Holds(x) /\ Core(x) \in Cores
  BY <1>1 DEF Holds, HoldsAt, Contexts, Core
<1>5. Phase(x, "start", cur[x].mode) /\ lock = -1
  BY <1>1, <1>4 DEF IInv, Phases, LockExact
<1>6. ModeFits(pc'[x], cur'[x].mode)
  BY <1>1, <1>2, <1>3 DEF ModeFits, Modes
<1>7. CASE cur[x].mode = "sync"
  <2>1. pc'[x] \in {"select", "wait"}
    BY <1>2, <1>3, <1>7
  <2>2. Holds(x)'
    BY <1>1, <1>7, <2>1 DEF Holds, HoldsAt
  <2>3. Phase(x, pc[x], cur[x].mode)'
    BY <1>1, <1>5, <1>7, <2>1 DEF Phase, Unarmed, Owned
  <2> QED
    BY <1>1, <1>3, <1>4, <1>6, <2>1, <2>2, <2>3, InsideIInv
<1>8. CASE cur[x].mode # "sync"
  <2>1. cur[x].mode = "async"
    BY <1>1, <1>8 DEF Modes
  <2>2. pc'[x] \in {"select", "complete", "idle"} /\ (pc'[x] # "idle" \/ ~Isr(x))
    BY <1>2, <1>3, <2>1
  <2>3. ~Holds(x)'
    BY <1>1, <2>1, <2>2 DEF Holds, HoldsAt
  <2>4. Flight'
    BY <1>1, <1>4, <1>5, <2>1 DEF Flight, Phase, Armed, Owned
  <2>5. InPlace(x)'
    BY <1>1, <1>2, <1>3, <2>1 DEF InPlace, IInv, ModesFit
  <2> QED
    BY <1>1, <1>3, <1>4, <1>5, <1>6, <2>2, <2>3, <2>4, <2>5, LeaveIInv
<1> QED
  BY <1>7, <1>8

(* SPI selects its slave. *)
LEMMA SelectIInv ==
    ASSUME IInv, NEW x \in Contexts, Select(x)
    PROVE  IInv'
<1>1. /\ pc[x] = "select" /\ cur[x].mode \in Modes /\ UNCHANGED <<lock, cur, pend, inService, resources>>
  BY DEF Select, At, IInv, ModesFit, ModeFits, channelVars, contextVars, plicVars, dataVars, resources
<1>2. AfterStart(x) = IF cur[x].mode = "sync" THEN "wait" ELSE IF Isr(x) THEN "complete" ELSE "idle"
  BY DEF AfterStart
<1>3. pc'[x] = AfterStart(x) /\ Only(x) /\ Types'
  BY <1>1, <1>2, StepAt, GotoOnly DEF Select, IInv, Types, InCall, InHandler
<1>4. ModeFits(pc'[x], cur'[x].mode)
  BY <1>1, <1>2, <1>3 DEF ModeFits, Modes
<1>5. CASE cur[x].mode = "sync"
  <2>1. pc'[x] = "wait" /\ Holds(x) /\ Holds(x)'
    BY <1>1, <1>2, <1>3, <1>5 DEF Holds, HoldsAt
  <2>2. Phase(x, "select", "sync")
    BY <1>1, <1>5, <2>1 DEF IInv, Phases
  <2>3. Phase(x, pc[x], cur[x].mode)'
    BY <1>1, <1>5, <2>1, <2>2 DEF Phase, Unarmed, Owned, resources
  <2> QED
    BY <1>1, <1>3, <1>4, <2>1, <2>3, InsideIInv
<1>6. CASE cur[x].mode # "sync"
  <2>1. pc'[x] \in {"complete", "idle"}
    BY <1>2, <1>3, <1>6
  <2>2. ~Holds(x) /\ ~Holds(x)'
    BY <1>1, <1>6, <2>1 DEF Holds, HoldsAt
  <2>3. chen' = chen
    BY <1>1 DEF resources
  <2>4. Served'
    BY <1>1, <1>3, <2>2, <2>3, ServedKept
  <2>5. InPlace(x)'
    BY <1>1, <1>2, <1>3, <1>6 DEF InPlace, IInv, ModesFit
  <2> QED
    BY <1>1, <1>3, <1>4, <2>2, <2>4, <2>5, OutsideIInv
<1> QED
  BY <1>5, <1>6

-----------------------------------------------------------------------------
(* Ending it, in the waiting caller or in the handler. *)

(* A waiting caller goes on when the channel is done. *)
LEMMA WaitIInv ==
    ASSUME IInv, NEW x \in Contexts, Wait(x)
    PROVE  IInv'
<1>1. /\ pc[x] = "wait" /\ cur[x].mode = "sync" /\ ~chen
      /\ UNCHANGED <<lock, cur, pend, inService, chen, prog, intEn, bounce, hasCb, registered, allocated>>
  BY DEF Wait, At, IInv, ModesFit, ModeFits, contextVars, plicVars, dataVars
<1>2. pc'[x] = "copy" /\ Only(x) /\ Types'
  BY <1>1, AfterAt, GotoOnly DEF Wait, IInv, Types, InCall
<1>3. Holds(x) /\ Holds(x)'
  BY <1>1, <1>2 DEF Holds, HoldsAt
<1>4. Phase(x, "wait", "sync")
  BY <1>1, <1>3 DEF IInv, Phases
<1>5. Phase(x, pc[x], cur[x].mode)'
  BY <1>1, <1>2, <1>4 DEF Phase, Unarmed, Owned
<1>6. ModeFits(pc'[x], cur'[x].mode) /\ pc'[x] # "idle"
  BY <1>1, <1>2 DEF ModeFits
<1> QED
  BY <1>1, <1>2, <1>3, <1>5, <1>6, InsideIInv

(* The handler clears the channel's interrupt. *)
LEMMA ClearInHandlerIInv ==
    ASSUME IInv, NEW x \in Contexts, ClearInHandler(x)
    PROVE  IInv'
<1>1. /\ pc[x] = "iclear" /\ cur[x].mode = "irq" /\ intStat' = FALSE
      /\ UNCHANGED <<lock, cur, pend, inService, chen, prog, intEn, bounce, hasCb, registered, allocated>>
  BY DEF ClearInHandler, At, IInv, ModesFit, ModeFits, contextVars, plicVars, dataVars
<1>2. pc'[x] = "copy" /\ Only(x) /\ Types'
  BY <1>1, AfterAt, GotoOnly DEF ClearInHandler, IInv, Types, InCall
<1>3. Holds(x) /\ Holds(x)'
  BY <1>1, <1>2 DEF Holds, HoldsAt
<1>4. Phase(x, "iclear", "irq")
  BY <1>1, <1>3 DEF IInv, Phases
<1>5. Phase(x, pc[x], cur[x].mode)'
  BY <1>1, <1>2, <1>4 DEF Phase, Armed, Owned
<1>6. ModeFits(pc'[x], cur'[x].mode) /\ pc'[x] # "idle"
  BY <1>1, <1>2 DEF ModeFits
<1> QED
  BY <1>1, <1>2, <1>3, <1>5, <1>6, InsideIInv

(* What has arrived is copied to the client. *)
LEMMA CopyIInv ==
    ASSUME IInv, NEW x \in Contexts, Copy(x)
    PROVE  IInv'
<1>1. /\ pc[x] = "copy" /\ cur[x].mode \in {"sync", "irq"}
      /\ UNCHANGED <<lock, cur, pend, inService, resources>>
  BY DEF Copy, At, IInv, ModesFit, ModeFits, channelVars, contextVars, plicVars, resources
<1>2. pc'[x] = "free" /\ Only(x) /\ Types'
  BY <1>1, AfterAt, GotoOnly DEF Copy, IInv, Types, InCall
<1>3. Holds(x) /\ Holds(x)'
  BY <1>1, <1>2 DEF Holds, HoldsAt
<1>4. Phase(x, "copy", cur[x].mode)
  BY <1>1, <1>3 DEF IInv, Phases
<1>5. Phase(x, pc[x], cur[x].mode)'
  BY <1>1, <1>2, <1>4 DEF Phase, Armed, Unarmed, Owned, resources
<1>6. ModeFits(pc'[x], cur'[x].mode) /\ pc'[x] # "idle"
  BY <1>1, <1>2 DEF ModeFits
<1> QED
  BY <1>1, <1>2, <1>3, <1>5, <1>6, InsideIInv

(* The bounce buffer is given back. *)
LEMMA FreeBufferIInv ==
    ASSUME IInv, NEW x \in Contexts, FreeBuffer(x)
    PROVE  IInv'
<1>1. /\ pc[x] = "free" /\ cur[x].mode \in {"sync", "irq"}
      /\ UNCHANGED <<lock, cur, pend, inService, chen, intStat, intEn, hasCb, registered>>
      /\ allocated' = allocated \ {bounce}
  BY DEF FreeBuffer, FreeBounce, At, IInv, ModesFit, ModeFits, channelVars, plicVars
<1>2. /\ pc'[x] = IF cur[x].mode = "irq" THEN "unregister" ELSE "drain"
      /\ Only(x) /\ Types'
  BY <1>1, AfterAt, GotoOnly DEF FreeBuffer, IInv, Types, InCall, InHandler
<1>3. Holds(x) /\ Holds(x)'
  BY <1>1, <1>2 DEF Holds, HoldsAt
<1>4. Phase(x, "free", cur[x].mode)
  BY <1>1, <1>3 DEF IInv, Phases
<1>5. allocated' = {} /\ ~chen
  BY <1>1, <1>4 DEF Phase, Owned
<1>6. Phase(x, pc[x], cur[x].mode)'
  BY <1>1, <1>2, <1>4, <1>5 DEF Phase, Armed, Unarmed, Quiet
<1>7. ModeFits(pc'[x], cur'[x].mode) /\ pc'[x] # "idle"
  BY <1>1, <1>2 DEF ModeFits
<1> QED
  BY <1>1, <1>2, <1>3, <1>6, <1>7, InsideIInv

(* The registered core is the one whose handler runs. *)
LEMMA UnregisterIInv ==
    ASSUME IInv, NEW x \in Contexts, Unregister(x)
    PROVE  IInv'
<1>1. /\ pc[x] = "unregister" /\ cur[x].mode = "irq"
      /\ UNCHANGED <<lock, cur, pend, inService, chen, allocated>>
      /\ hasCb' = FALSE /\ intEn' = FALSE /\ registered' = registered \ {Core(x)}
  BY DEF Unregister, At, IInv, ModesFit, ModeFits, dataVars
<1>2. pc'[x] = "drain" /\ Only(x) /\ Types'
  BY <1>1, AfterAt, GotoOnly DEF Unregister, IInv, Types, InCall
<1>3. Holds(x) /\ Holds(x)'
  BY <1>1, <1>2 DEF Holds, HoldsAt
<1>4. Phase(x, "unregister", "irq")
  BY <1>1, <1>3 DEF IInv, Phases
<1>5. Phase(x, pc[x], cur[x].mode)'
  BY <1>1, <1>2, <1>4 DEF Phase, Armed, Unarmed, Quiet
<1>6. ModeFits(pc'[x], cur'[x].mode) /\ pc'[x] # "idle"
  BY <1>1, <1>2 DEF ModeFits
<1> QED
  BY <1>1, <1>2, <1>3, <1>5, <1>6, InsideIInv

(* The transmitter is empty. *)
LEMMA WaitDrainedIInv ==
    ASSUME IInv, NEW x \in Contexts, WaitDrained(x)
    PROVE  IInv'
<1>1. /\ pc[x] = "drain" /\ cur[x].mode \in {"sync", "irq"}
      /\ UNCHANGED <<lock, cur, pend, inService, resources>>
  BY DEF WaitDrained, At, IInv, ModesFit, ModeFits, channelVars, contextVars, plicVars, dataVars,
     resources
<1>2. /\ pc'[x] = IF cur[x].mode = "irq" /\ Spi THEN "off" ELSE "unlock"
      /\ Only(x) /\ Types'
  BY <1>1, AfterAt, GotoOnly DEF WaitDrained, IInv, Types, InCall
<1>3. Holds(x) /\ Holds(x)'
  BY <1>1, <1>2 DEF Holds, HoldsAt
<1>4. Quiet
  BY <1>1, <1>3 DEF IInv, Phases, Phase
<1>5. Phase(x, pc[x], cur[x].mode)'
  BY <1>1, <1>2, <1>4 DEF Phase, Quiet, Unarmed, resources
<1>6. ModeFits(pc'[x], cur'[x].mode) /\ pc'[x] # "idle"
  BY <1>1, <1>2 DEF ModeFits
<1> QED
  BY <1>1, <1>2, <1>3, <1>5, <1>6, InsideIInv

(* The I2C handler gives up, and unlocks. *)
LEMMA GiveUpIInv ==
    ASSUME IInv, NEW x \in Contexts, GiveUp(x)
    PROVE  IInv'
<1>1. /\ pc[x] = "drain" /\ cur[x].mode = "irq" /\ lock' = 0
      /\ UNCHANGED <<cur, pend, inService, resources>>
  BY DEF GiveUp, Unlock, At, channelVars, contextVars, plicVars, dataVars, resources
<1>2. pc'[x] = "complete" /\ Only(x) /\ Types'
  BY <1>1, GotoOnly DEF GiveUp, IInv, Types, InHandler
<1>3. Holds(x) /\ ~Holds(x)'
  BY <1>1, <1>2 DEF Holds, HoldsAt
<1>4. Quiet
  BY <1>1, <1>3 DEF IInv, Phases, Phase
<1>5. Quiet'
  BY <1>1, <1>4 DEF Quiet, Unarmed, resources
<1>6. ModeFits(pc'[x], cur'[x].mode) /\ pc'[x] # "idle"
  BY <1>1, <1>2 DEF ModeFits
<1>7. InPlace(x)'
  BY <1>1, <1>2 DEF InPlace, IInv, ModesFit
<1> QED
  BY <1>1, <1>2, <1>3, <1>5, <1>6, <1>7, LeaveIInv

(* SPI is switched off, by the handler before it unlocks, by the waiting   *)
(* caller after.                                                           *)
LEMMA OffIInv ==
    ASSUME IInv, NEW x \in Contexts, Off(x)
    PROVE  IInv'
<1>1. /\ pc[x] = "off" /\ cur[x].mode \in {"sync", "irq"}
      /\ UNCHANGED <<lock, cur, pend, inService, resources>>
  BY DEF Off, At, IInv, ModesFit, ModeFits, channelVars, contextVars, plicVars, dataVars, resources
<1>2. /\ pc'[x] = IF cur[x].mode = "irq" THEN "unlock" ELSE "return"
      /\ Only(x) /\ Types'
  BY <1>1, AfterAt, GotoOnly DEF Off, IInv, Types, InCall
<1>3. ModeFits(pc'[x], cur'[x].mode) /\ pc'[x] # "idle"
  BY <1>1, <1>2 DEF ModeFits
<1>4. CASE cur[x].mode = "irq"
  <2>1. Holds(x) /\ Holds(x)'
    BY <1>1, <1>2, <1>4 DEF Holds, HoldsAt
  <2>2. Quiet
    BY <1>1, <2>1 DEF IInv, Phases, Phase
  <2>3. Phase(x, pc[x], cur[x].mode)'
    BY <1>1, <1>2, <1>4, <2>2 DEF Phase, Quiet, Unarmed, resources
  <2> QED
    BY <1>1, <1>2, <1>3, <2>1, <2>3, InsideIInv
<1>5. CASE cur[x].mode = "sync"
  <2>1. ~Holds(x) /\ ~Holds(x)'
    BY <1>1, <1>2, <1>5 DEF Holds, HoldsAt
  <2>2. Served'
    BY <1>1, <1>2, <2>1, ServedKept DEF resources
  <2>3. InPlace(x)'
    BY <1>1, <1>2, <1>5 DEF InPlace
  <2> QED
    BY <1>1, <1>2, <1>3, <2>1, <2>2, <2>3, OutsideIInv
<1> QED
  BY <1>1, <1>4, <1>5

(* The spinlock is freed. *)
LEMMA ReleaseIInv ==
    ASSUME IInv, NEW x \in Contexts, Release(x)
    PROVE  IInv'
<1>1. /\ pc[x] = "unlock" /\ cur[x].mode \in {"sync", "irq"} /\ lock' = 0
      /\ UNCHANGED <<cur, pend, inService, resources>>
  BY DEF Release, Unlock, At, IInv, ModesFit, ModeFits, channelVars, contextVars, plicVars, dataVars,
     resources
<1>2. /\ pc'[x] = IF cur[x].mode = "irq" THEN "notify" ELSE IF Spi THEN "off" ELSE "return"
      /\ Only(x) /\ Types'
  BY <1>1, AfterAt, GotoOnly DEF Release, IInv, Types, InCall, InHandler
<1>3. Holds(x) /\ ~Holds(x)'
  BY <1>1, <1>2 DEF Holds, HoldsAt
<1>4. Quiet
  BY <1>1, <1>3 DEF IInv, Phases, Phase
<1>5. Quiet'
  BY <1>1, <1>4 DEF Quiet, Unarmed, resources
<1>6. ModeFits(pc'[x], cur'[x].mode) /\ pc'[x] # "idle"
  BY <1>1, <1>2 DEF ModeFits
<1>7. InPlace(x)'
  BY <1>1, <1>2 DEF InPlace, IInv, ModesFit
<1> QED
  BY <1>1, <1>2, <1>3, <1>5, <1>6, <1>7, LeaveIInv

(* Steps outside: a caller or the handler tells the client, the client's   *)
(* callback returns.                                                       *)
LEMMA TellIInv ==
    ASSUME IInv, NEW x \in Contexts, Return(x) \/ Notify(x) \/ CallbackReturns(x)
    PROVE  IInv'
<1>1. /\ pc[x] \in {"return", "notify", "client"}
      /\ UNCHANGED <<lock, cur, pend, inService, resources>>
  BY DEF Return, Notify, CallbackReturns, At, channelVars, contextVars, plicVars, dataVars, resources
<1>2. pc'[x] \in {"idle", "client", "complete"} /\ Only(x) /\ Types'
  <2>1. CASE Return(x)
    BY <2>1, <1>1, GotoOnly DEF Return, Ready, IInv, Types, InHandler
  <2>2. CASE Notify(x)
    BY <2>2, <1>1, GotoOnly DEF Notify, IInv, Types, InHandler
  <2>3. CASE CallbackReturns(x)
    BY <2>3, <1>1, GotoOnly DEF CallbackReturns, IInv, Types, InHandler
  <2> QED
    BY <2>1, <2>2, <2>3
<1>3. ~Holds(x) /\ ~Holds(x)'
  BY <1>1, <1>2 DEF Holds, HoldsAt
<1>4. ModeFits(pc'[x], cur'[x].mode)
  BY <1>1, <1>2 DEF ModeFits
<1>5. InPlace(x)'
  <2>1. CASE Return(x)
    BY <1>1, <2>1, GotoOnly DEF Return, At, Ready, InPlace, IInv, ModesFit, Types, Goto
  <2>2. CASE Notify(x)
    BY <1>1, <2>2 DEF Notify, At, InPlace, IInv, ModesFit, ModeFits
  <2>3. CASE CallbackReturns(x)
    BY <1>1, <2>3 DEF CallbackReturns, At, InPlace, IInv, ModesFit
  <2> QED
    BY <2>1, <2>2, <2>3
<1>6. Served'
  BY <1>1, <1>2, <1>3, ServedKept DEF resources
<1> QED
  BY <1>1, <1>2, <1>3, <1>4, <1>5, <1>6, OutsideIInv

(* The handler completes: the interrupt may be forwarded again. *)
LEMMA CompleteIInv ==
    ASSUME IInv, NEW x \in Contexts, Complete(x)
    PROVE  IInv'
<1>1. /\ pc[x] = "complete" /\ inService' = FALSE /\ UNCHANGED <<lock, cur, pend, resources>>
  BY DEF Complete, At, channelVars, contextVars, dataVars, resources
<1>2. pc'[x] = "idle" /\ Only(x) /\ Types'
  BY <1>1, GotoOnly DEF Complete, IInv, Types
<1>3. ~Holds(x) /\ ~Holds(x)'
  BY <1>1, <1>2 DEF Holds, HoldsAt
<1>4. ModeFits(pc'[x], cur'[x].mode) /\ InPlace(x)'
  BY <1>1, <1>2 DEF ModeFits, IInv, ModesFit, InPlace
<1>5. \A y \in Contexts : Holds(y)' <=> Holds(y)
  BY <1>2, <1>3, OthersHold
<1>6. \A y \in Contexts : Isr(y) /\ pc'[y] # "idle" => y # x /\ pc[y] # "idle"
  BY <1>2 DEF Only
<1>7. Isr(x)
  BY <1>1 DEF IInv, ModesFit, InPlace
<1>8. Served'
  BY <1>1, <1>2, <1>5, <1>6, <1>7 DEF IInv, Served, Alone, resources, Only
<1> QED
  BY <1>1, <1>2, <1>3, <1>4, <1>8, OutsideIInv

-----------------------------------------------------------------------------
(* The interrupt, the hardware and the clients. *)

(* A core whose claim finds no callback drops the interrupt. *)
LEMMA ClaimIInv ==
    ASSUME IInv, NEW c \in Cores, Claim(c)
    PROVE  IInv'
<1> DEFINE x == <<c, "isr">>
           p == IF c \in registered THEN "iclear" ELSE "complete"
<1>1. /\ x \in Contexts /\ Isr(x) /\ Core(x) = c
      /\ pend /\ pc[x] = "idle" /\ pend' = FALSE /\ inService' = TRUE
      /\ cur' = [cur EXCEPT ![x] = [id |-> 0, mode |-> "irq"]]
      /\ pc' = [pc EXCEPT ![x] = p]
      /\ UNCHANGED <<lock, resources>>
  BY DEF Claim, Contexts, Isr, Core, Goto, channelVars, contextVars, dataVars, resources
<1>2. /\ pc'[x] = p /\ cur'[x].mode = "irq" /\ Only(x) /\ Types'
  <2>1. pc' \in [Contexts -> InCall \cup InHandler \cup {"idle"}] /\ pc'[x] = p
    BY <1>1 DEF IInv, Types, InHandler
  <2>2. cur' = [y \in Contexts |-> cur'[y]] /\ cur'[x] = [id |-> 0, mode |-> "irq"]
    BY <1>1 DEF IInv, Types
  <2>3. Only(x)
    BY <1>1 DEF IInv, Types, Only
  <2> QED
    BY <1>1, <2>1, <2>2, <2>3 DEF IInv, Types
<1>3. lock = -1 /\ (\A y \in Contexts : ~Holds(y)) /\ ~chen /\ ~inService
  BY <1>1 DEF IInv, Served, Alone
<1>4. Flight
  BY <1>3 DEF IInv, Left, Alone
<1>5. Served'
  BY <1>1, <1>2, <1>3 DEF IInv, Served, Only
<1>6. ModesFit'
  BY <1>1, <1>2, ModesStep DEF IInv, ModeFits, InPlace
<1>7. CASE c \in registered
  <2>1. Phase(x, pc[x], cur[x].mode)'
    <3>1. Armed(c) /\ Owned
      BY <1>4, <1>7 DEF Flight, Armed
    <3> QED
      BY <1>1, <1>2, <1>3, <1>7, <3>1 DEF Phase, Armed, Owned, resources
  <2>2. \A y \in Contexts : Holds(y)' <=> y = x
    BY <1>1, <1>2, <1>3, <1>7, OthersHold DEF Holds, HoldsAt
  <2>3. LockExact' /\ Phases' /\ Left'
    BY <1>1, <1>3, <2>1, <2>2 DEF LockExact, Phases, Left, Alone
  <2> QED
    BY <1>2, <1>5, <1>6, <2>3 DEF IInv
<1>8. CASE c \notin registered
  <2>1. ~Holds(x) /\ ~Holds(x)'
    BY <1>1, <1>2, <1>3, <1>8 DEF Holds, HoldsAt
  <2>2. ModeFits(pc'[x], cur'[x].mode) /\ InPlace(x)'
    BY <1>1, <1>2, <1>8 DEF ModeFits, InPlace
  <2> QED
    BY <1>1, <1>2, <1>5, <2>1, <2>2, OutsideIInv
<1> QED
  BY <1>7, <1>8

(* The channel moves its last word: of a transfer that a caller waits for, *)
(* or of one in flight.                                                    *)
LEMMA MoveIInv == IInv /\ Move => IInv'
<1> SUFFICES ASSUME IInv, Move PROVE IInv'
  OBVIOUS
<1>1. /\ chen /\ chen' = FALSE
      /\ UNCHANGED <<lock, pc, cur, inService, pend, prog, intEn, bounce, hasCb, registered, allocated>>
  BY DEF Move, contextVars, plicVars
<1>2. Types' /\ ModesFit' /\ LockExact'
  BY <1>1 DEF IInv, Types, ModesFit, ModeFits, InPlace, LockExact, Holds
<1>3. Phases'
  <2> SUFFICES ASSUME NEW x \in Contexts, Holds(x) PROVE Phase(x, pc[x], cur[x].mode)'
    BY <1>1 DEF Phases, Holds
  <2>1. Phase(x, pc[x], cur[x].mode)
    BY DEF IInv, Phases
  <2> QED
    BY <1>1, <2>1 DEF Phase, Quiet, Unarmed, Owned
<1>4. Left'
  BY <1>1 DEF IInv, Left, Alone, Holds, Quiet, Flight, Unarmed, Armed, Owned
<1>5. Served'
  BY <1>1 DEF IInv, Served, Alone
<1> QED
  BY <1>2, <1>3, <1>4, <1>5 DEF IInv

(* The gateway forwards: the channel is done, and its transfer in flight. *)
LEMMA ForwardIInv == IInv /\ Forward => IInv'
<1> SUFFICES ASSUME IInv, Forward PROVE IInv'
  OBVIOUS
<1>1. intStat /\ intEn /\ ~inService /\ UNCHANGED <<lock, pc, cur, inService, resources>>
  BY DEF Forward, channelVars, contextVars, dataVars, resources
<1>2. ASSUME NEW x \in Contexts, Holds(x) PROVE FALSE
  <2>1. Phase(x, pc[x], cur[x].mode)
    BY <1>2 DEF IInv, Phases
  <2>2. ModeFits(pc[x], cur[x].mode) /\ (cur[x].mode = "irq" => Isr(x))
    BY DEF IInv, ModesFit, InPlace
  <2>3. pc[x] \in {"fill", "register", "clear", "buffers", "start", "wait", "select", "off",
                   "iclear", "copy", "free", "unregister", "drain", "unlock"}
    BY <1>2 DEF Holds, HoldsAt
  <2>4. pc[x] = "iclear"
    BY <1>1, <2>1, <2>3 DEF Phase, Quiet, Unarmed
  <2>5. Isr(x)
    BY <2>2, <2>4 DEF ModeFits
  <2> QED
    BY <1>1, <2>4, <2>5 DEF IInv, Served
<1>3. Alone /\ lock = -1 /\ ~chen
  <2>1. Alone
    BY <1>2 DEF Alone
  <2>2. lock # 0
    BY <1>1, <2>1 DEF IInv, Left, Quiet, Unarmed
  <2>3. Flight
    BY <2>1, <2>2 DEF IInv, Left
  <2> QED
    BY <1>1, <2>1, <2>2, <2>3 DEF Flight, IInv, Types
<1>4. Types' /\ ModesFit' /\ LockExact'
  BY <1>1 DEF IInv, Types, ModesFit, ModeFits, InPlace, LockExact, Holds
<1>5. Phases'
  BY <1>1, <1>2 DEF Phases, Holds
<1>6. Left'
  BY <1>1 DEF IInv, Left, Alone, Holds, Quiet, Flight, Unarmed, Armed, Owned, resources
<1>7. Served'
  BY <1>1, <1>3 DEF IInv, Served, Alone, Holds, resources
<1> QED
  BY <1>4, <1>5, <1>6, <1>7 DEF IInv

(* Steps that touch nothing the invariant is about. *)
LEMMA ElsewhereIInv ==
    ASSUME IInv, UNCHANGED <<lock, pc, cur, pend, inService, resources>>
    PROVE  IInv'
<1>1. Types' /\ ModesFit' /\ LockExact'
  BY DEF IInv, Types, ModesFit, ModeFits, InPlace, LockExact, Holds
<1>2. Phases'
  <2> SUFFICES ASSUME NEW x \in Contexts, Holds(x) PROVE Phase(x, pc[x], cur[x].mode)'
    BY DEF Phases, Holds
  <2>1. Phase(x, pc[x], cur[x].mode)
    BY DEF IInv, Phases
  <2> QED
    BY <2>1 DEF Phase, Quiet, Unarmed, Armed, Owned, resources
<1>3. Left'
  BY DEF IInv, Left, Alone, Holds, Quiet, Flight, Unarmed, Armed, Owned, resources
<1>4. Served'
  BY DEF IInv, Served, Alone, Holds, resources
<1> QED
  BY <1>1, <1>2, <1>3, <1>4 DEF IInv

(* A client calls, from main or from its callback. *)
LEMMA CallIInv ==
    ASSUME IInv, NEW x \in Contexts, NEW r \in Calls, Call(x, r)
    PROVE  IInv'
<1>1. /\ pc[x] = Ready(x) /\ r.mode \in Modes
      /\ cur' = [cur EXCEPT ![x] = [id |-> n + 1, mode |-> r.mode]]
      /\ pc' = [pc EXCEPT ![x] = "lock"]
      /\ UNCHANGED <<lock, pend, inService, resources>>
  BY CallsAssumption DEF Call, At, Goto, channelVars, contextVars, plicVars, dataVars, resources
<1>2. /\ pc'[x] = "lock" /\ cur'[x].mode = r.mode /\ Only(x) /\ Types'
  <2>1. pc' \in [Contexts -> InCall \cup InHandler \cup {"idle"}] /\ pc'[x] = "lock"
    BY <1>1 DEF IInv, Types, InCall
  <2>2. cur' = [y \in Contexts |-> cur'[y]] /\ cur'[x] = [id |-> n + 1, mode |-> r.mode]
    BY <1>1 DEF IInv, Types
  <2>3. Only(x)
    BY <1>1 DEF IInv, Types, Only
  <2> QED
    BY <1>1, <2>1, <2>2, <2>3 DEF IInv, Types
<1>3. ~Holds(x) /\ ~Holds(x)'
  BY <1>1, <1>2 DEF Holds, HoldsAt, Ready
<1>4. ModeFits(pc'[x], cur'[x].mode) /\ InPlace(x)'
  BY <1>1, <1>2 DEF ModeFits, InPlace, Modes
<1>5. Served'
  BY <1>1, <1>2, <1>3, ServedKept DEF resources, Ready
<1> QED
  BY <1>1, <1>2, <1>3, <1>4, <1>5, OutsideIInv

-----------------------------------------------------------------------------
(* The invariant holds at the start, and every step keeps it. *)

LEMMA InitIInv == Init => IInv
<1> SUFFICES ASSUME Init PROVE IInv
  OBVIOUS
<1> USE DEF Init
<1>1. Types
  BY DEF Types
<1>2. ModesFit
  BY DEF ModesFit, ModeFits, InPlace
<1>3. \A x \in Contexts : ~Holds(x)
  BY DEF Holds, HoldsAt
<1>4. LockExact /\ Phases /\ Left
  BY <1>3 DEF LockExact, Phases, Left, Quiet, Unarmed
<1>5. Served
  BY DEF Served
<1> QED
  BY <1>1, <1>2, <1>4, <1>5 DEF IInv

LEMMA NextIInv == IInv /\ [Next]_vars => IInv'
<1> SUFFICES ASSUME IInv, [Next]_vars PROVE IInv'
  OBVIOUS
<1>1. CASE \E x \in Contexts : Begin(x)
  BY <1>1, LockIInv, FillIInv, RegisterIInv, ClearIInv, BuffersIInv, StartIInv, SelectIInv DEF Begin
<1>2. CASE \E x \in Contexts : Finish(x)
  BY <1>2, WaitIInv, ClearInHandlerIInv, CopyIInv, FreeBufferIInv, UnregisterIInv, WaitDrainedIInv,
     GiveUpIInv, OffIInv, ReleaseIInv, TellIInv, CompleteIInv DEF Finish
<1>3. CASE (\E c \in Cores : Claim(c)) \/ (\E x \in Contexts, r \in Calls : Call(x, r))
  BY <1>3, ClaimIInv, CallIInv
<1>4. CASE Move \/ Forward
  BY <1>4, MoveIInv, ForwardIInv
<1>5. CASE Drain \/ Abort \/ OthersStart \/ OthersAbort \/ OthersEnd \/ UNCHANGED vars
  <2>1. UNCHANGED <<lock, pc, cur, pend, inService, resources>>
    BY <1>5 DEF Drain, Abort, OthersStart, OthersAbort, OthersEnd, vars, channelVars, contextVars,
       plicVars, dataVars, resources
  <2> QED
    BY <2>1, ElsewhereIInv
<1> QED
  BY <1>1, <1>2, <1>3, <1>4, <1>5 DEF Next

LEMMA SpecIInv == Spec => []IInv
BY InitIInv, NextIInv, PTL DEF Spec

-----------------------------------------------------------------------------
(* The channel never uses a bounce buffer that has been given back         *)
(* (dmac.c:790-809, 839-858).                                              *)
THEOREM BufferSafe == Spec => []BufferLive
<1>1. IInv => BufferLive
  <2> SUFFICES ASSUME IInv, chen PROVE Owned
    BY DEF BufferLive, Owned
  <2>1. ASSUME NEW x \in Contexts, Holds(x) PROVE Owned
    <3>1. Phase(x, pc[x], cur[x].mode)
      BY <2>1 DEF IInv, Phases
    <3> QED
      BY <2>1, <3>1 DEF Phase, Quiet, Holds, HoldsAt
  <2>2. CASE Alone
    BY <2>2 DEF IInv, Left, Flight, Quiet
  <2> QED
    BY <2>1, <2>2 DEF Alone
<1> QED
  BY <1>1, SpecIInv, PTL

(* When the spinlock is free nothing of a transfer is left: neither the    *)
(* channel, nor its interrupt, nor a buffer (uart.c:418-424, 450-456).     *)
THEOREM QuietSafe == Spec => []QuietWhenFree
<1>1. IInv => QuietWhenFree
  BY DEF IInv, LockExact, Left, Alone, Quiet, Unarmed, QuietWhenFree
<1> QED
  BY <1>1, SpecIInv, PTL

-----------------------------------------------------------------------------
(* Clients are told of the right transfer, once, when its data is there.   *)
(* This needs what DmaTransfer's run assumes of the clients: cores take    *)
(* turns with transfers that have a callback, and an SPI unit that one     *)
(* core waits for is not used by another, because the waiting caller       *)
(* switches it off after the unlock.                                       *)

SpiCallers ==
    \A r, s \in Calls :
        /\ r.dev = s.dev /\ r.unit = s.unit
        /\ r.dev \in {"spi_send", "spi_recv"} /\ r.mode = "sync"
        => s.core = r.core

(* x is in a call whose transfer is x's own: it waits, or has not started. *)
CallingAt(p, m) ==
    /\ m \in Modes
    /\ \/ p \in {"lock", "fill", "register", "clear", "buffers", "start",
                 "wait", "copy", "free", "drain", "unlock", "off", "return"}
       \/ p = "select" /\ m = "sync"
Calling(x) == CallingAt(pc[x], cur[x].mode)

(* x is the handler and has not yet told the client. *)
EndingAt(p, m) ==
    /\ m = "irq"
    /\ p \in {"iclear", "copy", "free", "unregister", "drain", "off", "unlock", "notify"}
Ending(x) == EndingAt(pc[x], cur[x].mode)

Counted ==
    /\ n \in 0 .. MaxTransfers
    /\ asynch \subseteq Cores \X (1 .. n)
    /\ ended \in [Transfers -> Nat]
    /\ \A t \in Transfers : t > n => ended[t] = 0

(* A caller's transfer is its own, and its client has not been told. *)
OwnFits(c, p, m, t) ==
    CallingAt(p, m) =>
        /\ t \in 1 .. n /\ ended[t] = 0
        /\ m = "async" => <<c, t>> \in asynch
        /\ m = "async" /\ p \in {"register", "clear", "buffers", "start"} => inst = t
        /\ \E r \in Calls : r.dev = dev /\ r.unit = unit /\ r.core = c /\ r.mode = m
Own ==
    /\ \A x \in Contexts : OwnFits(Core(x), pc[x], cur[x].mode, cur[x].id)
    /\ \A x, y \in Contexts : Calling(x) /\ Calling(y) /\ cur[x].id = cur[y].id => x = y

(* Taking turns: what is to be told by interrupt is one core's. *)
Turns == \A p, q \in asynch : ended[p[2]] = 0 /\ ended[q[2]] = 0 => p[1] = q[1]

(* The transfer of core c whose callback is in the instance is over for    *)
(* its caller, and not for its client.                                     *)
CarriedBy(c) ==
    /\ <<c, inst>> \in asynch /\ ended[inst] = 0
    /\ \A y \in Contexts : Calling(y) => cur[y].id # inst
Carried ==
    /\ \A x \in Contexts : Ending(x) => CarriedBy(Core(x))
    /\ lock = -1 /\ Alone => \A c \in registered : CarriedBy(c)
    /\ \A x \in Contexts : pc[x] = "notify" =>
          /\ lock = -1 => ~Alone
          /\ \A y \in Contexts : Holds(y) => cur[y].mode = "sync"

(* A waiting SPI caller that has unlocked keeps every other transfer out. *)
Switching ==
    \A x \in Contexts : pc[x] = "off" /\ cur[x].mode = "sync" =>
        Spi /\ lock = 0 /\ (~Isr(x) => pc[<<Core(x), "isr">>] = "idle")

(* How far the data of the channel's transfer is.  The transmitter of      *)
(* unit 0 is empty when a transfer begins.                                 *)
Clean == unit = 0 => fifo = {} /\ ~abrt
Moved == prog \in moved /\ (Sends => prog \in fifo \cup delivered \cup spoiled)
Copied == Moved /\ (~Sends => prog \in delivered)
Gone(t) == t \in delivered \cup spoiled
Over(t) == t \in moved /\ (Awaited(t) => Gone(t))

DataFits(p, m, t) ==
    /\ p = "fill" => (unit = 0 => fifo = {} \/ abrt)
    /\ p \in {"register", "clear", "buffers", "start"} => Clean
    /\ p \in {"start", "select", "wait", "iclear", "copy", "free", "unregister", "drain", "off",
              "unlock"} =>
          prog = IF m = "irq" THEN inst ELSE t
    /\ p \in {"select", "wait"} => IF chen THEN Clean ELSE Moved
    /\ p \in {"iclear", "copy"} => Moved
    /\ p \in {"free", "unregister", "drain"} => Copied
    /\ p \in {"off", "unlock"} => Over(prog) /\ (unit = 0 => fifo = {})

Data ==
    /\ \A x \in Contexts : Holds(x) => DataFits(pc[x], cur[x].mode, cur[x].id)
    /\ lock = -1 /\ Alone => prog = inst /\ IF chen THEN Clean ELSE Moved
    /\ unit = 0 /\ lock = 0 => fifo = {} \/ abrt
    /\ \A x \in Contexts : pc[x] = "notify" => Over(inst)
    /\ \A x \in Contexts : pc[x] \in {"off", "return"} /\ cur[x].mode = "sync" => Over(cur[x].id)

JInv == Counted /\ Own /\ Turns /\ Carried /\ Switching /\ Data /\ ToldOnceWhenDone

(* Facts about who carries the callback that survive a step. *)
LEMMA CarriedByKept ==
    ASSUME NEW c, CarriedBy(c), UNCHANGED <<asynch, ended, inst>>,
           \A y \in Contexts : Calling(y)' => Calling(y) /\ cur'[y].id = cur[y].id
    PROVE  CarriedBy(c)'
BY DEF CarriedBy

LEMMA OthersCall ==
    ASSUME NEW x \in Contexts, Only(x), NEW y \in Contexts, y # x
    PROVE  /\ Calling(y)' <=> Calling(y)
           /\ Ending(y)' <=> Ending(y)
           /\ Holds(y)' <=> Holds(y)
           /\ pc'[y] = pc[y] /\ cur'[y] = cur[y]
BY DEF Only, Calling, Ending, Holds

(* The transfer that x has ended for its caller is launched ... *)
LaunchedBy ==
    /\ prog' = inst' /\ IF chen' THEN Clean' ELSE Moved'
    /\ \A c \in registered' : CarriedBy(c)'

(* A step of a context under the spinlock. *)
LEMMA InsideJInv ==
    ASSUME IInv, JInv, NEW x \in Contexts, Only(x), Holds(x), cur'[x] = cur[x],
           UNCHANGED <<dev, unit, ended, asynch, n>>,
           inst' = inst \/ (pc[x] = "fill" /\ cur[x].mode = "async"),
           Calling(x)' => Calling(x), Ending(x)' => Ending(x),
           delivered \subseteq delivered', spoiled \subseteq spoiled', moved \subseteq moved',
           OwnFits(Core(x), pc[x], cur[x].mode, cur[x].id)',
           \/ Holds(x)' /\ lock' = lock /\ DataFits(pc[x], cur[x].mode, cur[x].id)'
           \/ ~Holds(x)' /\ lock' = 0 /\ (unit = 0 => fifo' = {} \/ abrt')
           \/ ~Holds(x)' /\ lock' = lock /\ cur[x].mode = "async" /\ LaunchedBy,
           pc'[x] = "notify" => Over(inst)' /\ lock' = 0,
           pc'[x] \in {"off", "return"} /\ cur[x].mode = "sync" => Over(cur[x].id)',
           pc'[x] = "off" /\ cur[x].mode = "sync" =>
               Spi /\ lock' = 0 /\ (~Isr(x) => pc[<<Core(x), "isr">>] = "idle")
    PROVE  JInv'
<1>1. lock = -1 /\ \A y \in Contexts : Holds(y) => y = x
  BY DEF IInv, LockExact
<1>2. \A y \in Contexts : Holds(y)' => y = x
  BY <1>1, OthersCall
<1>3. \A y \in Contexts : Calling(y)' => Calling(y) /\ cur'[y].id = cur[y].id
  BY OthersCall
<1>4. \A y \in Contexts \ {x} : pc[y] = "notify" => cur[x].mode = "sync"
  BY DEF JInv, Carried
<1>5. \A y \in Contexts \ {x} : Ending(y) => pc[y] = "notify"
  BY <1>1 DEF Ending, EndingAt, Holds, HoldsAt
<1>6. Counted' /\ Turns'
  BY DEF JInv, Counted, Turns
<1>7. Own'
  <2>1. ASSUME NEW y \in Contexts PROVE OwnFits(Core(y), pc[y], cur[y].mode, cur[y].id)'
    <3>1. CASE y = x
      BY <3>1
    <3>2. CASE y # x
      <4>1. ~(pc[y] \in {"register", "clear", "buffers", "start"})
        BY <1>1, <3>2 DEF Holds, HoldsAt
      <4>2. OwnFits(Core(y), pc[y], cur[y].mode, cur[y].id)
        BY DEF JInv, Own
      <4> QED
        BY <3>2, <4>1, <4>2, OthersCall DEF OwnFits
    <3> QED
      BY <3>1, <3>2
  <2>2. \A y, z \in Contexts : Calling(y)' /\ Calling(z)' /\ cur'[y].id = cur'[z].id => y = z
    BY <1>3 DEF JInv, Own
  <2> QED
    BY <2>1, <2>2 DEF Own
<1>8. Carried'
  <2>1. ASSUME NEW y \in Contexts, Ending(y)' PROVE CarriedBy(Core(y))'
    <3>1. Ending(y)
      BY <2>1, OthersCall
    <3>2. inst' = inst
      BY <1>4, <1>5, <3>1 DEF Ending, EndingAt
    <3>3. CarriedBy(Core(y))
      BY <3>1 DEF JInv, Carried
    <3> QED
      BY <1>3, <3>2, <3>3, CarriedByKept
  <2>2. ASSUME lock' = -1, Alone' PROVE \A c \in registered' : CarriedBy(c)'
    BY <2>2 DEF Alone, LaunchedBy
  <2>3. ASSUME NEW y \in Contexts, pc'[y] = "notify"
        PROVE  (lock' = -1 => ~Alone') /\ \A z \in Contexts : Holds(z)' => cur'[z].mode = "sync"
    <3>1. CASE y = x
      BY <1>2, <2>3, <3>1 DEF Holds, HoldsAt
    <3>2. CASE y # x
      BY <1>1, <1>2, <1>4, <2>3, <3>2, OthersCall DEF Alone
    <3> QED
      BY <3>1, <3>2
  <2> QED
    BY <2>1, <2>2, <2>3 DEF Carried
<1>9. Switching'
  <2> SUFFICES ASSUME NEW y \in Contexts, pc'[y] = "off", cur'[y].mode = "sync"
               PROVE  Spi /\ lock' = 0 /\ (~Isr(y) => pc'[<<Core(y), "isr">>] = "idle")
    BY DEF Switching, Spi
  <2>1. CASE y # x
    BY <1>1, <2>1, OthersCall DEF JInv, Switching
  <2>2. CASE y = x
    <3>1. ~Isr(x) => <<Core(x), "isr">> # x
      BY DEF Isr
    <3>2. <<Core(x), "isr">> \in Contexts
      BY DEF Contexts, Core
    <3> QED
      BY <2>2, <3>1, <3>2 DEF Only
  <2> QED
    BY <2>1, <2>2
<1>10. Data'
  <2>1. \A y \in Contexts : Holds(y)' => DataFits(pc[y], cur[y].mode, cur[y].id)'
    BY <1>2
  <2>2. lock' = -1 /\ Alone' => prog' = inst' /\ IF chen' THEN Clean' ELSE Moved'
    BY DEF Alone, LaunchedBy
  <2>3. unit = 0 /\ lock' = 0 => fifo' = {} \/ abrt'
    BY <1>1
  <2>4. ASSUME NEW y \in Contexts, pc'[y] = "notify" PROVE Over(inst)'
    <3>1. CASE y = x
      BY <2>4, <3>1
    <3>2. CASE y # x
      <4>1. pc[y] = "notify" /\ inst' = inst
        BY <1>4, <2>4, <3>2, OthersCall
      <4> QED
        BY <4>1 DEF JInv, Data, Over, Gone, Awaited, Sends
    <3> QED
      BY <3>1, <3>2
  <2>5. ASSUME NEW y \in Contexts, pc'[y] \in {"off", "return"}, cur'[y].mode = "sync"
        PROVE  Over(cur[y].id)'
    <3>1. CASE y = x
      BY <2>5, <3>1
    <3>2. CASE y # x
      <4>1. pc[y] \in {"off", "return"} /\ cur[y].mode = "sync" /\ cur'[y] = cur[y]
        BY <2>5, <3>2, OthersCall
      <4> QED
        BY <4>1 DEF JInv, Data, Over, Gone, Awaited, Sends
    <3> QED
      BY <3>1, <3>2
  <2> QED
    BY <2>1, <2>2, <2>3, <2>4, <2>5 DEF Data
<1>11. ToldOnceWhenDone'
  BY DEF JInv, ToldOnceWhenDone, Awaited, Sends
<1> QED
  BY <1>6, <1>7, <1>8, <1>9, <1>10, <1>11 DEF JInv

-----------------------------------------------------------------------------
(* The steps of a call and of the handler under the spinlock. *)

(* The callback goes into the instance; what an abort has left is thrown away. *)
LEMMA FillJInv ==
    ASSUME IInv, JInv, NEW x \in Contexts, Fill(x)
    PROVE  JInv'
<1>1. /\ pc[x] = "fill" /\ cur[x].mode \in Modes
      /\ UNCHANGED <<dev, unit, lock, cur, ended, asynch, n, delivered, spoiled, moved>>
      /\ inst' = (IF cur[x].mode = "async" THEN cur[x].id ELSE inst)
      /\ abrt' = FALSE /\ fifo' = IF abrt THEN {} ELSE fifo
  BY DEF Fill, At, IInv, ModesFit, ModeFits, channelVars, contextVars, plicVars, deviceVars, dataVars,
     clientVars, unitVars
<1>2. pc'[x] = (IF cur[x].mode = "async" THEN "register" ELSE "clear") /\ Only(x)
  BY <1>1, StepAt, AfterAt, GotoOnly DEF Fill, IInv, Types, InCall, InHandler
<1>3. Holds(x) /\ Holds(x)'
  BY <1>1, <1>2 DEF Holds, HoldsAt
<1>4. /\ OwnFits(Core(x), pc[x], cur[x].mode, cur[x].id) /\ DataFits(pc[x], cur[x].mode, cur[x].id)
  BY <1>3 DEF JInv, Own, Data
<1>5. OwnFits(Core(x), pc[x], cur[x].mode, cur[x].id)'
  BY <1>1, <1>2, <1>4 DEF OwnFits, CallingAt, Modes
<1>6. DataFits(pc[x], cur[x].mode, cur[x].id)'
  BY <1>1, <1>2, <1>4 DEF DataFits, Clean, Moved, Copied, Over, Gone, Awaited, Sends
<1>7. (Calling(x)' => Calling(x)) /\ (Ending(x)' => Ending(x))
  BY <1>1, <1>2 DEF Calling, CallingAt, Ending, EndingAt, Modes
<1>8. pc'[x] \notin {"notify", "return"} /\ (pc'[x] = "off" => cur[x].mode = "irq")
  BY <1>1, <1>2
<1> QED
  BY <1>1, <1>2, <1>3, <1>5, <1>6, <1>7, <1>8, InsideJInv

(* The callback is registered. *)
LEMMA RegisterJInv ==
    ASSUME IInv, JInv, NEW x \in Contexts, Register(x)
    PROVE  JInv'
<1>1. /\ pc[x] = "register" /\ cur[x].mode = "async"
      /\ UNCHANGED <<dev, unit, lock, cur, ended, asynch, n, inst, fifo, abrt, spoiled, delivered, moved>>
  BY DEF Register, At, IInv, ModesFit, ModeFits, channelVars, contextVars, plicVars, deviceVars, dataVars,
     clientVars, unitVars
<1>2. pc'[x] = "clear" /\ Only(x)
  BY <1>1, StepAt, AfterAt, GotoOnly DEF Register, IInv, Types, InCall, InHandler
<1>3. Holds(x) /\ Holds(x)'
  BY <1>1, <1>2 DEF Holds, HoldsAt
<1>4. /\ OwnFits(Core(x), pc[x], cur[x].mode, cur[x].id) /\ DataFits(pc[x], cur[x].mode, cur[x].id)
  BY <1>3 DEF JInv, Own, Data
<1>5. OwnFits(Core(x), pc[x], cur[x].mode, cur[x].id)'
  BY <1>1, <1>2, <1>4 DEF OwnFits, CallingAt, Modes
<1>6. DataFits(pc[x], cur[x].mode, cur[x].id)'
  BY <1>1, <1>2, <1>4 DEF DataFits, Clean, Moved, Copied, Over, Gone, Awaited, Sends
<1>7. (Calling(x)' => Calling(x)) /\ (Ending(x)' => Ending(x))
  BY <1>1, <1>2 DEF Calling, CallingAt, Ending, EndingAt, Modes
<1>8. pc'[x] \notin {"notify", "return"} /\ (pc'[x] = "off" => cur[x].mode = "irq")
  BY <1>1, <1>2
<1> QED
  BY <1>1, <1>2, <1>3, <1>5, <1>6, <1>7, <1>8, InsideJInv

(* The channel is cleared. *)
LEMMA ClearJInv ==
    ASSUME IInv, JInv, NEW x \in Contexts, Clear(x)
    PROVE  JInv'
<1>1. /\ pc[x] = "clear" /\ cur[x].mode \in Modes
      /\ UNCHANGED <<dev, unit, lock, cur, ended, asynch, n, inst, fifo, abrt, spoiled, delivered, moved>>
  BY DEF Clear, At, IInv, ModesFit, ModeFits, channelVars, contextVars, plicVars, deviceVars, dataVars,
     clientVars, unitVars
<1>2. pc'[x] = "buffers" /\ Only(x)
  BY <1>1, StepAt, AfterAt, GotoOnly DEF Clear, IInv, Types, InCall, InHandler
<1>3. Holds(x) /\ Holds(x)'
  BY <1>1, <1>2 DEF Holds, HoldsAt
<1>4. /\ OwnFits(Core(x), pc[x], cur[x].mode, cur[x].id) /\ DataFits(pc[x], cur[x].mode, cur[x].id)
  BY <1>3 DEF JInv, Own, Data
<1>5. OwnFits(Core(x), pc[x], cur[x].mode, cur[x].id)'
  BY <1>1, <1>2, <1>4 DEF OwnFits, CallingAt, Modes
<1>6. DataFits(pc[x], cur[x].mode, cur[x].id)'
  BY <1>1, <1>2, <1>4 DEF DataFits, Clean, Moved, Copied, Over, Gone, Awaited, Sends
<1>7. (Calling(x)' => Calling(x)) /\ (Ending(x)' => Ending(x))
  BY <1>1, <1>2 DEF Calling, CallingAt, Ending, EndingAt, Modes
<1>8. pc'[x] \notin {"notify", "return"} /\ (pc'[x] = "off" => cur[x].mode = "irq")
  BY <1>1, <1>2
<1> QED
  BY <1>1, <1>2, <1>3, <1>5, <1>6, <1>7, <1>8, InsideJInv

(* The channel gets the transfer's addresses. *)
LEMMA BuffersJInv ==
    ASSUME IInv, JInv, NEW x \in Contexts, Buffers(x)
    PROVE  JInv'
<1>1. /\ pc[x] = "buffers" /\ cur[x].mode \in Modes
      /\ UNCHANGED <<dev, unit, lock, cur, ended, asynch, n, inst, fifo, abrt, spoiled, delivered, moved>>
      /\ prog' = cur[x].id
  BY DEF Buffers, At, IInv, ModesFit, ModeFits, channelVars, contextVars, plicVars, deviceVars, dataVars,
     clientVars, unitVars
<1>2. pc'[x] = "start" /\ Only(x)
  BY <1>1, StepAt, AfterAt, GotoOnly DEF Buffers, IInv, Types, InCall, InHandler
<1>3. Holds(x) /\ Holds(x)'
  BY <1>1, <1>2 DEF Holds, HoldsAt
<1>4. /\ OwnFits(Core(x), pc[x], cur[x].mode, cur[x].id) /\ DataFits(pc[x], cur[x].mode, cur[x].id)
  BY <1>3 DEF JInv, Own, Data
<1>5. OwnFits(Core(x), pc[x], cur[x].mode, cur[x].id)'
  BY <1>1, <1>2, <1>4 DEF OwnFits, CallingAt, Modes
<1>6. DataFits(pc[x], cur[x].mode, cur[x].id)'
  BY <1>1, <1>2, <1>4 DEF DataFits, Clean, Moved, Copied, Over, Gone, Awaited, Sends, Modes
<1>7. (Calling(x)' => Calling(x)) /\ (Ending(x)' => Ending(x))
  BY <1>1, <1>2 DEF Calling, CallingAt, Ending, EndingAt, Modes
<1>8. pc'[x] \notin {"notify", "return"} /\ (pc'[x] = "off" => cur[x].mode = "irq")
  BY <1>1, <1>2
<1> QED
  BY <1>1, <1>2, <1>3, <1>5, <1>6, <1>7, <1>8, InsideJInv

(* The channel is done. *)
LEMMA WaitJInv ==
    ASSUME IInv, JInv, NEW x \in Contexts, Wait(x)
    PROVE  JInv'
<1>1. /\ pc[x] = "wait" /\ cur[x].mode = "sync" /\ ~chen
      /\ UNCHANGED <<dev, unit, lock, cur, ended, asynch, n, inst, prog, fifo, abrt, spoiled, delivered,
                     moved>>
  BY DEF Wait, At, IInv, ModesFit, ModeFits, channelVars, contextVars, plicVars, deviceVars, dataVars,
     clientVars, unitVars
<1>2. pc'[x] = "copy" /\ Only(x)
  BY <1>1, StepAt, AfterAt, GotoOnly DEF Wait, IInv, Types, InCall, InHandler
<1>3. Holds(x) /\ Holds(x)'
  BY <1>1, <1>2 DEF Holds, HoldsAt
<1>4. /\ OwnFits(Core(x), pc[x], cur[x].mode, cur[x].id) /\ DataFits(pc[x], cur[x].mode, cur[x].id)
  BY <1>3 DEF JInv, Own, Data
<1>5. OwnFits(Core(x), pc[x], cur[x].mode, cur[x].id)'
  BY <1>1, <1>2, <1>4 DEF OwnFits, CallingAt, Modes
<1>6. DataFits(pc[x], cur[x].mode, cur[x].id)'
  BY <1>1, <1>2, <1>4 DEF DataFits, Clean, Moved, Copied, Over, Gone, Awaited, Sends
<1>7. (Calling(x)' => Calling(x)) /\ (Ending(x)' => Ending(x))
  BY <1>1, <1>2 DEF Calling, CallingAt, Ending, EndingAt, Modes
<1>8. pc'[x] \notin {"notify", "return"} /\ (pc'[x] = "off" => cur[x].mode = "irq")
  BY <1>1, <1>2
<1> QED
  BY <1>1, <1>2, <1>3, <1>5, <1>6, <1>7, <1>8, InsideJInv

(* The handler clears the interrupt. *)
LEMMA ClearInHandlerJInv ==
    ASSUME IInv, JInv, NEW x \in Contexts, ClearInHandler(x)
    PROVE  JInv'
<1>1. /\ pc[x] = "iclear" /\ cur[x].mode = "irq"
      /\ UNCHANGED <<dev, unit, lock, cur, ended, asynch, n, inst, prog, fifo, abrt, spoiled, delivered,
                     moved>>
  BY DEF ClearInHandler, At, IInv, ModesFit, ModeFits, channelVars, contextVars, plicVars, deviceVars,
     dataVars, clientVars, unitVars
<1>2. pc'[x] = "copy" /\ Only(x)
  BY <1>1, StepAt, AfterAt, GotoOnly DEF ClearInHandler, IInv, Types, InCall, InHandler
<1>3. Holds(x) /\ Holds(x)'
  BY <1>1, <1>2 DEF Holds, HoldsAt
<1>4. /\ OwnFits(Core(x), pc[x], cur[x].mode, cur[x].id) /\ DataFits(pc[x], cur[x].mode, cur[x].id)
  BY <1>3 DEF JInv, Own, Data
<1>5. OwnFits(Core(x), pc[x], cur[x].mode, cur[x].id)'
  BY <1>1, <1>2, <1>4 DEF OwnFits, CallingAt, Modes
<1>6. DataFits(pc[x], cur[x].mode, cur[x].id)'
  BY <1>1, <1>2, <1>4 DEF DataFits, Clean, Moved, Copied, Over, Gone, Awaited, Sends
<1>7. (Calling(x)' => Calling(x)) /\ (Ending(x)' => Ending(x))
  BY <1>1, <1>2 DEF Calling, CallingAt, Ending, EndingAt, Modes
<1>8. pc'[x] \notin {"notify", "return"} /\ (pc'[x] = "off" => cur[x].mode = "irq")
  BY <1>1, <1>2
<1> QED
  BY <1>1, <1>2, <1>3, <1>5, <1>6, <1>7, <1>8, InsideJInv

(* The bounce buffer is given back. *)
LEMMA FreeBufferJInv ==
    ASSUME IInv, JInv, NEW x \in Contexts, FreeBuffer(x)
    PROVE  JInv'
<1>1. /\ pc[x] = "free" /\ cur[x].mode \in {"sync", "irq"}
      /\ UNCHANGED <<dev, unit, lock, cur, ended, asynch, n, inst, prog, fifo, abrt, spoiled, delivered,
                     moved>>
  BY DEF FreeBuffer, At, IInv, ModesFit, ModeFits, channelVars, contextVars, plicVars, deviceVars, dataVars,
     clientVars, unitVars
<1>2. pc'[x] = (IF cur[x].mode = "irq" THEN "unregister" ELSE "drain") /\ Only(x)
  BY <1>1, StepAt, AfterAt, GotoOnly DEF FreeBuffer, IInv, Types, InCall, InHandler
<1>3. Holds(x) /\ Holds(x)'
  BY <1>1, <1>2 DEF Holds, HoldsAt
<1>4. /\ OwnFits(Core(x), pc[x], cur[x].mode, cur[x].id) /\ DataFits(pc[x], cur[x].mode, cur[x].id)
  BY <1>3 DEF JInv, Own, Data
<1>5. OwnFits(Core(x), pc[x], cur[x].mode, cur[x].id)'
  BY <1>1, <1>2, <1>4 DEF OwnFits, CallingAt, Modes
<1>6. DataFits(pc[x], cur[x].mode, cur[x].id)'
  BY <1>1, <1>2, <1>4 DEF DataFits, Clean, Moved, Copied, Over, Gone, Awaited, Sends
<1>7. (Calling(x)' => Calling(x)) /\ (Ending(x)' => Ending(x))
  BY <1>1, <1>2 DEF Calling, CallingAt, Ending, EndingAt, Modes
<1>8. pc'[x] \notin {"notify", "return"} /\ (pc'[x] = "off" => cur[x].mode = "irq")
  BY <1>1, <1>2
<1> QED
  BY <1>1, <1>2, <1>3, <1>5, <1>6, <1>7, <1>8, InsideJInv

(* The callback is unregistered. *)
LEMMA UnregisterJInv ==
    ASSUME IInv, JInv, NEW x \in Contexts, Unregister(x)
    PROVE  JInv'
<1>1. /\ pc[x] = "unregister" /\ cur[x].mode = "irq"
      /\ UNCHANGED <<dev, unit, lock, cur, ended, asynch, n, inst, prog, fifo, abrt, spoiled, delivered,
                     moved>>
  BY DEF Unregister, At, IInv, ModesFit, ModeFits, channelVars, contextVars, plicVars, deviceVars, dataVars,
     clientVars, unitVars
<1>2. pc'[x] = "drain" /\ Only(x)
  BY <1>1, StepAt, AfterAt, GotoOnly DEF Unregister, IInv, Types, InCall, InHandler
<1>3. Holds(x) /\ Holds(x)'
  BY <1>1, <1>2 DEF Holds, HoldsAt
<1>4. /\ OwnFits(Core(x), pc[x], cur[x].mode, cur[x].id) /\ DataFits(pc[x], cur[x].mode, cur[x].id)
  BY <1>3 DEF JInv, Own, Data
<1>5. OwnFits(Core(x), pc[x], cur[x].mode, cur[x].id)'
  BY <1>1, <1>2, <1>4 DEF OwnFits, CallingAt, Modes
<1>6. DataFits(pc[x], cur[x].mode, cur[x].id)'
  BY <1>1, <1>2, <1>4 DEF DataFits, Clean, Moved, Copied, Over, Gone, Awaited, Sends
<1>7. (Calling(x)' => Calling(x)) /\ (Ending(x)' => Ending(x))
  BY <1>1, <1>2 DEF Calling, CallingAt, Ending, EndingAt, Modes
<1>8. pc'[x] \notin {"notify", "return"} /\ (pc'[x] = "off" => cur[x].mode = "irq")
  BY <1>1, <1>2
<1> QED
  BY <1>1, <1>2, <1>3, <1>5, <1>6, <1>7, <1>8, InsideJInv

(* What the device has moved is copied from the channel's buffer. *)
LEMMA CopyJInv ==
    ASSUME IInv, JInv, NEW x \in Contexts, Copy(x)
    PROVE  JInv'
<1>1. /\ pc[x] = "copy" /\ cur[x].mode \in {"sync", "irq"}
      /\ UNCHANGED <<dev, unit, lock, cur, ended, asynch, n, inst, prog, fifo, abrt, spoiled, moved>>
      /\ delivered' = IF ~Sends THEN delivered \cup ({bounce} \cap moved) ELSE delivered
  BY DEF Copy, At, IInv, ModesFit, ModeFits, channelVars, contextVars, plicVars, deviceVars, dataVars,
     clientVars, unitVars, CopyOut
<1>2. pc'[x] = "free" /\ Only(x)
  BY <1>1, StepAt, AfterAt, GotoOnly DEF Copy, IInv, Types, InCall, InHandler
<1>3. Holds(x) /\ Holds(x)'
  BY <1>1, <1>2 DEF Holds, HoldsAt
<1>4. /\ OwnFits(Core(x), pc[x], cur[x].mode, cur[x].id) /\ DataFits(pc[x], cur[x].mode, cur[x].id)
  BY <1>3 DEF JInv, Own, Data
<1>5. OwnFits(Core(x), pc[x], cur[x].mode, cur[x].id)'
  BY <1>1, <1>2, <1>4 DEF OwnFits, CallingAt, Modes
<1>6. prog = bounce
  BY <1>1, <1>3 DEF IInv, Phases, Phase, Owned
<1>7. DataFits(pc[x], cur[x].mode, cur[x].id)'
  BY <1>1, <1>2, <1>4, <1>6 DEF DataFits, Clean, Moved, Copied, Over, Gone, Awaited, Sends
<1>8. (Calling(x)' => Calling(x)) /\ (Ending(x)' => Ending(x))
  BY <1>1, <1>2 DEF Calling, CallingAt, Ending, EndingAt, Modes
<1>9. pc'[x] \notin {"notify", "return"} /\ (pc'[x] = "off" => cur[x].mode = "irq")
  BY <1>1, <1>2
<1> QED
  BY <1>1, <1>2, <1>3, <1>5, <1>7, <1>8, <1>9, InsideJInv

(* The transmitter waited for is empty: the data is where it should be, or *)
(* the bus has refused it, when the transmitter was the transfer's own.    *)
LEMMA WaitDrainedJInv ==
    ASSUME IInv, JInv, NEW x \in Contexts, WaitDrained(x)
    PROVE  JInv'
<1>1. /\ pc[x] = "drain" /\ cur[x].mode \in {"sync", "irq"}
      /\ unit = 0 \/ cur[x].mode = "sync" => fifo = {}
      /\ UNCHANGED <<dev, unit, lock, cur, ended, asynch, n, inst, prog, fifo, abrt, spoiled, delivered,
                     moved>>
  BY DEF WaitDrained, Astray, At, IInv, ModesFit, ModeFits, channelVars, contextVars, plicVars, deviceVars,
     dataVars, clientVars, unitVars
<1>2. pc'[x] = (IF cur[x].mode = "irq" /\ Spi THEN "off" ELSE "unlock") /\ Only(x)
  BY <1>1, StepAt, AfterAt, GotoOnly DEF WaitDrained, IInv, Types, InCall, InHandler
<1>3. Holds(x) /\ Holds(x)'
  BY <1>1, <1>2 DEF Holds, HoldsAt
<1>4. /\ OwnFits(Core(x), pc[x], cur[x].mode, cur[x].id) /\ DataFits(pc[x], cur[x].mode, cur[x].id)
  BY <1>3 DEF JInv, Own, Data
<1>5. OwnFits(Core(x), pc[x], cur[x].mode, cur[x].id)'
  BY <1>1, <1>2, <1>4 DEF OwnFits, CallingAt, Modes
<1>6. Over(prog)
  <2>1. Copied
    BY <1>1, <1>4 DEF DataFits
  <2>2. CASE unit = 0 \/ cur[x].mode = "sync" \/ ~Sends
    BY <1>1, <2>1, <2>2 DEF Copied, Moved, Over, Gone
  <2>3. CASE unit # 0 /\ cur[x].mode = "irq" /\ Sends
    <3>1. <<Core(x), inst>> \in asynch /\ prog = inst
      BY <1>1, <1>4, <2>3 DEF JInv, Carried, CarriedBy, Ending, EndingAt, DataFits
    <3>2. Core(x) \in Cores
      BY DEF Core, Contexts
    <3> QED
      BY <2>1, <2>3, <3>1, <3>2 DEF Copied, Moved, Over, Awaited
  <2> QED
    BY <1>1, <2>2, <2>3
<1>9. DataFits(pc[x], cur[x].mode, cur[x].id)'
  BY <1>1, <1>2, <1>4, <1>6 DEF DataFits, Over, Gone, Awaited, Sends
<1>7. (Calling(x)' => Calling(x)) /\ (Ending(x)' => Ending(x))
  BY <1>1, <1>2 DEF Calling, CallingAt, Ending, EndingAt, Modes
<1>8. pc'[x] \notin {"notify", "return"} /\ (pc'[x] = "off" => cur[x].mode = "irq")
  BY <1>1, <1>2
<1> QED
  BY <1>1, <1>2, <1>3, <1>5, <1>7, <1>8, <1>9, InsideJInv

(* A step that sets the channel going: the caller waits, or leaves. *)
LEMMA StartJInv ==
    ASSUME IInv, JInv, NEW x \in Contexts, Start(x)
    PROVE  JInv'
<1>1. /\ pc[x] = "start" /\ cur[x].mode \in Modes /\ chen' = TRUE
      /\ UNCHANGED <<dev, unit, lock, cur, inst, ended, asynch, n, prog, registered, fifo, abrt, spoiled,
                     delivered, moved>>
  BY DEF Start, At, IInv, ModesFit, ModeFits, contextVars, plicVars, deviceVars, dataVars, clientVars,
     unitVars
<1>2. AfterStart(x) = IF cur[x].mode = "sync" THEN "wait" ELSE IF Isr(x) THEN "complete" ELSE "idle"
  BY DEF AfterStart
<1>3. pc'[x] = (IF Spi THEN "select" ELSE AfterStart(x)) /\ Only(x)
  BY <1>1, <1>2, StepAt, GotoOnly DEF Start, IInv, Types, InCall, InHandler
<1>4. Holds(x) /\ Core(x) \in Cores
  BY <1>1 DEF Holds, HoldsAt, Contexts, Core
<1>5. /\ OwnFits(Core(x), "start", cur[x].mode, cur[x].id) /\ DataFits("start", cur[x].mode, cur[x].id)
  BY <1>1, <1>4 DEF JInv, Own, Data
<1>6. pc'[x] \in {"select", "wait", "complete", "idle"} /\ (pc'[x] = "wait" => cur[x].mode = "sync")
  BY <1>2, <1>3
<1>7. OwnFits(Core(x), pc[x], cur[x].mode, cur[x].id)'
  BY <1>1, <1>5, <1>6 DEF OwnFits, CallingAt
<1>8. (Calling(x)' => Calling(x)) /\ ~Ending(x)' /\ Calling(x)
  BY <1>1, <1>6 DEF Calling, CallingAt, Ending, EndingAt, Modes
<1>9. CASE cur[x].mode = "sync"
  <2>1. pc'[x] \in {"select", "wait"} /\ Holds(x)'
    BY <1>1, <1>2, <1>3, <1>9 DEF Holds, HoldsAt
  <2>2. DataFits(pc[x], cur[x].mode, cur[x].id)'
    BY <1>1, <1>5, <1>9, <2>1 DEF DataFits, Clean
  <2> QED
    BY <1>1, <1>3, <1>4, <1>5, <1>6, <1>7, <1>8, <2>1, <2>2, InsideJInv
<1>10. CASE cur[x].mode = "async"
  <2>1. ~Holds(x)' /\ ~Calling(x)'
    BY <1>1, <1>2, <1>3, <1>10 DEF Holds, HoldsAt, Calling, CallingAt
  <2>2. registered = {Core(x)}
    BY <1>1, <1>4, <1>10 DEF IInv, Phases, Phase, Armed
  <2>3. <<Core(x), inst>> \in asynch /\ ended[inst] = 0 /\ inst = cur[x].id /\ prog = inst /\ Clean
    BY <1>5, <1>10 DEF OwnFits, CallingAt, DataFits, Modes
  <2>4. \A y \in Contexts : Calling(y)' => cur'[y].id # inst'
    BY <1>1, <1>3, <1>8, <2>1, <2>3, OthersCall DEF JInv, Own
  <2>5. LaunchedBy
    BY <1>1, <2>2, <2>3, <2>4 DEF LaunchedBy, CarriedBy, Clean
  <2> QED
    BY <1>1, <1>3, <1>4, <1>5, <1>6, <1>7, <1>8, <1>10, <2>1, <2>5, InsideJInv
<1> QED
  BY <1>1, <1>9, <1>10 DEF Modes

(* The I2C handler gives up: unit 0 has met an abort. *)
LEMMA GiveUpJInv ==
    ASSUME IInv, JInv, NEW x \in Contexts, GiveUp(x)
    PROVE  JInv'
<1>1. /\ pc[x] = "drain" /\ cur[x].mode = "irq" /\ (unit = 0 => abrt) /\ lock' = 0
      /\ pc' = [pc EXCEPT ![x] = "complete"]
      /\ UNCHANGED <<dev, unit, cur, inst, ended, asynch, n, fifo, abrt, spoiled, delivered, moved>>
  BY DEF GiveUp, Astray, Unlock, At, Goto, channelVars, contextVars, plicVars, deviceVars, dataVars,
     clientVars, unitVars
<1>2. pc'[x] = "complete" /\ Only(x)
  BY <1>1, GotoOnly DEF GiveUp, IInv, Types, InHandler
<1>3. Holds(x) /\ ~Holds(x)' /\ ~Calling(x)' /\ ~Ending(x)'
  BY <1>1, <1>2 DEF Holds, HoldsAt, Calling, CallingAt, Ending, EndingAt, Modes
<1>4. OwnFits(Core(x), pc[x], cur[x].mode, cur[x].id)'
  BY <1>1 DEF OwnFits, CallingAt, Modes
<1> QED
  BY <1>1, <1>2, <1>3, <1>4, InsideJInv

(* The spinlock is freed; the handler will tell the client, the waiting    *)
(* caller has its data.                                                    *)
LEMMA ReleaseJInv ==
    ASSUME IInv, JInv, NEW x \in Contexts, Release(x)
    PROVE  JInv'
<1>1. /\ pc[x] = "unlock" /\ cur[x].mode \in {"sync", "irq"} /\ lock' = 0
      /\ (Isr(x) \/ pc[<<Core(x), "isr">>] = "idle")
      /\ UNCHANGED <<dev, unit, cur, inst, ended, asynch, n, prog, fifo, abrt, spoiled, delivered, moved>>
  BY DEF Release, Unlock, At, IInv, ModesFit, ModeFits, channelVars, contextVars, plicVars, deviceVars,
     dataVars, clientVars, unitVars
<1>2. /\ pc'[x] = IF cur[x].mode = "irq" THEN "notify" ELSE IF Spi THEN "off" ELSE "return"
      /\ Only(x)
  BY <1>1, AfterAt, GotoOnly DEF Release, IInv, Types, InCall, InHandler
<1>3. Holds(x) /\ ~Holds(x)'
  BY <1>1, <1>2 DEF Holds, HoldsAt
<1>4. /\ OwnFits(Core(x), "unlock", cur[x].mode, cur[x].id) /\ DataFits("unlock", cur[x].mode, cur[x].id)
  BY <1>1, <1>3 DEF JInv, Own, Data
<1>5. OwnFits(Core(x), pc[x], cur[x].mode, cur[x].id)'
  BY <1>1, <1>2, <1>4 DEF OwnFits, CallingAt, Modes
<1>6. /\ prog = (IF cur[x].mode = "irq" THEN inst ELSE cur[x].id)
      /\ Over(prog) /\ (unit = 0 => fifo = {})
  BY <1>4 DEF DataFits
<1>7. (Calling(x)' => Calling(x)) /\ (Ending(x)' => Ending(x))
  BY <1>1, <1>2 DEF Calling, CallingAt, Ending, EndingAt, Modes
<1>8. (pc'[x] = "notify" => Over(inst)') /\ (cur[x].mode = "sync" => Over(cur[x].id)')
  BY <1>1, <1>2, <1>6 DEF Over, Gone, Awaited, Sends
<1>9. pc'[x] = "off" /\ cur[x].mode = "sync" => Spi
  BY <1>1, <1>2
<1> QED
  BY <1>1, <1>2, <1>3, <1>4, <1>5, <1>6, <1>7, <1>8, <1>9, InsideJInv

-----------------------------------------------------------------------------
(* Steps outside the spinlock. *)

(* x does nothing to the data; it may tell the clients of transfers T,     *)
(* which nobody is at work on any more.                                    *)
LEMMA OutsideJInv ==
    ASSUME IInv, JInv, NEW x \in Contexts, Only(x), ~Holds(x), ~Holds(x)', cur'[x] = cur[x],
           UNCHANGED <<dev, unit, lock, inst, chen, prog, registered, fifo, abrt, spoiled, delivered, moved,
                       asynch, n>>,
           ~Calling(x)', ~Ending(x)', pc'[x] \in {"idle", "client", "complete"},
           pc[x] # "idle",
           \E T \in SUBSET (1 .. n) :
              /\ ended' = [t \in Transfers |-> IF t \in T THEN 1 ELSE ended[t]]
              /\ \A t \in T : ended[t] = 0 /\ Over(t)
              /\ \A y \in Contexts : Calling(y)' => cur[y].id \notin T
              /\ \A y \in Contexts : Ending(y)' => inst \notin T
              /\ lock = -1 /\ Alone => inst \notin T
    PROVE  JInv'
<1>1. \A y \in Contexts : Holds(y)' <=> Holds(y)
  BY OthersCall
<1>2. /\ \A y \in Contexts : Calling(y)' => y # x /\ Calling(y) /\ cur'[y] = cur[y]
      /\ \A y \in Contexts : Ending(y)' => y # x /\ Ending(y)
  BY OthersCall
<1>3. PICK T \in SUBSET (1 .. n) :
        /\ ended' = [t \in Transfers |-> IF t \in T THEN 1 ELSE ended[t]]
        /\ \A t \in T : ended[t] = 0 /\ Over(t)
        /\ \A y \in Contexts : Calling(y)' => cur[y].id \notin T
        /\ \A y \in Contexts : Ending(y)' => inst \notin T
        /\ lock = -1 /\ Alone => inst \notin T
  OBVIOUS
<1>4. Counted'
  <2>1. n \in 0 .. MaxTransfers /\ MaxTransfers \in Nat
    BY BoundAssumption DEF JInv, Counted
  <2>2. ended' \in [Transfers -> Nat]
    BY <1>3 DEF JInv, Counted
  <2>3. ASSUME NEW t \in Transfers, t > n PROVE ended'[t] = 0
    <3>1. t \notin T
      BY <2>1, <2>3 DEF Transfers
    <3> QED
      BY <1>3, <2>3, <3>1 DEF JInv, Counted
  <2> QED
    BY <2>2, <2>3 DEF JInv, Counted
<1>5. \A t \in Transfers : ended'[t] = 0 => ended[t] = 0
  BY <1>3
<1>6. asynch \subseteq Cores \X (1 .. n) /\ 1 .. n \subseteq Transfers
  BY BoundAssumption DEF JInv, Counted, Transfers
<1>7. Turns'
  <2>1. \A p \in asynch : p[2] \in Transfers
    BY <1>6
  <2> QED
    BY <1>5, <2>1 DEF JInv, Turns
<1>8. Own'
  <2>1. ASSUME NEW y \in Contexts PROVE OwnFits(Core(y), pc[y], cur[y].mode, cur[y].id)'
    <3>1. CASE Calling(y)'
      <4>1. /\ pc'[y] = pc[y] /\ cur'[y] = cur[y] /\ Calling(y) /\ cur[y].id \notin T
            /\ OwnFits(Core(y), pc[y], cur[y].mode, cur[y].id)
        BY <1>2, <1>3, <3>1, OthersCall DEF JInv, Own
      <4>2. cur[y].id \in 1 .. n /\ ended[cur[y].id] = 0
        BY <4>1 DEF OwnFits, Calling
      <4>3. ended'[cur[y].id] = 0
        BY <1>3, <1>6, <4>1, <4>2
      <4> QED
        BY <4>1, <4>3 DEF OwnFits
    <3>2. CASE ~Calling(y)'
      BY <3>2 DEF OwnFits, Calling
    <3> QED
      BY <3>1, <3>2
  <2>2. \A y, z \in Contexts : Calling(y)' /\ Calling(z)' /\ cur'[y].id = cur'[z].id => y = z
    BY <1>2 DEF JInv, Own
  <2> QED
    BY <2>1, <2>2 DEF Own
<1>9. ASSUME NEW c, CarriedBy(c), inst \notin T PROVE CarriedBy(c)'
  <2>1. inst \in Transfers
    BY <1>6, <1>9 DEF CarriedBy
  <2>2. ended'[inst] = 0
    BY <1>3, <1>9, <2>1 DEF CarriedBy
  <2> QED
    BY <1>2, <1>9, <2>2 DEF CarriedBy
<1>10. Carried'
  <2>1. ASSUME NEW y \in Contexts, Ending(y)' PROVE CarriedBy(Core(y))'
    BY <1>2, <1>3, <1>9, <2>1 DEF JInv, Carried
  <2>2. ASSUME lock' = -1, Alone', NEW c \in registered' PROVE CarriedBy(c)'
    BY <1>1, <1>3, <1>9, <2>2 DEF JInv, Carried, Alone
  <2>3. ASSUME NEW y \in Contexts, pc'[y] = "notify"
        PROVE  (lock' = -1 => ~Alone') /\ \A z \in Contexts : Holds(z)' => cur'[z].mode = "sync"
    <3>1. pc[y] = "notify"
      BY <2>3, OthersCall
    <3> QED
      BY <1>1, <3>1, OthersCall DEF JInv, Carried, Alone
  <2> QED
    BY <2>1, <2>2, <2>3 DEF Carried
<1>11. Data'
  <2>1. ASSUME NEW y \in Contexts, Holds(y)' PROVE DataFits(pc[y], cur[y].mode, cur[y].id)'
    <3>1. pc'[y] = pc[y] /\ cur'[y] = cur[y] /\ DataFits(pc[y], cur[y].mode, cur[y].id)
      BY <1>1, <2>1, OthersCall DEF JInv, Data
    <3> QED
      BY <3>1 DEF DataFits, Clean, Moved, Copied, Over, Gone, Awaited, Sends
  <2>2. lock' = -1 /\ Alone' => prog' = inst' /\ IF chen' THEN Clean' ELSE Moved'
    BY <1>1 DEF JInv, Data, Alone, Clean, Moved, Sends
  <2>3. unit = 0 /\ lock' = 0 => fifo' = {} \/ abrt'
    BY DEF JInv, Data
  <2>4. ASSUME NEW y \in Contexts
        PROVE  /\ pc'[y] = "notify" => Over(inst)'
               /\ pc'[y] \in {"off", "return"} /\ cur'[y].mode = "sync" => Over(cur[y].id)'
    BY OthersCall DEF JInv, Data, Over, Gone, Awaited, Sends
  <2> QED
    BY <2>1, <2>2, <2>3, <2>4 DEF Data
<1>12. Switching'
  <2> SUFFICES ASSUME NEW y \in Contexts, pc'[y] = "off", cur'[y].mode = "sync"
               PROVE  Spi /\ lock = 0 /\ (~Isr(y) => pc'[<<Core(y), "isr">>] = "idle")
    BY DEF Switching, Spi
  <2>1. Spi /\ lock = 0 /\ (~Isr(y) => pc[<<Core(y), "isr">>] = "idle")
    BY OthersCall DEF JInv, Switching
  <2>2. CASE <<Core(y), "isr">> # x
    <3>1. <<Core(y), "isr">> \in Contexts
      BY DEF Contexts, Core
    <3> QED
      BY <2>1, <2>2, <3>1, OthersCall
  <2>3. CASE <<Core(y), "isr">> = x
    <3>1. Isr(x)
      BY <2>3 DEF Isr
    <3> QED
      BY <2>1, <2>3, <3>1
  <2> QED
    BY <2>2, <2>3
<1>13. ToldOnceWhenDone'
  BY <1>3, <1>6 DEF JInv, ToldOnceWhenDone, Over, Gone, Awaited, Sends
<1> QED
  BY <1>4, <1>7, <1>8, <1>10, <1>11, <1>12, <1>13 DEF JInv

(* x tells nobody.                                                         *)
LEMMA SilentJInv ==
    ASSUME IInv, JInv, NEW x \in Contexts, Only(x), ~Holds(x), ~Holds(x)', cur'[x] = cur[x],
           UNCHANGED <<dev, unit, lock, inst, chen, prog, registered, fifo, abrt, spoiled, delivered, moved,
                       ended, asynch, n>>,
           ~Calling(x)', ~Ending(x)', pc'[x] \in {"idle", "client", "complete"},
           pc[x] # "idle"
    PROVE  JInv'
<1>1. ended' = [t \in Transfers |-> IF t \in {} THEN 1 ELSE ended[t]]
  BY DEF JInv, Counted
<1>2. \E T \in SUBSET (1 .. n) :
        /\ ended' = [t \in Transfers |-> IF t \in T THEN 1 ELSE ended[t]]
        /\ \A t \in T : ended[t] = 0 /\ Over(t)
        /\ \A y \in Contexts : Calling(y)' => cur[y].id \notin T
        /\ \A y \in Contexts : Ending(y)' => inst \notin T
        /\ lock = -1 /\ Alone => inst \notin T
  <2> WITNESS {} \in SUBSET (1 .. n)
  <2> QED
    BY <1>1
<1> QED
  BY <1>2, OutsideJInv

(* A caller or the handler tells the client of its transfer.               *)
LEMMA ReturnJInv ==
    ASSUME IInv, JInv, NEW x \in Contexts, Return(x)
    PROVE  JInv'
<1> DEFINE t == cur[x].id
<1>1. /\ pc[x] = "return" /\ cur[x].mode = "sync" /\ Ready(x) \in {"client", "idle"}
      /\ UNCHANGED <<dev, unit, lock, cur, inst, chen, prog, registered, fifo, abrt, spoiled, delivered,
                     moved, asynch, n>>
      /\ ended' = [ended EXCEPT ![t] = @ + 1]
  BY DEF Return, Tell, At, Ready, IInv, ModesFit, ModeFits, channelVars, contextVars, plicVars, deviceVars,
     dataVars, unitVars, clientVars
<1>2. pc'[x] \in {"client", "idle"} /\ Only(x)
  BY <1>1, GotoOnly DEF Return, IInv, Types, InHandler
<1>3. ~Holds(x) /\ ~Holds(x)' /\ ~Calling(x)' /\ ~Ending(x)' /\ Calling(x)
  BY <1>1, <1>2 DEF Holds, HoldsAt, Calling, CallingAt, Ending, EndingAt, Modes
<1>4. t \in 1 .. n /\ ended[t] = 0 /\ Over(t)
  BY <1>1, <1>3 DEF JInv, Own, OwnFits, Calling, Data
<1>5. ended' = [u \in Transfers |-> IF u \in {t} THEN 1 ELSE ended[u]]
  <2>1. ended \in [Transfers -> Nat] /\ t \in Transfers /\ ended[t] = 0
    BY <1>4, BoundAssumption DEF JInv, Counted, Transfers, CarriedBy
  <2>2. /\ ended' \in [Transfers -> Nat]
        /\ \A u \in Transfers : ended'[u] = IF u \in {t} THEN 1 ELSE ended[u]
    BY <1>1, <2>1
  <2> QED
    BY <2>2
<1>6. \A y \in Contexts : Calling(y)' => cur[y].id \notin {t}
  BY <1>2, <1>3, OthersCall DEF JInv, Own
<1>7. \A y \in Contexts : Ending(y)' => inst \notin {t}
  BY <1>2, <1>3, OthersCall DEF JInv, Carried, CarriedBy
<1>8. lock = -1 /\ Alone => inst \notin {t}
  <2> SUFFICES ASSUME lock = -1, Alone PROVE inst # t
    OBVIOUS
  <2>1. PICK c \in Cores : registered = {c}
    BY DEF IInv, Left, Flight, Armed
  <2> QED
    BY <1>3, <2>1 DEF JInv, Carried, CarriedBy
<1>9. {t} \in SUBSET (1 .. n)
  BY <1>4
<1> QED
  BY <1>1, <1>2, <1>3, <1>4, <1>5, <1>6, <1>7, <1>8, <1>9, OutsideJInv

LEMMA NotifyJInv ==
    ASSUME IInv, JInv, NEW x \in Contexts, Notify(x)
    PROVE  JInv'
<1>1. /\ pc[x] = "notify" /\ cur[x].mode = "irq"
      /\ UNCHANGED <<dev, unit, lock, cur, inst, chen, prog, registered, fifo, abrt, spoiled, delivered,
                     moved, asynch, n>>
      /\ ended' = [ended EXCEPT ![inst] = @ + 1]
  BY DEF Notify, Tell, At, IInv, ModesFit, ModeFits, channelVars, contextVars, plicVars, deviceVars,
     dataVars, unitVars, clientVars
<1>2. pc'[x] = "client" /\ Only(x)
  BY <1>1, GotoOnly DEF Notify, IInv, Types, InHandler
<1>3. ~Holds(x) /\ ~Holds(x)' /\ ~Calling(x)' /\ ~Ending(x)' /\ Ending(x)
  BY <1>1, <1>2 DEF Holds, HoldsAt, Calling, CallingAt, Ending, EndingAt, Modes
<1>4. CarriedBy(Core(x)) /\ Over(inst) /\ inst \in 1 .. n
  <2>1. CarriedBy(Core(x)) /\ Over(inst)
    BY <1>1, <1>3 DEF JInv, Carried, Data
  <2> QED
    BY <2>1 DEF CarriedBy, JInv, Counted
<1>5. ended' = [u \in Transfers |-> IF u \in {inst} THEN 1 ELSE ended[u]]
  <2>1. ended \in [Transfers -> Nat] /\ inst \in Transfers /\ ended[inst] = 0
    BY <1>4, BoundAssumption DEF JInv, Counted, Transfers, CarriedBy
  <2>2. /\ ended' \in [Transfers -> Nat]
        /\ \A u \in Transfers : ended'[u] = IF u \in {inst} THEN 1 ELSE ended[u]
    BY <1>1, <2>1
  <2> QED
    BY <2>2
<1>6. \A y \in Contexts : Calling(y)' => cur[y].id \notin {inst}
  BY <1>2, <1>3, <1>4, OthersCall DEF CarriedBy
<1>7. \A y \in Contexts : ~Ending(y)'
  <2> SUFFICES ASSUME NEW y \in Contexts, y # x PROVE ~Ending(y)
    BY <1>2, <1>3, OthersCall
  <2>1. Isr(x)
    BY <1>1 DEF IInv, ModesFit, InPlace
  <2>2. Ending(y) => Isr(y) /\ pc[y] # "idle"
    BY DEF Ending, EndingAt, IInv, ModesFit, InPlace
  <2> QED
    BY <1>1, <2>1, <2>2 DEF IInv, Served
<1>8. ~(lock = -1 /\ Alone)
  BY <1>1 DEF JInv, Carried
<1>9. {inst} \in SUBSET (1 .. n) /\ ended[inst] = 0
  BY <1>4 DEF CarriedBy
<1> QED
  BY <1>1, <1>2, <1>3, <1>4, <1>5, <1>6, <1>7, <1>8, <1>9, OutsideJInv

(* The client's callback returns; the handler completes.                   *)
LEMMA HandlerReturnsJInv ==
    ASSUME IInv, JInv, NEW x \in Contexts, CallbackReturns(x) \/ Complete(x)
    PROVE  JInv'
<1>1. /\ pc[x] \in {"client", "complete"}
      /\ UNCHANGED <<dev, unit, lock, cur, inst, chen, prog, registered, fifo, abrt, spoiled, delivered,
                     moved, asynch, n, ended>>
  BY DEF CallbackReturns, Complete, At, channelVars, contextVars, plicVars, deviceVars, dataVars,
     clientVars, unitVars
<1>2. pc'[x] \in {"complete", "idle"} /\ Only(x)
  <2>1. CASE CallbackReturns(x)
    BY <1>1, <2>1, GotoOnly DEF CallbackReturns, IInv, Types, InHandler
  <2>2. CASE Complete(x)
    BY <1>1, <2>2, GotoOnly DEF Complete, IInv, Types
  <2> QED
    BY <2>1, <2>2
<1>3. ~Holds(x) /\ ~Holds(x)' /\ ~Calling(x)' /\ ~Ending(x)'
  BY <1>1, <1>2 DEF Holds, HoldsAt, Calling, CallingAt, Ending, EndingAt, Modes
<1> QED
  BY <1>1, <1>2, <1>3, SilentJInv

(* SPI selects the slave: a waiting caller goes on to wait, one that does  *)
(* not wait is done.                                                       *)
LEMMA SelectJInv ==
    ASSUME IInv, JInv, NEW x \in Contexts, Select(x)
    PROVE  JInv'
<1>1. /\ pc[x] = "select" /\ cur[x].mode \in Modes
      /\ UNCHANGED <<dev, unit, lock, cur, inst, chen, prog, registered, fifo, abrt, spoiled, delivered,
                     moved, ended, asynch, n>>
  BY DEF Select, At, IInv, ModesFit, ModeFits, channelVars, contextVars, plicVars, dataVars, clientVars,
     unitVars
<1>2. pc'[x] = (IF cur[x].mode = "sync" THEN "wait" ELSE IF Isr(x) THEN "complete" ELSE "idle") /\ Only(x)
  BY <1>1, StepAt, GotoOnly DEF Select, AfterStart, IInv, Types, InCall, InHandler
<1>3. CASE cur[x].mode = "sync"
  <2>1. pc'[x] = "wait" /\ Holds(x) /\ Holds(x)'
    BY <1>1, <1>2, <1>3 DEF Holds, HoldsAt
  <2>2. /\ OwnFits(Core(x), pc[x], cur[x].mode, cur[x].id) /\ DataFits(pc[x], cur[x].mode, cur[x].id)
    BY <2>1 DEF JInv, Own, Data
  <2>3. OwnFits(Core(x), pc[x], cur[x].mode, cur[x].id)'
    BY <1>1, <1>3, <2>1, <2>2 DEF OwnFits, CallingAt, Modes
  <2>4. DataFits(pc[x], cur[x].mode, cur[x].id)'
    BY <1>1, <2>1, <2>2 DEF DataFits, Clean, Moved, Sends
  <2>5. (Calling(x)' => Calling(x)) /\ (Ending(x)' => Ending(x))
    BY <1>1, <1>3, <2>1 DEF Calling, CallingAt, Ending, EndingAt, Modes
  <2> QED
    BY <1>1, <1>2, <2>1, <2>2, <2>3, <2>4, <2>5, InsideJInv
<1>4. CASE cur[x].mode = "async"
  <2>1. pc'[x] \in {"complete", "idle"}
    BY <1>2, <1>4
  <2>2. ~Holds(x) /\ ~Holds(x)' /\ ~Calling(x)' /\ ~Ending(x)'
    BY <1>1, <1>4, <2>1 DEF Holds, HoldsAt, Calling, CallingAt, Ending, EndingAt
  <2> QED
    BY <1>1, <1>2, <2>1, <2>2, SilentJInv
<1> QED
  BY <1>1, <1>3, <1>4 DEF Modes

(* SPI is switched off: by the handler under the spinlock, by the waiting  *)
(* caller when no other transfer has the unit.                             *)
LEMMA OffJInv ==
    ASSUME IInv, JInv, NEW x \in Contexts, Off(x)
    PROVE  JInv'
<1>1. /\ pc[x] = "off" /\ cur[x].mode \in {"sync", "irq"}
      /\ unit = 0 \/ cur[x].mode = "sync" => fifo' = {}
      /\ UNCHANGED <<dev, unit, lock, cur, inst, chen, prog, registered, abrt, spoiled, delivered, moved,
                     ended, asynch, n>>
  BY DEF Off, SpiOff, Astray, At, IInv, ModesFit, ModeFits, channelVars, contextVars, plicVars, dataVars,
     clientVars, unitVars
<1>2. pc'[x] = (IF cur[x].mode = "irq" THEN "unlock" ELSE "return") /\ Only(x)
  BY <1>1, AfterAt, GotoOnly DEF Off, IInv, Types, InCall, InHandler
<1>3. CASE cur[x].mode = "irq"
  <2>1. pc'[x] = "unlock" /\ Holds(x) /\ Holds(x)'
    BY <1>1, <1>2, <1>3 DEF Holds, HoldsAt
  <2>2. DataFits(pc[x], cur[x].mode, cur[x].id)
    BY <2>1 DEF JInv, Data
  <2>3. DataFits(pc[x], cur[x].mode, cur[x].id)'
    BY <1>1, <2>1, <2>2 DEF DataFits, Over, Gone, Awaited, Sends
  <2>4. OwnFits(Core(x), pc[x], cur[x].mode, cur[x].id)' /\ ~Calling(x)' /\ (Ending(x)' => Ending(x))
    BY <1>1, <1>3 DEF OwnFits, Calling, CallingAt, Ending, EndingAt, Modes
  <2> QED
    BY <1>1, <1>2, <1>3, <2>1, <2>3, <2>4, InsideJInv
<1>4. CASE cur[x].mode = "sync"
  <2>1. pc'[x] = "return" /\ lock = 0 /\ ~Holds(x)'
    BY <1>1, <1>2, <1>4 DEF JInv, Switching, Holds, HoldsAt
  <2>2. \A y \in Contexts : ~Holds(y)'
    BY <2>1, OthersCall, <1>2 DEF IInv, LockExact
  <2>3. Calling(x) /\ Calling(x)' /\ ~Ending(x)'
    BY <1>1, <1>4, <2>1 DEF Calling, CallingAt, Ending, EndingAt, Modes
  <2>4. \A y \in Contexts : /\ Calling(y)' => Calling(y) /\ cur'[y] = cur[y]
                            /\ Ending(y)' => Ending(y)
                            /\ pc'[y] = pc[y] \/ y = x
    BY <1>1, <1>2, <2>3, OthersCall
  <2>5. Counted' /\ Turns' /\ ToldOnceWhenDone'
    BY <1>1 DEF JInv, Counted, Turns, ToldOnceWhenDone, Awaited, Sends
  <2>6. Own'
    <3>1. ASSUME NEW y \in Contexts PROVE OwnFits(Core(y), pc[y], cur[y].mode, cur[y].id)'
      <4>1. OwnFits(Core(y), pc[y], cur[y].mode, cur[y].id)
        BY DEF JInv, Own
      <4> QED
        BY <1>1, <2>1, <2>3, <2>4, <4>1 DEF OwnFits, Calling, CallingAt
    <3> QED
      BY <2>4, <3>1 DEF JInv, Own
  <2>7. Carried'
    <3>1. ASSUME NEW y \in Contexts, Ending(y)' PROVE CarriedBy(Core(y))'
      <4>1. CarriedBy(Core(y))
        BY <2>4, <3>1 DEF JInv, Carried
      <4> QED
        BY <1>1, <2>4, <4>1, CarriedByKept
    <3> QED
      BY <1>1, <2>1, <2>2, <3>1 DEF Carried
  <2>8. Switching'
    <3> SUFFICES ASSUME NEW y \in Contexts, pc'[y] = "off", cur'[y].mode = "sync"
                 PROVE  Spi /\ lock = 0 /\ (~Isr(y) => pc'[<<Core(y), "isr">>] = "idle")
      BY <1>1 DEF Switching, Spi
    <3>1. pc[y] = "off" /\ cur[y].mode = "sync"
      BY <1>1, <2>1, <2>4
    <3>2. Spi /\ lock = 0 /\ (~Isr(y) => pc[<<Core(y), "isr">>] = "idle")
      BY <3>1 DEF JInv, Switching
    <3>3. <<Core(y), "isr">> \in Contexts
      BY DEF Contexts, Core
    <3> QED
      BY <1>1, <2>4, <3>2, <3>3
  <2>9. Data'
    <3>1. \A y \in Contexts : /\ pc'[y] = "notify" => Over(inst)'
                              /\ pc'[y] \in {"off", "return"} /\ cur'[y].mode = "sync" => Over(cur[y].id)'
      BY <1>1, <1>4, <2>1, <2>4 DEF JInv, Data, Over, Gone, Awaited, Sends
    <3> QED
      BY <1>1, <2>1, <2>2, <3>1 DEF Data
  <2> QED
    BY <2>5, <2>6, <2>7, <2>8, <2>9 DEF JInv
<1> QED
  BY <1>1, <1>3, <1>4

(* The spinlock is taken: not while an SPI caller is still to switch the   *)
(* unit off, and not for a callback while another is to be called.         *)
LEMMA LockJInv ==
    ASSUME SpiCallers, IInv, JInv, NEW x \in Contexts, Lock(x)
    PROVE  JInv'
<1>1. /\ pc[x] = "lock" /\ cur[x].mode \in Modes /\ lock = 0 /\ lock' = -1
      /\ (Isr(x) \/ pc[<<Core(x), "isr">>] = "idle")
      /\ UNCHANGED <<dev, unit, cur, inst, chen, prog, registered, fifo, abrt, spoiled, delivered, moved,
                     ended, asynch, n>>
  BY DEF Lock, At, IInv, ModesFit, ModeFits, channelVars, contextVars, plicVars, deviceVars, dataVars,
     clientVars, unitVars
<1>2. pc'[x] = "fill" /\ Only(x)
  BY <1>1, StepAt, GotoOnly DEF Lock, IInv, Types, InCall
<1>3. \A y \in Contexts : ~Holds(y)
  BY <1>1 DEF IInv, LockExact
<1>4. Holds(x)' /\ \A y \in Contexts : Holds(y)' => y = x
  BY <1>2, <1>3, OthersCall DEF Holds, HoldsAt
<1>5. Calling(x) /\ Calling(x)' /\ ~Ending(x)'
  BY <1>1, <1>2 DEF Calling, CallingAt, Ending, EndingAt, Modes
<1>6. \A y \in Contexts : /\ Calling(y)' => Calling(y) /\ cur'[y] = cur[y]
                          /\ Ending(y)' => Ending(y)
                          /\ pc'[y] = pc[y] \/ y = x
  BY <1>1, <1>2, <1>5, OthersCall
<1>7. Counted' /\ Turns' /\ ToldOnceWhenDone'
  BY <1>1 DEF JInv, Counted, Turns, ToldOnceWhenDone, Awaited, Sends
<1>8. OwnFits(Core(x), pc[x], cur[x].mode, cur[x].id)
  BY DEF JInv, Own
<1>9. Own'
  <2>1. ASSUME NEW y \in Contexts PROVE OwnFits(Core(y), pc[y], cur[y].mode, cur[y].id)'
    <3>1. OwnFits(Core(y), pc[y], cur[y].mode, cur[y].id)
      BY DEF JInv, Own
    <3> QED
      BY <1>1, <1>2, <1>5, <1>6, <3>1 DEF OwnFits, Calling, CallingAt
  <2> QED
    BY <1>6, <2>1 DEF JInv, Own
(* Two contexts of one core do not run at once. *)
<1>10. ASSUME NEW y \in Contexts, y # x, Core(y) = Core(x), Isr(y), pc[y] # "idle" PROVE FALSE
  <2>1. y = <<Core(y), "isr">>
    BY <1>10 DEF Contexts, Core, Isr
  <2>2. ~Isr(x)
    BY <1>10, <2>1 DEF Contexts, Core, Isr
  <2> QED
    BY <1>1, <1>10, <2>1, <2>2
<1>11. ASSUME NEW y \in Contexts, Ending(y), cur[x].mode = "async" PROVE FALSE
  <2>1. <<Core(y), inst>> \in asynch /\ ended[inst] = 0
    BY <1>11 DEF JInv, Carried, CarriedBy
  <2>2. <<Core(x), cur[x].id>> \in asynch /\ ended[cur[x].id] = 0
    BY <1>5, <1>8, <1>11 DEF OwnFits, Calling
  <2>3. Core(y) = Core(x)
    BY <2>1, <2>2 DEF JInv, Turns
  <2>4. y # x /\ Isr(y) /\ pc[y] # "idle"
    BY <1>1, <1>11 DEF Ending, EndingAt, IInv, ModesFit, InPlace
  <2> QED
    BY <1>10, <2>3, <2>4
<1>12. ASSUME NEW y \in Contexts, pc[y] = "off", cur[y].mode = "sync" PROVE FALSE
  <2>1. Spi /\ (~Isr(y) => pc[<<Core(y), "isr">>] = "idle") /\ y # x
    BY <1>1, <1>12 DEF JInv, Switching
  <2>2. Calling(y) /\ OwnFits(Core(y), pc[y], cur[y].mode, cur[y].id)
    BY <1>12 DEF JInv, Own, Calling, CallingAt, Modes
  <2>3. PICK r \in Calls : r.dev = dev /\ r.unit = unit /\ r.core = Core(y) /\ r.mode = "sync"
    BY <1>12, <2>2 DEF OwnFits, Calling
  <2>4. PICK s \in Calls : s.dev = dev /\ s.unit = unit /\ s.core = Core(x)
    BY <1>5, <1>8 DEF OwnFits, Calling
  <2>5. Core(x) = Core(y)
    BY <2>1, <2>3, <2>4 DEF SpiCallers, Spi
  <2>6. CASE Isr(y)
    BY <1>10, <1>12, <2>1, <2>5, <2>6
  <2>7. CASE ~Isr(y)
    <3>1. x = <<Core(y), "isr">>
      BY <2>1, <2>5, <2>7 DEF Contexts, Core, Isr
    <3> QED
      BY <1>1, <2>1, <2>7, <3>1
  <2> QED
    BY <2>6, <2>7
<1>13. Carried'
  <2>1. ASSUME NEW y \in Contexts, Ending(y)' PROVE CarriedBy(Core(y))'
    <3>1. CarriedBy(Core(y))
      BY <1>6, <2>1 DEF JInv, Carried
    <3> QED
      BY <1>1, <1>6, <3>1, CarriedByKept
  <2>2. ASSUME NEW y \in Contexts, pc'[y] = "notify" PROVE cur[x].mode = "sync"
    <3>1. pc[y] = "notify"
      BY <1>2, <1>6, <2>2
    <3>2. Ending(y)
      BY <3>1 DEF IInv, ModesFit, ModeFits, Ending, EndingAt
    <3> QED
      BY <1>1, <1>11, <3>2 DEF Modes
  <2> QED
    BY <1>1, <1>4, <2>1, <2>2 DEF Carried, Alone
<1>14. Switching'
  BY <1>1, <1>2, <1>6, <1>12 DEF Switching
<1>15. Data'
  <2>1. DataFits(pc[x], cur[x].mode, cur[x].id)'
    BY <1>1, <1>2 DEF JInv, Data, DataFits
  <2>2. \A y \in Contexts : /\ pc'[y] = "notify" => Over(inst)'
                            /\ pc'[y] \in {"off", "return"} /\ cur'[y].mode = "sync" => Over(cur[y].id)'
    BY <1>1, <1>2, <1>6 DEF JInv, Data, Over, Gone, Awaited, Sends
  <2>3. lock' # 0
    BY <1>1 DEF JInv, Data
  <2> QED
    BY <1>1, <1>4, <2>1, <2>2, <2>3 DEF Data, Alone
<1> QED
  BY <1>7, <1>9, <1>13, <1>14, <1>15 DEF JInv

(* A client calls: its transfer is a new one, and when it is to be told by *)
(* interrupt, no other core's is.                                          *)
LEMMA CallJInv ==
    ASSUME TakeTurns, IInv, JInv, NEW x \in Contexts, NEW r \in Calls, Call(x, r)
    PROVE  JInv'
<1>1. /\ pc[x] = Ready(x) /\ Ready(x) \in {"client", "idle"} /\ n < MaxTransfers
      /\ (Isr(x) \/ pc[<<Core(x), "isr">>] = "idle")
      /\ (Isr(x) => pc[x] = "client")
      /\ r.dev = dev /\ r.unit = unit /\ r.core = Core(x) /\ r.mode \in Modes
      /\ (r.mode = "async" => InTurn(Core(x)))
      /\ n' = n + 1
      /\ asynch' = (IF r.mode = "async" THEN asynch \cup {<<Core(x), n + 1>>} ELSE asynch)
      /\ UNCHANGED <<dev, unit, lock, inst, chen, prog, registered, fifo, abrt, spoiled, delivered, moved,
                     ended>>
  BY CallsAssumption DEF Call, At, Ready, channelVars, contextVars, plicVars, deviceVars, dataVars,
     unitVars, clientVars
<1>2. pc'[x] = "lock" /\ cur'[x] = [id |-> n + 1, mode |-> r.mode] /\ Only(x)
  BY DEF Call, Goto, Only, IInv, Types
<1>3. n \in Nat /\ MaxTransfers \in Nat /\ n + 1 \in 1 .. MaxTransfers
  BY <1>1, BoundAssumption DEF JInv, Counted
<1>4. ended[n + 1] = 0
  BY <1>3 DEF JInv, Counted, Transfers
<1>5. ~Holds(x) /\ ~Holds(x)' /\ ~Ending(x)' /\ Calling(x)'
  BY <1>1, <1>2 DEF Holds, HoldsAt, Calling, CallingAt, Ending, EndingAt
<1>6. \A y \in Contexts : /\ Calling(y)' => y = x \/ (Calling(y) /\ cur'[y] = cur[y])
                          /\ Ending(y)' => Ending(y)
                          /\ y # x => pc'[y] = pc[y] /\ cur'[y] = cur[y]
                          /\ Holds(y)' <=> Holds(y)
  BY <1>2, <1>5, OthersCall
<1>7. \A y \in Contexts : Calling(y) => cur[y].id \in 1 .. n
  BY DEF JInv, Own, OwnFits, Calling
<1>8. Counted'
  <2>1. n' \in 0 .. MaxTransfers
    BY <1>1, <1>3
  <2>2. asynch \subseteq Cores \X (1 .. (n + 1))
    BY <1>3 DEF JInv, Counted
  <2>3. asynch' \subseteq Cores \X (1 .. (n + 1))
    BY <1>1, <1>3, <2>2 DEF Contexts, Core
  <2>4. \A t \in Transfers : t > n + 1 => ended[t] = 0
    BY <1>3 DEF JInv, Counted, Transfers
  <2> QED
    BY <1>1, <2>1, <2>3, <2>4 DEF JInv, Counted
<1>9. Own'
  <2>1. ASSUME NEW y \in Contexts PROVE OwnFits(Core(y), pc[y], cur[y].mode, cur[y].id)'
    <3>1. CASE y = x
      BY <1>1, <1>2, <1>3, <1>4, <3>1 DEF OwnFits
    <3>2. CASE y # x
      <4>1. OwnFits(Core(y), pc[y], cur[y].mode, cur[y].id)
        BY DEF JInv, Own
      <4>2. \A t \in 1 .. n : t \in 1 .. (n + 1)
        BY <1>3
      <4> QED
        BY <1>1, <1>6, <3>2, <4>1, <4>2 DEF OwnFits
    <3> QED
      BY <3>1, <3>2
  <2>2. ASSUME NEW y \in Contexts, NEW z \in Contexts, Calling(y)', Calling(z)', cur'[y].id = cur'[z].id
        PROVE  y = z
    <3>1. n + 1 \notin 1 .. n
      BY <1>3
    <3> QED
      BY <1>2, <1>6, <1>7, <2>2, <3>1 DEF JInv, Own
  <2> QED
    BY <2>1, <2>2 DEF Own
<1>10. Turns'
  <2>1. CASE r.mode = "async"
    <3>1. \A p \in asynch : ended[p[2]] = 0 => p[1] = Core(x)
      <4>1. \A p \in asynch : ended[p[2]] \in Nat
        BY <1>3 DEF JInv, Counted, Transfers
      <4> QED
        BY <1>1, <2>1, <4>1 DEF InTurn
    <3> QED
      BY <1>1, <2>1, <3>1 DEF Turns
  <2>2. CASE r.mode = "sync"
    BY <1>1, <2>2 DEF JInv, Turns
  <2> QED
    BY <1>1, <2>1, <2>2 DEF Modes
<1>11. ASSUME NEW c, CarriedBy(c) PROVE CarriedBy(c)'
  <2>1. inst \in 1 .. n
    BY <1>11 DEF CarriedBy, JInv, Counted
  <2>2. inst # n + 1
    BY <1>3, <2>1
  <2> QED
    BY <1>1, <1>2, <1>6, <1>11, <2>2 DEF CarriedBy
<1>12. Carried'
  <2>1. ASSUME NEW y \in Contexts, Ending(y)' PROVE CarriedBy(Core(y))'
    BY <1>6, <1>11, <2>1 DEF JInv, Carried
  <2>2. lock' = -1 /\ Alone' => \A c \in registered' : CarriedBy(c)'
    BY <1>1, <1>6, <1>11 DEF JInv, Carried, Alone
  <2>3. ASSUME NEW y \in Contexts, pc'[y] = "notify"
        PROVE  (lock' = -1 => ~Alone') /\ \A z \in Contexts : Holds(z)' => cur'[z].mode = "sync"
    <3>1. pc[y] = "notify" /\ y # x
      BY <1>2, <1>6, <2>3
    <3> QED
      BY <1>1, <1>5, <1>6, <3>1 DEF JInv, Carried, Alone
  <2> QED
    BY <2>1, <2>2, <2>3 DEF Carried
<1>13. Switching'
  <2> SUFFICES ASSUME NEW y \in Contexts, pc'[y] = "off", cur'[y].mode = "sync"
               PROVE  Spi /\ lock = 0 /\ (~Isr(y) => pc'[<<Core(y), "isr">>] = "idle")
    BY <1>1 DEF Switching, Spi
  <2>1. pc[y] = "off" /\ cur[y].mode = "sync"
    BY <1>2, <1>6
  <2>2. Spi /\ lock = 0 /\ (~Isr(y) => pc[<<Core(y), "isr">>] = "idle")
    BY <2>1 DEF JInv, Switching
  <2>3. <<Core(y), "isr">> \in Contexts /\ Isr(<<Core(y), "isr">>)
    BY DEF Contexts, Core, Isr
  <2> QED
    BY <1>1, <1>6, <2>2, <2>3
<1>14. Data'
  <2>1. ASSUME NEW y \in Contexts, Holds(y)' PROVE DataFits(pc[y], cur[y].mode, cur[y].id)'
    <3>1. y # x /\ Holds(y)
      BY <1>5, <1>6, <2>1
    <3>2. pc'[y] = pc[y] /\ cur'[y] = cur[y] /\ DataFits(pc[y], cur[y].mode, cur[y].id)
      BY <1>6, <3>1 DEF JInv, Data
    <3> QED
      BY <1>1, <3>2 DEF DataFits, Clean, Moved, Copied, Over, Gone, Awaited, Sends
  <2>2. lock' = -1 /\ Alone' => prog' = inst' /\ IF chen' THEN Clean' ELSE Moved'
    BY <1>1, <1>6 DEF JInv, Data, Alone, Clean, Moved, Sends
  <2>3. unit = 0 /\ lock' = 0 => fifo' = {} \/ abrt'
    BY <1>1 DEF JInv, Data
  <2>4. ASSUME NEW y \in Contexts
        PROVE  /\ pc'[y] = "notify" => Over(inst)'
               /\ pc'[y] \in {"off", "return"} /\ cur'[y].mode = "sync" => Over(cur[y].id)'
    BY <1>1, <1>2, <1>6 DEF JInv, Data, Over, Gone, Awaited, Sends
  <2> QED
    BY <1>1, <2>1, <2>2, <2>3, <2>4 DEF Data
<1>15. ToldOnceWhenDone'
  BY <1>1 DEF JInv, ToldOnceWhenDone, Awaited, Sends
<1> QED
  BY <1>8, <1>9, <1>10, <1>12, <1>13, <1>14, <1>15 DEF JInv

-----------------------------------------------------------------------------
(* The interrupt and the hardware. *)

(* A claim: the core that has registered the callback carries the          *)
(* transfer, and its data has moved.                                       *)
LEMMA ClaimJInv ==
    ASSUME IInv, JInv, NEW c \in Cores, Claim(c)
    PROVE  JInv'
<1> DEFINE x == <<c, "isr">>
           p == IF c \in registered THEN "iclear" ELSE "complete"
<1>1. /\ x \in Contexts /\ Isr(x) /\ Core(x) = c /\ pend /\ pc[x] = "idle"
      /\ cur' = [cur EXCEPT ![x] = [id |-> 0, mode |-> "irq"]]
      /\ pc' = [pc EXCEPT ![x] = p]
      /\ UNCHANGED <<dev, unit, lock, inst, chen, prog, registered, fifo, abrt, spoiled, delivered, moved,
                     ended, asynch, n>>
  BY DEF Claim, Contexts, Isr, Core, Goto, channelVars, contextVars, deviceVars, dataVars, clientVars,
     unitVars
<1>2. pc'[x] = p /\ cur'[x] = [id |-> 0, mode |-> "irq"] /\ Only(x)
  BY <1>1 DEF IInv, Types, Only
<1>3. lock = -1 /\ (\A y \in Contexts : ~Holds(y)) /\ ~chen
  BY <1>1 DEF IInv, Served, Alone
<1>4. prog = inst /\ Moved
  BY <1>3 DEF JInv, Data, Alone
<1>5. ~Calling(x)'
  BY <1>2 DEF Calling, CallingAt, Modes
<1>6. \A y \in Contexts : /\ Calling(y)' => Calling(y) /\ cur'[y] = cur[y]
                          /\ y # x => pc'[y] = pc[y] /\ cur'[y] = cur[y] /\ (Ending(y)' <=> Ending(y))
                          /\ y # x => ~Holds(y)'
  BY <1>1, <1>2, <1>3, <1>5, OthersCall
<1>7. Counted' /\ Turns' /\ ToldOnceWhenDone'
  BY <1>1 DEF JInv, Counted, Turns, ToldOnceWhenDone, Awaited, Sends
<1>8. Own'
  <2>1. ASSUME NEW y \in Contexts PROVE OwnFits(Core(y), pc[y], cur[y].mode, cur[y].id)'
    <3>1. CASE Calling(y)'
      <4>1. pc'[y] = pc[y] /\ cur'[y] = cur[y] /\ OwnFits(Core(y), pc[y], cur[y].mode, cur[y].id)
        BY <1>5, <1>6, <3>1 DEF JInv, Own
      <4> QED
        BY <1>1, <4>1 DEF OwnFits
    <3>2. CASE ~Calling(y)'
      BY <3>2 DEF OwnFits, Calling
    <3> QED
      BY <3>1, <3>2
  <2> QED
    BY <1>6, <2>1 DEF JInv, Own
<1>9. Switching'
  BY <1>1, <1>2, <1>3, <1>6 DEF JInv, Switching
<1>10. \A y \in Contexts : pc[y] # "notify"
  BY <1>3 DEF JInv, Carried, Alone
<1>11. Carried'
  <2>1. \A k \in registered : CarriedBy(k)'
    BY <1>1, <1>3, <1>6, CarriedByKept DEF JInv, Carried, Alone
  <2>2. ASSUME NEW y \in Contexts, Ending(y)' PROVE CarriedBy(Core(y))'
    <3>1. CASE y = x
      BY <1>1, <1>2, <2>1, <2>2, <3>1 DEF Ending, EndingAt
    <3>2. CASE y # x
      <4>1. Ending(y)
        BY <1>6, <2>2, <3>2
      <4>2. CarriedBy(Core(y))
        BY <4>1 DEF JInv, Carried
      <4> QED
        BY <1>1, <1>6, <4>2, CarriedByKept
    <3> QED
      BY <3>1, <3>2
  <2>3. \A y \in Contexts : pc'[y] # "notify"
    BY <1>2, <1>6, <1>10
  <2> QED
    BY <1>1, <2>1, <2>2, <2>3 DEF Carried
<1>12. Data'
  <2>1. ASSUME NEW y \in Contexts, Holds(y)' PROVE DataFits(pc[y], cur[y].mode, cur[y].id)'
    <3>1. y = x
      BY <1>6, <2>1
    <3>2. pc'[x] = "iclear" /\ Moved'
      BY <1>1, <1>2, <1>4, <2>1, <3>1 DEF Holds, HoldsAt, Moved, Sends
    <3> QED
      BY <1>1, <1>2, <1>4, <3>1, <3>2 DEF DataFits
  <2>2. prog' = inst' /\ IF chen' THEN Clean' ELSE Moved'
    BY <1>1, <1>3, <1>4 DEF Moved, Sends
  <2>3. unit = 0 /\ lock' = 0 => fifo' = {} \/ abrt'
    BY <1>1 DEF JInv, Data
  <2>4. ASSUME NEW y \in Contexts
        PROVE  /\ pc'[y] = "notify" => Over(inst)'
               /\ pc'[y] \in {"off", "return"} /\ cur'[y].mode = "sync" => Over(cur[y].id)'
    BY <1>1, <1>2, <1>6, <1>10 DEF JInv, Data, Over, Gone, Awaited, Sends
  <2> QED
    BY <1>1, <2>1, <2>2, <2>3, <2>4 DEF Data
<1> QED
  BY <1>7, <1>8, <1>9, <1>11, <1>12 DEF JInv

(* What the hardware does to the data keeps who has called what. *)
LEMMA HardwareJInv ==
    ASSUME JInv, UNCHANGED <<dev, unit, lock, pc, cur, inst, prog, registered, ended, asynch, n>>,
           Data', delivered \subseteq delivered', spoiled \subseteq spoiled', moved \subseteq moved'
    PROVE  JInv'
<1>1. Counted' /\ Turns' /\ ToldOnceWhenDone'
  BY DEF JInv, Counted, Turns, ToldOnceWhenDone, Awaited, Sends
<1>2. Own'
  BY DEF JInv, Own, OwnFits, Calling
<1>3. Carried'
  <2>1. \A c : CarriedBy(c) => CarriedBy(c)'
    BY DEF CarriedBy, Calling
  <2>2. \A y \in Contexts : (Ending(y)' <=> Ending(y)) /\ (Holds(y)' <=> Holds(y))
    BY DEF Ending, Holds
  <2> QED
    BY <2>1, <2>2 DEF JInv, Carried, Alone
<1>4. Switching'
  BY DEF JInv, Switching, Spi
<1> QED
  BY <1>1, <1>2, <1>3, <1>4 DEF JInv

(* The channel moves its last word. *)
LEMMA MoveJInv == IInv /\ JInv /\ Move => JInv'
<1> SUFFICES ASSUME IInv, JInv, Move PROVE JInv'
  OBVIOUS
<1>1. /\ chen /\ chen' = FALSE
      /\ UNCHANGED <<dev, unit, lock, pc, cur, inst, prog, registered, ended, asynch, n, abrt, spoiled,
                     delivered>>
      /\ moved' = moved \cup {prog} /\ fifo' = IF Sends THEN fifo \cup {prog} ELSE fifo
  BY DEF Move, contextVars, plicVars, clientVars, unitVars
<1>2. \A y \in Contexts : Holds(y)' <=> Holds(y)
  BY <1>1 DEF Holds
<1>3. ASSUME NEW y \in Contexts, Holds(y) PROVE pc[y] \in {"select", "wait"} /\ Clean /\ lock = -1
  <2>1. Phase(y, pc[y], cur[y].mode)
    BY <1>3 DEF IInv, Phases
  <2>2. pc[y] \in {"select", "wait"}
    BY <1>1, <1>3, <2>1 DEF Phase, Quiet, Holds, HoldsAt
  <2>3. DataFits(pc[y], cur[y].mode, cur[y].id) /\ lock = -1
    BY <1>3 DEF JInv, Data, IInv, LockExact
  <2> QED
    BY <1>1, <2>2, <2>3 DEF DataFits
<1>4. Clean /\ lock = -1
  <2>1. CASE Alone
    <3>1. lock = -1
      BY <1>1, <2>1 DEF IInv, Types, Left, Quiet
    <3> QED
      BY <1>1, <2>1, <3>1 DEF JInv, Data
  <2>2. CASE ~Alone
    BY <1>3, <2>2 DEF Alone
  <2> QED
    BY <2>1, <2>2
<1>5. Moved'
  BY <1>1 DEF Moved, Sends
<1>6. Data'
  <2>1. ASSUME NEW y \in Contexts, Holds(y)' PROVE DataFits(pc[y], cur[y].mode, cur[y].id)'
    <3>1. pc[y] \in {"select", "wait"} /\ DataFits(pc[y], cur[y].mode, cur[y].id)
      BY <1>2, <1>3, <2>1 DEF JInv, Data
    <3> QED
      BY <1>1, <1>5, <3>1 DEF DataFits
  <2>2. lock' = -1 /\ Alone' => prog' = inst' /\ IF chen' THEN Clean' ELSE Moved'
    BY <1>1, <1>2, <1>5 DEF JInv, Data, Alone
  <2>3. ASSUME NEW y \in Contexts
        PROVE  /\ pc'[y] = "notify" => Over(inst)'
               /\ pc'[y] \in {"off", "return"} /\ cur'[y].mode = "sync" => Over(cur[y].id)'
    BY <1>1 DEF JInv, Data, Over, Gone, Awaited, Sends
  <2> QED
    BY <1>1, <1>4, <2>1, <2>2, <2>3 DEF Data, Clean
<1> QED
  BY <1>1, <1>6, HardwareJInv

(* The transmitter shifts its words out, to the slave or to nobody. *)
LEMMA DrainJInv == IInv /\ JInv /\ Drain => JInv'
<1> SUFFICES ASSUME IInv, JInv, Drain PROVE JInv'
  OBVIOUS
<1>1. /\ fifo' = {} /\ delivered' = (IF abrt THEN delivered ELSE delivered \cup fifo)
      /\ spoiled' = (IF abrt THEN spoiled \cup fifo ELSE spoiled)
      /\ UNCHANGED <<dev, unit, lock, pc, cur, inst, prog, registered, ended, asynch, n, abrt, chen, moved>>
  BY DEF Drain, channelVars, contextVars, plicVars, clientVars, unitVars
<1>3. /\ Clean => Clean'
      /\ Moved => Moved'
      /\ Copied => Copied'
      /\ \A t : Over(t) => Over(t)'
  BY <1>1 DEF Clean, Moved, Copied, Over, Gone, Awaited, Sends
<1>4. Data'
  <2>1. ASSUME NEW y \in Contexts, Holds(y)' PROVE DataFits(pc[y], cur[y].mode, cur[y].id)'
    <3>1. DataFits(pc[y], cur[y].mode, cur[y].id)
      BY <1>1, <2>1 DEF JInv, Data, Holds
    <3> QED
      BY <1>1, <1>3, <3>1 DEF DataFits
  <2>2. lock' = -1 /\ Alone' => prog' = inst' /\ IF chen' THEN Clean' ELSE Moved'
    BY <1>1, <1>3 DEF JInv, Data, Alone, Holds
  <2>3. ASSUME NEW y \in Contexts
        PROVE  /\ pc'[y] = "notify" => Over(inst)'
               /\ pc'[y] \in {"off", "return"} /\ cur'[y].mode = "sync" => Over(cur[y].id)'
    BY <1>1, <1>3 DEF JInv, Data
  <2> QED
    BY <1>1, <2>1, <2>2, <2>3 DEF Data
<1> QED
  BY <1>1, <1>4, HardwareJInv

(* The bus aborts what is in the transmitter. *)
LEMMA AbortJInv == IInv /\ JInv /\ Abort => JInv'
<1> SUFFICES ASSUME IInv, JInv, Abort PROVE JInv'
  OBVIOUS
<1>1. /\ fifo # {} /\ ~abrt /\ abrt' /\ spoiled' = spoiled \cup fifo
      /\ UNCHANGED <<dev, unit, lock, pc, cur, inst, prog, registered, ended, asynch, n, fifo, chen, moved,
                     delivered>>
  BY DEF Abort, channelVars, contextVars, plicVars, dataVars, clientVars, unitVars
<1>2. /\ unit = 0 => ~Clean
      /\ unit # 0 => Clean'
      /\ Moved => Moved'
      /\ Copied => Copied'
      /\ \A t : Over(t) => Over(t)'
  BY <1>1 DEF Clean, Moved, Copied, Over, Gone, Awaited, Sends
<1>3. Data'
  <2>1. ASSUME NEW y \in Contexts, Holds(y)' PROVE DataFits(pc[y], cur[y].mode, cur[y].id)'
    <3>1. DataFits(pc[y], cur[y].mode, cur[y].id)
      BY <1>1, <2>1 DEF JInv, Data, Holds
    <3> QED
      BY <1>1, <1>2, <3>1 DEF DataFits
  <2>2. lock' = -1 /\ Alone' => prog' = inst' /\ IF chen' THEN Clean' ELSE Moved'
    BY <1>1, <1>2 DEF JInv, Data, Alone, Holds
  <2>3. ASSUME NEW y \in Contexts
        PROVE  /\ pc'[y] = "notify" => Over(inst)'
               /\ pc'[y] \in {"off", "return"} /\ cur'[y].mode = "sync" => Over(cur[y].id)'
    BY <1>1, <1>2 DEF JInv, Data
  <2> QED
    BY <1>1, <2>1, <2>2, <2>3 DEF Data
<1> QED
  BY <1>1, <1>3, HardwareJInv

(* The gateway forwards, or nothing happens. *)
LEMMA ElsewhereJInv ==
    ASSUME JInv, UNCHANGED <<dev, unit, lock, pc, cur, inst, prog, registered, ended, asynch, n,
                             fifo, abrt, spoiled, chen, moved, delivered>>
    PROVE  JInv'
<1>1. Data'
  BY DEF JInv, Data, DataFits, Clean, Moved, Copied, Over, Gone, Awaited, Sends, Holds, Alone
<1> QED
  BY <1>1, HardwareJInv

-----------------------------------------------------------------------------
LEMMA InitJInv == Init => JInv
<1> SUFFICES ASSUME Init PROVE JInv
  OBVIOUS
<1> USE DEF Init
<1>1. \A x \in Contexts : ~Holds(x) /\ ~Calling(x) /\ ~Ending(x)
  BY DEF Holds, HoldsAt, Calling, CallingAt, Ending, EndingAt
<1>2. Counted
  <2>1. n \in 0 .. MaxTransfers
    BY BoundAssumption
  <2> QED
    BY <2>1 DEF Counted
<1>3. Own /\ Turns /\ Carried /\ Switching
  BY <1>1 DEF Own, OwnFits, Calling, Turns, Carried, Switching
<1>4. Data
  BY <1>1 DEF Data
<1>5. ToldOnceWhenDone
  BY DEF ToldOnceWhenDone
<1> QED
  BY <1>2, <1>3, <1>4, <1>5 DEF JInv

LEMMA NextJInv ==
    ASSUME TakeTurns, SpiCallers
    PROVE  IInv /\ JInv /\ [Next]_vars => JInv'
<1> SUFFICES ASSUME IInv, JInv, [Next]_vars PROVE JInv'
  OBVIOUS
<1>1. CASE \E x \in Contexts : Begin(x)
  BY <1>1, LockJInv, FillJInv, RegisterJInv, ClearJInv, BuffersJInv, StartJInv, SelectJInv DEF Begin
<1>2. CASE \E x \in Contexts : Finish(x)
  BY <1>2, WaitJInv, ClearInHandlerJInv, CopyJInv, FreeBufferJInv, UnregisterJInv, WaitDrainedJInv,
     GiveUpJInv, OffJInv, ReleaseJInv, ReturnJInv, NotifyJInv, HandlerReturnsJInv DEF Finish
<1>3. CASE (\E c \in Cores : Claim(c)) \/ (\E x \in Contexts, r \in Calls : Call(x, r))
  BY <1>3, ClaimJInv, CallJInv
<1>4. CASE Move \/ Drain \/ Abort
  BY <1>4, MoveJInv, DrainJInv, AbortJInv
<1>5. CASE Forward \/ OthersStart \/ OthersAbort \/ OthersEnd \/ UNCHANGED vars
  <2>1. UNCHANGED <<dev, unit, lock, pc, cur, inst, prog, registered, ended, asynch, n,
                    fifo, abrt, spoiled, chen, moved, delivered>>
    BY <1>5 DEF Forward, OthersStart, OthersAbort, OthersEnd, vars, channelVars, contextVars, plicVars,
       deviceVars, dataVars, clientVars, unitVars
  <2> QED
    BY <2>1, ElsewhereJInv
<1> QED
  BY <1>1, <1>2, <1>3, <1>4, <1>5 DEF Next

(* When the cores take turns with transfers that have a callback, and no   *)
(* core uses an SPI unit another one waits for, a client is told of a      *)
(* transfer once, and then the channel has moved it; its data has arrived  *)
(* or the bus has refused it unless it was sent by another unit than 0 and *)
(* told by the handler, which has waited for unit 0                        *)
(* (uart.c:419-428, spi.c:90-105, i2c.c:279-299).                          *)
THEOREM ToldSafe ==
    ASSUME TakeTurns, SpiCallers
    PROVE  Spec => []ToldOnceWhenDone
<1>1. IInv /\ JInv /\ [Next]_vars => IInv' /\ JInv'
  BY NextIInv, NextJInv
<1>2. Init => IInv /\ JInv
  BY InitIInv, InitJInv
<1>3. JInv => ToldOnceWhenDone
  BY DEF JInv
<1> QED
  BY <1>1, <1>2, <1>3, PTL DEF Spec
=============================================================================
