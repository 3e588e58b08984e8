---------------------------- MODULE TrapNesting ----------------------------
(***************************************************************************)
(* Machine-mode interrupts of the SDK: the three handlers that enable      *)
(* interrupts again before they call back (handle_irq_m_ext of             *)
(* drivers/plic.c, handle_irq_m_timer and handle_irq_m_soft of             *)
(* drivers/clint.c), the PLIC and CLINT registers they use, and the calls  *)
(* of plic.h and clint.h that running code and callbacks make.             *)
(*                                                                         *)
(* A hart's interrupt frames form a stack.  With interrupts disabled a     *)
(* handler's accesses to its own hart's CSRs and PLIC target are one step; *)
(* accesses the other hart can race with (pending bits, claims, msip) are  *)
(* steps of their own.  Time is abstract: a compare register that is armed *)
(* may be passed at any moment.                                            *)
(***************************************************************************)
EXTENDS Integers, FiniteSets, Sequences, SequencesExt

CONSTANTS
    Cores,          \* the harts
    Sources,        \* PLIC interrupt sources in use
    NoSource,       \* IRQN_NO_INTERRUPT, what a claim returns when nothing is pending
    Priority,       \* Priority[s]: what plic_set_priority gave source s before its use
    Enabled,        \* Enabled[c]: the sources core c starts with enabled
    StartMie,       \* the interrupts main has enabled in mie at the start
    MainCalls,      \* the calls running code makes (a subset of Calls)
    CallbackCalls,  \* the calls a callback makes
    MaxCalls,       \* bound: calls per core
    MaxRaises       \* bound: how often devices and timers raise interrupts

Calls == {"ipi_send", "ipi_enable", "ipi_disable", "timer_start", "timer_stop",
          "plic_enable", "plic_disable", "disable_irq", "enable_irq"}

ASSUME SourcesAssumption == NoSource \notin Sources
ASSUME PriorityAssumption == Priority \in [Sources -> Nat \ {0}]
ASSUME EnabledAssumption == Enabled \in [Cores -> SUBSET Sources]
ASSUME StartMieAssumption == StartMie \subseteq {"ext", "timer", "soft"}
ASSUME CallsAssumption == MainCalls \subseteq Calls /\ CallbackCalls \subseteq Calls
ASSUME BoundsAssumption == MaxCalls \in Nat /\ MaxRaises \in Nat

VARIABLES
    mstatusMIE,     \* mstatusMIE[c]: the global interrupt enable
    mie,            \* mie[c]: which of MEIP, MTIP and MSIP are enabled
    stack,          \* stack[c]: main's frame, and the interrupt frames above it
    pending,        \* PLIC pending bits
    inService,      \* sources claimed and not completed: their gateway is shut
    enable,         \* PLIC target enables
    threshold,      \* PLIC target thresholds
    msip,           \* CLINT msip
    mtip,           \* mtip[c]: mtime has reached mtimecmp[c]
    repeat,         \* repeat[c]: not single_shot, and cycles # 0
    calls, raises,  \* calls and interrupts spent
    wanted,         \* history: the mie bits the calls so far asked for
    asked,          \* history: asked[c], the enables the calls so far asked for
    owed            \* history: an IPI was sent and no callback has begun since

plicVars == <<pending, inService, enable, threshold>>
clintVars == <<msip, mtip, repeat>>
coreVars == <<mstatusMIE, mie, stack>>
bounds == <<calls, raises>>
history == <<wanted, asked, owed>>
vars == <<coreVars, plicVars, clintVars, bounds, history>>

Bits == {"ext", "timer", "soft"}
AnySource == Sources \cup {NoSource}

(* A frame: which handler (or main), where it is, the claimed source, the  *)
(* mie and threshold it will restore, and, while the code it runs is in    *)
(* the middle of a call, that call with the register it has read.          *)
Ops == [name : {"none", "timer_start"}, src : {NoSource}, current : {{}}]
         \cup [name : {"plic_enable", "plic_disable"}, src : Sources, current : SUBSET Sources]
NoOp == [name |-> "none", src |-> NoSource, current |-> {}]
Frames == [kind : Bits \cup {"main"}, at : {"check", "claim", "clear", "call", "running", "done"},
           src : AnySource, mie : SUBSET Bits, thr : Nat, op : Ops]

Frame(kind, at, saved) ==
    [kind |-> kind, at |-> at, src |-> NoSource, mie |-> saved, thr |-> 0, op |-> NoOp]

PriorityOf(s) == IF s = NoSource THEN 0 ELSE Priority[s]

Init ==
    /\ mstatusMIE = [c \in Cores |-> TRUE]
    /\ mie = [c \in Cores |-> StartMie]
    /\ stack = [c \in Cores |-> <<Frame("main", "running", {})>>]
    /\ pending = {}
    /\ inService = {}
    /\ enable = Enabled
    /\ threshold = [c \in Cores |-> 0]
    /\ msip = [c \in Cores |-> FALSE]
    /\ mtip = [c \in Cores |-> FALSE]
    /\ repeat = [c \in Cores |-> FALSE]
    /\ calls = [c \in Cores |-> 0]
    /\ raises = 0
    /\ wanted = [c \in Cores |-> StartMie]
    /\ asked = Enabled
    /\ owed = [c \in Cores |-> FALSE]

-----------------------------------------------------------------------------
(* Hardware. *)

(* The sources the PLIC offers core c, and whether they raise its MEIP. *)
Offered(c) == pending \cap enable[c]
MEIP(c) == \E s \in Offered(c) : Priority[s] > threshold[c]

(* A device raises its line; the gateway forwards nothing in between a     *)
(* claim and its completion.                                               *)
Raise(s) ==
    /\ raises < MaxRaises
    /\ s \notin pending \cup inService
    /\ pending' = pending \cup {s}
    /\ raises' = raises + 1
    /\ UNCHANGED <<coreVars, inService, enable, threshold, clintVars, calls, history>>

(* mtime reaches mtimecmp[c]. *)
Expire(c) ==
    /\ raises < MaxRaises
    /\ ~mtip[c]
    /\ mtip' = [mtip EXCEPT ![c] = TRUE]
    /\ raises' = raises + 1
    /\ UNCHANGED <<coreVars, plicVars, msip, repeat, calls, history>>

Top(c) == Last(stack[c])
In(c, kind, at) == Top(c).kind = kind /\ Top(c).at = at /\ Top(c).op = NoOp

(* A trap pushes a frame with interrupts disabled, until the handler or    *)
(* mret enables them; the handlers set MPIE, so mret always does.          *)
Push(c, f) == stack' = [stack EXCEPT ![c] = Append(@, f)]
Replace(c, f) == stack' = [stack EXCEPT ![c] = Append(Front(@), f)]
SetMIE(c, b) == mstatusMIE' = [mstatusMIE EXCEPT ![c] = b]
Mret(c) == stack' = [stack EXCEPT ![c] = Front(@)] /\ SetMIE(c, TRUE)

(* Which interrupt a hart takes: external before software before timer. *)
ExtPending(c) == MEIP(c) /\ "ext" \in mie[c]
SoftPending(c) == msip[c] /\ "soft" \in mie[c]
TimerPending(c) == mtip[c] /\ "timer" \in mie[c]

-----------------------------------------------------------------------------
(* handle_irq_m_ext *)

ExtTrap(c) ==
    /\ mstatusMIE[c]
    /\ ExtPending(c)
    /\ Push(c, Frame("ext", "check", {}))
    /\ SetMIE(c, FALSE)
    /\ UNCHANGED <<mie, plicVars, clintVars, bounds, history>>

(* if(read_csr(mip) & MIP_MEIP): the other hart may have claimed the       *)
(* source since the trap.                                                  *)
ExtCheck(c) ==
    /\ In(c, "ext", "check")
    /\ IF MEIP(c)
       THEN Replace(c, Frame("ext", "claim", mie[c])) /\ UNCHANGED mstatusMIE
       ELSE Mret(c)
    /\ UNCHANGED <<mie, plicVars, clintVars, bounds, history>>

(* What a claim returns: a pending enabled source of the highest priority, *)
(* whatever the threshold, or no source.                                   *)
Claimable(c) ==
    IF Offered(c) = {} THEN {NoSource}
    ELSE {s \in Offered(c) : \A t \in Offered(c) : Priority[t] <= Priority[s]}

(* Mutant of Claim: the gateway opens again at the claim, not at the       *)
(* completion. *)
ClaimCompletes(s) == pending' = pending \ {s} /\ UNCHANGED inService

Claim(s) ==
    /\ pending' = pending \ {s}
    /\ inService' = inService \cup ({s} \ {NoSource})

(* Mutant of RaiseThreshold: the threshold is left as it is. *)
ThresholdKept(c, s) == UNCHANGED threshold

RaiseThreshold(c, s) == threshold' = [threshold EXCEPT ![c] = PriorityOf(s)]

(* Mutant of MaskNested: software and timer interrupts stay enabled. *)
MaskNone(c) == UNCHANGED mie

MaskNested(c) == mie' = [mie EXCEPT ![c] = @ \ {"timer", "soft"}]

(* Claim, raise the threshold to the priority of what was claimed, mask    *)
(* timer and software interrupts, enable interrupts, and call back.        *)
ExtClaim(c) ==
    /\ In(c, "ext", "claim")
    /\ \E s \in Claimable(c) :
          /\ Claim(s)
          /\ RaiseThreshold(c, s)
          /\ Replace(c, [Top(c) EXCEPT !.at = "running", !.src = s, !.thr = threshold[c]])
    /\ MaskNested(c)
    /\ SetMIE(c, TRUE)
    /\ UNCHANGED <<enable, clintVars, bounds, history>>

(* The PLIC ignores a completion for a source the target has disabled. *)
Complete(c) == inService' = inService \ ({Top(c).src} \cap enable[c])

(* The callback has returned: completion, and interrupts disabled.         *)
ExtComplete(c) ==
    /\ In(c, "ext", "running")
    /\ Complete(c)
    /\ Replace(c, [Top(c) EXCEPT !.at = "done"])
    /\ UNCHANGED <<mstatusMIE, mie, pending, enable, threshold, clintVars, bounds, history>>

(* Mutant of RestoreThreshold: forgotten. *)
RestoreNothing(c) == UNCHANGED threshold

RestoreThreshold(c) == threshold' = [threshold EXCEPT ![c] = Top(c).thr]

(* mie and threshold restored. *)
ExtReturn(c) ==
    /\ In(c, "ext", "done")
    /\ mie' = [mie EXCEPT ![c] = Top(c).mie]
    /\ RestoreThreshold(c)
    /\ Mret(c)
    /\ UNCHANGED <<pending, inService, enable, clintVars, bounds, history>>

-----------------------------------------------------------------------------
(* handle_irq_m_timer *)

TimerTrap(c) ==
    /\ mstatusMIE[c]
    /\ TimerPending(c) /\ ~SoftPending(c) /\ ~ExtPending(c)
    /\ Push(c, Frame("timer", "running", mie[c]))
    /\ MaskNested(c)
    /\ UNCHANGED <<mstatusMIE, plicVars, clintVars, bounds, history>>

(* What the handler leaves in mie. *)
MieAfterTimer(c) == IF repeat[c] THEN Top(c).mie ELSE Top(c).mie \ {"timer"}

(* mie is written back; a repeating timer moves its compare register on,   *)
(* which mtime may have passed already, a single-shot one is masked.       *)
TimerReturn(c) ==
    /\ In(c, "timer", "running")
    /\ mie' = [mie EXCEPT ![c] = MieAfterTimer(c)]
    /\ IF repeat[c]
       THEN \E late \in BOOLEAN :
            /\ late => raises < MaxRaises
            /\ mtip' = [mtip EXCEPT ![c] = late]
            /\ raises' = IF late THEN raises + 1 ELSE raises
            /\ UNCHANGED wanted
       ELSE /\ wanted' = [wanted EXCEPT ![c] = @ \ {"timer"}]
            /\ UNCHANGED <<mtip, raises>>
    /\ Mret(c)
    /\ UNCHANGED <<plicVars, msip, repeat, calls, asked, owed>>

-----------------------------------------------------------------------------
(* handle_irq_m_soft *)

SoftTrap(c) ==
    /\ mstatusMIE[c]
    /\ SoftPending(c) /\ ~ExtPending(c)
    /\ Push(c, Frame("soft", "clear", {}))
    /\ mie' = [mie EXCEPT ![c] = @ \ {"soft"}]
    /\ UNCHANGED <<mstatusMIE, plicVars, clintVars, bounds, history>>

(* clint_ipi_clear, with interrupts enabled. *)
SoftClear(c) ==
    /\ In(c, "soft", "clear")
    /\ msip' = [msip EXCEPT ![c] = FALSE]
    /\ Replace(c, [Top(c) EXCEPT !.at = "call"])
    /\ UNCHANGED <<mstatusMIE, mie, plicVars, mtip, repeat, bounds, history>>

SoftCall(c) ==
    /\ In(c, "soft", "call")
    /\ owed' = [owed EXCEPT ![c] = FALSE]
    /\ Replace(c, [Top(c) EXCEPT !.at = "running"])
    /\ UNCHANGED <<mstatusMIE, mie, plicVars, clintVars, bounds, wanted, asked>>

(* Mutant of SoftReturn: software interrupts stay masked. *)
SoftReturnMasked(c) ==
    /\ In(c, "soft", "running")
    /\ Mret(c)
    /\ UNCHANGED <<mie, plicVars, clintVars, bounds, history>>

SoftReturn(c) ==
    /\ In(c, "soft", "running")
    /\ mie' = [mie EXCEPT ![c] = @ \cup {"soft"}]
    /\ Mret(c)
    /\ UNCHANGED <<plicVars, clintVars, bounds, history>>

-----------------------------------------------------------------------------
(* The calls of main and of callbacks.  A call that reads a register and   *)
(* writes it later, or writes two that a handler uses together, takes two  *)
(* steps: interrupts may come in between.                                  *)

CanCall(c, name) ==
    /\ calls[c] < MaxCalls
    /\ Top(c).at = "running" /\ Top(c).op = NoOp
    /\ name \in IF Top(c).kind = "main" THEN MainCalls ELSE CallbackCalls
    /\ calls' = [calls EXCEPT ![c] = @ + 1]
    /\ UNCHANGED raises

Begin(c, name, s, current) ==
    Replace(c, [Top(c) EXCEPT !.op = [name |-> name, src |-> s, current |-> current]])
Finish(c) == Replace(c, [Top(c) EXCEPT !.op = NoOp])

(* clint_ipi_send *)
IpiSend(c, d) ==
    /\ CanCall(c, "ipi_send")
    /\ msip' = [msip EXCEPT ![d] = TRUE]
    /\ owed' = [owed EXCEPT ![d] = TRUE]
    /\ UNCHANGED <<coreVars, plicVars, mtip, repeat, wanted, asked>>

(* clint_ipi_enable, which enables interrupts in general too. *)
IpiEnable(c) ==
    /\ CanCall(c, "ipi_enable")
    /\ SetMIE(c, TRUE)
    /\ mie' = [mie EXCEPT ![c] = @ \cup {"soft"}]
    /\ wanted' = [wanted EXCEPT ![c] = @ \cup {"soft"}]
    /\ UNCHANGED <<stack, plicVars, clintVars, asked, owed>>

(* clint_ipi_disable *)
IpiDisable(c) ==
    /\ CanCall(c, "ipi_disable")
    /\ mie' = [mie EXCEPT ![c] = @ \ {"soft"}]
    /\ wanted' = [wanted EXCEPT ![c] = @ \ {"soft"}]
    /\ UNCHANGED <<mstatusMIE, stack, plicVars, clintVars, asked, owed>>

(* clint_timer_start(interval, single_shot): the instance's fields, *)
TimerStart(c, singleShot) ==
    /\ CanCall(c, "timer_start")
    /\ repeat' = [repeat EXCEPT ![c] = ~singleShot]
    /\ Begin(c, "timer_start", NoSource, {})
    /\ UNCHANGED <<mstatusMIE, mie, plicVars, msip, mtip, history>>

(* then mtimecmp, and both enables. *)
TimerArm(c) ==
    /\ Top(c).op.name = "timer_start"
    /\ mtip' = [mtip EXCEPT ![c] = FALSE]
    /\ SetMIE(c, TRUE)
    /\ mie' = [mie EXCEPT ![c] = @ \cup {"timer"}]
    /\ wanted' = [wanted EXCEPT ![c] = @ \cup {"timer"}]
    /\ Finish(c)
    /\ UNCHANGED <<plicVars, msip, repeat, bounds, asked, owed>>

(* clint_timer_stop *)
TimerStop(c) ==
    /\ CanCall(c, "timer_stop")
    /\ mie' = [mie EXCEPT ![c] = @ \ {"timer"}]
    /\ wanted' = [wanted EXCEPT ![c] = @ \ {"timer"}]
    /\ UNCHANGED <<mstatusMIE, stack, plicVars, clintVars, asked, owed>>

(* plic_irq_enable and plic_irq_disable: the enable word is read, *)
PlicRead(c, s, name) ==
    /\ name \in {"plic_enable", "plic_disable"}
    /\ CanCall(c, name)
    /\ Begin(c, name, s, enable[c])
    /\ UNCHANGED <<mstatusMIE, mie, plicVars, clintVars, history>>

(* changed, and written back. *)
Changed(set, op) == IF op.name = "plic_enable" THEN set \cup {op.src} ELSE set \ {op.src}

PlicWrite(c) ==
    LET op == Top(c).op IN
    /\ op.name \in {"plic_enable", "plic_disable"}
    /\ enable' = [enable EXCEPT ![c] = Changed(op.current, op)]
    /\ asked' = [asked EXCEPT ![c] = Changed(@, op)]
    /\ Finish(c)
    /\ UNCHANGED <<mstatusMIE, mie, pending, inService, threshold, clintVars, bounds, wanted, owed>>

(* sysctl_disable_irq and sysctl_enable_irq *)
DisableIrq(c) ==
    /\ CanCall(c, "disable_irq")
    /\ mie' = [mie EXCEPT ![c] = @ \ {"ext"}]
    /\ wanted' = [wanted EXCEPT ![c] = @ \ {"ext"}]
    /\ SetMIE(c, FALSE)
    /\ UNCHANGED <<stack, plicVars, clintVars, asked, owed>>

EnableIrq(c) ==
    /\ CanCall(c, "enable_irq")
    /\ mie' = [mie EXCEPT ![c] = @ \cup {"ext"}]
    /\ wanted' = [wanted EXCEPT ![c] = @ \cup {"ext"}]
    /\ SetMIE(c, TRUE)
    /\ UNCHANGED <<stack, plicVars, clintVars, asked, owed>>

-----------------------------------------------------------------------------
Handler(c) ==
    \/ ExtTrap(c) \/ ExtCheck(c) \/ ExtClaim(c) \/ ExtComplete(c) \/ ExtReturn(c)
    \/ TimerTrap(c) \/ TimerReturn(c)
    \/ SoftTrap(c) \/ SoftClear(c) \/ SoftCall(c) \/ SoftReturn(c)

Call(c) ==
    \/ \E d \in Cores : IpiSend(c, d)
    \/ IpiEnable(c) \/ IpiDisable(c)
    \/ \E singleShot \in BOOLEAN : TimerStart(c, singleShot)
    \/ TimerStop(c)
    \/ \E s \in Sources, name \in Calls : PlicRead(c, s, name)
    \/ DisableIrq(c) \/ EnableIrq(c)

CallEnd(c) == TimerArm(c) \/ PlicWrite(c)

Next ==
    \/ \E s \in Sources : Raise(s)
    \/ \E c \in Cores : Expire(c) \/ Handler(c) \/ Call(c) \/ CallEnd(c)

(* A hart takes its interrupts and runs its handlers and calls to their    *)
(* end; nothing says that devices interrupt or that main makes a call.     *)
Fairness == \A c \in Cores : WF_vars(Handler(c)) /\ WF_vars(CallEnd(c))

Spec == Init /\ [][Next]_vars /\ Fairness

-----------------------------------------------------------------------------
(* Type invariant. *)
TypeOK ==
    /\ mstatusMIE \in [Cores -> BOOLEAN]
    /\ mie \in [Cores -> SUBSET Bits]
    /\ stack \in [Cores -> Seq(Frames)]
    /\ pending \subseteq Sources /\ inService \subseteq Sources
    /\ enable \in [Cores -> SUBSET Sources]
    /\ threshold \in [Cores -> Nat]
    /\ msip \in [Cores -> BOOLEAN] /\ mtip \in [Cores -> BOOLEAN]
    /\ repeat \in [Cores -> BOOLEAN]
    /\ calls \in [Cores -> 0..MaxCalls] /\ raises \in 0..MaxRaises
    /\ wanted \in [Cores -> SUBSET Bits]
    /\ asked \in [Cores -> SUBSET Sources]
    /\ owed \in [Cores -> BOOLEAN]

Interrupts(c) == 2..Len(stack[c])
InCallback(f) == f.kind = "ext" /\ f.at = "running"
Serving(c) == {i \in Interrupts(c) : InCallback(stack[c][i]) /\ stack[c][i].src # NoSource}

(* How handlers nest: under the masks the handlers set, a core is in at    *)
(* most one software and one timer interrupt, the software one outermost   *)
(* ("to prevent call again", clint.c), and neither comes on top of an      *)
(* external one ("Disable software interrupt and timer interrupt",         *)
(* plic.c).  Callbacks are called with interrupts enabled throughout.      *)
Rank(f) == CASE f.kind = "main" -> 0 [] f.kind = "soft" -> 1 [] f.kind = "timer" -> 2 [] OTHER -> 3

NestingOrder ==
    \A c \in Cores : \A i, j \in 1..Len(stack[c]) :
        i < j => \/ Rank(stack[c][i]) < Rank(stack[c][j])
                 \/ stack[c][i].kind = "ext" /\ stack[c][j].kind = "ext"

(* An external interrupt's callback is interrupted by strictly more urgent *)
(* sources only: the thresholds handle_irq_m_ext raises and restores make  *)
(* the priorities of the nested callbacks of a core increase.  So a        *)
(* callback is never entered again below itself.                           *)
PriorityNesting ==
    \A c \in Cores : \A i, j \in Serving(c) :
        i < j => Priority[stack[c][i].src] < Priority[stack[c][j].src]

(* However the two cores race to claim, one raised interrupt runs one      *)
(* callback: no source is being served twice.                              *)
ServedOnce ==
    \A c, d \in Cores : \A i \in Serving(c), j \in Serving(d) :
        stack[c][i].src = stack[d][j].src => c = d /\ i = j

(* When every handler has returned, a core has the threshold it had and    *)
(* the interrupt enables its calls asked for, whatever nested in between.  *)
MaskRestored ==
    \A c \in Cores : Len(stack[c]) = 1 => threshold[c] = 0 /\ mie[c] = wanted[c]

(* plic_irq_enable and plic_irq_disable, which report success, have done   *)
(* what they say: a core with no such call under way has the enables its   *)
(* calls asked for.                                                        *)
EnablesAsAsked ==
    \A c \in Cores :
        (\A i \in 1..Len(stack[c]) : stack[c][i].op = NoOp) => enable[c] = asked[c]

(* Every IPI is answered by a callback, on a core that keeps software      *)
(* interrupts enabled. *)
IpiServed == \A c \in Cores : owed[c] ~> ~owed[c]

(* Every interrupt raised on a source that some core has enabled is        *)
(* claimed: the thresholds the handlers leave behind do not shut it out.   *)
SourceServed ==
    \A s \in Sources : (s \in pending /\ \E c \in Cores : s \in enable[c]) ~> s \notin pending

=============================================================================
