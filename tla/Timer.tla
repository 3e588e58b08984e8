-------------------------------- MODULE Timer --------------------------------
(***************************************************************************)
(* drivers/timer.c: units of four channels, of which 0 and 1 share the     *)
(* unit's interrupt A, and 2 and 3 its interrupt B.  A channel's callback  *)
(* and mode are in timer_instance; the PLIC knows one handler for each     *)
(* interrupt, with the instance of one of the channels as its context.     *)
(*                                                                         *)
(* One core runs main and, on top of it, the handlers, which other         *)
(* interrupts may interrupt (see TrapNesting).  Callbacks make the calls   *)
(* main makes.  A call that writes timer_instance and then the PLIC's      *)
(* table takes two steps.  Counting is abstract: a running channel may     *)
(* expire at any moment.                                                   *)
(***************************************************************************)
EXTENDS Integers, Sequences, SequencesExt

CONSTANTS
    NDevices,       \* TIMER_DEVICE_MAX
    Used,           \* the channels <<device, channel>> clients use
    Unregisters,    \* those clients unregister
    CallbackCalls,  \* the calls a callback makes
    MaxCalls,       \* bound: calls made
    MaxTicks        \* bound: expiries

Devices == 0 .. NDevices - 1
Channels == 0 .. 3
All == Devices \X Channels
Calls == {"register", "unregister", "enable", "disable"}

ASSUME DevicesAssumption == NDevices \in Nat \ {0}
ASSUME UsedAssumption == Used \subseteq All /\ Unregisters \subseteq Used
ASSUME CallsAssumption == CallbackCalls \subseteq Calls
ASSUME BoundsAssumption == MaxCalls \in Nat /\ MaxTicks \in Nat

VARIABLES
    instance,       \* timer_instance
    running,        \* channels that are enabled and not masked in control
    raw,            \* channels whose interrupt is set
    handler,        \* handler[q]: the context registered with the PLIC, or None
    plicEnabled,    \* interrupts enabled in the PLIC
    stack,          \* main, and the handlers above it
    calls, ticks,   \* calls and expiries spent
    owed,           \* history: expired outside its callback, which has not begun since
    shots,          \* history: callbacks of a channel since it was enabled or registered
    strayed         \* history: channels a handler of another interrupt has come to

unitVars == <<running, raw>>
plicVars == <<handler, plicEnabled>>
history == <<owed, shots, strayed>>
vars == <<instance, unitVars, plicVars, stack, calls, ticks, history>>

(* get_timer_irqn_by_device_and_channel *)
Irqs == Devices \X {"A", "B"}
IrqOf(x) == <<x[1], IF x[2] < 2 THEN "A" ELSE "B">>

None == <<-1, -1>>
Reset == [device |-> 0, channel |-> 0, callback |-> FALSE, singleShot |-> FALSE]

NoCall == [name |-> "none", on |-> None]
Frame(q, at, c) ==
    [irq |-> q, at |-> at, ctx |-> c, device |-> 0, base |-> 0, i |-> 0, status |-> {}, call |-> NoCall]
Main == Frame(None, "client", None)

(* timer_init of every unit. *)
Init ==
    /\ instance = [x \in All |-> Reset]
    /\ running = {} /\ raw = {}
    /\ handler = [q \in Irqs |-> None]
    /\ plicEnabled = {}
    /\ stack = <<Main>>
    /\ calls = 0 /\ ticks = 0
    /\ owed = {}
    /\ shots = [x \in All |-> 0]
    /\ strayed = {}

Top == Last(stack)
At(p) == Top.at = p /\ Top.call = NoCall
Replace(f) == stack' = Append(Front(stack), f)
Goto(p) == Replace([Top EXCEPT !.at = p])

(* The channel a handler is at. *)
Channel(f) == <<f.device, f.i>>
InCallback(x) ==
    \E k \in 2 .. Len(stack) : stack[k].at \in {"client", "shot", "eoi"} /\ Channel(stack[k]) = x

-----------------------------------------------------------------------------
(* Hardware. *)

(* A channel counts down to zero. *)
Expire(x) ==
    /\ ticks < MaxTicks
    /\ x \in running \ raw
    /\ raw' = raw \cup {x}
    /\ ticks' = ticks + 1
    /\ owed' = IF InCallback(x) THEN owed ELSE owed \cup {x}
    /\ UNCHANGED <<instance, running, plicVars, stack, calls, shots, strayed>>

(* intr_stat: what is set and not masked. *)
IntrStat == raw \cap running
Line(q) == \E x \in IntrStat : IrqOf(x) = q

(* handle_irq_m_ext claims and calls the handler.  Without one it only     *)
(* completes the claim, and the line, still up, traps again.               *)
Claim(q) ==
    /\ q \in plicEnabled /\ Line(q) /\ handler[q] # None
    /\ \A k \in 1 .. Len(stack) : stack[k].irq # q
    /\ stack' = Append(stack, Frame(q, "read", handler[q]))
    /\ UNCHANGED <<instance, unitVars, plicVars, calls, ticks, history>>

-----------------------------------------------------------------------------
(* timer_interrupt_handler *)

GroupBase(channel) == 2 * (channel \div 2)

(* The instance says which unit, and then which channel and so which       *)
(* group.  Between the two, and before the status is read, other handlers  *)
(* run, whose callbacks may have the instance zeroed.                      *)
ReadDevice ==
    /\ At("read")
    /\ Replace([Top EXCEPT !.at = "channel", !.device = instance[Top.ctx].device])
    /\ UNCHANGED <<instance, unitVars, plicVars, calls, ticks, history>>

ReadChannel ==
    LET b == GroupBase(instance[Top.ctx].channel) IN
    /\ At("channel")
    /\ Replace([Top EXCEPT !.at = "status", !.base = b, !.i = b])
    /\ UNCHANGED <<instance, unitVars, plicVars, calls, ticks, history>>

(* intr_stat is read once. *)
Group(f) == {x \in All : x[1] = f.device /\ x[2] \in f.base .. f.base + 1}

ReadStatus ==
    /\ At("status")
    /\ Replace([Top EXCEPT !.at = "scan",
                           !.status = {ch \in Channels : <<Top.device, ch>> \in IntrStat}])
    /\ strayed' = strayed \cup {x \in Group(Top) : IrqOf(x) # Top.irq}
    /\ UNCHANGED <<instance, unitVars, plicVars, calls, ticks, owed, shots>>

NextChannel(f) == [f EXCEPT !.at = "scan", !.i = @ + 1]

ScanQuiet ==
    /\ At("scan")
    /\ Top.i < Top.base + 2 /\ Top.i \notin Top.status
    /\ Replace(NextChannel(Top))
    /\ UNCHANGED <<instance, unitVars, plicVars, calls, ticks, history>>

(* The channel's bit is set: its callback, if it has one, ... *)
ScanSet ==
    LET x == Channel(Top) IN
    /\ At("scan")
    /\ Top.i < Top.base + 2 /\ Top.i \in Top.status
    /\ IF instance[x].callback
       THEN /\ Goto("client")
            /\ owed' = owed \ {x}
            /\ shots' = [shots EXCEPT ![x] = @ + 1]
            /\ UNCHANGED strayed
       ELSE Goto("eoi") /\ UNCHANGED history
    /\ UNCHANGED <<instance, unitVars, plicVars, calls, ticks>>

CallbackReturns ==
    /\ At("client") /\ Top.irq # None
    /\ Goto("shot")
    /\ UNCHANGED <<instance, unitVars, plicVars, calls, ticks, history>>

(* Mutant of Shot: the timer is left running. *)
ShotGoesOn ==
    /\ At("shot")
    /\ Goto("eoi")
    /\ UNCHANGED <<instance, unitVars, plicVars, calls, ticks, history>>

(* ... then a single-shot channel is disabled, ... *)
Shot ==
    /\ At("shot")
    /\ running' = IF instance[Channel(Top)].singleShot THEN running \ {Channel(Top)} ELSE running
    /\ owed' = owed \cap running'
    /\ Goto("eoi")
    /\ UNCHANGED <<instance, raw, plicVars, calls, ticks, shots, strayed>>

(* Mutant of Eoi: the end-of-interrupt of the whole unit, as in timer_isr. *)
EoiOfUnit ==
    /\ At("eoi")
    /\ raw' = {x \in raw : x[1] # Top.device}
    /\ Replace(NextChannel(Top))
    /\ UNCHANGED <<instance, running, plicVars, calls, ticks, history>>

(* ... and its interrupt is cleared. *)
Eoi ==
    /\ At("eoi")
    /\ raw' = raw \ {Channel(Top)}
    /\ Replace(NextChannel(Top))
    /\ UNCHANGED <<instance, running, plicVars, calls, ticks, history>>

HandlerReturns ==
    /\ At("scan")
    /\ Top.i = Top.base + 2
    /\ stack' = Front(stack)
    /\ UNCHANGED <<instance, unitVars, plicVars, calls, ticks, history>>

-----------------------------------------------------------------------------
(* The calls of main and of callbacks. *)

MayCall(name) ==
    /\ At("client")
    /\ Top.irq # None => name \in CallbackCalls
    /\ calls < MaxCalls
    /\ calls' = calls + 1
    /\ UNCHANGED <<raw, ticks, strayed>>

Begin(name, x) == Replace([Top EXCEPT !.call = [name |-> name, on |-> x]])
Finish == Replace([Top EXCEPT !.call = NoCall])

(* timer_irq_register: the instance, *)
CallRegister(x, single) ==
    /\ MayCall("register")
    /\ instance' = [instance EXCEPT ![x] =
           [device |-> x[1], channel |-> x[2], callback |-> TRUE, singleShot |-> single]]
    /\ Begin("register", x)
    /\ shots' = [shots EXCEPT ![x] = 0]
    /\ UNCHANGED <<running, plicVars, owed>>

(* Mutant of Register: the interrupt is not enabled. *)
RegisterOnly ==
    LET x == Top.call.on IN
    /\ Top.call.name = "register"
    /\ handler' = [handler EXCEPT ![IrqOf(x)] = x]
    /\ Finish
    /\ UNCHANGED <<instance, unitVars, plicEnabled, calls, ticks, history>>

(* then the PLIC. *)
Register ==
    LET x == Top.call.on IN
    /\ Top.call.name = "register"
    /\ handler' = [handler EXCEPT ![IrqOf(x)] = x]
    /\ plicEnabled' = plicEnabled \cup {IrqOf(x)}
    /\ Finish
    /\ UNCHANGED <<instance, unitVars, calls, ticks, history>>

(* timer_irq_unregister, of a registered channel that has been disabled:   *)
(* the instance,                                                           *)
CallUnregister(x) ==
    /\ instance[x].callback /\ x \notin running
    /\ MayCall("unregister")
    /\ instance' = [instance EXCEPT ![x] = Reset]
    /\ Begin("unregister", x)
    /\ UNCHANGED <<running, plicVars, owed, shots>>

(* then, if both channels of some interrupt of the unit have no callback,  *)
(* the handler of this channel's interrupt.                                *)
Unused(q) == \A x \in All : IrqOf(x) = q => ~instance[x].callback
LetGo(x) == \E g \in {"A", "B"} : Unused(<<x[1], g>>)

(* Mutant of Unregister: the interrupt is that of part A. *)
UnregisterPartA ==
    LET x == Top.call.on IN
    /\ Top.call.name = "unregister"
    /\ handler' = IF LetGo(x) THEN [handler EXCEPT ![<<x[1], "A">>] = None] ELSE handler
    /\ Finish
    /\ UNCHANGED <<instance, unitVars, plicEnabled, calls, ticks, history>>

Unregister ==
    LET x == Top.call.on IN
    /\ Top.call.name = "unregister"
    /\ handler' = IF LetGo(x) THEN [handler EXCEPT ![IrqOf(x)] = None] ELSE handler
    /\ Finish
    /\ UNCHANGED <<instance, unitVars, plicEnabled, calls, ticks, history>>

(* timer_set_enable(1), of a channel that has been registered, ... *)
Enable(x) ==
    /\ instance[x].callback
    /\ MayCall("enable")
    /\ running' = running \cup {x}
    /\ shots' = [shots EXCEPT ![x] = 0]
    /\ UNCHANGED <<instance, plicVars, stack, owed>>

(* ... and timer_set_enable(0), which masks the interrupt too. *)
Disable(x) ==
    /\ MayCall("disable")
    /\ running' = running \ {x}
    /\ owed' = owed \ {x}
    /\ UNCHANGED <<instance, plicVars, stack, shots>>

-----------------------------------------------------------------------------
Handler ==
    \/ ReadDevice \/ ReadChannel \/ ReadStatus
    \/ ScanQuiet \/ ScanSet \/ CallbackReturns \/ Shot \/ Eoi \/ HandlerReturns

Call(x) ==
    \/ \E single \in BOOLEAN : CallRegister(x, single)
    \/ Enable(x) \/ Disable(x)
    \/ x \in Unregisters /\ CallUnregister(x)

Next ==
    \/ \E x \in Used : Expire(x) \/ Call(x)
    \/ \E q \in Irqs : Claim(q)
    \/ Handler \/ Register \/ Unregister

(* The core runs, and takes each interrupt that is pending and that no     *)
(* handler of the same priority keeps out.                                 *)
Fairness ==
    /\ WF_vars(Handler) /\ WF_vars(Register \/ Unregister)
    /\ \A q \in Irqs : WF_vars(Claim(q))

Spec == Init /\ [][Next]_vars /\ Fairness

-----------------------------------------------------------------------------
Frames == [irq : Irqs \cup {None}, at : {"read", "channel", "status", "scan", "client", "shot", "eoi"},
           ctx : All \cup {None}, device : Devices, base : Channels, i : 0 .. 4, status : SUBSET Channels,
           call : [name : {"none", "register", "unregister"}, on : All \cup {None}]]

(* Type invariant: in particular, the handler's loop stays on channels. *)
TypeOK ==
    /\ instance \in [All -> [device : Devices, channel : Channels, callback : BOOLEAN, singleShot : BOOLEAN]]
    /\ running \cup raw \cup owed \cup strayed \subseteq All
    /\ handler \in [Irqs -> All \cup {None}]
    /\ plicEnabled \subseteq Irqs
    /\ stack \in Seq(Frames)
    /\ \A k \in 2 .. Len(stack) : stack[k].at \in {"client", "shot", "eoi"} => stack[k].i \in Channels
    /\ calls \in 0 .. MaxCalls /\ ticks \in 0 .. MaxTicks
    /\ shots \in [All -> Nat]

(* "Combine 0 and 1 to A interrupt, 2 and 3 to B interrupt" (timer.c):     *)
(* while no call is under way, a channel that has a callback has the       *)
(* handler of its interrupt, and the handler's context leads it to this    *)
(* channel's unit and group.                                               *)
Settled == \A k \in 1 .. Len(stack) : stack[k].call = NoCall
ServedWhileRegistered ==
    Settled => \A x \in All : instance[x].callback =>
        LET c == handler[IrqOf(x)] IN
        c # None /\ IrqOf(<<instance[c].device, instance[c].channel>>) = IrqOf(x)

(* No expiry is lost ("Don't read timer[device]->eoi here, or you will     *)
(* lost some interrupt", timer.c): until the channel's callback begins,    *)
(* nobody clears its interrupt, whichever channels expire while others     *)
(* are handled.                                                            *)
TickNotLost == owed \subseteq raw

(* A channel registered as single shot calls back once, then not again     *)
(* until it is enabled anew, even if it expires during its callback: as    *)
(* long as only its own interrupt's handler comes to it.  A handler whose  *)
(* context is unregistered before or while it reads it comes to the        *)
(* channels of another interrupt, and two handlers may call one back.      *)
SingleShotOnce == \A x \in All \ strayed : instance[x].singleShot => shots[x] <= 1

(* Every expiry is answered: the channel's callback begins, or somebody    *)
(* disables it. *)
TickAnswered == \A x \in Used : (x \in owed) ~> (x \notin owed)

=============================================================================
