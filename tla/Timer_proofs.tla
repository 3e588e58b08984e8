---------------------------- MODULE Timer_proofs ----------------------------
(***************************************************************************)
(* Proofs about Timer, for any number of units, channels in use and calls. *)
(*                                                                         *)
(* That no expiry is lost, and that single shots are single, need nothing   *)
(* of the clients.  The rest needs what timer_irq_unregister leaves to     *)
(* them: it zeroes the record that a handler may have as its context, so   *)
(* that the handler strays (Unregisters = {} keeps it from it), and it     *)
(* takes the handler from both channels of an interrupt (LoneUnregisters), *)
(* even one registered while it was on its way (MainRegisters).            *)
(***************************************************************************)
EXTENDS Timer, SequencesExt, SequenceTheorems, TLAPS

-----------------------------------------------------------------------------
(* Stacks of interrupt frames are sequences, the top last: what pushing,   *)
(* popping and replacing the top leave of them.                            *)

LEMMA PushSeq ==
    ASSUME NEW S, NEW s \in Seq(S), NEW f \in S
    PROVE  /\ Append(s, f) \in Seq(S)
           /\ Len(Append(s, f)) = Len(s) + 1
           /\ \A i \in 1 .. Len(s) : Append(s, f)[i] = s[i]
           /\ Append(s, f)[Len(s) + 1] = f
OBVIOUS

LEMMA PopSeq ==
    ASSUME NEW S, NEW s \in Seq(S), Len(s) > 0
    PROVE  /\ Front(s) \in Seq(S)
           /\ Len(Front(s)) = Len(s) - 1
           /\ \A i \in 1 .. (Len(s) - 1) : Front(s)[i] = s[i]
<1> DEFINE k == Len(s) - 1
<1>1. Len(s) \in Nat
  OBVIOUS
<1>2. k \in Nat /\ \A i \in 1 .. k : s[i] \in S
  BY <1>1
<1>3. Front(s) = SubSeq(s, 1, k)
  BY DEF Front
<1> HIDE DEF k
<1>4. /\ SubSeq(s, 1, k) \in Seq(S)
      /\ Len(SubSeq(s, 1, k)) = IF 1 <= k THEN k - 1 + 1 ELSE 0
      /\ \A i \in 1 .. k - 1 + 1 : SubSeq(s, 1, k)[i] = s[1 + i - 1]
  BY <1>2, SubSeqProperties
<1>5. /\ Len(SubSeq(s, 1, k)) = k
      /\ \A i \in 1 .. k : SubSeq(s, 1, k)[i] = s[i]
  BY <1>2, <1>4
<1> QED
  BY <1>3, <1>4, <1>5 DEF k

LEMMA ReplaceSeq ==
    ASSUME NEW S, NEW s \in Seq(S), Len(s) > 0, NEW f \in S
    PROVE  /\ Append(Front(s), f) \in Seq(S)
           /\ Len(Append(Front(s), f)) = Len(s)
           /\ \A i \in 1 .. (Len(s) - 1) : Append(Front(s), f)[i] = s[i]
           /\ Append(Front(s), f)[Len(s)] = f
<1>1. /\ Front(s) \in Seq(S) /\ Len(Front(s)) = Len(s) - 1
      /\ \A i \in 1 .. (Len(s) - 1) : Front(s)[i] = s[i]
  BY PopSeq
<1>2. Len(s) \in Nat
  OBVIOUS
<1> QED
  BY <1>1, <1>2, PushSeq

LEMMA TopSeq ==
    ASSUME NEW S, NEW s \in Seq(S), Len(s) > 0
    PROVE  Len(s) \in Nat /\ Len(s) \in 1 .. Len(s) /\ Last(s) = s[Len(s)] /\ Last(s) \in S
BY DEF Last

-----------------------------------------------------------------------------
(* What clients keep to. *)
LoneUnregisters == \A x \in Unregisters, y \in Used : IrqOf(x) = IrqOf(y) => x = y
MainRegisters == "register" \notin CallbackCalls

-----------------------------------------------------------------------------
(* The inductive invariants.  Types: the stack is main's frame and, above  *)
(* it, frames of handlers, whose loop stays in the group of its base.      *)

(* Main and the handlers above it. *)
Depth == Len(stack)

Registered(x) == instance[x].callback
Busy(f) == f.at \in {"client", "shot", "eoi"}
Reading(f) == f.at \in {"read", "channel", "status"}

Fits(f) ==
    /\ f.base \in {0, 2}
    /\ f.base <= f.i /\ f.i <= f.base + 2
    /\ Busy(f) => f.i < f.base + 2
    /\ f.call = NoCall \/ (f.call.name \in {"register", "unregister"} /\ f.call.on \in Used /\ f.at = "client")

Chain ==
    /\ stack \in Seq(Frames) /\ Depth > 0
    /\ stack[1].irq = None /\ stack[1].at = "client"
    /\ \A k \in 1 .. Depth : Fits(stack[k])
    /\ \A k \in 2 .. Depth : stack[k].irq \in Irqs /\ stack[k].ctx \in All

Registers ==
    /\ instance \in [All -> [device : Devices, channel : Channels, callback : BOOLEAN, singleShot : BOOLEAN]]
    /\ running \cup raw \cup owed \cup strayed \subseteq All
    /\ handler \in [Irqs -> All \cup {None}]
    /\ plicEnabled \subseteq Irqs
    /\ calls \in 0 .. MaxCalls /\ ticks \in 0 .. MaxTicks
    /\ shots \in [All -> Nat]

(* A record is that of its channel, or reset; only registered channels run. *)
Records ==
    /\ \A x \in All : \/ instance[x] = Reset
                      \/ /\ Registered(x) /\ x \in Used
                         /\ instance[x].device = x[1] /\ instance[x].channel = x[2]
    /\ \A x \in running : Registered(x)

Types == Chain /\ Registers /\ Records

(* An expiry is owed while its channel runs, is set, and is in no callback. *)
Ticks ==
    /\ owed \subseteq running /\ owed \subseteq raw
    /\ \A k \in 2 .. Depth : Busy(stack[k]) => Channel(stack[k]) \notin owed

(* Handlers are led to the channels of their own interrupt, or they have   *)
(* strayed, and there is one handler for each. *)
Leads(c) == Registered(c) \/ c \in Unregisters
InGroup(f, x) == x[1] = f.device /\ x[2] \in f.status /\ f.base <= x[2] /\ x[2] < f.base + 2
Aligned(f, s) ==
    /\ IrqOf(f.ctx) = f.irq
    /\ ~Reading(f) => \A x \in All : InGroup(f, x) => IrqOf(x) = f.irq \/ x \in s
Guided ==
    /\ \A q \in Irqs : handler[q] # None => IrqOf(handler[q]) = q /\ Leads(handler[q])
    /\ \A k \in 1 .. Depth : stack[k].call.name = "register" => Leads(stack[k].call.on)
    /\ \A k \in 2 .. Depth : Aligned(stack[k], strayed) /\ Leads(stack[k].ctx)
    /\ \A j, k \in 2 .. Depth : stack[j].irq = stack[k].irq => j = k

(* A single shot that has been fired is disabled when its callback is over, *)
(* and no handler has still to come to it. *)
Ahead(f, x) == ~Reading(f) /\ InGroup(f, x) /\ (f.i < x[2] \/ (f.at = "scan" /\ f.i = x[2]))
Firing(f, x) == f.at \in {"client", "shot"} /\ Channel(f) = x /\ f.irq = IrqOf(x)
Fired(x) == x \notin strayed /\ instance[x].singleShot /\ shots[x] # 0
Once ==
    \A x \in All : Fired(x) =>
        /\ shots[x] = 1
        /\ \A k \in 2 .. Depth : ~Ahead(stack[k], x)
        /\ x \in running => \E k \in 2 .. Depth : Firing(stack[k], x)

(* A registered channel has its handler, or main is about to set it. *)
Found(x) ==
    LET c == handler[IrqOf(x)] IN c # None /\ IrqOf(c) = IrqOf(x) /\ Registered(c)
Served ==
    /\ \A x \in All : Registered(x) =>
          \/ Found(x)
          \/ stack[1].call.name = "register" /\ IrqOf(stack[1].call.on) = IrqOf(x)
    /\ \A k \in 2 .. Depth : stack[k].call.name # "register"
    /\ stack[1].call.name = "register" => Leads(stack[1].call.on)
    /\ \A k \in 1 .. Depth :
          stack[k].call.name = "unregister" =>
              stack[k].call.on \in Unregisters /\ ~Registered(stack[k].call.on)

-----------------------------------------------------------------------------
(* Frames, and what a step does to the stack. *)

Points == {"read", "channel", "status", "scan", "client", "shot", "eoi"}
CallRecords == [name : {"none", "register", "unregister"}, on : All \cup {None}]

LEMMA IrqType ==
    /\ None \notin All /\ None \notin Irqs
    /\ \A x \in All : IrqOf(x) \in Irqs /\ x[1] \in Devices /\ x[2] \in Channels /\ x = <<x[1], x[2]>>
    /\ 0 \in Devices
BY DevicesAssumption DEF All, Irqs, IrqOf, None, Devices, Channels

LEMMA CallType ==
    /\ NoCall \in CallRecords /\ NoCall.name = "none"
    /\ \A x \in All, name \in {"register", "unregister"} :
          /\ [name |-> name, on |-> x] \in CallRecords
          /\ [name |-> name, on |-> x].name = name /\ [name |-> name, on |-> x].on = x
BY DEF NoCall, CallRecords

LEMMA FrameParts ==
    ASSUME NEW f \in Frames
    PROVE  /\ f.irq \in Irqs \cup {None} /\ f.at \in Points /\ f.ctx \in All \cup {None}
           /\ f.device \in Devices /\ f.base \in Channels /\ f.i \in 0 .. 4
           /\ f.status \in SUBSET Channels /\ f.call \in CallRecords
BY DEF Frames, Points, CallRecords

LEMMA NewFrame ==
    ASSUME NEW q \in Irqs \cup {None}, NEW p \in Points, NEW c \in All \cup {None}
    PROVE  /\ Frame(q, p, c) \in Frames
           /\ Frame(q, p, c).irq = q /\ Frame(q, p, c).at = p /\ Frame(q, p, c).ctx = c
           /\ Frame(q, p, c).base = 0 /\ Frame(q, p, c).i = 0 /\ Frame(q, p, c).status = {}
           /\ Frame(q, p, c).call = NoCall
BY IrqType, CallType DEF Frame, Frames, Points, CallRecords, Channels

Replaced(f) == Depth' = Depth /\ stack'[Depth] = f /\ \A k \in 1 .. Depth : k # Depth => stack'[k] = stack[k]
Pushed(f) == Depth' = Depth + 1 /\ stack'[Depth + 1] = f /\ \A k \in 1 .. Depth : stack'[k] = stack[k]

LEMMA Tops ==
    ASSUME Chain
    PROVE  /\ Depth \in Nat /\ Depth > 0 /\ Depth \in 1 .. Depth
           /\ Top = stack[Depth] /\ Top \in Frames /\ Fits(Top)
           /\ \A k \in 1 .. Depth : stack[k] \in Frames
           /\ Top.irq = None <=> Depth = 1
           /\ Top.at # "client" => Top.irq # None
           /\ Depth > 1 => Depth \in 2 .. Depth /\ Top.irq \in Irqs /\ Top.ctx \in All
<1>1. Depth \in Nat /\ Depth > 0 /\ \A k \in 1 .. Depth : stack[k] \in Frames
  BY DEF Chain, Depth
<1>2. Top = stack[Depth]
  BY DEF Top, Last, Depth
<1>3. Depth \in 1 .. Depth /\ (Depth > 1 => Depth \in 2 .. Depth) /\ (Depth = 1 \/ Depth > 1)
  BY <1>1
<1> QED
  BY <1>1, <1>2, <1>3, IrqType DEF Chain

LEMMA ReplaceStep ==
    ASSUME Chain, NEW f \in Frames, Replace(f)
    PROVE  stack' \in Seq(Frames) /\ Replaced(f)
<1>1. stack \in Seq(Frames) /\ Len(stack) > 0 /\ stack' = Append(Front(stack), f)
  BY DEF Chain, Depth, Replace
<1>2. /\ stack' \in Seq(Frames) /\ Len(stack') = Len(stack) /\ stack'[Len(stack)] = f
      /\ \A i \in 1 .. (Len(stack) - 1) : stack'[i] = stack[i]
  BY <1>1, ReplaceSeq
<1>3. Depth \in Nat /\ \A k \in 1 .. Depth : k # Depth => k \in 1 .. (Depth - 1)
  BY Tops
<1> QED
  BY <1>2, <1>3 DEF Replaced, Depth

LEMMA PushStep ==
    ASSUME Chain, NEW f \in Frames, stack' = Append(stack, f)
    PROVE  stack' \in Seq(Frames) /\ Pushed(f)
<1>1. stack \in Seq(Frames)
  BY DEF Chain
<1> QED
  BY <1>1, PushSeq DEF Pushed, Depth

LEMMA PopStep ==
    ASSUME Chain, stack' = Front(stack)
    PROVE  stack' \in Seq(Frames) /\ Depth' = Depth - 1 /\ \A k \in 1 .. (Depth - 1) : stack'[k] = stack[k]
<1>1. stack \in Seq(Frames) /\ Len(stack) > 0
  BY DEF Chain, Depth
<1> QED
  BY <1>1, PopSeq DEF Depth

SamePlace(f, g) ==
    f.irq = g.irq /\ f.ctx = g.ctx /\ f.device = g.device /\ f.base = g.base /\ f.status = g.status

LEMMA GotoStep ==
    ASSUME Chain, NEW p \in Points, Goto(p)
    PROVE  /\ stack' \in Seq(Frames)
           /\ \E f \in Frames : Replaced(f) /\ SamePlace(f, Top) /\ f.i = Top.i /\ f.call = Top.call /\ f.at = p
<1> DEFINE g == Top
           f == [g EXCEPT !.at = p]
<1>1. g \in Frames /\ Replace(f)
  BY Tops DEF Goto
<1> HIDE DEF g
<1>2. f \in Frames /\ SamePlace(f, g) /\ f.i = g.i /\ f.call = g.call /\ f.at = p
  BY <1>1 DEF Frames, SamePlace, Points
<1> HIDE DEF f
<1>3. stack' \in Seq(Frames) /\ Replaced(f)
  BY <1>1, <1>2, ReplaceStep
<1> QED
  BY <1>2, <1>3 DEF g

LEMMA NextStep ==
    ASSUME Chain, Top.i \in 0 .. 3, Replace(NextChannel(Top))
    PROVE  /\ stack' \in Seq(Frames)
           /\ \E f \in Frames :
                 Replaced(f) /\ SamePlace(f, Top) /\ f.i = Top.i + 1 /\ f.call = Top.call /\ f.at = "scan"
<1> DEFINE g == Top
           f == [g EXCEPT !.at = "scan", !.i = g.i + 1]
<1>1. g \in Frames /\ Replace(f) /\ g.i + 1 \in 0 .. 4
  BY Tops DEF NextChannel
<1> HIDE DEF g
<1>2. f \in Frames /\ SamePlace(f, g) /\ f.i = g.i + 1 /\ f.call = g.call /\ f.at = "scan"
  BY <1>1 DEF Frames, SamePlace
<1> HIDE DEF f
<1>3. stack' \in Seq(Frames) /\ Replaced(f)
  BY <1>1, <1>2, ReplaceStep
<1> QED
  BY <1>2, <1>3 DEF g

LEMMA CallStep ==
    ASSUME Chain, NEW o \in CallRecords, Replace([Top EXCEPT !.call = o])
    PROVE  /\ stack' \in Seq(Frames)
           /\ \E f \in Frames : Replaced(f) /\ SamePlace(f, Top) /\ f.i = Top.i /\ f.call = o /\ f.at = Top.at
<1> DEFINE g == Top
           f == [g EXCEPT !.call = o]
<1>1. g \in Frames /\ Replace(f)
  BY Tops
<1> HIDE DEF g
<1>2. f \in Frames /\ SamePlace(f, g) /\ f.i = g.i /\ f.call = o /\ f.at = g.at
  BY <1>1 DEF Frames, SamePlace, CallRecords
<1> HIDE DEF f
<1>3. stack' \in Seq(Frames) /\ Replaced(f)
  BY <1>1, <1>2, ReplaceStep
<1> QED
  BY <1>2, <1>3 DEF g

LEMMA GroupBaseType ==
    ASSUME NEW ch \in Channels
    PROVE  /\ GroupBase(ch) \in {0, 2} /\ GroupBase(ch) <= ch /\ ch < GroupBase(ch) + 2
           /\ \A i \in Channels : GroupBase(ch) <= i /\ i < GroupBase(ch) + 2 => (i < 2 <=> ch < 2)
<1>1. ch = 0 \/ ch = 1 \/ ch = 2 \/ ch = 3
  BY DEF Channels
<1> QED
  BY <1>1 DEF GroupBase, Channels

(* The three steps that read. *)
Read == ReadDevice \/ ReadChannel \/ ReadStatus
StatusOf(d) == {ch \in Channels : <<d, ch>> \in IntrStat}

LEMMA DeviceStep ==
    ASSUME Chain, Registers, ReadDevice
    PROVE  /\ stack' \in Seq(Frames) /\ Depth > 1 /\ Top.at = "read" /\ Top.call = NoCall
           /\ \E f \in Frames :
                 /\ Replaced(f) /\ f.irq = Top.irq /\ f.ctx = Top.ctx /\ f.call = NoCall /\ f.at = "channel"
                 /\ f.device = instance[Top.ctx].device /\ f.base = Top.base /\ f.i = Top.i
<1> DEFINE g == Top
           d == instance[g.ctx].device
           f == [g EXCEPT !.at = "channel", !.device = d]
<1>1. g \in Frames /\ Replace(f) /\ g.call = NoCall /\ g.at = "read" /\ Depth > 1 /\ g.ctx \in All
  BY Tops DEF ReadDevice, At
<1>2. d \in Devices
  BY <1>1 DEF Registers
<1> HIDE DEF g, d
<1>3. /\ f \in Frames /\ f.irq = g.irq /\ f.ctx = g.ctx /\ f.call = g.call /\ f.at = "channel"
      /\ f.device = d /\ f.base = g.base /\ f.i = g.i
  BY <1>1, <1>2 DEF Frames
<1> HIDE DEF f
<1>4. stack' \in Seq(Frames) /\ Replaced(f)
  BY <1>1, <1>3, ReplaceStep
<1> QED
  BY <1>1, <1>3, <1>4 DEF g, d

LEMMA ChannelStep ==
    ASSUME Chain, Registers, ReadChannel
    PROVE  /\ stack' \in Seq(Frames) /\ Depth > 1 /\ Top.at = "channel" /\ Top.call = NoCall
           /\ \E f \in Frames :
                 /\ Replaced(f) /\ f.irq = Top.irq /\ f.ctx = Top.ctx /\ f.call = NoCall /\ f.at = "status"
                 /\ f.device = Top.device /\ f.base = GroupBase(instance[Top.ctx].channel) /\ f.i = f.base
<1> DEFINE g == Top
           b == GroupBase(instance[g.ctx].channel)
           f == [g EXCEPT !.at = "status", !.base = b, !.i = b]
<1>1. g \in Frames /\ Replace(f) /\ g.call = NoCall /\ g.at = "channel" /\ Depth > 1 /\ g.ctx \in All
  BY Tops DEF ReadChannel, At
<1>2. instance[g.ctx].channel \in Channels
  BY <1>1 DEF Registers
<1>3. b \in Channels /\ b \in 0 .. 4
  BY <1>2, GroupBaseType DEF Channels
<1> HIDE DEF g, b
<1>4. /\ f \in Frames /\ f.irq = g.irq /\ f.ctx = g.ctx /\ f.call = g.call /\ f.at = "status"
      /\ f.device = g.device /\ f.base = b /\ f.i = b
  BY <1>1, <1>3 DEF Frames
<1> HIDE DEF f
<1>5. stack' \in Seq(Frames) /\ Replaced(f)
  BY <1>1, <1>4, ReplaceStep
<1> QED
  BY <1>1, <1>4, <1>5 DEF g, b

LEMMA StatusStep ==
    ASSUME Chain, ReadStatus
    PROVE  /\ stack' \in Seq(Frames) /\ Depth > 1 /\ Top.at = "status" /\ Top.call = NoCall
           /\ \E f \in Frames :
                 /\ Replaced(f) /\ f.irq = Top.irq /\ f.ctx = Top.ctx /\ f.call = NoCall /\ f.at = "scan"
                 /\ f.device = Top.device /\ f.base = Top.base /\ f.i = Top.i /\ f.status = StatusOf(f.device)
<1> DEFINE g == Top
           w == StatusOf(g.device)
           f == [g EXCEPT !.at = "scan", !.status = w]
<1>1. g \in Frames /\ Replace(f) /\ g.call = NoCall /\ g.at = "status" /\ Depth > 1
  BY Tops DEF ReadStatus, At, StatusOf
<1>2. w \in SUBSET Channels
  BY DEF StatusOf
<1> HIDE DEF g, w
<1>3. /\ f \in Frames /\ f.irq = g.irq /\ f.ctx = g.ctx /\ f.call = g.call /\ f.at = "scan"
      /\ f.device = g.device /\ f.base = g.base /\ f.i = g.i /\ f.status = w
  BY <1>1, <1>2 DEF Frames
<1> HIDE DEF f
<1>4. stack' \in Seq(Frames) /\ Replaced(f)
  BY <1>1, <1>3, ReplaceStep
<1> QED
  BY <1>1, <1>3, <1>4 DEF g, w

LEMMA ReadStep ==
    ASSUME Chain, Registers, Read
    PROVE  /\ stack' \in Seq(Frames) /\ Depth > 1 /\ Reading(Top)
           /\ \E f \in Frames :
                 /\ Replaced(f) /\ f.irq = Top.irq /\ f.ctx = Top.ctx /\ f.call = NoCall
                 /\ f.at \in {"channel", "status", "scan"}
                 /\ f.base \in {0, 2} /\ f.base <= f.i /\ f.i <= f.base + 2
<1>1. CASE ReadDevice \/ ReadStatus
  <2>1. Fits(Top)
    BY Tops
  <2> QED
    BY <1>1, <2>1, DeviceStep, StatusStep DEF Reading, Fits
<1>2. CASE ReadChannel
  <2>1. Top.ctx \in All /\ instance[Top.ctx].channel \in Channels
    BY <1>2, ChannelStep, Tops DEF Registers
  <2> QED
    BY <1>2, <2>1, ChannelStep, GroupBaseType DEF Reading
<1> QED
  BY <1>1, <1>2 DEF Read

(* The steps of a handler that stay at their channel, and those that move  *)
(* on to the next one. *)
LEMMA StayStep ==
    ASSUME Chain, ScanSet \/ CallbackReturns \/ Shot
    PROVE  /\ stack' \in Seq(Frames) /\ Depth > 1 /\ ~Reading(Top) /\ Top.i < Top.base + 2 /\ Top.call = NoCall
           /\ \E f \in Frames : /\ Replaced(f) /\ SamePlace(f, Top) /\ f.i = Top.i /\ f.call = NoCall /\ Busy(f)
                                /\ CallbackReturns => f.at = "shot"
                                /\ Shot => f.at = "eoi"
<1>1. Depth > 1 /\ ~Reading(Top) /\ Top.i < Top.base + 2 /\ Top.call = NoCall
  BY Tops DEF ScanSet, CallbackReturns, Shot, At, Fits, Busy, Reading
<1>2. PICK p \in {"client", "shot", "eoi"} :
        Goto(p) /\ (CallbackReturns => p = "shot") /\ (Shot => p = "eoi")
  BY DEF ScanSet, CallbackReturns, Shot, At
<1>3. p \in Points
  BY DEF Points
<1>4. /\ stack' \in Seq(Frames)
      /\ \E f \in Frames : Replaced(f) /\ SamePlace(f, Top) /\ f.i = Top.i /\ f.call = Top.call /\ f.at = p
  BY <1>2, <1>3, GotoStep
<1> QED
  BY <1>1, <1>2, <1>4 DEF Busy

LEMMA OnStep ==
    ASSUME Chain, ScanQuiet \/ Eoi
    PROVE  /\ stack' \in Seq(Frames) /\ Depth > 1 /\ ~Reading(Top) /\ Top.i < Top.base + 2 /\ Top.call = NoCall
           /\ \E f \in Frames : Replaced(f) /\ SamePlace(f, Top) /\ f.i = Top.i + 1 /\ f.call = NoCall /\ f.at = "scan"
<1>1. Depth > 1 /\ ~Reading(Top) /\ Top.i < Top.base + 2 /\ Top.call = NoCall /\ Top \in Frames /\ Fits(Top)
  BY Tops DEF ScanQuiet, Eoi, At, Fits, Busy, Reading
<1>2. Top.i \in 0 .. 3
  <2>1. Top.i \in 0 .. 4 /\ Top.base \in {0, 2}
    BY <1>1, FrameParts DEF Fits
  <2> QED
    BY <1>1, <2>1
<1>3. Replace(NextChannel(Top))
  BY DEF ScanQuiet, Eoi
<1> QED
  BY <1>1, <1>2, <1>3, NextStep

(* The calls that begin in the top frame, and those that end. *)
LEMMA BeginStep ==
    ASSUME Chain, Registers, NEW x \in Used, NEW name \in {"register", "unregister"},
           Begin(name, x), At("client")
    PROVE  /\ stack' \in Seq(Frames) /\ Top.at = "client" /\ Top.call = NoCall
           /\ \E f \in Frames : /\ Replaced(f) /\ SamePlace(f, Top) /\ f.i = Top.i /\ f.at = "client"
                                /\ f.call.name = name /\ f.call.on = x
<1> DEFINE o == [name |-> name, on |-> x]
<1>1. x \in All /\ o \in CallRecords /\ o.name = name /\ o.on = x
  BY CallType, UsedAssumption
<1>2. Replace([Top EXCEPT !.call = o]) /\ Top.at = "client" /\ Top.call = NoCall
  BY DEF Begin, At
<1> HIDE DEF o
<1> QED
  BY <1>1, <1>2, CallStep

LEMMA EndStep ==
    ASSUME Chain, Register \/ Unregister
    PROVE  /\ stack' \in Seq(Frames) /\ Top.at = "client" /\ Top.call.on \in Used /\ Top.call.on \in All
           /\ \E f \in Frames : /\ Replaced(f) /\ SamePlace(f, Top) /\ f.i = Top.i /\ f.at = "client"
                                /\ f.call = NoCall
<1>1. Replace([Top EXCEPT !.call = NoCall]) /\ Top.call.name \in {"register", "unregister"}
  BY DEF Register, Unregister, Finish
<1>2. Top.call # NoCall
  BY <1>1, CallType
<1>3. Top.at = "client" /\ Top.call.on \in Used /\ Top.call.on \in All
  BY <1>2, Tops, UsedAssumption DEF Fits
<1> QED
  BY <1>1, <1>3, CallType, CallStep

LEMMA ClaimStep ==
    ASSUME Chain, Registers, NEW q \in Irqs, Claim(q)
    PROVE  /\ stack' \in Seq(Frames) /\ handler[q] \in All
           /\ \E f \in Frames : /\ Pushed(f) /\ f.irq = q /\ f.at = "read" /\ f.ctx = handler[q]
                                /\ f.call = NoCall /\ f.base = 0 /\ f.i = 0 /\ f.status = {}
<1> DEFINE f == Frame(q, "read", handler[q])
<1>1. handler[q] \in All /\ stack' = Append(stack, f)
  BY DEF Claim, Registers
<1>2. f \in Frames /\ f.irq = q /\ f.at = "read" /\ f.ctx = handler[q] /\ f.call = NoCall /\ f.base = 0
      /\ f.i = 0 /\ f.status = {}
  BY <1>1, NewFrame DEF Points
<1> HIDE DEF f
<1> QED
  BY <1>1, <1>2, PushStep

LEMMA ReturnStep ==
    ASSUME Chain, HandlerReturns
    PROVE  /\ stack' \in Seq(Frames) /\ Depth' = Depth - 1 /\ Depth > 1
           /\ \A k \in 1 .. (Depth - 1) : stack'[k] = stack[k]
BY Tops, PopStep DEF HandlerReturns, At

-----------------------------------------------------------------------------
(* Types. *)

LEMMA ReplaceChain ==
    ASSUME Chain, stack' \in Seq(Frames), NEW f \in Frames, Replaced(f), Fits(f), f.irq = Top.irq,
           f.ctx = Top.ctx, Depth = 1 => f.at = "client"
    PROVE  Chain'
<1>1. Depth \in Nat /\ Depth > 0 /\ Depth' = Depth /\ stack'[Depth] = f /\ Top = stack[Depth]
      /\ \A k \in 1 .. Depth : k # Depth => stack'[k] = stack[k]
  BY Tops DEF Replaced
<1>2. stack'[1].irq = None /\ stack'[1].at = "client"
  BY <1>1 DEF Chain
<1>3. /\ \A k \in 1 .. Depth : Fits(stack'[k])
      /\ \A k \in 2 .. Depth : stack'[k].irq \in Irqs /\ stack'[k].ctx \in All
  BY <1>1 DEF Chain
<1> QED
  BY <1>1, <1>2, <1>3 DEF Chain

LEMMA HandlerChain ==
    ASSUME Chain, Registers, Handler
    PROVE  Chain'
<1>1. CASE Read
  <2>1. PICK f \in Frames :
          /\ Replaced(f) /\ f.irq = Top.irq /\ f.ctx = Top.ctx /\ f.call = NoCall
          /\ f.at \in {"channel", "status", "scan"}
          /\ f.base \in {0, 2} /\ f.base <= f.i /\ f.i <= f.base + 2
    BY <1>1, ReadStep
  <2>2. Depth > 1 /\ stack' \in Seq(Frames)
    BY <1>1, ReadStep
  <2>3. Fits(f)
    BY <2>1 DEF Fits, Busy
  <2> QED
    BY <2>1, <2>2, <2>3, ReplaceChain
<1>2. CASE ScanSet \/ CallbackReturns \/ Shot
  <2>1. PICK f \in Frames : Replaced(f) /\ SamePlace(f, Top) /\ f.i = Top.i /\ f.call = NoCall /\ Busy(f)
    BY <1>2, StayStep
  <2>2. Depth > 1 /\ stack' \in Seq(Frames) /\ ~Reading(Top) /\ Top.i < Top.base + 2 /\ Fits(Top)
    BY <1>2, StayStep, Tops
  <2>3. Fits(f)
    BY <2>1, <2>2 DEF Fits, SamePlace
  <2> QED
    BY <2>1, <2>2, <2>3, ReplaceChain DEF SamePlace
<1>3. CASE ScanQuiet \/ Eoi
  <2>1. PICK f \in Frames : Replaced(f) /\ SamePlace(f, Top) /\ f.i = Top.i + 1 /\ f.call = NoCall /\ f.at = "scan"
    BY <1>3, OnStep
  <2>2. /\ Depth > 1 /\ stack' \in Seq(Frames) /\ ~Reading(Top) /\ Top.i < Top.base + 2 /\ Fits(Top)
        /\ Top.i \in 0 .. 4 /\ Top.base \in {0, 2}
    BY <1>3, OnStep, Tops, FrameParts DEF Fits
  <2>3. Top.base <= Top.i
    BY <2>2 DEF Fits
  <2>4. f.base <= f.i /\ f.i <= f.base + 2
    BY <2>1, <2>2, <2>3 DEF SamePlace
  <2>5. Fits(f)
    BY <2>1, <2>2, <2>4 DEF Fits, SamePlace, Busy
  <2> QED
    BY <2>1, <2>2, <2>5, ReplaceChain DEF SamePlace
<1>4. CASE HandlerReturns
  <2>1. /\ stack' \in Seq(Frames) /\ Depth' = Depth - 1 /\ Depth > 1 /\ Depth \in Nat
        /\ \A k \in 1 .. (Depth - 1) : stack'[k] = stack[k]
    BY <1>4, ReturnStep, Tops
  <2> QED
    BY <2>1 DEF Chain
<1> QED
  BY <1>1, <1>2, <1>3, <1>4 DEF Handler, Read

LEMMA ClaimChain ==
    ASSUME Chain, Registers, NEW q \in Irqs, Claim(q)
    PROVE  Chain'
<1>1. PICK f \in Frames : /\ Pushed(f) /\ f.irq = q /\ f.at = "read" /\ f.ctx = handler[q]
                          /\ f.call = NoCall /\ f.base = 0 /\ f.i = 0
  BY ClaimStep
<1>2. stack' \in Seq(Frames) /\ handler[q] \in All /\ Depth \in Nat /\ Depth > 0
  BY ClaimStep, Tops
<1>3. Fits(f)
  BY <1>1 DEF Fits, Busy
<1> QED
  BY <1>1, <1>2, <1>3 DEF Chain, Pushed

LEMMA CallChain ==
    ASSUME Chain, Registers, \/ Register \/ Unregister
                             \/ \E x \in Used : \/ \E b \in BOOLEAN : CallRegister(x, b)
                                                \/ CallUnregister(x)
    PROVE  Chain'
<1>1. PICK f \in Frames : /\ Replaced(f) /\ SamePlace(f, Top) /\ f.i = Top.i /\ f.at = "client"
                          /\ f.call = NoCall \/ (f.call.name \in {"register", "unregister"} /\ f.call.on \in Used)
  <2>1. CASE Register \/ Unregister
    BY <2>1, EndStep
  <2>2. ASSUME NEW x \in Used, (\E b \in BOOLEAN : CallRegister(x, b)) \/ CallUnregister(x)
        PROVE  \E f \in Frames : /\ Replaced(f) /\ SamePlace(f, Top) /\ f.i = Top.i /\ f.at = "client"
                                 /\ f.call.name \in {"register", "unregister"} /\ f.call.on \in Used
    BY <2>2, BeginStep DEF CallRegister, CallUnregister, MayCall
  <2> QED
    BY <2>1, <2>2
<1>2. stack' \in Seq(Frames) /\ Top.at = "client"
  BY EndStep, BeginStep DEF CallRegister, CallUnregister, MayCall
<1>3. Fits(f)
  <2>1. Fits(Top)
    BY Tops
  <2> QED
    BY <1>1, <1>2, <2>1 DEF Fits, SamePlace, Busy
<1> QED
  BY <1>1, <1>2, <1>3, ReplaceChain DEF SamePlace

LEMMA StillChain == Chain /\ stack' = stack => Chain'
BY DEF Chain, Depth

LEMMA NextChain == Chain /\ Registers /\ [Next]_vars => Chain'
<1> SUFFICES ASSUME Chain, Registers, [Next]_vars PROVE Chain'
  OBVIOUS
<1>1. CASE UNCHANGED vars \/ \E x \in Used : Expire(x) \/ Enable(x) \/ Disable(x)
  BY <1>1, StillChain DEF vars, Expire, Enable, Disable
<1> QED
  BY <1>1, HandlerChain, ClaimChain, CallChain DEF Next, Call

LEMMA CountType ==
    ASSUME Registers, NEW name, MayCall(name)
    PROVE  calls' \in 0 .. MaxCalls /\ ticks' \in 0 .. MaxTicks /\ raw' = raw /\ strayed' = strayed
BY BoundsAssumption DEF Registers, MayCall

LEMMA NextRegisters == Chain /\ Registers /\ [Next]_vars => Registers'
<1> SUFFICES ASSUME Chain, Registers, [Next]_vars PROVE Registers'
  OBVIOUS
<1> USE UsedAssumption
<1>1. CASE UNCHANGED vars \/ ReadDevice \/ ReadChannel \/ ScanQuiet \/ CallbackReturns \/ HandlerReturns
           \/ \E q \in Irqs : Claim(q)
  BY <1>1 DEF Registers, vars, ReadDevice, ReadChannel, ScanQuiet, CallbackReturns, HandlerReturns, Claim, unitVars, plicVars, history
<1>2. CASE \E x \in Used : Expire(x)
  BY <1>2, BoundsAssumption DEF Registers, Expire, plicVars
<1>3. CASE ScanSet
  <2>1. Channel(Top) \in All
    <3>1. Top.device \in Devices /\ Top.i \in 0 .. 4 /\ Top.i \in Top.status /\ Top.status \in SUBSET Channels
      BY <1>3, Tops, FrameParts DEF ScanSet
    <3>2. Top.i \in Channels
      BY <3>1
    <3>3. \A d \in Devices, i \in Channels : <<d, i>> \in All
      BY DEF All
    <3> QED
      BY <3>1, <3>2, <3>3, Zenon DEF Channel
  <2>2. shots' \in [All -> Nat] /\ owed' \subseteq All /\ strayed' = strayed
    BY <1>3, <2>1 DEF Registers, ScanSet, history
  <2> QED
    BY <1>3, <2>2 DEF Registers, ScanSet, unitVars, plicVars
<1>4. CASE Shot \/ Eoi
  BY <1>4 DEF Registers, Shot, Eoi, plicVars, history
<1>8. CASE ReadStatus
  <2>1. strayed' \subseteq All
    BY <1>8 DEF Registers, ReadStatus, Group
  <2> QED
    BY <1>8, <2>1 DEF Registers, ReadStatus, unitVars, plicVars
<1>5. CASE Register \/ Unregister
  <2>1. handler' \in [Irqs -> All \cup {None}]
    <3>1. Top.call.on \in All /\ IrqOf(Top.call.on) \in Irqs
      BY <1>5, EndStep, IrqType
    <3> QED
      BY <1>5, <3>1 DEF Register, Unregister, Registers
  <2>2. plicEnabled' \subseteq Irqs
    BY <1>5, EndStep, IrqType DEF Register, Unregister, Registers
  <2> QED
    BY <1>5, <2>1, <2>2 DEF Register, Unregister, Registers, unitVars, history
<1>6. ASSUME NEW x \in Used, (\E b \in BOOLEAN : CallRegister(x, b)) \/ CallUnregister(x) PROVE Registers'
  <2>1. x \in All /\ x[1] \in Devices /\ x[2] \in Channels
    BY IrqType
  <2>2. calls' \in 0 .. MaxCalls /\ ticks' \in 0 .. MaxTicks /\ raw' = raw /\ strayed' = strayed
    BY <1>6, CountType DEF CallRegister, CallUnregister
  <2>3. instance' \in [All -> [device : Devices, channel : Channels, callback : BOOLEAN, singleShot : BOOLEAN]]
    <3> DEFINE R == [device : Devices, channel : Channels, callback : BOOLEAN, singleShot : BOOLEAN]
    <3>1. Reset \in R
      BY IrqType DEF Reset, Channels
    <3>2. \A b \in BOOLEAN : [device |-> x[1], channel |-> x[2], callback |-> TRUE, singleShot |-> b] \in R
      BY <2>1
    <3>3. instance \in [All -> R]
      BY DEF Registers
    <3> HIDE DEF R
    <3>4. \E r \in R : instance' = [instance EXCEPT ![x] = r]
      BY <1>6, <3>1, <3>2 DEF CallRegister, CallUnregister
    <3>5. instance' \in [All -> R]
      BY <3>3, <3>4
    <3> QED
      BY <3>5 DEF R
  <2>4. shots' \in [All -> Nat]
    BY <1>6 DEF CallRegister, CallUnregister, Registers, history
  <2> QED
    BY <1>6, <2>2, <2>3, <2>4 DEF CallRegister, CallUnregister, Registers, plicVars, history
<1>7. ASSUME NEW x \in Used, Enable(x) \/ Disable(x) PROVE Registers'
  <2>1. calls' \in 0 .. MaxCalls /\ ticks' \in 0 .. MaxTicks /\ raw' = raw /\ strayed' = strayed
    BY <1>7, CountType DEF Enable, Disable
  <2>2. shots' \in [All -> Nat] /\ running' \subseteq All /\ owed' \subseteq All
    BY <1>7 DEF Enable, Disable, Registers
  <2> QED
    BY <1>7, <2>1, <2>2 DEF Enable, Disable, Registers, plicVars
<1> QED
  BY <1>1, <1>2, <1>3, <1>4, <1>5, <1>6, <1>7, <1>8 DEF Next, Call, Handler

LEMMA SameRecords ==
    ASSUME Records, instance' = instance, running' \subseteq running
    PROVE  Records'
BY DEF Records, Registered

LEMMA NextRecords == Chain /\ Registers /\ Records /\ [Next]_vars => Records'
<1> SUFFICES ASSUME Chain, Registers, Records, [Next]_vars PROVE Records'
  OBVIOUS
<1>1. CASE \/ UNCHANGED vars \/ Handler \/ Register \/ Unregister
           \/ (\E q \in Irqs : Claim(q)) \/ (\E x \in Used : Expire(x) \/ Disable(x))
  <2>1. instance' = instance /\ running' \subseteq running
    BY <1>1 DEF vars, Handler, ReadDevice, ReadChannel, ReadStatus, ScanQuiet, ScanSet, CallbackReturns, Shot, Eoi, HandlerReturns,
                Register, Unregister, Claim, Expire, Disable, unitVars
  <2> QED
    BY <2>1, SameRecords
<1>2. ASSUME NEW x \in Used, NEW b \in BOOLEAN, CallRegister(x, b) PROVE Records'
  <2> DEFINE r == [device |-> x[1], channel |-> x[2], callback |-> TRUE, singleShot |-> b]
  <2>1. instance' = [instance EXCEPT ![x] = r] /\ running' = running /\ x \in All
        /\ r.device = x[1] /\ r.channel = x[2] /\ r.callback
    BY <1>2, UsedAssumption DEF CallRegister
  <2> HIDE DEF r
  <2>2. instance'[x] = r /\ \A y \in All : y # x => instance'[y] = instance[y]
    BY <2>1 DEF Registers
  <2>3. running \subseteq All
    BY DEF Registers
  <2> QED
    BY <2>1, <2>2, <2>3 DEF Records, Registered
<1>3. ASSUME NEW x \in Used, CallUnregister(x) PROVE Records'
  <2>1. instance' = [instance EXCEPT ![x] = Reset] /\ running' = running /\ x \notin running /\ x \in All
    BY <1>3, UsedAssumption DEF CallUnregister
  <2>2. instance'[x] = Reset /\ \A y \in All : y # x => instance'[y] = instance[y]
    BY <2>1 DEF Registers
  <2>3. running \subseteq All
    BY DEF Registers
  <2> QED
    BY <2>1, <2>2, <2>3 DEF Records, Registered
<1>4. ASSUME NEW x \in Used, Enable(x) PROVE Records'
  BY <1>4 DEF Enable, Records, Registered
<1> QED
  BY <1>1, <1>2, <1>3, <1>4 DEF Next, Call

LEMMA InitTypes == Init => Types
<1> SUFFICES ASSUME Init PROVE Types
  OBVIOUS
<1>1. Main \in Frames /\ Main.irq = None /\ Main.at = "client" /\ Main.call = NoCall /\ Main.base = 0 /\ Main.i = 0
  BY NewFrame DEF Main, Points
<1>2. Fits(Main)
  BY <1>1 DEF Fits, Busy
<1>3. Chain
  <2>1. <<Main>> \in Seq(Frames) /\ Len(<<Main>>) = 1 /\ <<Main>>[1] = Main
    BY <1>1
  <2>2. stack = <<Main>> /\ Depth = 1
    BY <2>1 DEF Init, Depth
  <2> QED
    BY <1>1, <1>2, <2>1, <2>2 DEF Chain
<1>4. Reset \in [device : Devices, channel : Channels, callback : BOOLEAN, singleShot : BOOLEAN]
  BY IrqType DEF Reset, Channels
<1>5. Registers
  BY <1>4, BoundsAssumption DEF Init, Registers
<1>6. Records
  BY DEF Init, Records
<1> QED
  BY <1>3, <1>5, <1>6 DEF Types

LEMMA SpecTypes == Spec => []Types
<1>1. Types /\ [Next]_vars => Types'
  BY NextChain, NextRegisters, NextRecords DEF Types
<1> QED
  BY <1>1, InitTypes, PTL DEF Spec

(* The driver's state keeps its types; in particular the handler's loop    *)
(* stays on the unit's channels (timer.c:288).                             *)
THEOREM TypeCorrect == Spec => []TypeOK
<1>1. Types => TypeOK
  <2> SUFFICES ASSUME Types PROVE TypeOK
    OBVIOUS
  <2>1. Chain /\ Registers
    BY DEF Types
  <2>2. ASSUME NEW k \in 2 .. Depth, Busy(stack[k]) PROVE stack[k].i \in Channels
    <3>1. k \in 1 .. Depth
      BY <2>1, Tops
    <3>2. Fits(stack[k]) /\ stack[k].i \in 0 .. 4 /\ stack[k].base \in {0, 2}
      BY <2>1, <3>1, Tops, FrameParts DEF Chain, Fits
    <3> QED
      BY <2>2, <3>2 DEF Fits, Channels
  <2> QED
    BY <2>1, <2>2 DEF Chain, Registers, TypeOK, Depth, Busy
<1> QED
  BY <1>1, SpecTypes, PTL


-----------------------------------------------------------------------------
(* No expiry is lost. *)

SameChannel(f, g) == f.device = g.device /\ f.i = g.i

LEMMA StillTicks ==
    ASSUME Ticks, stack' = stack, owed' \subseteq owed, owed' \subseteq running', owed' \subseteq raw'
    PROVE  Ticks'
BY DEF Ticks, Depth

LEMMA ReplaceTicks ==
    ASSUME Chain, Ticks, NEW f, Replaced(f), owed' \subseteq owed, owed' \subseteq running', owed' \subseteq raw',
           Depth > 1 /\ Busy(f) => Channel(f) \notin owed'
    PROVE  Ticks'
<1>1. Depth \in Nat /\ Depth > 0
  BY Tops
<1>2. ASSUME NEW k \in 2 .. Depth, Busy(stack'[k]) PROVE Channel(stack'[k]) \notin owed'
  <2>1. CASE k = Depth
    BY <1>1, <1>2, <2>1 DEF Replaced
  <2>2. CASE k # Depth
    <3>1. stack'[k] = stack[k]
      BY <1>1, <2>2 DEF Replaced
    <3> QED
      BY <1>2, <3>1 DEF Ticks
  <2> QED
    BY <2>1, <2>2
<1> QED
  BY <1>2 DEF Ticks, Replaced

LEMMA ExpireTicks ==
    ASSUME Ticks, NEW x, Expire(x)
    PROVE  Ticks'
<1>1. stack' = stack /\ running' = running /\ raw' = raw \cup {x} /\ x \in running
  BY DEF Expire
<1>2. CASE InCallback(x)
  BY <1>1, <1>2, StillTicks DEF Expire, Ticks
<1>3. CASE ~InCallback(x)
  <2>1. owed' = owed \cup {x}
    BY <1>3 DEF Expire
  <2>2. \A k \in 2 .. Depth : Busy(stack[k]) => Channel(stack[k]) # x
    BY <1>3 DEF InCallback, Busy, Depth
  <2>3. \A k \in 2 .. Depth : Busy(stack[k]) => Channel(stack[k]) \notin owed'
    BY <2>1, <2>2 DEF Ticks
  <2> QED
    BY <1>1, <2>1, <2>3 DEF Ticks, Depth
<1> QED
  BY <1>2, <1>3

LEMMA HandlerTicks ==
    ASSUME Chain, Registers, Records, Ticks, Handler
    PROVE  Ticks'
<1>1. CASE Read
  <2>1. PICK f \in Frames : Replaced(f) /\ f.at \in {"channel", "status", "scan"}
    BY <1>1, ReadStep
  <2>2. owed' = owed /\ running' = running /\ raw' = raw
    BY <1>1 DEF Read, ReadDevice, ReadChannel, ReadStatus, unitVars, history
  <2> QED
    BY <2>1, <2>2, ReplaceTicks DEF Busy, Ticks
<1>2. CASE ScanQuiet \/ Eoi
  <2>1. PICK f \in Frames : Replaced(f) /\ f.at = "scan"
    BY <1>2, OnStep
  <2>2. owed' = owed /\ running' = running /\ owed \subseteq raw'
    <3>1. CASE ScanQuiet
      BY <3>1 DEF ScanQuiet, unitVars, history, Ticks
    <3>2. CASE Eoi
      <4>1. Channel(Top) \notin owed
        BY <3>2, Tops DEF Eoi, At, Busy, Ticks
      <4> QED
        BY <3>2, <4>1 DEF Eoi, history, Ticks
    <3> QED
      BY <1>2, <3>1, <3>2
  <2> QED
    BY <2>1, <2>2, ReplaceTicks DEF Busy, Ticks
<1>3. CASE ScanSet \/ CallbackReturns \/ Shot
  <2>1. PICK f \in Frames : Replaced(f) /\ SamePlace(f, Top) /\ f.i = Top.i
    BY <1>3, StayStep
  <2>2. Channel(f) = Channel(Top)
    BY <2>1 DEF SamePlace, Channel
  <2>3. Depth > 1
    BY <1>3, StayStep
  <2>4. /\ owed' \subseteq owed /\ owed' \subseteq running' /\ owed' \subseteq raw'
        /\ Channel(Top) \notin owed'
    <3>1. CASE ScanSet
      <4>1. CASE Registered(Channel(Top))
        BY <3>1, <4>1 DEF ScanSet, Registered, unitVars, Ticks
      <4>2. CASE ~Registered(Channel(Top))
        <5>1. owed' = owed /\ running' = running /\ raw' = raw
          BY <3>1, <4>2 DEF ScanSet, Registered, unitVars, history
        <5>2. Channel(Top) \notin running
          BY <4>2 DEF Records
        <5> QED
          BY <5>1, <5>2 DEF Ticks
      <4> QED
        BY <4>1, <4>2
    <3>2. CASE CallbackReturns \/ Shot
      <4>1. Channel(Top) \notin owed
        BY <3>2, <2>3, Tops DEF CallbackReturns, Shot, At, Busy, Ticks
      <4>2. owed' \subseteq owed /\ owed' \subseteq running' /\ raw' = raw
        BY <3>2 DEF CallbackReturns, Shot, unitVars, history, Ticks
      <4> QED
        BY <4>1, <4>2 DEF Ticks
    <3> QED
      BY <1>3, <3>1, <3>2
  <2> QED
    BY <2>1, <2>2, <2>4, ReplaceTicks
<1>4. CASE HandlerReturns
  <2>1. Depth' = Depth - 1 /\ Depth \in Nat /\ \A k \in 1 .. (Depth - 1) : stack'[k] = stack[k]
    BY <1>4, ReturnStep, Tops
  <2>2. owed' = owed /\ running' = running /\ raw' = raw
    BY <1>4 DEF HandlerReturns, unitVars, history
  <2>3. \A k \in 2 .. Depth' : k \in 2 .. Depth /\ stack'[k] = stack[k]
    BY <2>1
  <2> QED
    BY <2>2, <2>3 DEF Ticks
<1> QED
  BY <1>1, <1>2, <1>3, <1>4 DEF Handler, Read

LEMMA ClaimTicks ==
    ASSUME Chain, Registers, Ticks, NEW q \in Irqs, Claim(q)
    PROVE  Ticks'
<1>1. PICK f \in Frames : Pushed(f) /\ f.at = "read"
  BY ClaimStep
<1>2. owed' = owed /\ running' = running /\ raw' = raw /\ Depth \in Nat
  BY Tops DEF Claim, unitVars, history
<1>3. ASSUME NEW k \in 2 .. Depth', Busy(stack'[k]) PROVE Channel(stack'[k]) \notin owed
  <2>1. k \in 2 .. Depth /\ stack'[k] = stack[k]
    BY <1>1, <1>2, <1>3 DEF Pushed, Busy
  <2> QED
    BY <1>3, <2>1 DEF Ticks
<1> QED
  BY <1>2, <1>3 DEF Ticks

LEMMA CallTicks ==
    ASSUME Chain, Registers, Ticks,
           \/ Register \/ Unregister
           \/ \E x \in Used : (\E b \in BOOLEAN : CallRegister(x, b)) \/ CallUnregister(x)
    PROVE  Ticks'
<1>1. PICK f \in Frames : Replaced(f) /\ SamePlace(f, Top) /\ f.i = Top.i /\ f.at = "client"
  BY EndStep, BeginStep DEF CallRegister, CallUnregister, MayCall
<1>2. Top.at = "client" /\ Channel(f) = Channel(Top)
  BY <1>1, EndStep, BeginStep DEF CallRegister, CallUnregister, MayCall, SamePlace, Channel
<1>3. owed' = owed /\ running' = running /\ raw' = raw
  BY DEF Register, Unregister, CallRegister, CallUnregister, MayCall, unitVars, history
<1>4. Depth > 1 => Channel(Top) \notin owed
  BY <1>2, Tops DEF Busy, Ticks
<1> QED
  BY <1>1, <1>2, <1>3, <1>4, ReplaceTicks DEF Ticks

LEMMA NextTicks == Types /\ Ticks /\ [Next]_vars => Ticks'
<1> SUFFICES ASSUME Chain, Registers, Records, Ticks, [Next]_vars PROVE Ticks'
  BY DEF Types
<1>1. CASE UNCHANGED vars \/ \E x \in Used : Enable(x) \/ Disable(x)
  <2>1. stack' = stack /\ owed' \subseteq owed /\ owed' \subseteq running' /\ owed' \subseteq raw'
    BY <1>1 DEF vars, unitVars, history, Enable, Disable, MayCall, Ticks
  <2> QED
    BY <2>1, StillTicks
<1> QED
  BY <1>1, ExpireTicks, HandlerTicks, ClaimTicks, CallTicks DEF Next, Call

(* An expiry stays pending until its callback begins, whatever the clients *)
(* and the other channels' handlers do: the handler clears its own         *)
(* channel's interrupt only, after the callback (timer.c:305).             *)
THEOREM TickSafe == Spec => []TickNotLost
<1>1. Init => Ticks
  <2> SUFFICES ASSUME Init PROVE Ticks
    OBVIOUS
  <2>1. stack = <<Main>> /\ Len(<<Main>>) = 1 /\ owed = {}
    BY DEF Init
  <2> QED
    BY <2>1 DEF Ticks, Depth
<1>2. Ticks => TickNotLost
  BY DEF Ticks, TickNotLost
<1> QED
  BY <1>1, <1>2, NextTicks, SpecTypes, PTL DEF Spec

-----------------------------------------------------------------------------
(* Handlers come to the channels of their own interrupt. *)

Stays == (\A x \in All : Leads(x) => Leads(x)') /\ strayed \subseteq strayed'

LEMMA StrayedStay ==
    ASSUME [Next]_vars
    PROVE  strayed \subseteq strayed' /\ (strayed' = strayed \/ ReadStatus)
BY DEF Next, Call, vars, Handler, ReadDevice, ReadChannel, ReadStatus, ScanQuiet, ScanSet, CallbackReturns,
       Shot, Eoi, HandlerReturns, Register, Unregister, Claim, Expire, CallRegister, CallUnregister, Enable,
       Disable, MayCall, history

LEMMA NextStays == Types /\ [Next]_vars => Stays
<1> SUFFICES ASSUME Chain, Registers, [Next]_vars, NEW x \in All, Leads(x) PROVE Leads(x)'
  BY StrayedStay DEF Types, Stays
<1> USE UsedAssumption
<1>1. ASSUME NEW y \in Used, (\E b \in BOOLEAN : CallRegister(y, b)) PROVE Leads(x)'
  <2>1. instance'[y].callback /\ (x # y => instance'[x] = instance[x])
    BY <1>1 DEF CallRegister, Registers
  <2> QED
    BY <2>1 DEF Leads, Registered
<1>2. ASSUME NEW y \in Unregisters, CallUnregister(y) PROVE Leads(x)'
  <2>1. x # y => instance'[x] = instance[x]
    BY <1>2 DEF CallUnregister, Registers
  <2> QED
    BY <2>1 DEF Leads, Registered
<1>3. CASE instance' = instance
  BY <1>3 DEF Leads, Registered
<1>4. \/ instance' = instance
      \/ \E y \in Used : \E b \in BOOLEAN : CallRegister(y, b)
      \/ \E y \in Unregisters : CallUnregister(y)
  BY DEF Next, Call, vars, Handler, ReadDevice, ReadChannel, ReadStatus, ScanQuiet, ScanSet, CallbackReturns, Shot, Eoi, HandlerReturns,
         Register, Unregister, Claim, Expire, Enable, Disable
<1> QED
  BY <1>1, <1>2, <1>3, <1>4

LEMMA OnUsed ==
    ASSUME Chain, NEW k \in 1 .. Depth, stack[k].call.name # "none"
    PROVE  stack[k].call.on \in Used /\ stack[k].call.on \in All
<1>1. stack[k].call # NoCall
  BY CallType
<1> QED
  BY <1>1, UsedAssumption DEF Chain, Fits

HandlersLead == \A q \in Irqs : handler[q] # None => IrqOf(handler[q]) = q /\ Leads(handler[q])

LEMMA KeepHandlers ==
    ASSUME Registers, Guided, Stays, handler' = handler
    PROVE  HandlersLead'
BY DEF Registers, Guided, Stays, HandlersLead

LEMMA StrayedAligned ==
    ASSUME NEW f, NEW s, NEW t, Aligned(f, s), s \subseteq t
    PROVE  Aligned(f, t)
BY DEF Aligned

LEMMA StillGuided ==
    ASSUME Types, Guided, Stays, stack' = stack, handler' = handler
    PROVE  Guided'
<1>1. HandlersLead' /\ Depth' = Depth
  BY KeepHandlers DEF Types, Depth
<1>2. \A k \in 1 .. Depth : stack[k].call.name = "register" => Leads(stack[k].call.on)'
  BY OnUsed DEF Types, Guided, Stays
<1>3. \A k \in 2 .. Depth : Leads(stack[k].ctx)'
  BY DEF Types, Chain, Guided, Stays
<1>4. \A k \in 2 .. Depth : Aligned(stack[k], strayed')
  BY StrayedAligned DEF Guided, Stays
<1> QED
  BY <1>1, <1>2, <1>3, <1>4 DEF Guided, HandlersLead

LEMMA ReplaceGuided ==
    ASSUME Types, Guided, Stays, HandlersLead', NEW f, Replaced(f), f.irq = Top.irq, f.ctx = Top.ctx,
           f.call.name = "register" => Leads(f.call.on)', Depth > 1 => Aligned(f, strayed')
    PROVE  Guided'
<1>1. Depth \in Nat /\ Depth > 0 /\ Depth' = Depth /\ stack'[Depth] = f /\ Top = stack[Depth]
      /\ \A k \in 1 .. Depth : k # Depth => stack'[k] = stack[k]
  BY Tops DEF Replaced, Types
<1>2. \A k \in 1 .. Depth : stack'[k].call.name = "register" => Leads(stack[k].call.on)'
  BY <1>1, OnUsed DEF Types, Guided, Stays, Leads, Registered
<1>3. ASSUME NEW k \in 2 .. Depth PROVE Aligned(stack'[k], strayed') /\ Leads(stack[k].ctx)'
  <2>1. stack'[k].ctx = stack[k].ctx /\ stack[k].ctx \in All
    BY <1>1 DEF Types, Chain
  <2>2. Aligned(stack'[k], strayed')
    BY <1>1, StrayedAligned DEF Guided, Stays
  <2> QED
    BY <2>1, <2>2 DEF Guided, Stays, Leads, Registered
<1>4. \A k \in 2 .. Depth : stack'[k].irq = stack[k].irq
  BY <1>1
<1>5. \A j, k \in 2 .. Depth : stack'[j].irq = stack'[k].irq => j = k
  BY <1>4 DEF Guided
<1> QED
  BY <1>1, <1>2, <1>3, <1>5 DEF Guided, HandlersLead

LEMMA SameAligned ==
    ASSUME NEW f, NEW g, NEW s, SamePlace(f, g), Aligned(g, s), ~Reading(g)
    PROVE  Aligned(f, s)
BY DEF SamePlace, Aligned, InGroup

(* The channels of another interrupt's handler are put down as strayed. *)
LEMMA ReadAligned ==
    ASSUME Types, Guided, Read, NEW f \in Frames, Replaced(f), f.irq = Top.irq, f.ctx = Top.ctx
    PROVE  Aligned(f, strayed')
<1>1. Depth > 1 /\ Depth \in 2 .. Depth /\ stack'[Depth] = f /\ Top = stack[Depth]
  BY ReadStep, Tops DEF Types, Replaced
<1>2. IrqOf(f.ctx) = f.irq
  BY <1>1 DEF Guided, Aligned
<1>3. CASE ReadDevice \/ ReadChannel
  <2>1. Reading(f)
    BY <1>1, <1>3, DeviceStep, ChannelStep DEF Types, Replaced, Reading
  <2> QED
    BY <1>2, <2>1 DEF Aligned
<1>4. CASE ReadStatus
  <2>1. f.device = Top.device /\ f.base = Top.base /\ f.base \in {0, 2}
    BY <1>1, <1>4, StatusStep, Tops DEF Types, Replaced, Fits
  <2>2. ASSUME NEW x \in All, InGroup(f, x), IrqOf(x) # f.irq PROVE x \in strayed'
    <3>1. x[2] \in f.base .. f.base + 1 /\ x[1] = f.device
      BY <2>1, <2>2, IrqType DEF InGroup, Channels
    <3> QED
      BY <1>4, <2>1, <2>2, <3>1 DEF ReadStatus, Group
  <2> QED
    BY <1>2, <2>2 DEF Aligned
<1> QED
  BY <1>3, <1>4 DEF Read

LEMMA HandlerGuided ==
    ASSUME Types, Guided, Stays, Handler
    PROVE  Guided'
<1>1. Chain /\ Registers /\ HandlersLead'
  <2>1. handler' = handler
    BY DEF Handler, ReadDevice, ReadChannel, ReadStatus, ScanQuiet, ScanSet, CallbackReturns, Shot, Eoi, HandlerReturns, plicVars
  <2> QED
    BY <2>1, KeepHandlers DEF Types
<1>2. CASE Read
  <2>1. PICK f \in Frames : Replaced(f) /\ f.irq = Top.irq /\ f.ctx = Top.ctx /\ f.call = NoCall
    BY <1>1, <1>2, ReadStep
  <2>2. f.call.name # "register"
    BY <2>1, CallType
  <2>3. Aligned(f, strayed')
    BY <1>2, <2>1, ReadAligned
  <2> QED
    BY <1>1, <2>1, <2>2, <2>3, ReplaceGuided
<1>3. CASE ScanSet \/ CallbackReturns \/ Shot \/ ScanQuiet \/ Eoi
  <2>1. PICK f \in Frames : Replaced(f) /\ SamePlace(f, Top) /\ f.call = NoCall
    BY <1>1, <1>3, StayStep, OnStep
  <2>2. Depth > 1 /\ ~Reading(Top) /\ f.call.name # "register"
    BY <1>1, <1>3, <2>1, StayStep, OnStep, CallType
  <2>3. Aligned(Top, strayed')
    BY <1>1, <2>2, Tops, StrayedAligned DEF Guided, Stays
  <2> QED
    BY <1>1, <2>1, <2>2, <2>3, SameAligned, ReplaceGuided DEF SamePlace
<1>4. CASE HandlerReturns
  <2>1. Depth' = Depth - 1 /\ Depth \in Nat /\ \A k \in 1 .. (Depth - 1) : stack'[k] = stack[k]
    BY <1>1, <1>4, ReturnStep, Tops
  <2>2. \A k \in 1 .. Depth' : k \in 1 .. Depth /\ stack'[k] = stack[k] /\ (k > 1 => k \in 2 .. Depth)
    BY <2>1
  <2>3. \A k \in 1 .. Depth' : stack'[k].call.name = "register" => Leads(stack[k].call.on)'
    BY <1>1, <2>2, OnUsed DEF Guided, Stays, Leads, Registered
  <2>4. \A k \in 2 .. Depth' : k \in 2 .. Depth /\ stack'[k] = stack[k]
    BY <2>1
  <2>5. \A k \in 2 .. Depth' : Aligned(stack'[k], strayed') /\ Leads(stack[k].ctx)'
    BY <1>1, <2>4, StrayedAligned DEF Guided, Stays, Chain, Leads, Registered
  <2>6. \A j, k \in 2 .. Depth' : stack'[j].irq = stack'[k].irq => j = k
    BY <2>4 DEF Guided
  <2> QED
    BY <1>1, <2>3, <2>5, <2>6 DEF Guided, HandlersLead
<1> QED
  BY <1>2, <1>3, <1>4 DEF Handler, Read

LEMMA ClaimGuided ==
    ASSUME Types, Guided, Stays, NEW q \in Irqs, Claim(q)
    PROVE  Guided'
<1>1. Chain /\ Registers /\ HandlersLead'
  BY KeepHandlers DEF Types, Claim, plicVars
<1>2. PICK f \in Frames : /\ Pushed(f) /\ f.irq = q /\ f.at = "read" /\ f.ctx = handler[q] /\ f.call = NoCall
  BY <1>1, ClaimStep
<1>3. Depth' = Depth + 1 /\ Depth \in Nat /\ Depth > 0 /\ f.call.name # "register" /\ stack'[Depth + 1] = f
      /\ \A k \in 1 .. Depth : stack'[k] = stack[k] /\ stack[k].irq # q
  BY <1>1, <1>2, Tops, CallType DEF Pushed, Claim, Depth
<1>4. handler[q] \in All /\ Aligned(f, strayed') /\ Leads(f.ctx)'
  BY <1>1, <1>2, ClaimStep DEF Guided, Aligned, Claim, Stays, Reading
<1>5. \A k \in 1 .. Depth' : stack'[k].call.name = "register" => Leads(stack[k].call.on)'
  BY <1>1, <1>3, OnUsed DEF Guided, Stays, Leads, Registered
<1>6. \A k \in 2 .. Depth' : \/ k = Depth + 1 /\ stack'[k] = f
                             \/ k \in 2 .. Depth /\ k \in 1 .. Depth /\ stack'[k] = stack[k]
  BY <1>3
<1>7. \A k \in 2 .. Depth' : Aligned(stack'[k], strayed') /\ Leads(stack[k].ctx)'
  BY <1>1, <1>4, <1>6, StrayedAligned DEF Guided, Stays, Chain, Leads, Registered
<1>8. \A j, k \in 2 .. Depth' : stack'[j].irq = stack'[k].irq => j = k
  BY <1>2, <1>3, <1>6 DEF Guided
<1> QED
  BY <1>1, <1>5, <1>7, <1>8 DEF Guided, HandlersLead

LEMMA CallGuided ==
    ASSUME Types, Guided, Stays,
           \/ Register \/ Unregister
           \/ \E x \in Used : (\E b \in BOOLEAN : CallRegister(x, b)) \/ CallUnregister(x)
    PROVE  Guided'
<1>1. Chain /\ Registers
  BY DEF Types
<1>2. HandlersLead'
  <2>1. CASE Register \/ Unregister
    <3> DEFINE x == Top.call.on
    <3>1. x \in All /\ IrqOf(x) \in Irqs /\ (Register => Leads(x))
      BY <1>1, <2>1, EndStep, IrqType, Tops DEF Register, Guided
    <3>2. handler' = handler \/ handler' = [handler EXCEPT ![IrqOf(x)] = None]
          \/ (Leads(x) /\ handler' = [handler EXCEPT ![IrqOf(x)] = x])
      BY <2>1, <3>1 DEF Register, Unregister
    <3> HIDE DEF x
    <3>3. \A q \in Irqs : handler'[q] = handler[q] \/ handler'[q] = None
                          \/ (q = IrqOf(x) /\ handler'[q] = x /\ Leads(x))
      BY <1>1, <3>1, <3>2 DEF Registers
    <3> QED
      BY <1>1, <3>1, <3>3 DEF HandlersLead, Guided, Stays, Registers
  <2>2. CASE \E x \in Used : (\E b \in BOOLEAN : CallRegister(x, b)) \/ CallUnregister(x)
    BY <1>1, <2>2, KeepHandlers DEF CallRegister, CallUnregister, plicVars
  <2> QED
    BY <2>1, <2>2
<1>3. \E f \in Frames : /\ Replaced(f) /\ SamePlace(f, Top) /\ Top.at = "client"
                        /\ f.call.name = "register" => Leads(f.call.on)'
  <2>1. CASE Register \/ Unregister
    BY <1>1, <2>1, EndStep, CallType
  <2>2. ASSUME NEW x \in Used, (\E b \in BOOLEAN : CallRegister(x, b)) \/ CallUnregister(x)
        PROVE  \E f \in Frames : /\ Replaced(f) /\ SamePlace(f, Top) /\ Top.at = "client"
                                 /\ f.call.name = "register" => Leads(f.call.on)'
    <3>1. CASE \E b \in BOOLEAN : CallRegister(x, b)
      <4>1. PICK f \in Frames : Replaced(f) /\ SamePlace(f, Top) /\ f.call.on = x
        BY <1>1, <3>1, BeginStep DEF CallRegister, MayCall
      <4>2. instance'[x].callback
        BY <1>1, <3>1, UsedAssumption DEF CallRegister, Registers
      <4> QED
        BY <3>1, <4>1, <4>2 DEF Leads, Registered, CallRegister, MayCall, At
    <3>2. CASE CallUnregister(x)
      <4>1. PICK f \in Frames : Replaced(f) /\ SamePlace(f, Top) /\ f.call.name = "unregister"
        BY <1>1, <3>2, BeginStep DEF CallUnregister, MayCall
      <4> QED
        BY <3>2, <4>1 DEF CallUnregister, MayCall, At
    <3> QED
      BY <2>2, <3>1, <3>2
  <2> QED
    BY <2>1, <2>2
<1>4. PICK f \in Frames : /\ Replaced(f) /\ SamePlace(f, Top) /\ Top.at = "client"
                          /\ f.call.name = "register" => Leads(f.call.on)'
  BY <1>3
<1>5. Depth > 1 => Aligned(f, strayed')
  BY <1>1, <1>4, Tops, SameAligned, StrayedAligned DEF Guided, Stays, Reading
<1> QED
  BY <1>2, <1>4, <1>5, ReplaceGuided DEF SamePlace

LEMMA NextGuided == Types /\ Guided /\ [Next]_vars => Guided'
<1> SUFFICES ASSUME Types, Guided, [Next]_vars PROVE Guided'
  OBVIOUS
<1>1. Stays
  BY NextStays
<1>2. CASE UNCHANGED vars \/ \E x \in Used : Expire(x) \/ Enable(x) \/ Disable(x)
  <2>1. stack' = stack /\ handler' = handler
    BY <1>2 DEF vars, Expire, Enable, Disable, plicVars
  <2> QED
    BY <1>1, <2>1, StillGuided
<1> QED
  BY <1>1, <1>2, HandlerGuided, ClaimGuided, CallGuided DEF Next, Call

-----------------------------------------------------------------------------
(* Single shots. *)

Calm(x) == Fired(x)' => Fired(x) /\ shots'[x] = shots[x] /\ (x \in running' => x \in running)

OnceOf(x) ==
    Fired(x) =>
        /\ shots[x] = 1
        /\ \A k \in 2 .. Depth : ~Ahead(stack[k], x)
        /\ x \in running => \E k \in 2 .. Depth : Firing(stack[k], x)

LEMMA StillOnce ==
    ASSUME NEW x, OnceOf(x), Calm(x), stack' = stack
    PROVE  OnceOf(x)'
<1>1. Depth' = Depth
  BY DEF Depth
<1> QED
  BY <1>1 DEF OnceOf, Calm

LEMMA ReplaceOnce ==
    ASSUME Chain, NEW x, OnceOf(x), Calm(x), NEW f, Replaced(f),
           Depth > 1 /\ Fired(x) /\ Ahead(f, x) => Ahead(Top, x),
           Fired(x) /\ Firing(Top, x) /\ x \in running' => Firing(f, x)
    PROVE  OnceOf(x)'
<1> SUFFICES ASSUME Fired(x)' PROVE /\ shots'[x] = 1
                                    /\ \A k \in 2 .. Depth' : ~Ahead(stack'[k], x)
                                    /\ x \in running' => \E k \in 2 .. Depth' : Firing(stack'[k], x)
  BY DEF OnceOf
<1>1. Depth \in Nat /\ Depth > 0 /\ Depth' = Depth /\ stack'[Depth] = f /\ Top = stack[Depth]
      /\ \A k \in 2 .. Depth : k # Depth => stack'[k] = stack[k]
  BY Tops DEF Replaced
<1>2. Fired(x) /\ shots'[x] = 1 /\ (\A k \in 2 .. Depth : ~Ahead(stack[k], x))
  BY DEF Calm, OnceOf
<1>3. \A k \in 2 .. Depth : ~Ahead(stack'[k], x)
  BY <1>1, <1>2
<1>4. ASSUME x \in running' PROVE \E k \in 2 .. Depth : Firing(stack'[k], x)
  <2>1. PICK k \in 2 .. Depth : Firing(stack[k], x)
    BY <1>2, <1>4 DEF Calm, OnceOf
  <2>2. Firing(stack'[k], x)
    BY <1>1, <1>2, <1>4, <2>1
  <2> QED
    BY <2>2
<1> QED
  BY <1>1, <1>2, <1>3, <1>4

LEMMA ReadOnce ==
    ASSUME Types, Guided, Guided', NEW x \in All, OnceOf(x), Read
    PROVE  OnceOf(x)'
<1>1. PICK f \in Frames : Replaced(f) /\ f.irq = Top.irq
  BY ReadStep DEF Types
<1>2. /\ Depth > 1 /\ Depth \in 2 .. Depth /\ Top = stack[Depth] /\ Reading(Top)
      /\ Depth' = Depth /\ stack'[Depth] = f
  BY <1>1, ReadStep, Tops DEF Types, Replaced
<1>3. Calm(x)
  BY DEF Read, ReadDevice, ReadChannel, ReadStatus, Calm, Fired, unitVars, history
<1>4. ~Firing(Top, x)
  BY <1>2 DEF Firing, Reading
<1>5. CASE ReadDevice \/ ReadChannel
  <2>1. ~Ahead(f, x)
    BY <1>2, <1>5, DeviceStep, ChannelStep DEF Types, Replaced, Ahead, Reading
  <2> QED
    BY <1>1, <1>3, <1>4, <2>1, ReplaceOnce DEF Types
<1>6. CASE ReadStatus
  <2>1. f.status = StatusOf(f.device)
    BY <1>2, <1>6, StatusStep DEF Types, Replaced
  <2>2. CASE x \in strayed'
    BY <2>2 DEF OnceOf, Fired
  <2>3. ASSUME x \notin strayed', Fired(x), Ahead(f, x) PROVE FALSE
    <3>1. x = <<x[1], x[2]>> /\ x[1] = f.device /\ x[2] \in StatusOf(f.device)
      BY <2>1, <2>3, IrqType DEF Ahead, InGroup
    <3>2. x \in running
      BY <3>1 DEF StatusOf, IntrStat
    <3>3. PICK k \in 2 .. Depth : Firing(stack[k], x)
      BY <2>3, <3>2 DEF OnceOf
    <3>4. Aligned(f, strayed')
      BY <1>2 DEF Guided
    <3>5. IrqOf(x) = Top.irq
      BY <1>1, <2>3, <3>4 DEF Aligned, Ahead
    <3>6. k = Depth
      BY <1>2, <3>3, <3>5 DEF Firing, Guided
    <3> QED
      BY <1>4, <1>2, <3>3, <3>6
  <2> QED
    BY <1>1, <1>3, <1>4, <2>2, <2>3, ReplaceOnce DEF Types
<1> QED
  BY <1>5, <1>6 DEF Read

LEMMA ScanSetOnce ==
    ASSUME Types, Guided, NEW x \in All, OnceOf(x), ScanSet
    PROVE  OnceOf(x)'
<1> DEFINE y == Channel(Top)
<1>1. PICK f \in Frames : Replaced(f) /\ SamePlace(f, Top) /\ f.i = Top.i /\ Busy(f)
  BY StayStep DEF Types
<1>2. /\ Depth > 1 /\ Depth \in 2 .. Depth /\ Depth \in Nat /\ Top = stack[Depth] /\ Top.at = "scan"
      /\ Depth' = Depth /\ stack'[Depth] = f /\ \A k \in 2 .. Depth : k # Depth => stack'[k] = stack[k]
  BY <1>1, StayStep, Tops DEF Types, Replaced, ScanSet, At
<1>3. Fits(Top) /\ Top \in Frames /\ Top.i < Top.base + 2 /\ Top.i \in Top.status
  BY Tops DEF Types, ScanSet
<1>4. Ahead(f, x) => Ahead(Top, x)
  BY <1>1, <1>2 DEF Ahead, InGroup, SamePlace, Busy, Reading
<1>5. ~Firing(Top, x)
  BY <1>2 DEF Firing
<1>8. strayed' = strayed
  BY DEF ScanSet, history
<1>6. CASE x = y /\ Registered(y)
  <2> SUFFICES ASSUME Fired(x)' PROVE /\ shots'[x] = 1
                                      /\ \A k \in 2 .. Depth' : ~Ahead(stack'[k], x)
                                      /\ x \in running' => \E k \in 2 .. Depth' : Firing(stack'[k], x)
    BY DEF OnceOf
  <2>1. x[1] = Top.device /\ x[2] = Top.i
    BY <1>6 DEF Channel
  <2>2. InGroup(Top, x) /\ Ahead(Top, x)
    BY <1>2, <1>3, <2>1 DEF InGroup, Ahead, Fits, Reading
  <2>3. ~Fired(x)
    BY <1>2, <2>2 DEF OnceOf
  <2>4. instance' = instance /\ shots' = [shots EXCEPT ![x] = @ + 1] /\ f.at = "client"
    <3>1. Goto("client") /\ instance' = instance /\ shots' = [shots EXCEPT ![x] = @ + 1]
      BY <1>6 DEF ScanSet, Registered
    <3>2. \E g \in Frames : Replaced(g) /\ g.at = "client"
      BY <3>1, GotoStep DEF Types, Points
    <3> QED
      BY <1>2, <3>1, <3>2 DEF Replaced
  <2>5. shots'[x] = 1
    BY <1>8, <2>3, <2>4 DEF Fired, Types, Registers
  <2>6. IrqOf(x) = Top.irq
    BY <1>2, <1>8, <2>2 DEF Guided, Aligned, Ahead, Fired
  <2>7. ~Ahead(f, x)
    <3>1. f.i = x[2] /\ x[2] \in 0 .. 4
      BY <1>1, <1>3, <2>1, FrameParts
    <3> QED
      BY <2>4, <3>1 DEF Ahead
  <2>8. ASSUME NEW k \in 2 .. Depth, k # Depth, Ahead(stack[k], x) PROVE FALSE
    BY <1>2, <1>8, <2>6, <2>8 DEF Guided, Aligned, Ahead, Fired
  <2>9. Firing(f, x)
    BY <1>1, <1>6, <2>4, <2>6 DEF Firing, Channel, SamePlace
  <2> QED
    BY <1>2, <2>5, <2>7, <2>8, <2>9
<1>7. CASE x # y \/ ~Registered(y)
  <2>1. instance' = instance /\ running' = running
    BY DEF ScanSet, unitVars
  <2>2. shots'[x] = shots[x]
    BY <1>7 DEF ScanSet, Registered, history, Types, Registers
  <2>3. Calm(x)
    BY <1>8, <2>1, <2>2 DEF Calm, Fired
  <2> QED
    BY <1>1, <1>4, <1>5, <2>3, ReplaceOnce DEF Types
<1> QED
  BY <1>6, <1>7

LEMMA HandlerOnce ==
    ASSUME Types, Guided, Guided', NEW x \in All, OnceOf(x), Handler
    PROVE  OnceOf(x)'
<1>1. Chain /\ Registers
  BY DEF Types
<1>2. CASE CallbackReturns \/ Shot
  <2>1. PICK f \in Frames : /\ Replaced(f) /\ SamePlace(f, Top) /\ f.i = Top.i
                            /\ CallbackReturns => f.at = "shot"
                            /\ Shot => f.at = "eoi"
    BY <1>1, <1>2, StayStep
  <2>2. Calm(x)
    BY <1>2 DEF Calm, Fired, CallbackReturns, Shot, unitVars, history
  <2>3. Ahead(f, x) => Ahead(Top, x)
    BY <1>2, <2>1 DEF Ahead, InGroup, SamePlace, CallbackReturns, Shot, At, Reading
  <2>4. ASSUME Fired(x), Firing(Top, x), x \in running' PROVE Firing(f, x)
    BY <1>2, <2>1, <2>4 DEF Firing, Fired, SamePlace, Channel, CallbackReturns, Shot
  <2> QED
    BY <1>1, <2>1, <2>2, <2>3, <2>4, ReplaceOnce
<1>3. CASE ScanQuiet \/ Eoi
  <2>1. PICK f \in Frames : Replaced(f) /\ SamePlace(f, Top) /\ f.i = Top.i + 1 /\ f.at = "scan"
    BY <1>1, <1>3, OnStep
  <2>2. ~Reading(Top) /\ Top.at \in {"scan", "eoi"} /\ Top.i \in 0 .. 4 /\ x[2] \in 0 .. 3
    BY <1>1, <1>3, Tops, FrameParts, IrqType DEF ScanQuiet, Eoi, At, Channels, Reading
  <2>3. Calm(x)
    BY <1>3 DEF Calm, Fired, ScanQuiet, Eoi, unitVars, history
  <2>4. Ahead(f, x) => Ahead(Top, x)
    BY <2>1, <2>2 DEF Ahead, InGroup, SamePlace, Reading
  <2>5. ~Firing(Top, x)
    BY <2>2 DEF Firing
  <2> QED
    BY <1>1, <2>1, <2>3, <2>4, <2>5, ReplaceOnce
<1>4. CASE HandlerReturns
  <2>1. Depth' = Depth - 1 /\ Depth \in Nat /\ \A k \in 1 .. (Depth - 1) : stack'[k] = stack[k]
    BY <1>1, <1>4, ReturnStep, Tops
  <2>2. Calm(x)
    BY <1>4 DEF Calm, Fired, HandlerReturns, unitVars, history
  <2>3. Top = stack[Depth] /\ ~Firing(Top, x)
    BY <1>1, <1>4, Tops DEF Firing, HandlerReturns, At
  <2>4. \A k \in 2 .. Depth' : k \in 2 .. Depth /\ stack'[k] = stack[k]
    BY <2>1
  <2>5. \A k \in 2 .. Depth : Firing(stack[k], x) => k \in 2 .. Depth' /\ stack'[k] = stack[k]
    BY <2>1, <2>3
  <2> QED
    BY <2>2, <2>4, <2>5 DEF OnceOf, Calm
<1> QED
  BY <1>2, <1>3, <1>4, ReadOnce, ScanSetOnce DEF Handler, Read

LEMMA ClaimOnce ==
    ASSUME Types, NEW x \in All, OnceOf(x), NEW q \in Irqs, Claim(q)
    PROVE  OnceOf(x)'
<1>1. PICK f \in Frames : Pushed(f) /\ f.at = "read"
  BY ClaimStep DEF Types
<1>2. Calm(x) /\ Depth \in Nat
  BY Tops DEF Types, Claim, Calm, Fired, unitVars, history
<1>3. \A k \in 2 .. Depth' : (k = Depth + 1 /\ stack'[k] = f) \/ (k \in 2 .. Depth /\ stack'[k] = stack[k])
  BY <1>1, <1>2 DEF Pushed
<1>4. \A k \in 2 .. Depth : k \in 2 .. Depth' /\ stack'[k] = stack[k]
  BY <1>1, <1>2 DEF Pushed
<1>5. ~Ahead(f, x)
  BY <1>1 DEF Ahead, Reading
<1> QED
  BY <1>2, <1>3, <1>4, <1>5 DEF OnceOf, Calm

LEMMA CallOnce ==
    ASSUME Types, NEW x \in All, OnceOf(x),
           \/ Register \/ Unregister
           \/ \E y \in Used : (\E b \in BOOLEAN : CallRegister(y, b)) \/ CallUnregister(y)
    PROVE  OnceOf(x)'
<1>1. PICK f \in Frames : Replaced(f) /\ SamePlace(f, Top) /\ f.i = Top.i /\ f.at = "client"
  BY EndStep, BeginStep DEF Types, CallRegister, CallUnregister, MayCall
<1>2. Top.at = "client"
  BY EndStep, BeginStep DEF Types, CallRegister, CallUnregister, MayCall
<1>3. Calm(x)
  <2>1. CASE Register \/ Unregister
    BY <2>1 DEF Register, Unregister, Calm, Fired, unitVars, history
  <2>2. ASSUME NEW y \in Used, NEW b \in BOOLEAN, CallRegister(y, b) PROVE Calm(x)
    <3>1. /\ running' = running /\ y \in All /\ strayed' = strayed
          /\ x # y => instance'[x] = instance[x] /\ shots'[x] = shots[x]
          /\ x = y => shots'[x] = 0
      BY <2>2, UsedAssumption DEF Types, Registers, CallRegister, MayCall
    <3> QED
      BY <3>1 DEF Calm, Fired
  <2>3. ASSUME NEW y \in Used, CallUnregister(y) PROVE Calm(x)
    <3>1. /\ running' = running /\ y \in All /\ shots' = shots /\ strayed' = strayed
          /\ x # y => instance'[x] = instance[x]
          /\ x = y => instance'[x] = Reset
      BY <2>3, UsedAssumption DEF Types, Registers, CallUnregister, MayCall
    <3> QED
      BY <3>1 DEF Calm, Fired, Reset
  <2> QED
    BY <2>1, <2>2, <2>3
<1>4. Ahead(f, x) => Ahead(Top, x)
  BY <1>1, <1>2 DEF Ahead, InGroup, SamePlace, Reading
<1>5. Firing(Top, x) => Firing(f, x)
  BY <1>1, <1>2 DEF Firing, SamePlace, Channel
<1> QED
  BY <1>1, <1>3, <1>4, <1>5, ReplaceOnce DEF Types

LEMMA NextOnce == Types /\ Guided /\ Guided' /\ Once /\ [Next]_vars => Once'
<1> SUFFICES ASSUME Types, Guided, Guided', [Next]_vars, NEW x \in All, OnceOf(x) PROVE OnceOf(x)'
  BY DEF Once, OnceOf
<1>1. CASE UNCHANGED vars \/ \E y \in Used : Expire(y) \/ Enable(y) \/ Disable(y)
  <2>1. stack' = stack
    BY <1>1 DEF vars, Expire, Enable, Disable
  <2>2. Calm(x)
    <3>1. CASE UNCHANGED vars \/ \E y \in Used : Expire(y) \/ Disable(y)
      BY <3>1 DEF vars, Expire, Disable, MayCall, Calm, Fired, unitVars, history
    <3>2. ASSUME NEW y \in Used, Enable(y) PROVE Calm(x)
      <4>1. instance' = instance /\ running' = running \cup {y} /\ strayed' = strayed
            /\ (x # y => shots'[x] = shots[x]) /\ (x = y => shots'[x] = 0)
        BY <3>2 DEF Enable, MayCall, Types, Registers
      <4> QED
        BY <4>1 DEF Calm, Fired
    <3> QED
      BY <1>1, <3>1, <3>2
  <2> QED
    BY <2>1, <2>2, StillOnce
<1> QED
  BY <1>1, HandlerOnce, ClaimOnce, CallOnce DEF Next, Call

LEMMA InitGuided == Init => Guided
<1> SUFFICES ASSUME Init PROVE Guided
  OBVIOUS
<1>1. stack = <<Main>> /\ Depth = 1 /\ stack[1] = Main
  BY DEF Init, Depth
<1>2. Main.call.name # "register"
  BY NewFrame, CallType DEF Main, Points
<1> QED
  BY <1>1, <1>2 DEF Guided, Init

(* A single-shot channel's callback runs once until it is enabled or       *)
(* registered anew, whatever interrupts its handler, between whichever of  *)
(* its steps, and whichever calls callbacks make: as long as no handler of *)
(* another interrupt has been led to it (timer.c:283-302).                 *)
THEOREM SingleShotSafe == Spec => []SingleShotOnce
<1>1. Init => Guided /\ Once
  BY InitGuided DEF Init, Once, Fired
<1>2. Types /\ Guided /\ Once /\ [Next]_vars => (Guided /\ Once)'
  BY NextGuided, NextOnce
<1>3. Types /\ Once => SingleShotOnce
  <2> SUFFICES ASSUME Types, Once, NEW x \in All \ strayed, instance[x].singleShot
               PROVE  shots[x] <= 1
    BY DEF SingleShotOnce
  <2>1. shots[x] \in Nat /\ (shots[x] = 0 \/ shots[x] = 1)
    BY DEF Types, Registers, Once, Fired
  <2> QED
    BY <2>1
<1> QED
  BY <1>1, <1>2, <1>3, SpecTypes, PTL DEF Spec

-----------------------------------------------------------------------------
(* Handlers that do not stray. *)

(* What a handler has read is what its context says. *)
Straight ==
    /\ strayed = {}
    /\ \A k \in 2 .. Depth :
          /\ stack[k].at # "read" => stack[k].device = stack[k].ctx[1]
          /\ stack[k].at \notin {"read", "channel"} => stack[k].base = GroupBase(stack[k].ctx[2])

StraightFrame(f) ==
    /\ f.at # "read" => f.device = f.ctx[1]
    /\ f.at \notin {"read", "channel"} => f.base = GroupBase(f.ctx[2])

LEMMA ReplaceStraight ==
    ASSUME Chain, Straight, NEW f, Replaced(f), Depth > 1 => StraightFrame(f), strayed' = {}
    PROVE  Straight'
<1>1. Depth \in Nat /\ Depth' = Depth /\ \A k \in 2 .. Depth : stack'[k] = stack[k] \/ (k = Depth /\ stack'[k] = f)
  BY Tops DEF Replaced
<1>2. ASSUME NEW k \in 2 .. Depth PROVE StraightFrame(stack'[k])
  <2>1. StraightFrame(stack[k])
    BY DEF Straight, StraightFrame
  <2>2. k = Depth => Depth > 1
    BY <1>1
  <2> QED
    BY <1>1, <2>1, <2>2
<1> QED
  BY <1>1, <1>2 DEF Straight, StraightFrame

LEMMA HandlerStraight ==
    ASSUME Unregisters = {}, Types, Guided, Straight, Handler
    PROVE  Straight'
<1>1. Chain /\ Registers
  BY DEF Types
<1>2. ASSUME Depth > 1
      PROVE  /\ StraightFrame(Top) /\ Top.ctx \in All /\ IrqOf(Top.ctx) = Top.irq
             /\ instance[Top.ctx].device = Top.ctx[1] /\ instance[Top.ctx].channel = Top.ctx[2]
             /\ Top.ctx[2] \in Channels
  <2>1. Depth \in 2 .. Depth /\ Top = stack[Depth] /\ Top.ctx \in All
    BY <1>1, <1>2, Tops
  <2>2. Registered(Top.ctx)
    BY <2>1 DEF Guided, Leads
  <2> QED
    BY <2>1, <2>2, IrqType DEF Straight, StraightFrame, Guided, Aligned, Types, Records, Registered, Reset
<1>3. CASE ReadDevice
  <2>1. PICK f \in Frames : /\ Replaced(f) /\ f.at = "channel" /\ f.ctx = Top.ctx
                            /\ f.device = instance[Top.ctx].device
    BY <1>1, <1>3, DeviceStep
  <2>2. Depth > 1 /\ strayed' = {}
    BY <1>1, <1>3, DeviceStep DEF ReadDevice, history, Straight
  <2> QED
    BY <1>1, <1>2, <2>1, <2>2, ReplaceStraight DEF StraightFrame
<1>4. CASE ReadChannel
  <2>1. PICK f \in Frames : /\ Replaced(f) /\ f.at = "status" /\ f.ctx = Top.ctx /\ f.device = Top.device
                            /\ f.base = GroupBase(instance[Top.ctx].channel)
    BY <1>1, <1>4, ChannelStep
  <2>2. Depth > 1 /\ Top.at = "channel" /\ strayed' = {}
    BY <1>1, <1>4, ChannelStep DEF ReadChannel, history, Straight
  <2> QED
    BY <1>1, <1>2, <2>1, <2>2, ReplaceStraight DEF StraightFrame
<1>5. CASE ReadStatus
  <2>1. PICK f \in Frames : /\ Replaced(f) /\ f.at = "scan" /\ f.ctx = Top.ctx /\ f.device = Top.device
                            /\ f.base = Top.base
    BY <1>1, <1>5, StatusStep
  <2>2. Depth > 1 /\ Top.at = "status"
    BY <1>1, <1>5, StatusStep
  <2>3. Top.device = Top.ctx[1] /\ Top.base = GroupBase(Top.ctx[2])
    BY <1>2, <2>2 DEF StraightFrame
  <2>4. ASSUME NEW x \in Group(Top) PROVE IrqOf(x) = Top.irq
    <3>1. x \in All /\ x[1] = Top.ctx[1] /\ x[2] \in Channels /\ GroupBase(Top.ctx[2]) <= x[2]
          /\ x[2] < GroupBase(Top.ctx[2]) + 2
      BY <1>2, <2>2, <2>3, <2>4, IrqType, GroupBaseType DEF Group
    <3>2. x[2] < 2 <=> Top.ctx[2] < 2
      BY <1>2, <2>2, <3>1, GroupBaseType
    <3> QED
      BY <1>2, <2>2, <3>1, <3>2 DEF IrqOf
  <2>5. strayed' = {}
    BY <1>5, <2>4 DEF ReadStatus, Straight
  <2> QED
    BY <1>1, <1>2, <2>1, <2>2, <2>5, ReplaceStraight DEF StraightFrame
<1>6. CASE ScanQuiet \/ ScanSet \/ CallbackReturns \/ Shot \/ Eoi
  <2>1. PICK f \in Frames : Replaced(f) /\ SamePlace(f, Top)
    BY <1>1, <1>6, StayStep, OnStep
  <2>2. Depth > 1 /\ ~Reading(Top)
    BY <1>1, <1>6, StayStep, OnStep
  <2>3. strayed' = {}
    BY <1>6 DEF ScanQuiet, ScanSet, CallbackReturns, Shot, Eoi, history, Straight
  <2>4. StraightFrame(f)
    BY <1>2, <2>1, <2>2 DEF StraightFrame, SamePlace, Reading
  <2> QED
    BY <1>1, <2>1, <2>3, <2>4, ReplaceStraight
<1>7. CASE HandlerReturns
  <2>1. Depth' = Depth - 1 /\ Depth \in Nat /\ \A k \in 1 .. (Depth - 1) : stack'[k] = stack[k]
    BY <1>1, <1>7, ReturnStep, Tops
  <2>2. strayed' = {}
    BY <1>7 DEF HandlerReturns, history, Straight
  <2>3. \A k \in 2 .. Depth' : k \in 2 .. Depth /\ stack'[k] = stack[k]
    BY <2>1
  <2> QED
    BY <2>2, <2>3 DEF Straight
<1> QED
  BY <1>3, <1>4, <1>5, <1>6, <1>7 DEF Handler

LEMMA NextStraight ==
    ASSUME Unregisters = {}, Types, Guided, Straight, [Next]_vars
    PROVE  Straight'
<1>1. Chain /\ Registers
  BY DEF Types
<1>2. CASE UNCHANGED vars \/ \E x \in Used : Expire(x) \/ Enable(x) \/ Disable(x)
  <2>1. stack' = stack /\ strayed' = strayed
    BY <1>2 DEF vars, Expire, Enable, Disable, MayCall, history
  <2> QED
    BY <2>1 DEF Straight, Depth
<1>3. CASE \E q \in Irqs : Claim(q)
  <2>1. PICK f \in Frames : Pushed(f) /\ f.at = "read"
    BY <1>1, <1>3, ClaimStep
  <2>2. \A k \in 2 .. Depth' : stack'[k] = f \/ (k \in 2 .. Depth /\ stack'[k] = stack[k])
    BY <1>1, <2>1, Tops DEF Pushed
  <2>3. strayed' = strayed
    BY <1>3 DEF Claim, history
  <2> QED
    BY <2>1, <2>2, <2>3 DEF Straight
<1>4. CASE \/ Register \/ Unregister
           \/ \E x \in Used : (\E b \in BOOLEAN : CallRegister(x, b)) \/ CallUnregister(x)
  <2>1. PICK f \in Frames : Replaced(f) /\ SamePlace(f, Top) /\ f.at = Top.at
    BY <1>1, <1>4, EndStep, BeginStep DEF CallRegister, CallUnregister, MayCall
  <2>2. strayed' = {}
    BY <1>4 DEF Register, Unregister, CallRegister, CallUnregister, MayCall, history, Straight
  <2>3. Depth > 1 => StraightFrame(f)
    BY <1>1, <2>1, Tops DEF Straight, StraightFrame, SamePlace
  <2> QED
    BY <1>1, <2>1, <2>2, <2>3, ReplaceStraight
<1> QED
  BY <1>2, <1>3, <1>4, HandlerStraight DEF Next, Call

(* If no client ever unregisters, no handler strays: then every single     *)
(* shot is single (timer.c:283-302).                                       *)
THEOREM SingleWithoutUnregister ==
    ASSUME Unregisters = {}
    PROVE  Spec => [](\A x \in All : instance[x].singleShot => shots[x] <= 1)
<1>1. Init => Guided /\ Straight
  <2>1. Init => Straight
    BY DEF Init, Straight, Depth
  <2> QED
    BY <2>1, InitGuided
<1>2. Types /\ Guided /\ Straight /\ [Next]_vars => (Guided /\ Straight)'
  BY NextGuided, NextStraight
<1>3. SingleShotOnce /\ Straight => \A x \in All : instance[x].singleShot => shots[x] <= 1
  BY DEF SingleShotOnce, Straight
<1> QED
  BY <1>1, <1>2, <1>3, SpecTypes, SingleShotSafe, PTL DEF Spec

-----------------------------------------------------------------------------
(* A registered channel has its handler. *)

Ours(c) == stack[1].call.name = "register" /\ IrqOf(stack[1].call.on) = IrqOf(c)

LEMMA FoundStill ==
    ASSUME Registers, NEW x \in All, Found(x), handler'[IrqOf(x)] = handler[IrqOf(x)],
           \A c \in All : IrqOf(c) = IrqOf(x) /\ Registered(c) => Registered(c)'
    PROVE  Found(x)'
<1> DEFINE c == handler[IrqOf(x)]
<1>1. c # None /\ IrqOf(c) = IrqOf(x) /\ Registered(c) /\ handler'[IrqOf(x)] = c
  BY DEF Found
<1>2. c \in All
  BY <1>1, IrqType DEF Registers
<1> HIDE DEF c
<1>3. instance'[c].callback
  BY <1>1, <1>2 DEF Registered
<1> QED
  BY <1>1, <1>3 DEF Found, Registered

(* Steps that change neither the records nor the handlers, and no call. *)
LEMMA QuietServed ==
    ASSUME Types, Served, instance' = instance, handler' = handler, stack'[1] = stack[1],
           \A k \in 2 .. Depth' : stack'[k].call = NoCall \/ (k \in 2 .. Depth /\ stack'[k].call = stack[k].call),
           Depth' \in Nat
    PROVE  Served'
<1>1. ASSUME NEW x \in All, Registered(x)' PROVE Found(x)' \/ Ours(x)'
  <2>1. Registered(x)
    BY <1>1 DEF Registered
  <2>2. Found(x) \/ Ours(x)
    BY <2>1 DEF Served, Ours
  <2> QED
    BY <2>2 DEF Found, Ours, Registered
<1>2. \A k \in 2 .. Depth' : stack'[k].call.name # "register"
  BY CallType DEF Served
<1>3. stack'[1].call.name = "register" => Leads(stack[1].call.on)'
  BY DEF Served, Leads, Registered
<1>4. ASSUME NEW k \in 1 .. Depth', stack'[k].call.name = "unregister"
      PROVE  stack'[k].call.on \in Unregisters /\ ~instance'[stack'[k].call.on].callback
  <2>1. CASE k = 1
    BY <1>4, <2>1, Tops DEF Types, Served, Registered
  <2>2. CASE k # 1
    <3>1. k \in 2 .. Depth' /\ stack'[k].call # NoCall
      BY <1>4, <2>2, CallType
    <3>2. k \in 2 .. Depth /\ k \in 1 .. Depth /\ stack'[k].call = stack[k].call
      BY <3>1, Tops DEF Types
    <3> QED
      BY <1>4, <3>2 DEF Served, Registered
  <2> QED
    BY <2>1, <2>2
<1> QED
  BY <1>1, <1>2, <1>3, <1>4 DEF Served, Ours, Registered

LEMMA HandlerServed ==
    ASSUME Types, Served, Handler
    PROVE  Served'
<1>1. Chain /\ Registers /\ instance' = instance /\ handler' = handler /\ Depth \in Nat
  BY Tops DEF Types, Handler, ReadDevice, ReadChannel, ReadStatus, ScanQuiet, ScanSet, CallbackReturns, Shot, Eoi, HandlerReturns, plicVars
<1>2. CASE Read \/ ScanQuiet \/ Eoi \/ ScanSet \/ CallbackReturns \/ Shot
  <2>1. PICK f \in Frames : Replaced(f) /\ f.call = NoCall
    BY <1>1, <1>2, ReadStep, OnStep, StayStep
  <2>2. Depth > 1
    BY <1>1, <1>2, ReadStep, OnStep, StayStep
  <2>3. /\ Depth' = Depth /\ stack'[1] = stack[1]
        /\ \A k \in 2 .. Depth : stack'[k] = f \/ stack'[k] = stack[k]
    BY <1>1, <2>1, <2>2 DEF Replaced
  <2> QED
    BY <1>1, <2>1, <2>3, QuietServed
<1>3. CASE HandlerReturns
  <2>1. Depth' = Depth - 1 /\ Depth > 1 /\ \A k \in 1 .. (Depth - 1) : stack'[k] = stack[k]
    BY <1>1, <1>3, ReturnStep
  <2>2. /\ Depth' \in Nat /\ stack'[1] = stack[1]
        /\ \A k \in 2 .. Depth' : k \in 2 .. Depth /\ stack'[k] = stack[k]
    BY <1>1, <2>1
  <2> QED
    BY <1>1, <2>2, QuietServed
<1> QED
  BY <1>2, <1>3 DEF Handler, Read

LEMMA ClaimServed ==
    ASSUME Types, Served, NEW q \in Irqs, Claim(q)
    PROVE  Served'
<1>1. PICK f \in Frames : Pushed(f) /\ f.call = NoCall
  BY ClaimStep DEF Types
<1>2. Depth \in Nat /\ Depth > 0 /\ instance' = instance /\ handler' = handler
  BY Tops DEF Types, Claim, plicVars
<1>3. /\ Depth' \in Nat /\ stack'[1] = stack[1]
      /\ \A k \in 2 .. Depth' : stack'[k] = f \/ (k \in 2 .. Depth /\ stack'[k] = stack[k])
  BY <1>1, <1>2 DEF Pushed
<1> QED
  BY <1>1, <1>2, <1>3, QuietServed

(* A registration is main's. *)
LEMMA RegisterServed ==
    ASSUME Types, Served, MainRegisters, NEW x \in Used, NEW b \in BOOLEAN, CallRegister(x, b)
    PROVE  Served'
<1> USE UsedAssumption
<1>1. Chain /\ Registers /\ x \in All
  BY DEF Types
<1>2. PICK f \in Frames : Replaced(f) /\ f.call.name = "register" /\ f.call.on = x
  BY <1>1, BeginStep DEF CallRegister, MayCall
<1>3. Depth = 1 /\ Top.call = NoCall
  BY <1>1, Tops DEF CallRegister, MayCall, At, MainRegisters
<1>4. Depth' = 1 /\ stack'[1] = f /\ stack[1] = Top
  BY <1>1, <1>2, <1>3, Tops DEF Replaced
<1>5. handler' = handler /\ instance'[x].callback /\ \A y \in All : y # x => instance'[y] = instance[y]
  BY <1>1 DEF CallRegister, Registers, plicVars
<1>6. ASSUME NEW y \in All, Registered(y)' PROVE Found(y)' \/ Ours(y)'
  <2>1. CASE y = x
    BY <1>2, <1>4, <2>1 DEF Ours
  <2>2. CASE y # x
    <3>1. Registered(y)
      BY <1>5, <1>6, <2>2 DEF Registered
    <3>2. Found(y)
      BY <1>3, <1>4, <3>1, CallType DEF Served
    <3>3. \A c \in All : Registered(c) => Registered(c)'
      BY <1>5 DEF Registered
    <3> QED
      BY <1>1, <1>5, <3>2, <3>3, FoundStill
  <2> QED
    BY <2>1, <2>2
<1> QED
  BY <1>2, <1>4, <1>5, <1>6 DEF Served, Ours, Leads, Registered

LEMMA UnregisterBegins ==
    ASSUME Types, Served, LoneUnregisters, NEW x \in Unregisters, CallUnregister(x)
    PROVE  Served'
<1> USE UsedAssumption
<1>1. Chain /\ Registers /\ x \in All /\ x \in Used
  BY DEF Types
<1>2. PICK f \in Frames : Replaced(f) /\ f.call.name = "unregister" /\ f.call.on = x
  BY <1>1, BeginStep DEF CallUnregister, MayCall
<1>3. /\ Top.call = NoCall /\ Depth \in Nat /\ Depth > 0 /\ Depth' = Depth
      /\ stack'[Depth] = f /\ stack[Depth] = Top /\ \A k \in 1 .. Depth : k # Depth => stack'[k] = stack[k]
  BY <1>1, <1>2, Tops DEF Replaced, CallUnregister, MayCall, At
<1>4. /\ handler' = handler /\ ~instance'[x].callback /\ instance[x].callback
      /\ \A y \in All : y # x => instance'[y] = instance[y]
  BY <1>1 DEF CallUnregister, Registers, plicVars, Reset
<1>5. ASSUME NEW y \in All, Registered(y)' PROVE Found(y)' \/ Ours(y)'
  <2>1. y # x /\ Registered(y) /\ y \in Used
    BY <1>4, <1>5 DEF Registered, Types, Records, Reset
  <2>2. CASE Found(y)
    <3>1. \A c \in All : IrqOf(c) = IrqOf(y) /\ Registered(c) => Registered(c)'
      BY <1>4, <2>1 DEF Registered, LoneUnregisters
    <3> QED
      BY <1>1, <1>4, <2>2, <3>1, FoundStill
  <2>3. CASE Ours(y)
    <3>1. 1 # Depth
      BY <1>3, <2>3, CallType DEF Ours
    <3>2. stack'[1] = stack[1]
      BY <1>3, <3>1
    <3> QED
      BY <2>3, <3>2 DEF Ours
  <2> QED
    BY <2>1, <2>2, <2>3 DEF Served, Ours
<1>6. \A k \in 2 .. Depth : stack'[k].call.name # "register"
  BY <1>2, <1>3 DEF Served
<1>7. ASSUME stack'[1].call.name = "register" PROVE Leads(stack[1].call.on)'
  <2>1. 1 # Depth /\ stack'[1] = stack[1] /\ 1 \in 1 .. Depth
    BY <1>2, <1>3, <1>7
  <2>2. stack[1].call.on \in All /\ Leads(stack[1].call.on)
    BY <1>1, <1>7, <2>1, OnUsed DEF Served
  <2> QED
    BY <1>4, <2>1, <2>2 DEF Leads, Registered
<1>8. ASSUME NEW k \in 1 .. Depth, stack'[k].call.name = "unregister"
      PROVE  stack'[k].call.on \in Unregisters /\ ~instance'[stack'[k].call.on].callback
  <2>1. CASE k = Depth
    BY <1>2, <1>3, <1>4, <2>1
  <2>2. CASE k # Depth
    <3>1. stack'[k] = stack[k] /\ stack[k].call.on \in All
      BY <1>1, <1>3, <1>8, <2>2, OnUsed
    <3> QED
      BY <1>4, <1>8, <3>1 DEF Served, Registered
  <2> QED
    BY <2>1, <2>2
<1> QED
  BY <1>3, <1>5, <1>6, <1>7, <1>8 DEF Served, Ours, Registered

LEMMA EndServed ==
    ASSUME Types, Served, LoneUnregisters, Register \/ Unregister
    PROVE  Served'
<1> DEFINE x == Top.call.on
<1>1. Chain /\ Registers /\ x \in All /\ IrqOf(x) \in Irqs /\ x \in Used
  BY EndStep, IrqType DEF Types
<1>2. PICK f \in Frames : Replaced(f) /\ f.call = NoCall
  BY <1>1, EndStep
<1>3. /\ Depth \in Nat /\ Depth > 0 /\ Depth' = Depth /\ f.call.name = "none"
      /\ stack'[Depth] = f /\ stack[Depth] = Top /\ \A k \in 1 .. Depth : k # Depth => stack'[k] = stack[k]
  BY <1>1, <1>2, Tops, CallType DEF Replaced
<1>4. instance' = instance /\ \A q \in Irqs : q # IrqOf(x) => handler'[q] = handler[q]
  BY <1>1 DEF Register, Unregister, Registers
<1>5. ASSUME NEW y \in All, Registered(y), IrqOf(y) # IrqOf(x) PROVE Found(y)' \/ Ours(y)'
  <2>1. IrqOf(y) \in Irqs
    BY IrqType
  <2>2. CASE Found(y)
    <3>1. \A c \in All : Registered(c) => Registered(c)'
      BY <1>4 DEF Registered
    <3> QED
      BY <1>1, <1>4, <1>5, <2>1, <2>2, <3>1, FoundStill
  <2>3. CASE Ours(y)
    <3>1. 1 # Depth
      BY <1>3, <1>5, <2>3 DEF Ours
    <3> QED
      BY <1>3, <2>3, <3>1 DEF Ours
  <2> QED
    BY <1>5, <2>2, <2>3 DEF Served, Ours
<1>6. ASSUME NEW y \in All, Registered(y), IrqOf(y) = IrqOf(x) PROVE Found(y)'
  <2>1. y \in Used
    BY <1>6 DEF Types, Records, Registered, Reset
  <2>2. CASE Register
    <3>1. Depth = 1
      BY <1>1, <1>3, <2>2, Tops DEF Served, Register
    <3>2. Leads(x)
      BY <1>3, <2>2, <3>1 DEF Served, Register
    <3>3. Registered(x)
      BY <1>6, <2>1, <3>2 DEF Leads, LoneUnregisters
    <3>4. handler'[IrqOf(x)] = x
      BY <1>1, <2>2 DEF Register, Registers
    <3> QED
      BY <1>1, <1>4, <1>6, <3>3, <3>4, IrqType DEF Found, Registered
  <2>3. CASE Unregister
    <3>1. x \in Unregisters /\ ~Registered(x)
      BY <1>1, <1>3, <2>3, Tops DEF Served, Unregister
    <3> QED
      BY <1>6, <2>1, <3>1 DEF LoneUnregisters
  <2> QED
    BY <2>2, <2>3
<1>7. \A k \in 1 .. Depth : stack'[k].call.name = "none" \/ stack'[k] = stack[k]
  BY <1>3
<1>8. \A k \in 2 .. Depth : k \in 1 .. Depth
  BY <1>3
<1>9. \A k \in 2 .. Depth : stack'[k].call.name # "register"
  BY <1>7, <1>8 DEF Served
<1>10. stack'[1].call.name = "register" => Leads(stack[1].call.on)'
  BY <1>3, <1>4, <1>7 DEF Served, Leads, Registered
<1>11. \A k \in 1 .. Depth : stack'[k].call.name = "unregister" =>
           stack'[k].call.on \in Unregisters /\ ~instance'[stack'[k].call.on].callback
  BY <1>4, <1>7 DEF Served, Registered
<1>12. \A y \in All : Registered(y)' => Registered(y)
  BY <1>4 DEF Registered
<1>13. \A y \in All : Registered(y)' => Found(y)' \/ Ours(y)'
  BY <1>5, <1>6, <1>12
<1> HIDE DEF x
<1> QED
  BY <1>3, <1>9, <1>10, <1>11, <1>13 DEF Served, Ours, Registered

LEMMA NextServed ==
    ASSUME LoneUnregisters, MainRegisters, Types, Served, [Next]_vars
    PROVE  Served'
<1>1. CASE UNCHANGED vars \/ \E y \in Used : Expire(y) \/ Enable(y) \/ Disable(y)
  <2>1. stack' = stack /\ instance' = instance /\ handler' = handler
    BY <1>1 DEF vars, Expire, Enable, Disable, plicVars
  <2>2. Depth' = Depth /\ Depth \in Nat
    BY <2>1, Tops DEF Types, Depth
  <2> QED
    BY <2>1, <2>2, QuietServed
<1> QED
  BY <1>1, HandlerServed, ClaimServed, RegisterServed, UnregisterBegins, EndServed DEF Next, Call

(* While no call is under way, a channel that has a callback has its       *)
(* interrupt's handler, with a context that leads to it: if main does the  *)
(* registering, and the channels clients unregister share no interrupt     *)
(* (timer.c:325, 344-360).                                                 *)
THEOREM ServedSafe ==
    ASSUME LoneUnregisters, MainRegisters
    PROVE  Spec => []ServedWhileRegistered
<1>1. Init => Served
  <2> SUFFICES ASSUME Init PROVE Served
    OBVIOUS
  <2>1. Depth = 1 /\ stack[1] = Main
    BY DEF Init, Depth
  <2>2. Main.call.name = "none"
    BY NewFrame, CallType DEF Main, Points
  <2> QED
    BY <2>1, <2>2 DEF Served, Init, Registered, Reset
<1>2. Types /\ Served /\ [Next]_vars => Served'
  BY NextServed
<1>3. Types /\ Served => ServedWhileRegistered
  <2> SUFFICES ASSUME Types, Served, Settled, NEW x \in All, Registered(x)
               PROVE  LET c == handler[IrqOf(x)] IN
                      c # None /\ IrqOf(<<instance[c].device, instance[c].channel>>) = IrqOf(x)
    BY DEF ServedWhileRegistered, Registered
  <2> DEFINE c == handler[IrqOf(x)]
  <2>1. stack[1].call.name # "register"
    BY Tops, CallType DEF Types, Settled, Depth
  <2>2. Found(x)
    BY <2>1 DEF Served
  <2>3. c # None /\ IrqOf(c) = IrqOf(x) /\ Registered(c) /\ c \in All
    BY <2>2, IrqType DEF Found, Types, Registers
  <2> HIDE DEF c
  <2>4. instance[c].device = c[1] /\ instance[c].channel = c[2]
    BY <2>3 DEF Types, Records, Registered, Reset
  <2>5. IrqOf(<<instance[c].device, instance[c].channel>>) = IrqOf(c)
    BY <2>4 DEF IrqOf
  <2> QED
    BY <2>3, <2>5 DEF c
<1> QED
  BY <1>1, <1>2, <1>3, SpecTypes, PTL DEF Spec
=============================================================================
