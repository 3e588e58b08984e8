------------------------ MODULE TrapNesting_proofs ------------------------
(***************************************************************************)
(* Proofs about TrapNesting, for any number of harts, sources, priorities  *)
(* and calls.                                                              *)
(*                                                                         *)
(* That a source is never served twice needs nothing of the callers.  How  *)
(* handlers nest, and what they restore, is shown for callbacks that leave *)
(* mie and mstatus alone, and, where priorities are concerned, for sources *)
(* that no two harts share: a hart that loses the race for the source it   *)
(* trapped for claims whatever is left, however low its priority.          *)
(***************************************************************************)
EXTENDS TrapNesting, SequencesExt, SequenceTheorems, TLAPS

-----------------------------------------------------------------------------
(* Stacks of interrupt frames are sequences, the top last: what pushing,   *)
(* popping and replacing the top leave of them.                            *)

LEMMA PushSeq ==
    ASSUME NEW S, NEW s \in Seq(S), NEW f \in S
    PROVE  /\ Append(s, f) \in Seq(S)
           /\ Len(Append(s, f)) = Len(s) + 1
           /\ \A i \in 1 .. Len(s) : Append(s, f)[i] = s[i]
           /\ Append(s, f)[Len(s) + 1] = f
OBVIOUS

LEMMA PopSeq ==
    ASSUME NEW S, NEW s \in Seq(S), Len(s) > 0
    PROVE  /\ Front(s) \in Seq(S)
           /\ Len(Front(s)) = Len(s) - 1
           /\ \A i \in 1 .. (Len(s) - 1) : Front(s)[i] = s[i]
<1> DEFINE k == Len(s) - 1
<1>1. Len(s) \in Nat
  OBVIOUS
<1>2. k \in Nat /\ \A i \in 1 .. k : s[i] \in S
  BY <1>1
<1>3. Front(s) = SubSeq(s, 1, k)
  BY DEF Front
<1> HIDE DEF k
<1>4. /\ SubSeq(s, 1, k) \in Seq(S)
      /\ Len(SubSeq(s, 1, k)) = IF 1 <= k THEN k - 1 + 1 ELSE 0
      /\ \A i \in 1 .. k - 1 + 1 : SubSeq(s, 1, k)[i] = s[1 + i - 1]
  BY <1>2, SubSeqProperties
<1>5. /\ Len(SubSeq(s, 1, k)) = k
      /\ \A i \in 1 .. k : SubSeq(s, 1, k)[i] = s[i]
  BY <1>2, <1>4
<1> QED
  BY <1>3, <1>4, <1>5 DEF k

LEMMA ReplaceSeq ==
    ASSUME NEW S, NEW s \in Seq(S), Len(s) > 0, NEW f \in S
    PROVE  /\ Append(Front(s), f) \in Seq(S)
           /\ Len(Append(Front(s), f)) = Len(s)
           /\ \A i \in 1 .. (Len(s) - 1) : Append(Front(s), f)[i] = s[i]
           /\ Append(Front(s), f)[Len(s)] = f
<1>1. /\ Front(s) \in Seq(S) /\ Len(Front(s)) = Len(s) - 1
      /\ \A i \in 1 .. (Len(s) - 1) : Front(s)[i] = s[i]
  BY PopSeq
<1>2. Len(s) \in Nat
  OBVIOUS
<1> QED
  BY <1>1, <1>2, PushSeq

LEMMA TopSeq ==
    ASSUME NEW S, NEW s \in Seq(S), Len(s) > 0
    PROVE  Len(s) \in Nat /\ Len(s) \in 1 .. Len(s) /\ Last(s) = s[Len(s)] /\ Last(s) \in S
BY DEF Last

-----------------------------------------------------------------------------
(* What a callback may call, and which sources are enabled where. *)
QuietCallbacks == CallbackCalls \subseteq {"ipi_send", "plic_enable", "plic_disable"}
PrivateSources ==
    \/ \A c, d \in Cores : c = d
    \/ /\ \A c, d \in Cores : c # d => Enabled[c] \cap Enabled[d] = {}
       /\ "plic_enable" \notin MainCalls \cup CallbackCalls

-----------------------------------------------------------------------------
(* The stack of a hart, as one sequence s of frames, where w is the mie    *)
(* that main has asked for.                                                *)

Entering(f) == f.kind = "ext" /\ f.at \in {"check", "claim"}
Active(f) == f.kind = "ext" /\ f.at \in {"running", "done"}

(* What a frame takes out of mie, and the threshold it sets. *)
MaskOf(f) ==
    CASE f.kind = "soft" -> {"soft"}
      [] f.kind = "timer" \/ Active(f) -> {"timer", "soft"}
      [] OTHER -> {}
LevelOf(f) == IF Active(f) THEN PriorityOf(f.src) ELSE 0

PointFits(f) ==
    /\ f.kind \in {"main", "timer"} => f.at = "running"
    /\ f.kind = "soft" => f.at \in {"clear", "call", "running"}
    /\ f.kind = "ext" => f.at \in {"check", "claim", "running", "done"}
    /\ f.op.name # "none" => f.at = "running"
    /\ f.op.name = "timer_start" => f.kind = "main"

(* A frame f on top of b. *)
OnTop(b, f, w) ==
    /\ ~Entering(b)
    /\ f.kind = "soft" => "soft" \in w
    /\ f.kind = "timer" \/ (f.kind = "ext" /\ f.at # "check") => f.mie = w \ MaskOf(b)
    /\ Active(f) => f.thr = LevelOf(b)

Ordered(a, b) == Rank(a) < Rank(b) \/ (a.kind = "ext" /\ b.kind = "ext")

Nested(s, w) ==
    /\ Len(s) > 0 /\ s[1].kind = "main"
    /\ \A j \in 1 .. Len(s) : PointFits(s[j])
    /\ \A j \in 2 .. Len(s) : s[j].kind # "main" /\ OnTop(s[j - 1], s[j], w)
    /\ \A i, j \in 1 .. Len(s) : i < j => Ordered(s[i], s[j])

(* The frame whose masks and threshold are the hart's at the moment. *)
Under(s) == s[Len(s) - 1]
Base(s) == IF Entering(Last(s)) THEN Under(s) ELSE Last(s)

Rising(s) ==
    /\ \A j \in 1 .. Len(s) : Active(s[j]) => s[j].src # NoSource
    /\ \A i, j \in 1 .. Len(s) :
          i < j /\ Active(s[i]) /\ Active(s[j]) => PriorityOf(s[i].src) < PriorityOf(s[j].src)

(* The inductive invariants: types; one service of a source; the order and *)
(* the masks of a stack; the priorities of a stack.                        *)
Types ==
    /\ TypeOK
    /\ \A c \in Cores : Len(stack[c]) > 0 /\ stack[c][1].kind = "main"

Serves(c, i) == i \in 1 .. Len(stack[c]) /\ InCallback(stack[c][i]) /\ stack[c][i].src # NoSource
OneService ==
    /\ pending \cap inService = {}
    /\ \A c \in Cores : \A i \in 1 .. Len(stack[c]) : Serves(c, i) => stack[c][i].src \in inService
    /\ \A c, d \in Cores : \A i \in 1 .. Len(stack[c]), j \in 1 .. Len(stack[d]) :
          Serves(c, i) /\ Serves(d, j) /\ stack[c][i].src = stack[d][j].src => c = d /\ i = j

(* The stack s of a hart whose main has asked for w fits its registers:    *)
(* mie is m, the threshold t and the global enable g.                      *)
Masked(s, w, m, t, g) ==
    /\ Nested(s, w)
    /\ m = w \ MaskOf(Base(s))
    /\ t = LevelOf(Base(s))
    /\ Entering(Last(s)) => ~g
Masks ==
    \A c \in Cores : Masked(stack[c], wanted[c], mie[c], threshold[c], mstatusMIE[c])

(* Where there are several harts, each keeps to the sources it started     *)
(* with, the register values its calls hold included.                      *)
Several == \E c, d \in Cores : c # d
KeepsTo(c, op) ==
    op.name \in {"plic_enable", "plic_disable"} =>
        op.name = "plic_disable" /\ op.current \subseteq Enabled[c]
HartPrivate(c) ==
    Several => /\ enable[c] \subseteq Enabled[c]
               /\ \A j \in 1 .. Len(stack[c]) : KeepsTo(c, stack[c][j].op)

HartRising(c) == Rising(stack[c]) /\ (In(c, "ext", "claim") => MEIP(c))

Priorities == \A c \in Cores : HartPrivate(c) /\ HartRising(c)
-----------------------------------------------------------------------------
(* What stays well nested. *)

LEMMA PushNested ==
    ASSUME NEW s \in Seq(Frames), NEW w, Nested(s, w), NEW f \in Frames,
           PointFits(f), f.kind # "main", OnTop(Last(s), f, w), Ordered(Last(s), f)
    PROVE  Nested(Append(s, f), w)
<1> DEFINE t == Append(s, f)
<1>1. Len(s) \in Nat /\ Len(s) > 0 /\ Last(s) = s[Len(s)]
  BY TopSeq DEF Nested
<1>2. Len(t) = Len(s) + 1 /\ (\A i \in 1 .. Len(s) : t[i] = s[i]) /\ t[Len(s) + 1] = f
  BY PushSeq
<1> HIDE DEF t
<1>3. t[1].kind = "main" /\ (\A j \in 1 .. Len(t) : PointFits(t[j]))
  BY <1>1, <1>2 DEF Nested
<1>4. ASSUME NEW j \in 2 .. Len(t) PROVE t[j].kind # "main" /\ OnTop(t[j - 1], t[j], w)
  <2>1. CASE j = Len(s) + 1
    BY <1>1, <1>2, <2>1
  <2>2. CASE j # Len(s) + 1
    BY <1>1, <1>2, <2>2 DEF Nested
  <2> QED
    BY <2>1, <2>2
<1>5. ASSUME NEW i \in 1 .. Len(t), NEW j \in 1 .. Len(t), i < j PROVE Ordered(t[i], t[j])
  <2>1. CASE j # Len(s) + 1
    BY <1>1, <1>2, <1>5, <2>1 DEF Nested
  <2>2. CASE j = Len(s) + 1 /\ i = Len(s)
    BY <1>1, <1>2, <2>2
  <2>3. CASE j = Len(s) + 1 /\ i # Len(s)
    <3>1. i \in 1 .. Len(s) /\ Ordered(s[i], s[Len(s)]) /\ t[i] = s[i] /\ t[j] = f
      BY <1>1, <1>2, <1>5, <2>3 DEF Nested
    <3> QED
      BY <1>1, <3>1 DEF Ordered, Rank
  <2> QED
    BY <2>1, <2>2, <2>3
<1>6. Nested(t, w)
  BY <1>1, <1>2, <1>3, <1>4, <1>5 DEF Nested
<1> QED
  BY <1>6 DEF t

LEMMA PopNested ==
    ASSUME NEW s \in Seq(Frames), NEW w, Nested(s, w), Len(s) > 1
    PROVE  Nested(Front(s), w)
<1>1. Len(s) \in Nat /\ Len(Front(s)) = Len(s) - 1 /\ \A i \in 1 .. (Len(s) - 1) : Front(s)[i] = s[i]
  BY PopSeq, TopSeq
<1> QED
  BY <1>1 DEF Nested

LEMMA ReplaceNested ==
    ASSUME NEW s \in Seq(Frames), NEW w, Nested(s, w), NEW f \in Frames,
           PointFits(f), f.kind = Last(s).kind,
           Len(s) > 1 => OnTop(s[Len(s) - 1], f, w)
    PROVE  Nested(Append(Front(s), f), w)
<1> DEFINE t == Append(Front(s), f)
<1>1. Len(s) \in Nat /\ Len(s) > 0 /\ Last(s) = s[Len(s)]
  BY TopSeq DEF Nested
<1>2. Len(t) = Len(s) /\ (\A i \in 1 .. (Len(s) - 1) : t[i] = s[i]) /\ t[Len(s)] = f
  BY <1>1, ReplaceSeq
<1> HIDE DEF t
<1>3. \A j \in 1 .. Len(t) : t[j].kind = s[j].kind /\ PointFits(t[j])
  BY <1>1, <1>2 DEF Nested
<1>4. \A i \in 1 .. Len(t) : Rank(t[i]) = Rank(s[i])
  BY <1>1, <1>2, <1>3 DEF Rank
<1>5. \A i, j \in 1 .. Len(t) : i < j => Ordered(t[i], t[j])
  BY <1>1, <1>2, <1>3, <1>4 DEF Nested, Ordered
<1>6. ASSUME NEW j \in 2 .. Len(t) PROVE t[j].kind # "main" /\ OnTop(t[j - 1], t[j], w)
  <2>1. CASE j = Len(s)
    BY <1>1, <1>2, <1>3, <2>1 DEF Nested
  <2>2. CASE j # Len(s)
    <3>1. j \in 2 .. Len(s) /\ t[j] = s[j] /\ t[j - 1] = s[j - 1]
      BY <1>1, <1>2, <2>2
    <3> QED
      BY <3>1 DEF Nested
  <2> QED
    BY <2>1, <2>2
<1>7. t[1].kind = "main"
  BY <1>1, <1>2, <1>3 DEF Nested
<1>8. Nested(t, w)
  BY <1>1, <1>2, <1>3, <1>5, <1>6, <1>7 DEF Nested
<1> QED
  BY <1>8 DEF t

(* While main is on top, main may ask for other masks. *)
LEMMA AskNested ==
    ASSUME NEW s \in Seq(Frames), NEW w, NEW v, Nested(s, w), Last(s).kind = "main"
    PROVE  Len(s) = 1 /\ Nested(s, v)
<1>1. Len(s) \in Nat /\ Len(s) > 0 /\ Last(s) = s[Len(s)]
  BY TopSeq DEF Nested
<1>2. Len(s) = 1
  <2>1. s[Len(s)].kind = "main" /\ \A j \in 2 .. Len(s) : s[j].kind # "main"
    BY <1>1 DEF Nested
  <2> DEFINE k == Len(s)
  <2>2. k \in Nat /\ k > 0 /\ k \notin 2 .. k
    BY <1>1, <2>1
  <2> HIDE DEF k
  <2>3. k = 1
    BY <2>2
  <2> QED
    BY <2>3 DEF k
<1> QED
  BY <1>1, <1>2 DEF Nested

LEMMA PushRising ==
    ASSUME NEW s \in Seq(Frames), NEW f \in Frames, Rising(s), ~Active(f)
    PROVE  Rising(Append(s, f))
<1>1. /\ Len(s) \in Nat /\ Len(Append(s, f)) = Len(s) + 1
      /\ \A i \in 1 .. Len(s) : Append(s, f)[i] = s[i]
      /\ Append(s, f)[Len(s) + 1] = f
  BY PushSeq
<1> QED
  BY <1>1 DEF Rising

LEMMA PopRising ==
    ASSUME NEW s \in Seq(Frames), Len(s) > 0, Rising(s)
    PROVE  Rising(Front(s))
<1>1. /\ Len(s) \in Nat /\ Len(Front(s)) = Len(s) - 1
      /\ \A i \in 1 .. (Len(s) - 1) : Front(s)[i] = s[i]
  BY PopSeq, TopSeq
<1> QED
  BY <1>1 DEF Rising

LEMMA ReplaceRising ==
    ASSUME NEW s \in Seq(Frames), Len(s) > 0, NEW f \in Frames, Rising(s),
           Active(f) => /\ f.src # NoSource
                        /\ \A i \in 1 .. (Len(s) - 1) : Active(s[i]) => PriorityOf(s[i].src) < PriorityOf(f.src)
    PROVE  Rising(Append(Front(s), f))
<1>1. /\ Len(s) \in Nat /\ Len(Append(Front(s), f)) = Len(s)
      /\ \A i \in 1 .. (Len(s) - 1) : Append(Front(s), f)[i] = s[i]
      /\ Append(Front(s), f)[Len(s)] = f
  BY ReplaceSeq, TopSeq
<1> QED
  BY <1>1 DEF Rising

-----------------------------------------------------------------------------
(* Types. *)

Stacks ==
    /\ stack \in [Cores -> Seq(Frames)]
    /\ \A c \in Cores : Len(stack[c]) > 0 /\ stack[c][1].kind = "main"

LEMMA OpType ==
    /\ NoOp \in Ops /\ NoOp.name = "none"
    /\ [name |-> "timer_start", src |-> NoSource, current |-> {}] \in Ops
    /\ \A name \in {"plic_enable", "plic_disable"}, s \in Sources, cur \in SUBSET Sources :
          [name |-> name, src |-> s, current |-> cur] \in Ops
    /\ \A op \in Ops : /\ op.name \in {"none", "timer_start", "plic_enable", "plic_disable"}
                       /\ op.name \in {"plic_enable", "plic_disable"} =>
                              op.src \in Sources /\ op.current \in SUBSET Sources
                       /\ op.name = "none" => op = NoOp
BY DEF NoOp, Ops

LEMMA FrameType ==
    ASSUME NEW k \in Bits \cup {"main"}, NEW m \in SUBSET Bits,
           NEW p \in {"check", "claim", "clear", "call", "running", "done"}
    PROVE  /\ Frame(k, p, m) \in Frames
           /\ Frame(k, p, m).kind = k /\ Frame(k, p, m).at = p /\ Frame(k, p, m).mie = m
           /\ Frame(k, p, m).op = NoOp
BY OpType DEF Frame, Frames, AnySource

LEMMA FrameParts ==
    ASSUME NEW f \in Frames
    PROVE  /\ f.kind \in Bits \cup {"main"}
           /\ f.at \in {"check", "claim", "clear", "call", "running", "done"}
           /\ f.src \in AnySource /\ f.mie \in SUBSET Bits /\ f.thr \in Nat /\ f.op \in Ops
BY DEF Frames

(* The top frame with another point, or another operation under way. *)
LEMMA FrameAt ==
    ASSUME NEW f \in Frames, NEW p \in {"check", "claim", "clear", "call", "running", "done"}
    PROVE  /\ [f EXCEPT !.at = p] \in Frames
           /\ [f EXCEPT !.at = p] = [kind |-> f.kind, at |-> p, src |-> f.src, mie |-> f.mie,
                                     thr |-> f.thr, op |-> f.op]
           /\ [f EXCEPT !.at = p].kind = f.kind
BY DEF Frames

LEMMA FrameOp ==
    ASSUME NEW f \in Frames, NEW o \in Ops
    PROVE  /\ [f EXCEPT !.op = o] \in Frames
           /\ [f EXCEPT !.op = o] = [kind |-> f.kind, at |-> f.at, src |-> f.src, mie |-> f.mie,
                                     thr |-> f.thr, op |-> o]
           /\ [f EXCEPT !.op = o].kind = f.kind
BY DEF Frames

LEMMA TopIs ==
    ASSUME Stacks, NEW c \in Cores
    PROVE  /\ stack[c] \in Seq(Frames) /\ Len(stack[c]) \in Nat /\ Len(stack[c]) > 0
           /\ Top(c) = Last(stack[c]) /\ Top(c) = stack[c][Len(stack[c])] /\ Top(c) \in Frames
           /\ Top(c).kind # "main" => Len(stack[c]) > 1
<1> DEFINE k == Len(stack[c])
<1>1. stack[c] \in Seq(Frames) /\ k > 0 /\ stack[c][1].kind = "main"
  BY DEF Stacks
<1>2. k \in Nat /\ Last(stack[c]) = stack[c][k] /\ Last(stack[c]) \in Frames
  BY <1>1, TopSeq
<1> HIDE DEF k
<1>3. stack[c][k].kind # "main" => k > 1
  BY <1>1, <1>2
<1> QED
  BY <1>1, <1>2, <1>3 DEF Top, k

LEMMA StackSet ==
    ASSUME Stacks, NEW c \in Cores, NEW t \in Seq(Frames), Len(t) > 0, t[1].kind = "main",
           stack' = [stack EXCEPT ![c] = t]
    PROVE  Stacks' /\ stack'[c] = t /\ \A d \in Cores \ {c} : stack'[d] = stack[d]
BY DEF Stacks

LEMMA PushStep ==
    ASSUME Stacks, NEW c \in Cores, NEW f \in Frames, Push(c, f)
    PROVE  Stacks' /\ stack'[c] = Append(stack[c], f) /\ \A d \in Cores \ {c} : stack'[d] = stack[d]
<1> DEFINE t == Append(stack[c], f)
           k == Len(stack[c])
<1>1. stack[c] \in Seq(Frames) /\ k \in Nat /\ k > 0 /\ stack[c][1].kind = "main"
  BY TopIs DEF Stacks
<1>2. t \in Seq(Frames) /\ Len(t) = k + 1 /\ \A i \in 1 .. k : t[i] = stack[c][i]
  BY <1>1, PushSeq
<1>3. stack' = [stack EXCEPT ![c] = t]
  BY DEF Push, Stacks
<1> HIDE DEF t, k
<1>4. Len(t) > 0 /\ t[1].kind = "main"
  BY <1>1, <1>2
<1>5. Stacks' /\ stack'[c] = t /\ \A d \in Cores \ {c} : stack'[d] = stack[d]
  BY <1>2, <1>3, <1>4, StackSet
<1> QED
  BY <1>5 DEF t

LEMMA ReplaceStep ==
    ASSUME Stacks, NEW c \in Cores, NEW f \in Frames, f.kind = Top(c).kind, Replace(c, f)
    PROVE  /\ Stacks' /\ stack'[c] = Append(Front(stack[c]), f)
           /\ \A d \in Cores \ {c} : stack'[d] = stack[d]
<1> DEFINE t == Append(Front(stack[c]), f)
           k == Len(stack[c])
<1>1. stack[c] \in Seq(Frames) /\ k \in Nat /\ k > 0 /\ stack[c][1].kind = "main" /\ Top(c) = stack[c][k]
  BY TopIs DEF Stacks
<1>2. t \in Seq(Frames) /\ Len(t) = k /\ (\A i \in 1 .. (k - 1) : t[i] = stack[c][i]) /\ t[k] = f
  BY <1>1, ReplaceSeq
<1>3. stack' = [stack EXCEPT ![c] = t]
  BY DEF Replace, Stacks
<1> HIDE DEF t, k
<1>4. Len(t) > 0 /\ t[1].kind = "main"
  BY <1>1, <1>2
<1>5. Stacks' /\ stack'[c] = t /\ \A d \in Cores \ {c} : stack'[d] = stack[d]
  BY <1>2, <1>3, <1>4, StackSet
<1> QED
  BY <1>5 DEF t

LEMMA PopStep ==
    ASSUME Stacks, NEW c \in Cores, Top(c).kind # "main", stack' = [stack EXCEPT ![c] = Front(@)]
    PROVE  /\ Stacks' /\ stack'[c] = Front(stack[c])
           /\ \A d \in Cores \ {c} : stack'[d] = stack[d]
<1> DEFINE t == Front(stack[c])
           k == Len(stack[c])
<1>1. stack[c] \in Seq(Frames) /\ k \in Nat /\ k > 1 /\ stack[c][1].kind = "main"
  BY TopIs DEF Stacks
<1>2. t \in Seq(Frames) /\ Len(t) = k - 1 /\ (\A i \in 1 .. (k - 1) : t[i] = stack[c][i])
  BY <1>1, PopSeq
<1>3. stack' = [stack EXCEPT ![c] = t]
  BY DEF Stacks
<1> HIDE DEF t, k
<1>4. Len(t) > 0 /\ t[1].kind = "main"
  BY <1>1, <1>2
<1>5. Stacks' /\ stack'[c] = t /\ \A d \in Cores \ {c} : stack'[d] = stack[d]
  BY <1>2, <1>3, <1>4, StackSet
<1> QED
  BY <1>5 DEF t

(* The rest of the type invariant. *)
Registers ==
    /\ mstatusMIE \in [Cores -> BOOLEAN]
    /\ mie \in [Cores -> SUBSET Bits]
    /\ pending \subseteq Sources /\ inService \subseteq Sources
    /\ enable \in [Cores -> SUBSET Sources]
    /\ threshold \in [Cores -> Nat]
    /\ msip \in [Cores -> BOOLEAN] /\ mtip \in [Cores -> BOOLEAN]
    /\ repeat \in [Cores -> BOOLEAN]
    /\ calls \in [Cores -> 0..MaxCalls] /\ raises \in 0..MaxRaises
    /\ wanted \in [Cores -> SUBSET Bits]
    /\ asked \in [Cores -> SUBSET Sources]
    /\ owed \in [Cores -> BOOLEAN]

LEMMA TypesParts == Types <=> Stacks /\ Registers
BY DEF Types, Stacks, Registers, TypeOK

LEMMA TypesNext == Stacks' /\ Registers' => Types'
BY DEF Types, Stacks, Registers, TypeOK

LEMMA CallTypes ==
    ASSUME Registers, NEW c \in Cores, NEW name, CanCall(c, name)
    PROVE  calls' \in [Cores -> 0 .. MaxCalls] /\ raises' \in 0 .. MaxRaises
<1>1. calls[c] + 1 \in 0 .. MaxCalls
  BY BoundsAssumption DEF Registers, CanCall
<1> QED
  BY <1>1 DEF Registers, CanCall

LEMMA PriorityType == ASSUME NEW s \in AnySource PROVE PriorityOf(s) \in Nat
BY PriorityAssumption, SourcesAssumption DEF PriorityOf, AnySource

LEMMA ClaimableType ==
    ASSUME Types, NEW c \in Cores, NEW s \in Claimable(c)
    PROVE  /\ s \in AnySource
           /\ s = NoSource \/ (s \in pending /\ s \in enable[c] /\ s \in Sources)
BY DEF Claimable, Offered, AnySource, Types, TypeOK

(* Steps that leave the stacks alone. *)
LEMMA QuietTypes ==
    ASSUME Types, \/ \E s \in Sources : Raise(s)
                  \/ \E c \in Cores : \/ Expire(c) \/ IpiEnable(c) \/ IpiDisable(c) \/ TimerStop(c)
                                      \/ DisableIrq(c) \/ EnableIrq(c) \/ \E d \in Cores : IpiSend(c, d)
                  \/ UNCHANGED vars
    PROVE  Types'
<1>1. Stacks /\ Registers
  BY TypesParts
<1>2. stack' = stack
  BY DEF Raise, Expire, IpiEnable, IpiDisable, TimerStop, DisableIrq, EnableIrq, IpiSend, coreVars, vars
<1>3. Stacks'
  BY <1>1, <1>2 DEF Stacks
<1>4. Registers'
  <2>1. CASE \E s \in Sources : Raise(s)
    BY <1>1, <2>1, BoundsAssumption DEF Registers, Raise, coreVars, clintVars, history
  <2>2. CASE \E c \in Cores : Expire(c)
    BY <1>1, <2>2, BoundsAssumption DEF Registers, Expire, coreVars, plicVars, history
  <2>3. ASSUME NEW c \in Cores, IpiEnable(c) \/ IpiDisable(c) \/ TimerStop(c)
        PROVE  Registers'
    <3>1. calls' \in [Cores -> 0 .. MaxCalls] /\ raises' \in 0 .. MaxRaises
      BY <1>1, <2>3, CallTypes DEF IpiEnable, IpiDisable, TimerStop
    <3>2. /\ mie' \in [Cores -> SUBSET Bits] /\ wanted' \in [Cores -> SUBSET Bits]
          /\ mstatusMIE' \in [Cores -> BOOLEAN]
      <4>1. CASE IpiEnable(c)
        BY <1>1, <4>1 DEF Registers, IpiEnable, SetMIE, Bits
      <4>2. CASE IpiDisable(c)
        BY <1>1, <4>2 DEF Registers, IpiDisable, Bits
      <4>3. CASE TimerStop(c)
        BY <1>1, <4>3 DEF Registers, TimerStop, Bits
      <4> QED
        BY <2>3, <4>1, <4>2, <4>3
    <3> QED
      BY <1>1, <2>3, <3>1, <3>2 DEF Registers, IpiEnable, IpiDisable, TimerStop, plicVars, clintVars
  <2>4. ASSUME NEW c \in Cores, DisableIrq(c) \/ EnableIrq(c)
        PROVE  Registers'
    <3>1. calls' \in [Cores -> 0 .. MaxCalls] /\ raises' \in 0 .. MaxRaises
      BY <1>1, <2>4, CallTypes DEF DisableIrq, EnableIrq
    <3>2. /\ mie' \in [Cores -> SUBSET Bits] /\ wanted' \in [Cores -> SUBSET Bits]
          /\ mstatusMIE' \in [Cores -> BOOLEAN]
      <4>1. CASE DisableIrq(c)
        BY <1>1, <4>1 DEF Registers, DisableIrq, SetMIE, Bits
      <4>2. CASE EnableIrq(c)
        BY <1>1, <4>2 DEF Registers, EnableIrq, SetMIE, Bits
      <4> QED
        BY <2>4, <4>1, <4>2
    <3> QED
      BY <1>1, <2>4, <3>1, <3>2 DEF Registers, DisableIrq, EnableIrq, plicVars, clintVars
  <2>5. ASSUME NEW c \in Cores, NEW d \in Cores, IpiSend(c, d) PROVE Registers'
    <3>1. calls' \in [Cores -> 0 .. MaxCalls] /\ raises' \in 0 .. MaxRaises
      BY <1>1, <2>5, CallTypes DEF IpiSend
    <3> QED
      BY <1>1, <2>5, <3>1 DEF Registers, IpiSend, coreVars, plicVars
  <2>6. CASE UNCHANGED vars
    BY <1>1, <2>6 DEF Registers, vars, coreVars, plicVars, clintVars, bounds, history
  <2> QED
    BY <2>1, <2>2, <2>3, <2>4, <2>5, <2>6
<1> QED
  BY <1>3, <1>4, TypesNext

(* What an action does to the stack of its hart. *)
LEMMA TrapStack ==
    ASSUME Types, NEW c \in Cores,
           ExtTrap(c) \/ TimerTrap(c) \/ SoftTrap(c)
    PROVE  /\ Stacks' /\ \A d \in Cores \ {c} : stack'[d] = stack[d]
           /\ \E f \in {Frame("ext", "check", {}), Frame("timer", "running", mie[c]),
                        Frame("soft", "clear", {})} :
                 f \in Frames /\ Push(c, f) /\ stack'[c] = Append(stack[c], f)
<1>1. Stacks /\ mie[c] \in SUBSET Bits
  BY TypesParts DEF Registers
<1>2. /\ Frame("ext", "check", {}) \in Frames
      /\ Frame("timer", "running", mie[c]) \in Frames
      /\ Frame("soft", "clear", {}) \in Frames
  BY <1>1, FrameType DEF Bits
<1>3. PICK f \in {Frame("ext", "check", {}), Frame("timer", "running", mie[c]),
                  Frame("soft", "clear", {})} : Push(c, f)
  BY DEF ExtTrap, TimerTrap, SoftTrap
<1> QED
  BY <1>1, <1>2, <1>3, PushStep

LEMMA TrapTypes ==
    ASSUME Types, NEW c \in Cores, ExtTrap(c) \/ TimerTrap(c) \/ SoftTrap(c)
    PROVE  Types'
<1>1. Stacks'
  BY TrapStack
<1>2. Registers
  BY TypesParts
<1>3. Registers'
  <2>1. CASE ExtTrap(c)
    BY <1>2, <2>1 DEF Registers, ExtTrap, SetMIE, plicVars, clintVars, bounds, history
  <2>2. CASE TimerTrap(c)
    BY <1>2, <2>2 DEF Registers, TimerTrap, MaskNested, plicVars, clintVars, bounds, history
  <2>3. CASE SoftTrap(c)
    BY <1>2, <2>3 DEF Registers, SoftTrap, plicVars, clintVars, bounds, history
  <2> QED
    BY <2>1, <2>2, <2>3
<1> QED
  BY <1>1, <1>3, TypesNext

(* The handlers that return. *)
LEMMA ReturnStack ==
    ASSUME Types, NEW c \in Cores, NEW k \in Bits, Top(c).kind = k, Mret(c)
    PROVE  /\ Stacks' /\ stack'[c] = Front(stack[c])
           /\ \A d \in Cores \ {c} : stack'[d] = stack[d]
<1>1. Top(c).kind # "main" /\ Stacks
  BY TypesParts DEF Bits
<1> QED
  BY <1>1, PopStep DEF Mret

LEMMA ReturnTypes ==
    ASSUME Types, NEW c \in Cores, ExtReturn(c) \/ TimerReturn(c) \/ SoftReturn(c)
    PROVE  Types'
<1>1. Registers /\ Stacks /\ Top(c) \in Frames
  BY TypesParts, TopIs
<1>2. Top(c).mie \in SUBSET Bits /\ Top(c).thr \in Nat
  BY <1>1, FrameParts
<1>3. Stacks'
  BY ReturnStack DEF ExtReturn, TimerReturn, SoftReturn, In, Bits
<1>4. Registers'
  <2>1. CASE ExtReturn(c)
    BY <1>1, <1>2, <2>1 DEF Registers, ExtReturn, RestoreThreshold, Mret, SetMIE, clintVars, bounds, history
  <2>2. CASE TimerReturn(c)
    <3>1. mie' \in [Cores -> SUBSET Bits] /\ mstatusMIE' \in [Cores -> BOOLEAN]
      BY <1>1, <1>2, <2>2 DEF Registers, TimerReturn, MieAfterTimer, Mret, SetMIE
    <3>2. mtip' \in [Cores -> BOOLEAN] /\ raises' \in 0 .. MaxRaises /\ wanted' \in [Cores -> SUBSET Bits]
      BY <1>1, <2>2, BoundsAssumption DEF Registers, TimerReturn
    <3> QED
      BY <1>1, <2>2, <3>1, <3>2 DEF Registers, TimerReturn, plicVars
  <2>3. CASE SoftReturn(c)
    BY <1>1, <2>3 DEF Registers, SoftReturn, Mret, SetMIE, plicVars, clintVars, bounds, history, Bits
  <2> QED
    BY <2>1, <2>2, <2>3
<1> QED
  BY <1>3, <1>4, TypesNext

(* The handlers that go on. *)
LEMMA GoOnStack ==
    ASSUME Types, NEW c \in Cores, NEW f \in Frames, f.kind = Top(c).kind, Replace(c, f)
    PROVE  /\ Stacks' /\ stack'[c] = Append(Front(stack[c]), f)
           /\ \A d \in Cores \ {c} : stack'[d] = stack[d]
BY TypesParts, ReplaceStep

(* The frame with which a step of handler or call goes on. *)
LEMMA GoOnFrames ==
    ASSUME Types, NEW c \in Cores
    PROVE  /\ Top(c) \in Frames
           /\ Top(c).kind = "ext" => /\ Frame("ext", "claim", mie[c]) \in Frames
                                     /\ Frame("ext", "claim", mie[c]).kind = Top(c).kind
           /\ \A p \in {"running", "done", "call"} :
                 [Top(c) EXCEPT !.at = p] \in Frames /\ [Top(c) EXCEPT !.at = p].kind = Top(c).kind
           /\ \A s \in AnySource : \A f :
                 f = [Top(c) EXCEPT !.at = "running", !.src = s, !.thr = threshold[c]] =>
                     f \in Frames /\ f.kind = Top(c).kind
           /\ \A o \in Ops : [Top(c) EXCEPT !.op = o] \in Frames /\ [Top(c) EXCEPT !.op = o].kind = Top(c).kind
<1>1. Top(c) \in Frames /\ mie[c] \in SUBSET Bits /\ threshold[c] \in Nat
  BY TypesParts, TopIs DEF Registers
<1>3. Frame("ext", "claim", mie[c]) \in Frames /\ Frame("ext", "claim", mie[c]).kind = "ext"
  BY <1>1, FrameType DEF Bits
<1>4. ASSUME NEW p \in {"running", "done", "call"}
      PROVE  [Top(c) EXCEPT !.at = p] \in Frames /\ [Top(c) EXCEPT !.at = p].kind = Top(c).kind
  BY <1>1, FrameAt
<1>5. ASSUME NEW s \in AnySource, NEW f,
             f = [Top(c) EXCEPT !.at = "running", !.src = s, !.thr = threshold[c]]
      PROVE  f \in Frames /\ f.kind = Top(c).kind
  <2> DEFINE g == Top(c)
             h == threshold[c]
  <2>1. g \in Frames /\ h \in Nat /\ f = [g EXCEPT !.at = "running", !.src = s, !.thr = h]
    BY <1>1, <1>5
  <2> HIDE DEF g, h
  <2>2. f \in Frames /\ f.kind = g.kind
    BY <2>1 DEF Frames
  <2> QED
    BY <2>2 DEF g
<1>6. ASSUME NEW o \in Ops
      PROVE  [Top(c) EXCEPT !.op = o] \in Frames /\ [Top(c) EXCEPT !.op = o].kind = Top(c).kind
  BY <1>1, FrameOp
<1> QED
  BY <1>1, <1>3, <1>4, <1>5, <1>6

LEMMA ExtCheckTypes ==
    ASSUME Types, NEW c \in Cores, ExtCheck(c)
    PROVE  Types'
<1>1. Registers /\ Top(c).kind = "ext"
  BY TypesParts DEF ExtCheck, In
<1>2. Registers'
  BY <1>1 DEF Registers, ExtCheck, Mret, SetMIE, plicVars, clintVars, bounds, history
<1>3. CASE MEIP(c)
  BY <1>1, <1>2, <1>3, GoOnFrames, GoOnStack, TypesNext DEF ExtCheck
<1>4. CASE ~MEIP(c)
  BY <1>1, <1>2, <1>4, ReturnStack, TypesNext DEF ExtCheck, Bits
<1> QED
  BY <1>3, <1>4

LEMMA ExtClaimTypes ==
    ASSUME Types, NEW c \in Cores, ExtClaim(c)
    PROVE  Types'
<1>1. Registers
  BY TypesParts
<1>2. PICK s \in Claimable(c) :
        /\ Claim(s) /\ RaiseThreshold(c, s)
        /\ Replace(c, [Top(c) EXCEPT !.at = "running", !.src = s, !.thr = threshold[c]])
  BY DEF ExtClaim
<1>3. s \in AnySource /\ PriorityOf(s) \in Nat /\ (s = NoSource \/ s \in Sources)
  BY ClaimableType, PriorityType
<1>4. Stacks'
  BY <1>2, <1>3, GoOnFrames, GoOnStack
<1>5. pending' \subseteq Sources /\ inService' \subseteq Sources /\ threshold' \in [Cores -> Nat]
  BY <1>1, <1>2, <1>3 DEF Claim, RaiseThreshold, Registers
<1>6. mie' \in [Cores -> SUBSET Bits] /\ mstatusMIE' \in [Cores -> BOOLEAN]
  BY <1>1 DEF ExtClaim, MaskNested, SetMIE, Registers
<1>7. Registers'
  BY <1>1, <1>5, <1>6 DEF Registers, ExtClaim, clintVars, bounds, history
<1> QED
  BY <1>4, <1>7, TypesNext

LEMMA HandlerTypes ==
    ASSUME Types, NEW c \in Cores, ExtComplete(c) \/ SoftClear(c) \/ SoftCall(c)
    PROVE  Types'
<1>1. Registers
  BY TypesParts
<1>2. Stacks'
  BY GoOnFrames, GoOnStack DEF ExtComplete, SoftClear, SoftCall
<1>3. Registers'
  BY <1>1 DEF Registers, ExtComplete, Complete, SoftClear, SoftCall, plicVars, clintVars, bounds, history
<1> QED
  BY <1>2, <1>3, TypesNext

LEMMA BeginTypes ==
    ASSUME Types, NEW c \in Cores,
           \/ \E b \in BOOLEAN : TimerStart(c, b)
           \/ \E s \in Sources, name \in Calls : PlicRead(c, s, name)
    PROVE  Types'
<1>1. Registers
  BY TypesParts
<1>2. Stacks'
  <2>1. CASE \E b \in BOOLEAN : TimerStart(c, b)
    <3>1. [name |-> "timer_start", src |-> NoSource, current |-> {}] \in Ops
      BY OpType DEF AnySource
    <3> QED
      BY <2>1, <3>1, GoOnFrames, GoOnStack DEF TimerStart, Begin
  <2>2. CASE \E s \in Sources, name \in Calls : PlicRead(c, s, name)
    <3>1. PICK s \in Sources, name \in {"plic_enable", "plic_disable"} : PlicRead(c, s, name)
      BY <2>2 DEF PlicRead
    <3>2. [name |-> name, src |-> s, current |-> enable[c]] \in Ops
      BY <1>1, <3>1, OpType DEF AnySource, Registers
    <3> QED
      BY <3>1, <3>2, GoOnFrames, GoOnStack DEF PlicRead, Begin
  <2> QED
    BY <2>1, <2>2
<1>3. calls' \in [Cores -> 0 .. MaxCalls] /\ raises' \in 0 .. MaxRaises
  BY <1>1, CallTypes DEF TimerStart, PlicRead
<1>4. Registers'
  BY <1>1, <1>3 DEF Registers, TimerStart, PlicRead, plicVars, clintVars, history
<1> QED
  BY <1>2, <1>4, TypesNext

LEMMA EndTypes ==
    ASSUME Types, NEW c \in Cores, TimerArm(c) \/ PlicWrite(c)
    PROVE  Types'
<1>1. Registers /\ Stacks /\ Top(c) \in Frames
  BY TypesParts, TopIs
<1>2. Top(c).op \in Ops
  BY <1>1, FrameParts
<1>3. Stacks'
  BY GoOnFrames, GoOnStack, OpType DEF TimerArm, PlicWrite, Finish
<1>4. Registers'
  <2>1. CASE TimerArm(c)
    BY <1>1, <2>1 DEF Registers, TimerArm, SetMIE, plicVars, bounds, Bits
  <2>2. CASE PlicWrite(c)
    <3> DEFINE op == Top(c).op
    <3>1. op.name \in {"plic_enable", "plic_disable"} /\ op.current \in SUBSET Sources /\ op.src \in Sources
      BY <1>2, <2>2, OpType DEF PlicWrite
    <3>2. /\ enable' = [enable EXCEPT ![c] = Changed(op.current, op)]
          /\ asked' = [asked EXCEPT ![c] = Changed(asked[c], op)]
      BY <1>1, <2>2 DEF PlicWrite, Registers
    <3>3. enable' \in [Cores -> SUBSET Sources] /\ asked' \in [Cores -> SUBSET Sources]
      BY <1>1, <3>1, <3>2 DEF Registers, Changed
    <3> QED
      BY <1>1, <2>2, <3>3 DEF Registers, PlicWrite, clintVars, bounds
  <2> QED
    BY <2>1, <2>2
<1> QED
  BY <1>3, <1>4, TypesNext

LEMMA InitTypes == Init => Types
<1> SUFFICES ASSUME Init PROVE Types
  OBVIOUS
<1> USE DEF Init
<1>1. Frame("main", "running", {}) \in Frames /\ Frame("main", "running", {}).kind = "main"
  BY FrameType
<1>2. Stacks
  <2> DEFINE f == Frame("main", "running", {})
  <2>1. <<f>> \in Seq(Frames) /\ Len(<<f>>) = 1 /\ <<f>>[1] = f
    BY <1>1
  <2> HIDE DEF f
  <2> QED
    BY <1>1, <2>1 DEF Stacks, f
<1>3. Registers
  <2>1. 0 \in 0 .. MaxCalls /\ 0 \in 0 .. MaxRaises /\ StartMie \in SUBSET Bits
    BY BoundsAssumption, StartMieAssumption DEF Bits
  <2> QED
    BY <2>1, EnabledAssumption DEF Registers
<1> QED
  BY <1>2, <1>3, TypesParts

LEMMA NextTypes == Types /\ [Next]_vars => Types'
<1> SUFFICES ASSUME Types, [Next]_vars PROVE Types'
  OBVIOUS
<1>1. CASE (\E s \in Sources : Raise(s)) \/ (\E c \in Cores : Expire(c)) \/ UNCHANGED vars
  BY <1>1, QuietTypes
<1>2. ASSUME NEW c \in Cores, Handler(c) PROVE Types'
  BY <1>2, TrapTypes, ExtCheckTypes, ExtClaimTypes, HandlerTypes, ReturnTypes DEF Handler
<1>3. ASSUME NEW c \in Cores, Call(c) PROVE Types'
  <2>1. CASE (\E b \in BOOLEAN : TimerStart(c, b)) \/ (\E s \in Sources, name \in Calls : PlicRead(c, s, name))
    BY <2>1, BeginTypes
  <2>2. CASE \/ IpiEnable(c) \/ IpiDisable(c) \/ TimerStop(c) \/ DisableIrq(c) \/ EnableIrq(c)
             \/ \E d \in Cores : IpiSend(c, d)
    BY <2>2, QuietTypes
  <2> QED
    BY <1>3, <2>1, <2>2 DEF Call
<1>4. ASSUME NEW c \in Cores, CallEnd(c) PROVE Types'
  BY <1>4, EndTypes DEF CallEnd
<1> QED
  BY <1>1, <1>2, <1>3, <1>4 DEF Next

LEMMA SpecTypes == Spec => []Types
BY InitTypes, NextTypes, PTL DEF Spec

-----------------------------------------------------------------------------
(* No source is served twice. *)

(* Whoever serves a source after the step, served it before. *)
NothingNew ==
    \A d \in Cores : \A i \in 1 .. Len(stack'[d]) :
        Serves(d, i)' => Serves(d, i) /\ stack'[d][i].src = stack[d][i].src

LEMMA ServiceKept ==
    ASSUME OneService, NothingNew, inService' = inService, pending' \cap inService = {}
    PROVE  OneService'
<1>1. \A d \in Cores : \A i \in 1 .. Len(stack'[d]) :
         Serves(d, i)' => i \in 1 .. Len(stack[d]) /\ Serves(d, i) /\ stack'[d][i].src = stack[d][i].src
  BY DEF NothingNew, Serves
<1>2. \A d \in Cores : \A i \in 1 .. Len(stack'[d]) : Serves(d, i)' => stack'[d][i].src \in inService
  BY <1>1 DEF OneService
<1>3. \A c, d \in Cores : \A i \in 1 .. Len(stack'[c]), j \in 1 .. Len(stack'[d]) :
         Serves(c, i)' /\ Serves(d, j)' /\ stack'[c][i].src = stack'[d][j].src => c = d /\ i = j
  BY <1>1 DEF OneService
<1> QED
  BY <1>2, <1>3 DEF OneService

LEMMA PushNothing ==
    ASSUME Types, NEW c \in Cores, NEW f \in Frames, ~InCallback(f), stack'[c] = Append(stack[c], f),
           \A d \in Cores \ {c} : stack'[d] = stack[d]
    PROVE  NothingNew
<1> SUFFICES ASSUME NEW d \in Cores, NEW i \in 1 .. Len(stack'[d]), Serves(d, i)'
             PROVE  Serves(d, i) /\ stack'[d][i].src = stack[d][i].src
  BY DEF NothingNew
<1>1. CASE d = c
  <2> DEFINE k == Len(stack[c])
  <2>1. /\ k \in Nat /\ Len(stack'[c]) = k + 1 /\ stack'[c][k + 1] = f
        /\ \A j \in 1 .. k : stack'[c][j] = stack[c][j]
    BY TypesParts, TopIs, PushSeq
  <2> HIDE DEF k
  <2>2. i \in 1 .. k
    BY <1>1, <2>1 DEF Serves
  <2> QED
    BY <1>1, <2>1, <2>2 DEF Serves, k
<1>2. CASE d # c
  BY <1>2 DEF Serves
<1> QED
  BY <1>1, <1>2

LEMMA PopNothing ==
    ASSUME Types, NEW c \in Cores, stack'[c] = Front(stack[c]),
           \A d \in Cores \ {c} : stack'[d] = stack[d]
    PROVE  NothingNew
<1> SUFFICES ASSUME NEW d \in Cores, NEW i \in 1 .. Len(stack'[d]), Serves(d, i)'
             PROVE  Serves(d, i) /\ stack'[d][i].src = stack[d][i].src
  BY DEF NothingNew
<1>1. CASE d = c
  <2> DEFINE k == Len(stack[c])
  <2>1. k \in Nat /\ Len(stack'[c]) = k - 1 /\ \A j \in 1 .. (k - 1) : stack'[c][j] = stack[c][j]
    BY TypesParts, TopIs, PopSeq
  <2> HIDE DEF k
  <2>2. i \in 1 .. (k - 1) /\ i \in 1 .. k
    BY <1>1, <2>1
  <2> QED
    BY <1>1, <2>1, <2>2 DEF Serves, k
<1>2. CASE d # c
  BY <1>2 DEF Serves
<1> QED
  BY <1>1, <1>2

(* The top frame goes on: what the others serve stays. *)
LEMMA ReplaceOthers ==
    ASSUME Types, NEW c \in Cores, NEW f \in Frames, stack'[c] = Append(Front(stack[c]), f),
           \A d \in Cores \ {c} : stack'[d] = stack[d]
    PROVE  /\ Len(stack'[c]) = Len(stack[c]) /\ Top(c)' = f
           /\ \A d \in Cores : \A i \in 1 .. Len(stack'[d]) :
                 \/ d = c /\ i = Len(stack[c]) /\ stack'[d][i] = f
                 \/ i \in 1 .. Len(stack[d]) /\ stack'[d][i] = stack[d][i] /\ (d = c => i # Len(stack[c]))
<1> DEFINE k == Len(stack[c])
<1>1. /\ k \in Nat /\ k > 0 /\ Len(stack'[c]) = k /\ stack'[c][k] = f
      /\ \A j \in 1 .. (k - 1) : stack'[c][j] = stack[c][j]
  BY TypesParts, TopIs, ReplaceSeq
<1>2. Top(c)' = stack'[c][Len(stack'[c])]
  BY DEF Top, Last
<1> HIDE DEF k
<1>3. \A i \in 1 .. k : i = k \/ i \in 1 .. (k - 1)
  BY <1>1
<1>4. ASSUME NEW d \in Cores, NEW i \in 1 .. Len(stack'[d])
      PROVE  \/ d = c /\ i = k /\ stack'[d][i] = f
             \/ i \in 1 .. Len(stack[d]) /\ stack'[d][i] = stack[d][i] /\ (d = c => i # k)
  <2>1. CASE d = c
    BY <1>1, <1>3, <2>1 DEF k
  <2>2. CASE d # c
    BY <2>2
  <2> QED
    BY <2>1, <2>2
<1> QED
  BY <1>1, <1>2, <1>4 DEF k

LEMMA ReplaceNothing ==
    ASSUME Types, NEW c \in Cores, NEW f \in Frames, stack'[c] = Append(Front(stack[c]), f),
           \A d \in Cores \ {c} : stack'[d] = stack[d],
           InCallback(f) => InCallback(Top(c)) /\ f.src = Top(c).src
    PROVE  NothingNew
<1>1. /\ Top(c) = stack[c][Len(stack[c])] /\ Len(stack[c]) \in 1 .. Len(stack[c])
  BY TypesParts, TopIs
<1> SUFFICES ASSUME NEW d \in Cores, NEW i \in 1 .. Len(stack'[d]), Serves(d, i)'
             PROVE  Serves(d, i) /\ stack'[d][i].src = stack[d][i].src
  BY DEF NothingNew
<1>2. CASE d = c /\ i = Len(stack[c]) /\ stack'[d][i] = f
  BY <1>1, <1>2 DEF Serves
<1>3. CASE i \in 1 .. Len(stack[d]) /\ stack'[d][i] = stack[d][i]
  BY <1>3 DEF Serves
<1> QED
  BY <1>2, <1>3, ReplaceOthers


LEMMA StillNothing == stack' = stack => NothingNew
BY DEF NothingNew, Serves

LEMMA OpNothing ==
    ASSUME Types, NEW c \in Cores, NEW o \in Ops, Replace(c, [Top(c) EXCEPT !.op = o])
    PROVE  NothingNew
<1> DEFINE f == [Top(c) EXCEPT !.op = o]
<1>1. f \in Frames /\ f.kind = Top(c).kind
  BY GoOnFrames
<1>2. f.at = Top(c).at /\ f.src = Top(c).src
  BY GoOnFrames, ZenonT(30) DEF Frames
<1>3. Replace(c, f)
  OBVIOUS
<1> HIDE DEF f
<1> QED
  BY <1>1, <1>2, <1>3, GoOnStack, ReplaceNothing DEF InCallback

LEMMA InitService == Init => OneService
<1> SUFFICES ASSUME Init PROVE OneService
  OBVIOUS
<1>1. Frame("main", "running", {}).kind = "main"
  BY DEF Frame
<1>2. \A c \in Cores : \A i \in 1 .. Len(stack[c]) : ~Serves(c, i)
  <2> DEFINE f == Frame("main", "running", {})
  <2>1. Len(<<f>>) = 1 /\ <<f>>[1] = f
    OBVIOUS
  <2> HIDE DEF f
  <2>2. \A c \in Cores : stack[c] = <<f>>
    BY DEF Init, f
  <2> QED
    BY <1>1, <2>1, <2>2 DEF Serves, InCallback, f
<1> QED
  BY <1>2 DEF Init, OneService

(* Steps that touch no gateway. *)
LEMMA QuietService ==
    ASSUME Types, OneService,
           \/ \E s \in Sources : Raise(s)
           \/ \E c \in Cores : Expire(c) \/ Call(c) \/ CallEnd(c)
           \/ UNCHANGED vars
    PROVE  OneService'
<1>1. CASE \E s \in Sources : Raise(s)
  <2>1. stack' = stack /\ inService' = inService /\ pending' \cap inService = {}
    BY <1>1 DEF Raise, coreVars, OneService
  <2> QED
    BY <2>1, StillNothing, ServiceKept
<1>2. CASE UNCHANGED vars \/ \E c \in Cores : Expire(c)
  <2>1. stack' = stack /\ inService' = inService /\ pending' = pending
    BY <1>2 DEF vars, coreVars, plicVars, Expire
  <2> QED
    BY <2>1, StillNothing, ServiceKept DEF OneService
<1>3. ASSUME NEW c \in Cores, Call(c) PROVE OneService'
  <2>1. inService' = inService /\ pending' = pending
    BY <1>3 DEF Call, IpiSend, IpiEnable, IpiDisable, TimerStart, TimerStop, PlicRead, DisableIrq,
                EnableIrq, plicVars
  <2>2. CASE (\E b \in BOOLEAN : TimerStart(c, b)) \/ (\E s \in Sources, name \in Calls : PlicRead(c, s, name))
    <3>1. PICK o \in Ops : Replace(c, [Top(c) EXCEPT !.op = o])
      <4>1. CASE \E b \in BOOLEAN : TimerStart(c, b)
        BY <4>1, OpType DEF TimerStart, Begin
      <4>2. CASE \E s \in Sources, name \in Calls : PlicRead(c, s, name)
        <5>1. enable[c] \in SUBSET Sources
          BY TypesParts DEF Registers
        <5> QED
          BY <4>2, <5>1, OpType DEF PlicRead, Begin
      <4> QED
        BY <2>2, <4>1, <4>2
    <3>2. NothingNew
      BY <3>1, OpNothing
    <3> QED
      BY <2>1, <3>2, ServiceKept DEF OneService
  <2>3. CASE \/ IpiEnable(c) \/ IpiDisable(c) \/ TimerStop(c) \/ DisableIrq(c) \/ EnableIrq(c)
             \/ \E d \in Cores : IpiSend(c, d)
    <3>1. stack' = stack
      BY <2>3 DEF IpiEnable, IpiDisable, TimerStop, DisableIrq, EnableIrq, IpiSend, coreVars
    <3> QED
      BY <2>1, <3>1, StillNothing, ServiceKept DEF OneService
  <2> QED
    BY <1>3, <2>2, <2>3 DEF Call
<1>4. ASSUME NEW c \in Cores, CallEnd(c) PROVE OneService'
  <2>1. inService' = inService /\ pending' = pending
    BY <1>4 DEF CallEnd, TimerArm, PlicWrite, plicVars
  <2>2. Replace(c, [Top(c) EXCEPT !.op = NoOp])
    BY <1>4 DEF CallEnd, TimerArm, PlicWrite, Finish
  <2>3. NothingNew
    BY <2>2, OpType, OpNothing
  <2> QED
    BY <2>1, <2>3, ServiceKept DEF OneService
<1> QED
  BY <1>1, <1>2, <1>3, <1>4

(* Traps, returns, and the handlers that neither claim nor complete. *)
LEMMA HandlerService ==
    ASSUME Types, OneService, NEW c \in Cores,
           \/ ExtTrap(c) \/ TimerTrap(c) \/ SoftTrap(c) \/ ExtCheck(c) \/ SoftClear(c) \/ SoftCall(c)
           \/ ExtReturn(c) \/ TimerReturn(c) \/ SoftReturn(c)
    PROVE  OneService'
<1>1. inService' = inService /\ pending' = pending
  BY DEF ExtTrap, TimerTrap, SoftTrap, ExtCheck, SoftClear, SoftCall, ExtReturn, TimerReturn,
         SoftReturn, plicVars
<1>2. NothingNew
  <2>1. CASE ExtTrap(c) \/ TimerTrap(c) \/ SoftTrap(c)
    <3>1. PICK f \in {Frame("ext", "check", {}), Frame("timer", "running", mie[c]),
                      Frame("soft", "clear", {})} :
            f \in Frames /\ stack'[c] = Append(stack[c], f)
      BY <2>1, TrapStack
    <3>2. ~InCallback(f)
      BY DEF Frame, InCallback
    <3> QED
      BY <2>1, <3>1, <3>2, TrapStack, PushNothing
  <2>2. CASE ExtReturn(c) \/ TimerReturn(c) \/ SoftReturn(c)
    <3>1. stack'[c] = Front(stack[c]) /\ \A d \in Cores \ {c} : stack'[d] = stack[d]
      BY <2>2, ReturnStack DEF ExtReturn, TimerReturn, SoftReturn, In, Bits
    <3> QED
      BY <3>1, PopNothing
  <2>3. CASE ExtCheck(c)
    <3>1. Top(c).kind = "ext" /\ Frame("ext", "claim", mie[c]).at = "claim"
      BY <2>3 DEF ExtCheck, In, Frame
    <3>2. CASE MEIP(c)
      BY <2>3, <3>1, <3>2, GoOnFrames, GoOnStack, ReplaceNothing DEF ExtCheck, InCallback
    <3>3. CASE ~MEIP(c)
      BY <2>3, <3>1, <3>3, ReturnStack, PopNothing DEF ExtCheck, Bits
    <3> QED
      BY <3>2, <3>3
  <2>4. CASE SoftClear(c) \/ SoftCall(c)
    <3>1. PICK p \in {"call", "running"} : Replace(c, [Top(c) EXCEPT !.at = p])
      BY <2>4 DEF SoftClear, SoftCall
    <3>2. Top(c).kind = "soft"
      BY <2>4 DEF SoftClear, SoftCall, In
    <3>3. ~InCallback([Top(c) EXCEPT !.at = p])
      BY <3>2, GoOnFrames DEF InCallback
    <3> QED
      BY <3>1, <3>3, GoOnFrames, GoOnStack, ReplaceNothing
  <2> QED
    BY <2>1, <2>2, <2>3, <2>4
<1> QED
  BY <1>1, <1>2, ServiceKept DEF OneService

(* A claim takes a pending source, which nobody serves. *)
LEMMA ClaimService ==
    ASSUME Types, OneService, NEW c \in Cores, ExtClaim(c)
    PROVE  OneService'
<1>1. PICK s \in Claimable(c) :
        /\ Claim(s)
        /\ Replace(c, [Top(c) EXCEPT !.at = "running", !.src = s, !.thr = threshold[c]])
  BY DEF ExtClaim
<1> DEFINE f == [Top(c) EXCEPT !.at = "running", !.src = s, !.thr = threshold[c]]
<1>2. s \in AnySource /\ (s = NoSource \/ s \in pending)
  BY ClaimableType
<1>3. f \in Frames /\ f.kind = Top(c).kind
  BY <1>2, GoOnFrames
<1>4. f.src = s
  <2> DEFINE g == Top(c)
             h == threshold[c]
  <2>1. g \in Frames
    BY GoOnFrames
  <2> HIDE DEF g, h
  <2>2. [g EXCEPT !.at = "running", !.src = s, !.thr = h].src = s
    BY <2>1 DEF Frames
  <2> QED
    BY <2>2 DEF g, h
<1>5. Replace(c, f)
  BY <1>1
<1> HIDE DEF f
<1>6. \A d \in Cores : \A i \in 1 .. Len(stack'[d]) :
         \/ d = c /\ i = Len(stack[c]) /\ stack'[d][i] = f
         \/ i \in 1 .. Len(stack[d]) /\ stack'[d][i] = stack[d][i] /\ (d = c => i # Len(stack[c]))
  BY <1>3, <1>5, GoOnStack, ReplaceOthers
<1>7. \A d \in Cores : \A i \in 1 .. Len(stack'[d]) : Serves(d, i)' =>
         \/ d = c /\ i = Len(stack[c]) /\ stack'[d][i].src = s /\ s # NoSource
         \/ i \in 1 .. Len(stack[d]) /\ stack'[d][i] = stack[d][i] /\ Serves(d, i) /\ stack[d][i].src \in inService
  BY <1>4, <1>6 DEF Serves, OneService
<1>8. s # NoSource => s \notin inService
  BY <1>2 DEF OneService
<1>9. pending' = pending \ {s} /\ inService' = inService \cup ({s} \ {NoSource})
  BY <1>1 DEF Claim
<1>10. pending' \cap inService' = {}
  BY <1>9 DEF OneService
<1>11. \A d \in Cores : \A i \in 1 .. Len(stack'[d]) : Serves(d, i)' => stack'[d][i].src \in inService'
  BY <1>7, <1>9
<1>12. \A a, d \in Cores : \A i \in 1 .. Len(stack'[a]), j \in 1 .. Len(stack'[d]) :
         Serves(a, i)' /\ Serves(d, j)' /\ stack'[a][i].src = stack'[d][j].src => a = d /\ i = j
  <2> SUFFICES ASSUME NEW a \in Cores, NEW d \in Cores, NEW i \in 1 .. Len(stack'[a]),
                      NEW j \in 1 .. Len(stack'[d]), Serves(a, i)', Serves(d, j)',
                      stack'[a][i].src = stack'[d][j].src
               PROVE  a = d /\ i = j
    OBVIOUS
  <2> DEFINE Fresh(e, n) == e = c /\ n = Len(stack[c]) /\ stack'[e][n].src = s /\ s # NoSource
             Older(e, n) == /\ n \in 1 .. Len(stack[e]) /\ stack'[e][n] = stack[e][n]
                            /\ Serves(e, n) /\ stack[e][n].src \in inService
  <2>1. (Fresh(a, i) \/ Older(a, i)) /\ (Fresh(d, j) \/ Older(d, j))
    BY <1>7
  <2>2. CASE Older(a, i) /\ Older(d, j)
    BY <2>2 DEF OneService
  <2>3. CASE Fresh(a, i) /\ Fresh(d, j)
    BY <2>3
  <2>4. CASE Fresh(a, i) /\ Older(d, j)
    BY <1>8, <2>4
  <2>5. CASE Older(a, i) /\ Fresh(d, j)
    BY <1>8, <2>5
  <2> QED
    BY <2>1, <2>2, <2>3, <2>4, <2>5
<1> QED
  BY <1>10, <1>11, <1>12 DEF OneService

(* A completion gives up the source of the top frame, and only that. *)
LEMMA CompleteService ==
    ASSUME Types, OneService, NEW c \in Cores, ExtComplete(c)
    PROVE  OneService'
<1> DEFINE f == [Top(c) EXCEPT !.at = "done"]
           k == Len(stack[c])
<1>1. f \in Frames /\ f.kind = Top(c).kind
  BY GoOnFrames
<1>2. f.at = "done"
  BY GoOnFrames, ZenonT(30) DEF Frames
<1>3. Replace(c, f) /\ In(c, "ext", "running") /\ pending' = pending
      /\ inService' = inService \ ({Top(c).src} \cap enable[c])
  BY DEF ExtComplete, Complete
<1> HIDE DEF f
<1>4. Top(c) = stack[c][k] /\ k \in 1 .. k
  BY TypesParts, TopIs
<1>5. \A d \in Cores : \A i \in 1 .. Len(stack'[d]) :
         \/ d = c /\ i = k /\ stack'[d][i] = f
         \/ i \in 1 .. Len(stack[d]) /\ stack'[d][i] = stack[d][i] /\ (d = c => i # k)
  <2>1. stack'[c] = Append(Front(stack[c]), f) /\ \A d \in Cores \ {c} : stack'[d] = stack[d]
    BY <1>1, <1>3, GoOnStack
  <2> QED
    BY <1>1, <2>1, ReplaceOthers
<1>6. \A d \in Cores : \A i \in 1 .. Len(stack'[d]) : Serves(d, i)' =>
         i \in 1 .. Len(stack[d]) /\ stack'[d][i] = stack[d][i] /\ Serves(d, i) /\ (d = c => i # k)
  BY <1>2, <1>5 DEF Serves, InCallback
<1>7. \A d \in Cores : \A i \in 1 .. Len(stack'[d]) : Serves(d, i)' =>
         stack'[d][i].src # Top(c).src
  <2> SUFFICES ASSUME NEW d \in Cores, NEW i \in 1 .. Len(stack'[d]), Serves(d, i)',
                      stack'[d][i].src = Top(c).src
               PROVE  FALSE
    OBVIOUS
  <2>1. i \in 1 .. Len(stack[d]) /\ stack[d][i].src = Top(c).src /\ Serves(d, i) /\ (d = c => i # k)
    BY <1>6
  <2>2. Serves(c, k)
    BY <1>3, <1>4, <2>1 DEF Serves, In, InCallback
  <2> QED
    BY <1>4, <2>1, <2>2 DEF OneService
<1>8. pending' \cap inService' = {}
  BY <1>3 DEF OneService
<1>9. \A d \in Cores : \A i \in 1 .. Len(stack'[d]) : Serves(d, i)' => stack'[d][i].src \in inService'
  BY <1>3, <1>6, <1>7 DEF OneService
<1>10. \A a, d \in Cores : \A i \in 1 .. Len(stack'[a]), j \in 1 .. Len(stack'[d]) :
         Serves(a, i)' /\ Serves(d, j)' /\ stack'[a][i].src = stack'[d][j].src => a = d /\ i = j
  BY <1>6, SMTT(30) DEF OneService
<1> QED
  BY <1>8, <1>9, <1>10 DEF OneService

LEMMA NextService == Types /\ OneService /\ [Next]_vars => OneService'
<1> SUFFICES ASSUME Types, OneService, [Next]_vars PROVE OneService'
  OBVIOUS
<1>1. ASSUME NEW c \in Cores, Handler(c) PROVE OneService'
  BY <1>1, HandlerService, ClaimService, CompleteService DEF Handler
<1> QED
  BY <1>1, QuietService DEF Next

(* The registers and stacks keep their types, and main its frame. *)
THEOREM TypeCorrect == Spec => []TypeOK
<1>1. Types => TypeOK
  BY DEF Types
<1> QED
  BY <1>1, SpecTypes, PTL

(* However harts race to claim and handlers nest, one raised interrupt     *)
(* runs one callback (claim and completion in drivers/plic.c): nothing is  *)
(* assumed about the callbacks. *)
THEOREM ServedOnceSafe == Spec => []ServedOnce
<1>1. Types /\ OneService => ServedOnce
  <2> SUFFICES ASSUME Types, OneService, NEW c \in Cores, NEW d \in Cores,
                      NEW i \in Serving(c), NEW j \in Serving(d),
                      stack[c][i].src = stack[d][j].src
               PROVE  c = d /\ i = j
    BY DEF ServedOnce
  <2>1. ASSUME NEW e \in Cores, NEW k \in Serving(e)
        PROVE  k \in 1 .. Len(stack[e]) /\ Serves(e, k)
    <3> DEFINE n == Len(stack[e])
    <3>1. n \in Nat /\ k \in 2 .. n /\ InCallback(stack[e][k]) /\ stack[e][k].src # NoSource
      BY <2>1, TypesParts, TopIs DEF Serving, Interrupts
    <3> HIDE DEF n
    <3>2. k \in 1 .. n
      BY <3>1
    <3> QED
      BY <3>1, <3>2 DEF Serves, n
  <2> QED
    BY <2>1 DEF OneService
<1>2. Init => OneService
  BY InitService
<1>3. Types /\ OneService /\ [Next]_vars => OneService'
  BY NextService
<1> QED
  BY <1>1, <1>2, <1>3, SpecTypes, PTL DEF Spec

-----------------------------------------------------------------------------
(* The order and the masks of a stack, step by step. *)

LEMMA Shape ==
    ASSUME NEW s \in Seq(Frames), NEW w, Nested(s, w)
    PROVE  /\ Len(s) \in Nat /\ Len(s) > 0 /\ Last(s) = s[Len(s)] /\ Last(s) \in Frames /\ PointFits(Last(s))
           /\ Last(s).kind # "main" => Len(s) > 1
           /\ Len(s) > 1 => /\ Last(s).kind # "main" /\ OnTop(Under(s), Last(s), w) /\ ~Entering(Under(s))
                            /\ Ordered(Under(s), Last(s)) /\ Under(s) \in Frames /\ PointFits(Under(s))
<1> DEFINE k == Len(s)
<1>1. k \in Nat /\ k > 0 /\ Last(s) = s[k] /\ Last(s) \in Frames /\ \A j \in 1 .. k : s[j] \in Frames
  BY TopSeq DEF Nested
<1>2. Under(s) = s[k - 1]
  BY DEF Under
<1>3. /\ s[1].kind = "main" /\ \A j \in 1 .. k : PointFits(s[j])
      /\ \A j \in 2 .. k : s[j].kind # "main" /\ OnTop(s[j - 1], s[j], w)
      /\ \A i, j \in 1 .. k : i < j => Ordered(s[i], s[j])
  BY DEF Nested
<1> HIDE DEF k
<1>4. PointFits(Last(s)) /\ (Last(s).kind # "main" => k > 1)
  BY <1>1, <1>3
<1>5. ASSUME k > 1
      PROVE  /\ Last(s).kind # "main" /\ OnTop(Under(s), Last(s), w) /\ ~Entering(Under(s))
             /\ Ordered(Under(s), Last(s)) /\ Under(s) \in Frames /\ PointFits(Under(s))
  <2>1. k \in 2 .. k /\ k \in 1 .. k /\ k - 1 \in 1 .. k /\ k - 1 < k
    BY <1>1, <1>5
  <2>2. OnTop(Under(s), Last(s), w)
    BY <1>1, <1>2, <1>3, <2>1
  <2> QED
    BY <1>1, <1>2, <1>3, <2>1, <2>2 DEF OnTop
<1> QED
  BY <1>1, <1>4, <1>5 DEF k

LEMMA BasePushed ==
    ASSUME NEW s \in Seq(Frames), NEW w, Nested(s, w), NEW f \in Frames
    PROVE  Last(Append(s, f)) = f /\ Base(Append(s, f)) = IF Entering(f) THEN Last(s) ELSE f
<1> DEFINE k == Len(s)
           t == Append(s, f)
<1>1. k \in Nat /\ k > 0 /\ Last(s) = s[k] /\ Len(t) = k + 1 /\ t[k + 1] = f /\ t[k] = s[k]
  BY Shape, PushSeq
<1>2. Last(t) = t[Len(t)] /\ Under(t) = t[Len(t) - 1]
  BY DEF Last, Under
<1> HIDE DEF k, t
<1>3. Last(t) = f /\ Under(t) = Last(s)
  BY <1>1, <1>2
<1> QED
  BY <1>3 DEF Base, t

LEMMA BaseReplaced ==
    ASSUME NEW s \in Seq(Frames), NEW w, Nested(s, w), NEW f \in Frames
    PROVE  /\ Last(Append(Front(s), f)) = f
           /\ Len(s) > 1 => Base(Append(Front(s), f)) = IF Entering(f) THEN Under(s) ELSE f
           /\ ~Entering(f) => Base(Append(Front(s), f)) = f
<1> DEFINE k == Len(s)
           t == Append(Front(s), f)
<1>1. /\ k \in Nat /\ k > 0 /\ Len(t) = k /\ t[k] = f
      /\ \A i \in 1 .. (k - 1) : t[i] = s[i]
  BY Shape, ReplaceSeq
<1>2. Last(t) = t[Len(t)] /\ Under(t) = t[Len(t) - 1] /\ Under(s) = s[k - 1]
  BY DEF Last, Under
<1> HIDE DEF k, t
<1>3. Last(t) = f /\ (k > 1 => Under(t) = Under(s))
  BY <1>1, <1>2
<1> QED
  BY <1>3 DEF Base, t, k

LEMMA BasePopped ==
    ASSUME NEW s \in Seq(Frames), NEW w, Nested(s, w), Len(s) > 1
    PROVE  Last(Front(s)) = Under(s) /\ Base(Front(s)) = Under(s)
<1> DEFINE k == Len(s)
           t == Front(s)
<1>1. /\ k \in Nat /\ k > 1 /\ Len(t) = k - 1 /\ ~Entering(Under(s))
      /\ \A i \in 1 .. (k - 1) : t[i] = s[i]
  BY Shape, PopSeq
<1>2. Last(t) = t[Len(t)] /\ Under(s) = s[k - 1]
  BY DEF Last, Under
<1> HIDE DEF k, t
<1>3. Last(t) = Under(s)
  BY <1>1, <1>2
<1> QED
  BY <1>1, <1>3 DEF Base, t

(* The top frame goes on, at the same level. *)
LEMMA GoOnMasked ==
    ASSUME NEW s \in Seq(Frames), NEW w, NEW m, NEW t, NEW g, Masked(s, w, m, t, g),
           NEW f \in Frames, PointFits(f), f.kind = Last(s).kind, f.mie = Last(s).mie,
           Active(f) => f.thr = Last(s).thr /\ f.src = Last(s).src,
           Active(f) <=> Active(Last(s)), ~Entering(f), ~Entering(Last(s))
    PROVE  Masked(Append(Front(s), f), w, m, t, g)
<1>1. Nested(s, w) /\ Base(s) = Last(s) /\ m = w \ MaskOf(Last(s)) /\ t = LevelOf(Last(s))
  BY DEF Masked, Base
<1>2. MaskOf(f) = MaskOf(Last(s)) /\ LevelOf(f) = LevelOf(Last(s))
  BY DEF MaskOf, LevelOf, Active
<1>3. Len(s) > 1 => OnTop(Under(s), f, w)
  BY <1>1, Shape DEF OnTop, Entering, Active, PointFits
<1>4. Nested(Append(Front(s), f), w)
  BY <1>1, <1>3, ReplaceNested DEF Under
<1>5. Last(Append(Front(s), f)) = f /\ Base(Append(Front(s), f)) = f
  BY <1>1, BaseReplaced
<1> QED
  BY <1>1, <1>2, <1>4, <1>5 DEF Masked

LEMMA ExtTrapMasked ==
    ASSUME NEW s \in Seq(Frames), NEW w, NEW m, NEW t, Masked(s, w, m, t, TRUE)
    PROVE  Masked(Append(s, Frame("ext", "check", {})), w, m, t, FALSE)
<1> DEFINE f == Frame("ext", "check", {})
<1>1. f \in Frames /\ f.kind = "ext" /\ f.at = "check" /\ f.op.name = "none"
  BY FrameType, OpType DEF Bits
<1> HIDE DEF f
<1>2. Nested(s, w) /\ ~Entering(Last(s)) /\ Base(s) = Last(s)
  BY DEF Masked, Base
<1>3. PointFits(f) /\ OnTop(Last(s), f, w)
  BY <1>1, <1>2 DEF PointFits, OnTop, Active
<1>4. Ordered(Last(s), f)
  BY <1>1, <1>2, Shape, FrameParts DEF Ordered, Rank, Bits
<1>5. Nested(Append(s, f), w)
  BY <1>1, <1>2, <1>3, <1>4, PushNested
<1>6. Last(Append(s, f)) = f /\ Base(Append(s, f)) = Last(s)
  BY <1>1, <1>2, BasePushed DEF Entering
<1>7. Masked(Append(s, f), w, m, t, FALSE)
  BY <1>2, <1>5, <1>6 DEF Masked
<1> QED
  BY <1>7 DEF f

LEMMA ExtCheckMasked ==
    ASSUME NEW s \in Seq(Frames), NEW w, NEW m \in SUBSET Bits, NEW t, NEW g, Masked(s, w, m, t, g),
           Last(s).kind = "ext", Last(s).at = "check"
    PROVE  /\ Masked(Append(Front(s), Frame("ext", "claim", m)), w, m, t, g)
           /\ Masked(Front(s), w, m, t, TRUE)
<1> DEFINE f == Frame("ext", "claim", m)
<1>1. f \in Frames /\ f.kind = "ext" /\ f.at = "claim" /\ f.op.name = "none" /\ f.mie = m
  BY FrameType, OpType DEF Bits
<1> HIDE DEF f
<1>2. /\ Nested(s, w) /\ Entering(Last(s)) /\ Entering(f) /\ Base(s) = Under(s) /\ ~g
      /\ m = w \ MaskOf(Under(s)) /\ t = LevelOf(Under(s)) /\ Len(s) > 1 /\ ~Entering(Under(s))
  BY <1>1, Shape DEF Masked, Base, Entering
<1>3. PointFits(f) /\ OnTop(Under(s), f, w)
  BY <1>1, <1>2 DEF PointFits, OnTop, Active
<1>4. Nested(Append(Front(s), f), w)
  BY <1>1, <1>2, <1>3, ReplaceNested DEF Under
<1>5. Last(Append(Front(s), f)) = f /\ Base(Append(Front(s), f)) = Under(s)
  BY <1>1, <1>2, BaseReplaced
<1>6. Masked(Append(Front(s), f), w, m, t, g)
  BY <1>2, <1>4, <1>5 DEF Masked
<1>7. Nested(Front(s), w) /\ Last(Front(s)) = Under(s) /\ Base(Front(s)) = Under(s)
  BY <1>2, PopNested, BasePopped
<1>8. Masked(Front(s), w, m, t, TRUE)
  BY <1>2, <1>7 DEF Masked
<1> QED
  BY <1>6, <1>8 DEF f

LEMMA ExtClaimMasked ==
    ASSUME NEW s \in Seq(Frames), NEW w, NEW m, NEW t, NEW g, Masked(s, w, m, t, g),
           Last(s).kind = "ext", Last(s).at = "claim",
           NEW f \in Frames, f.kind = "ext", f.at = "running", f.mie = Last(s).mie, f.thr = t,
           f.op.name = "none"
    PROVE  Masked(Append(Front(s), f), w, m \ {"timer", "soft"}, PriorityOf(f.src), TRUE)
<1>1. /\ Nested(s, w) /\ Base(s) = Under(s) /\ m = w \ MaskOf(Under(s)) /\ t = LevelOf(Under(s))
      /\ Len(s) > 1 /\ OnTop(Under(s), Last(s), w)
  BY Shape DEF Masked, Base, Entering
<1>2. PointFits(f) /\ OnTop(Under(s), f, w)
  BY <1>1 DEF PointFits, OnTop, Active
<1>3. Nested(Append(Front(s), f), w)
  BY <1>1, <1>2, ReplaceNested DEF Under
<1>4. ~Entering(f) /\ MaskOf(f) = {"timer", "soft"} /\ LevelOf(f) = PriorityOf(f.src)
  BY DEF Entering, Active, MaskOf, LevelOf
<1>5. Last(Append(Front(s), f)) = f /\ Base(Append(Front(s), f)) = f
  BY <1>1, <1>4, BaseReplaced
<1>6. MaskOf(Under(s)) \subseteq {"timer", "soft"}
  BY DEF MaskOf
<1>7. m \ {"timer", "soft"} = w \ {"timer", "soft"}
  BY <1>1, <1>6
<1> QED
  BY <1>3, <1>4, <1>5, <1>7 DEF Masked

LEMMA ExtReturnMasked ==
    ASSUME NEW s \in Seq(Frames), NEW w, NEW m, NEW t, NEW g, Masked(s, w, m, t, g),
           Last(s).kind = "ext", Last(s).at = "done"
    PROVE  Masked(Front(s), w, Last(s).mie, Last(s).thr, TRUE)
<1>1. Nested(s, w) /\ Len(s) > 1 /\ ~Entering(Under(s)) /\ OnTop(Under(s), Last(s), w)
  BY Shape DEF Masked
<1>2. Last(s).mie = w \ MaskOf(Under(s)) /\ Last(s).thr = LevelOf(Under(s))
  BY <1>1 DEF OnTop, Active
<1>3. Nested(Front(s), w) /\ Last(Front(s)) = Under(s) /\ Base(Front(s)) = Under(s)
  BY <1>1, PopNested, BasePopped
<1> QED
  BY <1>1, <1>2, <1>3 DEF Masked

(* With timer or software interrupts enabled, no such frame is active.     *)
LEMMA Unmasked ==
    ASSUME NEW s \in Seq(Frames), NEW w, NEW m, NEW t, Masked(s, w, m, t, TRUE)
    PROVE  /\ ~Entering(Last(s)) /\ Base(s) = Last(s)
           /\ "timer" \in m => Last(s).kind \in {"main", "soft"}
           /\ "soft" \in m => Last(s).kind = "main" /\ "soft" \in w
<1>1. Nested(s, w) /\ ~Entering(Last(s)) /\ Base(s) = Last(s) /\ m = w \ MaskOf(Last(s))
  BY DEF Masked, Base
<1>2. Last(s).kind \in {"ext", "timer", "soft", "main"} /\ PointFits(Last(s))
  BY <1>1, Shape, FrameParts DEF Bits
<1>3. Last(s).kind = "ext" => Active(Last(s))
  BY <1>1, <1>2 DEF PointFits, Entering, Active
<1>4. Last(s).kind \in {"ext", "timer"} => MaskOf(Last(s)) = {"timer", "soft"}
  BY <1>3 DEF MaskOf
<1>5. Last(s).kind = "soft" => MaskOf(Last(s)) = {"soft"}
  BY DEF MaskOf, Active
<1> QED
  BY <1>1, <1>2, <1>4, <1>5

LEMMA TimerTrapMasked ==
    ASSUME NEW s \in Seq(Frames), NEW w, NEW m \in SUBSET Bits, NEW t, Masked(s, w, m, t, TRUE), "timer" \in m
    PROVE  Masked(Append(s, Frame("timer", "running", m)), w, m \ {"timer", "soft"}, t, TRUE)
<1> DEFINE f == Frame("timer", "running", m)
<1>1. f \in Frames /\ f.kind = "timer" /\ f.at = "running" /\ f.op.name = "none" /\ f.mie = m
  BY FrameType, OpType DEF Bits
<1> HIDE DEF f
<1>2. /\ Nested(s, w) /\ ~Entering(Last(s)) /\ Last(s).kind \in {"main", "soft"}
      /\ m = w \ MaskOf(Last(s)) /\ t = LevelOf(Last(s))
  BY Unmasked DEF Masked
<1>3. PointFits(f) /\ OnTop(Last(s), f, w) /\ Ordered(Last(s), f)
  BY <1>1, <1>2 DEF PointFits, OnTop, Active, Ordered, Rank
<1>4. Nested(Append(s, f), w)
  BY <1>1, <1>2, <1>3, PushNested
<1>5. ~Entering(f) /\ MaskOf(f) = {"timer", "soft"} /\ LevelOf(f) = 0 /\ t = 0
  BY <1>1, <1>2 DEF Entering, MaskOf, LevelOf, Active
<1>6. Last(Append(s, f)) = f /\ Base(Append(s, f)) = f
  BY <1>1, <1>2, <1>5, BasePushed
<1>7. MaskOf(Last(s)) \subseteq {"timer", "soft"}
  BY DEF MaskOf
<1>8. m \ {"timer", "soft"} = w \ {"timer", "soft"}
  BY <1>2, <1>7
<1>9. Masked(Append(s, f), w, m \ {"timer", "soft"}, t, TRUE)
  BY <1>4, <1>5, <1>6, <1>8 DEF Masked
<1> QED
  BY <1>9 DEF f

(* A timer frame has only main and software frames below it, which keep    *)
(* nothing of the timer bit.                                               *)
LEMMA TimerReturnMasked ==
    ASSUME NEW s \in Seq(Frames), NEW w, NEW m, NEW t, NEW g, Masked(s, w, m, t, g),
           Last(s).kind = "timer"
    PROVE  /\ Masked(Front(s), w, Last(s).mie, t, TRUE)
           /\ Masked(Front(s), w \ {"timer"}, Last(s).mie \ {"timer"}, t, TRUE)
<1>1. /\ Nested(s, w) /\ Len(s) > 1 /\ ~Entering(Under(s)) /\ OnTop(Under(s), Last(s), w)
      /\ Ordered(Under(s), Last(s)) /\ Under(s) \in Frames
  BY Shape DEF Masked
<1>2. Last(s).mie = w \ MaskOf(Under(s))
  BY <1>1 DEF OnTop
<1>3. Under(s).kind \in {"main", "soft"}
  BY <1>1, FrameParts DEF Ordered, Rank, Bits
<1>4. t = 0 /\ LevelOf(Under(s)) = 0
  BY <1>3 DEF Masked, Base, Entering, LevelOf, Active
<1>5. Nested(Front(s), w) /\ Last(Front(s)) = Under(s) /\ Base(Front(s)) = Under(s)
  BY <1>1, PopNested, BasePopped
<1>6. Nested(Front(s), w \ {"timer"})
  <2> DEFINE k == Len(s)
             r == Front(s)
  <2>1. k \in Nat /\ Len(r) = k - 1 /\ \A i \in 1 .. (k - 1) : r[i] = s[i] /\ s[i] \in Frames
    BY <1>1, Shape, PopSeq
  <2>2. \A i \in 1 .. (k - 1) : Ordered(s[i], s[k])
    <3>1. k \in 1 .. k
      BY <1>1, Shape
    <3> QED
      BY <2>1, <3>1, <1>1 DEF Nested
  <2>3. s[k] = Last(s)
    BY <1>1, Shape
  <2> HIDE DEF r, k
  <2>4. \A i \in 1 .. (k - 1) : r[i].kind \in {"main", "soft"}
    BY <2>1, <2>2, <2>3, FrameParts DEF Ordered, Rank, Bits
  <2>5. \A i \in 2 .. Len(r) : OnTop(r[i - 1], r[i], w) => OnTop(r[i - 1], r[i], w \ {"timer"})
    BY <2>1, <2>4 DEF OnTop, Active
  <2> QED
    BY <1>5, <2>5 DEF Nested, r
<1>7. (w \ MaskOf(Under(s))) \ {"timer"} = (w \ {"timer"}) \ MaskOf(Under(s))
  OBVIOUS
<1> QED
  BY <1>1, <1>2, <1>4, <1>5, <1>6, <1>7 DEF Masked

LEMMA SoftTrapMasked ==
    ASSUME NEW s \in Seq(Frames), NEW w, NEW m, NEW t, Masked(s, w, m, t, TRUE), "soft" \in m
    PROVE  Masked(Append(s, Frame("soft", "clear", {})), w, m \ {"soft"}, t, TRUE)
<1> DEFINE f == Frame("soft", "clear", {})
<1>1. f \in Frames /\ f.kind = "soft" /\ f.at = "clear" /\ f.op.name = "none"
  BY FrameType, OpType DEF Bits
<1> HIDE DEF f
<1>2. /\ Nested(s, w) /\ ~Entering(Last(s)) /\ Last(s).kind = "main" /\ "soft" \in w
      /\ m = w \ MaskOf(Last(s)) /\ t = LevelOf(Last(s))
  BY Unmasked DEF Masked
<1>3. PointFits(f) /\ OnTop(Last(s), f, w) /\ Ordered(Last(s), f)
  BY <1>1, <1>2 DEF PointFits, OnTop, Active, Ordered, Rank
<1>4. Nested(Append(s, f), w)
  BY <1>1, <1>2, <1>3, PushNested
<1>5. ~Entering(f) /\ MaskOf(f) = {"soft"} /\ LevelOf(f) = 0 /\ t = 0 /\ MaskOf(Last(s)) = {}
  BY <1>1, <1>2 DEF Entering, MaskOf, LevelOf, Active
<1>6. Last(Append(s, f)) = f /\ Base(Append(s, f)) = f
  BY <1>1, <1>2, <1>5, BasePushed
<1>7. m \ {"soft"} = w \ {"soft"}
  BY <1>2, <1>5
<1>8. Masked(Append(s, f), w, m \ {"soft"}, t, TRUE)
  BY <1>4, <1>5, <1>6, <1>7 DEF Masked
<1> QED
  BY <1>8 DEF f

LEMMA SoftMretMasked ==
    ASSUME NEW s \in Seq(Frames), NEW w, NEW m, NEW t, NEW g, Masked(s, w, m, t, g),
           Last(s).kind = "soft"
    PROVE  Masked(Front(s), w, m \cup {"soft"}, t, TRUE)
<1>1. /\ Nested(s, w) /\ Len(s) > 1 /\ ~Entering(Under(s)) /\ OnTop(Under(s), Last(s), w)
      /\ Ordered(Under(s), Last(s)) /\ Under(s) \in Frames
  BY Shape DEF Masked
<1>2. Under(s).kind = "main" /\ "soft" \in w
  BY <1>1, FrameParts DEF Ordered, Rank, OnTop, Bits
<1>3. t = 0 /\ m = w \ {"soft"}
  BY DEF Masked, Base, Entering, LevelOf, MaskOf, Active
<1>4. LevelOf(Under(s)) = 0 /\ MaskOf(Under(s)) = {}
  BY <1>2 DEF LevelOf, MaskOf, Active
<1>5. Nested(Front(s), w) /\ Last(Front(s)) = Under(s) /\ Base(Front(s)) = Under(s)
  BY <1>1, PopNested, BasePopped
<1>6. m \cup {"soft"} = w \ MaskOf(Base(Front(s)))
  BY <1>2, <1>3, <1>4, <1>5
<1>7. t = LevelOf(Base(Front(s))) /\ (Entering(Last(Front(s))) => ~TRUE)
  BY <1>1, <1>3, <1>4, <1>5
<1> QED
  BY <1>5, <1>6, <1>7 DEF Masked

(* What main asks for, it has. *)
LEMMA AskMasked ==
    ASSUME NEW s \in Seq(Frames), NEW w, NEW m, NEW t, NEW g, Masked(s, w, m, t, g),
           Last(s).kind = "main", NEW v, NEW h
    PROVE  m = w /\ Masked(s, v, v, t, h)
<1>1. Nested(s, w) /\ Nested(s, v) /\ ~Entering(Last(s)) /\ Base(s) = Last(s)
  BY AskNested DEF Masked, Base, Entering
<1>2. MaskOf(Last(s)) = {}
  BY DEF MaskOf, Active
<1> QED
  BY <1>1, <1>2 DEF Masked

(* A step of hart c leaves the other harts' masks alone. *)
OthersKept(c) ==
    \A d \in Cores \ {c} :
        /\ stack'[d] = stack[d] /\ wanted'[d] = wanted[d] /\ mie'[d] = mie[d]
        /\ threshold'[d] = threshold[d] /\ mstatusMIE'[d] = mstatusMIE[d]

LEMMA OneHart ==
    ASSUME Masks, NEW c \in Cores, OthersKept(c),
           Masked(stack'[c], wanted'[c], mie'[c], threshold'[c], mstatusMIE'[c])
    PROVE  Masks'
<1> SUFFICES ASSUME NEW d \in Cores
             PROVE  Masked(stack'[d], wanted'[d], mie'[d], threshold'[d], mstatusMIE'[d])
  BY DEF Masks
<1>1. CASE d = c
  BY <1>1
<1>2. CASE d # c
  BY <1>2 DEF OthersKept, Masks
<1> QED
  BY <1>1, <1>2

LEMMA HartMasked ==
    ASSUME Types, Masks, NEW c \in Cores
    PROVE  /\ stack[c] \in Seq(Frames) /\ mie[c] \in SUBSET Bits /\ Top(c) = Last(stack[c])
           /\ Masked(stack[c], wanted[c], mie[c], threshold[c], mstatusMIE[c])
           /\ mstatusMIE[c] => Masked(stack[c], wanted[c], mie[c], threshold[c], TRUE)
<1>1. /\ stack[c] \in Seq(Frames) /\ mie[c] \in SUBSET Bits /\ Top(c) = Last(stack[c])
  BY TypesParts, TopIs DEF Registers
<1>2. Masked(stack[c], wanted[c], mie[c], threshold[c], mstatusMIE[c])
  BY DEF Masks
<1> QED
  BY <1>1, <1>2 DEF Masked

LEMMA TrapMasks ==
    ASSUME Types, Masks, NEW c \in Cores, ExtTrap(c) \/ TimerTrap(c) \/ SoftTrap(c)
    PROVE  Masks'
<1> DEFINE s == stack[c]
           w == wanted[c]
           m == mie[c]
           t == threshold[c]
<1>1. /\ s \in Seq(Frames) /\ m \in SUBSET Bits /\ mstatusMIE[c] /\ Masked(s, w, m, t, TRUE)
  BY HartMasked DEF ExtTrap, TimerTrap, SoftTrap
<1>2. Registers /\ wanted' = wanted /\ threshold' = threshold /\ \A d \in Cores \ {c} : stack'[d] = stack[d]
  BY TypesParts, TrapStack DEF ExtTrap, TimerTrap, SoftTrap, history, plicVars
<1>3. CASE ExtTrap(c)
  <2>1. Push(c, Frame("ext", "check", {})) /\ mie' = mie /\ mstatusMIE' = [mstatusMIE EXCEPT ![c] = FALSE]
    BY <1>3 DEF ExtTrap, SetMIE
  <2>2. stack'[c] = Append(s, Frame("ext", "check", {}))
    BY <2>1, TypesParts, FrameType, PushStep DEF Bits
  <2>3. mstatusMIE'[c] = FALSE /\ OthersKept(c)
    BY <1>2, <2>1 DEF Registers, OthersKept
  <2>4. Masked(stack'[c], wanted'[c], mie'[c], threshold'[c], FALSE)
    BY <1>1, <1>2, <2>1, <2>2, ExtTrapMasked
  <2> QED
    BY <2>3, <2>4, OneHart
<1>4. CASE TimerTrap(c)
  <2>1. Push(c, Frame("timer", "running", m)) /\ mie' = [mie EXCEPT ![c] = mie[c] \ {"timer", "soft"}]
        /\ mstatusMIE' = mstatusMIE /\ "timer" \in m
    BY <1>2, <1>4 DEF TimerTrap, MaskNested, TimerPending, Registers
  <2>2. stack'[c] = Append(s, Frame("timer", "running", m))
    BY <1>1, <2>1, TypesParts, FrameType, PushStep DEF Bits
  <2>3. mstatusMIE'[c] = mstatusMIE[c] /\ mie'[c] = m \ {"timer", "soft"} /\ OthersKept(c)
    BY <1>2, <2>1 DEF Registers, OthersKept
  <2>4. Masked(Append(s, Frame("timer", "running", m)), w, m \ {"timer", "soft"}, t, TRUE)
    BY <1>1, <2>1, TimerTrapMasked
  <2>5. mstatusMIE'[c] = TRUE
    BY <1>1, <1>2, <2>3 DEF Registers
  <2> QED
    BY <1>2, <2>2, <2>3, <2>4, <2>5, OneHart
<1>5. CASE SoftTrap(c)
  <2>1. Push(c, Frame("soft", "clear", {})) /\ mie' = [mie EXCEPT ![c] = mie[c] \ {"soft"}]
        /\ mstatusMIE' = mstatusMIE /\ "soft" \in m
    BY <1>2, <1>5 DEF SoftTrap, SoftPending, Registers
  <2>2. stack'[c] = Append(s, Frame("soft", "clear", {}))
    BY <2>1, TypesParts, FrameType, PushStep DEF Bits
  <2>3. mstatusMIE'[c] = mstatusMIE[c] /\ mie'[c] = m \ {"soft"} /\ OthersKept(c)
    BY <1>2, <2>1 DEF Registers, OthersKept
  <2>4. Masked(Append(s, Frame("soft", "clear", {})), w, m \ {"soft"}, t, TRUE)
    BY <1>1, <2>1, SoftTrapMasked
  <2>5. mstatusMIE'[c] = TRUE
    BY <1>1, <1>2, <2>3 DEF Registers
  <2> QED
    BY <1>2, <2>2, <2>3, <2>4, <2>5, OneHart
<1> QED
  BY <1>3, <1>4, <1>5

LEMMA ReturnMasks ==
    ASSUME Types, Masks, NEW c \in Cores, ExtReturn(c) \/ TimerReturn(c) \/ SoftReturn(c)
    PROVE  Masks'
<1> DEFINE s == stack[c]
           w == wanted[c]
           m == mie[c]
           t == threshold[c]
<1>1. /\ s \in Seq(Frames) /\ Top(c) = Last(s) /\ Masked(s, w, m, t, mstatusMIE[c])
  BY HartMasked
<1>2. Registers /\ Mret(c) /\ stack'[c] = Front(s) /\ \A d \in Cores \ {c} : stack'[d] = stack[d]
  BY TypesParts, ReturnStack DEF ExtReturn, TimerReturn, SoftReturn, In, Bits
<1>3. mstatusMIE'[c] = TRUE /\ \A d \in Cores \ {c} : mstatusMIE'[d] = mstatusMIE[d]
  BY <1>2 DEF Mret, SetMIE, Registers
<1>4. CASE ExtReturn(c)
  <2>1. /\ mie' = [mie EXCEPT ![c] = Top(c).mie] /\ threshold' = [threshold EXCEPT ![c] = Top(c).thr]
        /\ wanted' = wanted /\ Top(c).kind = "ext" /\ Top(c).at = "done"
    BY <1>4 DEF ExtReturn, RestoreThreshold, history, In
  <2>2. mie'[c] = Top(c).mie /\ threshold'[c] = Top(c).thr /\ wanted'[c] = w /\ OthersKept(c)
    BY <1>2, <1>3, <2>1 DEF Registers, OthersKept
  <2>3. Masked(Front(s), w, Last(s).mie, Last(s).thr, TRUE)
    BY <1>1, <2>1, ExtReturnMasked
  <2> QED
    BY <1>1, <1>2, <1>3, <2>2, <2>3, OneHart
<1>5. CASE TimerReturn(c)
  <2>1. Top(c).kind = "timer" /\ threshold' = threshold /\ mie' = [mie EXCEPT ![c] = MieAfterTimer(c)]
    BY <1>5 DEF TimerReturn, In, plicVars
  <2>2. /\ Masked(Front(s), w, Last(s).mie, t, TRUE)
        /\ Masked(Front(s), w \ {"timer"}, Last(s).mie \ {"timer"}, t, TRUE)
    BY <1>1, <2>1, TimerReturnMasked
  <2>3. mie'[c] = MieAfterTimer(c) /\ threshold'[c] = t /\ \A d \in Cores \ {c} : mie'[d] = mie[d]
    BY <1>2, <2>1 DEF Registers
  <2>4. CASE repeat[c]
    <3>1. wanted' = wanted /\ mie'[c] = Last(s).mie
      BY <1>1, <1>5, <2>3, <2>4 DEF TimerReturn, MieAfterTimer
    <3>2. OthersKept(c)
      BY <1>2, <1>3, <2>1, <2>3, <3>1 DEF OthersKept
    <3> QED
      BY <1>2, <1>3, <2>2, <2>3, <3>1, <3>2, OneHart
  <2>5. CASE ~repeat[c]
    <3>1. wanted' = [wanted EXCEPT ![c] = wanted[c] \ {"timer"}] /\ mie'[c] = Last(s).mie \ {"timer"}
      BY <1>1, <1>2, <1>5, <2>3, <2>5 DEF TimerReturn, MieAfterTimer, Registers
    <3>2. wanted'[c] = w \ {"timer"} /\ OthersKept(c)
      BY <1>2, <1>3, <2>1, <2>3, <3>1 DEF OthersKept, Registers
    <3> QED
      BY <1>2, <1>3, <2>2, <2>3, <3>1, <3>2, OneHart
  <2> QED
    BY <2>4, <2>5
<1>6. CASE SoftReturn(c)
  <2>1. Top(c).kind = "soft" /\ threshold' = threshold /\ wanted' = wanted
        /\ mie' = [mie EXCEPT ![c] = mie[c] \cup {"soft"}]
    BY <1>2, <1>6 DEF SoftReturn, In, plicVars, history, Registers
  <2>2. mie'[c] = m \cup {"soft"} /\ threshold'[c] = t /\ wanted'[c] = w /\ OthersKept(c)
    BY <1>2, <1>3, <2>1 DEF Registers, OthersKept
  <2>3. Masked(Front(s), w, m \cup {"soft"}, t, TRUE)
    BY <1>1, <2>1, SoftMretMasked
  <2> QED
    BY <1>2, <1>3, <2>2, <2>3, OneHart
<1> QED
  BY <1>4, <1>5, <1>6

LEMMA ExtCheckMasks ==
    ASSUME Types, Masks, NEW c \in Cores, ExtCheck(c)
    PROVE  Masks'
<1> DEFINE s == stack[c]
           w == wanted[c]
           m == mie[c]
           t == threshold[c]
<1>1. /\ s \in Seq(Frames) /\ m \in SUBSET Bits /\ Top(c) = Last(s) /\ Masked(s, w, m, t, mstatusMIE[c])
      /\ Top(c).kind = "ext" /\ Top(c).at = "check" /\ Registers
      /\ mie' = mie /\ threshold' = threshold /\ wanted' = wanted
  BY HartMasked, TypesParts DEF ExtCheck, In, plicVars, history
<1>2. /\ Masked(Append(Front(s), Frame("ext", "claim", m)), w, m, t, mstatusMIE[c])
      /\ Masked(Front(s), w, m, t, TRUE)
  BY <1>1, ExtCheckMasked
<1>3. CASE MEIP(c)
  <2>1. Replace(c, Frame("ext", "claim", m)) /\ mstatusMIE' = mstatusMIE
    BY <1>3 DEF ExtCheck
  <2>2. stack'[c] = Append(Front(s), Frame("ext", "claim", m)) /\ OthersKept(c)
    BY <1>1, <2>1, GoOnFrames, GoOnStack DEF OthersKept
  <2> QED
    BY <1>1, <1>2, <2>1, <2>2, OneHart
<1>4. CASE ~MEIP(c)
  <2>1. Mret(c)
    BY <1>4 DEF ExtCheck
  <2>2. stack'[c] = Front(s) /\ \A d \in Cores \ {c} : stack'[d] = stack[d]
    BY <1>1, <2>1, ReturnStack DEF Bits
  <2>3. mstatusMIE'[c] = TRUE /\ OthersKept(c)
    BY <1>1, <2>1, <2>2 DEF Mret, SetMIE, Registers, OthersKept
  <2> QED
    BY <1>1, <1>2, <2>2, <2>3, OneHart
<1> QED
  BY <1>3, <1>4

LEMMA ExtClaimMasks ==
    ASSUME Types, Masks, NEW c \in Cores, ExtClaim(c)
    PROVE  Masks'
<1> DEFINE s == stack[c]
           w == wanted[c]
           m == mie[c]
           t == threshold[c]
<1>1. /\ s \in Seq(Frames) /\ Top(c) = Last(s) /\ Masked(s, w, m, t, mstatusMIE[c])
      /\ Top(c).kind = "ext" /\ Top(c).at = "claim" /\ Top(c).op = NoOp /\ Registers /\ wanted' = wanted
      /\ mie' = [mie EXCEPT ![c] = mie[c] \ {"timer", "soft"}]
      /\ mstatusMIE' = [mstatusMIE EXCEPT ![c] = TRUE]
  BY HartMasked, TypesParts DEF ExtClaim, In, history, MaskNested, SetMIE, Registers
<1>2. PICK a \in Claimable(c) :
        /\ RaiseThreshold(c, a)
        /\ Replace(c, [Top(c) EXCEPT !.at = "running", !.src = a, !.thr = threshold[c]])
  BY DEF ExtClaim
<1> DEFINE f == [Top(c) EXCEPT !.at = "running", !.src = a, !.thr = threshold[c]]
<1>3. f \in Frames /\ Replace(c, f) /\ f.kind = Top(c).kind
  BY <1>2, ClaimableType, GoOnFrames
<1>4. f.at = "running" /\ f.src = a /\ f.thr = t /\ f.mie = Top(c).mie /\ f.op = Top(c).op
  <2> DEFINE b == Top(c)
  <2>1. b \in Frames
    BY GoOnFrames
  <2> HIDE DEF b, t
  <2>2. /\ [b EXCEPT !.at = "running", !.src = a, !.thr = t].at = "running"
        /\ [b EXCEPT !.at = "running", !.src = a, !.thr = t].src = a
        /\ [b EXCEPT !.at = "running", !.src = a, !.thr = t].thr = t
        /\ [b EXCEPT !.at = "running", !.src = a, !.thr = t].mie = b.mie
        /\ [b EXCEPT !.at = "running", !.src = a, !.thr = t].op = b.op
    BY <2>1 DEF Frames
  <2> QED
    BY <2>2 DEF b, t
<1> HIDE DEF f
<1>5. stack'[c] = Append(Front(s), f) /\ \A d \in Cores \ {c} : stack'[d] = stack[d]
  BY <1>3, GoOnStack
<1>6. threshold'[c] = PriorityOf(f.src) /\ \A d \in Cores \ {c} : threshold'[d] = threshold[d]
  BY <1>1, <1>2, <1>4 DEF RaiseThreshold, Registers
<1>7. mie'[c] = m \ {"timer", "soft"} /\ mstatusMIE'[c] = TRUE /\ OthersKept(c)
  BY <1>1, <1>5, <1>6 DEF OthersKept, Registers
<1>8. Masked(Append(Front(s), f), w, m \ {"timer", "soft"}, PriorityOf(f.src), TRUE)
  BY <1>1, <1>3, <1>4, OpType, ExtClaimMasked
<1> QED
  BY <1>1, <1>5, <1>6, <1>7, <1>8, OneHart

(* Steps of a handler or a call that move its frame on. *)
LEMMA GoOnMasks ==
    ASSUME Types, Masks, NEW c \in Cores, NEW f \in Frames, Replace(c, f),
           PointFits(f), f.kind = Top(c).kind, f.mie = Top(c).mie, f.thr = Top(c).thr, f.src = Top(c).src,
           Active(f) <=> Active(Top(c)), ~Entering(f), ~Entering(Top(c)),
           wanted' = wanted, mie' = mie, threshold' = threshold, mstatusMIE' = mstatusMIE
    PROVE  Masks'
<1>1. /\ stack[c] \in Seq(Frames) /\ Top(c) = Last(stack[c])
      /\ Masked(stack[c], wanted[c], mie[c], threshold[c], mstatusMIE[c])
  BY HartMasked
<1>2. stack'[c] = Append(Front(stack[c]), f) /\ OthersKept(c)
  BY GoOnStack DEF OthersKept
<1>3. Masked(Append(Front(stack[c]), f), wanted[c], mie[c], threshold[c], mstatusMIE[c])
  BY <1>1, GoOnMasked
<1> QED
  BY <1>2, <1>3, OneHart

LEMMA TopFits ==
    ASSUME Types, Masks, NEW c \in Cores
    PROVE  Top(c) \in Frames /\ PointFits(Top(c))
<1>1. stack[c] \in Seq(Frames) /\ Top(c) = Last(stack[c]) /\ Nested(stack[c], wanted[c])
  BY HartMasked DEF Masked
<1> QED
  BY <1>1, Shape

LEMMA HandlerMasks ==
    ASSUME Types, Masks, NEW c \in Cores, ExtComplete(c) \/ SoftClear(c) \/ SoftCall(c)
    PROVE  Masks'
<1>1. Top(c) \in Frames /\ PointFits(Top(c))
  BY TopFits
<1>2. /\ wanted' = wanted /\ mie' = mie /\ threshold' = threshold /\ mstatusMIE' = mstatusMIE
  BY DEF ExtComplete, SoftClear, SoftCall, plicVars, history
<1>3. PICK p \in {"done", "call", "running"} :
        /\ Replace(c, [Top(c) EXCEPT !.at = p])
        /\ \/ p = "done" /\ In(c, "ext", "running")
           \/ p \in {"call", "running"} /\ Top(c).kind = "soft"
        /\ Top(c).op = NoOp
  BY DEF ExtComplete, SoftClear, SoftCall, In
<1> DEFINE b == Top(c)
           f == [b EXCEPT !.at = p]
<1>4. b \in Frames /\ PointFits(b)
  BY <1>1
<1> HIDE DEF b
<1>5. /\ f \in Frames /\ f.at = p /\ f.kind = b.kind /\ f.mie = b.mie /\ f.thr = b.thr /\ f.src = b.src
      /\ f.op = b.op
  BY <1>4 DEF Frames
<1> HIDE DEF f
<1>6. PointFits(f) /\ (Active(f) <=> Active(b)) /\ ~Entering(f) /\ ~Entering(b)
  BY <1>3, <1>4, <1>5, OpType DEF PointFits, Active, Entering, In, b
<1>7. Replace(c, f)
  BY <1>3 DEF f, b
<1> QED
  BY <1>2, <1>5, <1>6, <1>7, GoOnMasks DEF b

LEMMA OpMasks ==
    ASSUME Types, Masks, NEW c \in Cores, NEW o \in Ops, Replace(c, [Top(c) EXCEPT !.op = o]),
           Top(c).at = "running", o.name = "timer_start" => Top(c).kind = "main",
           wanted' = wanted, mie' = mie, threshold' = threshold, mstatusMIE' = mstatusMIE
    PROVE  Masks'
<1> DEFINE b == Top(c)
           f == [b EXCEPT !.op = o]
<1>1. b \in Frames /\ PointFits(b) /\ b.at = "running" /\ (o.name = "timer_start" => b.kind = "main")
  BY TopFits
<1>2. Replace(c, f)
  OBVIOUS
<1> HIDE DEF b
<1>3. /\ f \in Frames /\ f.at = b.at /\ f.kind = b.kind /\ f.mie = b.mie /\ f.thr = b.thr /\ f.src = b.src
      /\ f.op = o
  BY <1>1 DEF Frames
<1> HIDE DEF f
<1>4. PointFits(f) /\ (Active(f) <=> Active(b)) /\ ~Entering(f) /\ ~Entering(b)
  BY <1>1, <1>3 DEF PointFits, Active, Entering
<1> QED
  BY <1>2, <1>3, <1>4, GoOnMasks DEF b

(* What main asks for, with its own frame kept or replaced.                *)
LEMMA AskMasks ==
    ASSUME Types, Masks, NEW c \in Cores, Top(c).kind = "main", threshold' = threshold, stack' = stack,
           NEW v, NEW h,
           wanted' = [wanted EXCEPT ![c] = v], mie' = [mie EXCEPT ![c] = v],
           mstatusMIE' = [mstatusMIE EXCEPT ![c] = h]
    PROVE  Masks'
<1>1. /\ stack[c] \in Seq(Frames) /\ Last(stack[c]).kind = "main" /\ Registers
      /\ Masked(stack[c], wanted[c], mie[c], threshold[c], mstatusMIE[c])
  BY HartMasked, TypesParts
<1>2. wanted'[c] = v /\ mie'[c] = v /\ mstatusMIE'[c] = h /\ OthersKept(c)
  BY <1>1 DEF Registers, OthersKept
<1> QED
  BY <1>1, <1>2, AskMasked, OneHart

LEMMA MainMasks ==
    ASSUME Types, Masks, NEW c \in Cores, Top(c).kind = "main" PROVE wanted[c] = mie[c]
BY HartMasked, AskMasked

(* A callback makes none of the calls that set mie. *)
LEMMA MainCallMasks ==
    ASSUME Types, Masks, QuietCallbacks, NEW c \in Cores,
           IpiEnable(c) \/ IpiDisable(c) \/ TimerStop(c) \/ DisableIrq(c) \/ EnableIrq(c)
    PROVE  Masks'
<1>1. Registers /\ stack' = stack /\ threshold' = threshold
  BY TypesParts DEF IpiEnable, IpiDisable, TimerStop, DisableIrq, EnableIrq, plicVars
<1>2. Top(c).kind = "main"
  BY DEF IpiEnable, IpiDisable, TimerStop, DisableIrq, EnableIrq, CanCall, QuietCallbacks
<1>3. wanted[c] = mie[c]
  BY <1>2, MainMasks
<1>4. mstatusMIE = [mstatusMIE EXCEPT ![c] = mstatusMIE[c]]
  BY <1>1 DEF Registers
<1>5. CASE IpiEnable(c) \/ EnableIrq(c) \/ DisableIrq(c)
  <2>1. PICK h \in BOOLEAN, v \in SUBSET Bits :
          /\ wanted' = [wanted EXCEPT ![c] = v] /\ mie' = [mie EXCEPT ![c] = v]
          /\ mstatusMIE' = [mstatusMIE EXCEPT ![c] = h]
    <3>1. mie[c] \cup {"soft"} \in SUBSET Bits /\ mie[c] \cup {"ext"} \in SUBSET Bits
          /\ mie[c] \ {"ext"} \in SUBSET Bits
      BY <1>1 DEF Registers, Bits
    <3>2. CASE IpiEnable(c)
      BY <1>1, <1>3, <3>1, <3>2 DEF IpiEnable, SetMIE, Registers
    <3>3. CASE EnableIrq(c)
      BY <1>1, <1>3, <3>1, <3>3 DEF EnableIrq, SetMIE, Registers
    <3>4. CASE DisableIrq(c)
      BY <1>1, <1>3, <3>1, <3>4 DEF DisableIrq, SetMIE, Registers
    <3> QED
      BY <1>5, <3>2, <3>3, <3>4
  <2> QED
    BY <1>1, <1>2, <2>1, AskMasks
<1>6. CASE IpiDisable(c) \/ TimerStop(c)
  <2>1. PICK v \in SUBSET Bits :
          /\ wanted' = [wanted EXCEPT ![c] = v] /\ mie' = [mie EXCEPT ![c] = v]
          /\ mstatusMIE' = [mstatusMIE EXCEPT ![c] = mstatusMIE[c]]
    <3>1. mie[c] \ {"soft"} \in SUBSET Bits /\ mie[c] \ {"timer"} \in SUBSET Bits
      BY <1>1 DEF Registers
    <3>2. CASE IpiDisable(c)
      BY <1>1, <1>3, <1>4, <3>1, <3>2 DEF IpiDisable, Registers
    <3>3. CASE TimerStop(c)
      BY <1>1, <1>3, <1>4, <3>1, <3>3 DEF TimerStop, Registers
    <3> QED
      BY <1>6, <3>2, <3>3
  <2> QED
    BY <1>1, <1>2, <2>1, AskMasks
<1> QED
  BY <1>5, <1>6

LEMMA QuietMasks ==
    ASSUME Masks, \/ UNCHANGED vars \/ \E s \in Sources : Raise(s)
                  \/ \E c \in Cores : Expire(c) \/ \E d \in Cores : IpiSend(c, d)
    PROVE  Masks'
<1>1. /\ stack' = stack /\ wanted' = wanted /\ mie' = mie /\ threshold' = threshold
      /\ mstatusMIE' = mstatusMIE
  BY DEF vars, Raise, Expire, IpiSend, coreVars, plicVars, history
<1> QED
  BY <1>1 DEF Masks

LEMMA BeginMasks ==
    ASSUME Types, Masks, QuietCallbacks, NEW c \in Cores,
           \/ \E b \in BOOLEAN : TimerStart(c, b)
           \/ \E s \in Sources, name \in Calls : PlicRead(c, s, name)
    PROVE  Masks'
<1>1. Registers /\ wanted' = wanted /\ mie' = mie /\ threshold' = threshold /\ mstatusMIE' = mstatusMIE
      /\ Top(c).at = "running"
  BY TypesParts DEF TimerStart, PlicRead, history, plicVars, CanCall
<1>2. CASE \E b \in BOOLEAN : TimerStart(c, b)
  <2> DEFINE o == [name |-> "timer_start", src |-> NoSource, current |-> {}]
  <2>1. o \in Ops /\ Top(c).kind = "main"
    BY <1>2, OpType DEF TimerStart, CanCall, QuietCallbacks
  <2>2. Replace(c, [Top(c) EXCEPT !.op = o])
    BY <1>2 DEF TimerStart, Begin
  <2> HIDE DEF o
  <2> QED
    BY <1>1, <2>1, <2>2, OpMasks
<1>3. CASE \E s \in Sources, name \in Calls : PlicRead(c, s, name)
  <2>1. PICK s \in Sources, name \in {"plic_enable", "plic_disable"} : PlicRead(c, s, name)
    BY <1>3 DEF PlicRead
  <2> DEFINE o == [name |-> name, src |-> s, current |-> enable[c]]
  <2>2. o \in Ops /\ o.name # "timer_start"
    BY <1>1, OpType DEF Registers
  <2>3. Replace(c, [Top(c) EXCEPT !.op = o])
    BY <2>1 DEF PlicRead, Begin
  <2> HIDE DEF o
  <2> QED
    BY <1>1, <2>2, <2>3, OpMasks
<1> QED
  BY <1>2, <1>3

LEMMA EndMasks ==
    ASSUME Types, Masks, NEW c \in Cores, TimerArm(c) \/ PlicWrite(c)
    PROVE  Masks'
<1>1. Registers /\ threshold' = threshold /\ Replace(c, [Top(c) EXCEPT !.op = NoOp])
  BY TypesParts DEF TimerArm, PlicWrite, Finish, plicVars
<1>2. Top(c).at = "running" /\ (TimerArm(c) => Top(c).kind = "main")
  BY TopFits DEF PointFits, TimerArm, PlicWrite
<1>3. CASE PlicWrite(c)
  <2>1. wanted' = wanted /\ mie' = mie /\ mstatusMIE' = mstatusMIE
    BY <1>3 DEF PlicWrite
  <2> QED
    BY <1>1, <1>2, <2>1, OpType, OpMasks
<1>4. CASE TimerArm(c)
  <2> DEFINE b == Top(c)
             f == [b EXCEPT !.op = NoOp]
             s == stack[c]
  <2>1. b \in Frames /\ PointFits(b) /\ b.at = "running" /\ b.kind = "main"
    BY <1>2, <1>4, TopFits
  <2>2. Replace(c, f) /\ b = Top(c)
    BY <1>1
  <2> HIDE DEF b
  <2>3. f \in Frames /\ f.at = b.at /\ f.kind = b.kind /\ f.mie = b.mie /\ f.op = NoOp
    BY <2>1, OpType DEF Frames
  <2> HIDE DEF f
  <2>4. PointFits(f) /\ ~Active(f) /\ ~Active(b) /\ ~Entering(f) /\ ~Entering(b)
    BY <2>1, <2>3, OpType DEF PointFits, Active, Entering
  <2>5. /\ s \in Seq(Frames) /\ b = Last(s) /\ wanted[c] = mie[c]
        /\ Masked(s, wanted[c], mie[c], threshold[c], mstatusMIE[c])
    BY <2>1, <2>2, HartMasked, MainMasks
  <2> DEFINE r == Append(Front(s), f)
             v == mie[c] \cup {"timer"}
  <2>6. Masked(r, wanted[c], mie[c], threshold[c], mstatusMIE[c])
    BY <2>1, <2>3, <2>4, <2>5, GoOnMasked
  <2>7. r \in Seq(Frames) /\ stack'[c] = r /\ \A d \in Cores \ {c} : stack'[d] = stack[d]
    BY <2>1, <2>2, <2>3, <2>5, TypesParts, TopIs, ReplaceSeq, GoOnStack
  <2>8. Last(r).kind = "main"
    <3>1. Last(r) = f
      BY <2>3, <2>5, BaseReplaced DEF Masked
    <3> QED
      BY <2>1, <2>3, <3>1
  <2> HIDE DEF r, v
  <2>9. Masked(r, v, v, threshold[c], TRUE)
    BY <2>6, <2>7, <2>8, AskMasked, ZenonT(30)
  <2>10. /\ mie' = [mie EXCEPT ![c] = v] /\ wanted' = [wanted EXCEPT ![c] = v]
         /\ mstatusMIE' = [mstatusMIE EXCEPT ![c] = TRUE]
    BY <1>1, <1>4, <2>5 DEF TimerArm, SetMIE, Registers, v
  <2>11. wanted'[c] = v /\ mie'[c] = v /\ mstatusMIE'[c] = TRUE /\ OthersKept(c)
    BY <1>1, <2>7, <2>10 DEF Registers, OthersKept
  <2> QED
    BY <1>1, <2>7, <2>9, <2>11, OneHart
<1> QED
  BY <1>3, <1>4

LEMMA InitMasks == Init => Masks
<1> SUFFICES ASSUME Init, NEW c \in Cores
             PROVE  Masked(stack[c], wanted[c], mie[c], threshold[c], mstatusMIE[c])
  BY DEF Masks
<1> DEFINE f == Frame("main", "running", {})
<1>1. f \in Frames /\ f.kind = "main" /\ f.at = "running" /\ f.op.name = "none"
  BY FrameType, OpType
<1>2. stack[c] = <<f>> /\ wanted[c] = StartMie /\ mie[c] = StartMie /\ threshold[c] = 0
  BY DEF Init
<1>3. Len(<<f>>) = 1 /\ <<f>>[1] = f /\ Last(<<f>>) = f
  BY DEF Last
<1> HIDE DEF f
<1>4. PointFits(f) /\ ~Entering(f) /\ MaskOf(f) = {} /\ LevelOf(f) = 0
  BY <1>1 DEF PointFits, Entering, MaskOf, LevelOf, Active
<1>5. Base(<<f>>) = f
  BY <1>3, <1>4 DEF Base
<1>6. Nested(<<f>>, StartMie)
  BY <1>1, <1>3, <1>4 DEF Nested
<1> QED
  BY <1>2, <1>3, <1>4, <1>5, <1>6 DEF Masked

LEMMA NextMasks == QuietCallbacks /\ Types /\ Masks /\ [Next]_vars => Masks'
<1> SUFFICES ASSUME QuietCallbacks, Types, Masks, [Next]_vars PROVE Masks'
  OBVIOUS
<1>1. ASSUME NEW c \in Cores, Handler(c) PROVE Masks'
  BY <1>1, TrapMasks, ExtCheckMasks, ExtClaimMasks, HandlerMasks, ReturnMasks DEF Handler
<1>2. ASSUME NEW c \in Cores, Call(c) PROVE Masks'
  <2>1. CASE (\E b \in BOOLEAN : TimerStart(c, b)) \/ (\E s \in Sources, name \in Calls : PlicRead(c, s, name))
    BY <2>1, BeginMasks
  <2>2. CASE IpiEnable(c) \/ IpiDisable(c) \/ TimerStop(c) \/ DisableIrq(c) \/ EnableIrq(c)
    BY <2>2, MainCallMasks
  <2>3. CASE \E d \in Cores : IpiSend(c, d)
    BY <2>3, QuietMasks
  <2> QED
    BY <1>2, <2>1, <2>2, <2>3 DEF Call
<1>3. ASSUME NEW c \in Cores, CallEnd(c) PROVE Masks'
  BY <1>3, EndMasks DEF CallEnd
<1> QED
  BY <1>1, <1>2, <1>3, QuietMasks DEF Next

(* Masks say how handlers nest, and what a hart is left with when the last *)
(* of them has returned.                                                   *)
LEMMA MasksNest == Types /\ Masks => NestingOrder
<1> SUFFICES ASSUME Types, Masks, NEW c \in Cores, NEW i \in 1 .. Len(stack[c]),
                    NEW j \in 1 .. Len(stack[c]), i < j
             PROVE  Ordered(stack[c][i], stack[c][j])
  BY DEF NestingOrder, Ordered
<1> QED
  BY HartMasked DEF Masked, Nested

LEMMA MasksRestored == Types /\ Masks => MaskRestored
<1> SUFFICES ASSUME Types, Masks, NEW c \in Cores, Len(stack[c]) = 1
             PROVE  threshold[c] = 0 /\ mie[c] = wanted[c]
  BY DEF MaskRestored
<1>1. /\ stack[c] \in Seq(Frames) /\ Nested(stack[c], wanted[c])
      /\ Masked(stack[c], wanted[c], mie[c], threshold[c], mstatusMIE[c])
  BY HartMasked DEF Masked
<1>2. Last(stack[c]).kind = "main"
  BY <1>1, Shape DEF Nested
<1>3. Base(stack[c]) = Last(stack[c]) /\ MaskOf(Last(stack[c])) = {} /\ LevelOf(Last(stack[c])) = 0
  BY <1>2 DEF Base, Entering, MaskOf, LevelOf, Active
<1> QED
  BY <1>1, <1>3 DEF Masked

(* However interrupts nest, a hart is in at most one software and one      *)
(* timer interrupt, the software one outermost, and neither on top of an   *)
(* external one (the masks of drivers/plic.c and drivers/clint.c), so long *)
(* as callbacks leave those masks alone.                                   *)
THEOREM NestingSafe ==
    ASSUME QuietCallbacks
    PROVE  Spec => []NestingOrder
<1>1. Types /\ Masks => NestingOrder
  BY MasksNest
<1>2. Init => Masks
  BY InitMasks
<1>3. Types /\ Masks /\ [Next]_vars => Masks'
  BY NextMasks
<1> QED
  BY <1>1, <1>2, <1>3, SpecTypes, PTL DEF Spec

(* A hart whose handlers have all returned has threshold 0 and the enables *)
(* main asked for, whatever nested in between.                             *)
THEOREM MaskSafe ==
    ASSUME QuietCallbacks
    PROVE  Spec => []MaskRestored
<1>1. Types /\ Masks => MaskRestored
  BY MasksRestored
<1>2. Init => Masks
  BY InitMasks
<1>3. Types /\ Masks /\ [Next]_vars => Masks'
  BY NextMasks
<1> QED
  BY <1>1, <1>2, <1>3, SpecTypes, PTL DEF Spec

-----------------------------------------------------------------------------
(* The priorities of a stack, with sources that no two harts share. *)

LEMMA Unshared ==
    ASSUME PrivateSources, Priorities, NEW c \in Cores, NEW d \in Cores, c # d
    PROVE  enable[c] \cap enable[d] = {}
<1>1. Several /\ Enabled[c] \cap Enabled[d] = {}
  BY DEF PrivateSources, Several
<1> QED
  BY <1>1 DEF Priorities, HartPrivate

(* A hart that does not step keeps what it traps for. *)
LEMMA OtherPriorities ==
    ASSUME Priorities, NEW d \in Cores, stack'[d] = stack[d], enable'[d] = enable[d],
           threshold'[d] = threshold[d], pending \cap enable[d] \subseteq pending'
    PROVE  HartPrivate(d)' /\ HartRising(d)'
<1>1. HartPrivate(d)'
  BY DEF Priorities, HartPrivate
<1>2. MEIP(d) => MEIP(d)'
  BY DEF MEIP, Offered
<1>3. In(d, "ext", "claim")' => In(d, "ext", "claim")
  BY DEF In, Top
<1> QED
  BY <1>1, <1>2, <1>3 DEF Priorities, HartRising

LEMMA PushPriorities ==
    ASSUME Types, Priorities, NEW c \in Cores, NEW f \in Frames, ~Active(f), f.op.name = "none",
           ~(f.kind = "ext" /\ f.at = "claim"), stack'[c] = Append(stack[c], f), enable'[c] = enable[c]
    PROVE  HartPrivate(c)' /\ HartRising(c)'
<1> DEFINE s == stack[c]
           r == stack'[c]
<1>1. s \in Seq(Frames) /\ Rising(s) /\ r = Append(s, f) /\ Len(s) > 0
  BY TypesParts, TopIs DEF Priorities, HartRising
<1>2. Rising(r)
  BY <1>1, PushRising
<1>3. /\ Len(s) \in Nat /\ Len(r) = Len(s) + 1 /\ r[Len(s) + 1] = f /\ \A i \in 1 .. Len(s) : r[i] = s[i]
  BY <1>1, PushSeq
<1>4. Top(c)' = f
  <2>1. Top(c)' = r[Len(r)]
    BY DEF Top, Last
  <2> QED
    BY <1>3, <2>1
<1>5. ~In(c, "ext", "claim")'
  BY <1>4 DEF In
<1>6. HartPrivate(c)'
  <2> SUFFICES ASSUME Several, NEW j \in 1 .. Len(r) PROVE KeepsTo(c, r[j].op)
    BY DEF HartPrivate, Priorities
  <2>1. j \in 1 .. Len(s) => KeepsTo(c, s[j].op)
    BY DEF HartPrivate, Priorities
  <2>2. KeepsTo(c, f.op)
    BY DEF KeepsTo
  <2> HIDE DEF s, r
  <2> QED
    BY <1>3, <2>1, <2>2
<1> QED
  BY <1>2, <1>5, <1>6 DEF HartRising

LEMMA PopPriorities ==
    ASSUME Types, Masks, Priorities, NEW c \in Cores, Top(c).kind # "main",
           stack'[c] = Front(stack[c]), enable'[c] = enable[c]
    PROVE  HartPrivate(c)' /\ HartRising(c)'
<1> DEFINE s == stack[c]
           r == stack'[c]
<1>1. s \in Seq(Frames) /\ Rising(s) /\ r = Front(s) /\ Len(s) > 0 /\ Nested(s, wanted[c]) /\ Top(c) = Last(s)
  BY TypesParts, TopIs, HartMasked DEF Priorities, HartRising, Masked
<1>2. Rising(r)
  BY <1>1, PopRising
<1>3. /\ Len(s) \in Nat /\ Len(r) = Len(s) - 1 /\ \A i \in 1 .. (Len(s) - 1) : r[i] = s[i]
  BY <1>1, TopSeq, PopSeq
<1>4. ~Entering(Top(c)')
  <2>1. Top(c)' = Last(r)
    BY DEF Top
  <2>2. Len(s) > 1 /\ ~Entering(Under(s))
    BY <1>1, Shape
  <2> QED
    BY <1>1, <2>1, <2>2, BasePopped
<1>5. ~In(c, "ext", "claim")'
  BY <1>4 DEF In, Entering
<1>6. HartPrivate(c)'
  <2> SUFFICES ASSUME Several, NEW j \in 1 .. Len(r) PROVE KeepsTo(c, r[j].op)
    BY DEF HartPrivate, Priorities
  <2>1. j \in 1 .. Len(s) => KeepsTo(c, s[j].op)
    BY DEF HartPrivate, Priorities
  <2> HIDE DEF s, r
  <2> QED
    BY <1>3, <2>1
<1> QED
  BY <1>2, <1>5, <1>6 DEF HartRising

LEMMA ReplacePriorities ==
    ASSUME Types, Priorities, NEW c \in Cores, NEW f \in Frames, stack'[c] = Append(Front(stack[c]), f),
           Several => KeepsTo(c, f.op) /\ enable'[c] \subseteq Enabled[c],
           f.kind = "ext" /\ f.at = "claim" => MEIP(c)',
           Active(f) => /\ f.src # NoSource
                        /\ \A i \in 1 .. (Len(stack[c]) - 1) :
                              Active(stack[c][i]) => PriorityOf(stack[c][i].src) < PriorityOf(f.src)
    PROVE  HartPrivate(c)' /\ HartRising(c)'
<1> DEFINE s == stack[c]
           r == stack'[c]
<1>1. s \in Seq(Frames) /\ Rising(s) /\ r = Append(Front(s), f) /\ Len(s) > 0
  BY TypesParts, TopIs DEF Priorities, HartRising
<1>2. Rising(r)
  BY <1>1, ReplaceRising
<1>3. /\ Len(s) \in Nat /\ Len(r) = Len(s) /\ r[Len(s)] = f /\ \A i \in 1 .. (Len(s) - 1) : r[i] = s[i]
  BY <1>1, TopSeq, ReplaceSeq
<1>4. Top(c)' = f
  <2>1. Top(c)' = r[Len(r)]
    BY DEF Top, Last
  <2> QED
    BY <1>3, <2>1
<1>5. In(c, "ext", "claim")' => MEIP(c)'
  BY <1>4 DEF In
<1>6. HartPrivate(c)'
  <2> SUFFICES ASSUME Several, NEW j \in 1 .. Len(r) PROVE KeepsTo(c, r[j].op)
    BY DEF HartPrivate
  <2>1. j \in 1 .. Len(s) => KeepsTo(c, s[j].op)
    BY DEF HartPrivate, Priorities
  <2>2. KeepsTo(c, f.op)
    OBVIOUS
  <2> HIDE DEF s, r
  <2> QED
    BY <1>3, <2>1, <2>2
<1> QED
  BY <1>2, <1>5, <1>6 DEF HartRising

(* The top frame goes on, as active as before. *)
LEMMA GoOnPriorities ==
    ASSUME Types, Priorities, NEW c \in Cores, NEW f \in Frames, stack'[c] = Append(Front(stack[c]), f),
           Several => KeepsTo(c, f.op) /\ enable'[c] \subseteq Enabled[c],
           f.kind = "ext" /\ f.at = "claim" => MEIP(c)',
           Active(f) => Active(Top(c)) /\ f.src = Top(c).src
    PROVE  HartPrivate(c)' /\ HartRising(c)'
<1> DEFINE k == Len(stack[c])
<1>1. k \in Nat /\ k > 0 /\ Top(c) = stack[c][k] /\ Rising(stack[c])
  BY TypesParts, TopIs DEF Priorities, HartRising
<1>2. Active(f) => /\ f.src # NoSource
                   /\ \A i \in 1 .. (k - 1) :
                         Active(stack[c][i]) => PriorityOf(stack[c][i].src) < PriorityOf(f.src)
  <2>1. /\ \A j \in 1 .. k : Active(stack[c][j]) => stack[c][j].src # NoSource
        /\ \A i, j \in 1 .. k : i < j /\ Active(stack[c][i]) /\ Active(stack[c][j]) =>
              PriorityOf(stack[c][i].src) < PriorityOf(stack[c][j].src)
    BY <1>1 DEF Rising
  <2>2. Top(c) = stack[c][k] /\ k \in Nat /\ k > 0
    BY <1>1
  <2> HIDE DEF k
  <2>3. k \in 1 .. k /\ \A i \in 1 .. (k - 1) : i \in 1 .. k /\ i < k
    BY <2>2
  <2>4. Active(f) => Active(stack[c][k]) /\ f.src = stack[c][k].src
    BY <2>2
  <2> QED
    BY <2>1, <2>3, <2>4
<1> QED
  BY <1>2, ReplacePriorities

LEMMA Together ==
    ASSUME NEW c \in Cores, HartPrivate(c)' /\ HartRising(c)',
           \A d \in Cores \ {c} : HartPrivate(d)' /\ HartRising(d)'
    PROVE  Priorities'
BY DEF Priorities

LEMMA OthersStill ==
    ASSUME Priorities, NEW c \in Cores, \A d \in Cores \ {c} : stack'[d] = stack[d], pending' = pending,
           \A d \in Cores \ {c} : enable'[d] = enable[d] /\ threshold'[d] = threshold[d]
    PROVE  \A d \in Cores \ {c} : HartPrivate(d)' /\ HartRising(d)'
<1> TAKE d \in Cores \ {c}
<1>1. d \in Cores /\ pending \cap enable[d] \subseteq pending'
  OBVIOUS
<1> QED
  BY <1>1, OtherPriorities

LEMMA TrapPriorities ==
    ASSUME Types, Priorities, NEW c \in Cores, ExtTrap(c) \/ TimerTrap(c) \/ SoftTrap(c)
    PROVE  Priorities'
<1>1. enable' = enable /\ threshold' = threshold /\ pending' = pending
  BY DEF ExtTrap, TimerTrap, SoftTrap, plicVars
<1>2. PICK f \in {Frame("ext", "check", {}), Frame("timer", "running", mie[c]), Frame("soft", "clear", {})} :
        f \in Frames /\ stack'[c] = Append(stack[c], f) /\ \A d \in Cores \ {c} : stack'[d] = stack[d]
  BY TrapStack
<1>3. ~Active(f) /\ f.op.name = "none" /\ ~(f.kind = "ext" /\ f.at = "claim")
  BY <1>2, OpType DEF Frame, Active
<1> QED
  BY <1>1, <1>2, <1>3, PushPriorities, OthersStill, Together

LEMMA ReturnPriorities ==
    ASSUME Types, Masks, Priorities, NEW c \in Cores, ExtReturn(c) \/ TimerReturn(c) \/ SoftReturn(c)
    PROVE  Priorities'
<1>1. /\ enable' = enable /\ pending' = pending /\ \A d \in Cores \ {c} : threshold'[d] = threshold[d]
  <2>1. Registers
    BY TypesParts
  <2> QED
    BY <2>1 DEF ExtReturn, TimerReturn, SoftReturn, plicVars, RestoreThreshold, Registers
<1>2. /\ stack'[c] = Front(stack[c]) /\ (\A d \in Cores \ {c} : stack'[d] = stack[d])
      /\ Top(c).kind # "main"
  BY ReturnStack DEF ExtReturn, TimerReturn, SoftReturn, In, Bits
<1> QED
  BY <1>1, <1>2, PopPriorities, OthersStill, Together

LEMMA ExtCheckPriorities ==
    ASSUME Types, Masks, Priorities, NEW c \in Cores, ExtCheck(c)
    PROVE  Priorities'
<1>1. /\ enable' = enable /\ threshold' = threshold /\ pending' = pending
      /\ Top(c).kind = "ext"
  BY DEF ExtCheck, In, plicVars
<1>2. CASE MEIP(c)
  <2> DEFINE f == Frame("ext", "claim", mie[c])
  <2>1. Replace(c, f) /\ f \in Frames /\ f.kind = Top(c).kind
    BY <1>1, <1>2, GoOnFrames DEF ExtCheck
  <2>2. f.at = "claim" /\ f.op.name = "none"
    BY OpType DEF Frame
  <2> HIDE DEF f
  <2>3. stack'[c] = Append(Front(stack[c]), f) /\ \A d \in Cores \ {c} : stack'[d] = stack[d]
    BY <2>1, GoOnStack
  <2>4. MEIP(c)' /\ ~Active(f) /\ (Several => KeepsTo(c, f.op) /\ enable'[c] \subseteq Enabled[c])
    BY <1>1, <1>2, <2>2 DEF MEIP, Offered, Active, KeepsTo, Priorities, HartPrivate
  <2> QED
    BY <1>1, <2>1, <2>3, <2>4, GoOnPriorities, OthersStill, Together
<1>3. CASE ~MEIP(c)
  <2>1. stack'[c] = Front(stack[c]) /\ (\A d \in Cores \ {c} : stack'[d] = stack[d]) /\ Top(c).kind # "main"
    BY <1>1, <1>3, ReturnStack DEF ExtCheck, Bits
  <2> QED
    BY <1>1, <2>1, PopPriorities, OthersStill, Together
<1> QED
  BY <1>2, <1>3

(* What a hart claims is more urgent than anything it is serving. *)
LEMMA ClaimUrgent ==
    ASSUME Types, Masks, Priorities, NEW c \in Cores, In(c, "ext", "claim"), NEW a \in Claimable(c)
    PROVE  /\ a # NoSource /\ a \in enable[c]
           /\ \A i \in 1 .. (Len(stack[c]) - 1) :
                 Active(stack[c][i]) => PriorityOf(stack[c][i].src) < PriorityOf(a)
<1> DEFINE s == stack[c]
           k == Len(s)
           t == threshold[c]
<1>1. PICK b \in Offered(c) : Priority[b] > t
  BY DEF Priorities, HartRising, MEIP
<1>2. a \in Offered(c) /\ Priority[b] <= Priority[a]
  BY <1>1 DEF Claimable
<1>3. a \in Sources /\ b \in Sources /\ a # NoSource /\ a \in enable[c]
  BY <1>1, <1>2, SourcesAssumption DEF Offered, Types, TypeOK
<1>4. PriorityOf(a) = Priority[a] /\ Priority[a] \in Nat /\ Priority[b] \in Nat
  BY <1>3, PriorityAssumption DEF PriorityOf
<1>5. /\ s \in Seq(Frames) /\ Nested(s, wanted[c]) /\ Rising(s) /\ Top(c) = Last(s) /\ Entering(Last(s))
      /\ Base(s) = Under(s) /\ t = LevelOf(Under(s)) /\ t \in Nat
  BY HartMasked, TypesParts DEF Priorities, HartRising, Masked, Base, In, Entering, Registers
<1>6. k \in Nat /\ k > 1 /\ Under(s) \in Frames /\ PointFits(Under(s)) /\ ~Entering(Under(s))
  BY <1>5, Shape DEF Entering
<1>7. Under(s) = s[k - 1]
  BY DEF Under
<1>8. t < PriorityOf(a)
  BY <1>1, <1>2, <1>4, <1>5
<1>9. ASSUME NEW i \in 1 .. (k - 1), Active(s[i]) PROVE PriorityOf(s[i].src) < PriorityOf(a)
  <2>1. i \in 1 .. k /\ k - 1 \in 1 .. k /\ (i = k - 1 \/ i < k - 1)
    BY <1>6
  <2>2. s[i] \in Frames /\ PriorityOf(s[i].src) \in Nat
    BY <1>5, <2>1, FrameParts, PriorityType
  <2>3. CASE i = k - 1
    BY <1>5, <1>7, <1>8, <1>9, <2>3 DEF LevelOf
  <2>4. CASE i < k - 1
    <3>1. Ordered(s[i], Under(s))
      BY <1>5, <1>7, <2>1, <2>4 DEF Nested
    <3>2. Under(s).kind = "ext"
      BY <1>6, <1>9, <3>1, FrameParts DEF Ordered, Rank, Active, Bits
    <3>3. Active(Under(s))
      BY <1>6, <3>2 DEF PointFits, Entering, Active
    <3>4. PriorityOf(s[i].src) < PriorityOf(Under(s).src)
      BY <1>5, <1>7, <1>9, <2>1, <2>4, <3>3 DEF Rising
    <3>5. t = PriorityOf(Under(s).src)
      BY <1>5, <3>3 DEF LevelOf
    <3> QED
      BY <1>4, <1>5, <1>8, <2>2, <3>4, <3>5
  <2> QED
    BY <2>1, <2>3, <2>4
<1> QED
  BY <1>3, <1>9

LEMMA ExtClaimPriorities ==
    ASSUME PrivateSources, Types, Masks, Priorities, NEW c \in Cores, ExtClaim(c)
    PROVE  Priorities'
<1>1. In(c, "ext", "claim") /\ enable' = enable /\ Registers
  BY TypesParts DEF ExtClaim
<1>2. PICK a \in Claimable(c) :
        /\ Claim(a) /\ RaiseThreshold(c, a)
        /\ Replace(c, [Top(c) EXCEPT !.at = "running", !.src = a, !.thr = threshold[c]])
  BY DEF ExtClaim
<1> DEFINE f == [Top(c) EXCEPT !.at = "running", !.src = a, !.thr = threshold[c]]
<1>3. f \in Frames /\ Replace(c, f) /\ f.kind = Top(c).kind
  BY <1>2, ClaimableType, GoOnFrames
<1>4. f.at = "running" /\ f.src = a /\ f.op = Top(c).op
  <2> DEFINE b == Top(c)
             t == threshold[c]
  <2>1. b \in Frames
    BY GoOnFrames
  <2> HIDE DEF b, t
  <2>2. /\ [b EXCEPT !.at = "running", !.src = a, !.thr = t].at = "running"
        /\ [b EXCEPT !.at = "running", !.src = a, !.thr = t].src = a
        /\ [b EXCEPT !.at = "running", !.src = a, !.thr = t].op = b.op
    BY <2>1 DEF Frames
  <2> QED
    BY <2>2 DEF b, t
<1> HIDE DEF f
<1>5. stack'[c] = Append(Front(stack[c]), f) /\ \A d \in Cores \ {c} : stack'[d] = stack[d]
  BY <1>3, GoOnStack
<1>6. /\ a # NoSource /\ a \in enable[c]
      /\ \A i \in 1 .. (Len(stack[c]) - 1) :
            Active(stack[c][i]) => PriorityOf(stack[c][i].src) < PriorityOf(a)
  BY <1>1, ClaimUrgent
<1>7. Several => KeepsTo(c, f.op) /\ enable'[c] \subseteq Enabled[c]
  BY <1>1, <1>4, OpType DEF KeepsTo, In, Priorities, HartPrivate
<1>8. HartPrivate(c)' /\ HartRising(c)'
  BY <1>3, <1>4, <1>5, <1>6, <1>7, ReplacePriorities
<1>9. ASSUME NEW d \in Cores \ {c} PROVE HartPrivate(d)' /\ HartRising(d)'
  <2>1. a \notin enable[d]
    BY <1>6, Unshared
  <2>2. pending \cap enable[d] \subseteq pending'
    BY <1>2, <2>1 DEF Claim
  <2>3. threshold'[d] = threshold[d]
    BY <1>1, <1>2 DEF RaiseThreshold, Registers
  <2> QED
    BY <1>1, <1>5, <2>2, <2>3, OtherPriorities
<1> QED
  BY <1>8, <1>9, Together

LEMMA HandlerPriorities ==
    ASSUME Types, Priorities, NEW c \in Cores, ExtComplete(c) \/ SoftClear(c) \/ SoftCall(c)
    PROVE  Priorities'
<1>1. enable' = enable /\ threshold' = threshold /\ pending' = pending
  BY DEF ExtComplete, SoftClear, SoftCall, plicVars
<1>2. PICK p \in {"done", "call", "running"} :
        /\ Replace(c, [Top(c) EXCEPT !.at = p])
        /\ \/ p = "done" /\ In(c, "ext", "running")
           \/ p \in {"call", "running"} /\ Top(c).kind = "soft"
        /\ Top(c).op = NoOp
  BY DEF ExtComplete, SoftClear, SoftCall, In
<1> DEFINE b == Top(c)
           f == [b EXCEPT !.at = p]
<1>3. b \in Frames /\ Replace(c, f)
  BY <1>2, GoOnFrames
<1> HIDE DEF b
<1>4. f \in Frames /\ f.at = p /\ f.kind = b.kind /\ f.src = b.src /\ f.op = b.op
  BY <1>3 DEF Frames
<1> HIDE DEF f
<1>5. Active(f) => Active(b)
  BY <1>2, <1>4 DEF Active, In, b
<1>6. ~(f.kind = "ext" /\ f.at = "claim")
  BY <1>2, <1>4
<1>7. Several => KeepsTo(c, f.op) /\ enable'[c] \subseteq Enabled[c]
  BY <1>1, <1>2, <1>4, OpType DEF KeepsTo, b, Priorities, HartPrivate
<1>8. stack'[c] = Append(Front(stack[c]), f) /\ \A d \in Cores \ {c} : stack'[d] = stack[d]
  BY <1>3, <1>4, GoOnStack DEF b
<1>9. HartPrivate(c)' /\ HartRising(c)'
  BY <1>4, <1>5, <1>6, <1>7, <1>8, GoOnPriorities DEF b
<1> QED
  BY <1>1, <1>8, <1>9, OthersStill, Together

(* An operation begins or ends in the top frame. *)
LEMMA OpPriorities ==
    ASSUME Types, Priorities, NEW c \in Cores, NEW o \in Ops, Replace(c, [Top(c) EXCEPT !.op = o]),
           Top(c).at = "running", Several => KeepsTo(c, o) /\ enable'[c] \subseteq Enabled[c],
           threshold' = threshold, pending' = pending, \A d \in Cores \ {c} : enable'[d] = enable[d]
    PROVE  Priorities'
<1> DEFINE b == Top(c)
           f == [b EXCEPT !.op = o]
<1>1. b \in Frames /\ Replace(c, f) /\ b.at = "running"
  BY GoOnFrames
<1> HIDE DEF b
<1>2. f \in Frames /\ f.at = b.at /\ f.kind = b.kind /\ f.src = b.src /\ f.op = o
  BY <1>1 DEF Frames
<1> HIDE DEF f
<1>3. Active(f) => Active(b)
  BY <1>2 DEF Active
<1>4. stack'[c] = Append(Front(stack[c]), f) /\ \A d \in Cores \ {c} : stack'[d] = stack[d]
  BY <1>1, <1>2, GoOnStack DEF b
<1>5. HartPrivate(c)' /\ HartRising(c)'
  BY <1>1, <1>2, <1>3, <1>4, GoOnPriorities DEF b
<1>6. \A d \in Cores \ {c} : HartPrivate(d)' /\ HartRising(d)'
  BY <1>4, OthersStill
<1> QED
  BY <1>5, <1>6, Together

LEMMA BeginPriorities ==
    ASSUME PrivateSources, Types, Priorities, NEW c \in Cores,
           \/ \E b \in BOOLEAN : TimerStart(c, b)
           \/ \E s \in Sources, name \in Calls : PlicRead(c, s, name)
    PROVE  Priorities'
<1>1. Registers /\ enable' = enable /\ threshold' = threshold /\ pending' = pending /\ Top(c).at = "running"
  BY TypesParts DEF TimerStart, PlicRead, plicVars, CanCall
<1>2. Several => enable[c] \subseteq Enabled[c]
  BY DEF Priorities, HartPrivate
<1>3. CASE \E b \in BOOLEAN : TimerStart(c, b)
  <2> DEFINE o == [name |-> "timer_start", src |-> NoSource, current |-> {}]
  <2>1. o \in Ops /\ KeepsTo(c, o)
    BY OpType DEF KeepsTo
  <2>2. Replace(c, [Top(c) EXCEPT !.op = o])
    BY <1>3 DEF TimerStart, Begin
  <2> HIDE DEF o
  <2> QED
    BY <1>1, <1>2, <2>1, <2>2, OpPriorities
<1>4. CASE \E s \in Sources, name \in Calls : PlicRead(c, s, name)
  <2>1. PICK s \in Sources, name \in {"plic_enable", "plic_disable"} : PlicRead(c, s, name)
    BY <1>4 DEF PlicRead
  <2> DEFINE o == [name |-> name, src |-> s, current |-> enable[c]]
  <2>2. o \in Ops /\ o.name = name /\ o.current = enable[c]
    BY <1>1, OpType DEF Registers
  <2>3. Replace(c, [Top(c) EXCEPT !.op = o])
    BY <2>1 DEF PlicRead, Begin
  <2> HIDE DEF o
  <2>4. Several => name = "plic_disable"
    BY <2>1 DEF Several, PrivateSources, PlicRead, CanCall
  <2>5. Several => KeepsTo(c, o)
    BY <1>2, <2>2, <2>4 DEF KeepsTo
  <2> QED
    BY <1>1, <1>2, <2>2, <2>3, <2>5, OpPriorities
<1> QED
  BY <1>3, <1>4

LEMMA EndPriorities ==
    ASSUME Types, Masks, Priorities, NEW c \in Cores, TimerArm(c) \/ PlicWrite(c)
    PROVE  Priorities'
<1>1. /\ Registers /\ threshold' = threshold /\ pending' = pending
      /\ Replace(c, [Top(c) EXCEPT !.op = NoOp]) /\ NoOp \in Ops /\ KeepsTo(c, NoOp)
  BY TypesParts, OpType DEF TimerArm, PlicWrite, Finish, plicVars, KeepsTo
<1>2. Top(c).at = "running"
  BY TopFits DEF PointFits, TimerArm, PlicWrite
<1>3. Several => enable[c] \subseteq Enabled[c]
  BY DEF Priorities, HartPrivate
<1>4. CASE TimerArm(c)
  <2>1. enable' = enable
    BY <1>4 DEF TimerArm, plicVars
  <2> QED
    BY <1>1, <1>2, <1>3, <2>1, OpPriorities
<1>5. CASE PlicWrite(c)
  <2> DEFINE o == Top(c).op
             k == Len(stack[c])
  <2>1. o.name \in {"plic_enable", "plic_disable"} /\ enable' = [enable EXCEPT ![c] = Changed(o.current, o)]
    BY <1>5 DEF PlicWrite
  <2>2. Several => KeepsTo(c, o)
    <3>1. Top(c) = stack[c][k] /\ k \in 1 .. k
      BY TypesParts, TopIs
    <3> QED
      BY <3>1 DEF Priorities, HartPrivate
  <2> HIDE DEF o
  <2>3. enable'[c] = Changed(o.current, o) /\ \A d \in Cores \ {c} : enable'[d] = enable[d]
    BY <1>1, <2>1 DEF Registers
  <2>4. Several => enable'[c] \subseteq Enabled[c]
    BY <2>1, <2>2, <2>3 DEF KeepsTo, Changed
  <2> QED
    BY <1>1, <1>2, <2>3, <2>4, OpPriorities
<1> QED
  BY <1>4, <1>5

(* Calls that leave the stack and the PLIC alone; a device's interrupt     *)
(* only adds to what is offered. *)
LEMMA QuietPriorities ==
    ASSUME Priorities,
           \/ UNCHANGED vars \/ \E s \in Sources : Raise(s)
           \/ \E c \in Cores : \/ Expire(c) \/ IpiEnable(c) \/ IpiDisable(c) \/ TimerStop(c)
                               \/ DisableIrq(c) \/ EnableIrq(c) \/ \E d \in Cores : IpiSend(c, d)
    PROVE  Priorities'
<1>1. stack' = stack /\ enable' = enable /\ threshold' = threshold /\ pending \subseteq pending'
  BY DEF vars, Raise, Expire, IpiEnable, IpiDisable, TimerStop, DisableIrq, EnableIrq, IpiSend,
         coreVars, plicVars
<1> SUFFICES ASSUME NEW d \in Cores PROVE HartPrivate(d)' /\ HartRising(d)'
  BY DEF Priorities
<1>2. pending \cap enable[d] \subseteq pending'
  BY <1>1
<1> QED
  BY <1>1, <1>2, OtherPriorities

LEMMA InitPriorities == Init => Priorities
<1> SUFFICES ASSUME Init, NEW c \in Cores PROVE HartPrivate(c) /\ HartRising(c)
  BY DEF Priorities
<1> DEFINE f == Frame("main", "running", {})
<1>1. f.kind = "main" /\ f.op.name = "none"
  BY OpType DEF Frame
<1>2. stack[c] = <<f>> /\ enable = Enabled
  BY DEF Init
<1>3. Len(<<f>>) = 1 /\ <<f>>[1] = f /\ Last(<<f>>) = f
  BY DEF Last
<1> HIDE DEF f
<1>4. HartPrivate(c)
  BY <1>1, <1>2, <1>3 DEF HartPrivate, KeepsTo
<1>5. Rising(stack[c])
  BY <1>1, <1>2, <1>3 DEF Rising, Active
<1>6. ~In(c, "ext", "claim")
  BY <1>1, <1>2, <1>3 DEF In, Top
<1> QED
  BY <1>4, <1>5, <1>6 DEF HartRising

LEMMA NextPriorities == PrivateSources /\ Types /\ Masks /\ Priorities /\ [Next]_vars => Priorities'
<1> SUFFICES ASSUME PrivateSources, Types, Masks, Priorities, [Next]_vars PROVE Priorities'
  OBVIOUS
<1>1. ASSUME NEW c \in Cores, Handler(c) PROVE Priorities'
  BY <1>1, TrapPriorities, ExtCheckPriorities, ExtClaimPriorities, HandlerPriorities, ReturnPriorities
     DEF Handler
<1>2. ASSUME NEW c \in Cores, Call(c) PROVE Priorities'
  <2>1. CASE (\E b \in BOOLEAN : TimerStart(c, b)) \/ (\E s \in Sources, name \in Calls : PlicRead(c, s, name))
    BY <2>1, BeginPriorities
  <2>2. CASE \/ IpiEnable(c) \/ IpiDisable(c) \/ TimerStop(c) \/ DisableIrq(c) \/ EnableIrq(c)
             \/ \E d \in Cores : IpiSend(c, d)
    BY <2>2, QuietPriorities
  <2> QED
    BY <1>2, <2>1, <2>2 DEF Call
<1>3. ASSUME NEW c \in Cores, CallEnd(c) PROVE Priorities'
  BY <1>3, EndPriorities DEF CallEnd
<1> QED
  BY <1>1, <1>2, <1>3, QuietPriorities DEF Next

(* An external callback is interrupted by strictly more urgent sources     *)
(* only: the thresholds handle_irq_m_ext raises and restores, together     *)
(* with a claim that returns the most urgent source, see to it.            *)
THEOREM PrioritySafe ==
    ASSUME QuietCallbacks, PrivateSources
    PROVE  Spec => []PriorityNesting
<1>1. Types /\ Masks /\ Priorities => PriorityNesting
  <2> SUFFICES ASSUME Types, Masks, Priorities, NEW c \in Cores, NEW i \in Serving(c), NEW j \in Serving(c),
                      i < j
               PROVE  Priority[stack[c][i].src] < Priority[stack[c][j].src]
    BY DEF PriorityNesting
  <2> DEFINE k == Len(stack[c])
  <2>1. k \in Nat /\ Rising(stack[c])
    BY TypesParts, TopIs DEF Priorities, HartRising
  <2>2. ASSUME NEW n \in Serving(c)
        PROVE  n \in 2 .. k /\ Active(stack[c][n]) /\ stack[c][n].src # NoSource
    BY <2>2 DEF Serving, Interrupts, InCallback, Active
  <2>3. \A n \in 2 .. k : n \in 1 .. k
    BY <2>1
  <2> QED
    BY <2>1, <2>2, <2>3 DEF Rising, PriorityOf
<1>2. Init => Masks /\ Priorities
  BY InitMasks, InitPriorities
<1>3. Types /\ Masks /\ Priorities /\ [Next]_vars => Masks' /\ Priorities'
  BY NextMasks, NextPriorities
<1> QED
  BY <1>1, <1>2, <1>3, SpecTypes, PTL DEF Spec
=============================================================================
