--------------------------- MODULE KpuTask_proofs ---------------------------
(***************************************************************************)
(* Proofs about KpuTask, for any networks, size of a burst and number of   *)
(* tasks, in every behaviour up to a task that begins when the one before  *)
(* is not over (collided).                                                 *)
(*                                                                         *)
(* A state is described by the place the top frame has reached: a program  *)
(* p of kpu.c, of which k statements are done.  At each place the          *)
(* invariant says which interrupts can still come in, what the channel is  *)
(* set up for, and which layers are computed, in the accelerator and in    *)
(* its queue (Pipe).  kpu_start and kpu_run (PlainAt) write the queue from *)
(* interrupts that may preempt each other's frames; in kpu_run_kmodel      *)
(* (ModelAt) either a frame is at work and the hardware idle, or the       *)
(* hardware is at work and frames only have to return.                     *)
(***************************************************************************)
EXTENDS KpuTask, SequenceTheorems, FiniteSetTheorems, TLAPS

(* The statements left of a frame are the end of one of a few programs,    *)
(* and then what the frame does in any case.                               *)
Begin == IF input = "dma" THEN <<"clear", "maskDone", "enable", "input">>
                          ELSE <<"clear", "maskDone", "enable", "irqOff", "step", "irqOn">>
Ready == IF api = "kpu_start" THEN DataReady ELSE PushLayers
Inp == IF api = "kpu_start" THEN <<"input">> ELSE <<"enable", "input">>

Code(p) ==
    CASE p = "rest" -> <<>>
      [] p = "inp" -> Inp
      [] p = "ready" -> Ready
      [] p = "ends" -> <<"iclear", "free", "told", "call">>
      [] p = "ai" -> <<"clear", "push">>
      [] p = "begin" -> Begin
      [] p = "step" -> <<"step">>
      [] p = "istep" -> <<"iclear", "step">>
      [] p = "conv" -> Conv(at)
      [] p = "done" -> KmodelDone
      [] p = "idone" -> <<"iclear">> \o KmodelDone

Rest(s, k) == SubSeq(s, k + 1, Len(s))
FrameOf(s, p, k, r, i) == [src |-> s, todo |-> Rest(Code(p), k) \o r, i |-> i]
MainRests == [src |-> "main", todo |-> <<"call">>, i |-> 0]
DmaRests == [src |-> "dma", todo |-> <<>>, i |-> 0]
Suspended(j, ii) == FrameOf("main", "ready", j, <<"call">>, ii)
DmaEnds(e) == FrameOf("dma", "ends", e, <<>>, 0)

Open == n = told + 1
Quiet == status \ mask = {} /\ "ai" \notin pend
Sent(m) == Cardinality({l \in 1 .. m : SendsOut(l)})
OutPos == IF api = "kpu_start" THEN 1 ELSE 2
PushPos == IF api = "kpu_start" THEN 6 ELSE 5

(* The layers computed, in the accelerator and in its queue are 1 .. m. *)
Pipe(m) ==
    /\ computed \in Seq(Nat) /\ fifo \in Seq(Nat) /\ busy \in Nat
    /\ \A j \in 1 .. Len(computed) : computed[j] = j
    /\ busy # 0 => busy = Len(computed) + 1
    /\ m = Len(computed) + (IF busy = 0 THEN 0 ELSE 1) + Len(fifo)
    /\ \A j \in 1 .. Len(fifo) : fifo[j] = m - Len(fifo) + j

Counted == Sent(Len(computed)) = delivered + (IF outReady THEN 1 ELSE 0)

Common ==
    /\ api \in Interfaces /\ model \in Models[api] /\ also \in BOOLEAN /\ input \in {"dma", "cpu"}
    /\ api = "kpu_run" => input = "dma"
    /\ status \subseteq Status /\ mask \subseteq Status /\ pend \subseteq Sources
    /\ {outReady, dmaDone, aiEnabled, irqOff, arrived} \subseteq BOOLEAN
    /\ at \in Nat /\ told \in Nat /\ n \in {told, told + 1} /\ delivered \in Nat
    /\ Counted
    /\ "dma" \in pend => dmaDone

-----------------------------------------------------------------------------
(* kpu_start and kpu_run. *)

Main == <<"call">>
After(s) == IF s = "main" THEN Main ELSE <<>>
Places == {0, 6, 7, 10, 11, 12, 13}
PlainShape(low, s, p, k, i, j, ii) ==
    /\ stack = Append(low, FrameOf(s, p, k, After(s), i))
    /\ i \in Nat /\ ii \in Nat /\ j \in Places
    /\ k \in 0 .. Len(Code(p)) /\ (k = Len(Code(p)) => p = "rest")
    /\ \/ s = "main" /\ p \in {"rest", "inp", "ready"} /\ low = <<>> /\ j = 0
       \/ s = "dma" /\ p \in {"rest", "inp", "ready", "ends"} /\ low = <<MainRests>> /\ j = 0
       \/ s = "ai" /\ p \in {"rest", "ai"} /\ low = <<MainRests>> /\ j = 0
       \/ s = "ai" /\ p \in {"rest", "ai"} /\ low = <<MainRests, DmaRests>> /\ j = 0
          /\ api = "kpu_start"
       \/ s = "ai" /\ p \in {"rest", "ai"} /\ low = <<MainRests, DmaEnds(j - 10)>> /\ j \in 10 .. 13
          /\ api = "kpu_start"
       \/ s = "dma" /\ p \in {"rest", "ends"} /\ low = <<Suspended(j, ii)>> /\ j \in {6, 7}
          /\ api = "kpu_start"
    /\ s = "main" /\ p = "ready" => api = "kpu_start"
    /\ (p = "ready" /\ k = PushPos) \/ (p = "ai" /\ k = 1) \/ i = 0
    /\ j # 6 => ii = 0

(* What was interrupted below the top frame and its caller: main, at j of  *)
(* "ready" when it had written all layers, or the DMA's handler, at j - 10 *)
(* of "ends", by an interrupt of the KPU that was still to come.           *)
SuspendedFacts(j) ==
    /\ j \in {6, 7} => /\ mask = Status /\ "ai" \notin pend /\ aiEnabled /\ dmaCb = "done"
                       /\ Len(computed) = L /\ arrived /\ (j = 7 => at > 0)
    /\ j > 9 => /\ Len(computed) = L /\ arrived /\ dma = "off" /\ "dma" \notin pend
                /\ (j > 10 => ~dmaDone) /\ (Open <=> j < 13)

ClosedFacts(p, k, j) ==
    /\ p = "inp" \/ (p = "ready" /\ k < PushPos) => Open
    /\ p = "ends" => (Open <=> k < 3)
    /\ Open => flag = IF (p = "ends" /\ k = 2) \/ j = 12 THEN 0 ELSE 1
    /\ ~Open => fifo = <<>> /\ busy = 0 /\ ~outReady /\ dma = "off" /\ ~dmaDone
    /\ ~Open /\ p \in {"ready", "ai"} => Len(computed) = L

DmaFacts(s, p, k, w) ==
    /\ dma \in {"off", "in", "out"} /\ dmaCb \in {"ready", "done"}
    /\ outReady => dma = "out" /\ Len(computed) = L
    /\ dma = "in" => Open /\ w = 0 /\ dmaCb = "ready" /\ ~dmaDone /\ p = "rest"
    /\ dma = "out" => Open /\ arrived /\ dmaCb = "done" /\ ~dmaDone
    /\ dmaDone => dma = "off" /\ Open
    /\ dmaDone /\ dmaCb = "ready" =>
          w = 0 /\ arrived /\ (p = "rest" \/ (p = "ready" /\ s = "dma" /\ "dma" \notin pend))
    /\ dmaDone /\ dmaCb = "done" => Len(computed) = L
    /\ p = "inp" => dma = "off"
    /\ p = "ready" /\ k <= OutPos => arrived /\ dma = "off"
    /\ p = "ready" /\ k > OutPos => arrived /\ dmaCb = "done" /\ (dma = "out" \/ Len(computed) = L)
    /\ p = "ends" => Len(computed) = L /\ dma = "off" /\ arrived /\ "dma" \notin pend /\ (k > 0 => ~dmaDone)

AiFacts(p, k, w) ==
    /\ fifo # <<>> \/ busy # 0 => arrived /\ dma = "out" /\ aiEnabled
    /\ ~Quiet \/ p = "ai" => arrived /\ aiEnabled /\ w > 0 /\ (dma = "out" \/ Len(computed) = L)
    /\ api = "kpu_start" /\ p = "ready" /\ k > 4 => aiEnabled
    /\ api = "kpu_run" => \/ ~((p = "inp" /\ k = 1) \/ p = "ready" \/ dma = "in" \/ (dmaDone /\ dmaCb = "ready"))
                          \/ aiEnabled
    /\ api = "kpu_start" /\ p = "ready" /\ k > 2 => mask = Status /\ "ai" \notin pend
    /\ api = "kpu_start" /\ p = "ready" /\ k = 7 => at > 0
    /\ api = "kpu_run" /\ p = "ready" /\ k \in 1 .. 4 => status = {}

PlainData(s, p, k, j, w) ==
    /\ irqOff = FALSE
    /\ SuspendedFacts(j)
    /\ Pipe(w) /\ w <= L /\ (w > 0 => arrived)
    /\ p = "inp" \/ (p = "ready" /\ k < PushPos) => w = 0
    /\ ClosedFacts(p, k, j) /\ DmaFacts(s, p, k, w) /\ AiFacts(p, k, w)

PlainAt(low, s, p, k, i, j, ii) ==
    PlainShape(low, s, p, k, i, j, ii) /\ PlainData(s, p, k, j, at + i + ii)
PlainProgs == {"rest", "inp", "ready", "ends", "ai"}

-----------------------------------------------------------------------------
(* kpu_run_kmodel. *)

ModelProgs == {"rest", "begin", "step", "istep", "conv", "done", "idone"}
ModelShape(low, s, p, k, r) ==
    /\ stack = Append(low, FrameOf(s, p, k, r, 0))
    /\ p \in ModelProgs /\ (p \in {"istep", "idone"} => s = "dma")
    /\ k \in 0 .. Len(Code(p)) /\ (k = Len(Code(p)) => p = "rest") /\ (p = "begin" => k <= 3)
    /\ \/ s = "main" /\ low = <<>> /\ r = (IF irqOff THEN <<"irqOn", "call">> ELSE Main)
       \/ s \in {"ai", "dma"} /\ low = <<MainRests>> /\ r \in Seq({"irqOn"}) /\ (irqOff => r # <<>>)
    /\ p = "begin" /\ s = "main" => ~irqOff

Empty == fifo = <<>> /\ busy = 0 /\ ~outReady
ConvLayer(l) == l \in 1 .. L /\ model[l] # "cpu"

AtBegin(k) == Open /\ at = 0 /\ arrived = (input = "cpu") /\ (k > 0 => status = {})
AtStep == Open /\ arrived /\ at < L
AtConv(k) ==
    /\ Open /\ arrived /\ ConvLayer(at)
    /\ k > 0 => status = {}
    /\ k > 1 => mask = IF SendsOut(at) THEN Status ELSE {"almost_empty"}
AtDone(k, len) == at = L /\ arrived /\ (k < len - 1 => Open) /\ (k = len - 1 => ~Open)
    /\ (k > len - 4 => status = {})

Armed == dma = "out" /\ dmaCb = OutputCallback /\ mask = Status /\ ~dmaDone

Working(s, p, k) ==
    /\ Empty /\ pend = {}
    /\ s = "ai" \/ status \ mask = {}
    /\ IF p = "conv" /\ SendsOut(at) /\ k = 3 THEN Armed ELSE dma = "off"
    /\ dmaDone => p \in {"istep", "idone"} /\ k = 0
    /\ Pipe(IF p = "conv" THEN at - 1 ELSE at)
    /\ \/ p = "begin" /\ AtBegin(k)
       \/ p \in {"step", "istep"} /\ AtStep
       \/ p = "conv" /\ AtConv(k)
       \/ p = "done" /\ AtDone(k, 4)
       \/ p = "idone" /\ AtDone(k, 5)

Idle == ~Open /\ (at > 0 => arrived) /\ Empty /\ dma = "off" /\ ~dmaDone /\ pend = {} /\ status = {}
Inputs ==
    /\ Open /\ at = 0 /\ Empty /\ status = {} /\ dmaCb = "step" /\ "ai" \notin pend
    /\ (dma = "in" /\ ~dmaDone) \/ (dma = "off" /\ dmaDone /\ arrived)
Computes ==
    /\ Open /\ arrived /\ ConvLayer(at) /\ Len(computed) = at - 1 /\ pend = {} /\ ~outReady
    /\ IF SendsOut(at) THEN Armed ELSE dma = "off" /\ ~dmaDone /\ mask = {"almost_empty"}
                                       /\ "calc_done" \notin status
Computed ==
    /\ Open /\ arrived /\ ConvLayer(at) /\ Len(computed) = at
    /\ IF SendsOut(at)
       THEN \/ Armed /\ outReady /\ pend = {}
            \/ dma = "off" /\ dmaDone /\ ~outReady /\ "ai" \notin pend /\ mask = Status
               /\ dmaCb = OutputCallback
       ELSE /\ dma = "off" /\ ~dmaDone /\ "dma" \notin pend /\ ~outReady
            /\ "ai" \in pend \/ ("calc_done" \in status /\ mask = {"almost_empty"})

Waiting == Pipe(at) /\ (Idle \/ Inputs \/ Computes \/ Computed)

ModelAt(low, s, p, k, r) ==
    /\ ModelShape(low, s, p, k, r)
    /\ flag = 0
    /\ IF p = "rest" THEN Waiting ELSE Working(s, p, k)

-----------------------------------------------------------------------------
(* Frames and the statements left of them. *)

Stmts == {"call", "iclear", "output", "maskAll", "maskNone", "maskDone", "maskEmpty", "clear",
          "enable", "push", "told", "free", "input", "irqOff", "irqOn", "step", "send"}
Frames == [src : Sources \cup {"main"}, todo : Seq(Stmts), i : Nat]

LEMMA TopOf ==
    ASSUME NEW S, NEW s \in Seq(S), NEW f \in S
    PROVE  /\ Append(s, f) \in Seq(S) /\ Len(Append(s, f)) = Len(s) + 1
           /\ Last(Append(s, f)) = f /\ Front(Append(s, f)) = s
           /\ \A j \in 1 .. Len(s) : Append(s, f)[j] = s[j]
           /\ Append(s, f)[Len(s) + 1] = f
<1>1. /\ Append(s, f) \in Seq(S) /\ Len(Append(s, f)) = Len(s) + 1 /\ Len(s) \in Nat
      /\ \A j \in 1 .. Len(s) : Append(s, f)[j] = s[j]
      /\ Append(s, f)[Len(s) + 1] = f
  OBVIOUS
<1>2. Last(Append(s, f)) = f
  BY <1>1 DEF Last
<1>3. Front(Append(s, f)) = SubSeq(Append(s, f), 1, Len(s))
  BY <1>1 DEF Front
<1>4. /\ SubSeq(Append(s, f), 1, Len(s)) \in Seq(S)
      /\ Len(SubSeq(Append(s, f), 1, Len(s))) = Len(s)
      /\ \A j \in 1 .. Len(s) : SubSeq(Append(s, f), 1, Len(s))[j] = s[j]
  BY <1>1, SubSeqProperties
<1>5. SubSeq(Append(s, f), 1, Len(s)) = s
  BY <1>4, SeqEqual
<1> QED
  BY <1>1, <1>2, <1>3, <1>5

LEMMA ReplaceTop ==
    ASSUME NEW S, NEW s \in Seq(S), NEW f \in S, NEW g \in S, NEW m, m = Len(Append(s, f))
    PROVE  [Append(s, f) EXCEPT ![m] = g] = Append(s, g)
<1> DEFINE t == Append(s, f)
           u == [t EXCEPT ![m] = g]
           v == Append(s, g)
<1>1. /\ t \in Seq(S) /\ Len(t) = Len(s) + 1 /\ Len(s) \in Nat
      /\ \A j \in 1 .. Len(s) : t[j] = s[j]
  BY TopOf
<1>2. /\ v \in Seq(S) /\ Len(v) = Len(s) + 1
      /\ \A j \in 1 .. Len(s) : v[j] = s[j]
      /\ v[Len(s) + 1] = g
  BY TopOf
<1> HIDE DEF t, v
<1>3. m \in 1 .. Len(t) /\ m = Len(s) + 1
  BY <1>1 DEF t
<1>4. u \in Seq(S) /\ Len(u) = Len(t)
      /\ \A j \in 1 .. Len(t) : u[j] = IF j = m THEN g ELSE t[j]
  BY <1>1, <1>3, ExceptSeq
<1> HIDE DEF u
<1>5. ASSUME NEW j \in 1 .. Len(u) PROVE u[j] = v[j]
  <2>1. j = m \/ j \in 1 .. Len(s)
    BY <1>1, <1>3, <1>4
  <2>2. CASE j = m
    BY <2>2, <1>1, <1>2, <1>3, <1>4
  <2>3. CASE j # m
    BY <2>1, <2>3, <1>1, <1>2, <1>3, <1>4
  <2> QED
    BY <2>2, <2>3
<1>6. u = v
  BY <1>1, <1>2, <1>4, <1>5, SeqEqual
<1> QED
  BY <1>6 DEF t, u, v

(* What a step makes of the top frame. *)
LEMMA ThenTop ==
    ASSUME NEW low \in Seq(Frames), NEW f \in Frames, stack = Append(low, f), NEW more, Then(more)
    PROVE  stack' = Append(low, [f EXCEPT !.todo = more \o Tail(@)])
<1> DEFINE g == [f EXCEPT !.todo = more \o Tail(@)]
           S == Frames \cup {g}
<1>1. stack[Len(stack)] = f
  BY TopOf
<1>2. stack' = [stack EXCEPT ![Len(stack)] = g]
  BY <1>1 DEF Then
<1> HIDE DEF g
<1>3. low \in Seq(S) /\ f \in S /\ g \in S
  BY SeqMonotonic
<1> HIDE DEF S
<1>4. stack' = Append(low, g)
  BY <1>2, <1>3, ReplaceTop
<1> QED
  BY <1>4 DEF g

(* A body of one to eight statements has a first statement. *)
LEMMA FirstOf == \A l \in {1, 2, 3, 4, 5, 6, 8} : 0 \in 0 .. l /\ 0 # l
  OBVIOUS

(* The statement at hand and those after it. *)
LEMMA RestStep ==
    ASSUME NEW c \in Seq(Stmts), NEW r \in Seq(Stmts), NEW k \in 0 .. Len(c)
    PROVE  /\ Rest(c, k) \o r \in Seq(Stmts)
           /\ k = Len(c) => Rest(c, k) \o r = r
           /\ k < Len(c) => /\ Rest(c, k) \o r # <<>>
                            /\ Head(Rest(c, k) \o r) = c[k + 1]
                            /\ Tail(Rest(c, k) \o r) = Rest(c, k + 1) \o r
<1>1. Len(c) \in Nat /\ k \in Nat
  OBVIOUS
<1>2. /\ Rest(c, k) \in Seq(Stmts) /\ Len(Rest(c, k)) = Len(c) - k
      /\ \A j \in 1 .. Len(c) - k : Rest(c, k)[j] = c[k + j]
  BY <1>1, SubSeqProperties DEF Rest
<1>3. Rest(c, k) \o r \in Seq(Stmts) /\ Len(Rest(c, k) \o r) = Len(c) - k + Len(r) /\ Len(r) \in Nat
      /\ \A j \in 1 .. Len(c) - k + Len(r) :
            (Rest(c, k) \o r)[j] = IF j <= Len(c) - k THEN c[k + j] ELSE r[j - (Len(c) - k)]
  <2> DEFINE d == Rest(c, k)
  <2> HIDE DEF d
  <2>1. d \in Seq(Stmts) /\ Len(d) = Len(c) - k
        /\ \A j \in 1 .. Len(d) : d[j] = c[k + j]
    BY <1>2 DEF d
  <2>2. d \o r \in Seq(Stmts) /\ Len(d \o r) = Len(d) + Len(r) /\ Len(r) \in Nat
        /\ \A j \in 1 .. Len(d) + Len(r) :
              (d \o r)[j] = IF j <= Len(d) THEN d[j] ELSE r[j - Len(d)]
    BY <2>1, ConcatProperties, SMTT(30)
  <2> QED
    BY <1>1, <2>1, <2>2 DEF d
<1>4. k = Len(c) => Rest(c, k) \o r = r
  BY <1>1, <1>2, ConcatEmptySeq, EmptySeq
<1>5. ASSUME k < Len(c)
      PROVE  /\ Rest(c, k) \o r # <<>> /\ Head(Rest(c, k) \o r) = c[k + 1]
             /\ Tail(Rest(c, k) \o r) = Rest(c, k + 1) \o r
  <2> DEFINE t == Rest(c, k) \o r
             u == Rest(c, k + 1) \o r
  <2>1. t # <<>> /\ t[1] = c[k + 1]
    BY <1>1, <1>3, <1>5, EmptySeq, SMTT(30)
  <2>2. /\ Rest(c, k + 1) \in Seq(Stmts) /\ Len(Rest(c, k + 1)) = Len(c) - k - 1
        /\ \A j \in 1 .. Len(c) - k - 1 : Rest(c, k + 1)[j] = c[k + 1 + j]
    BY <1>1, <1>5, SubSeqProperties DEF Rest
  <2>3. u \in Seq(Stmts) /\ Len(u) = Len(c) - k - 1 + Len(r)
        /\ \A j \in 1 .. Len(c) - k - 1 + Len(r) :
              u[j] = IF j <= Len(c) - k - 1 THEN c[k + 1 + j] ELSE r[j - (Len(c) - k - 1)]
    <3> DEFINE d == Rest(c, k + 1)
    <3> HIDE DEF d
    <3>1. d \in Seq(Stmts) /\ Len(d) = Len(c) - k - 1
          /\ \A j \in 1 .. Len(d) : d[j] = c[k + 1 + j]
      BY <2>2 DEF d
    <3>2. d \o r \in Seq(Stmts) /\ Len(d \o r) = Len(d) + Len(r)
          /\ \A j \in 1 .. Len(d) + Len(r) :
                (d \o r)[j] = IF j <= Len(d) THEN d[j] ELSE r[j - Len(d)]
      BY <3>1, ConcatProperties
    <3>3. \A j \in 1 .. Len(c) - k - 1 + Len(r) :
                (d \o r)[j] = IF j <= Len(c) - k - 1 THEN c[k + 1 + j] ELSE r[j - (Len(c) - k - 1)]
      BY <1>1, <1>5, <3>1, <3>2
    <3> QED
      BY <1>1, <1>5, <3>1, <3>2, <3>3 DEF d
  <2>4. t \in Seq(Stmts) /\ Len(t) = Len(c) - k + Len(r)
        /\ \A j \in 1 .. Len(c) - k + Len(r) :
              t[j] = IF j <= Len(c) - k THEN c[k + j] ELSE r[j - (Len(c) - k)]
    BY <1>3
  <2> HIDE DEF t, u
  <2>5. Head(t) = t[1] /\ Tail(t) \in Seq(Stmts) /\ Len(Tail(t)) = Len(t) - 1
        /\ \A j \in 1 .. Len(Tail(t)) : Tail(t)[j] = t[j + 1]
    BY <2>1, <2>4, HeadTailProperties
  <2>6. \A j \in 1 .. Len(u) : Tail(t)[j] = u[j]
    BY <1>1, <1>3, <1>5, <2>3, <2>4, <2>5
  <2>8. Len(Tail(t)) = Len(u)
    BY <1>1, <2>3, <2>4, <2>5
  <2> DEFINE v == Tail(t)
  <2> HIDE DEF v
  <2>9. v \in Seq(Stmts) /\ Len(v) = Len(u) /\ \A j \in 1 .. Len(v) : v[j] = u[j]
    BY <2>5, <2>6, <2>8 DEF v
  <2>10. v = u
    BY <2>3, <2>9, SeqEqual
  <2>7. Tail(t) = u
    BY <2>10 DEF v
  <2> QED
    BY <2>1, <2>5, <2>7 DEF t, u
<1> QED
  BY <1>3, <1>4, <1>5

-----------------------------------------------------------------------------
(* kpu_start and kpu_run: where a frame is in its program. *)

LEMMA PlainCode ==
    ASSUME ~Kmodel
    PROVE  /\ \A p \in PlainProgs : Code(p) \in Seq(Stmts)
           /\ Code("rest") = <<>> /\ Len(Code("rest")) = 0
           /\ api = "kpu_start" =>
                 /\ Len(Code("inp")) = 1 /\ Len(Code("ready")) = 8
                 /\ Code("inp")[1] = "input"
                 /\ Code("ready")[1] = "iclear" /\ Code("ready")[2] = "output"
                 /\ Code("ready")[3] = "maskAll" /\ Code("ready")[4] = "clear"
                 /\ Code("ready")[5] = "enable" /\ Code("ready")[6] = "clear"
                 /\ Code("ready")[7] = "push" /\ Code("ready")[8] = "maskDone"
           /\ api # "kpu_start" =>
                 /\ Len(Code("inp")) = 2 /\ Len(Code("ready")) = 6
                 /\ Code("inp")[1] = "enable" /\ Code("inp")[2] = "input"
                 /\ Code("ready")[1] = "clear" /\ Code("ready")[2] = "iclear"
                 /\ Code("ready")[3] = "output" /\ Code("ready")[4] = "maskNone"
                 /\ Code("ready")[5] = "clear" /\ Code("ready")[6] = "push"
           /\ Len(Code("ends")) = 4 /\ Len(Code("ai")) = 2
           /\ Code("ends")[1] = "iclear" /\ Code("ends")[2] = "free"
           /\ Code("ends")[3] = "told" /\ Code("ends")[4] = "call"
           /\ Code("ai")[1] = "clear" /\ Code("ai")[2] = "push"
<1> USE DEF Code, Stmts
<1>1. Code("rest") = <<>> /\ Code("rest") \in Seq(Stmts)
  OBVIOUS
<1>2. Code("inp") = IF api = "kpu_start" THEN <<"input">> ELSE <<"enable", "input">>
  BY DEF Inp
<1>3. Code("ready") = IF api = "kpu_start" THEN DataReady ELSE PushLayers
  BY DEF Ready
<1>4. Code("ends") = <<"iclear", "free", "told", "call">> /\ Code("ai") = <<"clear", "push">>
  OBVIOUS
<1>5. <<"input">> \in Seq(Stmts) /\ <<"enable", "input">> \in Seq(Stmts)
      /\ <<"iclear", "free", "told", "call">> \in Seq(Stmts) /\ <<"clear", "push">> \in Seq(Stmts)
  OBVIOUS
<1>6. DataReady \in Seq(Stmts) /\ PushLayers \in Seq(Stmts)
  BY DEF DataReady, PushLayers
<1> HIDE DEF Code
<1>7. \A p \in PlainProgs : Code(p) \in Seq(Stmts)
  <2> HIDE DEF Stmts
  <2> QED
    BY <1>1, <1>2, <1>3, <1>4, <1>5, <1>6 DEF PlainProgs
<1>8. CASE api = "kpu_start"
  <2>1. Code("inp") = <<"input">> /\ Code("ready") = DataReady
    BY <1>2, <1>3, <1>8
  <2> HIDE DEF Stmts
  <2> QED
    BY <1>1, <1>4, <1>7, <1>8, <2>1 DEF DataReady
<1>9. CASE api # "kpu_start"
  <2>1. Code("inp") = <<"enable", "input">> /\ Code("ready") = PushLayers
    BY <1>2, <1>3, <1>9
  <2> HIDE DEF Stmts
  <2> QED
    BY <1>1, <1>4, <1>7, <1>9, <2>1 DEF PushLayers
<1> QED
  BY <1>8, <1>9

(* The top frame, in words of its program. *)
PlainNow(low, s, p, k, i) ==
    /\ low \in Seq(Frames) /\ FrameOf(s, p, k, After(s), i) \in Frames
    /\ stack = Append(low, FrameOf(s, p, k, After(s), i))
    /\ Frame = FrameOf(s, p, k, After(s), i) /\ Front(stack) = low
    /\ Frame.src = s /\ Frame.i = i /\ After(s) \in Seq(Stmts)
    /\ p \in PlainProgs /\ k \in 0 .. Len(Code(p)) /\ Code(p) \in Seq(Stmts)
    /\ p = "rest" <=> k = Len(Code(p))
    /\ Frame.todo = Rest(Code(p), k) \o After(s)
    /\ p = "rest" => Frame.todo = After(s)
    /\ p # "rest" => /\ Frame.todo # <<>> /\ Head(Frame.todo) = Code(p)[k + 1]
                     /\ Tail(Frame.todo) = Rest(Code(p), k + 1) \o After(s)
    /\ s \in InService
    /\ s # "dma" /\ "dma" \in InService => s = "ai"
    /\ (\E e : low = <<MainRests, DmaEnds(e)>>) => "dma" \in InService
    /\ "ai" \in InService => s = "ai"
    /\ low # <<>> => stack[1] = low[1]

LEMMA PlainFrame ==
    ASSUME ~Kmodel, NEW low, NEW s, NEW p, NEW k, NEW i, NEW j, NEW ii,
           PlainShape(low, s, p, k, i, j, ii)
    PROVE  PlainNow(low, s, p, k, i)
<1> DEFINE r == After(s)
           f == FrameOf(s, p, k, r, i)
<1>1. stack = Append(low, f) /\ k \in 0 .. Len(Code(p)) /\ (k = Len(Code(p)) => p = "rest")
      /\ i \in Nat /\ ii \in Nat /\ p \in PlainProgs /\ s \in Sources \cup {"main"} /\ j \in Places
  BY DEF PlainShape, PlainProgs, Sources
<1>2. Main \in Seq(Stmts) /\ <<>> \in Seq(Stmts)
  BY DEF Main, Stmts
<1>3. r \in Seq(Stmts) /\ Code(p) \in Seq(Stmts)
  BY <1>1, <1>2, PlainCode DEF After
<1>4. p = "rest" <=> k = Len(Code(p))
  BY <1>1, PlainCode
<1>5. f \in Frames /\ f.src = s /\ f.i = i /\ f.todo = Rest(Code(p), k) \o r
  BY <1>1, <1>3, RestStep DEF FrameOf, Frames
<1>6. MainRests \in Frames /\ DmaRests \in Frames
  BY <1>2 DEF MainRests, DmaRests, Frames, Main, Sources
<1>7. j \in {6, 7} /\ api = "kpu_start" => Suspended(j, ii) \in Frames
  <2> SUFFICES ASSUME j \in {6, 7}, api = "kpu_start" PROVE Suspended(j, ii) \in Frames
    OBVIOUS
  <2>1. j \in 0 .. Len(Code("ready")) /\ Code("ready") \in Seq(Stmts)
    <3>1. "ready" \in PlainProgs
      BY DEF PlainProgs
    <3>2. Code("ready") \in Seq(Stmts) /\ Len(Code("ready")) = 8
      BY <3>1, PlainCode
    <3>3. j \in 0 .. 8
      BY <1>1
    <3> QED
      BY <3>2, <3>3
  <2>2. Rest(Code("ready"), j) \o Main \in Seq(Stmts)
    BY <1>2, <2>1, RestStep
  <2> QED
    BY <1>1, <2>2 DEF Suspended, FrameOf, Frames, Main
<1>19. ASSUME NEW e \in 0 .. 3 PROVE DmaEnds(e) \in Frames
  <2>1. "ends" \in PlainProgs
    BY DEF PlainProgs
  <2>2. Code("ends") \in Seq(Stmts) /\ Len(Code("ends")) = 4
    BY <2>1, PlainCode
  <2>3. e \in 0 .. Len(Code("ends"))
    <3>1. e \in 0 .. 4
      OBVIOUS
    <3> QED
      BY <2>2, <3>1
  <2>4. Rest(Code("ends"), e) \o <<>> \in Seq(Stmts)
    BY <1>2, <2>2, <2>3, RestStep
  <2> QED
    BY <2>4 DEF DmaEnds, FrameOf, Frames, Sources
<1>8. low \in Seq(Frames)
  <2>1. \/ low = <<>> \/ low = <<MainRests>> \/ low = <<MainRests, DmaRests>>
        \/ j \in {6, 7} /\ api = "kpu_start" /\ low = <<Suspended(j, ii)>>
        \/ \E e \in 0 .. 3 : low = <<MainRests, DmaEnds(e)>>
    <3>1. j \in 10 .. 13 => j - 10 \in 0 .. 3
      OBVIOUS
    <3> QED
      BY <3>1 DEF PlainShape
  <2>2. \A f1, f2 \in Frames : <<>> \in Seq(Frames) /\ <<f1>> \in Seq(Frames) /\ <<f1, f2>> \in Seq(Frames)
    OBVIOUS
  <2> QED
    BY <2>1, <2>2, <1>6, <1>7, <1>19
<1> HIDE DEF r, f
<1>9. Last(stack) = f /\ Front(stack) = low
      /\ stack \in Seq(Frames) /\ Len(stack) = Len(low) + 1 /\ Len(low) \in Nat
      /\ (\A l \in 1 .. Len(low) : stack[l] = low[l]) /\ stack[Len(low) + 1] = f
  BY <1>1, <1>5, <1>8, TopOf
<1>10. InService = {s} \cup {low[l].src : l \in 1 .. Len(low)}
  BY <1>5, <1>9 DEF InService
<1>11. k < Len(Code(p)) => /\ f.todo # <<>> /\ Head(f.todo) = Code(p)[k + 1]
                            /\ Tail(f.todo) = Rest(Code(p), k + 1) \o r
  <2> DEFINE c == Code(p)
  <2> HIDE DEF c
  <2>1. c \in Seq(Stmts) /\ r \in Seq(Stmts) /\ k \in 0 .. Len(c)
    BY <1>1, <1>3 DEF c
  <2>2. k < Len(c) => /\ Rest(c, k) \o r # <<>>
                      /\ Head(Rest(c, k) \o r) = c[k + 1]
                      /\ Tail(Rest(c, k) \o r) = Rest(c, k + 1) \o r
    BY <2>1, RestStep
  <2>3. f.todo = Rest(c, k) \o r
    BY <1>5 DEF c
  <2> QED
    BY <2>2, <2>3 DEF c
<1>12. k = Len(Code(p)) => f.todo = r
  BY <1>1, <1>3, <1>5, RestStep
<1>13. p # "rest" => k < Len(Code(p))
  BY <1>1, <1>3, <1>4
<1>14. Frame = f
  BY <1>9 DEF Frame
<1>15. /\ low \in Seq(Frames) /\ f \in Frames /\ Frame = f /\ stack = Append(low, f)
       /\ Front(stack) = low
       /\ Frame.src = s /\ Frame.i = i /\ r \in Seq(Stmts)
       /\ Frame.todo = Rest(Code(p), k) \o r
       /\ p = "rest" => Frame.todo = r
       /\ p # "rest" => /\ Frame.todo # <<>> /\ Head(Frame.todo) = Code(p)[k + 1]
                        /\ Tail(Frame.todo) = Rest(Code(p), k + 1) \o r
  BY <1>1, <1>3, <1>4, <1>5, <1>8, <1>9, <1>11, <1>12, <1>13, <1>14
<1>16. /\ s \in InService
       /\ s # "dma" /\ "dma" \in InService => s = "ai"
       /\ "ai" \in InService => s = "ai"
  <2>1. CASE low = <<>>
    BY <1>10, <2>1
  <2>2. CASE low = <<MainRests>>
    BY <1>10, <2>2 DEF MainRests
  <2>3. CASE low = <<MainRests, DmaRests>>
    <3>1. s = "ai"
      BY <2>3 DEF PlainShape
    <3> QED
      BY <1>10, <2>3, <3>1
  <2>4. CASE low = <<Suspended(j, ii)>> /\ s = "dma"
    BY <1>10, <2>4 DEF Suspended, FrameOf
  <2>5. CASE low = <<MainRests, DmaEnds(j - 10)>> /\ s = "ai"
    BY <1>10, <2>5
  <2> QED
    BY <2>1, <2>2, <2>3, <2>4, <2>5 DEF PlainShape
<1>20. ASSUME NEW e, low = <<MainRests, DmaEnds(e)>> PROVE "dma" \in InService
  <2>1. 2 \in 1 .. Len(low) /\ low[2] = DmaEnds(e)
    BY <1>20
  <2>2. DmaEnds(e).src = "dma"
    BY DEF DmaEnds, FrameOf
  <2> QED
    BY <1>10, <2>1, <2>2
<1>17. low # <<>> => stack[1] = low[1]
  BY <1>8, <1>9, EmptySeq
<1>18. f = FrameOf(s, p, k, After(s), i) /\ r = After(s)
  BY DEF f, r
<1> QED
  BY <1>1, <1>3, <1>4, <1>15, <1>16, <1>17, <1>18, <1>20 DEF PlainNow

(* A frame goes on to the next statement of its program, or rests. *)
NextAt(p, k, q, m) == IF k + 1 = Len(Code(p)) THEN q = "rest" /\ m = 0 ELSE q = p /\ m = k + 1

LEMMA PlainSame ==
    ASSUME ~Kmodel, api' = api, input' = input
    PROVE  /\ \A p \in PlainProgs : Code(p)' = Code(p)
           /\ \A s, p, k, r, i : p \in PlainProgs => FrameOf(s, p, k, r, i)' = FrameOf(s, p, k, r, i)
           /\ \A j, ii : Suspended(j, ii)' = Suspended(j, ii)
           /\ \A e : DmaEnds(e)' = DmaEnds(e)
           /\ PushPos' = PushPos /\ OutPos' = OutPos /\ ~Kmodel'
<1>1. ASSUME NEW p \in PlainProgs PROVE Code(p)' = Code(p)
  <2>1. Inp' = Inp /\ Ready' = Ready
    BY DEF Inp, Ready, DataReady, PushLayers
  <2>2. CASE p = "rest"
    BY <2>2 DEF Code
  <2>3. CASE p = "inp"
    BY <2>1, <2>3 DEF Code
  <2>4. CASE p = "ready"
    BY <2>1, <2>4 DEF Code
  <2>5. CASE p = "ends"
    BY <2>5 DEF Code
  <2>6. CASE p = "ai"
    BY <2>6 DEF Code
  <2> QED
    BY <2>2, <2>3, <2>4, <2>5, <2>6 DEF PlainProgs
<1>2. ASSUME NEW s, NEW p \in PlainProgs, NEW k, NEW r, NEW i
      PROVE  FrameOf(s, p, k, r, i)' = FrameOf(s, p, k, r, i)
  BY <1>1 DEF FrameOf
<1>3. \A j, ii : Suspended(j, ii)' = Suspended(j, ii)
  BY <1>2 DEF Suspended, PlainProgs
<1>4. \A e : DmaEnds(e)' = DmaEnds(e)
  BY <1>2 DEF DmaEnds, PlainProgs
<1> QED
  BY <1>1, <1>2, <1>3, <1>4 DEF PushPos, OutPos, Kmodel

LEMMA PlainNext ==
    ASSUME ~Kmodel, api' = api, input' = input,
           NEW low, NEW s, NEW p, NEW k, NEW i, NEW j, NEW ii, PlainShape(low, s, p, k, i, j, ii),
           p # "rest", stack' = Append(low, [src |-> s, todo |-> Tail(Frame.todo), i |-> 0])
    PROVE  \E q, m : PlainShape(low, s, q, m, 0, j, ii)' /\ NextAt(p, k, q, m)
<1>1. /\ p \in PlainProgs /\ k \in 0 .. Len(Code(p)) /\ Code(p) \in Seq(Stmts)
      /\ p = "rest" <=> k = Len(Code(p))
      /\ After(s) \in Seq(Stmts)
      /\ Tail(Frame.todo) = Rest(Code(p), k + 1) \o After(s)
  <2>1. PlainNow(low, s, p, k, i)
    BY PlainFrame
  <2> QED
    BY <2>1 DEF PlainNow
<1>2. k \in Nat /\ Len(Code(p)) \in Nat /\ k < Len(Code(p))
  BY <1>1
<1>3. CASE k + 1 = Len(Code(p))
  <2>1. Rest(Code(p), k + 1) \o After(s) = After(s)
    <3> DEFINE c == Code(p)
               m == k + 1
    <3>1. c \in Seq(Stmts) /\ m \in 0 .. Len(c) /\ m = Len(c)
      BY <1>1, <1>2, <1>3
    <3> HIDE DEF c, m
    <3>2. Rest(c, m) \o After(s) = After(s)
      BY <1>1, <3>1, RestStep
    <3> QED
      BY <3>2 DEF c, m
  <2>2. Code("rest") = <<>> /\ "rest" \in PlainProgs
    BY PlainCode DEF PlainProgs
  <2>3. Rest(Code("rest"), 0) \o After(s) = After(s)
    <3>1. <<>> \in Seq(Stmts) /\ Len(<<>>) = 0
      BY EmptySeq
    <3>2. 0 \in 0 .. Len(<<>>) /\ 0 = Len(<<>>)
      BY <3>1
    <3>3. Rest(<<>>, 0) \o After(s) = After(s)
      BY <1>1, <3>1, <3>2, RestStep
    <3> QED
      BY <2>2, <3>3
  <2>4. stack' = Append(low, FrameOf(s, "rest", 0, After(s), 0)')
    BY <1>1, <2>1, <2>2, <2>3, PlainSame DEF FrameOf
  <2>5. PlainShape(low, s, "rest", 0, 0, j, ii)'
    <3>1. Code("rest")' = Code("rest") /\ Len(Code("rest")) = 0
      BY <2>2, PlainSame, PlainCode
    <3>2. (\A jj, iii : Suspended(jj, iii)' = Suspended(jj, iii)) /\ \A e : DmaEnds(e)' = DmaEnds(e)
      BY PlainSame
    <3> QED
      BY <2>2, <2>4, <3>1, <3>2 DEF PlainShape, MainRests, DmaRests
  <2> QED
    BY <1>3, <2>5 DEF NextAt
<1>4. CASE k + 1 # Len(Code(p))
  <2>1. stack' = Append(low, FrameOf(s, p, k + 1, After(s), 0)')
    BY <1>1, PlainSame DEF FrameOf
  <2>2. PlainShape(low, s, p, k + 1, 0, j, ii)'
    <3>1. Code(p)' = Code(p) /\ PushPos' = PushPos
      BY <1>1, PlainSame
    <3>2. (\A jj, iii : Suspended(jj, iii)' = Suspended(jj, iii)) /\ \A e : DmaEnds(e)' = DmaEnds(e)
      BY PlainSame
    <3> QED
      BY <1>1, <1>2, <1>4, <2>1, <3>1, <3>2, SMTT(30) DEF PlainShape, MainRests, DmaRests
  <2> QED
    BY <1>4, <2>2 DEF NextAt
<1> QED
  BY <1>3, <1>4

LEMMA PlainDone ==
    ASSUME ~Kmodel, api' = api, input' = input,
           NEW low, NEW s, NEW p, NEW k, NEW i, NEW j, NEW ii, PlainShape(low, s, p, k, i, j, ii),
           p # "rest", i = 0, Done
    PROVE  \E q, m : PlainShape(low, s, q, m, 0, j, ii)' /\ NextAt(p, k, q, m)
<1> DEFINE f == FrameOf(s, p, k, After(s), i)
<1>0. PlainNow(low, s, p, k, i)
  BY PlainFrame
<1>1. /\ low \in Seq(Frames) /\ f \in Frames /\ stack = Append(low, f) /\ Frame = f
      /\ Frame.src = s /\ Frame.i = i
  BY <1>0 DEF PlainNow
<1>2. Tail(f.todo) \in Seq(Stmts)
  <2>1. /\ p \in PlainProgs /\ k \in 0 .. Len(Code(p)) /\ Code(p) \in Seq(Stmts)
        /\ p = "rest" <=> k = Len(Code(p))
        /\ After(s) \in Seq(Stmts)
        /\ Tail(Frame.todo) = Rest(Code(p), k + 1) \o After(s)
    BY <1>0 DEF PlainNow
  <2>2. k + 1 \in 0 .. Len(Code(p))
    BY <2>1
  <2>3. Rest(Code(p), k + 1) \o After(s) \in Seq(Stmts)
    BY <2>1, <2>2, RestStep
  <2> QED
    BY <1>1, <2>1, <2>3
<1> HIDE DEF f
<1>3. stack' = Append(low, [f EXCEPT !.todo = <<>> \o Tail(@)])
  BY <1>1, ThenTop DEF Done
<1>4. <<>> \o Tail(f.todo) = Tail(f.todo)
  BY <1>2, ConcatEmptySeq
<1>5. [f EXCEPT !.todo = <<>> \o Tail(@)] = [src |-> s, todo |-> Tail(Frame.todo), i |-> 0]
  <2> DEFINE t == <<>> \o Tail(f.todo)
  <2>1. t = Tail(Frame.todo) /\ f.src = s /\ f.i = 0
    BY <1>1, <1>4
  <2> HIDE DEF t
  <2>2. [f EXCEPT !.todo = t] = [src |-> s, todo |-> t, i |-> 0]
    <3>1. f = [src |-> s, todo |-> Rest(Code(p), k) \o After(s), i |-> 0]
      BY DEF f, FrameOf
    <3> QED
      BY <3>1
  <2> QED
    BY <2>1, <2>2 DEF t
<1>6. stack' = Append(low, [src |-> s, todo |-> Tail(Frame.todo), i |-> 0])
  BY <1>3, <1>5
<1> QED
  BY <1>6, PlainNext

(* The statement at hand tells the place in the program. *)
PlainStmt(s, p, k) ==
    /\ At("call") => (p = "rest" /\ s = "main") \/ (p = "ends" /\ k = 3)
    /\ At("free") => p = "ends" /\ k = 1
    /\ At("told") => p = "ends" /\ k = 2
    /\ At("iclear") => \/ p = "ends" /\ k = 0
                       \/ p = "ready" /\ k = IF api = "kpu_start" THEN 0 ELSE 1
    /\ At("output") => p = "ready" /\ k = OutPos
    /\ At("maskAll") => p = "ready" /\ k = 2 /\ api = "kpu_start"
    /\ At("maskDone") => p = "ready" /\ k = 7 /\ api = "kpu_start"
    /\ At("maskNone") => p = "ready" /\ k = 3 /\ api # "kpu_start"
    /\ ~At("maskEmpty") /\ ~At("send") /\ ~At("step") /\ ~At("irqOff") /\ ~At("irqOn")
    /\ At("clear") => \/ p = "ai" /\ k = 0
                      \/ p = "ready" /\ k \in IF api = "kpu_start" THEN {3, 5} ELSE {0, 4}
    /\ At("enable") => \/ p = "inp" /\ k = 0 /\ api # "kpu_start"
                       \/ p = "ready" /\ k = 4 /\ api = "kpu_start"
    /\ At("input") => p = "inp" /\ k = IF api = "kpu_start" THEN 0 ELSE 1
    /\ At("push") => (p = "ai" /\ k = 1) \/ (p = "ready" /\ k = PushPos)

PlainLens ==
    /\ Len(Code("rest")) = 0 /\ Len(Code("ends")) = 4 /\ Len(Code("ai")) = 2
    /\ Len(Code("inp")) = IF api = "kpu_start" THEN 1 ELSE 2
    /\ Len(Code("ready")) = IF api = "kpu_start" THEN 8 ELSE 6

LEMMA PlainStatement ==
    ASSUME ~Kmodel, NEW low, NEW s, NEW p, NEW k, NEW i, NEW j, NEW ii,
           PlainShape(low, s, p, k, i, j, ii)
    PROVE  PlainStmt(s, p, k) /\ PlainLens /\ k \in 0 .. Len(Code(p)) /\ p \in PlainProgs
<1>1. PlainNow(low, s, p, k, i)
  BY PlainFrame
<1>2. p \in PlainProgs /\ k \in 0 .. Len(Code(p)) /\ (p = "rest" <=> k = Len(Code(p)))
  BY <1>1 DEF PlainNow
<1>3. PlainLens
  BY PlainCode DEF PlainLens
<1>4. p # "rest" => \A x : At(x) <=> Code(p)[k + 1] = x
  BY <1>1 DEF PlainNow, At
<1>5. p = "rest" => \A x : At(x) <=> s = "main" /\ x = "call"
  <2> SUFFICES ASSUME p = "rest", NEW x PROVE At(x) <=> s = "main" /\ x = "call"
    OBVIOUS
  <2>1. Frame.todo = IF s = "main" THEN <<"call">> ELSE <<>>
    BY <1>1 DEF PlainNow, After, Main
  <2>2. <<"call">> # <<>> /\ Head(<<"call">>) = "call"
    OBVIOUS
  <2> HIDE DEF At
  <2>3. CASE s = "main"
    BY <2>1, <2>2, <2>3 DEF At
  <2>4. CASE s # "main"
    BY <2>1, <2>4 DEF At
  <2> QED
    BY <2>3, <2>4
<1> SUFFICES PlainStmt(s, p, k)
  BY <1>2, <1>3
<1>6. CASE p = "rest"
  BY <1>5, <1>6 DEF PlainStmt
<1>13. k \in Nat /\ Len(Code(p)) \in Nat /\ (p # "rest" => k < Len(Code(p)))
  BY <1>1, <1>2 DEF PlainNow
<1>14. /\ p = "inp" => k \in 0 .. (IF api = "kpu_start" THEN 0 ELSE 1)
       /\ p = "ends" => k \in 0 .. 3
       /\ p = "ai" => k \in 0 .. 1
       /\ p = "ready" => k \in 0 .. (IF api = "kpu_start" THEN 7 ELSE 5)
  <2> DEFINE c == Len(Code(p))
  <2>1. /\ p = "inp" => c = IF api = "kpu_start" THEN 1 ELSE 2
        /\ p = "ends" => c = 4
        /\ p = "ai" => c = 2
        /\ p = "ready" => c = IF api = "kpu_start" THEN 8 ELSE 6
    BY <1>3 DEF PlainLens
  <2>2. k \in Nat /\ c \in Nat /\ (p # "rest" => k < c)
    BY <1>13
  <2> HIDE DEF c
  <2>3. CASE api = "kpu_start"
    BY <2>1, <2>2, <2>3
  <2>4. CASE api # "kpu_start"
    BY <2>1, <2>2, <2>4
  <2> QED
    BY <2>3, <2>4
<1>7. CASE p = "inp"
  <2>1. api = "kpu_start" => k = 0 /\ Code(p)[k + 1] = "input"
    BY <1>14, <1>7, PlainCode
  <2>2. api # "kpu_start" => (k = 0 /\ Code(p)[k + 1] = "enable") \/ (k = 1 /\ Code(p)[k + 1] = "input")
    BY <1>14, <1>7, PlainCode
  <2> QED
    BY <1>4, <1>7, <2>1, <2>2 DEF PlainStmt
<1>8. CASE p = "ends"
  <2>1. \/ k = 0 /\ Code(p)[k + 1] = "iclear"
        \/ k = 1 /\ Code(p)[k + 1] = "free"
        \/ k = 2 /\ Code(p)[k + 1] = "told"
        \/ k = 3 /\ Code(p)[k + 1] = "call"
    BY <1>14, <1>8, PlainCode
  <2> QED
    BY <1>4, <1>8, <2>1 DEF PlainStmt
<1>9. CASE p = "ai"
  <2>1. \/ k = 0 /\ Code(p)[k + 1] = "clear"
        \/ k = 1 /\ Code(p)[k + 1] = "push"
    BY <1>14, <1>9, PlainCode
  <2> QED
    BY <1>4, <1>9, <2>1 DEF PlainStmt
<1>10. CASE p = "ready" /\ api = "kpu_start"
  <2>1. \/ k = 0 /\ Code(p)[k + 1] = "iclear"
        \/ k = 1 /\ Code(p)[k + 1] = "output"
        \/ k = 2 /\ Code(p)[k + 1] = "maskAll"
        \/ k = 3 /\ Code(p)[k + 1] = "clear"
        \/ k = 4 /\ Code(p)[k + 1] = "enable"
        \/ k = 5 /\ Code(p)[k + 1] = "clear"
        \/ k = 6 /\ Code(p)[k + 1] = "push"
        \/ k = 7 /\ Code(p)[k + 1] = "maskDone"
    <3>1. k \in 0 .. 7
      BY <1>14, <1>10
    <3> QED
      BY <3>1, <1>10, PlainCode
  <2> QED
    BY <1>4, <1>10, <2>1 DEF PlainStmt, PushPos, OutPos
<1>11. CASE p = "ready" /\ api # "kpu_start"
  <2>1. \/ k = 0 /\ Code(p)[k + 1] = "clear"
        \/ k = 1 /\ Code(p)[k + 1] = "iclear"
        \/ k = 2 /\ Code(p)[k + 1] = "output"
        \/ k = 3 /\ Code(p)[k + 1] = "maskNone"
        \/ k = 4 /\ Code(p)[k + 1] = "clear"
        \/ k = 5 /\ Code(p)[k + 1] = "push"
    <3>1. k \in 0 .. 5
      BY <1>14, <1>11
    <3> QED
      BY <3>1, <1>11, PlainCode
  <2> QED
    BY <1>4, <1>11, <2>1 DEF PlainStmt, PushPos, OutPos
<1> QED
  BY <1>2, <1>6, <1>7, <1>8, <1>9, <1>10, <1>11 DEF PlainProgs

-----------------------------------------------------------------------------
(* The layers in the accelerator and in its queue, and the results sent. *)

LEMMA PipeTake ==
    ASSUME NEW m, Pipe(m), busy = 0, fifo # <<>>, busy' = Head(fifo), fifo' = Tail(fifo),
           computed' = computed
    PROVE  Pipe(m)'
<1>1. fifo \in Seq(Nat) /\ Len(fifo) \in Nat /\ Len(fifo) > 0 /\ Head(fifo) = fifo[1]
      /\ Len(computed) \in Nat
  BY EmptySeq DEF Pipe
<1>2. Tail(fifo) \in Seq(Nat) /\ Len(Tail(fifo)) = Len(fifo) - 1
      /\ \A j \in 1 .. Len(Tail(fifo)) : Tail(fifo)[j] = fifo[j + 1]
  BY <1>1, HeadTailProperties
<1>3. fifo[1] = Len(computed) + 1 /\ m = Len(computed) + Len(fifo)
  BY <1>1 DEF Pipe
<1>4. \A j \in 1 .. Len(fifo') : fifo'[j] = m - Len(fifo') + j
  <2>1. \A j \in 1 .. Len(fifo) : fifo[j] = m - Len(fifo) + j
    BY DEF Pipe
  <2> SUFFICES ASSUME NEW j \in 1 .. Len(fifo') PROVE fifo'[j] = m - Len(fifo') + j
    OBVIOUS
  <2>2. j + 1 \in 1 .. Len(fifo) /\ fifo'[j] = fifo[j + 1] /\ Len(fifo') = Len(fifo) - 1
    BY <1>1, <1>2
  <2>3. fifo[j + 1] = m - Len(fifo) + (j + 1)
    BY <2>1, <2>2
  <2>4. m \in Nat
    BY <1>1, <1>3
  <2> QED
    BY <1>1, <2>2, <2>3, <2>4
<1>5. m = Len(computed') + (IF busy' = 0 THEN 0 ELSE 1) + Len(fifo')
  BY <1>1, <1>2, <1>3
<1> QED
  BY <1>1, <1>2, <1>3, <1>4, <1>5 DEF Pipe

LEMMA PipeCompute ==
    ASSUME NEW m, Pipe(m), busy # 0, busy' = 0, fifo' = fifo, computed' = Append(computed, busy)
    PROVE  Pipe(m)'
<1>1. computed' \in Seq(Nat) /\ Len(computed') = Len(computed) + 1 /\ Len(computed) \in Nat
      /\ (\A j \in 1 .. Len(computed) : computed'[j] = computed[j])
      /\ computed'[Len(computed) + 1] = busy
  BY AppendProperties DEF Pipe
<1>2. \A j \in 1 .. Len(computed') : computed'[j] = j
  BY <1>1 DEF Pipe
<1> QED
  BY <1>1, <1>2 DEF Pipe

Pushed(l) == fifo' = Append(fifo, l) /\ busy' = busy /\ computed' = computed

LEMMA PipePush ==
    ASSUME NEW m, Pipe(m), Pushed(m + 1)
    PROVE  Pipe(m + 1)'
<1>1. m \in Nat /\ Len(computed) \in Nat /\ Len(fifo) \in Nat /\ fifo \in Seq(Nat)
      /\ m = Len(computed) + (IF busy = 0 THEN 0 ELSE 1) + Len(fifo)
  BY DEF Pipe
<1>2. fifo' \in Seq(Nat) /\ Len(fifo') = Len(fifo) + 1
      /\ (\A j \in 1 .. Len(fifo) : fifo'[j] = fifo[j])
      /\ fifo'[Len(fifo) + 1] = m + 1
      /\ Len(computed') = Len(computed) /\ busy' = busy
  BY <1>1, AppendProperties DEF Pushed
<1>3. \A j \in 1 .. Len(fifo') : fifo'[j] = m + 1 - Len(fifo') + j
  <2>1. \A j \in 1 .. Len(fifo) : fifo[j] = m - Len(fifo) + j
    BY DEF Pipe
  <2> SUFFICES ASSUME NEW j \in 1 .. Len(fifo') PROVE fifo'[j] = m + 1 - Len(fifo') + j
    OBVIOUS
  <2> DEFINE d == Len(fifo)
  <2>4. d \in Nat /\ Len(fifo') = d + 1 /\ m \in Nat /\ j \in 1 .. d + 1 /\ fifo'[d + 1] = m + 1
        /\ \A l \in 1 .. d : fifo'[l] = fifo[l] /\ fifo[l] = m - d + l
    BY <1>1, <1>2, <2>1
  <2> HIDE DEF d
  <2>2. CASE j = d + 1
    BY <2>2, <2>4
  <2>3. CASE j # d + 1
    <3>1. j \in 1 .. d
      BY <2>3, <2>4
    <3>2. fifo'[j] = m - d + j
      BY <2>4, <3>1
    <3> QED
      BY <2>4, <3>2
  <2> QED
    BY <2>2, <2>3
<1>4. m + 1 = Len(computed') + (IF busy' = 0 THEN 0 ELSE 1) + Len(fifo')
  <2>1. \A a, c \in Nat : \A b \in {0, 1} : m = a + b + c => m + 1 = a + b + (c + 1)
    OBVIOUS
  <2> DEFINE b == IF busy = 0 THEN 0 ELSE 1
  <2>2. b \in {0, 1} /\ b = IF busy' = 0 THEN 0 ELSE 1
    BY <1>2
  <2>3. m = Len(computed) + b + Len(fifo)
    BY <1>1
  <2> HIDE DEF b
  <2>4. m + 1 = Len(computed) + b + (Len(fifo) + 1)
    BY <1>1, <2>1, <2>2, <2>3
  <2> QED
    BY <1>2, <2>2, <2>4
<1>5. /\ computed' \in Seq(Nat) /\ fifo' \in Seq(Nat) /\ busy' \in Nat
      /\ \A j \in 1 .. Len(computed') : computed'[j] = j
      /\ busy' # 0 => busy' = Len(computed') + 1
  BY <1>2 DEF Pipe, Pushed
<1> QED
  BY <1>3, <1>4, <1>5 DEF Pipe

(* What Pipe says of the numbers. *)
LEMMA PipeNumbers ==
    ASSUME NEW m, Pipe(m)
    PROVE  /\ m \in Nat /\ Len(computed) \in Nat /\ Len(computed) <= m
           /\ Len(computed) = m => busy = 0 /\ fifo = <<>>
           /\ busy = 0 /\ fifo = <<>> => Len(computed) = m
           /\ busy # 0 => busy = Len(computed) + 1 /\ Len(computed) < m
           /\ fifo # <<>> => Len(computed) < m
<1>1. Len(computed) \in Nat /\ Len(fifo) \in Nat /\ (fifo = <<>> <=> Len(fifo) = 0)
  BY EmptySeq DEF Pipe
<1> QED
  BY <1>1 DEF Pipe

LEMMA PipeSame ==
    ASSUME NEW m, Pipe(m), fifo' = fifo, busy' = busy, computed' = computed
    PROVE  Pipe(m)'
BY DEF Pipe

(* One layer more is computed. *)
LEMMA SentMore ==
    ASSUME NEW m \in Nat
    PROVE  /\ Sent(m) \in Nat /\ Sent(0) = 0
           /\ Sent(m + 1) = Sent(m) + (IF SendsOut(m + 1) THEN 1 ELSE 0)
<1> DEFINE S(k) == {l \in 1 .. k : SendsOut(l)}
<1>1. \A k \in Nat : IsFiniteSet(S(k)) /\ Cardinality(S(k)) \in Nat
  <2> SUFFICES ASSUME NEW k \in Nat PROVE IsFiniteSet(S(k)) /\ Cardinality(S(k)) \in Nat
    OBVIOUS
  <2>1. IsFiniteSet(1 .. k) /\ S(k) \subseteq 1 .. k
    BY FS_Interval
  <2>2. IsFiniteSet(S(k))
    BY <2>1, FS_Subset
  <2> QED
    BY <2>2, FS_CardinalityType
<1>2. S(0) = {}
  OBVIOUS
<1>3. CASE SendsOut(m + 1)
  <2>1. S(m + 1) = S(m) \cup {m + 1} /\ (m + 1) \notin S(m)
    BY <1>3
  <2> HIDE DEF S
  <2> QED
    BY <1>1, <1>2, <1>3, <2>1, FS_AddElement, FS_EmptySet DEF Sent, S
<1>4. CASE ~SendsOut(m + 1)
  <2>1. S(m + 1) = S(m)
    BY <1>4
  <2> QED
    BY <1>1, <1>2, <1>4, <2>1, FS_EmptySet DEF Sent
<1> QED
  BY <1>3, <1>4

LEMMA CountedSame ==
    ASSUME Counted, UNCHANGED <<model, computed, delivered, outReady>>
    PROVE  Counted'
BY DEF Counted, Sent, SendsOut

(* The networks of kpu_start and kpu_run send the result of the last layer. *)
LEMMA PlainModel ==
    ASSUME Common, ~Kmodel
    PROVE  /\ L \in Nat /\ L > 0 /\ api \in {"kpu_start", "kpu_run"}
           /\ \A l \in 1 .. L : SendsOut(l) <=> l = L
<1>1. api \in {"kpu_start", "kpu_run"} /\ model \in Models[api] /\ api \in Interfaces
  BY DEF Common, Interfaces, Kmodel
<1>2. model \in Seq(Kinds) /\ model # <<>>
      /\ \A l \in 1 .. Len(model) : model[l] = IF l = Len(model) THEN "out" ELSE "conv"
  BY <1>1, ModelsAssumption
<1> QED
  BY <1>1, <1>2, EmptySeq DEF L, SendsOut

LEMMA PlainShapeSame ==
    ASSUME ~Kmodel, api' = api, input' = input, stack' = stack,
           NEW low, NEW s, NEW p, NEW k, NEW i, NEW j, NEW ii, PlainShape(low, s, p, k, i, j, ii)
    PROVE  PlainShape(low, s, p, k, i, j, ii)'
<1>1. p \in PlainProgs
  BY DEF PlainShape, PlainProgs
<1>2. /\ Code(p)' = Code(p) /\ PushPos' = PushPos
      /\ FrameOf(s, p, k, After(s), i)' = FrameOf(s, p, k, After(s), i)
      /\ Suspended(j, ii)' = Suspended(j, ii) /\ DmaEnds(j - 10)' = DmaEnds(j - 10)
  BY <1>1, PlainSame
<1> QED
  BY <1>2 DEF PlainShape, MainRests, DmaRests

(* The numbers a step is about. *)
LEMMA PlainNumbers ==
    ASSUME Common, ~Kmodel, NEW low, NEW s, NEW p, NEW k, NEW i, NEW j, NEW ii,
           PlainAt(low, s, p, k, i, j, ii)
    PROVE  /\ at \in Nat /\ i \in Nat /\ ii \in Nat /\ k \in Nat /\ j \in Places
           /\ at + i + ii \in Nat /\ at + i + ii <= L
           /\ Len(computed) \in Nat /\ Len(computed) <= at + i + ii
           /\ Len(computed) = L => busy = 0 /\ fifo = <<>> /\ at + i + ii = L
           /\ busy = 0 /\ fifo = <<>> => Len(computed) = at + i + ii
           /\ busy # 0 => busy = Len(computed) + 1 /\ Len(computed) < at + i + ii
           /\ fifo # <<>> => Len(computed) < at + i + ii
<1>1. Pipe(at + i + ii) /\ at + i + ii <= L /\ i \in Nat /\ ii \in Nat /\ at \in Nat /\ j \in Places
  BY DEF PlainAt, PlainShape, PlainData, Common
<1>2. k \in Nat /\ L \in Nat
  BY PlainStatement, PlainModel DEF PlainAt
<1> DEFINE w == at + i + ii
<1>3. Pipe(w) /\ w <= L /\ w \in Nat
  BY <1>1
<1> HIDE DEF w
<1>4. /\ Len(computed) \in Nat /\ Len(computed) <= w
      /\ Len(computed) = w => busy = 0 /\ fifo = <<>>
      /\ busy = 0 /\ fifo = <<>> => Len(computed) = w
      /\ busy # 0 => busy = Len(computed) + 1 /\ Len(computed) < w
      /\ fifo # <<>> => Len(computed) < w
  BY <1>3, PipeNumbers
<1>5. Len(computed) = L => Len(computed) = w
  BY <1>2, <1>3, <1>4
<1> QED
  BY <1>1, <1>2, <1>3, <1>4, <1>5 DEF w

-----------------------------------------------------------------------------
(* kpu_start and kpu_run: the hardware. *)

LEMMA PlainTake ==
    ASSUME Common, ~Kmodel, NEW low, NEW s, NEW p, NEW k, NEW i, NEW j, NEW ii,
           PlainAt(low, s, p, k, i, j, ii), Take
    PROVE  Common' /\ PlainAt(low, s, p, k, i, j, ii)'
<1> DEFINE w == at + i + ii
<1>1. /\ w \in Nat /\ Len(computed) \in Nat /\ L \in Nat
      /\ Len(computed) = L => fifo = <<>>
      /\ fifo # <<>> => Len(computed) < w
  BY PlainNumbers, PlainModel
<1>2. /\ busy = 0 /\ fifo # <<>> /\ busy' = Head(fifo) /\ fifo' = Tail(fifo)
      /\ status' = IF Len(fifo) <= 2 THEN status \cup {"almost_empty"} ELSE status
      /\ UNCHANGED <<api, model, also, input, mask, outReady, dma, dmaDone, dmaCb, aiEnabled, pend,
                     irqOff, stack, flag, at, n, told, arrived, computed, delivered>>
  BY DEF Take, runVars, dmaVars, plicVars, taskVars, dataVars
<1>3. PlainShape(low, s, p, k, i, j, ii)' /\ w' = w /\ L' = L /\ OutPos' = OutPos /\ PushPos' = PushPos
      /\ Len(computed)' = Len(computed) /\ ~Kmodel'
  BY <1>2, PlainShapeSame DEF PlainAt, L, OutPos, PushPos, Kmodel
<1>4. Pipe(w)'
  BY <1>2, PipeTake DEF PlainAt, PlainData
<1>5. Common'
  BY <1>2, CountedSame DEF Common, Status
<1> USE DEF PlainAt, PlainData
<1> HIDE DEF w
<1>6. PlainData(s, p, k, j, w)
  BY DEF w
<1>7. ClosedFacts(p, k, j)'
  BY <1>1, <1>2, <1>3, <1>6 DEF ClosedFacts, DmaFacts, AiFacts, Open
<1>8. DmaFacts(s, p, k, w)'
  BY <1>1, <1>2, <1>3, <1>6 DEF DmaFacts, AiFacts, Quiet, Open, Common, Status
<1>9. AiFacts(p, k, w)'
  BY <1>1, <1>2, <1>3, <1>6 DEF DmaFacts, AiFacts, Quiet, Common, Status, PushPos
<1> QED
  BY <1>1, <1>2, <1>3, <1>4, <1>5, <1>6, <1>7, <1>8, <1>9 DEF w, SuspendedFacts

LEMMA PlainCompute ==
    ASSUME Common, ~Kmodel, NEW low, NEW s, NEW p, NEW k, NEW i, NEW j, NEW ii,
           PlainAt(low, s, p, k, i, j, ii), Compute
    PROVE  Common' /\ PlainAt(low, s, p, k, i, j, ii)'
<1> DEFINE w == at + i + ii
           c == Len(computed)
<1>1. /\ w \in Nat /\ w <= L /\ c \in Nat /\ L \in Nat
      /\ busy # 0 => busy = c + 1 /\ c < w
      /\ c + 1 \in 1 .. L => (SendsOut(c + 1) <=> c + 1 = L)
  BY PlainNumbers, PlainModel
<1>2. /\ busy # 0 /\ busy' = 0 /\ computed' = Append(computed, busy)
      /\ SendsOut(busy) => ~outReady
      /\ status' = IF Interrupts(busy) THEN status \cup {"calc_done"} ELSE status
      /\ outReady' = (outReady \/ SendsOut(busy))
      /\ UNCHANGED <<api, model, also, input, mask, fifo, dma, dmaDone, dmaCb, aiEnabled, pend,
                     irqOff, stack, flag, at, n, told, arrived, delivered>>
  BY DEF Compute, runVars, dmaVars, plicVars, taskVars
<1>3. PlainShape(low, s, p, k, i, j, ii)' /\ w' = w /\ L' = L /\ OutPos' = OutPos /\ PushPos' = PushPos
      /\ ~Kmodel'
  BY <1>2, PlainShapeSame DEF PlainAt, L, OutPos, PushPos, Kmodel
<1>4. Pipe(w)'
  BY <1>2, PipeCompute DEF PlainAt, PlainData
<1>5. c' = c + 1 /\ busy = c + 1 /\ c + 1 <= w /\ w > 0 /\ (SendsOut(busy) <=> c + 1 = L)
  <2>1. c' = c + 1
    BY <1>2, AppendProperties DEF PlainAt, PlainData, Pipe
  <2> HIDE DEF w, c
  <2> QED
    BY <1>1, <1>2, <2>1
<1>6. /\ outReady' = (outReady \/ c + 1 = L) /\ (c + 1 = L => ~outReady)
      /\ (outReady' => (outReady \/ c + 1 = L))
  BY <1>2, <1>5
<1>7. Counted'
  <2>1. /\ Sent(c + 1) = Sent(c) + (IF SendsOut(c + 1) THEN 1 ELSE 0) /\ Sent(c) \in Nat
        /\ Sent(c) = delivered + (IF outReady THEN 1 ELSE 0)
    BY <1>1, SentMore DEF Common, Counted
  <2>2. Sent(c)' = Sent(c')
    BY <1>2 DEF Sent, SendsOut
  <2>4. outReady \in BOOLEAN
    BY DEF Common
  <2> HIDE DEF c
  <2>3. Sent(c)' = delivered + (IF outReady' THEN 1 ELSE 0)
    <3>1. SendsOut(c + 1) <=> c + 1 = L
      BY <1>5
    <3>2. Sent(c)' = Sent(c + 1) /\ delivered \in Nat
      BY <1>5, <2>2 DEF Common
    <3>3. CASE c + 1 = L
      <4>1. Sent(c + 1) = Sent(c) + 1 /\ outReady = FALSE /\ outReady'
        BY <1>6, <2>1, <2>4, <3>1, <3>3
      <4>2. Sent(c) = delivered
        BY <2>1, <3>2, <4>1
      <4> QED
        BY <3>2, <4>1, <4>2
    <3>4. CASE c + 1 # L
      <4>2. Sent(c + 1) = delivered + (IF outReady THEN 1 ELSE 0)
        BY <2>1, <3>1, <3>4
      <4>3. outReady' <=> outReady
        BY <1>6, <2>4, <3>4
      <4> QED
        BY <3>2, <4>2, <4>3
    <3> QED
      BY <3>3, <3>4
  <2> QED
    BY <1>2, <2>3 DEF Counted, c
<1>8. Common'
  BY <1>2, <1>6, <1>7 DEF Common, Status
<1> USE DEF PlainAt, PlainData
<1>9. PlainData(s, p, k, j, w) /\ arrived /\ dma = "out" /\ aiEnabled
  BY <1>2 DEF w, AiFacts
<1>10. j = 0
  <2>1. j \in Places
    BY PlainNumbers
  <2>2. c # L
    <3> HIDE DEF w, c
    <3> QED
      BY <1>1, <1>2
  <2> QED
    BY <1>9, <2>1, <2>2 DEF SuspendedFacts, Places
<1> HIDE DEF w, c
<1>11. ClosedFacts(p, k, j)' /\ p # "ends"
  BY <1>1, <1>2, <1>3, <1>5, <1>9 DEF ClosedFacts, DmaFacts, AiFacts, Open, c
<1>12. DmaFacts(s, p, k, w)'
  BY <1>1, <1>2, <1>3, <1>5, <1>6, <1>9, <1>11 DEF DmaFacts, AiFacts, Open, Common, c
<1>13. AiFacts(p, k, w)'
  BY <1>1, <1>2, <1>3, <1>5, <1>9 DEF DmaFacts, AiFacts, Quiet, Common, Status, PushPos
<1> QED
  BY <1>1, <1>2, <1>3, <1>4, <1>8, <1>9, <1>10, <1>11, <1>12, <1>13 DEF w, SuspendedFacts

LEMMA PlainMove ==
    ASSUME Common, ~Kmodel, NEW low, NEW s, NEW p, NEW k, NEW i, NEW j, NEW ii,
           PlainAt(low, s, p, k, i, j, ii), Move
    PROVE  Common' /\ PlainAt(low, s, p, k, i, j, ii)'
<1> DEFINE w == at + i + ii
           c == Len(computed)
<1>1. /\ w \in Nat /\ w <= L /\ c \in Nat /\ c <= w /\ L \in Nat /\ L > 0
      /\ c = L => busy = 0 /\ fifo = <<>> /\ w = L
      /\ busy = 0 /\ fifo = <<>> => c = w
  BY PlainNumbers, PlainModel
<1>2. /\ (dma = "in" \/ (dma = "out" /\ outReady)) /\ dma' = "off" /\ dmaDone' = TRUE
      /\ IF dma = "in" THEN arrived' = TRUE /\ UNCHANGED <<outReady, delivered>>
         ELSE outReady' = FALSE /\ delivered' = delivered + 1 /\ UNCHANGED arrived
      /\ UNCHANGED <<api, model, also, input, status, mask, fifo, busy, dmaCb, aiEnabled, pend,
                     irqOff, stack, flag, at, n, told, computed>>
  BY DEF Move, runVars, plicVars, taskVars
<1>3. PlainShape(low, s, p, k, i, j, ii)' /\ w' = w /\ L' = L /\ OutPos' = OutPos /\ PushPos' = PushPos
      /\ ~Kmodel' /\ c' = c
  BY <1>2, PlainShapeSame DEF PlainAt, L, OutPos, PushPos, Kmodel
<1>4. Pipe(w)'
  BY <1>2, PipeSame DEF PlainAt, PlainData
<1>5. Counted'
  BY <1>2 DEF Common, Counted, Sent, SendsOut
<1>6. Common'
  <2>1. outReady' \in BOOLEAN /\ arrived' \in BOOLEAN /\ delivered' \in Nat
    <3>1. outReady \in BOOLEAN /\ arrived \in BOOLEAN /\ delivered \in Nat
      BY DEF Common
    <3>2. CASE dma = "in"
      BY <1>2, <3>1, <3>2
    <3>3. CASE dma # "in"
      <4>1. outReady' = FALSE /\ arrived' = arrived /\ delivered' = delivered + 1
        BY <1>2, <3>3
      <4>2. delivered' \in Nat
        BY <3>1, <4>1
      <4> QED
        BY <3>1, <4>1, <4>2
    <3> QED
      BY <3>2, <3>3
  <2> QED
    BY <1>2, <1>5, <2>1 DEF Common, Status
<1>7. PlainData(s, p, k, j, w)
  BY DEF PlainAt
<1> HIDE DEF w
<1>8. /\ ClosedFacts(p, k, j) /\ DmaFacts(s, p, k, w) /\ AiFacts(p, k, w) /\ SuspendedFacts(j)
      /\ (w > 0 => arrived)
      /\ irqOff = FALSE /\ w <= L /\ (p = "inp" \/ (p = "ready" /\ k < PushPos) => w = 0)
  BY <1>7 DEF PlainData
<1>9. CASE dma = "in"
  <2>1. SuspendedFacts(j)' /\ ClosedFacts(p, k, j)'
    BY <1>1, <1>2, <1>3, <1>8, <1>9 DEF ClosedFacts, DmaFacts, Open, SuspendedFacts, Common
  <2>2. DmaFacts(s, p, k, w)'
    BY <1>1, <1>2, <1>3, <1>8, <1>9 DEF ClosedFacts, DmaFacts, AiFacts, Open, Common
  <2>3. AiFacts(p, k, w)'
    BY <1>1, <1>2, <1>3, <1>8, <1>9 DEF DmaFacts, AiFacts, Quiet
  <2> QED
    BY <1>1, <1>2, <1>3, <1>4, <1>6, <1>8, <2>1, <2>2, <2>3 DEF PlainAt, PlainData, w
<1>10. CASE dma = "out"
  <2>1. SuspendedFacts(j)' /\ ClosedFacts(p, k, j)'
    BY <1>1, <1>2, <1>3, <1>8, <1>10 DEF ClosedFacts, DmaFacts, Open, SuspendedFacts, Common
  <2>2. DmaFacts(s, p, k, w)'
    BY <1>1, <1>2, <1>3, <1>8, <1>10 DEF ClosedFacts, DmaFacts, AiFacts, Open, Common
  <2>3. AiFacts(p, k, w)'
    BY <1>1, <1>2, <1>3, <1>8, <1>10 DEF DmaFacts, AiFacts, Quiet
  <2> QED
    BY <1>1, <1>2, <1>3, <1>4, <1>6, <1>8, <1>10, <2>1, <2>2, <2>3 DEF PlainAt, PlainData, w
<1> QED
  BY <1>2, <1>9, <1>10

LEMMA PlainForward ==
    ASSUME Common, ~Kmodel, NEW low, NEW s, NEW p, NEW k, NEW i, NEW j, NEW ii,
           PlainAt(low, s, p, k, i, j, ii), Forward
    PROVE  Common' /\ PlainAt(low, s, p, k, i, j, ii)'
<1> DEFINE w == at + i + ii
<1>1. PlainNow(low, s, p, k, i)
  BY PlainFrame DEF PlainAt
<1>2. PICK x \in Sources :
        /\ Forwarded(x) /\ pend' = pend \cup {x}
        /\ UNCHANGED <<api, model, also, input, status, mask, fifo, busy, outReady, dma, dmaDone, dmaCb,
                       aiEnabled, irqOff, stack, flag, at, n, told, arrived, computed, delivered>>
  BY DEF Forward, runVars, aiVars, dmaVars, taskVars, dataVars
<1>3. PlainShape(low, s, p, k, i, j, ii)' /\ w' = w /\ L' = L /\ OutPos' = OutPos /\ PushPos' = PushPos
      /\ ~Kmodel' /\ Len(computed)' = Len(computed)
  BY <1>2, PlainShapeSame DEF PlainAt, L, OutPos, PushPos, Kmodel
<1>4. Pipe(w)'
  BY <1>2, PipeSame DEF PlainAt, PlainData
<1>5. \/ x = "ai" /\ status \ mask # {}
      \/ x = "dma" /\ dmaDone /\ s # "dma"
  BY <1>1, <1>2 DEF Forwarded, Level, Sources, PlainNow
<1>6. Common'
  BY <1>2, <1>5, CountedSame DEF Common, Status, Sources
<1>7. PlainData(s, p, k, j, w)
  BY DEF PlainAt
<1> HIDE DEF w
<1>8. /\ ClosedFacts(p, k, j) /\ DmaFacts(s, p, k, w) /\ AiFacts(p, k, w) /\ SuspendedFacts(j)
      /\ (w > 0 => arrived)
      /\ irqOff = FALSE /\ w <= L /\ (p = "inp" \/ (p = "ready" /\ k < PushPos) => w = 0)
  BY <1>7 DEF PlainData
<1>9. ClosedFacts(p, k, j)'
  BY <1>2, <1>3, <1>8 DEF ClosedFacts, Open
<1>11. p = "ends" => s = "dma"
  BY DEF PlainAt, PlainShape
<1>12. x = "dma" => ~(j > 9)
  <2>1. j \in Places /\ (j \in 10 .. 13 => low = <<MainRests, DmaEnds(j - 10)>>)
    BY DEF PlainAt, PlainShape
  <2>2. x = "dma" => "dma" \notin InService
    BY <1>2 DEF Forwarded
  <2>3. j \in 10 .. 13 => "dma" \in InService
    BY <1>1, <2>1 DEF PlainNow
  <2>4. j > 9 => j \in 10 .. 13
    BY <2>1 DEF Places
  <2> QED
    BY <2>2, <2>3, <2>4
<1>10. DmaFacts(s, p, k, w)' /\ AiFacts(p, k, w)' /\ SuspendedFacts(j)'
  <2>1. CASE x = "ai"
    BY <1>2, <1>3, <1>5, <1>8, <2>1 DEF DmaFacts, AiFacts, SuspendedFacts, Quiet, Open, Common, Status
  <2>2. CASE x = "dma"
    BY <1>2, <1>3, <1>5, <1>8, <1>11, <1>12, <2>2 DEF DmaFacts, AiFacts, SuspendedFacts, Quiet, Open,
       Common, Status
  <2> QED
    BY <1>5, <2>1, <2>2
<1> QED
  BY <1>2, <1>3, <1>4, <1>6, <1>8, <1>9, <1>10 DEF PlainAt, PlainData, w

(* The frames of handlers as they begin and as they end. *)
LEMMA FrameBegins ==
    ASSUME NEW s, NEW p, Code(p) \in Seq(Stmts), NEW r \in Seq(Stmts)
    PROVE  FrameOf(s, p, 0, r, 0) = [src |-> s, todo |-> Code(p) \o r, i |-> 0]
<1> DEFINE c == Code(p)
<1>1. c \in Seq(Stmts) /\ Len(c) \in Nat
  OBVIOUS
<1> HIDE DEF c
<1>2. SubSeq(c, 0 + 1, Len(c)) = c
  <2>1. \A l \in 1 .. Len(c) : c[l] \in Stmts
    BY <1>1
  <2>2. /\ SubSeq(c, 1, Len(c)) \in Seq(Stmts) /\ Len(SubSeq(c, 1, Len(c))) = Len(c)
        /\ \A l \in 1 .. Len(c) : SubSeq(c, 1, Len(c))[l] = c[l]
    BY <1>1, <2>1, SubSeqProperties
  <2>3. SubSeq(c, 1, Len(c)) = c
    BY <1>1, <2>2, SeqEqual
  <2> QED
    BY <2>3
<1> QED
  BY <1>2 DEF FrameOf, Rest, c

LEMMA AppendTwo ==
    ASSUME NEW S, NEW a \in S, NEW b \in S
    PROVE  Append(<<a>>, b) = <<a, b>>
<1> DEFINE t == <<a, b>>
           s == <<a>>
<1>1. s \in Seq(S) /\ Len(s) = 1 /\ s[1] = a /\ t \in Seq(S) /\ Len(t) = 2 /\ t[1] = a /\ t[2] = b
  OBVIOUS
<1> HIDE DEF s, t
<1>2. /\ Append(s, b) \in Seq(S) /\ Len(Append(s, b)) = 2
      /\ Append(s, b)[1] = a /\ Append(s, b)[2] = b
  <2>1. /\ Append(s, b) \in Seq(S) /\ Len(Append(s, b)) = Len(s) + 1
        /\ \A j \in 1 .. Len(s) : Append(s, b)[j] = s[j]
        /\ Append(s, b)[Len(s) + 1] = b
    <3>1. s \in Seq(S)
      BY <1>1
    <3> QED
      BY <3>1, TopOf
  <2>2. Len(s) + 1 = 2 /\ 1 \in 1 .. Len(s)
    BY <1>1
  <2> QED
    BY <1>1, <2>1, <2>2
<1>3. \A j \in 1 .. 2 : Append(s, b)[j] = t[j]
  BY <1>1, <1>2
<1>4. Append(s, b) = t
  BY <1>1, <1>2, <1>3, SeqEqual
<1> QED
  BY <1>4 DEF s, t

LEMMA PlainRests ==
    ASSUME ~Kmodel
    PROVE  /\ FrameOf("main", "rest", 0, After("main"), 0) = MainRests
           /\ FrameOf("dma", "rest", 0, After("dma"), 0) = DmaRests
           /\ FrameOf("ai", "ai", 0, After("ai"), 0) = [src |-> "ai", todo |-> <<"clear", "push">>, i |-> 0]
           /\ FrameOf("dma", "ready", 0, After("dma"), 0) =
                 [src |-> "dma", todo |-> IF api = "kpu_start" THEN DataReady ELSE PushLayers, i |-> 0]
           /\ FrameOf("dma", "ends", 0, After("dma"), 0) =
                 [src |-> "dma", todo |-> <<"iclear">> \o TaskDone, i |-> 0]
<1>1. \A p \in PlainProgs : Code(p) \in Seq(Stmts)
  BY PlainCode
<1>2. After("main") = <<"call">> /\ After("dma") = <<>> /\ After("ai") = <<>>
      /\ <<"call">> \in Seq(Stmts) /\ <<>> \in Seq(Stmts)
  BY DEF After, Main, Stmts
<1>3. \A c \in Seq(Stmts) : c \o <<>> = c /\ <<>> \o c = c
  BY ConcatEmptySeq
<1>4. Code("rest") = <<>>
  BY PlainCode
<1>5. Code("ai") = <<"clear", "push">>
  BY DEF Code
<1>6. Code("ready") = IF api = "kpu_start" THEN DataReady ELSE PushLayers
  BY DEF Code, Ready
<1>7. Code("ends") = <<"iclear">> \o TaskDone
  BY DEF Code, TaskDone
<1>12. ASSUME NEW s, NEW p \in PlainProgs, NEW r \in Seq(Stmts)
       PROVE  FrameOf(s, p, 0, r, 0) = [src |-> s, todo |-> Code(p) \o r, i |-> 0]
  BY <1>1, FrameBegins
<1>8. FrameOf("main", "rest", 0, After("main"), 0) = MainRests
  <2>1. FrameOf("main", "rest", 0, <<"call">>, 0) = [src |-> "main", todo |-> Code("rest") \o <<"call">>, i |-> 0]
    BY <1>2, <1>12 DEF PlainProgs
  <2>2. Code("rest") \o <<"call">> = <<"call">>
    BY <1>2, <1>3, <1>4
  <2> QED
    BY <1>2, <2>1, <2>2 DEF MainRests
<1>13. ASSUME NEW s \in {"ai", "dma"}, NEW p \in PlainProgs
       PROVE  FrameOf(s, p, 0, After(s), 0) = [src |-> s, todo |-> Code(p), i |-> 0]
  <2>1. FrameOf(s, p, 0, <<>>, 0) = [src |-> s, todo |-> Code(p) \o <<>>, i |-> 0]
    BY <1>2, <1>12
  <2>2. Code(p) \o <<>> = Code(p)
    BY <1>1, <1>3
  <2>3. After(s) = <<>>
    BY <1>2
  <2> QED
    BY <2>1, <2>2, <2>3
<1>9. FrameOf("dma", "rest", 0, After("dma"), 0) = DmaRests
  BY <1>4, <1>13 DEF DmaRests, PlainProgs
<1>10. FrameOf("ai", "ai", 0, After("ai"), 0) = [src |-> "ai", todo |-> <<"clear", "push">>, i |-> 0]
  BY <1>5, <1>13 DEF PlainProgs
<1>11. \A p \in {"ready", "ends"} :
          FrameOf("dma", p, 0, After("dma"), 0) = [src |-> "dma", todo |-> Code(p), i |-> 0]
  BY <1>13 DEF PlainProgs
<1> QED
  BY <1>6, <1>7, <1>8, <1>9, <1>10, <1>11

(* A handler begins: on main, or an AI handler of kpu_start on the DMA's.  *)
LEMMA PlainClaim ==
    ASSUME Common, ~Kmodel, NEW low, NEW s, NEW p, NEW k, NEW i, NEW j, NEW ii,
           PlainAt(low, s, p, k, i, j, ii), Claim
    PROVE  Common' /\ \E low2, s2, p2, k2, i2, j2, ii2 : PlainAt(low2, s2, p2, k2, i2, j2, ii2)'
<1> DEFINE w == at + i + ii
           c == Len(computed)
<1>1. /\ PlainNow(low, s, p, k, i) /\ PlainLens /\ PlainShape(low, s, p, k, i, j, ii)
      /\ k \in 0 .. Len(Code(p)) /\ p \in PlainProgs
  BY PlainFrame, PlainStatement DEF PlainAt
<1>2. PICK x \in Sources :
        /\ Claimable(x) /\ pend' = pend \ {x}
        /\ x = "dma" => ~Claimable("ai")
        /\ stack' = Append(stack, [src |-> x, todo |-> IF x = "ai" THEN AiHandler ELSE DmaHandler, i |-> 0])
        /\ UNCHANGED <<api, model, also, input, status, mask, fifo, busy, outReady, dma, dmaDone, dmaCb,
                       aiEnabled, irqOff, flag, at, n, told, arrived, computed, delivered>>
  BY DEF Claim, runVars, aiVars, dmaVars, taskVars, dataVars
<1>3. w' = w /\ L' = L /\ OutPos' = OutPos /\ PushPos' = PushPos /\ ~Kmodel' /\ c' = c
      /\ \A q \in PlainProgs : Code(q)' = Code(q)
  BY <1>2, PlainSame DEF L, OutPos, PushPos, Kmodel
<1>4. /\ w \in Nat /\ w <= L /\ c \in Nat /\ c <= w /\ L \in Nat /\ L > 0
      /\ c = L => busy = 0 /\ fifo = <<>> /\ w = L
      /\ i \in Nat /\ ii \in Nat /\ at \in Nat /\ k \in Nat /\ api \in {"kpu_start", "kpu_run"}
  BY PlainNumbers, PlainModel
<1>5. Pipe(w)'
  BY <1>2, PipeSame DEF PlainAt, PlainData
<1>6. Common'
  BY <1>2, CountedSame DEF Common, Status, Sources
<1>7. PlainData(s, p, k, j, w)
  BY DEF PlainAt
<1>8. stack = Append(low, FrameOf(s, p, k, After(s), i)) /\ low \in Seq(Frames)
  BY <1>1 DEF PlainNow
<1> HIDE DEF w, c
<1>9. /\ ClosedFacts(p, k, j) /\ DmaFacts(s, p, k, w) /\ AiFacts(p, k, w) /\ SuspendedFacts(j)
      /\ (w > 0 => arrived)
      /\ irqOff = FALSE /\ w <= L /\ (p = "inp" \/ (p = "ready" /\ k < PushPos) => w = 0)
  BY <1>7 DEF PlainData
<1>10. CASE x = "ai"
  <2>1. "ai" \in pend /\ aiEnabled /\ s # "ai" /\ (s = "dma" => api = "kpu_start")
    BY <1>1, <1>2, <1>10 DEF Claimable, Priority, PlainNow
  <2>2. w > 0 /\ arrived /\ (dma = "out" \/ c = L) /\ j = 0 /\ ii = 0
    <3>1. w > 0 /\ arrived /\ (dma = "out" \/ c = L)
      BY <1>9, <2>1 DEF AiFacts, Quiet, c
    <3>2. j = 0
      BY <1>1, <1>9, <2>1 DEF SuspendedFacts, PlainShape
    <3> QED
      BY <1>1, <3>1, <3>2 DEF PlainShape
  <2>3. p # "inp" /\ p # "ai"
    BY <1>1, <1>9, <1>4, <2>1, <2>2 DEF PlainShape
  <2>4. p # "ready"
    <3>1. api = "kpu_start" => ~(p = "ready" /\ k > 2)
      BY <1>9, <2>1 DEF AiFacts
    <3>2. ~(p = "ready" /\ k < PushPos)
      BY <1>9, <1>4, <2>2
    <3>3. api # "kpu_start" => s = "main" /\ p # "ready"
      BY <1>1, <1>4, <2>1 DEF PlainShape
    <3> QED
      BY <1>4, <3>1, <3>2, <3>3 DEF PushPos
  <2>5. i = 0 /\ ((p = "rest" /\ k = 0) \/ (p = "ends" /\ k \in 0 .. 3 /\ s = "dma"))
    <3>1. i = 0 /\ (p = "rest" \/ (p = "ends" /\ s = "dma"))
      BY <1>1, <2>3, <2>4 DEF PlainProgs, PlainShape
    <3>2. CASE p = "rest"
      BY <1>1, <3>1, <3>2 DEF PlainLens
    <3>3. CASE p = "ends"
      <4>1. PICK len : len = Len(Code(p))
        OBVIOUS
      <4>2. len = 4 /\ k \in 0 .. len /\ k # len
        BY <1>1, <3>3, <4>1 DEF PlainLens, PlainShape
      <4>3. k \in 0 .. 3
        BY <1>4, <4>2
      <4> QED
        BY <3>1, <3>3, <4>3
    <3> QED
      BY <3>1, <3>2, <3>3
  <2>12. PICK j2 : j2 = IF p = "rest" THEN 0 ELSE 10 + k
    OBVIOUS
  <2>13. j2 \in Places /\ (p = "rest" => j2 = 0) /\ (p = "ends" => j2 \in 10 .. 13 /\ k = j2 - 10)
    BY <2>5, <2>12 DEF Places
  <2>6. \/ stack = <<MainRests>> /\ j2 = 0
        \/ stack = <<MainRests, DmaRests>> /\ api = "kpu_start" /\ j2 = 0
        \/ stack = <<MainRests, DmaEnds(j2 - 10)>> /\ api = "kpu_start" /\ j2 \in 10 .. 13
    <3>1. CASE s = "main"
      <4>1. low = <<>> /\ stack = Append(low, MainRests)
        BY <1>1, <1>8, <2>5, <3>1, PlainRests DEF PlainShape
      <4> QED
        BY <2>5, <2>13, <3>1, <4>1
    <3>2. CASE s = "dma"
      <4>1. PICK f : f = FrameOf(s, p, k, After(s), i)
        OBVIOUS
      <4>2. low = <<MainRests>> /\ stack = Append(low, f) /\ api = "kpu_start" /\ f \in Frames
        BY <1>1, <1>8, <2>1, <2>2, <3>2, <4>1 DEF PlainShape, PlainNow
      <4>3. MainRests \in Frames
        <5>1. <<"call">> \in Seq(Stmts)
          BY DEF Stmts
        <5> QED
          BY <5>1 DEF MainRests, Frames, Sources
      <4>4. stack = <<MainRests, f>>
        BY <4>2, <4>3, AppendTwo
      <4>5. CASE p = "rest"
        <5>1. f = DmaRests
          BY <2>5, <3>2, <4>1, <4>5, PlainRests
        <5> QED
          BY <2>13, <4>2, <4>4, <4>5, <5>1
      <4>6. CASE p = "ends"
        <5>1. f = DmaEnds(j2 - 10)
          BY <2>5, <2>13, <3>2, <4>1, <4>6 DEF DmaEnds, After
        <5> QED
          BY <2>13, <4>2, <4>4, <4>6, <5>1
      <4> QED
        BY <2>5, <4>5, <4>6
    <3> QED
      BY <1>1, <2>1, <3>1, <3>2 DEF PlainShape
  <2>11. PICK low2 : low2 = stack
    OBVIOUS
  <2>7. stack' = Append(low2, FrameOf("ai", "ai", 0, After("ai"), 0)') /\ low2 = stack
    <3>1. AiHandler = <<"clear", "push">>
      BY DEF AiHandler
    <3>2. FrameOf("ai", "ai", 0, After("ai"), 0)' = FrameOf("ai", "ai", 0, After("ai"), 0)
      BY <1>2, PlainSame DEF PlainProgs
    <3> QED
      BY <1>2, <1>10, <2>11, <3>1, <3>2, PlainRests
  <2>8. PlainShape(low2, "ai", "ai", 0, 0, j2, 0)'
    <3>1. Len(Code("ai"))' = 2
      BY <1>1, <1>3 DEF PlainLens, PlainProgs
    <3>2. \/ low2 = <<MainRests'>> /\ j2 = 0
          \/ low2 = <<MainRests', DmaRests'>> /\ api' = "kpu_start" /\ j2 = 0
          \/ low2 = <<MainRests', DmaEnds(j2 - 10)'>> /\ api' = "kpu_start" /\ j2 \in 10 .. 13
      <4>1. MainRests' = MainRests /\ DmaRests' = DmaRests
        BY DEF MainRests, DmaRests
      <4>2. DmaEnds(j2 - 10)' = DmaEnds(j2 - 10)
        BY <1>2, PlainSame
      <4> QED
        BY <1>2, <2>6, <2>11, <4>1, <4>2
    <3>3. 0 \in 0 .. 2 /\ 0 # 2 /\ 0 \in Nat
      OBVIOUS
    <3>4. stack' = Append(low2, FrameOf("ai", "ai", 0, After("ai"), 0)')
          /\ (0 \in 0 .. Len(Code("ai"))') /\ 0 # Len(Code("ai"))'
      BY <2>7, <3>1, <3>3
    <3>5. CASE j2 = 0
      BY <2>13, <3>2, <3>3, <3>4, <3>5 DEF PlainShape
    <3>6. CASE j2 \in 10 .. 13
      <4>1. low2 = <<MainRests', DmaEnds(j2 - 10)'>> /\ api' = "kpu_start" /\ j2 # 0
        BY <3>2, <3>6
      <4> QED
        BY <2>13, <3>3, <3>4, <3>6, <4>1 DEF PlainShape
    <3> QED
      BY <3>2, <3>5, <3>6
  <2>9. PlainData("ai", "ai", 0, j2, w)'
    <3>1. ClosedFacts("ai", 0, j2)'
      BY <1>2, <1>3, <1>9, <1>4, <2>2, <2>5, <2>13 DEF ClosedFacts, DmaFacts, Open, c
    <3>2. DmaFacts("ai", "ai", 0, w)'
      BY <1>2, <1>3, <1>9, <1>4, <1>10, <2>2, <2>5 DEF ClosedFacts, DmaFacts, Open, c
    <3>3. AiFacts("ai", 0, w)'
      BY <1>2, <1>3, <1>9, <1>4, <2>1, <2>2, <2>5 DEF AiFacts, c
    <3>4. SuspendedFacts(j2)'
      <4>1. CASE p = "rest"
        BY <2>13, <4>1 DEF SuspendedFacts
      <4>2. CASE p = "ends"
        <5>1. j2 \notin {6, 7} /\ (j2 > 10 <=> k > 0) /\ (j2 < 13 <=> k < 3)
          BY <1>4, <2>13, <4>2
        <5> QED
          BY <1>2, <1>3, <1>9, <2>2, <4>2, <5>1 DEF SuspendedFacts, ClosedFacts, DmaFacts, Open, c
      <4> QED
        BY <2>5, <4>1, <4>2
    <3> QED
      BY <1>2, <1>3, <1>4, <1>5, <1>9, <2>2, <3>1, <3>2, <3>3, <3>4 DEF PlainData
  <2>10. PlainAt(low2, "ai", "ai", 0, 0, j2, 0)'
    BY <1>2, <1>4, <2>2, <2>5, <2>8, <2>9 DEF PlainAt, w
  <2> QED
    BY <1>6, <2>10
<1>11. CASE x = "dma"
  <2>1. "dma" \in pend /\ s = "main" /\ low = <<>> /\ j = 0 /\ ii = 0
    <3>1. "dma" \in pend /\ s = "main"
      BY <1>1, <1>2, <1>4, <1>11 DEF Claimable, Priority, PlainNow, PlainShape
    <3> QED
      BY <1>1, <3>1 DEF PlainShape
  <2>2. dmaDone /\ dma = "off" /\ Open
    BY <1>9, <2>1 DEF Common, DmaFacts
  <2>3. dmaCb \in {"ready", "done"} /\ (dmaCb = "ready" => w = 0 /\ arrived /\ p = "rest")
        /\ (dmaCb = "done" => c = L /\ w = L /\ arrived)
    BY <1>4, <1>9, <2>1, <2>2 DEF DmaFacts, c
  <2>4. p # "inp" /\ ~(p = "ready" /\ k < PushPos) /\ p # "ends" /\ p # "ai"
    BY <1>1, <1>4, <1>9, <2>1, <2>3 DEF PlainShape
  <2>5. (p = "rest" /\ k = 0 /\ i = 0)
        \/ (p = "ready" /\ k \in {6, 7} /\ api = "kpu_start" /\ (k = 7 => i = 0) /\ dmaCb = "done")
    <3>1. CASE p = "rest"
      BY <1>1, <3>1 DEF PlainLens, PlainShape
    <3>2. CASE p = "ready"
      <4>1. api = "kpu_start" /\ PushPos = 6 /\ k >= 6 /\ k <= 8 /\ k # 8
        <5>1. api = "kpu_start" /\ PushPos = 6
          BY <1>1, <2>1, <3>2 DEF PlainShape, PushPos
        <5>2. Len(Code(p)) = 8 /\ (k = Len(Code(p)) => p = "rest")
          BY <1>1, <3>2, <5>1 DEF PlainLens, PlainShape
        <5>3. k \in 0 .. 8 /\ k # 8
          BY <1>1, <3>2, <5>2
        <5> QED
          BY <2>4, <3>2, <5>1, <5>3
      <4>2. i = 0 \/ k = 6
        BY <1>1, <3>2, <4>1 DEF PlainShape
      <4> QED
        BY <1>4, <2>3, <3>2, <4>1, <4>2
    <3> QED
      BY <1>1, <2>4, <3>1, <3>2 DEF PlainProgs
  <2>14. PICK q : q = IF dmaCb = "ready" THEN "ready" ELSE "ends"
    OBVIOUS
  <2>6. stack' = Append(stack, FrameOf("dma", q, 0, After("dma"), 0)')
    <3>1. DmaHandler = IF dmaCb = "ready" THEN IF api = "kpu_start" THEN DataReady ELSE PushLayers
                       ELSE <<"iclear">> \o TaskDone
      BY <2>3 DEF DmaHandler
    <3>2. FrameOf("dma", q, 0, After("dma"), 0)' = FrameOf("dma", q, 0, After("dma"), 0)
      BY <1>2, <2>14, PlainSame DEF PlainProgs
    <3>3. FrameOf("dma", q, 0, After("dma"), 0) = [src |-> "dma", todo |-> DmaHandler, i |-> 0]
      BY <2>3, <2>14, <3>1, PlainRests
    <3> QED
      BY <1>2, <1>11, <3>2, <3>3
  <2>7. PICK jj, iii : IF p = "rest" THEN jj = 0 /\ iii = 0 ELSE jj = k /\ iii = i
    OBVIOUS
  <2>8. PICK low2 : low2 = stack
    OBVIOUS
  <2>9. low2 = IF p = "rest" THEN <<MainRests>> ELSE <<Suspended(jj, iii)>>
    <3>1. CASE p = "rest"
      <4>1. stack = Append(<<>>, MainRests)
        BY <1>1, <1>8, <2>1, <2>5, <3>1, PlainRests
      <4> QED
        BY <2>8, <3>1, <4>1
    <3>2. CASE p # "rest"
      <4>1. stack = Append(<<>>, Suspended(jj, iii))
        BY <1>1, <1>8, <2>1, <2>5, <2>7, <3>2 DEF Suspended, After, Main
      <4> QED
        BY <2>8, <3>2, <4>1
    <3> QED
      BY <3>1, <3>2
  <2>10. PlainShape(low2, "dma", q, 0, 0, jj, iii)' /\ (q = "ends" \/ p = "rest")
    <3>1. Len(Code(q))' \in {4, 6, 8}
      <4>1. Len(Code("ready")) \in {6, 8} /\ Len(Code("ends")) = 4
        BY <1>1 DEF PlainLens
      <4>2. Code("ready")' = Code("ready") /\ Code("ends")' = Code("ends")
        BY <1>3 DEF PlainProgs
      <4> QED
        BY <2>14, <4>1, <4>2
    <3>2. MainRests' = MainRests /\ Suspended(jj, iii)' = Suspended(jj, iii)
      BY <1>2, PlainSame DEF MainRests
    <3>3. q # "rest" /\ (p # "rest" => q = "ends" /\ jj \in {6, 7} /\ api' = "kpu_start")
          /\ jj \in Places /\ iii \in Nat /\ (jj # 6 => iii = 0) /\ q \in {"ready", "ends"}
          /\ (p = "rest" => jj = 0)
      BY <1>2, <1>4, <2>3, <2>5, <2>7, <2>14 DEF Places
    <3>4. stack' = Append(low2, FrameOf("dma", q, 0, After("dma"), 0)')
      BY <2>6, <2>8
    <3>5. \/ p = "rest" /\ low2 = <<MainRests'>> /\ jj = 0
          \/ q = "ends" /\ low2 = <<Suspended(jj, iii)'>> /\ jj \in {6, 7} /\ api' = "kpu_start"
      BY <2>9, <3>2, <3>3
    <3>6. 0 \in 0 .. Len(Code(q))' /\ 0 # Len(Code(q))'
      BY <3>1, FirstOf, Zenon
    <3>7. PlainShape(low2, "dma", q, 0, 0, jj, iii)'
      BY <3>3, <3>4, <3>5, <3>6 DEF PlainShape
    <3> QED
      BY <3>3, <3>7
  <2>11. at + 0 + iii = w
    BY <1>4, <2>1, <2>5, <2>7 DEF w
  <2>12. PlainData("dma", q, 0, jj, w)'
    <3>1. ClosedFacts(q, 0, jj)'
      <4>1. jj # 12 /\ j = 0
        BY <1>4, <2>1, <2>5, <2>7
      <4>2. p # "ends" /\ q \in {"ready", "ends"} /\ (q = "ready" => w = 0)
        BY <2>3, <2>4, <2>14
      <4> QED
        BY <1>2, <1>3, <1>9, <1>4, <2>2, <2>3, <4>1, <4>2 DEF ClosedFacts, Open, PushPos, c
    <3>2. DmaFacts("dma", q, 0, w)'
      BY <1>2, <1>3, <1>4, <1>9, <1>11, <2>2, <2>3, <2>5, <2>14 DEF DmaFacts, Open, Quiet, OutPos, c
    <3>3. AiFacts(q, 0, w)'
      BY <1>2, <1>3, <1>4, <1>9, <1>11, <2>2, <2>3, <2>5, <2>14 DEF AiFacts, Quiet
    <3>4. SuspendedFacts(jj)'
      BY <1>2, <1>3, <1>4, <1>9, <2>2, <2>3, <2>5, <2>7 DEF AiFacts, SuspendedFacts, c
    <3> QED
      BY <1>2, <1>3, <1>4, <1>5, <1>9, <2>3, <2>4, <2>14, <3>1, <3>2, <3>3, <3>4 DEF PlainData
  <2>13. PlainAt(low2, "dma", q, 0, 0, jj, iii)'
    BY <1>2, <1>3, <2>10, <2>11, <2>12 DEF PlainAt
  <2> QED
    BY <1>6, <2>13
<1> QED
  BY <1>10, <1>11 DEF Sources

(* A handler ends: main or the DMA's handler goes on. *)
LEMMA PlainComplete ==
    ASSUME Common, ~Kmodel, NEW low, NEW s, NEW p, NEW k, NEW i, NEW j, NEW ii,
           PlainAt(low, s, p, k, i, j, ii), Complete
    PROVE  Common' /\ \E low2, s2, p2, k2, i2, j2, ii2 : PlainAt(low2, s2, p2, k2, i2, j2, ii2)'
<1> DEFINE w == at + i + ii
           c == Len(computed)
<1>1. /\ PlainNow(low, s, p, k, i) /\ PlainLens /\ PlainShape(low, s, p, k, i, j, ii)
      /\ k \in 0 .. Len(Code(p)) /\ p \in PlainProgs
  BY PlainFrame, PlainStatement DEF PlainAt
<1>2. /\ Frame.src # "main" /\ Frame.todo = <<>> /\ stack' = Front(stack)
      /\ UNCHANGED <<api, model, also, input, status, mask, fifo, busy, outReady, dma, dmaDone, dmaCb,
                     aiEnabled, pend, irqOff, flag, at, n, told, arrived, computed, delivered>>
  BY DEF Complete, runVars, aiVars, dmaVars, plicVars, taskVars, dataVars
<1>3. w' = w /\ L' = L /\ OutPos' = OutPos /\ PushPos' = PushPos /\ ~Kmodel' /\ c' = c
      /\ \A q \in PlainProgs : Code(q)' = Code(q)
  BY <1>2, PlainSame DEF L, OutPos, PushPos, Kmodel
<1>4. /\ w \in Nat /\ w <= L /\ c \in Nat /\ c <= w /\ L \in Nat /\ L > 0
      /\ c = L => busy = 0 /\ fifo = <<>> /\ w = L
      /\ i \in Nat /\ ii \in Nat /\ at \in Nat /\ k \in Nat /\ api \in {"kpu_start", "kpu_run"}
  BY PlainNumbers, PlainModel
<1>5. Pipe(w)'
  BY <1>2, PipeSame DEF PlainAt, PlainData
<1>6. Common'
  BY <1>2, CountedSame DEF Common, Status, Sources
<1>7. PlainData(s, p, k, j, w)
  BY DEF PlainAt
<1>8. stack' = low /\ low \in Seq(Frames) /\ s # "main" /\ p = "rest" /\ k = 0 /\ i = 0
  BY <1>1, <1>2 DEF PlainNow, PlainShape, PlainLens
<1> HIDE DEF w, c
<1>9. /\ ClosedFacts(p, k, j) /\ DmaFacts(s, p, k, w) /\ AiFacts(p, k, w) /\ SuspendedFacts(j)
      /\ (w > 0 => arrived)
      /\ irqOff = FALSE /\ w <= L /\ (p = "inp" \/ (p = "ready" /\ k < PushPos) => w = 0)
  BY <1>7 DEF PlainData
<1>10. CASE j = 0
  <2>1. PICK s2 : s2 = IF low = <<MainRests>> THEN "main" ELSE "dma"
    OBVIOUS
  <2>2. PICK low2 : low2 = IF low = <<MainRests>> THEN <<>> ELSE <<MainRests>>
    OBVIOUS
  <2>3. stack' = Append(low2, FrameOf(s2, "rest", 0, After(s2), 0)')
    <3>1. FrameOf(s2, "rest", 0, After(s2), 0)' = FrameOf(s2, "rest", 0, After(s2), 0)
      BY <1>2, PlainSame DEF PlainProgs
    <3>2. FrameOf("main", "rest", 0, After("main"), 0) = MainRests
          /\ FrameOf("dma", "rest", 0, After("dma"), 0) = DmaRests
      BY PlainRests
    <3>3. MainRests \in Frames /\ DmaRests \in Frames
      <4>1. <<"call">> \in Seq(Stmts) /\ <<>> \in Seq(Stmts)
        BY DEF Stmts
      <4> QED
        BY <4>1 DEF MainRests, DmaRests, Frames, Sources
    <3>4. /\ Append(<<>>, MainRests) = <<MainRests>>
          /\ Append(<<MainRests>>, DmaRests) = <<MainRests, DmaRests>>
      BY <3>3, AppendTwo
    <3>5. low = <<MainRests>> \/ low = <<MainRests, DmaRests>>
      BY <1>1, <1>8, <1>10 DEF PlainShape
    <3>6. CASE low = <<MainRests>>
      BY <1>8, <2>1, <2>2, <3>1, <3>2, <3>4, <3>6
    <3>7. CASE low # <<MainRests>>
      BY <1>8, <2>1, <2>2, <3>1, <3>2, <3>4, <3>5, <3>7
    <3> QED
      BY <3>6, <3>7
  <2>4. PlainShape(low2, s2, "rest", 0, 0, 0, 0)'
    <3>1. Len(Code("rest"))' = 0
      BY <1>1, <1>3 DEF PlainLens, PlainProgs
    <3>2. MainRests' = MainRests
      BY DEF MainRests
    <3> QED
      BY <2>1, <2>2, <2>3, <3>1, <3>2 DEF PlainShape, Places
  <2>5. ii = 0
    BY <1>1, <1>10 DEF PlainShape
  <2>6. PlainData(s2, "rest", 0, 0, w)'
    <3>1. ClosedFacts("rest", 0, 0)'
      BY <1>2, <1>3, <1>8, <1>9, <1>10 DEF ClosedFacts, Open, c
    <3>2. DmaFacts(s2, "rest", 0, w)'
      BY <1>2, <1>3, <1>4, <1>8, <1>9 DEF DmaFacts, Open, c
    <3>3. AiFacts("rest", 0, w)'
      BY <1>2, <1>3, <1>4, <1>8, <1>9 DEF AiFacts, Quiet, c
    <3> QED
      BY <1>2, <1>3, <1>4, <1>5, <1>9, <3>1, <3>2, <3>3 DEF PlainData, SuspendedFacts
  <2>7. PlainAt(low2, s2, "rest", 0, 0, 0, 0)'
    BY <1>2, <1>3, <1>4, <1>8, <2>4, <2>5, <2>6 DEF PlainAt, w
  <2> QED
    BY <1>6, <2>7
<1>11. CASE j \in {6, 7}
  <2>1. low = <<Suspended(j, ii)>> /\ api = "kpu_start" /\ j \in {6, 7} /\ (j = 7 => ii = 0)
    BY <1>1, <1>11 DEF PlainShape
  <2>2. stack' = Append(<<>>, FrameOf("main", "ready", j, After("main"), ii)')
    <3>1. FrameOf("main", "ready", j, After("main"), ii)' = FrameOf("main", "ready", j, After("main"), ii)
      BY <1>2, PlainSame DEF PlainProgs
    <3> QED
      BY <1>8, <2>1, <3>1 DEF Suspended, After, Main
  <2>3. PlainShape(<<>>, "main", "ready", j, ii, 0, 0)'
    <3>1. Len(Code("ready"))' = 8
      BY <1>1, <1>3, <2>1 DEF PlainLens, PlainProgs
    <3>2. PushPos' = 6 /\ api' = "kpu_start"
      BY <1>2, <2>1 DEF PushPos
    <3>3. j \in 0 .. 8 /\ j # 8 /\ ii \in Nat
      BY <1>4, <2>1
    <3> QED
      BY <2>1, <2>2, <3>1, <3>2, <3>3 DEF PlainShape, Places
  <2>4. /\ c = L /\ arrived /\ mask = Status /\ "ai" \notin pend /\ aiEnabled /\ dmaCb = "done"
        /\ (j = 7 => at > 0)
        /\ w = L
    BY <1>4, <1>9, <1>11 DEF SuspendedFacts, c
  <2>5. ~dmaDone \/ Open
    BY <1>9 DEF DmaFacts
  <2>6. PlainData("main", "ready", j, 0, w)'
    <3>1. ClosedFacts("ready", j, 0)'
      BY <1>2, <1>3, <1>8, <1>9, <2>1, <2>4 DEF ClosedFacts, Open, PushPos, c
    <3>2. DmaFacts("main", "ready", j, w)'
      BY <1>2, <1>3, <1>4, <1>8, <1>9, <2>1, <2>4 DEF DmaFacts, Open, OutPos, c
    <3>3. AiFacts("ready", j, w)'
      BY <1>2, <1>3, <1>4, <1>8, <1>9, <2>1, <2>4 DEF AiFacts, Quiet, c
    <3> QED
      BY <1>2, <1>3, <1>4, <1>5, <1>9, <2>1, <2>4, <3>1, <3>2, <3>3 DEF PlainData, SuspendedFacts,
         PushPos
  <2>7. PlainAt(<<>>, "main", "ready", j, ii, 0, 0)'
    BY <1>2, <1>3, <1>4, <1>8, <2>3, <2>6 DEF PlainAt, w
  <2> QED
    BY <1>6, <2>7
<1>12. CASE j \in 10 .. 13
  <2>1. low = <<MainRests, DmaEnds(j - 10)>> /\ api = "kpu_start" /\ ii = 0
    BY <1>1, <1>12 DEF PlainShape
  <2>2. PICK e : e = j - 10
    OBVIOUS
  <2>3. /\ e \in 0 .. 3 /\ j = 10 + e /\ (j > 10 <=> e > 0) /\ (j < 13 <=> e < 3) /\ (j = 12 <=> e = 2)
        /\ j > 9
    BY <1>12, <2>2
  <2>4. stack' = Append(<<MainRests>>, FrameOf("dma", "ends", e, After("dma"), 0)')
    <3>1. FrameOf("dma", "ends", e, After("dma"), 0)' = FrameOf("dma", "ends", e, After("dma"), 0)
      BY <1>2, PlainSame DEF PlainProgs
    <3>2. FrameOf("dma", "ends", e, After("dma"), 0) = DmaEnds(e)
      BY DEF DmaEnds, After
    <3>3. low = <<MainRests, DmaEnds(e)>> /\ low \in Seq(Frames)
      BY <1>8, <2>1, <2>2
    <3>4. MainRests \in Frames /\ DmaEnds(e) \in Frames
      <4>1. low[1] \in Frames /\ low[2] \in Frames
        BY <3>3
      <4> QED
        BY <3>3, <4>1
    <3>5. Append(<<MainRests>>, DmaEnds(e)) = <<MainRests, DmaEnds(e)>>
      BY <3>4, AppendTwo
    <3> QED
      BY <1>8, <3>1, <3>2, <3>3, <3>5
  <2>5. PlainShape(<<MainRests>>, "dma", "ends", e, 0, 0, 0)'
    <3>1. Len(Code("ends"))' = 4
      BY <1>1, <1>3 DEF PlainLens, PlainProgs
    <3>2. MainRests' = MainRests
      BY DEF MainRests
    <3>3. e \in 0 .. 4 /\ e # 4
      BY <2>3
    <3> QED
      BY <2>4, <3>1, <3>2, <3>3 DEF PlainShape, Places
  <2>6. c = L /\ arrived /\ dma = "off" /\ "dma" \notin pend /\ (e > 0 => ~dmaDone) /\ (Open <=> e < 3)
    BY <1>9, <2>3 DEF SuspendedFacts, c
  <2>7. PlainData("dma", "ends", e, 0, w)'
    <3>1. ClosedFacts("ends", e, 0)'
      BY <1>2, <1>3, <1>8, <1>9, <2>3, <2>6 DEF ClosedFacts, Open, c
    <3>2. DmaFacts("dma", "ends", e, w)'
      BY <1>2, <1>3, <1>4, <1>8, <1>9, <2>6 DEF DmaFacts, Open, c
    <3>3. AiFacts("ends", e, w)'
      BY <1>2, <1>3, <1>4, <1>8, <1>9, <2>6 DEF AiFacts, Quiet, c
    <3> QED
      BY <1>2, <1>3, <1>4, <1>5, <1>9, <3>1, <3>2, <3>3 DEF PlainData, SuspendedFacts
  <2>8. PlainAt(<<MainRests>>, "dma", "ends", e, 0, 0, 0)'
    <3>1. at' + 0 + 0 = w'
      BY <1>2, <1>4, <1>8, <2>1 DEF w
    <3> QED
      BY <1>3, <2>5, <2>7, <3>1 DEF PlainAt
  <2> QED
    BY <1>6, <2>8
<1> QED
  BY <1>1, <1>10, <1>11, <1>12 DEF PlainShape, Places

-----------------------------------------------------------------------------
(* kpu_start and kpu_run: the statements. *)

LEMMA PlainEnable ==
    ASSUME Common, ~Kmodel, NEW low, NEW s, NEW p, NEW k, NEW i, NEW j, NEW ii,
           PlainAt(low, s, p, k, i, j, ii), EnableAi
    PROVE  Common' /\ \E q, m : PlainAt(low, s, q, m, 0, j, ii)'
<1> DEFINE w == at + i + ii
           c == Len(computed)
<1>1. /\ PlainShape(low, s, p, k, i, j, ii) /\ PlainStmt(s, p, k) /\ PlainLens
      /\ k \in 0 .. Len(Code(p)) /\ p \in PlainProgs
  BY PlainStatement DEF PlainAt
<1>2. /\ Done
      /\ aiEnabled' = TRUE
      /\ UNCHANGED <<api, model, also, input, status, mask, fifo, busy, outReady, dma, dmaDone, 
                     dmaCb, pend, irqOff, flag, at, n, told, arrived, computed, 
                     delivered>>
  BY DEF EnableAi, runVars, aiVars, dmaVars, plicVars, taskVars, dataVars
<1>3. /\ w \in Nat /\ w <= L /\ c \in Nat /\ c <= w /\ L \in Nat /\ L > 0
      /\ c = L => busy = 0 /\ fifo = <<>> /\ w = L
      /\ busy = 0 /\ fifo = <<>> => c = w
      /\ i \in Nat /\ ii \in Nat /\ at \in Nat /\ k \in Nat /\ api \in {"kpu_start", "kpu_run"}
      /\ at > 0 => w > 0
  BY PlainNumbers, PlainModel
<1>4. (p = "inp" /\ k = 0 /\ api # "kpu_start") \/ (p = "ready" /\ k = 4 /\ api = "kpu_start")
  BY <1>1, <1>2 DEF EnableAi, PlainStmt
<1>5. p # "rest" /\ i = 0
  BY <1>1, <1>3, <1>4 DEF PlainShape, PushPos, OutPos
<1>6. PICK q, m : PlainShape(low, s, q, m, 0, j, ii)' /\ NextAt(p, k, q, m)
  BY <1>1, <1>2, <1>5, PlainDone
<1>7. q = p /\ m = k + 1
  <2>1. PICK len : len = Len(Code(p))
    OBVIOUS
  <2>2. /\ p = "ends" => len = 4
        /\ p = "ai" => len = 2
        /\ p = "inp" => len = IF api = "kpu_start" THEN 1 ELSE 2
        /\ p = "ready" => len = IF api = "kpu_start" THEN 8 ELSE 6
    BY <1>1, <2>1 DEF PlainLens
  <2>3. IF k + 1 = len THEN q = "rest" /\ m = 0 ELSE q = p /\ m = k + 1
    BY <1>6, <2>1 DEF NextAt
  <2> QED
    BY <1>3, <1>4, <2>2, <2>3 DEF OutPos
<1>8. w' = w /\ L' = L /\ OutPos' = OutPos /\ PushPos' = PushPos /\ ~Kmodel' /\ c' = c /\ Pipe(w)'
  BY <1>2, PipeSame DEF L, OutPos, PushPos, Kmodel, PlainAt, PlainData
<1>9. PlainData(s, p, k, j, w)
  BY DEF PlainAt
<1> HIDE DEF w, c
<1>10. /\ ClosedFacts(p, k, j) /\ DmaFacts(s, p, k, w) /\ AiFacts(p, k, w) /\ SuspendedFacts(j)
       /\ (w > 0 => arrived)
      /\ irqOff = FALSE /\ w <= L /\ (p = "inp" \/ (p = "ready" /\ k < PushPos) => w = 0)
  BY <1>9 DEF PlainData
<1>11. Common'
  BY <1>2, CountedSame DEF Common, Status, Sources
<1>15. j # 0 => (p = "ends" /\ j \in {6, 7}) \/ (p = "ai" /\ j \in 10 .. 13)
  BY <1>1, <1>5 DEF PlainShape
<1>12. ClosedFacts(q, m, j)' /\ SuspendedFacts(j)'
  BY <1>2, <1>3, <1>4, <1>7, <1>8, <1>10, <1>15 DEF ClosedFacts, DmaFacts, SuspendedFacts, Open,
     PushPos, OutPos, c, Common
<1>13. DmaFacts(s, q, m, w)'
  BY <1>1, <1>2, <1>3, <1>4, <1>7, <1>8, <1>10, <1>15 DEF ClosedFacts, DmaFacts, AiFacts, Open, Quiet,
     PushPos, OutPos, c, Common, Status, PlainShape
<1>14. AiFacts(q, m, w)'
  BY <1>2, <1>3, <1>4, <1>7, <1>8, <1>10, <1>15 DEF DmaFacts, AiFacts, Quiet, Open, PushPos, OutPos, c,
     Common, Status
<1>16. PlainData(s, q, m, j, w)'
  BY <1>2, <1>3, <1>4, <1>7, <1>8, <1>10, <1>12, <1>13, <1>14 DEF PlainData, PushPos, OutPos
<1>17. PlainAt(low, s, q, m, 0, j, ii)'
  BY <1>2, <1>3, <1>5, <1>6, <1>8, <1>16 DEF PlainAt, w
<1> QED
  BY <1>11, <1>17

LEMMA PlainFree ==
    ASSUME Common, ~Kmodel, NEW low, NEW s, NEW p, NEW k, NEW i, NEW j, NEW ii,
           PlainAt(low, s, p, k, i, j, ii), FreeFlag
    PROVE  Common' /\ \E q, m : PlainAt(low, s, q, m, 0, j, ii)'
<1> DEFINE w == at + i + ii
           c == Len(computed)
<1>1. /\ PlainShape(low, s, p, k, i, j, ii) /\ PlainStmt(s, p, k) /\ PlainLens
      /\ k \in 0 .. Len(Code(p)) /\ p \in PlainProgs
  BY PlainStatement DEF PlainAt
<1>2. /\ Done
      /\ flag' = 0
      /\ UNCHANGED <<api, model, also, input, status, mask, fifo, busy, outReady, dma, dmaDone, 
                     dmaCb, aiEnabled, pend, irqOff, at, n, told, arrived, computed, 
                     delivered>>
  BY DEF FreeFlag, runVars, aiVars, dmaVars, plicVars, taskVars, dataVars
<1>3. /\ w \in Nat /\ w <= L /\ c \in Nat /\ c <= w /\ L \in Nat /\ L > 0
      /\ c = L => busy = 0 /\ fifo = <<>> /\ w = L
      /\ busy = 0 /\ fifo = <<>> => c = w
      /\ i \in Nat /\ ii \in Nat /\ at \in Nat /\ k \in Nat /\ api \in {"kpu_start", "kpu_run"}
      /\ at > 0 => w > 0
  BY PlainNumbers, PlainModel
<1>4. p = "ends" /\ k = 1
  BY <1>1, <1>2 DEF FreeFlag, PlainStmt
<1>5. p # "rest" /\ i = 0
  BY <1>1, <1>3, <1>4 DEF PlainShape, PushPos, OutPos
<1>6. PICK q, m : PlainShape(low, s, q, m, 0, j, ii)' /\ NextAt(p, k, q, m)
  BY <1>1, <1>2, <1>5, PlainDone
<1>7. q = "ends" /\ m = 2
  <2>1. PICK len : len = Len(Code(p))
    OBVIOUS
  <2>2. /\ p = "ends" => len = 4
        /\ p = "ai" => len = 2
        /\ p = "inp" => len = IF api = "kpu_start" THEN 1 ELSE 2
        /\ p = "ready" => len = IF api = "kpu_start" THEN 8 ELSE 6
    BY <1>1, <2>1 DEF PlainLens
  <2>3. IF k + 1 = len THEN q = "rest" /\ m = 0 ELSE q = p /\ m = k + 1
    BY <1>6, <2>1 DEF NextAt
  <2> QED
    BY <1>3, <1>4, <2>2, <2>3 DEF OutPos
<1>8. w' = w /\ L' = L /\ OutPos' = OutPos /\ PushPos' = PushPos /\ ~Kmodel' /\ c' = c /\ Pipe(w)'
  BY <1>2, PipeSame DEF L, OutPos, PushPos, Kmodel, PlainAt, PlainData
<1>9. PlainData(s, p, k, j, w)
  BY DEF PlainAt
<1> HIDE DEF w, c
<1>10. /\ ClosedFacts(p, k, j) /\ DmaFacts(s, p, k, w) /\ AiFacts(p, k, w) /\ SuspendedFacts(j)
       /\ (w > 0 => arrived)
      /\ irqOff = FALSE /\ w <= L /\ (p = "inp" \/ (p = "ready" /\ k < PushPos) => w = 0)
  BY <1>9 DEF PlainData
<1>11. Common'
  BY <1>2, CountedSame DEF Common, Status, Sources
<1>15. j # 0 => (p = "ends" /\ j \in {6, 7}) \/ (p = "ai" /\ j \in 10 .. 13)
  BY <1>1, <1>5 DEF PlainShape
<1>12. ClosedFacts(q, m, j)' /\ SuspendedFacts(j)'
  BY <1>2, <1>3, <1>4, <1>7, <1>8, <1>10, <1>15 DEF ClosedFacts, DmaFacts, SuspendedFacts, Open,
     PushPos, OutPos, c, Common
<1>13. DmaFacts(s, q, m, w)'
  BY <1>1, <1>2, <1>3, <1>4, <1>7, <1>8, <1>10, <1>15 DEF ClosedFacts, DmaFacts, AiFacts, Open, Quiet,
     PushPos, OutPos, c, Common, Status, PlainShape
<1>14. AiFacts(q, m, w)'
  BY <1>2, <1>3, <1>4, <1>7, <1>8, <1>10, <1>15 DEF DmaFacts, AiFacts, Quiet, Open, PushPos, OutPos, c,
     Common, Status
<1>16. PlainData(s, q, m, j, w)'
  BY <1>2, <1>3, <1>4, <1>7, <1>8, <1>10, <1>12, <1>13, <1>14 DEF PlainData, PushPos, OutPos
<1>17. PlainAt(low, s, q, m, 0, j, ii)'
  BY <1>2, <1>3, <1>5, <1>6, <1>8, <1>16 DEF PlainAt, w
<1> QED
  BY <1>11, <1>17

LEMMA PlainTell ==
    ASSUME Common, ~Kmodel, NEW low, NEW s, NEW p, NEW k, NEW i, NEW j, NEW ii,
           PlainAt(low, s, p, k, i, j, ii), Tell
    PROVE  Common' /\ \E q, m : PlainAt(low, s, q, m, 0, j, ii)'
<1> DEFINE w == at + i + ii
           c == Len(computed)
<1>1. /\ PlainShape(low, s, p, k, i, j, ii) /\ PlainStmt(s, p, k) /\ PlainLens
      /\ k \in 0 .. Len(Code(p)) /\ p \in PlainProgs
  BY PlainStatement DEF PlainAt
<1>2. /\ Done
      /\ told' = told + 1
      /\ UNCHANGED <<api, model, also, input, status, mask, fifo, busy, outReady, dma, dmaDone, 
                     dmaCb, aiEnabled, pend, irqOff, flag, at, n, arrived, computed, 
                     delivered>>
  BY DEF Tell, runVars, aiVars, dmaVars, plicVars, taskVars, dataVars
<1>3. /\ w \in Nat /\ w <= L /\ c \in Nat /\ c <= w /\ L \in Nat /\ L > 0
      /\ c = L => busy = 0 /\ fifo = <<>> /\ w = L
      /\ busy = 0 /\ fifo = <<>> => c = w
      /\ i \in Nat /\ ii \in Nat /\ at \in Nat /\ k \in Nat /\ api \in {"kpu_start", "kpu_run"}
      /\ at > 0 => w > 0
  BY PlainNumbers, PlainModel
<1>4. p = "ends" /\ k = 2
  BY <1>1, <1>2 DEF Tell, PlainStmt
<1>5. p # "rest" /\ i = 0
  BY <1>1, <1>3, <1>4 DEF PlainShape, PushPos, OutPos
<1>6. PICK q, m : PlainShape(low, s, q, m, 0, j, ii)' /\ NextAt(p, k, q, m)
  BY <1>1, <1>2, <1>5, PlainDone
<1>7. q = "ends" /\ m = 3
  <2>1. PICK len : len = Len(Code(p))
    OBVIOUS
  <2>2. /\ p = "ends" => len = 4
        /\ p = "ai" => len = 2
        /\ p = "inp" => len = IF api = "kpu_start" THEN 1 ELSE 2
        /\ p = "ready" => len = IF api = "kpu_start" THEN 8 ELSE 6
    BY <1>1, <2>1 DEF PlainLens
  <2>3. IF k + 1 = len THEN q = "rest" /\ m = 0 ELSE q = p /\ m = k + 1
    BY <1>6, <2>1 DEF NextAt
  <2> QED
    BY <1>3, <1>4, <2>2, <2>3 DEF OutPos
<1>8. w' = w /\ L' = L /\ OutPos' = OutPos /\ PushPos' = PushPos /\ ~Kmodel' /\ c' = c /\ Pipe(w)'
  BY <1>2, PipeSame DEF L, OutPos, PushPos, Kmodel, PlainAt, PlainData
<1>9. PlainData(s, p, k, j, w)
  BY DEF PlainAt
<1> HIDE DEF w, c
<1>10. /\ ClosedFacts(p, k, j) /\ DmaFacts(s, p, k, w) /\ AiFacts(p, k, w) /\ SuspendedFacts(j)
       /\ (w > 0 => arrived)
      /\ irqOff = FALSE /\ w <= L /\ (p = "inp" \/ (p = "ready" /\ k < PushPos) => w = 0)
  BY <1>9 DEF PlainData
<1>11. Common'
  <2>1. Open
    BY <1>4, <1>10 DEF ClosedFacts
  <2> QED
    BY <1>2, <2>1, CountedSame DEF Common, Status, Sources, Open
<1>15. j # 0 => (p = "ends" /\ j \in {6, 7}) \/ (p = "ai" /\ j \in 10 .. 13)
  BY <1>1, <1>5 DEF PlainShape
<1>12. ClosedFacts(q, m, j)' /\ SuspendedFacts(j)'
  BY <1>2, <1>3, <1>4, <1>7, <1>8, <1>10, <1>15 DEF ClosedFacts, DmaFacts, SuspendedFacts, Open,
     PushPos, OutPos, c, Common
<1>13. DmaFacts(s, q, m, w)'
  BY <1>1, <1>2, <1>3, <1>4, <1>7, <1>8, <1>10, <1>15 DEF ClosedFacts, DmaFacts, AiFacts, Open, Quiet,
     PushPos, OutPos, c, Common, Status, PlainShape
<1>14. AiFacts(q, m, w)'
  BY <1>2, <1>3, <1>4, <1>7, <1>8, <1>10, <1>15 DEF DmaFacts, AiFacts, Quiet, Open, PushPos, OutPos, c,
     Common, Status
<1>16. PlainData(s, q, m, j, w)'
  BY <1>2, <1>3, <1>4, <1>7, <1>8, <1>10, <1>12, <1>13, <1>14 DEF PlainData, PushPos, OutPos
<1>17. PlainAt(low, s, q, m, 0, j, ii)'
  BY <1>2, <1>3, <1>5, <1>6, <1>8, <1>16 DEF PlainAt, w
<1> QED
  BY <1>11, <1>17

LEMMA PlainClear ==
    ASSUME Common, ~Kmodel, NEW low, NEW s, NEW p, NEW k, NEW i, NEW j, NEW ii,
           PlainAt(low, s, p, k, i, j, ii), Clear
    PROVE  Common' /\ \E q, m : PlainAt(low, s, q, m, 0, j, ii)'
<1> DEFINE w == at + i + ii
           c == Len(computed)
<1>1. /\ PlainShape(low, s, p, k, i, j, ii) /\ PlainStmt(s, p, k) /\ PlainLens
      /\ k \in 0 .. Len(Code(p)) /\ p \in PlainProgs
  BY PlainStatement DEF PlainAt
<1>2. /\ Done
      /\ status' = {}
      /\ UNCHANGED <<api, model, also, input, mask, fifo, busy, outReady, dma, dmaDone, dmaCb, 
                     aiEnabled, pend, irqOff, flag, at, n, told, arrived, computed, 
                     delivered>>
  BY DEF Clear, runVars, aiVars, dmaVars, plicVars, taskVars, dataVars
<1>3. /\ w \in Nat /\ w <= L /\ c \in Nat /\ c <= w /\ L \in Nat /\ L > 0
      /\ c = L => busy = 0 /\ fifo = <<>> /\ w = L
      /\ busy = 0 /\ fifo = <<>> => c = w
      /\ i \in Nat /\ ii \in Nat /\ at \in Nat /\ k \in Nat /\ api \in {"kpu_start", "kpu_run"}
      /\ at > 0 => w > 0
  BY PlainNumbers, PlainModel
<1>4. (p = "ai" /\ k = 0) \/ (p = "ready" /\ k \in IF api = "kpu_start" THEN {3, 5} ELSE {0, 4})
  BY <1>1, <1>2 DEF Clear, PlainStmt
<1>5. p # "rest" /\ i = 0
  BY <1>1, <1>3, <1>4 DEF PlainShape, PushPos, OutPos
<1>6. PICK q, m : PlainShape(low, s, q, m, 0, j, ii)' /\ NextAt(p, k, q, m)
  BY <1>1, <1>2, <1>5, PlainDone
<1>7. q = p /\ m = k + 1
  <2>1. PICK len : len = Len(Code(p))
    OBVIOUS
  <2>2. /\ p = "ends" => len = 4
        /\ p = "ai" => len = 2
        /\ p = "inp" => len = IF api = "kpu_start" THEN 1 ELSE 2
        /\ p = "ready" => len = IF api = "kpu_start" THEN 8 ELSE 6
    BY <1>1, <2>1 DEF PlainLens
  <2>3. IF k + 1 = len THEN q = "rest" /\ m = 0 ELSE q = p /\ m = k + 1
    BY <1>6, <2>1 DEF NextAt
  <2> QED
    BY <1>3, <1>4, <2>2, <2>3 DEF OutPos
<1>8. w' = w /\ L' = L /\ OutPos' = OutPos /\ PushPos' = PushPos /\ ~Kmodel' /\ c' = c /\ Pipe(w)'
  BY <1>2, PipeSame DEF L, OutPos, PushPos, Kmodel, PlainAt, PlainData
<1>9. PlainData(s, p, k, j, w)
  BY DEF PlainAt
<1> HIDE DEF w, c
<1>10. /\ ClosedFacts(p, k, j) /\ DmaFacts(s, p, k, w) /\ AiFacts(p, k, w) /\ SuspendedFacts(j)
       /\ (w > 0 => arrived)
      /\ irqOff = FALSE /\ w <= L /\ (p = "inp" \/ (p = "ready" /\ k < PushPos) => w = 0)
  BY <1>9 DEF PlainData
<1>11. Common'
  BY <1>2, CountedSame DEF Common, Status, Sources
<1>15. j # 0 => (p = "ends" /\ j \in {6, 7}) \/ (p = "ai" /\ j \in 10 .. 13)
  BY <1>1, <1>5 DEF PlainShape
<1>12. ClosedFacts(q, m, j)' /\ SuspendedFacts(j)'
  BY <1>2, <1>3, <1>4, <1>7, <1>8, <1>10, <1>15 DEF ClosedFacts, DmaFacts, SuspendedFacts, Open,
     PushPos, OutPos, c, Common
<1>13. DmaFacts(s, q, m, w)'
  BY <1>1, <1>2, <1>3, <1>4, <1>7, <1>8, <1>10, <1>15 DEF ClosedFacts, DmaFacts, AiFacts, Open, Quiet,
     PushPos, OutPos, c, Common, Status, PlainShape
<1>14. AiFacts(q, m, w)'
  BY <1>2, <1>3, <1>4, <1>7, <1>8, <1>10, <1>15 DEF DmaFacts, AiFacts, Quiet, Open, PushPos, OutPos, c,
     Common, Status
<1>16. PlainData(s, q, m, j, w)'
  BY <1>2, <1>3, <1>4, <1>7, <1>8, <1>10, <1>12, <1>13, <1>14 DEF PlainData, PushPos, OutPos
<1>17. PlainAt(low, s, q, m, 0, j, ii)'
  BY <1>2, <1>3, <1>5, <1>6, <1>8, <1>16 DEF PlainAt, w
<1> QED
  BY <1>11, <1>17

LEMMA PlainClearDma ==
    ASSUME Common, ~Kmodel, NEW low, NEW s, NEW p, NEW k, NEW i, NEW j, NEW ii,
           PlainAt(low, s, p, k, i, j, ii), ClearDma
    PROVE  Common' /\ \E q, m : PlainAt(low, s, q, m, 0, j, ii)'
<1> DEFINE w == at + i + ii
           c == Len(computed)
<1>1. /\ PlainShape(low, s, p, k, i, j, ii) /\ PlainStmt(s, p, k) /\ PlainLens
      /\ k \in 0 .. Len(Code(p)) /\ p \in PlainProgs
  BY PlainStatement DEF PlainAt
<1>2. /\ Done
      /\ dmaDone' = FALSE
      /\ UNCHANGED <<api, model, also, input, status, mask, fifo, busy, outReady, dma, dmaCb, 
                     aiEnabled, pend, irqOff, flag, at, n, told, arrived, computed, 
                     delivered>>
  BY DEF ClearDma, runVars, aiVars, dmaVars, plicVars, taskVars, dataVars
<1>3. /\ w \in Nat /\ w <= L /\ c \in Nat /\ c <= w /\ L \in Nat /\ L > 0
      /\ c = L => busy = 0 /\ fifo = <<>> /\ w = L
      /\ busy = 0 /\ fifo = <<>> => c = w
      /\ i \in Nat /\ ii \in Nat /\ at \in Nat /\ k \in Nat /\ api \in {"kpu_start", "kpu_run"}
      /\ at > 0 => w > 0
  BY PlainNumbers, PlainModel
<1>4. (p = "ends" /\ k = 0) \/ (p = "ready" /\ k = IF api = "kpu_start" THEN 0 ELSE 1)
  BY <1>1, <1>2 DEF ClearDma, PlainStmt
<1>5. p # "rest" /\ i = 0
  BY <1>1, <1>3, <1>4 DEF PlainShape, PushPos, OutPos
<1>6. PICK q, m : PlainShape(low, s, q, m, 0, j, ii)' /\ NextAt(p, k, q, m)
  BY <1>1, <1>2, <1>5, PlainDone
<1>7. q = p /\ m = k + 1
  <2>1. PICK len : len = Len(Code(p))
    OBVIOUS
  <2>2. /\ p = "ends" => len = 4
        /\ p = "ai" => len = 2
        /\ p = "inp" => len = IF api = "kpu_start" THEN 1 ELSE 2
        /\ p = "ready" => len = IF api = "kpu_start" THEN 8 ELSE 6
    BY <1>1, <2>1 DEF PlainLens
  <2>3. IF k + 1 = len THEN q = "rest" /\ m = 0 ELSE q = p /\ m = k + 1
    BY <1>6, <2>1 DEF NextAt
  <2> QED
    BY <1>3, <1>4, <2>2, <2>3 DEF OutPos
<1>8. w' = w /\ L' = L /\ OutPos' = OutPos /\ PushPos' = PushPos /\ ~Kmodel' /\ c' = c /\ Pipe(w)'
  BY <1>2, PipeSame DEF L, OutPos, PushPos, Kmodel, PlainAt, PlainData
<1>9. PlainData(s, p, k, j, w)
  BY DEF PlainAt
<1> HIDE DEF w, c
<1>10. /\ ClosedFacts(p, k, j) /\ DmaFacts(s, p, k, w) /\ AiFacts(p, k, w) /\ SuspendedFacts(j)
       /\ (w > 0 => arrived)
      /\ irqOff = FALSE /\ w <= L /\ (p = "inp" \/ (p = "ready" /\ k < PushPos) => w = 0)
  BY <1>9 DEF PlainData
<1>11. Common'
  <2>1. "dma" \notin pend
    BY <1>1, <1>10, <1>4, <1>3 DEF DmaFacts, OutPos, PushPos, Common, c
  <2> QED
    BY <1>2, <2>1, CountedSame DEF Common, Status, Sources
<1>15. j # 0 => (p = "ends" /\ j \in {6, 7}) \/ (p = "ai" /\ j \in 10 .. 13)
  BY <1>1, <1>5 DEF PlainShape
<1>12. ClosedFacts(q, m, j)' /\ SuspendedFacts(j)'
  BY <1>2, <1>3, <1>4, <1>7, <1>8, <1>10, <1>15 DEF ClosedFacts, DmaFacts, SuspendedFacts, Open,
     PushPos, OutPos, c, Common
<1>13. DmaFacts(s, q, m, w)'
  BY <1>1, <1>2, <1>3, <1>4, <1>7, <1>8, <1>10, <1>15 DEF ClosedFacts, DmaFacts, AiFacts, Open, Quiet,
     PushPos, OutPos, c, Common, Status, PlainShape
<1>14. AiFacts(q, m, w)'
  BY <1>2, <1>3, <1>4, <1>7, <1>8, <1>10, <1>15 DEF DmaFacts, AiFacts, Quiet, Open, PushPos, OutPos, c,
     Common, Status
<1>16. PlainData(s, q, m, j, w)'
  BY <1>2, <1>3, <1>4, <1>7, <1>8, <1>10, <1>12, <1>13, <1>14 DEF PlainData, PushPos, OutPos
<1>17. PlainAt(low, s, q, m, 0, j, ii)'
  BY <1>2, <1>3, <1>5, <1>6, <1>8, <1>16 DEF PlainAt, w
<1> QED
  BY <1>11, <1>17

LEMMA PlainSetMask ==
    ASSUME Common, ~Kmodel, NEW low, NEW s, NEW p, NEW k, NEW i, NEW j, NEW ii,
           PlainAt(low, s, p, k, i, j, ii), SetMask
    PROVE  Common' /\ \E q, m : PlainAt(low, s, q, m, 0, j, ii)'
<1> DEFINE w == at + i + ii
           c == Len(computed)
<1>1. /\ PlainShape(low, s, p, k, i, j, ii) /\ PlainStmt(s, p, k) /\ PlainLens
      /\ k \in 0 .. Len(Code(p)) /\ p \in PlainProgs
  BY PlainStatement DEF PlainAt
<1>2. /\ Done
      /\ \E stmt \in {"maskAll", "maskNone", "maskDone", "maskEmpty"} : At(stmt) /\ mask' = MaskOf(stmt)
      /\ UNCHANGED <<api, model, also, input, status, fifo, busy, outReady, dma, dmaDone, 
                     dmaCb, aiEnabled, pend, irqOff, flag, at, n, told, arrived, 
                     computed, delivered>>
  BY DEF SetMask, runVars, aiVars, dmaVars, plicVars, taskVars, dataVars
<1>3. /\ w \in Nat /\ w <= L /\ c \in Nat /\ c <= w /\ L \in Nat /\ L > 0
      /\ c = L => busy = 0 /\ fifo = <<>> /\ w = L
      /\ busy = 0 /\ fifo = <<>> => c = w
      /\ i \in Nat /\ ii \in Nat /\ at \in Nat /\ k \in Nat /\ api \in {"kpu_start", "kpu_run"}
      /\ at > 0 => w > 0
  BY PlainNumbers, PlainModel
<1>19. (busy # 0 => c < w) /\ (fifo # <<>> => c < w)
  BY PlainNumbers
<1>4. \/ p = "ready" /\ k = 2 /\ api = "kpu_start" /\ mask' = Status
      \/ p = "ready" /\ k = 3 /\ api # "kpu_start" /\ mask' = {}
      \/ p = "ready" /\ k = 7 /\ api = "kpu_start" /\ mask' = {"calc_done"}
  BY <1>1, <1>2 DEF MaskOf, SetMask, PlainStmt
<1>5. p # "rest" /\ i = 0
  BY <1>1, <1>3, <1>4 DEF PlainShape, PushPos, OutPos
<1>6. PICK q, m : PlainShape(low, s, q, m, 0, j, ii)' /\ NextAt(p, k, q, m)
  BY <1>1, <1>2, <1>5, PlainDone
<1>7. IF k = 7 THEN q = "rest" /\ m = 0 ELSE q = "ready" /\ m = k + 1
  <2>1. PICK len : len = Len(Code(p))
    OBVIOUS
  <2>2. /\ p = "ends" => len = 4
        /\ p = "ai" => len = 2
        /\ p = "inp" => len = IF api = "kpu_start" THEN 1 ELSE 2
        /\ p = "ready" => len = IF api = "kpu_start" THEN 8 ELSE 6
    BY <1>1, <2>1 DEF PlainLens
  <2>3. IF k + 1 = len THEN q = "rest" /\ m = 0 ELSE q = p /\ m = k + 1
    BY <1>6, <2>1 DEF NextAt
  <2> QED
    BY <1>3, <1>4, <2>2, <2>3 DEF OutPos
<1>8. w' = w /\ L' = L /\ OutPos' = OutPos /\ PushPos' = PushPos /\ ~Kmodel' /\ c' = c /\ Pipe(w)'
  BY <1>2, PipeSame DEF L, OutPos, PushPos, Kmodel, PlainAt, PlainData
<1>9. PlainData(s, p, k, j, w)
  BY DEF PlainAt
<1> HIDE DEF w, c
<1>10. /\ ClosedFacts(p, k, j) /\ DmaFacts(s, p, k, w) /\ AiFacts(p, k, w) /\ SuspendedFacts(j)
       /\ (w > 0 => arrived)
      /\ irqOff = FALSE /\ w <= L /\ (p = "inp" \/ (p = "ready" /\ k < PushPos) => w = 0)
  BY <1>9 DEF PlainData
<1>11. Common'
  <2>1. mask' \subseteq Status
    BY <1>4 DEF Status
  <2> QED
    BY <1>2, <2>1, CountedSame DEF Common, Sources
<1>15. j # 0 => (p = "ends" /\ j \in {6, 7}) \/ (p = "ai" /\ j \in 10 .. 13)
  BY <1>1, <1>5 DEF PlainShape
<1>12. ClosedFacts(q, m, j)' /\ SuspendedFacts(j)'
  BY <1>2, <1>3, <1>4, <1>7, <1>8, <1>10, <1>15 DEF ClosedFacts, DmaFacts, SuspendedFacts, Open,
     PushPos, OutPos, c, Common
<1>13. DmaFacts(s, q, m, w)'
  BY <1>1, <1>2, <1>3, <1>4, <1>7, <1>8, <1>10, <1>15, SMTT(30)
     DEF ClosedFacts, DmaFacts, AiFacts, Open, Quiet, PushPos, OutPos, c, Common, Status, PlainShape
<1>14. AiFacts(q, m, w)'
  <2>5. k = 2 \/ k = 3 => "ai" \notin pend /\ status \ mask' = {} /\ w = 0 /\ fifo = <<>> /\ busy = 0
    <3>1. k = 2 \/ k = 3 => w = 0
      BY <1>4, <1>10 DEF PushPos
    <3>2. k = 2 \/ k = 3 => "ai" \notin pend
      BY <1>3, <1>10, <3>1 DEF AiFacts, Quiet
    <3>3. k = 2 \/ k = 3 => fifo = <<>> /\ busy = 0
      BY <1>3, <3>1, <1>19
    <3>4. k = 2 => status \ mask' = {}
      BY <1>4 DEF Common
    <3>5. k = 3 => status \ mask' = {}
      BY <1>3, <1>4, <1>10 DEF AiFacts
    <3> QED
      BY <3>1, <3>2, <3>3, <3>4, <3>5
  <2>1. CASE k = 2
    BY <1>2, <1>4, <1>7, <1>8, <1>10, <2>1, <2>5 DEF AiFacts, Quiet
  <2>2. CASE k = 3
    BY <1>2, <1>4, <1>7, <1>8, <1>10, <2>2, <2>5 DEF AiFacts, Quiet
  <2>3. CASE k = 7
    BY <1>2, <1>3, <1>4, <1>7, <1>8, <1>10, <1>15, <2>3 DEF DmaFacts, AiFacts, Quiet, Open, PushPos,
       OutPos, c, Common, Status
  <2> QED
    BY <1>4, <2>1, <2>2, <2>3
<1>16. PlainData(s, q, m, j, w)'
  BY <1>2, <1>3, <1>4, <1>7, <1>8, <1>10, <1>12, <1>13, <1>14 DEF PlainData, PushPos, OutPos
<1>17. PlainAt(low, s, q, m, 0, j, ii)'
  BY <1>2, <1>3, <1>5, <1>6, <1>8, <1>16 DEF PlainAt, w
<1> QED
  BY <1>11, <1>17

LEMMA PlainInput ==
    ASSUME Common, ~Kmodel, NEW low, NEW s, NEW p, NEW k, NEW i, NEW j, NEW ii,
           PlainAt(low, s, p, k, i, j, ii), Input
    PROVE  Common' /\ \E q, m : PlainAt(low, s, q, m, 0, j, ii)'
<1> DEFINE w == at + i + ii
           c == Len(computed)
<1>1. /\ PlainShape(low, s, p, k, i, j, ii) /\ PlainStmt(s, p, k) /\ PlainLens
      /\ k \in 0 .. Len(Code(p)) /\ p \in PlainProgs
  BY PlainStatement DEF PlainAt
<1>2. /\ Done
      /\ dma' = "in" /\ dmaCb' = "ready" /\ dmaDone' = FALSE
      /\ UNCHANGED <<api, model, also, input, status, mask, fifo, busy, outReady, aiEnabled, 
                     pend, irqOff, flag, at, n, told, arrived, computed, delivered>>
  BY DEF Input, Arm, runVars, aiVars, dmaVars, plicVars, taskVars, dataVars
<1>3. /\ w \in Nat /\ w <= L /\ c \in Nat /\ c <= w /\ L \in Nat /\ L > 0
      /\ c = L => busy = 0 /\ fifo = <<>> /\ w = L
      /\ busy = 0 /\ fifo = <<>> => c = w
      /\ i \in Nat /\ ii \in Nat /\ at \in Nat /\ k \in Nat /\ api \in {"kpu_start", "kpu_run"}
      /\ at > 0 => w > 0
  BY PlainNumbers, PlainModel
<1>4. p = "inp" /\ k = IF api = "kpu_start" THEN 0 ELSE 1
  BY <1>1, <1>2 DEF Input, Arm, PlainStmt
<1>5. p # "rest" /\ i = 0
  BY <1>1, <1>3, <1>4 DEF PlainShape, PushPos, OutPos
<1>6. PICK q, m : PlainShape(low, s, q, m, 0, j, ii)' /\ NextAt(p, k, q, m)
  BY <1>1, <1>2, <1>5, PlainDone
<1>7. q = "rest" /\ m = 0
  <2>1. PICK len : len = Len(Code(p))
    OBVIOUS
  <2>2. /\ p = "ends" => len = 4
        /\ p = "ai" => len = 2
        /\ p = "inp" => len = IF api = "kpu_start" THEN 1 ELSE 2
        /\ p = "ready" => len = IF api = "kpu_start" THEN 8 ELSE 6
    BY <1>1, <2>1 DEF PlainLens
  <2>3. IF k + 1 = len THEN q = "rest" /\ m = 0 ELSE q = p /\ m = k + 1
    BY <1>6, <2>1 DEF NextAt
  <2> QED
    BY <1>3, <1>4, <2>2, <2>3 DEF OutPos
<1>8. w' = w /\ L' = L /\ OutPos' = OutPos /\ PushPos' = PushPos /\ ~Kmodel' /\ c' = c /\ Pipe(w)'
  BY <1>2, PipeSame DEF L, OutPos, PushPos, Kmodel, PlainAt, PlainData
<1>9. PlainData(s, p, k, j, w)
  BY DEF PlainAt
<1> HIDE DEF w, c
<1>10. /\ ClosedFacts(p, k, j) /\ DmaFacts(s, p, k, w) /\ AiFacts(p, k, w) /\ SuspendedFacts(j)
       /\ (w > 0 => arrived)
      /\ irqOff = FALSE /\ w <= L /\ (p = "inp" \/ (p = "ready" /\ k < PushPos) => w = 0)
  BY <1>9 DEF PlainData
<1>11. Common'
  <2>1. "dma" \notin pend
    BY <1>1, <1>10, <1>4, <1>3 DEF DmaFacts, OutPos, PushPos, Common, c
  <2> QED
    BY <1>2, <2>1, CountedSame DEF Common, Status, Sources
<1>15. j # 0 => (p = "ends" /\ j \in {6, 7}) \/ (p = "ai" /\ j \in 10 .. 13)
  BY <1>1, <1>5 DEF PlainShape
<1>12. ClosedFacts(q, m, j)' /\ SuspendedFacts(j)'
  BY <1>2, <1>3, <1>4, <1>7, <1>8, <1>10, <1>15 DEF ClosedFacts, DmaFacts, SuspendedFacts, Open,
     PushPos, OutPos, c, Common
<1>13. DmaFacts(s, q, m, w)'
  BY <1>1, <1>2, <1>3, <1>4, <1>7, <1>8, <1>10, <1>15 DEF ClosedFacts, DmaFacts, AiFacts, Open, Quiet,
     PushPos, OutPos, c, Common, Status, PlainShape
<1>14. AiFacts(q, m, w)'
  BY <1>2, <1>3, <1>4, <1>7, <1>8, <1>10, <1>15 DEF DmaFacts, AiFacts, Quiet, Open, PushPos, OutPos, c,
     Common, Status
<1>16. PlainData(s, q, m, j, w)'
  BY <1>2, <1>3, <1>4, <1>7, <1>8, <1>10, <1>12, <1>13, <1>14 DEF PlainData, PushPos, OutPos
<1>17. PlainAt(low, s, q, m, 0, j, ii)'
  BY <1>2, <1>3, <1>5, <1>6, <1>8, <1>16 DEF PlainAt, w
<1> QED
  BY <1>11, <1>17

LEMMA PlainOutput ==
    ASSUME Common, ~Kmodel, NEW low, NEW s, NEW p, NEW k, NEW i, NEW j, NEW ii,
           PlainAt(low, s, p, k, i, j, ii), Output
    PROVE  Common' /\ \E q, m : PlainAt(low, s, q, m, 0, j, ii)'
<1> DEFINE w == at + i + ii
           c == Len(computed)
<1>1. /\ PlainShape(low, s, p, k, i, j, ii) /\ PlainStmt(s, p, k) /\ PlainLens
      /\ k \in 0 .. Len(Code(p)) /\ p \in PlainProgs
  BY PlainStatement DEF PlainAt
<1>2. /\ Done
      /\ dma' = "out" /\ dmaCb' = "done" /\ dmaDone' = FALSE
      /\ UNCHANGED <<api, model, also, input, status, mask, fifo, busy, outReady, aiEnabled, 
                     pend, irqOff, flag, at, n, told, arrived, computed, delivered>>
  BY DEF Output, Arm, OutputCallback, runVars, aiVars, dmaVars, plicVars, taskVars, dataVars
<1>3. /\ w \in Nat /\ w <= L /\ c \in Nat /\ c <= w /\ L \in Nat /\ L > 0
      /\ c = L => busy = 0 /\ fifo = <<>> /\ w = L
      /\ busy = 0 /\ fifo = <<>> => c = w
      /\ i \in Nat /\ ii \in Nat /\ at \in Nat /\ k \in Nat /\ api \in {"kpu_start", "kpu_run"}
      /\ at > 0 => w > 0
  BY PlainNumbers, PlainModel
<1>4. p = "ready" /\ k = OutPos
  BY <1>1, <1>2 DEF Output, Arm, OutputCallback, PlainStmt
<1>5. p # "rest" /\ i = 0
  BY <1>1, <1>3, <1>4 DEF PlainShape, PushPos, OutPos
<1>6. PICK q, m : PlainShape(low, s, q, m, 0, j, ii)' /\ NextAt(p, k, q, m)
  BY <1>1, <1>2, <1>5, PlainDone
<1>7. q = "ready" /\ m = k + 1
  <2>1. PICK len : len = Len(Code(p))
    OBVIOUS
  <2>2. /\ p = "ends" => len = 4
        /\ p = "ai" => len = 2
        /\ p = "inp" => len = IF api = "kpu_start" THEN 1 ELSE 2
        /\ p = "ready" => len = IF api = "kpu_start" THEN 8 ELSE 6
    BY <1>1, <2>1 DEF PlainLens
  <2>3. IF k + 1 = len THEN q = "rest" /\ m = 0 ELSE q = p /\ m = k + 1
    BY <1>6, <2>1 DEF NextAt
  <2> QED
    BY <1>3, <1>4, <2>2, <2>3 DEF OutPos
<1>8. w' = w /\ L' = L /\ OutPos' = OutPos /\ PushPos' = PushPos /\ ~Kmodel' /\ c' = c /\ Pipe(w)'
  BY <1>2, PipeSame DEF L, OutPos, PushPos, Kmodel, PlainAt, PlainData
<1>9. PlainData(s, p, k, j, w)
  BY DEF PlainAt
<1> HIDE DEF w, c
<1>10. /\ ClosedFacts(p, k, j) /\ DmaFacts(s, p, k, w) /\ AiFacts(p, k, w) /\ SuspendedFacts(j)
       /\ (w > 0 => arrived)
      /\ irqOff = FALSE /\ w <= L /\ (p = "inp" \/ (p = "ready" /\ k < PushPos) => w = 0)
  BY <1>9 DEF PlainData
<1>11. Common'
  <2>1. "dma" \notin pend
    BY <1>1, <1>10, <1>4, <1>3 DEF DmaFacts, OutPos, PushPos, Common, c
  <2> QED
    BY <1>2, <2>1, CountedSame DEF Common, Status, Sources
<1>15. j # 0 => (p = "ends" /\ j \in {6, 7}) \/ (p = "ai" /\ j \in 10 .. 13)
  BY <1>1, <1>5 DEF PlainShape
<1>12. ClosedFacts(q, m, j)' /\ SuspendedFacts(j)'
  BY <1>2, <1>3, <1>4, <1>7, <1>8, <1>10, <1>15 DEF ClosedFacts, DmaFacts, SuspendedFacts, Open,
     PushPos, OutPos, c, Common
<1>13. DmaFacts(s, q, m, w)'
  BY <1>1, <1>2, <1>3, <1>4, <1>7, <1>8, <1>10, <1>15 DEF ClosedFacts, DmaFacts, AiFacts, Open, Quiet,
     PushPos, OutPos, c, Common, Status, PlainShape
<1>14. AiFacts(q, m, w)'
  BY <1>2, <1>3, <1>4, <1>7, <1>8, <1>10, <1>15 DEF DmaFacts, AiFacts, Quiet, Open, PushPos, OutPos, c,
     Common, Status
<1>16. PlainData(s, q, m, j, w)'
  BY <1>2, <1>3, <1>4, <1>7, <1>8, <1>10, <1>12, <1>13, <1>14 DEF PlainData, PushPos, OutPos
<1>17. PlainAt(low, s, q, m, 0, j, ii)'
  BY <1>2, <1>3, <1>5, <1>6, <1>8, <1>16 DEF PlainAt, w
<1> QED
  BY <1>11, <1>17

LEMMA PlainReturns ==
    ASSUME Common, ~Kmodel, NEW low, NEW s, NEW p, NEW k, NEW i, NEW j, NEW ii,
           PlainAt(low, s, p, k, i, j, ii), CallbackReturns
    PROVE  Common' /\ \E q, m : PlainAt(low, s, q, m, 0, j, ii)'
<1> DEFINE w == at + i + ii
           c == Len(computed)
<1>1. /\ PlainShape(low, s, p, k, i, j, ii) /\ PlainStmt(s, p, k) /\ PlainLens
      /\ k \in 0 .. Len(Code(p)) /\ p \in PlainProgs
  BY PlainStatement DEF PlainAt
<1>2. /\ Done
      /\ UNCHANGED <<api, model, also, input, status, mask, fifo, busy, outReady, dma, dmaDone, 
                     dmaCb, aiEnabled, pend, irqOff, flag, at, n, told, arrived, 
                     computed, delivered>>
  BY DEF CallbackReturns, runVars, aiVars, dmaVars, plicVars, taskVars, dataVars
<1>3. /\ w \in Nat /\ w <= L /\ c \in Nat /\ c <= w /\ L \in Nat /\ L > 0
      /\ c = L => busy = 0 /\ fifo = <<>> /\ w = L
      /\ busy = 0 /\ fifo = <<>> => c = w
      /\ i \in Nat /\ ii \in Nat /\ at \in Nat /\ k \in Nat /\ api \in {"kpu_start", "kpu_run"}
      /\ at > 0 => w > 0
  BY PlainNumbers, PlainModel
<1>18. p = "rest" /\ s = "main" => MainLoop
  <2>1. PlainNow(low, s, p, k, i)
    BY PlainFrame DEF PlainAt
  <2> QED
    BY <2>1 DEF PlainNow, MainLoop, After, Main
<1>4. p = "ends" /\ k = 3
  BY <1>1, <1>2, <1>18 DEF CallbackReturns, PlainStmt
<1>5. p # "rest" /\ i = 0
  BY <1>1, <1>3, <1>4 DEF PlainShape, PushPos, OutPos
<1>6. PICK q, m : PlainShape(low, s, q, m, 0, j, ii)' /\ NextAt(p, k, q, m)
  BY <1>1, <1>2, <1>5, PlainDone
<1>7. q = "rest" /\ m = 0
  <2>1. PICK len : len = Len(Code(p))
    OBVIOUS
  <2>2. /\ p = "ends" => len = 4
        /\ p = "ai" => len = 2
        /\ p = "inp" => len = IF api = "kpu_start" THEN 1 ELSE 2
        /\ p = "ready" => len = IF api = "kpu_start" THEN 8 ELSE 6
    BY <1>1, <2>1 DEF PlainLens
  <2>3. IF k + 1 = len THEN q = "rest" /\ m = 0 ELSE q = p /\ m = k + 1
    BY <1>6, <2>1 DEF NextAt
  <2> QED
    BY <1>3, <1>4, <2>2, <2>3 DEF OutPos
<1>8. w' = w /\ L' = L /\ OutPos' = OutPos /\ PushPos' = PushPos /\ ~Kmodel' /\ c' = c /\ Pipe(w)'
  BY <1>2, PipeSame DEF L, OutPos, PushPos, Kmodel, PlainAt, PlainData
<1>9. PlainData(s, p, k, j, w)
  BY DEF PlainAt
<1> HIDE DEF w, c
<1>10. /\ ClosedFacts(p, k, j) /\ DmaFacts(s, p, k, w) /\ AiFacts(p, k, w) /\ SuspendedFacts(j)
       /\ (w > 0 => arrived)
      /\ irqOff = FALSE /\ w <= L /\ (p = "inp" \/ (p = "ready" /\ k < PushPos) => w = 0)
  BY <1>9 DEF PlainData
<1>11. Common'
  BY <1>2, CountedSame DEF Common, Status, Sources
<1>15. j # 0 => (p = "ends" /\ j \in {6, 7}) \/ (p = "ai" /\ j \in 10 .. 13)
  BY <1>1, <1>5 DEF PlainShape
<1>12. ClosedFacts(q, m, j)' /\ SuspendedFacts(j)'
  BY <1>2, <1>3, <1>4, <1>7, <1>8, <1>10, <1>15 DEF ClosedFacts, DmaFacts, SuspendedFacts, Open,
     PushPos, OutPos, c, Common
<1>13. DmaFacts(s, q, m, w)'
  BY <1>1, <1>2, <1>3, <1>4, <1>7, <1>8, <1>10, <1>15 DEF ClosedFacts, DmaFacts, AiFacts, Open, Quiet,
     PushPos, OutPos, c, Common, Status, PlainShape
<1>14. AiFacts(q, m, w)'
  BY <1>2, <1>3, <1>4, <1>7, <1>8, <1>10, <1>15 DEF DmaFacts, AiFacts, Quiet, Open, PushPos, OutPos, c,
     Common, Status
<1>16. PlainData(s, q, m, j, w)'
  BY <1>2, <1>3, <1>4, <1>7, <1>8, <1>10, <1>12, <1>13, <1>14 DEF PlainData, PushPos, OutPos
<1>17. PlainAt(low, s, q, m, 0, j, ii)'
  BY <1>2, <1>3, <1>5, <1>6, <1>8, <1>16 DEF PlainAt, w
<1> QED
  BY <1>11, <1>17

(* A layer is written, and the writing ends. *)
LEMMA PlainPush ==
    ASSUME Common, ~Kmodel, NEW low, NEW s, NEW p, NEW k, NEW i, NEW j, NEW ii,
           PlainAt(low, s, p, k, i, j, ii), Push
    PROVE  Common' /\ PlainAt(low, s, p, k, i + 1, 0, 0)'
<1> DEFINE w == at + i + ii
           c == Len(computed)
           f == FrameOf(s, p, k, After(s), i)
<1>1. /\ PlainNow(low, s, p, k, i) /\ PlainShape(low, s, p, k, i, j, ii) /\ PlainStmt(s, p, k)
      /\ PlainLens
      /\ k \in 0 .. Len(Code(p)) /\ p \in PlainProgs
  BY PlainFrame, PlainStatement DEF PlainAt
<1>2. /\ At("push") /\ at + Frame.i < L
      /\ fifo' = Append(fifo, at + Frame.i + 1)
      /\ stack' = [stack EXCEPT ![Len(stack)].i = @ + 1]
      /\ UNCHANGED <<api, model, also, input, status, mask, busy, outReady, dma, dmaDone, dmaCb,
                     aiEnabled,
                     pend, irqOff, flag, at, n, told, arrived, computed, delivered>>
  BY DEF Push, runVars, dmaVars, plicVars, taskVars, dataVars
<1>3. /\ w \in Nat /\ w <= L /\ c \in Nat /\ c <= w /\ L \in Nat /\ L > 0
      /\ i \in Nat /\ ii \in Nat /\ at \in Nat /\ k \in Nat /\ api \in {"kpu_start", "kpu_run"}
  BY PlainNumbers, PlainModel
<1>4. (p = "ai" /\ k = 1) \/ (p = "ready" /\ k = PushPos)
  BY <1>1, <1>2 DEF PlainStmt
<1>22. c = L => w = L
  BY PlainNumbers
<1>5. j = 0 /\ ii = 0 /\ p # "rest" /\ Frame.i = i
  <2>1. ii = 0 /\ p # "rest" /\ Frame.i = i /\ (j = 0 \/ j \in 10 .. 13)
    <3>1. p \in {"ai", "ready"} /\ Frame.i = i
      BY <1>1, <1>4 DEF PlainNow
    <3>2. j = 0 \/ j \in 10 .. 13
      BY <1>1, <3>1 DEF PlainShape
    <3>3. ii = 0
      BY <1>1, <3>2 DEF PlainShape
    <3> QED
      BY <3>1, <3>2, <3>3
  <2>2. w # L
    BY <1>2, <1>3, <2>1
  <2>3. j > 9 => c = L
    BY DEF PlainAt, PlainData, SuspendedFacts
  <2> QED
    BY <1>22, <2>1, <2>2, <2>3
<1>6. stack = Append(low, f) /\ f \in Frames /\ low \in Seq(Frames) /\ f.i = i
  BY <1>1 DEF PlainNow, FrameOf
<1> HIDE DEF f
<1>7. PICK g : g = [f EXCEPT !.i = @ + 1]
  OBVIOUS
<1>8. stack' = Append(low, g)
  <2>1. stack[Len(stack)] = f /\ g \in Frames
    <3>1. g \in Frames
      <4>1. /\ f = [src |-> s, todo |-> Frame.todo, i |-> i] /\ Frame.todo \in Seq(Stmts)
            /\ s \in Sources \cup {"main"}
        BY <1>1 DEF PlainNow, FrameOf, f, Frames
      <4>2. g = [src |-> s, todo |-> Frame.todo, i |-> i + 1]
        BY <1>7, <4>1
      <4> QED
        BY <1>3, <4>1, <4>2 DEF Frames
    <3> QED
      BY <1>6, <3>1, TopOf
  <2>2. stack' = [stack EXCEPT ![Len(stack)] = g]
    BY <1>2, <1>7, <2>1
  <2> QED
    BY <1>6, <2>1, <2>2, ReplaceTop
<1>9. g = FrameOf(s, p, k, After(s), i + 1)
  <2>1. f = [src |-> s, todo |-> Rest(Code(p), k) \o After(s), i |-> i]
    BY DEF f, FrameOf
  <2> QED
    BY <1>7, <2>1 DEF FrameOf
<1>10. /\ L' = L /\ OutPos' = OutPos /\ PushPos' = PushPos /\ ~Kmodel' /\ c' = c
       /\ Code(p)' = Code(p) /\ FrameOf(s, p, k, After(s), i + 1)' = FrameOf(s, p, k, After(s), i + 1)
  BY <1>1, <1>2, PlainSame DEF L, OutPos, PushPos, Kmodel
<1>11. PlainShape(low, s, p, k, i + 1, 0, 0)'
  <2>1. stack' = Append(low, FrameOf(s, p, k, After(s), i + 1)')
    BY <1>8, <1>9, <1>10
  <2>2. MainRests' = MainRests /\ DmaRests' = DmaRests
    BY DEF MainRests, DmaRests
  <2>3. i + 1 \in Nat
    BY <1>3
  <2> QED
    <3>1. 0 \in Places /\ 0 \in Nat
      BY DEF Places
    <3>2. \/ s = "main" /\ p = "ready" /\ low = <<>> /\ api = "kpu_start"
          \/ s = "dma" /\ p = "ready" /\ low = <<MainRests>>
          \/ s = "ai" /\ p = "ai" /\ low = <<MainRests>>
          \/ s = "ai" /\ p = "ai" /\ low = <<MainRests, DmaRests>> /\ api = "kpu_start"
      BY <1>1, <1>4, <1>5 DEF PlainShape
    <3>3. (p = "ready" /\ k = PushPos') \/ (p = "ai" /\ k = 1)
      BY <1>4, <1>10
    <3>4. k \in (0 .. Len(Code(p)))' /\ (k = Len(Code(p))' => p = "rest")
      BY <1>1, <1>10 DEF PlainShape
    <3>5. api' = api
      BY <1>2
    <3> QED
      BY <1>5, <2>1, <2>2, <2>3, <3>1, <3>2, <3>3, <3>4, <3>5 DEF PlainShape
<1>12. w < L /\ w + 1 = at + (i + 1) + 0 /\ fifo' = Append(fifo, w + 1)
  BY <1>2, <1>3, <1>5
<1>13. Pipe(w + 1)'
  <2>1. Pipe(w)
    BY DEF PlainAt, PlainData
  <2> HIDE DEF w
  <2>2. Pushed(w + 1)
    BY <1>2, <1>12 DEF Pushed
  <2>3. PICK x : x = w
    OBVIOUS
  <2>4. Pipe(x + 1)'
    BY <2>1, <2>2, <2>3, PipePush
  <2>5. x + 1 = at' + (i + 1) + 0
    BY <1>2, <1>12, <2>3
  <2>6. w' = w
    BY <1>2 DEF w
  <2> QED
    BY <2>3, <2>4, <2>6
<1>14. Common'
  BY <1>2, CountedSame DEF Common, Status, Sources
<1>15. PlainData(s, p, k, j, w)
  BY DEF PlainAt
<1>20. PICK v : v = w + 1 /\ v = at' + (i + 1) + 0
  BY <1>2, <1>12
<1>21. v > 0 /\ v \in Nat /\ v <= L /\ w < L /\ c < L /\ Pipe(v)'
  <2>1. v > 0 /\ v \in Nat /\ v <= L /\ w < L /\ c < L
    BY <1>3, <1>12, <1>20
  <2>2. Pipe(v)'
    <3>1. w' = w
      BY <1>2
    <3> HIDE DEF w
    <3> QED
      BY <1>13, <1>20, <3>1
  <2> QED
    BY <2>1, <2>2
<1> HIDE DEF w, c
<1>16. ClosedFacts(p, k, j) /\ DmaFacts(s, p, k, w) /\ AiFacts(p, k, w) /\ irqOff = FALSE
  BY <1>15 DEF PlainData
<1>17. arrived /\ aiEnabled /\ dma = "out" /\ Open /\ dmaCb = "done" /\ ~dmaDone
  <2>1. c # L
    BY <1>3, <1>12
  <2>2. arrived /\ dma = "out"
    BY <1>3, <1>4, <1>16, <2>1 DEF DmaFacts, AiFacts, PushPos, OutPos, c
  <2>3. aiEnabled
    BY <1>3, <1>4, <1>16 DEF AiFacts, PushPos
  <2> QED
    BY <1>16, <2>2, <2>3 DEF DmaFacts
<1>18. ClosedFacts(p, k, j)' /\ DmaFacts(s, p, k, v)' /\ AiFacts(p, k, v)'
  <2>1. ClosedFacts(p, k, j)'
    BY <1>2, <1>3, <1>4, <1>10, <1>16, <1>17 DEF ClosedFacts, Open, c
  <2>2. DmaFacts(s, p, k, v)'
    BY <1>2, <1>3, <1>4, <1>10, <1>16, <1>17, <1>21 DEF DmaFacts, Open, PushPos, OutPos, c
  <2>3. AiFacts(p, k, v)'
    BY <1>2, <1>3, <1>4, <1>10, <1>16, <1>17, <1>21 DEF AiFacts, Quiet, PushPos
  <2> QED
    BY <2>1, <2>2, <2>3
<1>19. PlainData(s, p, k, 0, v)'
  BY <1>2, <1>4, <1>5, <1>10, <1>16, <1>17, <1>18, <1>21 DEF PlainData, SuspendedFacts, PushPos
<1> QED
  BY <1>11, <1>14, <1>19, <1>20 DEF PlainAt

LEMMA PlainPushEnds ==
    ASSUME Common, ~Kmodel, NEW low, NEW s, NEW p, NEW k, NEW i, NEW j, NEW ii,
           PlainAt(low, s, p, k, i, j, ii), PushEnds
    PROVE  Common' /\ \E q, m : PlainAt(low, s, q, m, 0, j, 0)'
<1> DEFINE w == at + i + ii
           c == Len(computed)
           f == FrameOf(s, p, k, After(s), i)
<1>1. /\ PlainNow(low, s, p, k, i) /\ PlainShape(low, s, p, k, i, j, ii) /\ PlainStmt(s, p, k)
      /\ PlainLens
      /\ k \in 0 .. Len(Code(p)) /\ p \in PlainProgs
  BY PlainFrame, PlainStatement DEF PlainAt
<1>2. /\ At("push") /\ (Frame.i = BurstSize \/ at + Frame.i = L)
      /\ at' = at + Frame.i
      /\ stack' = [stack EXCEPT ![Len(stack)].i = 0, ![Len(stack)].todo = Tail(@)]
      /\ mask' = IF api = "kpu_start" /\ L - at <= Burst THEN Status ELSE mask
      /\ UNCHANGED <<api, model, also, input, status, fifo, busy, outReady, dma, dmaDone, dmaCb,
                     aiEnabled,
                     pend, irqOff, flag, n, told, arrived, computed, delivered>>
  BY DEF PushEnds, runVars, dmaVars, plicVars, dataVars
<1>3. /\ w \in Nat /\ w <= L /\ c \in Nat /\ c <= w /\ L \in Nat /\ L > 0
      /\ c = L => busy = 0 /\ fifo = <<>> /\ w = L
      /\ i \in Nat /\ ii \in Nat /\ at \in Nat /\ k \in Nat /\ api \in {"kpu_start", "kpu_run"}
  BY PlainNumbers, PlainModel
<1>4. (p = "ai" /\ k = 1) \/ (p = "ready" /\ k = PushPos)
  BY <1>1, <1>2 DEF PlainStmt
<1>5. (j # 0 => j \in 10 .. 13 /\ p = "ai") /\ ii = 0 /\ p # "rest" /\ Frame.i = i
  <2>1. p # "rest" /\ Frame.i = i
    BY <1>1, <1>4 DEF PlainNow
  <2>2. j = 0 \/ (j \in 10 .. 13 /\ p = "ai")
    BY <1>1, <1>4 DEF PlainShape
  <2>3. j # 6 => ii = 0
    BY <1>1 DEF PlainShape
  <2> QED
    BY <2>1, <2>2, <2>3
<1>6. stack = Append(low, f) /\ f \in Frames /\ low \in Seq(Frames) /\ Frame = f
      /\ f = [src |-> s, todo |-> Frame.todo, i |-> i] /\ Frame.todo \in Seq(Stmts) /\ Frame.todo # <<>>
  BY <1>1, <1>5 DEF PlainNow, FrameOf, Frames
<1> HIDE DEF f
<1>7. PICK g : g = [src |-> s, todo |-> Tail(Frame.todo), i |-> 0]
  OBVIOUS
<1>8. stack' = Append(low, g)
  <2>1. stack[Len(stack)] = f /\ g \in Frames /\ Len(stack) \in DOMAIN stack
    <3>1. Tail(Frame.todo) \in Seq(Stmts)
      BY <1>6, HeadTailProperties
    <3>2. g \in Frames
      BY <1>6, <1>7, <3>1 DEF Frames
    <3>3. /\ stack[Len(stack)] = f /\ stack \in Seq(Frames) /\ Len(stack) = Len(low) + 1
          /\ Len(low) \in Nat
      BY <1>6, TopOf
    <3> QED
      BY <3>2, <3>3
  <2>2. stack' = [stack EXCEPT ![Len(stack)] = g]
    <3>1. [[f EXCEPT !.i = 0] EXCEPT !.todo = Tail(@)] = g
      <4>1. PICK x, y, z, t : f = [src |-> x, todo |-> y, i |-> z] /\ g = [src |-> x, todo |-> t, i |-> 0] /\ t = Tail(y)
        BY <1>6, <1>7
      <4>2. PICK h : h = [f EXCEPT !.i = 0]
        OBVIOUS
      <4>3. h = [src |-> x, todo |-> y, i |-> 0]
        BY <4>1, <4>2
      <4>4. [h EXCEPT !.todo = Tail(@)] = [h EXCEPT !.todo = t]
        BY <4>1, <4>3
      <4>6. [h EXCEPT !.todo = t] = [src |-> x, todo |-> t, i |-> 0]
        BY <4>3
      <4>5. [h EXCEPT !.todo = t] = g
        BY <4>1, <4>6
      <4> QED
        BY <4>2, <4>4, <4>5
    <3> QED
      BY <1>2, <2>1, <3>1
  <2>3. stack = Append(low, f) /\ low \in Seq(Frames) /\ f \in Frames /\ g \in Frames
    BY <1>6, <2>1
  <2> QED
    BY <2>2, <2>3, ReplaceTop
<1>9. PICK q, m : PlainShape(low, s, q, m, 0, j, ii)' /\ NextAt(p, k, q, m)
  BY <1>1, <1>2, <1>5, <1>7, <1>8, PlainNext
<1>10. IF p = "ready" /\ api = "kpu_start" THEN q = "ready" /\ m = 7 ELSE q = "rest" /\ m = 0
  <2>1. PICK len : len = Len(Code(p))
    OBVIOUS
  <2>2. /\ p = "ai" => len = 2
        /\ p = "ready" => len = IF api = "kpu_start" THEN 8 ELSE 6
    BY <1>1, <2>1 DEF PlainLens
  <2>3. IF k + 1 = len THEN q = "rest" /\ m = 0 ELSE q = p /\ m = k + 1
    BY <1>9, <2>1 DEF NextAt
  <2> QED
    BY <1>3, <1>4, <2>2, <2>3 DEF PushPos
<1>11. w = at' + 0 + 0 /\ at' = w /\ at' > 0 /\ at' \in Nat
  <2>1. BurstSize \in Nat /\ BurstSize > 0
    BY BurstAssumption DEF BurstSize
  <2> QED
    BY <1>2, <1>3, <1>5, <2>1
<1>12. Common'
  BY <1>2, <1>11, CountedSame DEF Common, Status, Sources
<1>13. PlainData(s, p, k, j, w)
  BY DEF PlainAt
<1>14. /\ L' = L /\ OutPos' = OutPos /\ PushPos' = PushPos /\ ~Kmodel' /\ c' = c
  BY <1>2 DEF L, OutPos, PushPos, Kmodel
<1>20. PICK v : v = w
  OBVIOUS
<1>15. Pipe(v)' /\ v > 0 /\ v <= L /\ v = at' + 0 + 0
  <2>1. Pipe(w) /\ v = w
    BY <1>20 DEF PlainAt, PlainData
  <2> HIDE DEF w
  <2>2. Pipe(v)'
    BY <1>2, <2>1, PipeSame
  <2> QED
    BY <1>3, <1>11, <2>1, <2>2
<1> HIDE DEF w, c
<1>16. /\ ClosedFacts(p, k, j) /\ DmaFacts(s, p, k, v) /\ AiFacts(p, k, v) /\ SuspendedFacts(j)
       /\ irqOff = FALSE
  BY <1>13, <1>20 DEF PlainData
<1>17. /\ arrived /\ aiEnabled /\ (dma = "out" \/ c = L) /\ dmaCb \in {"ready", "done"}
       /\ (dma = "out" => dmaCb = "done")
  <2>1. arrived /\ (dma = "out" \/ c = L)
    BY <1>3, <1>4, <1>16 DEF DmaFacts, AiFacts, PushPos, OutPos, c
  <2>2. aiEnabled
    BY <1>3, <1>4, <1>16 DEF AiFacts, PushPos
  <2> QED
    BY <1>16, <2>1, <2>2 DEF DmaFacts
<1>18. ClosedFacts(q, m, j)' /\ DmaFacts(s, q, m, v)' /\ AiFacts(q, m, v)'
  <2>1. ClosedFacts(q, m, j)'
    BY <1>2, <1>3, <1>4, <1>5, <1>10, <1>14, <1>16, <1>17 DEF ClosedFacts, Open, PushPos, c
  <2>2. DmaFacts(s, q, m, v)'
    BY <1>2, <1>3, <1>4, <1>10, <1>14, <1>15, <1>16, <1>17 DEF DmaFacts, Open, PushPos, OutPos, c
  <2>3. AiFacts(q, m, v)'
    <3>1. p = "ready" /\ api = "kpu_start" => mask' = Status /\ "ai" \notin pend
      BY <1>2, <1>4, <1>16 DEF AiFacts, PushPos
    <3> QED
      BY <1>2, <1>3, <1>4, <1>10, <1>11, <1>14, <1>15, <1>16, <1>17, <3>1 DEF AiFacts, Quiet, PushPos, c
  <2> QED
    BY <2>1, <2>2, <2>3
<1>21. SuspendedFacts(j)'
  <2>1. j \notin {6, 7}
    BY <1>5
  <2> QED
    BY <1>2, <1>14, <1>16, <2>1 DEF SuspendedFacts, Open, c
<1>19. PlainData(s, q, m, j, v)'
  BY <1>2, <1>10, <1>14, <1>15, <1>16, <1>17, <1>18, <1>21 DEF PlainData, PushPos
<1> QED
  BY <1>5, <1>9, <1>12, <1>15, <1>19 DEF PlainAt

(* A task is started, by main or by the callback of the last. *)
LEMMA PlainCall ==
    ASSUME ~collided', Common, ~Kmodel,
           NEW low, NEW s, NEW p, NEW k, NEW i, NEW j, NEW ii,
           PlainAt(low, s, p, k, i, j, ii), Call
    PROVE  Common' /\ \E low2, s2, p2, k2, i2, j2, ii2 : PlainAt(low2, s2, p2, k2, i2, j2, ii2)'
<1> DEFINE w == at + i + ii
           c == Len(computed)
           f == FrameOf(s, p, k, After(s), i)
<1>1. /\ PlainNow(low, s, p, k, i) /\ PlainShape(low, s, p, k, i, j, ii) /\ PlainStmt(s, p, k)
      /\ PlainLens
      /\ k \in 0 .. Len(Code(p)) /\ p \in PlainProgs
  BY PlainFrame, PlainStatement DEF PlainAt
<1>2. /\ At("call") /\ Free /\ ~Unfinished /\ stack[1].todo = <<"call">>
      /\ n' = n + 1 /\ flag' = 1 /\ at' = 0 /\ arrived' = (input = "cpu") /\ computed' = <<>>
      /\ delivered' = 0
      /\ Then(IF MainLoop THEN Append(StartPath, "call") ELSE StartPath)
      /\ UNCHANGED <<api, model, also, input, status, mask, fifo, busy, outReady, dma, dmaDone, dmaCb,
                     aiEnabled, pend, irqOff, told>>
  BY DEF Call, Unfinished, runVars, aiVars, dmaVars, plicVars
<1>3. /\ w \in Nat /\ c \in Nat /\ L \in Nat /\ L > 0
      /\ i \in Nat /\ ii \in Nat /\ at \in Nat /\ k \in Nat /\ api \in {"kpu_start", "kpu_run"}
  BY PlainNumbers, PlainModel
<1>4. (p = "rest" /\ s = "main") \/ (p = "ends" /\ k = 3 /\ s = "dma")
  BY <1>1, <1>2 DEF PlainStmt, PlainShape
<1>5. PlainData(s, p, k, j, w)
  BY DEF PlainAt
<1> HIDE DEF w, c, f
<1>6. ClosedFacts(p, k, j) /\ DmaFacts(s, p, k, w) /\ AiFacts(p, k, w) /\ irqOff = FALSE
  BY <1>5 DEF PlainData
<1>7. ~Open /\ n = told /\ fifo = <<>> /\ busy = 0 /\ outReady = FALSE /\ dma = "off" /\ dmaDone = FALSE
  <2>1. flag = 0
    BY <1>2 DEF Free
  <2>3. j # 12
    BY <1>1, <1>4 DEF PlainShape
  <2>2. ~Open
    BY <1>4, <1>6, <2>1, <2>3 DEF ClosedFacts
  <2> QED
    BY <1>6, <2>2 DEF ClosedFacts, Open, Common
<1>8. Quiet
  BY <1>2 DEF Unfinished, Level, Quiet
<1>9. j = 0 /\ ii = 0 /\ i = 0
  <2>1. i = 0
    BY <1>1, <1>4 DEF PlainShape
  <2>2. ASSUME j # 0 PROVE FALSE
    <3>1. low = <<Suspended(j, ii)>> /\ j \in {6, 7} /\ api = "kpu_start" /\ Len(Code("ready")) = 8
      BY <1>1, <1>4, <2>2 DEF PlainShape, PlainLens
    <3>2. stack[1] = Suspended(j, ii)
      BY <1>1, <3>1 DEF PlainNow
    <3>3. Suspended(j, ii).todo = Rest(Code("ready"), j) \o Main
      BY DEF Suspended, FrameOf, Main
    <3>4. Code("ready") \in Seq(Stmts) /\ Main \in Seq(Stmts) /\ Code("ready")[j + 1] # "call"
      <4>1. Code("ready") \in Seq(Stmts)
        BY PlainCode DEF PlainProgs
      <4>2. j = 6 => Code("ready")[j + 1] = "push"
        BY <3>1, PlainCode
      <4>3. j = 7 => Code("ready")[j + 1] = "maskDone"
        BY <3>1, PlainCode
      <4>4. Main \in Seq(Stmts)
        BY DEF Main, Stmts
      <4> QED
        BY <3>1, <4>1, <4>2, <4>3, <4>4
    <3>5. j \in 0 .. Len(Code("ready")) /\ j < Len(Code("ready"))
      <4>1. PICK len : len = Len(Code("ready"))
        OBVIOUS
      <4>2. len = 8 /\ j \in {6, 7}
        BY <3>1, <4>1
      <4>3. j \in 0 .. len /\ j < len
        BY <4>2
      <4> QED
        BY <4>1, <4>3
    <3>6. Head(Rest(Code("ready"), j) \o Main) = Code("ready")[j + 1]
      BY <3>4, <3>5, RestStep
    <3>7. Head(<<"call">>) = "call"
      OBVIOUS
    <3> QED
      BY <1>2, <3>2, <3>3, <3>4, <3>6, <3>7
  <2> QED
    BY <1>1, <2>1, <2>2 DEF PlainShape
<1>10. PICK p2 : p2 = IF api = "kpu_start" /\ input = "cpu" THEN "ready" ELSE "inp"
  OBVIOUS
<1>11. Code(p2) = StartPath /\ p2 \in PlainProgs /\ Code(p2) \in Seq(Stmts)
  <2>1. p2 \in PlainProgs
    BY <1>10 DEF PlainProgs
  <2>2. StartPath = IF api = "kpu_start" THEN (IF input = "dma" THEN <<"input">> ELSE DataReady)
                    ELSE <<"enable", "input">>
    BY <1>3 DEF StartPath
  <2>3. input = "dma" \/ (input = "cpu" /\ api = "kpu_start")
    BY <1>3 DEF Common
  <2>4. Code(p2) = StartPath
    BY <1>3, <1>10, <2>2, <2>3 DEF Code, Inp, Ready
  <2> QED
    BY <2>1, <2>4, PlainCode
<1>12. stack' = Append(low, [src |-> s, todo |-> Code(p2) \o After(s), i |-> 0])
  <2>1. stack = Append(low, f) /\ f \in Frames /\ low \in Seq(Frames) /\ Frame = f
        /\ f = [src |-> s, todo |-> Frame.todo, i |-> 0]
    BY <1>1, <1>9 DEF PlainNow, FrameOf, f
  <2>2. PICK more : more = IF MainLoop THEN Append(StartPath, "call") ELSE StartPath
    OBVIOUS
  <2>3. stack' = Append(low, [f EXCEPT !.todo = more \o Tail(@)])
    BY <1>2, <2>1, <2>2, ThenTop
  <2>4. PICK t : t = more \o Tail(f.todo)
    OBVIOUS
  <2>5. [f EXCEPT !.todo = more \o Tail(@)] = [src |-> s, todo |-> t, i |-> 0]
    <3>1. [f EXCEPT !.todo = more \o Tail(@)] = [f EXCEPT !.todo = t]
      BY <2>4
    <3>2. PICK u : f = [src |-> s, todo |-> u, i |-> 0]
      BY <2>1
    <3>3. [f EXCEPT !.todo = t] = [src |-> s, todo |-> t, i |-> 0]
      BY <3>2
    <3> QED
      BY <3>1, <3>3
  <2>6. t = Code(p2) \o After(s)
    <3>1. \A x \in Seq(Stmts) : x \o <<>> = x /\ Append(x, "call") = x \o <<"call">>
      <4> SUFFICES ASSUME NEW x \in Seq(Stmts) PROVE x \o <<>> = x /\ Append(x, "call") = x \o <<"call">>
        OBVIOUS
      <4>1. "call" \in Stmts
        BY DEF Stmts
      <4> QED
        BY <4>1, ConcatEmptySeq, AppendIsConcat
    <3>2. CASE s = "main"
      <4>1. Frame.todo = <<"call">> /\ Frame.src = "main" /\ After(s) = <<"call">>
        BY <1>1, <1>4, <3>2 DEF PlainNow, After, Main
      <4>2. more = Append(StartPath, "call")
        BY <2>2, <4>1 DEF MainLoop
      <4>3. Tail(f.todo) = <<>>
        BY <2>1, <4>1
      <4>4. /\ Append(StartPath, "call") = StartPath \o <<"call">>
            /\ StartPath \o <<"call">> \in Seq(Stmts)
        <5>1. <<"call">> \in Seq(Stmts)
          BY DEF Stmts
        <5> QED
          BY <1>11, <3>1, <5>1, ConcatProperties
      <4>5. (StartPath \o <<"call">>) \o <<>> = StartPath \o <<"call">>
        BY <3>1, <4>4
      <4> QED
        BY <1>11, <2>4, <4>1, <4>2, <4>3, <4>4, <4>5
    <3>3. CASE s # "main"
      <4>1. p = "ends" /\ k = 3 /\ Frame.src # "main" /\ After(s) = <<>> /\ ~MainLoop
        BY <1>1, <1>4, <3>3 DEF PlainNow, After, MainLoop
      <4>2. Tail(f.todo) = Rest(Code("ends"), 4) \o <<>>
        BY <1>1, <2>1, <4>1 DEF PlainNow
      <4>3. Rest(Code("ends"), 4) \o <<>> = <<>>
        <5>1. Code("ends") \in Seq(Stmts) /\ Len(Code("ends")) = 4 /\ <<>> \in Seq(Stmts)
          BY <1>1, PlainCode DEF PlainLens, PlainProgs
        <5>2. 4 \in 0 .. Len(Code("ends")) /\ 4 = Len(Code("ends"))
          <6>1. 4 \in 0 .. 4
            OBVIOUS
          <6> QED
            BY <5>1, <6>1
        <5> QED
          BY <5>1, <5>2, RestStep
      <4> QED
        BY <1>11, <2>2, <2>4, <4>1, <4>2, <4>3
    <3> QED
      BY <3>2, <3>3
  <2> QED
    BY <2>3, <2>5, <2>6
<1>13. stack' = Append(low, FrameOf(s, p2, 0, After(s), 0)')
  <2>1. After(s) \in Seq(Stmts)
    BY <1>1 DEF PlainNow
  <2>2. FrameOf(s, p2, 0, After(s), 0) = [src |-> s, todo |-> Code(p2) \o After(s), i |-> 0]
    BY <1>11, <2>1, FrameBegins
  <2>3. FrameOf(s, p2, 0, After(s), 0)' = FrameOf(s, p2, 0, After(s), 0)
    BY <1>2, <1>11, PlainSame
  <2> QED
    BY <1>12, <2>2, <2>3
<1>14. PlainShape(low, s, p2, 0, 0, 0, 0)'
  <2>1. Len(Code(p2))' \in {1, 2, 6, 8}
    <3>1. Len(Code(p2)) \in {1, 2, 6, 8}
      BY <1>1, <1>10 DEF PlainLens
    <3>2. Code(p2)' = Code(p2)
      BY <1>2, <1>11, PlainSame
    <3> QED
      BY <3>1, <3>2
  <2>2. (s = "main" /\ low = <<>>) \/ (s = "dma" /\ low = <<MainRests>>)
    BY <1>1, <1>4, <1>9 DEF PlainShape
  <2>3. MainRests' = MainRests
    BY DEF MainRests
  <2>4. 0 \in 0 .. Len(Code(p2))' /\ 0 # Len(Code(p2))'
    BY <2>1, FirstOf, Zenon
  <2> QED
    BY <1>2, <1>10, <1>13, <2>2, <2>3, <2>4 DEF PlainShape, Places
<1>15. Common'
  <2>1. Counted'
    <3>1. Sent(0)' = 0
      <4>1. \A l \in 1 .. 0 : FALSE
        OBVIOUS
      <4>2. {l \in 1 .. 0 : SendsOut(l)'} = {}
        BY <4>1
      <4>3. Cardinality({}) = 0
        BY FS_EmptySet
      <4> QED
        BY <4>2, <4>3 DEF Sent
    <3>2. Len(computed') = 0
      BY <1>2
    <3>3. Sent(Len(computed))' = 0
      <4>1. Sent(Len(computed))' = Cardinality({l \in 1 .. Len(computed') : SendsOut(l)'})
        BY DEF Sent
      <4>2. Sent(0)' = Cardinality({l \in 1 .. 0 : SendsOut(l)'})
        BY DEF Sent
      <4> QED
        BY <3>1, <3>2, <4>1, <4>2
    <3> QED
      BY <1>2, <1>7, <3>3 DEF Counted
  <2>2. arrived' \in BOOLEAN /\ n' = told' + 1
    BY <1>2, <1>7
  <2> QED
    BY <1>2, <2>1, <2>2 DEF Common
<1>16. Pipe(0)'
  <2>1. computed' = <<>> /\ fifo' = <<>> /\ busy' = 0 /\ Len(<<>>) = 0 /\ <<>> \in Seq(Nat)
    BY <1>2, <1>7
  <2> QED
    BY <2>1 DEF Pipe
<1>17. PlainData(s, p2, 0, 0, 0)'
  <2>1. /\ Open' /\ L' = L /\ OutPos' = OutPos /\ PushPos' = PushPos /\ Len(computed)' = 0 /\ OutPos > 0
        /\ PushPos > 0
        /\ Quiet'
    BY <1>2, <1>7, <1>8 DEF Open, L, OutPos, PushPos, Quiet
  <2>2. ClosedFacts(p2, 0, 0)'
    BY <1>2, <1>10, <2>1 DEF ClosedFacts
  <2>3. DmaFacts(s, p2, 0, 0)'
    <3>1. dmaCb \in {"ready", "done"}
      BY <1>6 DEF DmaFacts
    <3>2. p2 = "ready" => arrived'
      BY <1>2, <1>10
    <3>3. OutPos' \in {1, 2}
      BY <2>1 DEF OutPos
    <3>4. p2 \in {"inp", "ready"} /\ ~(0 > OutPos')
      BY <1>10, <3>3
    <3> QED
      BY <1>2, <1>7, <2>1, <3>1, <3>2, <3>4 DEF DmaFacts
  <2>4. AiFacts(p2, 0, 0)'
    BY <1>2, <1>7, <1>10, <2>1 DEF AiFacts
  <2> QED
    BY <1>2, <1>3, <1>6, <1>16, <2>1, <2>2, <2>3, <2>4 DEF PlainData, SuspendedFacts
<1>18. PlainAt(low, s, p2, 0, 0, 0, 0)'
  <2>1. at' + 0 + 0 = 0
    BY <1>2
  <2> QED
    BY <1>14, <1>17, <2>1 DEF PlainAt
<1> QED
  BY <1>15, <1>18

PlainInv == \E low, s, p, k, i, j, ii : PlainAt(low, s, p, k, i, j, ii)

LEMMA PlainInit ==
    ASSUME Init, ~Kmodel
    PROVE  PlainInv
<1>1. /\ status = {} /\ mask = Status /\ fifo = <<>> /\ busy = 0 /\ outReady = FALSE
      /\ dma = "off" /\ dmaDone = FALSE /\ dmaCb = "done"
      /\ aiEnabled = FALSE /\ pend = {} /\ irqOff = FALSE
      /\ stack = <<MainRests>>
      /\ flag = 0 /\ at = 0 /\ n = 0 /\ told = 0 /\ arrived = FALSE /\ computed = <<>>
      /\ api \in {"kpu_start", "kpu_run"}
      /\ model \in Models[api] /\ api \in Interfaces
  BY DEF Init, MainRests, Interfaces, Kmodel
<1>2. L \in Nat /\ L > 0
  <2>1. model \in Seq(Kinds) /\ model # <<>>
    BY <1>1, ModelsAssumption
  <2> QED
    BY <2>1, EmptySeq DEF L
<1>3. PlainShape(<<>>, "main", "rest", 0, 0, 0, 0)
  <2>1. stack = Append(<<>>, FrameOf("main", "rest", 0, After("main"), 0))
    BY <1>1, PlainRests
  <2>2. Len(Code("rest")) = 0
    BY PlainCode
  <2> QED
    BY <2>1, <2>2 DEF PlainShape, Places
<1>4. Pipe(0)
  <2>1. Len(<<>>) = 0 /\ <<>> \in Seq(Nat)
    BY EmptySeq
  <2> QED
    BY <1>1, <2>1 DEF Pipe
<1>5. PlainData("main", "rest", 0, 0, 0)
  <2>1. ~Open /\ Quiet
    BY <1>1 DEF Open, Quiet
  <2> QED
    BY <1>1, <1>2, <1>4, <2>1 DEF PlainData, SuspendedFacts, ClosedFacts, DmaFacts, AiFacts
<1>6. at + 0 + 0 = 0
  BY <1>1
<1> QED
  BY <1>3, <1>5, <1>6 DEF PlainAt, PlainInv

(* Every step of kpu_start and kpu_run. *)
LEMMA PlainStep ==
    ASSUME ~collided', Common, ~Kmodel, PlainInv, Next
    PROVE  Common' /\ PlainInv'
<1>1. PICK low, s, p, k, i, j, ii : PlainAt(low, s, p, k, i, j, ii)
  BY DEF PlainInv
<1>2. PlainStmt(s, p, k)
  BY <1>1, PlainStatement DEF PlainAt
<1> SUFFICES Common' /\ \E low2, s2, p2, k2, i2, j2, ii2 : PlainAt(low2, s2, p2, k2, i2, j2, ii2)'
  BY DEF PlainInv
<1>3. CASE Take
  BY <1>1, <1>3, PlainTake
<1>4. CASE Compute
  BY <1>1, <1>4, PlainCompute
<1>5. CASE Move
  BY <1>1, <1>5, PlainMove
<1>6. CASE Forward
  BY <1>1, <1>6, PlainForward
<1>7. CASE Claim
  BY <1>1, <1>7, PlainClaim
<1>8. CASE SetMask
  BY <1>1, <1>8, PlainSetMask
<1>9. CASE Clear
  BY <1>1, <1>9, PlainClear
<1>10. CASE ClearDma
  BY <1>1, <1>10, PlainClearDma
<1>11. CASE EnableAi
  BY <1>1, <1>11, PlainEnable
<1>12. CASE SwitchIrq
  BY <1>2, <1>12 DEF SwitchIrq, PlainStmt
<1>13. CASE Input
  BY <1>1, <1>13, PlainInput
<1>14. CASE Output
  BY <1>1, <1>14, PlainOutput
<1>15. CASE Push
  BY <1>1, <1>15, PlainPush
<1>16. CASE PushEnds
  BY <1>1, <1>16, PlainPushEnds
<1>17. CASE Send
  BY <1>2, <1>17 DEF Send, PlainStmt
<1>18. CASE AiStep
  BY <1>2, <1>18 DEF AiStep, PlainStmt
<1>19. CASE FreeFlag
  BY <1>1, <1>19, PlainFree
<1>20. CASE Tell
  BY <1>1, <1>20, PlainTell
<1>21. CASE CallbackReturns
  BY <1>1, <1>21, PlainReturns
<1>22. CASE Complete
  BY <1>1, <1>22, PlainComplete
<1>23. CASE Call
  BY <1>1, <1>23, PlainCall
<1> QED
  BY <1>3, <1>4, <1>5, <1>6, <1>7, <1>8, <1>9, <1>10, <1>11, <1>12, <1>13, <1>14, <1>15, <1>16, <1>17,
     <1>18, <1>19, <1>20, <1>21, <1>22, <1>23 DEF Next, Hardware, Statement

-----------------------------------------------------------------------------
(* kpu_run_kmodel: where a frame is in its program. *)

LEMMA Preceded ==
    ASSUME NEW a \in Stmts, NEW c \in Seq(Stmts)
    PROVE  /\ <<a>> \o c \in Seq(Stmts) /\ Len(<<a>> \o c) = Len(c) + 1 /\ (<<a>> \o c)[1] = a
           /\ \A l \in 1 .. Len(c) : (<<a>> \o c)[l + 1] = c[l]
<1> DEFINE s == <<a>>
<1>1. s \in Seq(Stmts) /\ Len(s) = 1 /\ s[1] = a /\ Len(c) \in Nat
  OBVIOUS
<1> HIDE DEF s
<1>2. /\ s \o c \in Seq(Stmts) /\ Len(s \o c) = Len(s) + Len(c)
      /\ \A l \in 1 .. Len(s) + Len(c) : (s \o c)[l] = IF l <= Len(s) THEN s[l] ELSE c[l - Len(s)]
  BY <1>1, ConcatProperties
<1>3. (s \o c)[1] = a /\ Len(s \o c) = Len(c) + 1
  BY <1>1, <1>2
<1>4. ASSUME NEW l \in 1 .. Len(c) PROVE (s \o c)[l + 1] = c[l]
  <2>1. l + 1 \in 1 .. Len(s) + Len(c) /\ ~(l + 1 <= Len(s)) /\ (l + 1) - Len(s) = l
    BY <1>1
  <2> QED
    BY <1>2, <2>1
<1> QED
  BY <1>2, <1>3, <1>4 DEF s

LEMMA Codes ==
    /\ Len(<<"clear", "maskAll", "told", "call">>) = 4
    /\ <<"clear", "maskAll", "told", "call">> \in Seq(Stmts)
    /\ Len(<<"maskAll", "output">>) = 2 /\ <<"maskAll", "output">> \in Seq(Stmts)
    /\ Len(<<"maskEmpty">>) = 1 /\ <<"maskEmpty">> \in Seq(Stmts)
    /\ {"clear", "send", "iclear"} \subseteq Stmts
BY DEF Stmts

LEMMA ModelCode ==
    /\ \A p \in ModelProgs : Code(p) \in Seq(Stmts)
    /\ Code("rest") = <<>> /\ Len(Code("rest")) = 0
    /\ Code("begin")[1] = "clear" /\ Code("begin")[2] = "maskDone" /\ Code("begin")[3] = "enable"
    /\ input = "dma" => Len(Code("begin")) = 4 /\ Code("begin")[4] = "input"
    /\ input # "dma" => Len(Code("begin")) = 6 /\ Code("begin")[4] = "irqOff"
    /\ Code("step") = <<"step">> /\ Code("istep") = <<"iclear", "step">>
    /\ Code("done") = <<"clear", "maskAll", "told", "call">> /\ Code("done") = KmodelDone
    /\ Code("idone") = <<"iclear">> \o KmodelDone /\ Len(Code("idone")) = 5
    /\ Code("idone")[1] = "iclear" /\ Code("idone")[2] = "clear" /\ Code("idone")[3] = "maskAll"
    /\ Code("idone")[4] = "told" /\ Code("idone")[5] = "call"
    /\ Code("conv") = Conv(at) /\ Code("conv")[1] = "clear"
    /\ SendsOut(at) => /\ Len(Code("conv")) = 4 /\ Code("conv")[2] = "maskAll"
                       /\ Code("conv")[3] = "output" /\ Code("conv")[4] = "send"
    /\ ~SendsOut(at) => /\ Len(Code("conv")) = 3 /\ Code("conv")[2] = "maskEmpty"
                        /\ Code("conv")[3] = "send"
<1>1. Code("rest") = <<>> /\ Code("step") = <<"step">> /\ Code("istep") = <<"iclear", "step">>
      /\ Code("begin") = Begin /\ Code("conv") = Conv(at) /\ Code("done") = KmodelDone
      /\ Code("idone") = <<"iclear">> \o KmodelDone
  BY DEF Code
<1>2. Begin = IF input = "dma" THEN <<"clear", "maskDone", "enable", "input">>
                               ELSE <<"clear", "maskDone", "enable", "irqOff", "step", "irqOn">>
  BY DEF Begin
<1>3. KmodelDone = <<"clear", "maskAll", "told", "call">> /\ KmodelDone \in Seq(Stmts)
      /\ Len(KmodelDone) = 4
  BY Codes DEF KmodelDone
<1>4. Code("idone") \in Seq(Stmts) /\ Len(Code("idone")) = 5
      /\ Code("idone")[1] = "iclear" /\ Code("idone")[2] = "clear" /\ Code("idone")[3] = "maskAll"
      /\ Code("idone")[4] = "told" /\ Code("idone")[5] = "call"
  <2> DEFINE d == KmodelDone
             e == <<"iclear">> \o d
  <2>1. /\ d \in Seq(Stmts) /\ Len(d) = 4 /\ d[1] = "clear" /\ d[2] = "maskAll" /\ d[3] = "told"
        /\ d[4] = "call"
    BY <1>3
  <2> HIDE DEF d
  <2>2. e \in Seq(Stmts) /\ Len(e) = Len(d) + 1 /\ e[1] = "iclear" /\ \A l \in 1 .. Len(d) : e[l + 1] = d[l]
    BY <2>1, Codes, Preceded
  <2> HIDE DEF e
  <2>3. Len(e) = 5 /\ e[1 + 1] = d[1] /\ e[2 + 1] = d[2] /\ e[3 + 1] = d[3] /\ e[4 + 1] = d[4]
    BY <2>1, <2>2
  <2>4. Len(e) = 5 /\ e[2] = d[1] /\ e[3] = d[2] /\ e[4] = d[3] /\ e[5] = d[4]
    BY <2>3
  <2> QED
    BY <1>1, <2>1, <2>2, <2>4 DEF e, d
<1>5. ASSUME NEW x \in Seq(Stmts), NEW y, y = <<"clear">> \o x \o <<"send">>
      PROVE  /\ y \in Seq(Stmts) /\ Len(y) = Len(x) + 2 /\ y[1] = "clear" /\ y[Len(x) + 2] = "send"
             /\ \A l \in 1 .. Len(x) : y[l + 1] = x[l]
  <2> DEFINE u == <<"clear">> \o x
             c == u \o <<"send">>
  <2>1. u \in Seq(Stmts) /\ Len(u) = Len(x) + 1 /\ u[1] = "clear" /\ \A l \in 1 .. Len(x) : u[l + 1] = x[l]
    BY Codes, Preceded
  <2> HIDE DEF u
  <2>2. c = Append(u, "send")
    BY <2>1, Codes, AppendIsConcat
  <2> HIDE DEF c
  <2>3. c \in Seq(Stmts) /\ Len(c) = Len(u) + 1 /\ c[Len(u) + 1] = "send"
        /\ \A l \in 1 .. Len(u) : c[l] = u[l]
    BY <2>1, <2>2, Codes, AppendProperties
  <2>4. Len(x) \in Nat /\ Len(u) + 1 = Len(x) + 2 /\ \A l \in 1 .. Len(x) : l + 1 \in 1 .. Len(u)
    BY <2>1
  <2>5. c[1] = "clear" /\ \A l \in 1 .. Len(x) : c[l + 1] = x[l]
    BY <2>1, <2>3, <2>4
  <2>6. c \in Seq(Stmts) /\ Len(c) = Len(x) + 2 /\ c[1] = "clear" /\ c[Len(x) + 2] = "send"
        /\ \A l \in 1 .. Len(x) : c[l + 1] = x[l]
    BY <2>3, <2>4, <2>5
  <2>7. y = c
    BY <1>5 DEF c, u
  <2> QED
    BY <2>6, <2>7
<1>6. /\ Code("conv") \in Seq(Stmts) /\ Code("conv")[1] = "clear"
      /\ SendsOut(at) => /\ Len(Code("conv")) = 4 /\ Code("conv")[2] = "maskAll"
                         /\ Code("conv")[3] = "output" /\ Code("conv")[4] = "send"
      /\ ~SendsOut(at) => /\ Len(Code("conv")) = 3 /\ Code("conv")[2] = "maskEmpty"
                          /\ Code("conv")[3] = "send"
  <2>1. PICK x : x = IF SendsOut(at) THEN <<"maskAll", "output">> ELSE <<"maskEmpty">>
    OBVIOUS
  <2>2. /\ x \in Seq(Stmts)
        /\ SendsOut(at) => Len(x) = 2 /\ x[1] = "maskAll" /\ x[2] = "output"
        /\ ~SendsOut(at) => Len(x) = 1 /\ x[1] = "maskEmpty"
    BY <2>1, Codes
  <2>3. Code("conv") = <<"clear">> \o x \o <<"send">>
    BY <1>1, <2>1 DEF Conv
  <2>4. PICK c : c = Code("conv")
    OBVIOUS
  <2>5. /\ c \in Seq(Stmts) /\ Len(c) = Len(x) + 2 /\ c[1] = "clear" /\ c[Len(x) + 2] = "send"
        /\ \A l \in 1 .. Len(x) : c[l + 1] = x[l]
    BY <1>5, <2>2, <2>3, <2>4
  <2>6. CASE SendsOut(at)
    <3>3. PICK d : d = Len(x)
      OBVIOUS
    <3>4. d = 2 /\ Len(c) = d + 2 /\ c[d + 2] = "send" /\ \A l \in 1 .. d : c[l + 1] = x[l]
      BY <2>2, <2>5, <2>6, <3>3
    <3>1. Len(c) = 4 /\ c[4] = "send" /\ c[1 + 1] = x[1] /\ c[2 + 1] = x[2]
      BY <3>4
    <3>2. c[2] = x[1] /\ c[3] = x[2]
      BY <3>1
    <3> QED
      BY <2>2, <2>4, <2>5, <2>6, <3>1, <3>2
  <2>7. CASE ~SendsOut(at)
    <3>3. PICK d : d = Len(x)
      OBVIOUS
    <3>4. d = 1 /\ Len(c) = d + 2 /\ c[d + 2] = "send" /\ \A l \in 1 .. d : c[l + 1] = x[l]
      BY <2>2, <2>5, <2>7, <3>3
    <3>1. Len(c) = 3 /\ c[3] = "send" /\ c[1 + 1] = x[1]
      BY <3>4
    <3>2. c[2] = x[1]
      BY <3>1
    <3> QED
      BY <2>2, <2>4, <2>5, <2>7, <3>1, <3>2
  <2> QED
    BY <2>6, <2>7
<1>7. /\ <<"step">> \in Seq(Stmts) /\ <<"iclear", "step">> \in Seq(Stmts) /\ <<>> \in Seq(Stmts)
      /\ <<"clear", "maskDone", "enable", "input">> \in Seq(Stmts)
      /\ <<"clear", "maskDone", "enable", "irqOff", "step", "irqOn">> \in Seq(Stmts)
  BY DEF Stmts
<1>8. \A p \in ModelProgs : Code(p) \in Seq(Stmts)
  BY <1>1, <1>2, <1>3, <1>4, <1>6, <1>7 DEF ModelProgs
<1>9. Code("begin")[1] = "clear" /\ Code("begin")[2] = "maskDone" /\ Code("begin")[3] = "enable"
      /\ (input = "dma" => Len(Code("begin")) = 4 /\ Code("begin")[4] = "input")
      /\ (input # "dma" => Len(Code("begin")) = 6 /\ Code("begin")[4] = "irqOff")
  <2>1. CASE input = "dma"
    BY <1>1, <1>2, <2>1
  <2>2. CASE input # "dma"
    BY <1>1, <1>2, <2>2
  <2> QED
    BY <2>1, <2>2
<1> QED
  BY <1>1, <1>3, <1>4, <1>6, <1>8, <1>9, EmptySeq

(* The top frame, in words of its program. *)
ModelNow(low, s, p, k, r) ==
    /\ low \in Seq(Frames) /\ FrameOf(s, p, k, r, 0) \in Frames
    /\ stack = Append(low, FrameOf(s, p, k, r, 0))
    /\ Frame = FrameOf(s, p, k, r, 0) /\ Front(stack) = low
    /\ Frame = [src |-> s, todo |-> Frame.todo, i |-> 0]
    /\ Frame.src = s /\ r \in Seq(Stmts) /\ Code(p) \in Seq(Stmts)
    /\ p = "rest" <=> k = Len(Code(p))
    /\ p = "rest" => Frame.todo = r
    /\ p # "rest" => /\ Frame.todo # <<>> /\ Head(Frame.todo) = Code(p)[k + 1]
                     /\ Tail(Frame.todo) = Rest(Code(p), k + 1) \o r
    /\ s \in InService
    /\ stack[1] = IF low = <<>> THEN Frame ELSE low[1]

LEMMA ModelFrame ==
    ASSUME NEW low, NEW s, NEW p, NEW k, NEW r, ModelShape(low, s, p, k, r)
    PROVE  ModelNow(low, s, p, k, r)
<1> DEFINE f == FrameOf(s, p, k, r, 0)
<1>1. stack = Append(low, f) /\ k \in 0 .. Len(Code(p)) /\ (k = Len(Code(p)) => p = "rest")
      /\ p \in ModelProgs /\ s \in Sources \cup {"main"} /\ (low = <<>> \/ low = <<MainRests>>)
  BY DEF ModelShape, Sources
<1>2. Main \in Seq(Stmts) /\ <<"irqOn", "call">> \in Seq(Stmts) /\ Seq({"irqOn"}) \subseteq Seq(Stmts)
  <2>1. {"irqOn"} \subseteq Stmts
    BY DEF Stmts
  <2>2. Seq({"irqOn"}) \subseteq Seq(Stmts)
    BY <2>1, SeqMonotonic
  <2> QED
    BY <2>2 DEF Main, Stmts
<1>3. r \in Seq(Stmts) /\ Code(p) \in Seq(Stmts)
  BY <1>1, <1>2, ModelCode DEF ModelShape
<1>4. p = "rest" <=> k = Len(Code(p))
  BY <1>1, ModelCode
<1>5. /\ f \in Frames /\ f.src = s /\ f.todo = Rest(Code(p), k) \o r
      /\ f = [src |-> s, todo |-> f.todo, i |-> 0]
  BY <1>1, <1>3, RestStep DEF FrameOf, Frames
<1>6. low \in Seq(Frames)
  <2>1. MainRests \in Frames
    BY <1>2 DEF MainRests, Frames, Main
  <2>2. <<>> \in Seq(Frames) /\ <<MainRests>> \in Seq(Frames)
    BY <2>1
  <2> QED
    BY <1>1, <2>2
<1> HIDE DEF f
<1>7. Last(stack) = f /\ Front(stack) = low
      /\ stack \in Seq(Frames) /\ Len(stack) = Len(low) + 1 /\ Len(low) \in Nat
      /\ (\A l \in 1 .. Len(low) : stack[l] = low[l]) /\ stack[Len(low) + 1] = f
  BY <1>1, <1>5, <1>6, TopOf
<1>8. Frame = f /\ s \in InService
  BY <1>5, <1>7 DEF Frame, InService
<1>9. stack[1] = IF low = <<>> THEN f ELSE low[1]
  BY <1>6, <1>7, EmptySeq
<1>10. p # "rest" => /\ f.todo # <<>> /\ Head(f.todo) = Code(p)[k + 1]
                      /\ Tail(f.todo) = Rest(Code(p), k + 1) \o r
  <2> DEFINE c == Code(p)
  <2> HIDE DEF c
  <2>1. c \in Seq(Stmts) /\ k \in 0 .. Len(c) /\ (p # "rest" => k < Len(c)) /\ f.todo = Rest(c, k) \o r
    <3>1. k \in 0 .. Len(c) /\ Len(c) \in Nat
      BY <1>1, <1>3 DEF c
    <3> QED
      BY <1>3, <1>4, <1>5, <3>1 DEF c
  <2>2. k < Len(c) => /\ Rest(c, k) \o r # <<>>
                      /\ Head(Rest(c, k) \o r) = c[k + 1]
                      /\ Tail(Rest(c, k) \o r) = Rest(c, k + 1) \o r
    BY <1>3, <2>1, RestStep
  <2> QED
    BY <2>1, <2>2 DEF c
<1>11. p = "rest" => f.todo = r
  BY <1>1, <1>3, <1>4, <1>5, RestStep
<1>12. f = FrameOf(s, p, k, r, 0)
  BY DEF f
<1> QED
  BY <1>1, <1>3, <1>4, <1>5, <1>6, <1>7, <1>8, <1>9, <1>10, <1>11, <1>12 DEF ModelNow

LEMMA ModelSame ==
    ASSUME input' = input, at' = at, model' = model
    PROVE  /\ \A p \in ModelProgs : Code(p)' = Code(p)
           /\ \A s, k, r : \A p \in ModelProgs : FrameOf(s, p, k, r, 0)' = FrameOf(s, p, k, r, 0)
           /\ \A l : SendsOut(l)' <=> SendsOut(l)
           /\ \A l : ConvLayer(l)' <=> ConvLayer(l)
           /\ L' = L
<1>1. \A l : SendsOut(l)' <=> SendsOut(l)
  BY DEF SendsOut
<1>2. ASSUME NEW p \in ModelProgs PROVE Code(p)' = Code(p)
  <2>1. CASE p = "rest"
    BY <2>1 DEF Code
  <2>2. CASE p = "begin"
    BY <2>2 DEF Code, Begin
  <2>3. CASE p = "step"
    BY <2>3 DEF Code
  <2>4. CASE p = "istep"
    BY <2>4 DEF Code
  <2>5. CASE p = "conv"
    <3>1. Conv(at)' = Conv(at)
      BY DEF Conv, SendsOut
    <3> QED
      BY <2>5, <3>1 DEF Code
  <2>6. CASE p = "done"
    BY <2>6 DEF Code, KmodelDone
  <2>7. CASE p = "idone"
    BY <2>7 DEF Code, KmodelDone
  <2> QED
    BY <2>1, <2>2, <2>3, <2>4, <2>5, <2>6, <2>7 DEF ModelProgs
<1> QED
  BY <1>1, <1>2 DEF FrameOf, ConvLayer, L

ModelStmt(s, p, k, r) ==
    /\ At("clear") => (p \in {"begin", "conv", "done"} /\ k = 0) \/ (p = "idone" /\ k = 1)
    /\ At("maskDone") => p = "begin" /\ k = 1
    /\ At("maskAll") => (p = "conv" /\ k = 1 /\ SendsOut(at)) \/ (p = "done" /\ k = 1) \/ (p = "idone" /\ k = 2)
    /\ At("maskEmpty") => p = "conv" /\ k = 1 /\ ~SendsOut(at)
    /\ At("enable") => p = "begin" /\ k = 2
    /\ At("input") => p = "begin" /\ k = 3 /\ input = "dma"
    /\ At("irqOff") => p = "begin" /\ k = 3 /\ input # "dma"
    /\ At("irqOn") => p = "rest"
    /\ At("iclear") => p \in {"istep", "idone"} /\ k = 0
    /\ At("output") => p = "conv" /\ k = 2 /\ SendsOut(at)
    /\ At("send") => p = "conv" /\ k = IF SendsOut(at) THEN 3 ELSE 2
    /\ At("step") => (p = "step" /\ k = 0) \/ (p = "istep" /\ k = 1)
    /\ At("told") => (p = "done" /\ k = 2) \/ (p = "idone" /\ k = 3)
    /\ At("call") => (p = "done" /\ k = 3) \/ (p = "idone" /\ k = 4) \/ (p = "rest" /\ s = "main" /\ r = Main)
    /\ ~At("maskNone") /\ ~At("push") /\ ~At("free")

ModelLens ==
    /\ Len(Code("rest")) = 0 /\ Len(Code("step")) = 1 /\ Len(Code("istep")) = 2
    /\ Len(Code("done")) = 4 /\ Len(Code("idone")) = 5
    /\ Len(Code("begin")) = IF input = "dma" THEN 4 ELSE 6
    /\ Len(Code("conv")) = IF SendsOut(at) THEN 4 ELSE 3

(* The statement at hand tells the place in the program. *)
LEMMA ModelStatement ==
    ASSUME NEW low, NEW s, NEW p, NEW k, NEW r, ModelShape(low, s, p, k, r)
    PROVE  ModelStmt(s, p, k, r) /\ ModelLens /\ k \in Nat /\ p \in ModelProgs
           /\ (p = "rest" => k = 0)
<1>1. ModelNow(low, s, p, k, r)
  BY ModelFrame
<1>2. p \in ModelProgs /\ k \in 0 .. Len(Code(p)) /\ (p = "rest" <=> k = Len(Code(p)))
      /\ (p = "begin" => k <= 3)
  BY <1>1 DEF ModelNow, ModelShape
<1>3. ModelLens
  <2>1. /\ Len(<<"step">>) = 1 /\ Len(<<"iclear", "step">>) = 2
        /\ Len(<<"clear", "maskAll", "told", "call">>) = 4
    OBVIOUS
  <2> QED
    BY <2>1, ModelCode DEF ModelLens
<1>4. p # "rest" => \A x : At(x) <=> Code(p)[k + 1] = x
  BY <1>1 DEF ModelNow, At
<1>5. k \in Nat /\ Len(Code(p)) \in Nat /\ (p # "rest" => k < Len(Code(p))) /\ (p = "rest" => k = 0)
  BY <1>1, <1>2, <1>3 DEF ModelNow, ModelLens
<1>6. /\ p = "begin" => k \in 0 .. 3
      /\ p = "step" => k = 0
      /\ p = "istep" => k \in 0 .. 1
      /\ p = "done" => k \in 0 .. 3
      /\ p = "idone" => k \in 0 .. 4
      /\ p = "conv" => k \in 0 .. (IF SendsOut(at) THEN 3 ELSE 2)
  <2>1. PICK c : c = Len(Code(p))
    OBVIOUS
  <2>2. /\ p = "step" => c = 1
        /\ p = "istep" => c = 2
        /\ p = "done" => c = 4
        /\ p = "idone" => c = 5
        /\ p = "conv" => c = IF SendsOut(at) THEN 4 ELSE 3
    BY <1>3, <2>1 DEF ModelLens
  <2>3. k \in Nat /\ c \in Nat /\ (p # "rest" => k < c) /\ (p = "begin" => k <= 3)
    BY <1>2, <1>5, <2>1
  <2> QED
    BY <2>2, <2>3
<1> SUFFICES ModelStmt(s, p, k, r)
  BY <1>2, <1>3, <1>5
<1>7. CASE p = "rest"
  <2>1. Frame.todo = r
    BY <1>1, <1>7 DEF ModelNow
  <2>2. At("call") => s = "main" /\ r = Main
    <3>1. CASE s = "main" /\ irqOff
      <4>1. r = <<"irqOn", "call">>
        BY <3>1 DEF ModelShape
      <4>2. Head(r) = "irqOn"
        BY <4>1
      <4> QED
        BY <2>1, <4>2 DEF At
    <3>2. CASE s = "main" /\ ~irqOff
      BY <3>2 DEF ModelShape
    <3>3. CASE s # "main"
      <4>1. r \in Seq({"irqOn"})
        BY <3>3 DEF ModelShape
      <4>2. r # <<>> => Head(r) \in {"irqOn"}
        BY <4>1, HeadTailProperties
      <4> QED
        BY <2>1, <4>2 DEF At
    <3> QED
      BY <3>1, <3>2, <3>3
  <2>3. \A x : At(x) => x \in {"irqOn", "call"}
    <3>1. CASE s = "main"
      <4>1. r = <<"irqOn", "call">> \/ r = <<"call">>
        BY <3>1 DEF ModelShape, Main
      <4>2. Head(r) \in {"irqOn", "call"}
        BY <4>1
      <4> QED
        BY <2>1, <4>2 DEF At
    <3>2. CASE s # "main"
      <4>1. r \in Seq({"irqOn"})
        BY <3>2 DEF ModelShape
      <4>2. r # <<>> => Head(r) \in {"irqOn"}
        BY <4>1, HeadTailProperties
      <4> QED
        BY <2>1, <4>2 DEF At
    <3> QED
      BY <3>1, <3>2
  <2> QED
    BY <1>7, <2>2, <2>3 DEF ModelStmt
<1>8. CASE p = "begin"
  <2>1. \/ k = 0 /\ Code(p)[k + 1] = "clear"
        \/ k = 1 /\ Code(p)[k + 1] = "maskDone"
        \/ k = 2 /\ Code(p)[k + 1] = "enable"
        \/ k = 3 /\ Code(p)[k + 1] = "input" /\ input = "dma"
        \/ k = 3 /\ Code(p)[k + 1] = "irqOff" /\ input # "dma"
    BY <1>6, <1>8, ModelCode
  <2> QED
    BY <1>4, <1>8, <2>1 DEF ModelStmt
<1>9. CASE p = "step" \/ p = "istep"
  <2>1. \/ k = 0 /\ Code(p)[k + 1] = "step" /\ p = "step"
        \/ k = 0 /\ Code(p)[k + 1] = "iclear" /\ p = "istep"
        \/ k = 1 /\ Code(p)[k + 1] = "step" /\ p = "istep"
    BY <1>6, <1>9, ModelCode
  <2> QED
    BY <1>4, <1>9, <2>1 DEF ModelStmt
<1>10. CASE p = "done"
  <2>1. \/ k = 0 /\ Code(p)[k + 1] = "clear"
        \/ k = 1 /\ Code(p)[k + 1] = "maskAll"
        \/ k = 2 /\ Code(p)[k + 1] = "told"
        \/ k = 3 /\ Code(p)[k + 1] = "call"
    <3>1. Code("done") = <<"clear", "maskAll", "told", "call">>
      BY ModelCode
    <3> QED
      BY <1>6, <1>10, <3>1
  <2> QED
    BY <1>4, <1>10, <2>1 DEF ModelStmt
<1>11. CASE p = "idone"
  <2>1. \/ k = 0 /\ Code(p)[k + 1] = "iclear"
        \/ k = 1 /\ Code(p)[k + 1] = "clear"
        \/ k = 2 /\ Code(p)[k + 1] = "maskAll"
        \/ k = 3 /\ Code(p)[k + 1] = "told"
        \/ k = 4 /\ Code(p)[k + 1] = "call"
    BY <1>6, <1>11, ModelCode
  <2> QED
    BY <1>4, <1>11, <2>1 DEF ModelStmt
<1>12. CASE p = "conv" /\ SendsOut(at)
  <2>1. \/ k = 0 /\ Code(p)[k + 1] = "clear"
        \/ k = 1 /\ Code(p)[k + 1] = "maskAll"
        \/ k = 2 /\ Code(p)[k + 1] = "output"
        \/ k = 3 /\ Code(p)[k + 1] = "send"
    BY <1>6, <1>12, ModelCode
  <2> QED
    BY <1>4, <1>12, <2>1 DEF ModelStmt
<1>13. CASE p = "conv" /\ ~SendsOut(at)
  <2>1. \/ k = 0 /\ Code(p)[k + 1] = "clear"
        \/ k = 1 /\ Code(p)[k + 1] = "maskEmpty"
        \/ k = 2 /\ Code(p)[k + 1] = "send"
    BY <1>6, <1>13, ModelCode
  <2> QED
    BY <1>4, <1>13, <2>1 DEF ModelStmt
<1> QED
  BY <1>2, <1>7, <1>8, <1>9, <1>10, <1>11, <1>12, <1>13 DEF ModelProgs

(* A step leaves the top frame the statements t. *)
LEMMA ModelThen ==
    ASSUME NEW low, NEW s, NEW p, NEW k, NEW r, ModelShape(low, s, p, k, r),
           NEW more \in Seq(Stmts), Then(more)
    PROVE  /\ Frame.todo # <<>> =>
                 stack' = Append(low, [src |-> s, todo |-> more \o Tail(Frame.todo), i |-> 0])
           /\ Done /\ Frame.todo # <<>> =>
                 stack' = Append(low, [src |-> s, todo |-> Tail(Frame.todo), i |-> 0])
<1>1. ModelNow(low, s, p, k, r)
  BY ModelFrame
<1>2. PICK f : f = Frame
  OBVIOUS
<1>3. stack = Append(low, f) /\ f \in Frames /\ low \in Seq(Frames)
      /\ f = [src |-> s, todo |-> f.todo, i |-> 0]
  BY <1>1, <1>2 DEF ModelNow
<1>4. ASSUME NEW x, Then(x) PROVE stack' = Append(low, [src |-> s, todo |-> x \o Tail(f.todo), i |-> 0])
  <2>1. stack' = Append(low, [f EXCEPT !.todo = x \o Tail(@)])
    BY <1>3, <1>4, ThenTop
  <2>2. PICK t : t = x \o Tail(f.todo)
    OBVIOUS
  <2>3. [f EXCEPT !.todo = x \o Tail(@)] = [f EXCEPT !.todo = t]
    BY <2>2
  <2>4. PICK u : f = [src |-> s, todo |-> u, i |-> 0]
    BY <1>3
  <2>5. [f EXCEPT !.todo = t] = [src |-> s, todo |-> t, i |-> 0]
    BY <2>4
  <2> QED
    BY <2>1, <2>2, <2>3, <2>5
<1>5. f.todo # <<>> => Tail(f.todo) \in Seq(Stmts)
  BY <1>3, HeadTailProperties DEF Frames
<1>6. f.todo # <<>> => <<>> \o Tail(f.todo) = Tail(f.todo)
  BY <1>5, ConcatEmptySeq
<1> QED
  BY <1>2, <1>4, <1>6 DEF Done

(* A frame goes on to the next statement of its program, or rests. *)
LEMMA ModelDone ==
    ASSUME UNCHANGED <<input, at, model, irqOff>>, Done,
           NEW low, NEW s, NEW p, NEW k, NEW r, ModelShape(low, s, p, k, r), p # "rest",
           p = "begin" => k < 3 \/ input = "dma"
    PROVE  \E q, m : ModelShape(low, s, q, m, r)' /\ NextAt(p, k, q, m)
<1>1. /\ ModelNow(low, s, p, k, r) /\ p \in ModelProgs /\ k \in 0 .. Len(Code(p))
      /\ ModelLens /\ k \in Nat
  BY ModelFrame, ModelStatement DEF ModelShape
<1>2. stack' = Append(low, [src |-> s, todo |-> Rest(Code(p), k + 1) \o r, i |-> 0])
  <2>1. <<>> \in Seq(Stmts) /\ Then(<<>>)
    BY DEF Done
  <2>2. Frame.todo # <<>> /\ Tail(Frame.todo) = Rest(Code(p), k + 1) \o r
    BY <1>1 DEF ModelNow
  <2> QED
    BY <2>1, <2>2, ModelThen
<1>3. r \in Seq(Stmts) /\ Code(p) \in Seq(Stmts) /\ Len(Code(p)) \in Nat /\ k < Len(Code(p))
  BY <1>1 DEF ModelNow
<1>4. (\A q \in ModelProgs : Code(q)' = Code(q)) /\ MainRests' = MainRests
  BY ModelSame DEF MainRests
<1>5. CASE k + 1 = Len(Code(p))
  <2>1. Rest(Code(p), k + 1) \o r = r
    <3> DEFINE c == Code(p)
               m == k + 1
    <3>1. c \in Seq(Stmts) /\ m \in 0 .. Len(c) /\ m = Len(c)
      BY <1>3, <1>5
    <3> HIDE DEF c, m
    <3>2. Rest(c, m) \o r = r
      BY <1>3, <3>1, RestStep
    <3> QED
      BY <3>2 DEF c, m
  <2>2. Rest(Code("rest"), 0) \o r = r
    <3>1. Code("rest") \in Seq(Stmts) /\ Len(Code("rest")) = 0
      BY ModelCode DEF ModelProgs
    <3>2. 0 \in 0 .. Len(Code("rest")) /\ 0 = Len(Code("rest"))
      BY <3>1
    <3> QED
      BY <1>3, <3>1, <3>2, RestStep
  <2>3. stack' = Append(low, FrameOf(s, "rest", 0, r, 0)')
    BY <1>2, <1>4, <2>1, <2>2 DEF FrameOf, ModelProgs
  <2>4. Len(Code("rest"))' = 0 /\ "rest" \in ModelProgs
    BY <1>1, <1>4 DEF ModelLens, ModelProgs
  <2>5. ModelShape(low, s, "rest", 0, r)'
    BY <1>4, <2>3, <2>4 DEF ModelShape
  <2> QED
    BY <1>5, <2>5 DEF NextAt
<1>6. CASE k + 1 # Len(Code(p))
  <2>1. stack' = Append(low, FrameOf(s, p, k + 1, r, 0)')
    BY <1>1, <1>2, <1>4 DEF FrameOf
  <2>2. k + 1 \in 0 .. Len(Code(p)) /\ (p = "begin" => k + 1 <= 3)
    <3>1. p = "begin" /\ input = "dma" => Len(Code(p)) = 4
      BY <1>1 DEF ModelLens
    <3>2. PICK c : c = Len(Code(p))
      OBVIOUS
    <3>3. k \in Nat /\ c \in Nat /\ k < c /\ k + 1 # c
          /\ (p = "begin" => k < 3 \/ c = 4)
      BY <1>1, <1>3, <1>6, <3>1, <3>2
    <3>4. k + 1 \in 0 .. c /\ (p = "begin" => k + 1 <= 3)
      BY <3>3
    <3> QED
      BY <3>2, <3>4
  <2>3. ModelShape(low, s, p, k + 1, r)'
    BY <1>1, <1>4, <1>6, <2>1, <2>2 DEF ModelShape
  <2> QED
    BY <1>6, <2>3 DEF NextAt
<1> QED
  BY <1>5, <1>6

-----------------------------------------------------------------------------
(* kpu_run_kmodel: the statements. *)

LEMMA ModelClear ==
    ASSUME Common, Kmodel, NEW low, NEW s, NEW p, NEW k, NEW r, ModelAt(low, s, p, k, r), Clear
    PROVE  Common' /\ \E q, m : ModelAt(low, s, q, m, r)'
<1>1. /\ ModelShape(low, s, p, k, r) /\ ModelStmt(s, p, k, r) /\ ModelLens /\ k \in Nat
      /\ p \in ModelProgs
      /\ flag = 0 /\ IF p = "rest" THEN Waiting ELSE Working(s, p, k)
  BY ModelStatement DEF ModelAt
<1>2. /\ Done
      /\ status' = {}
      /\ UNCHANGED <<api, model, also, input, mask, fifo, busy, outReady, dma, dmaDone, dmaCb, 
                     aiEnabled, pend, irqOff, flag, at, n, told, arrived, computed, 
                     delivered>>
  BY DEF Clear, runVars, aiVars, dmaVars, plicVars, taskVars, dataVars
<1>3. \/ p = "begin" /\ k = 0
      \/ p = "conv" /\ k = 0
      \/ p = "done" /\ k = 0
      \/ p = "idone" /\ k = 1
  BY <1>1, <1>2 DEF Clear, ModelStmt
<1>4. PICK q, m : ModelShape(low, s, q, m, r)' /\ NextAt(p, k, q, m)
  <2>1. p # "rest" /\ (p = "begin" => k < 3 \/ input = "dma")
    BY <1>1, <1>2, <1>3 DEF ModelStmt
  <2> QED
    BY <1>1, <1>2, <2>1, ModelDone
<1>5. /\ p = "begin" /\ k = 0 => q = "begin" /\ m = 1
      /\ p = "conv" /\ k = 0 => q = "conv" /\ m = 1
      /\ p = "done" /\ k = 0 => q = "done" /\ m = 1
      /\ p = "idone" /\ k = 1 => q = "idone" /\ m = 2
  <2>1. PICK len : len = Len(Code(p))
    OBVIOUS
  <2>2. /\ p = "step" => len = 1
        /\ p = "istep" => len = 2
        /\ p = "done" => len = 4
        /\ p = "idone" => len = 5
        /\ p = "begin" => len = IF input = "dma" THEN 4 ELSE 6
        /\ p = "conv" => len = IF SendsOut(at) THEN 4 ELSE 3
    BY <1>1, <2>1 DEF ModelLens
  <2>3. IF k + 1 = len THEN q = "rest" /\ m = 0 ELSE q = p /\ m = k + 1
    BY <1>4, <2>1 DEF NextAt
  <2> QED
    BY <1>1, <1>3, <2>2, <2>3
<1>6. PICK v : v = (IF p = "conv" THEN at - 1 ELSE at) /\ Pipe(v)
  BY <1>1, <1>3 DEF Working
<1>7. /\ Pipe(v)' /\ L' = L /\ Kmodel' /\ OutputCallback' = OutputCallback
      /\ \A l : (SendsOut(l)' <=> SendsOut(l)) /\ (ConvLayer(l)' <=> ConvLayer(l))
  BY <1>2, <1>6, PipeSame, ModelSame DEF Kmodel, OutputCallback
<1>8. Working(s, p, k)
  BY <1>1, <1>3
<1>9. Common'
  BY <1>2, CountedSame DEF Common, Status, Sources
<1>10. IF q = "rest" THEN Waiting' ELSE Working(s, q, m)'
  <2>1. CASE p = "begin" /\ k = 0
    BY <1>1, <1>2, <1>3, <1>5, <1>6, <1>7, <1>8, <2>1 DEF Working, Empty, AtBegin, AtStep, AtConv,
       AtDone, Armed, Open, OutputCallback, Kmodel, ModelLens, Common
  <2>2. CASE p = "conv" /\ k = 0
    BY <1>1, <1>2, <1>3, <1>5, <1>6, <1>7, <1>8, <2>2 DEF Working, Empty, AtBegin, AtStep, AtConv,
       AtDone, Armed, Open, OutputCallback, Kmodel, ModelLens, Common
  <2>3. CASE p = "done" /\ k = 0
    BY <1>1, <1>2, <1>3, <1>5, <1>6, <1>7, <1>8, <2>3 DEF Working, Empty, AtBegin, AtStep, AtConv,
       AtDone, Armed, Open, OutputCallback, Kmodel, ModelLens, Common
  <2>4. CASE p = "idone" /\ k = 1
    BY <1>1, <1>2, <1>3, <1>5, <1>6, <1>7, <1>8, <2>4 DEF Working, Empty, AtBegin, AtStep, AtConv,
       AtDone, Armed, Open, OutputCallback, Kmodel, ModelLens, Common
  <2> QED
    BY <1>3, <2>1, <2>2, <2>3, <2>4
<1> QED
  BY <1>1, <1>2, <1>4, <1>9, <1>10 DEF ModelAt

LEMMA ModelSetMask ==
    ASSUME Common, Kmodel, NEW low, NEW s, NEW p, NEW k, NEW r, ModelAt(low, s, p, k, r), SetMask
    PROVE  Common' /\ \E q, m : ModelAt(low, s, q, m, r)'
<1>1. /\ ModelShape(low, s, p, k, r) /\ ModelStmt(s, p, k, r) /\ ModelLens /\ k \in Nat
      /\ p \in ModelProgs
      /\ flag = 0 /\ IF p = "rest" THEN Waiting ELSE Working(s, p, k)
  BY ModelStatement DEF ModelAt
<1>2. /\ Done
      /\ \E stmt \in {"maskAll", "maskNone", "maskDone", "maskEmpty"} : At(stmt) /\ mask' = MaskOf(stmt)
      /\ UNCHANGED <<api, model, also, input, status, fifo, busy, outReady, dma, dmaDone, 
                     dmaCb, aiEnabled, pend, irqOff, flag, at, n, told, arrived, 
                     computed, delivered>>
  BY DEF SetMask, runVars, aiVars, dmaVars, plicVars, taskVars, dataVars
<1>3. \/ p = "begin" /\ k = 1 /\ mask' = {"calc_done"}
      \/ p = "conv" /\ k = 1 /\ SendsOut(at) /\ mask' = Status
      \/ p = "conv" /\ k = 1 /\ ~SendsOut(at) /\ mask' = {"almost_empty"}
      \/ p = "done" /\ k = 1 /\ mask' = Status
      \/ p = "idone" /\ k = 2 /\ mask' = Status
  BY <1>1, <1>2 DEF MaskOf, SetMask, ModelStmt
<1>4. PICK q, m : ModelShape(low, s, q, m, r)' /\ NextAt(p, k, q, m)
  <2>1. p # "rest" /\ (p = "begin" => k < 3 \/ input = "dma")
    BY <1>1, <1>2, <1>3 DEF ModelStmt
  <2> QED
    BY <1>1, <1>2, <2>1, ModelDone
<1>5. /\ p = "begin" /\ k = 1 /\ mask' = {"calc_done"} => q = "begin" /\ m = 2
      /\ p = "conv" /\ k = 1 /\ SendsOut(at) /\ mask' = Status => q = "conv" /\ m = 2
      /\ p = "conv" /\ k = 1 /\ ~SendsOut(at) /\ mask' = {"almost_empty"} => q = "conv" /\ m = 2
      /\ p = "done" /\ k = 1 /\ mask' = Status => q = "done" /\ m = 2
      /\ p = "idone" /\ k = 2 /\ mask' = Status => q = "idone" /\ m = 3
  <2>1. PICK len : len = Len(Code(p))
    OBVIOUS
  <2>2. /\ p = "step" => len = 1
        /\ p = "istep" => len = 2
        /\ p = "done" => len = 4
        /\ p = "idone" => len = 5
        /\ p = "begin" => len = IF input = "dma" THEN 4 ELSE 6
        /\ p = "conv" => len = IF SendsOut(at) THEN 4 ELSE 3
    BY <1>1, <2>1 DEF ModelLens
  <2>3. IF k + 1 = len THEN q = "rest" /\ m = 0 ELSE q = p /\ m = k + 1
    BY <1>4, <2>1 DEF NextAt
  <2> QED
    BY <1>1, <1>3, <2>2, <2>3
<1>6. PICK v : v = (IF p = "conv" THEN at - 1 ELSE at) /\ Pipe(v)
  BY <1>1, <1>3 DEF Working
<1>7. /\ Pipe(v)' /\ L' = L /\ Kmodel' /\ OutputCallback' = OutputCallback
      /\ \A l : (SendsOut(l)' <=> SendsOut(l)) /\ (ConvLayer(l)' <=> ConvLayer(l))
  BY <1>2, <1>6, PipeSame, ModelSame DEF Kmodel, OutputCallback
<1>8. Working(s, p, k)
  BY <1>1, <1>3
<1>9. Common'
  <2>1. mask' \subseteq Status
    BY <1>3 DEF Status
  <2> QED
    BY <1>2, <2>1, CountedSame DEF Common, Sources
<1>10. IF q = "rest" THEN Waiting' ELSE Working(s, q, m)'
  <2>1. CASE p = "begin" /\ k = 1 /\ mask' = {"calc_done"}
    BY <1>1, <1>2, <1>3, <1>5, <1>6, <1>7, <1>8, <2>1 DEF Working, Empty, AtBegin, AtStep, AtConv,
       AtDone, Armed, Open, OutputCallback, Kmodel, ModelLens, Common
  <2>2. CASE p = "conv" /\ k = 1 /\ SendsOut(at) /\ mask' = Status
    BY <1>1, <1>2, <1>3, <1>5, <1>6, <1>7, <1>8, <2>2 DEF Working, Empty, AtBegin, AtStep, AtConv,
       AtDone, Armed, Open, OutputCallback, Kmodel, ModelLens, Common
  <2>3. CASE p = "conv" /\ k = 1 /\ ~SendsOut(at) /\ mask' = {"almost_empty"}
    BY <1>1, <1>2, <1>3, <1>5, <1>6, <1>7, <1>8, <2>3 DEF Working, Empty, AtBegin, AtStep, AtConv,
       AtDone, Armed, Open, OutputCallback, Kmodel, ModelLens, Common
  <2>4. CASE p = "done" /\ k = 1 /\ mask' = Status
    BY <1>1, <1>2, <1>3, <1>5, <1>6, <1>7, <1>8, <2>4 DEF Working, Empty, AtBegin, AtStep, AtConv,
       AtDone, Armed, Open, OutputCallback, Kmodel, ModelLens, Common
  <2>5. CASE p = "idone" /\ k = 2 /\ mask' = Status
    BY <1>1, <1>2, <1>3, <1>5, <1>6, <1>7, <1>8, <2>5 DEF Working, Empty, AtBegin, AtStep, AtConv,
       AtDone, Armed, Open, OutputCallback, Kmodel, ModelLens, Common
  <2> QED
    BY <1>3, <2>1, <2>2, <2>3, <2>4, <2>5
<1> QED
  BY <1>1, <1>2, <1>4, <1>9, <1>10 DEF ModelAt

LEMMA ModelClearDma ==
    ASSUME Common, Kmodel, NEW low, NEW s, NEW p, NEW k, NEW r, ModelAt(low, s, p, k, r), ClearDma
    PROVE  Common' /\ \E q, m : ModelAt(low, s, q, m, r)'
<1>1. /\ ModelShape(low, s, p, k, r) /\ ModelStmt(s, p, k, r) /\ ModelLens /\ k \in Nat
      /\ p \in ModelProgs
      /\ flag = 0 /\ IF p = "rest" THEN Waiting ELSE Working(s, p, k)
  BY ModelStatement DEF ModelAt
<1>2. /\ Done
      /\ dmaDone' = FALSE
      /\ UNCHANGED <<api, model, also, input, status, mask, fifo, busy, outReady, dma, dmaCb, 
                     aiEnabled, pend, irqOff, flag, at, n, told, arrived, computed, 
                     delivered>>
  BY DEF ClearDma, runVars, aiVars, dmaVars, plicVars, taskVars, dataVars
<1>3. \/ p = "istep" /\ k = 0
      \/ p = "idone" /\ k = 0
  BY <1>1, <1>2 DEF ClearDma, ModelStmt
<1>4. PICK q, m : ModelShape(low, s, q, m, r)' /\ NextAt(p, k, q, m)
  <2>1. p # "rest" /\ (p = "begin" => k < 3 \/ input = "dma")
    BY <1>1, <1>2, <1>3 DEF ModelStmt
  <2> QED
    BY <1>1, <1>2, <2>1, ModelDone
<1>5. /\ p = "istep" /\ k = 0 => q = "istep" /\ m = 1
      /\ p = "idone" /\ k = 0 => q = "idone" /\ m = 1
  <2>1. PICK len : len = Len(Code(p))
    OBVIOUS
  <2>2. /\ p = "step" => len = 1
        /\ p = "istep" => len = 2
        /\ p = "done" => len = 4
        /\ p = "idone" => len = 5
        /\ p = "begin" => len = IF input = "dma" THEN 4 ELSE 6
        /\ p = "conv" => len = IF SendsOut(at) THEN 4 ELSE 3
    BY <1>1, <2>1 DEF ModelLens
  <2>3. IF k + 1 = len THEN q = "rest" /\ m = 0 ELSE q = p /\ m = k + 1
    BY <1>4, <2>1 DEF NextAt
  <2> QED
    BY <1>1, <1>3, <2>2, <2>3
<1>6. PICK v : v = (IF p = "conv" THEN at - 1 ELSE at) /\ Pipe(v)
  BY <1>1, <1>3 DEF Working
<1>7. /\ Pipe(v)' /\ L' = L /\ Kmodel' /\ OutputCallback' = OutputCallback
      /\ \A l : (SendsOut(l)' <=> SendsOut(l)) /\ (ConvLayer(l)' <=> ConvLayer(l))
  BY <1>2, <1>6, PipeSame, ModelSame DEF Kmodel, OutputCallback
<1>8. Working(s, p, k)
  BY <1>1, <1>3
<1>9. Common'
  BY <1>2, <1>8, CountedSame DEF Common, Status, Sources, Working
<1>10. IF q = "rest" THEN Waiting' ELSE Working(s, q, m)'
  <2>1. CASE p = "istep" /\ k = 0
    BY <1>1, <1>2, <1>3, <1>5, <1>6, <1>7, <1>8, <2>1 DEF Working, Empty, AtBegin, AtStep, AtConv,
       AtDone, Armed, Open, OutputCallback, Kmodel, ModelLens, Common
  <2>2. CASE p = "idone" /\ k = 0
    BY <1>1, <1>2, <1>3, <1>5, <1>6, <1>7, <1>8, <2>2 DEF Working, Empty, AtBegin, AtStep, AtConv,
       AtDone, Armed, Open, OutputCallback, Kmodel, ModelLens, Common
  <2> QED
    BY <1>3, <2>1, <2>2
<1> QED
  BY <1>1, <1>2, <1>4, <1>9, <1>10 DEF ModelAt

LEMMA ModelEnable ==
    ASSUME Common, Kmodel, NEW low, NEW s, NEW p, NEW k, NEW r, ModelAt(low, s, p, k, r), EnableAi
    PROVE  Common' /\ \E q, m : ModelAt(low, s, q, m, r)'
<1>1. /\ ModelShape(low, s, p, k, r) /\ ModelStmt(s, p, k, r) /\ ModelLens /\ k \in Nat
      /\ p \in ModelProgs
      /\ flag = 0 /\ IF p = "rest" THEN Waiting ELSE Working(s, p, k)
  BY ModelStatement DEF ModelAt
<1>2. /\ Done
      /\ aiEnabled' = TRUE
      /\ UNCHANGED <<api, model, also, input, status, mask, fifo, busy, outReady, dma, dmaDone, 
                     dmaCb, pend, irqOff, flag, at, n, told, arrived, computed, 
                     delivered>>
  BY DEF EnableAi, runVars, aiVars, dmaVars, plicVars, taskVars, dataVars
<1>3. \/ p = "begin" /\ k = 2
  BY <1>1, <1>2 DEF EnableAi, ModelStmt
<1>4. PICK q, m : ModelShape(low, s, q, m, r)' /\ NextAt(p, k, q, m)
  <2>1. p # "rest" /\ (p = "begin" => k < 3 \/ input = "dma")
    BY <1>1, <1>2, <1>3 DEF ModelStmt
  <2> QED
    BY <1>1, <1>2, <2>1, ModelDone
<1>5. /\ p = "begin" /\ k = 2 => q = "begin" /\ m = 3
  <2>1. PICK len : len = Len(Code(p))
    OBVIOUS
  <2>2. /\ p = "step" => len = 1
        /\ p = "istep" => len = 2
        /\ p = "done" => len = 4
        /\ p = "idone" => len = 5
        /\ p = "begin" => len = IF input = "dma" THEN 4 ELSE 6
        /\ p = "conv" => len = IF SendsOut(at) THEN 4 ELSE 3
    BY <1>1, <2>1 DEF ModelLens
  <2>3. IF k + 1 = len THEN q = "rest" /\ m = 0 ELSE q = p /\ m = k + 1
    BY <1>4, <2>1 DEF NextAt
  <2> QED
    BY <1>1, <1>3, <2>2, <2>3
<1>6. PICK v : v = (IF p = "conv" THEN at - 1 ELSE at) /\ Pipe(v)
  BY <1>1, <1>3 DEF Working
<1>7. /\ Pipe(v)' /\ L' = L /\ Kmodel' /\ OutputCallback' = OutputCallback
      /\ \A l : (SendsOut(l)' <=> SendsOut(l)) /\ (ConvLayer(l)' <=> ConvLayer(l))
  BY <1>2, <1>6, PipeSame, ModelSame DEF Kmodel, OutputCallback
<1>8. Working(s, p, k)
  BY <1>1, <1>3
<1>9. Common'
  BY <1>2, CountedSame DEF Common, Status, Sources
<1>10. IF q = "rest" THEN Waiting' ELSE Working(s, q, m)'
  <2>1. CASE p = "begin" /\ k = 2
    BY <1>1, <1>2, <1>3, <1>5, <1>6, <1>7, <1>8, <2>1 DEF Working, Empty, AtBegin, AtStep, AtConv,
       AtDone, Armed, Open, OutputCallback, Kmodel, ModelLens, Common
  <2> QED
    BY <1>3, <2>1
<1> QED
  BY <1>1, <1>2, <1>4, <1>9, <1>10 DEF ModelAt

LEMMA ModelTell ==
    ASSUME Common, Kmodel, NEW low, NEW s, NEW p, NEW k, NEW r, ModelAt(low, s, p, k, r), Tell
    PROVE  Common' /\ \E q, m : ModelAt(low, s, q, m, r)'
<1>1. /\ ModelShape(low, s, p, k, r) /\ ModelStmt(s, p, k, r) /\ ModelLens /\ k \in Nat
      /\ p \in ModelProgs
      /\ flag = 0 /\ IF p = "rest" THEN Waiting ELSE Working(s, p, k)
  BY ModelStatement DEF ModelAt
<1>2. /\ Done
      /\ told' = told + 1
      /\ UNCHANGED <<api, model, also, input, status, mask, fifo, busy, outReady, dma, dmaDone, 
                     dmaCb, aiEnabled, pend, irqOff, flag, at, n, arrived, computed, 
                     delivered>>
  BY DEF Tell, runVars, aiVars, dmaVars, plicVars, taskVars, dataVars
<1>3. \/ p = "done" /\ k = 2
      \/ p = "idone" /\ k = 3
  BY <1>1, <1>2 DEF Tell, ModelStmt
<1>4. PICK q, m : ModelShape(low, s, q, m, r)' /\ NextAt(p, k, q, m)
  <2>1. p # "rest" /\ (p = "begin" => k < 3 \/ input = "dma")
    BY <1>1, <1>2, <1>3 DEF ModelStmt
  <2> QED
    BY <1>1, <1>2, <2>1, ModelDone
<1>5. /\ p = "done" /\ k = 2 => q = "done" /\ m = 3
      /\ p = "idone" /\ k = 3 => q = "idone" /\ m = 4
  <2>1. PICK len : len = Len(Code(p))
    OBVIOUS
  <2>2. /\ p = "step" => len = 1
        /\ p = "istep" => len = 2
        /\ p = "done" => len = 4
        /\ p = "idone" => len = 5
        /\ p = "begin" => len = IF input = "dma" THEN 4 ELSE 6
        /\ p = "conv" => len = IF SendsOut(at) THEN 4 ELSE 3
    BY <1>1, <2>1 DEF ModelLens
  <2>3. IF k + 1 = len THEN q = "rest" /\ m = 0 ELSE q = p /\ m = k + 1
    BY <1>4, <2>1 DEF NextAt
  <2> QED
    BY <1>1, <1>3, <2>2, <2>3
<1>6. PICK v : v = (IF p = "conv" THEN at - 1 ELSE at) /\ Pipe(v)
  BY <1>1, <1>3 DEF Working
<1>7. /\ Pipe(v)' /\ L' = L /\ Kmodel' /\ OutputCallback' = OutputCallback
      /\ \A l : (SendsOut(l)' <=> SendsOut(l)) /\ (ConvLayer(l)' <=> ConvLayer(l))
  BY <1>2, <1>6, PipeSame, ModelSame DEF Kmodel, OutputCallback
<1>8. Working(s, p, k)
  BY <1>1, <1>3
<1>9. Common'
  <2>1. Open
    BY <1>3, <1>8 DEF Working, AtDone
  <2> QED
    BY <1>2, <2>1, CountedSame DEF Common, Status, Sources, Open
<1>10. IF q = "rest" THEN Waiting' ELSE Working(s, q, m)'
  <2>1. CASE p = "done" /\ k = 2
    BY <1>1, <1>2, <1>3, <1>5, <1>6, <1>7, <1>8, <2>1 DEF Working, Empty, AtBegin, AtStep, AtConv,
       AtDone, Armed, Open, OutputCallback, Kmodel, ModelLens, Common
  <2>2. CASE p = "idone" /\ k = 3
    BY <1>1, <1>2, <1>3, <1>5, <1>6, <1>7, <1>8, <2>2 DEF Working, Empty, AtBegin, AtStep, AtConv,
       AtDone, Armed, Open, OutputCallback, Kmodel, ModelLens, Common
  <2> QED
    BY <1>3, <2>1, <2>2
<1> QED
  BY <1>1, <1>2, <1>4, <1>9, <1>10 DEF ModelAt

LEMMA ModelInput ==
    ASSUME Common, Kmodel, NEW low, NEW s, NEW p, NEW k, NEW r, ModelAt(low, s, p, k, r), Input
    PROVE  Common' /\ \E q, m : ModelAt(low, s, q, m, r)'
<1>1. /\ ModelShape(low, s, p, k, r) /\ ModelStmt(s, p, k, r) /\ ModelLens /\ k \in Nat
      /\ p \in ModelProgs
      /\ flag = 0 /\ IF p = "rest" THEN Waiting ELSE Working(s, p, k)
  BY ModelStatement DEF ModelAt
<1>2. /\ Done
      /\ dma' = "in" /\ dmaCb' = "step" /\ dmaDone' = FALSE
      /\ UNCHANGED <<api, model, also, input, status, mask, fifo, busy, outReady, aiEnabled, 
                     pend, irqOff, flag, at, n, told, arrived, computed, delivered>>
  BY DEF Input, Arm, runVars, aiVars, dmaVars, plicVars, taskVars, dataVars
<1>3. \/ p = "begin" /\ k = 3 /\ input = "dma"
  BY <1>1, <1>2 DEF Input, Arm, ModelStmt
<1>4. PICK q, m : ModelShape(low, s, q, m, r)' /\ NextAt(p, k, q, m)
  <2>1. p # "rest" /\ (p = "begin" => k < 3 \/ input = "dma")
    BY <1>1, <1>2, <1>3 DEF ModelStmt
  <2> QED
    BY <1>1, <1>2, <2>1, ModelDone
<1>5. /\ p = "begin" /\ k = 3 /\ input = "dma" => q = "rest" /\ m = 0
  <2>1. PICK len : len = Len(Code(p))
    OBVIOUS
  <2>2. /\ p = "step" => len = 1
        /\ p = "istep" => len = 2
        /\ p = "done" => len = 4
        /\ p = "idone" => len = 5
        /\ p = "begin" => len = IF input = "dma" THEN 4 ELSE 6
        /\ p = "conv" => len = IF SendsOut(at) THEN 4 ELSE 3
    BY <1>1, <2>1 DEF ModelLens
  <2>3. IF k + 1 = len THEN q = "rest" /\ m = 0 ELSE q = p /\ m = k + 1
    BY <1>4, <2>1 DEF NextAt
  <2> QED
    BY <1>1, <1>3, <2>2, <2>3
<1>6. PICK v : v = (IF p = "conv" THEN at - 1 ELSE at) /\ Pipe(v)
  BY <1>1, <1>3 DEF Working
<1>7. /\ Pipe(v)' /\ L' = L /\ Kmodel' /\ OutputCallback' = OutputCallback
      /\ \A l : (SendsOut(l)' <=> SendsOut(l)) /\ (ConvLayer(l)' <=> ConvLayer(l))
  BY <1>2, <1>6, PipeSame, ModelSame DEF Kmodel, OutputCallback
<1>8. Working(s, p, k)
  BY <1>1, <1>3
<1>9. Common'
  BY <1>2, <1>8, CountedSame DEF Common, Status, Sources, Working
<1>10. IF q = "rest" THEN Waiting' ELSE Working(s, q, m)'
  <2>1. CASE p = "begin" /\ k = 3 /\ input = "dma"
    BY <1>1, <1>2, <1>3, <1>5, <1>6, <1>7, <1>8, <2>1 DEF Working, Empty, AtBegin, AtStep, AtConv,
       AtDone, Armed, Open, OutputCallback, Kmodel, ModelLens, Common, Waiting, Idle, Inputs, Computes,
       Computed
  <2> QED
    BY <1>3, <2>1
<1> QED
  BY <1>1, <1>2, <1>4, <1>9, <1>10 DEF ModelAt

LEMMA ModelOutput ==
    ASSUME Common, Kmodel, NEW low, NEW s, NEW p, NEW k, NEW r, ModelAt(low, s, p, k, r), Output
    PROVE  Common' /\ \E q, m : ModelAt(low, s, q, m, r)'
<1>1. /\ ModelShape(low, s, p, k, r) /\ ModelStmt(s, p, k, r) /\ ModelLens /\ k \in Nat
      /\ p \in ModelProgs
      /\ flag = 0 /\ IF p = "rest" THEN Waiting ELSE Working(s, p, k)
  BY ModelStatement DEF ModelAt
<1>2. /\ Done
      /\ dma' = "out" /\ dmaCb' = OutputCallback /\ dmaDone' = FALSE
      /\ UNCHANGED <<api, model, also, input, status, mask, fifo, busy, outReady, aiEnabled, 
                     pend, irqOff, flag, at, n, told, arrived, computed, delivered>>
  BY DEF Output, Arm, runVars, aiVars, dmaVars, plicVars, taskVars, dataVars
<1>3. \/ p = "conv" /\ k = 2 /\ SendsOut(at)
  BY <1>1, <1>2 DEF Output, Arm, ModelStmt
<1>4. PICK q, m : ModelShape(low, s, q, m, r)' /\ NextAt(p, k, q, m)
  <2>1. p # "rest" /\ (p = "begin" => k < 3 \/ input = "dma")
    BY <1>1, <1>2, <1>3 DEF ModelStmt
  <2> QED
    BY <1>1, <1>2, <2>1, ModelDone
<1>5. /\ p = "conv" /\ k = 2 /\ SendsOut(at) => q = "conv" /\ m = 3
  <2>1. PICK len : len = Len(Code(p))
    OBVIOUS
  <2>2. /\ p = "step" => len = 1
        /\ p = "istep" => len = 2
        /\ p = "done" => len = 4
        /\ p = "idone" => len = 5
        /\ p = "begin" => len = IF input = "dma" THEN 4 ELSE 6
        /\ p = "conv" => len = IF SendsOut(at) THEN 4 ELSE 3
    BY <1>1, <2>1 DEF ModelLens
  <2>3. IF k + 1 = len THEN q = "rest" /\ m = 0 ELSE q = p /\ m = k + 1
    BY <1>4, <2>1 DEF NextAt
  <2> QED
    BY <1>1, <1>3, <2>2, <2>3
<1>6. PICK v : v = (IF p = "conv" THEN at - 1 ELSE at) /\ Pipe(v)
  BY <1>1, <1>3 DEF Working
<1>7. /\ Pipe(v)' /\ L' = L /\ Kmodel' /\ OutputCallback' = OutputCallback
      /\ \A l : (SendsOut(l)' <=> SendsOut(l)) /\ (ConvLayer(l)' <=> ConvLayer(l))
  BY <1>2, <1>6, PipeSame, ModelSame DEF Kmodel, OutputCallback
<1>8. Working(s, p, k)
  BY <1>1, <1>3
<1>9. Common'
  BY <1>2, <1>8, CountedSame DEF Common, Status, Sources, Working
<1>10. IF q = "rest" THEN Waiting' ELSE Working(s, q, m)'
  <2>1. CASE p = "conv" /\ k = 2 /\ SendsOut(at)
    BY <1>1, <1>2, <1>3, <1>5, <1>6, <1>7, <1>8, <2>1 DEF Working, Empty, AtBegin, AtStep, AtConv,
       AtDone, Armed, Open, OutputCallback, Kmodel, ModelLens, Common
  <2> QED
    BY <1>3, <2>1
<1> QED
  BY <1>1, <1>2, <1>4, <1>9, <1>10 DEF ModelAt

LEMMA ModelReturns ==
    ASSUME Common, Kmodel, NEW low, NEW s, NEW p, NEW k, NEW r, ModelAt(low, s, p, k, r),
           CallbackReturns
    PROVE  Common' /\ \E q, m : ModelAt(low, s, q, m, r)'
<1>1. /\ ModelShape(low, s, p, k, r) /\ ModelStmt(s, p, k, r) /\ ModelLens /\ k \in Nat
      /\ p \in ModelProgs
      /\ flag = 0 /\ IF p = "rest" THEN Waiting ELSE Working(s, p, k)
  BY ModelStatement DEF ModelAt
<1>2. /\ Done
      /\ UNCHANGED <<api, model, also, input, status, mask, fifo, busy, outReady, dma, dmaDone, 
                     dmaCb, aiEnabled, pend, irqOff, flag, at, n, told, arrived, 
                     computed, delivered>>
  BY DEF CallbackReturns, runVars, aiVars, dmaVars, plicVars, taskVars, dataVars
<1>11. p = "rest" /\ s = "main" /\ r = Main => MainLoop
  <2>1. ModelNow(low, s, p, k, r)
    BY <1>1, ModelFrame
  <2> QED
    BY <2>1 DEF ModelNow, MainLoop, Main
<1>3. \/ p = "done" /\ k = 3
      \/ p = "idone" /\ k = 4
  BY <1>1, <1>2, <1>11 DEF CallbackReturns, ModelStmt
<1>4. PICK q, m : ModelShape(low, s, q, m, r)' /\ NextAt(p, k, q, m)
  <2>1. p # "rest" /\ (p = "begin" => k < 3 \/ input = "dma")
    BY <1>1, <1>2, <1>3 DEF ModelStmt
  <2> QED
    BY <1>1, <1>2, <2>1, ModelDone
<1>5. /\ p = "done" /\ k = 3 => q = "rest" /\ m = 0
      /\ p = "idone" /\ k = 4 => q = "rest" /\ m = 0
  <2>1. PICK len : len = Len(Code(p))
    OBVIOUS
  <2>2. /\ p = "step" => len = 1
        /\ p = "istep" => len = 2
        /\ p = "done" => len = 4
        /\ p = "idone" => len = 5
        /\ p = "begin" => len = IF input = "dma" THEN 4 ELSE 6
        /\ p = "conv" => len = IF SendsOut(at) THEN 4 ELSE 3
    BY <1>1, <2>1 DEF ModelLens
  <2>3. IF k + 1 = len THEN q = "rest" /\ m = 0 ELSE q = p /\ m = k + 1
    BY <1>4, <2>1 DEF NextAt
  <2> QED
    BY <1>1, <1>3, <2>2, <2>3
<1>6. PICK v : v = (IF p = "conv" THEN at - 1 ELSE at) /\ Pipe(v)
  BY <1>1, <1>3 DEF Working
<1>7. /\ Pipe(v)' /\ L' = L /\ Kmodel' /\ OutputCallback' = OutputCallback
      /\ \A l : (SendsOut(l)' <=> SendsOut(l)) /\ (ConvLayer(l)' <=> ConvLayer(l))
  BY <1>2, <1>6, PipeSame, ModelSame DEF Kmodel, OutputCallback
<1>8. Working(s, p, k)
  BY <1>1, <1>3
<1>9. Common'
  BY <1>2, CountedSame DEF Common, Status, Sources
<1>10. IF q = "rest" THEN Waiting' ELSE Working(s, q, m)'
  <2>1. CASE p = "done" /\ k = 3
    BY <1>1, <1>2, <1>3, <1>5, <1>6, <1>7, <1>8, <2>1 DEF Working, Empty, AtBegin, AtStep, AtConv,
       AtDone, Armed, Open, OutputCallback, Kmodel, ModelLens, Common, Waiting, Idle, Inputs, Computes,
       Computed
  <2>2. CASE p = "idone" /\ k = 4
    BY <1>1, <1>2, <1>3, <1>5, <1>6, <1>7, <1>8, <2>2 DEF Working, Empty, AtBegin, AtStep, AtConv,
       AtDone, Armed, Open, OutputCallback, Kmodel, ModelLens, Common, Waiting, Idle, Inputs, Computes,
       Computed
  <2> QED
    BY <1>3, <2>1, <2>2
<1> QED
  BY <1>1, <1>2, <1>4, <1>9, <1>10 DEF ModelAt

(* A layer is given to the accelerator. *)
LEMMA ModelSend ==
    ASSUME Common, Kmodel, NEW low, NEW s, NEW p, NEW k, NEW r, ModelAt(low, s, p, k, r), Send
    PROVE  Common' /\ ModelAt(low, s, "rest", 0, r)'
<1>1. /\ ModelShape(low, s, p, k, r) /\ ModelStmt(s, p, k, r) /\ ModelLens /\ k \in Nat
      /\ p \in ModelProgs
      /\ flag = 0 /\ IF p = "rest" THEN Waiting ELSE Working(s, p, k)
  BY ModelStatement DEF ModelAt
<1>2. /\ Done /\ fifo' = Append(fifo, at)
      /\ UNCHANGED <<api, model, also, input, status, mask, busy, outReady, dma, dmaDone, dmaCb,
                     aiEnabled,
                     pend, irqOff, flag, at, n, told, arrived, computed, delivered>>
  BY DEF Send, runVars, dmaVars, plicVars, taskVars, dataVars
<1>3. p = "conv" /\ k = IF SendsOut(at) THEN 3 ELSE 2
  BY <1>1 DEF Send, ModelStmt
<1>4. ModelShape(low, s, "rest", 0, r)'
  <2>1. PICK q, m : ModelShape(low, s, q, m, r)' /\ NextAt(p, k, q, m)
    BY <1>1, <1>2, <1>3, ModelDone
  <2>2. q = "rest" /\ m = 0
    <3>1. Len(Code(p)) = IF SendsOut(at) THEN 4 ELSE 3
      BY <1>1, <1>3 DEF ModelLens
    <3>2. k + 1 = IF SendsOut(at) THEN 4 ELSE 3
      BY <1>3
    <3> QED
      BY <2>1, <3>1, <3>2 DEF NextAt
  <2> QED
    BY <2>1, <2>2
<1>5. Working(s, p, k) /\ AtConv(k) /\ Empty /\ pend = {}
  BY <1>1, <1>3 DEF Working
<1>6. PICK v : v = at - 1 /\ Pipe(v) /\ at = v + 1 /\ v \in Nat
  <2>1. Pipe(at - 1)
    BY <1>3, <1>5 DEF Working
  <2>2. PICK v : v = at - 1
    OBVIOUS
  <2>3. Pipe(v)
    BY <2>1, <2>2
  <2>4. v \in Nat
    BY <2>3, PipeNumbers
  <2>5. at = v + 1
    BY <2>2, <2>4 DEF Common
  <2> QED
    BY <2>2, <2>3, <2>4, <2>5
<1>7. Pipe(at)' /\ Len(computed) = v
  <2>1. Pushed(v + 1)
    BY <1>2, <1>6 DEF Pushed
  <2>2. Pipe(v + 1)'
    BY <1>6, <2>1, PipePush
  <2>3. at' = v + 1
    BY <1>2, <1>6
  <2>4. Len(computed) = v
    BY <1>5, <1>6, PipeNumbers DEF Empty
  <2> QED
    BY <2>2, <2>3, <2>4
<1>8. Common'
  BY <1>2, CountedSame DEF Common, Status, Sources
<1>9. /\ L' = L /\ Kmodel' /\ OutputCallback' = OutputCallback
      /\ \A l : (SendsOut(l)' <=> SendsOut(l)) /\ (ConvLayer(l)' <=> ConvLayer(l))
  BY <1>2, ModelSame DEF Kmodel, OutputCallback
<1>10. Computes'
  <2>1. /\ Open' /\ arrived' /\ ConvLayer(at)' /\ pend' = {} /\ ~outReady' /\ status' = {}
        /\ mask' = IF SendsOut(at) THEN Status ELSE {"almost_empty"}
    BY <1>2, <1>3, <1>5, <1>9 DEF AtConv, Open, Empty
  <2>2. Len(computed') = at' - 1
    BY <1>2, <1>6, <1>7
  <2>3. IF SendsOut(at)' THEN Armed' ELSE dma' = "off" /\ ~dmaDone'
    BY <1>2, <1>3, <1>5, <1>9 DEF Working, Armed
  <2> QED
    BY <1>2, <1>9, <2>1, <2>2, <2>3 DEF Computes
<1>11. ModelAt(low, s, "rest", 0, r)'
  BY <1>1, <1>2, <1>4, <1>7, <1>10 DEF ModelAt, Waiting
<1> QED
  BY <1>8, <1>11

(* The networks of kpu_run_kmodel. *)
LEMMA ModelModel ==
    ASSUME Common, Kmodel
    PROVE  /\ L \in Nat /\ L > 0 /\ model[L] # "conv"
           /\ \A l \in 1 .. L : model[l] \in {"conv", "out", "cpu"}
<1>1. model \in Models[api] /\ api \in Interfaces
  BY DEF Common
<1>2. model \in Seq(Kinds) /\ model # <<>> /\ model[Len(model)] # "conv"
  BY <1>1, ModelsAssumption
<1> QED
  BY <1>2, EmptySeq DEF L, Kinds

LEMMA ConvCode == Code("conv") \in Seq(Stmts) /\ Len(Code("conv")) \in {3, 4}
BY ModelCode DEF ModelProgs

(* A frame goes on with another program. *)
LEMMA ModelGoto ==
    ASSUME NEW low, NEW s, NEW p, NEW k, NEW r, ModelShape(low, s, p, k, r), UNCHANGED irqOff,
           p # "rest", k + 1 = Len(Code(p)),
           NEW q \in {"step", "done", "conv"}, Then(Code(q)')
    PROVE  ModelShape(low, s, q, 0, r)'
<1>1. /\ ModelNow(low, s, p, k, r) /\ p \in ModelProgs /\ k \in 0 .. Len(Code(p))
  BY ModelFrame DEF ModelShape
<1>2. PICK c, m, x : c = Code(p) /\ m = k + 1 /\ x = Code(q)'
  OBVIOUS
<1>3. r \in Seq(Stmts) /\ c \in Seq(Stmts) /\ m \in 0 .. Len(c) /\ m = Len(c)
      /\ Frame.todo # <<>> /\ Tail(Frame.todo) = Rest(c, m) \o r
  <2>1. r \in Seq(Stmts) /\ c \in Seq(Stmts) /\ m = Len(c)
        /\ Frame.todo # <<>> /\ Tail(Frame.todo) = Rest(c, m) \o r
    BY <1>1, <1>2 DEF ModelNow
  <2> QED
    BY <2>1, SMTT(30)
<1>4. Tail(Frame.todo) = r
  BY <1>3, RestStep
<1>5. x \in Seq(Stmts) /\ q \in ModelProgs /\ Len(x) \in {1, 3, 4}
  <2>1. q \in ModelProgs
    BY DEF ModelProgs
  <2>2. CASE q = "step"
    <3>1. x = <<"step">>
      BY <1>2, <2>2 DEF Code
    <3>2. <<"step">> \in Seq(Stmts) /\ Len(<<"step">>) = 1
      BY DEF Stmts
    <3> QED
      BY <2>1, <3>1, <3>2
  <2>3. CASE q = "done"
    <3>1. x = <<"clear", "maskAll", "told", "call">>
      BY <1>2, <2>3 DEF Code, KmodelDone
    <3> QED
      BY <2>1, <3>1, Codes
  <2>4. CASE q = "conv"
    <3>1. (Code("conv") \in Seq(Stmts) /\ Len(Code("conv")) \in {3, 4})'
      BY ConvCode, PTL
    <3> QED
      BY <1>2, <2>1, <2>4, <3>1
  <2> QED
    BY <2>2, <2>3, <2>4
<1>6. stack' = Append(low, [src |-> s, todo |-> x \o r, i |-> 0])
  BY <1>2, <1>3, <1>4, <1>5, ModelThen
<1>7. stack' = Append(low, FrameOf(s, q, 0, r, 0)')
  <2>1. [src |-> s, todo |-> Rest(x, 0) \o r, i |-> 0] = [src |-> s, todo |-> x \o r, i |-> 0]
    <3>1. Len(x) \in Nat /\ SubSeq(x, 0 + 1, Len(x)) = x
      <4>1. \A l \in 1 .. Len(x) : x[l] \in Stmts
        BY <1>5
      <4>2. /\ SubSeq(x, 1, Len(x)) \in Seq(Stmts) /\ Len(SubSeq(x, 1, Len(x))) = Len(x)
            /\ \A l \in 1 .. Len(x) : SubSeq(x, 1, Len(x))[l] = x[l]
        BY <1>5, <4>1, SubSeqProperties
      <4>3. SubSeq(x, 1, Len(x)) = x
        BY <1>5, <4>2, SeqEqual
      <4> QED
        BY <1>5, <4>3
    <3> QED
      BY <3>1 DEF Rest
  <2> QED
    BY <1>2, <1>6, <2>1 DEF FrameOf
<1>8. MainRests' = MainRests
  BY DEF MainRests
<1>9. 0 \in 0 .. Len(Code(q)') /\ 0 # Len(Code(q)')
  <2>1. PICK len : len = Len(x)
    OBVIOUS
  <2>2. 0 \in 0 .. len /\ 0 # len
    BY <1>5, <2>1
  <2> QED
    BY <1>2, <2>1, <2>2
<1> QED
  BY <1>5, <1>7, <1>8, <1>9 DEF ModelShape

(* The core computes a layer between those of the accelerator. *)
LEMMA PipeCore ==
    ASSUME NEW m, Pipe(m), fifo = <<>>, busy = 0, fifo' = fifo, busy' = busy,
           computed' = Append(computed, m + 1)
    PROVE  Pipe(m + 1)' /\ Len(computed) = m /\ Len(computed') = m + 1 /\ m \in Nat
<1>1. m \in Nat /\ Len(computed) = m /\ computed \in Seq(Nat)
  BY PipeNumbers DEF Pipe
<1>2. computed' \in Seq(Nat) /\ Len(computed') = Len(computed) + 1
      /\ (\A j \in 1 .. Len(computed) : computed'[j] = computed[j])
      /\ computed'[Len(computed) + 1] = m + 1
  BY <1>1, AppendProperties
<1>3. \A j \in 1 .. Len(computed') : computed'[j] = j
  BY <1>1, <1>2 DEF Pipe
<1>4. Len(fifo') = 0
  OBVIOUS
<1>5. m + 1 = Len(computed') + (IF busy' = 0 THEN 0 ELSE 1) + Len(fifo')
  BY <1>1, <1>2, <1>4
<1>6. fifo' \in Seq(Nat) /\ busy' \in Nat /\ (busy' = 0)
  BY DEF Pipe
<1> QED
  BY <1>1, <1>2, <1>3, <1>4, <1>5, <1>6 DEF Pipe

LEMMA ModelAiStep ==
    ASSUME Common, Kmodel, NEW low, NEW s, NEW p, NEW k, NEW r, ModelAt(low, s, p, k, r), AiStep
    PROVE  Common' /\ \E q : ModelAt(low, s, q, 0, r)'
<1>1. /\ ModelShape(low, s, p, k, r) /\ ModelStmt(s, p, k, r) /\ ModelLens /\ k \in Nat
      /\ p \in ModelProgs
      /\ flag = 0 /\ IF p = "rest" THEN Waiting ELSE Working(s, p, k)
  BY ModelStatement DEF ModelAt
<1>2. /\ at < L /\ at' = at + 1
      /\ UNCHANGED <<api, model, also, input, status, mask, fifo, busy, outReady, dma, dmaDone, dmaCb,
                     aiEnabled,
                     pend, irqOff, flag, n, told, arrived, delivered>>
  BY DEF AiStep, runVars, aiVars, dmaVars, plicVars
<1>3. (p = "step" /\ k = 0) \/ (p = "istep" /\ k = 1)
  BY <1>1 DEF AiStep, ModelStmt
<1>4. p # "rest" /\ k + 1 = Len(Code(p))
  <2>1. CASE p = "step"
    BY <1>1, <1>3, <2>1 DEF ModelLens
  <2>2. CASE p = "istep"
    BY <1>1, <1>3, <2>2 DEF ModelLens
  <2> QED
    BY <1>3, <2>1, <2>2
<1>5. Working(s, p, k) /\ AtStep /\ Empty /\ pend = {} /\ Pipe(at) /\ dma = "off" /\ ~dmaDone
      /\ (s = "ai" \/ status \ mask = {})
  BY <1>1, <1>3 DEF Working
<1>6. /\ L' = L /\ Kmodel' /\ Empty' /\ Open' /\ arrived' /\ L \in Nat /\ at \in Nat /\ at' \in 1 .. L
  BY <1>2, <1>5, ModelModel DEF L, Kmodel, Empty, Open, AtStep, Common
<1>7. CASE model[at'] = "cpu"
  <2>1. computed' = Append(computed, at + 1) /\ Then(IF at' < L THEN <<"step">> ELSE KmodelDone)
    BY <1>2, <1>7 DEF AiStep
  <2>2. PICK m : m = at
    OBVIOUS
  <2>3. Pipe(at)' /\ Len(computed) = at /\ Len(computed') = at + 1
    <3>1. Pipe(m + 1)' /\ Len(computed) = m /\ Len(computed') = m + 1
      BY <1>2, <1>5, <2>1, <2>2, PipeCore DEF Empty
    <3>2. m + 1 = at'
      BY <1>2, <2>2
    <3> QED
      BY <2>2, <3>1, <3>2
  <2>4. Common'
    <3>1. Sent(at + 1) = Sent(at)
      <4>1. ~SendsOut(at + 1)
        BY <1>2, <1>7 DEF SendsOut
      <4>2. Sent(at) \in Nat /\ Sent(at + 1) = Sent(at) + (IF SendsOut(at + 1) THEN 1 ELSE 0)
        BY <1>6, SentMore
      <4> QED
        BY <4>1, <4>2
    <3>2. PICK x : x = at + 1
      OBVIOUS
    <3>3. Sent(x)' = Sent(x)
      BY <1>2 DEF Sent, SendsOut
    <3>4. Sent(Len(computed))' = Sent(x)'
      BY <2>3, <3>2 DEF Sent
    <3>5. Counted'
      BY <1>2, <2>3, <3>1, <3>2, <3>3, <3>4 DEF Counted, Common
    <3> QED
      BY <1>2, <1>6, <3>5 DEF Common
  <2>5. PICK q : q = IF at' < L THEN "step" ELSE "done"
    OBVIOUS
  <2>6. Then(Code(q)')
    BY <2>1, <2>5 DEF Code, KmodelDone
  <2>7. ModelShape(low, s, q, 0, r)'
    BY <1>1, <1>2, <1>4, <2>5, <2>6, ModelGoto
  <2>8. Working(s, q, 0)'
    BY <1>2, <1>5, <1>6, <2>3, <2>5 DEF Working, AtStep, AtDone
  <2> QED
    BY <1>1, <1>2, <2>4, <2>5, <2>7, <2>8 DEF ModelAt
<1>8. CASE model[at'] # "cpu"
  <2>1. computed' = computed /\ Then(Conv(at'))
    BY <1>2, <1>8 DEF AiStep
  <2>2. Then(Code("conv")')
    <3>1. Conv(at)' = Conv(at')
      BY <1>2 DEF Conv, SendsOut
    <3>2. Code("conv")' = Conv(at)'
      BY DEF Code
    <3> QED
      BY <2>1, <3>1, <3>2
  <2>3. ModelShape(low, s, "conv", 0, r)'
    BY <1>1, <1>2, <1>4, <2>2, ModelGoto
  <2>4. Pipe(at - 1)'
    <3>1. PICK m : m = at
      OBVIOUS
    <3>2. Pipe(m)'
      BY <1>2, <1>5, <2>1, <3>1, PipeSame
    <3>3. m = at' - 1
      BY <1>2, <1>6, <3>1
    <3> QED
      BY <3>2, <3>3
  <2>5. Common'
    BY <1>2, <1>6, <2>1, CountedSame DEF Common
  <2>6. ConvLayer(at)'
    BY <1>2, <1>6, <1>8 DEF ConvLayer
  <2>7. Working(s, "conv", 0)'
    BY <1>2, <1>5, <1>6, <2>4, <2>6 DEF Working, AtConv
  <2> QED
    BY <1>1, <1>2, <2>3, <2>5, <2>7 DEF ModelAt
<1> QED
  BY <1>7, <1>8

(* Main switches interrupts off for a step, and on again. *)
LEMMA ModelSwitch ==
    ASSUME Common, Kmodel, NEW low, NEW s, NEW p, NEW k, NEW r, ModelAt(low, s, p, k, r), SwitchIrq
    PROVE  Common' /\ \E q, x : ModelAt(low, s, q, 0, x)'
<1>1. /\ ModelShape(low, s, p, k, r) /\ ModelStmt(s, p, k, r) /\ ModelLens /\ k \in Nat
      /\ p \in ModelProgs
      /\ flag = 0 /\ (IF p = "rest" THEN Waiting ELSE Working(s, p, k)) /\ ModelNow(low, s, p, k, r)
      /\ low \in {<<>>, <<MainRests>>}
  BY ModelStatement, ModelFrame DEF ModelAt, ModelShape
<1>2. /\ At("irqOff") \/ At("irqOn")
      /\ irqOff' = At("irqOff") /\ Done
      /\ UNCHANGED <<api, model, also, input, status, mask, fifo, busy, outReady, dma, dmaDone, dmaCb,
                     aiEnabled,
                     pend, flag, at, n, told, arrived, computed, delivered>>
  BY DEF SwitchIrq, runVars, aiVars, dmaVars, taskVars, dataVars
<1>3. Common'
  <2>1. irqOff' \in BOOLEAN
    BY <1>2 DEF At
  <2> QED
    BY <1>2, <2>1, CountedSame DEF Common
<1>4. Frame.todo # <<>> /\ stack' = Append(low, [src |-> s, todo |-> Tail(Frame.todo), i |-> 0])
  <2>1. Frame.todo # <<>>
    BY <1>2 DEF At
  <2>2. <<>> \in Seq(Stmts) /\ Then(<<>>)
    BY <1>2 DEF Done
  <2> QED
    BY <1>1, <1>2, <2>1, <2>2, ModelThen
<1>5. /\ \A q \in ModelProgs : Code(q)' = Code(q)
      /\ MainRests' = MainRests /\ L' = L /\ Kmodel' /\ OutputCallback' = OutputCallback
      /\ \A l : (SendsOut(l)' <=> SendsOut(l)) /\ (ConvLayer(l)' <=> ConvLayer(l))
  BY <1>2, ModelSame DEF MainRests, Kmodel, OutputCallback
<1>6. CASE At("irqOff")
  <2>1. /\ p = "begin" /\ k = 3 /\ input # "dma" /\ Tail(Frame.todo) = Rest(Code("begin"), 4) \o r
        /\ r \in Seq(Stmts)
    <3>1. p = "begin" /\ k = 3 /\ input # "dma"
      BY <1>1, <1>6 DEF ModelStmt
    <3>2. ModelNow(low, s, p, k, r)
      BY <1>1
    <3>3. Tail(Frame.todo) = Rest(Code(p), k + 1) \o r /\ r \in Seq(Stmts)
      BY <3>1, <3>2 DEF ModelNow
    <3>4. k + 1 = 4
      BY <3>1
    <3> QED
      BY <3>1, <3>3, <3>4
  <2>2. PICK x : x = <<"irqOn">> \o r
    OBVIOUS
  <2>3. "irqOn" \in Stmts /\ "step" \in Stmts /\ <<"irqOn">> \in Seq(Stmts) /\ <<"step">> \in Seq(Stmts)
        /\ Len(<<"step">>) = 1
    BY DEF Stmts
  <2>4. Tail(Frame.todo) = Rest(Code("step"), 0) \o x
    <3>1. /\ Code("begin") = <<"clear", "maskDone", "enable", "irqOff", "step", "irqOn">>
          /\ Code("step") = <<"step">>
      BY <2>1 DEF Code, Begin
    <3>2. Rest(Code("begin"), 4) = <<"step", "irqOn">>
      <4> DEFINE d == Code("begin")
                 t == <<"step", "irqOn">>
      <4>7. d \in Seq(Stmts)
        BY ModelCode DEF ModelProgs
      <4>8. Len(d) = 6 /\ d[5] = "step" /\ d[6] = "irqOn"
        BY <3>1
      <4>1. d \in Seq(Stmts) /\ Len(d) = 6 /\ d[5] = "step" /\ d[6] = "irqOn"
        BY <4>7, <4>8
      <4>2. t \in Seq(Stmts) /\ Len(t) = 2 /\ t[1] = "step" /\ t[2] = "irqOn"
        BY <2>3
      <4> HIDE DEF d, t
      <4>3. \A l \in 5 .. 6 : d[l] \in Stmts
        <5>1. \A l \in 5 .. 6 : l = 5 \/ l = 6
          OBVIOUS
        <5> QED
          BY <2>3, <4>1, <5>1
      <4>4. /\ SubSeq(d, 5, 6) \in Seq(Stmts) /\ Len(SubSeq(d, 5, 6)) = 2
            /\ SubSeq(d, 5, 6)[1] = d[5] /\ SubSeq(d, 5, 6)[2] = d[6]
        BY <4>1, <4>3, SubSeqProperties
      <4>5. \A l \in 1 .. Len(t) : SubSeq(d, 5, 6)[l] = t[l]
        BY <4>1, <4>2, <4>4
      <4>6. SubSeq(d, 5, 6) = t
        BY <4>2, <4>4, <4>5, SeqEqual
      <4>9. Rest(d, 4) = SubSeq(d, 5, 6)
        BY <4>1 DEF Rest
      <4> QED
        BY <4>6, <4>9 DEF d, t
    <3>3. Rest(Code("step"), 0) = <<"step">>
      <4> DEFINE d == <<"step">>
      <4>1. d \in Seq(Stmts) /\ Len(d) = 1
        BY <2>3
      <4> HIDE DEF d
      <4>3. \A l \in 1 .. 1 : d[l] \in Stmts
        BY <4>1
      <4>4. /\ SubSeq(d, 1, 1) \in Seq(Stmts) /\ Len(SubSeq(d, 1, 1)) = 1
            /\ \A l \in 1 .. 1 : SubSeq(d, 1, 1)[l] = d[l]
        BY <4>1, <4>3, SubSeqProperties
      <4>5. SubSeq(d, 1, 1) = d
        BY <4>1, <4>4, SeqEqual
      <4>6. Rest(d, 0) = d
        BY <4>1, <4>5 DEF Rest
      <4> QED
        BY <3>1, <4>6 DEF d
    <3>4. <<"step">> \o <<"irqOn">> = <<"step", "irqOn">>
      <4>1. Append(<<"step">>, "irqOn") = <<"step", "irqOn">>
        BY <2>3, AppendTwo
      <4> QED
        BY <2>3, <4>1, AppendIsConcat
    <3>5. (<<"step">> \o <<"irqOn">>) \o r = <<"step">> \o (<<"irqOn">> \o r)
      BY <2>1, <2>3, ConcatAssociative
    <3> QED
      BY <2>1, <2>2, <3>2, <3>3, <3>4, <3>5
  <2>5. stack' = Append(low, FrameOf(s, "step", 0, x, 0)')
    BY <1>4, <1>5, <2>4 DEF FrameOf, ModelProgs
  <2>6. IF s = "main" THEN x = <<"irqOn", "call">> ELSE x \in Seq({"irqOn"}) /\ x # <<>>
    <3>1. CASE s = "main"
      <4>1. r = <<"call">>
        BY <1>1, <2>1, <3>1 DEF ModelShape, Main
      <4>2. "call" \in Stmts
        BY DEF Stmts
      <4>3. Append(<<"irqOn">>, "call") = <<"irqOn", "call">>
        BY <2>3, <4>2, AppendTwo
      <4>4. Append(<<"irqOn">>, "call") = <<"irqOn">> \o <<"call">>
        BY <2>3, <4>2, AppendIsConcat
      <4> QED
        BY <2>2, <3>1, <4>1, <4>3, <4>4
    <3>2. CASE s # "main"
      <4>1. r \in Seq({"irqOn"}) /\ <<"irqOn">> \in Seq({"irqOn"})
        BY <1>1, <3>2 DEF ModelShape
      <4>2. x \in Seq({"irqOn"})
        BY <2>2, <4>1, ConcatProperties
      <4>3. Len(x) = Len(r) + 1 /\ Len(r) \in Nat
        BY <2>1, <2>2, <2>3, Preceded
      <4>4. x # <<>>
        BY <4>2, <4>3, EmptySeq
      <4> QED
        BY <3>2, <4>2, <4>4
    <3> QED
      BY <3>1, <3>2
  <2>7. ModelShape(low, s, "step", 0, x)'
    <3>1. Len(Code("step"))' = 1 /\ "step" \in ModelProgs
      BY <1>1, <1>5 DEF ModelLens, ModelProgs
    <3>2. irqOff' = TRUE
      BY <1>2, <1>6
    <3>3. (s = "main" /\ low = <<>>) \/ (s \in {"ai", "dma"} /\ low = <<MainRests>>)
      BY <1>1 DEF ModelShape
    <3>4. 0 \in 0 .. Len(Code("step"))' /\ 0 # Len(Code("step"))'
      BY <3>1, FirstOf, Zenon
    <3> QED
      BY <1>5, <2>5, <2>6, <3>1, <3>2, <3>3, <3>4 DEF ModelShape
  <2>8. Working(s, "step", 0)'
    <3>1. Working(s, "begin", 3)
      BY <1>1, <2>1
    <3>2. PICK v : v = at /\ Pipe(v)
      BY <3>1 DEF Working
    <3>3. Pipe(v)'
      BY <1>2, <3>2, PipeSame
    <3>4. arrived /\ at < L /\ at = 0
      BY <2>1, <3>1, ModelModel DEF Working, AtBegin, Common
    <3> QED
      BY <1>2, <1>5, <3>1, <3>2, <3>3, <3>4 DEF Working, Empty, AtBegin, AtStep, Open
  <2> QED
    BY <1>1, <1>2, <1>3, <2>7, <2>8 DEF ModelAt
<1>7. CASE ~At("irqOff")
  <2>1. p = "rest" /\ k = 0 /\ Frame.todo = r /\ At("irqOn") /\ irqOff' = FALSE
    BY <1>1, <1>2, <1>7, ModelStatement DEF ModelStmt, ModelNow
  <2>2. PICK x : x = Tail(r)
    OBVIOUS
  <2>3. IF s = "main" THEN x = Main ELSE x \in Seq({"irqOn"})
    <3>1. CASE s = "main"
      <4>1. r = <<"irqOn", "call">> \/ r = <<"call">>
        BY <1>1, <3>1 DEF ModelShape, Main
      <4>2. Head(r) = "irqOn"
        BY <2>1 DEF At
      <4>3. r = <<"irqOn", "call">>
        BY <4>1, <4>2
      <4>4. Tail(<<"irqOn", "call">>) = <<"call">>
        OBVIOUS
      <4> QED
        BY <2>2, <3>1, <4>3, <4>4 DEF Main
    <3>2. CASE s # "main"
      <4>1. r \in Seq({"irqOn"}) /\ r # <<>>
        BY <1>1, <1>4, <2>1, <3>2 DEF ModelShape
      <4> QED
        BY <2>2, <3>2, <4>1, HeadTailProperties
    <3> QED
      BY <3>1, <3>2
  <2>4. x \in Seq(Stmts)
    <3>1. r \in Seq(Stmts) /\ r # <<>>
      BY <1>1, <1>4, <2>1 DEF ModelNow
    <3> QED
      BY <2>2, <3>1, HeadTailProperties
  <2>5. Code("rest") \in Seq(Stmts) /\ Len(Code("rest")) = 0 /\ "rest" \in ModelProgs
    BY ModelCode DEF ModelProgs
  <2>6. Rest(Code("rest"), 0) \o x = x
    <3>1. 0 \in 0 .. Len(Code("rest")) /\ 0 = Len(Code("rest"))
      BY <2>5
    <3> QED
      BY <2>4, <2>5, <3>1, RestStep
  <2>7. stack' = Append(low, FrameOf(s, "rest", 0, x, 0)')
    BY <1>4, <1>5, <2>1, <2>2, <2>5, <2>6 DEF FrameOf
  <2>8. ModelShape(low, s, "rest", 0, x)'
    <3>1. Len(Code("rest"))' = 0
      BY <1>5, <2>5
    <3>2. (s = "main" /\ low = <<>>) \/ (s \in {"ai", "dma"} /\ low = <<MainRests>>)
      BY <1>1 DEF ModelShape
    <3> QED
      BY <1>5, <2>1, <2>3, <2>5, <2>7, <3>1, <3>2 DEF ModelShape
  <2>9. Waiting'
    <3>1. Waiting
      BY <1>1, <2>1
    <3>2. PICK v : v = at /\ Pipe(v)
      BY <3>1 DEF Waiting
    <3>3. Pipe(v)'
      BY <1>2, <3>2, PipeSame
    <3>4. (Idle => Idle') /\ (Inputs => Inputs')
      BY <1>2, <1>5 DEF Idle, Inputs, Open, Empty
    <3>5. Computes => Computes'
      BY <1>2, <1>5 DEF Computes, Armed, Open
    <3>6. Computed => Computed'
      BY <1>2, <1>5 DEF Computed, Armed, Open
    <3> QED
      BY <1>2, <3>1, <3>2, <3>3, <3>4, <3>5, <3>6 DEF Waiting
  <2> QED
    BY <1>1, <1>2, <1>3, <2>8, <2>9 DEF ModelAt
<1> QED
  BY <1>6, <1>7

LEMMA StartCodes ==
    /\ <<"clear", "maskDone", "enable">> \o <<"input">> = <<"clear", "maskDone", "enable", "input">>
    /\ <<"clear", "maskDone", "enable">> \o <<"irqOff", "step", "irqOn">>
          = <<"clear", "maskDone", "enable", "irqOff", "step", "irqOn">>
<1> DEFINE s == <<"clear", "maskDone", "enable">>
           t == <<"irqOff", "step", "irqOn">>
           u == <<"input">>
           v == <<"clear", "maskDone", "enable", "input">>
           w == <<"clear", "maskDone", "enable", "irqOff", "step", "irqOn">>
<1>1. /\ s \in Seq(Stmts) /\ Len(s) = 3 /\ s[1] = "clear" /\ s[2] = "maskDone" /\ s[3] = "enable"
      /\ t \in Seq(Stmts) /\ Len(t) = 3 /\ t[1] = "irqOff" /\ t[2] = "step" /\ t[3] = "irqOn"
      /\ u \in Seq(Stmts) /\ Len(u) = 1 /\ u[1] = "input"
  BY DEF Stmts
<1>2. /\ v \in Seq(Stmts) /\ Len(v) = 4 /\ v[1] = "clear" /\ v[2] = "maskDone" /\ v[3] = "enable"
      /\ v[4] = "input"
      /\ w \in Seq(Stmts) /\ Len(w) = 6 /\ w[1] = "clear" /\ w[2] = "maskDone" /\ w[3] = "enable"
      /\ w[4] = "irqOff" /\ w[5] = "step" /\ w[6] = "irqOn"
  BY DEF Stmts
<1> HIDE DEF s, t, u, v, w
<1>3. s \o u = v
  <2>5. s \in Seq(Stmts) /\ u \in Seq(Stmts)
    BY <1>1
  <2>6. /\ s \o u \in Seq(Stmts) /\ Len(s \o u) = Len(s) + Len(u)
        /\ \A l \in 1 .. Len(s) + Len(u) : (s \o u)[l] = IF l <= Len(s) THEN s[l] ELSE u[l - Len(s)]
    BY <2>5, ConcatProperties
  <2>1. /\ s \o u \in Seq(Stmts) /\ Len(s \o u) = 4
        /\ \A l \in 1 .. 4 : (s \o u)[l] = IF l <= 3 THEN s[l] ELSE u[l - 3]
    <3>1. Len(s) = 3 /\ Len(u) = 1 /\ 3 + 1 = 4
      BY <1>1
    <3> QED
      BY <2>6, <3>1
  <2>2. \A l \in 1 .. 4 : l \in {1, 2, 3, 4}
    OBVIOUS
  <2>3. (s \o u)[1] = s[1] /\ (s \o u)[2] = s[2] /\ (s \o u)[3] = s[3] /\ (s \o u)[4] = u[1]
    BY <2>1
  <2>4. \A l \in 1 .. Len(s \o u) : (s \o u)[l] = v[l]
    BY <1>1, <1>2, <2>1, <2>2, <2>3
  <2> QED
    BY <1>2, <2>1, <2>4, SeqEqual
<1>4. s \o t = w
  <2>5. s \in Seq(Stmts) /\ t \in Seq(Stmts)
    BY <1>1
  <2>6. /\ s \o t \in Seq(Stmts) /\ Len(s \o t) = Len(s) + Len(t)
        /\ \A l \in 1 .. Len(s) + Len(t) : (s \o t)[l] = IF l <= Len(s) THEN s[l] ELSE t[l - Len(s)]
    BY <2>5, ConcatProperties
  <2>1. /\ s \o t \in Seq(Stmts) /\ Len(s \o t) = 6
        /\ \A l \in 1 .. 6 : (s \o t)[l] = IF l <= 3 THEN s[l] ELSE t[l - 3]
    <3>1. Len(s) = 3 /\ Len(t) = 3 /\ 3 + 3 = 6
      BY <1>1
    <3> QED
      BY <2>6, <3>1
  <2>2. \A l \in 1 .. 6 : l \in {1, 2, 3, 4, 5, 6}
    OBVIOUS
  <2>3. /\ (s \o t)[1] = s[1] /\ (s \o t)[2] = s[2] /\ (s \o t)[3] = s[3]
        /\ (s \o t)[4] = t[1] /\ (s \o t)[5] = t[2] /\ (s \o t)[6] = t[3]
    BY <2>1, SMTT(30)
  <2>4. \A l \in 1 .. Len(s \o t) : (s \o t)[l] = w[l]
    BY <1>1, <1>2, <2>1, <2>2, <2>3
  <2> QED
    BY <1>2, <2>1, <2>4, SeqEqual
<1> QED
  BY <1>3, <1>4 DEF s, t, u, v, w

(* Main between its calls. *)
LEMMA ModelRests == FrameOf("main", "rest", 0, Main, 0) = MainRests
<1>1. Main \in Seq(Stmts) /\ Code("rest") = <<>> /\ <<>> \in Seq(Stmts)
  BY ModelCode DEF Main, Stmts
<1>2. FrameOf("main", "rest", 0, Main, 0) = [src |-> "main", todo |-> Code("rest") \o Main, i |-> 0]
  BY <1>1, FrameBegins
<1>3. Code("rest") \o Main = Main
  BY <1>1, ConcatEmptySeq
<1> QED
  BY <1>2, <1>3 DEF MainRests, Main

LEMMA ModelComplete ==
    ASSUME Common, Kmodel, NEW low, NEW s, NEW p, NEW k, NEW r, ModelAt(low, s, p, k, r), Complete
    PROVE  Common' /\ ModelAt(<<>>, "main", "rest", 0, Main)'
<1>1. /\ ModelShape(low, s, p, k, r) /\ ModelNow(low, s, p, k, r) /\ ModelLens
      /\ flag = 0 /\ IF p = "rest" THEN Waiting ELSE Working(s, p, k)
  BY ModelStatement, ModelFrame DEF ModelAt
<1>2. /\ Frame.src # "main" /\ Frame.todo = <<>> /\ stack' = Front(stack)
      /\ UNCHANGED <<api, model, also, input, status, mask, fifo, busy, outReady, dma, dmaDone, dmaCb,
                     aiEnabled,
                     pend, irqOff, flag, at, n, told, arrived, computed, delivered>>
  BY DEF Complete, runVars, aiVars, dmaVars, plicVars, taskVars, dataVars
<1>3. stack' = low /\ p = "rest" /\ r = <<>> /\ s # "main"
  BY <1>1, <1>2 DEF ModelNow
<1>4. low = <<MainRests>> /\ irqOff = FALSE
  BY <1>1, <1>3 DEF ModelShape, Common
<1>5. /\ \A q \in ModelProgs : Code(q)' = Code(q)
      /\ L' = L /\ Kmodel' /\ OutputCallback' = OutputCallback
      /\ \A l : (SendsOut(l)' <=> SendsOut(l)) /\ (ConvLayer(l)' <=> ConvLayer(l))
  BY <1>2, ModelSame DEF Kmodel, OutputCallback
<1>6. stack' = Append(<<>>, FrameOf("main", "rest", 0, Main, 0)')
  <2>2. FrameOf("main", "rest", 0, Main, 0) = MainRests
    BY ModelRests
  <2>3. FrameOf("main", "rest", 0, Main, 0)' = FrameOf("main", "rest", 0, Main, 0)
    BY <1>5 DEF FrameOf, ModelProgs, Main
  <2>4. Append(<<>>, MainRests) = <<MainRests>>
    OBVIOUS
  <2> QED
    BY <1>3, <1>4, <2>2, <2>3, <2>4
<1>7. ModelShape(<<>>, "main", "rest", 0, Main)'
  <2>1. Len(Code("rest"))' = 0
    BY <1>1, <1>5 DEF ModelLens, ModelProgs
  <2>2. irqOff' = FALSE /\ Main' = Main /\ "rest" \in ModelProgs
    BY <1>2, <1>4 DEF Main, ModelProgs
  <2> QED
    BY <1>6, <2>1, <2>2 DEF ModelShape
<1>8. Waiting'
  <2>1. Waiting
    BY <1>1, <1>3
  <2>2. PICK v : v = at /\ Pipe(v)
    BY <2>1 DEF Waiting
  <2>3. Pipe(v)'
    BY <1>2, <2>2, PipeSame
  <2>4. (Idle => Idle') /\ (Inputs => Inputs')
    BY <1>2, <1>5 DEF Idle, Inputs, Open, Empty
  <2>5. Computes => Computes'
    BY <1>2, <1>5 DEF Computes, Armed, Open
  <2>6. Computed => Computed'
    BY <1>2, <1>5 DEF Computed, Armed, Open
  <2> QED
    BY <1>2, <2>1, <2>2, <2>3, <2>4, <2>5, <2>6 DEF Waiting
<1>9. Common'
  BY <1>2, CountedSame DEF Common
<1> QED
  BY <1>1, <1>2, <1>7, <1>8, <1>9 DEF ModelAt

(* A task is started, by main or by the callback of the last. *)
LEMMA ModelCall ==
    ASSUME ~collided', Common, Kmodel, NEW low, NEW s, NEW p, NEW k, NEW r,
           ModelAt(low, s, p, k, r), Call
    PROVE  Common' /\ ModelAt(low, s, "begin", 0, r)'
<1>1. /\ ModelShape(low, s, p, k, r) /\ ModelStmt(s, p, k, r) /\ ModelLens /\ k \in Nat
      /\ p \in ModelProgs
      /\ flag = 0 /\ (IF p = "rest" THEN Waiting ELSE Working(s, p, k)) /\ ModelNow(low, s, p, k, r)
  BY ModelStatement, ModelFrame DEF ModelAt
<1>2. /\ At("call") /\ Free /\ stack[1].todo = <<"call">>
      /\ n' = n + 1 /\ flag' = flag /\ at' = 0 /\ arrived' = (input = "cpu") /\ computed' = <<>>
      /\ delivered' = 0
      /\ Then(IF MainLoop THEN Append(StartPath, "call") ELSE StartPath)
      /\ UNCHANGED <<api, model, also, input, status, mask, fifo, busy, outReady, dma, dmaDone, dmaCb,
                     aiEnabled, pend, irqOff, told>>
  BY DEF Call, Unfinished, runVars, aiVars, dmaVars, plicVars
<1>3. \/ p = "done" /\ k = 3
      \/ p = "idone" /\ k = 4
      \/ p = "rest" /\ s = "main" /\ r = Main
  BY <1>1, <1>2 DEF ModelStmt
<1>4. r \in Seq(Stmts) /\ Frame.todo # <<>> /\ (s = "main" => stack[1] = Frame)
  <2>1. s = "main" => low = <<>>
    BY <1>1 DEF ModelShape
  <2> QED
    BY <1>1, <1>2, <2>1 DEF ModelNow, At
<1>5. Tail(Frame.todo) = IF p = "rest" THEN <<>> ELSE r
  <2>1. CASE p = "rest"
    <3>1. ModelNow(low, s, p, k, r)
      BY <1>1
    <3>2. Frame.todo = r
      BY <2>1, <3>1 DEF ModelNow
    <3>3. r = <<"call">>
      BY <1>3, <2>1 DEF Main
    <3>4. Tail(<<"call">>) = <<>>
      OBVIOUS
    <3> QED
      BY <2>1, <3>2, <3>3, <3>4
  <2>2. CASE p # "rest"
    <3>1. PICK c, m : c = Code(p) /\ m = k + 1
      OBVIOUS
    <3>2. c \in Seq(Stmts) /\ m = Len(c) /\ Tail(Frame.todo) = Rest(c, m) \o r
      <4>1. Len(c) = IF p = "done" THEN 4 ELSE 5
        BY <1>1, <1>3, <2>2, <3>1 DEF ModelLens
      <4>2. m = IF p = "done" THEN 4 ELSE 5
        BY <1>3, <2>2, <3>1
      <4> QED
        BY <1>1, <2>2, <3>1, <4>1, <4>2 DEF ModelNow
    <3>3. m \in 0 .. Len(c)
      BY <3>2
    <3>4. Rest(c, m) \o r = r
      BY <1>4, <3>2, <3>3, RestStep
    <3> QED
      BY <2>2, <3>2, <3>4
  <2> QED
    BY <2>1, <2>2
<1>6. p = "rest" \/ s # "main"
  <2> SUFFICES ASSUME p # "rest", s = "main" PROVE FALSE
    OBVIOUS
  <2>1. Tail(Frame.todo) = r /\ Frame.todo = <<"call">>
    BY <1>2, <1>4, <1>5
  <2>2. r # <<>>
    <3>1. r = <<"irqOn", "call">> \/ r = <<"call">>
      BY <1>1 DEF ModelShape, Main
    <3> QED
      BY <3>1
  <2> QED
    BY <2>1, <2>2
<1>7. ~Open /\ n = told
  BY <1>2 DEF Free, Open, Common
<1>8. Empty /\ dma = "off" /\ ~dmaDone /\ pend = {} /\ status = {}
  <2>1. CASE p = "rest"
    BY <1>1, <1>7, <2>1 DEF Waiting, Idle, Inputs, Computes, Computed
  <2>2. CASE p # "rest"
    BY <1>1, <1>3, <2>2 DEF Working, AtDone
  <2> QED
    BY <2>1, <2>2
<1>9. p = "rest" => Frame.todo = Main /\ irqOff = FALSE
  <2>1. p = "rest" => Frame.todo = r /\ s = "main" /\ r = Main
    BY <1>1, <1>3 DEF ModelNow
  <2>2. p = "rest" /\ irqOff => FALSE
    <3>1. <<"irqOn", "call">> # <<"call">>
      <4>1. Len(<<"irqOn", "call">>) # Len(<<"call">>)
        OBVIOUS
      <4> QED
        BY <4>1
    <3> QED
      BY <1>1, <2>1, <3>1 DEF ModelShape, Main
  <2> QED
    BY <2>1, <2>2 DEF Common
<1>10. PICK x : x = StartPath
  OBVIOUS
<1>11. x = Code("begin") /\ x \in Seq(Stmts) /\ "begin" \in ModelProgs
  <2>1. Code("begin") = Begin /\ Code("begin") \in Seq(Stmts) /\ "begin" \in ModelProgs
    BY ModelCode DEF Code, ModelProgs
  <2>2. StartPath = <<"clear", "maskDone", "enable">>
                    \o IF input = "dma" THEN <<"input">> ELSE <<"irqOff", "step", "irqOn">>
    BY DEF StartPath, Kmodel
  <2>3. /\ <<"clear", "maskDone", "enable">> \o <<"input">> = <<"clear", "maskDone", "enable", "input">>
        /\ <<"clear", "maskDone", "enable">> \o <<"irqOff", "step", "irqOn">>
              = <<"clear", "maskDone", "enable", "irqOff", "step", "irqOn">>
    BY StartCodes
  <2>4. StartPath = Begin
    BY <2>2, <2>3 DEF Begin
  <2> QED
    BY <1>10, <2>1, <2>4
<1>12. stack' = Append(low, [src |-> s, todo |-> x \o r, i |-> 0])
  <2>1. CASE p = "rest"
    <3>1. MainLoop
      BY <1>1, <1>3, <1>9, <2>1 DEF MainLoop, ModelNow, Main
    <3>2. "call" \in Stmts /\ Append(x, "call") = x \o r
      <4>1. "call" \in Stmts
        BY DEF Stmts
      <4>2. Append(x, "call") = x \o <<"call">>
        BY <1>11, <4>1, AppendIsConcat
      <4> QED
        BY <1>3, <2>1, <4>1, <4>2 DEF Main
    <3>3. PICK y : y = Append(x, "call")
      OBVIOUS
    <3>4. y \in Seq(Stmts) /\ Then(y)
      BY <1>2, <1>10, <1>11, <3>1, <3>2, <3>3, AppendProperties
    <3>5. stack' = Append(low, [src |-> s, todo |-> y \o Tail(Frame.todo), i |-> 0])
      BY <1>1, <1>4, <3>4, ModelThen
    <3>6. y \o Tail(Frame.todo) = y
      BY <1>5, <2>1, <3>4, ConcatEmptySeq
    <3> QED
      BY <3>2, <3>3, <3>5, <3>6
  <2>2. CASE p # "rest"
    <3>1. ~MainLoop
      BY <1>1, <1>6, <2>2 DEF MainLoop, ModelNow
    <3>2. Then(x)
      BY <1>2, <1>10, <3>1
    <3>3. stack' = Append(low, [src |-> s, todo |-> x \o Tail(Frame.todo), i |-> 0])
      BY <1>1, <1>4, <1>11, <3>2, ModelThen
    <3> QED
      BY <1>5, <2>2, <3>3
  <2> QED
    BY <2>1, <2>2
<1>13. Code("begin")' = Code("begin") /\ MainRests' = MainRests /\ L' = L /\ Kmodel'
  BY <1>2 DEF Code, Begin, MainRests, L, Kmodel
<1>14. stack' = Append(low, FrameOf(s, "begin", 0, r, 0)')
  <2>1. FrameOf(s, "begin", 0, r, 0) = [src |-> s, todo |-> x \o r, i |-> 0]
    BY <1>4, <1>11, FrameBegins
  <2>2. FrameOf(s, "begin", 0, r, 0)' = FrameOf(s, "begin", 0, r, 0)
    BY <1>13 DEF FrameOf
  <2> QED
    BY <1>12, <2>1, <2>2
<1>15. ModelShape(low, s, "begin", 0, r)'
  <2>1. Len(Code("begin"))' \in {4, 6}
    BY <1>1, <1>13 DEF ModelLens
  <2>2. s = "main" => ~irqOff
    BY <1>6, <1>9
  <2>3. 0 \in 0 .. Len(Code("begin"))' /\ 0 # Len(Code("begin"))'
    BY <2>1, FirstOf, Zenon
  <2> QED
    BY <1>1, <1>2, <1>11, <1>13, <1>14, <2>2, <2>3 DEF ModelShape
<1>16. Pipe(0)'
  <2>1. computed' = <<>> /\ fifo' = <<>> /\ busy' = 0 /\ Len(<<>>) = 0 /\ <<>> \in Seq(Nat)
    BY <1>2, <1>8 DEF Empty
  <2> QED
    BY <2>1 DEF Pipe
<1>17. Common'
  <2>1. Counted'
    <3>1. Sent(0)' = 0
      <4>1. \A l \in 1 .. 0 : FALSE
        OBVIOUS
      <4>2. {l \in 1 .. 0 : SendsOut(l)'} = {}
        BY <4>1
      <4>3. Cardinality({}) = 0
        BY FS_EmptySet
      <4> QED
        BY <4>2, <4>3 DEF Sent
    <3>2. Len(computed') = 0
      BY <1>2
    <3>3. Sent(Len(computed))' = 0
      <4>1. Sent(Len(computed))' = Cardinality({l \in 1 .. Len(computed') : SendsOut(l)'})
        BY DEF Sent
      <4>2. Sent(0)' = Cardinality({l \in 1 .. 0 : SendsOut(l)'})
        BY DEF Sent
      <4> QED
        BY <3>1, <3>2, <4>1, <4>2
    <3> QED
      BY <1>2, <1>8, <3>3 DEF Counted, Empty
  <2>2. arrived' \in BOOLEAN /\ n' = told' + 1
    BY <1>2, <1>7
  <2> QED
    BY <1>2, <2>1, <2>2 DEF Common
<1>18. Working(s, "begin", 0)'
  <2>1. Open' /\ Empty' /\ pend' = {} /\ dma' = "off" /\ ~dmaDone' /\ status' = {} /\ at' = 0
        /\ arrived' = (input' = "cpu")
    BY <1>2, <1>7, <1>8 DEF Open, Empty
  <2>2. Pipe(at)'
    BY <1>2, <1>16 DEF Pipe
  <2> QED
    BY <2>1, <2>2 DEF Working, AtBegin
<1> QED
  BY <1>1, <1>2, <1>15, <1>17, <1>18 DEF ModelAt

-----------------------------------------------------------------------------
(* kpu_run_kmodel: the hardware. *)

(* While a frame has statements of a program left, the hardware is idle. *)
LEMMA ModelQuiet ==
    ASSUME Common, Kmodel, NEW low, NEW s, NEW p, NEW k, NEW r, ModelAt(low, s, p, k, r), Hardware
    PROVE  /\ p = "rest" /\ k = 0 /\ Waiting /\ flag = 0
           /\ ModelShape(low, s, p, k, r) /\ ModelNow(low, s, p, k, r)
<1>1. /\ ModelShape(low, s, p, k, r) /\ ModelNow(low, s, p, k, r) /\ (p = "rest" => k = 0)
      /\ flag = 0 /\ IF p = "rest" THEN Waiting ELSE Working(s, p, k)
  BY ModelStatement, ModelFrame DEF ModelAt
<1> SUFFICES ASSUME p # "rest" PROVE FALSE
  BY <1>1
<1>2. Empty /\ pend = {} /\ (s = "ai" \/ status \ mask = {}) /\ dma \in {"off", "out"}
      /\ (dmaDone => s = "dma")
  BY <1>1 DEF Working, Armed, ModelShape
<1>3. s \in InService
  BY <1>1 DEF ModelNow
<1>4. ~Take /\ ~Compute /\ ~Move
  BY <1>2 DEF Take, Compute, Move, Empty
<1>5. ~Forward
  BY <1>2, <1>3 DEF Forward, Forwarded, Level, Sources
<1>6. ~Claim
  BY <1>2 DEF Claim, Claimable
<1> QED
  BY <1>4, <1>5, <1>6 DEF Hardware

LEMMA ModelShapeSame ==
    ASSUME UNCHANGED <<input, at, model, irqOff, stack>>,
           NEW low, NEW s, NEW p, NEW k, NEW r, ModelShape(low, s, p, k, r)
    PROVE  ModelShape(low, s, p, k, r)'
<1>1. p \in ModelProgs
  BY DEF ModelShape
<1>2. Code(p)' = Code(p) /\ FrameOf(s, p, k, r, 0)' = FrameOf(s, p, k, r, 0) /\ Main' = Main
  BY <1>1, ModelSame DEF Main
<1> QED
  BY <1>2 DEF ModelShape, MainRests

(* An accelerator with a layer runs the one taken last. *)
LEMMA ModelComputes ==
    ASSUME Common, Waiting, fifo # <<>> \/ busy # 0
    PROVE  Computes /\ Pipe(at) /\ (busy # 0 => busy = at /\ Len(computed) + 1 = at)
<1>1. PICK v : v = at
  OBVIOUS
<1>2. Pipe(v) /\ v = at /\ v \in Nat
  BY <1>1 DEF Waiting, Common
<1>3. Len(computed) # v /\ (busy # 0 => busy = Len(computed) + 1)
  BY <1>2, PipeNumbers
<1>4. Computes
  BY <1>1, <1>3 DEF Waiting, Idle, Inputs, Computed, Empty
<1>5. Len(computed) = v - 1 /\ Len(computed) \in Nat
  BY <1>1, <1>2, <1>4, PipeNumbers DEF Computes
<1>6. PICK c : c = Len(computed)
  OBVIOUS
<1>7. c + 1 = v
  BY <1>2, <1>5, <1>6
<1> QED
  BY <1>2, <1>3, <1>4, <1>6, <1>7

LEMMA ModelTake ==
    ASSUME Common, Kmodel, NEW low, NEW s, NEW p, NEW k, NEW r, ModelAt(low, s, p, k, r), Take
    PROVE  Common' /\ ModelAt(low, s, p, k, r)'
<1>1. p = "rest" /\ Waiting /\ flag = 0 /\ ModelShape(low, s, p, k, r)
  BY ModelQuiet DEF Hardware
<1>2. /\ busy = 0 /\ fifo # <<>> /\ busy' = Head(fifo) /\ fifo' = Tail(fifo)
      /\ status' = IF Len(fifo) <= 2 THEN status \cup {"almost_empty"} ELSE status
      /\ UNCHANGED <<api, model, also, input, mask, outReady, dma, dmaDone, dmaCb, aiEnabled, pend,
                     irqOff, stack, flag, at, n, told, arrived, computed, delivered>>
  BY DEF Take, runVars, dmaVars, plicVars, taskVars, dataVars
<1>3. ModelShape(low, s, p, k, r)'
  BY <1>1, <1>2, ModelShapeSame
<1>4. Computes /\ Pipe(at)
  BY <1>1, <1>2, ModelComputes
<1>5. Pipe(at)'
  <2>1. PICK v : v = at
    OBVIOUS
  <2>2. Pipe(v)'
    BY <1>2, <1>4, <2>1, PipeTake
  <2> QED
    BY <1>2, <2>1, <2>2
<1>6. OutputCallback' = OutputCallback
      /\ \A l : (SendsOut(l)' <=> SendsOut(l)) /\ (ConvLayer(l)' <=> ConvLayer(l))
  BY <1>2, ModelSame DEF OutputCallback, Kmodel
<1>7. Computes'
  BY <1>2, <1>4, <1>6 DEF Computes, Armed, Open
<1>8. Common'
  BY <1>2, CountedSame DEF Common, Status
<1> QED
  BY <1>1, <1>2, <1>3, <1>5, <1>7, <1>8 DEF ModelAt, Waiting

LEMMA ModelCompute ==
    ASSUME Common, Kmodel, NEW low, NEW s, NEW p, NEW k, NEW r, ModelAt(low, s, p, k, r), Compute
    PROVE  Common' /\ ModelAt(low, s, p, k, r)'
<1>1. p = "rest" /\ Waiting /\ flag = 0 /\ ModelShape(low, s, p, k, r)
  BY ModelQuiet DEF Hardware
<1>2. /\ busy # 0 /\ busy' = 0 /\ computed' = Append(computed, busy)
      /\ status' = IF Interrupts(busy) THEN status \cup {"calc_done"} ELSE status
      /\ outReady' = (outReady \/ SendsOut(busy))
      /\ UNCHANGED <<api, model, also, input, mask, fifo, dma, dmaDone, dmaCb, aiEnabled, pend,
                     irqOff, stack, flag, at, n, told, arrived, delivered>>
  BY DEF Compute, runVars, dmaVars, plicVars, taskVars
<1>3. ModelShape(low, s, p, k, r)'
  BY <1>1, <1>2, ModelShapeSame
<1>4. Computes /\ Pipe(at) /\ busy = at /\ Len(computed) + 1 = at
  BY <1>1, <1>2, ModelComputes
<1>5. Pipe(at)' /\ Len(computed)' = at'
  <2>1. PICK v : v = at
    OBVIOUS
  <2>2. Pipe(v)'
    BY <1>2, <1>4, <2>1, PipeCompute
  <2>3. Len(computed)' = Len(computed) + 1
    BY <1>2, <1>4, AppendProperties DEF Pipe
  <2> QED
    BY <1>2, <1>4, <2>1, <2>2, <2>3
<1>6. OutputCallback' = OutputCallback
      /\ \A l : (SendsOut(l)' <=> SendsOut(l)) /\ (ConvLayer(l)' <=> ConvLayer(l))
  BY <1>2, ModelSame DEF OutputCallback, Kmodel
<1>7. ~SendsOut(at) => Interrupts(at)
  BY <1>4, ModelModel DEF Computes, ConvLayer, SendsOut, Interrupts
<1>8. Computed'
  <2>1. CASE SendsOut(at)
    BY <1>2, <1>4, <1>5, <1>6, <2>1 DEF Computes, Computed, Armed, Open
  <2>2. CASE ~SendsOut(at)
    BY <1>2, <1>4, <1>5, <1>6, <1>7, <2>2 DEF Computes, Computed, Open
  <2> QED
    BY <2>1, <2>2
<1>9. Counted'
  <2>1. PICK c : c = Len(computed)
    OBVIOUS
  <2>2. c \in Nat /\ c + 1 = at
    BY <1>4, <2>1, PipeNumbers
  <2>3. Sent(c) \in Nat /\ Sent(c + 1) = Sent(c) + (IF SendsOut(c + 1) THEN 1 ELSE 0)
    BY <2>2, SentMore
  <2>4. Sent(Len(computed))' = Sent(at)
    <3>1. Len(computed') = at
      BY <1>2, <1>5
    <3>2. Sent(Len(computed))' = Cardinality({l \in 1 .. Len(computed') : SendsOut(l)'})
      BY DEF Sent
    <3> QED
      BY <1>6, <3>1, <3>2 DEF Sent
  <2>5. Sent(c) = delivered /\ ~outReady /\ delivered \in Nat
    BY <1>4, <2>1 DEF Common, Counted, Computes
  <2>6. (outReady' <=> SendsOut(at)) /\ delivered' = delivered
    BY <1>2, <1>4, <2>5
  <2> QED
    BY <2>2, <2>3, <2>4, <2>5, <2>6 DEF Counted
<1>10. Common'
  <2>1. outReady' \in BOOLEAN
    BY <1>2 DEF Common
  <2> QED
    BY <1>2, <1>9, <2>1 DEF Common, Status
<1> QED
  BY <1>1, <1>2, <1>3, <1>5, <1>8, <1>10 DEF ModelAt, Waiting

LEMMA ModelMove ==
    ASSUME Common, Kmodel, NEW low, NEW s, NEW p, NEW k, NEW r, ModelAt(low, s, p, k, r), Move
    PROVE  Common' /\ ModelAt(low, s, p, k, r)'
<1>1. p = "rest" /\ Waiting /\ flag = 0 /\ ModelShape(low, s, p, k, r)
  BY ModelQuiet DEF Hardware
<1>2. /\ (dma = "in" \/ (dma = "out" /\ outReady)) /\ dma' = "off" /\ dmaDone' = TRUE
      /\ IF dma = "in" THEN arrived' = TRUE /\ UNCHANGED <<outReady, delivered>>
         ELSE outReady' = FALSE /\ delivered' = delivered + 1 /\ UNCHANGED arrived
      /\ UNCHANGED <<api, model, also, input, status, mask, fifo, busy, dmaCb, aiEnabled, pend,
                     irqOff, stack, flag, at, n, told, computed>>
  BY DEF Move, runVars, plicVars, taskVars
<1>3. ModelShape(low, s, p, k, r)'
  BY <1>1, <1>2, ModelShapeSame
<1>4. Pipe(at)'
  <2>1. PICK v : v = at /\ Pipe(v)
    BY <1>1 DEF Waiting
  <2>2. Pipe(v)'
    BY <1>2, <2>1, PipeSame
  <2> QED
    BY <1>2, <2>1, <2>2
<1>5. OutputCallback' = OutputCallback
      /\ \A l : (SendsOut(l)' <=> SendsOut(l)) /\ (ConvLayer(l)' <=> ConvLayer(l))
  BY <1>2, ModelSame DEF OutputCallback, Kmodel
<1>6. Counted'
  BY <1>2 DEF Common, Counted, Sent, SendsOut
<1>7. CASE dma = "in"
  <2>1. Inputs
    BY <1>1, <1>7 DEF Waiting, Idle, Computes, Computed, Armed
  <2>2. Inputs'
    BY <1>2, <1>7, <2>1 DEF Inputs, Open, Empty
  <2>3. Common'
    BY <1>2, <1>6, <1>7 DEF Common
  <2> QED
    BY <1>1, <1>2, <1>3, <1>4, <2>2, <2>3 DEF ModelAt, Waiting
<1>8. CASE dma # "in"
  <2>1. dma = "out" /\ outReady
    BY <1>2, <1>8
  <2>2. Computed /\ SendsOut(at) /\ Armed /\ pend = {}
    BY <1>1, <2>1 DEF Waiting, Idle, Inputs, Computes, Computed, Empty
  <2>3. outReady' = FALSE /\ delivered' = delivered + 1 /\ arrived' = arrived
    BY <1>2, <1>8
  <2>4. Computed'
    BY <1>2, <1>5, <2>2, <2>3 DEF Computed, Open, Armed
  <2>5. delivered' \in Nat
    BY <2>3 DEF Common
  <2>6. Common'
    BY <1>2, <1>6, <2>3, <2>5 DEF Common
  <2> QED
    BY <1>1, <1>2, <1>3, <1>4, <2>4, <2>6 DEF ModelAt, Waiting
<1> QED
  BY <1>7, <1>8

LEMMA ModelForward ==
    ASSUME Common, Kmodel, NEW low, NEW s, NEW p, NEW k, NEW r, ModelAt(low, s, p, k, r), Forward
    PROVE  Common' /\ ModelAt(low, s, p, k, r)'
<1>1. p = "rest" /\ Waiting /\ flag = 0 /\ ModelShape(low, s, p, k, r)
  BY ModelQuiet DEF Hardware
<1>2. PICK x \in Sources :
        /\ Forwarded(x) /\ pend' = pend \cup {x}
        /\ UNCHANGED <<api, model, also, input, status, mask, fifo, busy, outReady, dma, dmaDone, dmaCb,
                       aiEnabled, irqOff, stack, flag, at, n, told, arrived, computed, delivered>>
  BY DEF Forward, runVars, aiVars, dmaVars, taskVars, dataVars
<1>3. ModelShape(low, s, p, k, r)'
  BY <1>1, <1>2, ModelShapeSame
<1>4. Pipe(at)'
  <2>1. PICK v : v = at /\ Pipe(v)
    BY <1>1 DEF Waiting
  <2>2. Pipe(v)'
    BY <1>2, <2>1, PipeSame
  <2> QED
    BY <1>2, <2>1, <2>2
<1>5. OutputCallback' = OutputCallback
      /\ \A l : (SendsOut(l)' <=> SendsOut(l)) /\ (ConvLayer(l)' <=> ConvLayer(l))
  BY <1>2, ModelSame DEF OutputCallback, Kmodel
<1>6. \/ x = "ai" /\ status \ mask # {}
      \/ x = "dma" /\ dmaDone
  BY <1>2 DEF Forwarded, Level, Sources
<1>7. Common'
  BY <1>2, <1>6, CountedSame DEF Common, Sources
<1>8. CASE x = "ai"
  <2>1. Computed /\ ~SendsOut(at)
    BY <1>1, <1>6, <1>8 DEF Waiting, Idle, Inputs, Computes, Computed, Armed, Common, Status
  <2>2. Computed'
    BY <1>2, <1>5, <1>8, <2>1 DEF Computed, Open
  <2> QED
    BY <1>1, <1>2, <1>3, <1>4, <1>7, <2>2 DEF ModelAt, Waiting
<1>9. CASE x = "dma"
  <2>1. dmaDone
    BY <1>6, <1>9
  <2>2. Inputs \/ (Computed /\ SendsOut(at))
    BY <1>1, <2>1 DEF Waiting, Idle, Computes, Computed, Armed
  <2>3. Inputs => Inputs'
    BY <1>2, <1>9 DEF Inputs, Open, Empty
  <2>4. Computed /\ SendsOut(at) => Computed'
    BY <1>2, <1>5, <1>9, <2>1 DEF Computed, Open, Armed
  <2> QED
    BY <1>1, <1>2, <1>3, <1>4, <1>7, <2>2, <2>3, <2>4 DEF ModelAt, Waiting
<1> QED
  BY <1>6, <1>8, <1>9

(* A handler interrupts main alone, and begins with a program of its own. *)
LEMMA ModelClaim ==
    ASSUME Common, Kmodel, NEW low, NEW s, NEW p, NEW k, NEW r, ModelAt(low, s, p, k, r), Claim
    PROVE  Common' /\ \E low2, x, q : ModelAt(low2, x, q, 0, <<>>)'
<1>1. /\ p = "rest" /\ k = 0 /\ Waiting /\ flag = 0 /\ ModelShape(low, s, p, k, r)
      /\ ModelNow(low, s, p, k, r)
  BY ModelQuiet DEF Hardware
<1>2. PICK x \in Sources :
        /\ Claimable(x) /\ pend' = pend \ {x}
        /\ stack' = Append(stack, [src |-> x, todo |-> IF x = "ai" THEN AiHandler ELSE DmaHandler, i |-> 0])
        /\ UNCHANGED <<api, model, also, input, status, mask, fifo, busy, outReady, dma, dmaDone, dmaCb,
                       aiEnabled, irqOff, flag, at, n, told, arrived, computed, delivered>>
  BY DEF Claim, runVars, aiVars, dmaVars, taskVars, dataVars
<1>3. x \in pend /\ ~irqOff /\ Frame.src = "main"
  <2>1. Priority(x) = 1 /\ Priority(x) > Priority(Frame.src)
    BY <1>2 DEF Claimable, Priority, Sources, Kmodel
  <2> QED
    BY <1>2, <2>1 DEF Claimable, Priority, Kmodel
<1>4. stack = <<MainRests>> /\ irqOff = FALSE
  <2>1. s = "main" /\ low = <<>> /\ r = Main
    BY <1>1, <1>3 DEF ModelNow, ModelShape
  <2>2. stack = Append(<<>>, FrameOf("main", "rest", 0, Main, 0))
    BY <1>1, <2>1 DEF ModelShape
  <2>3. Append(<<>>, MainRests) = <<MainRests>>
    OBVIOUS
  <2> QED
    BY <1>3, <2>2, <2>3, ModelRests DEF Common
<1>5. /\ \A q \in ModelProgs : Code(q)' = Code(q) /\ FrameOf(x, q, 0, <<>>, 0)' = FrameOf(x, q, 0, <<>>, 0)
      /\ MainRests' = MainRests /\ L' = L
  BY <1>2, ModelSame DEF MainRests
<1>6. Common'
  BY <1>2, CountedSame DEF Common, Sources
<1>7. Pipe(at)'
  <2>1. PICK v : v = at /\ Pipe(v)
    BY <1>1 DEF Waiting
  <2>2. Pipe(v)'
    BY <1>2, <2>1, PipeSame
  <2> QED
    BY <1>2, <2>1, <2>2
<1>8. Computed => fifo = <<>> /\ busy = 0
  <2>1. PICK v : v = at /\ Pipe(v)
    BY <1>1 DEF Waiting
  <2>2. Len(computed) = v => fifo = <<>> /\ busy = 0
    BY <2>1, PipeNumbers
  <2> QED
    BY <2>1, <2>2 DEF Computed
<1>9. PICK q : q = IF x = "ai" THEN "step" ELSE IF dmaCb = "step" THEN "istep" ELSE "idone"
  OBVIOUS
<1>10. /\ Empty /\ pend' = {} /\ dma = "off" /\ Open /\ (status \ mask # {} => x = "ai")
       /\ (dmaDone => x = "dma") /\ L \in Nat /\ at \in Nat
       /\ arrived /\ IF q = "idone" THEN at = L ELSE at < L
       /\ x = "dma" => dmaCb = IF q = "istep" THEN "step" ELSE "finish"
  <2>1. CASE x = "ai"
    <3>1. Computed /\ ~SendsOut(at)
      BY <1>1, <1>3, <2>1 DEF Waiting, Idle, Inputs, Computes, Computed, Armed
    <3>2. at # L
      BY <3>1, ModelModel DEF Computed, ConvLayer, SendsOut
    <3>3. at < L
      BY <3>1, <3>2, ModelModel DEF Computed, ConvLayer, Common
    <3> QED
      BY <1>2, <1>8, <1>9, <2>1, <3>1, <3>3, ModelModel DEF Computed, Empty, Common, Sources
  <2>2. CASE x = "dma"
    <3>1. Inputs \/ (Computed /\ SendsOut(at))
      BY <1>1, <1>3, <2>2 DEF Waiting, Idle, Computes, Computed, Armed
    <3>2. CASE Inputs
      <4>1. dmaDone /\ pend \subseteq Sources
        BY <1>3, <2>2 DEF Common
      <4> QED
        BY <1>2, <1>9, <2>2, <3>2, <4>1, ModelModel DEF Inputs, Empty, Common, Sources
    <3>3. CASE Computed /\ SendsOut(at)
      <4>1. /\ Empty /\ pend' = {} /\ dma = "off" /\ Open /\ mask = Status /\ arrived /\ at \in 1 .. L
            /\ dmaCb = OutputCallback
        BY <1>2, <1>3, <1>8, <2>2, <3>3 DEF Computed, Armed, Empty, Common, Sources, ConvLayer
      <4>2. dmaCb = IF at # L THEN "step" ELSE "finish"
        BY <4>1 DEF OutputCallback
      <4>3. at # L => at < L
        BY <4>1, ModelModel DEF Common
      <4> QED
        BY <1>9, <2>2, <4>1, <4>2, <4>3, ModelModel DEF Common
    <3> QED
      BY <3>1, <3>2, <3>3
  <2> QED
    BY <2>1, <2>2 DEF Sources
<1>15. PICK low2 : low2 = stack
  OBVIOUS
<1>11. stack' = Append(low2, FrameOf(x, q, 0, <<>>, 0)')
  <2>1. q \in ModelProgs /\ <<>> \in Seq(Stmts)
    BY <1>9 DEF ModelProgs
  <2>2. Code(q) \in Seq(Stmts)
    BY <2>1, ModelCode
  <2>3. FrameOf(x, q, 0, <<>>, 0) = [src |-> x, todo |-> Code(q), i |-> 0]
    <3>1. Code(q) \o <<>> = Code(q)
      BY <2>2, ConcatEmptySeq
    <3> QED
      BY <2>1, <2>2, <3>1, FrameBegins
  <2>4. Code(q) = IF x = "ai" THEN AiHandler ELSE DmaHandler
    <3>1. CASE x = "ai"
      BY <1>9, <3>1 DEF Code, AiHandler
    <3>2. CASE x = "dma" /\ q = "istep"
      BY <1>10, <3>2 DEF Code, DmaHandler
    <3>3. CASE x = "dma" /\ q = "idone"
      BY <1>10, <3>3 DEF Code, DmaHandler
    <3> QED
      BY <1>9, <3>1, <3>2, <3>3 DEF Sources
  <2> QED
    BY <1>2, <1>5, <1>15, <2>1, <2>3, <2>4
<1>12. ModelShape(low2, x, q, 0, <<>>)'
  <2>1. /\ <<>> \in Seq({"irqOn"}) /\ irqOff' = FALSE /\ x \in {"ai", "dma"}
        /\ q \in {"step", "istep", "idone"}
        /\ (q \in {"istep", "idone"} => x = "dma")
    BY <1>2, <1>4, <1>9 DEF Sources
  <2>2. q \in ModelProgs
    BY <2>1 DEF ModelProgs
  <2>3. Len(Code(q))' \in {1, 2, 5}
    <3>1. Len(Code("step")) = 1 /\ Len(Code("istep")) = 2 /\ Len(Code("idone")) = 5
      BY <1>1, ModelStatement DEF ModelLens
    <3> QED
      BY <1>5, <2>1, <2>2, <3>1
  <2>4. 0 \in 0 .. Len(Code(q))' /\ 0 # Len(Code(q))'
    BY <2>3, FirstOf, Zenon
  <2>5. q # "begin" /\ q # "rest" /\ x # "main"
    BY <2>1
  <2> QED
    BY <1>4, <1>5, <1>11, <1>15, <2>1, <2>2, <2>4, <2>5 DEF ModelShape
<1>13. Working(x, q, 0)'
  <2>1. Empty' /\ pend' = {} /\ dma' = "off" /\ Open' /\ (x = "ai" \/ status' \ mask' = {})
        /\ (dmaDone' => x = "dma") /\ q \in {"step", "istep", "idone"} /\ (x = "dma" => q # "step")
    BY <1>2, <1>9, <1>10 DEF Empty, Open
  <2>2. q = "idone" => AtDone(0, 5)'
    BY <1>2, <1>5, <1>10, <2>1 DEF AtDone
  <2>3. q # "idone" => AtStep'
    BY <1>2, <1>5, <1>10, <2>1 DEF AtStep
  <2> QED
    BY <1>7, <2>1, <2>2, <2>3 DEF Working
<1>14. ModelAt(low2, x, q, 0, <<>>)'
  BY <1>1, <1>2, <1>9, <1>12, <1>13 DEF ModelAt
<1> QED
  BY <1>6, <1>14

-----------------------------------------------------------------------------
(* The invariant of all three interfaces. *)

ModelInv == \E low, s, p, k, r : ModelAt(low, s, p, k, r)

LEMMA ModelInit ==
    ASSUME Init, Kmodel
    PROVE  ModelInv
<1>1. /\ status = {} /\ fifo = <<>> /\ busy = 0 /\ outReady = FALSE
      /\ dma = "off" /\ dmaDone = FALSE /\ pend = {} /\ irqOff = FALSE
      /\ stack = <<MainRests>> /\ flag = 0 /\ at = 0 /\ n = 0 /\ told = 0 /\ computed = <<>>
  BY DEF Init, MainRests
<1>2. ModelShape(<<>>, "main", "rest", 0, Main)
  <2>1. stack = Append(<<>>, FrameOf("main", "rest", 0, Main, 0))
    BY <1>1, ModelRests
  <2>2. Len(Code("rest")) = 0 /\ "rest" \in ModelProgs
    BY ModelCode DEF ModelProgs
  <2> QED
    BY <1>1, <2>1, <2>2 DEF ModelShape
<1>3. Pipe(at) /\ Idle
  <2>1. Len(<<>>) = 0 /\ <<>> \in Seq(Nat)
    BY EmptySeq
  <2> QED
    BY <1>1, <2>1 DEF Pipe, Idle, Open, Empty
<1> QED
  BY <1>1, <1>2, <1>3 DEF ModelAt, ModelInv, Waiting

(* Every step of kpu_run_kmodel. *)
LEMMA ModelStep ==
    ASSUME ~collided', Common, Kmodel, ModelInv, Next
    PROVE  Common' /\ ModelInv'
<1>1. PICK low, s, p, k, r : ModelAt(low, s, p, k, r)
  BY DEF ModelInv
<1>2. ModelStmt(s, p, k, r)
  BY <1>1, ModelStatement DEF ModelAt
<1> SUFFICES Common' /\ \E low2, s2, p2, k2, r2 : ModelAt(low2, s2, p2, k2, r2)'
  BY DEF ModelInv
<1>3. CASE Take
  BY <1>1, <1>3, ModelTake
<1>4. CASE Compute
  BY <1>1, <1>4, ModelCompute
<1>5. CASE Move
  BY <1>1, <1>5, ModelMove
<1>6. CASE Forward
  BY <1>1, <1>6, ModelForward
<1>7. CASE Claim
  BY <1>1, <1>7, ModelClaim
<1>8. CASE SetMask
  BY <1>1, <1>8, ModelSetMask
<1>9. CASE Clear
  BY <1>1, <1>9, ModelClear
<1>10. CASE ClearDma
  BY <1>1, <1>10, ModelClearDma
<1>11. CASE EnableAi
  BY <1>1, <1>11, ModelEnable
<1>12. CASE SwitchIrq
  BY <1>1, <1>12, ModelSwitch
<1>13. CASE Input
  BY <1>1, <1>13, ModelInput
<1>14. CASE Output
  BY <1>1, <1>14, ModelOutput
<1>15. CASE Push \/ PushEnds
  BY <1>2, <1>15 DEF Push, PushEnds, ModelStmt
<1>16. CASE Send
  BY <1>1, <1>16, ModelSend
<1>17. CASE AiStep
  BY <1>1, <1>17, ModelAiStep
<1>18. CASE FreeFlag
  BY <1>2, <1>18 DEF FreeFlag, ModelStmt
<1>19. CASE Tell
  BY <1>1, <1>19, ModelTell
<1>20. CASE CallbackReturns
  BY <1>1, <1>20, ModelReturns
<1>21. CASE Complete
  BY <1>1, <1>21, ModelComplete
<1>22. CASE Call
  BY <1>1, <1>22, ModelCall
<1> QED
  BY <1>3, <1>4, <1>5, <1>6, <1>7, <1>8, <1>9, <1>10, <1>11, <1>12, <1>13, <1>14, <1>15, <1>16, <1>17,
     <1>18, <1>19, <1>20, <1>21, <1>22 DEF Next, Hardware, Statement

IInv == Common /\ (~Kmodel => PlainInv) /\ (Kmodel => ModelInv)

Inv == collided \in BOOLEAN /\ (collided \/ IInv)

LEMMA CommonInit ==
    ASSUME Init
    PROVE  Common
<1>1. /\ api \in Interfaces /\ model \in Models[api] /\ also \in BOOLEAN
      /\ input \in {"dma", "cpu"} /\ (api = "kpu_run" => input = "dma")
  BY DEF Init, Interfaces
<1>2. Counted
  <2>1. Len(<<>>) = 0 /\ Sent(0) = 0
    BY SentMore
  <2> QED
    BY <2>1 DEF Init, Counted
<1> QED
  BY <1>1, <1>2 DEF Init, Common, Status, Sources

LEMMA InvInit == Init => Inv
<1>1. Init => collided = FALSE
  BY DEF Init
<1> QED
  BY <1>1, CommonInit, PlainInit, ModelInit DEF IInv, Inv

LEMMA InvNext ==
    ASSUME ~collided', IInv, [Next]_vars
    PROVE  IInv'
<1>1. CASE Next
  <2>1. api' = api
    BY <1>1 DEF Next, Hardware, Statement, Take, Compute, Move, Forward, Claim, SetMask, Clear,
       ClearDma,
       EnableAi, SwitchIrq, Input, Output, Arm, Push, PushEnds, Send, AiStep, FreeFlag, Tell,
       CallbackReturns, Complete, Call, runVars
  <2>2. CASE Kmodel
    <3>1. Common' /\ ModelInv' /\ Kmodel'
      BY <1>1, <2>1, <2>2, ModelStep DEF IInv, Kmodel
    <3> QED
      BY <3>1 DEF IInv
  <2>3. CASE ~Kmodel
    <3>1. Common' /\ PlainInv' /\ ~Kmodel'
      BY <1>1, <2>1, <2>3, PlainStep DEF IInv, Kmodel
    <3> QED
      BY <3>1 DEF IInv
  <2> QED
    BY <2>2, <2>3
<1>2. CASE UNCHANGED vars
  <2>1. UNCHANGED <<api, model, also, input, status, mask, fifo, busy, outReady, dma, dmaDone, dmaCb,
                    aiEnabled, pend, irqOff, stack, flag, at, n, told, arrived, computed, delivered>>
    BY <1>2 DEF vars, runVars, aiVars, dmaVars, plicVars, taskVars, dataVars
  <2>2. Common' /\ (Kmodel' <=> Kmodel) /\ Main' = Main
    BY <2>1, CountedSame DEF Common, IInv, Kmodel, Main
  <2>3. CASE Kmodel
    <3>1. PICK low, s, p, k, r : ModelAt(low, s, p, k, r)
      BY <2>3 DEF IInv, ModelInv
    <3>2. ModelAt(low, s, p, k, r)'
      <4>1. ModelShape(low, s, p, k, r)'
        BY <2>1, <3>1, ModelShapeSame DEF ModelAt
      <4>2. /\ \A q \in ModelProgs : Code(q)' = Code(q)
            /\ L' = L /\ OutputCallback' = OutputCallback
            /\ \A l : (SendsOut(l)' <=> SendsOut(l)) /\ (ConvLayer(l)' <=> ConvLayer(l))
        BY <2>1, ModelSame DEF OutputCallback, Kmodel
      <4>3. Waiting => Waiting'
        BY <2>1, <4>2 DEF Waiting, Pipe, Idle, Inputs, Computes, Computed, Armed, Open, Empty
      <4>4. Working(s, p, k) => Working(s, p, k)'
        BY <2>1, <4>2 DEF Working, Pipe, AtBegin, AtStep, AtConv, AtDone, Armed, Open, Empty
      <4> QED
        BY <2>1, <3>1, <4>1, <4>3, <4>4 DEF ModelAt
    <3>3. ModelInv'
      BY <3>2 DEF ModelInv
    <3> QED
      BY <2>2, <2>3, <3>3 DEF IInv
  <2>4. CASE ~Kmodel
    <3>1. PICK low, s, p, k, i, j, ii : PlainAt(low, s, p, k, i, j, ii)
      BY <2>4 DEF IInv, PlainInv
    <3>2. PlainAt(low, s, p, k, i, j, ii)'
      <4>1. PlainShape(low, s, p, k, i, j, ii)'
        BY <2>1, <2>4, <3>1, PlainShapeSame DEF PlainAt
      <4>2. PlainData(s, p, k, j, at + i + ii)'
        BY <2>1, <3>1 DEF PlainAt, PlainData, Pipe, SuspendedFacts, ClosedFacts, DmaFacts, AiFacts,
           Quiet,
           Open, L, OutPos, PushPos
      <4> QED
        BY <4>1, <4>2 DEF PlainAt
    <3>3. PlainInv'
      BY <3>2 DEF PlainInv
    <3> QED
      BY <2>2, <2>4, <3>3 DEF IInv
  <2> QED
    BY <2>3, <2>4
<1> QED
  BY <1>1, <1>2

(* A task that began too early is never forgotten. *)
LEMMA CollidedStays ==
    ASSUME collided \in BOOLEAN, [Next]_vars
    PROVE  collided' \in BOOLEAN /\ (collided => collided')
<1>1. CASE Call
  <2>1. collided' = (collided \/ Unfinished)
    BY <1>1 DEF Call
  <2> HIDE DEF Unfinished
  <2> QED
    BY <2>1
<1>2. CASE ~Call
  <2>1. collided' = collided
    BY <1>2 DEF vars, dataVars, Next, Hardware, Statement, Take, Compute, Move, Forward, Claim, SetMask,
       Clear, ClearDma, EnableAi, SwitchIrq, Input, Output, Arm, Push, PushEnds, Send, AiStep, FreeFlag,
       Tell, CallbackReturns, Complete
  <2> QED
    BY <2>1
<1> QED
  BY <1>1, <1>2

LEMMA InvAlways == Spec => []Inv
<1>1. Inv /\ [Next]_vars => Inv'
  BY InvNext, CollidedStays DEF Inv
<1> QED
  BY <1>1, InvInit, PTL DEF Spec

-----------------------------------------------------------------------------
(* The properties. *)

LEMMA SafeNow ==
    ASSUME IInv
    PROVE  InOrder /\ LayerAfterInput /\ OutputArmed
<1>1. PICK m : Pipe(m) /\ (m > 0 => arrived)
  <2>1. CASE Kmodel
    <3>1. PICK low, s, p, k, r : ModelAt(low, s, p, k, r)
      BY <2>1 DEF IInv, ModelInv
    <3>2. CASE p = "rest"
      <4>1. Pipe(at) /\ (at > 0 => arrived)
        BY <3>1, <3>2 DEF ModelAt, Waiting, Idle, Inputs, Computes, Computed
      <4> QED
        BY <4>1
    <3>3. CASE p # "rest"
      <4>1. /\ Pipe(IF p = "conv" THEN at - 1 ELSE at) /\ (p = "begin" => at = 0)
            /\ (p # "begin" => arrived)
        BY <3>1, <3>3 DEF ModelAt, Working, AtBegin, AtStep, AtConv, AtDone
      <4> QED
        BY <4>1
    <3> QED
      BY <3>2, <3>3
  <2>2. CASE ~Kmodel
    BY <2>2 DEF IInv, PlainInv, PlainAt, PlainData
  <2> QED
    BY <2>1, <2>2
<1>2. InOrder
  <2>1. DOMAIN computed = 1 .. Len(computed)
    BY <1>1 DEF Pipe
  <2> QED
    BY <1>1, <2>1 DEF Pipe, InOrder
<1>3. LayerAfterInput
  <2>1. m \in Nat /\ Len(computed) \in Nat /\ Len(computed) <= m
        /\ (busy # 0 \/ fifo # <<>> => Len(computed) < m)
    BY <1>1, PipeNumbers
  <2>2. computed # <<>> => Len(computed) > 0
    BY <1>1, EmptySeq DEF Pipe
  <2> QED
    BY <1>1, <2>1, <2>2 DEF LayerAfterInput
<1>4. OutputArmed
  <2> SUFFICES ASSUME busy # 0, SendsOut(busy) PROVE dma = "out"
    BY DEF OutputArmed
  <2>1. CASE Kmodel
    <3>1. PICK low, s, p, k, r : ModelAt(low, s, p, k, r)
      BY <2>1 DEF IInv, ModelInv
    <3>2. Waiting
      BY <3>1 DEF ModelAt, Working, Empty
    <3>3. Computes /\ busy = at
      BY <3>2, ModelComputes DEF IInv
    <3> QED
      BY <3>3 DEF Computes, Armed
  <2>2. CASE ~Kmodel
    BY <2>2 DEF IInv, PlainInv, PlainAt, PlainData, AiFacts
  <2> QED
    BY <2>1, <2>2
<1> QED
  BY <1>2, <1>3, <1>4

(* A client that is told finds the task done. *)
LEMMA DoneNow ==
    ASSUME IInv, Tell
    PROVE  /\ Len(computed) = L /\ delivered = Sent(L)
           /\ dma = "off" /\ fifo = <<>> /\ busy = 0 /\ flag = 0
<1> SUFFICES /\ Len(computed) = L /\ ~outReady
             /\ dma = "off" /\ fifo = <<>> /\ busy = 0 /\ flag = 0
  BY DEF IInv, Common, Counted
<1>1. CASE Kmodel
  <2>1. PICK low, s, p, k, r : ModelAt(low, s, p, k, r)
    BY <1>1 DEF IInv, ModelInv
  <2>2. (p = "done" /\ k = 2) \/ (p = "idone" /\ k = 3)
    BY <2>1, ModelStatement DEF ModelAt, Tell, ModelStmt
  <2>3. Working(s, p, k) /\ flag = 0
    BY <2>1, <2>2 DEF ModelAt
  <2>4. PICK v : v = at /\ Pipe(v) /\ at = L
    BY <2>2, <2>3 DEF Working, AtDone
  <2>5. Empty /\ dma = "off"
    BY <2>2, <2>3 DEF Working
  <2>6. Len(computed) = v
    BY <2>4, <2>5, PipeNumbers DEF Empty
  <2> QED
    BY <2>3, <2>4, <2>5, <2>6 DEF Empty
<1>2. CASE ~Kmodel
  <2>1. PICK low, s, p, k, i, j, ii : PlainAt(low, s, p, k, i, j, ii)
    BY <1>2 DEF IInv, PlainInv
  <2>2. p = "ends" /\ k = 2
    BY <1>2, <2>1, PlainStatement DEF PlainAt, Tell, PlainStmt
  <2>3. Len(computed) = L => busy = 0 /\ fifo = <<>>
    BY <1>2, <2>1, PlainNumbers DEF IInv
  <2>4. PICK w : ClosedFacts(p, k, j) /\ DmaFacts(s, p, k, w)
    BY <2>1 DEF PlainAt, PlainData
  <2>5. Len(computed) = L /\ dma = "off" /\ ~outReady
    BY <2>2, <2>4 DEF DmaFacts
  <2>6. flag = 0
    BY <2>2, <2>4 DEF ClosedFacts
  <2> QED
    BY <2>3, <2>5, <2>6
<1> QED
  BY <1>1, <1>2

(* The layers of a task are computed each once and in their order, in any  *)
(* network and with bursts of any size, although main, the DMA's handler   *)
(* and AI handlers that preempt it write the queue (kpu_config_input,      *)
(* kpu_continue, ai_step).                                                 *)
THEOREM InOrderSafe == Spec => []InOrder
<1>1. Inv => InOrder
  BY SafeNow DEF Inv, InOrder
<1> QED
  BY <1>1, InvAlways, PTL

(* No layer is given to the accelerator, or computed by the core, before   *)
(* the input of its task is in the KPU's memory.                           *)
THEOREM LayerAfterInputSafe == Spec => []LayerAfterInput
<1>1. Inv => LayerAfterInput
  BY SafeNow DEF Inv, LayerAfterInput
<1> QED
  BY <1>1, InvAlways, PTL

(* A layer that sends its result to memory is computed with the channel    *)
(* set up for it, although the channel brought the input before            *)
(* (kpu_data_output, kpu_run_dma_output, kpu_conv).                        *)
THEOREM OutputArmedSafe == Spec => []OutputArmed
<1>1. Inv => OutputArmed
  BY SafeNow DEF Inv, OutputArmed
<1> QED
  BY <1>1, InvAlways, PTL

(* A client is called back only when all layers are computed, every result *)
(* is in memory, the channel and the accelerator are idle, and the flag of *)
(* its interface is free for its next task.                                *)
THEOREM ToldSafe == Spec => ToldWhenDone
<1>1. ASSUME Inv, [Next]_vars
      PROVE  [told' # told /\ ~collided => /\ Len(computed) = L
                              /\ delivered = Cardinality({l \in 1 .. L : SendsOut(l)})
                              /\ dma = "off" /\ fifo = <<>> /\ busy = 0 /\ flag = 0]_vars
  <2>1. told' # told => Tell
    BY <1>1 DEF vars, taskVars, Next, Hardware, Statement, Take, Compute, Move, Forward, Claim, SetMask,
       Clear, ClearDma, EnableAi, SwitchIrq, Input, Output, Arm, Push, PushEnds, Send, AiStep, FreeFlag,
       CallbackReturns, Complete, Call
  <2> QED
    BY <1>1, <2>1, DoneNow DEF Sent, Inv
<1> QED
  BY <1>1, InvAlways, PTL DEF Spec, ToldWhenDone

-----------------------------------------------------------------------------
(* Types. *)

Ranges ==
    /\ dmaCb \in {"ready", "step", "done", "finish"} /\ dma \in {"off", "in", "out"}
    /\ flag \in 0 .. 1 /\ n \in 0 .. MaxTasks /\ at \in 0 .. L

LEMMA RangesNext ==
    ASSUME IInv, Ranges, Next
    PROVE  Ranges'
<1>1. MaxTasks \in Nat /\ L \in Nat /\ L > 0 /\ model' = model
  <2>1. model' = model
    BY DEF Next, Hardware, Statement, Take, Compute, Move, Forward, Claim, SetMask, Clear, ClearDma,
       EnableAi, SwitchIrq, Input, Output, Arm, Push, PushEnds, Send, AiStep, FreeFlag, Tell,
       CallbackReturns, Complete, Call, runVars
  <2>2. L \in Nat /\ L > 0
    BY PlainModel, ModelModel DEF IInv
  <2> QED
    BY <2>1, <2>2, BoundAssumption
<1>2. L' = L
  BY <1>1 DEF L
<1>3. CASE Take \/ Compute \/ Forward \/ Claim \/ SetMask \/ Clear \/ ClearDma \/ EnableAi \/ SwitchIrq
           \/ Push \/ Send \/ Tell \/ CallbackReturns \/ Complete
  <2>1. UNCHANGED <<dma, dmaCb, flag, n, at>>
    BY <1>3 DEF Take, Compute, Forward, Claim, SetMask, Clear, ClearDma, EnableAi, SwitchIrq, Push,
       Send,
       Tell, CallbackReturns, Complete, dmaVars, taskVars
  <2> QED
    BY <1>2, <2>1 DEF Ranges
<1>4. CASE Move
  BY <1>2, <1>4 DEF Ranges, Move, taskVars
<1>5. CASE Input \/ Output
  <2>1. /\ UNCHANGED <<flag, n, at>> /\ dma' \in {"in", "out"}
        /\ dmaCb' \in {"ready", "step", "done", "finish"}
    BY <1>5 DEF Input, Output, Arm, OutputCallback, taskVars
  <2> QED
    BY <1>2, <2>1 DEF Ranges
<1>6. CASE PushEnds
  <2>1. UNCHANGED <<dma, dmaCb, flag, n>> /\ at' = at + Frame.i /\ At("push")
    BY <1>6 DEF PushEnds, dmaVars
  <2>2. ~Kmodel
    <3> SUFFICES ASSUME Kmodel PROVE FALSE
      OBVIOUS
    <3>1. PICK low, s, p, k, r : ModelAt(low, s, p, k, r)
      BY DEF IInv, ModelInv
    <3>2. ModelStmt(s, p, k, r)
      BY <3>1, ModelStatement DEF ModelAt
    <3> QED
      BY <2>1, <3>2 DEF ModelStmt
  <2>3. PICK low, s, p, k, i, j, ii : PlainAt(low, s, p, k, i, j, ii)
    BY <2>2 DEF IInv, PlainInv
  <2>4. PlainNow(low, s, p, k, i)
    BY <2>2, <2>3, PlainFrame DEF PlainAt
  <2>5. Frame.i = i
    BY <2>4 DEF PlainNow
  <2>6. at \in Nat /\ i \in Nat /\ ii \in Nat /\ at + i + ii <= L
    BY <2>2, <2>3, PlainNumbers DEF IInv
  <2>7. at' \in 0 .. L
    BY <1>1, <2>1, <2>5, <2>6
  <2> QED
    BY <1>2, <2>1, <2>7 DEF Ranges
<1>7. CASE AiStep
  <2>1. UNCHANGED <<dma, dmaCb, flag, n>> /\ at' = at + 1 /\ at < L
    BY <1>7 DEF AiStep, dmaVars
  <2>2. at' \in 0 .. L
    BY <1>1, <2>1 DEF Ranges
  <2> QED
    BY <1>2, <2>1, <2>2 DEF Ranges
<1>8. CASE FreeFlag
  BY <1>2, <1>8 DEF Ranges, FreeFlag, dmaVars
<1>9. CASE Call
  <2>1. UNCHANGED <<dma, dmaCb>> /\ at' = 0 /\ flag' \in {flag, 1} /\ n < MaxTasks /\ n' = n + 1
    BY <1>9 DEF Call, dmaVars
  <2>2. n' \in 0 .. MaxTasks /\ at' \in 0 .. L
    BY <1>1, <2>1 DEF Ranges
  <2> QED
    BY <1>2, <2>1, <2>2 DEF Ranges
<1> QED
  BY <1>3, <1>4, <1>5, <1>6, <1>7, <1>8, <1>9 DEF Next, Hardware, Statement

LEMMA PipeTypes ==
    ASSUME NEW m, Pipe(m), L \in Nat, m <= L
    PROVE  fifo \in Seq(1 .. L) /\ busy \in 0 .. L /\ computed \in Seq(1 .. L) /\ Len(computed) \in 0 .. L
<1>1. m \in Nat /\ Len(computed) \in Nat /\ Len(computed) <= m
      /\ (busy # 0 => busy = Len(computed) + 1 /\ Len(computed) < m)
  BY PipeNumbers
<1>2. PICK c, d : c = Len(computed) /\ d = Len(fifo)
  OBVIOUS
<1>3. /\ c \in Nat /\ c <= L /\ d \in Nat /\ d <= m
      /\ \A j \in 1 .. c : computed[j] = j
      /\ \A j \in 1 .. d : fifo[j] = m - d + j
  BY <1>1, <1>2 DEF Pipe
<1>4. (\A j \in 1 .. c : computed[j] \in 1 .. L) /\ (\A j \in 1 .. d : fifo[j] \in 1 .. L)
  <2>1. \A j \in 1 .. c : computed[j] \in 1 .. L
    BY <1>3
  <2>2. \A j \in 1 .. d : m - d + j \in 1 .. L
    BY <1>1, <1>3
  <2> QED
    BY <1>3, <2>1, <2>2
<1>5. computed \in Seq(1 .. L)
  <2>1. computed \in Seq(Nat) /\ \A j \in 1 .. Len(computed) : computed[j] \in 1 .. L
    BY <1>2, <1>4 DEF Pipe
  <2> QED
    BY <2>1
<1>6. fifo \in Seq(1 .. L)
  <2>1. fifo \in Seq(Nat) /\ \A j \in 1 .. Len(fifo) : fifo[j] \in 1 .. L
    BY <1>2, <1>4 DEF Pipe
  <2> QED
    BY <2>1
<1> QED
  BY <1>1, <1>2, <1>3, <1>5, <1>6

(* What the invariant says of the types. *)
LEMMA TypesNow ==
    ASSUME IInv, Ranges, collided \in BOOLEAN
    PROVE  TypeOK
<1>1. L \in Nat
  BY PlainModel, ModelModel DEF IInv
<1>2. PICK m : Pipe(m) /\ m <= L
  <2>1. CASE Kmodel
    <3>1. PICK low, s, p, k, r : ModelAt(low, s, p, k, r)
      BY <2>1 DEF IInv, ModelInv
    <3>2. at \in Nat /\ at <= L /\ at - 1 <= L
      BY <1>1 DEF Ranges
    <3> QED
      BY <3>1, <3>2 DEF ModelAt, Waiting, Working
  <2>2. CASE ~Kmodel
    BY <2>2 DEF IInv, PlainInv, PlainAt, PlainData
  <2> QED
    BY <2>1, <2>2
<1>3. fifo \in Seq(1 .. L) /\ busy \in 0 .. L /\ computed \in Seq(1 .. L) /\ Len(computed) \in 0 .. L
  BY <1>1, <1>2, PipeTypes
<1>4. delivered \in 0 .. L
  <2>1. PICK c : c = Len(computed)
    OBVIOUS
  <2>2. c \in Nat /\ c <= L
    BY <1>1, <1>3, <2>1
  <2>3. Sent(c) <= c
    <3> DEFINE T == {l \in 1 .. c : SendsOut(l)}
    <3>1. IsFiniteSet(1 .. c) /\ Cardinality(1 .. c) = c
      BY <2>2, FS_Interval
    <3>2. T \subseteq 1 .. c
      OBVIOUS
    <3>3. Cardinality(T) <= Cardinality(1 .. c)
      BY <3>1, <3>2, FS_Subset
    <3> QED
      BY <3>1, <3>3 DEF Sent
  <2>4. Sent(c) \in Nat
    BY <2>2, SentMore
  <2>5. delivered \in Nat /\ delivered <= Sent(c)
    BY <2>1, <2>4 DEF IInv, Common, Counted
  <2> QED
    BY <1>1, <2>2, <2>3, <2>4, <2>5
<1>5. InService \subseteq Sources \cup {"main"}
  <2>1. stack \in Seq(Frames)
    <3>1. CASE Kmodel
      <4>1. PICK low, s, p, k, r : ModelNow(low, s, p, k, r)
        BY <3>1, ModelFrame DEF IInv, ModelInv, ModelAt
      <4> QED
        BY <4>1, TopOf DEF ModelNow
    <3>2. CASE ~Kmodel
      <4>1. PICK low, s, p, k, i : PlainNow(low, s, p, k, i)
        BY <3>2, PlainFrame DEF IInv, PlainInv, PlainAt
      <4> QED
        BY <4>1, TopOf DEF PlainNow
    <3> QED
      BY <3>1, <3>2
  <2>2. \A l \in DOMAIN stack : stack[l] \in Frames
    BY <2>1
  <2> QED
    BY <2>2 DEF InService, Frames
<1>6. told \in 0 .. n
  BY DEF IInv, Common
<1> QED
  BY <1>3, <1>4, <1>5, <1>6 DEF TypeOK, IInv, Common, Ranges

(* The variables of the driver, the accelerator and the channel keep their *)
(* types: layers stay within the network, no more results are delivered    *)
(* than there are layers, and no client is told of a task not started.     *)
THEOREM TypeCorrect == Spec => [](collided \/ TypeOK)
<1>1. Init => Ranges
  <2>1. Init => L \in Nat
    BY CommonInit, PlainModel, ModelModel
  <2> QED
    BY <2>1, BoundAssumption DEF Init, Ranges
<1>2. Inv /\ (collided \/ Ranges) /\ [Next]_vars => (collided \/ Ranges)'
  <2>1. UNCHANGED vars /\ Ranges => Ranges'
    BY DEF Ranges, vars, runVars, dmaVars, taskVars, L
  <2> QED
    BY <2>1, RangesNext, CollidedStays DEF Inv
<1>3. Inv /\ (collided \/ Ranges) => collided \/ TypeOK
  BY TypesNow DEF Inv
<1> QED
  BY <1>1, <1>2, <1>3, InvAlways, PTL DEF Spec
====
