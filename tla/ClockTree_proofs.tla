-------------------------- MODULE ClockTree_proofs --------------------------
(***************************************************************************)
(* Proofs about ClockTree, for any number of harts and of calls, any       *)
(* frequencies, and harts that disturb each other's words as they may:     *)
(* what is proved of a field is that it is right unless it is disputed.    *)
(*                                                                         *)
(* The programs are sequences of loads, stores and waits.  The argument is *)
(* about what the rest of a program still does to a field: it sets it to a *)
(* value last of all (Leaves) or never (Spares), and it stores no word     *)
(* that it has not read since the word last changed (Covered).  These hold *)
(* of a whole program because they hold of the parts it is put together    *)
(* from, and they pass from a program to its tail with every step.         *)
(***************************************************************************)
EXTENDS ClockTree, SequenceTheorems, TLAPS

-----------------------------------------------------------------------------
(* The steps programs are made of. *)
Divs == {FastDiv[p] : p \in Plls} \cup {<<Found[f].nr, Found[f].nf, Found[f].no>> : f \in AskedFreqs}
AllFields ==
    {<<>>} \cup {[div |-> d] : d \in Divs}
    \cup {[aclk_sel |-> v] : v \in 0..1} \cup {[aclk_divider |-> v] : v \in 0..1}
    \cup {[spi3 |-> v] : v \in 0..1} \cup {[sel |-> v] : v \in 0..1}
    \cup {[out_en |-> v] : v \in 0..1} \cup {[pwrd |-> v] : v \in 0..1} \cup {[reset |-> v] : v \in 0..1}
    \cup {Only(g, v) : g \in {"apb0", "apb1", "i2c0", "aes", "uart3"}, v \in 0..1}
Steps ==
    {Load(w) : w \in Words} \cup {[do |-> "wait", word |-> w] : w \in Words}
    \cup {s \in {Store(w, f) : w \in Words, f \in AllFields} : DOMAIN s.fields \subseteq DOMAIN Reset[s.word]}

Fields(w) == DOMAIN Reset[w]
Word(w, r) == r = [g \in Fields(w) |-> r[g]]

(* What a step s does to field g of word w. *)

Loads(s, w) == s.do = "load" /\ s.word = w
Stores(s, w) == s.do = "store" /\ s.word = w
Sets(s, w, g) == Stores(s, w) /\ g \in DOMAIN s.fields
Puts(s, w, g, v) == Sets(s, w, g) /\ s.fields[g] = v
Awaits(s, p) == s.do = "wait" /\ s.word = p

(* What a program t does: it does not set the field, it leaves it with the *)
(* value v, and every store is of a word in C, not stored before, or of a  *)
(* word that has been loaded since the last store of it.                   *)
Spares(t, w, g) == \A i \in 1 .. Len(t) : ~Sets(t[i], w, g)
Leaves(t, w, g, v) ==
    \E i \in 1 .. Len(t) :
        Puts(t[i], w, g, v) /\ \A j \in i + 1 .. Len(t) : ~Sets(t[j], w, g)
Covered(t, C) ==
    \A i \in 1 .. Len(t) : t[i].do = "store" =>
        \/ t[i].word \in C /\ \A k \in 1 .. i - 1 : ~Stores(t[k], t[i].word)
        \/ \E j \in 1 .. i - 1 :
              Loads(t[j], t[i].word) /\ \A k \in j + 1 .. i - 1 : ~Stores(t[k], t[i].word)

(* The CPU goes onto PLL0 after the last step that touches or awaits PLL0, *)
(* and off it before PLL0 is touched; the lock is awaited before it goes.  *)
Alters(s) == \E g \in Fields("pll0") : Sets(s, "pll0", g)
Unlocks(s) == \E g \in {"pwrd", "reset", "div"} : Sets(s, "pll0", g)
Enters(s) == Puts(s, "clk_sel0", "aclk_sel", 1)
Calm(t) == \A i \in 1 .. Len(t) : ~Alters(t[i]) /\ ~Awaits(t[i], "pll0")
EntersLast(t) ==
    \A i \in 1 .. Len(t) : Enters(t[i]) =>
        \A j \in i + 1 .. Len(t) : ~Alters(t[j]) /\ ~Awaits(t[j], "pll0")
Quits(s) == Puts(s, "clk_sel0", "aclk_sel", 0)
Steady(t) == \A i \in 1 .. Len(t) : ~Unlocks(t[i])
AwaitsLock(t) ==
    \E i \in 1 .. Len(t) : Awaits(t[i], "pll0") /\ \A j \in i + 1 .. Len(t) : ~Unlocks(t[j])
QuitsFirst(t) ==
    \A i \in 1 .. Len(t) : Alters(t[i]) => \E j \in 1 .. i - 1 : Quits(t[j])
Going(t) == \E i \in 1 .. Len(t) : Enters(t[i])
Touches(t) == \E i \in 1 .. Len(t) : Alters(t[i])

(* The program t leaves in every field what the call c means it to hold,   *)
(* and the fields that are not the call's alone.                           *)
Does(t, c) ==
    \A w \in Words : \A g \in Fields(w) :
        IF Means(c, w, g) THEN Leaves(t, w, g, Effect(c)[w][g]) ELSE Spares(t, w, g)

Types ==
    /\ reg = [w \in Words |-> reg[w]] /\ asked = [w \in Words |-> asked[w]]
    /\ \A w \in Words : Word(w, reg[w]) /\ Word(w, asked[w])
    /\ locked \in [Plls -> BOOLEAN] /\ slip \in [Plls -> BOOLEAN]
    /\ call \in [Harts -> {None} \cup Calls]
    /\ todo \in [Harts -> Seq(Steps)]
    /\ copy = [h \in Harts |-> copy[h]] /\ stale = [h \in Harts |-> stale[h]]
    /\ \A h \in Harts :
        /\ stale[h] \subseteq DOMAIN copy[h] /\ DOMAIN copy[h] \subseteq Words
        /\ \A w \in DOMAIN copy[h] : Word(w, copy[h][w])
        /\ call[h] = None => todo[h] = <<>> /\ copy[h] = <<>>
    /\ \A d \in disputed : \E w \in Words : \E g \in Fields(w) : d = <<w, g>>
    /\ freq \in [Plls -> {0} \cup AskedFreqs] /\ calls \in 0 .. MaxCalls

(* Two calls that set a field at once make it disputed. *)
Alone ==
    \A g, h \in Harts : g # h =>
        \A w, f : Means(call[g], w, f) /\ Means(call[h], w, f) => <<w, f>> \in disputed

Clear == disputed \cap CpuFields = {}

(* A call that moves the CPU leaves PLL0 running and the CPU on it. *)
CpuMeant(c) ==
    /\ Means(c, "clk_sel0", "aclk_sel")
    /\ \A g \in {"pwrd", "reset", "out_en"} : Means(c, "pll0", g)
    /\ Effect(c)["pll0"]["pwrd"] = 1 /\ Effect(c)["pll0"]["reset"] = 0
    /\ Effect(c)["pll0"]["out_en"] = 1

(* What the rest of a hart's call still does, whatever the others do: it   *)
(* stores only words that were read and that only another hart has changed *)
(* since, it sets the fields its call means, each to what the call means   *)
(* last of all unless that is done already, it goes to a PLL0 that will    *)
(* run and be locked, and changes PLL0 with the CPU off it.                *)
Fresh(h) == {w \in DOMAIN copy[h] : w \in stale[h] \/ copy[h][w] = reg[w]}
Read(h) == Covered(todo[h], Fresh(h))
Settling(h) ==
    \A w \in Words : \A g \in Fields(w) :
        /\ ~Means(call[h], w, g) => Spares(todo[h], w, g)
        /\ Means(call[h], w, g) /\ <<w, g>> \notin disputed =>
            \/ Leaves(todo[h], w, g, Effect(call[h])[w][g])
            \/ Spares(todo[h], w, g) /\ reg[w][g] = Effect(call[h])[w][g]
Entering(h) ==
    /\ EntersLast(todo[h])
    /\ Going(todo[h]) =>
         /\ CpuMeant(call[h])
         /\ Clear => AwaitsLock(todo[h]) \/ (Steady(todo[h]) /\ locked["pll0"])
Quitting(h) ==
    Touches(todo[h]) =>
        /\ CpuMeant(call[h])
        /\ Clear => QuitsFirst(todo[h]) \/ reg["clk_sel0"].aclk_sel # 1
Own(h) == Read(h) /\ Settling(h) /\ Entering(h) /\ Quitting(h)

IInv == Types /\ Alone /\ (\A h \in Harts : Own(h)) /\ CpuClocked /\ SettledAsAsked

-----------------------------------------------------------------------------
(* Programs put together, and programs one step on. *)

LEMMA Concat ==
    ASSUME NEW a \in Seq(Steps), NEW b \in Seq(Steps)
    PROVE  /\ a \o b \in Seq(Steps) /\ Len(a) \in Nat /\ Len(b) \in Nat
           /\ Len(a \o b) = Len(a) + Len(b)
           /\ \A i \in 1 .. Len(a) : i \in 1 .. Len(a \o b) /\ (a \o b)[i] = a[i]
           /\ \A i \in 1 .. Len(b) : Len(a) + i \in 1 .. Len(a \o b) /\ (a \o b)[Len(a) + i] = b[i]
           /\ \A k \in 1 .. Len(a \o b) :
                 \/ k \in 1 .. Len(a) /\ (a \o b)[k] = a[k]
                 \/ \E i \in 1 .. Len(b) : k = Len(a) + i /\ (a \o b)[k] = b[i]
<1>1. a \o b \in Seq(Steps) /\ Len(a) \in Nat /\ Len(b) \in Nat /\ Len(a \o b) = Len(a) + Len(b)
  BY ConcatProperties, LenProperties
<1>2. \A i \in 1 .. Len(a) + Len(b) :
         (a \o b)[i] = IF i <= Len(a) THEN a[i] ELSE b[i - Len(a)]
  BY ConcatProperties
<1>3. \A i \in 1 .. Len(a) : i \in 1 .. Len(a \o b) /\ (a \o b)[i] = a[i]
  BY <1>1, <1>2
<1>4. \A i \in 1 .. Len(b) : Len(a) + i \in 1 .. Len(a \o b) /\ (a \o b)[Len(a) + i] = b[i]
  <2> TAKE i \in 1 .. Len(b)
  <2>1. Len(a) + i \in 1 .. Len(a) + Len(b) /\ ~(Len(a) + i <= Len(a)) /\ (Len(a) + i) - Len(a) = i
    BY <1>1
  <2> QED
    BY <1>1, <1>2, <2>1
<1>5. ASSUME NEW k \in 1 .. Len(a \o b)
      PROVE  \/ k \in 1 .. Len(a) /\ (a \o b)[k] = a[k]
             \/ \E i \in 1 .. Len(b) : k = Len(a) + i /\ (a \o b)[k] = b[i]
  <2>1. CASE k <= Len(a)
    BY <2>1, <1>1, <1>2
  <2>2. CASE ~(k <= Len(a))
    <3>1. k - Len(a) \in 1 .. Len(b) /\ k = Len(a) + (k - Len(a)) /\ (a \o b)[k] = b[k - Len(a)]
      BY <2>2, <1>1, <1>2
    <3> QED
      BY <3>1
  <2> QED
    BY <2>1, <2>2
<1> QED
  BY <1>1, <1>3, <1>4, <1>5

LEMMA SparesConcat ==
    \A a, b \in Seq(Steps) : \A w, g :
        Spares(a, w, g) /\ Spares(b, w, g) => Spares(a \o b, w, g)
  BY Concat DEF Spares

LEMMA LeavesConcat ==
    \A a, b \in Seq(Steps) : \A w, g, v :
        /\ Leaves(b, w, g, v) => Leaves(a \o b, w, g, v)
        /\ Leaves(a, w, g, v) /\ Spares(b, w, g) => Leaves(a \o b, w, g, v)
<1> TAKE a, b \in Seq(Steps)
<1> TAKE w, g, v
<1> DEFINE t == a \o b
<1>1. ASSUME Leaves(b, w, g, v) PROVE Leaves(t, w, g, v)
  <2>1. PICK i \in 1 .. Len(b) :
           Puts(b[i], w, g, v) /\ \A j \in i + 1 .. Len(b) : ~Sets(b[j], w, g)
    BY <1>1 DEF Leaves
  <2>2. Len(a) + i \in 1 .. Len(t) /\ Puts(t[Len(a) + i], w, g, v)
    BY <2>1, Concat
  <2>3. ASSUME NEW k \in (Len(a) + i) + 1 .. Len(t) PROVE ~Sets(t[k], w, g)
    <3>1. k \in 1 .. Len(t) /\ k \notin 1 .. Len(a)
      BY Concat
    <3>2. PICK j \in 1 .. Len(b) : k = Len(a) + j /\ t[k] = b[j]
      BY <3>1, Concat
    <3>3. j \in i + 1 .. Len(b)
      BY <3>2, Concat
    <3> QED
      BY <2>1, <3>2, <3>3
  <2> QED
    BY <2>2, <2>3 DEF Leaves
<1>2. ASSUME Leaves(a, w, g, v), Spares(b, w, g) PROVE Leaves(t, w, g, v)
  <2>1. PICK i \in 1 .. Len(a) :
           Puts(a[i], w, g, v) /\ \A j \in i + 1 .. Len(a) : ~Sets(a[j], w, g)
    BY <1>2 DEF Leaves
  <2>2. i \in 1 .. Len(t) /\ Puts(t[i], w, g, v)
    BY <2>1, Concat
  <2>3. ASSUME NEW k \in i + 1 .. Len(t) PROVE ~Sets(t[k], w, g)
    <3>1. k \in 1 .. Len(t)
      BY Concat
    <3>2. CASE k \in 1 .. Len(a) /\ t[k] = a[k]
      BY <2>1, <3>2, Concat
    <3>3. CASE \E j \in 1 .. Len(b) : k = Len(a) + j /\ t[k] = b[j]
      BY <1>2, <3>3 DEF Spares
    <3> QED
      BY <3>1, <3>2, <3>3, Concat
  <2> QED
    BY <2>2, <2>3 DEF Leaves
<1> QED
  BY <1>1, <1>2

LEMMA CoveredConcat ==
    \A a, b \in Seq(Steps) : Covered(a, {}) /\ Covered(b, {}) => Covered(a \o b, {})
<1> SUFFICES ASSUME NEW a \in Seq(Steps), NEW b \in Seq(Steps), Covered(a, {}), Covered(b, {}),
                    NEW k \in 1 .. Len(a \o b), (a \o b)[k].do = "store"
             PROVE  \E j \in 1 .. k - 1 :
                       /\ Loads((a \o b)[j], (a \o b)[k].word)
                       /\ \A l \in j + 1 .. k - 1 : ~Stores((a \o b)[l], (a \o b)[k].word)
  BY ZenonT(30) DEF Covered
<1>1. CASE k \in 1 .. Len(a) /\ (a \o b)[k] = a[k]
  <2>1. PICK j \in 1 .. k - 1 :
           Loads(a[j], a[k].word) /\ \A l \in j + 1 .. k - 1 : ~Stores(a[l], a[k].word)
    BY <1>1 DEF Covered
  <2>2. k \in Nat /\ \A l \in 1 .. k - 1 : (a \o b)[l] = a[l]
    BY <1>1, Concat
  <2>3. \A l \in j + 1 .. k - 1 : l \in 1 .. k - 1
    BY <2>2
  <2>4. Loads((a \o b)[j], a[k].word) /\ \A l \in j + 1 .. k - 1 : ~Stores((a \o b)[l], a[k].word)
    BY <2>1, <2>2, <2>3
  <2> QED
    BY <1>1, <2>4
<1>2. ASSUME NEW i \in 1 .. Len(b), k = Len(a) + i, (a \o b)[k] = b[i]
      PROVE  \E j \in 1 .. k - 1 :
                       /\ Loads((a \o b)[j], (a \o b)[k].word)
                       /\ \A l \in j + 1 .. k - 1 : ~Stores((a \o b)[l], (a \o b)[k].word)
  <2>1. PICK j \in 1 .. i - 1 :
           Loads(b[j], b[i].word) /\ \A l \in j + 1 .. i - 1 : ~Stores(b[l], b[i].word)
    BY <1>2 DEF Covered
  <2>2. Len(a) + j \in 1 .. k - 1 /\ (a \o b)[Len(a) + j] = b[j]
    BY <1>2, <2>1, Concat
  <2>3. ASSUME NEW l \in (Len(a) + j) + 1 .. k - 1 PROVE ~Stores((a \o b)[l], (a \o b)[k].word)
    <3>1. l \in 1 .. Len(a \o b) /\ l \notin 1 .. Len(a)
      <4>1. k \in Nat /\ k <= Len(a \o b) /\ Len(a) + j \in Nat /\ Len(a) + j > Len(a)
        <5>1. Len(a) \in Nat /\ Len(b) \in Nat /\ Len(a \o b) = Len(a) + Len(b)
          BY Concat
        <5> QED
          BY <5>1, <2>1
      <4> QED
        BY <4>1
    <3>2. PICK m \in 1 .. Len(b) : l = Len(a) + m /\ (a \o b)[l] = b[m]
      BY <3>1, Concat
    <3>3. m \in j + 1 .. i - 1
      BY <3>2, <1>2, Concat
    <3> QED
      BY <2>1, <3>2, <3>3, <1>2
  <2> QED
    BY <1>2, <2>1, <2>2, <2>3
<1>3. \/ k \in 1 .. Len(a) /\ (a \o b)[k] = a[k]
      \/ \E i \in 1 .. Len(b) : k = Len(a) + i /\ (a \o b)[k] = b[i]
  BY Concat
<1> QED
  BY <1>1, <1>2, <1>3

(* One step on. *)
LEMMA Ahead ==
    ASSUME NEW t \in Seq(Steps), t # <<>>
    PROVE  /\ Head(t) = t[1] /\ t[1] \in Steps /\ Len(t) \in Nat /\ 1 \in 1 .. Len(t)
           /\ Tail(t) \in Seq(Steps) /\ Len(Tail(t)) = Len(t) - 1
           /\ \A i \in 1 .. Len(Tail(t)) : i + 1 \in 1 .. Len(t) /\ Tail(t)[i] = t[i + 1]
           /\ \A i \in 1 .. Len(t) : i = 1 \/ (i - 1 \in 1 .. Len(Tail(t)) /\ Tail(t)[i - 1] = t[i])
  BY HeadTailProperties, LenProperties, EmptySeq, ElementOfSeq

LEMMA SparesTail ==
    ASSUME NEW t \in Seq(Steps), t # <<>>, NEW w, NEW g
    PROVE  /\ Spares(t, w, g) => ~Sets(Head(t), w, g) /\ Spares(Tail(t), w, g)
           /\ Spares(Tail(t), w, g) /\ ~Sets(Head(t), w, g) => Spares(t, w, g)
<1>1. Spares(t, w, g) => ~Sets(Head(t), w, g) /\ Spares(Tail(t), w, g)
  BY Ahead DEF Spares
<1>2. ASSUME Spares(Tail(t), w, g), ~Sets(Head(t), w, g), NEW i \in 1 .. Len(t)
      PROVE  ~Sets(t[i], w, g)
  BY <1>2, Ahead DEF Spares
<1> QED
  BY <1>1, <1>2 DEF Spares

LEMMA LeavesTail ==
    ASSUME NEW t \in Seq(Steps), t # <<>>, NEW w, NEW g, NEW v, Leaves(t, w, g, v)
    PROVE  Leaves(Tail(t), w, g, v) \/ (Puts(Head(t), w, g, v) /\ Spares(Tail(t), w, g))
<1>1. PICK i \in 1 .. Len(t) :
         Puts(t[i], w, g, v) /\ \A j \in i + 1 .. Len(t) : ~Sets(t[j], w, g)
  BY DEF Leaves
<1>2. \A k \in i .. Len(Tail(t)) : ~Sets(Tail(t)[k], w, g)
  BY <1>1, Ahead
<1>3. CASE i = 1
  BY <1>1, <1>2, <1>3, Ahead DEF Spares
<1>4. CASE i # 1
  <2>1. i - 1 \in 1 .. Len(Tail(t)) /\ Tail(t)[i - 1] = t[i]
    BY <1>4, Ahead
  <2>2. (i - 1) + 1 = i
    OBVIOUS
  <2>3. \A j \in (i - 1) + 1 .. Len(Tail(t)) : ~Sets(Tail(t)[j], w, g)
    BY <1>2, <2>2
  <2> QED
    BY <1>1, <2>1, <2>3 DEF Leaves
<1> QED
  BY <1>3, <1>4

LEMMA CoveredTail ==
    ASSUME NEW t \in Seq(Steps), t # <<>>, NEW C, Covered(t, C), NEW D,
           \A w : Loads(Head(t), w) => w \in D,
           \A w \in C : Stores(Head(t), w) \/ w \in D
    PROVE  /\ Covered(Tail(t), D)
           /\ Head(t).do = "store" => Head(t).word \in C
<1>1. Head(t).do = "store" => Head(t).word \in C
  BY Ahead DEF Covered
<1>2. ASSUME NEW i \in 1 .. Len(Tail(t)), Tail(t)[i].do = "store"
      PROVE  \/ Tail(t)[i].word \in D /\ \A k \in 1 .. i - 1 : ~Stores(Tail(t)[k], Tail(t)[i].word)
             \/ \E j \in 1 .. i - 1 :
                   /\ Loads(Tail(t)[j], Tail(t)[i].word)
                   /\ \A k \in j + 1 .. i - 1 : ~Stores(Tail(t)[k], Tail(t)[i].word)
  <2> DEFINE w == Tail(t)[i].word
  <2>1. i \in Nat /\ i >= 1 /\ i + 1 \in 1 .. Len(t) /\ t[i + 1] = Tail(t)[i]
    BY <1>2, Ahead
  <2>2. \A k \in 1 .. i - 1 : k \in 1 .. Len(Tail(t)) /\ Tail(t)[k] = t[k + 1]
    BY <2>1, Ahead
  <2>3. CASE w \in C /\ \A k \in 1 .. (i + 1) - 1 : ~Stores(t[k], w)
    <3>1. ~Stores(Head(t), w)
      BY <2>1, <2>3, Ahead
    <3>2. \A k \in 1 .. i - 1 : k + 1 \in 1 .. (i + 1) - 1
      BY <2>1
    <3>3. \A k \in 1 .. i - 1 : ~Stores(Tail(t)[k], w)
      BY <2>2, <2>3, <3>2
    <3> QED
      BY <2>3, <3>1, <3>3
  <2>4. ASSUME NEW j \in 1 .. (i + 1) - 1, Loads(t[j], w), \A k \in j + 1 .. (i + 1) - 1 : ~Stores(t[k], w)
        PROVE  \/ w \in D /\ \A k \in 1 .. i - 1 : ~Stores(Tail(t)[k], w)
               \/ \E l \in 1 .. i - 1 :
                     Loads(Tail(t)[l], w) /\ \A k \in l + 1 .. i - 1 : ~Stores(Tail(t)[k], w)
    <3>1. \A k \in j .. i - 1 : k \in 1 .. i - 1 /\ k + 1 \in j + 1 .. (i + 1) - 1
      BY <2>1, <2>4
    <3>2. \A k \in j .. i - 1 : ~Stores(Tail(t)[k], w)
      BY <2>2, <2>4, <3>1
    <3>3. CASE j = 1
      <4>1. w \in D
        BY <2>4, <3>3, Ahead
      <4> QED
        BY <3>2, <3>3, <4>1
    <3>4. CASE j # 1
      <4>1. j - 1 \in 1 .. i - 1 /\ Tail(t)[j - 1] = t[j] /\ (j - 1) + 1 = j
        BY <2>1, <2>2, <2>4, <3>4
      <4> QED
        BY <2>4, <3>2, <4>1
    <3> QED
      BY <3>3, <3>4
  <2> QED
    BY <1>2, <2>1, <2>3, <2>4 DEF Covered
<1> QED
  BY <1>1, <1>2 DEF Covered

-----------------------------------------------------------------------------
(* The parts programs are put together from. *)

WellRead(t) == t \in Seq(Steps) /\ Covered(t, {})

LEMMA WellReadConcat == \A a, b : WellRead(a) /\ WellRead(b) => WellRead(a \o b)
  BY Concat, CoveredConcat DEF WellRead

LEMMA EmptyPart == WellRead(<<>>) /\ \A w, g : Spares(<<>>, w, g)
  BY EmptySeq DEF WellRead, Covered, Spares

LEMMA PutPart ==
    ASSUME NEW w \in Words, NEW f \in AllFields, DOMAIN f \subseteq DOMAIN Reset[w]
    PROVE  /\ WellRead(Put(w, f)) /\ Len(Put(w, f)) = 2
           /\ Put(w, f)[1] = Load(w) /\ Put(w, f)[2] = Store(w, f)
           /\ \A x, g : x # w \/ g \notin DOMAIN f => Spares(Put(w, f), x, g)
           /\ \A g \in DOMAIN f : Leaves(Put(w, f), w, g, f[g])
<1> DEFINE t == Put(w, f)
<1>1. Load(w) \in Steps /\ Store(w, f) \in Steps
  BY DEF Steps, Store
<1>2. t \in Seq(Steps) /\ Len(t) = 2 /\ t[1] = Load(w) /\ t[2] = Store(w, f)
  BY <1>1 DEF Put
<1> HIDE DEF t
<1>3. ASSUME NEW i \in 1 .. Len(t)
      PROVE  (i = 1 /\ t[i] = Load(w)) \/ (i = 2 /\ t[i] = Store(w, f))
  BY <1>2
<1>4. Covered(t, {})
  <2>1. Loads(t[1], w) /\ ~Stores(t[1], w)
    BY <1>2 DEF Loads, Stores, Load
  <2>2. ASSUME NEW i \in 1 .. Len(t), t[i].do = "store" PROVE i = 2 /\ t[i].word = w
    BY <1>3, <2>2 DEF Load, Store
  <2>3. \A k \in 1 + 1 .. 2 - 1 : FALSE
    OBVIOUS
  <2>4. 1 \in 1 .. 2 - 1
    OBVIOUS
  <2> QED
    BY <2>1, <2>2, <2>3, <2>4 DEF Covered
<1>5. ASSUME NEW x, NEW g, x # w \/ g \notin DOMAIN f PROVE Spares(t, x, g)
  BY <1>3, <1>5 DEF Spares, Sets, Stores, Load, Store
<1>6. ASSUME NEW g \in DOMAIN f PROVE Leaves(t, w, g, f[g])
  <2>1. Puts(t[2], w, g, f[g])
    BY <1>2 DEF Puts, Sets, Stores, Store
  <2>2. 2 \in 1 .. Len(t) /\ \A j \in 2 + 1 .. Len(t) : FALSE
    BY <1>2
  <2> QED
    BY <2>1, <2>2 DEF Leaves
<1> QED
  BY <1>2, <1>4, <1>5, <1>6 DEF t, WellRead

LEMMA WordFields ==
    /\ Words = {"clk_sel0", "clk_en_cent", "clk_en_peri", "peri_reset", "pll0", "pll1",
                "dma_sel0", "dma_sel1"}
    /\ Fields("clk_sel0") = {"aclk_sel", "aclk_divider", "spi3"}
    /\ Fields("clk_en_cent") = {"apb0", "apb1"}
    /\ Fields("clk_en_peri") = {"i2c0", "aes", "uart3"} /\ Fields("peri_reset") = {"i2c0", "uart3"}
    /\ \A p \in Plls : p \in Words /\ Fields(p) = {"pwrd", "reset", "out_en", "div"}
    /\ Fields("dma_sel0") = {"sel"} /\ Fields("dma_sel1") = {"sel"}
  BY DEF Words, Fields, Reset, PllOff, Plls

LEMMA Values ==
    /\ \A v \in 0..1 :
          /\ {[aclk_sel |-> v], [aclk_divider |-> v], [spi3 |-> v], [sel |-> v], [out_en |-> v],
              [pwrd |-> v], [reset |-> v]} \subseteq AllFields
          /\ \A g \in {"apb0", "apb1", "i2c0", "aes", "uart3"} : Only(g, v) \in AllFields
          /\ DOMAIN [aclk_sel |-> v] = {"aclk_sel"} /\ DOMAIN [aclk_divider |-> v] = {"aclk_divider"}
          /\ DOMAIN [spi3 |-> v] = {"spi3"} /\ DOMAIN [sel |-> v] = {"sel"}
          /\ DOMAIN [out_en |-> v] = {"out_en"} /\ DOMAIN [pwrd |-> v] = {"pwrd"}
          /\ DOMAIN [reset |-> v] = {"reset"}
    /\ <<>> \in AllFields /\ DOMAIN <<>> = {}
    /\ \A d \in Divs : [div |-> d] \in AllFields /\ DOMAIN [div |-> d] = {"div"}
    /\ \A g, v : DOMAIN Only(g, v) = {g} /\ Only(g, v)[g] = v
  BY DEF AllFields, Only

LEMMA WaitPart ==
    ASSUME NEW p \in Plls
    PROVE  /\ WellRead(WaitLock(p)) /\ Len(WaitLock(p)) = 1 /\ Awaits(WaitLock(p)[1], p)
           /\ \A w, g : Spares(WaitLock(p), w, g)
<1> DEFINE s == [do |-> "wait", word |-> p]
<1>1. s \in Steps
  BY WordFields DEF Steps
<1>2. WaitLock(p) \in Seq(Steps) /\ Len(WaitLock(p)) = 1 /\ WaitLock(p)[1] = s
  BY <1>1 DEF WaitLock
<1>3. \A i \in 1 .. Len(WaitLock(p)) : WaitLock(p)[i] = s
  BY <1>2
<1> QED
  BY <1>2, <1>3 DEF WellRead, Covered, Spares, Sets, Stores, Awaits

LEMMA PutOne ==
    ASSUME NEW w \in Words, NEW f \in AllFields, NEW g \in Fields(w), DOMAIN f = {g}
    PROVE  /\ WellRead(Put(w, f))
           /\ \A x, y : x # w \/ y # g => Spares(Put(w, f), x, y)
           /\ Leaves(Put(w, f), w, g, f[g])
  BY PutPart DEF Fields

LEMMA PulsePart ==
    ASSUME NEW p \in Plls
    PROVE  /\ WellRead(PulseReset(p)) /\ Leaves(PulseReset(p), p, "reset", 0)
           /\ \A x, y : x # p \/ y # "reset" => Spares(PulseReset(p), x, y)
<1> DEFINE a == Put(p, [reset |-> 0])
           b == Put(p, [reset |-> 1])
<1>1. p \in Words /\ "reset" \in Fields(p) /\ 0 \in 0..1 /\ 1 \in 0..1
  BY WordFields
<1>2. /\ WellRead(a) /\ Leaves(a, p, "reset", 0)
      /\ \A x, y : x # p \/ y # "reset" => Spares(a, x, y)
  BY <1>1, PutOne, Values
<1>3. /\ WellRead(b)
      /\ \A x, y : x # p \/ y # "reset" => Spares(b, x, y)
  BY <1>1, PutOne, Values
<1> HIDE DEF a, b
<1>4. WellRead((a \o b) \o a) /\ WellRead(a \o b)
  BY <1>2, <1>3, WellReadConcat
<1>5. Leaves((a \o b) \o a, p, "reset", 0)
  BY <1>2, <1>4, LeavesConcat DEF WellRead
<1>6. \A x, y : x # p \/ y # "reset" => Spares(a \o b, x, y)
  BY <1>2, <1>3, SparesConcat DEF WellRead
<1>7. \A x, y : x # p \/ y # "reset" => Spares((a \o b) \o a, x, y)
  BY <1>2, <1>4, <1>6, SparesConcat DEF WellRead
<1> QED
  BY <1>4, <1>5, <1>7 DEF PulseReset, a, b

LEMMA NewFields ==
    ASSUME NEW f \in AskedFreqs
    PROVE  /\ NewValue(f) \in AllFields
           /\ \/ NewValue(f) = <<>> /\ DOMAIN NewValue(f) = {}
              \/ NewValue(f) # <<>> /\ DOMAIN NewValue(f) = {"div"}
<1>1. CASE Found[f].found
  <2> DEFINE d == <<Found[f].nr, Found[f].nf, Found[f].no>>
  <2>1. d \in Divs
    BY DEF Divs
  <2>2. NewValue(f) = [div |-> d]
    BY <1>1 DEF NewValue
  <2> HIDE DEF d
  <2> QED
    BY <2>1, <2>2, Values
<1>2. CASE ~Found[f].found
  BY <1>2, Values DEF NewValue
<1> QED
  BY <1>1, <1>2

LEMMA SetPart ==
    ASSUME NEW p \in Plls, NEW f \in AskedFreqs
    PROVE  /\ WellRead(SetValue(p, f))
           /\ \A x, y : x # p \/ y # "div" \/ "div" \notin DOMAIN NewValue(f) => Spares(SetValue(p, f), x, y)
           /\ "div" \in DOMAIN NewValue(f) => Leaves(SetValue(p, f), p, "div", NewValue(f)["div"])
<1>1. CASE NewValue(f) = <<>>
  BY <1>1, EmptyPart, NewFields DEF SetValue
<1>2. CASE NewValue(f) # <<>>
  <2>1. DOMAIN NewValue(f) = {"div"} /\ NewValue(f) \in AllFields /\ p \in Words /\ "div" \in Fields(p)
    BY <1>2, NewFields, WordFields
  <2>2. SetValue(p, f) = Put(p, NewValue(f))
    BY <1>2 DEF SetValue
  <2> QED
    BY <2>1, <2>2, PutOne
<1> QED
  BY <1>1, <1>2

LEMMA SelectPart ==
    ASSUME NEW v \in 0..1
    PROVE  /\ WellRead(SelectAclk(v)) /\ Leaves(SelectAclk(v), "clk_sel0", "aclk_sel", v)
           /\ \A x, y : x # "clk_sel0" \/ y # "aclk_sel" => Spares(SelectAclk(v), x, y)
           /\ Len(SelectAclk(v)) = 2
           /\ Puts(SelectAclk(v)[2], "clk_sel0", "aclk_sel", v)
           /\ SelectAclk(v)[1].do = "load"
<1>1. "clk_sel0" \in Words /\ "aclk_sel" \in Fields("clk_sel0") /\ [aclk_sel |-> v] \in AllFields
      /\ DOMAIN [aclk_sel |-> v] = {"aclk_sel"} /\ [aclk_sel |-> v].aclk_sel = v
  BY WordFields, Values
<1>2. DOMAIN [aclk_sel |-> v] \subseteq DOMAIN Reset["clk_sel0"]
  BY <1>1 DEF Fields
<1>3. /\ Len(SelectAclk(v)) = 2 /\ SelectAclk(v)[1] = Load("clk_sel0")
      /\ SelectAclk(v)[2] = Store("clk_sel0", [aclk_sel |-> v])
  BY <1>1, <1>2, PutPart DEF SelectAclk
<1>4. Puts(SelectAclk(v)[2], "clk_sel0", "aclk_sel", v) /\ SelectAclk(v)[1].do = "load"
  BY <1>3 DEF Puts, Sets, Stores, Store, Load
<1> QED
  BY <1>1, <1>3, <1>4, PutOne DEF SelectAclk

LEMMA FieldPart ==
    ASSUME NEW p \in Plls, NEW v \in 0..1
    PROVE  /\ WellRead(Put(p, [pwrd |-> v])) /\ Leaves(Put(p, [pwrd |-> v]), p, "pwrd", v)
           /\ \A x, y : x # p \/ y # "pwrd" => Spares(Put(p, [pwrd |-> v]), x, y)
           /\ WellRead(Put(p, [out_en |-> v])) /\ Leaves(Put(p, [out_en |-> v]), p, "out_en", v)
           /\ \A x, y : x # p \/ y # "out_en" => Spares(Put(p, [out_en |-> v]), x, y)
<1>1. /\ p \in Words /\ "pwrd" \in Fields(p) /\ "out_en" \in Fields(p)
      /\ [pwrd |-> v] \in AllFields /\ DOMAIN [pwrd |-> v] = {"pwrd"} /\ [pwrd |-> v].pwrd = v
      /\ [out_en |-> v] \in AllFields /\ DOMAIN [out_en |-> v] = {"out_en"} /\ [out_en |-> v].out_en = v
  BY WordFields, Values
<1> QED
  BY <1>1, PutOne

-----------------------------------------------------------------------------
(* The programs. *)

LEMMA SpareWords ==
    ASSUME NEW a, NEW b, WellRead(a), WellRead(b), NEW w, NEW g
    PROVE  /\ Spares(a, w, g) /\ Spares(b, w, g) => Spares(a \o b, w, g)
           /\ \A v : Leaves(b, w, g, v) => Leaves(a \o b, w, g, v)
           /\ \A v : Leaves(a, w, g, v) /\ Spares(b, w, g) => Leaves(a \o b, w, g, v)
  BY SparesConcat, LeavesConcat DEF WellRead

(* A field of a gate word or of the resets. *)
LEMMA BitPart ==
    ASSUME NEW w \in {"clk_en_cent", "clk_en_peri", "peri_reset"}, NEW g \in Fields(w), NEW v \in 0..1
    PROVE  /\ WellRead(Put(w, Only(g, v))) /\ Leaves(Put(w, Only(g, v)), w, g, v)
           /\ \A x, y : x # w \/ y # g => Spares(Put(w, Only(g, v)), x, y)
           /\ Calm(Put(w, Only(g, v)))
<1>1. w \in Words /\ w # "pll0" /\ g \in {"apb0", "apb1", "i2c0", "aes", "uart3"}
  BY WordFields
<1>2. Only(g, v) \in AllFields /\ DOMAIN Only(g, v) = {g} /\ Only(g, v)[g] = v
  BY <1>1, Values, Zenon
<1> DEFINE f == Only(g, v)
           t == Put(w, f)
<1> HIDE DEF f
<1>3. /\ WellRead(t) /\ Leaves(t, w, g, v)
      /\ \A x, y : x # w \/ y # g => Spares(t, x, y)
  BY <1>1, <1>2, PutOne DEF f
<1>4. /\ Len(t) = 2 /\ t[1] = Load(w) /\ t[2] = Store(w, f)
  BY <1>1, <1>2, PutPart DEF f, Fields
<1>5. Calm(t)
  <2>1. \A i \in 1 .. 2 : i = 1 \/ i = 2
    OBVIOUS
  <2>2. t[1].do = "load" /\ t[2].do = "store" /\ t[2].word = w
    BY <1>4 DEF Load, Store
  <2> HIDE DEF t
  <2> QED
    BY <1>1, <1>4, <2>1, <2>2 DEF Calm, Alters, Awaits, Sets, Stores
<1> QED
  BY <1>3, <1>5 DEF f

LEMMA CalmConcat ==
    ASSUME NEW a, NEW b, WellRead(a), WellRead(b), Calm(a), Calm(b)
    PROVE  Calm(a \o b)
<1> DEFINE t == a \o b
<1>1. ASSUME NEW k \in 1 .. Len(t) PROVE ~Alters(t[k]) /\ ~Awaits(t[k], "pll0")
  BY Concat DEF Calm, WellRead
<1> QED
  BY <1>1 DEF Calm

(* A device put into reset and taken out. *)
LEMMA ResetPart ==
    ASSUME NEW d \in Fields("peri_reset")
    PROVE  /\ WellRead(ResetDevice(d)) /\ Leaves(ResetDevice(d), "peri_reset", d, 0)
           /\ \A x, y : x # "peri_reset" \/ y # d => Spares(ResetDevice(d), x, y)
           /\ Calm(ResetDevice(d))
<1> DEFINE a == Put("peri_reset", Only(d, 1))
           b == Put("peri_reset", Only(d, 0))
<1>1. 0 \in 0..1 /\ 1 \in 0..1
  OBVIOUS
<1>2. /\ WellRead(a) /\ Calm(a) /\ \A x, y : x # "peri_reset" \/ y # d => Spares(a, x, y)
      /\ WellRead(b) /\ Calm(b) /\ \A x, y : x # "peri_reset" \/ y # d => Spares(b, x, y)
      /\ Leaves(b, "peri_reset", d, 0)
  BY <1>1, BitPart
<1>3. ResetDevice(d) = a \o b
  BY DEF ResetDevice
<1> HIDE DEF a, b
<1>4. WellRead(a \o b) /\ Calm(a \o b) /\ Leaves(a \o b, "peri_reset", d, 0)
  BY <1>2, WellReadConcat, CalmConcat, SpareWords
<1>5. ASSUME NEW x, NEW y, x # "peri_reset" \/ y # d PROVE Spares(a \o b, x, y)
  BY <1>2, <1>5, SpareWords
<1> QED
  BY <1>3, <1>4, <1>5

(* The gates of a device's clock. *)
LEMMA GatePart ==
    ASSUME NEW k \in DOMAIN Bus
    PROVE  /\ WellRead(ClockEnable(k)) /\ Calm(ClockEnable(k))
           /\ Leaves(ClockEnable(k), "clk_en_cent", Bus[k], 1) /\ Leaves(ClockEnable(k), "clk_en_peri", k, 1)
           /\ \A x, y : (x # "clk_en_cent" \/ y # Bus[k]) /\ (x # "clk_en_peri" \/ y # k) =>
                 Spares(ClockEnable(k), x, y)
<1> DEFINE a == Put("clk_en_cent", Only(Bus[k], 1))
           b == Put("clk_en_peri", Only(k, 1))
<1>1. /\ 1 \in 0..1 /\ Bus[k] \in Fields("clk_en_cent") /\ k \in Fields("clk_en_peri")
      /\ k \notin Plls
  BY WordFields DEF Bus, Plls
<1>2. ClockEnable(k) = a \o b
  BY <1>1 DEF ClockEnable, BusEn, DeviceEn
<1>3. /\ WellRead(a) /\ Calm(a) /\ Leaves(a, "clk_en_cent", Bus[k], 1)
      /\ \A x, y : x # "clk_en_cent" \/ y # Bus[k] => Spares(a, x, y)
  BY <1>1, BitPart
<1>4. /\ WellRead(b) /\ Calm(b) /\ Leaves(b, "clk_en_peri", k, 1)
      /\ \A x, y : x # "clk_en_peri" \/ y # k => Spares(b, x, y)
  BY <1>1, BitPart
<1> HIDE DEF a, b
<1>5. WellRead(a \o b) /\ Calm(a \o b)
  BY <1>3, <1>4, WellReadConcat, CalmConcat
<1>6. Leaves(a \o b, "clk_en_cent", Bus[k], 1) /\ Leaves(a \o b, "clk_en_peri", k, 1)
  BY <1>3, <1>4, SpareWords
<1>7. ASSUME NEW x, NEW y, x # "clk_en_cent" \/ y # Bus[k], x # "clk_en_peri" \/ y # k
      PROVE  Spares(a \o b, x, y)
  BY <1>3, <1>4, <1>7, SpareWords
<1> QED
  BY <1>2, <1>5, <1>6, <1>7

(* The fields set once PLL0 runs, and their values. *)
Ending(x, y) ==
    \/ x = "clk_sel0" /\ y = "aclk_sel"
    \/ x = "clk_en_cent" /\ y = "apb0"
    \/ x \in {"clk_en_peri", "peri_reset"} /\ y = "uart3"
EndValue(x) == IF x = "peri_reset" THEN 0 ELSE 1

LEMMA UartPart ==
    /\ WellRead(UartInit) /\ Calm(UartInit)
    /\ \A x, y : Ending(x, y) /\ x # "clk_sel0" => Leaves(UartInit, x, y, EndValue(x))
    /\ \A x, y : ~Ending(x, y) \/ x = "clk_sel0" => Spares(UartInit, x, y)
<1> DEFINE a == ClockEnable("uart3")
           b == ResetDevice("uart3")
<1>1. "uart3" \in DOMAIN Bus /\ Bus["uart3"] = "apb0" /\ "uart3" \in Fields("peri_reset")
  BY WordFields DEF Bus
<1>2. /\ WellRead(a) /\ Calm(a)
      /\ Leaves(a, "clk_en_cent", "apb0", 1) /\ Leaves(a, "clk_en_peri", "uart3", 1)
      /\ \A x, y : (x # "clk_en_cent" \/ y # "apb0") /\ (x # "clk_en_peri" \/ y # "uart3") => Spares(a, x, y)
  BY <1>1, GatePart
<1>3. /\ WellRead(b) /\ Calm(b) /\ Leaves(b, "peri_reset", "uart3", 0)
      /\ \A x, y : x # "peri_reset" \/ y # "uart3" => Spares(b, x, y)
  BY <1>1, ResetPart
<1>4. UartInit = a \o b
  BY DEF UartInit
<1> HIDE DEF a, b
<1>5. WellRead(a \o b) /\ Calm(a \o b)
  BY <1>2, <1>3, WellReadConcat, CalmConcat
<1>6. /\ Leaves(a \o b, "clk_en_cent", "apb0", 1) /\ Leaves(a \o b, "clk_en_peri", "uart3", 1)
      /\ Leaves(a \o b, "peri_reset", "uart3", 0)
  BY <1>2, <1>3, SpareWords
<1>7. ASSUME NEW x, NEW y, ~Ending(x, y) \/ x = "clk_sel0" PROVE Spares(a \o b, x, y)
  <2>1. Spares(a, x, y) /\ Spares(b, x, y)
    BY <1>2, <1>3, <1>7 DEF Ending
  <2> QED
    BY <1>2, <1>3, <2>1, SpareWords
<1>8. ASSUME NEW x, NEW y, Ending(x, y), x # "clk_sel0" PROVE Leaves(a \o b, x, y, EndValue(x))
  BY <1>6, <1>8 DEF Ending, EndValue
<1> QED
  BY <1>4, <1>5, <1>7, <1>8

LEMMA EndPart ==
    /\ WellRead(SelectAclk(1) \o UartInit)
    /\ \A x, y : Ending(x, y) => Leaves(SelectAclk(1) \o UartInit, x, y, EndValue(x))
    /\ \A x, y : ~Ending(x, y) => Spares(SelectAclk(1) \o UartInit, x, y)
<1>1. 1 \in 0..1
  OBVIOUS
<1>2. /\ WellRead(SelectAclk(1)) /\ Leaves(SelectAclk(1), "clk_sel0", "aclk_sel", 1)
      /\ \A x, y : x # "clk_sel0" \/ y # "aclk_sel" => Spares(SelectAclk(1), x, y)
  BY <1>1, SelectPart
<1>3. WellRead(SelectAclk(1) \o UartInit)
  BY <1>2, UartPart, WellReadConcat
<1>4. ASSUME NEW x, NEW y, Ending(x, y)
      PROVE  Leaves(SelectAclk(1) \o UartInit, x, y, EndValue(x))
  <2>1. CASE x = "clk_sel0"
    <3>1. y = "aclk_sel" /\ EndValue(x) = 1
      BY <1>4, <2>1 DEF Ending, EndValue
    <3> QED
      BY <1>2, <2>1, <3>1, UartPart, SpareWords
  <2>2. CASE x # "clk_sel0"
    BY <1>2, <1>4, <2>2, UartPart, SpareWords
  <2> QED
    BY <2>1, <2>2
<1>5. ASSUME NEW x, NEW y, ~Ending(x, y)
      PROVE  Spares(SelectAclk(1) \o UartInit, x, y)
  <2>1. Spares(SelectAclk(1), x, y)
    BY <1>2, <1>5 DEF Ending
  <2> QED
    BY <1>2, <1>5, <2>1, UartPart, SpareWords
<1> QED
  BY <1>3, <1>4, <1>5

LEMMA PllSetFreqDoes ==
    ASSUME NEW p \in Plls, NEW f \in AskedFreqs, NEW c,
           c.op = "pll_set_freq", c.pll = p, c.freq = f
    PROVE  WellRead(PllSetFreq(p, f)) /\ Does(PllSetFreq(p, f), c)
<1> DEFINE A1 == IF p = "pll0" THEN SelectAclk(0) ELSE <<>>
           A2 == Put(p, [out_en |-> 0])
           A3 == Put(p, [pwrd |-> 0])
           A4 == SetValue(p, f)
           A5 == Put(p, [pwrd |-> 1])
           A6 == PulseReset(p)
           A7 == WaitLock(p)
           A8 == Put(p, [out_en |-> 1])
           A9 == IF p = "pll0" THEN SelectAclk(1) \o UartInit ELSE <<>>
           B2 == A1 \o A2
           B3 == B2 \o A3
           B4 == B3 \o A4
           B5 == B4 \o A5
           B6 == B5 \o A6
           B7 == B6 \o A7
           B8 == B7 \o A8
           B9 == B8 \o A9
<1>0. 0 \in 0..1 /\ 1 \in 0..1 /\ p # "clk_sel0" /\ \A x, y : Ending(x, y) => x # p
  BY DEF Plls, Ending
<1>1. /\ WellRead(A1)
      /\ \A x, y : x # "clk_sel0" \/ y # "aclk_sel" \/ p # "pll0" => Spares(A1, x, y)
  BY <1>0, SelectPart, EmptyPart
<1>2. WellRead(A2) /\ \A x, y : x # p \/ y # "out_en" => Spares(A2, x, y)
  BY <1>0, FieldPart
<1>3. WellRead(A3) /\ \A x, y : x # p \/ y # "pwrd" => Spares(A3, x, y)
  BY <1>0, FieldPart
<1>4. /\ WellRead(A4)
      /\ \A x, y : x # p \/ y # "div" \/ "div" \notin DOMAIN NewValue(f) => Spares(A4, x, y)
      /\ "div" \in DOMAIN NewValue(f) => Leaves(A4, p, "div", NewValue(f)["div"])
  BY SetPart
<1>5. WellRead(A5) /\ Leaves(A5, p, "pwrd", 1) /\ \A x, y : x # p \/ y # "pwrd" => Spares(A5, x, y)
  BY <1>0, FieldPart
<1>6. WellRead(A6) /\ Leaves(A6, p, "reset", 0) /\ \A x, y : x # p \/ y # "reset" => Spares(A6, x, y)
  BY PulsePart
<1>7. WellRead(A7) /\ \A x, y : Spares(A7, x, y)
  BY WaitPart
<1>8. WellRead(A8) /\ Leaves(A8, p, "out_en", 1) /\ \A x, y : x # p \/ y # "out_en" => Spares(A8, x, y)
  BY <1>0, FieldPart
<1>9. /\ WellRead(A9)
      /\ \A x, y : p = "pll0" /\ Ending(x, y) => Leaves(A9, x, y, EndValue(x))
      /\ \A x, y : p # "pll0" \/ ~Ending(x, y) => Spares(A9, x, y)
  BY EndPart, EmptyPart
<1>10. PllSetFreq(p, f) = B9
  BY DEF PllSetFreq
<1> HIDE DEF A1, A2, A3, A4, A5, A6, A7, A8, A9
<1>11. WellRead(B2) /\ WellRead(B3) /\ WellRead(B4) /\ WellRead(B5) /\ WellRead(B6)
       /\ WellRead(B7) /\ WellRead(B8) /\ WellRead(B9)
  BY <1>1, <1>2, <1>3, <1>4, <1>5, <1>6, <1>7, <1>8, <1>9, WellReadConcat
<1> DEFINE E == Effect(c)
<1>12. /\ E = Over(Only(p, Over(NewValue(f), [pwrd |-> 1, reset |-> 0, out_en |-> 1])),
                   IF p = "pll0"
                   THEN [clk_sel0 |-> [aclk_sel |-> 1], clk_en_cent |-> [apb0 |-> 1],
                         clk_en_peri |-> [uart3 |-> 1], peri_reset |-> [uart3 |-> 0]]
                   ELSE <<>>)
       /\ \A w : w \in DOMAIN E <=>
              w = p \/ (w \in {"clk_sel0", "clk_en_cent", "clk_en_peri", "peri_reset"} /\ p = "pll0")
       /\ E[p] = Over(NewValue(f), [pwrd |-> 1, reset |-> 0, out_en |-> 1])
       /\ p = "pll0" => /\ E["clk_sel0"] = [aclk_sel |-> 1] /\ E["clk_en_cent"] = [apb0 |-> 1]
                        /\ E["clk_en_peri"] = [uart3 |-> 1] /\ E["peri_reset"] = [uart3 |-> 0]
  BY <1>0 DEF Effect, Over, Only, Plls
<1>15. ASSUME NEW w, w # p, NEW g
       PROVE  /\ w \in DOMAIN E /\ g \in DOMAIN E[w] <=> p = "pll0" /\ Ending(w, g)
              /\ p = "pll0" /\ Ending(w, g) => E[w][g] = EndValue(w)
  <2> HIDE DEF E
  <2> QED
    BY <1>12, <1>15 DEF Ending, EndValue
<1>13. /\ \A g : g \in DOMAIN E[p] <=>
              g \in {"pwrd", "reset", "out_en"} \/ g \in DOMAIN NewValue(f)
       /\ E[p]["pwrd"] = 1 /\ E[p]["reset"] = 0 /\ E[p]["out_en"] = 1
       /\ "div" \in DOMAIN NewValue(f) => E[p]["div"] = NewValue(f)["div"]
  <2> DEFINE n == NewValue(f)
             x == [pwrd |-> 1, reset |-> 0, out_en |-> 1]
  <2>1. DOMAIN x = {"pwrd", "reset", "out_en"} /\ x["pwrd"] = 1 /\ x["reset"] = 0 /\ x["out_en"] = 1
    OBVIOUS
  <2>2. DOMAIN n \subseteq {"div"}
    BY NewFields
  <2>3. E[p] = Over(n, x)
    BY <1>12
  <2> HIDE DEF n, x, E
  <2>4. /\ DOMAIN E[p] = DOMAIN n \cup DOMAIN x
        /\ \A g \in DOMAIN n \cup DOMAIN x : E[p][g] = IF g \in DOMAIN n THEN n[g] ELSE x[g]
    BY <2>3 DEF Over
  <2>5. \A g : g \in DOMAIN E[p] <=> g \in {"pwrd", "reset", "out_en"} \/ g \in DOMAIN n
    BY <2>1, <2>4
  <2>6. E[p]["pwrd"] = 1 /\ E[p]["reset"] = 0 /\ E[p]["out_en"] = 1
    BY <2>1, <2>2, <2>4
  <2>7. "div" \in DOMAIN n => E[p]["div"] = n["div"]
    BY <2>4
  <2> QED
    BY <2>5, <2>6, <2>7 DEF n
<1>14. ASSUME NEW w \in Words, NEW g \in Fields(w)
       PROVE  IF Means(c, w, g) THEN Leaves(B9, w, g, E[w][g]) ELSE Spares(B9, w, g)
  <2> HIDE DEF E
  <2>1. Means(c, w, g) <=> w \in DOMAIN E /\ g \in DOMAIN E[w]
    BY DEF Means, E
  <2>2. CASE w = p /\ g = "pwrd"
    <3>1. Leaves(B5, w, g, 1)
      BY <1>11, <1>5, <1>4, <2>2, SpareWords
    <3>2. Leaves(B6, w, g, 1)
      BY <3>1, <1>11, <1>6, <2>2, SpareWords
    <3>3. Leaves(B7, w, g, 1)
      BY <3>2, <1>11, <1>7, <2>2, SpareWords
    <3>4. Leaves(B8, w, g, 1)
      BY <3>3, <1>11, <1>8, <2>2, SpareWords
    <3>5. Leaves(B9, w, g, 1)
      BY <3>4, <1>0, <1>11, <1>9, <2>2, SpareWords
    <3> QED
      BY <3>5, <2>1, <2>2, <1>12, <1>13
  <2>3. CASE w = p /\ g = "reset"
    <3>1. Leaves(B6, w, g, 0)
      BY <1>11, <1>6, <2>3, SpareWords
    <3>2. Leaves(B7, w, g, 0)
      BY <3>1, <1>11, <1>7, <2>3, SpareWords
    <3>3. Leaves(B8, w, g, 0)
      BY <3>2, <1>11, <1>8, <2>3, SpareWords
    <3>4. Leaves(B9, w, g, 0)
      BY <3>3, <1>0, <1>11, <1>9, <2>3, SpareWords
    <3> QED
      BY <3>4, <2>1, <2>3, <1>12, <1>13
  <2>4. CASE w = p /\ g = "out_en"
    <3>1. Leaves(B8, w, g, 1)
      BY <1>11, <1>8, <2>4, SpareWords
    <3>2. Leaves(B9, w, g, 1)
      BY <3>1, <1>0, <1>11, <1>9, <2>4, SpareWords
    <3> QED
      BY <3>2, <2>1, <2>4, <1>12, <1>13
  <2>5. CASE w = p /\ g = "div" /\ "div" \in DOMAIN NewValue(f)
    <3> DEFINE d == NewValue(f)["div"]
    <3>1. Leaves(B4, w, g, d)
      BY <1>11, <1>4, <2>5, SpareWords
    <3> HIDE DEF d
    <3>2. Leaves(B5, w, g, d)
      BY <3>1, <1>11, <1>5, <2>5, SpareWords
    <3>3. Leaves(B6, w, g, d)
      BY <3>2, <1>11, <1>6, <2>5, SpareWords
    <3>4. Leaves(B7, w, g, d)
      BY <3>3, <1>11, <1>7, <2>5, SpareWords
    <3>5. Leaves(B8, w, g, d)
      BY <3>4, <1>11, <1>8, <2>5, SpareWords
    <3>6. Leaves(B9, w, g, d)
      BY <3>5, <1>0, <1>11, <1>9, <2>5, SpareWords
    <3> QED
      BY <3>6, <2>1, <2>5, <1>12, <1>13 DEF d
  <2>6. CASE Ending(w, g) /\ p = "pll0"
    <3>1. Leaves(B9, w, g, EndValue(w))
      BY <1>11, <1>9, <2>6, SpareWords
    <3> QED
      BY <1>0, <3>1, <2>1, <2>6, <1>15
  <2>7. CASE \/ w # p /\ (~Ending(w, g) \/ p # "pll0")
             \/ w = p /\ g = "div" /\ "div" \notin DOMAIN NewValue(f)
    <3>1. Spares(A1, w, g) /\ Spares(A2, w, g) /\ Spares(A3, w, g) /\ Spares(A4, w, g) /\ Spares(A5, w, g)
          /\ Spares(A6, w, g) /\ Spares(A7, w, g) /\ Spares(A8, w, g) /\ Spares(A9, w, g)
      <4>1. Spares(A1, w, g)
        BY <1>0, <1>1, <2>7 DEF Ending
      <4> QED
        BY <1>0, <4>1, <1>2, <1>3, <1>4, <1>5, <1>6, <1>7, <1>8, <1>9, <2>7
    <3>2. Spares(B2, w, g)
      BY <3>1, <1>1, <1>2, SpareWords
    <3>3. Spares(B3, w, g)
      BY <3>1, <3>2, <1>11, <1>3, SpareWords
    <3>4. Spares(B4, w, g)
      BY <3>1, <3>3, <1>11, <1>4, SpareWords
    <3>5. Spares(B5, w, g)
      BY <3>1, <3>4, <1>11, <1>5, SpareWords
    <3>6. Spares(B6, w, g)
      BY <3>1, <3>5, <1>11, <1>6, SpareWords
    <3>7. Spares(B7, w, g)
      BY <3>1, <3>6, <1>11, <1>7, SpareWords
    <3>8. Spares(B8, w, g)
      BY <3>1, <3>7, <1>11, <1>8, SpareWords
    <3>9. Spares(B9, w, g)
      BY <3>1, <3>8, <1>11, <1>9, SpareWords
    <3>10. ~Means(c, w, g)
      BY <2>1, <2>7, <1>13, <1>15
    <3> QED
      BY <3>9, <3>10
  <2>8. w = p => g \in {"pwrd", "reset", "out_en", "div"}
    BY WordFields
  <2> QED
    BY <2>2, <2>3, <2>4, <2>5, <2>6, <2>7, <2>8
<1> QED
  BY <1>10, <1>11, <1>14 DEF Does

(* Two words read, then both written. *)
LEMMA PairPart ==
    ASSUME NEW w \in Words, NEW x \in Words, w # x, NEW e \in AllFields, NEW f \in AllFields,
           DOMAIN e \subseteq Fields(w), DOMAIN f \subseteq Fields(x)
    PROVE  LET t == <<Load(w), Load(x), Store(w, e), Store(x, f)>> IN
           /\ WellRead(t)
           /\ \A y, g : (y = w => g \notin DOMAIN e) /\ (y = x => g \notin DOMAIN f) => Spares(t, y, g)
           /\ \A g \in DOMAIN e : Leaves(t, w, g, e[g])
           /\ \A g \in DOMAIN f : Leaves(t, x, g, f[g])
<1> DEFINE t == <<Load(w), Load(x), Store(w, e), Store(x, f)>>
<1>1. Load(w) \in Steps /\ Load(x) \in Steps /\ Store(w, e) \in Steps /\ Store(x, f) \in Steps
  BY DEF Steps, Store, Fields
<1>2. /\ t \in Seq(Steps) /\ Len(t) = 4 /\ t[1] = Load(w) /\ t[2] = Load(x)
      /\ t[3] = Store(w, e) /\ t[4] = Store(x, f)
  BY <1>1
<1> HIDE DEF t
<1>3. ASSUME NEW i \in 1 .. Len(t) PROVE i \in {1, 2, 3, 4}
  BY <1>2
<1>4. /\ Loads(t[1], w) /\ Loads(t[2], x) /\ t[3].word = w /\ t[4].word = x
      /\ \A y : ~Stores(t[1], y) /\ ~Stores(t[2], y)
      /\ \A y : Stores(t[3], y) <=> y = w
      /\ \A y : Stores(t[4], y) <=> y = x
      /\ t[3].fields = e /\ t[4].fields = f
      /\ t[1].do # "store" /\ t[2].do # "store"
  BY <1>2 DEF Loads, Stores, Load, Store
<1>5. ASSUME NEW i \in 1 .. Len(t), t[i].do = "store"
      PROVE  \E j \in 1 .. i - 1 :
                Loads(t[j], t[i].word) /\ \A k \in j + 1 .. i - 1 : ~Stores(t[k], t[i].word)
  <2>1. CASE i = 3
    <3>1. 1 \in 1 .. i - 1 /\ \A k \in 1 + 1 .. i - 1 : k = 2
      BY <2>1
    <3> QED
      BY <2>1, <3>1, <1>4
  <2>2. CASE i = 4
    <3>1. 2 \in 1 .. i - 1 /\ \A k \in 2 + 1 .. i - 1 : k = 3
      BY <2>2
    <3> QED
      BY <2>2, <3>1, <1>4
  <2> QED
    BY <1>3, <1>4, <1>5, <2>1, <2>2
<1>6. ASSUME NEW y, NEW g, y = w => g \notin DOMAIN e, y = x => g \notin DOMAIN f
      PROVE  Spares(t, y, g)
  BY <1>3, <1>4, <1>6 DEF Spares, Sets
<1>7. ASSUME NEW g \in DOMAIN e PROVE Leaves(t, w, g, e[g])
  <2>1. 3 \in 1 .. Len(t) /\ Puts(t[3], w, g, e[g])
    BY <1>2, <1>4 DEF Puts, Sets
  <2>2. \A j \in 3 + 1 .. Len(t) : j = 4
    BY <1>2
  <2> QED
    BY <1>4, <2>1, <2>2 DEF Leaves, Sets
<1>8. ASSUME NEW g \in DOMAIN f PROVE Leaves(t, x, g, f[g])
  <2>1. 4 \in 1 .. Len(t) /\ Puts(t[4], x, g, f[g])
    BY <1>2, <1>4 DEF Puts, Sets
  <2>2. \A j \in 4 + 1 .. Len(t) : FALSE
    BY <1>2
  <2> QED
    BY <2>1, <2>2 DEF Leaves
<1> QED
  BY <1>2, <1>5, <1>6, <1>7, <1>8 DEF t, WellRead, Covered

LEMMA EnablePart ==
    ASSUME NEW p \in Plls
    PROVE  /\ WellRead(PllEnable(p))
           /\ Leaves(PllEnable(p), p, "pwrd", 1) /\ Leaves(PllEnable(p), p, "reset", 0)
           /\ \A x, y : x # p \/ y \notin {"pwrd", "reset"} => Spares(PllEnable(p), x, y)
<1> DEFINE a == Put(p, [pwrd |-> 1])
<1>1. 1 \in 0..1
  OBVIOUS
<1>2. WellRead(a) /\ Leaves(a, p, "pwrd", 1) /\ \A x, y : x # p \/ y # "pwrd" => Spares(a, x, y)
  BY <1>1, FieldPart
<1> HIDE DEF a
<1>3. WellRead(PulseReset(p)) /\ Leaves(PulseReset(p), p, "reset", 0)
      /\ \A x, y : x # p \/ y # "reset" => Spares(PulseReset(p), x, y)
  BY PulsePart
<1>4. PllEnable(p) = a \o PulseReset(p)
  BY DEF PllEnable, a
<1>5. WellRead(a \o PulseReset(p))
  BY <1>2, <1>3, WellReadConcat
<1>6. \A x, y : x # p \/ y \notin {"pwrd", "reset"} => Spares(a \o PulseReset(p), x, y)
  BY <1>2, <1>3, SpareWords
<1>7. Leaves(a \o PulseReset(p), p, "pwrd", 1) /\ Leaves(a \o PulseReset(p), p, "reset", 0)
  BY <1>2, <1>3, SpareWords
<1> QED
  BY <1>4, <1>5, <1>6, <1>7

LEMMA FastEnableDoes ==
    ASSUME NEW c, c.op = "fast_enable"
    PROVE  WellRead(FastEnable) /\ Does(FastEnable, c)
<1> DEFINE A1 == <<Load("pll0"), Load("pll1"),
                   Store("pll0", [div |-> FastDiv["pll0"]]), Store("pll1", [div |-> FastDiv["pll1"]])>>
           A2 == PllEnable("pll0")
           A3 == PllEnable("pll1")
           A4 == WaitLock("pll0")
           A5 == WaitLock("pll1")
           A6 == Put("pll0", [out_en |-> 1])
           A7 == Put("pll1", [out_en |-> 1])
           A8 == SelectAclk(1)
           B2 == A1 \o A2
           B3 == B2 \o A3
           B4 == B3 \o A4
           B5 == B4 \o A5
           B6 == B5 \o A6
           B7 == B6 \o A7
           B8 == B7 \o A8
<1>0. 1 \in 0..1 /\ Plls = {"pll0", "pll1"} /\ "clk_sel0" \notin Plls
  BY DEF Plls
<1>1. /\ WellRead(A1)
      /\ \A x, y : x \notin Plls \/ y # "div" => Spares(A1, x, y)
      /\ \A p \in Plls : Leaves(A1, p, "div", FastDiv[p])
  <2> DEFINE e == [div |-> FastDiv["pll0"]]
             f == [div |-> FastDiv["pll1"]]
  <2>1. e \in AllFields /\ f \in AllFields /\ DOMAIN e = {"div"} /\ DOMAIN f = {"div"}
        /\ e["div"] = FastDiv["pll0"] /\ f["div"] = FastDiv["pll1"]
    BY <1>0, Values DEF Divs
  <2>2. "pll0" \in Words /\ "pll1" \in Words /\ "div" \in Fields("pll0") /\ "div" \in Fields("pll1")
    BY <1>0, WordFields
  <2>3. A1 = <<Load("pll0"), Load("pll1"), Store("pll0", e), Store("pll1", f)>>
    OBVIOUS
  <2> HIDE DEF e, f
  <2> QED
    BY <1>0, <2>1, <2>2, <2>3, PairPart
<1>2. /\ WellRead(A2) /\ Leaves(A2, "pll0", "pwrd", 1) /\ Leaves(A2, "pll0", "reset", 0)
      /\ \A x, y : x # "pll0" \/ y \notin {"pwrd", "reset"} => Spares(A2, x, y)
  BY <1>0, EnablePart
<1>3. /\ WellRead(A3) /\ Leaves(A3, "pll1", "pwrd", 1) /\ Leaves(A3, "pll1", "reset", 0)
      /\ \A x, y : x # "pll1" \/ y \notin {"pwrd", "reset"} => Spares(A3, x, y)
  BY <1>0, EnablePart
<1>4. WellRead(A4) /\ \A x, y : Spares(A4, x, y)
  BY <1>0, WaitPart
<1>5. WellRead(A5) /\ \A x, y : Spares(A5, x, y)
  BY <1>0, WaitPart
<1>6. /\ WellRead(A6) /\ Leaves(A6, "pll0", "out_en", 1)
      /\ \A x, y : x # "pll0" \/ y # "out_en" => Spares(A6, x, y)
  BY <1>0, FieldPart
<1>7. /\ WellRead(A7) /\ Leaves(A7, "pll1", "out_en", 1)
      /\ \A x, y : x # "pll1" \/ y # "out_en" => Spares(A7, x, y)
  BY <1>0, FieldPart
<1>8. /\ WellRead(A8) /\ Leaves(A8, "clk_sel0", "aclk_sel", 1)
      /\ \A x, y : x # "clk_sel0" \/ y # "aclk_sel" => Spares(A8, x, y)
  BY <1>0, SelectPart
<1>9. FastEnable = B8
  BY DEF FastEnable
<1> HIDE DEF A1, A2, A3, A4, A5, A6, A7, A8
<1>10. WellRead(B2) /\ WellRead(B3) /\ WellRead(B4) /\ WellRead(B5) /\ WellRead(B6)
       /\ WellRead(B7) /\ WellRead(B8)
  BY <1>1, <1>2, <1>3, <1>4, <1>5, <1>6, <1>7, <1>8, WellReadConcat
<1> DEFINE E == Effect(c)
<1>11. /\ \A w : w \in DOMAIN E <=> w \in Plls \/ w = "clk_sel0"
       /\ \A p \in Plls : E[p] = [pwrd |-> 1, reset |-> 0, out_en |-> 1, div |-> FastDiv[p]]
       /\ E["clk_sel0"] = [aclk_sel |-> 1]
  BY <1>0 DEF Effect, Over
<1>12. ASSUME NEW w \in Words, NEW g \in Fields(w)
       PROVE  IF Means(c, w, g) THEN Leaves(B8, w, g, E[w][g]) ELSE Spares(B8, w, g)
  <2> HIDE DEF E
  <2>1. Means(c, w, g) <=> w \in DOMAIN E /\ g \in DOMAIN E[w]
    BY DEF Means, E
  <2> USE <1>0, <1>1, <1>2, <1>3, <1>4, <1>5, <1>6, <1>7, <1>8, <1>10
  <2>2. CASE w \in Plls /\ g = "div"
    <3> DEFINE d == FastDiv[w]
    <3>1. Leaves(A1, w, g, d)
      BY <2>2
    <3> HIDE DEF d
    <3>2. Leaves(B2, w, g, d)
      BY <2>2, <3>1, SpareWords
    <3>3. Leaves(B3, w, g, d)
      BY <2>2, <3>2, SpareWords
    <3>4. Leaves(B4, w, g, d)
      BY <2>2, <3>3, SpareWords
    <3>5. Leaves(B5, w, g, d)
      BY <2>2, <3>4, SpareWords
    <3>6. Leaves(B6, w, g, d)
      BY <2>2, <3>5, SpareWords
    <3>7. Leaves(B7, w, g, d)
      BY <2>2, <3>6, SpareWords
    <3>8. Leaves(B8, w, g, d)
      BY <2>2, <3>7, SpareWords
    <3> QED
      BY <3>8, <2>1, <2>2, <1>11 DEF d
  <2>3. CASE w \in Plls /\ g \in {"pwrd", "reset"}
    <3> DEFINE v == IF g = "pwrd" THEN 1 ELSE 0
    <3>1. w = "pll0" => Leaves(A2, w, g, v)
      BY <2>3
    <3>2. w = "pll1" => Leaves(A3, w, g, v)
      BY <2>3
    <3>3. v = E[w][g] /\ g \in DOMAIN E[w]
      BY <2>3, <1>11
    <3> HIDE DEF v
    <3>4. w = "pll0" => Leaves(B2, w, g, v)
      BY <3>1, SpareWords
    <3>5. Leaves(B3, w, g, v)
      BY <2>3, <3>2, <3>4, SpareWords
    <3>6. Leaves(B4, w, g, v)
      BY <2>3, <3>5, SpareWords
    <3>7. Leaves(B5, w, g, v)
      BY <2>3, <3>6, SpareWords
    <3>8. Leaves(B6, w, g, v)
      BY <2>3, <3>7, SpareWords
    <3>9. Leaves(B7, w, g, v)
      BY <2>3, <3>8, SpareWords
    <3>10. Leaves(B8, w, g, v)
      BY <2>3, <3>9, SpareWords
    <3> QED
      BY <3>3, <3>10, <2>1, <2>3, <1>11
  <2>4. CASE w \in Plls /\ g = "out_en"
    <3>1. w = "pll0" => Leaves(B6, w, g, 1)
      BY <2>4, SpareWords
    <3>2. Leaves(B7, w, g, 1)
      BY <2>4, <3>1, SpareWords
    <3>3. Leaves(B8, w, g, 1)
      BY <2>4, <3>2, SpareWords
    <3> QED
      BY <3>3, <2>1, <2>4, <1>11
  <2>5. CASE w = "clk_sel0" /\ g = "aclk_sel"
    <3>1. Leaves(B8, w, g, 1)
      BY <2>5, SpareWords
    <3> QED
      BY <3>1, <2>1, <2>5, <1>11
  <2>6. CASE w \notin Plls /\ (w # "clk_sel0" \/ g # "aclk_sel")
    <3>1. Spares(B2, w, g)
      BY <2>6, SpareWords
    <3>2. Spares(B3, w, g)
      BY <2>6, <3>1, SpareWords
    <3>3. Spares(B4, w, g)
      BY <2>6, <3>2, SpareWords
    <3>4. Spares(B5, w, g)
      BY <2>6, <3>3, SpareWords
    <3>5. Spares(B6, w, g)
      BY <2>6, <3>4, SpareWords
    <3>6. Spares(B7, w, g)
      BY <2>6, <3>5, SpareWords
    <3>7. Spares(B8, w, g)
      BY <2>6, <3>6, SpareWords
    <3>8. ~Means(c, w, g)
      BY <2>1, <2>6, <1>11
    <3> QED
      BY <3>7, <3>8
  <2>7. w \in Plls => g \in {"pwrd", "reset", "out_en", "div"}
    BY WordFields
  <2> QED
    BY <2>2, <2>3, <2>4, <2>5, <2>6, <2>7
<1> QED
  BY <1>9, <1>10, <1>12 DEF Does

LEMMA PutDoes ==
    ASSUME NEW w \in Words, NEW f \in AllFields, NEW g \in Fields(w), DOMAIN f = {g}, NEW c,
           DOMAIN Effect(c) = {w}, Effect(c)[w] = f
    PROVE  WellRead(Put(w, f)) /\ Does(Put(w, f), c)
  BY PutOne DEF Does, Means

LEMMA EnableDoes ==
    ASSUME NEW p \in Plls, NEW c, c.op = "pll_enable", c.pll = p
    PROVE  WellRead(PllEnable(p)) /\ Does(PllEnable(p), c)
<1>1. DOMAIN Effect(c) = {p} /\ Effect(c)[p] = [pwrd |-> 1, reset |-> 0]
  BY DEF Effect, Only
<1>2. \A w, g : Means(c, w, g) <=> w = p /\ g \in {"pwrd", "reset"}
  BY <1>1 DEF Means
<1> QED
  BY <1>1, <1>2, EnablePart DEF Does

LEMMA GateDoes ==
    ASSUME NEW k \in Clocks, NEW c, c.clock = k
    PROVE  /\ c.op = "clock_enable" => WellRead(ClockEnable(k)) /\ Does(ClockEnable(k), c)
           /\ c.op = "clock_disable" => WellRead(ClockDisable(k)) /\ Does(ClockDisable(k), c)
<1>0. 0 \in 0..1 /\ 1 \in 0..1
  OBVIOUS
<1>1. CASE k \in Plls
  <2>1. BusEn(k, 1) = <<>> /\ \A v : DeviceEn(k, v) = Put(k, [out_en |-> v])
    BY <1>1 DEF BusEn, DeviceEn, Bus, Plls
  <2>2. ASSUME NEW v \in 0..1 PROVE
        /\ WellRead(Put(k, [out_en |-> v])) /\ Leaves(Put(k, [out_en |-> v]), k, "out_en", v)
        /\ \A x, y : x # k \/ y # "out_en" => Spares(Put(k, [out_en |-> v]), x, y)
    BY <1>1, FieldPart
  <2>3. ASSUME c.op = "clock_enable" PROVE WellRead(ClockEnable(k)) /\ Does(ClockEnable(k), c)
    <3> DEFINE t == Put(k, [out_en |-> 1])
    <3>1. DOMAIN Effect(c) = {k} /\ DOMAIN Effect(c)[k] = {"out_en"} /\ Effect(c)[k]["out_en"] = 1
      BY <1>1, <2>3 DEF Effect, Only
    <3>2. WellRead(t) /\ Leaves(t, k, "out_en", 1) /\ \A x, y : x # k \/ y # "out_en" => Spares(t, x, y)
      BY <1>0, <2>2
    <3> HIDE DEF t
    <3>3. WellRead(<<>> \o t) /\ Leaves(<<>> \o t, k, "out_en", 1)
          /\ \A x, y : x # k \/ y # "out_en" => Spares(<<>> \o t, x, y)
      BY <3>2, EmptyPart, WellReadConcat, SpareWords
    <3>4. ClockEnable(k) = <<>> \o t
      BY <2>1 DEF ClockEnable, t
    <3> QED
      BY <3>1, <3>3, <3>4 DEF Does, Means
  <2>4. ASSUME c.op = "clock_disable" PROVE WellRead(ClockDisable(k)) /\ Does(ClockDisable(k), c)
    <3>1. DOMAIN Effect(c) = {k} /\ DOMAIN Effect(c)[k] = {"out_en"} /\ Effect(c)[k]["out_en"] = 0
      BY <1>1, <2>4 DEF Effect, Only
    <3> QED
      BY <1>0, <2>1, <2>2, <3>1 DEF Does, Means, ClockDisable
  <2> QED
    BY <2>3, <2>4
<1>2. CASE k \notin Plls
  <2>1. k \in DOMAIN Bus /\ k \in Fields("clk_en_peri")
    BY <1>2, WordFields DEF Clocks, Bus, Plls
  <2>2. ASSUME c.op = "clock_enable" PROVE WellRead(ClockEnable(k)) /\ Does(ClockEnable(k), c)
    <3>1. /\ DOMAIN Effect(c) = {"clk_en_cent", "clk_en_peri"}
          /\ Effect(c)["clk_en_cent"] = Only(Bus[k], 1) /\ Effect(c)["clk_en_peri"] = Only(k, 1)
      BY <1>2, <2>2 DEF Effect
    <3>2. \A g : DOMAIN Only(g, 1) = {g} /\ Only(g, 1)[g] = 1
      BY Values, Zenon
    <3>3. \A w, g : Means(c, w, g) <=> (w = "clk_en_cent" /\ g = Bus[k]) \/ (w = "clk_en_peri" /\ g = k)
      <4>1. \A w : w \in DOMAIN Effect(c) <=> w = "clk_en_cent" \/ w = "clk_en_peri"
        BY <3>1
      <4>2. /\ \A g : g \in DOMAIN Effect(c)["clk_en_cent"] <=> g = Bus[k]
            /\ \A g : g \in DOMAIN Effect(c)["clk_en_peri"] <=> g = k
        BY <3>1, <3>2
      <4> QED
        BY <4>1, <4>2, Zenon DEF Means
    <3> QED
      BY <2>1, <3>1, <3>2, <3>3, GatePart DEF Does
  <2>3. ASSUME c.op = "clock_disable" PROVE WellRead(ClockDisable(k)) /\ Does(ClockDisable(k), c)
    <3>1. DOMAIN Effect(c) = {"clk_en_peri"} /\ Effect(c)["clk_en_peri"] = Only(k, 0)
      BY <1>2, <2>3 DEF Effect
    <3>2. DOMAIN Only(k, 0) = {k} /\ Only(k, 0)[k] = 0
      BY Values, Zenon
    <3>3. ClockDisable(k) = Put("clk_en_peri", Only(k, 0))
      BY <1>2 DEF ClockDisable, DeviceEn
    <3>4. \A w, g : Means(c, w, g) <=> w = "clk_en_peri" /\ g = k
      BY <3>1, <3>2 DEF Means
    <3> QED
      BY <1>0, <2>1, <3>1, <3>2, <3>3, <3>4, BitPart DEF Does
  <2> QED
    BY <2>2, <2>3
<1> QED
  BY <1>1, <1>2

LEMMA ResetDoes ==
    ASSUME NEW d \in Devices, NEW c, c.op = "reset", c.device = d
    PROVE  WellRead(ResetDevice(d)) /\ Does(ResetDevice(d), c)
<1>1. d \in Fields("peri_reset")
  BY WordFields DEF Devices
<1>2. DOMAIN Effect(c) = {"peri_reset"} /\ Effect(c)["peri_reset"] = Only(d, 0)
  BY DEF Effect
<1>3. DOMAIN Only(d, 0) = {d} /\ Only(d, 0)[d] = 0
  BY Values, Zenon
<1>4. \A w, g : Means(c, w, g) <=> w = "peri_reset" /\ g = d
  BY <1>2, <1>3 DEF Means
<1> QED
  BY <1>1, <1>2, <1>3, <1>4, ResetPart DEF Does

LEMMA DmaSelectDoes ==
    ASSUME NEW ch \in Channels, NEW s \in 0..1, NEW c, c.op = "dma_select", c.ch = ch, c.sel = s
    PROVE  WellRead(DmaSelect(ch, s)) /\ Does(DmaSelect(ch, s), c)
<1> DEFINE set(w) == IF w = SelWord(ch) THEN [sel |-> s] ELSE <<>>
           e == set("dma_sel0")
           f == set("dma_sel1")
           t == <<Load("dma_sel0"), Load("dma_sel1"), Store("dma_sel0", e), Store("dma_sel1", f)>>
<1>1. DmaSelect(ch, s) = t
  BY DEF DmaSelect
<1>2. SelWord(ch) \in {"dma_sel0", "dma_sel1"}
  BY DEF SelWord
<1>3. /\ [sel |-> s] \in AllFields /\ DOMAIN [sel |-> s] = {"sel"} /\ [sel |-> s]["sel"] = s
      /\ <<>> \in AllFields /\ DOMAIN <<>> = {}
  BY Values
<1>4. /\ e \in AllFields /\ f \in AllFields
      /\ \A g : g \in DOMAIN e <=> g = "sel" /\ SelWord(ch) = "dma_sel0"
      /\ \A g : g \in DOMAIN f <=> g = "sel" /\ SelWord(ch) = "dma_sel1"
      /\ SelWord(ch) = "dma_sel0" => e["sel"] = s
      /\ SelWord(ch) = "dma_sel1" => f["sel"] = s
  BY <1>3
<1> HIDE DEF e, f
<1>5. /\ "dma_sel0" \in Words /\ "dma_sel1" \in Words
      /\ DOMAIN e \subseteq Fields("dma_sel0") /\ DOMAIN f \subseteq Fields("dma_sel1")
  BY <1>4, WordFields
<1>6. /\ WellRead(t)
      /\ \A y, g : (y = "dma_sel0" => g \notin DOMAIN e) /\ (y = "dma_sel1" => g \notin DOMAIN f) => Spares(t, y, g)
      /\ \A g \in DOMAIN e : Leaves(t, "dma_sel0", g, e[g])
      /\ \A g \in DOMAIN f : Leaves(t, "dma_sel1", g, f[g])
  BY <1>4, <1>5, PairPart
<1> HIDE DEF t
<1>7. DOMAIN Effect(c) = {SelWord(ch)} /\ Effect(c)[SelWord(ch)] = [sel |-> s]
  BY DEF Effect, Only
<1>8. \A w, g : Means(c, w, g) <=> w = SelWord(ch) /\ g = "sel"
  BY <1>3, <1>7 DEF Means
<1>9. Leaves(t, SelWord(ch), "sel", s)
  BY <1>2, <1>4, <1>6
<1>10. ASSUME NEW w, NEW g, w # SelWord(ch) \/ g # "sel" PROVE Spares(t, w, g)
  BY <1>4, <1>6, <1>10
<1> QED
  BY <1>1, <1>3, <1>6, <1>7, <1>8, <1>9, <1>10 DEF Does

LEMMA CallKinds ==
    ASSUME NEW c \in Calls
    PROVE  /\ c # None
           /\ \/ c.op = "pll_set_freq" /\ c.pll \in Plls /\ c.freq \in AskedFreqs
              \/ c.op = "set_threshold" /\ c.div = 1
              \/ c.op = "set_clock_select" /\ c.sel = 1
              \/ c.op \in {"pll_enable", "pll_disable"} /\ c.pll = "pll1"
              \/ c.op = "fast_enable"
              \/ c.op \in {"clock_enable", "clock_disable"} /\ c.clock \in Clocks
              \/ c.op = "reset" /\ c.device \in Devices
              \/ c.op = "dma_select" /\ c.ch \in Channels /\ c.sel = 1
<1>1. CASE c \in [op : {"pll_set_freq"}, pll : {"pll1"}, freq : Freqs]
  BY <1>1 DEF None, Plls, AskedFreqs
<1>2. CASE c \in [op : {"pll_set_freq"}, pll : {"pll0"},
                  freq : {CpuPllFreq(f, div) : f \in CpuFreqs, div \in 0..1}]
  BY <1>2 DEF None, Plls, AskedFreqs
<1>3. CASE c \in [op : {"set_threshold"}, div : {1}] \/ c \in [op : {"set_clock_select"}, sel : {1}]
           \/ c \in [op : {"pll_enable", "pll_disable"}, pll : {"pll1"}] \/ c \in [op : {"fast_enable"}]
           \/ c \in [op : {"clock_enable", "clock_disable"}, clock : Clocks]
           \/ c \in [op : {"reset"}, device : Devices]
           \/ c \in [op : {"dma_select"}, ch : Channels, sel : {1}]
  BY <1>3 DEF None
<1> QED
  BY <1>1, <1>2, <1>3 DEF Calls

(* What ProgramOf gives does what Effect says. *)
LEMMA ProgramDoes ==
    ASSUME NEW c \in Calls
    PROVE  WellRead(ProgramOf(c)) /\ Does(ProgramOf(c), c)
<1>0. 0 \in 0..1 /\ 1 \in 0..1 /\ "clk_sel0" \in Words /\ "pll1" \in Plls /\ "pll1" \in Words
      /\ "pwrd" \in Fields("pll1") /\ "aclk_divider" \in Fields("clk_sel0") /\ "spi3" \in Fields("clk_sel0")
  BY WordFields DEF Plls
<1>1. CASE c.op = "pll_set_freq" /\ c.pll \in Plls /\ c.freq \in AskedFreqs
  BY <1>1, PllSetFreqDoes DEF ProgramOf
<1>2. CASE c.op = "set_threshold" /\ c.div = 1
  <2>1. DOMAIN Effect(c) = {"clk_sel0"} /\ Effect(c)["clk_sel0"] = [aclk_divider |-> 1]
    BY <1>2 DEF Effect
  <2>2. ProgramOf(c) = Put("clk_sel0", [aclk_divider |-> 1])
    BY <1>2 DEF ProgramOf
  <2> QED
    BY <1>0, <2>1, <2>2, PutDoes, Values, SMTT(30)
<1>3. CASE c.op = "set_clock_select" /\ c.sel = 1
  <2>1. DOMAIN Effect(c) = {"clk_sel0"} /\ Effect(c)["clk_sel0"] = [spi3 |-> 1]
    BY <1>3 DEF Effect
  <2>2. ProgramOf(c) = Put("clk_sel0", [spi3 |-> 1])
    BY <1>3 DEF ProgramOf
  <2> QED
    BY <1>0, <2>1, <2>2, PutDoes, Values, SMTT(30)
<1>4. CASE c.op = "pll_enable" /\ c.pll = "pll1"
  BY <1>0, <1>4, EnableDoes DEF ProgramOf
<1>5. CASE c.op = "pll_disable" /\ c.pll = "pll1"
  <2>1. DOMAIN Effect(c) = {"pll1"} /\ Effect(c)["pll1"] = [pwrd |-> 0]
    BY <1>5 DEF Effect, Only
  <2>2. ProgramOf(c) = Put("pll1", [pwrd |-> 0])
    BY <1>5 DEF ProgramOf, PllDisable
  <2> QED
    BY <1>0, <2>1, <2>2, PutDoes, Values, SMTT(30)
<1>6. CASE c.op = "fast_enable"
  BY <1>6, FastEnableDoes DEF ProgramOf
<1>7. CASE c.op \in {"clock_enable", "clock_disable"} /\ c.clock \in Clocks
  BY <1>7, GateDoes DEF ProgramOf
<1>8. CASE c.op = "dma_select" /\ c.ch \in Channels /\ c.sel = 1
  BY <1>0, <1>8, DmaSelectDoes DEF ProgramOf
<1>9. CASE c.op = "reset" /\ c.device \in Devices
  BY <1>9, ResetDoes DEF ProgramOf
<1> QED
  BY <1>1, <1>2, <1>3, <1>4, <1>5, <1>6, <1>7, <1>8, <1>9, CallKinds

-----------------------------------------------------------------------------
(* The CPU in the programs. *)

HasQuit(t) == QuitsFirst(t) /\ \E i \in 1 .. Len(t) : Quits(t[i])

LEMMA CpuConcat ==
    ASSUME NEW a \in Seq(Steps), NEW b \in Seq(Steps)
    PROVE  /\ ~Going(a) /\ ~Going(b) => ~Going(a \o b)
           /\ ~Going(a) /\ EntersLast(b) => EntersLast(a \o b)
           /\ EntersLast(a) /\ Calm(b) /\ ~Going(b) => EntersLast(a \o b)
           /\ Steady(a) /\ Steady(b) => Steady(a \o b)
           /\ AwaitsLock(a) /\ Steady(b) => AwaitsLock(a \o b)
           /\ AwaitsLock(b) => AwaitsLock(a \o b)
           /\ HasQuit(a) => HasQuit(a \o b)
<1> DEFINE t == a \o b
<1>1. ASSUME ~Going(a), ~Going(b), NEW k \in 1 .. Len(t) PROVE ~Enters(t[k])
  BY <1>1, Concat DEF Going
<1>2. ASSUME ~Going(a), EntersLast(b), NEW k \in 1 .. Len(t), Enters(t[k]), NEW l \in k + 1 .. Len(t)
      PROVE  ~Alters(t[l]) /\ ~Awaits(t[l], "pll0")
  <2>1. PICK i \in 1 .. Len(b) : k = Len(a) + i /\ t[k] = b[i]
    BY <1>2, Concat DEF Going
  <2>2. l \in 1 .. Len(t) /\ l \notin 1 .. Len(a)
    BY <2>1, Concat
  <2>3. PICK j \in 1 .. Len(b) : l = Len(a) + j /\ t[l] = b[j]
    BY <2>2, Concat
  <2>4. j \in i + 1 .. Len(b)
    BY <2>1, <2>3, Concat
  <2> QED
    BY <1>2, <2>1, <2>3, <2>4 DEF EntersLast
<1>6. ASSUME EntersLast(a), Calm(b), ~Going(b), NEW k \in 1 .. Len(t), Enters(t[k]), NEW l \in k + 1 .. Len(t)
      PROVE  ~Alters(t[l]) /\ ~Awaits(t[l], "pll0")
  <2>1. k \in 1 .. Len(a) /\ t[k] = a[k]
    BY <1>6, Concat DEF Going
  <2>2. l \in 1 .. Len(t)
    BY <2>1
  <2>3. CASE l \in 1 .. Len(a) /\ t[l] = a[l]
    <3>1. l \in k + 1 .. Len(a)
      BY <2>3
    <3> QED
      BY <1>6, <2>1, <2>3, <3>1 DEF EntersLast
  <2>4. CASE \E j \in 1 .. Len(b) : l = Len(a) + j /\ t[l] = b[j]
    BY <1>6, <2>4 DEF Calm
  <2>5. \/ l \in 1 .. Len(a) /\ t[l] = a[l]
        \/ \E j \in 1 .. Len(b) : l = Len(a) + j /\ t[l] = b[j]
    BY <2>2, Concat
  <2> QED
    BY <2>3, <2>4, <2>5
<1>7. ASSUME Steady(a), Steady(b), NEW k \in 1 .. Len(t) PROVE ~Unlocks(t[k])
  <2>1. \/ k \in 1 .. Len(a) /\ t[k] = a[k]
        \/ \E j \in 1 .. Len(b) : k = Len(a) + j /\ t[k] = b[j]
    BY Concat
  <2> QED
    BY <1>7, <2>1 DEF Steady
<1>3. ASSUME AwaitsLock(a), Steady(b) PROVE AwaitsLock(t)
  <2>1. PICK i \in 1 .. Len(a) : Awaits(a[i], "pll0") /\ \A j \in i + 1 .. Len(a) : ~Unlocks(a[j])
    BY <1>3 DEF AwaitsLock
  <2>2. i \in 1 .. Len(t) /\ Awaits(t[i], "pll0")
    BY <2>1, Concat
  <2>3. ASSUME NEW k \in i + 1 .. Len(t) PROVE ~Unlocks(t[k])
    <3>1. k \in 1 .. Len(t)
      BY <2>3, <2>2
    <3>2. CASE k \in 1 .. Len(a) /\ t[k] = a[k]
      BY <2>1, <3>2, Concat
    <3>3. CASE \E j \in 1 .. Len(b) : k = Len(a) + j /\ t[k] = b[j]
      BY <1>3, <3>3 DEF Steady
    <3> QED
      BY <3>1, <3>2, <3>3, Concat
  <2> QED
    BY <2>2, <2>3 DEF AwaitsLock
<1>4. ASSUME AwaitsLock(b) PROVE AwaitsLock(t)
  <2>1. PICK i \in 1 .. Len(b) : Awaits(b[i], "pll0") /\ \A j \in i + 1 .. Len(b) : ~Unlocks(b[j])
    BY <1>4 DEF AwaitsLock
  <2>2. Len(a) + i \in 1 .. Len(t) /\ Awaits(t[Len(a) + i], "pll0")
    BY <2>1, Concat
  <2>3. ASSUME NEW k \in (Len(a) + i) + 1 .. Len(t) PROVE ~Unlocks(t[k])
    <3>1. k \in 1 .. Len(t) /\ k \notin 1 .. Len(a)
      BY Concat
    <3>2. PICK j \in 1 .. Len(b) : k = Len(a) + j /\ t[k] = b[j]
      BY <3>1, Concat
    <3>3. j \in i + 1 .. Len(b)
      BY <3>2, Concat
    <3> QED
      BY <2>1, <3>2, <3>3
  <2> QED
    BY <2>2, <2>3 DEF AwaitsLock
<1>5. ASSUME HasQuit(a) PROVE HasQuit(t)
  <2>1. PICK i \in 1 .. Len(a) : Quits(a[i])
    BY <1>5 DEF HasQuit
  <2>2. i \in 1 .. Len(t) /\ Quits(t[i])
    BY <2>1, Concat
  <2>3. ASSUME NEW k \in 1 .. Len(t), Alters(t[k]) PROVE \E j \in 1 .. k - 1 : Quits(t[j])
    <3>1. CASE k \in 1 .. Len(a) /\ t[k] = a[k]
      <4>1. PICK j \in 1 .. k - 1 : Quits(a[j])
        BY <1>5, <2>3, <3>1 DEF HasQuit, QuitsFirst
      <4>2. j \in 1 .. Len(a)
        BY <3>1
      <4> QED
        BY <4>1, <4>2, Concat
    <3>2. CASE \E j \in 1 .. Len(b) : k = Len(a) + j /\ t[k] = b[j]
      <4>1. i \in 1 .. k - 1
        BY <3>2, Concat
      <4> QED
        BY <2>2, <4>1
    <3> QED
      BY <3>1, <3>2, Concat, ZenonT(30)
  <2> QED
    BY <2>2, <2>3 DEF HasQuit, QuitsFirst
<1> QED
  BY <1>1, <1>2, <1>3, <1>4, <1>5, <1>6, <1>7 DEF EntersLast, Going, Steady

(* What follows when fields are spared. *)
LEMMA SparesCpu ==
    ASSUME NEW t
    PROVE  /\ Spares(t, "clk_sel0", "aclk_sel") => ~Going(t) /\ EntersLast(t)
           /\ (\A g \in {"pwrd", "reset", "div"} : Spares(t, "pll0", g)) => Steady(t)
           /\ (\A g \in Fields("pll0") : Spares(t, "pll0", g)) => ~Touches(t) /\ QuitsFirst(t)
  BY DEF Spares, Going, EntersLast, Enters, Puts, Steady, Unlocks, Touches, QuitsFirst, Alters

LEMMA SelectCpu ==
    /\ ~Going(SelectAclk(0)) /\ HasQuit(SelectAclk(0)) /\ EntersLast(SelectAclk(1))
    /\ Steady(SelectAclk(1))
<1>0. 0 \in 0..1 /\ 1 \in 0..1 /\ \A g \in Fields("pll0") : g # "aclk_sel"
  BY WordFields DEF Plls
<1>1. /\ Len(SelectAclk(0)) = 2 /\ Puts(SelectAclk(0)[2], "clk_sel0", "aclk_sel", 0)
      /\ SelectAclk(0)[1].do = "load" /\ \A g \in Fields("pll0") : Spares(SelectAclk(0), "pll0", g)
  BY <1>0, SelectPart
<1>2. /\ Len(SelectAclk(1)) = 2 /\ SelectAclk(1)[1].do = "load"
      /\ \A g \in {"pwrd", "reset", "div"} : Spares(SelectAclk(1), "pll0", g)
  BY <1>0, SelectPart
<1>3. ~Going(SelectAclk(0)) /\ EntersLast(SelectAclk(1))
  <2>1. \A i \in 1 .. 2 : i = 1 \/ i = 2
    OBVIOUS
  <2>2. ~Enters(SelectAclk(0)[1]) /\ ~Enters(SelectAclk(0)[2]) /\ ~Enters(SelectAclk(1)[1])
    BY <1>1, <1>2 DEF Enters, Puts, Sets, Stores
  <2>3. ~Going(SelectAclk(0))
    BY <1>1, <2>1, <2>2 DEF Going
  <2> QED
    <3>1. ASSUME NEW i \in 1 .. 2, Enters(SelectAclk(1)[i]), NEW j \in i + 1 .. 2 PROVE FALSE
      <4>1. i # 1
        BY <2>2, <3>1
      <4> QED
        BY <4>1
    <3> QED
      BY <1>2, <2>3, <3>1 DEF EntersLast
<1>4. HasQuit(SelectAclk(0))
  <2>1. 2 \in 1 .. Len(SelectAclk(0)) /\ Quits(SelectAclk(0)[2])
    BY <1>1 DEF Quits
  <2> QED
    BY <1>1, <2>1, SparesCpu DEF HasQuit
<1> QED
  BY <1>2, <1>3, <1>4, SparesCpu

LEMMA WaitCpu == AwaitsLock(WaitLock("pll0"))
<1>1. "pll0" \in Plls
  BY DEF Plls
<1>2. Len(WaitLock("pll0")) = 1 /\ Awaits(WaitLock("pll0")[1], "pll0")
  BY <1>1, WaitPart
<1>3. 1 \in 1 .. 1 /\ \A j \in 1 + 1 .. 1 : FALSE
  OBVIOUS
<1> QED
  BY <1>2, <1>3 DEF AwaitsLock

LEMMA EndCpu ==
    LET t == SelectAclk(1) \o UartInit
    IN t \in Seq(Steps) /\ EntersLast(t) /\ Steady(t)
<1>1. SelectAclk(1) \in Seq(Steps) /\ UartInit \in Seq(Steps)
  <2>1. 1 \in 0..1
    OBVIOUS
  <2> QED
    BY <2>1, SelectPart, UartPart DEF WellRead
<1>2. ~Going(UartInit) /\ Steady(UartInit)
  <2>1. Spares(UartInit, "clk_sel0", "aclk_sel")
    BY UartPart
  <2>2. \A g : Spares(UartInit, "pll0", g)
    BY UartPart DEF Ending
  <2> QED
    BY <2>1, <2>2, SparesCpu
<1> QED
  BY <1>1, <1>2, SelectCpu, UartPart, CpuConcat, Concat

(* The CPU leaves PLL0 before it is changed and is back once it has locked. *)
LEMMA PllSetFreqCpu ==
    ASSUME NEW f \in AskedFreqs
    PROVE  EntersLast(PllSetFreq("pll0", f)) /\ AwaitsLock(PllSetFreq("pll0", f)) /\ HasQuit(PllSetFreq("pll0", f))
<1> DEFINE A1 == SelectAclk(0)
           A2 == Put("pll0", [out_en |-> 0])
           A3 == Put("pll0", [pwrd |-> 0])
           A4 == SetValue("pll0", f)
           A5 == Put("pll0", [pwrd |-> 1])
           A6 == PulseReset("pll0")
           A7 == WaitLock("pll0")
           A8 == Put("pll0", [out_en |-> 1])
           A9 == SelectAclk(1) \o UartInit
           B2 == A1 \o A2
           B3 == B2 \o A3
           B4 == B3 \o A4
           B5 == B4 \o A5
           B6 == B5 \o A6
           B7 == B6 \o A7
           B8 == B7 \o A8
           B9 == B8 \o A9
<1>0. 0 \in 0..1 /\ 1 \in 0..1 /\ "pll0" \in Plls
  BY DEF Plls
<1>1. /\ A1 \in Seq(Steps) /\ ~Going(A1) /\ HasQuit(A1)
      /\ A9 \in Seq(Steps) /\ EntersLast(A9) /\ Steady(A9)
  BY <1>0, SelectPart, SelectCpu, EndCpu DEF WellRead
<1>2. /\ A2 \in Seq(Steps) /\ ~Going(A2) /\ A3 \in Seq(Steps) /\ ~Going(A3)
      /\ A5 \in Seq(Steps) /\ ~Going(A5) /\ A8 \in Seq(Steps) /\ ~Going(A8) /\ Steady(A8)
  BY <1>0, FieldPart, SparesCpu DEF WellRead
<1>3. A4 \in Seq(Steps) /\ ~Going(A4)
  BY <1>0, SetPart, SparesCpu DEF WellRead
<1>4. A6 \in Seq(Steps) /\ ~Going(A6)
  BY <1>0, PulsePart, SparesCpu DEF WellRead
<1>5. A7 \in Seq(Steps) /\ ~Going(A7) /\ AwaitsLock(A7)
  BY <1>0, WaitPart, WaitCpu, SparesCpu DEF WellRead
<1>6. PllSetFreq("pll0", f) = B9
  BY DEF PllSetFreq
<1> HIDE DEF A1, A2, A3, A4, A5, A6, A7, A8, A9
<1>7. B2 \in Seq(Steps) /\ ~Going(B2) /\ HasQuit(B2)
  BY <1>1, <1>2, CpuConcat, Concat
<1>8. B3 \in Seq(Steps) /\ ~Going(B3) /\ HasQuit(B3)
  BY <1>2, <1>7, CpuConcat, Concat
<1>9. B4 \in Seq(Steps) /\ ~Going(B4) /\ HasQuit(B4)
  BY <1>3, <1>8, CpuConcat, Concat
<1>10. B5 \in Seq(Steps) /\ ~Going(B5) /\ HasQuit(B5)
  BY <1>2, <1>9, CpuConcat, Concat
<1>11. B6 \in Seq(Steps) /\ ~Going(B6) /\ HasQuit(B6)
  BY <1>4, <1>10, CpuConcat, Concat
<1>12. B7 \in Seq(Steps) /\ ~Going(B7) /\ HasQuit(B7) /\ AwaitsLock(B7)
  BY <1>5, <1>11, CpuConcat, Concat
<1>13. B8 \in Seq(Steps) /\ ~Going(B8) /\ HasQuit(B8) /\ AwaitsLock(B8)
  BY <1>2, <1>12, CpuConcat, Concat
<1>14. EntersLast(B9) /\ HasQuit(B9) /\ AwaitsLock(B9)
  BY <1>1, <1>13, CpuConcat
<1> QED
  BY <1>6, <1>14

LEMMA FastEnableCpu == EntersLast(FastEnable) /\ AwaitsLock(FastEnable)
<1> DEFINE A1 == <<Load("pll0"), Load("pll1"),
                   Store("pll0", [div |-> FastDiv["pll0"]]), Store("pll1", [div |-> FastDiv["pll1"]])>>
           A2 == PllEnable("pll0")
           A3 == PllEnable("pll1")
           A4 == WaitLock("pll0")
           A5 == WaitLock("pll1")
           A6 == Put("pll0", [out_en |-> 1])
           A7 == Put("pll1", [out_en |-> 1])
           A8 == SelectAclk(1)
           B2 == A1 \o A2
           B3 == B2 \o A3
           B4 == B3 \o A4
           B5 == B4 \o A5
           B6 == B5 \o A6
           B7 == B6 \o A7
           B8 == B7 \o A8
<1>0. 1 \in 0..1 /\ Plls = {"pll0", "pll1"}
  BY DEF Plls
<1>1. A1 \in Seq(Steps) /\ ~Going(A1)
  <2> DEFINE e == [div |-> FastDiv["pll0"]]
             f == [div |-> FastDiv["pll1"]]
  <2>1. e \in AllFields /\ f \in AllFields /\ DOMAIN e = {"div"} /\ DOMAIN f = {"div"}
    BY <1>0, Values DEF Divs
  <2>2. "pll0" \in Words /\ "pll1" \in Words /\ "div" \in Fields("pll0") /\ "div" \in Fields("pll1")
    BY <1>0, WordFields
  <2>3. A1 = <<Load("pll0"), Load("pll1"), Store("pll0", e), Store("pll1", f)>>
    OBVIOUS
  <2> HIDE DEF e, f
  <2> QED
    BY <1>0, <2>1, <2>2, <2>3, PairPart, SparesCpu DEF WellRead
<1>2. A2 \in Seq(Steps) /\ ~Going(A2) /\ A3 \in Seq(Steps) /\ ~Going(A3)
  BY <1>0, EnablePart, SparesCpu DEF WellRead
<1>3. A4 \in Seq(Steps) /\ ~Going(A4) /\ AwaitsLock(A4) /\ A5 \in Seq(Steps) /\ ~Going(A5) /\ Steady(A5)
  BY <1>0, WaitPart, WaitCpu, SparesCpu DEF WellRead
<1>4. A6 \in Seq(Steps) /\ ~Going(A6) /\ Steady(A6) /\ A7 \in Seq(Steps) /\ ~Going(A7) /\ Steady(A7)
  BY <1>0, FieldPart, SparesCpu DEF WellRead
<1>5. A8 \in Seq(Steps) /\ EntersLast(A8) /\ Steady(A8)
  BY <1>0, SelectPart, SelectCpu DEF WellRead
<1>6. FastEnable = B8
  BY DEF FastEnable
<1> HIDE DEF A1, A2, A3, A4, A5, A6, A7, A8
<1>7. B2 \in Seq(Steps) /\ ~Going(B2)
  BY <1>1, <1>2, CpuConcat, Concat
<1>8. B3 \in Seq(Steps) /\ ~Going(B3)
  BY <1>2, <1>7, CpuConcat, Concat
<1>9. B4 \in Seq(Steps) /\ ~Going(B4) /\ AwaitsLock(B4)
  BY <1>3, <1>8, CpuConcat, Concat
<1>10. B5 \in Seq(Steps) /\ ~Going(B5) /\ AwaitsLock(B5)
  BY <1>3, <1>9, CpuConcat, Concat
<1>11. B6 \in Seq(Steps) /\ ~Going(B6) /\ AwaitsLock(B6)
  BY <1>4, <1>10, CpuConcat, Concat
<1>12. B7 \in Seq(Steps) /\ ~Going(B7) /\ AwaitsLock(B7)
  BY <1>4, <1>11, CpuConcat, Concat
<1>13. EntersLast(B8) /\ AwaitsLock(B8)
  BY <1>5, <1>12, CpuConcat
<1> QED
  BY <1>6, <1>13

(* A call that sends the CPU to PLL0 leaves PLL0 running, and one that     *)
(* changes PLL0 takes the CPU off it first or is sysctl_clock_enable's.    *)
LEMMA ProgramCpu ==
    ASSUME NEW c \in Calls
    PROVE  LET t == ProgramOf(c) IN
           /\ EntersLast(t)
           /\ Going(t) \/ Touches(t) => CpuMeant(c) /\ AwaitsLock(t)
           /\ Touches(t) => QuitsFirst(t) \/ c.op = "fast_enable"
<1> DEFINE t == ProgramOf(c)
<1>0. /\ "clk_sel0" \in Words /\ "pll0" \in Words /\ "pll0" \in Plls /\ "aclk_sel" \in Fields("clk_sel0")
      /\ Fields("pll0") = {"pwrd", "reset", "out_en", "div"}
  BY WordFields DEF Plls
<1>1. CASE c.op = "pll_set_freq" /\ c.pll = "pll0" /\ c.freq \in AskedFreqs
  <2>1. EntersLast(t) /\ AwaitsLock(t) /\ QuitsFirst(t)
    BY <1>1, PllSetFreqCpu DEF ProgramOf, HasQuit
  <2> DEFINE E == Effect(c)
  <2>2. /\ E = Over(Only("pll0", Over(NewValue(c.freq), [pwrd |-> 1, reset |-> 0, out_en |-> 1])),
                    [clk_sel0 |-> [aclk_sel |-> 1], clk_en_cent |-> [apb0 |-> 1],
                     clk_en_peri |-> [uart3 |-> 1], peri_reset |-> [uart3 |-> 0]])
    BY <1>1 DEF Effect
  <2>3. /\ {"pll0", "clk_sel0"} \subseteq DOMAIN E
        /\ E["pll0"] = Over(NewValue(c.freq), [pwrd |-> 1, reset |-> 0, out_en |-> 1])
        /\ E["clk_sel0"] = [aclk_sel |-> 1]
    BY <2>2 DEF Over, Only
  <2>4. /\ {"pwrd", "reset", "out_en"} \subseteq DOMAIN E["pll0"]
        /\ E["pll0"]["pwrd"] = 1 /\ E["pll0"]["reset"] = 0 /\ E["pll0"]["out_en"] = 1
        /\ "aclk_sel" \in DOMAIN E["clk_sel0"]
    BY <1>1, <2>3, NewFields DEF Over
  <2> QED
    BY <2>1, <2>3, <2>4 DEF Means, CpuMeant
<1>2. CASE c.op = "fast_enable"
  <2>1. EntersLast(t) /\ AwaitsLock(t)
    BY <1>2, FastEnableCpu DEF ProgramOf
  <2>2. /\ {"pll0", "clk_sel0"} \subseteq DOMAIN Effect(c)
        /\ Effect(c)["pll0"] = [pwrd |-> 1, reset |-> 0, out_en |-> 1, div |-> FastDiv["pll0"]]
        /\ Effect(c)["clk_sel0"] = [aclk_sel |-> 1]
    BY <1>2 DEF Effect, Over, Plls
  <2> QED
    BY <1>2, <2>1, <2>2 DEF Means, CpuMeant
<1>3. CASE ~Means(c, "clk_sel0", "aclk_sel") /\ \A g \in Fields("pll0") : ~Means(c, "pll0", g)
  BY <1>0, <1>3, ProgramDoes, SparesCpu DEF Does
<1>4. CASE c.op = "pll_set_freq" /\ c.pll \in Plls /\ c.pll # "pll0"
  <2>1. DOMAIN Effect(c) = {c.pll}
    BY <1>4 DEF Effect, Over, Only
  <2>2. c.pll # "clk_sel0"
    BY <1>4 DEF Plls
  <2> QED
    BY <1>3, <1>4, <2>1, <2>2 DEF Means
<1>5. CASE \/ c.op = "set_threshold" \/ c.op = "set_clock_select"
           \/ c.op \in {"pll_enable", "pll_disable"} /\ c.pll = "pll1"
  <2>1. ~Means(c, "clk_sel0", "aclk_sel") /\ \A g : ~Means(c, "pll0", g)
    BY <1>5 DEF Means, Effect, Only
  <2> QED
    BY <1>3, <2>1
<1>6. CASE c.op \in {"clock_enable", "clock_disable"} /\ c.clock \in Clocks
  <2>1. ~Means(c, "clk_sel0", "aclk_sel") /\ \A g : ~Means(c, "pll0", g)
    BY <1>6 DEF Means, Effect, Only, Clocks
  <2> QED
    BY <1>3, <2>1
<1>7. CASE c.op = "dma_select"
  <2>1. ~Means(c, "clk_sel0", "aclk_sel") /\ \A g : ~Means(c, "pll0", g)
    BY <1>7 DEF Means, Effect, Only, SelWord
  <2> QED
    BY <1>3, <2>1
<1>8. CASE c.op = "reset"
  <2>1. ~Means(c, "clk_sel0", "aclk_sel") /\ \A g : ~Means(c, "pll0", g)
    BY <1>8 DEF Means, Effect
  <2> QED
    BY <1>3, <2>1
<1> QED
  BY <1>1, <1>2, <1>4, <1>5, <1>6, <1>7, <1>8, CallKinds

-----------------------------------------------------------------------------
(* Steps.                                                                  *)

LEMMA CoveredMore ==
    ASSUME NEW t, NEW C, NEW D, Covered(t, C),
           \A i \in 1 .. Len(t) : t[i].do = "store" /\ t[i].word \in C => t[i].word \in D
    PROVE  Covered(t, D)
  BY DEF Covered

LEMMA CpuTail ==
    ASSUME NEW t \in Seq(Steps), t # <<>>
    PROVE  /\ EntersLast(t) => EntersLast(Tail(t)) /\ (Enters(Head(t)) => Calm(Tail(t)))
           /\ Going(Tail(t)) \/ Enters(Head(t)) => Going(t)
           /\ AwaitsLock(t) => AwaitsLock(Tail(t)) \/ (Awaits(Head(t), "pll0") /\ Steady(Tail(t)))
           /\ Steady(t) => ~Unlocks(Head(t)) /\ Steady(Tail(t))
           /\ Touches(Tail(t)) \/ Alters(Head(t)) => Touches(t)
           /\ QuitsFirst(t) => ~Alters(Head(t)) /\ (QuitsFirst(Tail(t)) \/ Quits(Head(t)))
<1>1. ASSUME EntersLast(t) PROVE EntersLast(Tail(t)) /\ (Enters(Head(t)) => Calm(Tail(t)))
  <2>1. ASSUME NEW i \in 1 .. Len(Tail(t)), Enters(Tail(t)[i]), NEW j \in i + 1 .. Len(Tail(t))
        PROVE  ~Alters(Tail(t)[j]) /\ ~Awaits(Tail(t)[j], "pll0")
    <3>1. i + 1 \in 1 .. Len(t) /\ Enters(t[i + 1])
      BY <2>1, Ahead
    <3>2. j \in 1 .. Len(Tail(t))
      BY <2>1
    <3>3. j + 1 \in (i + 1) + 1 .. Len(t) /\ Tail(t)[j] = t[j + 1]
      BY <2>1, <3>2, Ahead
    <3> QED
      BY <1>1, <3>1, <3>3 DEF EntersLast
  <2>2. ASSUME Enters(Head(t)), NEW j \in 1 .. Len(Tail(t))
        PROVE  ~Alters(Tail(t)[j]) /\ ~Awaits(Tail(t)[j], "pll0")
    <3>1. j + 1 \in 1 + 1 .. Len(t) /\ Tail(t)[j] = t[j + 1]
      BY <2>2, Ahead
    <3> QED
      BY <1>1, <2>2, <3>1, Ahead DEF EntersLast
  <2> QED
    BY <2>1, <2>2 DEF EntersLast, Calm
<1>2. Going(Tail(t)) \/ Enters(Head(t)) => Going(t)
  BY Ahead DEF Going
<1>3. ASSUME AwaitsLock(t)
      PROVE  AwaitsLock(Tail(t)) \/ (Awaits(Head(t), "pll0") /\ Steady(Tail(t)))
  <2>1. PICK i \in 1 .. Len(t) : Awaits(t[i], "pll0") /\ \A j \in i + 1 .. Len(t) : ~Unlocks(t[j])
    BY <1>3 DEF AwaitsLock
  <2>2. \A k \in i .. Len(Tail(t)) : ~Unlocks(Tail(t)[k])
    BY <2>1, Ahead
  <2>3. CASE i = 1
    BY <2>1, <2>2, <2>3, Ahead DEF Steady
  <2>4. CASE i # 1
    <3>1. i - 1 \in 1 .. Len(Tail(t)) /\ Tail(t)[i - 1] = t[i] /\ (i - 1) + 1 = i
      BY <2>4, Ahead
    <3> QED
      BY <2>1, <2>2, <3>1 DEF AwaitsLock
  <2> QED
    BY <2>3, <2>4
<1>4. Steady(t) => ~Unlocks(Head(t)) /\ Steady(Tail(t))
  BY Ahead DEF Steady
<1>5. Touches(Tail(t)) \/ Alters(Head(t)) => Touches(t)
  BY Ahead DEF Touches
<1>6. ASSUME QuitsFirst(t) PROVE ~Alters(Head(t)) /\ (QuitsFirst(Tail(t)) \/ Quits(Head(t)))
  <2>1. ~Alters(Head(t))
    <3>1. \A j \in 1 .. 1 - 1 : FALSE
      OBVIOUS
    <3> QED
      BY <1>6, <3>1, Ahead DEF QuitsFirst
  <2>2. ASSUME ~Quits(Head(t)), NEW i \in 1 .. Len(Tail(t)), Alters(Tail(t)[i])
        PROVE  \E j \in 1 .. i - 1 : Quits(Tail(t)[j])
    <3>1. i + 1 \in 1 .. Len(t) /\ Alters(t[i + 1])
      BY <2>2, Ahead
    <3>2. PICK j \in 1 .. (i + 1) - 1 : Quits(t[j])
      BY <1>6, <3>1 DEF QuitsFirst
    <3>3. j # 1
      BY <2>2, <3>2, Ahead
    <3>4. j \in 1 .. Len(t)
      BY <3>1, <3>2
    <3>5. j - 1 \in 1 .. i - 1 /\ Tail(t)[j - 1] = t[j]
      BY <3>2, <3>3, <3>4, Ahead
    <3> QED
      BY <3>2, <3>5
  <2> QED
    BY <2>1, <2>2 DEF QuitsFirst
<1> QED
  BY <1>1, <1>2, <1>3, <1>4, <1>5, <1>6

LEMMA EmptyProgram ==
    /\ EntersLast(<<>>) /\ ~Going(<<>>) /\ ~Touches(<<>>) /\ Steady(<<>>) /\ ~AwaitsLock(<<>>)
    /\ \A w, g : Spares(<<>>, w, g) /\ \A v : ~Leaves(<<>>, w, g, v)
    /\ \A C : Covered(<<>>, C)
  BY EmptySeq DEF EntersLast, Going, Touches, Steady, AwaitsLock, Spares, Leaves, Covered

(* An effect is on fields of the words, and on one at least of each word.  *)
LEMMA EffectFields ==
    ASSUME NEW c \in Calls, NEW w \in DOMAIN Effect(c)
    PROVE  w \in Words /\ DOMAIN Effect(c)[w] \subseteq Fields(w) /\ DOMAIN Effect(c)[w] # {}
<1>1. CASE c.op = "pll_set_freq" /\ c.pll \in Plls /\ c.freq \in AskedFreqs
  <2>1. /\ DOMAIN Effect(c) \subseteq {c.pll, "clk_sel0", "clk_en_cent", "clk_en_peri", "peri_reset"}
        /\ c.pll \notin {"clk_sel0", "clk_en_cent", "clk_en_peri", "peri_reset"}
        /\ Effect(c)[c.pll] = Over(NewValue(c.freq), [pwrd |-> 1, reset |-> 0, out_en |-> 1])
        /\ w = "clk_sel0" => DOMAIN Effect(c)[w] = {"aclk_sel"}
        /\ w = "clk_en_cent" => DOMAIN Effect(c)[w] = {"apb0"}
        /\ w \in {"clk_en_peri", "peri_reset"} => DOMAIN Effect(c)[w] = {"uart3"}
    BY <1>1 DEF Effect, Over, Only, Plls
  <2>2. /\ DOMAIN Effect(c)[c.pll] \subseteq {"pwrd", "reset", "out_en", "div"}
        /\ "pwrd" \in DOMAIN Effect(c)[c.pll]
    BY <1>1, <2>1, NewFields DEF Over
  <2> QED
    BY <1>1, <2>1, <2>2, WordFields
<1>2. CASE c.op = "fast_enable"
  <2>1. /\ DOMAIN Effect(c) \subseteq Plls \cup {"clk_sel0"}
        /\ \A p \in Plls : DOMAIN Effect(c)[p] = {"pwrd", "reset", "out_en", "div"}
        /\ DOMAIN Effect(c)["clk_sel0"] = {"aclk_sel"}
    BY <1>2 DEF Effect, Over, Plls
  <2> QED
    BY <2>1, WordFields
<1>3. CASE \/ c.op = "set_threshold" \/ c.op = "set_clock_select"
           \/ c.op \in {"pll_enable", "pll_disable"} /\ c.pll = "pll1"
  <2>1. \/ w = "clk_sel0" /\ DOMAIN Effect(c)[w] \in {{"aclk_divider"}, {"spi3"}}
        \/ w = "pll1" /\ DOMAIN Effect(c)[w] \in {{"pwrd", "reset"}, {"pwrd"}}
    BY <1>3 DEF Effect, Only
  <2>2. "pll1" \in Plls
    BY DEF Plls
  <2> QED
    BY <2>1, <2>2, WordFields
<1>4. CASE c.op \in {"clock_enable", "clock_disable"} /\ c.clock \in Clocks
  <2>1. CASE c.clock \in Plls
    <3>1. w = c.clock /\ DOMAIN Effect(c)[w] = {"out_en"}
      BY <1>4, <2>1 DEF Effect, Only
    <3> QED
      BY <2>1, <3>1, WordFields
  <2>2. CASE c.clock \notin Plls
    <3>1. c.clock \in {"i2c0", "aes"} /\ Bus[c.clock] \in {"apb0", "apb1"}
      BY <1>4, <2>2 DEF Clocks, Plls, Bus
    <3>2. \/ w = "clk_en_cent" /\ DOMAIN Effect(c)[w] = {Bus[c.clock]}
          \/ w = "clk_en_peri" /\ DOMAIN Effect(c)[w] = {c.clock}
      BY <1>4, <2>2 DEF Effect, Only
    <3> QED
      BY <3>1, <3>2, WordFields
  <2> QED
    BY <2>1, <2>2
<1>5. CASE c.op = "dma_select"
  BY <1>5, WordFields DEF Effect, Only, SelWord
<1>6. CASE c.op = "reset" /\ c.device \in Devices
  BY <1>6, WordFields DEF Effect, Only, Devices
<1> QED
  BY <1>1, <1>2, <1>3, <1>4, <1>5, <1>6, CallKinds

LEMMA NothingMeant == \A w, g : ~Means(None, w, g)
<1>1. Effect(None) = <<>>
  BY DEF Effect, None
<1> QED
  BY <1>1, Values DEF Means

(* A hart that does not move, and whose undisputed fields do not change.   *)
LEMMA OthersKept ==
    ASSUME NEW g \in Harts, Types, Own(g),
           todo'[g] = todo[g], call'[g] = call[g], disputed \subseteq disputed',
           \A x \in Fresh(g) : x \in Fresh(g)',
           \A w \in Words : \A f \in Fields(w) :
               Means(call[g], w, f) /\ <<w, f>> \notin disputed' => reg'[w][f] = reg[w][f],
           Clear' /\ Going(todo[g]) /\ Steady(todo[g]) /\ locked["pll0"] => locked'["pll0"]
    PROVE  Own(g)'
<1>1. Read(g)'
  <2>1. \A i \in 1 .. Len(todo[g]) :
           todo[g][i].do = "store" /\ todo[g][i].word \in Fresh(g) => todo[g][i].word \in Fresh(g)'
    OBVIOUS
  <2> QED
    BY <2>1, CoveredMore DEF Own, Read
<1>2. Settling(g)'
  BY DEF Own, Settling
<1>3. Clear' => Clear
  BY DEF Clear
<1>4. Entering(g)'
  BY <1>3 DEF Own, Entering
<1>5. Quitting(g)'
  <2>1. ASSUME Touches(todo[g]), Clear' PROVE reg'["clk_sel0"].aclk_sel = reg["clk_sel0"].aclk_sel
    <3>1. Means(call[g], "clk_sel0", "aclk_sel")
      BY <2>1 DEF Own, Quitting, CpuMeant
    <3>2. <<"clk_sel0", "aclk_sel">> \notin disputed'
      BY <2>1 DEF Clear, CpuFields
    <3> QED
      BY <3>1, <3>2, WordFields
  <2> QED
    BY <1>3, <2>1 DEF Own, Quitting
<1> QED
  BY <1>1, <1>2, <1>4, <1>5 DEF Own

LEMMA Moved ==
    ASSUME NEW h \in Harts, Types, todo[h] # <<>>, Advance(h)
    PROVE  /\ todo[h] \in Seq(Steps) /\ call[h] # None
           /\ todo' \in [Harts -> Seq(Steps)]
           /\ todo'[h] = Tail(todo[h]) /\ \A g \in Harts : g # h => todo'[g] = todo[g]
<1>1. todo[h] \in Seq(Steps) /\ call[h] # None /\ todo' = [todo EXCEPT ![h] = Tail(todo[h])]
  BY DEF Types, Advance
<1> QED
  BY <1>1, Ahead DEF Types

LEMMA StepKinds ==
    ASSUME NEW s \in Steps
    PROVE  /\ s.word \in Words
           /\ s.do = "store" => DOMAIN s.fields \subseteq Fields(s.word)
  BY DEF Steps, Load, Store, Fields

(* A step that stores nothing. *)
LEMMA OwnTail ==
    ASSUME NEW h \in Harts, IInv, todo[h] # <<>>, Advance(h), Head(todo[h]).do # "store",
           \A w : Loads(Head(todo[h]), w) => w \in Fresh(h)', Fresh(h) \subseteq Fresh(h)',
           UNCHANGED <<reg, disputed, call, locked>>,
           Awaits(Head(todo[h]), "pll0") => locked["pll0"]
    PROVE  Own(h)'
<1> DEFINE t == todo[h]
           s == Head(t)
<1>1. t \in Seq(Steps) /\ t # <<>> /\ todo'[h] = Tail(t) /\ Own(h)
  BY Moved DEF IInv
<1>2. \A w, g, v : ~Stores(s, w) /\ ~Sets(s, w, g) /\ ~Puts(s, w, g, v)
  BY DEF Puts, Sets, Stores
<1>3. ~Enters(s) /\ ~Alters(s) /\ ~Quits(s)
  BY <1>2 DEF Enters, Alters, Quits
<1> HIDE DEF t
<1>4. Read(h)'
  <2>1. Covered(t, Fresh(h))
    BY <1>1 DEF Own, Read, t
  <2>2. Covered(Tail(t), Fresh(h)')
    BY <1>1, <2>1, CoveredTail DEF t
  <2> QED
    BY <1>1, <2>2 DEF Read
<1>5. Settling(h)'
  <2>1. ASSUME NEW w \in Words, NEW g \in Fields(w)
        PROVE  /\ ~Means(call[h], w, g) => Spares(Tail(t), w, g)
               /\ Means(call[h], w, g) /\ <<w, g>> \notin disputed =>
                    \/ Leaves(Tail(t), w, g, Effect(call[h])[w][g])
                    \/ Spares(Tail(t), w, g) /\ reg[w][g] = Effect(call[h])[w][g]
    <3>1. /\ ~Means(call[h], w, g) => Spares(t, w, g)
          /\ Means(call[h], w, g) /\ <<w, g>> \notin disputed =>
                \/ Leaves(t, w, g, Effect(call[h])[w][g])
                \/ Spares(t, w, g) /\ reg[w][g] = Effect(call[h])[w][g]
      BY <1>1 DEF Own, Settling, t
    <3>2. Spares(t, w, g) => Spares(Tail(t), w, g)
      BY <1>1, SparesTail
    <3>3. \A v : Leaves(t, w, g, v) => Leaves(Tail(t), w, g, v)
      BY <1>1, <1>2, LeavesTail
    <3> QED
      BY <3>1, <3>2, <3>3
  <2> QED
    BY <1>1, <2>1 DEF Settling
<1>6. Entering(h)'
  <2>1. EntersLast(Tail(t)) /\ (Going(Tail(t)) => Going(t))
    BY <1>1, CpuTail DEF Own, Entering, t
  <2>2. ASSUME Going(t), Clear PROVE AwaitsLock(Tail(t)) \/ (Steady(Tail(t)) /\ locked["pll0"])
    <3>1. AwaitsLock(t) \/ (Steady(t) /\ locked["pll0"])
      BY <1>1, <2>2 DEF Own, Entering, t
    <3> QED
      BY <1>1, <3>1, CpuTail DEF t
  <2>3. Clear' = Clear
    BY DEF Clear
  <2> QED
    BY <1>1, <2>1, <2>2, <2>3 DEF Own, Entering, t
<1>7. Quitting(h)'
  <2>1. Touches(Tail(t)) => Touches(t)
    BY <1>1, CpuTail
  <2>2. QuitsFirst(t) => QuitsFirst(Tail(t))
    BY <1>1, <1>3, CpuTail
  <2>3. Clear' = Clear
    BY DEF Clear
  <2> QED
    BY <1>1, <2>1, <2>2, <2>3 DEF Own, Quitting, t
<1> QED
  BY <1>4, <1>5, <1>6, <1>7 DEF Own

LEMMA LoadStep ==
    ASSUME NEW h \in Harts, IInv, LoadWord(h)
    PROVE  IInv'
<1> DEFINE s == Head(todo[h])
           w == s.word
<1>1. /\ todo[h] # <<>> /\ s.do = "load" /\ Advance(h)
      /\ copy' = [copy EXCEPT ![h] = Over(Only(w, reg[w]), copy[h])]
      /\ stale' = [stale EXCEPT ![h] = stale[h] \ {w}]
      /\ UNCHANGED <<reg, locked, slip, call, disputed, asked, freq, calls>>
  BY DEF LoadWord, At, CurrentStep, IInv, Types
<1>2. /\ todo[h] \in Seq(Steps) /\ call[h] # None
      /\ \A g \in Harts : g # h => todo'[g] = todo[g]
  BY <1>1, Moved DEF IInv
<1>3. w \in Words /\ Types
  BY <1>1, <1>2, Ahead, StepKinds DEF IInv
<1>4. /\ \A g \in Harts : g # h => copy'[g] = copy[g] /\ stale'[g] = stale[g]
      /\ DOMAIN copy'[h] = DOMAIN copy[h] \cup {w} /\ copy'[h][w] = reg[w]
      /\ \A x \in DOMAIN copy[h] : x # w => copy'[h][x] = copy[h][x]
      /\ stale'[h] = stale[h] \ {w}
      /\ copy' = [g \in Harts |-> copy'[g]] /\ stale' = [g \in Harts |-> stale'[g]]
  <2>1. copy = [g \in Harts |-> copy[g]] /\ stale = [g \in Harts |-> stale[g]]
    BY <1>3 DEF Types
  <2>2. /\ copy' = [g \in Harts |-> copy'[g]] /\ copy'[h] = Over(Only(w, reg[w]), copy[h])
        /\ \A g \in Harts : g # h => copy'[g] = copy[g]
    BY <1>1, <2>1
  <2>3. /\ stale' = [g \in Harts |-> stale'[g]] /\ stale'[h] = stale[h] \ {w}
        /\ \A g \in Harts : g # h => stale'[g] = stale[g]
    BY <1>1, <2>1
  <2> DEFINE o == Only(w, reg[w])
  <2>4. DOMAIN o = {w} /\ o[w] = reg[w]
    BY DEF Only
  <2> HIDE DEF o
  <2>5. /\ DOMAIN Over(o, copy[h]) = DOMAIN copy[h] \cup {w} /\ Over(o, copy[h])[w] = reg[w]
        /\ \A x \in DOMAIN copy[h] : x # w => Over(o, copy[h])[x] = copy[h][x]
    BY <2>4 DEF Over
  <2> QED
    BY <2>2, <2>3, <2>5 DEF o
<1>5. Types'
  <2>1. ASSUME NEW g \in Harts
        PROVE  /\ stale'[g] \subseteq DOMAIN copy'[g] /\ DOMAIN copy'[g] \subseteq Words
               /\ \A x \in DOMAIN copy'[g] : Word(x, copy'[g][x])
               /\ call'[g] = None => todo'[g] = <<>> /\ copy'[g] = <<>>
    <3>1. CASE g # h
      <4>1. /\ stale'[g] = stale[g] /\ copy'[g] = copy[g]
            /\ call'[g] = call[g] /\ todo'[g] = todo[g]
        BY <1>1, <1>2, <1>4, <3>1
      <4> QED
        BY <1>3, <4>1 DEF Types
    <3>2. CASE g = h
      <4>1. call'[h] = call[h] /\ call[h] # None
        BY <1>1, <1>2
      <4>2. stale'[h] \subseteq DOMAIN copy'[h] /\ DOMAIN copy'[h] \subseteq Words
        BY <1>3, <1>4 DEF Types
      <4>3. ASSUME NEW x \in DOMAIN copy'[h] PROVE Word(x, copy'[h][x])
        <5>1. CASE x = w
          BY <1>3, <1>4, <5>1 DEF Types
        <5>2. CASE x # w
          BY <1>3, <1>4, <4>3, <5>2 DEF Types
        <5> QED
          BY <5>1, <5>2
      <4> QED
        BY <3>2, <4>1, <4>2, <4>3
    <3> QED
      BY <3>1, <3>2
  <2> QED
    BY <1>1, <1>3, <1>4, <2>1, Moved DEF Types
<1>6. ASSUME NEW g \in Harts PROVE Own(g)'
  <2>1. CASE g # h
    <3>1. \A x \in Fresh(g) : x \in Fresh(g)'
      BY <1>1, <1>4, <2>1 DEF Fresh
    <3> QED
      BY <1>1, <1>2, <1>3, <2>1, <3>1, OthersKept DEF IInv
  <2>2. CASE g = h
    <3>1. Fresh(h) \subseteq Fresh(h)' /\ w \in Fresh(h)'
      BY <1>1, <1>3, <1>4 DEF Fresh
    <3>2. ~Awaits(s, "pll0") /\ \A x : Loads(s, x) => x = w
      BY <1>1 DEF Awaits, Loads
    <3> QED
      BY <1>1, <2>2, <3>1, <3>2, OwnTail
  <2> QED
    BY <2>1, <2>2
<1>7. Alone' /\ CpuClocked' /\ SettledAsAsked'
  BY <1>1 DEF IInv, Alone, CpuClocked, SettledAsAsked, Unset
<1> QED
  BY <1>5, <1>6, <1>7 DEF IInv

LEMMA LockedStep ==
    ASSUME NEW h \in Harts, IInv, Locked(h)
    PROVE  IInv'
<1> DEFINE s == Head(todo[h])
<1>1. /\ todo[h] # <<>> /\ s.do = "wait" /\ Advance(h) /\ locked[s.word]
      /\ UNCHANGED <<reg, locked, slip, call, copy, stale, disputed, asked, freq, calls>>
  BY DEF Locked, At, CurrentStep, IsLock
<1>2. Types /\ call[h] # None /\ \A g \in Harts : g # h => todo'[g] = todo[g]
  BY <1>1, Moved DEF IInv
<1>3. Types'
  <2>1. ASSUME NEW g \in Harts, call[g] = None PROVE todo'[g] = <<>>
    BY <1>2, <2>1 DEF Types
  <2>2. todo' \in [Harts -> Seq(Steps)]
    BY <1>1, <1>2, Moved
  <2> QED
    BY <1>1, <1>2, <2>1, <2>2 DEF Types
<1>4. ASSUME NEW g \in Harts PROVE Own(g)'
  <2>0. Fresh(g)' = Fresh(g)
    BY <1>1 DEF Fresh
  <2>1. CASE g # h
    BY <1>1, <1>2, <2>0, <2>1, OthersKept DEF IInv
  <2>2. CASE g = h
    <3>1. (Awaits(s, "pll0") => locked["pll0"]) /\ \A x : ~Loads(s, x)
      BY <1>1 DEF Awaits, Loads
    <3> QED
      BY <1>1, <2>0, <2>2, <3>1, OwnTail
  <2> QED
    BY <2>1, <2>2
<1>5. Alone' /\ CpuClocked' /\ SettledAsAsked'
  BY <1>1 DEF IInv, Alone, CpuClocked, SettledAsAsked, Unset
<1> QED
  BY <1>3, <1>4, <1>5 DEF IInv

LEMMA NotLockedStep ==
    ASSUME NEW h \in Harts, IInv, NotLocked(h)
    PROVE  IInv'
<1>1. /\ UNCHANGED <<reg, locked, call, todo, copy, stale, disputed, asked, freq, calls>>
      /\ slip' = [slip EXCEPT ![Head(todo[h]).word] = ~locked[Head(todo[h]).word]]
  BY DEF NotLocked, CurrentStep, ClearSlip
<1>2. slip' \in [Plls -> BOOLEAN]
  <2>1. \A p \in Plls : (~locked[p]) \in BOOLEAN
    BY Zenon
  <2> QED
    BY <1>1, <2>1 DEF IInv, Types
<1>3. Types'
  BY <1>1, <1>2 DEF IInv, Types
<1>4. \A g \in Harts : Own(g)'
  <2>1. \A g \in Harts : Fresh(g)' = Fresh(g)
    BY <1>1 DEF Fresh
  <2> QED
    BY <1>1, <2>1, OthersKept DEF IInv
<1>5. Alone' /\ CpuClocked' /\ SettledAsAsked'
  BY <1>1 DEF IInv, Alone, CpuClocked, SettledAsAsked, Unset
<1> QED
  BY <1>3, <1>4, <1>5 DEF IInv

LEMMA PllLocksStep ==
    ASSUME NEW p \in Plls, IInv, PllLocks(p)
    PROVE  IInv'
<1>1. /\ locked' = [locked EXCEPT ![p] = TRUE]
      /\ UNCHANGED <<reg, slip, call, todo, copy, stale, disputed, asked, freq, calls>>
  BY DEF PllLocks
<1>2. locked' \in [Plls -> BOOLEAN] /\ "pll0" \in Plls /\ (locked["pll0"] => locked'["pll0"])
  BY <1>1 DEF IInv, Types, Plls
<1>3. Types'
  BY <1>1, <1>2 DEF IInv, Types
<1>4. \A g \in Harts : Own(g)'
  <2>1. \A g \in Harts : Fresh(g)' = Fresh(g)
    BY <1>1 DEF Fresh
  <2> QED
    BY <1>1, <1>2, <2>1, OthersKept DEF IInv
<1>5. Alone' /\ CpuClocked' /\ SettledAsAsked'
  BY <1>1, <1>2 DEF IInv, Alone, CpuClocked, SettledAsAsked, Unset
<1> QED
  BY <1>3, <1>4, <1>5 DEF IInv

(* A store writes back what it read: an undisputed field that it does not  *)
(* set is as it was.                                                       *)
LEMMA StoreStep ==
    ASSUME NEW h \in Harts, IInv, StoreWord(h)
    PROVE  IInv'
<1> DEFINE t == todo[h]
           s == Head(t)
           w == s.word
           new == Over(s.fields, copy[h][w])
<1>1. /\ t # <<>> /\ s.do = "store" /\ Advance(h)
      /\ UNCHANGED <<call, copy, asked, freq, calls>>
  BY DEF StoreWord, At, CurrentStep
<1>2. /\ t \in Seq(Steps) /\ call[h] # None /\ todo'[h] = Tail(t)
      /\ \A g \in Harts : g # h => todo'[g] = todo[g]
  BY <1>1, Moved DEF IInv
<1>3. s \in Steps /\ w \in Words /\ DOMAIN s.fields \subseteq Fields(w) /\ s = t[1] /\ 1 \in 1 .. Len(t)
  BY <1>1, <1>2, Ahead, StepKinds
<1>4. Own(h) /\ Types /\ CpuClocked /\ Alone /\ SettledAsAsked
  BY DEF IInv
<1>5. Covered(t, Fresh(h))
  BY <1>4 DEF Own, Read
<1>6. w \in Fresh(h)
  <2>1. \A x : ~Loads(s, x)
    BY <1>1 DEF Loads
  <2> QED
    BY <1>1, <1>2, <1>5, <2>1, CoveredTail
<1>7. /\ reg' = [reg EXCEPT ![w] = new]
      /\ locked' = IF w \in Plls /\ LosesLock(reg[w], new) THEN [locked EXCEPT ![w] = FALSE] ELSE locked
      /\ slip' = IF w \in Plls /\ LosesLock(reg[w], new) THEN [slip EXCEPT ![w] = TRUE] ELSE slip
      /\ stale' = [g \in Harts |-> IF g # h /\ w \in DOMAIN copy[g] THEN stale[g] \cup {w} ELSE stale[g]]
      /\ disputed' = disputed \cup PutBack(h, s)
  BY DEF StoreWord, CurrentStep
<1>8. /\ reg'[w] = new /\ \A x \in Words : x # w => reg'[x] = reg[x]
      /\ reg' = [x \in Words |-> reg'[x]]
  BY <1>3, <1>4, <1>7 DEF Types
<1>9. /\ Word(w, copy[h][w]) /\ Word(w, new)
      /\ \A g \in Fields(w) : g \in DOMAIN s.fields => new[g] = s.fields[g]
      /\ \A g \in Fields(w) : g \notin DOMAIN s.fields => new[g] = copy[h][w][g]
  <2>1. Word(w, copy[h][w])
    BY <1>4, <1>6 DEF Types, Fresh
  <2>2. DOMAIN copy[h][w] = Fields(w)
    BY <2>1 DEF Word
  <2> DEFINE o == copy[h][w]
  <2> HIDE DEF o
  <2>3. /\ Word(w, Over(s.fields, o))
        /\ \A g \in Fields(w) : g \in DOMAIN s.fields => Over(s.fields, o)[g] = s.fields[g]
        /\ \A g \in Fields(w) : g \notin DOMAIN s.fields => Over(s.fields, o)[g] = o[g]
    BY <1>3, <2>2 DEF Over, Word, o
  <2> QED
    BY <2>1, <2>3 DEF o
<1>10. ASSUME NEW g \in Fields(w), g \notin DOMAIN s.fields, <<w, g>> \notin disputed'
       PROVE  new[g] = reg[w][g]
  <2>1. CASE copy[h][w] = reg[w]
    BY <1>9, <1>10, <2>1
  <2>2. CASE w \in stale[h]
    <3>1. DOMAIN reg[w] = Fields(w)
      BY <1>3, <1>4 DEF Types, Word
    <3>2. copy[h][w][g] # reg[w][g] => <<w, g>> \in PutBack(h, s)
      BY <1>10, <2>2, <3>1 DEF PutBack
    <3> QED
      BY <1>7, <1>9, <1>10, <3>2
  <2> QED
    BY <1>6, <2>1, <2>2 DEF Fresh
<1> HIDE DEF new
<1>11. ASSUME NEW x \in Words, NEW g \in Fields(x)
       PROVE  /\ Sets(s, x, g) => Puts(s, x, g, reg'[x][g])
              /\ \A v : Puts(s, x, g, v) => reg'[x][g] = v
              /\ ~Sets(s, x, g) /\ <<x, g>> \notin disputed' => reg'[x][g] = reg[x][g]
  <2>1. CASE x = w
    <3>1. Sets(s, x, g) <=> g \in DOMAIN s.fields
      BY <1>1, <2>1 DEF Sets, Stores
    <3>2. \A v : Puts(s, x, g, v) <=> g \in DOMAIN s.fields /\ s.fields[g] = v
      BY <3>1 DEF Puts
    <3> QED
      BY <1>8, <1>9, <1>10, <2>1, <3>1, <3>2
  <2>2. CASE x # w
    <3>1. ~Sets(s, x, g) /\ \A v : ~Puts(s, x, g, v)
      BY <2>2 DEF Puts, Sets, Stores
    <3> QED
      BY <1>8, <2>2, <3>1
  <2> QED
    BY <2>1, <2>2
<1>12. /\ "pll0" \in Words /\ "pll0" \in Plls /\ "clk_sel0" \in Words /\ "aclk_sel" \in Fields("clk_sel0")
       /\ Fields("pll0") = {"pwrd", "reset", "out_en", "div"} /\ "clk_sel0" # "pll0"
  BY WordFields DEF Plls
<1>13. /\ disputed \subseteq disputed' /\ (Clear' => Clear)
       /\ Clear' => /\ <<"clk_sel0", "aclk_sel">> \notin disputed'
                    /\ \A g \in Fields("pll0") : <<"pll0", g>> \notin disputed'
  BY <1>7, <1>12 DEF Clear, CpuFields, PllOff, Fields, Reset
<1>14. ASSUME Clear', locked["pll0"], reg["pll0"].pwrd = 1, reg["pll0"].reset = 0, ~Unlocks(s)
       PROVE  locked'["pll0"]
  <2>1. CASE w = "pll0"
    <3>1. new.pwrd = 1 /\ new.reset = 0 /\ new.div = reg[w].div
      <4>1. ~Sets(s, w, "pwrd") /\ ~Sets(s, w, "reset") /\ ~Sets(s, w, "div")
        BY <1>14, <2>1 DEF Unlocks
      <4>2. \A g \in {"pwrd", "reset", "div"} : reg'[w][g] = reg[w][g]
        <5> HIDE DEF t, s, w, new
        <5>1. \A g \in {"pwrd", "reset", "div"} : g \in Fields(w) /\ ~Sets(s, w, g) /\ <<w, g>> \notin disputed'
          BY <1>12, <1>13, <1>14, <2>1, <4>1
        <5> QED
          BY <1>11, <1>12, <2>1, <5>1
      <4> QED
        BY <1>8, <1>14, <2>1, <4>2
    <3>2. ~LosesLock(reg[w], new)
      BY <3>1 DEF LosesLock
    <3>3. locked' = locked
      BY <1>7, <3>2, Zenon
    <3> QED
      BY <1>14, <3>3
  <2>2. CASE w # "pll0"
    BY <1>4, <1>7, <1>12, <1>14, <2>2 DEF Types
  <2> QED
    BY <2>1, <2>2
<1>15. Types'
  <2>1. locked' \in [Plls -> BOOLEAN] /\ slip' \in [Plls -> BOOLEAN]
    BY <1>4, <1>7 DEF Types
  <2>2. \A x \in Words : Word(x, reg'[x]) /\ Word(x, asked'[x])
    BY <1>1, <1>4, <1>8, <1>9 DEF Types
  <2>3. /\ stale' = [g \in Harts |-> stale'[g]]
        /\ \A g \in Harts : stale'[g] \subseteq DOMAIN copy[g]
    BY <1>4, <1>7 DEF Types
  <2>4. ASSUME NEW d \in disputed' PROVE \E x \in Words : \E g \in Fields(x) : d = <<x, g>>
    <3>1. CASE d \in disputed
      BY <1>4, <3>1 DEF Types
    <3>2. CASE d \in PutBack(h, s)
      <4>1. DOMAIN reg[w] = Fields(w)
        BY <1>3, <1>4 DEF Types, Word
      <4> QED
        BY <1>3, <3>2, <4>1 DEF PutBack
    <3> QED
      BY <1>7, <3>1, <3>2
  <2>5. todo' \in [Harts -> Seq(Steps)]
    BY <1>1, <1>4, Moved
  <2>6. \A g \in Harts : call[g] = None => todo'[g] = <<>>
    BY <1>2, <1>4 DEF Types
  <2> QED
    BY <1>1, <1>4, <1>8, <2>1, <2>2, <2>3, <2>4, <2>5, <2>6 DEF Types
<1>16. ASSUME NEW x \in Words, NEW g \in Fields(x), Sets(s, x, g)
       PROVE  Means(call[h], x, g)
  <2>1. ~Spares(t, x, g)
    BY <1>1, <1>2, <1>16, SparesTail
  <2> QED
    BY <1>4, <2>1 DEF Own, Settling
<1>17. Alters(s) => CpuMeant(call[h])
  BY <1>1, <1>2, <1>4, CpuTail DEF Own, Quitting
<1>18. Unlocks(s) => Alters(s)
  BY <1>12 DEF Unlocks, Alters
<1> HIDE DEF t, s, w
<1>19. ASSUME NEW g \in Harts, g # h PROVE Own(g)'
  <2>1. \A x \in Fresh(g) : x \in Fresh(g)'
    <3>1. ASSUME NEW x \in Fresh(g), x = w PROVE x \in Fresh(g)'
      BY <1>1, <1>7, <1>19, <3>1 DEF Fresh
    <3>2. ASSUME NEW x \in Fresh(g), x # w PROVE x \in Fresh(g)'
      BY <1>1, <1>4, <1>7, <1>8, <3>2 DEF Fresh, Types
    <3> QED
      BY <3>1, <3>2
  <2>2. ASSUME NEW x \in Words, NEW f \in Fields(x), Means(call[g], x, f), <<x, f>> \notin disputed'
        PROVE  reg'[x][f] = reg[x][f]
    <3>1. ~Means(call[h], x, f)
      BY <1>4, <1>13, <1>19, <2>2 DEF Alone
    <3> QED
      BY <1>11, <1>16, <2>2, <3>1
  <2>3. ASSUME Clear', Going(todo[g]), Steady(todo[g]), locked["pll0"] PROVE locked'["pll0"]
    <3>1. CpuMeant(call[g]) /\ Own(g)
      BY <2>3 DEF IInv, Own, Entering
    <3>2. ~CpuMeant(call[h])
      BY <1>4, <1>13, <1>19, <2>3, <3>1 DEF Alone, CpuMeant
    <3>3. ~Unlocks(s)
      BY <1>17, <1>18, <3>2
    <3>4. \A f \in {"pwrd", "reset"} : \A v : ~Leaves(todo[g], "pll0", f, v)
      BY <2>3 DEF Steady, Unlocks, Leaves, Puts
    <3>5. <<"pll0", "pwrd">> \notin disputed /\ <<"pll0", "reset">> \notin disputed
      BY <1>12, <1>13, <2>3
    <3>6. reg["pll0"].pwrd = 1 /\ reg["pll0"].reset = 0
      BY <1>12, <3>1, <3>4, <3>5 DEF Own, Settling, CpuMeant
    <3> QED
      BY <1>14, <2>3, <3>3, <3>6
  <2> QED
    BY <1>1, <1>2, <1>4, <1>13, <1>19, <2>1, <2>2, <2>3, OthersKept DEF IInv
<1>20. Own(h)'
  <2>1. Read(h)'
    <3>1. \A x \in Fresh(h) : Stores(s, x) \/ x \in Fresh(h)'
      <4>1. ASSUME NEW x \in Fresh(h), ~Stores(s, x) PROVE x \in Fresh(h)'
        <5>1. x # w /\ x \in Words /\ x \in DOMAIN copy[h] /\ (x \in stale[h] \/ copy[h][x] = reg[x])
          BY <1>1, <1>4, <4>1 DEF Fresh, Types, Stores, w
        <5>2. reg'[x] = reg[x] /\ copy'[h] = copy[h] /\ stale'[h] = stale[h]
          BY <1>1, <1>7, <1>8, <5>1
        <5> QED
          BY <5>1, <5>2 DEF Fresh
      <4> QED
        BY <4>1
    <3>2. \A x : ~Loads(s, x)
      BY <1>1 DEF Loads
    <3> QED
      BY <1>1, <1>2, <1>5, <3>1, <3>2, CoveredTail DEF Read, s
  <2>2. Settling(h)'
    <3>1. ASSUME NEW x \in Words, NEW f \in Fields(x)
          PROVE  /\ ~Means(call[h], x, f) => Spares(Tail(t), x, f)
                 /\ Means(call[h], x, f) /\ <<x, f>> \notin disputed' =>
                      \/ Leaves(Tail(t), x, f, Effect(call[h])[x][f])
                      \/ Spares(Tail(t), x, f) /\ reg'[x][f] = Effect(call[h])[x][f]
      <4>1. ~Means(call[h], x, f) => Spares(Tail(t), x, f)
        BY <1>1, <1>2, <1>4, SparesTail DEF Own, Settling, t
      <4>2. ASSUME Means(call[h], x, f), <<x, f>> \notin disputed'
            PROVE  \/ Leaves(Tail(t), x, f, Effect(call[h])[x][f])
                   \/ Spares(Tail(t), x, f) /\ reg'[x][f] = Effect(call[h])[x][f]
        <5> DEFINE v == Effect(call[h])[x][f]
        <5>1. Leaves(t, x, f, v) \/ (Spares(t, x, f) /\ reg[x][f] = v)
          BY <1>4, <1>13, <4>2 DEF Own, Settling, t
        <5> HIDE DEF v
        <5>2. ASSUME Leaves(t, x, f, v)
              PROVE  Leaves(Tail(t), x, f, v) \/ (Spares(Tail(t), x, f) /\ reg'[x][f] = v)
          <6>1. Leaves(Tail(t), x, f, v) \/ (Puts(s, x, f, v) /\ Spares(Tail(t), x, f))
            BY <1>1, <1>2, <5>2, LeavesTail DEF s
          <6> QED
            BY <1>11, <6>1
        <5>3. ASSUME Spares(t, x, f), reg[x][f] = v
              PROVE  Spares(Tail(t), x, f) /\ reg'[x][f] = v
          <6>1. Spares(Tail(t), x, f) /\ ~Sets(s, x, f)
            BY <1>1, <1>2, <5>3, SparesTail DEF s
          <6> QED
            BY <1>11, <4>2, <5>3, <6>1
        <5> QED
          BY <5>1, <5>2, <5>3 DEF v
      <4> QED
        BY <4>1, <4>2
    <3> QED
      BY <1>1, <1>2, <3>1 DEF Settling
  <2>3. Entering(h)'
    <3>1. EntersLast(Tail(t)) /\ (Going(Tail(t)) => Going(t))
      BY <1>1, <1>2, <1>4, CpuTail DEF Own, Entering, t
    <3>2. ASSUME Going(t), Clear' PROVE AwaitsLock(Tail(t)) \/ (Steady(Tail(t)) /\ locked'["pll0"])
      <4>1. CASE AwaitsLock(t)
        BY <1>1, <1>2, <4>1, CpuTail DEF Awaits, s
      <4>2. CASE Steady(t) /\ locked["pll0"]
        <5>1. Steady(Tail(t)) /\ ~Unlocks(s)
          BY <1>1, <1>2, <4>2, CpuTail DEF s
        <5>2. \A f \in {"pwrd", "reset"} : \A v : ~Leaves(t, "pll0", f, v)
          BY <4>2 DEF Steady, Unlocks, Leaves, Puts
        <5>3. <<"pll0", "pwrd">> \notin disputed /\ <<"pll0", "reset">> \notin disputed
          BY <1>12, <1>13, <3>2
        <5>4. CpuMeant(call[h])
          BY <1>4, <3>2 DEF Own, Entering, t
        <5>5. reg["pll0"].pwrd = 1 /\ reg["pll0"].reset = 0
          BY <1>4, <1>12, <5>2, <5>3, <5>4 DEF Own, Settling, CpuMeant, t
        <5> QED
          BY <1>14, <3>2, <4>2, <5>1, <5>5
      <4> QED
        BY <1>4, <1>13, <3>2, <4>1, <4>2 DEF Own, Entering, t
    <3> QED
      BY <1>1, <1>2, <1>4, <3>1, <3>2 DEF Own, Entering, t
  <2>4. Quitting(h)'
    <3>1. SUFFICES ASSUME Touches(Tail(t))
                   PROVE  /\ CpuMeant(call[h])
                          /\ Clear' => QuitsFirst(Tail(t)) \/ reg'["clk_sel0"].aclk_sel # 1
      BY <1>1, <1>2 DEF Quitting
    <3>2. /\ CpuMeant(call[h])
          /\ Clear => QuitsFirst(t) \/ reg["clk_sel0"].aclk_sel # 1
      BY <1>1, <1>2, <1>4, <3>1, CpuTail DEF Own, Quitting, t
    <3>3. ~Enters(s)
      <4>1. Calm(Tail(t)) => ~Touches(Tail(t))
        BY DEF Calm, Touches
      <4> QED
        BY <1>1, <1>2, <1>4, <3>1, <4>1, CpuTail DEF Own, Entering, t, s
    <3>4. CASE QuitsFirst(t)
      <4>1. QuitsFirst(Tail(t)) \/ Quits(s)
        BY <1>1, <1>2, <3>4, CpuTail DEF s
      <4>2. Quits(s) => reg'["clk_sel0"].aclk_sel = 0
        BY <1>11, <1>12 DEF Quits
      <4> QED
        BY <3>2, <4>1, <4>2
    <3>5. CASE reg["clk_sel0"].aclk_sel # 1
      <4>1. Clear' => reg'["clk_sel0"].aclk_sel # 1
        BY <1>11, <1>12, <1>13, <3>3, <3>5 DEF Enters
      <4> QED
        BY <3>2, <4>1
    <3> QED
      BY <1>13, <3>2, <3>4, <3>5
  <2> QED
    BY <2>1, <2>2, <2>3, <2>4 DEF Own
<1>21. CpuClocked'
  <2>1. SUFFICES ASSUME Clear', reg'["clk_sel0"].aclk_sel = 1
                 PROVE  /\ reg'["pll0"].pwrd = 1 /\ reg'["pll0"].reset = 0 /\ reg'["pll0"].out_en = 1
                        /\ locked'["pll0"]
    BY DEF CpuClocked, Clear
  <2>2. CASE reg["clk_sel0"].aclk_sel = 1
    <3>1. /\ reg["pll0"].pwrd = 1 /\ reg["pll0"].reset = 0 /\ reg["pll0"].out_en = 1
          /\ locked["pll0"]
      BY <1>4, <1>13, <2>1, <2>2 DEF CpuClocked, Clear
    <3>2. ~Alters(s)
      BY <1>1, <1>2, <1>4, <1>13, <2>1, <2>2, CpuTail DEF Own, Quitting, t, s
    <3>3. ~Unlocks(s)
      BY <1>18, <3>2
    <3>4. \A f \in {"pwrd", "reset", "out_en"} : reg'["pll0"][f] = reg["pll0"][f]
      BY <1>11, <1>12, <1>13, <2>1, <3>2 DEF Alters
    <3> QED
      BY <1>14, <2>1, <3>1, <3>3, <3>4
  <2>3. CASE reg["clk_sel0"].aclk_sel # 1
    <3>1. Enters(s) /\ w = "clk_sel0"
      BY <1>11, <1>12, <1>13, <2>1, <2>3 DEF Enters, Puts, Sets, Stores, w
    <3>2. Calm(Tail(t)) /\ Going(t) /\ Clear
      BY <1>1, <1>2, <1>4, <1>13, <2>1, <3>1, CpuTail DEF Own, Entering, t, s
    <3>3. ~AwaitsLock(t)
      <4>1. ~AwaitsLock(Tail(t))
        BY <3>2 DEF Calm, AwaitsLock
      <4> QED
        BY <1>1, <1>2, <4>1, CpuTail DEF Awaits, s
    <3>4. CpuMeant(call[h]) /\ Steady(t) /\ locked["pll0"]
      BY <1>4, <3>2, <3>3 DEF Own, Entering, t
    <3>5. ~Unlocks(s)
      BY <1>1, <1>2, <3>4, CpuTail DEF s
    <3>6. ASSUME NEW f \in Fields("pll0"), NEW v, Leaves(t, "pll0", f, v) PROVE FALSE
      <4>1. Leaves(Tail(t), "pll0", f, v) \/ Puts(s, "pll0", f, v)
        BY <1>1, <1>2, <3>6, LeavesTail DEF s
      <4>2. ~Puts(s, "pll0", f, v)
        BY <1>12, <3>1 DEF Puts, Sets, Stores, w
      <4>3. ~Leaves(Tail(t), "pll0", f, v)
        BY <3>2, <3>6 DEF Calm, Alters, Leaves, Puts
      <4> QED
        BY <4>1, <4>2, <4>3
    <3>7. \A f \in {"pwrd", "reset", "out_en"} : reg["pll0"][f] = Effect(call[h])["pll0"][f]
      <4>1. ASSUME NEW f \in {"pwrd", "reset", "out_en"} PROVE reg["pll0"][f] = Effect(call[h])["pll0"][f]
        <5>1. f \in Fields("pll0") /\ Means(call[h], "pll0", f) /\ <<"pll0", f>> \notin disputed
          BY <1>12, <1>13, <2>1, <3>4 DEF CpuMeant
        <5> QED
          BY <1>4, <1>12, <3>6, <5>1 DEF Own, Settling, t
      <4> QED
        BY <4>1
    <3>8. reg["pll0"].pwrd = 1 /\ reg["pll0"].reset = 0 /\ reg["pll0"].out_en = 1
      BY <3>4, <3>7 DEF CpuMeant
    <3> QED
      BY <1>8, <1>12, <1>14, <2>1, <3>1, <3>4, <3>5, <3>8
  <2> QED
    BY <2>2, <2>3
<1>22. Alone'
  BY <1>1, <1>4, <1>13 DEF Alone
<1>23. SettledAsAsked'
  <2>1. SUFFICES ASSUME NEW x \in Words, NEW g \in Fields(x), reg'[x][g] # asked[x][g], <<x, g>> \notin disputed'
                 PROVE  \E k \in Harts : Means(call[k], x, g)
    BY <1>1 DEF SettledAsAsked, Unset, Fields
  <2>2. CASE Sets(s, x, g)
    BY <1>16, <2>2
  <2>3. CASE ~Sets(s, x, g)
    <3>1. reg[x][g] # asked[x][g] /\ <<x, g>> \notin disputed
      BY <1>11, <1>13, <2>1, <2>3
    <3> QED
      BY <1>4, <3>1 DEF SettledAsAsked, Unset, Fields
  <2> QED
    BY <2>2, <2>3
<1> QED
  BY <1>15, <1>19, <1>20, <1>21, <1>22, <1>23 DEF IInv

LEMMA ReturnStep ==
    ASSUME NEW h \in Harts, IInv, Return(h)
    PROVE  IInv'
<1> DEFINE c == call[h]
           E == Effect(c)
<1>1. /\ c # None /\ todo[h] = <<>>
      /\ asked' = Over([w \in DOMAIN E |-> Over(E[w], asked[w])], asked)
      /\ call' = [call EXCEPT ![h] = None]
      /\ copy' = [copy EXCEPT ![h] = <<>>] /\ stale' = [stale EXCEPT ![h] = {}]
      /\ UNCHANGED <<reg, locked, slip, todo, disputed, calls>>
  BY DEF Return
<1>2. c \in Calls /\ Own(h) /\ Types
  BY <1>1 DEF IInv, Types
<1>3. freq' \in [Plls -> {0} \cup AskedFreqs]
  <2>1. CASE c.op = "pll_set_freq"
    <3>1. freq' = [freq EXCEPT ![c.pll] = c.freq] /\ c.freq \in AskedFreqs
      BY <1>2, <2>1, CallKinds DEF Return
    <3> QED
      BY <1>2, <3>1 DEF Types
  <2>2. CASE c.op = "fast_enable"
    BY <2>2 DEF Return
  <2>3. CASE c.op # "pll_set_freq" /\ c.op # "fast_enable"
    BY <1>2, <2>3 DEF Return, Types
  <2> QED
    BY <2>1, <2>2, <2>3
<1>4. \A w \in DOMAIN E : w \in Words /\ DOMAIN E[w] \subseteq Fields(w)
  BY <1>2, EffectFields
<1> HIDE DEF E
<1>5. /\ asked' = [w \in Words |-> asked'[w]]
      /\ \A w \in Words : w \notin DOMAIN E => asked'[w] = asked[w]
      /\ \A w \in DOMAIN E : asked'[w] = Over(E[w], asked[w])
  BY <1>1, <1>2, <1>4 DEF Over, Types
<1>6. ASSUME NEW w \in DOMAIN E
      PROVE  /\ Word(w, asked'[w])
             /\ \A g \in Fields(w) : asked'[w][g] = IF g \in DOMAIN E[w] THEN E[w][g] ELSE asked[w][g]
  <2>1. DOMAIN E[w] \subseteq Fields(w) /\ w \in Words
    BY <1>4
  <2>2. DOMAIN asked[w] = Fields(w)
    BY <1>2, <2>1 DEF Types, Word
  <2>3. asked'[w] = [g \in Fields(w) |-> IF g \in DOMAIN E[w] THEN E[w][g] ELSE asked[w][g]]
    BY <1>5, <2>1, <2>2 DEF Over
  <2> QED
    BY <2>3 DEF Word
<1>7. ASSUME NEW w \in Words PROVE Word(w, asked'[w])
  BY <1>2, <1>5, <1>6 DEF Types
<1>8. ASSUME NEW w \in Words, NEW g \in Fields(w)
      PROVE  asked'[w][g] = IF Means(c, w, g) THEN E[w][g] ELSE asked[w][g]
  BY <1>5, <1>6 DEF Means, E
<1>9. /\ \A g \in Harts : g # h => call'[g] = call[g] /\ copy'[g] = copy[g] /\ stale'[g] = stale[g]
      /\ call'[h] = None /\ copy'[h] = <<>> /\ stale'[h] = {}
      /\ call' \in [Harts -> {None} \cup Calls]
      /\ copy' = [g \in Harts |-> copy'[g]] /\ stale' = [g \in Harts |-> stale'[g]]
  <2>1. call \in [Harts -> {None} \cup Calls] /\ copy = [g \in Harts |-> copy[g]] /\ stale = [g \in Harts |-> stale[g]]
    BY <1>2 DEF Types
  <2>2. /\ call' \in [Harts -> {None} \cup Calls] /\ call'[h] = None
        /\ \A g \in Harts : g # h => call'[g] = call[g]
    BY <1>1, <2>1
  <2>3. /\ copy' = [g \in Harts |-> copy'[g]] /\ copy'[h] = <<>>
        /\ \A g \in Harts : g # h => copy'[g] = copy[g]
    BY <1>1, <2>1
  <2>4. /\ stale' = [g \in Harts |-> stale'[g]] /\ stale'[h] = {}
        /\ \A g \in Harts : g # h => stale'[g] = stale[g]
    BY <1>1, <2>1
  <2> QED
    BY <2>2, <2>3, <2>4
<1>10. Types'
  <2>1. ASSUME NEW g \in Harts
        PROVE  /\ stale'[g] \subseteq DOMAIN copy'[g] /\ DOMAIN copy'[g] \subseteq Words
               /\ \A w \in DOMAIN copy'[g] : Word(w, copy'[g][w])
               /\ call'[g] = None => todo'[g] = <<>> /\ copy'[g] = <<>>
    <3>1. CASE g # h
      BY <1>1, <1>2, <1>9, <3>1 DEF Types
    <3>2. CASE g = h
      BY <1>1, <1>9, <3>2, Values
    <3> QED
      BY <3>1, <3>2
  <2> QED
    BY <1>1, <1>2, <1>3, <1>5, <1>7, <1>9, <2>1 DEF Types
<1>11. ASSUME NEW g \in Harts PROVE Own(g)'
  <2>1. CASE g # h
    <3>1. Fresh(g)' = Fresh(g)
      BY <1>1, <1>9, <2>1 DEF Fresh
    <3> QED
      BY <1>1, <1>2, <1>9, <2>1, <3>1, OthersKept DEF IInv
  <2>2. CASE g = h
    BY <1>1, <1>9, <2>2, EmptyProgram, NothingMeant DEF Own, Read, Settling, Entering, Quitting
  <2> QED
    BY <2>1, <2>2
<1>12. SettledAsAsked'
  <2>1. SUFFICES ASSUME NEW w \in Words, NEW g \in Fields(w), <<w, g>> \notin disputed,
                        \A k \in Harts : ~Means(call'[k], w, g)
                 PROVE  reg[w][g] = asked'[w][g]
    BY <1>1 DEF SettledAsAsked, Unset, Fields
  <2>2. CASE Means(c, w, g)
    BY <1>1, <1>2, <1>8, <2>1, <2>2, EmptyProgram DEF Own, Settling, E
  <2>3. CASE ~Means(c, w, g)
    <3>1. \A k \in Harts : ~Means(call[k], w, g)
      BY <1>9, <2>1, <2>3
    <3> QED
      BY <1>8, <2>1, <2>3, <3>1 DEF IInv, SettledAsAsked, Unset, Fields
  <2> QED
    BY <2>2, <2>3
<1>13. Alone'
  <2>1. ASSUME NEW g \in Harts, NEW w, NEW f, Means(call'[g], w, f) PROVE call'[g] = call[g]
    BY <1>9, <2>1, NothingMeant
  <2> QED
    BY <1>1, <2>1 DEF IInv, Alone
<1>14. CpuClocked'
  BY <1>1 DEF IInv, CpuClocked
<1> QED
  BY <1>10, <1>11, <1>12, <1>13, <1>14 DEF IInv

(* A new call means what its program does; the fields that another call    *)
(* means too are disputed from now on.                                     *)
LEMMA CallStep ==
    ASSUME NEW h \in Harts, IInv, Call(h)
    PROVE  IInv'
<1>1. PICK c \in Calls :
        /\ MayCall(h, c)
        /\ call' = [call EXCEPT ![h] = c]
        /\ todo' = [todo EXCEPT ![h] = ProgramOf(c)]
        /\ disputed' = disputed \cup SetAtOnce(h, c)
  BY DEF Call
<1> DEFINE t == ProgramOf(c)
<1>2. /\ call[h] = None /\ calls < MaxCalls /\ calls' = calls + 1
      /\ UNCHANGED <<reg, locked, slip, copy, stale, asked, freq>>
  BY DEF Call
<1>3. t \in Seq(Steps) /\ Covered(t, {}) /\ Does(t, c)
  BY ProgramDoes DEF WellRead
<1>4. Types /\ todo[h] = <<>> /\ c # None /\ copy[h] = <<>> /\ disputed \subseteq disputed'
  BY <1>1, <1>2, CallKinds DEF IInv, Types
<1> HIDE DEF t
<1>5. /\ \A g \in Harts : g # h => call'[g] = call[g] /\ todo'[g] = todo[g]
      /\ call'[h] = c /\ todo'[h] = t
      /\ call' \in [Harts -> {None} \cup Calls] /\ todo' \in [Harts -> Seq(Steps)]
  BY <1>1, <1>3, <1>4 DEF Types, t
<1>6. calls' \in 0 .. MaxCalls
  BY <1>2, <1>4, ClockAssumption DEF Types
<1>7. ASSUME NEW w, NEW g, Means(c, w, g) PROVE w \in Words /\ g \in Fields(w)
  BY <1>7, EffectFields DEF Means
<1>8. ASSUME NEW d \in SetAtOnce(h, c) PROVE \E w \in Words : \E g \in Fields(w) : d = <<w, g>>
  <2>1. PICK w \in DOMAIN Effect(c) : \E g \in DOMAIN Effect(c)[w] : d = <<w, g>>
    BY <1>8 DEF SetAtOnce, MeantFields
  <2> QED
    BY <1>7, <2>1 DEF Means
<1>9. Types'
  <2>1. ASSUME NEW g \in Harts, call'[g] = None PROVE todo'[g] = <<>> /\ copy'[g] = <<>>
    BY <1>2, <1>4, <1>5, <2>1 DEF Types
  <2>2. \A d \in disputed' : \E w \in Words : \E g \in Fields(w) : d = <<w, g>>
    BY <1>1, <1>4, <1>8 DEF Types
  <2> QED
    BY <1>2, <1>4, <1>5, <1>6, <2>1, <2>2 DEF Types
<1>10. Own(h)'
  <2>1. Read(h)'
    BY <1>3, <1>5, CoveredMore DEF Read
  <2>2. Settling(h)'
    BY <1>3, <1>5 DEF Does, Settling
  <2>3. /\ EntersLast(t)
        /\ Going(t) \/ Touches(t) => CpuMeant(c) /\ AwaitsLock(t)
        /\ Touches(t) => QuitsFirst(t) \/ c.op = "fast_enable"
    BY ProgramCpu DEF t
  <2>4. Entering(h)'
    BY <1>5, <2>3 DEF Entering
  <2>5. Quitting(h)'
    <3>1. c.op = "fast_enable" => reg["clk_sel0"].aclk_sel = 0
      BY <1>1 DEF MayCall
    <3> QED
      BY <1>2, <1>5, <2>3, <3>1 DEF Quitting
  <2> QED
    BY <2>1, <2>2, <2>4, <2>5 DEF Own
<1>11. ASSUME NEW g \in Harts, g # h PROVE Own(g)'
  <2>1. Fresh(g)' = Fresh(g)
    BY <1>2 DEF Fresh
  <2> QED
    BY <1>2, <1>4, <1>5, <1>11, <2>1, OthersKept DEF IInv
<1>12. Alone'
  <2>1. ASSUME NEW g \in Harts, g # h, NEW w, NEW f, Means(call[g], w, f), Means(c, w, f)
        PROVE  <<w, f>> \in disputed'
    <3>1. <<w, f>> \in MeantFields(c)
      BY <2>1 DEF MeantFields, Means
    <3>2. <<w, f>>[1] = w /\ <<w, f>>[2] = f
      OBVIOUS
    <3>3. <<w, f>> \in SetAtOnce(h, c)
      BY <2>1, <3>1, <3>2 DEF SetAtOnce
    <3> QED
      BY <1>1, <3>3
  <2> QED
    BY <1>4, <1>5, <2>1 DEF IInv, Alone
<1>13. CpuClocked'
  BY <1>2, <1>4 DEF IInv, CpuClocked
<1>14. SettledAsAsked'
  <2>1. SUFFICES ASSUME NEW w \in Words, NEW g \in Fields(w), <<w, g>> \notin disputed',
                        \A k \in Harts : ~Means(call'[k], w, g)
                 PROVE  reg[w][g] = asked[w][g]
    BY <1>2 DEF SettledAsAsked, Unset, Fields
  <2>2. \A k \in Harts : ~Means(call[k], w, g)
    BY <1>2, <1>5, <2>1, NothingMeant
  <2> QED
    BY <1>4, <2>1, <2>2 DEF IInv, SettledAsAsked, Unset, Fields
<1> QED
  BY <1>9, <1>10, <1>11, <1>12, <1>13, <1>14 DEF IInv

-----------------------------------------------------------------------------
LEMMA InitInv == Init => IInv
<1> SUFFICES ASSUME Init PROVE IInv
  OBVIOUS
<1>1. reg = Reset /\ asked = Reset /\ Words = DOMAIN Reset
  BY DEF Init, Words
<1>2. \A w \in Words : Word(w, Reset[w])
  <2>1. \A w \in Words : Reset[w] = [g \in DOMAIN Reset[w] |-> Reset[w][g]]
    BY DEF Words, Reset, PllOff
  <2> QED
    BY <2>1 DEF Word, Fields
<1>3. reg = [w \in Words |-> reg[w]] /\ asked = [w \in Words |-> asked[w]]
  BY <1>1 DEF Reset, Words
<1>4. Types
  BY <1>1, <1>2, <1>3, Values, EmptySeq, ClockAssumption DEF Init, Types
<1>5. \A h \in Harts : Own(h)
  BY EmptyProgram, NothingMeant DEF Init, Own, Read, Settling, Entering, Quitting
<1>6. Alone /\ SettledAsAsked
  BY NothingMeant DEF Init, Alone, SettledAsAsked
<1>7. CpuClocked
  BY <1>1 DEF CpuClocked, Reset
<1> QED
  BY <1>4, <1>5, <1>6, <1>7 DEF IInv

LEMMA NextInv == IInv /\ [Next]_vars => IInv'
<1> SUFFICES ASSUME IInv, [Next]_vars PROVE IInv'
  OBVIOUS
<1>1. ASSUME NEW h \in Harts, Call(h) \/ Step(h) PROVE IInv'
  BY <1>1, CallStep, LoadStep, StoreStep, LockedStep, NotLockedStep, ReturnStep DEF Step
<1>2. ASSUME NEW p \in Plls, PllLocks(p) PROVE IInv'
  BY <1>2, PllLocksStep
<1>3. CASE UNCHANGED vars
  <2>1. Types' /\ Alone' /\ CpuClocked' /\ SettledAsAsked'
    BY <1>3 DEF vars, IInv, Types, Alone, CpuClocked, SettledAsAsked, Unset
  <2>2. \A g \in Harts : Own(g)'
    <3>1. \A g \in Harts : Fresh(g)' = Fresh(g)
      BY <1>3 DEF vars, Fresh
    <3> QED
      BY <1>3, <3>1, OthersKept DEF vars, IInv
  <2> QED
    BY <2>1, <2>2 DEF IInv
<1> QED
  BY <1>1, <1>2, <1>3 DEF Next

(* The invariant is inductive. *)
LEMMA Inductive == Spec => []IInv
  BY InitInv, NextInv, PTL DEF Spec

(* Every variable of the system controller stays in its type, and a hart   *)
(* has work to do only in a call.                                          *)
THEOREM TypeCorrect == Spec => []TypeOK
<1>1. ASSUME IInv PROVE TypeOK
  <2>1. \A f \in disputed : f[1] \in Words /\ f[2] \in DOMAIN Reset[f[1]]
    BY <1>1 DEF IInv, Types, Fields
  <2> QED
    BY <1>1, <2>1 DEF IInv, Types, TypeOK, Word, Fields
<1> QED
  BY <1>1, Inductive, PTL

(* The CPU is never on a PLL0 that is off, in reset, unlocked or has its   *)
(* output closed, until a field of PLL0 or the select is disputed:         *)
(* sysctl_pll_set_freq moves it away first and back once the PLL has       *)
(* locked, and what the other harts do to the rest does not matter.        *)
THEOREM CpuClockedSafe == Spec => []CpuClocked
  BY Inductive, PTL DEF IInv

(* A field that no running call sets holds what the last call that set it  *)
(* asked, unless it is disputed: two calls at once on the field, or a late *)
(* store that puts it back, are the only ways to a wrong one, and each     *)
(* call does what it promises (Effect), however the harts interleave.      *)
THEOREM SettledSafe == Spec => []SettledAsAsked
  BY Inductive, PTL DEF IInv
=============================================================================
