----------------------------- MODULE ClockTree -----------------------------
(***************************************************************************)
(* The clock tree of lib/drivers/sysctl.c: PLLs, the clock of the CPU      *)
(* (ACLK), clock gates and the DMA request selections.  All of them are    *)
(* bit fields of shared words, and a bit field is changed by reading its   *)
(* word and writing it back: a call is a program of loads, stores and      *)
(* waits, and the two harts run their programs interleaved.                *)
(*                                                                         *)
(* Nothing in sysctl.c locks a word, and updates are lost.  "disputed" is  *)
(* the history of the damage: the fields that two calls set at once, and   *)
(* the fields that a store put back to what its hart had read before       *)
(* another hart's store.  The properties are about the other fields.       *)
(***************************************************************************)
EXTENDS PllSearch, Functions, Sequences

CONSTANTS
    Harts,
    Setters,    \* the harts that set frequencies
    Freqs,      \* frequencies asked of PLL1, in MHz
    CpuFreqs,   \* frequencies asked of the CPU, in MHz
    MaxCalls    \* bound on the calls made

ASSUME ClockAssumption ==
    /\ Setters \subseteq Harts
    /\ Freqs \subseteq Nat \ {0} /\ CpuFreqs \subseteq Nat \ {0} /\ MaxCalls \in Nat

VARIABLES
    reg,        \* the words of sysctl_t
    locked,     \* pll_lock: the PLL has locked
    slip,       \* pll_lock: it slipped while it acquired the lock
    call,       \* the call a hart is in
    todo,       \* the rest of its call's program
    copy,       \* the words a hart has read in its call
    stale,      \* the words of "copy" that another hart has stored since
    disputed,   \* history: the fields of words that may be wrong
    asked,      \* the words as the calls that returned have asked for them
    freq,       \* the frequency last asked of a PLL, 0 if its dividers were given
    calls       \* number of calls made

vars == <<reg, locked, slip, call, todo, copy, stale, disputed, asked, freq, calls>>

Plls == {"pll0", "pll1"}
Clocks == {"i2c0", "aes", "pll1"}
Bus == [i2c0 |-> "apb0", aes |-> "apb1", uart3 |-> "apb0"]
Devices == {"i2c0"}     \* devices that clients reset
Channels == {0, 5}
SelWord(ch) == IF ch <= 4 THEN "dma_sel0" ELSE "dma_sel1"
None == [op |-> "none"]

PllOff == [pwrd |-> 0, reset |-> 0, out_en |-> 0, div |-> <<0, 0, 0>>]

Reset ==
    [clk_sel0 |-> [aclk_sel |-> 0, aclk_divider |-> 0, spi3 |-> 0],
     clk_en_cent |-> [apb0 |-> 0, apb1 |-> 0],
     clk_en_peri |-> [i2c0 |-> 0, aes |-> 0, uart3 |-> 0],
     peri_reset |-> [i2c0 |-> 0, uart3 |-> 0],
     pll0 |-> PllOff, pll1 |-> PllOff,
     dma_sel0 |-> [sel |-> 0], dma_sel1 |-> [sel |-> 0]]

Words == DOMAIN Reset

(* A field by itself, and a word or a set of words with some replaced.     *)
Only(x, v) == [y \in {x} |-> v]
Over(f, g) == [x \in DOMAIN f \cup DOMAIN g |-> IF x \in DOMAIN f THEN f[x] ELSE g[x]]

(***************************************************************************)
(* Steps of a program.                                                     *)
(***************************************************************************)
Load(w) == [do |-> "load", word |-> w]
Store(w, fields) == [do |-> "store", word |-> w, fields |-> fields]
Put(w, fields) == <<Load(w), Store(w, fields)>>
WaitLock(p) == <<[do |-> "wait", word |-> p]>>

SelectAclk(s) == Put("clk_sel0", [aclk_sel |-> s])

(* sysctl_cpu_set_freq asks PLL0 for its divider's multiple. *)
CpuPllFreq(f, div) == (div + 1) * 2 * f

AskedFreqs == Freqs \cup {CpuPllFreq(f, div) : f \in CpuFreqs, div \in 0..1}
Found == [f \in AskedFreqs |-> Search(f)]

(* 4. Set PLL new value: nothing is written when the search fails. *)
NewValue(f) ==
    IF Found[f].found THEN [div |-> <<Found[f].nr, Found[f].nf, Found[f].no>>] ELSE <<>>
SetValue(p, f) == IF NewValue(f) = <<>> THEN <<>> ELSE Put(p, NewValue(f))

PulseReset(p) ==
    Put(p, [reset |-> 0]) \o Put(p, [reset |-> 1]) \o Put(p, [reset |-> 0])

BusEn(c, en) ==
    IF en = 1 /\ c \in DOMAIN Bus THEN Put("clk_en_cent", Only(Bus[c], en)) ELSE <<>>
DeviceEn(c, en) ==
    IF c \in Plls THEN Put(c, [out_en |-> en]) ELSE Put("clk_en_peri", Only(c, en))
ClockEnable(c) == BusEn(c, 1) \o DeviceEn(c, 1)
ClockDisable(c) == DeviceEn(c, 0)

ResetDevice(d) == Put("peri_reset", Only(d, 1)) \o Put("peri_reset", Only(d, 0))

(* uart_debug_init(-1): the console's UART, for the new clock. *)
UartInit == ClockEnable("uart3") \o ResetDevice("uart3")

(* Mutant: the CPU goes back to PLL0 before the PLL has locked. *)
PllSetFreqEarly(p, f) ==
    (IF p = "pll0" THEN SelectAclk(0) ELSE <<>>)
    \o Put(p, [out_en |-> 0]) \o Put(p, [pwrd |-> 0]) \o SetValue(p, f)
    \o Put(p, [pwrd |-> 1]) \o PulseReset(p) \o Put(p, [out_en |-> 1])
    \o (IF p = "pll0" THEN SelectAclk(1) \o UartInit ELSE <<>>) \o WaitLock(p)

PllSetFreq(p, f) ==
    (IF p = "pll0" THEN SelectAclk(0) ELSE <<>>)
    \o Put(p, [out_en |-> 0])
    \o Put(p, [pwrd |-> 0])
    \o SetValue(p, f)
    \o Put(p, [pwrd |-> 1])
    \o PulseReset(p)
    \o WaitLock(p)
    \o Put(p, [out_en |-> 1])
    \o (IF p = "pll0" THEN SelectAclk(1) \o UartInit ELSE <<>>)

PllEnable(p) == Put(p, [pwrd |-> 1]) \o PulseReset(p)
PllDisable(p) == Put(p, [pwrd |-> 0])

FastDiv == [pll0 |-> <<1, 61, 2>>, pll1 |-> <<1, 60, 4>>]
FastEnable ==
    <<Load("pll0"), Load("pll1"),
      Store("pll0", [div |-> FastDiv["pll0"]]), Store("pll1", [div |-> FastDiv["pll1"]])>>
    \o PllEnable("pll0") \o PllEnable("pll1")
    \o WaitLock("pll0") \o WaitLock("pll1")
    \o Put("pll0", [out_en |-> 1]) \o Put("pll1", [out_en |-> 1])
    \o SelectAclk(1)

(* Mutant: the word of the other channels is written without having been read. *)
DmaSelectBlind(ch, s) ==
    LET set(w) == [sel |-> IF w = SelWord(ch) THEN s ELSE 0]
    IN <<Load("dma_sel0"), Load("dma_sel1"),
         Store("dma_sel0", set("dma_sel0")), Store("dma_sel1", set("dma_sel1"))>>

(* sysctl_dma_select reads and writes both words, whatever the channel. *)
DmaSelect(ch, s) ==
    LET set(w) == IF w = SelWord(ch) THEN [sel |-> s] ELSE <<>>
    IN <<Load("dma_sel0"), Load("dma_sel1"),
         Store("dma_sel0", set("dma_sel0")), Store("dma_sel1", set("dma_sel1"))>>

ProgramOf(c) ==
    CASE c.op = "pll_set_freq" -> PllSetFreq(c.pll, c.freq)
      [] c.op = "set_threshold" -> Put("clk_sel0", [aclk_divider |-> c.div])
      [] c.op = "set_clock_select" -> Put("clk_sel0", [spi3 |-> c.sel])
      [] c.op = "pll_enable" -> PllEnable(c.pll)
      [] c.op = "pll_disable" -> PllDisable(c.pll)
      [] c.op = "fast_enable" -> FastEnable
      [] c.op = "clock_enable" -> ClockEnable(c.clock)
      [] c.op = "clock_disable" -> ClockDisable(c.clock)
      [] c.op = "reset" -> ResetDevice(c.device)
      [] c.op = "dma_select" -> DmaSelect(c.ch, c.sel)

Calls ==
    [op : {"pll_set_freq"}, pll : {"pll1"}, freq : Freqs]
    \cup [op : {"pll_set_freq"}, pll : {"pll0"},
          freq : {CpuPllFreq(f, div) : f \in CpuFreqs, div \in 0..1}]
    \cup [op : {"set_threshold"}, div : {1}]
    \cup [op : {"set_clock_select"}, sel : {1}]
    \cup [op : {"pll_enable", "pll_disable"}, pll : {"pll1"}]
    \cup [op : {"fast_enable"}]
    \cup [op : {"clock_enable", "clock_disable"}, clock : Clocks]
    \cup [op : {"reset"}, device : Devices]
    \cup [op : {"dma_select"}, ch : Channels, sel : {1}]

(* The callers: PLL0 is set up without moving the CPU away from it only    *)
(* when the CPU is not on it.                                              *)
MayCall(h, c) ==
    /\ c.op \in {"pll_set_freq", "fast_enable"} => h \in Setters
    /\ c.op = "fast_enable" => reg["clk_sel0"].aclk_sel = 0
    /\ c.op = "pll_set_freq" /\ c.pll = "pll0" =>
        \E f \in CpuFreqs : c.freq = CpuPllFreq(f, reg["clk_sel0"].aclk_divider)

(* What a call promises of the words, however it gets there. *)
Effect(c) ==
    CASE c.op = "pll_set_freq" ->
            Over(Only(c.pll, Over(NewValue(c.freq), [pwrd |-> 1, reset |-> 0, out_en |-> 1])),
                 IF c.pll = "pll0"
                 THEN [clk_sel0 |-> [aclk_sel |-> 1], clk_en_cent |-> [apb0 |-> 1],
                       clk_en_peri |-> [uart3 |-> 1], peri_reset |-> [uart3 |-> 0]]
                 ELSE <<>>)
      [] c.op = "set_threshold" -> [clk_sel0 |-> [aclk_divider |-> c.div]]
      [] c.op = "set_clock_select" -> [clk_sel0 |-> [spi3 |-> c.sel]]
      [] c.op = "pll_enable" -> Only(c.pll, [pwrd |-> 1, reset |-> 0])
      [] c.op = "pll_disable" -> Only(c.pll, [pwrd |-> 0])
      [] c.op = "fast_enable" ->
            Over([p \in Plls |-> [pwrd |-> 1, reset |-> 0, out_en |-> 1, div |-> FastDiv[p]]],
                 [clk_sel0 |-> [aclk_sel |-> 1]])
      [] c.op = "clock_enable" /\ c.clock \in Plls -> Only(c.clock, [out_en |-> 1])
      [] c.op = "clock_disable" /\ c.clock \in Plls -> Only(c.clock, [out_en |-> 0])
      [] c.op = "clock_enable" /\ c.clock \notin Plls ->
            [clk_en_cent |-> Only(Bus[c.clock], 1), clk_en_peri |-> Only(c.clock, 1)]
      [] c.op = "clock_disable" /\ c.clock \notin Plls ->
            [clk_en_peri |-> Only(c.clock, 0)]
      [] c.op = "reset" -> [peri_reset |-> Only(c.device, 0)]
      [] c.op = "dma_select" -> Only(SelWord(c.ch), [sel |-> c.sel])
      [] OTHER -> <<>>

(* The fields a call sets, and those of them the other harts' calls set.   *)
Means(c, w, g) == w \in DOMAIN Effect(c) /\ g \in DOMAIN Effect(c)[w]
MeantFields(c) == UNION {{<<w, g>> : g \in DOMAIN Effect(c)[w]} : w \in DOMAIN Effect(c)}
SetAtOnce(h, c) == {f \in MeantFields(c) : \E g \in Harts \ {h} : Means(call[g], f[1], f[2])}

Init ==
    /\ reg = Reset
    /\ locked = [p \in Plls |-> FALSE] /\ slip = [p \in Plls |-> TRUE]
    /\ call = [h \in Harts |-> None] /\ todo = [h \in Harts |-> <<>>]
    /\ copy = [h \in Harts |-> <<>>] /\ stale = [h \in Harts |-> {}] /\ disputed = {}
    /\ asked = Reset /\ freq = [p \in Plls |-> 0] /\ calls = 0

Call(h) ==
    /\ call[h] = None /\ calls < MaxCalls
    /\ \E c \in Calls :
        /\ MayCall(h, c)
        /\ call' = [call EXCEPT ![h] = c]
        /\ todo' = [todo EXCEPT ![h] = ProgramOf(c)]
        /\ disputed' = disputed \cup SetAtOnce(h, c)
    /\ calls' = calls + 1
    /\ UNCHANGED <<reg, locked, slip, copy, stale, asked, freq>>

CurrentStep(h) == Head(todo[h])
At(h, step) == todo[h] # <<>> /\ CurrentStep(h).do = step
Advance(h) == todo' = [todo EXCEPT ![h] = Tail(@)]

LoadWord(h) ==
    /\ At(h, "load")
    /\ LET w == CurrentStep(h).word IN
        /\ copy' = [copy EXCEPT ![h] = Over(Only(w, reg[w]), @)]
        /\ stale' = [stale EXCEPT ![h] = @ \ {w}]
    /\ Advance(h)
    /\ UNCHANGED <<reg, locked, slip, call, disputed, asked, freq, calls>>

(* A PLL loses its lock without power, in reset and at new dividers. *)
LosesLock(old, new) == new.pwrd = 0 \/ new.reset = 1 \/ new.div # old.div

(* The fields of a word that a store puts back to what they were.          *)
PutBack(h, s) ==
    IF s.word \in stale[h]
    THEN {<<s.word, g>> : g \in {f \in DOMAIN reg[s.word] \ DOMAIN s.fields :
                                    copy[h][s.word][f] # reg[s.word][f]}}
    ELSE {}

StoreWord(h) ==
    /\ At(h, "store")
    /\ LET s == CurrentStep(h)
           w == s.word
           new == Over(s.fields, copy[h][w])
           lost == w \in Plls /\ LosesLock(reg[w], new)
       IN /\ reg' = [reg EXCEPT ![w] = new]
          /\ locked' = IF lost THEN [locked EXCEPT ![w] = FALSE] ELSE locked
          /\ slip' = IF lost THEN [slip EXCEPT ![w] = TRUE] ELSE slip
          /\ stale' = [g \in Harts |-> IF g # h /\ w \in DOMAIN copy[g]
                                      THEN stale[g] \cup {w} ELSE stale[g]]
          /\ disputed' = disputed \cup PutBack(h, s)
    /\ Advance(h)
    /\ UNCHANGED <<call, copy, asked, freq, calls>>

(* PLL0 must be locked without a slip, the others only locked. *)
IsLock(p) == locked[p] /\ (p = "pll0" => ~slip[p])

Locked(h) ==
    /\ At(h, "wait") /\ IsLock(CurrentStep(h).word)
    /\ Advance(h)
    /\ UNCHANGED <<reg, locked, slip, call, copy, stale, disputed, asked, freq, calls>>

(* Mutant: the wait only looks. *)
SlipKept(p) == slip' = slip

(* While the PLL is still acquiring, the slip flag comes back at once. *)
ClearSlip(p) == slip' = [slip EXCEPT ![p] = ~locked[p]]

NotLocked(h) ==
    /\ At(h, "wait") /\ ~IsLock(CurrentStep(h).word)
    /\ ClearSlip(CurrentStep(h).word)
    /\ UNCHANGED <<reg, locked, call, todo, copy, stale, disputed, asked, freq, calls>>

Return(h) ==
    /\ call[h] # None /\ todo[h] = <<>>
    /\ LET c == call[h] IN
        /\ asked' = Over([w \in DOMAIN Effect(c) |-> Over(Effect(c)[w], asked[w])], asked)
        /\ freq' = CASE c.op = "pll_set_freq" -> [freq EXCEPT ![c.pll] = c.freq]
                     [] c.op = "fast_enable" -> [p \in Plls |-> 0]
                     [] OTHER -> freq
    /\ call' = [call EXCEPT ![h] = None]
    /\ copy' = [copy EXCEPT ![h] = <<>>] /\ stale' = [stale EXCEPT ![h] = {}]
    /\ UNCHANGED <<reg, locked, slip, todo, disputed, calls>>

PllLocks(p) ==
    /\ ~locked[p] /\ reg[p].pwrd = 1 /\ reg[p].reset = 0
    /\ locked' = [locked EXCEPT ![p] = TRUE]
    /\ UNCHANGED <<reg, slip, call, todo, copy, stale, disputed, asked, freq, calls>>

Step(h) == LoadWord(h) \/ StoreWord(h) \/ Locked(h) \/ NotLocked(h) \/ Return(h)

Next ==
    \/ \E h \in Harts : Call(h) \/ Step(h)
    \/ \E p \in Plls : PllLocks(p)

Spec ==
    /\ Init /\ [][Next]_vars
    /\ \A h \in Harts : WF_vars(Step(h))
    /\ \A p \in Plls : WF_vars(PllLocks(p))

(***************************************************************************)
(* Properties.                                                             *)
(***************************************************************************)

(* Every variable stays in its type; a hart without a call has nothing to  *)
(* do and has read nothing.                                                *)
TypeOK ==
    /\ DOMAIN reg = Words /\ DOMAIN asked = Words
    /\ \A w \in Words : DOMAIN reg[w] = DOMAIN Reset[w] /\ DOMAIN asked[w] = DOMAIN Reset[w]
    /\ locked \in [Plls -> BOOLEAN] /\ slip \in [Plls -> BOOLEAN]
    /\ freq \in [Plls -> {0} \cup AskedFreqs]
    /\ call \in [Harts -> {None} \cup Calls]
    /\ \A h \in Harts :
        /\ call[h] = None => todo[h] = <<>> /\ copy[h] = <<>>
        /\ stale[h] \subseteq DOMAIN copy[h] /\ DOMAIN copy[h] \subseteq Words
    /\ \A f \in disputed : f[1] \in Words /\ f[2] \in DOMAIN Reset[f[1]]
    /\ calls \in 0 .. MaxCalls

CpuFields == {<<"clk_sel0", "aclk_sel">>} \cup {<<"pll0", g>> : g \in DOMAIN PllOff}

(* The CPU is never on a PLL that is off, in reset, unlocked or has its    *)
(* output closed (sysctl_pll_set_freq, steps 1 to 9), whatever the other   *)
(* hart does meanwhile to the other fields of clk_sel0 and to other words, *)
(* until a field of PLL0 or the select itself is set by two calls at once  *)
(* or put back by a late store.                                            *)
CpuClocked ==
    disputed \cap CpuFields = {} /\ reg["clk_sel0"].aclk_sel = 1 =>
        /\ reg["pll0"].pwrd = 1 /\ reg["pll0"].reset = 0 /\ reg["pll0"].out_en = 1
        /\ locked["pll0"]

Unset(w, g) == \A h \in Harts : ~Means(call[h], w, g)

(* A field that no running call sets holds what the last call that set it  *)
(* asked, although calls that set other fields of its word interleave with *)
(* it.  Two things alone can break this, and both happen in the run: two   *)
(* calls that set the field at once, and a store that puts the field back  *)
(* to what was read before another hart's store (sysctl_dma_select, the    *)
(* clock gates, the resets).                                               *)
SettledAsAsked ==
    \A w \in Words : \A g \in DOMAIN Reset[w] :
        reg[w][g] # asked[w][g] => <<w, g>> \in disputed \/ ~Unset(w, g)

Near == [f \in AskedFreqs \cup {0} |-> IF f = 0 THEN {} ELSE NearSettings(f)]

(* A PLL that was asked for a frequency has legal dividers that come       *)
(* within 1/64 of it, and no setting the search reaches comes nearer; it   *)
(* keeps the dividers it had only if none it reaches is within 1/64.  The  *)
(* search reaches NF of 1 to 63 without 32: NF = 64, which is legal, and   *)
(* NF = 32, which waits for 64, are what it misses                         *)
(* (sysctl_pll_source_set_freq).                                           *)
PllNearest ==
    \A p \in Plls :
        freq[p] # 0 /\ Unset(p, "div") /\ <<p, "div">> \notin disputed =>
            LET d == reg[p].div IN
            IF Found[freq[p]].found
            THEN /\ Legal(d) /\ Below(Distance(freq[p], d[2], d[3]), <<freq[p], 64>>)
                 /\ \A t \in Near[freq[p]] :
                        AtMost(Distance(freq[p], d[2], d[3]), Distance(freq[p], t[1], t[2]))
            ELSE Near[freq[p]] = {}

PoweredFields == {<<p, g>> : p \in Plls, g \in {"pwrd", "reset"}}

(* Every call returns, the ones that wait for a PLL among them             *)
(* (sysctl_pll_is_lock, sysctl_pll_clear_slip), as long as no other call   *)
(* sets the power or the reset of a PLL at the same time and no late store *)
(* puts them back.                                                         *)
CallsReturn ==
    \A h \in Harts :
        call[h] # None ~> call[h] = None \/ disputed \cap PoweredFields # {}
=============================================================================
