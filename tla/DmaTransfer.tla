---------------------------- MODULE DmaTransfer ----------------------------
(***************************************************************************)
(* uart_handle_data_dma, spi_handle_data_dma and the sending half of       *)
(* i2c_handle_data_dma over one channel of drivers/dmac.c: a caller takes  *)
(* the device's spinlock, programs the channel through a bounce buffer of  *)
(* the non-cached heap, and either waits for it and unlocks, or returns    *)
(* and leaves both to the interrupt handler, which then calls the client   *)
(* back.  The client may start the next transfer from there, as            *)
(* examples/06-uart-dma-irq does.                                          *)
(*                                                                         *)
(* The instances' fields uart_num, spi_num and i2c_num are never assigned, *)
(* so a handler waits for, and switches off, unit 0 of its kind, whichever *)
(* unit its transfer is on; a waiting caller uses its own unit.            *)
(*                                                                         *)
(* A context is <<core, "main">> or <<core, "isr">>; main of a core runs   *)
(* only while its handler does not.  A transfer is a number, and stands    *)
(* for its client buffer, its bounce buffer and its callback.              *)
(***************************************************************************)
EXTENDS Integers, FiniteSets

CONSTANTS
    Cores,          \* the harts
    Calls,          \* who may start what: records [dev, unit, core, mode]
    CallbackModes,  \* the modes a client callback may use, of those of its core
    TakeTurns,      \* clients start an async transfer only when no other core awaits one
    MaxTransfers,   \* bound: transfers started
    MaxAborts,      \* bound: transfers aborted by the I2C bus
    MaxOthers       \* bound: how often unit 0 becomes busy with its own clients' work

Devices == {"uart_send", "uart_recv", "spi_send", "spi_recv", "i2c_send"}
Modes == {"sync", "async"}

ASSUME CallsAssumption == Calls \subseteq [dev : Devices, unit : Nat, core : Cores, mode : Modes]
ASSUME CallbackAssumption == CallbackModes \subseteq Modes
ASSUME TurnsAssumption == TakeTurns \in BOOLEAN
ASSUME BoundAssumption == {MaxTransfers, MaxAborts, MaxOthers} \subseteq Nat

VARIABLES
    dev,        \* the device and direction this instance serves
    unit,       \* and the number of the unit: 0 is the one that handlers look at
    zero,       \* what unit 0 does meanwhile when unit # 0: "idle", "busy" or "aborted"
    others,     \* how often unit 0 has become busy
    lock,       \* the instance's spinlock: 0 or -1
    pc,         \* pc[x]: where context x is
    cur,        \* cur[x]: the transfer x is at work on; mode "irq" in the handler's own part
    inst,       \* the transfer whose callback is in the instance, 0 for none
    chen,       \* the channel's enable bit
    prog,       \* the transfer whose addresses the channel holds
    intStat,    \* the channel's block transfer done status
    intEn,      \* the channel's intstatus_en
    bounce,     \* dmac_context's bounce buffer, 0 for NULL
    hasCb,      \* dmac_context's callback is not NULL
    registered, \* the cores whose plic_instance entry has a callback
    plicEn,     \* the cores the PLIC offers the interrupt to
    pend,       \* PLIC pending bit
    inService,  \* claimed and not completed
    on,         \* SPI: which of ssienr and ser are set
    fifo,       \* transfers with words in the device's transmit FIFO
    abrt,       \* I2C: tx_abrt_source is set
    spoiled,    \* transfers whose words the I2C bus has refused
    allocated,  \* transfers whose bounce buffer is allocated
    moved,      \* transfers whose words the channel has moved, from or to the bounce buffer
    delivered,  \* transfers whose data has reached its destination
    dropped,    \* transfers the handler has given up without a word to the client
    ended,      \* ended[t]: how often the client was told that t is over
    asynch,     \* which cores started which transfers without waiting
    n           \* transfers started

unitVars == <<dev, unit, zero, others>>
clientVars == <<dropped, ended, asynch, n>>
channelVars == <<chen, prog, intStat, intEn>>
contextVars == <<bounce, hasCb>>
plicVars == <<registered, plicEn, pend, inService>>
deviceVars == <<on, fifo, abrt, spoiled>>
dataVars == <<allocated, moved, delivered>>
vars == <<unitVars, lock, pc, cur, inst, channelVars, contextVars, plicVars, deviceVars, dataVars,
          clientVars>>

Transfers == 1 .. MaxTransfers
Contexts == Cores \X {"main", "isr"}
Core(x) == x[1]
Isr(x) == x[2] = "isr"

Spi == dev \in {"spi_send", "spi_recv"}
Sends == dev \in {"uart_send", "spi_send", "i2c_send"}

(* Where a context starts its calls, and returns to from them. *)
Ready(x) == IF Isr(x) THEN "client" ELSE "idle"

Init ==
    /\ \E r \in Calls : dev = r.dev /\ unit = r.unit
    /\ zero = "idle" /\ others = 0
    /\ lock = 0
    /\ pc = [x \in Contexts |-> "idle"]
    /\ cur = [x \in Contexts |-> [id |-> 0, mode |-> "sync"]]
    /\ inst = 0
    /\ chen = FALSE /\ prog = 0 /\ intStat = FALSE /\ intEn = FALSE
    /\ bounce = 0 /\ hasCb = FALSE
    /\ registered = {} /\ plicEn = {} /\ pend = FALSE /\ inService = FALSE
    /\ on = {} /\ fifo = {} /\ abrt = FALSE /\ spoiled = {}
    /\ allocated = {} /\ moved = {} /\ delivered = {}
    /\ dropped = {}
    /\ ended = [t \in Transfers |-> 0]
    /\ asynch = {}
    /\ n = 0

(* x is at p and runs: its core is not in the handler when x is main. *)
At(x, p) ==
    /\ pc[x] = p
    /\ Isr(x) \/ pc[<<Core(x), "isr">>] = "idle"

Goto(x, p) == pc' = [pc EXCEPT ![x] = p]

-----------------------------------------------------------------------------
(* Hardware. *)

(* A transmit FIFO takes words whether or not a slave is selected (a short *)
(* transfer fits it), and shifts them out when one is.                     *)
MayMove ==
    CASE dev = "spi_send" -> "ssienr" \in on
      [] dev = "spi_recv" -> on = {"ssienr", "ser"}
      [] OTHER -> TRUE

(* The channel has moved the last word: it disables itself and says so. *)
Move ==
    /\ chen
    /\ MayMove
    /\ moved' = moved \cup {prog}
    /\ fifo' = IF Sends THEN fifo \cup {prog} ELSE fifo
    /\ chen' = FALSE
    /\ intStat' = TRUE
    /\ UNCHANGED <<unitVars, lock, pc, cur, inst, prog, intEn, contextVars, plicVars, on,
                   abrt, spoiled, allocated, delivered, clientVars>>

Drain ==
    /\ fifo # {}
    /\ Spi => on = {"ssienr", "ser"}
    /\ delivered' = IF abrt THEN delivered ELSE delivered \cup fifo
    /\ spoiled' = IF abrt THEN spoiled \cup fifo ELSE spoiled
    /\ fifo' = {}
    /\ UNCHANGED <<unitVars, lock, pc, cur, inst, channelVars, contextVars, plicVars, on,
                   abrt, allocated, moved, clientVars>>

(* No slave acknowledges: what is in the FIFO will be thrown away.  Only   *)
(* for a transfer with a callback; one that is waited for ends in an       *)
(* assertion that stops the program.                                       *)
Abort ==
    /\ dev = "i2c_send" /\ fifo # {} /\ ~abrt
    /\ \A t \in fifo : \E c \in Cores : <<c, t>> \in asynch
    /\ Cardinality(spoiled) < MaxAborts
    /\ abrt' = TRUE
    /\ spoiled' = spoiled \cup fifo
    /\ UNCHANGED <<unitVars, lock, pc, cur, inst, channelVars, contextVars, plicVars, on, fifo,
                   dataVars, clientVars>>

(* Unit 0, when the transfers of this instance are another unit's: its own *)
(* clients make it busy, and on I2C its bus may abort what it sends.       *)
OthersStart ==
    /\ unit # 0 /\ zero = "idle" /\ others < MaxOthers
    /\ zero' = "busy"
    /\ others' = others + 1
    /\ UNCHANGED <<dev, unit, lock, pc, cur, inst, channelVars, contextVars, plicVars, deviceVars,
                   dataVars, clientVars>>

OthersAbort ==
    /\ dev = "i2c_send" /\ zero = "busy"
    /\ zero' = "aborted"
    /\ UNCHANGED <<dev, unit, others, lock, pc, cur, inst, channelVars, contextVars, plicVars,
                   deviceVars, dataVars, clientVars>>

OthersEnd ==
    /\ zero # "idle"
    /\ zero' = "idle"
    /\ UNCHANGED <<dev, unit, others, lock, pc, cur, inst, channelVars, contextVars, plicVars,
                   deviceVars, dataVars, clientVars>>

(* The gateway forwards the channel's level, once until the completion. *)
Forward ==
    /\ intStat /\ intEn
    /\ ~pend /\ ~inService
    /\ pend' = TRUE
    /\ UNCHANGED <<unitVars, lock, pc, cur, inst, channelVars, contextVars, registered, plicEn,
                   inService, deviceVars, dataVars, clientVars>>

-----------------------------------------------------------------------------
(* Starting a transfer: main, or a client callback inside the handler. *)

(* No transfer of another core is to be told by interrupt, and no callback *)
(* of another core runs: the clients see to that when they take turns.     *)
InTurn(c) ==
    /\ \A p \in asynch : p[1] = c \/ ended[p[2]] > 0
    /\ \A d \in Cores \ {c} : pc[<<d, "isr">>] \in {"idle", "complete"}

Call(x, r) ==
    /\ n < MaxTransfers
    /\ At(x, Ready(x))
    /\ r.dev = dev /\ r.unit = unit /\ r.core = Core(x)
    /\ Isr(x) => r.mode \in CallbackModes
    /\ r.mode = "async" /\ TakeTurns => InTurn(Core(x))
    /\ n' = n + 1
    /\ asynch' = IF r.mode = "async" THEN asynch \cup {<<Core(x), n + 1>>} ELSE asynch
    /\ cur' = [cur EXCEPT ![x] = [id |-> n + 1, mode |-> r.mode]]
    /\ Goto(x, "lock")
    /\ UNCHANGED <<unitVars, lock, inst, channelVars, contextVars, plicVars, deviceVars, dataVars, dropped,
                   ended>>

(* A callback starts at most one transfer it does not wait for, last: the  *)
(* handler it runs in keeps out the interrupt a second one would wait for. *)
AfterStart(x) ==
    IF cur[x].mode = "sync" THEN "wait" ELSE IF Isr(x) THEN "complete" ELSE "idle"

(* Mutant of Step: the handler is registered once the channel runs. *)
RegisterLast(x) ==
    CASE pc[x] = "lock"     -> "fill"
      [] pc[x] = "fill"     -> "clear"
      [] pc[x] = "clear"    -> "buffers"
      [] pc[x] = "buffers"  -> "start"
      [] pc[x] = "start"    -> IF cur[x].mode = "async" THEN "register"
                               ELSE IF Spi THEN "select" ELSE AfterStart(x)
      [] pc[x] = "register" -> IF Spi THEN "select" ELSE AfterStart(x)
      [] pc[x] = "select"   -> AfterStart(x)

(* The order in which a transfer is begun. *)
Step(x) ==
    CASE pc[x] = "lock"     -> "fill"
      [] pc[x] = "fill"     -> IF cur[x].mode = "async" THEN "register" ELSE "clear"
      [] pc[x] = "register" -> "clear"
      [] pc[x] = "clear"    -> "buffers"
      [] pc[x] = "buffers"  -> "start"
      [] pc[x] = "start"    -> IF Spi THEN "select" ELSE AfterStart(x)
      [] pc[x] = "select"   -> AfterStart(x)

Lock(x) ==
    /\ At(x, "lock")
    /\ lock = 0
    /\ lock' = -1
    /\ Goto(x, Step(x))
    /\ UNCHANGED <<unitVars, cur, inst, channelVars, contextVars, plicVars, deviceVars, dataVars,
                   clientVars>>

(* The client's callback goes into the instance; SPI enables its unit, I2C *)
(* clears the source of an abort, until when the FIFO throws words away.   *)
Fill(x) ==
    /\ At(x, "fill")
    /\ inst' = IF cur[x].mode = "async" THEN cur[x].id ELSE inst
    /\ on' = IF Spi THEN on \cup {"ssienr"} ELSE on
    /\ abrt' = FALSE
    /\ fifo' = IF abrt THEN {} ELSE fifo
    /\ Goto(x, Step(x))
    /\ UNCHANGED <<unitVars, lock, cur, channelVars, contextVars, plicVars, spoiled, dataVars, clientVars>>

(* dmac_irq_register, of a channel that is idle: one step. *)
Register(x) ==
    /\ At(x, "register")
    /\ hasCb' = TRUE
    /\ intStat' = FALSE
    /\ intEn' = TRUE
    /\ registered' = registered \cup {Core(x)}
    /\ plicEn' = plicEn \cup {Core(x)}
    /\ Goto(x, Step(x))
    /\ UNCHANGED <<unitVars, lock, cur, inst, chen, prog, bounce, pend, inService, deviceVars,
                   dataVars, clientVars>>

(* dmac_set_single_mode up to the end of dmac_wait_idle. *)
Clear(x) ==
    /\ At(x, "clear")
    /\ chen' = FALSE
    /\ intStat' = FALSE
    /\ Goto(x, Step(x))
    /\ UNCHANGED <<unitVars, lock, cur, inst, prog, intEn, contextVars, plicVars, deviceVars,
                   dataVars, clientVars>>

(* dmac_set_channel_param: the client's buffer is cached memory. *)
Buffers(x) ==
    /\ At(x, "buffers")
    /\ allocated' = allocated \cup {cur[x].id}
    /\ bounce' = cur[x].id
    /\ prog' = cur[x].id
    /\ Goto(x, Step(x))
    /\ UNCHANGED <<unitVars, lock, cur, inst, chen, intStat, intEn, hasCb, plicVars, deviceVars,
                   moved, delivered, clientVars>>

Start(x) ==
    /\ At(x, "start")
    /\ chen' = TRUE
    /\ Goto(x, Step(x))
    /\ UNCHANGED <<unitVars, lock, cur, inst, prog, intStat, intEn, contextVars, plicVars, deviceVars,
                   dataVars, clientVars>>

Select(x) ==
    /\ At(x, "select")
    /\ on' = on \cup {"ser"}
    /\ Goto(x, Step(x))
    /\ UNCHANGED <<unitVars, lock, cur, inst, channelVars, contextVars, plicVars, fifo, abrt, spoiled,
                   dataVars, clientVars>>

-----------------------------------------------------------------------------
(* The two ways a transfer completes share what they do to the buffers. *)

(* memcpy to dest_buffer: what arrives is the device's data only when the  *)
(* channel was done.                                                       *)
CopyOut == delivered' = IF ~Sends THEN delivered \cup ({bounce} \cap moved) ELSE delivered

(* Mutant of FreeBounce: the pointer is cleared without the free. *)
ForgetBounce ==
    /\ allocated' = allocated
    /\ bounce' = 0

(* iomem_free of the bounce buffer, and NULL in dmac_context. *)
FreeBounce ==
    /\ allocated' = allocated \ {bounce}
    /\ bounce' = 0

Unlock == lock' = 0

(* x is the handler of another unit's transfer, and looks at unit 0. *)
Astray(x) == cur[x].mode = "irq" /\ unit # 0

(* spi: ser and ssienr to 0, which also empties the FIFO.  When it is      *)
(* unit 0 that is switched off its clients' transfer ends with it, and the *)
(* transfer's own unit stays as it is.                                     *)
SpiOff(x) ==
    IF Astray(x)
    THEN zero' = "idle" /\ UNCHANGED <<on, fifo>>
    ELSE on' = {} /\ fifo' = {} /\ UNCHANGED zero

Tell(t) == ended' = [ended EXCEPT ![t] = @ + 1]

(* The order in which a waiting caller and the handler finish.  The        *)
(* handler turns SPI off before it unlocks, the waiting caller after.      *)
SyncStep(x) ==
    CASE pc[x] = "wait"   -> "copy"
      [] pc[x] = "copy"   -> "free"
      [] pc[x] = "free"   -> "drain"
      [] pc[x] = "drain"  -> "unlock"
      [] pc[x] = "unlock" -> IF Spi THEN "off" ELSE "return"
      [] pc[x] = "off"    -> "return"

HandlerStep(x) ==
    CASE pc[x] = "iclear"     -> "copy"
      [] pc[x] = "copy"       -> "free"
      [] pc[x] = "free"       -> "unregister"
      [] pc[x] = "unregister" -> "drain"
      [] pc[x] = "drain"      -> IF Spi THEN "off" ELSE "unlock"
      [] pc[x] = "off"        -> "unlock"
      [] pc[x] = "unlock"     -> "notify"

After(x) == IF cur[x].mode = "irq" THEN HandlerStep(x) ELSE SyncStep(x)

(* Mutant of Wait: the done status of an earlier transfer will do. *)
WaitNot(x) ==
    /\ At(x, "wait")
    /\ intStat' = FALSE
    /\ Goto(x, After(x))
    /\ UNCHANGED <<unitVars, lock, cur, inst, chen, prog, intEn, contextVars, plicVars, deviceVars,
                   dataVars, clientVars>>

(* dmac_wait_done's dmac_wait_idle *)
Wait(x) ==
    /\ At(x, "wait")
    /\ ~chen
    /\ intStat' = FALSE
    /\ Goto(x, After(x))
    /\ UNCHANGED <<unitVars, lock, cur, inst, chen, prog, intEn, contextVars, plicVars, deviceVars,
                   dataVars, clientVars>>

(* handle_irq_m_ext claims, and calls what this core has registered.  A    *)
(* core the source is still enabled for has its trap even when it has not. *)
Claim(c) ==
    LET x == <<c, "isr">> IN
    /\ pend /\ c \in plicEn
    /\ pc[x] = "idle"
    /\ pend' = FALSE
    /\ inService' = TRUE
    /\ cur' = [cur EXCEPT ![x] = [id |-> 0, mode |-> "irq"]]
    /\ Goto(x, IF c \in registered THEN "iclear" ELSE "complete")
    /\ UNCHANGED <<unitVars, lock, inst, channelVars, contextVars, registered, plicEn, deviceVars,
                   dataVars, clientVars>>

(* dmac_irq_callback's dmac_channel_interrupt_clear *)
ClearInHandler(x) ==
    /\ At(x, "iclear")
    /\ intStat' = FALSE
    /\ Goto(x, After(x))
    /\ UNCHANGED <<unitVars, lock, cur, inst, chen, prog, intEn, contextVars, plicVars, deviceVars,
                   dataVars, clientVars>>

Copy(x) ==
    /\ At(x, "copy")
    /\ CopyOut
    /\ Goto(x, After(x))
    /\ UNCHANGED <<unitVars, lock, cur, inst, channelVars, contextVars, plicVars, deviceVars,
                   allocated, moved, clientVars>>

FreeBuffer(x) ==
    /\ At(x, "free")
    /\ FreeBounce
    /\ Goto(x, After(x))
    /\ UNCHANGED <<unitVars, lock, cur, inst, channelVars, hasCb, plicVars, deviceVars,
                   moved, delivered, clientVars>>

(* dmac_irq_unregister, by the device's own handler. *)
Unregister(x) ==
    /\ At(x, "unregister")
    /\ hasCb' = FALSE
    /\ intEn' = FALSE
    /\ registered' = registered \ {Core(x)}
    /\ Goto(x, After(x))
    /\ UNCHANGED <<unitVars, lock, cur, inst, chen, prog, intStat, bounce, plicEn, pend, inService,
                   deviceVars, dataVars, clientVars>>

(* Mutant of WaitDrained: the transmitter is not waited for. *)
DrainedNot(x) ==
    /\ At(x, "drain")
    /\ Goto(x, After(x))
    /\ UNCHANGED <<unitVars, lock, cur, inst, channelVars, contextVars, plicVars, deviceVars,
                   dataVars, clientVars>>

(* The handler waits for the transmitter, which is unit 0's, when the      *)
(* transfer sends or is SPI's; a waiting caller for its own unit's.        *)
WaitDrained(x) ==
    /\ At(x, "drain")
    /\ IF Astray(x) THEN (Sends \/ Spi) => zero = "idle" ELSE fifo = {}
    /\ Goto(x, After(x))
    /\ UNCHANGED <<unitVars, lock, cur, inst, channelVars, contextVars, plicVars, deviceVars,
                   dataVars, clientVars>>

(* i2c_dma_irq sees an abort, of unit 0, while it waits: it unlocks and    *)
(* returns, and the client is not called.                                  *)
GiveUp(x) ==
    /\ At(x, "drain") /\ cur[x].mode = "irq"
    /\ IF Astray(x) THEN zero = "aborted" ELSE fifo # {} /\ abrt
    /\ Unlock
    /\ dropped' = dropped \cup {inst}
    /\ Goto(x, "complete")
    /\ UNCHANGED <<unitVars, cur, inst, channelVars, contextVars, plicVars, deviceVars,
                   dataVars, ended, asynch, n>>

Off(x) ==
    /\ At(x, "off")
    /\ SpiOff(x)
    /\ Goto(x, After(x))
    /\ UNCHANGED <<dev, unit, others, lock, cur, inst, channelVars, contextVars, plicVars, abrt, spoiled,
                   dataVars, clientVars>>

Release(x) ==
    /\ At(x, "unlock")
    /\ Unlock
    /\ Goto(x, After(x))
    /\ UNCHANGED <<unitVars, cur, inst, channelVars, contextVars, plicVars, deviceVars,
                   dataVars, clientVars>>

(* A waiting caller goes back to the client. *)
Return(x) ==
    /\ At(x, "return")
    /\ Tell(cur[x].id)
    /\ Goto(x, Ready(x))
    /\ UNCHANGED <<unitVars, lock, cur, inst, channelVars, contextVars, plicVars, deviceVars,
                   dataVars, dropped, asynch, n>>

(* The handler reads the client's callback from the instance it has just   *)
(* unlocked, and calls it.                                                 *)
Notify(x) ==
    /\ At(x, "notify")
    /\ Tell(inst)
    /\ Goto(x, "client")
    /\ UNCHANGED <<unitVars, lock, cur, inst, channelVars, contextVars, plicVars, deviceVars,
                   dataVars, dropped, asynch, n>>

CallbackReturns(x) ==
    /\ At(x, "client")
    /\ Goto(x, "complete")
    /\ UNCHANGED <<unitVars, lock, cur, inst, channelVars, contextVars, plicVars, deviceVars,
                   dataVars, clientVars>>

Complete(x) ==
    /\ At(x, "complete")
    /\ inService' = FALSE
    /\ Goto(x, "idle")
    /\ UNCHANGED <<unitVars, lock, cur, inst, channelVars, contextVars, registered, plicEn, pend,
                   deviceVars, dataVars, clientVars>>

Begin(x) ==
    \/ Lock(x) \/ Fill(x) \/ Register(x) \/ Clear(x) \/ Buffers(x) \/ Start(x) \/ Select(x)

Finish(x) ==
    \/ Wait(x) \/ ClearInHandler(x) \/ Copy(x) \/ FreeBuffer(x) \/ Unregister(x)
    \/ WaitDrained(x) \/ GiveUp(x) \/ Off(x) \/ Release(x)
    \/ Return(x) \/ Notify(x) \/ CallbackReturns(x) \/ Complete(x)

Next ==
    \/ Move \/ Drain \/ Abort \/ Forward
    \/ OthersStart \/ OthersAbort \/ OthersEnd
    \/ \E c \in Cores : Claim(c)
    \/ \E x \in Contexts, r \in Calls : Call(x, r)
    \/ \E x \in Contexts : Begin(x) \/ Finish(x)

Spec == Init /\ [][Next]_vars

(* Running code keeps running, the hardware moves what it can, and what    *)
(* unit 0 is busy with ends.  A claim may be lost to another core, again   *)
(* and again only by an arbiter that always favours that core: strong      *)
(* fairness for each core's claim.                                         *)
Fairness ==
    /\ WF_vars(Move) /\ WF_vars(Drain) /\ WF_vars(Forward) /\ WF_vars(OthersEnd)
    /\ \A c \in Cores : SF_vars(Claim(c))
    /\ \A x \in Contexts : WF_vars(Begin(x)) /\ WF_vars(Finish(x))

FairSpec == Spec /\ Fairness

-----------------------------------------------------------------------------
(* Properties. *)

InCall == {"lock", "fill", "register", "clear", "buffers", "start", "select",
           "wait", "copy", "free", "drain", "unlock", "off", "return"}
InHandler == {"iclear", "copy", "free", "unregister", "drain", "off", "unlock", "notify",
              "client", "complete"}

(* Every variable stays in its type; the handler's own steps are the       *)
(* handler's, and the spinlock's word is one of the two of atomic.h.       *)
TypeOK ==
    /\ dev \in Devices /\ unit \in Nat
    /\ zero \in {"idle", "busy", "aborted"} /\ others \in 0 .. MaxOthers
    /\ lock \in {0, -1}
    /\ \A x \in Contexts : pc[x] \in IF Isr(x) THEN InCall \cup InHandler \cup {"idle"} ELSE InCall \cup {"idle"}
    /\ cur \in [Contexts -> [id : 0 .. MaxTransfers, mode : Modes \cup {"irq"}]]
    /\ {inst, prog, bounce} \subseteq 0 .. MaxTransfers
    /\ {chen, intStat, intEn, hasCb, pend, inService} \subseteq BOOLEAN
    /\ registered \cup plicEn \subseteq Cores
    /\ on \subseteq {"ssienr", "ser"}
    /\ abrt \in BOOLEAN
    /\ fifo \cup spoiled \cup allocated \cup moved \cup delivered \cup dropped \subseteq Transfers
    /\ asynch \subseteq Cores \X Transfers
    /\ ended \in [Transfers -> 0 .. MaxTransfers]
    /\ n \in 0 .. MaxTransfers

(* The channel never moves words from or to a bounce buffer that has been  *)
(* given back: nobody frees it while the channel is enabled.               *)
BufferLive == chen => prog \in allocated

(* When the spinlock is free the channel is quiet and everything a         *)
(* transfer took is given back: no bounce buffer, no registered callback,  *)
(* no interrupt that could run the handler against the next transfer.      *)
QuietWhenFree ==
    lock = 0 => /\ ~chen /\ ~intEn /\ ~hasCb
                /\ allocated = {} /\ registered = {}

(* Who tells the client of t has waited for t's own device: a waiting      *)
(* caller, the handler of unit 0, and any handler when what it copies is   *)
(* the data.                                                               *)
Awaited(t) == unit = 0 \/ ~Sends \/ \A c \in Cores : <<c, t>> \notin asynch

(* A client is told of a transfer once, after the channel has moved it,    *)
(* and after its data has arrived or the bus has refused it if it is told  *)
(* by one who has waited for that; a handler of another unit than 0 has    *)
(* not.  The late read of the instance does not name another transfer.     *)
ToldOnceWhenDone ==
    \A t \in Transfers :
        ended[t] = 0 \/ /\ ended[t] = 1
                        /\ t \in moved
                        /\ Awaited(t) => t \in delivered \cup spoiled

(* Every transfer that was started is over at some time, and its client    *)
(* knows, unless it was aborted on unit 0, or the handler of another unit  *)
(* has met an abort of unit 0 and given it up: the hand-over of the lock   *)
(* to the handler never loses it, and an abort does not take later ones    *)
(* with it.                                                                *)
TransferEnds ==
    \A t \in Transfers :
        (n >= t) ~> (ended[t] > 0 \/ t \in IF unit = 0 THEN spoiled ELSE dropped)
=============================================================================
