------------------------------ MODULE KpuTask ------------------------------
(***************************************************************************)
(* drivers/kpu.c: how the layers of a network get into the accelerator.    *)
(* Three interfaces do it, one of them in a behaviour:                     *)
(*   kpu_start       bursts of LAYER_BURST_SIZE layers from AI interrupts, *)
(*                   of a higher priority than the DMA's;                  *)
(*   kpu_run         one layer per AI interrupt;                           *)
(*   kpu_run_kmodel  layers for the accelerator and for the core mixed, a  *)
(*                   step each, from whatever interrupt ended the last.    *)
(* Input and output go over one DMA channel (DmaTransfer has its insides). *)
(*                                                                         *)
(* One core runs a stack of frames: main and the handlers on top of it.  A *)
(* frame has the statements it still has to execute, most recent first.    *)
(***************************************************************************)
EXTENDS Integers, Sequences, FiniteSets, SequencesExt

CONSTANTS
    Models,     \* [interface -> the networks it runs: sequences of kinds of layers]
    Burst,      \* LAYER_BURST_SIZE
    MaxTasks    \* bound: tasks started

Interfaces == {"kpu_start", "kpu_run", "kpu_run_kmodel"}
(* What a layer is: run by the accelerator, by it with the result sent to  *)
(* main memory (send_data_out), or by the core.                            *)
Kinds == {"conv", "out", "cpu"}
Status == {"calc_done", "almost_empty"}
Sources == {"ai", "dma"}

(* A network has layers, and the last leaves its result in main memory; to *)
(* kpu_start and kpu_run the others leave theirs in the KPU.               *)
ASSUME ModelsAssumption ==
    /\ Models \in [Interfaces -> SUBSET Seq(Kinds)]
    /\ \A f \in Interfaces : \A m \in Models[f] :
          /\ m # <<>> /\ m[Len(m)] # "conv"
          /\ f # "kpu_run_kmodel" => \A l \in 1 .. Len(m) : m[l] = IF l = Len(m) THEN "out" ELSE "conv"
ASSUME BurstAssumption == Burst \in Nat \ {0}
ASSUME BoundAssumption == MaxTasks \in Nat

VARIABLES
    api, model, \* the interface used and the network run
    also,       \* int_en is set in the network's other accelerator layers too
    input,      \* "dma", or "cpu" when the core copies it (or src is NULL)
    status,     \* interrupt_status of the KPU
    mask,       \* interrupt_mask
    fifo,       \* layer_argument_fifo
    busy,       \* the layer the accelerator computes, 0 for none
    outReady,   \* fifo_data_out holds a result
    dma,        \* what the channel does: "off", "in" or "out"
    dmaDone,    \* its done status
    dmaCb,      \* what its interrupt calls: "ready", "step", "done", "finish"
    aiEnabled,  \* the AI interrupt is registered and enabled
    pend,       \* PLIC pending
    irqOff,     \* sysctl_disable_irq by main
    stack,      \* frames [src, todo, i]; i counts the layers of a burst
    flag,       \* kpu_status, or that of g_kpu_context
    at,         \* layers taken: remain_layers, or current_layer
    n, told,    \* tasks started, tasks whose client was called back
    arrived,    \* this task's input is in the KPU's memory
    computed,   \* this task's layers in the order they were computed
    delivered,  \* this task's results that reached memory
    collided    \* history: a task began when the one before was not over

runVars == <<api, model, also, input>>
aiVars == <<status, mask, fifo, busy, outReady>>
dmaVars == <<dma, dmaDone, dmaCb>>
plicVars == <<aiEnabled, pend, irqOff>>
taskVars == <<flag, at, n, told>>
dataVars == <<arrived, computed, delivered, collided>>
vars == <<runVars, aiVars, dmaVars, plicVars, stack, taskVars, dataVars>>

L == Len(model)
Kmodel == api = "kpu_run_kmodel"

(* kpu_start and kpu_run set int_en and send_data_out in the last layer;   *)
(* kpu_conv sets int_en where the result stays, send_data_out elsewhere.   *)
SendsOut(l) == model[l] = "out"
Interrupts(l) == also \/ (IF Kmodel THEN model[l] = "conv" ELSE l = L)

Init ==
    /\ api \in Interfaces
    /\ model \in Models[api]
    /\ also \in BOOLEAN
    /\ input \in CASE api = "kpu_run" -> {"dma"}
                  [] api = "kpu_run_kmodel" /\ model[1] = "cpu" -> {"cpu"}
                  [] OTHER -> {"dma", "cpu"}
    /\ status = {} /\ mask = Status /\ fifo = <<>> /\ busy = 0 /\ outReady = FALSE
    /\ dma = "off" /\ dmaDone = FALSE /\ dmaCb = "done"
    /\ aiEnabled = FALSE /\ pend = {} /\ irqOff = FALSE
    /\ stack = <<[src |-> "main", todo |-> <<"call">>, i |-> 0]>>
    /\ flag = 0 /\ at = 0 /\ n = 0 /\ told = 0
    /\ arrived = FALSE /\ computed = <<>> /\ delivered = 0 /\ collided = FALSE

-----------------------------------------------------------------------------
(* Frames. *)

Frame == Last(stack)
At(stmt) == Frame.todo # <<>> /\ Head(Frame.todo) = stmt
(* The statement is done; more, if any, comes before the rest. *)
Then(more) == stack' = [stack EXCEPT ![Len(stack)].todo = more \o Tail(@)]
Done == Then(<<>>)

(* Main is between its calls: it may start a task. *)
MainLoop == Frame.src = "main" /\ Frame.todo = <<"call">>

Priority(s) == IF s = "main" THEN 0 ELSE IF s = "ai" /\ api = "kpu_start" THEN 2 ELSE 1
InService == {stack[k].src : k \in DOMAIN stack}

(* Mutant of DataReady: the KPU may interrupt while the first burst is written. *)
DataReadyListening == <<"iclear", "output", "maskDone", "clear", "enable", "clear", "push">>

(* Mutant of DataReady: the interrupts stay masked after the first burst. *)
DataReadyMasked == <<"iclear", "output", "maskAll", "clear", "enable", "clear", "push">>

(* kpu_data_ready *)
DataReady ==
    <<"iclear", "output", "maskAll", "clear", "enable", "clear", "push", "maskDone">>

(* Mutant of PushLayers: the output channel is set up after the layers. *)
PushLayersFirst == <<"clear", "iclear", "maskNone", "clear", "push", "output">>

(* kpu_run_dma_input_done_push_layers, with its kpu_continue *)
PushLayers == <<"clear", "iclear", "output", "maskNone", "clear", "push">>

(* kpu_kmodel_done *)
KmodelDone == <<"clear", "maskAll", "told", "call">>

(* Mutant of TaskDone: the client is called before the flag is free. *)
ToldFirst == <<"told", "call", "free">>

(* kpu_done, kpu_run_all_done *)
TaskDone == <<"free", "told", "call">>

AiHandler == IF Kmodel THEN <<"step">> ELSE <<"clear", "push">>

DmaHandler ==
    CASE dmaCb = "ready" -> IF api = "kpu_start" THEN DataReady ELSE PushLayers
      [] dmaCb = "step" -> <<"iclear", "step">>
      [] dmaCb = "finish" -> <<"iclear">> \o KmodelDone
      [] dmaCb = "done" -> <<"iclear">> \o TaskDone

(* Mutant of StartPath: kpu_start writes the layers without waiting for the input. *)
StartNow == IF api = "kpu_start" THEN DataReady ELSE <<"enable", "input">>

(* kpu_data_input, kpu_run and kpu_run_kmodel up to their return. *)
StartPath ==
    CASE api = "kpu_start" -> IF input = "dma" THEN <<"input">> ELSE DataReady
      [] api = "kpu_run" -> <<"enable", "input">>
      [] Kmodel -> <<"clear", "maskDone", "enable">>
                   \o IF input = "dma" THEN <<"input">> ELSE <<"irqOff", "step", "irqOn">>

-----------------------------------------------------------------------------
(* Hardware. *)

Level(s) == IF s = "ai" THEN status \ mask # {} ELSE dmaDone
Forwarded(s) == Level(s) /\ s \notin pend \cup InService
Claimable(s) == s \in pend /\ (s = "ai" => aiEnabled) /\ ~irqOff /\ Priority(s) > Priority(Frame.src)

(* The accelerator takes a layer and says so when few are left. *)
Take ==
    /\ busy = 0 /\ fifo # <<>>
    /\ busy' = Head(fifo)
    /\ fifo' = Tail(fifo)
    /\ status' = IF Len(fifo) <= 2 THEN status \cup {"almost_empty"} ELSE status
    /\ UNCHANGED <<runVars, mask, outReady, dmaVars, plicVars, stack, taskVars, dataVars>>

Compute ==
    /\ busy # 0
    /\ SendsOut(busy) => ~outReady
    /\ busy' = 0
    /\ computed' = Append(computed, busy)
    /\ status' = IF Interrupts(busy) THEN status \cup {"calc_done"} ELSE status
    /\ outReady' = (outReady \/ SendsOut(busy))
    /\ UNCHANGED <<runVars, mask, fifo, dmaVars, plicVars, stack, taskVars, arrived, delivered,
                   collided>>

(* The channel is done with the input, or with a result. *)
Move ==
    /\ dma = "in" \/ (dma = "out" /\ outReady)
    /\ dma' = "off"
    /\ dmaDone' = TRUE
    /\ IF dma = "in"
       THEN arrived' = TRUE /\ UNCHANGED <<outReady, delivered>>
       ELSE outReady' = FALSE /\ delivered' = delivered + 1 /\ UNCHANGED arrived
    /\ UNCHANGED <<runVars, status, mask, fifo, busy, dmaCb, plicVars, stack, taskVars, computed,
                   collided>>

Forward ==
    \E s \in Sources :
        /\ Forwarded(s)
        /\ pend' = pend \cup {s}
        /\ UNCHANGED <<runVars, aiVars, dmaVars, aiEnabled, irqOff, stack, taskVars, dataVars>>

(* The PLIC gives the pending source of highest priority, and the lower id *)
(* (25 and 27) of two; its handler preempts frames of lower priority.      *)
Claim ==
    \E s \in Sources :
        /\ Claimable(s)
        /\ s = "dma" => ~Claimable("ai")
        /\ pend' = pend \ {s}
        /\ stack' = Append(stack,
               [src |-> s, todo |-> IF s = "ai" THEN AiHandler ELSE DmaHandler, i |-> 0])
        /\ UNCHANGED <<runVars, aiVars, dmaVars, aiEnabled, irqOff, taskVars, dataVars>>

Complete ==
    /\ Frame.src # "main" /\ Frame.todo = <<>>
    /\ stack' = Front(stack)
    /\ UNCHANGED <<runVars, aiVars, dmaVars, plicVars, taskVars, dataVars>>

-----------------------------------------------------------------------------
(* Registers of the KPU, the channel and the core. *)

MaskOf(stmt) ==
    CASE stmt = "maskAll" -> Status
      [] stmt = "maskNone" -> {}
      [] stmt = "maskDone" -> {"calc_done"}
      [] stmt = "maskEmpty" -> {"almost_empty"}

SetMask ==
    \E stmt \in {"maskAll", "maskNone", "maskDone", "maskEmpty"} :
        /\ At(stmt)
        /\ mask' = MaskOf(stmt)
        /\ Done
        /\ UNCHANGED <<runVars, status, fifo, busy, outReady, dmaVars, plicVars, taskVars, dataVars>>

(* interrupt_clear *)
Clear ==
    /\ At("clear")
    /\ status' = {}
    /\ Done
    /\ UNCHANGED <<runVars, mask, fifo, busy, outReady, dmaVars, plicVars, taskVars, dataVars>>

(* the intclear of the channel, by dmac_irq_callback and by kpu.c again *)
ClearDma ==
    /\ At("iclear")
    /\ dmaDone' = FALSE
    /\ Done
    /\ UNCHANGED <<runVars, aiVars, dma, dmaCb, plicVars, taskVars, dataVars>>

EnableAi ==
    /\ At("enable")
    /\ aiEnabled' = TRUE
    /\ Done
    /\ UNCHANGED <<runVars, aiVars, dmaVars, pend, irqOff, taskVars, dataVars>>

SwitchIrq ==
    /\ At("irqOff") \/ At("irqOn")
    /\ irqOff' = At("irqOff")
    /\ Done
    /\ UNCHANGED <<runVars, aiVars, dmaVars, aiEnabled, pend, taskVars, dataVars>>

(* dmac_irq_register and dmac_set_single_mode: the channel's interrupt is  *)
(* cleared, the callback in place before it is enabled.                    *)
Arm(kind, callback) ==
    /\ dma' = kind
    /\ dmaCb' = callback
    /\ dmaDone' = FALSE
    /\ Done
    /\ UNCHANGED <<runVars, aiVars, plicVars, taskVars, dataVars>>

(* kpu_data_input, kpu_run_dma_input, kpu_input_dma *)
Input == At("input") /\ Arm("in", IF Kmodel THEN "step" ELSE "ready")

OutputCallback == IF ~Kmodel THEN "done" ELSE IF at # L THEN "step" ELSE "finish"

(* kpu_data_output, kpu_run_dma_output, kpu_conv *)
Output == At("output") /\ Arm("out", OutputCallback)

-----------------------------------------------------------------------------
(* Layers. *)

BurstSize == IF api = "kpu_start" THEN Burst ELSE 1

(* One layer of the loops of kpu_config_input and kpu_continue. *)
Push ==
    /\ At("push")
    /\ Frame.i < BurstSize /\ at + Frame.i < L
    /\ fifo' = Append(fifo, at + Frame.i + 1)
    /\ stack' = [stack EXCEPT ![Len(stack)].i = @ + 1]
    /\ UNCHANGED <<runVars, status, mask, busy, outReady, dmaVars, plicVars, taskVars, dataVars>>

(* ... and what follows the loop: kpu_config_input masks the KPU when it   *)
(* has written the last layers.                                            *)
PushEnds ==
    /\ At("push")
    /\ Frame.i = BurstSize \/ at + Frame.i = L
    /\ at' = at + Frame.i
    /\ stack' = [stack EXCEPT ![Len(stack)].i = 0, ![Len(stack)].todo = Tail(@)]
    /\ mask' = IF api = "kpu_start" /\ L - at <= Burst THEN Status ELSE mask
    /\ UNCHANGED <<runVars, status, fifo, busy, outReady, dmaVars, plicVars, flag, n, told, dataVars>>

Send ==
    /\ At("send")
    /\ fifo' = Append(fifo, at)
    /\ Done
    /\ UNCHANGED <<runVars, status, mask, busy, outReady, dmaVars, plicVars, taskVars, dataVars>>

(* kpu_conv *)
Conv(l) ==
    <<"clear">> \o (IF SendsOut(l) THEN <<"maskAll", "output">> ELSE <<"maskEmpty">>) \o <<"send">>

(* ai_step: a layer of the core is computed here, and the next step taken  *)
(* at once; a layer of the accelerator ends the step.                      *)
AiStep ==
    /\ At("step")
    /\ at < L
    /\ at' = at + 1
    /\ IF model[at'] = "cpu"
       THEN /\ computed' = Append(computed, at')
            /\ Then(IF at' < L THEN <<"step">> ELSE KmodelDone)
       ELSE Then(Conv(at')) /\ UNCHANGED computed
    /\ UNCHANGED <<runVars, aiVars, dmaVars, plicVars, flag, n, told, arrived, delivered, collided>>

-----------------------------------------------------------------------------
(* Tasks. *)

(* kpu_run_kmodel has no flag: its clients wait for the callback. *)
Free == IF Kmodel THEN told = n ELSE flag = 0

(* The task before is told but not over: an interrupt of the KPU from it   *)
(* is still to be handled, or the call by which main started it has not    *)
(* returned.                                                               *)
Unfinished == Level("ai") \/ "ai" \in pend \/ stack[1].todo # <<"call">>

(* A client runs the next task: main at any time, or the callback.  The    *)
(* interfaces refuse it with -1, and change nothing, while the flag is set. *)
Call ==
    /\ At("call")
    /\ n < MaxTasks
    /\ Free
    /\ n' = n + 1
    /\ flag' = IF Kmodel THEN flag ELSE 1
    /\ at' = 0
    /\ arrived' = (input = "cpu")
    /\ computed' = <<>> /\ delivered' = 0
    /\ collided' = (collided \/ Unfinished)
    /\ Then(IF MainLoop THEN Append(StartPath, "call") ELSE StartPath)
    /\ UNCHANGED <<runVars, aiVars, dmaVars, plicVars, told>>

CallbackReturns ==
    /\ At("call") /\ ~MainLoop
    /\ Done
    /\ UNCHANGED <<runVars, aiVars, dmaVars, plicVars, taskVars, dataVars>>

FreeFlag ==
    /\ At("free")
    /\ flag' = 0
    /\ Done
    /\ UNCHANGED <<runVars, aiVars, dmaVars, plicVars, at, n, told, dataVars>>

Tell ==
    /\ At("told")
    /\ told' = told + 1
    /\ Done
    /\ UNCHANGED <<runVars, aiVars, dmaVars, plicVars, flag, at, n, dataVars>>

Statement ==
    \/ SetMask \/ Clear \/ ClearDma \/ EnableAi \/ SwitchIrq \/ Input \/ Output
    \/ Push \/ PushEnds \/ Send \/ AiStep \/ FreeFlag \/ Tell \/ CallbackReturns \/ Complete

Hardware == Take \/ Compute \/ Move \/ Forward \/ Claim

Next == Hardware \/ Statement \/ Call

Spec == Init /\ [][Next]_vars

(* The core executes what it has to, and the devices do their work. *)
Fairness ==
    /\ WF_vars(Take) /\ WF_vars(Compute) /\ WF_vars(Move) /\ WF_vars(Forward) /\ WF_vars(Claim)
    /\ WF_vars(Statement)

FairSpec == Spec /\ Fairness

-----------------------------------------------------------------------------
(* Properties.  They speak of a behaviour until a task begins when the one *)
(* before is not over (Unfinished): what is left of that one then disturbs *)
(* the new one, and each of them fails.                                    *)

(* Layers stay within the network, no more results are delivered than it   *)
(* has layers, and no client is told of a task not started.                *)
TypeOK ==
    /\ api \in Interfaces /\ model \in Models[api] /\ also \in BOOLEAN /\ input \in {"dma", "cpu"}
    /\ status \subseteq Status /\ mask \subseteq Status
    /\ fifo \in Seq(1 .. L) /\ busy \in 0 .. L
    /\ {outReady, dmaDone, aiEnabled, irqOff, arrived, collided} \subseteq BOOLEAN
    /\ dma \in {"off", "in", "out"} /\ dmaCb \in {"ready", "step", "done", "finish"}
    /\ pend \subseteq Sources /\ InService \subseteq Sources \cup {"main"}
    /\ flag \in 0 .. 1 /\ at \in 0 .. L /\ delivered \in 0 .. L
    /\ told \in 0 .. n /\ n \in 0 .. MaxTasks
    /\ computed \in Seq(1 .. L)

(* The layers are computed each once and in their order, although bursts   *)
(* are written by main, by the DMA's handler and by AI handlers that       *)
(* preempt it, and layers of the core run between those of the accelerator,*)
(* unless a task began too early.                                          *)
InOrder == collided \/ \A k \in DOMAIN computed : computed[k] = k

(* No layer is computed before the task's input has arrived, whichever of  *)
(* main, the DMA's handler and the AI handlers writes it, unless a task    *)
(* began too early: an interrupt of the KPU left from the task before      *)
(* would write the first layers of the next.                               *)
LayerAfterInput == ~collided /\ (busy # 0 \/ fifo # <<>> \/ computed # <<>>) => arrived

(* A layer whose result goes to memory finds the channel set up for it,    *)
(* though the same channel brought the input, unless a task began too      *)
(* early.                                                                  *)
OutputArmed == ~collided /\ busy # 0 /\ SendsOut(busy) => dma = "out"

(* A client is told when the last layer is computed and all results are in *)
(* memory, and when it is told it may use the KPU again, unless a task     *)
(* began too early.                                                        *)
ToldWhenDone ==
    [][told' # told /\ ~collided =>
          /\ Len(computed) = L
          /\ delivered = Cardinality({l \in 1 .. L : SendsOut(l)})
          /\ dma = "off" /\ fifo = <<>> /\ busy = 0 /\ flag = 0]_vars

(* Every task that was started is told, unless one began too early: layers *)
(* written for a task that has no channel set up wait for ever.            *)
TaskEnds == \A t \in 1 .. MaxTasks : (n >= t) ~> (told >= t \/ collided)
=============================================================================
