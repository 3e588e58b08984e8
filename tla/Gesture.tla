------------------------------ MODULE Gesture ------------------------------
(***************************************************************************)
(* src/04-gesture from reset: both cores boot (bsp/entry_user.c), core 0   *)
(* sets up the camera and starts core 1 with register_core1, then runs the *)
(* network over and over and leaves the boxes it found in targets[], while *)
(* core 1 waits for a frame, draws the boxes into it and shows it.         *)
(*                                                                         *)
(* Frames are handed from the camera (DVP) to core 1 by an interrupt of    *)
(* core 0 and a flag, boxes from core 0 to core 1 under target_lock.  The  *)
(* locks are corelocks, and keep RecursiveLock's promise (Corelock).       *)
(***************************************************************************)
EXTENDS Naturals, Sequences

CONSTANT
    Core1Late   \* core 1 may still be in plic_init when main sets priorities

ASSUME LateAssumption == Core1Late \in BOOLEAN

VARIABLES
    main,       \* where core 0 is, below its handler
    isr,        \* where on_irq_dvp is, on core 0
    core1,      \* where core 1 is
    plicFlag,   \* s_plic_priorities_init_flag
    priority,   \* the PLIC's priority of the DVP interrupt
    callback,   \* core1_instance.callback is the thread
    wakeUp,     \* g_wake_up[1]
    auto,       \* DVP_CFG_AUTO_ENABLE
    intEnable,  \* the two interrupt enables of dvp_cfg
    sts,        \* frame interrupts of the DVP: "start", "finish"
    convert,    \* DVP_EN: the frame is written to memory
    frame,      \* the sensor is sending a frame
    pend,       \* PLIC pending, of the DVP
    finished,   \* g_dvp_finish_flag
    owner,      \* owner[l]: the core that holds corelock l, or "none"
    num, box,   \* num_targets and targets[]: the run of the network they are of
    seen,       \* num_targets as core 1 read it
    result,     \* the run of the network that core 0 has in boxes[]
    overrun     \* history: the frame that last ended, ended in the Window

bootVars == <<plicFlag, priority, callback, wakeUp>>
dvpVars == <<auto, intEnable, sts, convert, frame, pend>>
shareVars == <<finished, owner, num, box, seen, result>>
vars == <<main, isr, core1, bootVars, dvpVars, shareVars, overrun>>

Locks == {"target_lock", "image_lock"}
FrameInterrupts == {"start", "finish"}

Init ==
    /\ main = "init_bss" /\ isr = "idle" /\ core1 = "plic_init"
    /\ plicFlag = FALSE /\ priority = 0 /\ callback = FALSE /\ wakeUp = FALSE
    /\ auto = FALSE /\ intEnable = FALSE /\ sts = {} /\ convert = FALSE /\ frame = FALSE
    /\ pend = FALSE /\ finished = FALSE
    /\ owner = [l \in Locks |-> "none"]
    /\ num = 0 /\ box = 0 /\ seen = 0 /\ result = 0
    /\ overrun = FALSE

(* Core 0's main runs only while its handler does not. *)
Core0(p) == main = p /\ isr = "idle"

Take(l, core) == owner[l] = "none" /\ owner' = [owner EXCEPT ![l] = core]
Give(l) == owner' = [owner EXCEPT ![l] = "none"]

-----------------------------------------------------------------------------
(* Boot.  plic_init looks at its flag and sets it at the end of the loop   *)
(* that zeroes all priorities; both cores call it, core 0 again in main.   *)

PlicCheck(next) == IF plicFlag THEN next ELSE "zero"

BssAndPlic ==
    \/ /\ Core0("init_bss")
       /\ plicFlag' = FALSE /\ callback' = FALSE
       /\ main' = "plic_init"
       /\ UNCHANGED <<priority, wakeUp>>
    \/ /\ Core0("plic_init")
       /\ main' = PlicCheck("core1_null")
       /\ UNCHANGED bootVars
    \/ /\ Core0("zero")
       /\ priority' = 0 /\ plicFlag' = TRUE
       /\ main' = "core1_null"
       /\ UNCHANGED <<callback, wakeUp>>

(* _init_bsp before main, and main's second plic_init, whose flag is set.  *)
Core1Null ==
    /\ Core0("core1_null")
    /\ callback' = FALSE
    /\ main' = "setup"
    /\ UNCHANGED <<plicFlag, priority, wakeUp>>

Boot0 == (BssAndPlic \/ Core1Null) /\ UNCHANGED <<isr, core1, dvpVars, shareVars, overrun>>

(* Mutant of DvpInit: the frames come without being asked for. *)
DvpAuto == auto' = TRUE

(* dvp_thread_init ends with dvp_disable_auto *)
DvpInit == auto' = FALSE

(* main up to register_core1: the DVP, and its interrupt for core 0. *)
Setup ==
    /\ Core0("setup")
    /\ Core1Late \/ core1 \notin {"plic_init", "zero"}
    /\ DvpInit
    /\ priority' = 1
    /\ main' = "register"
    /\ UNCHANGED <<isr, core1, plicFlag, callback, wakeUp, intEnable, sts, convert, frame, pend, shareVars, overrun>>

(* Mutant of RegisterCore1: the core is woken, then given its function. *)
WakeFirst ==
    \/ /\ Core0("register")
       /\ wakeUp' = TRUE /\ main' = "wake" /\ UNCHANGED callback
    \/ /\ Core0("wake")
       /\ callback' = TRUE /\ main' = "copy" /\ UNCHANGED wakeUp

RegisterCore1 ==
    \/ /\ Core0("register")
       /\ callback' = TRUE /\ main' = "wake" /\ UNCHANGED wakeUp
    \/ /\ Core0("wake")
       /\ wakeUp' = TRUE /\ main' = "copy" /\ UNCHANGED callback

Register ==
    RegisterCore1 /\ UNCHANGED <<isr, core1, plicFlag, priority, dvpVars, shareVars, overrun>>

(* _init_bsp of core 1: plic_init, thread_entry, and the callback; without *)
(* one the core waits for an interrupt and exits.                          *)
Boot1 ==
    /\ \/ /\ core1 = "plic_init"
          /\ core1' = PlicCheck("thread_entry")
          /\ UNCHANGED bootVars
       \/ /\ core1 = "zero"
          /\ priority' = 0 /\ plicFlag' = TRUE
          /\ core1' = "thread_entry"
          /\ UNCHANGED <<callback, wakeUp>>
       \/ /\ core1 = "thread_entry" /\ wakeUp
          /\ core1' = IF callback THEN "lock" ELSE "wfi"
          /\ UNCHANGED bootVars
    /\ UNCHANGED <<main, isr, dvpVars, shareVars, overrun>>

-----------------------------------------------------------------------------
(* ai_thread_main.  The image it copies is read without image_lock (the    *)
(* calls are commented out), while the camera may be writing it.           *)

RunModel ==
    /\ Core0("copy")
    /\ result' = 1 - result
    /\ main' = "lock"
    /\ UNCHANGED <<isr, core1, bootVars, dvpVars, finished, owner, num, box, seen, overrun>>

(* Mutant of PutTargets: the lock is not taken. *)
PutUnlocked ==
    \/ /\ Core0("lock")
       /\ main' = "num" /\ UNCHANGED <<owner, num, box>>
    \/ /\ Core0("num")
       /\ num' = result /\ main' = "box" /\ UNCHANGED <<owner, box>>
    \/ /\ Core0("box")
       /\ box' = result /\ main' = "copy" /\ UNCHANGED <<owner, num>>

PutTargets ==
    \/ /\ Core0("lock")
       /\ Take("target_lock", "core0")
       /\ main' = "num" /\ UNCHANGED <<num, box>>
    \/ /\ Core0("num")
       /\ num' = result /\ main' = "box" /\ UNCHANGED <<owner, box>>
    \/ /\ Core0("box")
       /\ box' = result /\ main' = "unlock" /\ UNCHANGED <<owner, num>>
    \/ /\ Core0("unlock")
       /\ Give("target_lock")
       /\ main' = "copy" /\ UNCHANGED <<num, box>>

AiThread == PutTargets /\ UNCHANGED <<isr, core1, bootVars, dvpVars, finished, seen, result, overrun>>

-----------------------------------------------------------------------------
(* The camera and its interrupt. *)

FrameStarts ==
    /\ ~frame
    /\ frame' = TRUE
    /\ sts' = sts \cup {"start"}
    /\ convert' = (convert \/ auto)
    /\ UNCHANGED <<main, isr, core1, bootVars, auto, intEnable, pend, shareVars, overrun>>

(* Between the handler's look at the finish event and its dvp_start_convert. *)
Window == {"flag", "convert"}

(* The camera waits for nobody: a frame may end inside the handler.        *)
FrameEnds ==
    /\ frame
    /\ frame' = FALSE
    /\ sts' = IF convert THEN sts \cup {"finish"} ELSE sts
    /\ convert' = FALSE
    /\ overrun' = (isr \in Window /\ (convert \/ overrun))
    /\ UNCHANGED <<main, isr, core1, bootVars, auto, intEnable, pend, shareVars>>

Forward ==
    /\ intEnable /\ sts # {}
    /\ ~pend /\ isr = "idle"
    /\ pend' = TRUE
    /\ UNCHANGED <<main, isr, core1, bootVars, auto, intEnable, sts, convert, frame, shareVars, overrun>>

(* main has registered and enabled the interrupt in Setup. *)
Claim ==
    /\ pend /\ priority > 0 /\ isr = "idle"
    /\ main \notin {"init_bss", "plic_init", "zero", "core1_null", "setup"}
    /\ pend' = FALSE
    /\ isr' = "which"
    /\ UNCHANGED <<main, core1, bootVars, auto, intEnable, sts, convert, frame, shareVars, overrun>>

(* Mutant of FrameFinished: the flag is set before the interrupts are disabled. *)
FlagFirst ==
    \/ /\ isr = "which" /\ "finish" \in sts
       /\ finished' = TRUE /\ isr' = "disable" /\ UNCHANGED <<intEnable, sts, convert>>
    \/ /\ isr = "disable"
       /\ intEnable' = FALSE /\ isr' = "clear_finish" /\ UNCHANGED <<sts, convert, finished>>
    \/ /\ isr = "clear_finish"
       /\ sts' = sts \ {"finish"} /\ isr' = "idle" /\ UNCHANGED <<intEnable, convert, finished>>

(* on_irq_dvp, for a frame that is in memory *)
FrameFinished ==
    \/ /\ isr = "which" /\ "finish" \in sts
       /\ intEnable' = FALSE /\ isr' = "clear_finish" /\ UNCHANGED <<sts, convert, finished>>
    \/ /\ isr = "clear_finish"
       /\ sts' = sts \ {"finish"} /\ isr' = "set_flag" /\ UNCHANGED <<intEnable, convert, finished>>
    \/ /\ isr = "set_flag"
       /\ finished' = TRUE /\ isr' = "idle" /\ UNCHANGED <<intEnable, sts, convert>>

(* ... and for one that begins: core 1 wants it unless it has one.  The    *)
(* event, the flag and DVP_EN are looked at and set one after the other.   *)
FrameStarted ==
    \/ /\ isr = "which" /\ "finish" \notin sts
       /\ isr' = "flag" /\ UNCHANGED <<intEnable, sts, convert, finished>>
    \/ /\ isr = "flag"
       /\ isr' = IF finished THEN "clear_start" ELSE "convert"
       /\ UNCHANGED <<intEnable, sts, convert, finished>>
    \/ /\ isr = "convert"
       /\ convert' = TRUE
       /\ isr' = "clear_start" /\ UNCHANGED <<intEnable, sts, finished>>
    \/ /\ isr = "clear_start"
       /\ sts' = sts \ {"start"} /\ isr' = "idle" /\ UNCHANGED <<intEnable, convert, finished>>

OnIrqDvp ==
    /\ FrameFinished \/ FrameStarted
    /\ UNCHANGED <<main, core1, bootVars, auto, frame, pend, owner, num, box, seen, result, overrun>>

-----------------------------------------------------------------------------
(* dvp_thread_main on core 1, with its refresh_lcd. *)

WaitFrame ==
    \/ /\ core1 \in {"lock", "relock"}
       /\ Take("image_lock", "core1")
       /\ core1' = IF core1 = "lock" THEN "clear" ELSE "reset"
       /\ UNCHANGED <<sts, intEnable, finished, seen>>
    \/ /\ core1 = "clear"
       /\ sts' = {} /\ core1' = "enable"
       /\ UNCHANGED <<intEnable, finished, owner, seen>>
    \/ /\ core1 = "enable"
       /\ intEnable' = TRUE /\ core1' = "wait"
       /\ UNCHANGED <<sts, finished, owner, seen>>
    \/ /\ core1 = "wait" /\ finished
       /\ Give("image_lock") /\ core1' = "refresh"
       /\ UNCHANGED <<sts, intEnable, finished, seen>>
    \/ /\ core1 = "reset"
       /\ finished' = FALSE /\ core1' = "clear"
       /\ UNCHANGED <<sts, intEnable, owner, seen>>

RefreshLcd ==
    /\ \/ /\ core1 = "refresh"
          /\ Take("target_lock", "core1")
          /\ core1' = "count" /\ UNCHANGED seen
       \/ /\ core1 = "count"
          /\ seen' = num /\ core1' = "draw" /\ UNCHANGED owner
       \/ /\ core1 = "draw"
          /\ Give("target_lock") /\ core1' = "show" /\ UNCHANGED seen
       \/ /\ core1 = "show"
          /\ core1' = "relock" /\ UNCHANGED <<owner, seen>>
    /\ UNCHANGED <<sts, intEnable, finished>>

DvpThread ==
    /\ WaitFrame \/ RefreshLcd
    /\ UNCHANGED <<main, isr, bootVars, auto, convert, frame, pend, num, box, result, overrun>>

Core0Runs == Boot0 \/ Setup \/ Register \/ RunModel \/ AiThread

Next ==
    \/ Core0Runs \/ OnIrqDvp \/ Claim
    \/ Boot1 \/ DvpThread
    \/ FrameStarts \/ FrameEnds \/ Forward

Spec == Init /\ [][Next]_vars

(* Both cores run, the sensor sends frames, and a core that waits for a    *)
(* lock that is free again and again gets it.                              *)
Fairness ==
    /\ WF_vars(Core0Runs) /\ WF_vars(OnIrqDvp) /\ WF_vars(Claim) /\ WF_vars(Boot1)
    /\ WF_vars(FrameStarts) /\ WF_vars(FrameEnds) /\ WF_vars(Forward)
    /\ SF_vars(DvpThread)

FairSpec == Spec /\ Fairness

-----------------------------------------------------------------------------
(* Properties. *)

(* Every variable stays in its type; only core 1 takes image_lock. *)
TypeOK ==
    /\ main \in {"init_bss", "plic_init", "zero", "core1_null", "setup", "register", "wake",
                "copy", "lock", "num", "box", "unlock"}
    /\ isr \in {"idle", "which", "disable", "clear_finish", "set_flag", "flag", "convert", "clear_start"}
    /\ core1 \in {"plic_init", "zero", "thread_entry", "wfi", "lock", "clear", "enable", "wait",
                 "refresh", "count", "draw", "show", "relock", "reset"}
    /\ {plicFlag, callback, wakeUp, auto, intEnable, convert, frame, pend, finished, overrun} \subseteq BOOLEAN
    /\ sts \subseteq FrameInterrupts
    /\ owner \in [Locks -> {"none", "core0", "core1"}] /\ owner["image_lock"] # "core0"
    /\ {priority, num, box, seen, result} \subseteq 0 .. 1

Drawing == core1 \in {"refresh", "count", "draw", "show"}

(* While core 1 draws into a frame and shows it the camera writes no other *)
(* one over it, but for one case: a frame that was being written ended     *)
(* between the handler's look at the finish event (main.cpp:336) and its   *)
(* dvp_start_convert (343), which then arms DVP_EN for the frame after it. *)
FrameKept == Drawing /\ ~overrun => ~(frame /\ convert)

(* The boxes core 1 draws are all of one run of the network, the one their *)
(* number is of.                                                           *)
TargetsWhole == core1 = "draw" => seen = box

(* Core 1 finds the function it was woken for. *)
Core1Called == core1 # "wfi"

(* Frames keep being shown: no interrupt, enable or flag is lost between   *)
(* the camera, the handler on core 0 and the thread on core 1.             *)
FramesShown == []<>(core1 = "show")
=============================================================================
