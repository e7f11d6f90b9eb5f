--------------------------- MODULE DeviceOptions ---------------------------
(* device.options.set (main/api_devices.cpp): an option is staged in the     *)
(* NVS handle, where the next read finds it, and committed to flash by a     *)
(* one-shot timer two seconds after the last one, or by the flush of a       *)
(* planned restart; it is then sent to the P4.  One value stands for the     *)
(* options of a device.                                                      *)
EXTENDS Naturals

CONSTANTS
    OptTasks,       \* tasks that serve device.options.set (httpd, task_remote)
    OptDev,         \* devices
    OptVal,         \* options of a device
    TimerTask,      \* the esp_timer task
    Rebooter        \* the task that restarts the node (task_ota)

ASSUME OptAssumption == OptDev # {} /\ OptVal # {}

Committers == {TimerTask, Rebooter}

VARIABLES
    staged,     \* the options as the NVS handle returns them
    durable,    \* those that are committed
    applied,    \* those the P4 has
    dirty,      \* s_opt_dirty
    timer,      \* s_opt_flush_timer runs
    setter,     \* what each task is in the middle of
    committer,  \* likewise for opt_commit_now and the restart behind it
    failed      \* a commit failed and no option was set since (history)

optVars == <<staged, durable, applied, dirty, timer, setter, committer, failed>>

OptTypeOK ==
    /\ staged \in [OptDev -> OptVal] /\ durable \in [OptDev -> OptVal]
    /\ applied \in [OptDev -> OptVal]
    /\ dirty \in BOOLEAN /\ timer \in BOOLEAN /\ failed \in BOOLEAN
    /\ setter \in [OptTasks -> [pc : {"idle", "mark", "arm", "forward"},
                                dev : OptDev, val : OptVal]]
    /\ committer \in [Committers -> {"idle", "exchange", "commit", "restart"}]

FirstOption == CHOOSE v \in OptVal : TRUE
NoSet == [pc |-> "idle", dev |-> CHOOSE d \in OptDev : TRUE, val |-> FirstOption]

OptInit ==
    /\ staged = [d \in OptDev |-> FirstOption]
    /\ durable = staged /\ applied = staged
    /\ dirty = FALSE /\ timer = FALSE /\ failed = FALSE
    /\ setter = [c \in OptTasks |-> NoSet]
    /\ committer = [t \in Committers |-> "idle"]

(***************************************************************************)
(* opt_stage_and_defer, then the forward to the P4.                         *)
(***************************************************************************)
Stage(c, d, v) ==
    /\ setter[c].pc = "idle" /\ staged[d] # v
    /\ staged' = [staged EXCEPT ![d] = v]
    /\ setter' = [setter EXCEPT ![c] = [pc |-> "mark", dev |-> d, val |-> v]]
    /\ UNCHANGED <<durable, applied, dirty, timer, committer, failed>>

(* Mutant: the timer is left alone when it must be running already. *)
MarkOnce(c) ==
    /\ setter[c].pc = "mark"
    /\ dirty' = TRUE /\ failed' = FALSE
    /\ setter' = [setter EXCEPT ![c].pc = IF dirty THEN "forward" ELSE "arm"]
    /\ UNCHANGED <<staged, durable, applied, timer, committer>>
MarkDirty(c) ==
    /\ setter[c].pc = "mark"
    /\ dirty' = TRUE /\ failed' = FALSE
    /\ setter' = [setter EXCEPT ![c].pc = "arm"]
    /\ UNCHANGED <<staged, durable, applied, timer, committer>>

ArmTimer(c) ==
    /\ setter[c].pc = "arm"
    /\ timer' = TRUE
    /\ setter' = [setter EXCEPT ![c].pc = "forward"]
    /\ UNCHANGED <<staged, durable, applied, dirty, committer, failed>>

(* The P4 takes it, whether or not its answer arrives, or does not.          *)
Forward(c) ==
    LET d == setter[c].dev IN
    /\ setter[c].pc = "forward"
    /\ applied' \in {applied, [applied EXCEPT ![d] = setter[c].val]}
    /\ setter' = [setter EXCEPT ![c] = NoSet]
    /\ UNCHANGED <<staged, durable, dirty, timer, committer, failed>>

(***************************************************************************)
(* opt_commit_now, on the timer task and in the restart.                    *)
(***************************************************************************)
TimerFires ==
    /\ timer /\ committer[TimerTask] = "idle"
    /\ timer' = FALSE
    /\ committer' = [committer EXCEPT ![TimerTask] = "exchange"]
    /\ UNCHANGED <<staged, durable, applied, dirty, setter, failed>>

Then(t) == IF t = Rebooter THEN "restart" ELSE "idle"

Exchange(t) ==
    /\ committer[t] = "exchange"
    /\ dirty' = FALSE
    /\ committer' = [committer EXCEPT ![t] = IF dirty THEN "commit" ELSE Then(t)]
    /\ UNCHANGED <<staged, durable, applied, timer, setter, failed>>

Commit(t) ==
    /\ committer[t] = "commit"
    /\ \/ durable' = staged /\ failed' = FALSE /\ dirty' = dirty
       \/ durable' = durable /\ failed' = TRUE /\ dirty' = TRUE
    /\ committer' = [committer EXCEPT ![t] = Then(t)]
    /\ UNCHANGED <<staged, applied, timer, setter>>

(* task_ota has written a new image: api_device_opt_flush_now, two seconds   *)
(* for the event to go out, esp_restart.                                     *)
FlushNow ==
    /\ committer[Rebooter] = "idle"
    /\ timer' = FALSE
    /\ committer' = [committer EXCEPT ![Rebooter] = "exchange"]
    /\ UNCHANGED <<staged, durable, applied, dirty, setter, failed>>

(* What was committed is kept; what was staged may have been written too.    *)
OptRestart ==
    /\ \E D \in SUBSET {d \in OptDev : staged[d] # durable[d]} :
        staged' = [d \in OptDev |-> IF d \in D THEN staged[d] ELSE durable[d]]
    /\ durable' = staged'
    /\ dirty' = FALSE /\ timer' = FALSE /\ failed' = FALSE
    /\ setter' = [c \in OptTasks |-> NoSet]
    /\ committer' = [t \in Committers |-> "idle"]
    /\ UNCHANGED applied

OptTaskStep(c) == MarkDirty(c) \/ ArmTimer(c) \/ Forward(c)
OptStep == TimerFires \/ \E t \in Committers : Exchange(t) \/ Commit(t)
OptRequest(c) == \E d \in OptDev, v \in OptVal : Stage(c, d, v)

-----------------------------------------------------------------------------
(* An option that is not in flash yet is on its way there: a task is about   *)
(* to mark it, a commit runs, or it is marked and a commit is due.  After a  *)
(* failed commit the next set makes both due again (opt_commit_now).         *)
PendingIsArmed ==
    staged # durable /\ ~ failed =>
        \/ \E c \in OptTasks : setter[c].pc \in {"mark", "arm"}
        \/ \E t \in Committers : committer[t] = "commit"
        \/ dirty /\ (timer \/ \E t \in Committers : committer[t] = "exchange")

(* "an explicit flush-now hook the reboot path calls so nothing in-flight is *)
(* lost": when the restart comes, no accepted option is only staged. Does    *)
(* not hold (MCStores_claims.cfg): task_ota flushes two seconds before it    *)
(* restarts, and options set in between wait for the timer.                  *)
RestartLosesNothing ==
    committer[Rebooter] = "restart" /\ ~ failed =>
        staged = durable \/ \E c \in OptTasks : setter[c].pc # "idle"
=============================================================================
