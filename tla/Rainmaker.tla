----------------------------- MODULE Rainmaker -----------------------------
(* The RainMaker bridge: components/rainmaker_gw/rmk_bridge.c and the      *)
(* device.rainmaker.* handlers of main/api_rainmaker.cpp, over the gateway *)
(* life of RainmakerGw.                                                    *)
(*                                                                         *)
(* A registry entry ties a Zigbee device to an object of the SDK.  Device  *)
(* reports become work items of the SDK's queue; the one task of that      *)
(* queue runs them and frees the objects of devices taken off.  Callers    *)
(* (the API tasks, task_hap for a device that left, the boot restore)      *)
(* expose and unexpose devices and release the registry lock in between.   *)
(* One parameter per device stands for its plan.                           *)
(*                                                                         *)
(* The source does not agree with itself on the task that runs the cloud's *)
(* writes, which block for a round trip to the P4: the comment above       *)
(* rmk_bridge_write_cb says the queue's own task, where no teardown can    *)
(* come between; those of rmk_bridge_unexpose_device and of                *)
(* device.rainmaker.remove accept that the delete frees what a write in    *)
(* progress holds, which takes a second task.  The SDK decides; the model  *)
(* covers both.                                                            *)
EXTENDS RainmakerGw, Sequences, FiniteSets

CONSTANTS
    Ieee,           \* Zigbee devices
    Slots,          \* the entries of s_reg (RMK_MAX_DEVS, also the cap of the table)
    Sdk,            \* the objects the SDK can hold at once (bound on its memory)
    Api,            \* tasks that serve device.rainmaker.* (httpd, task_remote)
    Hap, Restore,   \* task_hap and the boot restore task
    Vals,           \* values of a parameter
    QueueCap,       \* slots of the work queue (8 in the SDK)
    MaxBoots,       \* bound: restarts
    WriteTasks,     \* the tasks writes may run on: "queue" (that of the queue), "own"
    Nil

ASSUME RmkAssumption ==
    /\ WriteTasks \subseteq {"queue", "own"}
    /\ {Hap, Restore} \cap Api = {} /\ Hap # Restore
    /\ QueueCap \in Nat \ {0} /\ MaxBoots \in Nat
    /\ Nil \notin Ieee \cup Slots \cup Sdk \cup Vals

Callers == Api \cup {Hap, Restore}

VARIABLES
    reg,        \* s_reg: [ieee, dev, last]; ieee = Nil is in_use = false, dev = Nil
                \* a reservation whose objects are still being built
    count,      \* s_reg_count
    live,       \* objects the SDK holds and has not freed
    node,       \* those that belong to the node, so that the cloud can write them
    priv,       \* the entry an object was created for (priv_data)
    cloud,      \* the value last published that reached the cloud, for an object's parameter
    queue,      \* the SDK's work queue
    writeTask,  \* the task that runs writes; fixed by the SDK
    worker,     \* the write that is being run
    call,       \* where each caller is
    todo,       \* devices the boot restore has still to expose
    table,      \* g_table and its copy in flash: the devices to expose
    crossed,    \* objects whose last write ended out of turn with a report (history)
    lost,       \* objects whose last value to publish did not reach the cloud (history)
    boots

history == <<crossed, lost>>
bridgeVars == <<reg, count, live, node, priv, cloud, queue, writeTask, worker, call, todo,
                table, history, boots>>
vars == <<bridgeVars, gwVars>>

Empty == [ieee |-> Nil, dev |-> Nil, last |-> Nil]
Idle == [pc |-> "idle", ieee |-> Nil, slot |-> Nil, dev |-> Nil]
Resting == [pc |-> "idle", dev |-> Nil, val |-> Nil, slot |-> Nil, ieee |-> Nil]
Items == [kind : {"report", "write"}, dev : Sdk, val : Vals] \cup
         [kind : {"teardown"}, dev : Sdk, val : {Nil}]
Entry == [ieee : Ieee \cup {Nil}, dev : Sdk \cup {Nil}, last : Vals \cup {Nil}]
Work == [pc : {"idle", "write", "note", "snap"}, dev : Sdk \cup {Nil}, val : Vals \cup {Nil},
         slot : Slots \cup {Nil}, ieee : Ieee \cup {Nil}]
Place == [pc : {"idle", "snapshot", "fetch", "build", "commit", "record", "teardown", "forget"},
          ieee : Ieee \cup {Nil}, slot : Slots \cup {Nil}, dev : Sdk \cup {Nil}]

BridgeTypeOK ==
    /\ reg \in [Slots -> Entry] /\ count \in Nat
    /\ live \subseteq Sdk /\ node \subseteq live
    /\ priv \in [Sdk -> Slots \cup {Nil}] /\ cloud \in [Sdk -> Vals \cup {Nil}]
    /\ queue \in Seq(Items) /\ Len(queue) <= QueueCap
    /\ worker \in Work
    /\ call \in [Callers -> Place]
    /\ todo \subseteq Ieee /\ table \subseteq Ieee
    /\ crossed \subseteq Sdk /\ lost \subseteq Sdk
    /\ boots \in 0..MaxBoots

TypeOK == GwTypeOK /\ BridgeTypeOK /\ writeTask \in WriteTasks

Init ==
    /\ GwInit
    /\ reg = [s \in Slots |-> Empty] /\ count = 0
    /\ live = {} /\ node = {}
    /\ priv = [d \in Sdk |-> Nil] /\ cloud = [d \in Sdk |-> Nil]
    /\ queue = <<>> /\ worker = Resting /\ writeTask \in WriteTasks
    /\ call = [c \in Callers |-> Idle]
    /\ todo = {} /\ table \in {T \in SUBSET Ieee : Cardinality(T) <= 1}
    /\ crossed = {} /\ lost = {} /\ boots = 0

(* dev_by_ieee_locked and free_slot_locked: the first entry in order. *)
EntryOf(i) == {s \in Slots : reg[s].ieee = i}
FreeSlots == {s \in Slots : reg[s].ieee = Nil}
IsFirst(s, S) == s \in S /\ \A t \in S : s <= t

(* esp_rmaker_param_update_and_report, whose result the bridge ignores: the *)
(* value reaches the cloud or the publish is lost.                          *)
Publish(d, v) ==
    \/ cloud' = [cloud EXCEPT ![d] = v] /\ lost' = lost \ {d}
    \/ cloud' = cloud /\ lost' = lost \cup {d}

(* esp_rmaker_device_delete; a write of the object in progress goes on. *)
Free(d) ==
    /\ live' = live \ {d} /\ node' = node \ {d}
    /\ crossed' = IF worker.dev = d THEN crossed \cup {d} ELSE crossed \ {d}
    /\ lost' = lost \ {d}

Goto(c, rec) == call' = [call EXCEPT ![c] = rec]
Done(c) == Goto(c, Idle)

(***************************************************************************)
(* Exposing a device: rmk_expose_device_from_ieee, of device.rainmaker.add *)
(* (after its cap check) and of the boot restore.                          *)
(***************************************************************************)
AddStart(c, i) ==
    /\ c \in Api /\ call[c].pc = "idle"
    /\ i \notin table /\ Cardinality(table) < Cardinality(Slots)
    /\ Goto(c, [Idle EXCEPT !.pc = "fetch", !.ieee = i])
    /\ UNCHANGED <<reg, count, live, node, priv, cloud, queue, worker, todo, table,
                   history, boots>>

(* The round trip for the exposes fails, or the entry is reserved. *)
Fetch(c) ==
    LET i == call[c].ieee IN
    /\ call[c].pc = "fetch"
    /\ \/ Done(c) /\ reg' = reg
       \/ /\ gw # "disabled" /\ EntryOf(i) = {}
          /\ \E s \in Slots :
             /\ IsFirst(s, FreeSlots)
             /\ reg' = [reg EXCEPT ![s] = [Empty EXCEPT !.ieee = i]]
             /\ Goto(c, [call[c] EXCEPT !.pc = "build", !.slot = s])
    /\ UNCHANGED <<count, live, node, priv, cloud, queue, worker, todo, table, history, boots>>

(* Mutant: a failed build keeps its reservation. *)
BuildKeeps(c) ==
    LET s == call[c].slot i == call[c].ieee IN
    /\ call[c].pc = "build"
    /\ \/ /\ Done(c)
          /\ UNCHANGED <<reg, live, node, priv, cloud>>
       \/ \E d \in Sdk \ live :
          /\ \A e \in Sdk \ live : d <= e
          /\ live' = live \cup {d} /\ node' = node \cup {d}
          /\ priv' = [priv EXCEPT ![d] = s]
          /\ cloud' = [cloud EXCEPT ![d] = Nil]
          /\ Goto(c, [call[c] EXCEPT !.pc = "commit", !.dev = d])
          /\ reg' = reg
    /\ UNCHANGED <<count, queue, worker, todo, table, history, boots>>

(* The SDK's objects are built with the lock released.  When the SDK can  *)
(* not, the reservation is given back if it still looks like this one.    *)
Build(c) ==
    LET s == call[c].slot i == call[c].ieee IN
    /\ call[c].pc = "build"
    /\ \/ /\ reg' = IF reg[s].ieee = i /\ reg[s].dev = Nil
                    THEN [reg EXCEPT ![s] = Empty] ELSE reg
          /\ Done(c)
          /\ UNCHANGED <<live, node, priv, cloud>>
       \/ \E d \in Sdk \ live :
          /\ \A e \in Sdk \ live : d <= e
          /\ live' = live \cup {d} /\ node' = node \cup {d}
          /\ priv' = [priv EXCEPT ![d] = s]
          /\ cloud' = [cloud EXCEPT ![d] = Nil]
          /\ Goto(c, [call[c] EXCEPT !.pc = "commit", !.dev = d])
          /\ reg' = reg
    /\ UNCHANGED <<count, queue, worker, todo, table, history, boots>>

(* The reservation is checked again; a lost one discards what was built, at *)
(* once and not by the worker: nothing can have been queued about it.       *)
Commit(c) ==
    LET s == call[c].slot i == call[c].ieee d == call[c].dev IN
    /\ call[c].pc = "commit"
    /\ IF reg[s].ieee = i
       THEN /\ reg' = [reg EXCEPT ![s] = [ieee |-> i, dev |-> d, last |-> Nil]]
            /\ count' = count + 1
            /\ Goto(c, [call[c] EXCEPT !.pc = "record", !.dev = Nil, !.slot = Nil])
            /\ UNCHANGED <<live, node, history>>
       ELSE Free(d) /\ Done(c) /\ UNCHANGED <<reg, count>>
    /\ UNCHANGED <<priv, cloud, queue, worker, todo, table, boots>>

Record(c) ==
    /\ call[c].pc = "record"
    /\ table' = IF Cardinality(table) < Cardinality(Slots) THEN table \cup {call[c].ieee}
                                                           ELSE table
    /\ Done(c)
    /\ UNCHANGED <<reg, count, live, node, priv, cloud, queue, worker, todo, history, boots>>

(***************************************************************************)
(* Taking a device off: rmk_bridge_unexpose_device, then the persisted set. *)
(* device.rainmaker.remove comes from an API task, a device that left the   *)
(* network from task_hap (rmk_bridge_on_device_gone, rmk_on_device_gone).   *)
(* The entry is cleared under the lock; the teardown is queued after it.    *)
(***************************************************************************)
Unexpose(c, i) ==
    /\ c \in Api \cup {Hap} /\ call[c].pc = "idle"
    /\ IF EntryOf(i) = {}
       THEN /\ i \in table
            /\ Goto(c, [Idle EXCEPT !.pc = "forget", !.ieee = i])
            /\ UNCHANGED <<reg, count>>
       ELSE \E s \in Slots :
            /\ IsFirst(s, EntryOf(i))
            /\ reg' = [reg EXCEPT ![s] = Empty]
            /\ count' = IF count > 0 THEN count - 1 ELSE 0
            /\ Goto(c, [Idle EXCEPT !.pc = IF reg[s].dev = Nil THEN "forget" ELSE "teardown",
                                    !.ieee = i, !.dev = reg[s].dev])
    /\ UNCHANGED <<live, node, priv, cloud, queue, worker, todo, table, history, boots>>

(* Mutant: the caller frees the objects itself. *)
FreeInline(c) ==
    /\ call[c].pc = "teardown"
    /\ Free(call[c].dev)
    /\ Goto(c, [call[c] EXCEPT !.pc = "forget", !.dev = Nil])
    /\ UNCHANGED <<reg, count, priv, cloud, queue, worker, todo, table, boots>>

(* A full queue leaks the objects rather than free them under a report. *)
QueueTeardown(c) ==
    /\ call[c].pc = "teardown"
    /\ queue' = IF Len(queue) < QueueCap
                THEN Append(queue, [kind |-> "teardown", dev |-> call[c].dev, val |-> Nil])
                ELSE queue
    /\ Goto(c, [call[c] EXCEPT !.pc = "forget", !.dev = Nil])
    /\ UNCHANGED <<reg, count, live, node, priv, cloud, worker, todo, table, history, boots>>

Forget(c) ==
    /\ call[c].pc = "forget"
    /\ table' = table \ {call[c].ieee}
    /\ Done(c)
    /\ UNCHANGED <<reg, count, live, node, priv, cloud, queue, worker, todo, history, boots>>

(***************************************************************************)
(* rmk_bridge_on_attr_update.  task_hap calls it for a device's report,     *)
(* behind rmk_bridge_active() and skipping what is unchanged; an API task   *)
(* calls it, forced, for a command it has sent.  Scan, queueing and the     *)
(* throttle key are one step under the registry lock.  The interval of     *)
(* continuous parameters and the publish budget only drop reports, which    *)
(* changes nothing: such a step is a stutter, and so is a full queue.       *)
(***************************************************************************)
(* Mutant: the throttle key is noted although the queue was full. *)
QueuedOrNot(s, v) ==
    /\ queue' = IF Len(queue) < QueueCap
                THEN Append(queue, [kind |-> "report", dev |-> reg[s].dev, val |-> v])
                ELSE queue
    /\ reg' = [reg EXCEPT ![s].last = v]
    /\ crossed' = crossed \ {reg[s].dev}

Queued(s, v) ==
    /\ Len(queue) < QueueCap
    /\ queue' = Append(queue, [kind |-> "report", dev |-> reg[s].dev, val |-> v])
    /\ reg' = [reg EXCEPT ![s].last = v]
    /\ crossed' = crossed \ {reg[s].dev}

AttrUpdate(i, v, force) ==
    /\ gw = "ready"
    /\ force \/ count > 0
    /\ \E s \in EntryOf(i) :
        /\ reg[s].dev # Nil
        /\ force \/ reg[s].last # v
        /\ Queued(s, v)
    /\ UNCHANGED <<count, live, node, priv, cloud, worker, call, todo, table, lost, boots>>

(***************************************************************************)
(* The task of the work queue: a report and a teardown run in one step, and *)
(* wait for a write that runs on the same task.                             *)
(***************************************************************************)
QueueRuns(kind) ==
    /\ writeTask = "queue" => worker.pc = "idle"
    /\ queue # <<>> /\ Head(queue).kind = kind
    /\ queue' = Tail(queue)

(* A report that a write of its object on a task of its own is about to note, *)
(* or to answer with an older value, was overtaken.                           *)
RunReport ==
    LET d == Head(queue).dev IN
    /\ QueueRuns("report")
    /\ Publish(d, Head(queue).val)
    /\ crossed' = IF worker.dev = d /\ worker.pc \in {"note", "snap"} THEN crossed \cup {d}
                                                                   ELSE crossed
    /\ UNCHANGED <<reg, count, live, node, priv, worker, call, todo, table, boots>>

RunTeardown ==
    /\ QueueRuns("teardown")
    /\ Free(Head(queue).dev)
    /\ UNCHANGED <<reg, count, priv, cloud, worker, call, todo, table, boots>>

(***************************************************************************)
(* rmk_bridge_write_cb, for a write of the cloud that waited in the queue or *)
(* comes on a task of its own.  It refuses an object that the entry behind   *)
(* priv_data does not hold (plan_by_handle).                                *)
(***************************************************************************)
Owns(d) == priv[d] # Nil /\ reg[priv[d]].dev = d /\ reg[priv[d]].ieee # Nil

StartWrite(d, v) ==
    worker' = IF d \in node /\ Owns(d)
              THEN [pc |-> "write", dev |-> d, val |-> v, slot |-> priv[d],
                    ieee |-> reg[priv[d]].ieee]
              ELSE worker

CloudWrite(d, v) ==
    /\ up /\ d \in node
    /\ \/ /\ writeTask = "queue" /\ Len(queue) < QueueCap
          /\ queue' = Append(queue, [kind |-> "write", dev |-> d, val |-> v])
          /\ worker' = worker
       \/ /\ writeTask = "own" /\ worker.pc = "idle"
          /\ StartWrite(d, v)
          /\ queue' = queue
    /\ UNCHANGED <<reg, count, live, node, priv, cloud, call, todo, table, history, boots>>

RunWrite ==
    /\ QueueRuns("write") /\ worker.pc = "idle"
    /\ StartWrite(Head(queue).dev, Head(queue).val)
    /\ UNCHANGED <<reg, count, live, node, priv, cloud, call, todo, table, history, boots>>

(* The entry that the write began with holds the object still. *)
StillOwns == reg[worker.slot].dev = worker.dev /\ reg[worker.slot].ieee # Nil

WriteAck ==
    /\ worker.pc = "write"
    /\ Publish(worker.dev, worker.val)
    /\ worker' = [worker EXCEPT !.pc = "note"]
    /\ UNCHANGED <<reg, count, live, node, priv, queue, call, todo, table, crossed, boots>>

ReportWaits(d) == \E k \in DOMAIN queue : queue[k].kind = "report" /\ queue[k].dev = d

(* The written value replaces that of a report that is still to be published. *)
WriteNote ==
    LET noted == StillOwns /\ reg[worker.slot].ieee = worker.ieee IN
    /\ worker.pc = "note"
    /\ reg' = IF noted THEN [reg EXCEPT ![worker.slot].last = worker.val] ELSE reg
    /\ crossed' = IF noted /\ ~ReportWaits(worker.dev) THEN crossed
                                                      ELSE crossed \cup {worker.dev}
    /\ worker' = Resting
    /\ UNCHANGED <<count, live, node, priv, cloud, queue, call, todo, table, lost, boots>>

(* The P4 did not take the value: show the last one again, if there is one. *)
WriteFail ==
    /\ worker.pc = "write"
    /\ worker' = IF StillOwns /\ reg[worker.slot].last # Nil
                 THEN [worker EXCEPT !.pc = "snap", !.val = reg[worker.slot].last]
                 ELSE Resting
    /\ UNCHANGED <<reg, count, live, node, priv, cloud, queue, call, todo, table, history, boots>>

SnapBack ==
    /\ worker.pc = "snap"
    /\ Publish(worker.dev, worker.val)
    /\ worker' = Resting
    /\ UNCHANGED <<reg, count, live, node, priv, queue, call, todo, table, crossed, boots>>

(***************************************************************************)
(* rmk_boot_restore, on its own task: a snapshot of the table, then one     *)
(* device after the other; a failure goes on to the next.                   *)
(***************************************************************************)
RestoreSnapshot ==
    /\ call[Restore].pc = "snapshot"
    /\ todo' = table
    /\ Done(Restore)
    /\ UNCHANGED <<reg, count, live, node, priv, cloud, queue, worker, table, history, boots>>

RestoreNext(i) ==
    /\ call[Restore].pc = "idle" /\ i \in todo
    /\ todo' = todo \ {i}
    /\ Goto(Restore, [Idle EXCEPT !.pc = "fetch", !.ieee = i])
    /\ UNCHANGED <<reg, count, live, node, priv, cloud, queue, worker, table, history, boots>>

(* A restart keeps the flash (table, uplink) and nothing else. *)
Reboot ==
    /\ boots < MaxBoots /\ boots' = boots + 1
    /\ GwReboot
    /\ reg' = [s \in Slots |-> Empty] /\ count' = 0
    /\ live' = {} /\ node' = {}
    /\ priv' = [d \in Sdk |-> Nil] /\ cloud' = [d \in Sdk |-> Nil]
    /\ queue' = <<>> /\ worker' = Resting
    /\ call' = [c \in Callers |-> Idle]
    /\ todo' = {} /\ crossed' = {} /\ lost' = {}
    /\ UNCHANGED table

(* rmk_bridge_attach starts the restore at the first READY of the boot. *)
Gateway ==
    /\ GwNext
    /\ call' = IF attached' /\ ~attached
               THEN [call EXCEPT ![Restore] = [Idle EXCEPT !.pc = "snapshot"]] ELSE call
    /\ UNCHANGED <<reg, count, live, node, priv, cloud, queue, worker, todo, table, history,
                   boots>>

CallerStep(c) == Fetch(c) \/ Build(c) \/ Commit(c) \/ Record(c) \/ QueueTeardown(c) \/ Forget(c)
WorkerStep == RunReport \/ RunTeardown \/ RunWrite \/ WriteAck \/ WriteNote \/ WriteFail \/ SnapBack

Request ==
    \/ \E c \in Callers, i \in Ieee : AddStart(c, i) \/ Unexpose(c, i)
    \/ \E i \in Ieee, v \in Vals, force \in BOOLEAN : AttrUpdate(i, v, force)
    \/ \E d \in Sdk, v \in Vals : CloudWrite(d, v)

Inner ==
    \/ \E c \in Callers : CallerStep(c)
    \/ WorkerStep
    \/ RestoreSnapshot
    \/ \E i \in Ieee : RestoreNext(i)

gwOnly == <<gw, starting, up, claimed, mapped, attached, uplink, mqtt>>

Next ==
    /\ \/ Gateway
       \/ Request /\ Input /\ UNCHANGED gwOnly
       \/ Inner /\ UNCHANGED gwVars
       \/ Reboot
    /\ UNCHANGED writeTask

Fairness == \A c \in Callers : WF_vars(CallerStep(c) /\ UNCHANGED <<gwVars, writeTask>>)

Spec == Init /\ [][Next]_vars
FairSpec == Spec /\ Fairness

(***************************************************************************)
(* Properties.                                                             *)
(***************************************************************************)
(* No report in the queue and no registry entry refers to objects that were *)
(* freed, wherever writes run: unexposing clears the entry under the lock    *)
(* that a report is queued under, and the teardown follows through the same  *)
(* queue (rmk_bridge_unexpose_device, rmk_bridge_on_attr_update).  Nor does  *)
(* a write in progress, if writes run on the task of the queue.              *)
NoDangling ==
    /\ \A k \in DOMAIN queue : queue[k].kind = "report" => queue[k].dev \in live
    /\ \A s \in Slots : reg[s].dev # Nil => reg[s].dev \in live
    /\ writeTask = "queue" /\ worker.dev # Nil => worker.dev \in live

(* The same of writes wherever they run: does not hold, it is the window     *)
(* that the source accepts (api_device_rainmaker_remove).  Put it, and the   *)
(* other claims that do not hold, in MCRainmaker_deep.cfg.                   *)
WritesAreSafe == worker.dev # Nil => worker.dev \in live

(* Nothing about the object waits in the queue or runs. *)
Quiet(d) == worker.dev # d /\ \A k \in DOMAIN queue : queue[k].dev # d

(* The throttle key last_reported, by which an unchanged value is skipped,   *)
(* is what the cloud was last told, unless the last publish was lost (until  *)
(* one succeeds) or a write ended while a report of the device was on its    *)
(* way (until the next report; rmk_bridge_on_attr_update, _write_cb).  That  *)
(* a cloud may fall back to defaults by itself, for which the source forces  *)
(* the reports of commands, is not a value told.                             *)
ThrottleKeyHolds ==
    \A s \in Slots :
        LET d == reg[s].dev IN
        d # Nil /\ reg[s].last # Nil /\ d \notin crossed \cup lost /\ Quiet(d) =>
            cloud[d] = reg[s].last

(* The same with only lost publishes excepted, as the throttle and the snap- *)
(* back need it: does not hold, for a write may note its value after that    *)
(* of a report which is published after the write's.                         *)
CloudAgrees ==
    \A s \in Slots :
        LET d == reg[s].dev IN
        d # Nil /\ reg[s].last # Nil /\ d \notin lost /\ Quiet(d) => cloud[d] = reg[s].last

(* s_reg_count counts the committed entries, as its comment says: while it   *)
(* is 0 rmk_bridge_active() holds every report back.  Does not hold.        *)
CountIsCommitted == count = Cardinality({s \in Slots : reg[s].dev # Nil})

(* A reservation is given back or committed: none blocks an entry for ever,  *)
(* whatever races the caller that made it (rmk_bridge_expose_device).       *)
ReservationsEnd ==
    \A s \in Slots : (reg[s].ieee # Nil /\ reg[s].dev = Nil) ~>
                     (reg[s].ieee = Nil \/ reg[s].dev # Nil)
=============================================================================
