------------------------------ MODULE HapLink ------------------------------
(***************************************************************************)
(* Is the P4 there, and is it the P4 we shook hands with?                  *)
(* (main/hap_bridge.cpp: task_hap's loop, the HEARTBEAT case of the frame  *)
(* callback, on_sync and on_link_dead.)                                    *)
(*                                                                         *)
(* While unsynced, TaskHAP sends SYNC again and again.  A SYNC_ACK makes   *)
(* the link synced and hap_session forgets the sequence numbers it has     *)
(* seen.  A P4 that restarts starts its numbering over, so the S3 has to   *)
(* notice and to SYNC again: a heartbeat whose uptime went backwards tells *)
(* it.  A P4 that stays silent for three heartbeat intervals is reported   *)
(* as unresponsive, once, and once more when it is heard again; between    *)
(* the change of the flag and its announcement a task may be held up.      *)
(*                                                                         *)
(* Frames are handled on whatever task an exchange brought them to         *)
(* (HapExchange).  Time passes in heartbeat intervals.  The P4, the loss   *)
(* of frames and hap_session's retransmission are external.                *)
(***************************************************************************)
EXTENDS Integers, FiniteSets

CONSTANTS
  Drivers,    \* tasks that handle frames
  TaskHAP,    \* the one of them that runs the loop
  Silence,    \* heartbeat intervals without a heartbeat: 3
  MaxBoots,   \* bound: boots of the P4
  MaxUptime,  \* bound: the P4's uptime stops counting here
  CalmUptime  \* in calm weather a P4 does not restart before this uptime

VARIABLES
  s_synced, s_p4_uptime_s, s_p4_unresponsive,
  hb_age,       \* age of s_last_p4_hb_tick in intervals, -1: no heartbeat ever
  window,       \* the boot of the P4 that hap_session's receive window belongs to
  image_valid,  \* s_marked_valid: the OTA rollback is cancelled
  at, hb,       \* per driver: its place, the heartbeat it handles
  looped,       \* TaskHAP's loop has run since time last moved
  sync_req,     \* a SYNC is on its way to the P4
  calm,         \* chosen once: no heartbeat is lost or fails to decode, only
                \* TaskHAP handles frames, the P4 runs for a while between boots
  p4_up, p4_boot, p4_uptime,
  p4_queue,     \* frames the P4 has for us
  heard_boot,   \* history: the boot of the last heartbeat checked
  quiet,        \* history: intervals since the last heartbeat, or since boot
  open_alerts   \* history: alerts "silent" minus alerts "recovered"

s3Vars == <<s_synced, s_p4_uptime_s, s_p4_unresponsive, hb_age, window, image_valid>>
history == <<heard_boot, quiet, open_alerts>>
p4Vars == <<calm, p4_up, p4_boot, p4_uptime>>
vars == <<s3Vars, at, hb, looped, sync_req, p4Vars, p4_queue, history>>

Boots == 1..MaxBoots
Heartbeats == [kind : {"hb"}, boot : Boots, uptime : 0..MaxUptime]
Acks == [kind : {"ack"}, boot : Boots]
NoHb == [kind |-> "none"]
MaxAge == Silence + 1

ASSUME LinkAssumption ==
  /\ IsFiniteSet(Drivers) /\ TaskHAP \in Drivers
  /\ Silence \in Nat \ {0} /\ MaxBoots \in Nat \ {0}
  /\ MaxUptime \in Nat \ {0} /\ CalmUptime \in 1..MaxUptime

LinkPlaces == {"idle", "store", "edge", "recovered", "silence", "raise", "silent"}

TypeOK ==
  /\ s_synced \in BOOLEAN /\ s_p4_unresponsive \in BOOLEAN /\ image_valid \in BOOLEAN
  /\ s_p4_uptime_s \in 0..MaxUptime
  /\ hb_age \in -1..MaxAge
  /\ window \in 0..MaxBoots
  /\ at \in [Drivers -> LinkPlaces]
  /\ hb \in [Drivers -> Heartbeats \cup {NoHb}]
  /\ looped \in BOOLEAN /\ sync_req \in BOOLEAN /\ calm \in BOOLEAN /\ p4_up \in BOOLEAN
  /\ p4_boot \in Boots /\ p4_uptime \in 0..MaxUptime
  /\ p4_queue \subseteq Heartbeats \cup Acks
  /\ heard_boot \in 0..MaxBoots
  /\ quiet \in 0..MaxAge
  /\ open_alerts \in Int

Init ==
  /\ s_synced = FALSE /\ s_p4_uptime_s = 0 /\ s_p4_unresponsive = FALSE
  /\ hb_age = -1 /\ window = 0 /\ image_valid = FALSE
  /\ at = [t \in Drivers |-> "idle"] /\ hb = [t \in Drivers |-> NoHb]
  /\ looped = FALSE
  /\ sync_req = TRUE          \* task_hap sends one before its loop
  /\ calm \in BOOLEAN
  /\ p4_up = TRUE /\ p4_boot = 1 /\ p4_uptime = 0 /\ p4_queue = {}
  /\ heard_boot = 0
  /\ quiet = 0
  /\ open_alerts = 0

-----------------------------------------------------------------------------
(* The P4.  Its queue is lost when it restarts.                               *)
P4Answers ==
  /\ p4_up /\ sync_req
  /\ sync_req' = FALSE
  /\ p4_queue' = p4_queue \cup {[kind |-> "ack", boot |-> p4_boot]}
  /\ UNCHANGED <<s3Vars, at, hb, looped, p4Vars, history>>

P4Stops ==
  /\ p4_up
  /\ p4_uptime >= IF calm THEN CalmUptime ELSE 1
  /\ p4_up' = FALSE
  /\ p4_queue' = {}
  /\ UNCHANGED <<s3Vars, at, hb, looped, sync_req, calm, p4_boot, p4_uptime, history>>

P4Boots ==
  /\ ~ p4_up
  /\ p4_boot < MaxBoots
  /\ p4_up' = TRUE
  /\ p4_boot' = p4_boot + 1
  /\ p4_uptime' = 0
  /\ UNCHANGED <<s3Vars, at, hb, looped, sync_req, calm, p4_queue, history>>

(* Task t is free to make an exchange. *)
Exchanges(t) == at[t] = "idle" /\ (calm => t = TaskHAP)

(* A frame is lost in an exchange.                                            *)
Lose ==
  \/ /\ sync_req
     /\ sync_req' = FALSE
     /\ UNCHANGED p4_queue
  \/ \E f \in p4_queue :
       /\ \E t \in Drivers : Exchanges(t)
       /\ ~ calm \/ f.kind = "ack"
       /\ p4_queue' = p4_queue \ {f}
       /\ UNCHANGED sync_req

LoseFrame ==
  /\ Lose
  /\ UNCHANGED <<s3Vars, at, hb, looped, p4Vars, history>>

(* A heartbeat interval passes; the loop has run many times in it, and what   *)
(* the P4 had for us is fetched unless it is lost.                            *)
Tick ==
  /\ looped
  /\ p4_queue \cap Heartbeats = {}
  /\ looped' = FALSE
  /\ quiet' = IF quiet < MaxAge THEN quiet + 1 ELSE quiet
  /\ hb_age' = IF hb_age \in 0..(MaxAge - 1) THEN hb_age + 1 ELSE hb_age
  /\ IF p4_up
       THEN LET up == IF p4_uptime < MaxUptime THEN p4_uptime + 1 ELSE MaxUptime IN
            /\ p4_uptime' = up
            /\ p4_queue' = p4_queue \cup
                 {[kind |-> "hb", boot |-> p4_boot, uptime |-> up]}
       ELSE UNCHANGED <<p4_uptime, p4_queue>>
  /\ UNCHANGED <<s_synced, s_p4_uptime_s, s_p4_unresponsive, window, image_valid, at, hb,
                 sync_req, calm, p4_up, p4_boot, heard_boot, open_alerts>>

-----------------------------------------------------------------------------
Goto(t, place) == at' = [at EXCEPT ![t] = place]

(* The HEARTBEAT case, on task t.  An uptime below the last one means a       *)
(* restart; a heartbeat that does not decode is stored as uptime 0.           *)
HbCheckNever(t, f, decoded) ==
  /\ Exchanges(t)
  /\ f.kind = "hb"
  /\ p4_queue' = p4_queue \ {f}
  /\ heard_boot' = f.boot
  /\ hb' = [hb EXCEPT ![t] = f]
  /\ Goto(t, "store")
  /\ UNCHANGED <<s3Vars, looped, sync_req, p4Vars, quiet, open_alerts>>
HbCheck(t, f, decoded) ==
  /\ Exchanges(t)
  /\ f.kind = "hb"
  /\ p4_queue' = p4_queue \ {f}
  /\ heard_boot' = f.boot
  /\ s_synced' = (s_synced /\ ~ (/\ decoded
                                 /\ s_p4_uptime_s # 0
                                 /\ f.uptime < s_p4_uptime_s))
  /\ hb' = [hb EXCEPT ![t] = IF decoded THEN f ELSE [f EXCEPT !.uptime = 0]]
  /\ Goto(t, "store")
  /\ UNCHANGED <<s_p4_uptime_s, s_p4_unresponsive, hb_age, window, image_valid, looped,
                 sync_req, p4Vars, quiet, open_alerts>>

HbStore(t) ==
  /\ at[t] = "store"
  /\ s_p4_uptime_s' = hb[t].uptime
  /\ hb_age' = 0
  /\ quiet' = 0
  /\ Goto(t, "edge")
  /\ hb' = [hb EXCEPT ![t] = NoHb]
  /\ UNCHANGED <<s_synced, s_p4_unresponsive, window, image_valid, looped, sync_req, p4Vars,
                 p4_queue, heard_boot, open_alerts>>

(* exchange(false): the task that saw the flag set announces the recovery.    *)
HbEdge(t) ==
  /\ at[t] = "edge"
  /\ s_p4_unresponsive' = FALSE
  /\ Goto(t, IF s_p4_unresponsive THEN "recovered" ELSE "idle")
  /\ UNCHANGED <<s_synced, s_p4_uptime_s, hb_age, window, image_valid, hb, looped, sync_req,
                 p4Vars, p4_queue, history>>

(* ws_event_broadcast of an alert, by the task that changed the flag.         *)
Announce(t) ==
  /\ at[t] \in {"silent", "recovered"}
  /\ open_alerts' = open_alerts + (IF at[t] = "silent" THEN 1 ELSE -1)
  /\ looped' = (looped \/ at[t] = "silent")
  /\ Goto(t, "idle")
  /\ UNCHANGED <<s3Vars, hb, sync_req, p4Vars, p4_queue, heard_boot, quiet>>

(* on_sync with a SYNC_ACK, on any task. *)
OnSync(t, f) ==
  /\ Exchanges(t)
  /\ f.kind = "ack"
  /\ p4_queue' = p4_queue \ {f}
  /\ s_synced' = TRUE
  /\ window' = f.boot
  /\ image_valid' = TRUE
  /\ UNCHANGED <<s_p4_uptime_s, s_p4_unresponsive, hb_age, at, hb, looped, sync_req, p4Vars,
                 history>>

(* on_link_dead, or the dead streak of hap_roundtrip_v2. *)
LinkDead ==
  /\ s_synced
  /\ s_synced' = FALSE
  /\ UNCHANGED <<s_p4_uptime_s, s_p4_unresponsive, hb_age, window, image_valid, at, hb,
                 looped, sync_req, p4Vars, p4_queue, history>>

-----------------------------------------------------------------------------
(* One turn of task_hap's loop: SYNC while unsynced ...                       *)
LoopNoSync ==
  /\ at[TaskHAP] = "idle"
  /\ Goto(TaskHAP, "silence")
  /\ UNCHANGED <<s3Vars, hb, looped, sync_req, p4Vars, p4_queue, history>>
LoopSync ==
  /\ at[TaskHAP] = "idle"
  /\ sync_req' = (sync_req \/ ~ s_synced)
  /\ Goto(TaskHAP, "silence")
  /\ UNCHANGED <<s3Vars, hb, looped, p4Vars, p4_queue, history>>

(* ... and while synced look for a silent P4: the age is read ...             *)
SilentUnsynced == ~ s_synced /\ hb_age >= Silence
Silent == s_synced /\ hb_age >= Silence
LoopSilence ==
  /\ at[TaskHAP] = "silence"
  /\ looped' = (looped \/ ~ Silent)
  /\ Goto(TaskHAP, IF Silent THEN "raise" ELSE "idle")
  /\ UNCHANGED <<s3Vars, hb, sync_req, p4Vars, p4_queue, history>>

(* ... and exchange(true): who finds the flag clear announces the silence.    *)
RaiseRepeats ==
  /\ at[TaskHAP] = "raise"
  /\ s_p4_unresponsive' = TRUE
  /\ Goto(TaskHAP, "silent")
  /\ UNCHANGED <<s_synced, s_p4_uptime_s, hb_age, window, image_valid, hb, looped, sync_req,
                 p4Vars, p4_queue, history>>
Raise ==
  /\ at[TaskHAP] = "raise"
  /\ s_p4_unresponsive' = TRUE
  /\ looped' = (looped \/ s_p4_unresponsive)
  /\ Goto(TaskHAP, IF s_p4_unresponsive THEN "idle" ELSE "silent")
  /\ UNCHANGED <<s_synced, s_p4_uptime_s, hb_age, window, image_valid, hb, sync_req, p4Vars,
                 p4_queue, history>>

P4Step == P4Answers \/ P4Stops \/ P4Boots
Frame(t) ==
  \E f \in p4_queue :
    OnSync(t, f) \/ \E decoded \in {TRUE, calm} : HbCheck(t, f, decoded)
HbRest(t) == HbStore(t) \/ HbEdge(t) \/ Announce(t)

Next ==
  \/ P4Step \/ LoseFrame \/ Tick \/ LinkDead \/ LoopSync \/ LoopSilence \/ Raise
  \/ \E t \in Drivers : Frame(t) \/ HbRest(t)

Spec == Init /\ [][Next]_vars

(* Tasks run, time passes, and a SYNC that is repeated for ever gets through  *)
(* to a P4 that is up, and its answer to some task.                           *)
FairSpec ==
  /\ Spec
  /\ WF_vars(Tick) /\ WF_vars(LoopSync) /\ WF_vars(LoopSilence \/ Raise)
  /\ WF_vars(Frame(TaskHAP)) /\ \A t \in Drivers : WF_vars(HbRest(t))
  /\ SF_vars(P4Answers)
  /\ SF_vars(\E t \in Drivers : \E f \in p4_queue : OnSync(t, f))

-----------------------------------------------------------------------------
(* Each edge of the flag is announced exactly once, although the loop and     *)
(* heartbeats on several tasks change it: the alerts that are out and those   *)
(* that tasks have still to publish add up to the flag.                       *)
Announcing(edge) == {t \in Drivers : at[t] = edge}
AlertsPaired ==
  open_alerts + Cardinality(Announcing("silent")) - Cardinality(Announcing("recovered"))
    = IF s_p4_unresponsive THEN 1 ELSE 0

(* A recovery is announced after the silence it ends, and before the next.    *)
(* Does not hold: between the change of the flag and the announcement a task  *)
(* may be overtaken, and "silent" comes after "recovered" (put it in place of *)
(* AlertsPaired in MCHapTask_loop.cfg).                                       *)
AlertsInTurn == Announcing("silent") = {} \/ Announcing("recovered") = {}

(* While the link counts as synced, the last heartbeat did not come from a    *)
(* later boot of the P4 than the handshake ("so this catches the restart      *)
(* within one heartbeat"). *)
NoStaleWindow == s_synced => heard_boot <= window

(* That holds in calm weather, when a P4 runs for three intervals before it   *)
(* restarts: the uptime the detector compares with is then never 0 or short.  *)
RestartNoticed == calm => NoStaleWindow

(* An unsynced link is synced again, if the P4 is up in the end.              *)
Resyncs == <>[]p4_up => (~ s_synced ~> s_synced)

(* A P4 that has been heard and falls silent while the link counts as synced  *)
(* is reported.                                                               *)
SilenceReported == <>[](s_synced /\ hb_age = MaxAge) => <>[]s_p4_unresponsive

(* The same of any silent P4 ("if three heartbeat intervals have passed       *)
(* without a HEARTBEAT from P4, flag the link as unresponsive"). Does not     *)
(* hold: the age of the heartbeat starts at the first one (put it in place of *)
(* SilenceReported in MCHapTask_loop.cfg).                                    *)
AnySilenceReported == <>[](s_synced /\ quiet = MaxAge) => <>[]s_p4_unresponsive
=============================================================================
