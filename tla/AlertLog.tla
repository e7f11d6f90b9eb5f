----------------------------- MODULE AlertLog -----------------------------
(***************************************************************************)
(* The alerts of the P4 (main/hap_bridge.cpp): the ring that task_hap      *)
(* fills, the task that copies it to /spiffs/alerts.bin, the load at the   *)
(* start, and the order alerts.get lists them in.                          *)
(*                                                                         *)
(* An alert is a number, in the order of arrival; 0 is an empty entry.     *)
(***************************************************************************)
EXTENDS Naturals, FiniteSets

CONSTANTS
  ALERT_LOG_MAX,
  Size,          \* what an alert takes of the reply of alerts.get; its text varies
  Room,          \* the room of that reply: 1024 bytes over REST
  MaxAlerts,     \* bound: alerts
  MaxFailures,   \* bound: opens and writes of the file that fail
  MaxCrashes     \* bound: restarts, at any moment

RingAssumption ==
  /\ ALERT_LOG_MAX \in Nat \ {0}
  /\ Size \in [0..MaxAlerts -> Nat] /\ Room \in Nat
  /\ MaxAlerts \in Nat /\ MaxFailures \in Nat /\ MaxCrashes \in Nat

VARIABLES
  s_alert_log, s_alert_log_head, s_alert_log_count,
  alerts,        \* alerts 1..alerts have arrived
  notified,      \* the notification of TaskAlertPrst
  saver,         \* where that task is: "waiting", "snapped" or "writing"
  snap,          \* its copy of the ring
  file,          \* {} when alerts.bin is absent or cut short, else {its content}
  booted,        \* the alerts that had arrived at the last start
  failures, crashes

ring == <<s_alert_log, s_alert_log_head, s_alert_log_count>>
task == <<notified, saver, snap>>
vars == <<ring, alerts, task, file, booted, failures, crashes>>

Entries == 0..(ALERT_LOG_MAX - 1)
Image == [log |-> s_alert_log, head |-> s_alert_log_head, count |-> s_alert_log_count]
Empty == [log |-> [i \in Entries |-> 0], head |-> 0, count |-> 0]

Init ==
  /\ s_alert_log = Empty.log /\ s_alert_log_head = 0 /\ s_alert_log_count = 0
  /\ alerts = 0 /\ notified = FALSE /\ saver = "waiting" /\ snap = Empty
  /\ file = {} /\ booted = 0 /\ failures = 0 /\ crashes = 0

(* on_frame, case ALERT, and alert_log_schedule_persist.                      *)
Alert ==
  /\ alerts < MaxAlerts
  /\ alerts' = alerts + 1
  /\ s_alert_log' = [s_alert_log EXCEPT ![s_alert_log_head] = alerts']
  /\ s_alert_log_head' = (s_alert_log_head + 1) % ALERT_LOG_MAX
  /\ s_alert_log_count' = IF s_alert_log_count < ALERT_LOG_MAX THEN s_alert_log_count + 1
                                                             ELSE s_alert_log_count
  /\ notified' = TRUE
  /\ UNCHANGED <<saver, snap, file, booted, failures, crashes>>

---------------------------------------------------------------------------
(* task_alert_persist.                                                        *)

Snapshot ==
  /\ saver = "waiting" /\ notified
  /\ notified' = FALSE
  /\ saver' = "snapped" /\ snap' = Image
  /\ UNCHANGED <<ring, alerts, file, booted, failures, crashes>>

Open ==
  /\ saver = "snapped"
  /\ saver' = "writing" /\ file' = {}
  /\ UNCHANGED <<ring, alerts, notified, snap, booted, failures, crashes>>

OpenFails ==
  /\ saver = "snapped" /\ failures < MaxFailures
  /\ failures' = failures + 1
  /\ saver' = "waiting"
  /\ UNCHANGED <<ring, alerts, notified, snap, file, booted, crashes>>

(* Mutant: the notification is cleared when the file is written.              *)
WriteClears ==
  /\ saver = "writing"
  /\ saver' = "waiting" /\ file' = {snap} /\ notified' = FALSE
  /\ UNCHANGED <<ring, alerts, snap, booted, failures, crashes>>

Write ==
  /\ saver = "writing"
  /\ saver' = "waiting" /\ file' = {snap}
  /\ UNCHANGED <<ring, alerts, notified, snap, booted, failures, crashes>>

WriteFails ==
  /\ saver = "writing" /\ failures < MaxFailures
  /\ failures' = failures + 1
  /\ saver' = "waiting" /\ file' = {}
  /\ UNCHANGED <<ring, alerts, notified, snap, booted, crashes>>

---------------------------------------------------------------------------
(* A restart: alert_log_load accepts a whole file only.                       *)

Loaded == IF file = {} THEN Empty ELSE CHOOSE image \in file : TRUE
(* Mutant: the head is not part of the file.                                  *)
load_without_head ==
  /\ s_alert_log' = Loaded.log
  /\ s_alert_log_head' = 0
  /\ s_alert_log_count' = Loaded.count

alert_log_load ==
  /\ s_alert_log' = Loaded.log
  /\ s_alert_log_head' = Loaded.head
  /\ s_alert_log_count' = Loaded.count

Restart ==
  /\ crashes < MaxCrashes
  /\ crashes' = crashes + 1
  /\ alert_log_load
  /\ notified' = FALSE /\ saver' = "waiting" /\ snap' = Empty
  /\ booted' = alerts
  /\ UNCHANGED <<alerts, file, failures>>

Next ==
  \/ Alert
  \/ Snapshot \/ Open \/ OpenFails \/ Write \/ WriteFails
  \/ Restart

(* TaskAlertPrst runs when it has something to do.                            *)
Fairness == WF_vars(Snapshot \/ Open \/ Write)

Spec == Init /\ [][Next]_vars
FairSpec == Spec /\ Fairness

---------------------------------------------------------------------------
(* api_alerts_get: oldest first, and what does not fit in the rest of the     *)
(* reply is passed over; a shorter one after it may still fit.                *)
Oldest == IF s_alert_log_count < ALERT_LOG_MAX THEN 0 ELSE s_alert_log_head
Entry(i) == s_alert_log[(Oldest + i - 1) % ALERT_LOG_MAX]

(* The room taken after the first i entries.                                  *)
Used ==
  LET used[i \in 0..s_alert_log_count] ==
        IF i = 0 THEN 0
        ELSE LET with == used[i - 1] + Size[Entry(i)] IN IF with <= Room THEN with ELSE used[i - 1]
  IN  used
Fits(i, alert) == Used[i - 1] + Size[alert] <= Room

(* The places in the ring of the entries listed; they are listed in turn.     *)
Listed == {i \in 1..s_alert_log_count : Fits(i, Entry(i))}

TypeOK ==
  /\ s_alert_log \in [Entries -> 0..MaxAlerts]
  /\ s_alert_log_head \in Entries /\ s_alert_log_count \in 0..ALERT_LOG_MAX
  /\ alerts \in 0..MaxAlerts /\ booted \in 0..alerts
  /\ Cardinality(file) <= 1
  /\ notified \in BOOLEAN /\ saver \in {"waiting", "snapped", "writing"}
  /\ failures \in 0..MaxFailures /\ crashes \in 0..MaxCrashes

Fewer(a, b) == IF a < b THEN a ELSE b

(* Through any number of restarts, torn files and a ring that wraps, the list *)
(* is in the order of arrival, and the alerts that arrived since the start,   *)
(* as many of the newest as the ring has room for, are each in it, at the end *)
(* and in their order, but for those that did not fit after the older ones.   *)
ListedInOrder ==
  /\ \A i \in Listed : 0 < Entry(i) /\ \A j \in Listed : j < i => Entry(j) < Entry(i)
  /\ LET new == Fewer(alerts - booted, ALERT_LOG_MAX) IN
       /\ new <= s_alert_log_count
       /\ \A k \in 0..(new - 1) :
            LET i == s_alert_log_count - k IN
            /\ Fits(i, alerts - k) => i \in Listed
            /\ i \in Listed => Entry(i) = alerts - k

(* That the list ends with the newest alert does not hold (put it in the      *)
(* place of ListedInOrder in MCNode_services.cfg): a list that is too long    *)
(* for the reply loses its end, not its beginning (api_system.cpp:355-356).   *)
EndsWithNewest ==
  alerts > booted => s_alert_log_count \in Listed /\ Entry(s_alert_log_count) = alerts

(* When the file system works again, an alert reaches the file, also one that *)
(* came while an earlier copy was being written.                              *)
ReachesFile ==
  (notified /\ failures = MaxFailures /\ crashes = MaxCrashes) ~> file = {Image}
=============================================================================
