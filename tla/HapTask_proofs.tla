--------------------------- MODULE HapTask_proofs ---------------------------
(* Proofs about the two jobs of task_hap: the supervision of the P4, for any *)
(* number of tasks that handle frames and any number of restarts, and the    *)
(* attr.bulk coalescer, for any updates and any size of the buffer, which    *)
(* implements what the browser is promised.                                  *)
EXTENDS HapLink, HapBulk, FiniteSetTheorems, SequenceTheorems, TLAPS

(***************************************************************************)
(* HapLink.                                                                *)
(***************************************************************************)

(* A task that stores a heartbeat has one.                                    *)
StoresOne == \A t \in Drivers : at[t] = "store" => hb[t] \in Heartbeats

LinkInv == TypeOK /\ StoresOne /\ AlertsPaired

(* The tasks that are about to announce an edge can be counted.               *)
LEMMA AnnouncingCounted ==
  ASSUME NEW e
  PROVE  IsFiniteSet(Announcing(e)) /\ Cardinality(Announcing(e)) \in Nat
<1>1. Announcing(e) \subseteq Drivers /\ IsFiniteSet(Drivers)
  BY LinkAssumption DEF Announcing
<1>2. IsFiniteSet(Announcing(e))
  BY <1>1, FS_Subset
<1>. QED  BY <1>2, FS_CardinalityType

(* A task that goes to another place changes the count by one, or not at all. *)
LEMMA AnnouncingMoves ==
  ASSUME at \in [Drivers -> LinkPlaces], NEW t \in Drivers, NEW place, Goto(t, place), NEW e
  PROVE  LET n == Cardinality(Announcing(e)) IN
         /\ at[t] # e /\ place # e => n' = n
         /\ at[t] # e /\ place = e => n' = n + 1
         /\ at[t] = e /\ place # e => n' = n - 1
<1>0. IsFiniteSet(Announcing(e)) /\ Cardinality(Announcing(e)) \in Nat
  BY AnnouncingCounted
<1>1. at'[t] = place /\ \A u \in Drivers \ {t} : at'[u] = at[u]
  BY DEF Goto
<1>2. ASSUME at[t] # e, place # e
      PROVE  Announcing(e)' = Announcing(e)
  BY <1>1, <1>2 DEF Announcing
<1>3. ASSUME at[t] # e, place = e
      PROVE  Announcing(e)' = Announcing(e) \cup {t} /\ t \notin Announcing(e)
  BY <1>1, <1>3 DEF Announcing
<1>4. ASSUME at[t] = e, place # e
      PROVE  Announcing(e)' = Announcing(e) \ {t} /\ t \in Announcing(e)
  BY <1>1, <1>4 DEF Announcing
<1>5. ASSUME at[t] # e, place = e
      PROVE  Cardinality(Announcing(e))' = Cardinality(Announcing(e)) + 1
  BY <1>0, <1>3, <1>5, FS_AddElement
<1>6. ASSUME at[t] = e, place # e
      PROVE  Cardinality(Announcing(e))' = Cardinality(Announcing(e)) - 1
  BY <1>0, <1>4, <1>6, FS_RemoveElement
<1>. QED  BY <1>2, <1>5, <1>6

(* Most steps move a task between places where nothing is announced.          *)
LEMMA NothingAnnounced ==
  ASSUME LinkInv, NEW t \in Drivers, NEW place, Goto(t, place),
         at[t] \notin {"silent", "recovered"}, place \notin {"silent", "recovered"},
         s_p4_unresponsive' = s_p4_unresponsive, open_alerts' = open_alerts
  PROVE  AlertsPaired'
<1>1. /\ Cardinality(Announcing("silent"))' = Cardinality(Announcing("silent"))
      /\ Cardinality(Announcing("recovered"))' = Cardinality(Announcing("recovered"))
  BY AnnouncingMoves DEF LinkInv, TypeOK
<1>. QED  BY <1>1 DEF LinkInv, AlertsPaired

(* Initially nothing is half handled and no alert is out.                     *)
LEMMA LinkInit == Init => LinkInv
<1>. SUFFICES ASSUME Init PROVE LinkInv
  OBVIOUS
<1>1. AlertsPaired /\ StoresOne
  <2>1. Announcing("silent") = {} /\ Announcing("recovered") = {}
    BY DEF Init, Announcing
  <2>2. Cardinality({}) = 0
    BY FS_EmptySet
  <2>. QED  BY <2>1, <2>2 DEF Init, AlertsPaired, StoresOne
<1>2. hb_age \in -1..MaxAge /\ quiet \in 0..MaxAge /\ p4_boot \in Boots
  BY LinkAssumption DEF Init, MaxAge, Boots
<1>3. at \in [Drivers -> LinkPlaces]
      /\ hb \in [Drivers -> Heartbeats \cup {NoHb}]
  BY DEF Init, LinkPlaces
<1>4. /\ s_synced \in BOOLEAN /\ s_p4_unresponsive \in BOOLEAN /\ image_valid \in BOOLEAN
      /\ looped \in BOOLEAN /\ sync_req \in BOOLEAN /\ calm \in BOOLEAN /\ p4_up \in BOOLEAN
  BY Zenon DEF Init
<1>5. /\ s_p4_uptime_s \in 0..MaxUptime /\ p4_uptime \in 0..MaxUptime
      /\ window \in 0..MaxBoots /\ heard_boot \in 0..MaxBoots /\ open_alerts \in Int
      /\ p4_queue \subseteq Heartbeats \cup Acks
  BY LinkAssumption DEF Init
<1>. QED  BY <1>1, <1>2, <1>3, <1>4, <1>5, Zenon DEF LinkInv, TypeOK

(* Frames that leave the queue, or are put into it.                           *)
LEMMA LinkP4Step == ASSUME LinkInv, P4Step \/ LoseFrame PROVE LinkInv'
<1>1. CASE P4Answers
  <2>1. [kind |-> "ack", boot |-> p4_boot] \in Acks
    BY DEF LinkInv, TypeOK, Acks
  <2>. QED  BY <1>1, <2>1
       DEF P4Answers, LinkInv, TypeOK, StoresOne, AlertsPaired, Announcing, s3Vars, p4Vars, history
<1>2. CASE P4Stops
  BY <1>2 DEF P4Stops, LinkInv, TypeOK, StoresOne, AlertsPaired, Announcing, s3Vars, history
<1>3. CASE P4Boots
  BY <1>3, LinkAssumption
  DEF P4Boots, LinkInv, TypeOK, StoresOne, AlertsPaired, Announcing, s3Vars, history, Boots
<1>4. CASE LoseFrame
  BY <1>4 DEF LoseFrame, Lose, LinkInv, TypeOK, StoresOne, AlertsPaired, Announcing, s3Vars, p4Vars, history
<1>. QED  BY <1>1, <1>2, <1>3, <1>4 DEF P4Step

LEMMA LinkTick == ASSUME LinkInv, Tick PROVE LinkInv'
<1>1. p4_uptime' \in 0..MaxUptime
  BY LinkAssumption DEF Tick, LinkInv, TypeOK
<1>2. p4_queue' \subseteq Heartbeats \cup Acks
  <2>1. CASE p4_up
    <3>1. [kind |-> "hb", boot |-> p4_boot, uptime |-> p4_uptime'] \in Heartbeats
      BY <1>1 DEF LinkInv, TypeOK, Heartbeats
    <3>. QED  BY <2>1, <3>1 DEF Tick, LinkInv, TypeOK
  <2>2. CASE ~ p4_up
    BY <2>2 DEF Tick, LinkInv, TypeOK
  <2>. QED  BY <2>1, <2>2
<1>3. quiet' \in 0..MaxAge /\ hb_age' \in -1..MaxAge
  BY LinkAssumption DEF Tick, LinkInv, TypeOK, MaxAge
<1>. QED  BY <1>1, <1>2, <1>3 DEF Tick, LinkInv, TypeOK, StoresOne, AlertsPaired, Announcing

LEMMA LinkFrame == ASSUME LinkInv, NEW t \in Drivers, Frame(t) PROVE LinkInv'
<1>1. ASSUME NEW f \in p4_queue, OnSync(t, f)
      PROVE  LinkInv'
  <2>1. f.boot \in 0..MaxBoots
    BY LinkAssumption DEF LinkInv, TypeOK, Heartbeats, Acks, Boots
  <2>. QED  BY <1>1, <2>1
       DEF OnSync, LinkInv, TypeOK, StoresOne, AlertsPaired, Announcing, p4Vars, history
<1>2. ASSUME NEW f \in p4_queue, NEW decoded \in {TRUE, calm}, HbCheck(t, f, decoded)
      PROVE  LinkInv'
  <2>1. f \in Heartbeats
    BY <1>2 DEF HbCheck, LinkInv, TypeOK, Acks
  <2>2. f.boot \in 0..MaxBoots
    BY <2>1, LinkAssumption DEF Heartbeats, Boots
  <2>3. (IF decoded THEN f ELSE [f EXCEPT !.uptime = 0]) \in Heartbeats
    BY <2>1, LinkAssumption DEF Heartbeats
  <2>4. s_synced' \in BOOLEAN
    BY <1>2, Zenon DEF HbCheck
  <2>5. hb' \in [Drivers -> Heartbeats \cup {NoHb}] /\ hb'[t] \in Heartbeats
    BY <1>2, <2>3 DEF HbCheck, LinkInv, TypeOK
  <2>6. StoresOne'
    BY <1>2, <2>5 DEF HbCheck, Goto, LinkInv, StoresOne, TypeOK
  <2>7. TypeOK'
    BY <1>2, <2>2, <2>4, <2>5 DEF HbCheck, Goto, LinkInv, TypeOK, p4Vars, LinkPlaces
  <2>8. AlertsPaired'
    BY <1>2, NothingAnnounced DEF HbCheck, Exchanges
  <2>. QED  BY <2>6, <2>7, <2>8 DEF LinkInv
<1>. QED  BY <1>1, <1>2 DEF Frame

(* A heartbeat clears the flag, and the task that cleared it owes an alert.   *)
LEMMA LinkHbRest == ASSUME LinkInv, NEW t \in Drivers, HbRest(t) PROVE LinkInv'
<1>0. /\ open_alerts \in Int
      /\ Cardinality(Announcing("silent")) \in Nat /\ Cardinality(Announcing("recovered")) \in Nat
      /\ at \in [Drivers -> LinkPlaces]
  BY AnnouncingCounted DEF LinkInv, TypeOK
<1>1. CASE HbStore(t)
  <2>1. hb[t].uptime \in 0..MaxUptime
    BY <1>1 DEF HbStore, LinkInv, StoresOne, Heartbeats
  <2>2. TypeOK' /\ StoresOne'
    BY <1>1, <2>1, LinkAssumption
    DEF HbStore, Goto, LinkInv, TypeOK, StoresOne, MaxAge, p4Vars, LinkPlaces
  <2>3. AlertsPaired'
    BY <1>1, NothingAnnounced DEF HbStore
  <2>. QED  BY <2>2, <2>3 DEF LinkInv
<1>2. CASE HbEdge(t)
  <2>1. s_p4_unresponsive' = FALSE /\ open_alerts' = open_alerts
    BY <1>2, Zenon DEF HbEdge, history
  <2>2. AlertsPaired'
    <3>1. CASE s_p4_unresponsive
      <4>1. at[t] = "edge" /\ Goto(t, "recovered")
        BY <1>2, <3>1, Zenon DEF HbEdge
      <4>2. /\ Cardinality(Announcing("silent"))' = Cardinality(Announcing("silent"))
            /\ Cardinality(Announcing("recovered"))' = Cardinality(Announcing("recovered")) + 1
        BY <1>0, <4>1, AnnouncingMoves
      <4>. QED  BY <1>0, <2>1, <3>1, <4>2 DEF LinkInv, AlertsPaired
    <3>2. CASE ~ s_p4_unresponsive
      <4>1. at[t] = "edge" /\ Goto(t, "idle")
        BY <1>2, <3>2, Zenon DEF HbEdge
      <4>. QED  BY <2>1, <3>2, <4>1, NothingAnnounced DEF LinkInv, TypeOK
    <3>. QED  BY <3>1, <3>2
  <2>3. TypeOK' /\ StoresOne'
    BY <1>2, <2>1 DEF HbEdge, Goto, LinkInv, TypeOK, StoresOne, p4Vars, history, LinkPlaces
  <2>. QED  BY <2>2, <2>3 DEF LinkInv
<1>3. CASE Announce(t)
  <2>1. s_p4_unresponsive' = s_p4_unresponsive /\ looped' \in BOOLEAN
    BY <1>3, Zenon DEF Announce, s3Vars
  <2>2. AlertsPaired'
    <3>1. Goto(t, "idle")
      BY <1>3 DEF Announce
    <3>2. CASE at[t] = "silent"
      <4>1. open_alerts' = open_alerts + 1
        BY <1>3, <3>2 DEF Announce
      <4>2. /\ Cardinality(Announcing("silent"))' = Cardinality(Announcing("silent")) - 1
            /\ Cardinality(Announcing("recovered"))' = Cardinality(Announcing("recovered"))
        BY <1>0, <3>1, <3>2, AnnouncingMoves
      <4>. QED  BY <1>0, <2>1, <4>1, <4>2 DEF LinkInv, AlertsPaired
    <3>3. CASE at[t] = "recovered"
      <4>1. open_alerts' = open_alerts - 1
        BY <1>0, <1>3, <3>3 DEF Announce
      <4>2. /\ Cardinality(Announcing("silent"))' = Cardinality(Announcing("silent"))
            /\ Cardinality(Announcing("recovered"))' = Cardinality(Announcing("recovered")) - 1
        BY <1>0, <3>1, <3>3, AnnouncingMoves
      <4>. QED  BY <1>0, <2>1, <4>1, <4>2 DEF LinkInv, AlertsPaired
    <3>. QED  BY <1>3, <3>2, <3>3 DEF Announce
  <2>3. TypeOK' /\ StoresOne'
    BY <1>0, <1>3, <2>1
    DEF Announce, Goto, LinkInv, TypeOK, StoresOne, s3Vars, p4Vars, LinkPlaces
  <2>. QED  BY <2>2, <2>3 DEF LinkInv
<1>. QED  BY <1>1, <1>2, <1>3 DEF HbRest

(* The loop raises the flag, and owes an alert if it was clear.               *)
LEMMA LinkLoop ==
  ASSUME LinkInv, LoopSync \/ LoopSilence \/ Raise \/ LinkDead
  PROVE  LinkInv'
<1>0. /\ open_alerts \in Int /\ TaskHAP \in Drivers
      /\ Cardinality(Announcing("silent")) \in Nat /\ Cardinality(Announcing("recovered")) \in Nat
      /\ at \in [Drivers -> LinkPlaces]
  BY AnnouncingCounted, LinkAssumption DEF LinkInv, TypeOK
<1>1. CASE LoopSync
  <2>1. sync_req' \in BOOLEAN
    BY <1>1, Zenon DEF LoopSync
  <2>2. TypeOK' /\ StoresOne'
    BY <1>0, <1>1, <2>1
    DEF LoopSync, Goto, LinkInv, TypeOK, StoresOne, s3Vars, p4Vars, history, LinkPlaces
  <2>3. AlertsPaired'
    BY <1>0, <1>1, NothingAnnounced DEF LoopSync, s3Vars, history
  <2>. QED  BY <2>2, <2>3 DEF LinkInv
<1>2. CASE LoopSilence
  <2>1. looped' \in BOOLEAN /\ UNCHANGED <<s3Vars, hb, sync_req, p4Vars, p4_queue, history>>
    BY <1>2, Zenon DEF LoopSilence
  <2>2. PICK place \in {"raise", "idle"} : Goto(TaskHAP, place)
    BY <1>2 DEF LoopSilence
  <2>3. TypeOK' /\ StoresOne'
    BY <1>0, <2>1, <2>2
    DEF Goto, LinkInv, TypeOK, StoresOne, s3Vars, p4Vars, history, LinkPlaces
  <2>4. at[TaskHAP] = "silence" /\ UNCHANGED <<s_p4_unresponsive, open_alerts>>
    BY <1>2 DEF LoopSilence, s3Vars, history
  <2>5. AlertsPaired'
    BY <1>0, <2>2, <2>4, NothingAnnounced
  <2>. QED  BY <2>3, <2>5 DEF LinkInv
<1>3. CASE Raise
  <2>1. s_p4_unresponsive' = TRUE /\ looped' \in BOOLEAN /\ open_alerts' = open_alerts
        /\ at[TaskHAP] = "raise"
    BY <1>3, Zenon DEF Raise, history
  <2>2. CASE s_p4_unresponsive
    <3>1. Goto(TaskHAP, "idle")
      BY <1>3, <2>2, Zenon DEF Raise
    <3>2. s_p4_unresponsive' = s_p4_unresponsive
      BY <2>1, <2>2 DEF LinkInv, TypeOK
    <3>3. AlertsPaired'
      BY <1>0, <2>1, <3>1, <3>2, NothingAnnounced
    <3>4. TypeOK' /\ StoresOne'
      BY <1>0, <1>3, <2>1, <3>1
      DEF Raise, Goto, LinkInv, TypeOK, StoresOne, p4Vars, history, LinkPlaces
    <3>. QED  BY <3>3, <3>4 DEF LinkInv
  <2>3. CASE ~ s_p4_unresponsive
    <3>1. Goto(TaskHAP, "silent")
      BY <1>3, <2>3, Zenon DEF Raise
    <3>2. /\ Cardinality(Announcing("silent"))' = Cardinality(Announcing("silent")) + 1
          /\ Cardinality(Announcing("recovered"))' = Cardinality(Announcing("recovered"))
      BY <1>0, <2>1, <3>1, AnnouncingMoves
    <3>3. AlertsPaired'
      BY <1>0, <2>1, <2>3, <3>2 DEF LinkInv, AlertsPaired
    <3>4. TypeOK' /\ StoresOne'
      BY <1>0, <1>3, <2>1, <3>1
      DEF Raise, Goto, LinkInv, TypeOK, StoresOne, p4Vars, history, LinkPlaces
    <3>. QED  BY <3>3, <3>4 DEF LinkInv
  <2>. QED  BY <2>2, <2>3
<1>4. CASE LinkDead
  BY <1>4 DEF LinkDead, LinkInv, TypeOK, StoresOne, AlertsPaired, Announcing, p4Vars, history
<1>. QED  BY <1>1, <1>2, <1>3, <1>4

(* Every step keeps types, stores and the pairing of alerts.                  *)
LEMMA LinkStep == LinkInv /\ [Next]_vars => LinkInv'
<1>. SUFFICES ASSUME LinkInv, [Next]_vars PROVE LinkInv'
  OBVIOUS
<1>1. CASE UNCHANGED vars
  BY <1>1 DEF vars, s3Vars, p4Vars, history, LinkInv, TypeOK, StoresOne, AlertsPaired, Announcing
<1>. QED  BY <1>1, LinkP4Step, LinkTick, LinkFrame, LinkHbRest, LinkLoop DEF Next

(* What the pairing of alerts rests on, for any set of tasks that handle      *)
(* heartbeats: a handler between compare and store holds a heartbeat, and the *)
(* alerts that are out or owed add up to the flag.                            *)
THEOREM LinkInvariant == Spec => []LinkInv
  BY LinkInit, LinkStep, PTL DEF Spec

(* Types.                                                                     *)
THEOREM LinkTypes == Spec => []TypeOK
<1>1. LinkInv => TypeOK
  BY DEF LinkInv
<1>. QED  BY <1>1, LinkInvariant, PTL

(* However many tasks handle heartbeats while the loop looks for silence, and *)
(* wherever each of them is held up, every edge of the flag is announced, and *)
(* once only: what is out and what is owed add up to the flag.                *)
THEOREM AlertsArePaired == Spec => []AlertsPaired
<1>1. LinkInv => AlertsPaired
  BY DEF LinkInv
<1>. QED  BY <1>1, LinkInvariant, PTL

-----------------------------------------------------------------------------
(* In calm weather the S3 knows the uptime of the P4 it has heard up to one   *)
(* interval, so the first heartbeat after a restart is below what it knows.   *)
Known == IF at[TaskHAP] = "store" THEN hb[TaskHAP].uptime ELSE s_p4_uptime_s
HbQueued == \E f \in p4_queue : f.kind = "hb"

QueueFresh ==
  \A f \in p4_queue :
    p4_up /\ f.boot = p4_boot /\ (f.kind = "hb" => f.uptime = p4_uptime)
BootsInOrder == heard_boot <= p4_boot /\ (s_synced => window >= 1)
OnlyTaskHAP == \A t \in Drivers : t # TaskHAP => at[t] = "idle"
DownAfterCalm == ~ p4_up => p4_uptime >= CalmUptime
HeardThisBoot ==
  heard_boot = p4_boot =>
    Known + 1 >= p4_uptime /\ (p4_up /\ ~ HbQueued => Known >= p4_uptime)
HeardOneBefore ==
  heard_boot < p4_boot =>
    /\ p4_up /\ heard_boot = p4_boot - 1
    /\ p4_uptime = 0 \/ (p4_uptime = 1 /\ HbQueued)
    /\ p4_boot > 1 => Known + 1 >= CalmUptime

FreshInv == QueueFresh /\ BootsInOrder
CalmParts == OnlyTaskHAP /\ DownAfterCalm /\ HeardThisBoot /\ HeardOneBefore /\ NoStaleWindow
CalmInv == calm => CalmParts

(* Initially the queue of the P4 is empty and no boot has been heard.         *)
LEMMA FreshInit == Init => FreshInv /\ CalmInv
<1>. SUFFICES ASSUME Init PROVE FreshInv /\ CalmInv
  OBVIOUS
<1>1. p4_queue = {} /\ p4_up /\ ~ s_synced /\ heard_boot = 0 /\ p4_boot = 1 /\ p4_uptime = 0
  BY DEF Init
<1>2. FreshInv
  BY <1>1 DEF FreshInv, QueueFresh, BootsInOrder
<1>3. OnlyTaskHAP
  BY DEF Init, OnlyTaskHAP
<1>4. HeardThisBoot /\ HeardOneBefore
  BY <1>1 DEF HeardThisBoot, HeardOneBefore
<1>. QED  BY <1>1, <1>2, <1>3, <1>4 DEF CalmInv, CalmParts, DownAfterCalm, NoStaleWindow

(* What TaskHAP knows of the uptime is an uptime.                             *)
LEMMA KnownIsUptime == ASSUME LinkInv PROVE Known \in 0..MaxUptime
<1>1. CASE at[TaskHAP] = "store"
  <2>1. hb[TaskHAP] \in Heartbeats
    BY <1>1, LinkAssumption DEF LinkInv, StoresOne
  <2>. QED  BY <1>1, <2>1 DEF Known, Heartbeats
<1>2. CASE at[TaskHAP] # "store"
  BY <1>2 DEF Known, LinkInv, TypeOK
<1>. QED  BY <1>1, <1>2

(* The steps of the tasks that touch neither the P4 nor what is heard of it.  *)
P4Same ==
  /\ p4_up' = p4_up /\ p4_boot' = p4_boot /\ p4_uptime' = p4_uptime /\ p4_queue' = p4_queue
  /\ heard_boot' = heard_boot /\ window' = window /\ (s_synced' => s_synced)

(* The steps of the S3 itself leave the P4 and what it has queued alone.      *)
LEMMA P4Unmoved ==
  ASSUME (\E t \in Drivers : HbRest(t)) \/ LoopSync \/ LoopSilence \/ Raise \/ LinkDead
           \/ UNCHANGED vars
  PROVE  P4Same
<1>1. ASSUME NEW t \in Drivers, HbStore(t)
      PROVE  P4Same
  BY <1>1 DEF HbStore, p4Vars, P4Same
<1>2. ASSUME NEW t \in Drivers, HbEdge(t)
      PROVE  P4Same
  BY <1>2 DEF HbEdge, p4Vars, history, P4Same
<1>7. ASSUME NEW t \in Drivers, Announce(t)
      PROVE  P4Same
  BY <1>7 DEF Announce, s3Vars, p4Vars, P4Same
<1>3. CASE LoopSync
  BY <1>3 DEF LoopSync, s3Vars, p4Vars, history, P4Same
<1>4. CASE LoopSilence
  BY <1>4 DEF LoopSilence, s3Vars, p4Vars, history, P4Same
<1>8. CASE Raise
  BY <1>8 DEF Raise, p4Vars, history, P4Same
<1>5. CASE LinkDead
  BY <1>5 DEF LinkDead, p4Vars, history, P4Same
<1>6. CASE UNCHANGED vars
  BY <1>6 DEF vars, s3Vars, p4Vars, history, P4Same
<1>. QED  BY <1>1, <1>2, <1>3, <1>4, <1>5, <1>6, <1>7, <1>8 DEF HbRest

(* What the P4 has queued is of its present boot, and so is what is heard.    *)
LEMMA FreshStep == LinkInv /\ FreshInv /\ [Next]_vars => FreshInv'
<1>. SUFFICES ASSUME LinkInv, FreshInv, [Next]_vars PROVE FreshInv'
  OBVIOUS
<1>. USE DEF FreshInv, QueueFresh, BootsInOrder, P4Same
<1>0. heard_boot \in Nat /\ p4_boot \in Nat /\ p4_boot >= 1 /\ window \in Nat
  BY LinkAssumption DEF LinkInv, TypeOK, Boots
<1>1. CASE P4Answers
  BY <1>1 DEF P4Answers, s3Vars, p4Vars, history
<1>2. CASE P4Stops
  BY <1>2 DEF P4Stops, s3Vars, history
<1>3. CASE P4Boots
  BY <1>3, <1>0 DEF P4Boots, s3Vars, history
<1>4. CASE LoseFrame
  BY <1>4 DEF LoseFrame, Lose, s3Vars, p4Vars, history
<1>5. CASE Tick
  <2>1. \A f \in p4_queue : f.kind # "hb"
    BY <1>5 DEF Tick, LinkInv, TypeOK, Heartbeats, Acks
  <2>2. \A f \in p4_queue' : f \in p4_queue \/ (p4_up /\ f.boot = p4_boot /\ f.uptime = p4_uptime')
    BY <1>5 DEF Tick
  <2>. QED  BY <1>5, <2>1, <2>2 DEF Tick
<1>6. ASSUME NEW t \in Drivers, Frame(t)
      PROVE  FreshInv'
  <2>1. ASSUME NEW f \in p4_queue, OnSync(t, f)
        PROVE  FreshInv'
    BY <1>0, <2>1 DEF OnSync, p4Vars, history
  <2>2. ASSUME NEW f \in p4_queue, NEW decoded \in {TRUE, calm}, HbCheck(t, f, decoded)
        PROVE  FreshInv'
    <3>1. s_synced' => s_synced
      BY <2>2, Zenon DEF HbCheck
    <3>. QED  BY <1>0, <2>2, <3>1 DEF HbCheck, p4Vars
  <2>. QED  BY <1>6, <2>1, <2>2 DEF Frame
<1>7. ASSUME NEW t \in Drivers, HbRest(t)
      PROVE  FreshInv'
  BY <1>7, P4Unmoved
<1>8. CASE LoopSync \/ LoopSilence \/ Raise \/ LinkDead
  BY <1>8, P4Unmoved
<1>9. CASE UNCHANGED vars
  BY <1>9 DEF vars, s3Vars, p4Vars, history
<1>. QED  BY <1>1, <1>2, <1>3, <1>4, <1>5, <1>6, <1>7, <1>8, <1>9 DEF Next, P4Step

(* The steps of the P4 and of time, in calm weather.                          *)
LEMMA CalmP4 ==
  ASSUME LinkInv, FreshInv, CalmParts, calm, CalmUptime >= 3, P4Step \/ LoseFrame \/ Tick
  PROVE  CalmParts'
<1>0. /\ Known \in Nat /\ p4_uptime \in Nat
      /\ p4_uptime <= MaxUptime /\ MaxUptime \in Nat /\ MaxUptime >= 1
      /\ p4_boot \in Nat /\ heard_boot \in Nat /\ CalmUptime \in Nat /\ heard_boot <= p4_boot
  BY KnownIsUptime, LinkAssumption DEF LinkInv, TypeOK, Boots, FreshInv, BootsInOrder
<1>1. Known' = Known /\ OnlyTaskHAP' /\ NoStaleWindow' /\ heard_boot' = heard_boot
  <2>1. UNCHANGED <<s_synced, s_p4_uptime_s, window, at, hb, heard_boot>>
    <3>1. CASE P4Answers
      BY <3>1 DEF P4Answers, s3Vars, history
    <3>2. CASE P4Stops
      BY <3>2 DEF P4Stops, s3Vars, history
    <3>3. CASE P4Boots
      BY <3>3 DEF P4Boots, s3Vars, history
    <3>4. CASE LoseFrame
      BY <3>4 DEF LoseFrame, s3Vars, history
    <3>5. CASE Tick
      BY <3>5 DEF Tick
    <3>. QED  BY <3>1, <3>2, <3>3, <3>4, <3>5 DEF P4Step
  <2>. QED  BY <2>1 DEF Known, OnlyTaskHAP, NoStaleWindow, CalmParts
<1>2. CASE P4Answers
  <2>1. HbQueued' <=> HbQueued
    BY <1>2 DEF P4Answers, HbQueued
  <2>. QED  BY <1>1, <1>2, <2>1 DEF P4Answers, p4Vars, CalmParts, DownAfterCalm, HeardThisBoot,
           HeardOneBefore
<1>3. CASE P4Stops
  <2>1. p4_uptime >= CalmUptime /\ heard_boot = p4_boot /\ Known + 1 >= p4_uptime
    BY <1>0, <1>3 DEF P4Stops, CalmParts, HeardThisBoot, HeardOneBefore
  <2>. QED  BY <1>0, <1>1, <1>3, <2>1
       DEF P4Stops, CalmParts, DownAfterCalm, HeardThisBoot,
           HeardOneBefore
<1>4. CASE P4Boots
  <2>1. p4_uptime >= CalmUptime /\ heard_boot = p4_boot /\ Known + 1 >= CalmUptime
    BY <1>0, <1>4 DEF P4Boots, CalmParts, DownAfterCalm, HeardThisBoot,
           HeardOneBefore
  <2>. QED  BY <1>0, <1>1, <1>4, <2>1
       DEF P4Boots, CalmParts, DownAfterCalm, HeardThisBoot,
           HeardOneBefore
<1>5. CASE LoseFrame
  <2>1. HbQueued' <=> HbQueued
    BY <1>5 DEF LoseFrame, Lose, HbQueued
  <2>. QED  BY <1>1, <1>5, <2>1 DEF LoseFrame, p4Vars, CalmParts, DownAfterCalm, HeardThisBoot,
           HeardOneBefore
<1>6. CASE Tick
  <2>1. ~ HbQueued
    BY <1>6 DEF Tick, HbQueued, LinkInv, TypeOK, Heartbeats, Acks
  <2>2. p4_up' = p4_up /\ p4_boot' = p4_boot
    BY <1>6 DEF Tick
  <2>3. CASE p4_up
    <3>1. p4_uptime' \in Nat /\ p4_uptime' <= p4_uptime + 1 /\ p4_uptime' >= p4_uptime
          /\ (p4_uptime = 0 => p4_uptime' = 1)
      BY <1>0, <1>6, <2>3 DEF Tick
    <3>2. HbQueued'
      <4>1. [kind |-> "hb", boot |-> p4_boot, uptime |-> p4_uptime'] \in p4_queue'
        BY <1>6, <2>3 DEF Tick
      <4>. QED  BY <4>1 DEF HbQueued
    <3>3. p4_up'
      BY <2>2, <2>3
    <3>4. heard_boot = p4_boot => Known >= p4_uptime
      BY <2>1, <2>3 DEF CalmParts, HeardThisBoot
    <3>5. heard_boot < p4_boot =>
            heard_boot = p4_boot - 1 /\ p4_uptime = 0 /\ (p4_boot > 1 => Known + 1 >= CalmUptime)
      BY <2>1 DEF CalmParts, HeardOneBefore
    <3>6. HeardThisBoot'
      <4>1. heard_boot = p4_boot => Known' + 1 >= p4_uptime'
        BY <1>0, <1>1, <3>1, <3>4
      <4>. QED  BY <1>1, <2>2, <3>2, <4>1 DEF HeardThisBoot
    <3>7. HeardOneBefore'
      BY <1>0, <1>1, <2>2, <3>1, <3>2, <3>3, <3>5 DEF HeardOneBefore
    <3>. QED  BY <1>1, <3>3, <3>6, <3>7 DEF CalmParts, DownAfterCalm
  <2>4. CASE ~ p4_up
    <3>1. p4_uptime' = p4_uptime
      BY <1>6, <2>4 DEF Tick
    <3>. QED  BY <1>0, <1>1, <2>1, <2>2, <2>4, <3>1
         DEF CalmParts, DownAfterCalm, HeardThisBoot,
           HeardOneBefore
  <2>. QED  BY <2>3, <2>4
<1>. QED  BY <1>2, <1>3, <1>4, <1>5, <1>6 DEF P4Step

(* A frame is handled: a heartbeat of a later boot than the handshake is seen *)
(* for what it is.                                                            *)
LEMMA CalmFrame ==
  ASSUME LinkInv, FreshInv, CalmParts, calm, CalmUptime >= 3, NEW t \in Drivers, Frame(t)
  PROVE  CalmParts'
<1>0. /\ Known \in Nat /\ p4_uptime \in Nat /\ p4_boot \in Nat /\ heard_boot \in Nat /\ window \in Nat
      /\ p4_boot >= 1 /\ CalmUptime \in Nat /\ heard_boot <= p4_boot
  BY KnownIsUptime, LinkAssumption DEF LinkInv, TypeOK, Boots, FreshInv, BootsInOrder
<1>1. ASSUME NEW f \in p4_queue, OnSync(t, f)
      PROVE  CalmParts'
  <2>1. window' = p4_boot
    BY <1>1 DEF OnSync, FreshInv, QueueFresh
  <2>2. HbQueued' <=> HbQueued
    BY <1>1 DEF OnSync, HbQueued
  <2>3. Known' = Known
    BY <1>1 DEF OnSync, Known
  <2>. QED  BY <1>0, <1>1, <2>1, <2>2, <2>3
       DEF OnSync, p4Vars, history, CalmParts, OnlyTaskHAP, DownAfterCalm, HeardThisBoot, HeardOneBefore,
           NoStaleWindow
<1>2. ASSUME NEW f \in p4_queue, NEW decoded \in {TRUE, calm}, HbCheck(t, f, decoded)
      PROVE  CalmParts'
  <2>1. t = TaskHAP /\ at[TaskHAP] = "idle" /\ decoded
    BY <1>2 DEF HbCheck, Exchanges
  <2>2. f.boot = p4_boot /\ f.uptime = p4_uptime /\ p4_up
    BY <1>2 DEF HbCheck, FreshInv, QueueFresh
  <2>3. Known = s_p4_uptime_s
    BY <2>1 DEF Known
  <2>4. Known' = p4_uptime
    BY <1>2, <2>1, <2>2, LinkAssumption DEF HbCheck, Goto, Known, LinkInv, TypeOK
  <2>5. heard_boot' = p4_boot /\ p4_boot' = p4_boot /\ p4_uptime' = p4_uptime /\ p4_up' = p4_up
        /\ window' = window
    BY <1>2, <2>2 DEF HbCheck, p4Vars
  <2>6. OnlyTaskHAP'
    BY <1>2, <2>1 DEF HbCheck, Goto, CalmParts, OnlyTaskHAP, LinkInv, TypeOK
  <2>7. s_synced' => s_synced /\ ~ (s_p4_uptime_s # 0 /\ f.uptime < s_p4_uptime_s)
    BY <1>2, <2>1, Zenon DEF HbCheck
  <2>8. NoStaleWindow'
    <3>1. CASE heard_boot = p4_boot
      BY <2>5, <2>7, <3>1 DEF CalmParts, NoStaleWindow
    <3>2. CASE heard_boot < p4_boot /\ p4_boot = 1
      BY <1>0, <2>5, <2>7, <3>2 DEF FreshInv, BootsInOrder, NoStaleWindow
    <3>3. CASE heard_boot < p4_boot /\ p4_boot > 1
      <4>1. p4_uptime <= 1 /\ s_p4_uptime_s >= 2
        BY <1>0, <2>3, <3>3 DEF CalmParts, HeardOneBefore
      <4>2. ~ s_synced'
        BY <1>0, <2>2, <2>3, <2>7, <4>1
      <4>. QED  BY <4>2 DEF NoStaleWindow
    <3>. QED  BY <1>0, <3>1, <3>2, <3>3
  <2>. QED  BY <1>0, <2>2, <2>4, <2>5, <2>6, <2>8
       DEF CalmParts, DownAfterCalm, HeardThisBoot,
           HeardOneBefore
<1>. QED  BY <1>1, <1>2 DEF Frame

LEMMA CalmTask ==
  ASSUME LinkInv, CalmParts, calm,
         (\E t \in Drivers : HbRest(t)) \/ LoopSync \/ LoopSilence \/ Raise \/ LinkDead
           \/ UNCHANGED vars
  PROVE  CalmParts'
<1>1. P4Same
  BY P4Unmoved
<1>2. Known' = Known /\ OnlyTaskHAP'
  <2>1. ASSUME NEW t \in Drivers, HbStore(t)
        PROVE  Known' = Known /\ OnlyTaskHAP'
    <3>1. t = TaskHAP
      BY <2>1 DEF HbStore, CalmParts, OnlyTaskHAP
    <3>. QED  BY <2>1, <3>1 DEF HbStore, Goto, Known, CalmParts, OnlyTaskHAP, LinkInv, TypeOK
  <2>2. ASSUME NEW t \in Drivers, HbEdge(t)
        PROVE  Known' = Known /\ OnlyTaskHAP'
    <3>1. t = TaskHAP
      BY <2>2 DEF HbEdge, CalmParts, OnlyTaskHAP
    <3>. QED  BY <2>2, <3>1 DEF HbEdge, Goto, Known, CalmParts, OnlyTaskHAP, LinkInv, TypeOK
  <2>5. ASSUME NEW t \in Drivers, Announce(t)
        PROVE  Known' = Known /\ OnlyTaskHAP'
    <3>1. t = TaskHAP
      BY <2>5 DEF Announce, CalmParts, OnlyTaskHAP
    <3>. QED  BY <2>5, <3>1 DEF Announce, s3Vars, Goto, Known, CalmParts, OnlyTaskHAP, LinkInv, TypeOK
  <2>3. CASE LoopSync \/ LoopSilence \/ Raise
    BY <2>3, LinkAssumption
    DEF LoopSync, LoopSilence, Raise, Goto, s3Vars, Known, CalmParts, OnlyTaskHAP, LinkInv, TypeOK
  <2>4. CASE LinkDead \/ UNCHANGED vars
    BY <2>4 DEF LinkDead, vars, s3Vars, Known, CalmParts, OnlyTaskHAP
  <2>. QED  BY <2>1, <2>2, <2>3, <2>4, <2>5 DEF HbRest
<1>. QED  BY <1>1, <1>2
     DEF P4Same, CalmParts, DownAfterCalm, HeardThisBoot, HeardOneBefore, HbQueued, NoStaleWindow

(* In calm weather every step keeps the five facts of CalmParts together.     *)
LEMMA CalmStep ==
  ASSUME CalmUptime >= 3
  PROVE  LinkInv /\ FreshInv /\ CalmInv /\ [Next]_vars => CalmInv'
<1>. SUFFICES ASSUME LinkInv, FreshInv, CalmInv, [Next]_vars, calm' PROVE CalmParts'
  BY DEF CalmInv, CalmParts
<1>1. calm
  BY DEF Next, P4Step, P4Answers, P4Stops, P4Boots, LoseFrame, Tick, Frame, OnSync, HbCheck, HbRest,
         HbStore, HbEdge, Announce, LoopSync, LoopSilence, Raise, LinkDead, vars, p4Vars
<1>2. CalmParts
  BY <1>1 DEF CalmInv, CalmParts
<1>. QED  BY <1>1, <1>2, CalmP4, CalmFrame, CalmTask DEF Next

(* What the detection of restarts rests on: only TaskHAP handles heartbeats,  *)
(* a P4 has run long enough before it goes down, and of the present boot, and *)
(* before it of the previous one, a heartbeat was heard that is smaller, or   *)
(* larger, than the next.                                                     *)
THEOREM CalmInvariant ==
  ASSUME CalmUptime >= 3
  PROVE  Spec => [](FreshInv /\ CalmInv)
<1>1. LinkInv /\ FreshInv /\ CalmInv /\ [Next]_vars => (FreshInv /\ CalmInv)'
  BY FreshStep, CalmStep
<1>. QED  BY <1>1, FreshInit, LinkInvariant, PTL DEF Spec

(* A P4 that runs for three heartbeat intervals before it restarts is seen to *)
(* restart by its first heartbeat, whatever is queued, lost or half handled.  *)
(* Two are not enough.                                                        *)
THEOREM RestartIsNoticed ==
  ASSUME CalmUptime >= 3
  PROVE  Spec => []RestartNoticed
<1>1. FreshInv /\ CalmInv => RestartNoticed
  BY DEF CalmInv, CalmParts, RestartNoticed
<1>. QED  BY <1>1, CalmInvariant, PTL

-------

-----------------------------------------------------------------------------
(***************************************************************************)
(* HapBulk.                                                                *)
(***************************************************************************)
(* What holds of the coalescer holds while one task at a time is inside: the  *)
(* invariant speaks of the task d whose turn it is, and the turn passes from  *)
(* task to task, as long as nobody comes in while d is inside (~ met).        *)
OthersIdle(d) == \A u \in BulkDrivers \ {d} : bulkAt[u] = "idle"

(* The steps of the task whose turn it is; the window is TaskHAP's.           *)
Window(d) == d = Flusher /\ Timer
StepOf(d) == Receive(d) \/ Step(d) \/ Window(d)

(* The first n cells of the buffer are an array that is not closed yet.       *)
OpenArray(b, n) ==
  /\ n > 0 => b[1] = Open
  /\ \A i \in 1..n : b[i] # Close
  /\ \A i \in 1..n : b[i] \in {Open, Comma} =>
       \E p \in Payloads :
         /\ i + Size[p] <= n /\ \A k \in 1..Size[p] : b[i + k] = Text(p)[k]
         /\ i + Size[p] < n => b[i + Size[p] + 1] = Comma

BulkTypes ==
  /\ s_bulk_buf \in [1..Cap -> Cells]
  /\ s_bulk_len \in 0..Cap /\ s_bulk_count \in Nat
  /\ bulkAt \in [BulkDrivers -> Places]
  /\ payload \in [BulkDrivers -> Payloads \cup {0}]
  /\ after \in [BulkDrivers -> {"idle", "retry", "alone"}]
  /\ received \in Payloads \cup {0}

Resting == {"idle", "append", "retry", "separator", "count", "flush", "close", "alone"}
Flushing == {"flush", "close", "emit", "reset_len", "reset_count"}

(* The buffer holds an open array whenever nothing is being written, with room*)
(* for its end, and the cells that are being written come right behind it.    *)
BufferIsOpen(d) ==
  LET here == bulkAt[d]
      p == payload[d]
  IN  /\ here \in Resting =>
           /\ OpenArray(s_bulk_buf, s_bulk_len)
           /\ s_bulk_len > 0 => s_bulk_len + 1 <= Cap
      /\ here \in {"copy", "grow"} =>
           /\ s_bulk_len > 0 /\ OpenArray(s_bulk_buf, s_bulk_len - 1)
           /\ s_bulk_buf[s_bulk_len] = IF s_bulk_len = 1 THEN Open ELSE Comma
      /\ here = "grow" => \A k \in 1..Size[p] : s_bulk_buf[s_bulk_len + k] = Text(p)[k]
      /\ here = "emit" =>
           /\ s_bulk_len > 1 /\ OpenArray(s_bulk_buf, s_bulk_len - 1)
           /\ s_bulk_buf[s_bulk_len] = Close

(* The count says whether there is something in the buffer.                   *)
CountIsRight(d) ==
  LET here == bulkAt[d] IN
  /\ here \in Resting \ {"count"} => (s_bulk_count = 0 <=> s_bulk_len = 0)
  /\ here \in {"copy", "grow"} => (s_bulk_count = 0 <=> s_bulk_len = 1)
  /\ here = "count" => s_bulk_len > 0
  /\ here = "close" => s_bulk_count > 0
  /\ here \in {"retry", "alone", "reset_count"} => s_bulk_len = 0

(* The update in hand is the last one received; one that is appended fits an  *)
(* empty buffer, and the room for it was checked before anything is written.  *)
UpdateInHand(d) ==
  LET here == bulkAt[d]
      p == payload[d]
  IN  /\ InHand(d) => p \in Payloads /\ p = received
      /\ \/ here \in {"append", "retry", "separator", "copy", "grow"}
         \/ here \in Flushing /\ after[d] = "retry"
         => Size[p] + 2 <= Cap
      /\ here = "separator" => s_bulk_len + 1 + Size[p] + 1 <= Cap
      /\ here \in {"copy", "grow"} => s_bulk_len + Size[p] + 1 <= Cap

(* What was sent: texts, and every array is one; nothing was given up.        *)
SentIsRight ==
  /\ out \in Seq([array : BOOLEAN, text : Seq(Cells)])
  /\ NoBrokenArray
  /\ dropped = {}

BulkInv(d) == BulkTypes /\ BufferIsOpen(d) /\ CountIsRight(d) /\ UpdateInHand(d) /\ SentIsRight

(* It is d's turn.                                                            *)
Turn(d) == OthersIdle(d) /\ BulkInv(d)
InTurns == ~ met => \E d \in BulkDrivers : Turn(d)

-----------------------------------------------------------------------------
(* The lengths of the updates.                                                *)
LEMMA SizesArePositive == \A p \in Payloads : Size[p] \in Nat /\ Size[p] > 0 /\ p \in Nat /\ p > 0
  BY BulkAssumption DEF Payloads

(* The cells of an update are no separators; the last of them is its item.    *)
LEMMA TextCells ==
  ASSUME NEW p \in Payloads
  PROVE  /\ Text(p) \in Seq(Cells) /\ Len(Text(p)) = Size[p]
         /\ \A k \in 1..Size[p] :
              /\ Text(p)[k] \in Cells /\ Text(p)[k] \notin {Open, Comma, Close}
              /\ Text(p)[k][1] = "item" <=> k = Size[p]
         /\ Text(p)[Size[p]][2] = p
<1>1. Size[p] \in Nat /\ Size[p] > 0
  BY SizesArePositive
<1>2. \A k \in 1..Size[p] : Text(p)[k] = <<IF k = Size[p] THEN "item" ELSE "part", p>>
  BY DEF Text
<1>3. \A k \in 1..Size[p] : Text(p)[k] \in Cells
  BY <1>2 DEF Cells
<1>4. Text(p) \in [1..Size[p] -> Cells]
  BY <1>3 DEF Text
<1>5. Text(p) \in Seq(Cells) /\ Len(Text(p)) = Size[p]
  BY <1>1, <1>4
<1>6. ASSUME NEW k \in 1..Size[p]
      PROVE  /\ Text(p)[k] \notin {Open, Comma, Close}
             /\ Text(p)[k][1] = "item" <=> k = Size[p]
  <2>1. CASE k = Size[p]
    <3>1. Text(p)[k] = <<"item", p>>
      BY <1>2, <2>1
    <3>. QED  BY <2>1, <3>1 DEF Open, Comma, Close
  <2>2. CASE k # Size[p]
    <3>1. Text(p)[k] = <<"part", p>>
      BY <1>2, <2>2
    <3>. QED  BY <2>2, <3>1 DEF Open, Comma, Close
  <2>. QED  BY <2>1, <2>2
<1>7. Text(p)[Size[p]] = <<"item", p>>
  BY <1>1, <1>2
<1>8. Text(p)[Size[p]][2] = p
  BY <1>7
<1>. QED  BY <1>3, <1>5, <1>6, <1>8

(* The separators are cells, all different, and no items.                     *)
LEMMA Separators ==
  /\ Open \in Cells /\ Comma \in Cells /\ Close \in Cells
  /\ Open # Comma /\ Open # Close /\ Comma # Close
  /\ Open[1] # "item" /\ Comma[1] # "item" /\ Close[1] # "item"
  BY DEF Open, Comma, Close, Cells

(* What has been written so far, as a text.                                   *)
LEMMA WrittenText ==
  ASSUME NEW b \in [1..Cap -> Cells], NEW n \in 0..Cap
  PROVE  /\ SubSeq(b, 1, n) \in Seq(Cells) /\ Len(SubSeq(b, 1, n)) = n
         /\ DOMAIN SubSeq(b, 1, n) = 1..n
         /\ \A i \in 1..n : SubSeq(b, 1, n)[i] = b[i]
<1>1. Cap \in Nat
  BY BulkAssumption
<1>2. \A i \in 1..n : b[i] \in Cells
  BY <1>1
<1>. DEFINE s == SubSeq(b, 1, n)
<1>3. /\ s \in Seq(Cells) /\ Len(s) = IF 1 <= n THEN n - 1 + 1 ELSE 0
      /\ \A i \in 1..(n - 1 + 1) : s[i] = b[1 + i - 1]
  BY <1>1, <1>2, SubSeqProperties
<1>. HIDE DEF s
<1>4. s \in Seq(Cells) /\ Len(s) = n /\ \A i \in 1..n : s[i] = b[i]
  BY <1>1, <1>3
<1>5. DOMAIN s = 1..n
  BY <1>4
<1>. QED  BY <1>4, <1>5 DEF s

(* An open array depends on its own cells only.                               *)
LEMMA OpenStays ==
  ASSUME NEW b, NEW c, NEW n \in Nat, OpenArray(b, n), \A i \in 1..n : c[i] = b[i]
  PROVE  OpenArray(c, n)
<1>1. ASSUME NEW i \in 1..n, c[i] \in {Open, Comma}
      PROVE  \E p \in Payloads :
               /\ i + Size[p] <= n /\ \A k \in 1..Size[p] : c[i + k] = Text(p)[k]
               /\ i + Size[p] < n => c[i + Size[p] + 1] = Comma
  <2>1. PICK p \in Payloads :
          /\ i + Size[p] <= n /\ \A k \in 1..Size[p] : b[i + k] = Text(p)[k]
          /\ i + Size[p] < n => b[i + Size[p] + 1] = Comma
    BY <1>1 DEF OpenArray
  <2>2. Size[p] \in Nat
    BY SizesArePositive
  <2>3. \A k \in 1..Size[p] : i + k \in 1..n
    BY <2>1, <2>2
  <2>4. i + Size[p] < n => i + Size[p] + 1 \in 1..n
    BY <2>2
  <2>. QED  BY <2>1, <2>3, <2>4
<1>2. n > 0 => c[1] = Open
  BY DEF OpenArray
<1>3. \A i \in 1..n : c[i] # Close
  BY DEF OpenArray
<1>. QED  BY <1>1, <1>2, <1>3 DEF OpenArray

(* A separator and an update behind an open array make a longer one.          *)
LEMMA OpenGrows ==
  ASSUME NEW b, NEW n \in Nat, OpenArray(b, n), NEW p \in Payloads,
         b[n + 1] = IF n = 0 THEN Open ELSE Comma,
         \A k \in 1..Size[p] : b[n + 1 + k] = Text(p)[k]
  PROVE  OpenArray(b, n + 1 + Size[p])
<1>. DEFINE m == n + 1 + Size[p]
<1>0. Size[p] \in Nat /\ Size[p] > 0
  BY SizesArePositive
<1>1. \A i \in 1..m : i \in 1..n \/ i = n + 1 \/ \E k \in 1..Size[p] : i = n + 1 + k
  <2>. SUFFICES ASSUME NEW i \in 1..m, i > n + 1 PROVE \E k \in 1..Size[p] : i = n + 1 + k
    BY <1>0
  <2>1. i - n - 1 \in 1..Size[p] /\ i = n + 1 + (i - n - 1)
    BY <1>0
  <2>. QED  BY <2>1
<1>2. \A k \in 1..Size[p] : b[n + 1 + k] \notin {Open, Comma, Close}
  BY TextCells
<1>3. m > 0 => b[1] = Open
  BY DEF OpenArray
<1>4. \A i \in 1..m : b[i] # Close
  BY <1>1, <1>2, Separators DEF OpenArray
<1>5. ASSUME NEW i \in 1..m, b[i] \in {Open, Comma}
      PROVE  \E q \in Payloads :
               /\ i + Size[q] <= m /\ \A k \in 1..Size[q] : b[i + k] = Text(q)[k]
               /\ i + Size[q] < m => b[i + Size[q] + 1] = Comma
  <2>1. CASE i \in 1..n
    <3>1. PICK q \in Payloads :
            /\ i + Size[q] <= n /\ \A k \in 1..Size[q] : b[i + k] = Text(q)[k]
            /\ i + Size[q] < n => b[i + Size[q] + 1] = Comma
      BY <1>5, <2>1 DEF OpenArray
    <3>2. Size[q] \in Nat
      BY SizesArePositive
    <3>3. i + Size[q] = n => b[i + Size[q] + 1] = Comma
      BY <2>1
    <3>4. i + Size[q] <= m /\ (i + Size[q] < n \/ i + Size[q] = n)
      BY <1>0, <2>1, <3>1, <3>2
    <3>. QED  BY <3>1, <3>3, <3>4
  <2>2. CASE i = n + 1
    <3>1. i + Size[p] = m /\ \A k \in 1..Size[p] : b[i + k] = Text(p)[k]
      BY <2>2
    <3>. QED  BY <1>0, <3>1
  <2>3. CASE \E k \in 1..Size[p] : i = n + 1 + k
    BY <1>2, <1>5, <2>3
  <2>. QED  BY <1>1, <2>1, <2>2, <2>3
<1>. QED  BY <1>3, <1>4, <1>5 DEF OpenArray

(* An open array with its end is an array.                                    *)
LEMMA ClosedIsArray ==
  ASSUME NEW b \in [1..Cap -> Cells], NEW n \in 1..Cap, n > 1,
         OpenArray(b, n - 1), b[n] = Close
  PROVE  IsArray(SubSeq(b, 1, n))
<1>. DEFINE s == SubSeq(b, 1, n)
<1>0. Cap \in Nat
  BY BulkAssumption
<1>1. s \in Seq(Cells) /\ Len(s) = n /\ DOMAIN s = 1..n /\ \A i \in 1..n : s[i] = b[i]
  BY <1>0, WrittenText
<1>. HIDE DEF s
<1>2. s # <<>> /\ s[1] = Open
  BY <1>0, <1>1 DEF OpenArray
<1>3. ASSUME NEW i \in 1..n, s[i] = Close PROVE i = n
  <2>1. i \in 1..(n - 1) => b[i] # Close
    BY DEF OpenArray
  <2>. QED  BY <1>0, <1>1, <1>3, <2>1
<1>4. ASSUME NEW i \in 1..n, s[i] \in {Open, Comma}
      PROVE  \E p \in Payloads : /\ Follows(s, i, p) /\ i + Size[p] < n
                                 /\ s[i + Size[p] + 1] \in {Comma, Close}
  <2>1. i \in 1..(n - 1) /\ b[i] \in {Open, Comma}
    BY <1>0, <1>1, <1>4, Separators
  <2>2. PICK p \in Payloads :
          /\ i + Size[p] <= n - 1 /\ \A k \in 1..Size[p] : b[i + k] = Text(p)[k]
          /\ i + Size[p] < n - 1 => b[i + Size[p] + 1] = Comma
    BY <2>1 DEF OpenArray
  <2>3. Size[p] \in Nat /\ Size[p] > 0
    BY SizesArePositive
  <2>4. \A k \in 1..Size[p] : i + k \in 1..n
    BY <1>0, <2>1, <2>2, <2>3
  <2>5. i + Size[p] + 1 \in 1..n /\ i + Size[p] < n
    BY <1>0, <2>1, <2>2, <2>3
  <2>6. Follows(s, i, p)
    <3>1. i + Size[p] <= Len(s)
      BY <1>0, <1>1, <2>1, <2>3, <2>5
    <3>2. \A k \in 1..Size[p] : s[i + k] = Text(p)[k]
      BY <1>1, <2>2, <2>4
    <3>. QED  BY <3>1, <3>2 DEF Follows
  <2>7. i + Size[p] < n - 1 \/ i + Size[p] + 1 = n
    BY <1>0, <2>1, <2>2, <2>3
  <2>8. s[i + Size[p] + 1] \in {Comma, Close}
    BY <1>1, <2>2, <2>5, <2>7
  <2>. QED  BY <2>5, <2>6, <2>8
<1>5. IsArray(s)
  BY <1>1, <1>2, <1>3, <1>4 DEF IsArray
<1>. QED  BY <1>5 DEF s

(* What Write does to the cells.                                              *)
LEMMA WriteCells ==
  ASSUME s_bulk_buf \in [1..Cap -> Cells], s_bulk_len \in 0..Cap,
         NEW text \in Seq(Cells), s_bulk_len + Len(text) <= Cap, Write(text)
  PROVE  /\ s_bulk_buf' \in [1..Cap -> Cells]
         /\ \A i \in 1..s_bulk_len : s_bulk_buf'[i] = s_bulk_buf[i]
         /\ \A k \in 1..Len(text) : s_bulk_buf'[s_bulk_len + k] = text[k]
<1>0. Cap \in Nat /\ s_bulk_len \in Nat /\ Len(text) \in Nat /\ DOMAIN text = 1..Len(text)
  BY BulkAssumption
<1>1. s_bulk_buf' = [i \in 1..Cap |->
        IF i - s_bulk_len \in 1..Len(text) THEN text[i - s_bulk_len] ELSE s_bulk_buf[i]]
  BY <1>0 DEF Write
<1>2. \A i \in 1..Cap : i - s_bulk_len \in 1..Len(text) => text[i - s_bulk_len] \in Cells
  OBVIOUS
<1>3. s_bulk_buf' \in [1..Cap -> Cells]
  BY <1>1, <1>2
<1>4. ASSUME NEW i \in 1..s_bulk_len PROVE s_bulk_buf'[i] = s_bulk_buf[i]
  <2>1. i \in 1..Cap /\ ~ (i - s_bulk_len \in 1..Len(text))
    BY <1>0
  <2>. QED  BY <1>1, <2>1
<1>5. ASSUME NEW k \in 1..Len(text) PROVE s_bulk_buf'[s_bulk_len + k] = text[k]
  <2>1. s_bulk_len + k \in 1..Cap /\ (s_bulk_len + k) - s_bulk_len = k
    BY <1>0
  <2>. QED  BY <1>1, <2>1
<1>. QED  BY <1>3, <1>4, <1>5

-----------------------------------------------------------------------------
(* Initially the buffer is empty and nothing has arrived.                     *)
LEMMA BulkStarts ==
  ASSUME NEW d \in BulkDrivers, BulkInit
  PROVE  Turn(d)
<1>. USE BulkAssumption DEF BulkInit
<1>1. BulkTypes
  BY Separators DEF BulkTypes, Places
<1>2. bulkAt[d] = "idle" /\ s_bulk_len = 0 /\ s_bulk_count = 0
  OBVIOUS
<1>3. OpenArray(s_bulk_buf, s_bulk_len)
  BY <1>2 DEF OpenArray
<1>4. BufferIsOpen(d)
  BY <1>2, <1>3 DEF BufferIsOpen
<1>5. CountIsRight(d)
  BY <1>2 DEF CountIsRight
<1>6. UpdateInHand(d)
  BY <1>2 DEF UpdateInHand, InHand, Flushing
<1>7. SentIsRight
  BY DEF SentIsRight, NoBrokenArray
<1>8. OthersIdle(d)
  BY DEF OthersIdle
<1>. QED  BY <1>1, <1>4, <1>5, <1>6, <1>7, <1>8 DEF BulkInv, Turn

(* Where the driver goes.                                                     *)
LEMMA Placed ==
  ASSUME BulkTypes, NEW d \in BulkDrivers, NEW x \in Places, Place(d, x)
  PROVE  bulkAt' \in [BulkDrivers -> Places] /\ bulkAt'[d] = x
  BY DEF BulkTypes, Place

(* The steps that leave the buffer, its length and its count alone and send   *)
(* nothing.                                                                   *)
LEMMA BulkKeepsBuffer ==
  ASSUME NEW d \in BulkDrivers, BulkInv(d), Receive(d) \/ TryAppend(d) \/ Retry(d) \/ Flush(d) \/ Window(d)
  PROVE  BulkInv(d)'
<1>. DEFINE here == bulkAt[d]
<1>0. /\ BulkTypes /\ BufferIsOpen(d) /\ CountIsRight(d) /\ UpdateInHand(d) /\ SentIsRight
      /\ d \in BulkDrivers /\ Cap \in Nat /\ s_bulk_len \in Nat
  BY BulkAssumption DEF BulkInv, BulkTypes
<1>1. /\ UNCHANGED <<bufVars, out>>
      /\ here \in {"idle", "append", "retry", "flush"}
  BY DEF Receive, TryAppend, Retry, Flush, Window, Timer, bulkHistory
<1>2. /\ bulkAt' \in [BulkDrivers -> Places]
      /\ payload' \in [BulkDrivers -> Payloads \cup {0}]
      /\ after' \in [BulkDrivers -> {"idle", "retry", "alone"}]
      /\ received' \in Payloads \cup {0}
  <2>1. CASE Receive(d)
    BY <1>0, <2>1 DEF Receive, CallFlush, Place, BulkTypes, Places
  <2>2. CASE TryAppend(d) \/ Retry(d) \/ Window(d)
    BY <1>0, <2>2 DEF TryAppend, Retry, Window, Timer, CallFlush, Place, BulkTypes, Places, bulkHistory
  <2>3. CASE Flush(d)
    BY <1>0, <2>3 DEF Flush, Place, BulkTypes, Places, bulkHistory
  <2>. QED  BY <2>1, <2>2, <2>3
<1>3. BulkTypes'
  BY <1>0, <1>1, <1>2 DEF BulkTypes, bufVars
<1>4. /\ OpenArray(s_bulk_buf, s_bulk_len)
      /\ s_bulk_len > 0 => s_bulk_len + 1 <= Cap
      /\ s_bulk_count = 0 <=> s_bulk_len = 0
  BY <1>0, <1>1 DEF BufferIsOpen, CountIsRight, Resting
<1>5. /\ bulkAt'[d] \in Resting \ {"count"}
      /\ bulkAt'[d] = "close" => s_bulk_count # 0
      /\ bulkAt'[d] \in {"retry", "alone"} => s_bulk_count = 0
  <2>1. CASE Receive(d)
    BY <1>0, <2>1 DEF Receive, CallFlush, Place, BulkTypes, Resting
  <2>2. CASE TryAppend(d) \/ Retry(d) \/ Window(d)
    BY <1>0, <2>2 DEF TryAppend, Retry, Window, Timer, CallFlush, Place, BulkTypes, Resting
  <2>3. CASE Flush(d)
    BY <1>0, <2>3 DEF Flush, Place, BulkTypes, Resting
  <2>. QED  BY <2>1, <2>2, <2>3
<1>6. BufferIsOpen(d)'
  BY <1>1, <1>4, <1>5 DEF BufferIsOpen, bufVars, Resting
<1>7. CountIsRight(d)'
  BY <1>0, <1>1, <1>4, <1>5 DEF CountIsRight, bufVars, Resting, BulkTypes
<1>8. UpdateInHand(d)' /\ dropped' = dropped
  <2>. USE DEF UpdateInHand, InHand, Flushing
  <2>1. CASE Receive(d)
    <3>. DEFINE p == received + 1
    <3>1. /\ p \in Payloads /\ received' = p /\ payload'[d] = p /\ dropped' = dropped
          /\ IF Size[p] + 2 > Cap THEN bulkAt'[d] = "flush" /\ after'[d] = "alone"
                                  ELSE bulkAt'[d] = "append"
      BY <1>0, <2>1 DEF Receive, CallFlush, Place, BulkTypes
    <3>. HIDE DEF p
    <3>. QED  BY <1>0, <3>1, SizesArePositive
  <2>2. CASE TryAppend(d)
    <3>1. /\ here = "append" /\ UNCHANGED <<payload, received, dropped>>
          /\ IF Fits(payload[d]) THEN bulkAt'[d] = "separator" /\ after' = after
                                       ELSE bulkAt'[d] = "flush" /\ after'[d] = "retry"
      BY <1>0, <2>2 DEF TryAppend, CallFlush, Place, BulkTypes, bulkHistory
    <3>. QED  BY <1>0, <1>1, <3>1 DEF Fits, bufVars
  <2>3. CASE Retry(d)
    <3>1. here = "retry" /\ s_bulk_len = 0 /\ Size[payload[d]] + 2 <= Cap
          /\ payload[d] \in Payloads
      BY <1>0, <2>3 DEF Retry, CountIsRight
    <3>2. Fits(payload[d])
      BY <1>0, <3>1, SizesArePositive DEF Fits
    <3>3. bulkAt'[d] = "separator" /\ UNCHANGED <<payload, received, dropped>>
      BY <1>0, <2>3, <3>2 DEF Retry, Place, BulkTypes
    <3>. QED  BY <1>0, <1>1, <3>1, <3>2, <3>3 DEF Fits, bufVars
  <2>4. CASE Window(d)
    <3>1. /\ here = "idle" /\ UNCHANGED <<payload, received, dropped>>
          /\ bulkAt'[d] = "flush" /\ after'[d] = "idle"
      BY <1>0, <2>4 DEF Window, Timer, CallFlush, Place, BulkTypes, bulkHistory
    <3>. QED  BY <1>0, <3>1
  <2>5. CASE Flush(d)
    <3>1. /\ here = "flush" /\ UNCHANGED <<payload, after, received, dropped>>
          /\ bulkAt'[d] = (IF s_bulk_count = 0 THEN after[d] ELSE "close")
          /\ after[d] \in {"idle", "retry", "alone"}
      BY <1>0, <2>5 DEF Flush, Place, BulkTypes, bulkHistory
    <3>. QED  BY <1>0, <3>1
  <2>. QED  BY <2>1, <2>2, <2>3, <2>4, <2>5
<1>9. SentIsRight'
  BY <1>0, <1>1, <1>8 DEF SentIsRight, NoBrokenArray
<1>. QED  BY <1>3, <1>6, <1>7, <1>8, <1>9 DEF BulkInv

(* The steps of bulk_append, which write one update into the buffer.          *)
LEMMA BulkAppends ==
  ASSUME NEW d \in BulkDrivers, BulkInv(d),
         Separator(d) \/ Copy(d) \/ Grow(d) \/ Count(d)
  PROVE  BulkInv(d)'
<1>. DEFINE here == bulkAt[d]
            p == payload[d]
<1>0. /\ BulkTypes /\ BufferIsOpen(d) /\ CountIsRight(d) /\ UpdateInHand(d) /\ SentIsRight
      /\ d \in BulkDrivers /\ Cap \in Nat /\ s_bulk_len \in 0..Cap /\ s_bulk_count \in Nat
      /\ s_bulk_buf \in [1..Cap -> Cells] /\ s_bulk_len \in Nat
  BY BulkAssumption DEF BulkInv, BulkTypes
<1>1. UNCHANGED <<payload, after, received, out, dropped>>
  BY DEF Separator, Copy, Grow, Count, bulkHistory
<1>2. SentIsRight'
  BY <1>0, <1>1 DEF SentIsRight, NoBrokenArray
<1>3. CASE Separator(d)
  <2>. DEFINE sep == <<IF s_bulk_count = 0 THEN Open ELSE Comma>>
  <2>1. /\ here = "separator" /\ p \in Payloads /\ p = received
        /\ Size[p] + 2 <= Cap /\ s_bulk_len + 1 + Size[p] + 1 <= Cap
        /\ OpenArray(s_bulk_buf, s_bulk_len) /\ (s_bulk_count = 0 <=> s_bulk_len = 0)
    BY <1>0, <1>3 DEF Separator, BufferIsOpen, CountIsRight, UpdateInHand, InHand, Resting
  <2>2. Size[p] \in Nat /\ Size[p] > 0
    BY <2>1, SizesArePositive
  <2>3. Write(sep) /\ s_bulk_len' = s_bulk_len + 1 /\ s_bulk_count' = s_bulk_count
        /\ Place(d, "copy")
    BY <1>3 DEF Separator
  <2>4. sep \in Seq(Cells) /\ Len(sep) = 1 /\ sep[1] = IF s_bulk_len = 0 THEN Open ELSE Comma
    BY <2>1, Separators
  <2>. HIDE DEF sep
  <2>5. /\ s_bulk_buf' \in [1..Cap -> Cells]
        /\ \A i \in 1..s_bulk_len : s_bulk_buf'[i] = s_bulk_buf[i]
        /\ s_bulk_buf'[s_bulk_len + 1] = sep[1]
    <3>1. s_bulk_len + Len(sep) <= Cap
      BY <1>0, <2>1, <2>2, <2>4
    <3>2. /\ s_bulk_buf' \in [1..Cap -> Cells]
          /\ \A i \in 1..s_bulk_len : s_bulk_buf'[i] = s_bulk_buf[i]
          /\ \A k \in 1..Len(sep) : s_bulk_buf'[s_bulk_len + k] = sep[k]
      BY <1>0, <2>3, <2>4, <3>1, WriteCells
    <3>3. 1 \in 1..Len(sep)
      BY <2>4
    <3>. QED  BY <3>2, <3>3
  <2>6. OpenArray(s_bulk_buf', s_bulk_len)
    BY <1>0, <2>1, <2>5, OpenStays
  <2>7. bulkAt' \in [BulkDrivers -> Places] /\ bulkAt'[d] = "copy"
    BY <1>0, <2>3, Placed DEF Places
  <2>8. BulkTypes'
    BY <1>0, <1>1, <2>1, <2>2, <2>3, <2>5, <2>7 DEF BulkTypes
  <2>9. BufferIsOpen(d)'
    <3>1. s_bulk_len' - 1 = s_bulk_len /\ s_bulk_len' > 0
      BY <1>0, <2>3
    <3>2. OpenArray(s_bulk_buf', s_bulk_len' - 1)
      BY <2>6, <3>1
    <3>3. s_bulk_buf'[s_bulk_len'] = IF s_bulk_len' = 1 THEN Open ELSE Comma
      BY <1>0, <2>3, <2>4, <2>5
    <3>. QED  BY <2>7, <3>1, <3>2, <3>3 DEF BufferIsOpen, Resting
  <2>10. CountIsRight(d)'
    BY <1>0, <2>1, <2>3, <2>7 DEF CountIsRight, Resting
  <2>11. UpdateInHand(d)'
    BY <1>0, <1>1, <2>1, <2>2, <2>3, <2>7 DEF UpdateInHand, InHand, Flushing
  <2>. QED  BY <1>2, <2>8, <2>9, <2>10, <2>11 DEF BulkInv
<1>4. CASE Copy(d)
  <2>1. /\ here = "copy" /\ p \in Payloads /\ p = received
        /\ Size[p] + 2 <= Cap /\ s_bulk_len + Size[p] + 1 <= Cap
        /\ s_bulk_len > 0 /\ OpenArray(s_bulk_buf, s_bulk_len - 1)
        /\ s_bulk_buf[s_bulk_len] = IF s_bulk_len = 1 THEN Open ELSE Comma
    BY <1>0, <1>4 DEF Copy, BufferIsOpen, UpdateInHand, InHand
  <2>2. Size[p] \in Nat /\ Size[p] > 0
    BY <2>1, SizesArePositive
  <2>3. Write(Text(p)) /\ UNCHANGED <<s_bulk_len, s_bulk_count>> /\ Place(d, "grow")
    BY <1>4 DEF Copy
  <2>4. Text(p) \in Seq(Cells) /\ Len(Text(p)) = Size[p]
    BY <2>1, TextCells
  <2>5. /\ s_bulk_buf' \in [1..Cap -> Cells]
        /\ \A i \in 1..s_bulk_len : s_bulk_buf'[i] = s_bulk_buf[i]
        /\ \A k \in 1..Size[p] : s_bulk_buf'[s_bulk_len + k] = Text(p)[k]
    <3>1. s_bulk_len + Len(Text(p)) <= Cap
      BY <1>0, <2>1, <2>2, <2>4
    <3>. QED  BY <1>0, <2>3, <2>4, <3>1, WriteCells
  <2>6. OpenArray(s_bulk_buf', s_bulk_len - 1)
    <3>1. s_bulk_len - 1 \in Nat /\ \A i \in 1..(s_bulk_len - 1) : s_bulk_buf'[i] = s_bulk_buf[i]
      BY <1>0, <2>1, <2>5
    <3>. QED  BY <2>1, <3>1, OpenStays
  <2>7. bulkAt' \in [BulkDrivers -> Places] /\ bulkAt'[d] = "grow"
    BY <1>0, <2>3, Placed DEF Places
  <2>8. BulkTypes'
    BY <1>0, <1>1, <2>3, <2>5, <2>7 DEF BulkTypes
  <2>9. BufferIsOpen(d)'
    <3>1. s_bulk_buf'[s_bulk_len] = s_bulk_buf[s_bulk_len]
      BY <1>0, <2>1, <2>5
    <3>. QED  BY <1>1, <2>1, <2>3, <2>5, <2>6, <2>7, <3>1 DEF BufferIsOpen, Resting
  <2>10. CountIsRight(d)'
    BY <1>0, <2>1, <2>3, <2>7 DEF CountIsRight, Resting
  <2>11. UpdateInHand(d)'
    BY <1>1, <2>1, <2>3, <2>7 DEF UpdateInHand, InHand, Flushing
  <2>. QED  BY <1>2, <2>8, <2>9, <2>10, <2>11 DEF BulkInv
<1>5. CASE Grow(d)
  <2>1. /\ here = "grow" /\ p \in Payloads /\ p = received
        /\ Size[p] + 2 <= Cap /\ s_bulk_len + Size[p] + 1 <= Cap
        /\ s_bulk_len > 0 /\ OpenArray(s_bulk_buf, s_bulk_len - 1)
        /\ s_bulk_buf[s_bulk_len] = IF s_bulk_len = 1 THEN Open ELSE Comma
        /\ \A k \in 1..Size[p] : s_bulk_buf[s_bulk_len + k] = Text(p)[k]
    BY <1>0, <1>5 DEF Grow, BufferIsOpen, UpdateInHand, InHand
  <2>2. Size[p] \in Nat /\ Size[p] > 0
    BY <2>1, SizesArePositive
  <2>3. s_bulk_len' = s_bulk_len + Size[p] /\ UNCHANGED <<s_bulk_buf, s_bulk_count>>
        /\ Place(d, "count")
    BY <1>5 DEF Grow
  <2>4. OpenArray(s_bulk_buf, s_bulk_len + Size[p])
    <3>. DEFINE n == s_bulk_len - 1
    <3>1. n \in Nat /\ n + 1 = s_bulk_len /\ (n = 0 <=> s_bulk_len = 1)
      BY <1>0, <2>1
    <3>2. s_bulk_buf[n + 1] = IF n = 0 THEN Open ELSE Comma
      BY <2>1, <3>1
    <3>3. \A k \in 1..Size[p] : s_bulk_buf[n + 1 + k] = Text(p)[k]
      BY <2>1, <3>1
    <3>4. OpenArray(s_bulk_buf, n)
      BY <2>1
    <3>. HIDE DEF n
    <3>5. OpenArray(s_bulk_buf, n + 1 + Size[p])
      BY <2>1, <3>1, <3>2, <3>3, <3>4, OpenGrows
    <3>. QED  BY <3>1, <3>5
  <2>5. bulkAt' \in [BulkDrivers -> Places] /\ bulkAt'[d] = "count"
    BY <1>0, <2>3, Placed DEF Places
  <2>6. BulkTypes'
    BY <1>0, <1>1, <2>1, <2>2, <2>3, <2>5 DEF BulkTypes
  <2>7. BufferIsOpen(d)'
    <3>1. OpenArray(s_bulk_buf', s_bulk_len')
      BY <2>3, <2>4
    <3>2. s_bulk_len' + 1 <= Cap
      BY <2>1, <2>3
    <3>. QED  BY <2>5, <3>1, <3>2 DEF BufferIsOpen, Resting
  <2>8. CountIsRight(d)'
    BY <1>0, <2>1, <2>2, <2>3, <2>5 DEF CountIsRight, Resting
  <2>9. UpdateInHand(d)'
    BY <2>5 DEF UpdateInHand, InHand, Flushing
  <2>. QED  BY <1>2, <2>6, <2>7, <2>8, <2>9 DEF BulkInv
<1>6. CASE Count(d)
  <2>1. /\ here = "count" /\ s_bulk_len > 0 /\ OpenArray(s_bulk_buf, s_bulk_len)
        /\ s_bulk_len + 1 <= Cap
    BY <1>0, <1>6 DEF Count, BufferIsOpen, CountIsRight, Resting
  <2>2. s_bulk_count' = s_bulk_count + 1 /\ UNCHANGED <<s_bulk_buf, s_bulk_len>>
        /\ Place(d, "idle")
    BY <1>6 DEF Count
  <2>3. bulkAt' \in [BulkDrivers -> Places] /\ bulkAt'[d] = "idle"
    BY <1>0, <2>2, Placed DEF Places
  <2>4. BulkTypes'
    BY <1>0, <1>1, <2>2, <2>3 DEF BulkTypes
  <2>5. BufferIsOpen(d)'
    BY <2>1, <2>2, <2>3 DEF BufferIsOpen, Resting
  <2>6. CountIsRight(d)'
    BY <1>0, <2>1, <2>2, <2>3 DEF CountIsRight, Resting
  <2>7. UpdateInHand(d)'
    BY <2>3 DEF UpdateInHand, InHand, Flushing
  <2>. QED  BY <1>2, <2>4, <2>5, <2>6, <2>7 DEF BulkInv
<1>. QED  BY <1>3, <1>4, <1>5, <1>6

(* The steps that close the array, send it and empty the buffer, and the one  *)
(* that sends an update by itself.                                            *)
LEMMA BulkSends ==
  ASSUME NEW d \in BulkDrivers, BulkInv(d),
         CloseArray(d) \/ Emit(d) \/ ResetLen(d) \/ ResetCount(d)
           \/ SendAlone(d)
  PROVE  BulkInv(d)'
<1>. DEFINE here == bulkAt[d]
            p == payload[d]
<1>0. /\ BulkTypes /\ BufferIsOpen(d) /\ CountIsRight(d) /\ UpdateInHand(d) /\ SentIsRight
      /\ d \in BulkDrivers /\ Cap \in Nat /\ s_bulk_len \in 0..Cap /\ s_bulk_count \in Nat
      /\ s_bulk_buf \in [1..Cap -> Cells] /\ s_bulk_len \in Nat
      /\ after[d] \in {"idle", "retry", "alone"}
      /\ out \in Seq([array : BOOLEAN, text : Seq(Cells)])
  BY BulkAssumption DEF BulkInv, BulkTypes, SentIsRight
<1>1. UNCHANGED <<payload, after, received, dropped>>
  BY DEF CloseArray, Emit, ResetLen, ResetCount, SendAlone, bulkHistory
<1>2. ASSUME UNCHANGED out PROVE SentIsRight'
  BY <1>0, <1>1, <1>2 DEF SentIsRight, NoBrokenArray
<1>3. ASSUME NEW array \in BOOLEAN, NEW text \in Seq(Cells), Broadcast(array, text),
             array => IsArray(text)
      PROVE  SentIsRight'
  <2>. DEFINE event == [array |-> array, text |-> text]
  <2>1. out' = Append(out, event) /\ event \in [array : BOOLEAN, text : Seq(Cells)]
    BY <1>3 DEF Broadcast
  <2>2. event.array = array /\ event.text = text
    OBVIOUS
  <2>. HIDE DEF event
  <2>3. /\ out' \in Seq([array : BOOLEAN, text : Seq(Cells)])
        /\ DOMAIN out' = 1..(Len(out) + 1) /\ DOMAIN out = 1..Len(out)
        /\ \A i \in DOMAIN out : out'[i] = out[i]
        /\ out'[Len(out) + 1] = event
    BY <1>0, <2>1
  <2>4. ASSUME NEW i \in DOMAIN out', out'[i].array PROVE IsArray(out'[i].text)
    <3>1. i \in DOMAIN out \/ i = Len(out) + 1
      BY <1>0, <2>3
    <3>2. CASE i \in DOMAIN out
      BY <1>0, <2>3, <2>4, <3>2 DEF SentIsRight, NoBrokenArray
    <3>3. CASE i = Len(out) + 1
      BY <1>3, <2>2, <2>3, <2>4, <3>3
    <3>. QED  BY <3>1, <3>2, <3>3
  <2>5. NoBrokenArray'
    BY <2>4 DEF NoBrokenArray, IsArray, Follows
  <2>. QED  BY <1>0, <1>1, <2>3, <2>5 DEF SentIsRight
<1>4. CASE CloseArray(d)
  <2>1. /\ here = "close" /\ OpenArray(s_bulk_buf, s_bulk_len)
        /\ s_bulk_len > 0 /\ s_bulk_len + 1 <= Cap
    BY <1>0, <1>4 DEF CloseArray, BufferIsOpen, CountIsRight, Resting
  <2>2. /\ Write(<<Close>>) /\ s_bulk_len' = s_bulk_len + 1 /\ s_bulk_count' = s_bulk_count
        /\ Place(d, "emit") /\ UNCHANGED out
    BY <1>4 DEF CloseArray
  <2>3. <<Close>> \in Seq(Cells) /\ Len(<<Close>>) = 1 /\ <<Close>>[1] = Close
    BY Separators
  <2>4. /\ s_bulk_buf' \in [1..Cap -> Cells]
        /\ \A i \in 1..s_bulk_len : s_bulk_buf'[i] = s_bulk_buf[i]
        /\ s_bulk_buf'[s_bulk_len + 1] = Close
    <3>1. s_bulk_len + Len(<<Close>>) <= Cap
      BY <2>1, <2>3
    <3>2. /\ s_bulk_buf' \in [1..Cap -> Cells]
          /\ \A i \in 1..s_bulk_len : s_bulk_buf'[i] = s_bulk_buf[i]
          /\ \A k \in 1..Len(<<Close>>) : s_bulk_buf'[s_bulk_len + k] = <<Close>>[k]
      BY <1>0, <2>2, <2>3, <3>1, WriteCells
    <3>3. 1 \in 1..Len(<<Close>>)
      BY <2>3
    <3>. QED  BY <2>3, <3>2, <3>3
  <2>5. OpenArray(s_bulk_buf', s_bulk_len)
    BY <1>0, <2>1, <2>4, OpenStays
  <2>6. bulkAt' \in [BulkDrivers -> Places] /\ bulkAt'[d] = "emit"
    BY <1>0, <2>2, Placed DEF Places
  <2>7. BulkTypes'
    BY <1>0, <1>1, <2>1, <2>2, <2>4, <2>6 DEF BulkTypes
  <2>8. BufferIsOpen(d)'
    <3>1. s_bulk_len' - 1 = s_bulk_len /\ s_bulk_len' > 1
      BY <1>0, <2>1, <2>2
    <3>2. OpenArray(s_bulk_buf', s_bulk_len' - 1)
      BY <2>5, <3>1
    <3>3. s_bulk_buf'[s_bulk_len'] = Close
      BY <2>2, <2>4
    <3>. QED  BY <2>6, <3>1, <3>2, <3>3 DEF BufferIsOpen, Resting
  <2>9. CountIsRight(d)'
    BY <2>6 DEF CountIsRight, Resting
  <2>10. UpdateInHand(d)'
    BY <1>0, <1>1, <2>1, <2>6 DEF UpdateInHand, InHand, Flushing
  <2>. QED  BY <1>2, <2>2, <2>7, <2>8, <2>9, <2>10 DEF BulkInv
<1>5. CASE Emit(d)
  <2>1. /\ here = "emit" /\ s_bulk_len > 1 /\ OpenArray(s_bulk_buf, s_bulk_len - 1)
        /\ s_bulk_buf[s_bulk_len] = Close
    BY <1>0, <1>5 DEF Emit, BufferIsOpen
  <2>2. UNCHANGED bufVars /\ Place(d, "reset_len") /\ Broadcast(TRUE, Written)
    BY <1>5 DEF Emit
  <2>3. Written = SubSeq(s_bulk_buf, 1, s_bulk_len)
    BY <1>0 DEF Written
  <2>4. Written \in Seq(Cells) /\ IsArray(Written)
    <3>1. s_bulk_len \in 1..Cap
      BY <1>0, <2>1
    <3>. QED  BY <1>0, <2>1, <2>3, <3>1, WrittenText, ClosedIsArray
  <2>5. SentIsRight'
    BY <1>3, <2>2, <2>4
  <2>6. bulkAt' \in [BulkDrivers -> Places] /\ bulkAt'[d] = "reset_len"
    BY <1>0, <2>2, Placed DEF Places
  <2>7. BulkTypes'
    BY <1>0, <1>1, <2>2, <2>6 DEF BulkTypes, bufVars
  <2>8. BufferIsOpen(d)' /\ CountIsRight(d)'
    BY <2>6 DEF BufferIsOpen, CountIsRight, Resting
  <2>9. UpdateInHand(d)'
    BY <1>0, <1>1, <2>1, <2>6 DEF UpdateInHand, InHand, Flushing
  <2>. QED  BY <2>5, <2>7, <2>8, <2>9 DEF BulkInv
<1>6. CASE ResetLen(d)
  <2>1. /\ here = "reset_len" /\ s_bulk_len' = 0 /\ UNCHANGED <<s_bulk_buf, s_bulk_count, out>>
        /\ Place(d, "reset_count")
    BY <1>6 DEF ResetLen, bulkHistory
  <2>2. bulkAt' \in [BulkDrivers -> Places] /\ bulkAt'[d] = "reset_count"
    BY <1>0, <2>1, Placed DEF Places
  <2>3. BulkTypes'
    BY <1>0, <1>1, <2>1, <2>2 DEF BulkTypes
  <2>4. BufferIsOpen(d)' /\ CountIsRight(d)'
    BY <2>1, <2>2 DEF BufferIsOpen, CountIsRight, Resting
  <2>5. UpdateInHand(d)'
    BY <1>0, <1>1, <2>1, <2>2 DEF UpdateInHand, InHand, Flushing
  <2>. QED  BY <1>2, <2>1, <2>3, <2>4, <2>5 DEF BulkInv
<1>7. CASE ResetCount(d)
  <2>1. /\ here = "reset_count" /\ s_bulk_count' = 0 /\ UNCHANGED <<s_bulk_buf, s_bulk_len, out>>
        /\ Place(d, after[d])
    BY <1>7 DEF ResetCount, bulkHistory
  <2>2. s_bulk_len = 0
    BY <1>0, <2>1 DEF CountIsRight
  <2>3. bulkAt' \in [BulkDrivers -> Places] /\ bulkAt'[d] = after[d]
    BY <1>0, <2>1, Placed DEF Places
  <2>4. BulkTypes'
    BY <1>0, <1>1, <2>1, <2>3 DEF BulkTypes
  <2>5. OpenArray(s_bulk_buf, 0)
    BY DEF OpenArray
  <2>6. BufferIsOpen(d)' /\ CountIsRight(d)'
    BY <1>0, <2>1, <2>2, <2>3, <2>5 DEF BufferIsOpen, CountIsRight, Resting
  <2>7. UpdateInHand(d)'
    BY <1>0, <1>1, <2>1, <2>3 DEF UpdateInHand, InHand, Flushing
  <2>. QED  BY <1>2, <2>1, <2>4, <2>6, <2>7 DEF BulkInv
<1>8. CASE SendAlone(d)
  <2>1. /\ here = "alone" /\ UNCHANGED bufVars /\ Place(d, "idle")
        /\ Broadcast(FALSE, Text(p))
    BY <1>8 DEF SendAlone
  <2>2. p \in Payloads /\ s_bulk_len = 0 /\ s_bulk_count = 0
    BY <1>0, <2>1 DEF UpdateInHand, InHand, CountIsRight, Resting
  <2>3. Text(p) \in Seq(Cells)
    BY <2>2, TextCells
  <2>4. SentIsRight'
    BY <1>3, <2>1, <2>3
  <2>5. bulkAt' \in [BulkDrivers -> Places] /\ bulkAt'[d] = "idle"
    BY <1>0, <2>1, Placed DEF Places
  <2>6. BulkTypes'
    BY <1>0, <1>1, <2>1, <2>5 DEF BulkTypes, bufVars
  <2>7. OpenArray(s_bulk_buf, 0)
    BY DEF OpenArray
  <2>8. BufferIsOpen(d)' /\ CountIsRight(d)'
    BY <2>1, <2>2, <2>5, <2>7 DEF BufferIsOpen, CountIsRight, Resting, bufVars
  <2>9. UpdateInHand(d)'
    BY <2>5 DEF UpdateInHand, InHand, Flushing
  <2>. QED  BY <2>4, <2>6, <2>8, <2>9 DEF BulkInv
<1>. QED  BY <1>4, <1>5, <1>6, <1>7, <1>8

(* A step of d leaves the others where they are.                              *)
LEMMA OthersStay ==
  ASSUME NEW d \in BulkDrivers, BulkTypes, OthersIdle(d), StepOf(d)
  PROVE  OthersIdle(d)'
<1>. SUFFICES ASSUME NEW u \in BulkDrivers \ {d} PROVE bulkAt'[u] = bulkAt[u]
  BY DEF OthersIdle
<1>. USE DEF BulkTypes, Place, CallFlush
<1>1. CASE Receive(d) \/ Window(d)
  BY <1>1 DEF Receive, Window, Timer
<1>2. CASE TryAppend(d) \/ Retry(d) \/ Flush(d)
  BY <1>2 DEF TryAppend, Retry, Flush
<1>3. CASE Separator(d) \/ Copy(d) \/ Grow(d) \/ Count(d)
  BY <1>3 DEF Separator, Copy, Grow, Count
<1>4. CASE CloseArray(d) \/ Emit(d) \/ ResetLen(d) \/ ResetCount(d) \/ SendAlone(d)
  BY <1>4 DEF CloseArray, Emit, ResetLen, ResetCount, SendAlone
<1>. QED  BY <1>1, <1>2, <1>3, <1>4 DEF StepOf, Step

(* It keeps the turn.                                                         *)
LEMMA BulkKeeps ==
  ASSUME NEW d \in BulkDrivers, Turn(d), StepOf(d)
  PROVE  Turn(d)'
<1>1. BulkInv(d)'
  BY BulkKeepsBuffer, BulkAppends, BulkSends DEF Turn, StepOf, Step
<1>2. OthersIdle(d)'
  BY OthersStay DEF Turn, BulkInv
<1>. QED  BY <1>1, <1>2 DEF Turn

(* Once two tasks have met they have met.                                     *)
LEMMA MetStays ==
  ASSUME BulkNext, ~ met'
  PROVE  ~ met
<1>1. CASE Timer
  BY <1>1 DEF Timer, Enter
<1>2. ASSUME NEW t \in BulkDrivers, Receive(t) PROVE ~ met
  BY <1>2 DEF Receive, Enter
<1>3. ASSUME NEW t \in BulkDrivers, Step(t) PROVE ~ met
  BY <1>3 DEF Step, TryAppend, Retry, Separator, Copy, Grow, Count, Flush, CloseArray, Emit,
    ResetLen, ResetCount, SendAlone
<1>. QED  BY <1>1, <1>2, <1>3 DEF BulkNext

(* Who comes in finds nobody inside and takes the turn.                       *)
LEMMA TurnPasses ==
  ASSUME NEW d \in BulkDrivers, Turn(d), NEW t \in BulkDrivers, Enter(t), ~ met', bulkAt[t] = "idle"
  PROVE  Turn(t)
<1>1. \A u \in BulkDrivers : bulkAt[u] = "idle"
  BY DEF Enter
<1>2. BufferIsOpen(t) /\ CountIsRight(t) /\ UpdateInHand(t)
  BY <1>1 DEF Turn, BulkInv, BufferIsOpen, CountIsRight, UpdateInHand, InHand, Resting, Flushing
<1>3. OthersIdle(t)
  BY <1>1 DEF OthersIdle
<1>. QED  BY <1>2, <1>3 DEF Turn, BulkInv

(* So every step is one of the task whose turn it is.                         *)
LEMMA InTurnStep ==
  ASSUME InTurns, BulkNext, ~ met'
  PROVE  \E d \in BulkDrivers : Turn(d) /\ Turn(d)' /\ StepOf(d)
<1>1. PICK d \in BulkDrivers : Turn(d)
  BY MetStays DEF InTurns
<1>2. \E t \in BulkDrivers : Turn(t) /\ StepOf(t)
  <2>1. CASE Timer
    <3>1. Flusher \in BulkDrivers /\ Enter(Flusher) /\ bulkAt[Flusher] = "idle"
      BY <2>1, BulkAssumption DEF Timer
    <3>2. Turn(Flusher)
      BY <1>1, <3>1, TurnPasses
    <3>. QED  BY <2>1, <3>1, <3>2 DEF StepOf, Window
  <2>2. ASSUME NEW t \in BulkDrivers, Receive(t) PROVE Turn(t) /\ StepOf(t)
    <3>1. Enter(t) /\ bulkAt[t] = "idle"
      BY <2>2 DEF Receive
    <3>2. Turn(t)
      BY <1>1, <3>1, TurnPasses
    <3>. QED  BY <2>2, <3>2 DEF StepOf
  <2>3. ASSUME NEW t \in BulkDrivers, Step(t) PROVE Turn(t) /\ StepOf(t)
    <3>1. bulkAt[t] # "idle"
      BY <2>3 DEF Step, TryAppend, Retry, Separator, Copy, Grow, Count, Flush, CloseArray, Emit,
        ResetLen, ResetCount, SendAlone
    <3>2. t = d
      BY <1>1, <3>1 DEF Turn, OthersIdle
    <3>. QED  BY <1>1, <2>3, <3>2 DEF StepOf
  <2>. QED  BY <2>1, <2>2, <2>3 DEF BulkNext
<1>. QED  BY <1>2, BulkKeeps

(* A step that does not concern the coalescer.                                *)
LEMMA TurnRests ==
  ASSUME UNCHANGED bulkVars, NEW d \in BulkDrivers, Turn(d)
  PROVE  Turn(d)'
  BY DEF bulkVars, bufVars, bulkHistory, Turn, OthersIdle, BulkInv, BulkTypes, BufferIsOpen,
    CountIsRight, UpdateInHand, InHand, SentIsRight, NoBrokenArray

(* Until two tasks have met, one of them has the turn, and the buffer is an   *)
(* open array of whole updates at every moment at which this task is not in   *)
(* the middle of writing.                                                     *)
THEOREM BulkInvariant == BulkSpec => []InTurns
<1>1. BulkInit => InTurns
  BY BulkStarts, BulkAssumption DEF InTurns
<1>2. InTurns /\ [BulkNext]_bulkVars => InTurns'
  <2>. SUFFICES ASSUME InTurns, [BulkNext]_bulkVars, ~ met'
                PROVE  \E d \in BulkDrivers : Turn(d)'
    BY DEF InTurns
  <2>1. CASE UNCHANGED bulkVars
    <3>1. ~ met
      BY <2>1 DEF bulkVars
    <3>. QED  BY <2>1, <3>1, TurnRests DEF InTurns
  <2>2. CASE BulkNext
    BY <2>2, InTurnStep
  <2>. QED  BY <2>1, <2>2
<1>. QED  BY <1>1, <1>2, PTL DEF BulkSpec

(* Whatever tasks handle updates, and however often the work passes from one  *)
(* to another: every attr.bulk array that is broadcast before two of them     *)
(* meet inside is well formed, for every number and length of the updates and *)
(* every size of the buffer.                                                  *)
THEOREM ArraysAreWellFormed == BulkSpec => []ArraysWellFormed
<1>1. InTurns => ArraysWellFormed
  BY DEF InTurns, Turn, BulkInv, SentIsRight, ArraysWellFormed
<1>. QED  BY <1>1, BulkInvariant, PTL

(* Nor has a write left the buffer by then, or an update been given up.       *)
THEOREM NothingIsLost == BulkSpec => [](StaysInBuffer /\ (~ met => dropped = {}))
<1>1. InTurns => StaysInBuffer /\ (~ met => dropped = {})
  BY BulkAssumption DEF InTurns, Turn, BulkInv, BulkTypes, SentIsRight, StaysInBuffer
<1>. QED  BY <1>1, BulkInvariant, PTL

-----------------------------------------------------------------------------
(* HapBulk implements UpdateStream.                                           *)

(* The items of a text have the ranks 1, 2, ...                               *)
Ranked(s) == \A k \in 1..Cardinality(ItemCells(s)) : \E i \in ItemCells(s) : Rank(s, i) = k

BulkRanked == Ranked(Written)

(* There are finitely many of them, and they are payloads.                    *)
LEMMA ItemCellsFinite ==
  ASSUME NEW s \in Seq(Cells)
  PROVE  /\ IsFiniteSet(ItemCells(s)) /\ Cardinality(ItemCells(s)) \in Nat
         /\ ItemCells(s) \subseteq 1..Len(s)
         /\ \A i \in ItemCells(s) : s[i][2] \in Payloads
<1>1. ItemCells(s) \subseteq 1..Len(s)
  BY DEF ItemCells
<1>2. IsFiniteSet(1..Len(s))
  BY FS_Interval
<1>3. IsFiniteSet(ItemCells(s)) /\ Cardinality(ItemCells(s)) \in Nat
  BY <1>1, <1>2, FS_Subset, FS_CardinalityType
<1>4. ASSUME NEW i \in ItemCells(s) PROVE s[i][2] \in Payloads
  <2>1. s[i] \in Cells /\ s[i][1] = "item"
    BY DEF ItemCells
  <2>2. s[i] \in {"part", "item"} \X Payloads
    BY <2>1, Separators DEF Cells
  <2>. QED  BY <2>2
<1>. QED  BY <1>1, <1>3, <1>4

(* An element chosen from a set that has one.                                 *)
LEMMA TheElement ==
  ASSUME NEW S, S # {}
  PROVE  The(S) \in S
  BY DEF The

(* The items of a text are updates.                                           *)
LEMMA ItemsType ==
  ASSUME NEW s \in Seq(Cells), Ranked(s)
  PROVE  Items(s) \in Seq(Payloads) /\ Len(Items(s)) = Cardinality(ItemCells(s))
<1>. DEFINE n == Cardinality(ItemCells(s))
<1>1. n \in Nat /\ \A i \in ItemCells(s) : s[i][2] \in Payloads
  BY ItemCellsFinite
<1>2. ASSUME NEW k \in 1..n PROVE s[The(OfRank(s, k))][2] \in Payloads
  <2>1. OfRank(s, k) # {}
    BY DEF Ranked, OfRank
  <2>2. The(OfRank(s, k)) \in OfRank(s, k)
    BY <2>1, TheElement
  <2>. QED  BY <1>1, <2>2 DEF OfRank
<1>3. Items(s) = [k \in 1..n |-> s[The(OfRank(s, k))][2]]
  BY DEF Items
<1>. HIDE DEF n
<1>4. Items(s) \in [1..n -> Payloads]
  BY <1>2, <1>3
<1>5. Items(s) \in Seq(Payloads) /\ Len(Items(s)) = n
  BY <1>1, <1>4
<1>. QED  BY <1>5 DEF n

(* Texts with the same items in the same places.                              *)
LEMMA ItemsSame ==
  ASSUME NEW s \in Seq(Cells), NEW t \in Seq(Cells), Ranked(s),
         ItemCells(t) = ItemCells(s), \A i \in ItemCells(s) : t[i] = s[i]
  PROVE  Ranked(t) /\ Items(t) = Items(s)
<1>1. \A i : Rank(t, i) = Rank(s, i)
  BY DEF Rank
<1>2. Ranked(t)
  BY <1>1 DEF Ranked
<1>3. \A k : OfRank(t, k) = OfRank(s, k)
  BY <1>1 DEF OfRank
<1>4. ASSUME NEW k \in 1..Cardinality(ItemCells(s))
      PROVE  t[The(OfRank(t, k))][2] = s[The(OfRank(s, k))][2]
  <2>1. OfRank(s, k) # {}
    BY DEF Ranked, OfRank
  <2>2. The(OfRank(s, k)) \in ItemCells(s) /\ The(OfRank(t, k)) = The(OfRank(s, k))
    BY <1>3, <2>1, TheElement DEF OfRank
  <2>. QED  BY <2>2
<1>. QED  BY <1>2, <1>4 DEF Items

(* One more item behind all others.                                           *)
LEMMA ItemsOneMore ==
  ASSUME NEW s \in Seq(Cells), NEW t \in Seq(Cells), Ranked(s),
         NEW m \in Nat, ItemCells(t) = ItemCells(s) \cup {m},
         \A i \in ItemCells(s) : i < m /\ t[i] = s[i]
  PROVE  Ranked(t) /\ Items(t) = Append(Items(s), t[m][2])
<1>. DEFINE n == Cardinality(ItemCells(s))
<1>1. /\ IsFiniteSet(ItemCells(s)) /\ n \in Nat /\ ItemCells(s) \subseteq Nat
      /\ m \notin ItemCells(s) /\ \A i \in ItemCells(t) : t[i][2] \in Payloads
  BY ItemCellsFinite
<1>2. Cardinality(ItemCells(t)) = n + 1
  BY <1>1, FS_AddElement
<1>3. ASSUME NEW i \in ItemCells(s) PROVE Rank(t, i) = Rank(s, i) /\ Rank(s, i) \in 0..n
  <2>1. {j \in ItemCells(t) : j <= i} = {j \in ItemCells(s) : j <= i}
    BY <1>1
  <2>2. Cardinality({j \in ItemCells(s) : j <= i}) \in 0..n
    <3>1. {j \in ItemCells(s) : j <= i} \subseteq ItemCells(s)
      OBVIOUS
    <3>2. /\ Cardinality({j \in ItemCells(s) : j <= i}) \in Nat
          /\ Cardinality({j \in ItemCells(s) : j <= i}) <= n
      BY <1>1, <3>1, FS_Subset, FS_CardinalityType
    <3>. QED  BY <1>1, <3>2
  <2>. QED  BY <2>1, <2>2 DEF Rank
<1>4. Rank(t, m) = n + 1
  <2>1. {j \in ItemCells(t) : j <= m} = ItemCells(t)
    BY <1>1
  <2>. QED  BY <1>2, <2>1 DEF Rank
<1>. HIDE DEF n
<1>5. ASSUME NEW k \in 1..n PROVE OfRank(t, k) = OfRank(s, k)
  <2>1. k # n + 1
    BY <1>1
  <2>. QED  BY <1>3, <1>4, <2>1 DEF OfRank
<1>6. OfRank(t, n + 1) = {m}
  <2>1. \A i \in ItemCells(s) : Rank(t, i) # n + 1
    BY <1>1, <1>3
  <2>. QED  BY <1>4, <2>1 DEF OfRank
<1>7. Ranked(t)
  <2>1. ASSUME NEW k \in 1..(n + 1) PROVE \E i \in ItemCells(t) : Rank(t, i) = k
    <3>1. k \in 1..n \/ k = n + 1
      BY <1>1
    <3>2. CASE k \in 1..n
      BY <1>3, <3>2 DEF Ranked, n
    <3>. QED  BY <1>4, <3>1, <3>2
  <2>. QED  BY <1>2, <2>1 DEF Ranked
<1>8. /\ Items(s) \in Seq(Payloads) /\ Len(Items(s)) = n
      /\ Items(s) = [k \in 1..n |-> s[The(OfRank(s, k))][2]]
  BY ItemsType DEF Items, n
<1>9. Items(t) = [k \in 1..(n + 1) |-> t[The(OfRank(t, k))][2]]
  BY <1>2 DEF Items
<1>10. ASSUME NEW k \in 1..n PROVE t[The(OfRank(t, k))][2] = Items(s)[k]
  <2>1. OfRank(s, k) # {}
    BY DEF Ranked, OfRank, n
  <2>2. The(OfRank(s, k)) \in ItemCells(s) /\ The(OfRank(t, k)) = The(OfRank(s, k))
    BY <1>5, <2>1, TheElement DEF OfRank
  <2>. QED  BY <1>8, <2>2
<1>11. t[The(OfRank(t, n + 1))][2] = t[m][2]
  BY <1>6, TheElement
<1>12. Append(Items(s), t[m][2]) =
         [k \in 1..(n + 1) |-> IF k = n + 1 THEN t[m][2] ELSE Items(s)[k]]
  <2>1. t[m][2] \in Payloads
    BY <1>1
  <2>. QED  BY <1>1, <1>8, <2>1
<1>13. \A k \in 1..(n + 1) : k \in 1..n \/ k = n + 1
  BY <1>1
<1>. QED  BY <1>7, <1>9, <1>10, <1>11, <1>12, <1>13

(* A text without items.                                                      *)
LEMMA NoItems ==
  ASSUME NEW s, ItemCells(s) = {}
  PROVE  Ranked(s) /\ Items(s) = <<>>
<1>1. Cardinality(ItemCells(s)) = 0
  BY FS_EmptySet
<1>. QED  BY <1>1 DEF Ranked, Items

(* Between n and m there is no item.                                          *)
NoItemIn(c, n, m) == \A i \in (n + 1)..m : c[i][1] # "item"
SameUpTo(b, c, n) == \A i \in 1..n : c[i] = b[i]

(* What has been written, with cells that are no items behind it.             *)
LEMMA ItemsKept ==
  ASSUME NEW b \in [1..Cap -> Cells], NEW c \in [1..Cap -> Cells],
         NEW n \in 0..Cap, NEW m \in 0..Cap, n <= m,
         SameUpTo(b, c, n), NoItemIn(c, n, m),
         Ranked(SubSeq(b, 1, n))
  PROVE  Ranked(SubSeq(c, 1, m)) /\ Items(SubSeq(c, 1, m)) = Items(SubSeq(b, 1, n))
<1>. DEFINE s == SubSeq(b, 1, n)
            t == SubSeq(c, 1, m)
<1>0. Cap \in Nat
  BY BulkAssumption
<1>1. /\ s \in Seq(Cells) /\ DOMAIN s = 1..n /\ \A i \in 1..n : s[i] = b[i]
      /\ t \in Seq(Cells) /\ DOMAIN t = 1..m /\ \A i \in 1..m : t[i] = c[i]
  BY WrittenText
<1>2. Ranked(s)
  OBVIOUS
<1>. HIDE DEF s, t
<1>. USE DEF SameUpTo, NoItemIn
<1>3. \A i \in 1..m : i \in 1..n \/ i \in (n + 1)..m
  BY <1>0
<1>4. \A i \in 1..n : i \in 1..m
  BY <1>0
<1>5. ItemCells(t) = ItemCells(s)
  BY <1>1, <1>3, <1>4 DEF ItemCells
<1>6. \A i \in ItemCells(s) : t[i] = s[i]
  BY <1>1, <1>4 DEF ItemCells
<1>7. Ranked(t) /\ Items(t) = Items(s)
  BY <1>1, <1>2, <1>5, <1>6, ItemsSame
<1>. QED  BY <1>7 DEF s, t

(* What has been written, with the text of an update behind it.               *)
LEMMA ItemsGrown ==
  ASSUME NEW b \in [1..Cap -> Cells], NEW n \in 0..Cap, NEW p \in Payloads,
         n + Size[p] <= Cap, \A k \in 1..Size[p] : b[n + k] = Text(p)[k],
         Ranked(SubSeq(b, 1, n))
  PROVE  /\ Ranked(SubSeq(b, 1, n + Size[p]))
         /\ Items(SubSeq(b, 1, n + Size[p])) = Append(Items(SubSeq(b, 1, n)), p)
<1>. DEFINE m == n + Size[p]
            s == SubSeq(b, 1, n)
            t == SubSeq(b, 1, m)
<1>0. Cap \in Nat /\ Size[p] \in Nat /\ Size[p] > 0 /\ m \in 0..Cap /\ m \in Nat /\ n < m
  BY BulkAssumption, SizesArePositive
<1>1. /\ s \in Seq(Cells) /\ DOMAIN s = 1..n /\ \A i \in 1..n : s[i] = b[i]
      /\ t \in Seq(Cells) /\ DOMAIN t = 1..m /\ \A i \in 1..m : t[i] = b[i]
  BY <1>0, WrittenText
<1>2. Ranked(s)
  OBVIOUS
<1>. HIDE DEF s, t
<1>3. ASSUME NEW i \in 1..m
      PROVE  i \in 1..n \/ (i - n \in 1..Size[p] /\ b[i] = Text(p)[i - n] /\ i \notin 1..n)
  <2>1. i \in 1..n \/ (i - n \in 1..Size[p] /\ n + (i - n) = i /\ i \notin 1..n)
    BY <1>0
  <2>. QED  BY <2>1
<1>4. \A i \in 1..n : i \in 1..m /\ i < m
  BY <1>0
<1>5. \A k \in 1..Size[p] : Text(p)[k][1] = "item" <=> k = Size[p]
  BY TextCells
<1>6. m \in 1..m /\ m - n = Size[p] /\ m \notin 1..n /\ \A i \in 1..m : i - n = Size[p] => i = m
  BY <1>0
<1>7. b[m] = Text(p)[Size[p]] /\ b[m][1] = "item" /\ b[m][2] = p
  BY <1>0, <1>3, <1>5, <1>6, TextCells
<1>. HIDE DEF m
<1>8. ItemCells(t) = ItemCells(s) \cup {m}
  <2>1. ASSUME NEW i \in 1..m PROVE t[i][1] = "item" <=> (i \in 1..n /\ s[i][1] = "item") \/ i = m
    <3>1. CASE i \in 1..n
      BY <1>1, <1>6, <3>1
    <3>2. CASE i \notin 1..n
      <4>1. i - n \in 1..Size[p] /\ t[i] = Text(p)[i - n]
        BY <1>1, <1>3, <3>2
      <4>2. t[i][1] = "item" <=> i - n = Size[p]
        BY <1>5, <4>1
      <4>. QED  BY <1>6, <3>2, <4>2
    <3>. QED  BY <3>1, <3>2
  <2>. QED  BY <1>1, <1>4, <1>6, <2>1 DEF ItemCells
<1>9. \A i \in ItemCells(s) : i < m /\ t[i] = s[i]
  BY <1>1, <1>4 DEF ItemCells
<1>10. Ranked(t) /\ Items(t) = Append(Items(s), t[m][2])
  BY <1>0, <1>1, <1>2, <1>8, <1>9, ItemsOneMore
<1>11. t[m][2] = p
  BY <1>1, <1>6, <1>7
<1>12. Ranked(t) /\ Items(t) = Append(Items(s), p)
  BY <1>10, <1>11
<1>. QED  BY <1>12 DEF s, t, m

(* An update sent by itself.                                                  *)
LEMMA ItemsAlone ==
  ASSUME NEW p \in Payloads
  PROVE  Items(Text(p)) = <<p>>
<1>. DEFINE t == Text(p)
<1>0. Size[p] \in Nat /\ Size[p] > 0
  BY SizesArePositive
<1>1. /\ t \in Seq(Cells) /\ DOMAIN t = 1..Size[p] /\ t[Size[p]][2] = p
      /\ \A k \in 1..Size[p] : t[k][1] = "item" <=> k = Size[p]
  BY <1>0, TextCells
<1>. HIDE DEF t
<1>2. ItemCells(t) = {Size[p]}
  BY <1>0, <1>1 DEF ItemCells
<1>3. <<>> \in Seq(Cells) /\ ItemCells(<<>>) = {}
  BY DEF ItemCells
<1>4. Ranked(<<>>) /\ Items(<<>>) = <<>>
  BY <1>3, NoItems
<1>5. ItemCells(t) = ItemCells(<<>>) \cup {Size[p]}
  BY <1>2, <1>3
<1>6. \A i \in ItemCells(<<>>) : i < Size[p] /\ t[i] = <<>>[i]
  BY <1>3
<1>7. Items(t) = Append(Items(<<>>), t[Size[p]][2])
  BY <1>0, <1>1, <1>3, <1>4, <1>5, <1>6, ItemsOneMore
<1>8. Items(t) = Append(<<>>, p)
  BY <1>1, <1>4, <1>7
<1>9. Append(<<>>, p) = <<p>>
  OBVIOUS
<1>. QED  BY <1>8, <1>9 DEF t

(* An array that was opened holds an update.                                  *)
LEMMA ItemsThere ==
  ASSUME NEW b \in [1..Cap -> Cells], NEW n \in 1..Cap, n > 1, OpenArray(b, n - 1)
  PROVE  ItemCells(SubSeq(b, 1, n)) # {}
<1>0. Cap \in Nat
  BY BulkAssumption
<1>1. b[1] = Open /\ 1 \in 1..(n - 1)
  BY <1>0 DEF OpenArray
<1>2. PICK p \in Payloads :
        1 + Size[p] <= n - 1 /\ \A k \in 1..Size[p] : b[1 + k] = Text(p)[k]
  BY <1>1 DEF OpenArray
<1>3. Size[p] \in Nat /\ Size[p] > 0
  BY SizesArePositive
<1>4. Size[p] \in 1..Size[p] /\ 1 + Size[p] \in 1..n
  BY <1>0, <1>2, <1>3
<1>5. b[1 + Size[p]][1] = "item"
  BY <1>2, <1>4, TextCells
<1>6. DOMAIN SubSeq(b, 1, n) = 1..n /\ \A i \in 1..n : SubSeq(b, 1, n)[i] = b[i]
  BY <1>0, WrittenText
<1>. QED  BY <1>4, <1>5, <1>6 DEF ItemCells

(* Initially nothing is pending and update 1 comes next.                      *)
LEMMA StreamStarts ==
  ASSUME BulkInit
  PROVE  Stream!Init /\ BulkRanked
<1>1. /\ \A t \in BulkDrivers : bulkAt[t] = "idle"
      /\ s_bulk_len = 0 /\ out = <<>> /\ received = 0
      /\ s_bulk_buf \in [1..Cap -> Cells] /\ Cap \in Nat
  BY BulkAssumption, Separators DEF BulkInit
<1>2. Written = SubSeq(s_bulk_buf, 1, 0)
  BY <1>1 DEF Written
<1>3. DOMAIN Written = {}
  <2>1. 0 \in 0..Cap /\ 1..0 = {}
    BY <1>1
  <2>. QED  BY <1>1, <1>2, <2>1, WrittenText
<1>4. Ranked(Written) /\ Items(Written) = <<>>
  <2>1. ItemCells(Written) = {}
    BY <1>3 DEF ItemCells
  <2>. QED  BY <2>1, NoItems
<1>5. Pending = <<>> /\ Shown = <<>> /\ NextUpdate = 1
  BY <1>1, <1>4 DEF Pending, Shown, NextUpdate, InHand
<1>. QED  BY <1>4, <1>5 DEF Stream!Init, BulkRanked

(* What is written of the buffer, before and after a step.                    *)
LEMMA WrittenIs ==
  ASSUME BulkTypes, BulkTypes'
  PROVE  /\ Written = SubSeq(s_bulk_buf, 1, s_bulk_len)
         /\ Written' = SubSeq(s_bulk_buf', 1, s_bulk_len')
         /\ s_bulk_buf \in [1..Cap -> Cells] /\ s_bulk_len \in 0..Cap
         /\ s_bulk_buf' \in [1..Cap -> Cells] /\ s_bulk_len' \in 0..Cap
         /\ s_bulk_len \in Nat /\ s_bulk_len' \in Nat /\ Cap \in Nat
<1>1. /\ s_bulk_buf \in [1..Cap -> Cells] /\ s_bulk_len \in 0..Cap
      /\ s_bulk_buf' \in [1..Cap -> Cells] /\ s_bulk_len' \in 0..Cap
      /\ Cap \in Nat
  BY BulkAssumption DEF BulkTypes
<1>2. /\ s_bulk_len \in Nat /\ ~ (s_bulk_len > Cap)
      /\ s_bulk_len' \in Nat /\ ~ (s_bulk_len' > Cap)
  BY <1>1
<1>3. Written = SubSeq(s_bulk_buf, 1, s_bulk_len)
  BY <1>2 DEF Written
<1>4. Written' = SubSeq(s_bulk_buf', 1, s_bulk_len')
  BY <1>2 DEF Written
<1>. QED  BY <1>1, <1>2, <1>3, <1>4

(* What the stream sees of the coalescer is what the task sees whose turn it  *)
(* is.                                                                        *)
PendingOf(d) == IF bulkAt[d] = "reset_len" THEN <<>> ELSE Items(Written)
NextOf(d) == IF InHand(d) THEN received ELSE received + 1

LEMMA StreamView ==
  ASSUME NEW d \in BulkDrivers, Turn(d), Turn(d)'
  PROVE  /\ Pending = PendingOf(d) /\ Pending' = PendingOf(d)'
         /\ NextUpdate = NextOf(d) /\ NextUpdate' = NextOf(d)'
<1>1. \A u \in BulkDrivers : u # d => bulkAt[u] = "idle" /\ bulkAt'[u] = "idle"
  BY DEF Turn, OthersIdle
<1>2. (\E t \in BulkDrivers : bulkAt[t] = "reset_len") <=> bulkAt[d] = "reset_len"
  BY <1>1
<1>3. (\E t \in BulkDrivers : bulkAt'[t] = "reset_len") <=> bulkAt'[d] = "reset_len"
  BY <1>1
<1>4. (\E t \in BulkDrivers : InHand(t)) <=> InHand(d)
  BY <1>1 DEF InHand
<1>5. (\E t \in BulkDrivers : InHand(t)') <=> InHand(d)'
  BY <1>1 DEF InHand
<1>6. Pending = PendingOf(d) /\ Pending' = PendingOf(d)'
  BY <1>2, <1>3 DEF Pending, PendingOf
<1>7. NextUpdate = NextOf(d)
  BY <1>4 DEF NextUpdate, NextOf
<1>8. NextUpdate' = NextOf(d)'
  BY <1>5 DEF NextUpdate, NextOf
<1>. QED  BY <1>6, <1>7, <1>8

(* Where nothing is sent, the events stay.                                    *)
LEMMA ShownStays ==
  ASSUME UNCHANGED out
  PROVE  Shown' = Shown
  BY DEF Shown

(* The steps before anything is written.                                      *)
LEMMA StreamStutters ==
  ASSUME NEW d \in BulkDrivers, Turn(d), Turn(d)', BulkRanked,
         Receive(d) \/ TryAppend(d) \/ Retry(d) \/ Count(d)
           \/ Flush(d) \/ Window(d) \/ ResetCount(d)
  PROVE  BulkRanked' /\ UNCHANGED <<Pending, Shown, NextUpdate>>
<1>. DEFINE here == bulkAt[d]
<1>0. BulkTypes /\ BulkTypes' /\ UpdateInHand(d) /\ SentIsRight'
  BY DEF Turn, BulkInv
<1>1. UNCHANGED <<s_bulk_buf, s_bulk_len, out>> /\ bulkAt'[d] # "reset_len" /\ here # "reset_len"
  <2>1. CASE Receive(d)
    BY <1>0, <2>1, WrittenIs DEF Receive, CallFlush, Place, BulkTypes, bufVars
  <2>2. CASE TryAppend(d) \/ Retry(d) \/ Window(d)
    BY <1>0, <2>2, WrittenIs DEF TryAppend, Retry, Window, Timer, CallFlush, Place, BulkTypes, bufVars, bulkHistory
  <2>3. CASE Count(d) \/ Flush(d) \/ ResetCount(d)
    BY <1>0, <2>3, WrittenIs DEF Count, Flush, ResetCount, Place, BulkTypes, bufVars, bulkHistory
  <2>. QED  BY <2>1, <2>2, <2>3
<1>2. Written' = Written /\ Shown' = Shown
  BY <1>1, ShownStays DEF Written
<1>3. Pending' = Pending /\ BulkRanked'
  BY <1>1, <1>2, StreamView DEF PendingOf, BulkRanked
<1>4. NextUpdate' = NextUpdate
  <2>. USE DEF NextOf, InHand
  <2>. SUFFICES NextOf(d)' = NextOf(d)
    BY StreamView
  <2>1. CASE Receive(d)
    <3>1. /\ here = "idle" /\ received' = received + 1
          /\ \/ bulkAt'[d] = "append"
             \/ bulkAt'[d] = "flush" /\ after'[d] = "alone"
      BY <1>0, <2>1, WrittenIs DEF Receive, CallFlush, Place, BulkTypes
    <3>. QED  BY <3>1
  <2>2. CASE TryAppend(d)
    <3>1. /\ here = "append" /\ UNCHANGED received
          /\ \/ bulkAt'[d] = "separator"
             \/ bulkAt'[d] = "flush" /\ after'[d] = "retry"
      BY <1>0, <2>2, WrittenIs DEF TryAppend, CallFlush, Place, BulkTypes, bulkHistory
    <3>. QED  BY <3>1
  <2>3. CASE Retry(d)
    <3>1. here = "retry" /\ payload[d] \in Payloads
      BY <1>0, <2>3 DEF Retry, UpdateInHand
    <3>2. dropped' = {}
      BY <1>0 DEF SentIsRight
    <3>3. bulkAt'[d] = "separator" /\ UNCHANGED received
      BY <1>0, <2>3, <3>1, <3>2, WrittenIs DEF Retry, Place, BulkTypes
    <3>. QED  BY <3>1, <3>3
  <2>4. CASE Count(d)
    BY <1>0, <2>4, WrittenIs DEF Count, Place, BulkTypes, bulkHistory
  <2>5. CASE Flush(d)
    <3>1. /\ here = "flush" /\ UNCHANGED <<after, received>>
          /\ bulkAt'[d] = after[d] \/ bulkAt'[d] = "close"
          /\ after[d] \in {"idle", "retry", "alone"}
      BY <1>0, <2>5, WrittenIs DEF Flush, Place, BulkTypes, bulkHistory
    <3>. QED  BY <3>1
  <2>6. CASE Window(d)
    <3>1. /\ here = "idle" /\ UNCHANGED received
          /\ bulkAt'[d] = "flush" /\ after'[d] = "idle"
      BY <1>0, <2>6, WrittenIs DEF Window, Timer, CallFlush, Place, BulkTypes, bulkHistory
    <3>. QED  BY <3>1
  <2>7. CASE ResetCount(d)
    <3>1. /\ here = "reset_count" /\ UNCHANGED <<after, received>>
          /\ bulkAt'[d] = after[d]
          /\ after[d] \in {"idle", "retry", "alone"}
      BY <1>0, <2>7, WrittenIs DEF ResetCount, Place, BulkTypes, bulkHistory
    <3>. QED  BY <3>1
  <2>. QED  BY <2>1, <2>2, <2>3, <2>4, <2>5, <2>6, <2>7
<1>. QED  BY <1>2, <1>3, <1>4

(* A separator, the end of the array and a text beyond the length add no item.*)
LEMMA StreamWrites ==
  ASSUME NEW d \in BulkDrivers, Turn(d), Turn(d)', BulkRanked,
         Separator(d) \/ Copy(d) \/ CloseArray(d)
  PROVE  BulkRanked' /\ UNCHANGED <<Pending, Shown, NextUpdate>>
<1>. DEFINE here == bulkAt[d]
            n == s_bulk_len
            m == s_bulk_len'
<1>0. /\ BulkTypes /\ BulkTypes' /\ BufferIsOpen(d) /\ CountIsRight(d) /\ UpdateInHand(d)
      /\ BufferIsOpen(d)'
  BY DEF Turn, BulkInv
<1>1. /\ Written = SubSeq(s_bulk_buf, 1, n) /\ Written' = SubSeq(s_bulk_buf', 1, m)
      /\ n \in Nat /\ n \in 0..Cap /\ m \in 0..Cap /\ Cap \in Nat
      /\ s_bulk_buf \in [1..Cap -> Cells] /\ s_bulk_buf' \in [1..Cap -> Cells]
  BY <1>0, WrittenIs
<1>2. /\ UNCHANGED <<out, received, after>>
      /\ \/ here = "separator" /\ bulkAt'[d] = "copy" /\ m = n + 1
         \/ here = "copy" /\ bulkAt'[d] = "grow" /\ m = n
         \/ here = "close" /\ bulkAt'[d] = "emit" /\ m = n + 1
  BY <1>0, WrittenIs DEF Separator, Copy, CloseArray, Place, BulkTypes
<1>3. \E text \in Seq(Cells) : Write(text) /\ n + Len(text) <= Cap
  <2>1. CASE Separator(d)
    <3>. DEFINE sep == <<IF s_bulk_count = 0 THEN Open ELSE Comma>>
    <3>1. Write(sep) /\ sep \in Seq(Cells) /\ Len(sep) = 1
      BY <2>1, Separators DEF Separator
    <3>. HIDE DEF sep
    <3>2. n + Len(sep) <= Cap
      BY <1>0, <1>1, <2>1, <3>1, SizesArePositive DEF Separator, UpdateInHand, InHand
    <3>. QED  BY <3>1, <3>2
  <2>2. CASE Copy(d)
    <3>. DEFINE p == payload[d]
    <3>1. here = "copy"
      BY <2>2 DEF Copy
    <3>2. p \in Payloads /\ n + Size[p] + 1 <= Cap
      BY <1>0, <3>1 DEF UpdateInHand, InHand
    <3>3. Write(Text(p)) /\ Text(p) \in Seq(Cells) /\ Len(Text(p)) = Size[p] /\ Size[p] \in Nat
      BY <2>2, <3>2, TextCells, SizesArePositive DEF Copy
    <3>. QED  BY <1>1, <3>2, <3>3
  <2>3. CASE CloseArray(d)
    <3>1. Write(<<Close>>) /\ <<Close>> \in Seq(Cells) /\ Len(<<Close>>) = 1
      BY <2>3, Separators DEF CloseArray
    <3>2. n + 1 <= Cap
      BY <1>1, <1>2, <2>3 DEF CloseArray
    <3>. QED  BY <3>1, <3>2
  <2>. QED  BY <2>1, <2>2, <2>3
<1>4. \A i \in 1..n : s_bulk_buf'[i] = s_bulk_buf[i]
  BY <1>1, <1>3, WriteCells
<1>5. \A i \in (n + 1)..m : s_bulk_buf'[i][1] # "item"
  <2>1. CASE m = n
    BY <1>1, <2>1
  <2>2. CASE m = n + 1
    <3>1. bulkAt'[d] = "copy" \/ bulkAt'[d] = "emit"
      BY <1>1, <1>2, <2>2
    <3>2. s_bulk_buf'[m] \in {Open, Comma, Close}
      BY <1>0, <3>1 DEF BufferIsOpen
    <3>3. \A i \in (n + 1)..m : i = m
      BY <1>1, <2>2
    <3>. QED  BY <3>2, <3>3, Separators
  <2>. QED  BY <1>2, <2>1, <2>2
<1>6. n <= m
  BY <1>1, <1>2
<1>7. Ranked(SubSeq(s_bulk_buf, 1, n))
  BY <1>1 DEF BulkRanked
<1>8. Ranked(Written') /\ Items(Written') = Items(Written)
  <2>1. /\ Ranked(SubSeq(s_bulk_buf', 1, m))
        /\ Items(SubSeq(s_bulk_buf', 1, m)) = Items(SubSeq(s_bulk_buf, 1, n))
    <3>1. SameUpTo(s_bulk_buf, s_bulk_buf', n) /\ NoItemIn(s_bulk_buf', n, m)
      BY <1>4, <1>5 DEF SameUpTo, NoItemIn
    <3>. QED  BY <1>1, <1>6, <1>7, <3>1, ItemsKept
  <2>. QED  BY <1>1, <2>1
<1>9. Pending' = Pending
  BY <1>2, <1>8, StreamView DEF PendingOf
<1>10. NextUpdate' = NextUpdate
  BY <1>2, StreamView DEF NextOf, InHand
<1>. QED  BY <1>2, <1>8, <1>9, <1>10, ShownStays DEF BulkRanked

(* With the length, the update that was copied is pending.                    *)
LEMMA StreamAdds ==
  ASSUME NEW d \in BulkDrivers, Turn(d), Turn(d)', BulkRanked, Grow(d)
  PROVE  BulkRanked' /\ Stream!Add
<1>. DEFINE p == payload[d]
<1>0. BulkTypes /\ BulkTypes' /\ BufferIsOpen(d) /\ UpdateInHand(d)
  BY DEF Turn, BulkInv
<1>1. /\ Written = SubSeq(s_bulk_buf, 1, s_bulk_len) /\ Written' = SubSeq(s_bulk_buf', 1, s_bulk_len')
      /\ s_bulk_len \in Nat /\ s_bulk_len \in 0..Cap /\ s_bulk_len' \in 0..Cap
      /\ s_bulk_buf \in [1..Cap -> Cells] /\ d \in BulkDrivers /\ Cap \in Nat
  BY <1>0, WrittenIs
<1>2. /\ bulkAt[d] = "grow" /\ bulkAt'[d] = "count"
      /\ s_bulk_len' = s_bulk_len + Size[p] /\ UNCHANGED <<s_bulk_buf, received, out>>
  BY <1>0, <1>1 DEF Grow, Place, BulkTypes, bulkHistory
<1>3. /\ p \in Payloads /\ p = received
      /\ \A k \in 1..Size[p] : s_bulk_buf[s_bulk_len + k] = Text(p)[k]
  BY <1>0, <1>2 DEF BufferIsOpen, UpdateInHand, InHand
<1>4. s_bulk_len + Size[p] <= Cap /\ Ranked(SubSeq(s_bulk_buf, 1, s_bulk_len))
  BY <1>1, <1>2 DEF BulkRanked
<1>5. Ranked(Written') /\ Items(Written') = Append(Items(Written), p)
  <2>1. /\ Ranked(SubSeq(s_bulk_buf, 1, s_bulk_len + Size[p]))
        /\ Items(SubSeq(s_bulk_buf, 1, s_bulk_len + Size[p]))
             = Append(Items(SubSeq(s_bulk_buf, 1, s_bulk_len)), p)
    <3>. HIDE DEF p
    <3>. QED  BY <1>1, <1>3, <1>4, ItemsGrown
  <2>2. Written' = SubSeq(s_bulk_buf, 1, s_bulk_len + Size[p])
    BY <1>1, <1>2
  <2>. QED  BY <1>1, <2>1, <2>2
<1>6. NextUpdate = p /\ NextUpdate' = p + 1
  BY <1>2, <1>3, StreamView DEF NextOf, InHand
<1>7. Pending' = Append(Pending, NextUpdate)
  BY <1>2, <1>5, <1>6, StreamView DEF PendingOf
<1>8. Shown' = Shown
  BY <1>2, ShownStays
<1>. QED  BY <1>5, <1>6, <1>7, <1>8 DEF Stream!Add, BulkRanked

(* An event shows the items of its text.                                      *)
LEMMA ShownGrows ==
  ASSUME SentIsRight, NEW array \in BOOLEAN, NEW text \in Seq(Cells), Broadcast(array, text)
  PROVE  Shown' = Append(Shown, Items(text))
<1>. DEFINE event == [array |-> array, text |-> text]
            n == Len(out)
<1>1. out' = Append(out, event) /\ event.text = text
      /\ event \in [array : BOOLEAN, text : Seq(Cells)]
  BY DEF Broadcast
<1>2. out \in Seq([array : BOOLEAN, text : Seq(Cells)])
  BY DEF SentIsRight
<1>. HIDE DEF event
<1>3. /\ DOMAIN out = 1..n /\ DOMAIN out' = 1..(n + 1) /\ n \in Nat
      /\ \A i \in 1..n : out'[i] = out[i]
      /\ out'[n + 1] = event
  BY <1>1, <1>2
<1>. HIDE DEF n
<1>4. Shown = [i \in 1..n |-> Items(out[i].text)]
  BY <1>3 DEF Shown
<1>5. Shown' = [i \in 1..(n + 1) |-> Items(out'[i].text)]
  BY <1>3 DEF Shown
<1>. DEFINE f == [i \in 1..n |-> Items(out[i].text)]
            T == {Items(out[i].text) : i \in 1..n} \cup {Items(text)}
<1>6. f \in Seq(T) /\ Len(f) = n
  <2>1. f \in [1..n -> T]
    OBVIOUS
  <2>. HIDE DEF f, T
  <2>. QED  BY <1>3, <2>1
<1>7. Append(f, Items(text)) = [i \in 1..(n + 1) |-> IF i = n + 1 THEN Items(text) ELSE f[i]]
  <2>1. Items(text) \in T
    OBVIOUS
  <2>. HIDE DEF f, T
  <2>2. /\ Append(f, Items(text)) \in Seq(T)
        /\ Len(Append(f, Items(text))) = n + 1
        /\ \A i \in 1..n : Append(f, Items(text))[i] = f[i]
        /\ Append(f, Items(text))[n + 1] = Items(text)
    BY <1>6, <2>1, AppendProperties
  <2>. DEFINE g == Append(f, Items(text))
  <2>3. g = [i \in 1..(n + 1) |-> g[i]]
    <3>1. g \in Seq(T) /\ Len(g) = n + 1
      BY <2>2
    <3>. HIDE DEF g
    <3>. QED  BY <3>1
  <2>. HIDE DEF g
  <2>4. ASSUME NEW i \in 1..(n + 1)
        PROVE  g[i] = IF i = n + 1 THEN Items(text) ELSE f[i]
    <3>1. i \in 1..n \/ i = n + 1
      BY <1>3
    <3>. QED  BY <1>3, <2>2, <3>1 DEF g
  <2>5. g = [i \in 1..(n + 1) |-> IF i = n + 1 THEN Items(text) ELSE f[i]]
    BY <2>3, <2>4
  <2>. QED  BY <2>5 DEF g
<1>8. ASSUME NEW i \in 1..(n + 1)
      PROVE  Items(out'[i].text) = IF i = n + 1 THEN Items(text) ELSE f[i]
  <2>1. CASE i = n + 1
    BY <1>1, <1>3, <2>1
  <2>2. CASE i # n + 1
    <3>1. i \in 1..n
      BY <1>3, <2>2
    <3>2. f[i] = Items(out[i].text)
      BY <3>1
    <3>. QED  BY <1>3, <2>2, <3>1, <3>2
  <2>. QED  BY <2>1, <2>2
<1>9. Shown' = Append(f, Items(text))
  <2>. HIDE DEF f, T
  <2>. QED  BY <1>5, <1>7, <1>8
<1>. QED  BY <1>4, <1>9

(* The array goes out with everything that is pending, which is something.    *)
LEMMA StreamEmits ==
  ASSUME NEW d \in BulkDrivers, Turn(d), Turn(d)', BulkRanked, Emit(d)
  PROVE  BulkRanked' /\ Stream!Emit
<1>0. BulkTypes /\ BulkTypes' /\ BufferIsOpen(d) /\ SentIsRight
  BY DEF Turn, BulkInv
<1>1. /\ Written = SubSeq(s_bulk_buf, 1, s_bulk_len)
      /\ s_bulk_len \in Nat /\ s_bulk_len \in 0..Cap
      /\ s_bulk_buf \in [1..Cap -> Cells] /\ d \in BulkDrivers /\ Cap \in Nat
  BY <1>0, WrittenIs
<1>2. /\ bulkAt[d] = "emit" /\ bulkAt'[d] = "reset_len"
      /\ UNCHANGED <<s_bulk_buf, s_bulk_len, received, after>> /\ Broadcast(TRUE, Written)
  BY <1>0, <1>1 DEF Emit, Place, BulkTypes, bufVars
<1>3. s_bulk_len > 1 /\ OpenArray(s_bulk_buf, s_bulk_len - 1)
  BY <1>0, <1>2 DEF BufferIsOpen
<1>4. Written \in Seq(Cells)
  BY <1>1, WrittenText
<1>5. ItemCells(Written) # {}
  <2>1. s_bulk_len \in 1..Cap
    BY <1>1, <1>3
  <2>. QED  BY <1>1, <1>3, <2>1, ItemsThere
<1>6. Items(Written) # <<>>
  <2>1. Cardinality(ItemCells(Written)) # 0
    BY <1>4, <1>5, ItemCellsFinite, FS_EmptySet
  <2>2. Len(Items(Written)) = Cardinality(ItemCells(Written))
    BY <1>4, ItemsType DEF BulkRanked
  <2>. QED  BY <2>1, <2>2
<1>7. Pending = Items(Written) /\ Pending' = <<>>
  BY <1>2, StreamView DEF PendingOf
<1>8. Shown' = Append(Shown, Items(Written))
  BY <1>0, <1>2, <1>4, ShownGrows
<1>9. NextUpdate' = NextUpdate
  BY <1>2, StreamView DEF NextOf, InHand
<1>10. BulkRanked'
  BY <1>2 DEF BulkRanked, Written
<1>. QED  BY <1>6, <1>7, <1>8, <1>9, <1>10 DEF Stream!Emit

(* The buffer is emptied: nothing is pending, as before.                      *)
LEMMA StreamEmptied ==
  ASSUME NEW d \in BulkDrivers, Turn(d), Turn(d)', BulkRanked, ResetLen(d)
  PROVE  BulkRanked' /\ UNCHANGED <<Pending, Shown, NextUpdate>>
<1>0. BulkTypes /\ BulkTypes'
  BY DEF Turn, BulkInv
<1>1. /\ Written' = SubSeq(s_bulk_buf', 1, s_bulk_len') /\ s_bulk_buf' \in [1..Cap -> Cells]
      /\ d \in BulkDrivers /\ Cap \in Nat
  BY <1>0, WrittenIs
<1>2. /\ bulkAt[d] = "reset_len" /\ bulkAt'[d] = "reset_count" /\ s_bulk_len' = 0
      /\ UNCHANGED <<received, after, out>>
  BY <1>0, <1>1 DEF ResetLen, Place, BulkTypes, bulkHistory
<1>3. DOMAIN Written' = {}
  <2>1. 0 \in 0..Cap /\ 1..0 = {}
    BY <1>1
  <2>2. DOMAIN SubSeq(s_bulk_buf', 1, 0) = 1..0
    BY <1>1, <2>1, WrittenText
  <2>. QED  BY <1>1, <1>2, <2>1, <2>2
<1>4. Ranked(Written') /\ Items(Written') = <<>>
  <2>1. ItemCells(Written') = {}
    BY <1>3 DEF ItemCells
  <2>. QED  BY <2>1, NoItems
<1>5. Pending' = Pending
  BY <1>2, <1>4, StreamView DEF PendingOf
<1>6. NextUpdate' = NextUpdate
  BY <1>2, StreamView DEF NextOf, InHand
<1>. QED  BY <1>2, <1>4, <1>5, <1>6, ShownStays DEF BulkRanked

(* An update that goes out by itself overtakes nothing.                       *)
LEMMA StreamSendsAlone ==
  ASSUME NEW d \in BulkDrivers, Turn(d), Turn(d)', BulkRanked, SendAlone(d)
  PROVE  BulkRanked' /\ Stream!EmitAlone
<1>. DEFINE p == payload[d]
<1>0. BulkTypes /\ BulkTypes' /\ CountIsRight(d) /\ UpdateInHand(d) /\ SentIsRight
  BY DEF Turn, BulkInv
<1>1. /\ Written = SubSeq(s_bulk_buf, 1, s_bulk_len) /\ s_bulk_buf \in [1..Cap -> Cells]
      /\ d \in BulkDrivers /\ Cap \in Nat
  BY <1>0, WrittenIs
<1>2. /\ bulkAt[d] = "alone" /\ bulkAt'[d] = "idle"
      /\ UNCHANGED <<s_bulk_buf, s_bulk_len, received>> /\ Broadcast(FALSE, Text(p))
  BY <1>0, <1>1 DEF SendAlone, Place, BulkTypes, bufVars
<1>3. s_bulk_len = 0 /\ p \in Payloads /\ p = received
  BY <1>0, <1>2 DEF CountIsRight, UpdateInHand, InHand
<1>4. DOMAIN Written = {}
  <2>1. 0 \in 0..Cap /\ 1..0 = {}
    BY <1>1
  <2>2. DOMAIN SubSeq(s_bulk_buf, 1, 0) = 1..0
    BY <1>1, <2>1, WrittenText
  <2>. QED  BY <1>1, <1>3, <2>1, <2>2
<1>5. Items(Written) = <<>>
  <2>1. ItemCells(Written) = {}
    BY <1>4 DEF ItemCells
  <2>. QED  BY <2>1, NoItems
<1>6. Written' = Written
  BY <1>2 DEF Written
<1>7. Pending = <<>> /\ Pending' = <<>> /\ BulkRanked'
  BY <1>2, <1>5, <1>6, StreamView DEF PendingOf, BulkRanked
<1>8. NextUpdate = p /\ NextUpdate' = p + 1
  BY <1>2, <1>3, StreamView DEF NextOf, InHand
<1>9. Shown' = Append(Shown, <<p>>)
  <2>1. Text(p) \in Seq(Cells) /\ Items(Text(p)) = <<p>>
    BY <1>3, TextCells, ItemsAlone
  <2>2. Shown' = Append(Shown, Items(Text(p)))
    BY <1>0, <1>2, <2>1, ShownGrows
  <2>. QED  BY <2>1, <2>2
<1>. QED  BY <1>7, <1>8, <1>9 DEF Stream!EmitAlone

(* Every step in turn is one of the stream or changes nothing there.          *)
LEMMA StreamSteps ==
  ASSUME InTurns, BulkRanked, [BulkNext]_bulkVars, ~ met'
  PROVE  BulkRanked' /\ [Stream!Next]_Stream!vars
<1>1. CASE UNCHANGED bulkVars
  <2>1. UNCHANGED <<Pending, Shown, NextUpdate>> /\ BulkRanked'
    BY <1>1 DEF bulkVars, bufVars, bulkHistory, Pending, Shown, NextUpdate, InHand, Written, BulkRanked
  <2>. QED  BY <2>1 DEF Stream!vars
<1>2. CASE BulkNext
  <2>1. PICK d \in BulkDrivers : Turn(d) /\ Turn(d)' /\ StepOf(d)
    BY <1>2, InTurnStep
  <2>2. BulkRanked' /\ (Stream!Next \/ UNCHANGED <<Pending, Shown, NextUpdate>>)
    BY <2>1, StreamStutters, StreamWrites, StreamAdds, StreamEmits, StreamEmptied, StreamSendsAlone
      DEF StepOf, Step, Stream!Next
  <2>. QED  BY <2>2 DEF Stream!vars
<1>. QED  BY <1>1, <1>2

(* As long as no two tasks meet in it, the coalescer implements what the      *)
(* browser is promised: the updates come in the order they were received,     *)
(* each one once, in batches that are not empty.                              *)
THEOREM BulkImplementsStream == BulkSpec /\ []~met => Stream!Safety
<1>1. BulkInit => Stream!Init /\ BulkRanked
  BY StreamStarts
<1>2. InTurns /\ BulkRanked /\ [BulkNext]_bulkVars /\ ~ met'
        => BulkRanked' /\ [Stream!Next]_Stream!vars
  BY StreamSteps
<1>3. BulkSpec => []InTurns
  BY BulkInvariant
<1>. QED  BY <1>1, <1>2, <1>3, PTL DEF BulkSpec, Stream!Safety

-----------------------------------------------------------------------------
(* UpdateStream shows 1, 2, ... without a gap or a repetition.                *)

(* The last update that was sent.                                             *)
LastSent(e) == IF e = <<>> THEN 0 ELSE Stream!EndOf(Stream!EndOf(e))
StartsAt(p, n) == p # <<>> => p[1] = n
StreamInOrder(p, e, n) ==
  /\ p \in Seq(Nat) /\ e \in Seq(Seq(Nat)) /\ n \in Nat
  /\ \A k \in DOMAIN e :
       /\ e[k] # <<>> /\ Stream!Consecutive(e[k])
       /\ e[k][1] = IF k = 1 THEN 1 ELSE Stream!EndOf(e[k - 1]) + 1
  /\ Stream!Consecutive(p) /\ StartsAt(p, LastSent(e) + 1)
  /\ n = 1 + IF p = <<>> THEN LastSent(e) ELSE Stream!EndOf(p)

(* The next number behind consecutive ones.                                   *)
LEMMA ConsecutiveGrows ==
  ASSUME NEW s \in Seq(Nat), NEW n \in Nat, Stream!Consecutive(s),
         s # <<>> => n = Stream!EndOf(s) + 1
  PROVE  /\ Append(s, n) \in Seq(Nat) /\ Append(s, n) # <<>> /\ Stream!Consecutive(Append(s, n))
         /\ Stream!EndOf(Append(s, n)) = n
         /\ Append(s, n)[1] = IF s = <<>> THEN n ELSE s[1]
<1>. DEFINE t == Append(s, n)
            m == Len(s)
<1>1. /\ t \in Seq(Nat) /\ Len(t) = m + 1 /\ t[m + 1] = n /\ m \in Nat /\ (m = 0 <=> s = <<>>)
      /\ \A i \in 1..m : t[i] = s[i]
  BY AppendProperties
<1>2. \A j \in 1..(m - 1) : s[j + 1] = s[j] + 1
  BY DEF Stream!Consecutive
<1>3. m > 0 => n = s[m] + 1
  BY <1>1 DEF Stream!EndOf
<1>. HIDE DEF t, m
<1>4. ASSUME NEW j \in 1..m PROVE t[j + 1] = t[j] + 1
  <2>1. CASE j = m
    BY <1>1, <1>3, <2>1
  <2>2. CASE j # m
    <3>1. j \in 1..(m - 1) /\ j + 1 \in 1..m
      BY <1>1, <2>2
    <3>. QED  BY <1>1, <1>2, <3>1
  <2>. QED  BY <2>1, <2>2
<1>5. Stream!Consecutive(t)
  <2>1. Len(t) - 1 = m
    BY <1>1
  <2>. QED  BY <1>4, <2>1 DEF Stream!Consecutive
<1>6. t[1] = IF s = <<>> THEN n ELSE s[1]
  <2>1. s # <<>> => 1 \in 1..m
    BY <1>1
  <2>2. s = <<>> => m + 1 = 1
    BY <1>1
  <2>. QED  BY <1>1, <2>1, <2>2
<1>7. Stream!EndOf(t) = n
  BY <1>1 DEF Stream!EndOf
<1>8. t # <<>>
  BY <1>1
<1>. QED  BY <1>1, <1>5, <1>6, <1>7, <1>8 DEF t

(* A batch that begins behind the last one.                                   *)
LEMMA BatchFollows ==
  ASSUME NEW p, NEW e, NEW n, StreamInOrder(p, e, n),
         NEW q \in Seq(Nat), q # <<>>, Stream!Consecutive(q), q[1] = LastSent(e) + 1
  PROVE  StreamInOrder(<<>>, Append(e, q), Stream!EndOf(q) + 1)
<1>. DEFINE f == Append(e, q)
            m == Len(e)
<1>1. e \in Seq(Seq(Nat))
  BY DEF StreamInOrder
<1>2. /\ f \in Seq(Seq(Nat)) /\ Len(f) = m + 1 /\ f[m + 1] = q /\ m \in Nat
      /\ (m = 0 <=> e = <<>>) /\ \A i \in 1..m : f[i] = e[i]
  BY <1>1, AppendProperties
<1>3. DOMAIN e = 1..m
  BY <1>1
<1>. HIDE DEF f, m
<1>4. DOMAIN f = 1..(m + 1) /\ f # <<>>
  BY <1>2
<1>5. LastSent(f) = Stream!EndOf(q)
  <2>1. Stream!EndOf(f) = q
    BY <1>2 DEF Stream!EndOf
  <2>. QED  BY <1>4, <2>1 DEF LastSent
<1>6. m > 0 => LastSent(e) = Stream!EndOf(e[m])
  BY <1>2 DEF LastSent, Stream!EndOf, m
<1>7. ASSUME NEW k \in 1..(m + 1)
      PROVE  /\ f[k] # <<>> /\ Stream!Consecutive(f[k])
             /\ f[k][1] = IF k = 1 THEN 1 ELSE Stream!EndOf(f[k - 1]) + 1
  <2>1. CASE k = m + 1
    <3>1. f[k] = q
      BY <1>2, <2>1
    <3>2. q[1] = IF k = 1 THEN 1 ELSE Stream!EndOf(f[k - 1]) + 1
      <4>1. CASE k = 1
        <5>1. LastSent(e) = 0
          BY <1>2, <2>1, <4>1 DEF LastSent
        <5>. QED  BY <4>1, <5>1
      <4>2. CASE k # 1
        <5>1. k - 1 = m /\ m > 0 /\ m \in 1..m
          BY <1>2, <2>1, <4>2
        <5>2. f[k - 1] = e[m]
          BY <1>2, <5>1
        <5>. QED  BY <1>6, <4>2, <5>1, <5>2
      <4>. QED  BY <4>1, <4>2
    <3>. QED  BY <3>1, <3>2
  <2>2. CASE k # m + 1
    <3>1. k \in 1..m /\ (k # 1 => k - 1 \in 1..m)
      BY <1>2, <2>2
    <3>2. f[k] = e[k] /\ (k # 1 => f[k - 1] = e[k - 1])
      BY <1>2, <3>1
    <3>3. /\ e[k] # <<>> /\ Stream!Consecutive(e[k])
          /\ e[k][1] = IF k = 1 THEN 1 ELSE Stream!EndOf(e[k - 1]) + 1
      BY <1>3, <3>1 DEF StreamInOrder
    <3>. QED  BY <3>2, <3>3
  <2>. QED  BY <2>1, <2>2
<1>8. Stream!EndOf(q) \in Nat
  BY DEF Stream!EndOf
<1>9. <<>> \in Seq(Nat) /\ Stream!Consecutive(<<>>) /\ StartsAt(<<>>, LastSent(f) + 1)
  BY DEF Stream!Consecutive, StartsAt
<1>10. StreamInOrder(<<>>, f, Stream!EndOf(q) + 1)
  <2>1. Stream!EndOf(q) + 1 \in Nat
    BY <1>8
  <2>2. Stream!EndOf(q) + 1 = 1 + IF <<>> = <<>> THEN LastSent(f) ELSE Stream!EndOf(<<>>)
    BY <1>5, <1>8
  <2>3. \A k \in DOMAIN f :
          /\ f[k] # <<>> /\ Stream!Consecutive(f[k])
          /\ f[k][1] = IF k = 1 THEN 1 ELSE Stream!EndOf(f[k - 1]) + 1
    BY <1>4, <1>7
  <2>. QED  BY <1>2, <1>9, <2>1, <2>2, <2>3 DEF StreamInOrder
<1>. QED  BY <1>10 DEF f

(* Every step of the stream keeps the order.                                  *)
LEMMA OrderKept ==
  ASSUME StreamInOrder(Pending, Shown, NextUpdate), Stream!Next
  PROVE  StreamInOrder(Pending', Shown', NextUpdate')
<1>0. Pending \in Seq(Nat) /\ Shown \in Seq(Seq(Nat)) /\ NextUpdate \in Nat
  BY DEF StreamInOrder
<1>1. CASE Stream!Add
  <2>1. Pending' = Append(Pending, NextUpdate) /\ NextUpdate' = NextUpdate + 1 /\ Shown' = Shown
    BY <1>1 DEF Stream!Add
  <2>2. Pending # <<>> => NextUpdate = Stream!EndOf(Pending) + 1
    <3>1. Pending # <<>> => Stream!EndOf(Pending) \in Nat
      BY <1>0 DEF Stream!EndOf
    <3>. QED  BY <3>1 DEF StreamInOrder
  <2>3. Stream!Consecutive(Pending)
    BY DEF StreamInOrder
  <2>4. /\ Pending' \in Seq(Nat) /\ Pending' # <<>> /\ Stream!Consecutive(Pending')
        /\ Stream!EndOf(Pending') = NextUpdate
        /\ Pending'[1] = IF Pending = <<>> THEN NextUpdate ELSE Pending[1]
    BY <1>0, <2>1, <2>2, <2>3, ConsecutiveGrows
  <2>5. LastSent(Shown) \in Nat
    <3>1. CASE Shown = <<>>
      BY <3>1 DEF LastSent
    <3>2. CASE Shown # <<>>
      <4>1. Len(Shown) \in DOMAIN Shown
        BY <1>0, <3>2
      <4>2. Shown[Len(Shown)] \in Seq(Nat) /\ Shown[Len(Shown)] # <<>>
        BY <1>0, <4>1 DEF StreamInOrder
      <4>. QED  BY <3>2, <4>2 DEF LastSent, Stream!EndOf
    <3>. QED  BY <3>1, <3>2
  <2>6. Pending = <<>> => NextUpdate = LastSent(Shown) + 1
    BY <2>5 DEF StreamInOrder
  <2>7. StartsAt(Pending', LastSent(Shown) + 1)
    BY <2>4, <2>6 DEF StartsAt, StreamInOrder
  <2>. QED  BY <1>0, <2>1, <2>4, <2>7 DEF StreamInOrder
<1>2. CASE Stream!Emit
  <2>1. /\ Pending # <<>> /\ Shown' = Append(Shown, Pending) /\ Pending' = <<>>
        /\ NextUpdate' = NextUpdate
    BY <1>2 DEF Stream!Emit
  <2>2. Stream!Consecutive(Pending) /\ Pending[1] = LastSent(Shown) + 1
    BY <2>1 DEF StreamInOrder, StartsAt
  <2>3. NextUpdate = Stream!EndOf(Pending) + 1
    <3>1. Stream!EndOf(Pending) \in Nat
      BY <1>0, <2>1 DEF Stream!EndOf
    <3>. QED  BY <2>1, <3>1 DEF StreamInOrder
  <2>. QED  BY <1>0, <2>1, <2>2, <2>3, BatchFollows
<1>3. CASE Stream!EmitAlone
  <2>. DEFINE q == <<NextUpdate>>
  <2>1. /\ Pending = <<>> /\ Shown' = Append(Shown, q) /\ Pending' = <<>>
        /\ NextUpdate' = NextUpdate + 1
    BY <1>3 DEF Stream!EmitAlone
  <2>2. q \in Seq(Nat) /\ q # <<>> /\ Len(q) = 1 /\ q[1] = NextUpdate
    BY <1>0
  <2>. HIDE DEF q
  <2>3. Stream!Consecutive(q) /\ Stream!EndOf(q) = NextUpdate
    BY <2>2 DEF Stream!Consecutive, Stream!EndOf
  <2>4. NextUpdate = 1 + LastSent(Shown)
    BY <2>1 DEF StreamInOrder
  <2>5. LastSent(Shown) \in Int
    <3>1. CASE Shown = <<>>
      BY <3>1 DEF LastSent
    <3>2. CASE Shown # <<>>
      <4>1. Len(Shown) \in DOMAIN Shown
        BY <1>0, <3>2
      <4>2. Shown[Len(Shown)] \in Seq(Nat) /\ Shown[Len(Shown)] # <<>>
        BY <1>0, <4>1 DEF StreamInOrder
      <4>. QED  BY <3>2, <4>2 DEF LastSent, Stream!EndOf
    <3>. QED  BY <3>1, <3>2
  <2>6. q[1] = LastSent(Shown) + 1
    BY <2>2, <2>4, <2>5
  <2>. QED  BY <1>0, <2>1, <2>2, <2>3, <2>6, BatchFollows
<1>. QED  BY <1>1, <1>2, <1>3 DEF Stream!Next

(* Until two tasks have met in the coalescer, the browser has been shown the  *)
(* updates 1, 2, ... in this order, none left out and none twice, and what is *)
(* still in the buffer continues them.                                        *)
THEOREM UpdatesShownInSequence == BulkSpec => []ShownInSequence
<1>. DEFINE Ordered == StreamInOrder(Pending, Shown, NextUpdate)
            OrderedInTurn == ~ met => BulkRanked /\ Ordered
<1>1. BulkInit => OrderedInTurn
  <2>. SUFFICES ASSUME BulkInit PROVE BulkRanked /\ Ordered
    OBVIOUS
  <2>1. Pending = <<>> /\ Shown = <<>> /\ NextUpdate = 1 /\ BulkRanked
    BY StreamStarts DEF Stream!Init
  <2>2. /\ <<>> \in Seq(Nat) /\ <<>> \in Seq(Seq(Nat)) /\ 1 \in Nat
        /\ DOMAIN <<>> = {} /\ Stream!Consecutive(<<>>) /\ LastSent(<<>>) = 0
        /\ StartsAt(<<>>, LastSent(<<>>) + 1)
    BY DEF Stream!Consecutive, LastSent, StartsAt
  <2>3. StreamInOrder(<<>>, <<>>, 1)
    BY <2>2 DEF StreamInOrder
  <2>. QED  BY <2>1, <2>3
<1>2. Ordered /\ [Stream!Next]_Stream!vars => Ordered'
  <2>1. CASE UNCHANGED <<Pending, Shown, NextUpdate>>
    BY <2>1
  <2>2. CASE Stream!Next
    BY <2>2, OrderKept
  <2>. QED  BY <2>1, <2>2 DEF Stream!vars
<1>. HIDE DEF Ordered
<1>3. InTurns /\ OrderedInTurn /\ [BulkNext]_bulkVars => OrderedInTurn'
  <2>. SUFFICES ASSUME InTurns, OrderedInTurn, [BulkNext]_bulkVars, ~ met'
                PROVE  BulkRanked' /\ Ordered'
    OBVIOUS
  <2>1. ~ met
    BY MetStays DEF bulkVars
  <2>2. BulkRanked' /\ [Stream!Next]_Stream!vars
    BY <2>1, StreamSteps
  <2>. QED  BY <1>2, <2>1, <2>2
<1>4. OrderedInTurn => ShownInSequence
  BY DEF Ordered, StreamInOrder, ShownInSequence, Stream!InSequence, LastSent, StartsAt
<1>. HIDE DEF OrderedInTurn
<1>. QED  BY <1>1, <1>3, <1>4, BulkInvariant, PTL DEF BulkSpec
=============================================================================
