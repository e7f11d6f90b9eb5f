------------------------------- MODULE Events -------------------------------
(***************************************************************************)
(* Events, finished frames and log lines on their way to the browsers: the *)
(* queue and its worker (EventQueue), the ring of log lines (LogRing), and *)
(* what connects them, dispatch_to_sinks of main/log_ring.cpp.             *)
(*                                                                         *)
(* A task does one thing at a time: while it hands over a frame, its own   *)
(* work stands still.  Every line that is logged goes into the ring first, *)
(* and then, if the sink is on and the line was not logged inside the send *)
(* loop, to the browsers: sending may log, and a line logged is sent.      *)
(***************************************************************************)
EXTENDS Naturals, FiniteSets, Sequences

CONSTANTS
  EventTasks,             \* tasks that call ws_event_broadcast (TaskHAP, TaskOTA)
  Httpd,                \* the HTTP server's task
  Sender,               \* the worker, "ws_tx"
  Browsers, Depth, Nobody, LOG_RING_SIZE,
  MaxAllocFailures, MaxConnects, MaxLines, MaxWalks,
  MaxFrames             \* bound: numbered frames

VARIABLES
  s_evt_mutex, s_evt_buf, step, frame, s_ws_tx_q, s_ws_tx_drops,
  sending, sent, targets, failures, s_broadcast_task, clients, connects,
  made, allocFailures, lost, delivered, newest,
  s_ring, s_head, s_count, lines, walk, walks,
  s_ws_enabled          \* the log sink of the browsers

Producers == EventTasks \cup {Httpd}

ASSUME EventsAssumption ==
  /\ Sender \notin Producers
  /\ Nobody \notin Producers \cup {Sender}
  /\ LOG_RING_SIZE \in Nat \ {0}

Queue == INSTANCE EventQueue
Log == INSTANCE LogRing

producerVars == <<s_evt_mutex, s_evt_buf, step, frame, made, lost, allocFailures>>
queueVars == <<s_ws_tx_q, s_ws_tx_drops>>
senderVars == <<sending, sent, targets, failures, s_broadcast_task, delivered, newest>>
clientVars == <<clients, connects>>
eventVars == <<producerVars, queueVars, senderVars, clientVars>>
logVars == <<s_ring, s_head, s_count, lines, walk, walks>>
pathVars == <<eventVars, logVars, s_ws_enabled>>

EventsInit ==
  /\ Queue!Init /\ Log!Init
  /\ s_ws_enabled = FALSE

-----------------------------------------------------------------------------
Free(t) == step[t] = "idle" /\ (t = Httpd => ~ walk.on)
MoreFrames == Queue!Total(made) < MaxFrames

(* An event of ws_event_broadcast: a frame of the P4 that is relayed, a batch *)
(* of updates (HapBulk), the progress of an update.                           *)
Event(t) ==
  /\ Free(t) /\ MoreFrames
  /\ Queue!Make(t, "format")
  /\ UNCHANGED <<logVars, s_ws_enabled>>

(* A finished frame: "device_deleted", or a message of the MQTT broker.       *)
DirectFrame ==
  /\ Free(Httpd) /\ MoreFrames
  /\ Queue!Make(Httpd, "copy")
  /\ UNCHANGED <<logVars, s_ws_enabled>>

-----------------------------------------------------------------------------
(* dispatch_to_sinks, for a line whose level passes.                          *)
ToBrowsersUngated(t) == s_ws_enabled
ToBrowsers(t) == s_ws_enabled /\ ~ Queue!InBroadcast(t)

(* A line of any task but the worker, log_vprintf or log_sinks_publish_p4.    *)
LogLine(t) ==
  /\ Free(t)
  /\ Log!WriteLine
  /\ IF ToBrowsers(t)
       THEN MoreFrames /\ Queue!Make(t, "copy")
       ELSE UNCHANGED eventVars
  /\ UNCHANGED s_ws_enabled

(* A line of the worker itself.                                               *)
SenderLine ==
  /\ Free(Sender)
  /\ Log!WriteSendLine
  /\ IF ToBrowsers(Sender) THEN Queue!MakeLogFrame(Sender) ELSE UNCHANGED producerVars
  /\ UNCHANGED <<queueVars, clientVars, s_ws_enabled>>

(* The HTTP server's library logs inside the send loop.                       *)
LineWhileSending ==
  /\ sending = "send" /\ targets # {}
  /\ SenderLine
  /\ UNCHANGED senderVars

(* The warning about a send that failed, after the loop.                      *)
FailureLine ==
  /\ sending = "report" /\ failures > 0
  /\ SenderLine
  /\ failures' = failures - 1
  /\ UNCHANGED <<sending, sent, targets, s_broadcast_task, delivered, newest>>

(* logs.get, on the HTTP server's task.                                       *)
WalkRing ==
  /\ step[Httpd] = "idle"
  /\ Log!StartWalk \/ Log!WalkOn \/ Log!EndWalk
  /\ UNCHANGED <<eventVars, s_ws_enabled>>

(* log_sinks_set_ws: the user turns the sink on.                              *)
EnableSink ==
  /\ Free(Httpd) /\ ~ s_ws_enabled
  /\ s_ws_enabled' = TRUE
  /\ UNCHANGED <<eventVars, logVars>>

-----------------------------------------------------------------------------
HandOver(t) == Queue!Produce(t) /\ UNCHANGED <<logVars, s_ws_enabled>>
(* While the worker hands over a line of its own it does not go on sending.   *)
Work == Free(Sender) /\ Queue!Work /\ UNCHANGED <<logVars, s_ws_enabled>>
Connect == (\E c \in Browsers : Queue!Connect(c)) /\ UNCHANGED <<logVars, s_ws_enabled>>

EventsNext ==
  \/ \E t \in EventTasks : Event(t)
  \/ DirectFrame
  \/ \E t \in Producers : LogLine(t)
  \/ LineWhileSending \/ FailureLine \/ WalkRing \/ EnableSink
  \/ \E t \in Producers \cup {Sender} : HandOver(t)
  \/ Work \/ Connect

EventsSpec == EventsInit /\ [][EventsNext]_pathVars

(* The tasks run (the mutex is given to each that waits for it), and a send   *)
(* to a client ends.                                                          *)
EventsFairSpec ==
  /\ EventsSpec
  /\ \A t \in Producers \cup {Sender} : SF_pathVars(HandOver(t))
  /\ WF_pathVars(Work)
  /\ WF_pathVars(FailureLine)

-----------------------------------------------------------------------------
EventsTypeOK ==
  /\ Queue!TypeOK /\ Log!TypeOK
  /\ s_ws_enabled \in BOOLEAN

(* The frames of each task reach the browsers in the order in which it made   *)
(* them, each at most once: what one task formats in the shared slab never    *)
(* reaches the copy of another.                                               *)
InOrder == Queue!InOrder
(* Every frame made is still with its producer, queued, sent, or in the count *)
(* of drops; only an event whose copy could not be allocated is in no count.  *)
DropsCounted ==
  Cardinality(Queue!Frames) =
    Cardinality(Queue!InHand) + Cardinality(Queue!Numbered) + delivered + s_ws_tx_drops + lost
(* The answer to logs.get: the lines that were there at the start are in      *)
(* order and once each, and at most one of them is missing, and replaced by a *)
(* newer one, for each line written during the walk.                          *)
WalkBounded ==
  /\ Log!Ascending(Log!Old)
  /\ Cardinality(Log!New) <= walk.written
  /\ walk.on /\ Len(walk.answer) = walk.count =>
       Cardinality(Log!Old) + walk.written >= Cardinality(walk.had)
(* The queue empties again and again: sending, which logs, never keeps it     *)
(* filled by itself.                                                          *)
QueueEmpties == Queue!QueueDrains
=============================================================================
