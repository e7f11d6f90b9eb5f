----------------------------- MODULE EventQueue -----------------------------
(***************************************************************************)
(* How an event gets from the task that has it to the browsers             *)
(* (main/ws_bridge.cpp).  ws_event_broadcast formats it in a slab that all *)
(* tasks share, under a mutex, and copies it; ws_bridge_broadcast_enqueue  *)
(* copies a finished frame.  Either way the copy goes into a bounded queue *)
(* from which one worker sends to every client.  A producer never waits    *)
(* for a client: when the queue is full the frame is dropped and counted.  *)
(*                                                                         *)
(* A frame is named by the task that made it and its number there.  Lines  *)
(* logged while sending become frames as well (see LogRing); they are all  *)
(* alike here, have no number and are left out of the count of drops.      *)
(***************************************************************************)
EXTENDS Naturals, Sequences, Functions

CONSTANTS
  Producers,    \* the tasks that make events
  Sender,       \* the worker, "ws_tx"
  Browsers,     \* clients
  Depth,        \* WS_TX_QUEUE_DEPTH
  MaxAllocFailures, MaxConnects, \* bounds of what the environment does
  Nobody

VARIABLES
  s_evt_mutex,      \* its holder
  s_evt_buf,        \* the event in the slab, until it is copied
  step,             \* how far each task is with a frame
  frame,            \* the frame
  s_ws_tx_q, s_ws_tx_drops,
  sending,          \* what the worker does: "wait", "send" or "report"
  sent,             \* the frame it sends
  targets,          \* the clients it has still to send to
  failures,         \* lines about failed sends that are to be logged
  s_broadcast_task, \* the task in the send loop
  clients,          \* the connected clients
  connects,
  made,             \* how many frames each producer has made
  allocFailures,
  lost,             \* events given up without being counted
  delivered,        \* how many numbered frames were sent
  newest            \* the newest frame of each producer among them

producerVars == <<s_evt_mutex, s_evt_buf, step, frame, made, lost, allocFailures>>
queueVars == <<s_ws_tx_q, s_ws_tx_drops>>
senderVars == <<sending, sent, targets, failures, s_broadcast_task, delivered, newest>>
clientVars == <<clients, connects>>
vars == <<producerVars, queueVars, senderVars, clientVars>>

Tasks == Producers \cup {Sender}
NoFrame == [from |-> Nobody, n |-> 0]
Total(count) == SumFunction(count)
LogFrame(t) == [from |-> t, n |-> 0]

Init ==
  /\ s_evt_mutex = Nobody /\ s_evt_buf = NoFrame
  /\ step = [t \in Tasks |-> "idle"]
  /\ frame = [t \in Tasks |-> NoFrame]
  /\ s_ws_tx_q = <<>> /\ s_ws_tx_drops = 0
  /\ sending = "wait" /\ sent = NoFrame /\ targets = {} /\ failures = 0
  /\ s_broadcast_task = Nobody
  /\ clients = {} /\ connects = 0
  /\ made = [t \in Producers |-> 0]
  /\ allocFailures = 0 /\ lost = 0
  /\ delivered = 0 /\ newest = [t \in Producers |-> 0]

-----------------------------------------------------------------------------
Goto(t, place) == step' = [step EXCEPT ![t] = place]
Hand(t, f, place) == Goto(t, place) /\ frame' = [frame EXCEPT ![t] = f]

(* A producer has a new event for ws_event_broadcast ("format"), or a         *)
(* finished frame for ws_bridge_broadcast_enqueue ("copy").                   *)
Make(t, place) ==
  /\ step[t] = "idle"
  /\ made' = [made EXCEPT ![t] = @ + 1]
  /\ Hand(t, [from |-> t, n |-> made'[t]], place)
  /\ UNCHANGED <<s_evt_mutex, s_evt_buf, lost, allocFailures>>
  /\ UNCHANGED <<queueVars, senderVars, clientVars>>

(* A line about the sending itself, as a frame (sender's part left open).     *)
MakeLogFrame(t) ==
  /\ step[t] = "idle"
  /\ Hand(t, LogFrame(t), "copy")
  /\ UNCHANGED <<s_evt_mutex, s_evt_buf, made, lost, allocFailures>>

(* ws_event_broadcast: the envelope is built in the slab, then copied.        *)
FormatUnlocked(t) ==
  /\ step[t] = "format"
  /\ s_evt_mutex' = t
  /\ s_evt_buf' = frame[t]
  /\ Goto(t, "snapshot")
  /\ UNCHANGED <<frame, made, lost, allocFailures>>
  /\ UNCHANGED <<queueVars, senderVars, clientVars>>
Format(t) ==
  /\ step[t] = "format"
  /\ s_evt_mutex = Nobody
  /\ s_evt_mutex' = t
  /\ s_evt_buf' = frame[t]
  /\ Goto(t, "snapshot")
  /\ UNCHANGED <<frame, made, lost, allocFailures>>
  /\ UNCHANGED <<queueVars, senderVars, clientVars>>

AllocFails == allocFailures < MaxAllocFailures /\ allocFailures' = allocFailures + 1

Snapshot(t) ==
  /\ step[t] = "snapshot"
  /\ s_evt_mutex' = Nobody /\ s_evt_buf' = NoFrame
  /\ \/ /\ Hand(t, s_evt_buf, "enqueue")
        /\ UNCHANGED <<lost, allocFailures>>
     \/ /\ AllocFails
        /\ lost' = lost + 1
        /\ Hand(t, NoFrame, "idle")
  /\ UNCHANGED <<made, queueVars, senderVars, clientVars>>

(* ws_bridge_broadcast_enqueue: a copy that fails is counted.                 *)
Copy(t) ==
  /\ step[t] = "copy"
  /\ \/ Goto(t, "enqueue") /\ UNCHANGED <<frame, s_ws_tx_drops, allocFailures>>
     \/ /\ AllocFails
        /\ s_ws_tx_drops' = s_ws_tx_drops + (IF frame[t].n = 0 THEN 0 ELSE 1)
        /\ Hand(t, NoFrame, "idle")
  /\ UNCHANGED <<s_evt_mutex, s_evt_buf, made, lost, s_ws_tx_q, senderVars, clientVars>>

(* tx_enqueue_owned. *)
EnqueueUncounted(t) ==
  /\ step[t] = "enqueue"
  /\ s_ws_tx_q' = IF Len(s_ws_tx_q) < Depth THEN Append(s_ws_tx_q, frame[t]) ELSE s_ws_tx_q
  /\ Hand(t, NoFrame, "idle")
  /\ UNCHANGED <<s_evt_mutex, s_evt_buf, made, lost, allocFailures, s_ws_tx_drops>>
  /\ UNCHANGED <<senderVars, clientVars>>
Enqueue(t) ==
  /\ step[t] = "enqueue"
  /\ IF Len(s_ws_tx_q) < Depth
       THEN s_ws_tx_q' = Append(s_ws_tx_q, frame[t]) /\ UNCHANGED s_ws_tx_drops
       ELSE /\ s_ws_tx_drops' = s_ws_tx_drops + (IF frame[t].n = 0 THEN 0 ELSE 1)
            /\ UNCHANGED s_ws_tx_q
  /\ Hand(t, NoFrame, "idle")
  /\ UNCHANGED <<s_evt_mutex, s_evt_buf, made, lost, allocFailures, senderVars, clientVars>>

Produce(t) == Format(t) \/ Snapshot(t) \/ Copy(t) \/ Enqueue(t)

-----------------------------------------------------------------------------
(* ws_tx_worker and the send loop of ws_server_broadcast: with no client      *)
(* there is nothing to send to, and the marker is not set.                    *)
Receive ==
  /\ sending = "wait" /\ s_ws_tx_q # <<>>
  /\ sending' = "send"
  /\ sent' = Head(s_ws_tx_q)
  /\ s_ws_tx_q' = Tail(s_ws_tx_q)
  /\ targets' = clients
  /\ s_broadcast_task' = IF clients = {} THEN Nobody ELSE Sender
  /\ UNCHANGED <<failures, delivered, newest, producerVars, s_ws_tx_drops, clientVars>>

SendTo(c) ==
  /\ sending = "send" /\ c \in targets
  /\ targets' = targets \ {c}
  /\ UNCHANGED <<sending, sent, failures, s_broadcast_task, delivered, newest>>
  /\ UNCHANGED <<producerVars, queueVars, clientVars>>

(* A client whose send fails is taken off the table at once; two lines are    *)
(* logged about it after the loop.                                            *)
SendFails(c) ==
  /\ sending = "send" /\ c \in targets
  /\ targets' = targets \ {c}
  /\ clients' = clients \ {c}
  /\ failures' = failures + 2
  /\ UNCHANGED <<sending, sent, s_broadcast_task, delivered, newest, connects>>
  /\ UNCHANGED <<producerVars, queueVars>>

(* The marker is cleared before the failures are logged.                      *)
EndLoop ==
  /\ sending = "send" /\ targets = {}
  /\ s_broadcast_task' = Nobody
  /\ sending' = "report"
  /\ IF sent.n = 0
       THEN UNCHANGED <<delivered, newest>>
       ELSE delivered' = delivered + 1 /\ newest' = [newest EXCEPT ![sent.from] = sent.n]
  /\ UNCHANGED <<sent, targets, failures, producerVars, queueVars, clientVars>>

FreeFrame ==
  /\ sending = "report" /\ failures = 0 /\ step[Sender] = "idle"
  /\ sending' = "wait" /\ sent' = NoFrame
  /\ UNCHANGED <<targets, failures, s_broadcast_task, delivered, newest>>
  /\ UNCHANGED <<producerVars, queueVars, clientVars>>

Work == Receive \/ EndLoop \/ FreeFrame \/ \E c \in Browsers : SendTo(c) \/ SendFails(c)

(* ws_server_in_broadcast. *)
InBroadcast(t) == s_broadcast_task = t

(* A browser comes back (WsServer has the whole story).                       *)
Connect(c) ==
  /\ c \notin clients /\ connects < MaxConnects
  /\ clients' = clients \cup {c} /\ connects' = connects + 1
  /\ UNCHANGED <<producerVars, queueVars, senderVars>>

-----------------------------------------------------------------------------
TypeOK ==
  /\ s_evt_mutex \in Tasks \cup {Nobody}
  /\ step \in [Tasks -> {"idle", "format", "snapshot", "copy", "enqueue"}]
  /\ Len(s_ws_tx_q) <= Depth
  /\ sending \in {"wait", "send", "report"}
  /\ targets \subseteq clients
  /\ s_broadcast_task \in {Sender, Nobody}

(* The frames that are queued or being sent, oldest first, and the places of  *)
(* those with a number.                                                       *)
Underway == (IF sending = "send" THEN <<sent>> ELSE <<>>) \o s_ws_tx_q
Numbered == {i \in DOMAIN Underway : Underway[i].n > 0}

(* The frames of one task are sent in the order in which it made them, and    *)
(* none twice: what one task formats never reaches the copy of another.       *)
InOrder ==
  /\ \A i \in Numbered :
       /\ Underway[i].n > newest[Underway[i].from]
       /\ \A j \in Numbered :
            i < j /\ Underway[j].from = Underway[i].from => Underway[i].n < Underway[j].n
  /\ \A t \in Producers : step[t] = "enqueue" => frame[t] = [from |-> t, n |-> made[t]]

(* The frames made, and the producers that have one in hand.                  *)
Frames == UNION {{t} \X (1..made[t]) : t \in Producers}
InHand == {t \in Producers : step[t] # "idle" /\ frame[t].n > 0}

(* The queue empties again and again: the lines that sending causes never     *)
(* keep it filled.                                                            *)
QueueDrains == []<>(s_ws_tx_q = <<>> /\ sending = "wait")
=============================================================================
