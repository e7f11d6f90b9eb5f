---------------------------- MODULE HapExchange ----------------------------
(***************************************************************************)
(* The two-stage SPI exchange with the P4 (components/hap_master,          *)
(* do_two_stage_exchange) and the receive chain that hangs on it           *)
(* (main/hap_bridge.cpp, the frame callback).                              *)
(*                                                                         *)
(* An exchange is full duplex: whatever task sends a frame may get a frame *)
(* of the P4 back, and handles it itself, after it gave s_spi_mutex back.  *)
(* The payload stays in one static buffer, s_dispatch_buf.  Handling a     *)
(* frame may send (an ACK, a reply), which is an exchange inside the       *)
(* exchange, on the same task.                                             *)
(*                                                                         *)
(* TaskHAP polls for frames when it is notified: by DRDY, or by the        *)
(* callback after each frame.  The P4 and hap_session are external.        *)
(***************************************************************************)
EXTENDS Integers, Sequences, SequencesExt

CONSTANTS
  Tasks,      \* tasks that send frames
  TaskHAP,    \* the one of them that polls
  FrameCount, \* bound: frames 1..FrameCount are pushed by the P4, in this order
  Bare,       \* those of them that have no payload
  MaxSends,   \* bound: frames sent by the tasks on their own account
  MaxDepth    \* bound: exchanges inside an exchange

VARIABLES
  s_spi_mutex,    \* {} or {holder}
  s_dispatch_buf, \* the frame whose payload it holds, 0 = none yet
  calls,          \* per task: the exchanges it is inside of, innermost last
  notify,         \* TaskHAP's task notification count
  p4_queue,       \* frames the P4 wants to send
  alone,          \* only TaskHAP makes exchanges (chosen once: a quiet HTTP server)
  pushed, sends,  \* how far the bounds are used
  handled         \* history: the frames handled, and the payload each one showed

vars == <<s_spi_mutex, s_dispatch_buf, calls, notify, p4_queue, alone, pushed, sends, handled>>

Frames == 1..FrameCount

ASSUME ExchangeAssumption ==
  /\ TaskHAP \in Tasks
  /\ FrameCount \in Nat /\ Bare \subseteq Frames
  /\ MaxSends \in Nat /\ MaxDepth \in Nat \ {0}

(* One activation of do_two_stage_exchange. *)
Steps == {"lock", "transmit", "give", "handle", "reply", "notify"}
Activation == [at : Steps, peer : Frames \cup {0}]
Handling == [frame : Frames, payload : Frames \cup {0}]

TypeOK ==
  /\ s_spi_mutex \subseteq Tasks
  /\ s_dispatch_buf \in Frames \cup {0}
  /\ calls \in [Tasks -> Seq(Activation)]
  /\ \A t \in Tasks : Len(calls[t]) <= MaxDepth
  /\ notify \in Nat
  /\ p4_queue \in Seq(Frames)
  /\ alone \in BOOLEAN
  /\ pushed \in Frames \cup {0}
  /\ sends \in 0..MaxSends
  /\ handled \in Seq(Handling)

Init ==
  /\ s_spi_mutex = {}
  /\ s_dispatch_buf = 0
  /\ calls = [t \in Tasks |-> <<>>]
  /\ notify = 0
  /\ p4_queue = <<>>
  /\ alone \in BOOLEAN
  /\ pushed = 0
  /\ sends = 0
  /\ handled = <<>>

-----------------------------------------------------------------------------
Idle(t) == calls[t] = <<>>
At(t, step) == ~ Idle(t) /\ Last(calls[t]).at = step
Peer(t) == Last(calls[t]).peer

Enter(t) == calls' = [calls EXCEPT ![t] = Append(@, [at |-> "lock", peer |-> 0])]
Goto(t, step) == calls' = [calls EXCEPT ![t][Len(calls[t])].at = step]
Leave(t) == calls' = [calls EXCEPT ![t] = Front(@)]

(* The P4 queues a frame.  DRDY rises when its queue was empty. *)
Push ==
  /\ pushed < FrameCount
  /\ pushed' = pushed + 1
  /\ p4_queue' = Append(p4_queue, pushed + 1)
  /\ notify' = IF p4_queue = <<>> THEN notify + 1 ELSE notify
  /\ UNCHANGED <<s_spi_mutex, s_dispatch_buf, calls, sends, handled, alone>>

(* A task calls hap_master_send. *)
StartSend(t) ==
  /\ Idle(t)
  /\ alone => t = TaskHAP
  /\ sends < MaxSends
  /\ sends' = sends + 1
  /\ Enter(t)
  /\ UNCHANGED <<s_spi_mutex, s_dispatch_buf, notify, p4_queue, pushed, handled, alone>>

(* One turn of task_hap's loop: one notification is one hap_master_recv. *)
Poll ==
  /\ Idle(TaskHAP)
  /\ notify > 0
  /\ notify' = notify - 1
  /\ Enter(TaskHAP)
  /\ UNCHANGED <<s_spi_mutex, s_dispatch_buf, p4_queue, pushed, sends, handled, alone>>

(* The loop's timers send something again and again, synced (HEARTBEAT) or    *)
(* not (SYNC), whether or not the P4 has something to say.                    *)
NoTimer == FALSE /\ UNCHANGED vars
Timer ==
  /\ Idle(TaskHAP)
  /\ notify = 0
  /\ Enter(TaskHAP)
  /\ UNCHANGED <<s_spi_mutex, s_dispatch_buf, notify, p4_queue, pushed, sends, handled, alone>>

Lock(t) ==
  /\ At(t, "lock")
  /\ s_spi_mutex = {}
  /\ s_spi_mutex' = {t}
  /\ Goto(t, "transmit")
  /\ UNCHANGED <<s_dispatch_buf, notify, p4_queue, pushed, sends, handled, alone>>

(* 50 ms without the mutex: the frame is dropped. *)
LockTimeout(t) ==
  /\ At(t, "lock")
  /\ s_spi_mutex # {}
  /\ Leave(t)
  /\ UNCHANGED <<s_spi_mutex, s_dispatch_buf, notify, p4_queue, pushed, sends, handled, alone>>

(* The transfers fail, or bring nothing (an idle P4, a bad CRC, which costs   *)
(* the P4 its frame), or bring the P4's next frame.                           *)
TransmitNothing(t) ==
  /\ At(t, "transmit")
  /\ \/ UNCHANGED p4_queue
     \/ p4_queue # <<>> /\ p4_queue' = Tail(p4_queue)
  /\ s_spi_mutex' = {}
  /\ Leave(t)
  /\ UNCHANGED <<s_dispatch_buf, notify, pushed, sends, handled, alone>>

Transmit(t) ==
  /\ At(t, "transmit")
  /\ p4_queue # <<>>
  /\ p4_queue' = Tail(p4_queue)
  /\ s_dispatch_buf' = IF Head(p4_queue) \in Bare THEN s_dispatch_buf ELSE Head(p4_queue)
  /\ calls' = [calls EXCEPT ![t][Len(calls[t])] = [at |-> "give", peer |-> Head(p4_queue)]]
  /\ UNCHANGED <<s_spi_mutex, notify, pushed, sends, handled, alone>>

(* The mutex is given before the callback runs. *)
GiveLate(t) ==
  /\ At(t, "give")
  /\ Goto(t, "handle")
  /\ UNCHANGED <<s_spi_mutex, s_dispatch_buf, notify, p4_queue, pushed, sends, handled, alone>>
Give(t) ==
  /\ At(t, "give")
  /\ s_spi_mutex' = {}
  /\ Goto(t, "handle")
  /\ UNCHANGED <<s_dispatch_buf, notify, p4_queue, pushed, sends, handled, alone>>

(* on_frame: the handler reads the payload where it lies. *)
Handle(t) ==
  /\ At(t, "handle")
  /\ handled' = Append(handled,
       [frame |-> Peer(t),
        payload |-> IF Peer(t) \in Bare THEN 0 ELSE s_dispatch_buf])
  /\ Goto(t, "reply")
  /\ UNCHANGED <<s_spi_mutex, s_dispatch_buf, notify, p4_queue, pushed, sends, alone>>

(* ... and then may send, an ACK or an answer: an exchange of its own. *)
ReplyFirst(t) ==
  /\ At(t, "handle")
  /\ Len(calls[t]) < MaxDepth
  /\ Enter(t)
  /\ UNCHANGED <<s_spi_mutex, s_dispatch_buf, notify, p4_queue, pushed, sends, handled, alone>>
Reply(t) ==
  /\ At(t, "reply")
  /\ Len(calls[t]) < MaxDepth
  /\ calls' = [calls EXCEPT ![t] =
       Append(Front(@), [Last(@) EXCEPT !.at = "notify"])
         \o <<[at |-> "lock", peer |-> 0]>>]
  /\ UNCHANGED <<s_spi_mutex, s_dispatch_buf, notify, p4_queue, pushed, sends, handled, alone>>

NoReply(t) ==
  /\ At(t, "reply")
  /\ Goto(t, "notify")
  /\ UNCHANGED <<s_spi_mutex, s_dispatch_buf, notify, p4_queue, pushed, sends, handled, alone>>

(* The callback ends by asking TaskHAP to poll once more. *)
NotifyHap(t) ==
  /\ At(t, "notify")
  /\ notify' = notify + 1
  /\ Leave(t)
  /\ UNCHANGED <<s_spi_mutex, s_dispatch_buf, p4_queue, pushed, sends, handled, alone>>

ExchangeStep(t) ==
  \/ Lock(t) \/ LockTimeout(t) \/ TransmitNothing(t) \/ Transmit(t) \/ Give(t)
  \/ Handle(t) \/ Reply(t) \/ NoReply(t) \/ NotifyHap(t)

Next ==
  \/ Push
  \/ Poll
  \/ Timer
  \/ \E t \in Tasks : StartSend(t) \/ ExchangeStep(t)

Spec == Init /\ [][Next]_vars

(* Every task runs, TaskHAP keeps turning its loop, and a link that is used   *)
(* again and again sometimes works: neither the mutex nor the transfer fails  *)
(* for ever.                                                                  *)
FairSpec ==
  /\ Spec
  /\ WF_vars(Poll \/ Timer)
  /\ \A t \in Tasks : WF_vars(ExchangeStep(t)) /\ SF_vars(Lock(t)) /\ SF_vars(Transmit(t))

-----------------------------------------------------------------------------
(* A handler sees the payload of the frame it handles ("the dispatch buffer   *)
(* is exclusively owned by whichever do_two_stage_exchange call holds         *)
(* s_spi_mutex").                                                             *)
PayloadIntact ==
  \A i \in DOMAIN handled :
    handled[i].frame \notin Bare => handled[i].payload = handled[i].frame

(* With one task making exchanges it does, however deep they nest            *)
(* ("Re-entrancy is EXPECTED and safe").                                      *)
NestingIsSafe == alone => PayloadIntact

(* Frames are handled in the order the P4 sent them, each at most once, by a  *)
(* single task: its state updates are applied in order.                       *)
HandledInOrder == alone =>
  \A i, j \in DOMAIN handled : i < j => handled[i].frame < handled[j].frame

(* A task waiting for the mutex never holds it in an outer exchange: the      *)
(* mutex is not recursive, so a reply sent by a handler would always be       *)
(* dropped after 50 ms.                                                       *)
NoSelfWait == \A t \in Tasks : At(t, "lock") => t \notin s_spi_mutex

(* What the P4 queued is fetched in the end, whichever notification was lost  *)
(* to a busy mutex or a bad frame.                                            *)
QueueDrains == p4_queue # <<>> ~> p4_queue = <<>>
=============================================================================
