------------------------- MODULE RemoteClient_proofs ------------------------
(* Proofs about the connection to the cloud, for queues of any depth and any *)
(* number of credentials and request ids.                                    *)
EXTENDS RemoteClient, SequenceTheorems, TLAPS

(* A task is gone when it says so, and it has stopped its client by then.     *)
TaskOK ==
  /\ (at = "gone") <=> ~ s_task
  /\ at \in {"dying", "gone"} => s_ws = "none"

(* The bit of a sign-in is set with the state itself; it is taken in the next *)
(* turn and never read while another sign-in waits for its verdict.           *)
BitsOK ==
  /\ "AUTH_OK" \in bits => s_state = "READY" \/ (s_state = "BACKOFF" /\ at = "wait")
  /\ "AUTH_OK" \in taken => s_state # "AUTHENTICATING"

(* Frames of the present connection need one, and the reply that is awaited   *)
(* is an acceptance only if the cloud has accepted us on it.                  *)
Accepting(f) == f.kind = "reply" /\ f.ok /\ f.mine /\ s_auth_id # 0 /\ f.id = s_auth_id
FramesOK ==
  \A i \in DOMAIN s_rx_queue :
    /\ s_rx_queue[i].mine => s_ws # "none"
    /\ Accepting(s_rx_queue[i]) => accepted

(* The queue is emptied between the end of a connection and the next sign-in. *)
Drained == s_state \in {"AUTHENTICATING", "READY"} \/ at \in {"act", "tx"}
QueueOK == Drained => \A i \in DOMAIN s_rx_queue : s_rx_queue[i].mine

Inv == TypeOK /\ TaskOK /\ BitsOK /\ FramesOK /\ QueueOK /\ ReadyMeansAccepted

-----------------------------------------------------------------------------
(* remote_state_next leads to READY by a sign-in, to AUTHENTICATING by a      *)
(* connection; the bits a turn begins with do neither.                        *)
LEMMA NextStates ==
  ASSUME NEW cur \in States, NEW ev
  PROVE  /\ NextState(cur, ev) \in States
         /\ NextState(cur, ev) = "READY" => cur = "READY" \/ ev = "AUTH_OK"
         /\ NextState(cur, ev) = "AUTHENTICATING" => cur = "AUTHENTICATING" \/ ev = "WSS_CONNECT"
         /\ ev \in {"WSS_ERROR", "AUTH_FAIL", "AUTH_TIMEOUT"} /\ cur \in {"AUTHENTICATING", "READY"} =>
              NextState(cur, ev) \in {"BACKOFF", "READY"}
  BY DEF NextState, States

(* The bits of a turn, however many, never make a client READY or             *)
(* AUTHENTICATING.                                                            *)
LEMMA SteppedStates ==
  ASSUME s_state \in States
  PROVE  /\ Stepped \in States
         /\ Stepped \in {"READY", "AUTHENTICATING"} => Stepped = s_state
<1>1. ASSUME NEW cur \in States, NEW ev \in {"DISABLE", "ENABLE", "WIFI_DOWN", "WIFI_UP"}
      PROVE  /\ StepIf(ev, cur) \in States
             /\ StepIf(ev, cur) \in {"READY", "AUTHENTICATING"} => StepIf(ev, cur) = cur
  BY NextStates DEF StepIf
<1>. QED  BY <1>1 DEF Stepped

(* The type invariant in three parts: queues, flags, and the rest.            *)
Queues ==
  /\ s_rx_queue \in Seq(Frames) /\ Len(s_rx_queue) <= RxDepth
  /\ s_tx_queue \in Seq(Events) /\ Len(s_tx_queue) <= TxDepth
  /\ pub \in Seq(Events) /\ Len(pub) <= 1
Flags ==
  /\ s_running \in BOOLEAN /\ s_task \in BOOLEAN
  /\ has_ip \in BOOLEAN /\ cloud_ok \in BOOLEAN /\ echo \in BOOLEAN /\ wanted \in BOOLEAN
  /\ accepted \in BOOLEAN
Scalars ==
  /\ s_state \in States /\ last_state \in States
  /\ s_cfg \in Creds \cup {0} /\ nvs \in Creds \cup {0} /\ ws_cfg \in Creds \cup {0}
  /\ s_auth_id \in Ids \cup {0} /\ asked \in Ids \cup {0}
  /\ bits \subseteq Bits /\ taken \subseteq Bits
  /\ at \in {"wait", "rx", "act", "tx", "backoff", "dying", "gone"}
  /\ s_ws \in {"none", "started", "connected", "broken"}
  /\ setting \in Settings
  /\ api \in {"idle", "spawn", "set"}

(* The type invariant in three parts, which the provers can take one by one.  *)
LEMMA TypeParts == TypeOK <=> Flags /\ Scalars /\ Queues
  BY DEF TypeOK, Flags, Scalars, Queues

(* What leaves the queues alone keeps their types.                            *)
LEMMA Untouched ==
  ASSUME NEW f \in Frames
  PROVE  /\ [f EXCEPT !.mine = FALSE] \in Frames
         /\ [f EXCEPT !.mine = FALSE].mine = FALSE
  BY DEF Frames, Replies, CommandFrames

(* Turning all frames foreign keeps their number and turns every one.         *)
LEMMA NotMineFrames ==
  ASSUME NEW q \in Seq(Frames)
  PROVE  /\ NotMine(q) \in Seq(Frames) /\ Len(NotMine(q)) = Len(q) /\ DOMAIN NotMine(q) = DOMAIN q
         /\ \A i \in DOMAIN q : ~ NotMine(q)[i].mine
<1>1. Len(q) \in Nat /\ DOMAIN q = 1..Len(q) /\ \A i \in 1..Len(q) : q[i] \in Frames
  BY LenProperties, ElementOfSeq
<1>2. /\ NotMine(q) \in [1..Len(q) -> Frames]
      /\ \A i \in 1..Len(q) : ~ NotMine(q)[i].mine
  BY <1>1, Untouched DEF NotMine
<1>. QED  BY <1>1, <1>2, SeqDef

(* The same for events.                                                       *)
LEMMA NotMineEvents ==
  ASSUME NEW q \in Seq(Events)
  PROVE  NotMine(q) \in Seq(Events) /\ Len(NotMine(q)) = Len(q)
<1>1. Len(q) \in Nat /\ DOMAIN q = 1..Len(q) /\ \A i \in 1..Len(q) : q[i] \in Events
  BY LenProperties, ElementOfSeq
<1>2. NotMine(q) \in [1..Len(q) -> Events]
  BY <1>1 DEF NotMine, Events
<1>. QED  BY <1>1, <1>2, SeqDef

(* A frame is popped, delivered or disowned.                                  *)
LEMMA Popped ==
  ASSUME NEW S, NEW q \in Seq(S), q # <<>>, NEW d \in Nat, Len(q) <= d
  PROVE  /\ Head(q) \in S /\ Head(q) = q[1] /\ 1 \in DOMAIN q
         /\ Tail(q) \in Seq(S) /\ Len(Tail(q)) <= d
         /\ \A i \in DOMAIN Tail(q) : i + 1 \in DOMAIN q /\ Tail(q)[i] = q[i + 1]
<1>1. Len(q) \in Nat /\ Len(q) # 0 /\ DOMAIN q = 1..Len(q)
  BY LenProperties, EmptySeq
<1>2. /\ Head(q) \in S /\ Tail(q) \in Seq(S) /\ Len(Tail(q)) = Len(q) - 1
      /\ \A i \in 1..Len(Tail(q)) : Tail(q)[i] = q[i + 1]
  BY HeadTailProperties
<1>3. DOMAIN Tail(q) = 1..(Len(q) - 1)
  BY <1>2, LenProperties
<1>4. Head(q) = q[1]
  OBVIOUS
<1>. QED  BY <1>1, <1>2, <1>3, <1>4

(* A delivery adds one frame; the others stay where they are.                 *)
LEMMA Delivered ==
  ASSUME Queues, NEW f \in Frames, Deliver(f)
  PROVE  /\ s_rx_queue' \in Seq(Frames) /\ Len(s_rx_queue') <= RxDepth
         /\ \A i \in DOMAIN s_rx_queue' :
              \/ i \in DOMAIN s_rx_queue /\ s_rx_queue'[i] = s_rx_queue[i]
              \/ s_rx_queue'[i] = f
<1>1. Len(s_rx_queue) \in Nat /\ DOMAIN s_rx_queue = 1..Len(s_rx_queue)
  BY LenProperties DEF Queues
<1>2. CASE Len(s_rx_queue) = RxDepth
  BY <1>2 DEF Deliver, Queues
<1>3. CASE Len(s_rx_queue) # RxDepth
  <2>1. s_rx_queue' = Append(s_rx_queue, f)
    BY <1>3 DEF Deliver
  <2>2. /\ s_rx_queue' \in Seq(Frames) /\ Len(s_rx_queue') = Len(s_rx_queue) + 1
        /\ \A i \in 1..Len(s_rx_queue) : s_rx_queue'[i] = s_rx_queue[i]
        /\ s_rx_queue'[Len(s_rx_queue) + 1] = f
    BY <2>1, AppendProperties DEF Queues
  <2>3. DOMAIN s_rx_queue' = 1..(Len(s_rx_queue) + 1)
    BY <2>2, LenProperties
  <2>4. Len(s_rx_queue) + 1 <= RxDepth
    <3>1. Len(s_rx_queue) <= RxDepth /\ RxDepth \in Nat
      BY RemoteAssumption DEF Queues
    <3>2. \A m, n \in Nat : m <= n /\ m # n => m + 1 <= n
      OBVIOUS
    <3>. QED  BY <1>1, <1>3, <3>1, <3>2
  <2>. QED  BY <1>1, <2>2, <2>3, <2>4
<1>. QED  BY <1>2, <1>3

-----------------------------------------------------------------------------
(* Types, step by step.                                                       *)
LEMMA TypesInit == Init => TypeOK
<1>. SUFFICES ASSUME Init PROVE TypeOK
  OBVIOUS
<1>1. /\ s_rx_queue \in Seq(Frames) /\ Len(s_rx_queue) <= RxDepth
      /\ s_tx_queue \in Seq(Events) /\ Len(s_tx_queue) <= TxDepth
      /\ pub \in Seq(Events) /\ Len(pub) <= 1
  BY EmptySeq, RemoteAssumption DEF Init
<1>2. Flags /\ Scalars
  BY DEF Init, Flags, Scalars, States, Bits
<1>. QED  BY <1>1, <1>2, TypeParts DEF Queues

LEMMA FrameFacts ==
  ASSUME Queues, PopRx
  PROVE  /\ Head(s_rx_queue) \in Frames /\ Head(s_rx_queue) = s_rx_queue[1] /\ 1 \in DOMAIN s_rx_queue
         /\ s_rx_queue' \in Seq(Frames) /\ Len(s_rx_queue') <= RxDepth
         /\ \A i \in DOMAIN s_rx_queue' :
              i + 1 \in DOMAIN s_rx_queue /\ s_rx_queue'[i] = s_rx_queue[i + 1]
<1>1. RxDepth \in Nat /\ s_rx_queue \in Seq(Frames) /\ Len(s_rx_queue) <= RxDepth
  BY RemoteAssumption DEF Queues
<1>. QED  BY <1>1, Popped DEF PopRx

LEMMA QueuesReceive == ASSUME Queues, Receive PROVE Queues'
<1>1. PopRx /\ UNCHANGED <<s_tx_queue, pub>>
  BY DEF Receive, AuthReply, IgnoredFrame, Command, AuthAgain
<1>. QED  BY <1>1, FrameFacts DEF Queues

LEMMA QueuesStop ==
  ASSUME Queues, ActDisabled \/ ActIdle \/ ActBackoff
  PROVE  Queues'
<1>1. /\ s_rx_queue' = NotMine(s_rx_queue) /\ pub' = NotMine(pub)
      /\ s_tx_queue' = NotMine(s_tx_queue) \/ s_tx_queue' = <<>>
  BY DEF ActDisabled, ActIdle, ActBackoff, StopWsClient
<1>2. s_rx_queue' \in Seq(Frames) /\ Len(s_rx_queue') = Len(s_rx_queue)
  BY <1>1, NotMineFrames DEF Queues
<1>3. pub' \in Seq(Events) /\ Len(pub') = Len(pub)
  BY <1>1, NotMineEvents DEF Queues
<1>4. s_tx_queue' \in Seq(Events) /\ Len(s_tx_queue') <= TxDepth
  <2>1. CASE s_tx_queue' = NotMine(s_tx_queue)
    BY <2>1, NotMineEvents DEF Queues
  <2>2. CASE s_tx_queue' = <<>>
    BY <2>2, EmptySeq, RemoteAssumption
  <2>. QED  BY <1>1, <2>1, <2>2
<1>. QED  BY <1>2, <1>3, <1>4 DEF Queues

LEMMA QueuesEvents == ASSUME Queues, SendEvent \/ Publish \/ Enqueue PROVE Queues'
<1>0. TxDepth \in Nat /\ TxDepth >= 1
  BY RemoteAssumption
<1>1. CASE SendEvent
  <2>1. s_tx_queue' \in Seq(Events) /\ Len(s_tx_queue') <= TxDepth
    BY <1>0, <1>1, Popped DEF SendEvent, Queues
  <2>. QED  BY <1>1, <2>1 DEF SendEvent, Queues
<1>2. CASE Publish
  <2>1. [mine |-> TRUE] \in Events
    BY DEF Events
  <2>2. pub' \in Seq(Events) /\ Len(pub') = 1
    BY <1>2, <2>1 DEF Publish
  <2>. QED  BY <1>2, <2>2 DEF Publish, Queues, queues
<1>3. CASE Enqueue
  <2>. DEFINE kept == IF Len(s_tx_queue) = TxDepth THEN Tail(s_tx_queue) ELSE s_tx_queue
  <2>1. Len(s_tx_queue) \in Nat /\ s_tx_queue \in Seq(Events) /\ Len(s_tx_queue) <= TxDepth
    BY LenProperties DEF Queues
  <2>2. pub \in Seq(Events) /\ Len(pub) = 1
    <3>1. Len(pub) \in Nat /\ Len(pub) <= 1 /\ Len(pub) # 0 /\ pub \in Seq(Events)
      BY <1>3, LenProperties, EmptySeq DEF Enqueue, Queues
    <3>2. \A n \in Nat : n <= 1 /\ n # 0 => n = 1
      OBVIOUS
    <3>. QED  BY <3>1, <3>2
  <2>3. kept \in Seq(Events) /\ Len(kept) \in Nat /\ Len(kept) + 1 <= TxDepth
    <3>1. CASE Len(s_tx_queue) = TxDepth
      <4>1. s_tx_queue # <<>>
        BY <1>0, <3>1, EmptySeq
      <4>2. Tail(s_tx_queue) \in Seq(Events) /\ Len(Tail(s_tx_queue)) = Len(s_tx_queue) - 1
        BY <2>1, <4>1, HeadTailProperties
      <4>. QED  BY <1>0, <2>1, <3>1, <4>2
    <3>2. CASE Len(s_tx_queue) # TxDepth
      BY <1>0, <2>1, <3>2
    <3>. QED  BY <3>1, <3>2
  <2>4. s_tx_queue' = kept \o pub /\ pub' = <<>> /\ UNCHANGED s_rx_queue
    BY <1>3 DEF Enqueue
  <2>. HIDE DEF kept
  <2>5. s_tx_queue' \in Seq(Events) /\ Len(s_tx_queue') <= TxDepth
    <3>1. s_tx_queue' \in Seq(Events) /\ Len(s_tx_queue') = Len(kept) + Len(pub)
      BY <2>2, <2>3, <2>4, ConcatProperties
    <3>. QED  BY <1>0, <2>2, <2>3, <3>1
  <2>6. pub' \in Seq(Events) /\ Len(pub') <= 1
    BY <2>4, EmptySeq
  <2>. QED  BY <2>4, <2>5, <2>6 DEF Queues
<1>. QED  BY <1>1, <1>2, <1>3

LEMMA QueuesDeliver ==
  ASSUME Queues, Flags, Scalars, CloudReplies \/ \E f \in Frames : CloudSends(f)
  PROVE  Queues'
<1>1. \E f \in Frames : Deliver(f) /\ UNCHANGED <<s_tx_queue, pub>>
  <2>1. CASE CloudReplies
    <3>1. asked \in Ids
      BY <2>1 DEF CloudReplies, Scalars
    <3>2. PICK ok \in {TRUE, cloud_ok} :
            Deliver([kind |-> "reply", id |-> asked, ok |-> ok, mine |-> TRUE])
      BY <2>1 DEF CloudReplies
    <3>3. [kind |-> "reply", id |-> asked, ok |-> ok, mine |-> TRUE] \in Frames
      BY <3>1 DEF Flags, Frames, Replies
    <3>. QED  BY <2>1, <3>2, <3>3 DEF CloudReplies, Unheard
  <2>2. CASE \E f \in Frames : CloudSends(f)
    BY <2>2 DEF CloudSends, Unheard
  <2>. QED  BY <2>1, <2>2
<1>. QED  BY <1>1, Delivered DEF Queues

LEMMA FlagsStep == Flags /\ [Next]_vars => Flags'
<1>. SUFFICES ASSUME Flags, [Next]_vars PROVE Flags'
  OBVIOUS
<1>1. CASE UNCHANGED vars
  BY <1>1 DEF vars, task, ws, env, calls, Flags
<1>2. CASE Wake \/ RxDone \/ TxDone \/ SendEvent \/ Enqueue \/ Publish \/ SetEnable
  BY <1>2 DEF Wake, RxDone, TxDone, TurnEnds, SendEvent, Enqueue, Publish, SetEnable, task, ws, env, calls,
              Flags
<1>3. CASE Receive
  BY <1>3, Zenon DEF Receive, AuthReply, IgnoredFrame, Command, AuthAgain, task, ws, env, calls, Flags
<1>4. CASE Act \/ ActAuthTimeout
  BY <1>4, Zenon DEF Act, ActDisabled, Die, ActIdle, ActConnecting, ActReadyBroken, ActReady, ActBackoff,
         BackoffEnds, SendEvent, ActAuthEnter, ActAuthWait, ActAuthTimeout, StopWsClient, TurnEnds, task,
         ws, env, calls, Flags
<1>5. CASE Spawn \/ (\E c \in Creds : SaveCreds(c)) \/ \E forget \in BOOLEAN : Disable(forget)
  BY <1>5, Zenon DEF Spawn, SaveCreds, Disable, task, ws, env, calls, Flags
<1>6. CASE Connect \/ Echo \/ Break \/ CloudReplies \/ \E f \in Frames : CloudSends(f)
  BY <1>6, Zenon DEF Connect, Echo, Break, CloudReplies, CloudSends, Unheard, task, ws, env, calls, Flags
<1>7. CASE UplinkChanges \/ CloudChanges
  BY <1>7, Zenon DEF UplinkChanges, CloudChanges, task, ws, env, calls, Flags
<1>. QED  BY <1>1, <1>2, <1>3, <1>4, <1>5, <1>6, <1>7 DEF Next, Call, Library

LEMMA VerdictStates ==
  ASSUME Scalars, AuthVerdict, s_state = "AUTHENTICATING"
  PROVE  /\ s_state' \in {"AUTHENTICATING", "READY", "BACKOFF"}
         /\ s_state' = "READY" => "AUTH_OK" \in taken
  BY DEF AuthVerdict, Step, NextState

(* Every step keeps the type invariant.                                       *)
LEMMA TypesStep == TypeOK /\ [Next]_vars => TypeOK'
<1>. SUFFICES ASSUME Flags, Scalars, Queues, [Next]_vars PROVE Scalars' /\ Queues'
  BY FlagsStep, TypeParts DEF TypeOK, Flags, Scalars, Queues
<1>1. CASE UNCHANGED vars
  BY <1>1 DEF vars, task, config, ws, queues, env, calls, Scalars, Queues
<1>2. CASE Wake
  BY <1>2, SteppedStates DEF Wake, ws, queues, env, calls, Scalars, Queues, Goto
<1>3. CASE Receive
  <2>1. ASSUME AuthReply PROVE Scalars'
    <3>1. /\ s_state' \in {"READY", s_state} /\ s_auth_id' = 0
          /\ bits' \subseteq bits \cup {"AUTH_OK", "AUTH_FAIL"}
          /\ UNCHANGED <<at, taken, last_state, s_cfg, nvs, s_ws, ws_cfg, asked, setting, api>>
      BY <2>1 DEF AuthReply, task, config, ws, env, calls
    <3>. QED  BY <3>1 DEF Scalars, States, Bits
  <2>2. ASSUME IgnoredFrame \/ Command PROVE Scalars'
    <3>1. UNCHANGED <<s_state, s_auth_id, bits, at, taken, last_state, s_cfg, nvs, s_ws, ws_cfg, asked,
                      setting, api>>
      BY <2>2 DEF IgnoredFrame, Command, task, config, ws, env, calls
    <3>. QED  BY <3>1 DEF Scalars
  <2>3. ASSUME NEW id \in Ids, AuthAgain(id) PROVE Scalars'
    BY <2>3 DEF AuthAgain, SendAuth, task, config, env, calls, Scalars
  <2>. QED  BY <1>3, <2>1, <2>2, <2>3, QueuesReceive DEF Receive
<1>4. CASE RxDone
  BY <1>4 DEF RxDone, Goto, config, ws, queues, env, calls, Scalars, Queues
<1>5. CASE ActDisabled \/ ActIdle \/ ActBackoff
  <2>1. s_state' \in States
    BY <1>5, NextStates DEF ActDisabled, ActIdle, ActBackoff, Step, Scalars
  <2>2. /\ s_running' = FALSE /\ StopWsClient
        /\ at' \in {"dying", "wait", "backoff"} /\ last_state' \in {last_state, s_state}
        /\ taken' \in {taken, {}}
        /\ UNCHANGED <<s_auth_id, bits, s_task, config, env, calls>>
    BY <1>5 DEF ActDisabled, ActIdle, ActBackoff, TurnEnds, Goto
  <2>3. Scalars'
    BY <2>1, <2>2 DEF StopWsClient, config, env, calls, Scalars
  <2>. QED  BY <1>5, <2>3, QueuesStop
<1>6. CASE Die
  BY <1>6 DEF Die, Goto, config, ws, queues, env, calls, Scalars, Queues
<1>7. CASE ActConnecting
  <2>1. s_state' \in States
    BY <1>7, NextStates DEF ActConnecting, Step, Scalars
  <2>2. s_ws' \in {"started", s_ws} /\ ws_cfg' \in {s_cfg, ws_cfg} /\ TurnEnds
    BY <1>7 DEF ActConnecting
  <2>. QED  BY <1>7, <2>1, <2>2 DEF ActConnecting, TurnEnds, Goto, config, queues, env, calls, Scalars, Queues
<1>8. ASSUME ActAuthWait \/ ActAuthTimeout \/ \E id \in Ids : ActAuthEnter(id)
      PROVE  Scalars' /\ Queues'
  <2>1. s_state' \in States
    BY <1>8, NextStates, VerdictStates DEF ActAuthWait, ActAuthTimeout, ActAuthEnter, Step, States, Scalars
  <2>. QED  BY <1>8, <2>1
       DEF ActAuthWait, ActAuthTimeout, ActAuthEnter, SendAuth, TurnEnds, Goto, config, ws, queues, env,
           calls, Scalars, Queues
<1>9. CASE ActReadyBroken \/ ActReady \/ TxDone
  BY <1>9, NextStates DEF ActReadyBroken, ActReady, TxDone, TurnEnds, Step, Goto, config, ws, queues, env,
                          calls, Scalars, Queues
<1>10. CASE BackoffEnds
  BY <1>10, NextStates DEF BackoffEnds, Step, Goto, States, config, ws, queues, env, calls, Scalars, Queues
<1>11. CASE SendEvent \/ Publish \/ Enqueue
  BY <1>11, QueuesEvents DEF SendEvent, Publish, Enqueue, task, config, ws, queues, env, calls, Scalars
<1>12. ASSUME Spawn \/ SetEnable \/ (\E c \in Creds : SaveCreds(c))
              \/ \E forget \in BOOLEAN : Disable(forget)
       PROVE  Scalars' /\ Queues'
  <2>1. CASE Spawn
    BY <2>1 DEF Spawn, task, config, ws, queues, env, States, Scalars, Queues
  <2>2. CASE SetEnable
    BY <2>2 DEF SetEnable, task, config, ws, queues, env, Bits, Scalars, Queues
  <2>3. ASSUME NEW c \in Creds, SaveCreds(c) PROVE Scalars' /\ Queues'
    BY <2>3 DEF SaveCreds, task, ws, queues, env, Scalars, Queues
  <2>4. ASSUME NEW forget \in BOOLEAN, Disable(forget) PROVE Scalars' /\ Queues'
    <3>1. nvs' \in {0, nvs} /\ s_cfg' \in {0, s_cfg}
      BY <2>4 DEF Disable
    <3>. QED  BY <2>4, <3>1 DEF Disable, task, ws, queues, env, Bits, Scalars, Queues
  <2>. QED  BY <1>12, <2>1, <2>2, <2>3, <2>4
<1>13. CASE Connect \/ Echo \/ Break
  BY <1>13 DEF Connect, Echo, Break, Unheard, task, config, env, calls, Bits, Scalars, Queues
<1>14. CASE CloudReplies \/ \E f \in Frames : CloudSends(f)
  <2>1. Scalars'
    BY <1>14 DEF CloudReplies, CloudSends, Unheard, task, config, env, calls, Scalars
  <2>. QED  BY <1>14, <2>1, QueuesDeliver
<1>15. CASE UplinkChanges
  BY <1>15 DEF UplinkChanges, task, config, ws, queues, env, calls, Bits, Scalars, Queues
<1>16. CASE CloudChanges
  BY <1>16 DEF CloudChanges, task, config, ws, queues, env, calls, Scalars, Queues
<1>. QED  BY <1>1, <1>2, <1>3, <1>4, <1>5, <1>6, <1>7, <1>8, <1>9, <1>10, <1>11, <1>12, <1>13, <1>14,
             <1>15, <1>16
     DEF Next, Act, Call, Library

-----------------------------------------------------------------------------
(* A client is started by a task that is neither gone nor about to go.        *)
LEMMA TaskStep == TaskOK /\ [Next]_vars => TaskOK'
<1>. SUFFICES ASSUME TaskOK, [Next]_vars PROVE TaskOK'
  OBVIOUS
<1>1. CASE UNCHANGED vars
  BY <1>1 DEF vars, task, ws, TaskOK
<1>2. CASE Receive \/ SendEvent \/ Publish \/ Enqueue \/ SetEnable
           \/ (\E c \in Creds : SaveCreds(c)) \/ (\E forget \in BOOLEAN : Disable(forget))
           \/ UplinkChanges \/ CloudChanges
  <2>1. UNCHANGED <<s_task, at, s_ws>>
    BY <1>2 DEF Receive, AuthReply, IgnoredFrame, Command, AuthAgain, SendEvent, Publish, Enqueue, SetEnable,
                SaveCreds, Disable, UplinkChanges, CloudChanges, task, ws
  <2>. QED  BY <2>1 DEF TaskOK
<1>3. CASE Wake \/ RxDone \/ ActConnecting \/ ActAuthWait \/ ActAuthTimeout \/ ActReadyBroken \/ ActReady
           \/ TxDone \/ BackoffEnds \/ (\E id \in Ids : ActAuthEnter(id))
  <2>1. s_task' = s_task /\ at \in {"wait", "rx", "act", "tx", "backoff"}
        /\ at' \in {"wait", "rx", "act", "tx", "backoff"}
    BY <1>3 DEF Wake, RxDone, ActConnecting, ActAuthWait, ActAuthTimeout, ActReadyBroken, ActReady, TxDone,
                BackoffEnds, ActAuthEnter, TurnEnds, Goto, task
  <2>. QED  BY <2>1 DEF TaskOK
<1>4. CASE ActDisabled \/ ActIdle \/ ActBackoff
  <2>1. s_task' = s_task /\ at = "act" /\ at' \in {"wait", "backoff", "dying"} /\ s_ws' = "none"
    BY <1>4 DEF ActDisabled, ActIdle, ActBackoff, TurnEnds, StopWsClient, Goto
  <2>. QED  BY <2>1 DEF TaskOK
<1>5. CASE Die
  BY <1>5 DEF Die, Goto, ws, TaskOK
<1>6. CASE Spawn
  BY <1>6 DEF Spawn, task, ws, TaskOK
<1>7. CASE Connect \/ Break \/ Echo \/ CloudReplies \/ \E f \in Frames : CloudSends(f)
  <2>1. UNCHANGED <<s_task, at>> /\ (s_ws = "none" => s_ws' = "none")
    BY <1>7 DEF Connect, Break, Echo, CloudReplies, CloudSends, Unheard, task
  <2>. QED  BY <2>1 DEF TaskOK
<1>. QED  BY <1>1, <1>2, <1>3, <1>4, <1>5, <1>6, <1>7 DEF Next, Act, Call, Library

(* The task has what it needs to know from the state, the bits and its place. *)
LEMMA BitsStep == TypeOK /\ BitsOK /\ [Next]_vars => BitsOK'
<1>. SUFFICES ASSUME TypeOK, BitsOK, [Next]_vars PROVE BitsOK'
  OBVIOUS
<1>0. s_state \in States
  BY DEF TypeOK
<1>1. CASE UNCHANGED vars
  BY <1>1 DEF vars, task, BitsOK
<1>2. CASE Wake
  <2>1. bits' = {} /\ taken' = bits /\ s_state' = Stepped
    BY <1>2 DEF Wake
  <2>2. s_state' = "AUTHENTICATING" => s_state = "AUTHENTICATING"
    BY <1>0, <2>1, SteppedStates
  <2>. QED  BY <2>1, <2>2 DEF BitsOK
<1>3. CASE AuthReply
  BY <1>3 DEF AuthReply, task, BitsOK
<1>4. ASSUME \/ IgnoredFrame \/ Command \/ (\E id \in Ids : AuthAgain(id))
             \/ SendEvent \/ Publish \/ Enqueue \/ SetEnable
             \/ (\E c \in Creds : SaveCreds(c)) \/ (\E forget \in BOOLEAN : Disable(forget))
             \/ Connect \/ Break \/ Echo \/ CloudReplies \/ (\E f \in Frames : CloudSends(f))
             \/ UplinkChanges \/ CloudChanges
      PROVE  BitsOK'
  <2>1. UNCHANGED <<s_state, at, taken>> /\ ("AUTH_OK" \in bits' => "AUTH_OK" \in bits)
    BY <1>4 DEF IgnoredFrame, Command, AuthAgain, SendEvent, Publish, Enqueue, SetEnable, SaveCreds, Disable,
                Connect, Break, Echo, CloudReplies, CloudSends, UplinkChanges, CloudChanges, Unheard, task
  <2>. QED  BY <2>1 DEF BitsOK
<1>5. CASE RxDone \/ ActDisabled \/ ActReady \/ ActBackoff
  <2>1. UNCHANGED <<s_state, bits, taken>> /\ at \in {"rx", "act"}
    BY <1>5 DEF RxDone, ActDisabled, ActReady, ActBackoff
  <2>. QED  BY <2>1 DEF BitsOK
<1>6. CASE Die \/ TxDone
  <2>1. UNCHANGED <<s_state, bits>> /\ taken' = {} /\ at \in {"dying", "tx"}
    BY <1>6 DEF Die, TxDone, TurnEnds
  <2>. QED  BY <2>1 DEF BitsOK
<1>7. CASE ActIdle \/ ActConnecting
  <2>1. bits' = bits /\ taken' = {} /\ at = "act" /\ s_state \in {"IDLE_NO_WIFI", "CONNECTING"}
    BY <1>7 DEF ActIdle, ActConnecting, TurnEnds
  <2>. QED  BY <2>1 DEF BitsOK
<1>8. CASE ActAuthWait \/ ActAuthTimeout \/ \E id \in Ids : ActAuthEnter(id)
  <2>1. bits' = bits /\ taken' = {} /\ s_state = "AUTHENTICATING"
    BY <1>8 DEF ActAuthWait, ActAuthTimeout, ActAuthEnter, TurnEnds
  <2>. QED  BY <2>1 DEF BitsOK
<1>9. CASE ActReadyBroken
  <2>1. bits' = bits /\ taken' = {} /\ at' = "wait" /\ s_state' = "BACKOFF"
    BY <1>9 DEF ActReadyBroken, TurnEnds, Goto, Step, NextState
  <2>. QED  BY <2>1 DEF BitsOK
<1>10. CASE BackoffEnds
  <2>1. bits' = bits /\ taken' = {} /\ at = "backoff" /\ (s_state # "BACKOFF" => s_state' = s_state)
    BY <1>10 DEF BackoffEnds, Step, NextState
  <2>. QED  BY <2>1 DEF BitsOK
<1>11. CASE Spawn
  <2>1. UNCHANGED <<s_state, bits>> /\ taken' \in {taken, {}} /\ at' \in {at, "wait"}
    BY <1>11 DEF Spawn, task
  <2>. QED  BY <2>1 DEF BitsOK
<1>. QED  BY <1>1, <1>2, <1>3, <1>4, <1>5, <1>6, <1>7, <1>8, <1>9, <1>10, <1>11
     DEF Next, Receive, Act, Call, Library

-----------------------------------------------------------------------------
(* Frames come in on the present connection and are disowned with it; the     *)
(* queue is empty before the task acts on its state.                          *)
Rx == FramesOK /\ QueueOK /\ ReadyMeansAccepted

LEMMA RxKept ==
  ASSUME TypeOK, Rx, UNCHANGED <<s_rx_queue, s_ws, s_auth_id, accepted>>, Drained' => Drained,
         s_state' = "READY" => s_state = "READY"
  PROVE  Rx'
  BY DEF Rx, FramesOK, QueueOK, ReadyMeansAccepted, Accepting

LEMMA NoFrames ==
  ASSUME s_rx_queue = <<>>
  PROVE  DOMAIN s_rx_queue = {}
  OBVIOUS

LEMMA RxReceive == ASSUME TypeOK, Rx, Receive PROVE Rx'
<1>. DEFINE f == Head(s_rx_queue)
<1>0. /\ f \in Frames /\ f = s_rx_queue[1] /\ 1 \in DOMAIN s_rx_queue
      /\ \A i \in DOMAIN s_rx_queue' :
           i + 1 \in DOMAIN s_rx_queue /\ s_rx_queue'[i] = s_rx_queue[i + 1]
  <2>1. PopRx
    BY DEF Receive, AuthReply, IgnoredFrame, Command, AuthAgain
  <2>. QED  BY <2>1, FrameFacts, TypeParts
<1>. HIDE DEF f
<1>1. UNCHANGED <<s_ws, accepted, at>>
  BY DEF Receive, AuthReply, IgnoredFrame, Command, AuthAgain, task, ws
<1>2. \A i \in DOMAIN s_rx_queue' : s_rx_queue'[i].mine => s_ws # "none"
  BY <1>0 DEF Rx, FramesOK
<1>3. Drained => \A i \in DOMAIN s_rx_queue' : s_rx_queue'[i].mine
  BY <1>0 DEF Rx, QueueOK
<1>4. CASE AuthReply
  <2>1. s_auth_id' = 0 /\ s_state = "AUTHENTICATING" /\ s_state' \in {"AUTHENTICATING", "READY"}
    BY <1>4 DEF AuthReply
  <2>2. Drained /\ f.mine
    BY <1>0, <2>1 DEF Rx, QueueOK, Drained
  <2>3. s_state' = "READY" => Accepting(f)
    BY <1>4, <2>1, <2>2 DEF AuthReply, Awaited, Accepting, f
  <2>4. s_state' = "READY" => s_ws # "none" /\ accepted
    BY <1>0, <2>2, <2>3 DEF Rx, FramesOK
  <2>5. FramesOK'
    BY <1>1, <1>2, <2>1 DEF FramesOK, Accepting
  <2>. QED  BY <1>1, <1>3, <2>2, <2>4, <2>5 DEF Rx, QueueOK, ReadyMeansAccepted
<1>5. CASE IgnoredFrame \/ Command
  <2>1. UNCHANGED <<s_auth_id, s_state>>
    BY <1>5 DEF IgnoredFrame, Command
  <2>2. FramesOK'
    BY <1>0, <1>1, <2>1 DEF Rx, FramesOK, Accepting
  <2>. QED  BY <1>1, <1>3, <2>1, <2>2 DEF Rx, QueueOK, Drained, ReadyMeansAccepted
<1>6. ASSUME NEW id \in Ids, AuthAgain(id) PROVE Rx'
  <2>1. s_state' = s_state /\ s_state = "READY"
    BY <1>6 DEF AuthAgain
  <2>2. s_ws # "none" /\ accepted
    BY <2>1 DEF Rx, ReadyMeansAccepted
  <2>. QED  BY <1>1, <1>2, <1>3, <2>1, <2>2 DEF Rx, FramesOK, QueueOK, Drained, ReadyMeansAccepted
<1>. QED  BY <1>4, <1>5, <1>6 DEF Receive

LEMMA RxStop == ASSUME TypeOK, Rx, ActDisabled \/ ActIdle \/ ActBackoff PROVE Rx'
<1>1. s_rx_queue' = NotMine(s_rx_queue)
  BY DEF ActDisabled, ActIdle, ActBackoff, StopWsClient
<1>2. \A i \in DOMAIN s_rx_queue' : ~ s_rx_queue'[i].mine
  BY <1>1, NotMineFrames, TypeParts DEF Queues
<1>3. s_state' \in {"DISABLED", "IDLE_NO_WIFI", "CONNECTING", "BACKOFF"}
      /\ at' \in {"dying", "wait", "backoff"}
  BY DEF ActDisabled, ActIdle, ActBackoff, TurnEnds, Goto, Step, NextState
<1>. QED  BY <1>2, <1>3 DEF Rx, FramesOK, QueueOK, Drained, ReadyMeansAccepted, Accepting

(* A sign-in starts on the connection whose frames are in the queue.          *)
LEMMA RxAct ==
  ASSUME TypeOK, Rx, ActConnecting \/ ActAuthWait \/ ActAuthTimeout \/ ActReadyBroken,
         BitsOK
  PROVE  Rx'
<1>1. /\ at = "act" /\ UNCHANGED <<s_rx_queue, accepted>>
      /\ s_ws' = "none" => s_ws = "none"
      /\ s_auth_id' \in {0, s_auth_id}
  BY DEF ActConnecting, ActAuthWait, ActAuthTimeout, ActReadyBroken, queues, ws
<1>2. s_state' = "READY" => s_state = "READY"
  <2>1. CASE ActConnecting
    BY <2>1 DEF ActConnecting, Step, NextState
  <2>2. CASE ActAuthWait \/ ActAuthTimeout
    BY <2>2, VerdictStates, TypeParts DEF ActAuthWait, ActAuthTimeout, BitsOK, Step, NextState
  <2>3. CASE ActReadyBroken
    BY <2>3 DEF ActReadyBroken, Step, NextState
  <2>. QED  BY <2>1, <2>2, <2>3
<1>3. FramesOK'
  BY <1>1 DEF Rx, FramesOK, Accepting
<1>4. QueueOK' /\ ReadyMeansAccepted'
  BY <1>1, <1>2 DEF Rx, QueueOK, Drained, ReadyMeansAccepted
<1>. QED  BY <1>3, <1>4 DEF Rx

LEMMA RxEnter == ASSUME TypeOK, Rx, BitsOK, NEW id \in Ids, ActAuthEnter(id) PROVE Rx'
<1>1. /\ at = "act" /\ UNCHANGED <<s_rx_queue, accepted, s_ws>> /\ s_auth_id' = id
      /\ \A i \in DOMAIN s_rx_queue : s_rx_queue[i].kind = "reply" => id # s_rx_queue[i].id
  BY DEF ActAuthEnter, SendAuth, queues, ws
<1>2. s_state' # "READY"
  BY VerdictStates, TypeParts DEF ActAuthEnter, BitsOK
<1>3. FramesOK'
  BY <1>1 DEF Rx, FramesOK, Accepting
<1>4. QueueOK' /\ ReadyMeansAccepted'
  BY <1>1, <1>2 DEF Rx, QueueOK, Drained, ReadyMeansAccepted
<1>. QED  BY <1>3, <1>4 DEF Rx

(* The cloud answers what it was asked.                                       *)
LEMMA RxDeliver ==
  ASSUME TypeOK, Rx, CloudReplies \/ \E f \in Frames : CloudSends(f)
  PROVE  Rx'
<1>0. s_ws = "connected" /\ UNCHANGED <<s_ws, s_auth_id, at, s_state>>
  BY DEF CloudReplies, CloudSends, Unheard, task
<1>a. accepted => accepted'
  <2>1. CASE CloudReplies
    <3>1. PICK ok : accepted' = (accepted \/ ok)
      BY <2>1 DEF CloudReplies
    <3>. QED  BY <3>1, Zenon
  <2>2. CASE \E f \in Frames : CloudSends(f)
    <3>1. accepted' = accepted
      BY <2>2 DEF CloudSends
    <3>. QED  BY <3>1, Zenon
  <2>. QED  BY <2>1, <2>2
<1>1. \E f \in Frames : Deliver(f) /\ f.mine /\ (Accepting(f) => accepted')
  <2>1. CASE CloudReplies
    <3>1. asked \in Ids /\ cloud_ok \in BOOLEAN
      BY <2>1 DEF CloudReplies, TypeOK
    <3>2. PICK ok \in {TRUE, cloud_ok} :
            /\ Deliver([kind |-> "reply", id |-> asked, ok |-> ok, mine |-> TRUE])
            /\ accepted' = (accepted \/ ok)
      BY <2>1 DEF CloudReplies
    <3>. DEFINE f == [kind |-> "reply", id |-> asked, ok |-> ok, mine |-> TRUE]
    <3>3. f \in Frames
      BY <3>1 DEF Frames, Replies
    <3>4. f.mine /\ (f.ok => accepted')
      BY <3>2, Zenon
    <3>5. Accepting(f) => f.ok
      BY DEF Accepting
    <3>. QED  BY <3>2, <3>3, <3>4, <3>5
  <2>2. ASSUME NEW f \in Frames, CloudSends(f)
        PROVE  Deliver(f) /\ f.mine /\ (Accepting(f) => accepted')
    BY <2>2 DEF CloudSends, Accepting
  <2>. QED  BY <2>1, <2>2
<1>2. PICK f \in Frames : Deliver(f) /\ f.mine /\ (Accepting(f) => accepted')
  BY <1>1
<1>3. \A i \in DOMAIN s_rx_queue' :
        \/ i \in DOMAIN s_rx_queue /\ s_rx_queue'[i] = s_rx_queue[i]
        \/ s_rx_queue'[i] = f
  BY <1>2, Delivered, TypeParts
<1>4. FramesOK'
  BY <1>0, <1>a, <1>2, <1>3 DEF Rx, FramesOK, Accepting
<1>5. QueueOK'
  BY <1>0, <1>2, <1>3 DEF Rx, QueueOK, Drained
<1>6. ReadyMeansAccepted'
  BY <1>0, <1>a DEF Rx, ReadyMeansAccepted
<1>. QED  BY <1>4, <1>5, <1>6 DEF Rx

(* Every step keeps what is known of the frames of this and of earlier        *)
(* connections.                                                               *)
LEMMA RxStep == TypeOK /\ BitsOK /\ Rx /\ [Next]_vars => Rx'
<1>. SUFFICES ASSUME TypeOK, BitsOK, Rx, [Next]_vars PROVE Rx'
  OBVIOUS
<1>0. s_state \in States
  BY DEF TypeOK
<1>1. CASE UNCHANGED vars
  BY <1>1, RxKept DEF vars, task, ws, queues, Drained
<1>2. CASE Wake
  <2>1. s_state' \in {"READY", "AUTHENTICATING"} => s_state' = s_state
    BY <1>0, <1>2, SteppedStates DEF Wake
  <2>2. Drained' => Drained
    BY <1>2, <2>1 DEF Wake, Goto, Drained
  <2>. QED  BY <1>2, <2>1, <2>2, RxKept DEF Wake, ws, queues
<1>3. CASE RxDone
  <2>1. DOMAIN s_rx_queue = {} /\ UNCHANGED <<s_rx_queue, s_ws, s_state, accepted>>
    BY <1>3 DEF RxDone, ws, queues
  <2>. QED  BY <2>1 DEF Rx, FramesOK, QueueOK, ReadyMeansAccepted
<1>4. CASE SendEvent \/ Publish \/ Enqueue \/ SetEnable \/ ActReady \/ TxDone \/ Die \/ Spawn
           \/ (\E c \in Creds : SaveCreds(c)) \/ (\E forget \in BOOLEAN : Disable(forget))
           \/ UplinkChanges \/ CloudChanges
  <2>1. /\ UNCHANGED <<s_rx_queue, s_ws, s_auth_id, accepted, s_state>>
        /\ at' = at \/ at' \in {"gone", "wait"} \/ (at' = "tx" /\ at = "act")
    BY <1>4 DEF SendEvent, Publish, Enqueue, SetEnable, ActReady, TxDone, TurnEnds, Goto, Die, Spawn, SaveCreds,
                Disable, UplinkChanges, CloudChanges, task, ws, queues
  <2>. QED  BY <2>1, RxKept DEF Drained
<1>5. CASE BackoffEnds
  <2>1. /\ UNCHANGED <<s_rx_queue, s_ws, s_auth_id, accepted>> /\ at' = "wait"
        /\ s_state' \in {s_state, "CONNECTING"}
    BY <1>5 DEF BackoffEnds, Step, NextState, Goto, ws, queues
  <2>. QED  BY <2>1, RxKept DEF Drained
<1>6. CASE Connect \/ Break \/ Echo
  <2>1. /\ UNCHANGED <<s_rx_queue, s_auth_id, accepted, s_state, at>>
        /\ s_ws' = s_ws \/ (s_ws # "none" /\ s_ws' # "none")
    BY <1>6 DEF Connect, Break, Echo, Unheard, task
  <2>. QED  BY <2>1 DEF Rx, FramesOK, QueueOK, Drained, ReadyMeansAccepted, Accepting
<1>. QED  BY <1>1, <1>2, <1>3, <1>4, <1>5, <1>6, RxReceive, RxStop, RxAct, RxEnter, RxDeliver
     DEF Next, Act, Call, Library

-----------------------------------------------------------------------------
(* The inductive invariant: where the task is when a client exists, which     *)
(* bits can be pending, which frames of the queue are of the present          *)
(* connection, and who was accepted.                                          *)
THEOREM ClientInvariant == Spec => []Inv
<1>1. Init => Inv
  <2>1. Init => TypeOK
    BY TypesInit
  <2>2. ASSUME Init PROVE TaskOK /\ BitsOK /\ Rx
    <3>1. DOMAIN s_rx_queue = {}
      BY <2>2 DEF Init
    <3>. QED  BY <2>2, <3>1 DEF Init, TaskOK, BitsOK, Rx, FramesOK, QueueOK, ReadyMeansAccepted
  <2>. QED  BY <2>1, <2>2 DEF Inv, Rx
<1>2. Inv /\ [Next]_vars => Inv'
  BY TypesStep, TaskStep, BitsStep, RxStep DEF Inv, Rx
<1>. QED  BY <1>1, <1>2, PTL DEF Spec

(* Types; the queues stay within their depths.                                *)
THEOREM ClientTypes == Spec => []TypeOK
<1>1. Inv => TypeOK
  BY DEF Inv
<1>. QED  BY <1>1, ClientInvariant, PTL

(* READY is only ever reached by the acceptance of the present connection,    *)
(* whatever frames, calls and losses come in between.                         *)
THEOREM ReadyIsAccepted == Spec => []ReadyMeansAccepted
<1>1. Inv => ReadyMeansAccepted
  BY DEF Inv
<1>. QED  BY <1>1, ClientInvariant, PTL

(* A task that is gone has left no client, so that the next one starts anew.  *)
THEOREM NoOrphanIsLeft == Spec => []NoOrphan
<1>1. Inv => NoOrphan
  BY DEF Inv, TaskOK, NoOrphan
<1>. QED  BY <1>1, ClientInvariant, PTL
=============================================================================
