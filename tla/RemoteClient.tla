---------------------------- MODULE RemoteClient ----------------------------
(***************************************************************************)
(* The connection to the cloud (components/remote_client): task_remote and *)
(* its state machine, the API calls that start and stop it, the WebSocket  *)
(* library that reports to it through event bits and a receive queue, and  *)
(* the tasks that publish events to it.                                    *)
(*                                                                         *)
(* The task loops: it takes all event bits at once, steps the state        *)
(* machine, handles the queued frames, and acts on the state it is then    *)
(* in.  It deletes itself when disabled; enabling spawns it anew.          *)
(*                                                                         *)
(* A frame, or an event to be sent, remembers whether it belongs to the    *)
(* present connection ("mine").  Credentials are version numbers, 0 is     *)
(* none.  The library, the network and the cloud are external; EVB_TX and  *)
(* EVB_BACKOFF_DONE only wake the task, which wakes every second anyway.   *)
(***************************************************************************)
EXTENDS Naturals, Sequences

CONSTANTS
  Creds,     \* versions of the credentials, positive numbers
  Ids,       \* auth request ids, 0 not among them
  RxDepth,   \* depth of s_rx_queue
  TxDepth,   \* CONFIG_ZHAC_REMOTE_TX_QUEUE_DEPTH
  Settings   \* the circumstances that are explored, see SettingKinds

VARIABLES
  s_state, s_running, s_task,
  s_cfg, nvs,       \* the credentials of the task, and the stored ones
  s_auth_id,        \* the auth request that waits for a reply, 0 = none
  bits,             \* s_remote_evt
  s_rx_queue, s_tx_queue,
  at, taken,        \* where the task is in its loop, the bits it took
  last_state,
  s_ws,             \* the client: none, started, connected or broken
  ws_cfg,           \* the credentials it was started with
  asked,            \* the auth request the cloud has not answered yet
  echo,             \* the library still has to report a broken connection
  setting,          \* one of Settings, chosen once
  has_ip, cloud_ok, \* the uplink; the cloud accepts, answers in time, stays
  api, wanted,      \* the API call that is under way; the last one was enable
  pub,              \* the event a publisher is about to queue, if any
  accepted          \* history: the cloud accepted us on this connection

task == <<s_task, at, taken, last_state>>
config == <<s_cfg, nvs>>
ws == <<s_ws, ws_cfg, asked, echo>>
queues == <<s_rx_queue, s_tx_queue>>
env == <<setting, has_ip, cloud_ok>>
calls == <<api, wanted>>
vars == <<s_state, s_running, s_auth_id, bits, task, config, ws, queues, env, calls, pub,
          accepted>>

(* hasty: the API is called before the task has dealt with the last call.     *)
(* overtake: a spawned task runs before its spawner has set the bits.         *)
(* flap: the network goes and comes back within a turn of the loop.           *)
RaceKinds == {"hasty", "overtake", "flap"}

(* wired: the uplink is Ethernet, whose changes set no bits.                  *)
(* commands: the cloud sends commands, of its own accord.                     *)
SettingKinds == [wired : BOOLEAN, races : SUBSET RaceKinds, commands : BOOLEAN]

States == {"DISABLED", "IDLE_NO_WIFI", "CONNECTING", "AUTHENTICATING", "READY", "BACKOFF"}
Bits == {"ENABLE", "DISABLE", "WIFI_UP", "WIFI_DOWN", "WSS_EVENT", "AUTH_OK", "AUTH_FAIL",
         "RELOAD_CFG"}
Replies == [kind : {"reply"}, id : Ids, ok : BOOLEAN, mine : BOOLEAN]
CommandFrames == [kind : {"command", "remote.auth"}, mine : BOOLEAN]
Frames == Replies \cup CommandFrames
Events == [mine : BOOLEAN]

ASSUME RemoteAssumption ==
  /\ Creds \subseteq Nat \ {0} /\ Creds # {}
  /\ 0 \notin Ids /\ Ids # {}
  /\ RxDepth \in Nat \ {0} /\ TxDepth \in Nat \ {0}
  /\ Settings \subseteq SettingKinds

TypeOK ==
  /\ s_state \in States /\ last_state \in States
  /\ s_running \in BOOLEAN /\ s_task \in BOOLEAN
  /\ s_cfg \in Creds \cup {0} /\ nvs \in Creds \cup {0} /\ ws_cfg \in Creds \cup {0}
  /\ s_auth_id \in Ids \cup {0} /\ asked \in Ids \cup {0}
  /\ bits \subseteq Bits /\ taken \subseteq Bits
  /\ s_rx_queue \in Seq(Frames) /\ Len(s_rx_queue) <= RxDepth
  /\ s_tx_queue \in Seq(Events) /\ Len(s_tx_queue) <= TxDepth
  /\ at \in {"wait", "rx", "act", "tx", "backoff", "dying", "gone"}
  /\ s_ws \in {"none", "started", "connected", "broken"}
  /\ setting \in Settings
  /\ has_ip \in BOOLEAN /\ cloud_ok \in BOOLEAN /\ echo \in BOOLEAN /\ wanted \in BOOLEAN
  /\ api \in {"idle", "spawn", "set"}
  /\ pub \in Seq(Events) /\ Len(pub) <= 1
  /\ accepted \in BOOLEAN

(* After remote_client_init without stored credentials.                       *)
Init ==
  /\ s_state = "DISABLED" /\ s_running = FALSE /\ s_auth_id = 0
  /\ bits = {}
  /\ s_task = TRUE /\ at = "wait" /\ taken = {} /\ last_state = "DISABLED"
  /\ s_cfg = 0 /\ nvs = 0
  /\ s_ws = "none" /\ ws_cfg = 0 /\ asked = 0 /\ echo = FALSE
  /\ s_rx_queue = <<>> /\ s_tx_queue = <<>>
  /\ setting \in Settings
  /\ has_ip = FALSE /\ cloud_ok = FALSE
  /\ api = "idle" /\ wanted = FALSE
  /\ pub = <<>>
  /\ accepted = FALSE

-----------------------------------------------------------------------------
(* remote_state_next. *)
NextState(cur, ev) ==
  CASE ev = "DISABLE"                                      -> "DISABLED"
    [] ev = "WIFI_DOWN" /\ cur # "DISABLED"                -> "IDLE_NO_WIFI"
    [] ev = "ENABLE" /\ cur = "DISABLED"                   -> "IDLE_NO_WIFI"
    [] ev = "WIFI_UP" /\ cur = "IDLE_NO_WIFI"              -> "CONNECTING"
    [] ev = "WSS_CONNECT" /\ cur = "CONNECTING"            -> "AUTHENTICATING"
    [] ev = "WSS_ERROR" /\ cur \in {"CONNECTING", "AUTHENTICATING", "READY"} -> "BACKOFF"
    [] ev = "AUTH_OK" /\ cur = "AUTHENTICATING"            -> "READY"
    [] ev \in {"AUTH_FAIL", "AUTH_TIMEOUT"} /\ cur = "AUTHENTICATING" -> "BACKOFF"
    [] ev = "BACKOFF_DONE" /\ cur = "BACKOFF"              -> "CONNECTING"
    [] OTHER                                               -> cur
Step(ev) == s_state' = NextState(s_state, ev)

Goto(place) == at' = place

(* A turn begins: all bits are taken, the credentials reloaded if asked, and  *)
(* the state machine is stepped, in this order of the events.  Without a bit  *)
(* it begins after a second; a spawner has set its bits by then.              *)
StepIf(ev, cur) == IF ev \in bits THEN NextState(cur, ev) ELSE cur
Stepped == StepIf("WIFI_UP", StepIf("WIFI_DOWN", StepIf("ENABLE", StepIf("DISABLE", s_state))))
Wake ==
  /\ at = "wait"
  /\ (api = "set" /\ s_state = "DISABLED") => (bits # {} /\ "overtake" \in setting.races)
  /\ taken' = bits /\ bits' = {}
  /\ s_cfg' = IF "RELOAD_CFG" \in bits THEN nvs ELSE s_cfg
  /\ s_state' = Stepped
  /\ Goto("rx")
  /\ UNCHANGED <<s_running, s_auth_id, s_task, last_state, nvs, ws, queues, env, calls, pub,
                 accepted>>

-----------------------------------------------------------------------------
(* handle_rx_frame, for the first frame in the queue.                         *)
PopRx == s_rx_queue # <<>> /\ s_rx_queue' = Tail(s_rx_queue)
AwaitedAny(f) == f.kind = "reply"
Awaited(f) == f.kind = "reply" /\ s_auth_id # 0 /\ f.id = s_auth_id

AuthReply ==
  LET f == Head(s_rx_queue) IN
  /\ at = "rx" /\ PopRx
  /\ s_state = "AUTHENTICATING" /\ Awaited(f)
  /\ s_auth_id' = 0
  /\ IF f.ok
       THEN /\ s_state' = "READY"
            /\ bits' = bits \cup {"AUTH_OK"}
       ELSE bits' = bits \cup {"AUTH_FAIL"} /\ UNCHANGED s_state
  /\ UNCHANGED <<s_running, task, config, ws, s_tx_queue, env, calls, pub, accepted>>

IgnoredFrame ==
  LET f == Head(s_rx_queue) IN
  /\ at = "rx" /\ PopRx
  /\ \/ s_state = "AUTHENTICATING" /\ ~ Awaited(f)
     \/ s_state # "AUTHENTICATING" /\ f.kind = "reply"
     \/ s_state \notin {"AUTHENTICATING", "READY"} /\ f.kind = "remote.auth"
  /\ UNCHANGED <<s_state, s_running, s_auth_id, bits, task, config, ws, s_tx_queue, env,
                 calls, pub, accepted>>

(* send_auth_frame: the id is a fresh random number.                          *)
SendAuth(id) ==
  /\ id # s_auth_id /\ id # asked
  /\ \A i \in DOMAIN s_rx_queue : s_rx_queue[i].kind = "reply" => id # s_rx_queue[i].id
  /\ s_auth_id' = id
  /\ asked' = IF s_ws = "connected" THEN id ELSE asked

AuthAgain(id) ==
  /\ at = "rx" /\ PopRx
  /\ s_state = "READY" /\ Head(s_rx_queue).kind = "remote.auth"
  /\ SendAuth(id)
  /\ UNCHANGED <<s_state, s_running, bits, task, config, s_ws, ws_cfg, echo, s_tx_queue, env,
                 calls, pub, accepted>>

Command ==
  /\ at = "rx" /\ PopRx
  /\ s_state # "AUTHENTICATING" /\ Head(s_rx_queue).kind = "command"
  /\ UNCHANGED <<s_state, s_running, s_auth_id, bits, task, config, ws, s_tx_queue, env,
                 calls, pub, accepted>>

RxDone ==
  /\ at = "rx"
  /\ s_rx_queue = <<>>
  /\ Goto("act")
  /\ UNCHANGED <<s_state, s_running, s_auth_id, bits, s_task, taken, last_state, config, ws,
                 queues, env, calls, pub, accepted>>

-----------------------------------------------------------------------------
(* What the task does in the state it has reached.                            *)
TurnEnds == Goto("wait") /\ last_state' = s_state /\ taken' = {} /\ UNCHANGED s_task

NotMine(q) == [i \in DOMAIN q |-> [q[i] EXCEPT !.mine = FALSE]]
StopWsClient ==
  /\ s_ws' = "none" /\ ws_cfg' = 0 /\ asked' = 0 /\ echo' = FALSE
  /\ s_rx_queue' = NotMine(s_rx_queue)
  /\ pub' = NotMine(pub)
  /\ accepted' = FALSE

ActDisabledLeaks ==
  /\ at = "act" /\ s_state = "DISABLED"
  /\ s_running' = FALSE
  /\ s_tx_queue' = <<>>
  /\ Goto("dying")
  /\ UNCHANGED <<s_state, s_auth_id, bits, s_task, taken, last_state, config, ws, s_rx_queue,
                 env, calls, pub, accepted>>
ActDisabled ==
  /\ at = "act" /\ s_state = "DISABLED"
  /\ s_running' = FALSE
  /\ StopWsClient
  /\ s_tx_queue' = <<>>
  /\ Goto("dying")
  /\ UNCHANGED <<s_state, s_auth_id, bits, s_task, taken, last_state, config, env, calls>>

Die ==
  /\ at = "dying"
  /\ s_task' = FALSE
  /\ Goto("gone")
  /\ taken' = {}
  /\ UNCHANGED <<s_state, s_running, s_auth_id, bits, last_state, config, ws, queues, env,
                 calls, pub, accepted>>

ActIdleNoHeal ==
  /\ at = "act" /\ s_state = "IDLE_NO_WIFI"
  /\ s_running' = FALSE
  /\ StopWsClient
  /\ s_tx_queue' = NotMine(s_tx_queue)
  /\ TurnEnds
  /\ UNCHANGED <<s_state, s_auth_id, bits, config, env, calls>>
ActIdle ==
  /\ at = "act" /\ s_state = "IDLE_NO_WIFI"
  /\ s_running' = FALSE
  /\ StopWsClient
  /\ s_tx_queue' = NotMine(s_tx_queue)
  /\ IF has_ip THEN Step("WIFI_UP") ELSE UNCHANGED s_state
  /\ TurnEnds
  /\ UNCHANGED <<s_auth_id, bits, config, env, calls>>

(* A client is started if there is none; a bit says that something happened   *)
(* to the client there is.                                                    *)
ActConnecting ==
  /\ at = "act" /\ s_state = "CONNECTING"
  /\ IF s_ws = "none"
       THEN s_ws' = "started" /\ ws_cfg' = s_cfg
       ELSE UNCHANGED <<s_ws, ws_cfg>>
  /\ IF "WSS_EVENT" \in taken
       THEN Step(IF s_ws = "connected" THEN "WSS_CONNECT" ELSE "WSS_ERROR")
       ELSE UNCHANGED s_state
  /\ TurnEnds
  /\ UNCHANGED <<s_running, s_auth_id, bits, config, asked, echo, queues, env, calls, pub,
                 accepted>>

Dropped == s_ws \notin {"none", "connected"}
JustEntered == last_state # "AUTHENTICATING"

(* The request goes out in the first turn; the bits of this turn still count. *)
AuthVerdict ==
  CASE "AUTH_OK" \in taken                              -> Step("AUTH_OK")
    [] "AUTH_OK" \notin taken /\ "AUTH_FAIL" \in taken  -> Step("AUTH_FAIL")
    [] taken \cap {"AUTH_OK", "AUTH_FAIL"} = {} /\ "WSS_EVENT" \in taken
         /\ Dropped                                     -> Step("WSS_ERROR")
    [] OTHER                                            -> UNCHANGED s_state

ActAuthEnter(id) ==
  /\ at = "act" /\ s_state = "AUTHENTICATING" /\ JustEntered
  /\ SendAuth(id)
  /\ AuthVerdict
  /\ TurnEnds
  /\ UNCHANGED <<s_running, bits, config, s_ws, ws_cfg, echo, queues, env, calls, pub,
                 accepted>>

ActAuthWait ==
  /\ at = "act" /\ s_state = "AUTHENTICATING" /\ ~ JustEntered
  /\ AuthVerdict
  /\ TurnEnds
  /\ UNCHANGED <<s_running, s_auth_id, bits, config, ws, queues, env, calls, pub, accepted>>

(* Five seconds without a verdict; a good cloud answers sooner.               *)
ActAuthTimeout ==
  /\ at = "act" /\ s_state = "AUTHENTICATING" /\ ~ JustEntered
  /\ taken \cap {"AUTH_OK", "AUTH_FAIL"} = {} /\ ~ ("WSS_EVENT" \in taken /\ Dropped)
  /\ ~ cloud_ok \/ (asked = 0 /\ s_rx_queue = <<>> /\ "AUTH_FAIL" \notin bits)
  /\ s_auth_id' = 0
  /\ Step("AUTH_TIMEOUT")
  /\ TurnEnds
  /\ UNCHANGED <<s_running, bits, config, ws, queues, env, calls, pub, accepted>>

ActReadyBroken ==
  /\ at = "act" /\ s_state = "READY"
  /\ Dropped
  /\ Step("WSS_ERROR")
  /\ TurnEnds
  /\ UNCHANGED <<s_running, s_auth_id, bits, config, ws, queues, env, calls, pub, accepted>>

ActReady ==
  /\ at = "act" /\ s_state = "READY"
  /\ ~ Dropped
  /\ s_running' = TRUE
  /\ Goto("tx")
  /\ UNCHANGED <<s_state, s_auth_id, bits, s_task, taken, last_state, config, ws, queues,
                 env, calls, pub, accepted>>

SendEvent ==
  /\ at = "tx"
  /\ s_tx_queue # <<>>
  /\ s_tx_queue' = Tail(s_tx_queue)
  /\ UNCHANGED <<s_state, s_running, s_auth_id, bits, task, config, ws, s_rx_queue, env,
                 calls, pub, accepted>>

TxDone ==
  /\ at = "tx"
  /\ s_tx_queue = <<>>
  /\ TurnEnds
  /\ UNCHANGED <<s_state, s_running, s_auth_id, bits, config, ws, queues, env, calls, pub,
                 accepted>>

ActBackoff ==
  /\ at = "act" /\ s_state = "BACKOFF"
  /\ s_running' = FALSE
  /\ StopWsClient
  /\ s_tx_queue' = NotMine(s_tx_queue)
  /\ Goto("backoff")
  /\ UNCHANGED <<s_state, s_auth_id, bits, s_task, taken, last_state, config, env, calls>>

(* The wait ends with its time, or early when the task is disabled or the     *)
(* network goes; those bits stay set for the next turn.                       *)
BackoffClears ==
  /\ at = "backoff"
  /\ IF bits \cap {"DISABLE", "WIFI_DOWN"} = {} THEN Step("BACKOFF_DONE") ELSE UNCHANGED s_state
  /\ bits' = bits \ {"DISABLE", "WIFI_DOWN"}
  /\ Goto("wait") /\ last_state' = "BACKOFF" /\ taken' = {}
  /\ UNCHANGED <<s_running, s_auth_id, s_task, config, ws, queues, env, calls, pub, accepted>>
BackoffEnds ==
  /\ at = "backoff"
  /\ IF bits \cap {"DISABLE", "WIFI_DOWN"} = {} THEN Step("BACKOFF_DONE") ELSE UNCHANGED s_state
  /\ Goto("wait") /\ last_state' = "BACKOFF" /\ taken' = {}
  /\ UNCHANGED <<s_running, s_auth_id, bits, s_task, config, ws, queues, env, calls, pub,
                 accepted>>

-----------------------------------------------------------------------------
(* The API. api_remote_connect stores the credentials, remote_client_enable   *)
(* spawns the task if it is gone, then sets the bits.                         *)
Settled ==
  /\ api = "idle"
  /\ "hasty" \notin setting.races =>
       /\ bits \cap {"ENABLE", "DISABLE"} = {}
       /\ at = "backoff" \/ (at \in {"wait", "gone"} /\ taken = {})
       /\ (s_state = "DISABLED") = ~ s_task

SaveCreds(c) ==
  /\ Settled
  /\ nvs' = c
  /\ wanted' = TRUE
  /\ api' = "spawn"
  /\ UNCHANGED <<s_state, s_running, s_auth_id, bits, task, s_cfg, ws, queues, env, pub,
                 accepted>>

Spawn ==
  /\ api = "spawn"
  /\ api' = "set"
  /\ IF s_task
       THEN UNCHANGED task
       ELSE s_task' = TRUE /\ at' = "wait" /\ taken' = {} /\ last_state' = "DISABLED"
  /\ UNCHANGED <<s_state, s_running, s_auth_id, bits, config, ws, queues, env, wanted, pub,
                 accepted>>

SetEnable ==
  /\ api = "set"
  /\ api' = "idle"
  /\ bits' = bits \cup {"RELOAD_CFG", "ENABLE"}
  /\ UNCHANGED <<s_state, s_running, s_auth_id, task, config, ws, queues, env, wanted, pub,
                 accepted>>

Disable(forget) ==
  /\ Settled
  /\ nvs' = IF forget THEN 0 ELSE nvs
  /\ s_cfg' = IF forget THEN 0 ELSE s_cfg
  /\ wanted' = FALSE
  /\ bits' = bits \cup {"DISABLE"}
  /\ UNCHANGED <<s_state, s_running, s_auth_id, task, ws, queues, env, api, pub, accepted>>

(* remote_client_publish_event: the check, then the queueing; a full queue    *)
(* loses its oldest event.                                                    *)
Publish ==
  /\ pub = <<>>
  /\ s_running /\ s_state = "READY"
  /\ pub' = <<[mine |-> TRUE]>>
  /\ UNCHANGED <<s_state, s_running, s_auth_id, bits, task, config, ws, queues, env, calls,
                 accepted>>

Enqueue ==
  /\ pub # <<>>
  /\ s_tx_queue' = (IF Len(s_tx_queue) = TxDepth THEN Tail(s_tx_queue) ELSE s_tx_queue) \o pub
  /\ pub' = <<>>
  /\ UNCHANGED <<s_state, s_running, s_auth_id, bits, task, config, ws, s_rx_queue, env,
                 calls, accepted>>

-----------------------------------------------------------------------------
(* The WebSocket library and the cloud. *)
Unheard == UNCHANGED <<s_state, s_running, s_auth_id, task, config, s_tx_queue, env, calls,
                       pub>>

Connect ==
  /\ s_ws = "started" /\ has_ip /\ ws_cfg # 0
  /\ s_ws' = "connected"
  /\ bits' = bits \cup {"WSS_EVENT"}
  /\ UNCHANGED <<ws_cfg, asked, echo, s_rx_queue, accepted>> /\ Unheard

(* A broken connection is reported as an error, and once more when closed.    *)
Break ==
  /\ s_ws \in {"started", "connected"}
  /\ ~ (has_ip /\ cloud_ok) \/ ws_cfg = 0
  /\ s_ws' = "broken" /\ asked' = 0
  /\ bits' = bits \cup {"WSS_EVENT"}
  /\ echo' \in BOOLEAN
  /\ UNCHANGED <<ws_cfg, s_rx_queue, accepted>> /\ Unheard

Echo ==
  /\ echo
  /\ echo' = FALSE
  /\ bits' = bits \cup {"WSS_EVENT"}
  /\ UNCHANGED <<s_ws, ws_cfg, asked, s_rx_queue, accepted>> /\ Unheard

(* WEBSOCKET_EVENT_DATA: a frame that finds the queue full is lost.           *)
Deliver(f) ==
  s_rx_queue' = IF Len(s_rx_queue) = RxDepth THEN s_rx_queue ELSE Append(s_rx_queue, f)

CloudReplies ==
  /\ s_ws = "connected" /\ asked # 0
  /\ cloud_ok => Len(s_rx_queue) < RxDepth
  /\ \E ok \in {TRUE, cloud_ok} :
       /\ Deliver([kind |-> "reply", id |-> asked, ok |-> ok, mine |-> TRUE])
       /\ accepted' = (accepted \/ ok)
  /\ asked' = 0
  /\ UNCHANGED <<bits, s_ws, ws_cfg, echo>> /\ Unheard

(* The cloud sends commands, and replies to something else.                   *)
CloudSends(f) ==
  /\ setting.commands
  /\ s_ws = "connected"
  /\ f.mine /\ (f.kind = "reply" => f.id \notin {asked, s_auth_id})
  /\ Deliver(f)
  /\ UNCHANGED <<bits, s_ws, ws_cfg, asked, echo, accepted>> /\ Unheard

(* The uplink goes and comes; for Wi-Fi main.cpp sets the bits. *)
UplinkChanges ==
  /\ "flap" \in setting.races \/ bits \cap {"WIFI_UP", "WIFI_DOWN"} = {}
  /\ has_ip' = ~ has_ip
  /\ bits' = bits \cup IF setting.wired THEN {} ELSE {IF has_ip THEN "WIFI_DOWN" ELSE "WIFI_UP"}
  /\ UNCHANGED <<s_state, s_running, s_auth_id, task, config, ws, queues, setting, cloud_ok, calls,
                 pub, accepted>>

CloudChanges ==
  /\ cloud_ok' = ~ cloud_ok
  /\ UNCHANGED <<s_state, s_running, s_auth_id, bits, task, config, ws, queues, setting, has_ip,
                 calls, pub, accepted>>

-----------------------------------------------------------------------------
Receive ==
  \/ AuthReply \/ IgnoredFrame \/ Command
  \/ \E id \in Ids : AuthAgain(id)
Act ==
  \/ ActDisabled \/ Die \/ ActIdle \/ ActConnecting \/ ActReadyBroken \/ ActReady
  \/ ActBackoff \/ BackoffEnds \/ SendEvent
  \/ \E id \in Ids : ActAuthEnter(id)
  \/ ActAuthWait
Call == Spawn \/ SetEnable
Library == Connect \/ Echo

Next ==
  \/ Wake \/ Receive \/ RxDone \/ Act \/ ActAuthTimeout \/ TxDone
  \/ Call
  \/ \E c \in Creds : SaveCreds(c)
  \/ \E forget \in BOOLEAN : Disable(forget)
  \/ Publish \/ Enqueue
  \/ Library \/ Break \/ CloudReplies
  \/ \E f \in Frames : CloudSends(f)
  \/ UplinkChanges \/ CloudChanges

Spec == Init /\ [][Next]_vars

(* Tasks run; frames and events do not come in faster than they are handled   *)
(* for ever; a good cloud can be reached and answers, and a connection that   *)
(* is up is not for ever reported within the short time of a turn.            *)
FairSpec ==
  /\ Spec
  /\ WF_vars(Wake) /\ WF_vars(Receive) /\ WF_vars(Act) /\ SF_vars(ActAuthTimeout) /\ SF_vars(RxDone) /\ SF_vars(TxDone)
  /\ WF_vars(Call) /\ WF_vars(Enqueue)
  /\ WF_vars(Library) /\ SF_vars(Connect /\ at = "wait") /\ WF_vars(CloudReplies) /\ WF_vars(Break)

-----------------------------------------------------------------------------
(* READY means that the cloud has accepted us on the connection there is: a   *)
(* reply to another request, or left over from another connection, does not   *)
(* count ("only for the id we actually sent").                                *)
ReadyMeansAccepted == s_state = "READY" => s_ws # "none" /\ accepted

(* A task that is gone has left no client behind, so that the next one does   *)
(* not go on with its connection.                                             *)
NoOrphan == ~ s_task => s_ws = "none"

(* No command runs before we are authenticated ("it must not reach command    *)
(* dispatch"). Does not hold, nor do NoStaleEvent and FreshCreds              *)
(* (MCRemoteClient_claims.cfg): frames that arrive in the turn the connection *)
(* comes up are handled before the state machine has seen it.                 *)
NoEarlyCommand == [][Command => accepted]_vars

(* An event is only sent on the connection it was published on ("TX queue     *)
(* NEVER persists across disconnect").                                        *)
NoStaleEvent == [][SendEvent => Head(s_tx_queue).mine]_vars

(* After the last call, an enable, and with network and cloud there to stay,  *)
(* the client gets ready and stays so ("respawn if a prior disable            *)
(* self-deleted the task").                                                   *)
LastCallEnable == wanted /\ api = "idle"
EnableTakes == <>[](LastCallEnable /\ has_ip /\ cloud_ok) => <>[](s_state = "READY")

(* After the last call, a disable, the client goes off for good ("EV_DISABLE  *)
(* always wins").                                                             *)
DisableTakes == <>[](~ wanted) => <>[](s_state = "DISABLED" /\ ~ s_task)

(* A client that is enabled ends up connected with the stored credentials     *)
(* ("a live connection on stale creds is torn down").                         *)
FreshCreds == <>[](LastCallEnable /\ has_ip /\ cloud_ok) => <>[](ws_cfg = nvs)
=============================================================================
