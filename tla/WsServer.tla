------------------------------ MODULE WsServer ------------------------------
(***************************************************************************)
(* The WebSocket server (components/ws_server): its table of clients, the  *)
(* sign-in gate, and the writing of frames to sockets.                     *)
(*                                                                         *)
(* One task, Httpd, accepts, reads and closes connections and answers      *)
(* commands (ws_server_reply).  The other tasks broadcast.  s_tx_mutex is  *)
(* held for a frame, s_mutex for one access to the table: an action is one *)
(* critical section of s_mutex, one call into the HTTP server, or one of   *)
(* the two send()s a frame is made of.                                     *)
(*                                                                         *)
(* A token is configured (sign-in is on).  The HTTP server is external: it *)
(* gives the number of a closed socket to a later connection, and closes a *)
(* session on request by the place it has, which is one with the number    *)
(* here; it may refuse the request, which nobody notices.  Sends to a dead *)
(* peer fail.                                                              *)
(***************************************************************************)
EXTENDS Naturals, Sequences, FiniteSets, SequencesExt

CONSTANTS
  MaxFd,            \* socket numbers are 1..MaxFd
  Httpd,            \* the HTTP server's task
  Casters,          \* tasks that broadcast
  MAX_WS_CLIENTS,
  MaxConns,         \* bound: connections accepted
  MaxCasts,         \* bound: broadcasts
  MaxRefused,       \* bound: connections that are open and were not closed when asked
  Reuse, Control,   \* values of reuse and control that are explored
  Rotators          \* tasks that rotate the token: Httpd, or another one too

VARIABLES
  s_fds, s_fd_authed,   \* the table, as two arrays of s_fd_count elements
  s_tx_mutex,           \* {} or {holder}
  conn,                 \* the connection behind a socket number, 0 = none
  websocket, dead,      \* connections that are upgraded, whose peer is gone
  reuse,                \* chosen once: numbers of closed sockets are used again
  control,              \* chosen once: clients send PING, which Httpd answers
  close_queue,          \* closes requested of Httpd
  at,                   \* where each task is
  cur,                  \* Httpd: the socket it works on, and its sign-in state
  snap, fds, failed,    \* per sender: snapshot, recipients left, evicted
  mid,                  \* per task: the connection whose frame it is in
  opened, casts,        \* how far the bounds are used
  signed,               \* history: connections that showed the present token
  trusted,              \* history: connections that ever showed a token
  lost,                 \* history: connections to which a send failed
  leaked,               \* history: connections that got a broadcast without
                        \* ever signing in
  refused               \* history: connections whose close was requested and
                        \* the request not taken

table == <<s_fds, s_fd_authed>>
world == <<reuse, control>>
sockets == <<conn, websocket, dead, opened, world>>
sending == <<snap, fds, failed, mid>>
history == <<signed, trusted, lost, leaked, refused>>
vars == <<table, s_tx_mutex, sockets, close_queue, at, cur, sending, casts, history>>

Tasks == {Httpd} \cup Casters
FDs == 1..MaxFd
Conns == 1..MaxConns

ASSUME ServerAssumption ==
  /\ Httpd \notin Casters
  /\ MAX_WS_CLIENTS \in Nat \ {0}
  /\ MaxFd \in Nat \ {0} /\ MaxConns \in Nat /\ MaxCasts \in Nat /\ MaxRefused \in Nat
  /\ Reuse \subseteq BOOLEAN /\ Control \subseteq BOOLEAN

Places == {"idle",
           "adopt", "ensure", "read", "sign", "close", "pong",      \* Httpd
           "check", "drop",                                         \* broadcast
           "lock", "next", "header", "payload", "evict", "trigger"} \* send_locked

TypeOK ==
  /\ s_fds \in Seq(FDs) /\ s_fd_authed \in Seq(BOOLEAN)
  /\ Len(s_fds) = Len(s_fd_authed) /\ Len(s_fds) <= MAX_WS_CLIENTS
  /\ s_tx_mutex \subseteq Tasks /\ Cardinality(s_tx_mutex) <= 1
  /\ conn \in [FDs -> Conns \cup {0}]
  /\ websocket \subseteq Conns /\ dead \subseteq Conns
  /\ reuse \in Reuse /\ control \in Control
  /\ close_queue \subseteq FDs
  /\ at \in [Tasks -> Places]
  /\ cur.fd \in FDs /\ cur.authed \in BOOLEAN /\ cur.then \in {"idle", "read"}
  /\ \A t \in Tasks : fds[t] \in Seq(FDs) /\ failed[t] \subseteq FDs
  /\ mid \in [Tasks -> Conns \cup {0}]
  /\ opened \in 0..MaxConns /\ casts \in 0..MaxCasts
  /\ signed \subseteq trusted /\ trusted \cup lost \cup leaked \cup refused \subseteq Conns

NoWork == [fd |-> 1, authed |-> FALSE, then |-> "idle"]

Init ==
  /\ s_fds = <<>> /\ s_fd_authed = <<>>
  /\ s_tx_mutex = {}
  /\ conn = [f \in FDs |-> 0] /\ websocket = {} /\ dead = {} /\ opened = 0
  /\ reuse \in Reuse /\ control \in Control
  /\ close_queue = {}
  /\ at = [t \in Tasks |-> "idle"]
  /\ cur = NoWork
  /\ snap = [t \in Tasks |-> <<>>] /\ fds = [t \in Tasks |-> <<>>]
  /\ failed = [t \in Tasks |-> {}] /\ mid = [t \in Tasks |-> 0]
  /\ casts = 0
  /\ signed = {} /\ trusted = {} /\ lost = {} /\ leaked = {} /\ refused = {}

-----------------------------------------------------------------------------
Goto(t, place) == at' = [at EXCEPT ![t] = place]
Registered(f) == f \in ToSet(s_fds)
Position(f) == CHOOSE i \in DOMAIN s_fds : s_fds[i] = f

(* add_fd of an fd that is, or is not, in the table. *)
AddFd(f, authed) ==
  IF Registered(f)
    THEN /\ s_fd_authed' = [s_fd_authed EXCEPT ![Position(f)] = authed]
         /\ UNCHANGED s_fds
    ELSE /\ s_fds' = Append(s_fds, f)
         /\ s_fd_authed' = Append(s_fd_authed, authed)

(* remove_fd_quiet: the last entry moves into the gap. *)
WithoutAt(s, i) == Front([s EXCEPT ![i] = Last(s)])
RemoveFdOnly(f) ==
  IF Registered(f)
    THEN /\ s_fds' = WithoutAt(s_fds, Position(f))
         /\ s_fd_authed' = Front(s_fd_authed)
    ELSE UNCHANGED table
RemoveFd(f) ==
  IF Registered(f)
    THEN /\ s_fds' = WithoutAt(s_fds, Position(f))
         /\ s_fd_authed' = WithoutAt(s_fd_authed, Position(f))
    ELSE UNCHANGED table

(* httpd_sess_trigger_close: whatever has the number now is to be closed. With *)
(* its control queue full the server takes no request; nobody looks at that.   *)
TriggerClose(f) ==
  \/ /\ close_queue' = IF conn[f] = 0 THEN close_queue ELSE close_queue \cup {f}
     /\ UNCHANGED refused
  \/ /\ Cardinality(refused) < MaxRefused
     /\ refused' = refused \cup ({conn[f]} \ {0})
     /\ UNCHANGED close_queue

-----------------------------------------------------------------------------
(* Connections come, upgrade (with or without a token) and lose their peers.  *)
Accept(f) ==
  /\ at[Httpd] = "idle"
  /\ conn[f] = 0
  /\ opened < MaxConns
  /\ reuse \/ f = opened + 1
  /\ opened' = opened + 1
  /\ conn' = [conn EXCEPT ![f] = opened + 1]
  /\ UNCHANGED <<table, s_tx_mutex, websocket, dead, world, close_queue, at, cur, sending, casts,
                 history>>

PeerDies(c) ==
  /\ \E f \in FDs : conn[f] = c
  /\ dead' = dead \cup {c}
  /\ UNCHANGED <<table, s_tx_mutex, conn, websocket, opened, world, close_queue, at, cur, sending,
                 casts, history>>

(* register_client: detect_handshake_auth, then adopt_client. *)
Handshake(f, authed) ==
  LET c == conn[f] IN
  /\ at[Httpd] = "idle"
  /\ c # 0 /\ c \notin websocket \cup dead
  /\ websocket' = websocket \cup {c}
  /\ signed' = IF authed THEN signed \cup {c} ELSE signed
  /\ trusted' = IF authed THEN trusted \cup {c} ELSE trusted
  /\ cur' = [fd |-> f, authed |-> authed, then |-> "idle"]
  /\ Goto(Httpd, "adopt")
  /\ UNCHANGED <<table, s_tx_mutex, conn, dead, opened, world, close_queue, sending, casts, lost,
                 leaked, refused>>

(* adopt_client: a connection that finds the table full is closed.            *)
Full == Len(s_fds) = MAX_WS_CLIENTS
AdoptKeeps ==
  /\ at[Httpd] = "adopt"
  /\ IF Registered(cur.fd) \/ ~ Full THEN AddFd(cur.fd, cur.authed) ELSE UNCHANGED table
  /\ Goto(Httpd, cur.then)
  /\ cur' = IF cur.then = "idle" THEN NoWork ELSE [cur EXCEPT !.then = "idle"]
  /\ UNCHANGED <<s_tx_mutex, sockets, close_queue, sending, casts, history>>
Adopt ==
  /\ at[Httpd] = "adopt"
  /\ IF Registered(cur.fd) \/ ~ Full
       THEN AddFd(cur.fd, cur.authed) /\ UNCHANGED <<close_queue, refused>>
       ELSE TriggerClose(cur.fd) /\ UNCHANGED table
  /\ Goto(Httpd, cur.then)
  /\ cur' = IF cur.then = "idle" THEN NoWork ELSE [cur EXCEPT !.then = "idle"]
  /\ UNCHANGED <<s_tx_mutex, sockets, sending, casts, signed, trusted, lost, leaked>>

(* ws_handler: a message arrives. *)
MessageTrusted(f) ==
  /\ at[Httpd] = "idle"
  /\ conn[f] \in websocket
  /\ cur' = [fd |-> f, authed |-> TRUE, then |-> "read"]
  /\ Goto(Httpd, "ensure")
  /\ UNCHANGED <<table, s_tx_mutex, sockets, close_queue, sending, casts, history>>
Message(f) ==
  /\ at[Httpd] = "idle"
  /\ conn[f] \in websocket
  /\ cur' = [fd |-> f, authed |-> FALSE, then |-> "read"]
  /\ Goto(Httpd, "ensure")
  /\ UNCHANGED <<table, s_tx_mutex, sockets, close_queue, sending, casts, history>>

EnsureFd ==
  /\ at[Httpd] = "ensure"
  /\ IF Registered(cur.fd)
       THEN Goto(Httpd, "read") /\ cur' = [cur EXCEPT !.then = "idle"]
       ELSE Goto(Httpd, "adopt") /\ UNCHANGED cur
  /\ UNCHANGED <<table, s_tx_mutex, sockets, close_queue, sending, casts, history>>

(* It cannot be read: the session ends. *)
ReadFails ==
  /\ at[Httpd] = "read"
  /\ conn[cur.fd] \in dead
  /\ RemoveFd(cur.fd)
  /\ Goto(Httpd, "close")
  /\ UNCHANGED <<s_tx_mutex, sockets, close_queue, cur, sending, casts, history>>

(* dispatch_envelope: a first {"cmd":"auth"} with the right token signs the   *)
(* connection in; everything else is answered, or ignored if it is no text.   *)
Reply ==
  /\ fds' = [fds EXCEPT ![Httpd] = <<cur.fd>>]
  /\ Goto(Httpd, "lock")
  /\ cur' = NoWork

CheckToken ==
  /\ at[Httpd] = "read"
  /\ ~ \E i \in DOMAIN s_fds : s_fds[i] = cur.fd /\ s_fd_authed[i]
  /\ signed' = signed \cup {conn[cur.fd]}
  /\ trusted' = trusted \cup {conn[cur.fd]}
  /\ Goto(Httpd, "sign")
  /\ UNCHANGED <<table, s_tx_mutex, sockets, close_queue, cur, sending, casts, lost, leaked,
                 refused>>

SetAuthed ==
  /\ at[Httpd] = "sign"
  /\ s_fd_authed' = [i \in DOMAIN s_fds |-> s_fd_authed[i] \/ s_fds[i] = cur.fd]
  /\ Reply
  /\ UNCHANGED <<s_fds, s_tx_mutex, sockets, close_queue, snap, failed, mid, casts, history>>

Answer ==
  /\ at[Httpd] = "read"
  /\ \/ Reply
     \/ Goto(Httpd, "idle") /\ cur' = NoWork /\ UNCHANGED fds
  /\ UNCHANGED <<table, s_tx_mutex, sockets, close_queue, snap, failed, mid, casts, history>>

(* auth_rotate_token: a new token, and nobody has shown it yet.               *)
DeauthAll(t) ==
  /\ t \in Rotators
  /\ t = Httpd => at[Httpd] = "idle"
  /\ signed' = {}
  /\ s_fd_authed' = [i \in DOMAIN s_fd_authed |-> FALSE]
  /\ UNCHANGED <<s_fds, s_tx_mutex, sockets, close_queue, at, cur, sending, casts, trusted,
                 lost, leaked, refused>>

(* ws_httpd_close_fn: remove_fd, then close.  Any session may end by itself,  *)
(* and one whose close was requested does.                                    *)
EndSession(f) ==
  /\ at[Httpd] = "idle"
  /\ conn[f] # 0
  /\ RemoveFd(f)
  /\ cur' = [cur EXCEPT !.fd = f]
  /\ Goto(Httpd, "close")
  /\ close_queue' = close_queue \ {f}
  /\ UNCHANGED <<s_tx_mutex, sockets, sending, casts, history>>

CloseRequested == \E f \in close_queue : EndSession(f)

Close ==
  LET gone == {conn[cur.fd]} IN
  /\ at[Httpd] = "close"
  /\ conn' = [conn EXCEPT ![cur.fd] = 0]
  /\ websocket' = websocket \ gone /\ dead' = dead \ gone
  /\ signed' = signed \ gone /\ trusted' = trusted \ gone
  /\ lost' = lost \ gone /\ refused' = refused \ gone
  /\ Goto(Httpd, "idle")
  /\ cur' = NoWork
  /\ UNCHANGED <<table, s_tx_mutex, opened, world, close_queue, sending, casts, leaked>>

(* The HTTP server answers a PING by itself. *)
Pong(f) ==
  /\ control
  /\ at[Httpd] = "idle"
  /\ conn[f] \in websocket \ dead
  /\ mid' = [mid EXCEPT ![Httpd] = conn[f]]
  /\ Goto(Httpd, "pong")
  /\ UNCHANGED <<table, s_tx_mutex, sockets, close_queue, cur, snap, fds, failed, casts,
                 history>>

PongDone ==
  /\ at[Httpd] = "pong"
  /\ mid' = [mid EXCEPT ![Httpd] = 0]
  /\ Goto(Httpd, "idle")
  /\ UNCHANGED <<table, s_tx_mutex, sockets, close_queue, cur, snap, fds, failed, casts,
                 history>>

-----------------------------------------------------------------------------
(* ws_server_broadcast: the table is copied ...                               *)
Snapshot(t) ==
  /\ at[t] = "idle"
  /\ casts < MaxCasts
  /\ casts' = casts + 1
  /\ snap' = [snap EXCEPT ![t] =
       [i \in DOMAIN s_fds |-> [fd |-> s_fds[i], authed |-> s_fd_authed[i]]]]
  /\ Goto(t, "check")
  /\ UNCHANGED <<table, s_tx_mutex, sockets, close_queue, cur, fds, failed, mid, history>>

(* ... and each entry looked up in the HTTP server: one that is no WebSocket  *)
(* is dropped from the table, one that has not signed in is left out.         *)
PopSnap(t) == snap' = [snap EXCEPT ![t] = Tail(@)]
Check(t) ==
  /\ at[t] = "check"
  /\ snap[t] # <<>>
  /\ LET e == Head(snap[t]) IN
     IF conn[e.fd] \notin websocket
       THEN Goto(t, "drop") /\ UNCHANGED <<snap, fds>>
       ELSE /\ PopSnap(t)
            /\ fds' = IF e.authed THEN [fds EXCEPT ![t] = Append(@, e.fd)] ELSE fds
            /\ UNCHANGED at
  /\ UNCHANGED <<table, s_tx_mutex, sockets, close_queue, cur, failed, mid, casts, history>>

Drop(t) ==
  /\ at[t] = "drop"
  /\ RemoveFd(Head(snap[t]).fd)
  /\ PopSnap(t)
  /\ Goto(t, "check")
  /\ UNCHANGED <<s_tx_mutex, sockets, close_queue, cur, fds, failed, mid, casts, history>>

Checked(t) ==
  /\ at[t] = "check"
  /\ snap[t] = <<>>
  /\ Goto(t, IF fds[t] = <<>> THEN "idle" ELSE "lock")
  /\ UNCHANGED <<table, s_tx_mutex, sockets, close_queue, cur, sending, casts, history>>

-----------------------------------------------------------------------------
(* send_locked, for a broadcast and for a reply.                              *)
Lock(t) ==
  /\ at[t] = "lock"
  /\ s_tx_mutex = {}
  /\ s_tx_mutex' = {t}
  /\ Goto(t, "next")
  /\ UNCHANGED <<table, sockets, close_queue, cur, sending, casts, history>>

PopFd(t) == fds' = [fds EXCEPT ![t] = Tail(@)]
Recheck(t) == t # Httpd
MayReceive(f) == \E i \in DOMAIN s_fds : s_fds[i] = f /\ s_fd_authed[i]

NextFd(t) ==
  /\ at[t] = "next"
  /\ fds[t] # <<>>
  /\ IF Recheck(t) /\ ~ MayReceive(Head(fds[t]))
       THEN PopFd(t) /\ UNCHANGED at
       ELSE Goto(t, "header") /\ UNCHANGED fds
  /\ UNCHANGED <<table, s_tx_mutex, sockets, close_queue, cur, snap, failed, mid, casts,
                 history>>

(* What has the number now gets the bytes. *)
Reaches(t, c) ==
  /\ c # 0
  /\ leaked' = IF t = Httpd \/ c \in trusted THEN leaked ELSE leaked \cup {c}
Fails(t, c) ==
  /\ c \in dead \cup {0}
  /\ lost' = lost \cup ({c} \ {0})
  /\ mid' = [mid EXCEPT ![t] = 0]
  /\ Goto(t, "evict")
  /\ UNCHANGED <<fds, leaked>>

Header(t) ==
  LET c == conn[Head(fds[t])] IN
  /\ at[t] = "header"
  /\ \/ Fails(t, c)
     \/ /\ Reaches(t, c)
        /\ mid' = [mid EXCEPT ![t] = c]
        /\ Goto(t, "payload")
        /\ UNCHANGED <<fds, lost>>
  /\ UNCHANGED <<table, s_tx_mutex, sockets, close_queue, cur, snap, failed, casts, signed,
                 trusted, refused>>

Payload(t) ==
  LET c == conn[Head(fds[t])] IN
  /\ at[t] = "payload"
  /\ \/ Fails(t, c)
     \/ /\ Reaches(t, c)
        /\ mid' = [mid EXCEPT ![t] = 0]
        /\ PopFd(t)
        /\ Goto(t, "next")
        /\ UNCHANGED lost
  /\ UNCHANGED <<table, s_tx_mutex, sockets, close_queue, cur, snap, failed, casts, signed,
                 trusted, refused>>

(* remove_fd_quiet, under the TX lock; only who removed it asks for a close.  *)
Evict(t) ==
  /\ at[t] = "evict"
  /\ RemoveFd(Head(fds[t]))
  /\ failed' = IF Registered(Head(fds[t]))
                 THEN [failed EXCEPT ![t] = @ \cup {Head(fds[t])}] ELSE failed
  /\ PopFd(t)
  /\ Goto(t, "next")
  /\ UNCHANGED <<s_tx_mutex, sockets, close_queue, cur, snap, mid, casts, history>>

UnlockForgets(t) ==
  /\ at[t] = "next"
  /\ fds[t] = <<>>
  /\ s_tx_mutex' = {}
  /\ failed' = [failed EXCEPT ![t] = {}]
  /\ Goto(t, "idle")
  /\ UNCHANGED <<table, sockets, close_queue, cur, snap, fds, mid, casts, history>>
UnlockEarlyReturn(t) ==
  /\ at[t] = "next"
  /\ fds[t] = <<>>
  /\ s_tx_mutex' = IF failed[t] = {} THEN {} ELSE s_tx_mutex
  /\ Goto(t, IF failed[t] = {} THEN "idle" ELSE "trigger")
  /\ UNCHANGED <<table, sockets, close_queue, cur, sending, casts, history>>
Unlock(t) ==
  /\ at[t] = "next"
  /\ fds[t] = <<>>
  /\ s_tx_mutex' = {}
  /\ Goto(t, IF failed[t] = {} THEN "idle" ELSE "trigger")
  /\ UNCHANGED <<table, sockets, close_queue, cur, sending, casts, history>>

Trigger(t) ==
  /\ at[t] = "trigger"
  /\ \E f \in failed[t] :
       /\ TriggerClose(f)
       /\ failed' = [failed EXCEPT ![t] = @ \ {f}]
       /\ Goto(t, IF failed[t] = {f} THEN "idle" ELSE "trigger")
  /\ UNCHANGED <<table, s_tx_mutex, sockets, cur, snap, fds, mid, casts, signed, trusted, lost,
                 leaked>>

-----------------------------------------------------------------------------
HttpdStep ==
  \/ Adopt \/ EnsureFd \/ ReadFails \/ CheckToken \/ SetAuthed \/ Answer \/ Close \/ PongDone
SendStep(t) ==
  \/ Check(t) \/ Drop(t) \/ Checked(t)
  \/ Lock(t) \/ NextFd(t) \/ Header(t) \/ Payload(t) \/ Evict(t) \/ Unlock(t) \/ Trigger(t)

Next ==
  \/ \E f \in FDs : Accept(f) \/ Message(f) \/ EndSession(f) \/ Pong(f)
  \/ \E f \in FDs, authed \in BOOLEAN : Handshake(f, authed)
  \/ \E c \in Conns : PeerDies(c)
  \/ \E t \in Rotators : DeauthAll(t)
  \/ \E t \in Casters : Snapshot(t)
  \/ HttpdStep
  \/ \E t \in Tasks : SendStep(t)

Spec == Init /\ [][Next]_vars

(* Tasks run, a send ends (SO_SNDTIMEO), the TX mutex is granted in turn, and *)
(* Httpd works off its control queue.                                         *)
FairSpec ==
  /\ Spec
  /\ WF_vars(HttpdStep) /\ SF_vars(CloseRequested)
  /\ \A t \in Tasks : WF_vars(SendStep(t)) /\ SF_vars(Lock(t))

-----------------------------------------------------------------------------
(* An entry marked as signed in belongs to an open WebSocket that showed the  *)
(* token now in force ("keep auth state aligned", "force sockets that authed  *)
(* with the OLD token to re-authenticate").                                   *)
AuthedMeansSigned ==
  \A i \in DOMAIN s_fds : s_fd_authed[i] => conn[s_fds[i]] \in signed

(* "Sockets that opened /ws but never authenticated must NOT passively        *)
(* receive events", nor must plain HTTP responses be hit by one.              *)
NothingLeaks == leaked = {}

(* They do not as long as no number passes to another connection.             *)
GateHolds == ~ reuse => NothingLeaks

(* "Two tasks can never interleave on a socket": no task sends a part of a    *)
(* frame to a connection in the middle of another task's frame.               *)
FramesWhole == \A t, u \in Tasks : t # u /\ mid[t] # 0 => mid[t] # mid[u]

(* True of broadcasts and replies, as long as no client sends PING.           *)
TakeTurns == ~ control => FramesWhole

(* An open WebSocket is without an entry only while it is being adopted or on *)
(* its way to be closed.                                                      *)
Attended(f) ==
  \/ Registered(f)
  \/ f \in close_queue \/ \E t \in Tasks : f \in failed[t]
  \/ cur.fd = f /\ at[Httpd] \in {"adopt", "close"}

(* No socket "stays open, accepts commands, yet never receives a single       *)
(* broadcast (a half-functional zombie)".  Does not hold (put in place of     *)
(* NoZombie in MCWsServer_sending.cfg): the server may refuse the close.      *)
NoneForgotten == ~ reuse => \A f \in FDs : conn[f] \in websocket => Attended(f)

(* It takes a refusal to leave one, as long as no number passes to another    *)
(* connection.                                                                *)
NoZombie ==
  ~ reuse => \A f \in FDs : conn[f] \in websocket \ refused => Attended(f)

(* Senders do not wait for ever, for each other or for a dead peer.           *)
SendersFinish == \A t \in Tasks : at[t] = "lock" ~> at[t] = "idle"

(* A connection to which a send failed is closed in the end.  Does not hold   *)
(* (put in place of LostIsClosed in MCWsServer_sending.cfg), for the same     *)
(* reason: "best effort".                                                     *)
Closed(c) == \A f \in FDs : conn[f] # c
AllLostAreClosed == \A c \in Conns : c \in lost /\ ~ reuse ~> Closed(c)

(* It is, so that the page behind it reconnects, unless the server refused to *)
(* close it, as long as no number passes to another connection.               *)
LostIsClosed == \A c \in Conns : c \in lost /\ ~ reuse ~> Closed(c) \/ c \in refused
=============================================================================
