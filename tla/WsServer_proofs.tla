--------------------------- MODULE WsServer_proofs --------------------------
(* Proofs about the table of clients, the sign-in gate and the sending of    *)
(* frames, for any number of sockets, connections and tasks.                 *)
EXTENDS WsServer, SequenceTheorems, FiniteSetTheorems, TLAPS

(* The table holds a socket once; its two arrays are as long as each other.   *)
TableOK ==
  /\ s_fds \in Seq(FDs) /\ s_fd_authed \in Seq(BOOLEAN)
  /\ Len(s_fds) = Len(s_fd_authed) /\ Len(s_fds) <= MAX_WS_CLIENTS
  /\ \A i, j \in DOMAIN s_fds : s_fds[i] = s_fds[j] => i = j

(* Connections are numbered in the order they come, one to a socket.          *)
SocketsOK ==
  /\ conn \in [FDs -> Conns \cup {0}] /\ opened \in 0..MaxConns
  /\ reuse \in Reuse /\ control \in Control
  /\ websocket \subseteq 1..opened /\ dead \subseteq Conns
  /\ \A f \in FDs : conn[f] <= opened
  /\ \A f, g \in FDs : conn[f] = conn[g] /\ conn[f] # 0 => f = g

Entries == [fd : FDs, authed : BOOLEAN]
TasksOK ==
  /\ s_tx_mutex \in {{}} \cup {{t} : t \in Tasks}
  /\ at \in [Tasks -> Places]
  /\ cur \in [fd : FDs, authed : BOOLEAN, then : {"idle", "read"}]
  /\ snap \in [Tasks -> Seq(Entries)]
  /\ fds \in [Tasks -> Seq(FDs)]
  /\ failed \in [Tasks -> SUBSET FDs]
  /\ mid \in [Tasks -> Conns \cup {0}]
  /\ close_queue \subseteq FDs
  /\ casts \in 0..MaxCasts

Sends == {"next", "header", "payload", "evict"}
PlacesOK ==
  \A t \in Tasks :
    /\ at[t] \in {"adopt", "ensure", "read", "sign", "close", "pong"} => t = Httpd
    /\ at[t] \in {"header", "payload", "evict"} => fds[t] # <<>>
    /\ at[t] = "drop" => snap[t] # <<>>
    /\ at[t] \in Sends => s_tx_mutex = {t}
    /\ mid[t] # 0 => at[t] = "payload" \/ (at[t] = "pong" /\ control)

HistoryOK ==
  signed \subseteq trusted /\ trusted \cup lost \cup leaked \cup refused \subseteq Conns

(* Httpd works on an open WebSocket, and one that is to be entered as signed  *)
(* in has signed in; a session that ends is out of the table first.           *)
Works == {"adopt", "ensure", "read", "sign"}
Vouches == at[Httpd] = "sign" \/ (at[Httpd] \in {"ensure", "adopt"} /\ cur.authed)
CurOK ==
  /\ at[Httpd] \in Works => conn[cur.fd] \in websocket
  /\ at[Httpd] = "close" => ~ Registered(cur.fd)
  /\ Vouches => conn[cur.fd] \in trusted

EntriesOpen == \A f \in FDs : Registered(f) => conn[f] \in websocket
EntriesTrusted == \A f \in FDs : MayReceive(f) => conn[f] \in trusted

EntriesSigned == \A f \in FDs : MayReceive(f) => conn[f] \in signed
CurSigned == Vouches => conn[cur.fd] \in signed

(* As long as no number passes to another connection, what a broadcast has    *)
(* taken from the table stays true of the socket until it is closed.          *)
Once == \A f \in FDs : conn[f] # 0 => conn[f] = f
Passed(f) == f <= opened /\ conn[f] \in trusted \cup {0}
Known(e) ==
  /\ e.fd <= opened /\ conn[e.fd] \in websocket \cup {0}
  /\ e.authed => Passed(e.fd)
Stays(t) ==
  /\ \A i \in DOMAIN snap[t] : Known(snap[t][i])
  /\ at[t] = "drop" => conn[Head(snap[t]).fd] = 0
  /\ t # Httpd => \A i \in DOMAIN fds[t] : Passed(fds[t][i])
SnapsStay == Once /\ \A t \in Tasks : Stays(t)

TypeInv == TableOK /\ SocketsOK /\ TasksOK /\ PlacesOK /\ HistoryOK
OpenInv == CurOK /\ EntriesOpen /\ EntriesTrusted
NoneMissed == \A f \in FDs : conn[f] \in websocket \ refused => Attended(f)
StaysInv == ~ reuse => SnapsStay /\ NothingLeaks /\ NoneMissed
SignedInv == EntriesSigned /\ CurSigned

-----------------------------------------------------------------------------
(* The last element moves into the gap.                                       *)
LEMMA WithoutAtProperties ==
  ASSUME NEW S, NEW s \in Seq(S), NEW i \in 1..Len(s)
  PROVE  /\ WithoutAt(s, i) \in Seq(S) /\ Len(WithoutAt(s, i)) = Len(s) - 1
         /\ \A j \in 1..(Len(s) - 1) :
              WithoutAt(s, i)[j] = IF j = i THEN s[Len(s)] ELSE s[j]
<1>. DEFINE n == Len(s)
            e == [s EXCEPT ![i] = s[n]]
<1>1. n \in Nat /\ n >= 1 /\ n \in 1..Len(s) /\ s[n] \in S
  BY LenProperties, ElementOfSeq
<1>2. /\ e \in Seq(S) /\ Len(e) = n
      /\ \A j \in 1..n : e[j] = IF j = i THEN s[n] ELSE s[j]
  BY <1>1, ExceptSeq
<1>3. WithoutAt(s, i) = SubSeq(e, 1, n - 1)
  BY <1>2 DEF WithoutAt, Front, Last
<1>. HIDE DEF e, n
<1>4. \A j \in 1..(n - 1) : e[j] \in S
  BY <1>1, <1>2, ElementOfSeq
<1>5. n - 1 \in Int /\ 1 \in Int
  BY <1>1
<1>6. /\ SubSeq(e, 1, n - 1) \in Seq(S)
      /\ Len(SubSeq(e, 1, n - 1)) = IF 1 <= n - 1 THEN (n - 1) - 1 + 1 ELSE 0
      /\ \A j \in 1..((n - 1) - 1 + 1) : SubSeq(e, 1, n - 1)[j] = e[1 + j - 1]
  BY <1>4, <1>5, SubSeqProperties
<1>7. Len(SubSeq(e, 1, n - 1)) = n - 1
  BY <1>1, <1>6
<1>8. \A j \in 1..(n - 1) : SubSeq(e, 1, n - 1)[j] = e[j]
  BY <1>1, <1>6
<1>. QED  BY <1>1, <1>2, <1>3, <1>6, <1>7, <1>8 DEF n

(* The two arrays of the table have the same indices.                         *)
LEMMA TableDomain ==
  ASSUME TableOK
  PROVE  /\ Len(s_fds) \in Nat /\ DOMAIN s_fds = 1..Len(s_fds)
         /\ DOMAIN s_fd_authed = 1..Len(s_fds)
         /\ \A i \in 1..Len(s_fds) : s_fds[i] \in FDs /\ s_fd_authed[i] \in BOOLEAN
  BY LenProperties, ElementOfSeq DEF TableOK

(* What is left of the table without f.                                       *)
Without(f) ==
  /\ TableOK'
  /\ \A g \in FDs : /\ Registered(g)' <=> Registered(g) /\ g # f
                    /\ MayReceive(g)' <=> MayReceive(g) /\ g # f

(* Removing a socket leaves the table of all the others, without a double.    *)
LEMMA Removed == ASSUME TableOK, NEW f \in FDs, RemoveFd(f) PROVE Without(f)
<1>0. /\ Len(s_fds) \in Nat /\ DOMAIN s_fds = 1..Len(s_fds)
      /\ DOMAIN s_fd_authed = 1..Len(s_fds)
  BY TableDomain
<1>1. CASE ~ Registered(f)
  <2>1. \A i \in DOMAIN s_fds : s_fds[i] # f
    BY <1>1 DEF Registered, ToSet
  <2>2. UNCHANGED <<s_fds, s_fd_authed>>
    BY <1>1 DEF RemoveFd, table
  <2>3. TableOK'
    BY <2>2 DEF TableOK
  <2>4. \A g \in FDs : (Registered(g)' <=> Registered(g)) /\ (MayReceive(g)' <=> MayReceive(g))
    BY <2>2 DEF Registered, MayReceive
  <2>5. ~ MayReceive(f)
    BY <2>1 DEF MayReceive
  <2>. QED  BY <1>1, <2>3, <2>4, <2>5 DEF Without
<1>2. CASE Registered(f)
  <2>. DEFINE n == Len(s_fds)
              p == Position(f)
  <2>1. p \in 1..n /\ s_fds[p] = f
    BY <1>0, <1>2 DEF Registered, ToSet, Position
  <2>2. \A i \in 1..n : s_fds[i] = f => i = p
    BY <1>0, <2>1 DEF TableOK
  <2>3. s_fds' = WithoutAt(s_fds, p) /\ s_fd_authed' = WithoutAt(s_fd_authed, p)
    BY <1>2 DEF RemoveFd
  <2>. HIDE DEF p
  <2>4. /\ s_fds' \in Seq(FDs) /\ Len(s_fds') = n - 1
        /\ \A j \in 1..(n - 1) : s_fds'[j] = IF j = p THEN s_fds[n] ELSE s_fds[j]
    BY <2>1, <2>3, WithoutAtProperties DEF TableOK
  <2>5. /\ s_fd_authed' \in Seq(BOOLEAN) /\ Len(s_fd_authed') = n - 1
        /\ \A j \in 1..(n - 1) :
             s_fd_authed'[j] = IF j = p THEN s_fd_authed[n] ELSE s_fd_authed[j]
    <3>1. s_fd_authed \in Seq(BOOLEAN) /\ Len(s_fd_authed) = n
      BY DEF TableOK
    <3>. HIDE DEF n
    <3>2. p \in 1..Len(s_fd_authed)
      BY <2>1, <3>1
    <3>. QED  BY <2>3, <3>1, <3>2, WithoutAtProperties
  <2>6. DOMAIN s_fds' = 1..(n - 1)
    BY <2>4, LenProperties
  <2>. HIDE DEF n
  <2>7. n \in Nat /\ DOMAIN s_fds = 1..n
    BY <1>0 DEF n
  (* Where the entry at j was before.                                         *)
  <2>. DEFINE From(j) == IF j = p THEN n ELSE j
  <2>8. \A j \in 1..(n - 1) :
          /\ From(j) \in 1..n /\ From(j) # p
          /\ s_fds'[j] = s_fds[From(j)] /\ s_fd_authed'[j] = s_fd_authed[From(j)]
    BY <2>1, <2>4, <2>5, <2>7
  <2>9. \A i \in 1..n : i # p => \E j \in 1..(n - 1) : From(j) = i
    <3>. SUFFICES ASSUME NEW i \in 1..n, i # p PROVE \E j \in 1..(n - 1) : From(j) = i
      OBVIOUS
    <3>1. CASE i = n
      BY <2>1, <2>7, <3>1
    <3>2. CASE i # n
      <4>1. i \in 1..(n - 1)
        BY <2>7, <3>2
      <4>. QED  BY <4>1
    <3>. QED  BY <3>1, <3>2
  <2>10. \A i, j \in 1..(n - 1) : From(i) = From(j) => i = j
    BY <2>1, <2>7
  <2>. HIDE DEF From
  <2>11. TableOK'
    <3>1. \A i, j \in DOMAIN s_fds' : s_fds'[i] = s_fds'[j] => i = j
      BY <2>6, <2>7, <2>8, <2>10 DEF TableOK
    <3>2. Len(s_fds') <= MAX_WS_CLIENTS
      BY <2>4, <2>7, ServerAssumption DEF TableOK, n
    <3>. QED  BY <2>4, <2>5, <3>1, <3>2 DEF TableOK
  <2>12. ASSUME NEW g \in FDs
         PROVE  /\ Registered(g)' <=> Registered(g) /\ g # f
                /\ MayReceive(g)' <=> MayReceive(g) /\ g # f
    <3>1. \A j \in 1..(n - 1) : s_fds'[j] # f
      BY <2>2, <2>8 DEF n
    <3>2. Registered(g)' <=> Registered(g) /\ g # f
      BY <2>1, <2>6, <2>7, <2>8, <2>9, <3>1 DEF Registered, ToSet
    <3>3. MayReceive(g)' <=> MayReceive(g) /\ g # f
      <4>1. ASSUME MayReceive(g)' PROVE MayReceive(g) /\ g # f
        <5>1. PICK j \in 1..(n - 1) : s_fds'[j] = g /\ s_fd_authed'[j]
          BY <2>6, <4>1 DEF MayReceive
        <5>2. From(j) \in DOMAIN s_fds /\ s_fds[From(j)] = g /\ s_fd_authed[From(j)]
          BY <2>7, <2>8, <5>1
        <5>. QED  BY <3>1, <5>1, <5>2 DEF MayReceive
      <4>2. ASSUME MayReceive(g), g # f PROVE MayReceive(g)'
        <5>1. PICK i \in 1..n : s_fds[i] = g /\ s_fd_authed[i]
          BY <2>7, <4>2 DEF MayReceive
        <5>2. PICK j \in 1..(n - 1) : From(j) = i
          BY <2>1, <2>9, <4>2, <5>1
        <5>3. s_fds'[j] = g /\ s_fd_authed'[j]
          BY <2>8, <5>1, <5>2
        <5>. QED  BY <2>6, <5>3 DEF MayReceive
      <4>. QED  BY <4>1, <4>2
    <3>. QED  BY <3>2, <3>3
  <2>. QED  BY <2>11, <2>12 DEF Without
<1>. QED  BY <1>1, <1>2

(* The table with f entered, or its mark changed.                             *)
With(f, authed) ==
  /\ TableOK'
  /\ \A g \in FDs : /\ Registered(g)' <=> Registered(g) \/ g = f
                    /\ MayReceive(g)' <=> IF g = f THEN authed ELSE MayReceive(g)

(* Adding a socket that is not in the table leaves it a table.                *)
LEMMA Added ==
  ASSUME TableOK, NEW f \in FDs, NEW authed \in BOOLEAN, Registered(f) \/ ~ Full, AddFd(f, authed)
  PROVE  With(f, authed)
<1>. DEFINE n == Len(s_fds)
<1>0. n \in Nat /\ DOMAIN s_fds = 1..n /\ DOMAIN s_fd_authed = 1..n /\ Len(s_fd_authed) = n
  BY TableDomain DEF TableOK
<1>1. CASE Registered(f)
  <2>. DEFINE p == Position(f)
  <2>1. p \in 1..n /\ s_fds[p] = f
    BY <1>0, <1>1 DEF Registered, ToSet, Position
  <2>2. \A i \in 1..n : s_fds[i] = f => i = p
    BY <1>0, <2>1 DEF TableOK
  <2>3. s_fds' = s_fds /\ s_fd_authed' = [s_fd_authed EXCEPT ![p] = authed]
    BY <1>1 DEF AddFd
  <2>. HIDE DEF p
  <2>4. /\ s_fd_authed' \in Seq(BOOLEAN) /\ Len(s_fd_authed') = n
        /\ \A j \in 1..n : s_fd_authed'[j] = IF j = p THEN authed ELSE s_fd_authed[j]
    BY <1>0, <2>1, <2>3, ExceptSeq DEF TableOK
  <2>5. TableOK'
    BY <2>3, <2>4 DEF TableOK
  <2>6. ASSUME NEW g \in FDs
        PROVE  /\ Registered(g)' <=> Registered(g) \/ g = f
               /\ MayReceive(g)' <=> IF g = f THEN authed ELSE MayReceive(g)
    <3>1. Registered(g)' <=> Registered(g) \/ g = f
      BY <1>1, <2>3 DEF Registered
    <3>2. CASE g = f
      BY <1>0, <2>1, <2>2, <2>3, <2>4, <3>1, <3>2 DEF MayReceive
    <3>3. CASE g # f
      BY <1>0, <2>1, <2>2, <2>3, <2>4, <3>1, <3>3 DEF MayReceive
    <3>. QED  BY <3>2, <3>3
  <2>. QED  BY <2>5, <2>6 DEF With
<1>2. CASE ~ Registered(f)
  <2>1. s_fds' = Append(s_fds, f) /\ s_fd_authed' = Append(s_fd_authed, authed)
    BY <1>2 DEF AddFd
  <2>2. /\ s_fds' \in Seq(FDs) /\ Len(s_fds') = n + 1
        /\ s_fds'[n + 1] = f /\ \A i \in 1..n : s_fds'[i] = s_fds[i]
    BY <2>1, AppendProperties DEF TableOK
  <2>3. /\ s_fd_authed' \in Seq(BOOLEAN) /\ Len(s_fd_authed') = n + 1
        /\ s_fd_authed'[n + 1] = authed /\ \A i \in 1..n : s_fd_authed'[i] = s_fd_authed[i]
    BY <1>0, <2>1, AppendProperties DEF TableOK
  <2>4. DOMAIN s_fds' = 1..(n + 1)
    BY <2>2, LenProperties
  <2>5. \A i \in 1..n : s_fds[i] # f
    BY <1>0, <1>2 DEF Registered, ToSet
  <2>6. n + 1 <= MAX_WS_CLIENTS
    <3>1. n <= MAX_WS_CLIENTS /\ n # MAX_WS_CLIENTS /\ MAX_WS_CLIENTS \in Nat
      BY <1>2, ServerAssumption DEF TableOK, Full
    <3>. HIDE DEF n
    <3>. QED  BY <1>0, <3>1
  <2>. HIDE DEF n
  <2>7. TableOK'
    <3>1. \A i, j \in 1..(n + 1) : s_fds'[i] = s_fds'[j] => i = j
      <4>. SUFFICES ASSUME NEW i \in 1..(n + 1), NEW j \in 1..(n + 1), s_fds'[i] = s_fds'[j]
                    PROVE  i = j
        OBVIOUS
      <4>1. CASE i \in 1..n /\ j \in 1..n
        BY <1>0, <2>2, <4>1 DEF TableOK
      <4>2. CASE i = n + 1 \/ j = n + 1
        BY <1>0, <2>2, <2>5, <4>2
      <4>. QED  BY <1>0, <4>1, <4>2
    <3>. QED  BY <2>2, <2>3, <2>4, <2>6, <3>1 DEF TableOK
  <2>8. ASSUME NEW g \in FDs
        PROVE  /\ Registered(g)' <=> Registered(g) \/ g = f
               /\ MayReceive(g)' <=> IF g = f THEN authed ELSE MayReceive(g)
    <3>1. 1..(n + 1) = 1..n \cup {n + 1}
      BY <1>0
    <3>2. Registered(g)' <=> Registered(g) \/ g = f
      BY <1>0, <2>2, <2>4, <3>1 DEF Registered, ToSet
    <3>3. CASE g = f
      BY <1>0, <2>2, <2>3, <2>4, <2>5, <3>1, <3>2, <3>3 DEF MayReceive
    <3>4. CASE g # f
      BY <1>0, <2>2, <2>3, <2>4, <3>1, <3>2, <3>4 DEF MayReceive
    <3>. QED  BY <3>3, <3>4
  <2>. QED  BY <2>7, <2>8 DEF With
<1>. QED  BY <1>1, <1>2

(* set_fd_authed and deauth_all keep the sockets and change their marks.      *)
LEMMA Marked ==
  ASSUME TableOK, s_fds' = s_fds,
         s_fd_authed' = [i \in DOMAIN s_fds |-> s_fd_authed[i] \/ s_fds[i] = cur.fd]
  PROVE  /\ TableOK'
         /\ \A g \in FDs : /\ Registered(g)' <=> Registered(g)
                           /\ MayReceive(g)' => MayReceive(g) \/ g = cur.fd
<1>. DEFINE n == Len(s_fds)
<1>0. n \in Nat /\ DOMAIN s_fds = 1..n /\ \A i \in 1..n : s_fd_authed[i] \in BOOLEAN
  BY TableDomain
<1>1. s_fd_authed' \in [1..n -> BOOLEAN]
  BY <1>0, Zenon
<1>. HIDE DEF n
<1>2. s_fd_authed' \in Seq(BOOLEAN) /\ Len(s_fd_authed') = n
  BY <1>0, <1>1, SeqDef
<1>3. TableOK'
  BY <1>2 DEF TableOK, n
<1>4. \A i \in 1..n : s_fd_authed'[i] => s_fd_authed[i] \/ s_fds[i] = cur.fd
  BY <1>0, Zenon
<1>. QED  BY <1>0, <1>3, <1>4 DEF Registered, MayReceive

LEMMA Unmarked ==
  ASSUME TableOK, s_fds' = s_fds, s_fd_authed' = [i \in DOMAIN s_fd_authed |-> FALSE]
  PROVE  /\ TableOK'
         /\ \A g \in FDs : (Registered(g)' <=> Registered(g)) /\ ~ MayReceive(g)'
<1>. DEFINE n == Len(s_fds)
<1>0. n \in Nat /\ DOMAIN s_fds = 1..n /\ DOMAIN s_fd_authed = 1..n
  BY TableDomain
<1>1. s_fd_authed' \in [1..n -> BOOLEAN] /\ \A i \in 1..n : s_fd_authed'[i] = FALSE
  BY <1>0, Zenon
<1>. HIDE DEF n
<1>2. s_fd_authed' \in Seq(BOOLEAN) /\ Len(s_fd_authed') = n
  BY <1>0, <1>1, SeqDef
<1>3. TableOK'
  BY <1>2 DEF TableOK, n
<1>. QED  BY <1>0, <1>1, <1>3 DEF Registered, MayReceive

LEMMA Kept ==
  ASSUME TableOK, UNCHANGED table
  PROVE  /\ TableOK'
         /\ \A g \in FDs : (Registered(g)' <=> Registered(g)) /\ (MayReceive(g)' <=> MayReceive(g))
  BY DEF table, TableOK, Registered, MayReceive

-----------------------------------------------------------------------------
LEMMA QueueTypes ==
  ASSUME TasksOK, NEW t \in Tasks
  PROVE  /\ fds[t] # <<>> => Head(fds[t]) \in FDs /\ Tail(fds[t]) \in Seq(FDs)
         /\ snap[t] # <<>> => Head(snap[t]) \in Entries /\ Tail(snap[t]) \in Seq(Entries)
<1>1. fds[t] \in Seq(FDs) /\ snap[t] \in Seq(Entries)
  BY DEF TasksOK
<1>. QED  BY <1>1, HeadTailProperties

(* Initially every part of the type invariant holds.                          *)
LEMMA TypeInit == Init => TypeInv
<1>. SUFFICES ASSUME Init PROVE TypeInv
  OBVIOUS
<1>1. TableOK
  <2>1. s_fds \in Seq(FDs) /\ s_fd_authed \in Seq(BOOLEAN) /\ Len(s_fds) = 0 /\ Len(s_fd_authed) = 0
        /\ DOMAIN s_fds = {}
    BY EmptySeq DEF Init
  <2>. QED  BY <2>1, ServerAssumption DEF TableOK
<1>2. SocketsOK
  BY ServerAssumption DEF Init, SocketsOK
<1>3. TasksOK
  <2>1. cur \in [fd : FDs, authed : BOOLEAN, then : {"idle", "read"}]
    <3>1. 1 \in FDs
      BY ServerAssumption DEF FDs
    <3>. QED  BY <3>1 DEF Init, NoWork
  <2>2. snap \in [Tasks -> Seq(Entries)] /\ fds \in [Tasks -> Seq(FDs)]
    BY EmptySeq DEF Init
  <2>3. /\ at \in [Tasks -> Places] /\ failed \in [Tasks -> SUBSET FDs]
        /\ mid \in [Tasks -> Conns \cup {0}]
    BY DEF Init, Places
  <2>4. s_tx_mutex = {} /\ close_queue \subseteq FDs /\ casts \in 0..MaxCasts
    BY ServerAssumption DEF Init
  <2>. QED  BY <2>1, <2>2, <2>3, <2>4 DEF TasksOK
<1>4. PlacesOK
  BY DEF Init, PlacesOK, Sends
<1>5. HistoryOK
  BY DEF Init, HistoryOK
<1>. QED  BY <1>1, <1>2, <1>3, <1>4, <1>5 DEF TypeInv

(* A task goes on; the others stay where they are.                            *)
Goes(t, place) ==
  /\ at' = [at EXCEPT ![t] = place]
  /\ at' \in [Tasks -> Places] /\ at'[t] = place
  /\ \A u \in Tasks : u # t => at'[u] = at[u]
(* A task that goes on stands at a place of the program.                      *)
LEMMA GoesOn == ASSUME TasksOK, NEW t \in Tasks, NEW place \in Places, Goto(t, place)
                PROVE  Goes(t, place)
  BY DEF TasksOK, Goto, Goes

LEMMA HttpdIsTask == Httpd \in Tasks /\ NoWork \in [fd : FDs, authed : BOOLEAN, then : {"idle", "read"}]
<1>1. 1 \in FDs
  BY ServerAssumption DEF FDs
<1>. QED  BY <1>1 DEF Tasks, NoWork

(* The world: connections come, lose their peers, upgrade and go.             *)
LEMMA TypeAccept == ASSUME TypeInv, NEW f \in FDs, Accept(f) PROVE TypeInv'
<1>1. opened + 1 \in Conns /\ opened \in Nat /\ opened + 1 \in 0..MaxConns
  BY ServerAssumption DEF TypeInv, SocketsOK, Accept, Conns
<1>2. SocketsOK'
  <2>1. conn' \in [FDs -> Conns \cup {0}]
    BY <1>1 DEF Accept, TypeInv, SocketsOK
  <2>2. \A g \in FDs : conn[g] \in Nat /\ conn[g] <= opened
    BY DEF TypeInv, SocketsOK, Conns
  <2>3. \A g \in FDs : conn'[g] = IF g = f THEN opened + 1 ELSE conn[g]
    BY DEF Accept, TypeInv, SocketsOK
  <2>4. \A g \in FDs : conn'[g] <= opened + 1
    BY <1>1, <2>2, <2>3
  <2>5. \A g, h \in FDs : conn'[g] = conn'[h] /\ conn'[g] # 0 => g = h
    BY <1>1, <2>2, <2>3 DEF TypeInv, SocketsOK
  <2>6. websocket' \subseteq 1..(opened + 1)
    BY <1>1 DEF Accept, TypeInv, SocketsOK
  <2>. QED  BY <1>1, <2>1, <2>4, <2>5, <2>6 DEF Accept, TypeInv, SocketsOK, world
<1>3. TasksOK' /\ PlacesOK' /\ HistoryOK' /\ TableOK'
  BY DEF Accept, TypeInv, TasksOK, PlacesOK, HistoryOK, TableOK, table, sending, history, world
<1>. QED  BY <1>2, <1>3 DEF TypeInv

LEMMA TypePeerDies == ASSUME TypeInv, NEW c \in Conns, PeerDies(c) PROVE TypeInv'
<1>1. SocketsOK'
  BY DEF PeerDies, TypeInv, SocketsOK, world
<1>2. TasksOK' /\ PlacesOK' /\ HistoryOK' /\ TableOK'
  BY DEF PeerDies, TypeInv, TasksOK, PlacesOK, HistoryOK, TableOK, table, sending, history, world
<1>. QED  BY <1>1, <1>2 DEF TypeInv

LEMMA ConnOpened == ASSUME SocketsOK, NEW f \in FDs, conn[f] # 0
                    PROVE  conn[f] \in 1..opened /\ conn[f] \in Conns
  BY DEF SocketsOK, Conns

LEMMA TypeHandshake ==
  ASSUME TypeInv, NEW f \in FDs, NEW authed \in BOOLEAN, Handshake(f, authed)
  PROVE  TypeInv'
<1>1. conn[f] \in 1..opened /\ conn[f] \in Conns
  BY ConnOpened DEF Handshake, TypeInv
<1>2. SocketsOK'
  BY <1>1 DEF Handshake, TypeInv, SocketsOK, world
<1>3. Goes(Httpd, "adopt")
  BY HttpdIsTask, GoesOn DEF Handshake, TypeInv, Places
<1>4. cur' \in [fd : FDs, authed : BOOLEAN, then : {"idle", "read"}]
  BY DEF Handshake
<1>5. TasksOK'
  BY <1>3, <1>4 DEF Handshake, TypeInv, TasksOK, sending, Goes
<1>6. PlacesOK'
  BY <1>3 DEF Handshake, TypeInv, PlacesOK, sending, world, Goes, Sends
<1>7. HistoryOK'
  BY <1>1 DEF Handshake, TypeInv, HistoryOK
<1>8. TableOK'
  BY Kept DEF Handshake, TypeInv
<1>. QED  BY <1>2, <1>5, <1>6, <1>7, <1>8 DEF TypeInv

LEMMA TypeClose == ASSUME TypeInv, Close PROVE TypeInv'
<1>0. cur.fd \in FDs
  BY DEF TypeInv, TasksOK
<1>1. \A g \in FDs : conn'[g] = IF g = cur.fd THEN 0 ELSE conn[g]
  BY DEF Close, TypeInv, SocketsOK
<1>2. SocketsOK'
  <2>1. conn' \in [FDs -> Conns \cup {0}]
    BY DEF Close, TypeInv, SocketsOK
  <2>2. \A g \in FDs : conn'[g] <= opened
    BY <1>1 DEF TypeInv, SocketsOK
  <2>3. \A g, h \in FDs : conn'[g] = conn'[h] /\ conn'[g] # 0 => g = h
    BY <1>1 DEF TypeInv, SocketsOK
  <2>. QED  BY <2>1, <2>2, <2>3 DEF Close, TypeInv, SocketsOK, world
<1>3. Goes(Httpd, "idle")
  BY HttpdIsTask, GoesOn DEF Close, TypeInv, Places
<1>4. TasksOK'
  BY <1>3, HttpdIsTask DEF Close, TypeInv, TasksOK, sending, Goes
<1>5. PlacesOK'
  BY <1>3 DEF Close, TypeInv, PlacesOK, sending, world, Goes, Sends
<1>6. HistoryOK'
  BY DEF Close, TypeInv, HistoryOK
<1>7. TableOK'
  BY Kept DEF Close, TypeInv
<1>. QED  BY <1>2, <1>4, <1>5, <1>6, <1>7 DEF TypeInv

(* What does not touch the sockets keeps their part.                          *)
LEMMA SocketsKept == ASSUME SocketsOK, UNCHANGED sockets PROVE SocketsOK'
  BY DEF SocketsOK, sockets, world
LEMMA HistoryKept == ASSUME HistoryOK, UNCHANGED history PROVE HistoryOK'
  BY DEF HistoryOK, history

(* Httpd goes on, with other work, and sends nothing.                         *)
LEMMA HttpdMoves ==
  ASSUME TypeInv, NEW place \in Places \ (Sends \cup {"drop", "pong"}), Goto(Httpd, place),
         at[Httpd] \notin Sends \cup {"pong"},
         cur' \in [fd : FDs, authed : BOOLEAN, then : {"idle", "read"}],
         close_queue' \subseteq FDs,
         fds' \in [Tasks -> Seq(FDs)], \A u \in Tasks : u # Httpd => fds'[u] = fds[u],
         UNCHANGED <<s_tx_mutex, snap, failed, mid, casts, control>>
  PROVE  TasksOK' /\ PlacesOK'
<1>1. Goes(Httpd, place)
  BY HttpdIsTask, GoesOn DEF TypeInv
<1>2. TasksOK'
  BY <1>1 DEF TypeInv, TasksOK, Goes
<1>3. PlacesOK'
  <2>. SUFFICES ASSUME NEW u \in Tasks
                PROVE  /\ at'[u] \in {"adopt", "ensure", "read", "sign", "close", "pong"} => u = Httpd
                       /\ at'[u] \in {"header", "payload", "evict"} => fds'[u] # <<>>
                       /\ at'[u] = "drop" => snap[u] # <<>>
                       /\ at'[u] \in Sends => s_tx_mutex = {u}
                       /\ mid[u] # 0 => at'[u] = "payload" \/ (at'[u] = "pong" /\ control)
    BY DEF PlacesOK
  <2>1. CASE u = Httpd
    BY <1>1, <2>1, HttpdIsTask DEF TypeInv, PlacesOK, Goes, Sends
  <2>2. CASE u # Httpd
    BY <1>1, <2>2 DEF TypeInv, PlacesOK, Goes
  <2>. QED  BY <2>1, <2>2
<1>. QED  BY <1>2, <1>3

LEMMA CloseTriggered ==
  ASSUME TypeInv, NEW f \in FDs, TriggerClose(f)
  PROVE  close_queue' \subseteq FDs /\ refused' \subseteq Conns
  BY DEF TriggerClose, TypeInv, TasksOK, SocketsOK, HistoryOK

LEMMA TypeAdopt == ASSUME TypeInv, Adopt PROVE TypeInv'
<1>0. cur.fd \in FDs /\ cur.authed \in BOOLEAN /\ cur.then \in {"idle", "read"}
  BY DEF TypeInv, TasksOK
<1>1. TableOK'
  <2>1. CASE Registered(cur.fd) \/ ~ Full
    BY <1>0, <2>1, Added DEF Adopt, With, TypeInv
  <2>2. CASE ~ (Registered(cur.fd) \/ ~ Full)
    BY <2>2, Kept DEF Adopt, TypeInv
  <2>. QED  BY <2>1, <2>2
<1>2. close_queue' \subseteq FDs /\ refused' \subseteq Conns
  BY <1>0, CloseTriggered DEF Adopt, TypeInv, TasksOK, HistoryOK
<1>3. cur' \in [fd : FDs, authed : BOOLEAN, then : {"idle", "read"}]
  BY HttpdIsTask DEF Adopt, TypeInv, TasksOK
<1>4. TasksOK' /\ PlacesOK'
  <2>1. cur.then \in Places \ (Sends \cup {"drop", "pong"})
    BY <1>0 DEF Places, Sends
  <2>. QED  BY <1>2, <1>3, <2>1, HttpdMoves
       DEF Adopt, TypeInv, TasksOK, sending, sockets, world, Sends
<1>. QED  BY <1>1, <1>2, <1>4, SocketsKept DEF Adopt, TypeInv, HistoryOK

LEMMA TypeMessage == ASSUME TypeInv, NEW f \in FDs, Message(f) PROVE TypeInv'
<1>1. TasksOK' /\ PlacesOK'
  BY HttpdMoves DEF Message, TypeInv, TasksOK, sending, sockets, world, Places, Sends
<1>. QED  BY <1>1, Kept, SocketsKept, HistoryKept DEF Message, TypeInv

LEMMA TypeEnsure == ASSUME TypeInv, EnsureFd PROVE TypeInv'
<1>1. cur' \in [fd : FDs, authed : BOOLEAN, then : {"idle", "read"}]
  BY DEF EnsureFd, TypeInv, TasksOK
<1>2. TasksOK' /\ PlacesOK'
  BY <1>1, HttpdMoves DEF EnsureFd, TypeInv, TasksOK, sending, sockets, world, Places, Sends
<1>. QED  BY <1>2, Kept, SocketsKept, HistoryKept DEF EnsureFd, TypeInv

LEMMA TypeReadFails == ASSUME TypeInv, ReadFails PROVE TypeInv'
<1>1. TableOK'
  BY Removed DEF ReadFails, TypeInv, TasksOK, Without
<1>2. TasksOK' /\ PlacesOK'
  BY HttpdMoves DEF ReadFails, TypeInv, TasksOK, sending, sockets, world, Places, Sends
<1>. QED  BY <1>1, <1>2, SocketsKept, HistoryKept DEF ReadFails, TypeInv

LEMMA WebsocketOpen == ASSUME SocketsOK, NEW c \in websocket PROVE c \in Conns /\ c # 0
<1>1. c \in 1..opened /\ opened \in 0..MaxConns
  BY DEF SocketsOK
<1>. QED  BY <1>1, ServerAssumption DEF Conns

LEMMA TypeCheckToken ==
  ASSUME TypeInv, CurOK, CheckToken PROVE TypeInv'
<1>1. conn[cur.fd] \in Conns
  <2>1. conn[cur.fd] \in websocket
    BY DEF CheckToken, CurOK, Works
  <2>. QED  BY <2>1, WebsocketOpen DEF TypeInv
<1>2. TasksOK' /\ PlacesOK'
  BY HttpdMoves DEF CheckToken, TypeInv, TasksOK, sending, sockets, world, Places, Sends
<1>3. HistoryOK'
  BY <1>1 DEF CheckToken, TypeInv, HistoryOK
<1>. QED  BY <1>2, <1>3, Kept, SocketsKept DEF CheckToken, TypeInv

LEMMA ReplyMoves ==
  ASSUME TypeInv, Reply, at[Httpd] \in {"read", "sign"},
         UNCHANGED <<s_tx_mutex, sockets, close_queue, snap, failed, mid, casts>>
  PROVE  TasksOK' /\ PlacesOK'
<1>1. <<cur.fd>> \in Seq(FDs)
  BY DEF TypeInv, TasksOK
<1>2. fds' \in [Tasks -> Seq(FDs)] /\ \A u \in Tasks : u # Httpd => fds'[u] = fds[u]
  BY <1>1, HttpdIsTask DEF Reply, TypeInv, TasksOK
<1>. QED  BY <1>2, HttpdMoves, HttpdIsTask
     DEF Reply, TypeInv, TasksOK, sockets, world, Places, Sends

LEMMA TypeSetAuthed == ASSUME TypeInv, SetAuthed PROVE TypeInv'
<1>1. TableOK'
  BY Marked DEF SetAuthed, TypeInv
<1>2. TasksOK' /\ PlacesOK'
  BY ReplyMoves DEF SetAuthed
<1>. QED  BY <1>1, <1>2, SocketsKept, HistoryKept DEF SetAuthed, TypeInv

LEMMA TypeAnswer == ASSUME TypeInv, Answer PROVE TypeInv'
<1>1. TasksOK' /\ PlacesOK'
  <2>1. CASE Reply
    BY <2>1, ReplyMoves DEF Answer
  <2>2. CASE ~ Reply
    BY <2>2, HttpdMoves, HttpdIsTask
    DEF Answer, TypeInv, TasksOK, sockets, world, Places, Sends
  <2>. QED  BY <2>1, <2>2
<1>. QED  BY <1>1, Kept, SocketsKept, HistoryKept DEF Answer, TypeInv

LEMMA TypeDeauth == ASSUME TypeInv, NEW t, DeauthAll(t) PROVE TypeInv'
<1>1. TableOK'
  BY Unmarked DEF DeauthAll, TypeInv
<1>2. TasksOK' /\ PlacesOK'
  <2>1. UNCHANGED <<s_tx_mutex, at, cur, snap, fds, failed, mid, close_queue, casts, control>>
    BY DEF DeauthAll, sending, sockets, world
  <2>. QED  BY <2>1 DEF TypeInv, TasksOK, PlacesOK
<1>3. HistoryOK'
  BY DEF DeauthAll, TypeInv, HistoryOK
<1>. QED  BY <1>1, <1>2, <1>3, SocketsKept DEF DeauthAll, TypeInv

LEMMA TypeEndSession == ASSUME TypeInv, NEW f \in FDs, EndSession(f) PROVE TypeInv'
<1>1. TableOK'
  BY Removed DEF EndSession, TypeInv, Without
<1>2. cur' \in [fd : FDs, authed : BOOLEAN, then : {"idle", "read"}] /\ close_queue' \subseteq FDs
  BY DEF EndSession, TypeInv, TasksOK
<1>3. TasksOK' /\ PlacesOK'
  BY <1>2, HttpdMoves DEF EndSession, TypeInv, TasksOK, sending, sockets, world, Places, Sends
<1>. QED  BY <1>1, <1>3, SocketsKept, HistoryKept DEF EndSession, TypeInv

LEMMA TypePong == ASSUME TypeInv, NEW f \in FDs, Pong(f) \/ PongDone PROVE TypeInv'
<1>1. mid' \in [Tasks -> Conns \cup {0}] /\ \A u \in Tasks : u # Httpd => mid'[u] = mid[u]
  BY HttpdIsTask DEF Pong, PongDone, TypeInv, TasksOK, SocketsOK
<1>2. CASE Pong(f)
  <2>1. Goes(Httpd, "pong")
    BY <1>2, HttpdIsTask, GoesOn DEF Pong, TypeInv, Places
  <2>2. TasksOK'
    BY <1>1, <1>2, <2>1 DEF Pong, TypeInv, TasksOK, Goes
  <2>3. PlacesOK'
    BY <1>1, <1>2, <2>1 DEF Pong, TypeInv, PlacesOK, sockets, world, Goes, Sends
  <2>. QED  BY <1>2, <2>2, <2>3, Kept, SocketsKept, HistoryKept DEF Pong, TypeInv
<1>3. CASE PongDone
  <2>1. Goes(Httpd, "idle") /\ mid'[Httpd] = 0
    BY <1>3, HttpdIsTask, GoesOn DEF PongDone, TypeInv, TasksOK, Places
  <2>2. TasksOK'
    BY <1>1, <1>3, <2>1 DEF PongDone, TypeInv, TasksOK, Goes
  <2>3. PlacesOK'
    BY <1>1, <1>3, <2>1 DEF PongDone, TypeInv, PlacesOK, sockets, world, Goes, Sends
  <2>. QED  BY <1>3, <2>2, <2>3, Kept, SocketsKept, HistoryKept DEF PongDone, TypeInv
<1>. QED  BY <1>2, <1>3

-----------------------------------------------------------------------------
(* Broadcasts: the table is copied, each entry checked.                       *)
LEMMA TypeSnapshot == ASSUME TypeInv, NEW t \in Casters, Snapshot(t) PROVE TypeInv'
<1>0. t \in Tasks
  BY DEF Tasks
<1>. DEFINE copy == [i \in DOMAIN s_fds |-> [fd |-> s_fds[i], authed |-> s_fd_authed[i]]]
<1>1. copy \in Seq(Entries)
  <2>1. copy \in [1..Len(s_fds) -> Entries] /\ Len(s_fds) \in Nat
    BY TableDomain DEF TypeInv, Entries
  <2>. HIDE DEF copy
  <2>. QED  BY <2>1, SeqDef
<1>2. snap' = [snap EXCEPT ![t] = copy]
  BY DEF Snapshot
<1>. HIDE DEF copy
<1>3. Goes(t, "check")
  BY <1>0, GoesOn DEF Snapshot, TypeInv, Places
<1>4. casts' \in 0..MaxCasts
  BY ServerAssumption DEF Snapshot, TypeInv, TasksOK
<1>5. TasksOK'
  <2>1. snap' \in [Tasks -> Seq(Entries)]
    BY <1>1, <1>2 DEF TypeInv, TasksOK
  <2>2. UNCHANGED <<s_tx_mutex, cur, fds, failed, mid, close_queue>>
    BY DEF Snapshot
  <2>. QED  BY <1>3, <1>4, <2>1, <2>2 DEF TypeInv, TasksOK, Goes
<1>6. PlacesOK'
  BY <1>0, <1>2, <1>3 DEF Snapshot, TypeInv, TasksOK, PlacesOK, Goes, Sends, sockets, world
<1>. QED  BY <1>5, <1>6, Kept, SocketsKept, HistoryKept DEF Snapshot, TypeInv

(* A task that is not sending goes on, with other snapshots and recipients.   *)
LEMMA CasterMoves ==
  ASSUME TypeInv, NEW t \in Tasks, at[t] \in {"check", "drop"},
         NEW place \in {"check", "drop", "idle", "lock"}, Goes(t, place),
         snap' \in [Tasks -> Seq(Entries)], \A u \in Tasks : u # t => snap'[u] = snap[u],
         place = "drop" => snap'[t] # <<>>,
         fds' \in [Tasks -> Seq(FDs)], \A u \in Tasks : u # t => fds'[u] = fds[u],
         UNCHANGED <<s_tx_mutex, cur, failed, mid, close_queue, casts, control>>
  PROVE  TasksOK' /\ PlacesOK'
<1>1. TasksOK'
  BY DEF TypeInv, TasksOK, Goes
<1>2. PlacesOK'
  <2>. SUFFICES ASSUME NEW u \in Tasks
                PROVE  /\ at'[u] \in {"adopt", "ensure", "read", "sign", "close", "pong"} => u = Httpd
                       /\ at'[u] \in {"header", "payload", "evict"} => fds'[u] # <<>>
                       /\ at'[u] = "drop" => snap'[u] # <<>>
                       /\ at'[u] \in Sends => s_tx_mutex = {u}
                       /\ mid[u] # 0 => at'[u] = "payload" \/ (at'[u] = "pong" /\ control)
    BY DEF PlacesOK
  <2>1. CASE u = t
    BY <2>1 DEF TypeInv, PlacesOK, Goes, Sends
  <2>2. CASE u # t
    BY <2>2 DEF TypeInv, PlacesOK, Goes
  <2>. QED  BY <2>1, <2>2
<1>. QED  BY <1>1, <1>2

LEMMA SnapPopped ==
  ASSUME TasksOK, NEW t \in Tasks, snap[t] # <<>>, PopSnap(t)
  PROVE  /\ snap' \in [Tasks -> Seq(Entries)] /\ snap'[t] = Tail(snap[t])
         /\ \A u \in Tasks : u # t => snap'[u] = snap[u]
  BY QueueTypes DEF TasksOK, PopSnap

LEMMA TypeCheck == ASSUME TypeInv, NEW t \in Tasks, Check(t) PROVE TypeInv'
<1>. DEFINE e == Head(snap[t])
<1>0. e \in Entries
  BY QueueTypes DEF Check, TypeInv
<1>1. CASE conn[e.fd] \notin websocket
  <2>1. Goes(t, "drop") /\ UNCHANGED <<snap, fds>>
    BY <1>1, GoesOn DEF Check, TypeInv, Places
  <2>. QED  BY <2>1, CasterMoves, Kept, SocketsKept, HistoryKept
       DEF Check, TypeInv, TasksOK, sockets, world
<1>2. CASE conn[e.fd] \in websocket
  <2>1. PopSnap(t) /\ UNCHANGED at /\ snap[t] # <<>>
        /\ fds' = IF e.authed THEN [fds EXCEPT ![t] = Append(@, e.fd)] ELSE fds
    BY <1>2 DEF Check
  <2>2. Goes(t, "check")
    BY <2>1 DEF Check, Goes, TypeInv, TasksOK
  <2>3. fds' \in [Tasks -> Seq(FDs)] /\ \A u \in Tasks : u # t => fds'[u] = fds[u]
    <3>1. fds[t] \in Seq(FDs) /\ e.fd \in FDs
      BY <1>0 DEF TypeInv, TasksOK, Entries
    <3>2. Append(fds[t], e.fd) \in Seq(FDs)
      BY <3>1, AppendProperties
    <3>. QED  BY <2>1, <3>2 DEF TypeInv, TasksOK
  <2>4. TasksOK' /\ PlacesOK'
    BY <2>1, <2>2, <2>3, SnapPopped, CasterMoves DEF Check, TypeInv, sockets, world
  <2>. QED  BY <2>4, Kept, SocketsKept, HistoryKept DEF Check, TypeInv
<1>. QED  BY <1>1, <1>2

LEMMA TypeDrop == ASSUME TypeInv, NEW t \in Tasks, Drop(t) PROVE TypeInv'
<1>1. snap[t] # <<>>
  BY DEF Drop, TypeInv, PlacesOK
<1>2. Head(snap[t]).fd \in FDs
  BY <1>1, QueueTypes DEF TypeInv, Entries
<1>3. TableOK'
  BY <1>2, Removed DEF Drop, TypeInv, Without
<1>4. Goes(t, "check")
  BY GoesOn DEF Drop, TypeInv, Places
<1>5. TasksOK' /\ PlacesOK'
  BY <1>1, <1>4, SnapPopped, CasterMoves DEF Drop, TypeInv, TasksOK, sockets, world
<1>. QED  BY <1>3, <1>5, SocketsKept, HistoryKept DEF Drop, TypeInv

LEMMA TypeChecked == ASSUME TypeInv, NEW t \in Tasks, Checked(t) PROVE TypeInv'
<1>1. PICK place \in {"idle", "lock"} : Goes(t, place)
  BY GoesOn DEF Checked, TypeInv, Places
<1>2. TasksOK' /\ PlacesOK'
  BY <1>1, CasterMoves DEF Checked, TypeInv, TasksOK, sending, sockets, world
<1>. QED  BY <1>2, Kept, SocketsKept, HistoryKept DEF Checked, TypeInv

(* send_locked: who holds the mutex goes on and sends ...                     *)
LEMMA SenderMoves ==
  ASSUME TypeInv, NEW t \in Tasks, at[t] \in Sends, NEW place \in Sends, Goes(t, place),
         fds' \in [Tasks -> Seq(FDs)], \A u \in Tasks : u # t => fds'[u] = fds[u],
         place # "next" => fds'[t] # <<>>,
         mid' \in [Tasks -> Conns \cup {0}], \A u \in Tasks : u # t => mid'[u] = mid[u],
         mid'[t] # 0 => place = "payload",
         failed' \in [Tasks -> SUBSET FDs],
         UNCHANGED <<s_tx_mutex, cur, snap, close_queue, casts, control>>
  PROVE  TasksOK' /\ PlacesOK'
<1>1. TasksOK'
  BY DEF TypeInv, TasksOK, Goes
<1>2. PlacesOK'
  <2>. SUFFICES ASSUME NEW u \in Tasks
                PROVE  /\ at'[u] \in {"adopt", "ensure", "read", "sign", "close", "pong"} => u = Httpd
                       /\ at'[u] \in {"header", "payload", "evict"} => fds'[u] # <<>>
                       /\ at'[u] = "drop" => snap[u] # <<>>
                       /\ at'[u] \in Sends => s_tx_mutex = {u}
                       /\ mid'[u] # 0 => at'[u] = "payload" \/ (at'[u] = "pong" /\ control)
    BY DEF PlacesOK
  <2>1. CASE u = t
    BY <2>1 DEF TypeInv, PlacesOK, Goes, Sends
  <2>2. CASE u # t
    BY <2>2 DEF TypeInv, PlacesOK, Goes
  <2>. QED  BY <2>1, <2>2
<1>. QED  BY <1>1, <1>2

LEMMA TypeLock == ASSUME TypeInv, NEW t \in Tasks, Lock(t) PROVE TypeInv'
<1>1. Goes(t, "next")
  BY GoesOn DEF Lock, TypeInv, Places
<1>2. \A u \in Tasks : at[u] \notin Sends
  BY DEF Lock, TypeInv, PlacesOK
<1>3. TasksOK'
  BY <1>1 DEF Lock, TypeInv, TasksOK, Goes, sending
<1>4. PlacesOK'
  BY <1>1, <1>2 DEF Lock, TypeInv, PlacesOK, Goes, Sends, sending, sockets, world
<1>. QED  BY <1>3, <1>4, Kept, SocketsKept, HistoryKept DEF Lock, TypeInv

LEMMA FdPopped ==
  ASSUME TasksOK, NEW t \in Tasks, fds[t] # <<>>, PopFd(t)
  PROVE  /\ fds' \in [Tasks -> Seq(FDs)] /\ fds'[t] = Tail(fds[t])
         /\ \A u \in Tasks : u # t => fds'[u] = fds[u]
  BY QueueTypes DEF TasksOK, PopFd

LEMMA TypeNextFd == ASSUME TypeInv, NEW t \in Tasks, NextFd(t) PROVE TypeInv'
<1>0. mid[t] = 0
  BY DEF NextFd, TypeInv, PlacesOK
<1>1. CASE Goto(t, "header") /\ UNCHANGED fds
  <2>1. Goes(t, "header")
    BY <1>1, GoesOn DEF TypeInv, Places
  <2>2. TasksOK' /\ PlacesOK'
    BY <1>0, <1>1, <2>1, SenderMoves DEF NextFd, TypeInv, TasksOK, Sends, sockets, world
  <2>. QED  BY <2>2, Kept, SocketsKept, HistoryKept DEF NextFd, TypeInv
<1>2. CASE PopFd(t) /\ UNCHANGED at
  <2>1. Goes(t, "next")
    BY <1>2 DEF NextFd, Goes, TypeInv, TasksOK
  <2>2. TasksOK' /\ PlacesOK'
    BY <1>0, <1>2, <2>1, FdPopped, SenderMoves DEF NextFd, TypeInv, TasksOK, Sends, sockets, world
  <2>. QED  BY <2>2, Kept, SocketsKept, HistoryKept DEF NextFd, TypeInv
<1>. QED  BY <1>1, <1>2 DEF NextFd

LEMMA TypeFails ==
  ASSUME TypeInv, NEW t \in Tasks, at[t] \in {"header", "payload"}, Fails(t, conn[Head(fds[t])]),
         UNCHANGED <<table, s_tx_mutex, sockets, close_queue, cur, snap, failed, casts, signed,
                     trusted, refused>>
  PROVE  TypeInv'
<1>0. fds[t] # <<>> /\ Head(fds[t]) \in FDs
  BY QueueTypes DEF TypeInv, PlacesOK
<1>1. conn[Head(fds[t])] \in Conns \cup {0}
  BY <1>0 DEF TypeInv, SocketsOK
<1>2. HistoryOK'
  BY <1>1 DEF Fails, TypeInv, HistoryOK
<1>3. Goes(t, "evict")
  BY GoesOn DEF Fails, TypeInv, Places
<1>4. mid' \in [Tasks -> Conns \cup {0}] /\ mid'[t] = 0 /\ \A u \in Tasks : u # t => mid'[u] = mid[u]
  BY DEF Fails, TypeInv, TasksOK
<1>5. TasksOK' /\ PlacesOK'
  BY <1>0, <1>3, <1>4, SenderMoves DEF Fails, TypeInv, TasksOK, Sends, sockets, world
<1>. QED  BY <1>2, <1>5, Kept, SocketsKept DEF TypeInv

LEMMA TypeHeader == ASSUME TypeInv, NEW t \in Tasks, Header(t) PROVE TypeInv'
<1>. DEFINE c == conn[Head(fds[t])]
<1>0. fds[t] # <<>> /\ Head(fds[t]) \in FDs
  BY QueueTypes DEF Header, TypeInv, PlacesOK
<1>1. c \in Conns \cup {0}
  BY <1>0 DEF TypeInv, SocketsOK
<1>2. CASE Fails(t, c)
  BY <1>2, TypeFails DEF Header
<1>3. CASE ~ Fails(t, c)
  <2>1. Reaches(t, c) /\ mid' = [mid EXCEPT ![t] = c] /\ Goto(t, "payload") /\ UNCHANGED <<fds, lost>>
    BY <1>3 DEF Header
  <2>2. Goes(t, "payload")
    BY <2>1, GoesOn DEF TypeInv, Places
  <2>3. HistoryOK'
    BY <1>1, <2>1 DEF Header, Reaches, TypeInv, HistoryOK
  <2>4. mid' \in [Tasks -> Conns \cup {0}] /\ \A u \in Tasks : u # t => mid'[u] = mid[u]
    BY <1>1, <2>1 DEF TypeInv, TasksOK
  <2>5. TasksOK' /\ PlacesOK'
    BY <1>0, <2>1, <2>2, <2>4, SenderMoves DEF Header, TypeInv, TasksOK, Sends, sockets, world
  <2>. QED  BY <2>3, <2>5, Kept, SocketsKept DEF Header, TypeInv
<1>. QED  BY <1>2, <1>3

LEMMA TypePayload == ASSUME TypeInv, NEW t \in Tasks, Payload(t) PROVE TypeInv'
<1>. DEFINE c == conn[Head(fds[t])]
<1>0. fds[t] # <<>> /\ Head(fds[t]) \in FDs
  BY QueueTypes DEF Payload, TypeInv, PlacesOK
<1>1. c \in Conns \cup {0}
  BY <1>0 DEF TypeInv, SocketsOK
<1>2. CASE Fails(t, c)
  BY <1>2, TypeFails DEF Payload
<1>3. CASE ~ Fails(t, c)
  <2>1. Reaches(t, c) /\ mid' = [mid EXCEPT ![t] = 0] /\ PopFd(t) /\ Goto(t, "next") /\ UNCHANGED lost
    BY <1>3 DEF Payload
  <2>2. Goes(t, "next")
    BY <2>1, GoesOn DEF TypeInv, Places
  <2>3. HistoryOK'
    BY <1>1, <2>1 DEF Payload, Reaches, TypeInv, HistoryOK
  <2>4. mid' \in [Tasks -> Conns \cup {0}] /\ mid'[t] = 0 /\ \A u \in Tasks : u # t => mid'[u] = mid[u]
    BY <2>1 DEF TypeInv, TasksOK
  <2>5. TasksOK' /\ PlacesOK'
    BY <1>0, <2>1, <2>2, <2>4, FdPopped, SenderMoves DEF Payload, TypeInv, TasksOK, Sends, sockets, world
  <2>. QED  BY <2>3, <2>5, Kept, SocketsKept DEF Payload, TypeInv
<1>. QED  BY <1>2, <1>3

LEMMA TypeEvict == ASSUME TypeInv, NEW t \in Tasks, Evict(t) PROVE TypeInv'
<1>0. fds[t] # <<>> /\ Head(fds[t]) \in FDs /\ mid[t] = 0
  BY QueueTypes DEF Evict, TypeInv, PlacesOK
<1>1. TableOK'
  BY <1>0, Removed DEF Evict, TypeInv, Without
<1>2. Goes(t, "next")
  BY GoesOn DEF Evict, TypeInv, Places
<1>3. failed' \in [Tasks -> SUBSET FDs]
  BY <1>0 DEF Evict, TypeInv, TasksOK
<1>4. TasksOK' /\ PlacesOK'
  BY <1>0, <1>2, <1>3, FdPopped, SenderMoves DEF Evict, TypeInv, TasksOK, Sends, sockets, world
<1>. QED  BY <1>1, <1>4, SocketsKept, HistoryKept DEF Evict, TypeInv

(* ... until it gives the mutex back.                                         *)
LEMMA TypeUnlock == ASSUME TypeInv, NEW t \in Tasks, Unlock(t) PROVE TypeInv'
<1>1. PICK place \in {"idle", "trigger"} : Goes(t, place)
  BY GoesOn DEF Unlock, TypeInv, Places
<1>2. \A u \in Tasks : u # t => at[u] \notin Sends
  BY DEF Unlock, TypeInv, PlacesOK, Sends
<1>3. TasksOK'
  BY <1>1 DEF Unlock, TypeInv, TasksOK, Goes, sending
<1>4. PlacesOK'
  BY <1>1, <1>2 DEF Unlock, TypeInv, PlacesOK, Goes, Sends, sending, sockets, world
<1>. QED  BY <1>3, <1>4, Kept, SocketsKept, HistoryKept DEF Unlock, TypeInv

LEMMA TypeTrigger == ASSUME TypeInv, NEW t \in Tasks, Trigger(t) PROVE TypeInv'
<1>1. PICK f \in failed[t] :
        /\ TriggerClose(f) /\ failed' = [failed EXCEPT ![t] = @ \ {f}]
        /\ Goto(t, IF failed[t] = {f} THEN "idle" ELSE "trigger")
  BY DEF Trigger
<1>2. f \in FDs
  BY DEF TypeInv, TasksOK
<1>3. close_queue' \subseteq FDs /\ failed' \in [Tasks -> SUBSET FDs] /\ refused' \subseteq Conns
  BY <1>1, <1>2, CloseTriggered DEF TypeInv, TasksOK
<1>4. PICK place \in {"idle", "trigger"} : Goes(t, place)
  BY <1>1, GoesOn DEF TypeInv, Places
<1>5. TasksOK'
  BY <1>3, <1>4 DEF Trigger, TypeInv, TasksOK, Goes
<1>6. PlacesOK'
  BY <1>4 DEF Trigger, TypeInv, PlacesOK, Goes, Sends, sockets, world
<1>7. HistoryOK'
  BY <1>3 DEF Trigger, TypeInv, HistoryOK
<1>. QED  BY <1>5, <1>6, <1>7, Kept, SocketsKept DEF Trigger, TypeInv

(* Every step keeps the type invariant.                                       *)
LEMMA TypeStep == TypeInv /\ CurOK /\ [Next]_vars => TypeInv'
<1>. SUFFICES ASSUME TypeInv, CurOK, [Next]_vars PROVE TypeInv'
  OBVIOUS
<1>1. CASE UNCHANGED vars
  BY <1>1 DEF vars, table, sockets, world, sending, history, TypeInv, TableOK, SocketsOK, TasksOK,
              PlacesOK, HistoryOK
<1>2. ASSUME NEW f \in FDs, Accept(f) \/ Message(f) \/ EndSession(f) \/ Pong(f) PROVE TypeInv'
  BY <1>2, TypeAccept, TypeMessage, TypeEndSession, TypePong
<1>3. CASE HttpdStep
  <2>1. 1 \in FDs
    BY ServerAssumption DEF FDs
  <2>. QED  BY <1>3, <2>1, TypeAdopt, TypeEnsure, TypeReadFails, TypeCheckToken, TypeSetAuthed,
               TypeAnswer, TypeClose, TypePong
       DEF HttpdStep
<1>4. ASSUME NEW t \in Tasks, SendStep(t) PROVE TypeInv'
  BY <1>4, TypeCheck, TypeDrop, TypeChecked, TypeLock, TypeNextFd, TypeHeader, TypePayload,
     TypeEvict, TypeUnlock, TypeTrigger
  DEF SendStep
<1>. QED  BY <1>1, <1>2, <1>3, <1>4, TypeHandshake, TypePeerDies, TypeDeauth, TypeSnapshot
     DEF Next

-----------------------------------------------------------------------------
(* Who is in the table, and who is marked in it, step by step.  What holds of *)
(* those who ever showed a token (OpenInv) holds of those who showed the      *)
(* present one (SignedInv) in the same steps, but for its rotation.           *)
Signs == OpenInv' /\ (SignedInv => SignedInv')

LEMMA HistoryOpen ==
  ASSUME TypeInv
  PROVE  0 \notin websocket /\ 0 \notin trusted /\ 0 \notin signed
<1>1. 0 \notin Conns
  BY DEF Conns
<1>2. websocket \subseteq Conns
  BY WebsocketOpen DEF TypeInv
<1>. QED  BY <1>1, <1>2 DEF TypeInv, HistoryOK

LEMMA OpenAccept == ASSUME TypeInv, OpenInv, NEW f \in FDs, Accept(f) PROVE Signs
<1>1. \A g \in FDs : (Registered(g)' <=> Registered(g)) /\ (MayReceive(g)' <=> MayReceive(g))
  BY Kept DEF Accept, TypeInv
<1>2. \A g \in FDs : g # f => conn'[g] = conn[g]
  BY DEF Accept, TypeInv, SocketsOK
<1>3. conn[f] \notin websocket /\ conn[f] \notin trusted /\ conn[f] \notin signed
  BY HistoryOpen DEF Accept
<1>4. UNCHANGED <<websocket, trusted, signed, at, cur>> /\ at[Httpd] = "idle"
  BY DEF Accept, history
<1>5. CurOK' /\ (SignedInv => CurSigned')
  BY <1>4 DEF CurOK, CurSigned, Vouches, Works
<1>6. EntriesOpen' /\ EntriesTrusted'
  BY <1>1, <1>2, <1>3, <1>4 DEF OpenInv, EntriesOpen, EntriesTrusted
<1>7. SignedInv => EntriesSigned'
  BY <1>1, <1>2, <1>3, <1>4 DEF SignedInv, EntriesSigned
<1>. QED  BY <1>5, <1>6, <1>7 DEF Signs, OpenInv, SignedInv

LEMMA OpenHandshake ==
  ASSUME TypeInv, OpenInv, NEW f \in FDs, NEW authed \in BOOLEAN, Handshake(f, authed)
  PROVE  Signs
<1>1. \A g \in FDs : (Registered(g)' <=> Registered(g)) /\ (MayReceive(g)' <=> MayReceive(g))
  BY Kept DEF Handshake, TypeInv
<1>2. /\ conn' = conn /\ websocket \subseteq websocket' /\ trusted \subseteq trusted'
      /\ signed \subseteq signed'
  BY DEF Handshake
<1>3. /\ conn[f] \in websocket' /\ (authed => conn[f] \in trusted' /\ conn[f] \in signed')
      /\ cur'.fd = f /\ cur'.authed = authed
  BY DEF Handshake
<1>4. at'[Httpd] = "adopt"
  BY HttpdIsTask, GoesOn DEF Handshake, TypeInv, Places, Goes
<1>5. CurOK' /\ CurSigned'
  BY <1>2, <1>3, <1>4 DEF CurOK, CurSigned, Vouches, Works
<1>6. EntriesOpen' /\ EntriesTrusted' /\ (SignedInv => EntriesSigned')
  BY <1>1, <1>2 DEF OpenInv, EntriesOpen, EntriesTrusted, SignedInv, EntriesSigned
<1>. QED  BY <1>5, <1>6 DEF Signs, OpenInv, SignedInv

LEMMA OpenAdopt == ASSUME TypeInv, OpenInv, Adopt PROVE Signs
<1>0. cur.fd \in FDs /\ cur.authed \in BOOLEAN /\ cur.then \in {"idle", "read"}
  BY DEF TypeInv, TasksOK
<1>1. \A g \in FDs : /\ Registered(g)' => Registered(g) \/ g = cur.fd
                     /\ MayReceive(g)' => MayReceive(g) \/ (g = cur.fd /\ cur.authed)
  <2>1. CASE Registered(cur.fd) \/ ~ Full
    BY <1>0, <2>1, Added DEF Adopt, With, TypeInv
  <2>2. CASE ~ (Registered(cur.fd) \/ ~ Full)
    BY <2>2, Kept DEF Adopt, TypeInv
  <2>. QED  BY <2>1, <2>2
<1>2. UNCHANGED <<conn, websocket, trusted, signed>>
  BY DEF Adopt, sockets, history
<1>3. at'[Httpd] = cur.then /\ (cur.then = "read" => cur'.fd = cur.fd)
  BY HttpdIsTask DEF Adopt, Goto, TypeInv, TasksOK
<1>4. conn[cur.fd] \in websocket /\ (cur.authed => conn[cur.fd] \in trusted)
      /\ (SignedInv => (cur.authed => conn[cur.fd] \in signed))
  BY DEF Adopt, OpenInv, CurOK, SignedInv, CurSigned, Works, Vouches
<1>5. CurOK' /\ CurSigned'
  BY <1>0, <1>2, <1>3, <1>4 DEF CurOK, CurSigned, Vouches, Works
<1>6. EntriesOpen' /\ EntriesTrusted'
  BY <1>1, <1>2, <1>4 DEF OpenInv, EntriesOpen, EntriesTrusted
<1>7. SignedInv => EntriesSigned'
  BY <1>1, <1>2, <1>4 DEF SignedInv, EntriesSigned
<1>. QED  BY <1>5, <1>6, <1>7 DEF Signs, OpenInv, SignedInv

(* The steps after which the table is no larger, and marked no more.          *)
Shrinks == \A g \in FDs : (Registered(g)' => Registered(g)) /\ (MayReceive(g)' => MayReceive(g))

LEMMA OpenShrinks ==
  ASSUME TypeInv, OpenInv, Shrinks, UNCHANGED <<conn, websocket, trusted>>,
         signed \subseteq signed', CurOK', SignedInv => CurSigned'
  PROVE  Signs
<1>1. EntriesOpen' /\ EntriesTrusted' /\ (SignedInv => EntriesSigned')
  BY DEF Shrinks, OpenInv, EntriesOpen, EntriesTrusted, SignedInv, EntriesSigned
<1>. QED  BY <1>1 DEF Signs, OpenInv, SignedInv

LEMMA OpenHttpd ==
  ASSUME TypeInv, OpenInv,
         \/ \E f \in FDs : Message(f) \/ EndSession(f) \/ Pong(f)
         \/ EnsureFd \/ ReadFails \/ Answer \/ PongDone
  PROVE  Signs
<1>0. cur.fd \in FDs /\ cur.then \in {"idle", "read"} /\ at \in [Tasks -> Places] /\ Httpd \in Tasks
  BY HttpdIsTask DEF TypeInv, TasksOK
<1>1. ASSUME NEW f \in FDs, Message(f) PROVE Signs
  <2>1. CurOK' /\ CurSigned'
    BY <1>0, <1>1 DEF Message, Goto, sockets, CurOK, CurSigned, Works, Vouches
  <2>. QED  BY <1>1, <2>1, Kept, OpenShrinks DEF Message, Shrinks, TypeInv, sockets, history
<1>2. ASSUME NEW f \in FDs, EndSession(f) PROVE Signs
  <2>1. Without(f)
    BY <1>2, Removed DEF EndSession, TypeInv
  <2>2. cur'.fd = f /\ at'[Httpd] = "close"
    BY <1>0, <1>2 DEF EndSession, Goto, TypeInv, TasksOK
  <2>3. ~ Registered(cur.fd)'
    <3>1. ~ Registered(f)'
      BY <2>1 DEF Without
    <3>. QED  BY <2>2, <3>1 DEF Registered
  <2>4. CurOK' /\ CurSigned'
    BY <2>2, <2>3 DEF CurOK, CurSigned, Works, Vouches
  <2>. QED  BY <1>2, <2>1, <2>4, OpenShrinks DEF EndSession, Shrinks, Without, sockets, history
<1>3. ASSUME NEW f \in FDs, Pong(f) PROVE Signs
  <2>1. CurOK' /\ CurSigned'
    BY <1>0, <1>3 DEF Pong, Goto, CurOK, CurSigned, Works, Vouches
  <2>. QED  BY <1>3, <2>1, Kept, OpenShrinks DEF Pong, Shrinks, TypeInv, sockets, history
<1>4. CASE EnsureFd
  <2>1. /\ conn[cur.fd] \in websocket /\ (cur.authed => conn[cur.fd] \in trusted)
        /\ (SignedInv => (cur.authed => conn[cur.fd] \in signed))
    BY <1>4 DEF EnsureFd, OpenInv, CurOK, SignedInv, CurSigned, Works, Vouches
  <2>2. cur'.fd = cur.fd /\ cur'.authed = cur.authed /\ at'[Httpd] \in {"read", "adopt"}
    BY <1>0, <1>4 DEF EnsureFd, Goto, TypeInv, TasksOK
  <2>3. UNCHANGED <<conn, websocket, trusted, signed>>
    BY <1>4 DEF EnsureFd, sockets, history
  <2>4. CurOK' /\ (SignedInv => CurSigned')
    BY <2>1, <2>2, <2>3 DEF CurOK, CurSigned, Works, Vouches
  <2>. QED  BY <1>4, <2>3, <2>4, Kept, OpenShrinks DEF EnsureFd, Shrinks, TypeInv
<1>5. CASE ReadFails
  <2>1. Without(cur.fd)
    BY <1>0, <1>5, Removed DEF ReadFails, TypeInv
  <2>2. cur' = cur /\ at'[Httpd] = "close"
    BY <1>0, <1>5 DEF ReadFails, Goto
  <2>3. ~ Registered(cur.fd)'
    <3>1. \A g \in FDs : g = cur.fd => ~ Registered(g)'
      BY <2>1 DEF Without
    <3>. QED  BY <1>0, <2>2, <3>1 DEF Registered
  <2>4. CurOK' /\ CurSigned'
    BY <2>2, <2>3 DEF CurOK, CurSigned, Works, Vouches
  <2>. QED  BY <1>5, <2>1, <2>4, OpenShrinks DEF ReadFails, Shrinks, Without, sockets, history
<1>6. CASE Answer
  <2>1. at'[Httpd] \in {"lock", "idle"}
    BY <1>0, <1>6 DEF Answer, Reply, Goto
  <2>2. CurOK' /\ CurSigned'
    BY <2>1 DEF CurOK, CurSigned, Works, Vouches
  <2>. QED  BY <1>6, <2>2, Kept, OpenShrinks DEF Answer, Shrinks, TypeInv, sockets, history
<1>7. CASE PongDone
  <2>1. CurOK' /\ CurSigned'
    BY <1>0, <1>7 DEF PongDone, Goto, CurOK, CurSigned, Works, Vouches
  <2>. QED  BY <1>7, <2>1, Kept, OpenShrinks DEF PongDone, Shrinks, TypeInv, sockets, history
<1>. QED  BY <1>1, <1>2, <1>3, <1>4, <1>5, <1>6, <1>7

(* A connection signs in, in two steps.                                       *)
LEMMA OpenCheckToken == ASSUME TypeInv, OpenInv, CheckToken PROVE Signs
<1>1. /\ trusted' = trusted \cup {conn[cur.fd]} /\ signed' = signed \cup {conn[cur.fd]}
      /\ UNCHANGED <<conn, websocket, cur>>
  BY DEF CheckToken, sockets
<1>2. at'[Httpd] = "sign"
  BY HttpdIsTask DEF CheckToken, Goto, TypeInv, TasksOK
<1>3. conn[cur.fd] \in websocket
  BY DEF CheckToken, OpenInv, CurOK, Works
<1>4. CurOK' /\ CurSigned'
  BY <1>1, <1>2, <1>3 DEF CurOK, CurSigned, Works, Vouches
<1>5. \A g \in FDs : (Registered(g)' <=> Registered(g)) /\ (MayReceive(g)' <=> MayReceive(g))
  BY Kept DEF CheckToken, TypeInv
<1>6. EntriesOpen' /\ EntriesTrusted' /\ (SignedInv => EntriesSigned')
  BY <1>1, <1>5 DEF OpenInv, EntriesOpen, EntriesTrusted, SignedInv, EntriesSigned
<1>. QED  BY <1>4, <1>6 DEF Signs, OpenInv, SignedInv

LEMMA OpenSetAuthed == ASSUME TypeInv, OpenInv, SetAuthed PROVE Signs
<1>1. \A g \in FDs : /\ Registered(g)' <=> Registered(g)
                     /\ MayReceive(g)' => MayReceive(g) \/ g = cur.fd
  BY Marked DEF SetAuthed, TypeInv
<1>2. UNCHANGED <<conn, websocket, trusted, signed>>
  BY DEF SetAuthed, sockets, history
<1>3. at'[Httpd] = "lock"
  BY HttpdIsTask DEF SetAuthed, Reply, Goto, TypeInv, TasksOK
<1>4. conn[cur.fd] \in trusted /\ (SignedInv => conn[cur.fd] \in signed)
  BY DEF SetAuthed, OpenInv, CurOK, SignedInv, CurSigned, Vouches
<1>5. CurOK' /\ CurSigned'
  BY <1>3 DEF CurOK, CurSigned, Works, Vouches
<1>6. EntriesOpen' /\ EntriesTrusted' /\ (SignedInv => EntriesSigned')
  BY <1>1, <1>2, <1>4 DEF OpenInv, EntriesOpen, EntriesTrusted, SignedInv, EntriesSigned
<1>. QED  BY <1>5, <1>6 DEF Signs, OpenInv, SignedInv

(* A session is closed, out of the table by then.                             *)
LEMMA OpenClose == ASSUME TypeInv, OpenInv, Close PROVE Signs
<1>0. cur.fd \in FDs /\ ~ Registered(cur.fd)
  BY DEF Close, TypeInv, TasksOK, OpenInv, CurOK
<1>1. \A g \in FDs : (Registered(g)' <=> Registered(g)) /\ (MayReceive(g)' <=> MayReceive(g))
  BY Kept DEF Close, TypeInv
<1>2. \A g \in FDs : MayReceive(g) => Registered(g)
  BY DEF MayReceive, Registered, ToSet
<1>3. \A g \in FDs : Registered(g) => conn'[g] = conn[g] /\ conn[g] # conn[cur.fd]
  <2>. SUFFICES ASSUME NEW g \in FDs, Registered(g)
                PROVE  conn'[g] = conn[g] /\ conn[g] # conn[cur.fd]
    OBVIOUS
  <2>1. g # cur.fd
    BY <1>0
  <2>2. conn[g] # 0
    BY HistoryOpen DEF OpenInv, EntriesOpen
  <2>3. conn[g] # conn[cur.fd]
    BY <1>0, <2>1, <2>2 DEF TypeInv, SocketsOK
  <2>. QED  BY <1>0, <2>1, <2>3 DEF Close, TypeInv, SocketsOK
<1>4. at'[Httpd] = "idle"
  BY HttpdIsTask DEF Close, Goto, TypeInv, TasksOK
<1>5. CurOK' /\ CurSigned'
  BY <1>4 DEF CurOK, CurSigned, Works, Vouches
<1>6. /\ websocket' = websocket \ {conn[cur.fd]} /\ trusted' = trusted \ {conn[cur.fd]}
      /\ signed' = signed \ {conn[cur.fd]}
  BY DEF Close
<1>7. EntriesOpen' /\ EntriesTrusted'
  BY <1>1, <1>2, <1>3, <1>6 DEF OpenInv, EntriesOpen, EntriesTrusted
<1>8. SignedInv => EntriesSigned'
  BY <1>1, <1>2, <1>3, <1>6 DEF SignedInv, EntriesSigned
<1>. QED  BY <1>5, <1>7, <1>8 DEF Signs, OpenInv, SignedInv

(* The token is rotated while no sign-in is under way.                        *)
LEMMA OpenDeauth ==
  ASSUME TypeInv, OpenInv, NEW t, DeauthAll(t)
  PROVE  OpenInv' /\ (t = Httpd => SignedInv')
<1>1. \A g \in FDs : (Registered(g)' <=> Registered(g)) /\ ~ MayReceive(g)'
  BY Unmarked DEF DeauthAll, TypeInv
<1>2. UNCHANGED <<conn, websocket, trusted, at, cur, s_fds>>
  BY DEF DeauthAll, sockets
<1>3. CurOK'
  BY <1>2 DEF OpenInv, CurOK, Works, Vouches, Registered
<1>4. EntriesOpen' /\ EntriesTrusted' /\ EntriesSigned'
  BY <1>1, <1>2 DEF OpenInv, EntriesOpen, EntriesTrusted, EntriesSigned
<1>5. t = Httpd => CurSigned'
  BY <1>2 DEF DeauthAll, CurSigned, Vouches
<1>. QED  BY <1>3, <1>4, <1>5 DEF OpenInv, SignedInv

(* The tasks that send leave connections and sign-ins alone.                  *)
Lets == Shrinks /\ UNCHANGED <<conn, websocket, trusted, signed, opened, reuse, control, cur>>
Aside(t) ==
  /\ \A u \in Tasks : u # t => at'[u] = at[u]
  /\ at'[t] \notin Works \cup {"close"}

LEMMA SendAside ==
  ASSUME TypeInv, NEW t \in Tasks, SendStep(t) \/ (t # Httpd /\ Snapshot(t))
  PROVE  Lets /\ Aside(t)
<1>1. Shrinks
  <2>1. CASE Drop(t)
    <3>1. Head(snap[t]).fd \in FDs
      BY <2>1, QueueTypes DEF Drop, TypeInv, PlacesOK, Entries
    <3>. QED  BY <2>1, <3>1, Removed DEF Drop, TypeInv, Without, Shrinks
  <2>2. CASE Evict(t)
    <3>1. Head(fds[t]) \in FDs
      BY <2>2, QueueTypes DEF Evict, TypeInv, PlacesOK
    <3>. QED  BY <2>2, <3>1, Removed DEF Evict, TypeInv, Without, Shrinks
  <2>3. CASE ~ Drop(t) /\ ~ Evict(t)
    <3>1. UNCHANGED table
      BY <2>3 DEF SendStep, Check, Checked, Lock, NextFd, Header, Payload, Unlock, Trigger, Snapshot
    <3>. QED  BY <3>1, Kept DEF TypeInv, Shrinks
  <2>. QED  BY <2>1, <2>2, <2>3
<1>2. UNCHANGED <<sockets, cur, signed, trusted>>
  BY DEF SendStep, Check, Drop, Checked, Lock, NextFd, Header, Payload, Evict, Unlock, Trigger, Snapshot,
         history, Fails, Reaches
<1>3. Aside(t)
  <2>1. at \in [Tasks -> Places]
    BY DEF TypeInv, TasksOK
  <2>2. (\E place \in {"check", "drop", "idle", "lock", "next", "header", "payload", "evict",
                       "trigger"} : Goto(t, place))
        \/ (UNCHANGED at /\ at[t] \in {"check", "next"})
    BY DEF SendStep, Check, Drop, Checked, Lock, NextFd, Header, Payload, Evict, Unlock,
           Trigger, Snapshot, Fails
  <2>. QED  BY <2>1, <2>2 DEF Goto, Aside, Works
<1>. QED  BY <1>1, <1>2, <1>3 DEF Lets, sockets, world

LEMMA OpenAside == ASSUME TypeInv, OpenInv, NEW t \in Tasks, Lets, Aside(t) PROVE Signs
<1>1. at'[Httpd] \in Works \cup {"close"} => at'[Httpd] = at[Httpd]
  BY HttpdIsTask DEF Aside
<1>2. UNCHANGED <<conn, websocket, trusted, signed, cur>> /\ cur.fd \in FDs
  BY DEF Lets, TypeInv, TasksOK
<1>3. CurOK'
  <2>1. Registered(cur.fd)' => Registered(cur.fd)
    BY <1>2 DEF Lets, Shrinks, Registered
  <2>. QED  BY <1>1, <1>2, <2>1 DEF OpenInv, CurOK, Works, Vouches
<1>4. SignedInv => CurSigned'
  BY <1>1, <1>2 DEF SignedInv, CurSigned, Works, Vouches
<1>. QED  BY <1>2, <1>3, <1>4, OpenShrinks DEF Lets

(* Every step keeps the table open and trusted, and, if only Httpd rotates,   *)
(* signed in.                                                                 *)
LEMMA OpenStep ==
  ASSUME TypeInv, OpenInv, [Next]_vars
  PROVE  OpenInv' /\ (SignedInv /\ Rotators \subseteq {Httpd} => SignedInv')
<1>1. CASE UNCHANGED vars
  BY <1>1 DEF vars, table, sockets, world, history, OpenInv, CurOK, EntriesOpen, EntriesTrusted,
              SignedInv, EntriesSigned, CurSigned, Works, Vouches, Registered, MayReceive
<1>2. ASSUME NEW c \in Conns, PeerDies(c) PROVE Signs
  BY <1>2 DEF PeerDies, table, history, OpenInv, CurOK, EntriesOpen, EntriesTrusted,
              SignedInv, EntriesSigned, CurSigned, Works, Vouches, Registered, MayReceive, Signs
<1>3. ASSUME NEW t \in Tasks, SendStep(t) \/ (t # Httpd /\ Snapshot(t)) PROVE Signs
  BY <1>3, SendAside, OpenAside
<1>4. ASSUME NEW t \in Casters, Snapshot(t) PROVE Signs
  BY <1>3, <1>4, ServerAssumption DEF Tasks
<1>5. CASE HttpdStep
  BY <1>5, OpenAdopt, OpenHttpd, OpenCheckToken, OpenSetAuthed, OpenClose DEF HttpdStep, Signs
<1>6. ASSUME NEW f \in FDs, Accept(f) \/ Message(f) \/ EndSession(f) \/ Pong(f) PROVE Signs
  BY <1>6, OpenAccept, OpenHttpd
<1>7. ASSUME NEW f \in FDs, NEW authed \in BOOLEAN, Handshake(f, authed) PROVE Signs
  BY <1>7, OpenHandshake
<1>8. ASSUME NEW t \in Rotators, DeauthAll(t)
      PROVE  OpenInv' /\ (SignedInv /\ Rotators \subseteq {Httpd} => SignedInv')
  BY <1>8, OpenDeauth
<1>. QED  BY <1>1, <1>2, <1>3, <1>4, <1>5, <1>6, <1>7, <1>8 DEF Next, Signs

(* Initially the table is empty.                                              *)
LEMMA OpenInit == Init => OpenInv /\ SignedInv
<1>. SUFFICES ASSUME Init PROVE OpenInv /\ SignedInv
  OBVIOUS
<1>1. at[Httpd] = "idle" /\ DOMAIN s_fds = {}
  BY HttpdIsTask, EmptySeq DEF Init
<1>. QED  BY <1>1 DEF OpenInv, CurOK, EntriesOpen, EntriesTrusted, SignedInv, EntriesSigned, CurSigned,
                      Works, Vouches, Registered, ToSet, MayReceive

(* The table holds open sockets, each once, and marks as signed in only       *)
(* connections that once showed a token; at most one task is between taking   *)
(* and giving the lock of the sockets.                                        *)
THEOREM ServerInvariant == Spec => [](TypeInv /\ OpenInv)
<1>1. TypeInv /\ OpenInv /\ [Next]_vars => (TypeInv /\ OpenInv)'
  BY TypeStep, OpenStep DEF OpenInv
<1>. QED  BY <1>1, TypeInit, OpenInit, PTL DEF Spec

(* Types; no more than one task holds the lock of the sockets.                *)
THEOREM ServerTypes == Spec => []TypeOK
<1>1. TypeInv => TypeOK
  <2>. SUFFICES ASSUME TypeInv PROVE TypeOK
    OBVIOUS
  <2>1. s_tx_mutex \subseteq Tasks /\ Cardinality(s_tx_mutex) <= 1
    <3>1. CASE s_tx_mutex = {}
      BY <3>1, FS_EmptySet
    <3>2. ASSUME NEW t \in Tasks, s_tx_mutex = {t}
          PROVE  s_tx_mutex \subseteq Tasks /\ Cardinality(s_tx_mutex) <= 1
      <4>1. Cardinality({t}) = 1
        BY FS_Singleton
      <4>. QED  BY <3>2, <4>1
    <3>. QED  BY <3>1, <3>2 DEF TypeInv, TasksOK
  <2>2. websocket \subseteq Conns
    BY WebsocketOpen DEF TypeInv
  <2>3. /\ cur.fd \in FDs /\ cur.authed \in BOOLEAN /\ cur.then \in {"idle", "read"}
        /\ \A t \in Tasks : fds[t] \in Seq(FDs) /\ failed[t] \subseteq FDs
    BY DEF TypeInv, TasksOK
  <2>. QED  BY <2>1, <2>2, <2>3
       DEF TypeOK, TypeInv, TableOK, SocketsOK, TasksOK, HistoryOK
<1>. QED  BY <1>1, ServerInvariant, PTL

(* Two tasks never interleave on a socket, broadcasts and replies alike; only *)
(* the answer to a PING goes out beside the lock.                             *)
THEOREM FramesStayWhole == Spec => []TakeTurns
<1>1. TypeInv => TakeTurns
  <2>. SUFFICES ASSUME TypeInv, ~ control, NEW t \in Tasks, NEW u \in Tasks, t # u, mid[t] # 0
                PROVE  mid[t] # mid[u]
    BY DEF TakeTurns, FramesWhole
  <2>1. s_tx_mutex = {t}
    BY DEF TypeInv, PlacesOK, Sends
  <2>2. mid[u] = 0
    BY <2>1 DEF TypeInv, PlacesOK, Sends
  <2>. QED  BY <2>2
<1>. QED  BY <1>1, ServerInvariant, PTL

(* As long as the token is rotated by Httpd itself, an entry marked as signed *)
(* in is an open WebSocket that showed the token now in force.                *)
THEOREM GateKeepsTheToken ==
  ASSUME Rotators \subseteq {Httpd}
  PROVE  Spec => []AuthedMeansSigned
<1>1. SignedInv /\ TypeInv /\ OpenInv /\ [Next]_vars => SignedInv'
  BY OpenStep
<1>2. SignedInv /\ TypeInv => AuthedMeansSigned
  <2>. SUFFICES ASSUME SignedInv, TypeInv, NEW i \in DOMAIN s_fds, s_fd_authed[i]
                PROVE  conn[s_fds[i]] \in signed
    BY DEF AuthedMeansSigned
  <2>1. s_fds[i] \in FDs
    BY TableDomain DEF TypeInv
  <2>2. MayReceive(s_fds[i])
    BY DEF MayReceive
  <2>. QED  BY <2>1, <2>2 DEF SignedInv, EntriesSigned
<1>. QED  BY <1>1, <1>2, OpenInit, ServerInvariant, PTL DEF Spec

-----------------------------------------------------------------------------
(* No number passes to another connection: what is known of a socket stays    *)
(* true until it is closed, and a closed one stays closed.                    *)
Settled ==
  /\ Once' /\ opened' \in Nat /\ opened <= opened'
  /\ \A f \in FDs : f <= opened =>
       /\ conn[f] = 0 => conn'[f] = 0
       /\ conn[f] \in websocket \cup {0} => conn'[f] \in websocket' \cup {0}
       /\ conn[f] \in trusted \cup {0} => conn'[f] \in trusted' \cup {0}

LEMMA SettledAside ==
  ASSUME TypeInv, Once, UNCHANGED <<conn, opened>>,
         websocket \subseteq websocket', trusted \subseteq trusted'
  PROVE  Settled
<1>1. opened' \in Nat /\ opened <= opened'
  BY ServerAssumption DEF TypeInv, SocketsOK
<1>. QED  BY <1>1 DEF Settled, Once

LEMMA SettledAccept ==
  ASSUME TypeInv, ~ reuse, Once, NEW f \in FDs, Accept(f) PROVE Settled
<1>1. opened \in Nat /\ f = opened + 1 /\ opened' = opened + 1
  BY ServerAssumption DEF TypeInv, SocketsOK, Accept
<1>2. \A g \in FDs : conn'[g] = IF g = f THEN opened + 1 ELSE conn[g]
  BY DEF Accept, TypeInv, SocketsOK
<1>3. UNCHANGED <<websocket, trusted>>
  BY DEF Accept, history
<1>4. Once'
  BY <1>1, <1>2 DEF Once
<1>5. \A g \in FDs : g <= opened => conn'[g] = conn[g]
  BY <1>1, <1>2
<1>6. opened' \in Nat /\ opened <= opened'
  BY <1>1
<1>. QED  BY <1>3, <1>4, <1>5, <1>6 DEF Settled

LEMMA SettledClose == ASSUME TypeInv, Once, Close PROVE Settled
<1>0. cur.fd \in FDs
  BY DEF TypeInv, TasksOK
<1>1. \A g \in FDs : conn'[g] = IF g = cur.fd THEN 0 ELSE conn[g]
  BY DEF Close, TypeInv, SocketsOK
<1>2. \A g \in FDs : g # cur.fd /\ conn[g] # 0 => conn[g] # conn[cur.fd]
  BY <1>0 DEF TypeInv, SocketsOK
<1>3. websocket' = websocket \ {conn[cur.fd]} /\ trusted' = trusted \ {conn[cur.fd]}
  BY DEF Close
<1>4. Once'
  BY <1>1 DEF Once
<1>5. opened' \in Nat /\ opened <= opened'
  BY ServerAssumption DEF Close, TypeInv, SocketsOK
<1>. QED  BY <1>1, <1>2, <1>3, <1>4, <1>5 DEF Settled

LEMMA KnownStays ==
  ASSUME TypeInv, Settled
  PROVE  /\ \A f \in FDs : Passed(f) => Passed(f)'
         /\ \A e \in Entries : Known(e) => Known(e)'
<1>0. opened \in Nat /\ opened' \in Nat /\ opened <= opened' /\ FDs \subseteq Nat
  BY ServerAssumption DEF TypeInv, SocketsOK, Settled, FDs
<1>1. ASSUME NEW f \in FDs, Passed(f) PROVE Passed(f)'
  <2>1. conn'[f] \in trusted' \cup {0}
    BY <1>1 DEF Passed, Settled
  <2>2. f <= opened'
    BY <1>0, <1>1 DEF Passed
  <2>. QED  BY <2>1, <2>2 DEF Passed
<1>2. ASSUME NEW e \in Entries, Known(e) PROVE Known(e)'
  <2>0. e.fd \in FDs
    BY DEF Entries
  <2>1. conn'[e.fd] \in websocket' \cup {0}
    BY <1>2, <2>0 DEF Known, Settled
  <2>2. e.fd <= opened'
    <3>1. \A f \in FDs : f <= opened => f <= opened'
      BY <1>0
    <3>. QED  BY <1>2, <2>0, <3>1 DEF Known
  <2>3. e.authed => Passed(e.fd)'
    BY <1>1, <1>2, <2>0 DEF Known
  <2>. QED  BY <2>1, <2>2, <2>3 DEF Known
<1>. QED  BY <1>1, <1>2

(* A task's snapshot and recipients are as before, or shorter, or longer by   *)
(* a socket that has passed.                                                  *)
LEMMA TailElements ==
  ASSUME NEW S, NEW s \in Seq(S), s # <<>>
  PROVE  /\ 1 \in DOMAIN s /\ Head(s) = s[1]
         /\ \A i \in DOMAIN Tail(s) : i + 1 \in DOMAIN s /\ Tail(s)[i] = s[i + 1]
<1>1. Len(s) \in Nat /\ DOMAIN s = 1..Len(s) /\ Len(s) # 0
  BY LenProperties, EmptySeq
<1>2. /\ Tail(s) \in Seq(S) /\ Len(Tail(s)) = Len(s) - 1
      /\ \A i \in 1..Len(Tail(s)) : Tail(s)[i] = s[i + 1]
  BY HeadTailProperties
<1>3. DOMAIN Tail(s) = 1..(Len(s) - 1)
  BY <1>2, LenProperties
<1>4. Head(s) = s[1]
  OBVIOUS
<1>. QED  BY <1>1, <1>2, <1>3, <1>4

LEMMA SnapStays ==
  ASSUME TypeInv, Settled, NEW t \in Tasks, Stays(t),
         snap'[t] = snap[t] \/ (snap[t] # <<>> /\ snap'[t] = Tail(snap[t]))
  PROVE  (\A i \in DOMAIN snap[t] : Known(snap[t][i]))'
<1>0. snap[t] \in Seq(Entries) /\ \A i \in DOMAIN snap[t] : snap[t][i] \in Entries
  BY ElementOfSeq, LenProperties DEF TypeInv, TasksOK
<1>1. \A i \in DOMAIN snap'[t] : \E j \in DOMAIN snap[t] : snap'[t][i] = snap[t][j]
  <2>1. CASE snap[t] # <<>> /\ snap'[t] = Tail(snap[t])
    <3>1. \A i \in DOMAIN Tail(snap[t]) :
            i + 1 \in DOMAIN snap[t] /\ Tail(snap[t])[i] = snap[t][i + 1]
      BY <1>0, <2>1, TailElements
    <3>. QED  BY <2>1, <3>1
  <2>. QED  BY <2>1
<1>2. \A i \in DOMAIN snap'[t] : \E e \in Entries : snap'[t][i] = e /\ Known(e)
  BY <1>0, <1>1 DEF Stays
<1>. QED  BY <1>2, KnownStays

LEMMA FdsStay ==
  ASSUME TypeInv, Settled, NEW t \in Tasks, Stays(t), t # Httpd,
         \/ fds'[t] = fds[t]
         \/ fds[t] # <<>> /\ fds'[t] = Tail(fds[t])
         \/ \E f \in FDs : Passed(f) /\ fds'[t] = Append(fds[t], f)
  PROVE  (\A i \in DOMAIN fds[t] : Passed(fds[t][i]))'
<1>0. fds[t] \in Seq(FDs) /\ \A i \in DOMAIN fds[t] : fds[t][i] \in FDs /\ Passed(fds[t][i])
  BY ElementOfSeq, LenProperties DEF TypeInv, TasksOK, Stays
<1>1. CASE fds'[t] = fds[t] \/ (fds[t] # <<>> /\ fds'[t] = Tail(fds[t]))
  <2>1. \A i \in DOMAIN fds'[t] : \E j \in DOMAIN fds[t] : fds'[t][i] = fds[t][j]
    <3>1. CASE fds[t] # <<>> /\ fds'[t] = Tail(fds[t])
      <4>1. \A i \in DOMAIN Tail(fds[t]) :
              i + 1 \in DOMAIN fds[t] /\ Tail(fds[t])[i] = fds[t][i + 1]
        BY <1>0, <3>1, TailElements
      <4>. QED  BY <3>1, <4>1
    <3>. QED  BY <1>1, <3>1
  <2>2. \A i \in DOMAIN fds'[t] : \E f \in FDs : fds'[t][i] = f /\ Passed(f)
    BY <1>0, <2>1
  <2>. QED  BY <2>2, KnownStays
<1>2. ASSUME NEW f \in FDs, Passed(f), fds'[t] = Append(fds[t], f)
      PROVE  (\A i \in DOMAIN fds[t] : Passed(fds[t][i]))'
  <2>1. \A i \in DOMAIN fds'[t] : (i \in DOMAIN fds[t] /\ fds'[t][i] = fds[t][i]) \/ fds'[t][i] = f
    BY <1>0, <1>2, AppendProperties, LenProperties
  <2>2. \A i \in DOMAIN fds'[t] : \E g \in FDs : fds'[t][i] = g /\ Passed(g)
    BY <1>0, <1>2, <2>1
  <2>. QED  BY <2>2, KnownStays
<1>. QED  BY <1>1, <1>2

(* The tasks that do not move.                                                *)
LEMMA OthersStay ==
  ASSUME TypeInv, Settled, NEW t \in Tasks, Stays(t), snap'[t] = snap[t],
         t # Httpd => fds'[t] = fds[t], at'[t] = "drop" => at[t] = "drop"
  PROVE  Stays(t)'
<1>1. (\A i \in DOMAIN snap[t] : Known(snap[t][i]))'
  BY SnapStays
<1>2. t # Httpd => (\A i \in DOMAIN fds[t] : Passed(fds[t][i]))'
  BY FdsStay
<1>3. at'[t] = "drop" => conn'[Head(snap'[t]).fd] = 0
  <2>. SUFFICES ASSUME at[t] = "drop" PROVE conn'[Head(snap[t]).fd] = 0
    OBVIOUS
  <2>1. snap[t] # <<>> /\ snap[t] \in Seq(Entries)
    BY DEF TypeInv, TasksOK, PlacesOK
  <2>2. Head(snap[t]) \in Entries /\ Known(Head(snap[t]))
    BY <2>1, TailElements, QueueTypes DEF TypeInv, Stays
  <2>3. Head(snap[t]).fd \in FDs /\ Head(snap[t]).fd <= opened /\ conn[Head(snap[t]).fd] = 0
    BY <2>2 DEF Entries, Known, Stays
  <2>. QED  BY <2>3 DEF Settled
<1>. QED  BY <1>1, <1>2, <1>3 DEF Stays

-----------------------------------------------------------------------------
(* At most the socket f is no longer attended to as it was.                   *)
LEMMA FoundAgain ==
  ASSUME NoneMissed, NEW f \in FDs,
         \A g \in FDs : g # f =>
           /\ conn'[g] \in websocket' \ refused' => conn[g] \in websocket \ refused
           /\ Registered(g) => Registered(g)'
           /\ g \in close_queue => g \in close_queue'
           /\ \A t \in Tasks : g \in failed[t] => g \in failed'[t],
         \/ at[Httpd] \notin {"adopt", "close"}
         \/ cur.fd = f
         \/ cur' = cur /\ at'[Httpd] = at[Httpd],
         conn'[f] \in websocket' \ refused' => Attended(f)'
  PROVE  NoneMissed'
<1>1. \A g \in FDs : conn[g] \in websocket \ refused => Attended(g)
  BY DEF NoneMissed
<1>2. ASSUME NEW g \in FDs, g # f, conn'[g] \in websocket' \ refused' PROVE Attended(g)'
  <2>1. Attended(g)
    BY <1>1, <1>2
  <2>. QED  BY <1>2, <2>1 DEF Attended
<1>3. \A g \in FDs : conn'[g] \in websocket' \ refused' => Attended(g)'
  BY <1>2
<1>. QED  BY <1>3 DEF NoneMissed

-----------------------------------------------------------------------------
(* StaysInv, step by step.                                                    *)
Quiet == ~ reuse /\ SnapsStay /\ NothingLeaks /\ NoneMissed

LEMMA QuietAccept == ASSUME TypeInv, Quiet, NEW f \in FDs, Accept(f) PROVE Quiet'
<1>1. Settled
  BY SettledAccept DEF Quiet, SnapsStay
<1>2. SnapsStay'
  BY <1>1, OthersStay DEF Accept, sending, Quiet, SnapsStay, Settled
<1>3. NoneMissed'
  <2>1. conn'[f] \notin websocket' /\ \A g \in FDs : g # f => conn'[g] = conn[g]
    BY ServerAssumption DEF Accept, TypeInv, SocketsOK
  <2>. QED  BY <2>1, FoundAgain DEF Accept, Quiet, table, sending, history, Registered
<1>. QED  BY <1>2, <1>3 DEF Quiet, Accept, NothingLeaks, world, history

LEMMA QuietPeerDies == ASSUME TypeInv, Quiet, NEW c \in Conns, PeerDies(c) PROVE Quiet'
<1>1. Settled
  BY SettledAside DEF PeerDies, history, Quiet, SnapsStay
<1>2. SnapsStay'
  BY <1>1, OthersStay DEF PeerDies, sending, Quiet, SnapsStay, Settled
<1>. QED  BY <1>2 DEF Quiet, PeerDies, NoneMissed, Attended, NothingLeaks, Registered, table, sending, world,
                      history

LEMMA QuietHandshake ==
  ASSUME TypeInv, Quiet, NEW f \in FDs, NEW authed \in BOOLEAN, Handshake(f, authed)
  PROVE  Quiet'
<1>1. Settled
  BY SettledAside DEF Handshake, Quiet, SnapsStay
<1>2. Goes(Httpd, "adopt")
  BY HttpdIsTask, GoesOn DEF Handshake, TypeInv, Places
<1>3. SnapsStay'
  BY <1>1, <1>2, OthersStay DEF Handshake, Goes, sending, Quiet, SnapsStay, Settled
<1>4. NoneMissed'
  <2>1. Attended(f)'
    BY <1>2 DEF Handshake, Attended, Goes
  <2>2. \A g \in FDs : g # f /\ conn[g] = conn[f] => FALSE
    BY DEF Handshake, TypeInv, SocketsOK
  <2>3. \A g \in FDs : g # f => (conn'[g] \in websocket' \ refused' => conn[g] \in websocket \ refused)
    BY <2>2 DEF Handshake
  <2>4. at[Httpd] \notin {"adopt", "close"} /\ UNCHANGED <<s_fds, close_queue, failed>>
    BY DEF Handshake, table, sending
  <2>. QED  BY <2>1, <2>3, <2>4, FoundAgain DEF Quiet, Registered
<1>. QED  BY <1>3, <1>4 DEF Quiet, Handshake, NothingLeaks, world

LEMMA QuietClose == ASSUME TypeInv, Quiet, Close PROVE Quiet'
<1>0. cur.fd \in FDs
  BY DEF TypeInv, TasksOK
<1>1. Settled
  BY SettledClose DEF Quiet, SnapsStay
<1>2. Goes(Httpd, "idle")
  BY HttpdIsTask, GoesOn DEF Close, TypeInv, Places
<1>3. SnapsStay'
  BY <1>1, <1>2, OthersStay DEF Close, Goes, sending, Quiet, SnapsStay, Settled
<1>4. NoneMissed'
  <2>1. \A g \in FDs : conn'[g] = IF g = cur.fd THEN 0 ELSE conn[g]
    BY DEF Close, TypeInv, SocketsOK
  <2>2. conn'[cur.fd] \notin websocket'
    BY <1>0, <2>1, HistoryOpen DEF Close
  <2>4. \A g \in FDs : g # cur.fd /\ conn[g] = conn[cur.fd] => conn[g] = 0
    BY <1>0 DEF TypeInv, SocketsOK
  <2>5. \A g \in FDs : g # cur.fd /\ conn'[g] \in websocket' \ refused' => conn[g] \in websocket \ refused
    BY <1>0, <2>1, <2>4, HistoryOpen DEF Close
  <2>3. UNCHANGED <<s_fds, close_queue, failed>> /\ websocket' \subseteq websocket
    BY DEF Close, table, sending
  <2>. QED  BY <1>0, <2>1, <2>2, <2>3, <2>5, FoundAgain DEF Quiet, Registered
<1>. QED  BY <1>3, <1>4 DEF Quiet, Close, NothingLeaks, world

(* The other steps leave the connections as they are.                         *)
LEMMA QuietAside ==
  ASSUME TypeInv, Quiet,
         UNCHANGED <<conn, websocket, opened, reuse, leaked>>, trusted \subseteq trusted',
         \A t \in Tasks : Settled => Stays(t)', NoneMissed'
  PROVE  Quiet'
<1>1. Settled
  BY SettledAside DEF Quiet, SnapsStay
<1>. QED  BY <1>1 DEF Quiet, SnapsStay, Settled, NothingLeaks

(* Httpd's own steps do not touch what the broadcasts have taken.             *)
LEMMA HttpdAside ==
  ASSUME TypeInv, Quiet, NEW place \in Places \ {"drop"}, Goto(Httpd, place),
         UNCHANGED <<snap, failed>>, \A u \in Tasks : u # Httpd => fds'[u] = fds[u]
  PROVE  at'[Httpd] = place /\ \A t \in Tasks : Settled => Stays(t)'
<1>1. Goes(Httpd, place)
  BY HttpdIsTask, GoesOn DEF TypeInv
<1>. QED  BY <1>1, OthersStay DEF Goes, Quiet, SnapsStay

LEMMA QuietAdopt == ASSUME TypeInv, OpenInv, Quiet, Adopt PROVE Quiet'
<1>0. cur.fd \in FDs /\ cur.authed \in BOOLEAN /\ cur.then \in {"idle", "read"}
  BY DEF TypeInv, TasksOK
<1>1. at'[Httpd] = cur.then /\ \A t \in Tasks : Settled => Stays(t)'
  BY <1>0, HttpdAside DEF Adopt, sending, Places
<1>2. conn[cur.fd] \in websocket /\ conn[cur.fd] # 0
  BY HistoryOpen DEF Adopt, OpenInv, CurOK, Works
<1>3. /\ \A g \in FDs : Registered(g) => Registered(g)'
      /\ close_queue \subseteq close_queue'
      /\ \A g \in FDs : g = cur.fd => Registered(g)' \/ g \in close_queue' \/ conn[g] \in refused'
      /\ refused \subseteq refused'
  <2>1. CASE Registered(cur.fd) \/ ~ Full
    <3>1. With(cur.fd, cur.authed) /\ UNCHANGED <<close_queue, refused>>
      BY <1>0, <2>1, Added DEF Adopt, TypeInv
    <3>. QED  BY <3>1 DEF With
  <2>2. CASE ~ (Registered(cur.fd) \/ ~ Full)
    BY <1>2, <2>2 DEF Adopt, TriggerClose, Registered, table
  <2>. QED  BY <2>1, <2>2
<1>4. NoneMissed'
  <2>1. \A g \in FDs : g = cur.fd => Attended(g)' \/ conn[g] \in refused'
    BY <1>3 DEF Attended
  <2>2. UNCHANGED <<conn, websocket, failed>>
    BY DEF Adopt, sockets, sending
  <2>. QED  BY <1>0, <1>3, <2>1, <2>2, FoundAgain DEF Quiet
<1>. QED  BY <1>1, <1>4, QuietAside DEF Adopt, sockets, world, history

(* Httpd takes a socket out of the table to close it.                         *)
LEMMA QuietRemoved ==
  ASSUME TypeInv, Quiet, NEW f \in FDs, Without(f), Goto(Httpd, "close"),
         at[Httpd] \notin {"adopt", "close"}, cur'.fd = f, close_queue \ {f} \subseteq close_queue',
         UNCHANGED <<sockets, sending, history>>
  PROVE  Quiet'
<1>1. at'[Httpd] = "close" /\ \A t \in Tasks : Settled => Stays(t)'
  BY HttpdAside DEF sending, Places
<1>2. Attended(f)'
  BY <1>1 DEF Attended
<1>3. NoneMissed'
  BY <1>2, FoundAgain DEF Without, sockets, sending, history, Quiet
<1>. QED  BY <1>1, <1>3, QuietAside DEF sockets, world, history

LEMMA QuietEnds ==
  ASSUME TypeInv, Quiet, (\E f \in FDs : EndSession(f)) \/ ReadFails
  PROVE  Quiet'
<1>1. ASSUME NEW f \in FDs, EndSession(f) PROVE Quiet'
  BY <1>1, Removed, QuietRemoved DEF EndSession, TypeInv, TasksOK
<1>2. CASE ReadFails
  BY <1>2, Removed, QuietRemoved DEF ReadFails, TypeInv, TasksOK
<1>. QED  BY <1>1, <1>2

(* Its other steps leave the sockets of the table alone.                      *)
LEMMA QuietHttpd ==
  ASSUME TypeInv, Quiet,
         \/ \E f \in FDs : Message(f) \/ Pong(f)
         \/ EnsureFd \/ CheckToken \/ SetAuthed \/ Answer \/ PongDone
  PROVE  Quiet'
<1>0. 1 \in FDs
  BY ServerAssumption DEF FDs
<1>1. /\ \E place \in Places \ {"drop"} : Goto(Httpd, place)
      /\ at[Httpd] \notin {"adopt", "close"}
      /\ UNCHANGED <<s_fds, conn, websocket, opened, reuse, close_queue, snap, failed, leaked, refused>>
      /\ trusted \subseteq trusted'
  BY DEF Message, Pong, EnsureFd, CheckToken, SetAuthed, Answer, PongDone, Reply, Places, table, sockets,
         world, sending, history
<1>2. \A u \in Tasks : u # Httpd => fds'[u] = fds[u]
  BY DEF Message, Pong, EnsureFd, CheckToken, SetAuthed, Answer, PongDone, Reply, sending,
         TypeInv, TasksOK
<1>3. \A t \in Tasks : Settled => Stays(t)'
  BY <1>1, <1>2, HttpdAside
<1>4. NoneMissed'
  <2>1. conn'[1] \in websocket' \ refused' => Attended(1)'
    BY <1>0, <1>1 DEF Quiet, NoneMissed, Attended, Registered
  <2>. QED  BY <1>0, <1>1, <2>1, FoundAgain DEF Registered, Quiet
<1>. QED  BY <1>1, <1>3, <1>4, QuietAside

LEMMA QuietDeauth == ASSUME TypeInv, Quiet, NEW t, DeauthAll(t) PROVE Quiet'
<1>1. \A u \in Tasks : Settled => Stays(u)'
  BY OthersStay DEF DeauthAll, sending, Quiet, SnapsStay
<1>2. NoneMissed'
  BY DEF DeauthAll, sockets, sending, Quiet, NoneMissed, Attended, Registered
<1>. QED  BY <1>1, <1>2, QuietAside DEF DeauthAll, sockets, world

-----------------------------------------------------------------------------
(* What a broadcast takes from the table is known.                            *)
LEMMA QuietSnapshot ==
  ASSUME TypeInv, OpenInv, Quiet, NEW t \in Casters, Snapshot(t)
  PROVE  Quiet'
<1>0. t \in Tasks /\ t # Httpd
  BY ServerAssumption DEF Tasks
<1>1. Goes(t, "check")
  BY <1>0, GoesOn DEF Snapshot, TypeInv, Places
<1>2. UNCHANGED <<conn, websocket, trusted, opened, reuse, leaked, refused, s_fds, close_queue, fds, failed, cur>>
  BY DEF Snapshot, table, sockets, world, history
<1>3. ASSUME NEW u \in Tasks, u # t, Settled PROVE Stays(u)'
  <2>1. snap'[u] = snap[u]
    BY <1>3 DEF Snapshot, TypeInv, TasksOK
  <2>. QED  BY <1>1, <1>2, <1>3, <2>1, OthersStay DEF Goes, Quiet, SnapsStay
<1>4. ASSUME Settled PROVE Stays(t)'
  <2>1. (\A i \in DOMAIN fds[t] : Passed(fds[t][i]))'
    BY <1>0, <1>2, <1>4, FdsStay DEF Quiet, SnapsStay
  <2>2. ASSUME NEW i \in DOMAIN s_fds
        PROVE  Known([fd |-> s_fds[i], authed |-> s_fd_authed[i]])
    <3>1. s_fds[i] \in FDs /\ Registered(s_fds[i])
      BY TableDomain DEF TypeInv, Registered, ToSet
    <3>2. conn[s_fds[i]] \in websocket /\ conn[s_fds[i]] # 0
      BY <3>1, HistoryOpen DEF OpenInv, EntriesOpen
    <3>3. s_fds[i] <= opened
      BY <3>1, <3>2 DEF Quiet, SnapsStay, Once, TypeInv, SocketsOK
    <3>4. s_fd_authed[i] => conn[s_fds[i]] \in trusted
      BY <3>1 DEF OpenInv, EntriesTrusted, MayReceive
    <3>. QED  BY <3>2, <3>3, <3>4 DEF Known, Passed
  <2>3. snap'[t] = [i \in DOMAIN s_fds |-> [fd |-> s_fds[i], authed |-> s_fd_authed[i]]]
    BY <1>0 DEF Snapshot, TypeInv, TasksOK
  <2>4. (\A i \in DOMAIN snap[t] : Known(snap[t][i]))'
    BY <1>2, <2>2, <2>3 DEF Known, Passed
  <2>. QED  BY <1>0, <1>1, <2>1, <2>4 DEF Stays, Goes
<1>5. NoneMissed'
  BY <1>0, <1>1, <1>2, HttpdIsTask DEF Goes, Quiet, NoneMissed, Attended, Registered
<1>. QED  BY <1>2, <1>3, <1>4, <1>5, QuietAside

(* A task goes on with what it has taken, leaving open WebSockets findable.   *)
LEMMA QuietSends ==
  ASSUME TypeInv, Quiet, NEW t \in Tasks, Aside(t), at'[t] # "drop",
         UNCHANGED <<sockets, trusted, leaked, cur>>, refused \subseteq refused',
         \A u \in Tasks : u # t => snap'[u] = snap[u] /\ fds'[u] = fds[u],
         snap'[t] = snap[t] \/ (snap[t] # <<>> /\ snap'[t] = Tail(snap[t])),
         t # Httpd => \/ fds'[t] = fds[t]
                      \/ fds[t] # <<>> /\ fds'[t] = Tail(fds[t])
                      \/ \E f \in FDs : Passed(f) /\ fds'[t] = Append(fds[t], f),
         NEW f \in FDs,
         \A g \in FDs : g # f => /\ Registered(g) => Registered(g)'
                                 /\ g \in close_queue => g \in close_queue'
                                 /\ \A u \in Tasks : g \in failed[u] => g \in failed'[u],
         at[t] \notin {"adopt", "close"},
         conn'[f] \in websocket' \ refused' => Attended(f)'
  PROVE  Quiet'
<1>1. ASSUME NEW u \in Tasks, u # t, Settled PROVE Stays(u)'
  BY <1>1, OthersStay DEF Aside, Quiet, SnapsStay
<1>2. ASSUME Settled PROVE Stays(t)'
  <2>1. (\A i \in DOMAIN snap[t] : Known(snap[t][i]))'
    BY <1>2, SnapStays DEF Quiet, SnapsStay
  <2>2. t # Httpd => (\A i \in DOMAIN fds[t] : Passed(fds[t][i]))'
    BY <1>2, FdsStay DEF Quiet, SnapsStay
  <2>. QED  BY <2>1, <2>2 DEF Stays
<1>3. NoneMissed'
  <2>1. at[Httpd] \notin {"adopt", "close"} \/ at'[Httpd] = at[Httpd]
    BY HttpdIsTask DEF Aside
  <2>2. UNCHANGED <<conn, websocket>>
    BY DEF sockets
  <2>. QED  BY <2>1, <2>2, FoundAgain DEF Quiet
<1>. QED  BY <1>1, <1>2, <1>3, QuietAside DEF sockets, world

LEMMA QuietCheck == ASSUME TypeInv, Quiet, NEW t \in Tasks, Check(t) PROVE Quiet'
<1>. DEFINE e == Head(snap[t])
<1>0. /\ e \in Entries /\ e.fd \in FDs /\ Known(e)
      /\ 1 \in FDs /\ UNCHANGED <<table, sockets, close_queue, failed, cur, history>>
  <2>1. snap[t] # <<>> /\ snap[t] \in Seq(Entries)
    BY DEF Check, TypeInv, TasksOK
  <2>2. e \in Entries /\ Known(e)
    BY <2>1, TailElements, QueueTypes DEF TypeInv, Quiet, SnapsStay, Stays
  <2>. QED  BY <2>2, ServerAssumption DEF Check, Entries, FDs
<1>1. CASE conn[e.fd] \notin websocket
  <2>1. Goes(t, "drop") /\ UNCHANGED <<snap, fds>>
    BY <1>1, GoesOn DEF Check, TypeInv, Places
  <2>2. conn[e.fd] = 0
    BY <1>0, <1>1 DEF Known
  <2>3. ASSUME NEW u \in Tasks, u # t, Settled PROVE Stays(u)'
    BY <2>1, <2>3, OthersStay DEF Goes, Quiet, SnapsStay
  <2>4. ASSUME Settled PROVE Stays(t)'
    <3>1. (\A i \in DOMAIN snap[t] : Known(snap[t][i]))'
      BY <2>1, <2>4, SnapStays DEF Quiet, SnapsStay
    <3>2. t # Httpd => (\A i \in DOMAIN fds[t] : Passed(fds[t][i]))'
      BY <2>1, <2>4, FdsStay DEF Quiet, SnapsStay
    <3>3. conn'[Head(snap'[t]).fd] = 0
      BY <1>0, <2>1, <2>2 DEF sockets
    <3>. QED  BY <3>1, <3>2, <3>3 DEF Stays
  <2>5. NoneMissed'
    BY <1>0, <2>1, HttpdIsTask DEF Check, Goes, table, sockets, history, Quiet, NoneMissed, Attended, Registered
  <2>. QED  BY <1>0, <2>3, <2>4, <2>5, QuietAside DEF sockets, world, history
<1>2. CASE conn[e.fd] \in websocket
  <2>1. /\ snap[t] # <<>> /\ PopSnap(t) /\ UNCHANGED at /\ at[t] = "check"
        /\ fds' = IF e.authed THEN [fds EXCEPT ![t] = Append(@, e.fd)] ELSE fds
    BY <1>2 DEF Check
  <2>2. snap'[t] = Tail(snap[t]) /\ \A u \in Tasks : u # t => snap'[u] = snap[u]
    BY <2>1, SnapPopped DEF TypeInv
  <2>3. /\ \A u \in Tasks : u # t => fds'[u] = fds[u]
        /\ \/ fds'[t] = fds[t]
           \/ \E f \in FDs : Passed(f) /\ fds'[t] = Append(fds[t], f)
    <3>1. e.authed => Passed(e.fd)
      BY <1>0 DEF Known
    <3>. QED  BY <1>0, <2>1, <3>1 DEF TypeInv, TasksOK
  <2>6. UNCHANGED <<conn, websocket, refused>> /\ 1 \in FDs
    BY <1>0, <2>1, ServerAssumption DEF Check, sockets, history, FDs
  <2>4. conn'[1] \in websocket' \ refused' => Attended(1)'
    BY <1>0, <2>1, <2>6, HttpdIsTask DEF Check, Attended, Quiet, NoneMissed, Registered, table
  <2>5. Aside(t)
    BY <2>1 DEF Aside, Works
  <2>. QED  BY <1>0, <2>1, <2>2, <2>3, <2>4, <2>5, <2>6, QuietSends
        DEF Registered, table, history, sockets
<1>. QED  BY <1>1, <1>2

(* An entry dropped stands for a closed socket.                               *)
LEMMA QuietDrop == ASSUME TypeInv, Quiet, NEW t \in Tasks, Drop(t) PROVE Quiet'
<1>0. snap[t] # <<>> /\ at[t] = "drop"
  BY DEF Drop, TypeInv, PlacesOK
<1>1. PICK f \in FDs : f = Head(snap[t]).fd /\ Without(f)
  BY <1>0, QueueTypes, Removed DEF Drop, TypeInv, Entries
<1>2. conn[f] = 0 /\ 0 \notin websocket
  BY <1>0, <1>1, HistoryOpen DEF Quiet, SnapsStay, Stays
<1>3. Goes(t, "check")
  BY GoesOn DEF Drop, TypeInv, Places
<1>4. snap'[t] = Tail(snap[t]) /\ \A u \in Tasks : u # t => snap'[u] = snap[u]
  BY <1>0, SnapPopped DEF Drop, TypeInv
<1>5. Aside(t) /\ at'[t] # "drop"
  BY <1>3 DEF Goes, Aside, Works
<1>6. UNCHANGED <<conn, websocket, refused>>
  BY DEF Drop, sockets, history
<1>. QED  BY <1>0, <1>1, <1>2, <1>4, <1>5, <1>6, QuietSends DEF Drop, Without, history

(* A socket evicted is one to be closed.                                      *)
LEMMA QuietEvict == ASSUME TypeInv, Quiet, NEW t \in Tasks, Evict(t) PROVE Quiet'
<1>0. fds[t] # <<>> /\ at[t] = "evict"
  BY DEF Evict, TypeInv, PlacesOK
<1>1. PICK f \in FDs : f = Head(fds[t]) /\ Without(f)
  BY <1>0, QueueTypes, Removed DEF Evict, TypeInv
<1>2. Goes(t, "next")
  BY GoesOn DEF Evict, TypeInv, Places
<1>3. Aside(t) /\ at'[t] # "drop"
  BY <1>2 DEF Goes, Aside, Works
<1>4. fds'[t] = Tail(fds[t]) /\ \A u \in Tasks : u # t => fds'[u] = fds[u]
  BY <1>0, FdPopped DEF Evict, TypeInv
<1>5. /\ \A u \in Tasks : failed[u] \subseteq failed'[u]
      /\ Registered(f) => f \in failed'[t]
  BY <1>1 DEF Evict, TypeInv, TasksOK
<1>6. conn[f] \in websocket \ refused => Attended(f)'
  <2>1. conn[f] \in websocket \ refused => Attended(f)
    BY DEF Quiet, NoneMissed, Attended
  <2>. QED  BY <1>0, <1>2, <1>5, <2>1, HttpdIsTask DEF Attended, Evict, Goes
<1>7. UNCHANGED <<conn, websocket, refused>>
  BY DEF Evict, sockets, history
<1>. QED  BY <1>0, <1>1, <1>3, <1>4, <1>5, <1>6, <1>7, QuietSends DEF Evict, Without, history

(* What is sent goes to who signed in.                                        *)
LEMMA QuietReaches ==
  ASSUME TypeInv, Quiet, NEW t \in Tasks, fds[t] # <<>>, Reaches(t, conn[Head(fds[t])])
  PROVE  UNCHANGED leaked
<1>1. CASE t = Httpd
  BY <1>1 DEF Reaches
<1>2. CASE t # Httpd
  <2>1. 1 \in DOMAIN fds[t] /\ Head(fds[t]) = fds[t][1]
    BY TailElements DEF TypeInv, TasksOK
  <2>2. Passed(Head(fds[t]))
    BY <1>2, <2>1 DEF Quiet, SnapsStay, Stays
  <2>. QED  BY <2>2 DEF Reaches, Passed
<1>. QED  BY <1>1, <1>2

LEMMA QuietTrigger == ASSUME TypeInv, Quiet, NEW t \in Tasks, Trigger(t) PROVE Quiet'
<1>1. PICK f \in failed[t] :
        /\ TriggerClose(f) /\ failed' = [failed EXCEPT ![t] = @ \ {f}]
        /\ Goto(t, IF failed[t] = {f} THEN "idle" ELSE "trigger")
  BY DEF Trigger
<1>2. f \in FDs
  BY DEF TypeInv, TasksOK
<1>3. PICK place \in {"idle", "trigger"} : Goes(t, place)
  BY <1>1, GoesOn DEF TypeInv, Places
<1>4. Aside(t) /\ at'[t] # "drop"
  BY <1>3 DEF Goes, Aside, Works
<1>5. \A u \in Tasks, g \in FDs : g # f /\ g \in failed[u] => g \in failed'[u]
  BY <1>1 DEF TypeInv, TasksOK
<1>6. /\ close_queue \subseteq close_queue' /\ refused \subseteq refused'
      /\ conn[f] # 0 => f \in close_queue' \/ conn[f] \in refused'
  BY <1>1 DEF TriggerClose
<1>7. conn[f] \in websocket => Attended(f)' \/ conn[f] \in refused'
  BY <1>6, HistoryOpen DEF Attended
<1>. QED  BY <1>2, <1>4, <1>5, <1>6, <1>7, QuietSends DEF Trigger, table, sockets, Registered

LEMMA QuietSendStep == ASSUME TypeInv, Quiet, NEW t \in Tasks, SendStep(t) PROVE Quiet'
<1>1. CASE Check(t) \/ Drop(t) \/ Evict(t) \/ Trigger(t)
  BY <1>1, QuietCheck, QuietDrop, QuietEvict, QuietTrigger
<1>2. CASE Checked(t) \/ Lock(t) \/ NextFd(t) \/ Header(t) \/ Payload(t) \/ Unlock(t)
  <2>1. /\ UNCHANGED <<table, sockets, close_queue, cur, snap, failed, trusted>>
        /\ at[t] \in {"check", "lock", "next", "header", "payload"}
        /\ \/ UNCHANGED at
           \/ \E place \in {"idle", "lock", "next", "header", "payload", "evict", "trigger"} :
                Goto(t, place)
    BY <1>2 DEF Checked, Lock, NextFd, Header, Payload, Unlock, Fails, sending, history
  <2>2. Aside(t) /\ at'[t] # "drop"
    BY <2>1 DEF Aside, Goto, Works, TypeInv, TasksOK
  <2>3. UNCHANGED fds \/ (fds[t] # <<>> /\ PopFd(t))
    BY <1>2 DEF Checked, Lock, NextFd, Header, Payload, Unlock, Fails, sending, TypeInv, PlacesOK
  <2>4. /\ \A u \in Tasks : u # t => fds'[u] = fds[u]
        /\ fds'[t] = fds[t] \/ (fds[t] # <<>> /\ fds'[t] = Tail(fds[t]))
    BY <2>3, FdPopped DEF TypeInv
  <2>5. UNCHANGED <<leaked, refused>>
    BY <1>2, QuietReaches
    DEF Checked, Lock, NextFd, Header, Payload, Unlock, Fails, history, TypeInv, PlacesOK
  <2>6. 1 \in FDs
    BY ServerAssumption DEF FDs
  <2>7. conn'[1] \in websocket' \ refused' => Attended(1)'
    <3>1. at[Httpd] \in {"adopt", "close"} => at'[Httpd] = at[Httpd]
      BY <2>1, <2>2, HttpdIsTask DEF Aside
    <3>. QED  BY <2>1, <2>5, <2>6, <3>1 DEF sockets, Attended, Quiet, NoneMissed, Registered, table
  <2>. QED  BY <2>1, <2>2, <2>4, <2>5, <2>6, <2>7, QuietSends DEF Registered, table, sockets
<1>. QED  BY <1>1, <1>2 DEF SendStep

(* Every step keeps what holds as long as no number of a socket is used       *)
(* again.                                                                     *)
LEMMA StaysStep == ASSUME TypeInv, OpenInv, StaysInv, [Next]_vars PROVE StaysInv'
<1>0. reuse' = reuse
  BY DEF vars, world, sockets, Next, Accept, Message, EndSession, Pong, Handshake, PeerDies, DeauthAll,
         Snapshot, HttpdStep, Adopt, EnsureFd, ReadFails, CheckToken, SetAuthed, Answer, Close, PongDone,
         SendStep, Check, Drop, Checked, Lock, NextFd, Header, Payload, Evict, Unlock, Trigger
<1>. SUFFICES ASSUME Quiet PROVE Quiet'
  BY <1>0 DEF StaysInv, Quiet
<1>1. CASE UNCHANGED vars
  BY <1>1 DEF vars, table, sockets, world, sending, history, Quiet, SnapsStay, Once, Stays, Known,
              Passed, NothingLeaks, NoneMissed, Attended, Registered
<1>2. ASSUME NEW f \in FDs, Accept(f) \/ Message(f) \/ EndSession(f) \/ Pong(f) PROVE Quiet'
  BY <1>2, QuietAccept, QuietHttpd, QuietEnds
<1>3. CASE HttpdStep
  BY <1>3, QuietAdopt, QuietHttpd, QuietEnds, QuietClose DEF HttpdStep
<1>. QED  BY <1>1, <1>2, <1>3, QuietHandshake, QuietPeerDies, QuietDeauth, QuietSnapshot, QuietSendStep
     DEF Next

(* Initially nobody sends and nothing is open.                                *)
LEMMA StaysInit == Init => StaysInv
<1>. SUFFICES ASSUME Init PROVE StaysInv
  OBVIOUS
<1>1. \A t \in Tasks : DOMAIN snap[t] = {} /\ DOMAIN fds[t] = {} /\ at[t] = "idle"
  BY EmptySeq DEF Init
<1>. QED  BY <1>1 DEF Init, StaysInv, SnapsStay, Once, Stays, NothingLeaks, NoneMissed

(* Without reuse, what a task remembers of a socket stays true of its         *)
(* connection.                                                                *)
LEMMA StaysAlways == Spec => []StaysInv
<1>1. TypeInv /\ OpenInv /\ StaysInv /\ [Next]_vars => StaysInv'
  BY StaysStep
<1>. QED  BY <1>1, StaysInit, ServerInvariant, PTL DEF Spec

(* As long as no number of a socket passes to another connection, a broadcast *)
(* reaches only those who once signed in, whoever rotates the token meanwhile *)
(* and however many tasks broadcast.                                          *)
THEOREM GateIsKept == Spec => []GateHolds
<1>1. StaysInv => GateHolds
  BY DEF StaysInv, GateHolds
<1>. QED  BY <1>1, StaysAlways, PTL

(* ... and an open WebSocket is in the table, or is being adopted or closed,  *)
(* unless the server refused a request to close it.                           *)
THEOREM NoneIsForgotten == Spec => []NoZombie
<1>1. StaysInv => NoZombie
  BY DEF StaysInv, NoneMissed, NoZombie
<1>. QED  BY <1>1, StaysAlways, PTL
=============================================================================
