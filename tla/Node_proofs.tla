---------------------------- MODULE Node_proofs ----------------------------
(* Proofs about the station and its access point (WifiMgr) and about the    *)
(* alert log (AlertLog), for any number of networks, retries, outages,      *)
(* alerts and restarts, and a ring of any size.                             *)
EXTENDS MCNode, SequenceTheorems, TLAPS

(***************************************************************************)
(* WifiMgr.                                                                *)
(***************************************************************************)
(* The driver has credentials, or Improv or a restart is about to give it     *)
(* those in flash.                                                            *)
StaWanted ==
  /\ improv # "ready" => wanted \in Creds
  /\ wifi_cfg # None /\ sta = None => improv \in {"stored", "left"} \/ restart # "no"

(* An address that is still to be handled belongs to the link there is, or    *)
(* the end of its link comes after it.                                        *)
LinkOrDrop ==
  \A i \in DOMAIN events : events[i] = "GOT_IP" =>
    \/ driver = "linked"
    \/ \E j \in DOMAIN events : j > i /\ events[j] \in {"credential", "other"}

(* More than NeverStranded says: the access point is not even needed.         *)
KeepsTrying == wifi_cfg # None => Trying \/ kept

WifiInv == TypeOK /\ StaWanted /\ LinkOrDrop /\ KeepsTrying

(* The type invariant in three parts: flags, numbers, and the rest.           *)
Flags ==
  /\ ap_disabled \in BOOLEAN /\ s_ap_mode \in BOOLEAN /\ s_wifi_connected \in BOOLEAN
  /\ s_reconnect_timer \in BOOLEAN /\ wiping \in BOOLEAN /\ s_dns_started \in BOOLEAN
  /\ kept \in BOOLEAN /\ router \in BOOLEAN
Counters ==
  /\ s_retry_count \in 0..(MAX_STA_RETRIES + 1)
  /\ wishes \in 0..MaxWishes /\ outages \in 0..MaxOutages /\ blips \in 0..MaxBlips
  /\ faults \in 0..MaxFaults
Places ==
  /\ wifi_cfg \in Creds \cup {None}
  /\ s_ap_grace_timer \in {"off", "running", "firing"}
  /\ sta \in Creds \cup {None} /\ driver \in {"idle", "connecting", "linked"}
  /\ events \in Seq(Event)
  /\ improv \in {"ready", "stored", "left", "pending"} /\ wanted \in Creds \cup {None}
  /\ restart \in {"no", "reboot", "forget"}

(* The type invariant in parts, which the provers can take one by one.        *)
LEMMA TypeParts ==
  /\ TypeOK <=> Flags /\ Counters /\ Places
  /\ TypeOK' <=> Flags' /\ Counters' /\ Places'
  BY DEF TypeOK, Flags, Counters, Places

-----------------------------------------------------------------------------
(* What posting and taking an event does to the queue.                        *)
LEMMA Posted ==
  ASSUME NEW q \in Seq(Event), NEW e \in Event
  PROVE  /\ Append(q, e) \in Seq(Event) /\ Append(q, e) # <<>>
         /\ DOMAIN Append(q, e) = DOMAIN q \cup {Len(q) + 1}
         /\ \A i \in DOMAIN q : Append(q, e)[i] = q[i] /\ Len(q) + 1 > i
         /\ Append(q, e)[Len(q) + 1] = e
<1>1. /\ Append(q, e) \in Seq(Event) /\ Len(Append(q, e)) = Len(q) + 1
      /\ \A i \in 1..Len(q) : Append(q, e)[i] = q[i]
      /\ Append(q, e)[Len(q) + 1] = e
  BY AppendProperties
<1>2. /\ Len(q) \in Nat /\ DOMAIN q = 1..Len(q)
      /\ DOMAIN Append(q, e) = 1..(Len(q) + 1)
  BY <1>1, LenProperties
<1>3. Append(q, e) # <<>>
  BY <1>1, <1>2, EmptySeq
<1>. QED  BY <1>1, <1>2, <1>3

(* The rest of the events are events.                                         *)
LEMMA Taken ==
  ASSUME NEW q \in Seq(Event), q # <<>>
  PROVE  /\ Tail(q) \in Seq(Event)
         /\ Head(q) = q[1] /\ 1 \in DOMAIN q /\ DOMAIN q \subseteq Nat \ {0}
         /\ \A i \in DOMAIN Tail(q) : i \in Nat /\ i + 1 \in DOMAIN q /\ Tail(q)[i] = q[i + 1]
         /\ \A j \in DOMAIN q : j # 1 => j - 1 \in DOMAIN Tail(q) /\ Tail(q)[j - 1] = q[j]
         /\ \A j \in DOMAIN q : j # 1 => Tail(q) # <<>>
<1>1. Len(q) \in Nat /\ Len(q) # 0 /\ DOMAIN q = 1..Len(q)
  BY LenProperties, EmptySeq
<1>2. /\ Tail(q) \in Seq(Event) /\ Len(Tail(q)) = Len(q) - 1
      /\ \A i \in 1..Len(Tail(q)) : Tail(q)[i] = q[i + 1]
  BY <1>1, HeadTailProperties
<1>3. DOMAIN Tail(q) = 1..(Len(q) - 1)
  BY <1>2, LenProperties
<1>4. Head(q) = q[1]
  OBVIOUS
<1>5. Tail(q) = <<>> => Len(q) = 1
  BY <1>1, <1>2, EmptySeq
<1>. QED  BY <1>1, <1>2, <1>3, <1>4, <1>5

-----------------------------------------------------------------------------
(* Types, action by action.                                                   *)
LEMMA WifiTypes == TypeOK /\ Next => TypeOK'
<1>. SUFFICES ASSUME TypeOK, Next PROVE TypeOK'
  OBVIOUS
<1>. USE DEF flash, timers, wipe, link, console, bounds
<1>1. Flags /\ Counters /\ Places
  BY TypeParts
<1>2. ASSUME NEW cfg \in Creds \cup {None}, Boot(cfg), ap_disabled' = ap_disabled,
             router' = router, wishes' \in 0..MaxWishes, faults' \in 0..MaxFaults,
             UNCHANGED <<outages, blips>>
      PROVE  TypeOK'
  <2>1. Flags'
    BY <1>1, <1>2, Zenon DEF Flags, Boot
  <2>2. Counters'
    BY <1>1, <1>2, WifiAssumption DEF Counters, Boot
  <2>3. <<"STA_START">> \in Seq(Event)
    BY DEF Event
  <2>4. Places'
    BY <1>1, <1>2, <2>3 DEF Places, Boot
  <2>. QED  BY <2>1, <2>2, <2>4, TypeParts
<1>3. CASE Driver \/ RouterGoes \/ RouterReturns
  <2>1. Flags'
    BY <1>1, <1>3 DEF Driver, GetsIp, Refused, Blip, RouterGoes, RouterReturns, Flags
  <2>2. Counters'
    BY <1>1, <1>3, WifiAssumption
       DEF Driver, GetsIp, Refused, Blip, RouterGoes, RouterReturns, Counters
  <2>3. \A e \in Event : Append(events, e) \in Seq(Event)
    BY <1>1, Posted DEF Places
  <2>4. Places'
    BY <1>1, <1>3, <2>3
       DEF Driver, GetsIp, Refused, Blip, RouterGoes, RouterReturns, Places, Event
  <2>. QED  BY <2>1, <2>2, <2>4, TypeParts
<1>4. CASE StaStart \/ Disconnected \/ clear_sta_creds \/ GotIp
  <2>1. Flags'
    BY <1>1, <1>4 DEF StaStart, Disconnected, clear_sta_creds, GotIp, ArmReconnect, Flags
  <2>5. clear_sta_creds => faults' \in 0..MaxFaults /\ wifi_cfg' \in {None, wifi_cfg}
    BY <1>1, WifiAssumption DEF clear_sta_creds, Erases, Faulty, Counters
  <2>2. Counters'
    BY <1>1, <1>4, <2>5, WifiAssumption
       DEF StaStart, Disconnected, clear_sta_creds, GotIp, Counters
  <2>3. events # <<>> => Tail(events) \in Seq(Event)
    BY <1>1, Taken DEF Places
  <2>4. Places'
    BY <1>1, <1>4, <2>3, <2>5
       DEF StaStart, Disconnected, clear_sta_creds, GotIp, Handles, Connecting, StopGrace,
           ArmGrace, Places
  <2>. QED  BY <2>1, <2>2, <2>4, TypeParts
<1>5. CASE reconnect_timer_cb \/ GraceFires \/ DropAp \/ task_dns_captive
           \/ ImprovLeaves \/ ImprovConnects \/ ImprovReports
  <2>1. Flags'
    BY <1>1, <1>5 DEF reconnect_timer_cb, GraceFires, DropAp, task_dns_captive, ImprovLeaves,
                      ImprovConnects, ImprovReports, Flags
  <2>2. Counters'
    BY <1>1, <1>5 DEF reconnect_timer_cb, GraceFires, DropAp, task_dns_captive, ImprovLeaves,
                      ImprovConnects, ImprovReports, Counters
  <2>3. Append(events, "other") \in Seq(Event)
    BY <1>1, Posted DEF Places, Event
  <2>4. Places'
    BY <1>1, <1>5, <2>3
       DEF reconnect_timer_cb, GraceFires, DropAp, task_dns_captive, ImprovLeaves,
           ImprovConnects, ImprovReports, Connecting, ConfigureSta, Places
  <2>. QED  BY <2>1, <2>2, <2>4, TypeParts
<1>6. CASE (\E c \in Creds : ImprovStores(c) \/ api_wifi_connect(c)) \/ api_wifi_disconnect
  <2>1. Flags'
    BY <1>1, <1>6 DEF ImprovStores, api_wifi_connect, api_wifi_disconnect, Flags
  <2>4. ASSUME NEW c \in Creds, Stores(c)
        PROVE  faults' \in 0..MaxFaults /\ wifi_cfg' \in Creds \cup {None}
    BY <1>1, <2>4, WifiAssumption DEF Stores, Faulty, Counters, Places
  <2>2. Counters'
    BY <1>1, <1>6, <2>4, WifiAssumption
       DEF ImprovStores, api_wifi_connect, api_wifi_disconnect, Counters
  <2>3. Places'
    BY <1>1, <1>6, <2>4 DEF ImprovStores, api_wifi_connect, api_wifi_disconnect, Places
  <2>. QED  BY <2>1, <2>2, <2>3, TypeParts
<1>7. ASSUME NEW cfg \in {None, wifi_cfg}, Erases(cfg)
      PROVE  cfg \in Creds \cup {None} /\ faults' \in 0..MaxFaults
  BY <1>1, <1>7, WifiAssumption DEF Erases, Faulty, Counters, Places
<1>8. CASE Reboot \/ wifi_mgr_forget_and_reboot
  BY <1>1, <1>2, <1>8, <1>7 DEF Reboot, wifi_mgr_forget_and_reboot, Counters, Places
<1>9. CASE task_gpio_reset
  <2>1. wishes' \in 0..MaxWishes
    BY <1>1, <1>9, WifiAssumption DEF task_gpio_reset, Counters
  <2>. QED  BY <1>2, <1>9, <1>7, <2>1 DEF task_gpio_reset
<1>. QED
  BY <1>3, <1>4, <1>5, <1>6, <1>8, <1>9 DEF Next, Hub, User

-----------------------------------------------------------------------------
(* The queue of events and the link, action by action.                        *)
LEMMA LinkStep == TypeOK /\ LinkOrDrop /\ Next => LinkOrDrop'
<1>. SUFFICES ASSUME TypeOK, LinkOrDrop, Next PROVE LinkOrDrop'
  OBVIOUS
<1>. USE DEF flash, timers, wipe, link, console, bounds
<1>1. events \in Seq(Event) /\ driver \in {"idle", "connecting", "linked"}
  BY DEF TypeOK
<1>2. ASSUME events' = events, driver = "linked" => driver' = "linked"
      PROVE  LinkOrDrop'
  BY <1>2 DEF LinkOrDrop
<1>3. ASSUME NEW e \in {"credential", "other"}, events' = Append(events, e)
      PROVE  LinkOrDrop'
  <2>1. /\ DOMAIN events' = DOMAIN events \cup {Len(events) + 1}
        /\ \A i \in DOMAIN events : events'[i] = events[i] /\ Len(events) + 1 > i
        /\ events'[Len(events) + 1] = e
    BY <1>1, <1>3, Posted DEF Event
  <2>. QED  BY <1>3, <2>1 DEF LinkOrDrop
<1>4. ASSUME NEW e \in Event, Handles(e), events' = Tail(events),
             driver = "linked" => driver' = "linked"
      PROVE  LinkOrDrop'
  <2>1. /\ \A i \in DOMAIN events' : i \in Nat /\ i + 1 \in DOMAIN events /\ events'[i] = events[i + 1]
        /\ \A j \in DOMAIN events : j # 1 => j - 1 \in DOMAIN events' /\ events'[j - 1] = events[j]
        /\ DOMAIN events \subseteq Nat \ {0}
    BY <1>1, <1>4, Taken DEF Handles
  <2>2. ASSUME NEW i \in DOMAIN events', events'[i] = "GOT_IP", driver' # "linked"
        PROVE  \E j \in DOMAIN events' : j > i /\ events'[j] \in {"credential", "other"}
    <3>1. PICK j \in DOMAIN events : j > i + 1 /\ events[j] \in {"credential", "other"}
      BY <1>4, <2>1, <2>2 DEF LinkOrDrop
    <3>2. j \in Nat /\ i \in Nat /\ j # 1 /\ j - 1 > i
      BY <2>1, <3>1
    <3>. QED  BY <2>1, <3>1, <3>2
  <2>. QED  BY <2>2 DEF LinkOrDrop
<1>5. ASSUME events' = <<"STA_START">> PROVE LinkOrDrop'
  BY <1>5 DEF LinkOrDrop
<1>6. CASE GetsIp
  BY <1>6 DEF GetsIp, LinkOrDrop
<1>7. CASE Refused \/ Blip
  <2>1. \E e \in {"credential", "other"} : events' = Append(events, e)
    BY <1>7 DEF Refused, Blip
  <2>. QED  BY <1>3, <2>1
<1>8. CASE RouterGoes \/ ImprovLeaves
  <2>1. \/ events' = Append(events, "other")
        \/ events' = events /\ driver # "linked"
    BY <1>8 DEF RouterGoes, ImprovLeaves
  <2>. QED  BY <1>2, <1>3, <2>1
<1>9. CASE StaStart \/ Disconnected \/ GotIp
  <2>1. \E e \in Event : Handles(e) /\ events' = Tail(events)
    BY <1>9 DEF StaStart, Disconnected, GotIp, Event
  <2>2. driver = "linked" => driver' = "linked"
    BY <1>9 DEF StaStart, Disconnected, GotIp, Connecting
  <2>. QED  BY <1>4, <2>1, <2>2
<1>10. CASE \/ RouterReturns \/ clear_sta_creds \/ reconnect_timer_cb \/ GraceFires \/ DropAp
            \/ task_dns_captive \/ ImprovConnects \/ ImprovReports \/ api_wifi_disconnect
            \/ \E c \in Creds : ImprovStores(c) \/ api_wifi_connect(c)
  BY <1>2, <1>10
     DEF RouterReturns, clear_sta_creds, reconnect_timer_cb, GraceFires, DropAp,
         task_dns_captive, ImprovConnects, ImprovReports, api_wifi_disconnect, ImprovStores,
         api_wifi_connect, Connecting
<1>11. CASE Reboot \/ wifi_mgr_forget_and_reboot \/ task_gpio_reset
  BY <1>5, <1>11 DEF Reboot, wifi_mgr_forget_and_reboot, task_gpio_reset, Boot
<1>. QED
  BY <1>6, <1>7, <1>8, <1>9, <1>10, <1>11 DEF Next, Driver, Hub, User

-----------------------------------------------------------------------------
(* Who gives the driver its credentials, action by action.                    *)
LEMMA StaStep == TypeOK /\ StaWanted /\ Next => StaWanted'
<1>. SUFFICES ASSUME TypeOK, StaWanted, Next PROVE StaWanted'
  OBVIOUS
<1>. USE GoodAssumption DEF StaWanted, flash, timers, wipe, link, console, bounds
<1>1. ASSUME UNCHANGED <<wifi_cfg, sta, improv, wanted, restart>> PROVE StaWanted'
  BY <1>1
<1>2. CASE Driver \/ RouterGoes \/ RouterReturns \/ StaStart \/ Disconnected \/ GotIp
  BY <1>1, <1>2 DEF Driver, GetsIp, Refused, Blip, RouterGoes, RouterReturns, StaStart,
                    Disconnected, GotIp
<1>3. CASE reconnect_timer_cb \/ GraceFires \/ DropAp \/ task_dns_captive
  BY <1>1, <1>3 DEF reconnect_timer_cb, GraceFires, DropAp, task_dns_captive
<1>4. CASE clear_sta_creds \/ ImprovLeaves \/ ImprovConnects \/ ImprovReports
  BY <1>4 DEF clear_sta_creds, ImprovLeaves, ImprovConnects, ImprovReports, ConfigureSta
<1>5. CASE (\E c \in Creds : ImprovStores(c) \/ api_wifi_connect(c)) \/ api_wifi_disconnect
  BY <1>5 DEF ImprovStores, api_wifi_connect, api_wifi_disconnect
<1>6. CASE Reboot \/ wifi_mgr_forget_and_reboot \/ task_gpio_reset
  BY <1>6 DEF Reboot, wifi_mgr_forget_and_reboot, task_gpio_reset, Boot
<1>. QED
  BY <1>2, <1>3, <1>4, <1>5, <1>6 DEF Next, Hub, User

(* Whatever ends an attempt has put the next one in hand.                     *)
LEMMA TryingStep ==
  TypeOK /\ StaWanted /\ LinkOrDrop /\ KeepsTrying /\ Next => KeepsTrying'
<1>. SUFFICES ASSUME TypeOK, StaWanted, LinkOrDrop, KeepsTrying, Next, wifi_cfg' # None
              PROVE  Trying' \/ kept'
  BY DEF KeepsTrying
<1>. USE DEF flash, timers, wipe, link, console, bounds, Trying
<1>1. events \in Seq(Event) /\ driver \in {"idle", "connecting", "linked"}
  BY DEF TypeOK
<1>2. \A e \in Event : Append(events, e) # <<>>
  BY <1>1, Posted
<1>3. CASE Driver \/ RouterGoes
  BY <1>2, <1>3 DEF Driver, GetsIp, Refused, Blip, RouterGoes, Event, KeepsTrying
<1>4. CASE StaStart \/ reconnect_timer_cb
  BY <1>4 DEF StaStart, reconnect_timer_cb, Connecting, StaWanted
<1>5. CASE Disconnected \/ clear_sta_creds
  BY <1>5 DEF Disconnected, ArmReconnect, clear_sta_creds
<1>6. CASE GotIp
  <2>1. events # <<>> /\ Head(events) = "GOT_IP" /\ events' = Tail(events) /\ driver' = driver
    BY <1>6 DEF GotIp, Handles
  <2>2. /\ Head(events) = events[1] /\ 1 \in DOMAIN events
        /\ \A j \in DOMAIN events : j # 1 => Tail(events) # <<>>
    BY <1>1, <2>1, Taken
  <2>3. driver = "linked" \/ \E j \in DOMAIN events : j > 1
    BY <2>1, <2>2 DEF LinkOrDrop
  <2>. QED  BY <2>1, <2>2, <2>3
<1>7. CASE GraceFires \/ DropAp \/ task_dns_captive \/ RouterReturns \/ ImprovReports
  BY <1>7 DEF GraceFires, DropAp, task_dns_captive, RouterReturns, ImprovReports, KeepsTrying
<1>8. CASE ImprovLeaves \/ ImprovConnects
  BY <1>8 DEF ImprovLeaves, ImprovConnects
<1>9. CASE (\E c \in Creds : ImprovStores(c) \/ api_wifi_connect(c)) \/ api_wifi_disconnect
  BY <1>9 DEF ImprovStores, api_wifi_connect, api_wifi_disconnect
<1>10. CASE Reboot \/ wifi_mgr_forget_and_reboot \/ task_gpio_reset
  BY <1>10 DEF Reboot, wifi_mgr_forget_and_reboot, task_gpio_reset, Boot
<1>. QED
  BY <1>3, <1>4, <1>5, <1>6, <1>7, <1>8, <1>9, <1>10 DEF Next, Hub, User

(* The station is being started when the model begins.                        *)
LEMMA WifiInit == Init => WifiInv
<1>. SUFFICES ASSUME Init PROVE WifiInv
  OBVIOUS
<1>1. <<"STA_START">> \in Seq(Event)
  BY DEF Event
<1>2. Flags /\ Places
  BY <1>1 DEF Init, Flags, Places
<1>3. Counters
  BY WifiAssumption DEF Init, Counters
<1>4. StaWanted /\ LinkOrDrop /\ KeepsTrying
  BY DEF Init, StaWanted, LinkOrDrop, KeepsTrying, Trying
<1>. QED  BY <1>2, <1>3, <1>4, TypeParts DEF WifiInv

(* Every step keeps the hub trying.                                           *)
LEMMA WifiStep == WifiInv /\ [Next]_vars => WifiInv'
<1>1. WifiInv /\ Next => WifiInv'
  BY WifiTypes, LinkStep, StaStep, TryingStep DEF WifiInv
<1>2. WifiInv /\ UNCHANGED vars => WifiInv'
  BY DEF WifiInv, vars, flash, timers, wipe, link, console, bounds, TypeOK, StaWanted, LinkOrDrop,
         KeepsTrying, Trying
<1>. QED  BY <1>1, <1>2

(* The invariant of the station: a hub that has credentials is at every       *)
(* moment trying, whatever posts, timers, requests and failing writes come in *)
(* between, unless it gave them up and could not erase them.                  *)
THEOREM WifiInvariant == Spec => []WifiInv
  BY WifiInit, WifiStep, PTL DEF Spec

(* Every variable keeps its type; in particular no event is posted that the   *)
(* handler does not know, and what the driver is given is a network.          *)
THEOREM WifiTypesHold == Spec => []TypeOK
<1>1. WifiInv => TypeOK
  BY DEF WifiInv
<1>. QED  BY <1>1, WifiInvariant, PTL

(* A hub with credentials is never left with neither an access point nor a    *)
(* link nor an attempt to come, however often the router goes away, whichever *)
(* writes to flash fail and whoever ends the access point meanwhile, but      *)
(* after the one failure the code does not notice: credentials given up that  *)
(* could not be erased (wifi_event_handler, clear_sta_creds, ap_grace_cb,     *)
(* improv_apply_sta).                                                         *)
THEOREM NobodyIsStranded == Spec => []NeverStranded
<1>1. WifiInv => NeverStranded
  BY DEF WifiInv, KeepsTrying, NeverStranded
<1>. QED  BY <1>1, WifiInvariant, PTL

(***************************************************************************)
(* AlertLog.                                                               *)
(***************************************************************************)
N == ALERT_LOG_MAX
Cells == 0..(N - 1)

(* The i-th entry an image of the ring lists.                                 *)
Entry(im, i) == im.log[((IF im.count < N THEN 0 ELSE im.head) + i - 1) % N]

(* An image, of the ring in memory, in the copy or in the file: it lists      *)
(* alerts in ascending order, and one that is not full starts at 0.           *)
ImageType(im) ==
  /\ im.log \in [Cells -> Nat] /\ im.head \in Cells /\ im.count \in 0..N
  /\ im.count < N => im.head = im.count
Ascending(im) ==
  \A i, j \in 1..im.count : j < i => Entry(im, j) < Entry(im, i)
Arrived(im, top) ==
  \A i \in 1..im.count : 0 < Entry(im, i) /\ Entry(im, i) <= top
ImageOK(im, top) == ImageType(im) /\ Ascending(im) /\ Arrived(im, top)

(* The newest entries are those that arrived since the start.                 *)
Newest ==
  LET new == A!Fewer(alerts - booted, N) IN
    /\ new <= s_alert_log_count
    /\ \A k \in 0..(new - 1) : Entry(A!Image, s_alert_log_count - k) = alerts - k

AlertInv ==
  /\ alerts \in Nat /\ booted \in 0..alerts
  /\ ImageOK(A!Image, alerts) /\ ImageOK(snap, alerts)
  /\ \A im \in file : ImageOK(im, alerts)
  /\ Newest

(* The ring has a place.                                                      *)
LEMMA RingSize == N \in Nat \ {0}
  BY AlertConstants DEF N, A!RingAssumption

(* Once around the ring is where one started.                                 *)
LEMMA Around ==
  ASSUME NEW h \in Cells, NEW i \in 1..N
  PROVE  /\ (h + 1) % N \in Cells
         /\ (((h + 1) % N) + i - 1) % N = (h + i) % N
         /\ (h + i) % N \in Cells
         /\ (h + i) % N = h <=> i = N
         /\ (0 + i - 1) % N = i - 1
<1>1. N \in Nat \ {0} /\ h \in 0..(N - 1)
  BY RingSize DEF Cells
<1>2. \A a \in 0..(N - 1) : a % N = a
  BY <1>1
<1>3. \A a \in N..(N + N - 1) : a % N = a - N
  BY <1>1
<1>4. CASE h + 1 < N
  BY <1>1, <1>2, <1>3, <1>4 DEF Cells
<1>5. CASE h + 1 = N
  BY <1>1, <1>2, <1>3, <1>5 DEF Cells
<1>. QED  BY <1>1, <1>4, <1>5

(* An alert is listed last; what was listed before it stays or moves up.      *)
LEMMA AlertShifts ==
  ASSUME AlertInv, A!Alert
  PROVE  /\ ImageType(A!Image)'
         /\ s_alert_log_count' \in 1..N /\ s_alert_log_count \in 0..N
         /\ Entry(A!Image, s_alert_log_count)' = alerts'
         /\ \A i \in 1..(s_alert_log_count' - 1) :
              Entry(A!Image', i) = Entry(A!Image, i + (s_alert_log_count - (s_alert_log_count' - 1)))
         /\ s_alert_log_count' = IF s_alert_log_count < N THEN s_alert_log_count + 1 ELSE N
<1>. DEFINE h == s_alert_log_head
            c == s_alert_log_count
            log == s_alert_log
<1>1. /\ log \in [Cells -> Nat] /\ h \in Cells /\ c \in 0..N
      /\ c < N => h = c
      /\ alerts \in Nat
  BY DEF AlertInv, ImageOK, ImageType, A!Image
<1>2. /\ log' = [log EXCEPT ![h] = alerts'] /\ h' = (h + 1) % N
      /\ c' = IF c < N THEN c + 1 ELSE c
      /\ alerts' = alerts + 1
  BY DEF A!Alert, N
<1>3. N \in Nat \ {0} /\ Cells = 0..(N - 1)
  BY RingSize DEF Cells
<1>4. c' \in 1..N /\ c' = IF c < N THEN c + 1 ELSE N
  BY <1>1, <1>2, <1>3
<1>5. /\ A!Image = [log |-> log, head |-> h, count |-> c]
      /\ A!Image' = [log |-> log', head |-> h', count |-> c']
  BY DEF A!Image
<1>6. /\ \A i : Entry(A!Image, i) = log[((IF c < N THEN 0 ELSE h) + i - 1) % N]
      /\ \A i : Entry(A!Image', i) = log'[((IF c' < N THEN 0 ELSE h') + i - 1) % N]
  BY <1>5 DEF Entry
<1>7. h' \in Cells
  BY <1>1, <1>2, <1>3, Around
<1>a. \A i \in 1..N : (0 + i - 1) % N = i - 1
  BY <1>1, Around
<1>c. N % N = 0 /\ \A x \in 0..(N - 1) : x % N = x
  BY <1>3
<1>b. log' \in [Cells -> Nat] /\ log'[h] = alerts'
      /\ \A i \in Cells : i # h => log'[i] = log[i]
  BY <1>1, <1>2
<1>8. CASE c < N
  <2>1. h = c /\ c' = c + 1
    BY <1>1, <1>2, <1>8
  <2>2. c' < N => h' = c'
    BY <1>1, <1>2, <1>3, <1>c, <2>1
  <2>3. c' = N => h' = 0
    BY <1>1, <1>2, <1>c, <2>1
  <2>4. (IF c' < N THEN 0 ELSE h') = 0 /\ (IF c < N THEN 0 ELSE h) = 0
    BY <1>3, <1>4, <1>8, <2>3
  <2>5. \A i \in 1..N : Entry(A!Image', i) = log'[i - 1] /\ Entry(A!Image, i) = log[i - 1]
    BY <1>6, <1>a, <2>4
  <2>6. \A i \in 1..c : i \in 1..N /\ i - 1 \in Cells /\ i - 1 # h
    BY <1>1, <1>3, <1>8, <2>1
  <2>7. \A i \in 1..c : Entry(A!Image', i) = Entry(A!Image, i)
    BY <1>b, <2>5, <2>6
  <2>8. Entry(A!Image', c') = alerts'
    BY <1>1, <1>3, <1>4, <1>b, <2>1, <2>5
  <2>9. ImageType(A!Image)'
    BY <1>3, <1>4, <1>5, <1>7, <1>b, <2>2 DEF ImageType
  <2>10. c' - 1 = c /\ \A i \in 1..c : i + (c - c) = i
    BY <1>1, <2>1
  <2>. QED  BY <1>1, <1>4, <2>7, <2>8, <2>9, <2>10
<1>9. CASE c = N
  <2>1. c' = N /\ (IF c' < N THEN 0 ELSE h') = h' /\ (IF c < N THEN 0 ELSE h) = h
    BY <1>2, <1>3, <1>9
  <2>2. \A i \in 1..N : (h + i) % N \in Cells /\ ((h + i) % N = h <=> i = N)
                        /\ (h' + i - 1) % N = (h + i) % N
    BY <1>1, <1>2, Around
  <2>3. \A i \in 1..N : Entry(A!Image', i) = log'[(h + i) % N]
    BY <1>6, <2>1, <2>2
  <2>4. \A i \in 1..(N - 1) : Entry(A!Image, i + 1) = log[(h + i) % N]
    <3>1. \A i \in 1..(N - 1) : h + (i + 1) - 1 = h + i
      BY <1>1, <1>3
    <3>. QED  BY <1>6, <2>1, <3>1
  <2>5. \A i \in 1..(N - 1) : i \in 1..N /\ i # N /\ i + (N - (N - 1)) = i + 1
    BY <1>3
  <2>6. \A i \in 1..(N - 1) : Entry(A!Image', i) = Entry(A!Image, i + 1)
    BY <1>b, <2>2, <2>3, <2>4, <2>5
  <2>7. N \in 1..N /\ Entry(A!Image', N) = alerts'
    BY <1>3, <1>b, <2>2, <2>3
  <2>8. ImageType(A!Image)'
    BY <1>3, <1>4, <1>5, <1>7, <1>b, <2>1 DEF ImageType
  <2>. QED  BY <1>1, <1>4, <1>9, <2>1, <2>5, <2>6, <2>7, <2>8
<1>. QED  BY <1>1, <1>3, <1>8, <1>9

(* What is listed from a ring with the right types is a number.               *)
LEMMA EntryType ==
  ASSUME NEW im, ImageType(im), NEW i \in 1..im.count
  PROVE  Entry(im, i) \in Nat
<1>1. N \in Nat \ {0} /\ Cells = 0..(N - 1)
  BY RingSize DEF Cells
<1>2. im.log \in [Cells -> Nat] /\ im.head \in Cells /\ i \in Nat \ {0}
  BY <1>1 DEF ImageType
<1>. DEFINE a == (IF im.count < N THEN 0 ELSE im.head) + i - 1
<1>3. a \in Nat
  BY <1>1, <1>2
<1>. HIDE DEF a
<1>4. a % N \in Cells
  BY <1>1, <1>3
<1>. QED  BY <1>2, <1>4 DEF Entry, a

(* The image of the ring after an alert, and what is newest in it.            *)
LEMMA AlertKeeps == AlertInv /\ A!Alert => AlertInv'
<1>. SUFFICES ASSUME AlertInv, A!Alert PROVE AlertInv'
  OBVIOUS
<1>. DEFINE c == s_alert_log_count
            E(i) == Entry(A!Image, i)
            F(i) == Entry(A!Image', i)
<1>1. /\ ImageType(A!Image)' /\ c' \in 1..N /\ c \in 0..N /\ F(c') = alerts'
      /\ \A i \in 1..(c' - 1) : F(i) = E(i + (c - (c' - 1)))
      /\ c' = IF c < N THEN c + 1 ELSE N
  BY AlertShifts
<1>2. /\ alerts' = alerts + 1 /\ alerts \in Nat /\ booted \in 0..alerts
      /\ UNCHANGED <<snap, file, booted>>
  BY DEF A!Alert, AlertInv
<1>3. N \in Nat \ {0}
  BY RingSize
<1>4. A!Image.count = c /\ A!Image'.count = c'
  BY DEF A!Image
<1>5. /\ \A i, j \in 1..c : j < i => E(j) < E(i)
      /\ \A i \in 1..c : 0 < E(i) /\ E(i) <= alerts
  BY <1>4 DEF AlertInv, ImageOK, Ascending, Arrived
<1>. DEFINE d == c - (c' - 1)
<1>6. /\ d \in {0, 1} /\ c' - 1 \in Nat
      /\ \A i \in 1..c' : i # c' => i \in 1..(c' - 1)
      /\ \A i \in 1..(c' - 1) : i + d \in 1..c
  BY <1>1, <1>3
<1>7. \A i \in 1..(c' - 1) : i + d \in 1..c /\ F(i) = E(i + d)
  BY <1>1, <1>6
<1>8. Arrived(A!Image', alerts')
  <2>1. ASSUME NEW i \in 1..c' PROVE 0 < F(i) /\ F(i) <= alerts'
    <3>1. CASE i = c'
      BY <1>1, <1>2, <3>1
    <3>2. CASE i # c'
      <4>1. i + d \in 1..c /\ F(i) = E(i + d)
        BY <1>6, <1>7, <3>2
      <4>2. E(i + d) \in Nat
        BY <1>4, <4>1, EntryType DEF AlertInv, ImageOK
      <4>. QED  BY <1>2, <1>5, <4>1, <4>2
    <3>. QED  BY <3>1, <3>2
  <2>. QED  BY <1>4, <2>1 DEF Arrived
<1>9. Ascending(A!Image')
  <2>1. ASSUME NEW i \in 1..c', NEW j \in 1..c', j < i PROVE F(j) < F(i)
    <3>1. j \in 1..(c' - 1) /\ j + d \in 1..c /\ F(j) = E(j + d)
      BY <1>1, <1>6, <1>7, <2>1
    <3>2. CASE i = c'
      <4>1. E(j + d) \in Nat
        BY <1>4, <3>1, EntryType DEF AlertInv, ImageOK
      <4>. QED  BY <1>1, <1>2, <1>5, <3>1, <3>2, <4>1
    <3>3. CASE i # c'
      <4>1. i + d \in 1..c /\ F(i) = E(i + d)
        BY <1>6, <1>7, <3>3
      <4>2. j + d < i + d
        BY <1>6, <2>1
      <4>. QED  BY <1>5, <3>1, <4>1, <4>2
    <3>. QED  BY <3>2, <3>3
  <2>. QED  BY <1>4, <2>1 DEF Ascending
<1>10. ASSUME NEW im, ImageOK(im, alerts) PROVE ImageOK(im, alerts')
  <2>1. \A i \in 1..im.count : Entry(im, i) \in Nat
    BY <1>10, EntryType DEF ImageOK
  <2>. QED  BY <1>2, <1>10, <2>1 DEF ImageOK, Arrived
<1>11. Newest'
  <2>. DEFINE new == A!Fewer(alerts - booted, N)
  <2>1. new \in Nat /\ new <= c /\ \A k \in 0..(new - 1) : E(c - k) = alerts - k
    BY <1>2, <1>3 DEF AlertInv, Newest, A!Fewer
  <2>2. new' \in Nat /\ new' <= new + 1 /\ new' <= c'
    BY <1>1, <1>2, <1>3, <2>1 DEF A!Fewer
  <2>3. ASSUME NEW k \in 0..(new' - 1) PROVE F(c' - k) = alerts' - k
    <3>1. CASE k = 0
      BY <1>1, <1>2, <3>1
    <3>2. CASE k # 0
      <4>1. k - 1 \in 0..(new - 1) /\ c' - k \in 1..(c' - 1) /\ (c' - k) + d = c - (k - 1)
        BY <1>1, <2>1, <2>2, <2>3, <3>2
      <4>2. F(c' - k) = E(c - (k - 1)) /\ E(c - (k - 1)) = alerts - (k - 1)
        BY <1>7, <2>1, <4>1
      <4>. QED  BY <1>2, <4>1, <4>2
    <3>. QED  BY <3>1, <3>2
  <2>. QED  BY <2>2, <2>3 DEF Newest
<1>. QED  BY <1>1, <1>2, <1>8, <1>9, <1>10 , <1>11 DEF AlertInv, ImageOK

(* An empty ring is in order.                                                 *)
LEMMA EmptyRing == ImageOK(A!Empty, 0) /\ A!Empty.count = 0
<1>1. N \in Nat \ {0} /\ Cells = A!Entries
  BY RingSize DEF Cells, A!Entries, N
<1>. QED
  BY <1>1 DEF A!Empty, ImageOK, ImageType, Ascending, Arrived, Cells

(* The log starts empty, in RAM and in the file.                              *)
LEMMA AlertInit == A!Init => AlertInv
<1>. SUFFICES ASSUME A!Init PROVE AlertInv
  OBVIOUS
<1>1. A!Image = A!Empty /\ snap = A!Empty /\ file = {} /\ alerts = 0 /\ booted = 0
      /\ s_alert_log_count = 0
  BY DEF A!Init, A!Image, A!Empty
<1>2. Newest
  BY <1>1, RingSize DEF Newest, A!Fewer
<1>. QED  BY <1>1, <1>2, EmptyRing DEF AlertInv

(* Every step keeps ring, image and file.                                     *)
LEMMA AlertStep == AlertInv /\ [A!Next]_A!vars => AlertInv'
<1>. SUFFICES ASSUME AlertInv, [A!Next]_A!vars PROVE AlertInv'
  OBVIOUS
<1>. USE DEF A!ring, A!task
<1>1. ASSUME UNCHANGED <<s_alert_log, s_alert_log_head, s_alert_log_count, alerts, booted>>,
             ImageOK(snap', alerts), \A im \in file' : ImageOK(im, alerts)
      PROVE  AlertInv'
  <2>1. A!Image' = A!Image
    BY <1>1 DEF A!Image
  <2>2. Newest'
    BY <1>1, <2>1 DEF AlertInv, Newest, A!Fewer
  <2>. QED  BY <1>1, <2>1, <2>2 DEF AlertInv
<1>2. CASE A!Alert
  BY <1>2, AlertKeeps
<1>3. CASE A!Snapshot
  BY <1>1, <1>3 DEF A!Snapshot, AlertInv
<1>4. CASE A!Open \/ A!OpenFails \/ A!Write \/ A!WriteFails
  BY <1>1, <1>4 DEF A!Open, A!OpenFails, A!Write, A!WriteFails, AlertInv
<1>5. CASE A!Restart
  <2>1. ImageOK(A!Loaded, alerts)
    <3>1. ImageOK(A!Empty, alerts)
      BY EmptyRing DEF ImageOK, Arrived
    <3>2. file # {} => A!Loaded \in file
      BY DEF A!Loaded
    <3>3. file = {} => A!Loaded = A!Empty
      BY DEF A!Loaded
    <3>. QED  BY <3>1, <3>2, <3>3 DEF AlertInv
  <2>2. /\ s_alert_log' = A!Loaded.log /\ s_alert_log_head' = A!Loaded.head
        /\ s_alert_log_count' = A!Loaded.count
        /\ snap' = A!Empty /\ booted' = alerts /\ UNCHANGED <<alerts, file>>
    BY <1>5 DEF A!Restart, A!alert_log_load
  <2>3. ImageOK(A!Image', alerts)
    <3>1. /\ A!Image'.log = A!Loaded.log /\ A!Image'.head = A!Loaded.head
          /\ A!Image'.count = A!Loaded.count
      BY <2>2 DEF A!Image
    <3>2. \A i : Entry(A!Image', i) = Entry(A!Loaded, i)
      BY <3>1 DEF Entry
    <3>. QED  BY <2>1, <3>1, <3>2 DEF ImageOK, ImageType, Ascending, Arrived
  <2>4. ImageOK(A!Empty, alerts)
    BY EmptyRing DEF ImageOK, Arrived
  <2>5. Newest'
    <3>1. A!Fewer(alerts - alerts, N) = 0
      BY RingSize DEF AlertInv, A!Fewer
    <3>2. s_alert_log_count' \in Nat
      BY <2>1, <2>2, RingSize DEF ImageOK, ImageType
    <3>. QED  BY <2>2, <3>1, <3>2 DEF Newest, A!Fewer
  <2>. QED  BY <2>2, <2>3, <2>4, <2>5 DEF AlertInv
<1>6. CASE UNCHANGED A!vars
  BY <1>1, <1>6 DEF A!vars, AlertInv
<1>. QED
  BY <1>2, <1>3, <1>4, <1>5, <1>6 DEF A!Next

(* The ring, the copy of it and the file are each in order at any moment, and *)
(* the newest entries of the ring are the alerts since the start.             *)
THEOREM AlertInvariant == A!Spec => []AlertInv
  BY AlertInit, AlertStep, PTL DEF A!Spec

(* alerts.get lists the alerts in the order of their arrival, and of those    *)
(* since the start each one that fits the reply after the older ones, through *)
(* any number of restarts, files cut short and turns of the ring (on_frame,   *)
(* alert_log_load, api_alerts_get), for texts and a reply of any length.      *)
THEOREM AlertsAreListed == A!Spec => []ListedInOrder
<1>1. AlertInv => ListedInOrder
  <2>. SUFFICES ASSUME AlertInv PROVE ListedInOrder
    OBVIOUS
  <2>. DEFINE c == s_alert_log_count
  <2>1. c \in 0..N /\ A!Image.count = c /\ N \in Nat
    BY RingSize DEF AlertInv, ImageOK, ImageType, A!Image
  <2>2. A!Listed \subseteq 1..c /\ \A i : A!Entry(i) = Entry(A!Image, i)
    BY DEF A!Listed, A!Entry, A!Oldest, A!Image, Entry, N
  <2>3. \A i \in A!Listed : 0 < A!Entry(i)
    BY <2>1, <2>2 DEF AlertInv, ImageOK, Arrived
  <2>4. \A i, j \in A!Listed : j < i => A!Entry(j) < A!Entry(i)
    BY <2>1, <2>2 DEF AlertInv, ImageOK, Ascending
  <2>. DEFINE new == A!Fewer(alerts - booted, ALERT_LOG_MAX)
  <2>5. /\ new \in Nat /\ new <= c
        /\ \A k \in 0..(new - 1) : Entry(A!Image, c - k) = alerts - k
    BY <2>1 DEF AlertInv, Newest, A!Fewer, N
  <2>6. ASSUME NEW k \in 0..(new - 1)
        PROVE  /\ A!Entry(c - k) = alerts - k
               /\ A!Fits(c - k, alerts - k) => c - k \in A!Listed
    <3>1. c - k \in 1..c /\ A!Entry(c - k) = alerts - k
      BY <2>1, <2>2, <2>5
    <3>. QED  BY <3>1 DEF A!Listed
  <2>. QED  BY <2>3, <2>4, <2>5, <2>6 DEF ListedInOrder, A!ListedInOrder
<1>. QED  BY <1>1, AlertInvariant, PTL

=============================================================================
