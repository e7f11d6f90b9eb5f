------------------------------ MODULE WifiMgr ------------------------------
(***************************************************************************)
(* The station and the provisioning access point (main/wifi_mgr.cpp): the  *)
(* handler of the esp_event task, the two timers of the esp_timer task,    *)
(* Improv on the serial console, and the API calls that store or forget    *)
(* the credentials and restart the hub.                                    *)
(*                                                                         *)
(* External: the driver (esp_wifi_connect, esp_wifi_disconnect, and the    *)
(* events it posts) and the router.                                        *)
(***************************************************************************)
EXTENDS Naturals, Sequences

CONSTANTS
  Creds,            \* a network name with its password
  Good,             \* those the router accepts
  None,
  MAX_STA_RETRIES,
  MaxWishes,        \* bound: things a user asks for
  MaxOutages,       \* bound: times the router goes away
  MaxBlips,         \* bound: handshakes that fail with the right password
  MaxFaults         \* bound: writes and erasures of wifi_cfg that fail

ASSUME GoodAssumption == Good \subseteq Creds /\ None \notin Creds
ASSUME WifiAssumption ==
  /\ MAX_STA_RETRIES \in Nat
  /\ MaxWishes \in Nat /\ MaxOutages \in Nat /\ MaxBlips \in Nat
  /\ MaxFaults \in Nat

VARIABLES
  wifi_cfg,          \* the credentials in flash
  ap_disabled,       \* sys_cfg "ap_disabled"
  s_ap_mode,         \* the access point is on
  s_wifi_connected,
  s_retry_count,
  s_reconnect_timer, \* running
  s_ap_grace_timer,  \* "off", "running", or "firing": its callback has read the flags
  wiping,            \* the handler is in clear_sta_creds
  kept,              \* history: it could not erase, and nothing was tried since
  s_dns_started,
  sta,               \* what configure_sta gave the driver
  driver,            \* "idle", "connecting" or "linked"
  events,            \* posted, not yet handled
  improv,            \* where task_improv is
  wanted,            \* the credentials it was given
  restart,           \* a restart under way: "no", "reboot" or "forget"
  router,            \* it is there
  wishes, outages, blips, faults

flash == <<wifi_cfg, ap_disabled>>
timers == <<s_reconnect_timer, s_ap_grace_timer>>
wipe == <<wiping, kept>>
link == <<sta, driver, events>>
console == <<improv, wanted>>
bounds == <<router, wishes, outages, blips, faults>>
vars == <<flash, s_ap_mode, s_wifi_connected, s_retry_count, timers, wipe,
          s_dns_started, link, console, restart, bounds>>

(* "credential" stands for AUTH_FAIL and HANDSHAKE_TIMEOUT, "other" for the   *)
(* rest of the reasons.                                                       *)
Event == {"STA_START", "GOT_IP", "credential", "other"}

TypeOK ==
  /\ wifi_cfg \in Creds \cup {None} /\ ap_disabled \in BOOLEAN
  /\ s_ap_mode \in BOOLEAN /\ s_wifi_connected \in BOOLEAN
  /\ s_retry_count \in 0..(MAX_STA_RETRIES + 1)
  /\ s_reconnect_timer \in BOOLEAN
  /\ s_ap_grace_timer \in {"off", "running", "firing"}
  /\ wiping \in BOOLEAN /\ kept \in BOOLEAN /\ s_dns_started \in BOOLEAN
  /\ sta \in Creds \cup {None} /\ driver \in {"idle", "connecting", "linked"}
  /\ events \in Seq(Event)
  /\ improv \in {"ready", "stored", "left", "pending"} /\ wanted \in Creds \cup {None}
  /\ restart \in {"no", "reboot", "forget"}
  /\ router \in BOOLEAN /\ wishes \in 0..MaxWishes
  /\ outages \in 0..MaxOutages /\ blips \in 0..MaxBlips /\ faults \in 0..MaxFaults

(* wifi_mgr_init with cfg in flash: start_sta_mode, or start_ap_mode without  *)
(* credentials; both bring the access point up.                               *)
Boot(cfg) ==
  /\ wifi_cfg' = cfg
  /\ s_ap_mode' = TRUE /\ s_wifi_connected' = FALSE /\ s_retry_count' = 0
  /\ s_reconnect_timer' = FALSE /\ s_ap_grace_timer' = "off" /\ wiping' = FALSE
  /\ kept' = FALSE /\ s_dns_started' = TRUE
  /\ sta' = cfg /\ driver' = "idle" /\ events' = <<"STA_START">>
  /\ improv' = "ready" /\ wanted' = None /\ restart' = "no"

Init ==
  /\ wifi_cfg \in Creds \cup {None} /\ ap_disabled \in BOOLEAN
  /\ s_ap_mode = TRUE /\ s_wifi_connected = FALSE /\ s_retry_count = 0
  /\ s_reconnect_timer = FALSE /\ s_ap_grace_timer = "off" /\ wiping = FALSE
  /\ kept = FALSE /\ s_dns_started = TRUE
  /\ sta = wifi_cfg /\ driver = "idle" /\ events = <<"STA_START">>
  /\ improv = "ready" /\ wanted = None /\ restart = "no"
  /\ router = TRUE /\ wishes = 0 /\ outages = 0 /\ blips = 0 /\ faults = 0

---------------------------------------------------------------------------
(* wifi_cfg in NVS.  Its open, its writes and its commit may fail, and nobody *)
(* asks: what was stored stays, or only a part of a new pair gets there.      *)

Faulty == faults < MaxFaults /\ faults' = faults + 1

Erases(cfg) ==
  \/ cfg = None /\ UNCHANGED faults
  \/ cfg = wifi_cfg /\ Faulty

Stores(c) ==
  \/ wifi_cfg' = c /\ UNCHANGED faults
  \/ wifi_cfg' \in Creds \cup {wifi_cfg} /\ Faulty

---------------------------------------------------------------------------
(* The driver.                                                                *)

Connecting == IF driver = "idle" /\ sta # None THEN "connecting" ELSE driver

Accepts == driver = "connecting" /\ router /\ sta \in Good
GetsIp ==
  /\ Accepts
  /\ driver' = "linked" /\ events' = Append(events, "GOT_IP")
  /\ UNCHANGED <<flash, s_ap_mode, s_wifi_connected, s_retry_count, timers, wipe,
                 s_dns_started, sta, console, restart, bounds>>

Refused ==
  /\ driver = "connecting" /\ ~ Accepts
  /\ driver' = "idle"
  /\ events' = Append(events, IF router THEN "credential" ELSE "other")
  /\ UNCHANGED <<flash, s_ap_mode, s_wifi_connected, s_retry_count, timers, wipe,
                 s_dns_started, sta, console, restart, bounds>>

Blip ==
  /\ Accepts /\ blips < MaxBlips
  /\ blips' = blips + 1
  /\ driver' = "idle"
  /\ \E reason \in {"credential", "other"} : events' = Append(events, reason)
  /\ UNCHANGED <<flash, s_ap_mode, s_wifi_connected, s_retry_count, timers, wipe,
                 s_dns_started, sta, console, restart, router, wishes, outages, faults>>

RouterGoes ==
  /\ router /\ outages < MaxOutages
  /\ router' = FALSE /\ outages' = outages + 1
  /\ driver' = IF driver = "linked" THEN "idle" ELSE driver
  /\ events' = IF driver = "linked" THEN Append(events, "other") ELSE events
  /\ UNCHANGED <<flash, s_ap_mode, s_wifi_connected, s_retry_count, timers, wipe,
                 s_dns_started, sta, console, restart, wishes, blips, faults>>

RouterReturns ==
  /\ ~ router
  /\ router' = TRUE
  /\ UNCHANGED <<flash, s_ap_mode, s_wifi_connected, s_retry_count, timers, wipe,
                 s_dns_started, link, console, restart, wishes, outages, blips, faults>>

---------------------------------------------------------------------------
(* wifi_event_handler, on the esp_event task.                                 *)

Handles(event) == ~ wiping /\ events # <<>> /\ Head(events) = event

StaStart ==
  /\ Handles("STA_START")
  /\ events' = Tail(events)
  /\ driver' = Connecting
  /\ UNCHANGED <<flash, s_ap_mode, s_wifi_connected, s_retry_count, timers, wipe,
                 s_dns_started, sta, console, restart, bounds>>

(* The callback of the grace timer may be past its test when it is stopped.   *)
StopGrace == s_ap_grace_timer' = IF s_ap_grace_timer = "running" THEN "off" ELSE s_ap_grace_timer

ArmReconnect == s_reconnect_timer' = TRUE

(* A credential error after too many failures of any kind: no new attempt.    *)
GivesUp(reason, retry) == reason = "credential" /\ retry > MAX_STA_RETRIES
GivesUpAtOnce(reason, retry) == reason = "credential"

(* Mutant: every credential error is final, but only the last one wipes.      *)
DisconnectedOnce ==
  \E reason \in {"credential", "other"} :
    /\ Handles(reason)
    /\ events' = Tail(events)
    /\ s_wifi_connected' = FALSE
    /\ StopGrace
    /\ s_retry_count' = IF s_retry_count > MAX_STA_RETRIES THEN s_retry_count
                                                         ELSE s_retry_count + 1
    /\ wiping' = GivesUp(reason, s_retry_count')
    /\ s_reconnect_timer' = ~ GivesUpAtOnce(reason, s_retry_count')
    /\ kept' = FALSE
    /\ UNCHANGED <<flash, s_ap_mode, s_dns_started, sta, driver, console, restart, bounds>>

(* The count is capped one above the threshold: above it all values are alike.*)
Disconnected ==
  \E reason \in {"credential", "other"} :
    /\ Handles(reason)
    /\ events' = Tail(events)
    /\ s_wifi_connected' = FALSE
    /\ StopGrace
    /\ s_retry_count' = IF s_retry_count > MAX_STA_RETRIES THEN s_retry_count
                                                         ELSE s_retry_count + 1
    /\ IF GivesUp(reason, s_retry_count')
         THEN wiping' = TRUE /\ UNCHANGED <<s_reconnect_timer, kept>>
         ELSE ArmReconnect /\ kept' = FALSE /\ UNCHANGED wiping
    /\ UNCHANGED <<flash, s_ap_mode, s_dns_started, sta, driver, console, restart, bounds>>

(* It may leave the credentials: the results of the NVS calls are not used.   *)
clear_sta_creds ==
  /\ wiping
  /\ wiping' = FALSE
  /\ \E cfg \in {None, wifi_cfg} : Erases(cfg) /\ wifi_cfg' = cfg /\ kept' = (cfg # None)
  /\ UNCHANGED <<ap_disabled, s_ap_mode, s_wifi_connected, s_retry_count, timers,
                 s_dns_started, link, console, restart, router, wishes, outages, blips>>

ArmGrace == s_ap_grace_timer' = "running"

GotIp ==
  /\ Handles("GOT_IP")
  /\ events' = Tail(events)
  /\ s_retry_count' = 0
  /\ s_reconnect_timer' = FALSE
  /\ s_wifi_connected' = TRUE
  /\ s_ap_mode' = (s_ap_mode /\ ~ ap_disabled)
  /\ IF s_ap_mode' THEN ArmGrace ELSE UNCHANGED s_ap_grace_timer
  /\ UNCHANGED <<flash, wipe, s_dns_started, sta, driver, console, restart, bounds>>

---------------------------------------------------------------------------
(* The callbacks on the esp_timer task, and the DNS task of the portal.       *)

reconnect_timer_cb ==
  /\ s_reconnect_timer
  /\ s_reconnect_timer' = FALSE
  /\ driver' = Connecting
  /\ UNCHANGED <<flash, s_ap_mode, s_wifi_connected, s_retry_count, s_ap_grace_timer,
                 wipe, s_dns_started, sta, events, console, restart, bounds>>

GraceFires ==
  /\ s_ap_grace_timer = "running"
  /\ s_ap_grace_timer' = IF s_wifi_connected /\ s_ap_mode THEN "firing" ELSE "off"
  /\ UNCHANGED <<flash, s_ap_mode, s_wifi_connected, s_retry_count, s_reconnect_timer,
                 wipe, s_dns_started, link, console, restart, bounds>>

DropAp ==
  /\ s_ap_grace_timer = "firing"
  /\ s_ap_grace_timer' = "off"
  /\ s_ap_mode' = FALSE
  /\ UNCHANGED <<flash, s_wifi_connected, s_retry_count, s_reconnect_timer, wipe,
                 s_dns_started, link, console, restart, bounds>>

task_dns_captive ==
  /\ s_dns_started /\ ~ s_ap_mode
  /\ s_dns_started' = FALSE
  /\ UNCHANGED <<flash, s_ap_mode, s_wifi_connected, s_retry_count, timers, wipe,
                 link, console, restart, bounds>>

---------------------------------------------------------------------------
(* task_improv: improv_apply_sta in three steps, then the wait for the        *)
(* outcome.  A new request may replace the one it waits for.                  *)

ImprovStores(c) ==
  /\ improv \in {"ready", "pending"} /\ wishes < MaxWishes
  /\ wishes' = wishes + 1
  /\ improv' = "stored" /\ wanted' = c
  /\ Stores(c) /\ kept' = FALSE
  /\ s_wifi_connected' = FALSE /\ s_retry_count' = 0 /\ s_reconnect_timer' = FALSE
  /\ UNCHANGED <<ap_disabled, s_ap_mode, s_ap_grace_timer, wiping, s_dns_started, link,
                 restart, router, outages, blips>>

ImprovLeaves ==
  /\ improv = "stored"
  /\ improv' = "left"
  /\ driver' = "idle"
  /\ events' = IF driver = "idle" THEN events ELSE Append(events, "other")
  /\ UNCHANGED <<flash, s_ap_mode, s_wifi_connected, s_retry_count, timers, wipe,
                 s_dns_started, sta, wanted, restart, bounds>>

(* Mutant: leaves the attempt to the reconnect timer it has stopped.          *)
ImprovConfigures ==
  /\ improv = "left"
  /\ improv' = "pending"
  /\ sta' = wanted
  /\ UNCHANGED <<flash, s_ap_mode, s_wifi_connected, s_retry_count, timers, wipe,
                 s_dns_started, driver, events, wanted, restart, bounds>>

ConfigureSta(c) == sta' = c

ImprovConnects ==
  /\ improv = "left"
  /\ improv' = "pending"
  /\ ConfigureSta(wanted)
  /\ driver' = IF driver = "idle" THEN "connecting" ELSE driver
  /\ UNCHANGED <<flash, s_ap_mode, s_wifi_connected, s_retry_count, timers, wipe,
                 s_dns_started, events, wanted, restart, bounds>>

(* PROVISIONED once the flag is up, an error when the deadline has passed.    *)
ImprovReports ==
  /\ improv = "pending"
  /\ improv' = "ready" /\ wanted' = None
  /\ UNCHANGED <<flash, s_ap_mode, s_wifi_connected, s_retry_count, timers, wipe,
                 s_dns_started, link, restart, bounds>>

---------------------------------------------------------------------------
(* The API reaches the hub through its access point or over the link.         *)
Reachable == s_ap_mode \/ driver = "linked"

api_wifi_connect(c) ==
  /\ Reachable /\ wishes < MaxWishes
  /\ wishes' = wishes + 1
  /\ Stores(c)
  /\ restart' = IF restart = "no" THEN "reboot" ELSE restart
  /\ UNCHANGED <<ap_disabled, s_ap_mode, s_wifi_connected, s_retry_count, timers, wipe,
                 s_dns_started, link, console, router, outages, blips>>

api_wifi_disconnect ==
  /\ Reachable /\ wishes < MaxWishes
  /\ wishes' = wishes + 1
  /\ restart' = "forget"
  /\ UNCHANGED <<flash, s_ap_mode, s_wifi_connected, s_retry_count, timers, wipe,
                 s_dns_started, link, console, router, outages, blips, faults>>

Reboot ==
  /\ restart = "reboot"
  /\ Boot(wifi_cfg)
  /\ UNCHANGED <<ap_disabled, bounds>>

wifi_mgr_forget_and_reboot ==
  /\ restart = "forget"
  /\ \E cfg \in {None, wifi_cfg} : Erases(cfg) /\ Boot(cfg)
  /\ UNCHANGED <<ap_disabled, router, wishes, outages, blips>>

(* The button held for five seconds.                                          *)
task_gpio_reset ==
  /\ wishes < MaxWishes
  /\ wishes' = wishes + 1
  /\ \E cfg \in {None, wifi_cfg} : Erases(cfg) /\ Boot(cfg)
  /\ UNCHANGED <<ap_disabled, router, outages, blips>>

---------------------------------------------------------------------------
Driver == GetsIp \/ Refused \/ Blip
Hub ==
  \/ StaStart \/ Disconnected \/ clear_sta_creds \/ GotIp
  \/ reconnect_timer_cb \/ GraceFires \/ DropAp \/ task_dns_captive
  \/ ImprovLeaves \/ ImprovConnects \/ ImprovReports
  \/ Reboot \/ wifi_mgr_forget_and_reboot
User ==
  \/ \E c \in Creds : ImprovStores(c) \/ api_wifi_connect(c)
  \/ api_wifi_disconnect \/ task_gpio_reset

Next == Driver \/ RouterGoes \/ RouterReturns \/ Hub \/ User

(* The event task, the timers and task_improv run when they have something to *)
(* do, and an attempt of the driver ends.                                     *)
Fairness ==
  /\ WF_vars(Driver)
  /\ WF_vars(StaStart \/ Disconnected \/ clear_sta_creds \/ GotIp)
  /\ WF_vars(reconnect_timer_cb)
  /\ WF_vars(ImprovLeaves \/ ImprovConnects)
  /\ WF_vars(Reboot \/ wifi_mgr_forget_and_reboot)

Spec == Init /\ [][Next]_vars
FairSpec == Spec /\ Fairness

---------------------------------------------------------------------------
(* Work in hand that leads back to a link or to a restart.                    *)
Trying ==
  \/ driver # "idle" \/ events # <<>> \/ s_reconnect_timer \/ wiping
  \/ improv \in {"stored", "left"} \/ restart # "no"

(* A hub that has credentials is never left with neither an access point nor  *)
(* a link nor an attempt to come: whatever the order of failures, timers, the *)
(* end of the access point and new credentials over the serial line.  The     *)
(* exception is the handler that gave up and could not erase them.            *)
NeverStranded == wifi_cfg # None => s_ap_mode \/ Trying \/ kept

(* Without that exception it does not hold (put it in the place of            *)
(* NeverStranded in MCNode_services.cfg): clear_sta_creds asks for no result  *)
(* (wifi_mgr.cpp:281-283), and the handler has armed no timer when it returns *)
(* (:162-168), so a hub whose erasure fails keeps credentials it does not use.*)
AlwaysTries == wifi_cfg # None => s_ap_mode \/ Trying

(* With the credentials the router accepts, in flash and in the driver, and a *)
(* router that stays, the hub is connected again and again to the end, unless *)
(* the handler gave them up and could not erase them.                         *)
Reconnects ==
  <>[](router /\ sta \in Good /\ wifi_cfg = sta /\ ~ kept) => []<>s_wifi_connected

(* The comment at wifi_mgr.cpp:48-50: only sustained failure clears the       *)
(* credentials, and the access point stays up for manual re-provision         *)
(* regardless (of a user who did not switch it off).                          *)
ApStaysUp == wifi_cfg = None /\ restart = "no" /\ ~ ap_disabled => s_ap_mode
=============================================================================
