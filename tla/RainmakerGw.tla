---------------------------- MODULE RainmakerGw ----------------------------
(* The uplink selector and the life of the RainMaker agent:                *)
(* components/rainmaker_gw/rainmaker_gw.c and the uplink.set handler of    *)
(* main/api_rainmaker.cpp.                                                 *)
(*                                                                         *)
(* The agent (the RainMaker SDK) is external: it claims the node once,     *)
(* connects to its broker, reports the user-node mapping when it changes   *)
(* while connected, and reconnects on its own.  What the code does is      *)
(* follow those events in s_state, which gates every report to the cloud.  *)
EXTENDS Naturals

CONSTANTS
    EarlyEvents,    \* TRUE: the agent's events may run before esp_rmaker_start() returned
    MaxInputs       \* bound: what comes from outside (events, requests, reports) in one behaviour

ASSUME GwAssumption == EarlyEvents \in BOOLEAN /\ MaxInputs \in Nat

VARIABLES
    gw,         \* s_state
    starting,   \* rainmaker_gw_init has called esp_rmaker_start and not yet set s_state
    up,         \* the agent's MQTT connection
    claimed,    \* the node holds a certificate (flash)
    mapped,     \* the user-node mapping (flash of the agent)
    attached,   \* s_attached: the first READY of this boot has been seen
    uplink,     \* the persisted selector (zap_store)
    mqtt,       \* mqtt_gw runs
    inputs      \* counts them

gwVars == <<gw, starting, up, claimed, mapped, attached, uplink, mqtt, inputs>>

GwStates == {"disabled", "init_claim", "connecting", "unassociated", "ready",
             "backoff", "claim_failed"}
Uplinks == {"none", "custom_mqtt", "rainmaker"}

GwTypeOK ==
    /\ gw \in GwStates
    /\ {starting, up, claimed, mapped, attached, mqtt} \subseteq BOOLEAN
    /\ uplink \in Uplinks
    /\ inputs \in 0..MaxInputs

(***************************************************************************)
(* rainmaker_gw_init, called once at boot and by uplink.set: a no-op when   *)
(* the agent runs or another uplink is selected; creating the node may      *)
(* fail; s_state is set after esp_rmaker_start() returned (AgentStarted),    *)
(* whatever the agent's events did meanwhile.                               *)
(***************************************************************************)
InitAgent(selected, before) ==
    IF selected = "rainmaker" /\ before = "disabled"
    THEN \/ starting' = TRUE /\ gw' = before
         \/ starting' = FALSE /\ gw' = "claim_failed"
    ELSE starting' = FALSE /\ gw' = before

GwInit ==
    /\ gw = "disabled" /\ up = FALSE /\ attached = FALSE
    /\ claimed \in BOOLEAN /\ mapped \in {FALSE, claimed}
    /\ uplink \in {"custom_mqtt", "rainmaker"}
    /\ starting = (uplink = "rainmaker")
    /\ mqtt = (uplink = "custom_mqtt")
    /\ inputs = 0

AgentStarted ==
    /\ starting
    /\ starting' = FALSE
    /\ gw' = "init_claim"
    /\ UNCHANGED <<up, claimed, mapped, attached, uplink, mqtt, inputs>>

(***************************************************************************)
(* rmk_event_handler, one action per event it handles.  attach names what  *)
(* rmk_bridge_attach does: the first READY of a boot marks s_attached.     *)
(***************************************************************************)
Runs == IF EarlyEvents THEN starting \/ gw \notin {"disabled", "claim_failed"}
                       ELSE gw \notin {"disabled", "claim_failed"}

Input == inputs < MaxInputs /\ inputs' = inputs + 1

GwEvent ==
    /\ Input
    /\ UNCHANGED <<starting, uplink, mqtt>>

BecomeReady == gw' = "ready" /\ attached' = TRUE

ClaimEnds ==
    /\ GwEvent /\ Runs /\ ~claimed
    /\ \/ claimed' = TRUE /\ gw' = "connecting"
       \/ claimed' = FALSE /\ gw' = "claim_failed"
    /\ UNCHANGED <<up, mapped, attached>>

(* Mutant: only a node that has gone through claiming may become ready. *)
ConnectedClaimed ==
    /\ GwEvent /\ Runs /\ claimed /\ ~up
    /\ up' = TRUE
    /\ IF gw \in {"connecting", "backoff"}
       THEN IF mapped THEN BecomeReady
                      ELSE gw' = "unassociated" /\ attached' = attached
       ELSE UNCHANGED <<gw, attached>>
    /\ UNCHANGED <<claimed, mapped>>

Connected ==
    /\ GwEvent /\ Runs /\ claimed /\ ~up
    /\ up' = TRUE
    /\ IF gw \in {"init_claim", "connecting", "backoff"}
       THEN IF mapped THEN BecomeReady
                      ELSE gw' = "unassociated" /\ attached' = attached
       ELSE UNCHANGED <<gw, attached>>
    /\ UNCHANGED <<claimed, mapped>>

Disconnected ==
    /\ GwEvent /\ up
    /\ up' = FALSE
    /\ gw' = IF gw = "ready" THEN "backoff" ELSE gw
    /\ UNCHANGED <<claimed, mapped, attached>>

MappingDone ==
    /\ GwEvent /\ up /\ ~mapped
    /\ mapped' = TRUE
    /\ BecomeReady
    /\ UNCHANGED <<up, claimed>>

MappingReset ==
    /\ GwEvent /\ up /\ mapped
    /\ mapped' = FALSE
    /\ gw' = "unassociated"
    /\ UNCHANGED <<up, claimed, attached>>

(***************************************************************************)
(* uplink.set: the selector is persisted first; the agent cannot be        *)
(* stopped, so leaving rainmaker asks for a reboot and touches nothing;    *)
(* going to rainmaker stops mqtt_gw and starts the agent (a no-op if it    *)
(* runs); mqtt_gw follows the other switches at once.                      *)
(***************************************************************************)
UplinkSet(mode) ==
    /\ Input
    /\ mode # uplink /\ ~starting
    /\ uplink' = mode
    /\ mqtt' = IF uplink = "rainmaker" THEN mqtt ELSE mode = "custom_mqtt"
    /\ InitAgent(mode, gw)
    /\ UNCHANGED <<up, claimed, mapped, attached>>

GwReboot ==
    /\ InitAgent(uplink, "disabled")
    /\ up' = FALSE /\ attached' = FALSE
    /\ mqtt' = (uplink = "custom_mqtt")
    /\ UNCHANGED <<claimed, mapped, uplink, inputs>>

GwNext ==
    \/ AgentStarted
    \/ ClaimEnds \/ Connected \/ Disconnected \/ MappingDone \/ MappingReset
    \/ \E mode \in Uplinks : UplinkSet(mode)

(* A connected node that is mapped to a user serves: no order of claim,     *)
(* connection, mapping and reconnection strands it in a state in which      *)
(* every report is dropped (rmk_event_handler, the guards of the            *)
(* connected and disconnected cases).                                       *)
Serving == up /\ mapped /\ ~starting => gw = "ready"
=============================================================================
