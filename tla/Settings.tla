------------------------------ MODULE Settings ------------------------------
(* settings.set: api_settings_set of main/api_system.cpp.  A setting is      *)
(* applied to the running node and stored; most are stored where they are    *)
(* applied, three wait for one write at the end of the request.  A request   *)
(* is refused at the first setting that can not be; what came before it      *)
(* stays.  The results of the NVS calls are ignored.                         *)
EXTENDS Naturals, Sequences

CONSTANTS
    SetTasks,       \* tasks that serve settings.set
    SetVal,         \* values of a setting
    SetRequests     \* the sets of settings that requests carry

(* The settings in the order of the request, those that wait for the end,    *)
(* and those whose value can be refused.                                     *)
Fields == <<"broker", "ntp", "timezone", "metrics", "ap_disabled", "mqtt", "auth",
            "identity", "log">>
Field == {Fields[i] : i \in DOMAIN Fields}
Deferred == {"timezone", "metrics", "ap_disabled"}
Refusable == {"broker", "ntp", "timezone"}

ASSUME SetAssumption == SetRequests \subseteq SUBSET Field /\ SetVal # {}

VARIABLES
    live,       \* what the running node uses
    stored,     \* what is in flash
    request,    \* the request each task works on: the next setting, or 0
    unstored    \* settings whose last write failed (history)

setVars == <<live, stored, request, unstored>>

FirstVal == CHOOSE v \in SetVal : TRUE
NoRequest == [at |-> 0, fields |-> {}, bad |-> {}, val |-> FirstVal]

SetTypeOK ==
    /\ live \in [Field -> SetVal] /\ stored \in [Field -> SetVal]
    /\ unstored \subseteq Field
    /\ request \in [SetTasks -> [at : 0..(Len(Fields) + 1), fields : SUBSET Field,
                                 bad : SUBSET Refusable, val : SetVal]]

SetInit ==
    /\ live = [f \in Field |-> FirstVal] /\ stored = live
    /\ request = [c \in SetTasks |-> NoRequest]
    /\ unstored = {}

(* The settings of F are written, or some of them are not.                   *)
StoreSome(F, v) ==
    \E W \in SUBSET F :
        /\ stored' = [f \in Field |-> IF f \in W THEN v ELSE stored[f]]
        /\ unstored' = (unstored \ W) \cup (F \ W)

SettingsSet(c, F, bad, v) ==
    /\ request[c].at = 0
    /\ request' = [request EXCEPT ![c] = [at |-> 1, fields |-> F, bad |-> bad, val |-> v]]
    /\ UNCHANGED <<live, stored, unstored>>

(* Settings the request leaves out are passed over. *)
NextField(r) ==
    LET rest == {i \in DOMAIN Fields : i > r.at /\ Fields[i] \in r.fields}
    IN IF rest = {} THEN Len(Fields) + 1 ELSE CHOOSE i \in rest : \A j \in rest : i <= j

(* Mutant: a value is applied before it is looked at. *)
ApplyFirst(c) ==
    LET r == request[c] f == Fields[r.at] IN
    /\ r.at \in DOMAIN Fields
    /\ live' = IF f \in r.fields THEN [live EXCEPT ![f] = r.val] ELSE live
    /\ IF f \in r.bad
       THEN /\ request' = [request EXCEPT ![c] = NoRequest]
            /\ UNCHANGED <<stored, unstored>>
       ELSE /\ request' = [request EXCEPT ![c].at = NextField(r)]
            /\ IF f \in r.fields \ Deferred THEN StoreSome({f}, r.val)
                                            ELSE UNCHANGED <<stored, unstored>>

Apply(c) ==
    LET r == request[c] f == Fields[r.at] IN
    /\ r.at \in DOMAIN Fields
    /\ IF f \in r.bad
       THEN /\ request' = [request EXCEPT ![c] = NoRequest]
            /\ UNCHANGED <<live, stored, unstored>>
       ELSE /\ request' = [request EXCEPT ![c].at = NextField(r)]
            /\ live' = IF f \in r.fields THEN [live EXCEPT ![f] = r.val] ELSE live
            /\ IF f \in r.fields \ Deferred THEN StoreSome({f}, r.val)
                                            ELSE UNCHANGED <<stored, unstored>>

StoreDeferred(c) ==
    LET r == request[c] IN
    /\ r.at = Len(Fields) + 1
    /\ StoreSome(r.fields \cap Deferred, r.val)
    /\ request' = [request EXCEPT ![c] = NoRequest]
    /\ UNCHANGED live

SetRestart ==
    /\ live' = stored /\ unstored' = {}
    /\ request' = [c \in SetTasks |-> NoRequest]
    /\ UNCHANGED stored

SetStep(c) == Apply(c) \/ StoreDeferred(c)
SetRequest(c) ==
    \E F \in SetRequests, v \in SetVal :
        \E bad \in SUBSET (F \cap Refusable) : SettingsSet(c, F, bad, v)

-----------------------------------------------------------------------------
(* The running node uses what a restart would load, outside a request that   *)
(* is under way and except for a setting whose write failed: no request that *)
(* is refused half-way leaves a setting applied and not stored.              *)
LiveIsStored ==
    \A f \in Field : live[f] # stored[f] =>
        f \in unstored \/ \E c \in SetTasks : request[c].at # 0 /\ f \in request[c].fields
=============================================================================
