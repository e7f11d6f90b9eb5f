------------------------------- MODULE Stores -------------------------------
(* What the API of the node keeps: the device list and its cache, the device *)
(* options, the groups, the mirror of the groups devices are in, and the     *)
(* settings and the credentials.  The same two tasks serve all of it, one    *)
(* call at a time, while the network changes, writes to flash fail and the   *)
(* node restarts.                                                            *)
EXTENDS DeviceList, DeviceOptions, GroupStore, GroupMirror, Settings, Credentials

CONSTANTS
    Api,            \* the tasks that serve calls: httpd and task_remote
    AuthTasks,      \* those of them that serve /api/auth (httpd)
    MaxCalls,       \* bound: calls and changes of the network
    MaxRestarts     \* bound: restarts, planned ones and losses of power

ASSUME StoresAssumption == MaxCalls \in Nat /\ MaxRestarts \in Nat

VARIABLES calls, restarts

vars == <<listVars, optVars, grpVars, dgmVars, setVars, credVars,
          calls, restarts>>

TypeOK ==
    /\ ListTypeOK /\ OptTypeOK /\ GrpTypeOK /\ DgmTypeOK /\ SetTypeOK /\ CredTypeOK
    /\ calls \in 0..MaxCalls /\ restarts \in 0..MaxRestarts

Init ==
    /\ ListInit /\ OptInit /\ GrpInit /\ DgmInit /\ SetInit /\ CredInit
    /\ calls = 0 /\ restarts = 0

(* A task serves one call at a time. *)
Idle(c) ==
    /\ c \in ListTasks => fetch[c].pc = "idle"
    /\ c \in OptTasks => setter[c].pc = "idle"
    /\ c \in GrpTasks => grp[c].pc = "idle"
    /\ c \in DgmTasks => dgm[c].pc = "idle"
    /\ c \in SetTasks => request[c].at = 0
    /\ c \in AuthTasks => authJob.pc = "idle"

Count == calls < MaxCalls /\ calls' = calls + 1

List == UNCHANGED <<optVars, grpVars, dgmVars, setVars, credVars>>
Options == UNCHANGED <<listVars, grpVars, dgmVars, setVars, credVars>>
Groups == UNCHANGED <<listVars, optVars, dgmVars, setVars, credVars>>
Mirror == UNCHANGED <<listVars, optVars, grpVars, setVars, credVars>>
Setting == UNCHANGED <<listVars, optVars, grpVars, dgmVars, credVars>>
Secret == UNCHANGED <<listVars, optVars, grpVars, dgmVars, setVars>>

Call(c) ==
    /\ Idle(c)
    /\ \/ c \in ListTasks /\ ListRequest(c) /\ List
       \/ c \in OptTasks /\ OptRequest(c) /\ Options
       \/ c \in GrpTasks /\ GrpRequest(c) /\ Groups
       \/ c \in DgmTasks /\ DgmRequest(c) /\ Mirror
       \/ c \in SetTasks /\ SetRequest(c) /\ Setting
       \/ c \in AuthTasks /\ CredRequest /\ Secret

Proceed(c) ==
    \/ c \in ListTasks /\ ListStep(c) /\ List
    \/ c \in OptTasks /\ OptTaskStep(c) /\ Options
    \/ c \in GrpTasks /\ GrpStep(c) /\ Groups
    \/ c \in DgmTasks /\ DgmStep(c) /\ Mirror
    \/ c \in SetTasks /\ SetStep(c) /\ Setting
    \/ c \in AuthTasks /\ CredStep /\ Secret

Environment == (ListEvent /\ List) \/ (DgmEvent /\ Mirror)

(* The node starts again with what flash holds, when the new image asks for  *)
(* it or when the power goes. *)
Restart ==
    /\ restarts < MaxRestarts /\ restarts' = restarts + 1
    /\ ListRestart /\ OptRestart /\ GrpRestart /\ DgmRestart /\ SetRestart
    /\ CredRestart
    /\ UNCHANGED calls

Next ==
    \/ (Environment \/ \E c \in Api : Call(c)) /\ Count /\ UNCHANGED restarts
    \/ (\E c \in Api : Proceed(c)) /\ UNCHANGED <<calls, restarts>>
    \/ ((OptStep /\ Options) \/ (CacheExpires /\ List)) /\ UNCHANGED <<calls, restarts>>
    \/ FlushNow /\ Options /\ Count /\ UNCHANGED restarts
    \/ Restart

Spec == Init /\ [][Next]_vars
=============================================================================
