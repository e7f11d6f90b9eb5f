---------------------------- MODULE Stores_proofs ----------------------------
(* Proofs about what the API keeps (Stores): options that wait for flash,    *)
(* groups, settings, the spliced device list and the mirror of the groups    *)
(* devices are in, for any number of tasks, devices, groups, calls and       *)
(* restarts.  No step of one store touches another, so each has an invariant *)
(* of its own over its own variables.                                        *)
EXTENDS Stores, FiniteSetTheorems, SequenceTheorems, TLAPS

(***************************************************************************)
(* DeviceOptions.                                                          *)
(***************************************************************************)
OptNext ==
  \/ \E c \in OptTasks : OptRequest(c) \/ OptTaskStep(c)
  \/ OptStep \/ FlushNow \/ OptRestart

(* What a step of the whole does to the options is a step of theirs.          *)
LEMMA OptMoves == [Next]_vars => [OptNext]_optVars
<1>. SUFFICES ASSUME [Next]_vars PROVE OptNext \/ UNCHANGED optVars
  OBVIOUS
<1>1. CASE UNCHANGED vars
  BY <1>1 DEF vars
<1>2. CASE Next
  <2>. USE DEF List, Options, Groups, Mirror, Setting, Secret
  <2>1. ASSUME NEW c \in Api, Call(c) PROVE OptNext \/ UNCHANGED optVars
    BY <2>1, Zenon DEF Call, OptNext
  <2>2. ASSUME NEW c \in Api, Proceed(c) PROVE OptNext \/ UNCHANGED optVars
    BY <2>2, Zenon DEF Proceed, OptNext
  <2>3. CASE Environment
    BY <2>3, Zenon DEF Environment
  <2>4. CASE (OptStep /\ Options) \/ (CacheExpires /\ List)
    BY <2>4, Zenon DEF OptNext
  <2>5. CASE FlushNow \/ Restart
    BY <2>5, Zenon DEF OptNext, Restart
  <2>. QED  BY <1>2, <2>1, <2>2, <2>3, <2>4, <2>5, Zenon DEF Next
<1>. QED  BY <1>1, <1>2

(* Why PendingIsArmed holds: between the mark and the timer a commit may come *)
(* first and take the mark away, but it then commits what the mark was for.   *)
ArmedOrDue ==
  staged # durable /\ ~ failed =>
    \/ \E c \in OptTasks : setter[c].pc = "mark"
    \/ \E t \in Committers : committer[t] = "commit"
    \/ /\ dirty
       /\ \/ timer
          \/ \E c \in OptTasks : setter[c].pc = "arm"
          \/ \E t \in Committers : committer[t] = "exchange"

OptInv == OptTypeOK /\ ArmedOrDue

(* Initially nothing is staged.                                               *)
LEMMA OptStarts == OptInit => OptInv
<1>. FirstOption \in OptVal /\ (CHOOSE d \in OptDev : TRUE) \in OptDev
  BY OptAssumption DEF FirstOption
<1>. SUFFICES ASSUME OptInit PROVE OptInv
  OBVIOUS
<1>1. /\ staged = [d \in OptDev |-> FirstOption] /\ durable = staged /\ applied = staged
      /\ setter = [c \in OptTasks |-> NoSet] /\ committer = [t \in Committers |-> "idle"]
  BY DEF OptInit
<1>2. dirty \in BOOLEAN /\ timer \in BOOLEAN /\ failed \in BOOLEAN
  BY Zenon DEF OptInit
<1>. QED  BY <1>1, <1>2 DEF OptInv, OptTypeOK, ArmedOrDue, NoSet

(* Every step keeps the types of the options.                                 *)
LEMMA OptTypes == OptTypeOK /\ OptNext => OptTypeOK'
<1>. SUFFICES ASSUME OptTypeOK, OptNext PROVE OptTypeOK'
  OBVIOUS
<1>. FirstOption \in OptVal /\ (CHOOSE d \in OptDev : TRUE) \in OptDev
  BY OptAssumption DEF FirstOption
<1>. DEFINE Job == [pc : {"idle", "mark", "arm", "forward"}, dev : OptDev, val : OptVal]
<1>0. NoSet \in Job
  BY DEF NoSet
<1>1. ASSUME NEW c \in OptTasks, OptRequest(c) PROVE OptTypeOK'
  BY <1>1 DEF OptRequest, Stage, OptTypeOK
<1>2. ASSUME NEW c \in OptTasks, OptTaskStep(c) PROVE OptTypeOK'
  <2>1. CASE MarkDirty(c)
    BY <2>1 DEF MarkDirty, OptTypeOK
  <2>2. CASE ArmTimer(c)
    BY <2>2 DEF ArmTimer, OptTypeOK
  <2>3. CASE Forward(c)
    BY <1>0, <2>3 DEF Forward, OptTypeOK
  <2>. QED  BY <1>2, <2>1, <2>2, <2>3 DEF OptTaskStep
<1>3. CASE OptStep
  <2>1. CASE TimerFires
    BY <2>1 DEF TimerFires, OptTypeOK
  <2>2. ASSUME NEW t \in Committers, Exchange(t) PROVE OptTypeOK'
    BY <2>2 DEF Exchange, Then, OptTypeOK
  <2>3. ASSUME NEW t \in Committers, Commit(t) PROVE OptTypeOK'
    BY <2>3 DEF Commit, Then, OptTypeOK
  <2>. QED  BY <1>3, <2>1, <2>2, <2>3 DEF OptStep
<1>4. CASE FlushNow
  BY <1>4 DEF FlushNow, OptTypeOK
<1>5. CASE OptRestart
  BY <1>0, <1>5 DEF OptRestart, OptTypeOK
<1>. QED  BY <1>1, <1>2, <1>3, <1>4, <1>5 DEF OptNext

(* Every step keeps a timer or a flush for what is pending.                   *)
LEMMA OptKeeps == OptInv /\ [OptNext]_optVars => OptInv'
<1>. SUFFICES ASSUME OptInv, [OptNext]_optVars PROVE OptInv'
  OBVIOUS
<1>1. OptTypeOK /\ ArmedOrDue
  BY DEF OptInv
<1>2. OptTypeOK'
  <2>1. CASE UNCHANGED optVars
    BY <1>1, <2>1 DEF optVars, OptTypeOK
  <2>. QED  BY <1>1, <2>1, OptTypes
<1>3. ArmedOrDue'
  <2>1. CASE UNCHANGED optVars
    BY <1>1, <2>1 DEF optVars, ArmedOrDue
  <2>2. ASSUME NEW c \in OptTasks, OptRequest(c) PROVE ArmedOrDue'
    BY <1>1, <2>2 DEF OptRequest, Stage, ArmedOrDue, OptTypeOK
  <2>3. ASSUME NEW c \in OptTasks, MarkDirty(c) PROVE ArmedOrDue'
    BY <1>1, <2>3 DEF MarkDirty, ArmedOrDue, OptTypeOK
  <2>4. ASSUME NEW c \in OptTasks, ArmTimer(c) PROVE ArmedOrDue'
    BY <1>1, <2>4 DEF ArmTimer, ArmedOrDue, OptTypeOK
  <2>5. ASSUME NEW c \in OptTasks, Forward(c) PROVE ArmedOrDue'
    BY <1>1, <2>5 DEF Forward, ArmedOrDue, OptTypeOK
  <2>6. CASE TimerFires
    BY <1>1, <2>6 DEF TimerFires, ArmedOrDue, OptTypeOK, Committers
  <2>7. ASSUME NEW t \in Committers, Exchange(t) PROVE ArmedOrDue'
    BY <1>1, <2>7 DEF Exchange, ArmedOrDue, OptTypeOK
  <2>8. ASSUME NEW t \in Committers, Commit(t) PROVE ArmedOrDue'
    BY <1>1, <2>8 DEF Commit, ArmedOrDue, OptTypeOK
  <2>9. CASE FlushNow
    BY <1>1, <2>9 DEF FlushNow, ArmedOrDue, OptTypeOK, Committers
  <2>10. CASE OptRestart
    BY <1>1, <2>10 DEF OptRestart, ArmedOrDue
  <2>. QED
    BY <2>1, <2>2, <2>3, <2>4, <2>5, <2>6, <2>7, <2>8, <2>9, <2>10
       DEF OptNext, OptStep, OptTaskStep
<1>. QED  BY <1>2, <1>3 DEF OptInv

(* What the options are at any moment, as long as the node runs.              *)
THEOREM OptionsInvariant == Spec => []OptInv
<1>1. Init => OptInv
  BY OptStarts DEF Init
<1>2. OptInv /\ [Next]_vars => OptInv'
  BY OptMoves, OptKeeps
<1>. QED  BY <1>1, <1>2, PTL DEF Spec

(* An option that was accepted is never left in the handle with nothing on    *)
(* its way to commit it, whatever sets, timer and flush race (PendingIsArmed; *)
(* opt_stage_and_defer, opt_commit_now).                                      *)
THEOREM PendingStaysArmed == Spec => []PendingIsArmed
<1>1. OptInv => PendingIsArmed
  BY DEF OptInv, ArmedOrDue, PendingIsArmed
<1>. QED  BY <1>1, OptionsInvariant, PTL
-----------------------------------------------------------------------------
(***************************************************************************)
(* GroupStore.                                                             *)
(***************************************************************************)
GrpNext ==
  \/ \E c \in GrpTasks : GrpRequest(c) \/ GrpStep(c)
  \/ GrpRestart

(* What a step of the whole does to the groups is a step of theirs.           *)
LEMMA GrpMoves == [Next]_vars => [GrpNext]_grpVars
<1>. SUFFICES ASSUME [Next]_vars PROVE GrpNext \/ UNCHANGED grpVars
  OBVIOUS
<1>1. CASE UNCHANGED vars
  BY <1>1 DEF vars
<1>2. CASE Next
  <2>. USE DEF List, Options, Groups, Mirror, Setting, Secret
  <2>1. ASSUME NEW c \in Api, Call(c) PROVE GrpNext \/ UNCHANGED grpVars
    BY <2>1, Zenon DEF Call, GrpNext
  <2>2. ASSUME NEW c \in Api, Proceed(c) PROVE GrpNext \/ UNCHANGED grpVars
    BY <2>2, Zenon DEF Proceed, GrpNext
  <2>3. CASE Environment
    BY <2>3, Zenon DEF Environment
  <2>4. CASE (OptStep /\ Options) \/ (CacheExpires /\ List) \/ (FlushNow /\ Options)
    BY <2>4, Zenon
  <2>5. CASE Restart
    BY <2>5, Zenon DEF GrpNext, Restart
  <2>. QED  BY <1>2, <2>1, <2>2, <2>3, <2>4, <2>5, Zenon DEF Next
<1>. QED  BY <1>1, <1>2

(* The calls that are under the store lock, and those of them that delete.    *)
UnderLock == {"blob", "bitmap", "commit", "erase", "clear", "gone"}
Deleting == {"erase", "clear", "gone"}

(* One call at a time is under the lock, and the lock is its.                 *)
LockIsHeld == \A c \in GrpTasks : grp[c].pc \in UnderLock => grpLock = c

(* A call works on a group; a save carries a record, which it has written by  *)
(* the time it marks the bitmap; what is being deleted is not saved.          *)
CallKnows ==
  \A c \in GrpTasks :
    /\ grp[c].pc # "idle" => grp[c].id \in GrpId
    /\ grp[c].pc \in {"found", "blob"} => grp[c].rec \in GrpRec
    /\ grp[c].pc \in {"bitmap", "commit"} => blob[grp[c].id] # NoGrp
    /\ grp[c].pc = "commit" => grp[c].id \in bmp \cup unmarked
    /\ grp[c].pc \in Deleting => grp[c].id \notin saved

(* A saved group has its record, in the handle and in flash, and its bit too  *)
(* unless that could not be written.                                          *)
SavedIsKept ==
  /\ \A i \in saved : blob[i] # NoGrp /\ blobFlash[i] # NoGrp
  /\ saved \ unmarked \subseteq bmp \cap bmpFlash

GrpInv == GrpTypeOK /\ LockIsHeld /\ CallKnows /\ SavedIsKept

(* Initially nothing is stored and no call runs.                              *)
LEMMA GrpStarts == GrpInit => GrpInv
  BY GrpAssumption
     DEF GrpInit, GrpInv, GrpTypeOK, LockIsHeld, CallKnows, SavedIsKept, NoCall, UnderLock, Deleting

(* Every step keeps the types of the groups.                                  *)
LEMMA GrpTypes == GrpTypeOK /\ CallKnows /\ GrpNext => GrpTypeOK'
<1>. SUFFICES ASSUME GrpTypeOK, CallKnows, GrpNext PROVE GrpTypeOK'
  OBVIOUS
<1>. USE DEF grpData, GrpGoto, Take, Return, NoCall
<1>1. ASSUME NEW c \in GrpTasks, GrpRequest(c) PROVE GrpTypeOK'
  <2>1. ASSUME NEW r \in GrpRec, CreateGroup(c, r) PROVE GrpTypeOK'
    BY <2>1 DEF CreateGroup, GrpTypeOK
  <2>2. ASSUME NEW i \in GrpId, DeleteGroup(c, i) PROVE GrpTypeOK'
    BY <2>2 DEF DeleteGroup, GrpTypeOK
  <2>3. ASSUME NEW i \in GrpId, NEW r \in GrpRec, FindGroup(c, i, r) PROVE GrpTypeOK'
    BY <2>3 DEF FindGroup, GrpTypeOK
  <2>. QED  BY <1>1, <2>1, <2>2, <2>3 DEF GrpRequest
<1>2. ASSUME NEW c \in GrpTasks, GrpStep(c) PROVE GrpTypeOK'
  <2>1. CASE UpdateGroup(c)
    BY <2>1 DEF UpdateGroup, GrpTypeOK
  <2>2. CASE SetBlob(c)
    BY <2>2 DEF SetBlob, GrpTypeOK, CallKnows
  <2>3. CASE SetBitmap(c)
    BY <2>3 DEF SetBitmap, GrpTypeOK, CallKnows
  <2>4. CASE CommitSave(c)
    BY <2>4 DEF CommitSave, GrpTypeOK, CallKnows
  <2>5. CASE EraseBlob(c)
    BY <2>5 DEF EraseBlob, GrpTypeOK
  <2>6. CASE ClearBit(c)
    BY <2>6 DEF ClearBit, GrpTypeOK
  <2>7. CASE CommitDelete(c)
    BY <2>7 DEF CommitDelete, GrpTypeOK
  <2>. QED  BY <1>2, <2>1, <2>2, <2>3, <2>4, <2>5, <2>6, <2>7 DEF GrpStep
<1>3. CASE GrpRestart
  BY <1>3 DEF GrpRestart, GrpTypeOK
<1>. QED  BY <1>1, <1>2, <1>3 DEF GrpNext

(* Whoever is under the lock is alone there.                                  *)
LEMMA Alone ==
  ASSUME LockIsHeld, NEW c \in GrpTasks, grp[c].pc \in UnderLock \/ grpLock = NoGrp,
         NEW e \in GrpTasks, e # c
  PROVE  grp[e].pc \notin UnderLock
  BY GrpAssumption DEF LockIsHeld

(* Every step keeps the groups that were reported as saved.                   *)
LEMMA GrpKeeps == GrpInv /\ [GrpNext]_grpVars => GrpInv'
<1>. SUFFICES ASSUME GrpInv, [GrpNext]_grpVars PROVE GrpInv'
  OBVIOUS
<1>. USE DEF grpData, GrpGoto, Take, Return, NoCall
<1>1. GrpTypeOK /\ LockIsHeld /\ CallKnows /\ SavedIsKept
  BY DEF GrpInv
<1>2. CASE UNCHANGED grpVars
  BY <1>1, <1>2
     DEF grpVars, GrpInv, GrpTypeOK, LockIsHeld, CallKnows, SavedIsKept
<1>3. CASE GrpNext
  <2>0. GrpTypeOK'
    BY <1>1, <1>3, GrpTypes
  <2>1. ASSUME NEW c \in GrpTasks, NEW r \in GrpRec, CreateGroup(c, r)
        PROVE  (LockIsHeld /\ CallKnows /\ SavedIsKept)'
    BY <1>1, <2>1, Alone
       DEF CreateGroup, GrpTypeOK, LockIsHeld, CallKnows, SavedIsKept, UnderLock, Deleting
  <2>2. ASSUME NEW c \in GrpTasks, NEW i \in GrpId, DeleteGroup(c, i)
        PROVE  (LockIsHeld /\ CallKnows /\ SavedIsKept)'
    BY <1>1, <2>2, Alone
       DEF DeleteGroup, GrpTypeOK, LockIsHeld, CallKnows, SavedIsKept, UnderLock, Deleting
  <2>3. ASSUME NEW c \in GrpTasks, NEW i \in GrpId, NEW r \in GrpRec, FindGroup(c, i, r)
        PROVE  (LockIsHeld /\ CallKnows /\ SavedIsKept)'
    BY <1>1, <2>3
       DEF FindGroup, GrpTypeOK, LockIsHeld, CallKnows, SavedIsKept, UnderLock, Deleting
  <2>4. ASSUME NEW c \in GrpTasks, GrpStep(c)
        PROVE  (LockIsHeld /\ CallKnows /\ SavedIsKept)'
    <3>. USE <1>1, Alone
         DEF GrpTypeOK, LockIsHeld, CallKnows, SavedIsKept, UnderLock, Deleting
    <3>1. CASE UpdateGroup(c)
      BY <3>1 DEF UpdateGroup
    <3>2. CASE SetBlob(c)
      BY <3>2, GrpAssumption DEF SetBlob
    <3>3. CASE SetBitmap(c)
      BY <3>3 DEF SetBitmap
    <3>4. CASE CommitSave(c)
      BY <3>4 DEF CommitSave
    <3>5. CASE EraseBlob(c)
      BY <3>5 DEF EraseBlob
    <3>6. CASE ClearBit(c)
      BY <3>6 DEF ClearBit
    <3>7. CASE CommitDelete(c)
      BY <3>7 DEF CommitDelete
    <3>. QED  BY <2>4, <3>1, <3>2, <3>3, <3>4, <3>5, <3>6, <3>7 DEF GrpStep
  <2>5. ASSUME GrpRestart PROVE (LockIsHeld /\ CallKnows /\ SavedIsKept)'
    BY <1>1, <2>5
       DEF GrpRestart, GrpTypeOK, LockIsHeld, CallKnows, SavedIsKept, UnderLock, Deleting
  <2>6. (LockIsHeld /\ CallKnows /\ SavedIsKept)'
    BY <1>3, <2>1, <2>2, <2>3, <2>4, <2>5 DEF GrpNext, GrpRequest
  <2>. QED  BY <2>0, <2>6 DEF GrpInv
<1>. QED  BY <1>2, <1>3

(* What the group store is at any moment, as long as the node runs.           *)
THEOREM GroupsInvariant == Spec => []GrpInv
<1>1. Init => GrpInv
  BY GrpStarts DEF Init
<1>2. GrpInv /\ [Next]_vars => GrpInv'
  BY GrpMoves, GrpKeeps
<1>. QED  BY <1>1, <1>2, PTL DEF Spec

(* A group whose save was acknowledged stays in the list until its delete is  *)
(* asked for, whatever writes fail, calls cross or restarts come, unless its  *)
(* bit could not be written (SavedStaysListed; grp_save, grp_delete).         *)
THEOREM SavedGroupsStay == Spec => []SavedStaysListed
<1>1. GrpInv => SavedStaysListed
  BY DEF GrpInv, GrpTypeOK, SavedIsKept, SavedStaysListed, Listed
<1>. QED  BY <1>1, GroupsInvariant, PTL
-----------------------------------------------------------------------------
(***************************************************************************)
(* Settings.                                                               *)
(***************************************************************************)
SetNext ==
  \/ \E c \in SetTasks : SetRequest(c) \/ SetStep(c)
  \/ SetRestart

(* What a step of the whole does to the settings is a step of theirs.         *)
LEMMA SetMoves == [Next]_vars => [SetNext]_setVars
<1>. SUFFICES ASSUME [Next]_vars PROVE SetNext \/ UNCHANGED setVars
  OBVIOUS
<1>1. CASE UNCHANGED vars
  BY <1>1 DEF vars
<1>2. CASE Next
  <2>. USE DEF List, Options, Groups, Mirror, Setting, Secret
  <2>1. ASSUME NEW c \in Api, Call(c) PROVE SetNext \/ UNCHANGED setVars
    BY <2>1, Zenon DEF Call, SetNext
  <2>2. ASSUME NEW c \in Api, Proceed(c) PROVE SetNext \/ UNCHANGED setVars
    BY <2>2, Zenon DEF Proceed, SetNext
  <2>3. CASE Environment
    BY <2>3, Zenon DEF Environment
  <2>4. CASE (OptStep /\ Options) \/ (CacheExpires /\ List) \/ (FlushNow /\ Options)
    BY <2>4, Zenon
  <2>5. CASE Restart
    BY <2>5, Zenon DEF SetNext, Restart
  <2>. QED  BY <1>2, <2>1, <2>2, <2>3, <2>4, <2>5, Zenon DEF Next
<1>. QED  BY <1>1, <1>2

(* The order in which a request is worked through: what can be refused comes  *)
(* before what waits for the end, but for the timezone, which is both.        *)
LEMMA Order ==
  /\ Len(Fields) = 9 /\ DOMAIN Fields = 1..9
  /\ \A i \in 1..9 : Fields[i] \in Field
  /\ \A f \in Field : \E i \in 1..9 : Fields[i] = f
  /\ \A i, j \in 1..9 : Fields[i] = Fields[j] => i = j
  /\ \A i \in 1..9 : Fields[i] \in Refusable => i <= 3
  /\ \A i \in 1..9 : Fields[i] \in Deferred => i >= 3
  /\ Deferred \subseteq Field /\ Refusable \subseteq Field
<1>1. Len(Fields) = 9 /\ DOMAIN Fields = 1..9
  BY DEF Fields
<1>2. /\ Fields[1] = "broker" /\ Fields[2] = "ntp" /\ Fields[3] = "timezone"
      /\ Fields[4] = "metrics" /\ Fields[5] = "ap_disabled" /\ Fields[6] = "mqtt"
      /\ Fields[7] = "auth" /\ Fields[8] = "identity" /\ Fields[9] = "log"
  BY DEF Fields
<1>3. \A i \in 1..9 : i \in {1, 2, 3, 4, 5, 6, 7, 8, 9}
  OBVIOUS
<1>4. Field = {Fields[i] : i \in 1..9}
  BY <1>1 DEF Field
<1>5. \A i, j \in 1..9 : Fields[i] = Fields[j] => i = j
  BY <1>2, <1>3
<1>6. /\ \A i \in 1..9 : Fields[i] \in Refusable => i <= 3
      /\ \A i \in 1..9 : Fields[i] \in Deferred => i >= 3
  BY <1>2, <1>3 DEF Refusable, Deferred
<1>7. Deferred \subseteq Field /\ Refusable \subseteq Field
  BY <1>2, <1>4 DEF Refusable, Deferred
<1>. QED  BY <1>1, <1>4, <1>5, <1>6, <1>7

(* A set of requests, of which there are nine, has a first.                   *)
LEMMA Least ==
  ASSUME NEW S \in SUBSET (1..9), S # {}
  PROVE  \E i \in S : \A j \in S : i <= j
<1>1. \A i \in 1..9 : i \in {1, 2, 3, 4, 5, 6, 7, 8, 9}
  OBVIOUS
<1>2. CASE 1 \in S
  BY <1>1, <1>2
<1>3. CASE 1 \notin S /\ 2 \in S
  BY <1>1, <1>3
<1>4. CASE 1 \notin S /\ 2 \notin S /\ 3 \in S
  BY <1>1, <1>4
<1>5. CASE 1 \notin S /\ 2 \notin S /\ 3 \notin S /\ 4 \in S
  BY <1>1, <1>5
<1>6. CASE 1 \notin S /\ 2 \notin S /\ 3 \notin S /\ 4 \notin S /\ 5 \in S
  BY <1>1, <1>6
<1>7. CASE 1 \notin S /\ 2 \notin S /\ 3 \notin S /\ 4 \notin S /\ 5 \notin S /\ 6 \in S
  BY <1>1, <1>7
<1>8. CASE S \subseteq {7, 8, 9}
  <2>1. CASE 7 \in S
    BY <1>8, <2>1
  <2>2. CASE 7 \notin S /\ 8 \in S
    BY <1>8, <2>2
  <2>3. CASE S = {9}
    BY <2>3
  <2>. QED  BY <1>8, <2>1, <2>2, <2>3
<1>. QED  BY <1>1, <1>2, <1>3, <1>4, <1>5, <1>6, <1>7, <1>8

(* The setting a request comes to next: everything in between it leaves out.  *)
LEMMA Comes ==
  ASSUME NEW r, r.at \in 1..9
  PROVE  /\ NextField(r) \in 2..10 /\ NextField(r) > r.at
         /\ \A i \in 1..9 : r.at < i /\ i < NextField(r) => Fields[i] \notin r.fields
<1>. DEFINE rest == {i \in DOMAIN Fields : i > r.at /\ Fields[i] \in r.fields}
<1>1. rest \in SUBSET (1..9)
  BY Order
<1>2. NextField(r) = IF rest = {} THEN 10 ELSE CHOOSE i \in rest : \A j \in rest : i <= j
  BY Order DEF NextField
<1>3. CASE rest = {}
  <2>1. NextField(r) = 10
    BY <1>2, <1>3
  <2>. QED  BY <2>1, <1>3, Order
<1>4. CASE rest # {}
  <2>1. NextField(r) \in rest /\ \A j \in rest : NextField(r) <= j
    BY <1>1, <1>2, <1>4, Least
  <2>. QED  BY <2>1, Order
<1>. QED  BY <1>3, <1>4

(* One task serves settings.set: the HTTP server's, since the cloud's list of *)
(* commands leaves it out (remote_allow.cpp).  Two requests that cross could  *)
(* apply one value and store the other.                                       *)
OneServer == \A c, e \in SetTasks : c = e

(* A request has applied what waits for the end and came up so far; what of   *)
(* it is refused comes before all of that.                                    *)
Promised ==
  \A c \in SetTasks :
    LET r == request[c] IN
    r.at # 0 =>
      /\ r.bad \subseteq Refusable
      /\ \A i \in 1..9 : i < r.at /\ Fields[i] \in r.fields \cap Deferred =>
                            live[Fields[i]] = r.val

(* A setting is not stored because a write failed, or because it waits for    *)
(* the end of a request that can no longer be refused.                        *)
StoredOrDue ==
  \A f \in Field : live[f] # stored[f] =>
    \/ f \in unstored
    \/ \E c \in SetTasks : request[c].at > 3 /\ f \in request[c].fields \cap Deferred

SetInv == SetTypeOK /\ Promised /\ StoredOrDue

(* Initially live and stored settings are the same.                           *)
LEMMA SetStarts == SetInit => SetInv
<1>1. FirstVal \in SetVal
  BY SetAssumption DEF FirstVal
<1>. QED  BY <1>1, Order DEF SetInit, SetInv, SetTypeOK, Promised, StoredOrDue, NoRequest

(* Every step keeps the types of the settings.                                *)
LEMMA SetTypes == SetTypeOK /\ SetNext => SetTypeOK'
<1>. SUFFICES ASSUME SetTypeOK, SetNext PROVE SetTypeOK'
  OBVIOUS
<1>1. FirstVal \in SetVal
  BY SetAssumption DEF FirstVal
<1>. DEFINE Req == [at : 0..10, fields : SUBSET Field, bad : SUBSET Refusable, val : SetVal]
<1>2. NoRequest \in Req /\ \A c \in SetTasks : request[c] \in Req
  BY <1>1, Order DEF NoRequest, SetTypeOK
<1>3. \A c \in SetTasks : Fields[request[c].at] \in Field \/ request[c].at \notin 1..9
  BY Order
<1>4. ASSUME NEW c \in SetTasks, SetRequest(c) PROVE SetTypeOK'
  BY <1>4, Order, SetAssumption DEF SetRequest, SettingsSet, SetTypeOK
<1>5. ASSUME NEW c \in SetTasks, Apply(c) PROVE SetTypeOK'
  <2>1. request[c].at \in 1..9 /\ Fields[request[c].at] \in Field
    BY <1>5, Order DEF Apply
  <2>2. NextField(request[c]) \in 0..10
    BY <2>1, Comes
  <2>3. live' \in [Field -> SetVal]
    BY <1>2, <1>5, <2>1 DEF Apply, SetTypeOK
  <2>4. stored' \in [Field -> SetVal] /\ unstored' \subseteq Field
    <3>1. CASE StoreSome({Fields[request[c].at]}, request[c].val)
      BY <1>2, <2>1, <3>1 DEF StoreSome, SetTypeOK
    <3>2. CASE UNCHANGED <<stored, unstored>>
      BY <3>2 DEF SetTypeOK
    <3>. QED  BY <1>5, <3>1, <3>2 DEF Apply
  <2>5. request' \in [SetTasks -> Req]
    BY <1>2, <1>5, <2>2, Order DEF Apply, SetTypeOK
  <2>. QED  BY <2>3, <2>4, <2>5, Order DEF SetTypeOK
<1>6. ASSUME NEW c \in SetTasks, StoreDeferred(c) PROVE SetTypeOK'
  <2>1. stored' \in [Field -> SetVal] /\ unstored' \subseteq Field
    BY <1>2, <1>6, Order DEF StoreDeferred, StoreSome, SetTypeOK
  <2>2. live' \in [Field -> SetVal] /\ request' \in [SetTasks -> Req]
    BY <1>2, <1>6, Order DEF StoreDeferred, SetTypeOK
  <2>. QED  BY <2>1, <2>2, Order DEF SetTypeOK
<1>7. CASE SetRestart
  BY <1>2, <1>7, Order DEF SetRestart, SetTypeOK
<1>. QED  BY <1>4, <1>5, <1>6, <1>7 DEF SetNext, SetStep

(* With one server, every step keeps live settings stored or about to be.     *)
LEMMA SetKeeps == OneServer /\ SetInv /\ [SetNext]_setVars => SetInv'
<1>. SUFFICES ASSUME OneServer, SetInv, [SetNext]_setVars PROVE SetInv'
  OBVIOUS
<1>1. SetTypeOK /\ Promised /\ StoredOrDue
  BY DEF SetInv
<1>2. CASE UNCHANGED setVars
  BY <1>1, <1>2 DEF setVars, SetInv, SetTypeOK, Promised, StoredOrDue
<1>3. CASE SetNext
  <2>0. SetTypeOK'
    BY <1>1, <1>3, SetTypes
  <2>1. ASSUME NEW c \in SetTasks, SetRequest(c) PROVE (Promised /\ StoredOrDue)'
    <3>1. PICK F \in SetRequests, v \in SetVal :
            \E bad \in SUBSET (F \cap Refusable) : SettingsSet(c, F, bad, v)
      BY <2>1 DEF SetRequest
    <3>2. PICK bad \in SUBSET (F \cap Refusable) : SettingsSet(c, F, bad, v)
      BY <3>1
    <3>3. /\ request[c].at = 0 /\ UNCHANGED <<live, stored, unstored>>
          /\ request' = [request EXCEPT ![c] = [at |-> 1, fields |-> F, bad |-> bad, val |-> v]]
      BY <3>2 DEF SettingsSet
    <3>4. request \in [SetTasks -> [at : 0..10, fields : SUBSET Field, bad : SUBSET Refusable,
                                    val : SetVal]]
      BY <1>1, Order DEF SetTypeOK
    <3>5. Promised'
      BY <1>1, <3>3, <3>4 DEF Promised
    <3>6. StoredOrDue'
      BY <1>1, <3>3, <3>4 DEF StoredOrDue
    <3>. QED  BY <3>5, <3>6
  <2>2. ASSUME NEW c \in SetTasks, Apply(c) PROVE (Promised /\ StoredOrDue)'
    <3>. DEFINE r == request[c]
                f == Fields[r.at]
    <3>1. /\ r.at \in 1..9 /\ f \in Field /\ r.bad \subseteq Refusable
          /\ \A e \in SetTasks : e = c
      BY <1>1, <2>2, Order DEF Apply, Promised, OneServer
    <3>2. /\ request \in [SetTasks -> [at : 0..10, fields : SUBSET Field,
                                       bad : SUBSET Refusable, val : SetVal]]
          /\ live \in [Field -> SetVal]
      BY <1>1, Order DEF SetTypeOK
    <3>3. CASE f \in r.bad
      <4>1. /\ request' = [request EXCEPT ![c] = NoRequest]
            /\ UNCHANGED <<live, stored, unstored>>
        BY <2>2, <3>3 DEF Apply
      <4>2. r.at <= 3
        BY <3>1, <3>3, Order
      <4>3. Promised'
        BY <3>1, <3>2, <4>1 DEF Promised, NoRequest
      <4>4. StoredOrDue'
        BY <1>1, <3>1, <3>2, <4>1, <4>2 DEF StoredOrDue
      <4>. QED  BY <4>3, <4>4
    <3>4. CASE f \notin r.bad
      <4>1. /\ request' = [request EXCEPT ![c].at = NextField(r)]
            /\ live' = IF f \in r.fields THEN [live EXCEPT ![f] = r.val] ELSE live
            /\ IF f \in r.fields \ Deferred THEN StoreSome({f}, r.val)
                                            ELSE UNCHANGED <<stored, unstored>>
        BY <2>2, <3>4 DEF Apply
      <4>2. /\ NextField(r) \in 2..10 /\ NextField(r) > r.at
            /\ \A i \in 1..9 : r.at < i /\ i < NextField(r) => Fields[i] \notin r.fields
        BY <3>1, Comes
      <4>3. /\ request'[c].at = NextField(r) /\ request'[c].fields = r.fields
            /\ request'[c].bad = r.bad /\ request'[c].val = r.val
        BY <3>2, <4>1
      <4>. HIDE DEF r, f
      <4>4. Promised'
        <5>1. ASSUME NEW i \in 1..9, i < NextField(r), Fields[i] \in r.fields \cap Deferred
              PROVE  live'[Fields[i]] = r.val
          <6>1. i <= r.at
            BY <3>1, <4>2, <5>1
          <6>2. CASE i = r.at
            BY <3>1, <3>2, <4>1, <5>1, <6>2 DEF f
          <6>3. CASE i < r.at
            <7>1. live[Fields[i]] = r.val
              BY <1>1, <3>1, <5>1, <6>3 DEF Promised, r
            <7>2. Fields[i] # f /\ Fields[i] \in Field
              BY <3>1, <6>3, Order DEF f
            <7>. QED  BY <3>1, <3>2, <4>1, <7>1, <7>2
          <6>. QED  BY <3>1, <6>1, <6>2, <6>3
        <5>. QED  BY <3>1, <4>3, <5>1 DEF Promised
      <4>5. StoredOrDue'
        <5>. SUFFICES ASSUME NEW g \in Field, live'[g] # stored'[g], g \notin unstored'
                      PROVE  request'[c].at > 3 /\ g \in request'[c].fields \cap Deferred
          BY Zenon DEF StoredOrDue
        <5>1. CASE g = f /\ f \in r.fields
          <6>1. live'[g] = r.val
            BY <3>1, <3>2, <4>1, <5>1
          <6>2. f \in Deferred
            <7>. SUFFICES ASSUME f \notin Deferred PROVE FALSE
              OBVIOUS
            <7>1. StoreSome({f}, r.val)
              BY <4>1, <5>1
            <7>. QED  BY <3>1, <5>1, <6>1, <7>1 DEF StoreSome
          <6>3. r.at >= 3
            BY <3>1, <6>2, Order DEF f
          <6>. QED  BY <3>1, <4>2, <4>3, <5>1, <6>2, <6>3
        <5>2. CASE g # f \/ f \notin r.fields
          <6>1. live'[g] = live[g]
            BY <3>1, <3>2, <4>1, <5>2
          <6>2. stored'[g] = stored[g] /\ (g \in unstored => g \in unstored')
            <7>1. CASE UNCHANGED <<stored, unstored>>
              BY <7>1
            <7>2. CASE StoreSome({f}, r.val) /\ f \in r.fields
              BY <5>2, <7>2 DEF StoreSome
            <7>. QED  BY <4>1, <7>1, <7>2
          <6>3. request[c].at > 3 /\ g \in request[c].fields \cap Deferred
            BY <1>1, <3>1, <6>1, <6>2 DEF StoredOrDue
          <6>. QED  BY <3>1, <4>2, <4>3, <6>3 DEF r
        <5>. QED  BY <5>1, <5>2
      <4>. QED  BY <4>4, <4>5
    <3>. QED  BY <3>3, <3>4
  <2>3. ASSUME NEW c \in SetTasks, StoreDeferred(c) PROVE (Promised /\ StoredOrDue)'
    <3>. DEFINE r == request[c]
    <3>1. /\ r.at = 10 /\ StoreSome(r.fields \cap Deferred, r.val)
          /\ request' = [request EXCEPT ![c] = NoRequest] /\ UNCHANGED live
          /\ \A e \in SetTasks : e = c
      BY <2>3, Order DEF StoreDeferred, OneServer
    <3>2. request'[c] = NoRequest
      BY <1>1, <3>1 DEF SetTypeOK
    <3>3. Promised'
      BY <3>1, <3>2 DEF Promised, NoRequest
    <3>4. \A g \in r.fields \cap Deferred : live[g] = r.val
      BY <1>1, <3>1, Order DEF Promised
    <3>. HIDE DEF r
    <3>5. StoredOrDue'
      <4>. SUFFICES ASSUME NEW g \in Field, live'[g] # stored'[g] PROVE g \in unstored'
        BY Zenon DEF StoredOrDue
      <4>1. CASE g \in r.fields \cap Deferred
        BY <3>1, <3>4, <4>1 DEF StoreSome
      <4>2. CASE g \notin r.fields \cap Deferred
        <5>1. stored'[g] = stored[g] /\ (g \in unstored => g \in unstored')
          BY <3>1, <4>2 DEF StoreSome
        <5>. QED  BY <1>1, <3>1, <4>2, <5>1 DEF StoredOrDue, r
      <4>. QED  BY <4>1, <4>2
    <3>. QED  BY <3>3, <3>5
  <2>4. ASSUME SetRestart PROVE (Promised /\ StoredOrDue)'
    <3>1. \A c \in SetTasks : request'[c].at = 0
      BY <2>4 DEF SetRestart, NoRequest
    <3>2. UNCHANGED stored /\ live' = stored
      BY <2>4 DEF SetRestart
    <3>. QED  BY <3>1, <3>2 DEF Promised, StoredOrDue
  <2>5. (Promised /\ StoredOrDue)'
    BY <1>3, <2>1, <2>2, <2>3, <2>4 DEF SetNext, SetStep
  <2>. QED  BY <2>0, <2>5 DEF SetInv
<1>. QED  BY <1>2, <1>3

(* What the settings are at any moment, as long as the node runs.             *)
THEOREM SettingsInvariant == OneServer => (Spec => []SetInv)
<1>. SUFFICES ASSUME OneServer PROVE Spec => []SetInv
  OBVIOUS
<1>1. Init => SetInv
  BY SetStarts DEF Init
<1>2. SetInv /\ [Next]_vars => SetInv'
  BY SetMoves, SetKeeps
<1>. QED  BY <1>1, <1>2, PTL DEF Spec

(* A request that is refused half-way, or a restart behind it, leaves no      *)
(* setting in use that a restart would not load, but for one whose write      *)
(* failed (LiveIsStored; api_settings_set).                                   *)
THEOREM LiveStaysStored == OneServer => (Spec => []LiveIsStored)
<1>. SUFFICES ASSUME OneServer PROVE Spec => []LiveIsStored
  OBVIOUS
<1>1. SetInv => LiveIsStored
  <2>. SUFFICES ASSUME SetInv PROVE LiveIsStored
    OBVIOUS
  <2>1. \A c \in SetTasks : request[c].at > 3 => request[c].at # 0
    OBVIOUS
  <2>. QED  BY <2>1 DEF SetInv, StoredOrDue, LiveIsStored
<1>. QED  BY <1>1, SettingsInvariant, PTL
-----------------------------------------------------------------------------
(***************************************************************************)
(* DeviceList.                                                             *)
(***************************************************************************)
ListNext ==
  \/ \E c \in ListTasks : ListRequest(c) \/ ListStep(c)
  \/ ListEvent \/ CacheExpires \/ ListRestart

(* What a step of the whole does to the list is a step of its own.            *)
LEMMA ListMoves == [Next]_vars => [ListNext]_listVars
<1>. SUFFICES ASSUME [Next]_vars PROVE ListNext \/ UNCHANGED listVars
  OBVIOUS
<1>1. CASE UNCHANGED vars
  BY <1>1 DEF vars
<1>2. CASE Next
  <2>. USE DEF List, Options, Groups, Mirror, Setting, Secret
  <2>1. ASSUME NEW c \in Api, Call(c) PROVE ListNext \/ UNCHANGED listVars
    BY <2>1, Zenon DEF Call, ListNext
  <2>2. ASSUME NEW c \in Api, Proceed(c) PROVE ListNext \/ UNCHANGED listVars
    BY <2>2, Zenon DEF Proceed, ListNext
  <2>3. CASE Environment
    BY <2>3, Zenon DEF Environment, ListNext
  <2>4. CASE (OptStep /\ Options) \/ (CacheExpires /\ List) \/ (FlushNow /\ Options)
    BY <2>4, Zenon DEF ListNext
  <2>5. CASE Restart
    BY <2>5, Zenon DEF ListNext, Restart
  <2>. QED  BY <1>2, <2>1, <2>2, <2>3, <2>4, <2>5, Zenon DEF Next
<1>. QED  BY <1>1, <1>2

(* The devices in the first n places of a table.                              *)
Passed(p, n) == {p[i] : i \in {j \in DOMAIN p : j <= n}}

Pools == {p \in Seq(Device) : IsInjective(p)}

(* Any change of the pool moves at most one of the devices that stay across   *)
(* any one place: what is entered pushes one over it, what leaves pulls one   *)
(* back, or the last comes from behind it.                                    *)
OneMoves(p, q) ==
  \A n \in Nat : \E x : \A d \in ToSet(p) \cap ToSet(q) :
    d # x => (d \in Passed(p, n) <=> d \in Passed(q, n))

LEMMA Shape ==
  ASSUME NEW p \in Seq(Device)
  PROVE  Len(p) \in Nat /\ DOMAIN p = 1..Len(p) /\ \A i \in 1..Len(p) : p[i] \in Device
  BY LenProperties, ElementOfSeq

LEMMA Pieces ==
  ASSUME NEW p \in Seq(Device), NEW m \in 1..(Len(p) + 1), NEW n \in 0..Len(p)
  PROVE  /\ SubSeq(p, m, n) \in Seq(Device)
         /\ Len(SubSeq(p, m, n)) = IF m <= n THEN n - m + 1 ELSE 0
         /\ \A i \in 1..(n - m + 1) : SubSeq(p, m, n)[i] = p[m + i - 1]
<1>1. Len(p) \in Nat /\ \A i \in m..n : p[i] \in Device
  BY Shape
<1>2. m \in Int /\ n \in Int
  BY <1>1
<1>. QED  BY <1>1, <1>2, SubSeqProperties

LEMMA Entered ==
  ASSUME NEW p \in Pools, NEW d \in Device \ ToSet(p), NEW i \in 1..(Len(p) + 1)
  PROVE  InsertAt(p, i, d) \in Pools /\ OneMoves(p, InsertAt(p, i, d))
<1>. DEFINE a == SubSeq(p, 1, i - 1)
            b == SubSeq(p, i, Len(p))
            q == InsertAt(p, i, d)
<1>1. p \in Seq(Device) /\ IsInjective(p) /\ Len(p) \in Nat /\ DOMAIN p = 1..Len(p)
  BY Shape DEF Pools
<1>2. /\ a \in Seq(Device) /\ Len(a) = i - 1 /\ \A j \in 1..(i - 1) : a[j] = p[j]
      /\ b \in Seq(Device) /\ Len(b) = Len(p) - i + 1
      /\ \A j \in 1..(Len(p) - i + 1) : b[j] = p[i + j - 1]
  BY <1>1, Pieces
<1>3. <<d>> \in Seq(Device) /\ Len(<<d>>) = 1 /\ <<d>>[1] = d
  OBVIOUS
<1>. HIDE DEF a, b
<1>4. /\ a \o <<d>> \in Seq(Device) /\ Len(a \o <<d>>) = i
      /\ \A j \in 1..i : (a \o <<d>>)[j] = IF j <= i - 1 THEN a[j] ELSE <<d>>[j - (i - 1)]
  BY <1>1, <1>2, <1>3, ConcatProperties
<1>5. q = a \o <<d>> \o b
  BY DEF InsertAt, a, b
<1>. HIDE DEF q
<1>6. /\ q \in Seq(Device) /\ Len(q) = Len(p) + 1
      /\ \A j \in 1..(Len(p) + 1) : q[j] = IF j <= i THEN (a \o <<d>>)[j] ELSE b[j - i]
  <2>. DEFINE c == a \o <<d>>
  <2>1. c \in Seq(Device) /\ Len(c) = i /\ q = c \o b
    BY <1>4, <1>5
  <2>. HIDE DEF c
  <2>2. /\ q \in Seq(Device) /\ Len(q) = Len(c) + Len(b)
        /\ \A j \in 1..(Len(c) + Len(b)) : q[j] = IF j <= Len(c) THEN c[j] ELSE b[j - Len(c)]
    BY <1>2, <2>1, ConcatProperties
  <2>3. Len(c) + Len(b) = Len(p) + 1
    BY <1>1, <1>2, <2>1
  <2>4. \A j \in 1..(Len(p) + 1) : q[j] = IF j <= i THEN c[j] ELSE b[j - i]
    BY <2>1, <2>2, <2>3
  <2>. QED  BY <2>2, <2>3, <2>4 DEF c
<1>7. \A j \in 1..(Len(p) + 1) : q[j] = IF j < i THEN p[j] ELSE IF j = i THEN d ELSE p[j - 1]
  <2>. TAKE j \in 1..(Len(p) + 1)
  <2>1. CASE j < i
    <3>1. j \in 1..i /\ j \in 1..(i - 1) /\ j <= i
      BY <1>1, <2>1
    <3>2. q[j] = (a \o <<d>>)[j]
      BY <1>6, <3>1
    <3>3. (a \o <<d>>)[j] = a[j]
      BY <1>4, <3>1
    <3>4. a[j] = p[j]
      BY <1>2, <3>1
    <3>. QED  BY <2>1, <3>2, <3>3, <3>4
  <2>2. CASE j = i
    <3>1. j \in 1..i /\ j <= i /\ ~ (j <= i - 1) /\ ~ (j < i) /\ j - (i - 1) = 1
      BY <1>1, <2>2
    <3>2. q[j] = (a \o <<d>>)[j]
      BY <1>6, <3>1
    <3>3. (a \o <<d>>)[j] = <<d>>[1]
      BY <1>4, <3>1
    <3>. QED  BY <1>3, <2>2, <3>1, <3>2, <3>3
  <2>3. CASE j > i
    <3>1. j - i \in 1..(Len(p) - i + 1) /\ i + (j - i) - 1 = j - 1
      BY <1>1, <2>3
    <3>. QED  BY <1>1, <1>2, <1>6, <2>3, <3>1
  <2>. QED  BY <1>1, <2>1, <2>2, <2>3
<1>8. DOMAIN q = 1..(Len(p) + 1)
  BY <1>6, Shape
<1>9. \A j \in 1..Len(p) : p[j] # d
  BY <1>1 DEF ToSet
<1>10. \A j, k \in 1..Len(p) : p[j] = p[k] => j = k
  BY <1>1 DEF IsInjective
<1>11. IsInjective(q)
  <2>. SUFFICES ASSUME NEW j \in 1..(Len(p) + 1), NEW k \in 1..(Len(p) + 1), q[j] = q[k]
                PROVE  j = k
    BY <1>8 DEF IsInjective
  <2>1. CASE j = i \/ k = i
    BY <1>1, <1>7, <1>9, <2>1
  <2>2. CASE j # i /\ k # i
    <3>. DEFINE Was(l) == IF l < i THEN l ELSE l - 1
    <3>1. Was(j) \in 1..Len(p) /\ Was(k) \in 1..Len(p)
      BY <1>1, <2>2
    <3>2. p[Was(j)] = p[Was(k)]
      BY <1>7, <2>2
    <3>3. Was(j) = Was(k)
      BY <1>10, <3>1, <3>2
    <3>. QED  BY <2>2, <3>3
  <2>. QED  BY <2>1, <2>2
<1>12. ASSUME NEW n \in Nat
       PROVE  \E x : \A e \in ToSet(p) \cap ToSet(q) :
                e # x => (e \in Passed(p, n) <=> e \in Passed(q, n))
  <2>. SUFFICES ASSUME NEW e \in ToSet(p), e # (IF n \in DOMAIN p THEN p[n] ELSE d)
                PROVE  e \in Passed(p, n) <=> e \in Passed(q, n)
    OBVIOUS
  <2>1. PICK k \in 1..Len(p) : p[k] = e
    BY <1>1 DEF ToSet
  <2>2. k # n
    BY <1>1, <2>1
  <2>3. e \in Passed(p, n) <=> k <= n
    BY <1>1, <1>10, <2>1 DEF Passed
  <2>4. e \in Passed(q, n) <=> (IF k < i THEN k ELSE k + 1) <= n
    <3>1. (IF k < i THEN k ELSE k + 1) \in 1..(Len(p) + 1)
      BY <1>1
    <3>2. q[IF k < i THEN k ELSE k + 1] = e
      BY <1>1, <1>7, <2>1, <3>1
    <3>. QED  BY <1>8, <1>11, <3>1, <3>2 DEF Passed, IsInjective
  <2>. QED  BY <2>2, <2>3, <2>4
<1>. QED  BY <1>6, <1>11, <1>12 DEF Pools, OneMoves, q

LEMMA Left ==
  ASSUME NEW p \in Pools, NEW i \in 1..Len(p)
  PROVE  RemoveAt(p, i) \in Pools /\ OneMoves(p, RemoveAt(p, i))
<1>. DEFINE a == SubSeq(p, 1, i - 1)
            b == SubSeq(p, i + 1, Len(p))
            q == RemoveAt(p, i)
<1>1. p \in Seq(Device) /\ IsInjective(p) /\ Len(p) \in Nat /\ DOMAIN p = 1..Len(p)
  BY Shape DEF Pools
<1>2. /\ a \in Seq(Device) /\ Len(a) = i - 1 /\ \A j \in 1..(i - 1) : a[j] = p[j]
      /\ b \in Seq(Device) /\ Len(b) = Len(p) - i
      /\ \A j \in 1..(Len(p) - i) : b[j] = p[i + j]
  <2>1. i - 1 \in 0..Len(p) /\ i + 1 \in 1..(Len(p) + 1) /\ 1 \in 1..(Len(p) + 1)
        /\ Len(p) \in 0..Len(p)
    BY <1>1
  <2>2. a \in Seq(Device) /\ Len(a) = i - 1 /\ \A j \in 1..(i - 1) : a[j] = p[j]
    BY <1>1, <2>1, Pieces
  <2>3. /\ b \in Seq(Device) /\ Len(b) = IF i + 1 <= Len(p) THEN Len(p) - (i + 1) + 1 ELSE 0
        /\ \A j \in 1..(Len(p) - (i + 1) + 1) : b[j] = p[i + 1 + j - 1]
    BY <1>1, <2>1, Pieces
  <2>. HIDE DEF a, b
  <2>. DEFINE n == Len(p)
  <2>4. n \in Nat /\ i \in 1..n
    BY <1>1
  <2>5. /\ Len(b) = IF i + 1 <= n THEN n - (i + 1) + 1 ELSE 0
        /\ \A j \in 1..(n - (i + 1) + 1) : b[j] = p[i + 1 + j - 1]
    BY <2>3
  <2>. HIDE DEF n
  <2>6. Len(b) = n - i
    BY <2>4, <2>5
  <2>7. ASSUME NEW j \in 1..(n - i) PROVE b[j] = p[i + j]
    <3>1. j \in 1..(n - (i + 1) + 1) /\ i + 1 + j - 1 = i + j
      BY <2>4
    <3>. QED  BY <2>5, <3>1
  <2>. QED  BY <2>2, <2>3, <2>6, <2>7 DEF n
<1>3. q = a \o b
  BY DEF RemoveAt, a, b
<1>. HIDE DEF a, b, q
<1>4. /\ q \in Seq(Device) /\ Len(q) = Len(a) + Len(b)
      /\ \A j \in 1..(Len(a) + Len(b)) : q[j] = IF j <= Len(a) THEN a[j] ELSE b[j - Len(a)]
  BY <1>2, <1>3, ConcatProperties
<1>5. Len(a) + Len(b) = Len(p) - 1
  BY <1>1, <1>2
<1>6. \A j \in 1..(Len(p) - 1) : q[j] = IF j < i THEN p[j] ELSE p[j + 1]
  <2>. TAKE j \in 1..(Len(p) - 1)
  <2>1. q[j] = IF j <= i - 1 THEN a[j] ELSE b[j - (i - 1)]
    BY <1>2, <1>4, <1>5
  <2>2. CASE j < i
    <3>1. j <= i - 1 /\ j \in 1..(i - 1)
      BY <1>1, <2>2
    <3>. QED  BY <1>2, <2>1, <2>2, <3>1
  <2>3. CASE ~ (j < i)
    <3>1. ~ (j <= i - 1) /\ j - (i - 1) \in 1..(Len(p) - i) /\ i + (j - (i - 1)) = j + 1
      BY <1>1, <2>3
    <3>. QED  BY <1>2, <2>1, <2>3, <3>1
  <2>. QED  BY <2>2, <2>3
<1>7. DOMAIN q = 1..(Len(p) - 1)
  BY <1>4, <1>5, Shape
<1>8. \A j, k \in 1..Len(p) : p[j] = p[k] => j = k
  BY <1>1 DEF IsInjective
<1>9. IsInjective(q)
  <2>. SUFFICES ASSUME NEW j \in 1..(Len(p) - 1), NEW k \in 1..(Len(p) - 1), q[j] = q[k]
                PROVE  j = k
    BY <1>7 DEF IsInjective
  <2>. DEFINE Was(l) == IF l < i THEN l ELSE l + 1
  <2>1. Was(j) \in 1..Len(p) /\ Was(k) \in 1..Len(p)
    BY <1>1
  <2>2. p[Was(j)] = p[Was(k)]
    BY <1>6
  <2>3. Was(j) = Was(k)
    BY <1>8, <2>1, <2>2
  <2>. QED  BY <1>1, <2>3
<1>10. ASSUME NEW n \in Nat
       PROVE  \E x : \A e \in ToSet(p) \cap ToSet(q) :
                e # x => (e \in Passed(p, n) <=> e \in Passed(q, n))
  <2>. SUFFICES ASSUME NEW e \in ToSet(p) \cap ToSet(q),
                       e # (IF n + 1 \in DOMAIN p THEN p[n + 1] ELSE p[i])
                PROVE  e \in Passed(p, n) <=> e \in Passed(q, n)
    OBVIOUS
  <2>1. PICK k \in 1..(Len(p) - 1) : q[k] = e
    BY <1>7 DEF ToSet
  <2>. DEFINE was == IF k < i THEN k ELSE k + 1
  <2>2. was \in 1..Len(p) /\ p[was] = e
    BY <1>1, <1>6, <2>1
  <2>3. was # n + 1
    BY <1>1, <2>2
  <2>4. e \in Passed(p, n) <=> was <= n
    BY <1>1, <1>8, <2>2 DEF Passed
  <2>5. e \in Passed(q, n) <=> k <= n
    BY <1>7, <1>9, <2>1 DEF Passed, IsInjective
  <2>. QED  BY <2>3, <2>4, <2>5
<1>. QED  BY <1>4, <1>9, <1>10 DEF Pools, OneMoves, q

LEMMA Swapped ==
  ASSUME NEW p \in Pools, NEW i \in 1..Len(p), i < Len(p)
  PROVE  /\ Front(ReplaceAt(p, i, Last(p))) \in Pools
         /\ OneMoves(p, Front(ReplaceAt(p, i, Last(p))))
<1>. DEFINE l == p[Len(p)]
            r == ReplaceAt(p, i, l)
            q == Front(r)
<1>1. p \in Seq(Device) /\ IsInjective(p) /\ Len(p) \in Nat /\ DOMAIN p = 1..Len(p) /\ l \in Device
  BY Shape DEF Pools
<1>2. /\ r \in Seq(Device) /\ Len(r) = Len(p)
      /\ \A j \in 1..Len(p) : r[j] = IF j = i THEN l ELSE p[j]
  BY <1>1, ExceptSeq DEF ReplaceAt
<1>3. q = SubSeq(r, 1, Len(p) - 1)
  BY <1>2 DEF Front
<1>4. q = Front(ReplaceAt(p, i, Last(p)))
  BY DEF Last
<1>. HIDE DEF r, q
<1>5. /\ q \in Seq(Device) /\ Len(q) = Len(p) - 1
      /\ \A j \in 1..(Len(p) - 1) : q[j] = r[j]
  BY <1>1, <1>2, <1>3, Pieces
<1>6. \A j \in 1..(Len(p) - 1) : q[j] = IF j = i THEN l ELSE p[j]
  BY <1>1, <1>2, <1>5
<1>7. DOMAIN q = 1..(Len(p) - 1)
  BY <1>5, Shape
<1>8. \A j, k \in 1..Len(p) : p[j] = p[k] => j = k
  BY <1>1 DEF IsInjective
<1>9. IsInjective(q)
  <2>. SUFFICES ASSUME NEW j \in 1..(Len(p) - 1), NEW k \in 1..(Len(p) - 1), q[j] = q[k]
                PROVE  j = k
    BY <1>7 DEF IsInjective
  <2>. DEFINE Was(m) == IF m = i THEN Len(p) ELSE m
  <2>1. Was(j) \in 1..Len(p) /\ Was(k) \in 1..Len(p)
    BY <1>1
  <2>2. p[Was(j)] = p[Was(k)]
    BY <1>6
  <2>3. Was(j) = Was(k)
    BY <1>8, <2>1, <2>2
  <2>. QED  BY <1>1, <2>3
<1>10. ASSUME NEW n \in Nat
       PROVE  \E x : \A e \in ToSet(p) \cap ToSet(q) :
                e # x => (e \in Passed(p, n) <=> e \in Passed(q, n))
  <2>. SUFFICES ASSUME NEW e \in ToSet(p) \cap ToSet(q), e # l
                PROVE  e \in Passed(p, n) <=> e \in Passed(q, n)
    OBVIOUS
  <2>1. PICK k \in 1..(Len(p) - 1) : q[k] = e
    BY <1>7 DEF ToSet
  <2>2. k \in 1..Len(p) /\ p[k] = e
    BY <1>1, <1>6, <2>1
  <2>3. e \in Passed(p, n) <=> k <= n
    BY <1>1, <1>8, <2>2 DEF Passed
  <2>4. e \in Passed(q, n) <=> k <= n
    BY <1>7, <1>9, <2>1 DEF Passed, IsInjective
  <2>. QED  BY <2>3, <2>4
<1>. QED  BY <1>4, <1>5, <1>9, <1>10 DEF Pools, OneMoves

(* Every event of the network is such a change.                               *)
LEMMA PoolChanges ==
  ASSUME ListTypeOK, ListEvent
  PROVE  \E q \in Pools : OneMoves(pool, q) /\ PoolChange(q)
<1>1. pool \in Pools /\ DOMAIN pool = 1..Len(pool) /\ Len(pool) \in Nat
  BY Shape DEF ListTypeOK, Pools
<1>2. CASE DeviceJoins
  <2>1. PICK d \in Device \ ToSet(pool), i \in 1..(Len(pool) + 1) : PoolChange(InsertAt(pool, i, d))
    BY <1>2 DEF DeviceJoins
  <2>. QED  BY <1>1, <2>1, Entered
<1>3. CASE DeviceLeaves
  <2>1. PICK i \in 1..Len(pool) :
          \/ PoolChange(RemoveAt(pool, i))
          \/ i < Len(pool) /\ PoolChange(Front(ReplaceAt(pool, i, Last(pool))))
    BY <1>1, <1>3 DEF DeviceLeaves
  <2>. QED  BY <1>1, <2>1, Left, Swapped
<1>. QED  BY <1>2, <1>3 DEF ListEvent

(* How often a device is in a list, and in one with a page more.              *)
HowOften(g, d) == Cardinality({i \in DOMAIN g : g[i] = d})

LEMMA Appended ==
  ASSUME NEW g \in Seq(Device), NEW t \in Seq(Device), IsInjective(t), NEW d \in Device
  PROVE  /\ HowOften(g, d) \in Nat
         /\ HowOften(g \o t, d) = IF d \in ToSet(t) THEN HowOften(g, d) + 1 ELSE HowOften(g, d)
<1>. DEFINE G == {i \in DOMAIN g : g[i] = d}
            C == {i \in DOMAIN (g \o t) : (g \o t)[i] = d}
            m == Len(g)
            n == Len(t)
<1>1. m \in Nat /\ n \in Nat /\ DOMAIN g = 1..m /\ DOMAIN t = 1..n
  BY Shape
<1>2. /\ DOMAIN (g \o t) = 1..(m + n)
      /\ \A i \in 1..(m + n) : (g \o t)[i] = IF i <= m THEN g[i] ELSE t[i - m]
  BY ConcatProperties, LenProperties
<1>. HIDE DEF m, n
<1>3. IsFiniteSet(G) /\ Cardinality(G) \in Nat
  <2>1. IsFiniteSet(1..m)
    BY <1>1, FS_Interval
  <2>2. G \in SUBSET (1..m)
    BY <1>1
  <2>. QED  BY <2>1, <2>2, FS_Subset, FS_CardinalityType
<1>4. CASE d \notin ToSet(t)
  <2>1. \A j \in 1..n : t[j] # d
    BY <1>1, <1>4 DEF ToSet
  <2>2. ASSUME NEW i \in 1..(m + n), i > m PROVE (g \o t)[i] # d
    <3>1. i - m \in 1..n
      BY <1>1, <2>2
    <3>. QED  BY <1>1, <1>2, <2>1, <2>2, <3>1
  <2>3. C = G
    BY <1>1, <1>2, <2>2
  <2>. QED  BY <1>3, <1>4, <2>3 DEF HowOften
<1>5. CASE d \in ToSet(t)
  <2>1. PICK k \in 1..n : t[k] = d
    BY <1>1, <1>5 DEF ToSet
  <2>2. \A j \in 1..n : t[j] = d => j = k
    BY <1>1, <2>1 DEF IsInjective
  <2>3. ASSUME NEW i \in 1..(m + n), i > m PROVE (g \o t)[i] = d <=> i = m + k
    <3>1. i - m \in 1..n /\ (i - m = k <=> i = m + k)
      BY <1>1, <2>3
    <3>. QED  BY <1>1, <1>2, <2>1, <2>2, <2>3, <3>1
  <2>4. m + k \in 1..(m + n) /\ m + k > m
    BY <1>1
  <2>5. C = G \cup {m + k}
    <3>1. ASSUME NEW i \in C PROVE i \in G \cup {m + k}
      <4>1. i \in 1..(m + n) /\ (g \o t)[i] = d
        BY <1>2
      <4>2. CASE i <= m
        BY <1>1, <1>2, <4>1, <4>2
      <4>. QED  BY <1>1, <2>3, <4>1, <4>2
    <3>2. G \subseteq C
      BY <1>1, <1>2
    <3>3. m + k \in C
      BY <1>2, <2>3, <2>4
    <3>. QED  BY <3>1, <3>2, <3>3
  <2>6. m + k \notin G
    BY <1>1, <2>4
  <2>7. Cardinality(C) = Cardinality(G) + 1
    BY <1>3, <2>5, <2>6, FS_AddElement
  <2>. QED  BY <1>3, <1>5, <2>7 DEF HowOften
<1>. QED  BY <1>4, <1>5

(* The devices that the cursor has passed and are not in the list once, or    *)
(* that it has not passed and are in the list.                                *)
Off(f, p) == {d \in f.steady : Times(f, d) # IF d \in Passed(p, f.start) THEN 1 ELSE 0}
Missed(f) == {d \in f.steady : Times(f, d) # 1}

(* A page is right about the devices between the cursor and its end.          *)
LEMMA PageIsRight ==
  ASSUME ListTypeOK, NEW f, f.got \in Seq(Device), f.start \in Nat, f.steady \subseteq Device,
         f.steady \subseteq ToSet(pool),
         NEW e, e = PageEnd(f.start),
         NEW h, h.got = f.got \o SubSeq(pool, f.start + 1, e), h.start = e, h.steady = f.steady
  PROVE  /\ e \in 0..Len(pool) /\ (e <= f.start => e = Len(pool))
         /\ h.got \in Seq(Device)
         /\ Off(h, pool) = Off(f, pool)
         /\ e <= f.start => Missed(h) = Off(h, pool)
<1>. DEFINE n == Len(pool)
            t == SubSeq(pool, f.start + 1, e)
<1>1. pool \in Seq(Device) /\ n \in Nat /\ DOMAIN pool = 1..n
      /\ (\A i, j \in 1..n : pool[i] = pool[j] => i = j)
  BY Shape DEF ListTypeOK, IsInjective
<1>2. e = IF f.start + PageSize < n THEN f.start + PageSize ELSE n
  BY DEF PageEnd
<1>. HIDE DEF n
<1>3. e \in 0..n /\ (e <= f.start => e = n) /\ e \in Int /\ f.start \in Int
  <2>. DEFINE s == f.start
  <2>1. PageSize \in Nat /\ PageSize > 0
    BY ListAssumption
  <2>2. s \in Nat /\ n \in Nat /\ e = IF s + PageSize < n THEN s + PageSize ELSE n
    BY <1>1, <1>2
  <2>. HIDE DEF s
  <2>3. e \in 0..n /\ (e <= s => e = n) /\ e \in Int
    BY <2>1, <2>2
  <2>. QED  BY <2>3 DEF s
<1>4. /\ t \in Seq(Device) /\ IsInjective(t) /\ \A d \in Device :
           d \in ToSet(t) <=> d \in Passed(pool, e) /\ d \notin Passed(pool, f.start)
  <2>1. CASE e <= f.start
    <3>1. t = <<>>
      BY <1>3, <2>1, SubSeqEmpty
    <3>2. e = n
      BY <1>3, <2>1
    <3>3. \A d : d \in Passed(pool, e) => d \in Passed(pool, f.start)
      BY <1>1, <2>1, <3>2 DEF Passed
    <3>. HIDE DEF t
    <3>. QED  BY <3>1, <3>3, EmptySeq DEF IsInjective, ToSet
  <2>2. CASE e > f.start
    <3>1. \A i \in (f.start + 1)..e : i \in 1..n /\ pool[i] \in Device
      BY <1>1, <1>3, Shape
    <3>2. /\ t \in Seq(Device) /\ Len(t) = e - f.start
          /\ \A i \in 1..(e - f.start) : t[i] = pool[f.start + i]
      <4>1. /\ t \in Seq(Device)
            /\ Len(t) = IF f.start + 1 <= e THEN e - (f.start + 1) + 1 ELSE 0
            /\ \A i \in 1..(e - (f.start + 1) + 1) : t[i] = pool[f.start + 1 + i - 1]
        BY <1>3, <3>1, SubSeqProperties
      <4>. HIDE DEF t
      <4>2. Len(t) = e - f.start
        BY <1>3, <2>2, <4>1
      <4>3. ASSUME NEW i \in 1..(e - f.start) PROVE t[i] = pool[f.start + i]
        <5>1. i \in 1..(e - (f.start + 1) + 1) /\ f.start + 1 + i - 1 = f.start + i
          <6>. DEFINE s == f.start
          <6>1. e \in Int /\ s \in Int /\ i \in 1..(e - s)
            BY <1>3
          <6>. HIDE DEF s
          <6>2. i \in 1..(e - (s + 1) + 1) /\ s + 1 + i - 1 = s + i
            BY <6>1
          <6>. QED  BY <6>2 DEF s
        <5>. QED  BY <4>1, <5>1
      <4>. QED  BY <4>1, <4>2, <4>3
    <3>3. DOMAIN t = 1..(e - f.start)
      BY <3>2, LenProperties
    <3>. HIDE DEF t
    <3>4. \A i \in 1..(e - f.start) : f.start + i \in 1..n
      BY <1>1, <1>3, <2>2
    <3>5. IsInjective(t)
      <4>. SUFFICES ASSUME NEW i \in 1..(e - f.start), NEW j \in 1..(e - f.start), t[i] = t[j]
                    PROVE  i = j
        BY <3>3 DEF IsInjective
      <4>1. f.start + i = f.start + j
        BY <1>1, <3>2, <3>4
      <4>. QED  BY <1>3, <4>1
    <3>6. ASSUME NEW d \in Device
          PROVE  d \in ToSet(t) <=> d \in Passed(pool, e) /\ d \notin Passed(pool, f.start)
      <4>1. ASSUME d \in ToSet(t)
            PROVE  d \in Passed(pool, e) /\ d \notin Passed(pool, f.start)
        <5>1. PICK i \in 1..(e - f.start) : t[i] = d
          BY <3>3, <4>1 DEF ToSet
        <5>2. pool[f.start + i] = d /\ f.start + i \in 1..n /\ f.start + i <= e
              /\ ~ (f.start + i <= f.start)
          BY <1>1, <1>3, <3>2, <3>4, <5>1
        <5>. QED  BY <1>1, <5>2 DEF Passed
      <4>2. ASSUME d \in Passed(pool, e), d \notin Passed(pool, f.start)
            PROVE  d \in ToSet(t)
        <5>1. PICK k \in 1..n : k <= e /\ pool[k] = d
          BY <1>1, <4>2 DEF Passed
        <5>2. k > f.start
          BY <1>1, <4>2, <5>1 DEF Passed
        <5>3. k - f.start \in 1..(e - f.start) /\ f.start + (k - f.start) = k
          BY <1>3, <5>1, <5>2
        <5>. QED  BY <3>2, <3>3, <5>1, <5>3 DEF ToSet
      <4>. QED  BY <4>1, <4>2
    <3>. QED  BY <3>2, <3>5, <3>6
  <2>. QED  BY <1>3, <2>1, <2>2
<1>. HIDE DEF t
<1>5. h.got = f.got \o t
  BY DEF t
<1>6. h.got \in Seq(Device)
  BY <1>4, <1>5, ConcatProperties
<1>7. ASSUME NEW d \in f.steady
      PROVE  (Times(h, d) # IF d \in Passed(pool, e) THEN 1 ELSE 0)
             <=> (Times(f, d) # IF d \in Passed(pool, f.start) THEN 1 ELSE 0)
  <2>1. d \in Device
    OBVIOUS
  <2>2. /\ Times(f, d) \in Nat
        /\ Times(h, d) = IF d \in ToSet(t) THEN Times(f, d) + 1 ELSE Times(f, d)
    <3>1. Times(f, d) = HowOften(f.got, d) /\ Times(h, d) = HowOften(f.got \o t, d)
      BY <1>5 DEF Times, HowOften
    <3>. QED  BY <1>4, <2>1, <3>1, Appended
  <2>3. d \in Passed(pool, f.start) /\ ~ (e <= f.start) => d \in Passed(pool, e)
    BY <1>1, <1>3 DEF Passed
  <2>4. d \in Passed(pool, f.start) /\ e <= f.start => d \in Passed(pool, e)
    BY <1>1, <1>3 DEF Passed
  <2>. QED  BY <1>4, <2>1, <2>2, <2>3, <2>4
<1>8. Off(h, pool) = Off(f, pool)
  BY <1>7 DEF Off
<1>9. ASSUME e <= f.start PROVE Missed(h) = Off(h, pool)
  <2>1. \A d \in f.steady : d \in Passed(pool, e)
    BY <1>1, <1>3, <1>9 DEF Passed, ToSet
  <2>. QED  BY <2>1 DEF Missed, Off
<1>. QED  BY <1>3, <1>6, <1>8, <1>9 DEF n

(* While it is spliced a list is off by at most one device per change, where  *)
(* off is measured against the cursor; when the last page is in, the cursor   *)
(* is behind all of them.                                                     *)
OffBy(f, p, changes) ==
  /\ f.steady \subseteq ToSet(p)
  /\ f.pc = "page" => Cardinality(Off(f, p)) <= changes - f.since
  /\ f.pc = "store" => Cardinality(Missed(f)) <= changes - f.since

(* With no change the list is the pool up to the cursor.                      *)
Prefix(f, p, changes) ==
  f.pc # "idle" /\ f.since = changes =>
    /\ f.start <= Len(p) /\ f.got = SubSeq(p, 1, f.start)
    /\ f.pc = "store" => f.start = Len(p)

Right(f, p, changes) == OffBy(f, p, changes) /\ Prefix(f, p, changes)

ListsAreRight == \A c \in ListTasks : Right(fetch[c], pool, version)

ListInv == ListTypeOK /\ ListsAreRight

Fetch == [pc : {"idle", "page", "store"}, start : Nat, pages : 0..MaxPages,
          got : Seq(Device), steady : SUBSET Device, since : 0..version]

LEMMA NoneIsRight == ASSUME NEW p, NEW n PROVE Right(NoFetch, p, n)
  BY DEF Right, OffBy, Prefix, NoFetch

(* Initially no list is being fetched.                                        *)
LEMMA ListStarts == ListInit => ListInv
<1>. SUFFICES ASSUME ListInit PROVE ListInv
  OBVIOUS
<1>1. pool \in Seq(Device) /\ IsInjective(pool)
  <2>. DEFINE n == Cardinality(Device)
  <2>1. n \in Nat /\ ExistsBijection(1..n, Device)
    BY ListAssumption, FS_CardinalityType
  <2>2. PICK b \in [1..n -> Device] : \A i, j \in 1..n : b[i] = b[j] => i = j
    BY <2>1 DEF ExistsBijection, Bijection, Injection, IsInjective
  <2>3. \E b1 \in [1..n -> Device] : IsInjective(b1)
    BY <2>2 DEF IsInjective
  <2>4. pool = CHOOSE b1 \in [1..n -> Device] : IsInjective(b1)
    BY DEF ListInit, SetToSeq
  <2>. HIDE DEF n
  <2>5. pool \in [1..n -> Device] /\ IsInjective(pool)
    BY <2>3, <2>4
  <2>. QED  BY <2>1, <2>5, SeqDef
<1>2. /\ version = 0 /\ fetch = [c \in ListTasks |-> NoFetch]
      /\ cache = [fresh |-> FALSE, list |-> <<>>, since |-> 0]
  BY DEF ListInit
<1>3. NoFetch \in Fetch /\ <<>> \in Seq(Device)
  BY <1>2, EmptySeq, ListAssumption DEF NoFetch, Fetch
<1>4. ListTypeOK
  BY <1>1, <1>2, <1>3 DEF ListTypeOK, Fetch
<1>. QED  BY <1>2, <1>4, NoneIsRight DEF ListInv, ListsAreRight

(* Every change moves a fetched list by at most one steady device.            *)
LEMMA ListKeeps == ListInv /\ [ListNext]_listVars => ListInv'
<1>. SUFFICES ASSUME ListInv, [ListNext]_listVars PROVE ListInv'
  OBVIOUS
<1>1. /\ ListTypeOK /\ ListsAreRight
      /\ fetch \in [ListTasks -> Fetch] /\ version \in Nat
      /\ pool \in Pools /\ pool \in Seq(Device) /\ Len(pool) \in Nat
      /\ cache \in [fresh : BOOLEAN, list : Seq(Device), since : 0..version]
  BY Shape DEF ListInv, ListTypeOK, Fetch, Pools
<1>2. NoFetch \in Fetch /\ <<>> \in Seq(Device)
  BY <1>1, EmptySeq, ListAssumption DEF NoFetch, Fetch
(* A task takes up or ends a fetch, or splices a page; nothing else changes.  *)
<1>3. ASSUME NEW c \in ListTasks, NEW g \in Fetch, UNCHANGED <<pool, version>>,
             fetch' = [fetch EXCEPT ![c] = g],
             cache' \in [fresh : BOOLEAN, list : Seq(Device), since : 0..version],
             Right(g, pool, version)
      PROVE  ListInv'
  <2>1. ListTypeOK'
    BY <1>1, <1>3 DEF ListTypeOK, Fetch
  <2>2. \A e \in ListTasks : fetch'[e] = IF e = c THEN g ELSE fetch[e]
    BY <1>1, <1>3
  <2>3. ListsAreRight'
    BY <1>1, <1>3, <2>2 DEF ListsAreRight
  <2>. QED  BY <2>1, <2>3 DEF ListInv
<1>4. CASE UNCHANGED listVars
  BY <1>1, <1>4 DEF listVars, ListInv, ListTypeOK, ListsAreRight
<1>5. ASSUME NEW c \in ListTasks, ListRequest(c) PROVE ListInv'
  <2>1. CASE FromCache(c)
    BY <1>4, <2>1 DEF FromCache, listVars
  <2>2. CASE StartFetch(c)
    <3>. DEFINE g == [NoFetch EXCEPT !.pc = "page", !.steady = ToSet(pool), !.since = version]
    <3>1. /\ g.pc = "page" /\ g.start = 0 /\ g.pages = 0 /\ g.got = <<>>
          /\ g.steady = ToSet(pool) /\ g.since = version
      BY DEF NoFetch
    <3>2. ToSet(pool) \subseteq Device
      BY <1>1, Shape DEF ToSet
    <3>3. g \in Fetch
      <4>1. g = [pc |-> "page", start |-> 0, pages |-> 0, got |-> <<>>,
                 steady |-> ToSet(pool), since |-> version]
        <5>. DEFINE N == NoFetch
        <5>1. /\ N = [pc |-> N.pc, start |-> N.start, pages |-> N.pages, got |-> N.got,
                      steady |-> N.steady, since |-> N.since]
              /\ N.start = 0 /\ N.pages = 0 /\ N.got = <<>>
          BY DEF NoFetch
        <5>. HIDE DEF N
        <5>2. g = [N EXCEPT !.pc = "page", !.steady = ToSet(pool), !.since = version]
          BY DEF N
        <5>. HIDE DEF g
        <5>. QED  BY <5>1, <5>2
      <4>. HIDE DEF g
      <4>2. 0 \in 0..MaxPages /\ version \in 0..version
        BY <1>1, ListAssumption
      <4>. QED  BY <1>2, <3>2, <4>1, <4>2 DEF Fetch
    <3>4. fetch' = [fetch EXCEPT ![c] = g] /\ UNCHANGED <<pool, version, cache>>
      BY <2>2 DEF StartFetch
    <3>. HIDE DEF g
    <3>5. Off(g, pool) = {}
      <4>1. \A d : d \notin Passed(pool, 0)
        BY <1>1, Shape DEF Passed
      <4>2. \A d : Times(g, d) = 0
        BY <3>1, FS_EmptySet DEF Times
      <4>. QED  BY <3>1, <4>1, <4>2 DEF Off
    <3>6. Cardinality(Off(g, pool)) <= version - g.since
      BY <1>1, <3>1, <3>5, FS_EmptySet
    <3>7. g.got = SubSeq(pool, 1, g.start)
      BY <3>1, SubSeqEmpty
    <3>8. Right(g, pool, version)
      BY <1>1, <3>1, <3>6, <3>7 DEF Right, OffBy, Prefix
    <3>9. cache' \in [fresh : BOOLEAN, list : Seq(Device), since : 0..version]
      BY <1>1, <3>4
    <3>. QED  BY <1>3, <3>3, <3>4, <3>8, <3>9
  <2>. QED  BY <1>5, <2>1, <2>2 DEF ListRequest
<1>6. ASSUME NEW c \in ListTasks, Page(c) PROVE ListInv'
  <2>. DEFINE f == fetch[c]
              e == PageEnd(f.start)
              g == Splice(f, e)
  <2>1. f \in Fetch /\ f.pc = "page" /\ f.pages < MaxPages
    BY <1>1, <1>6 DEF Page
  <2>2. fetch' = [fetch EXCEPT ![c] = g] /\ UNCHANGED <<pool, version, cache>>
    BY <1>6 DEF Page
  <2>3. /\ g.got = f.got \o SubSeq(pool, f.start + 1, e) /\ g.start = e /\ g.steady = f.steady
        /\ g.since = f.since /\ g.pages = f.pages + 1
        /\ g.pc = IF e <= f.start THEN "store" ELSE "page"
        /\ g = [pc |-> g.pc, start |-> g.start, pages |-> g.pages, got |-> g.got,
                steady |-> g.steady, since |-> g.since]
    <3>1. f = [pc |-> f.pc, start |-> f.start, pages |-> f.pages, got |-> f.got,
               steady |-> f.steady, since |-> f.since]
      BY <2>1 DEF Fetch
    <3>. HIDE DEF f
    <3>2. g = [f EXCEPT !.got = f.got \o SubSeq(pool, f.start + 1, e), !.pages = f.pages + 1,
                        !.start = e, !.pc = IF e <= f.start THEN "store" ELSE "page"]
      BY <3>1 DEF Splice
    <3>. HIDE DEF e, g
    <3>. QED  BY <3>1, <3>2
  <2>4. /\ f.steady \subseteq ToSet(pool) /\ Cardinality(Off(f, pool)) <= version - f.since
        /\ f.since = version => f.start <= Len(pool) /\ f.got = SubSeq(pool, 1, f.start)
    BY <1>1, <2>1 DEF ListsAreRight, Right, OffBy, Prefix
  <2>. HIDE DEF g, f
  <2>5. /\ e \in 0..Len(pool) /\ (e <= f.start => e = Len(pool)) /\ g.got \in Seq(Device)
        /\ Off(g, pool) = Off(f, pool) /\ (e <= f.start => Missed(g) = Off(g, pool))
    <3>1. f.got \in Seq(Device) /\ f.start \in Nat /\ f.steady \subseteq Device
      BY <2>1 DEF Fetch
    <3>. QED  BY <1>1, <2>3, <2>4, <3>1, PageIsRight
  <2>. HIDE DEF e
  <2>6. g \in Fetch
    <3>1. f.pages + 1 \in 0..MaxPages /\ f.steady \subseteq Device /\ f.since \in 0..version
      BY <2>1, ListAssumption DEF Fetch
    <3>2. e \in Nat
      BY <1>1, <2>5
    <3>. QED  BY <2>3, <2>5, <3>1, <3>2 DEF Fetch
  <2>7. ASSUME f.since = version PROVE g.got = SubSeq(pool, 1, e)
    <3>1. f.start \in 0..Len(pool)
      BY <1>1, <2>1, <2>4, <2>7 DEF Fetch
    <3>2. CASE e <= f.start
      <4>1. e = f.start
        BY <1>1, <2>5, <3>1, <3>2
      <4>2. SubSeq(pool, f.start + 1, e) = <<>>
        BY <1>1, <3>1, <4>1, SubSeqEmpty
      <4>3. f.got \in Seq(Device)
        BY <2>1 DEF Fetch
      <4>. QED  BY <2>3, <2>4, <2>7, <4>1, <4>2, <4>3, ConcatEmptySeq
    <3>3. CASE ~ (e <= f.start)
      <4>1. 1 \in 1..(Len(pool) + 1) /\ f.start \in (1 - 1)..Len(pool) /\ e \in f.start..Len(pool)
        BY <1>1, <2>5, <3>1, <3>3
      <4>2. SubSeq(pool, 1, f.start) \o SubSeq(pool, f.start + 1, e) = SubSeq(pool, 1, e)
        BY <1>1, <4>1, ConcatAdjacentSubSeq
      <4>. QED  BY <2>3, <2>4, <2>7, <4>2
    <3>. QED  BY <3>2, <3>3, Zenon
  <2>8. Right(g, pool, version)
    <3>1. /\ g.pc = "store" => e <= f.start /\ e = Len(pool)
          /\ e <= Len(pool)
      BY <1>1, <2>3, <2>5
    <3>2. OffBy(g, pool, version)
      BY <2>3, <2>4, <2>5, <3>1 DEF OffBy
    <3>3. Prefix(g, pool, version)
      BY <2>3, <2>7, <3>1 DEF Prefix
    <3>. QED  BY <3>2, <3>3 DEF Right
  <2>9. cache' \in [fresh : BOOLEAN, list : Seq(Device), since : 0..version]
    BY <1>1, <2>2
  <2>. QED  BY <1>3, <2>2, <2>6, <2>8, <2>9
<1>7. ASSUME NEW c \in ListTasks, FetchFails(c) \/ StoreList(c) PROVE ListInv'
  <2>1. fetch' = [fetch EXCEPT ![c] = NoFetch] /\ UNCHANGED <<pool, version>>
    BY <1>7 DEF FetchFails, StoreList
  <2>2. cache' \in [fresh : BOOLEAN, list : Seq(Device), since : 0..version]
    <3>1. CASE FetchFails(c)
      BY <1>1, <3>1 DEF FetchFails
    <3>2. CASE StoreList(c)
      BY <1>1, <3>2 DEF StoreList, Fetch
    <3>. QED  BY <1>7, <3>1, <3>2
  <2>. QED  BY <1>2, <1>3, <2>1, <2>2, NoneIsRight
<1>8. CASE CacheExpires
  <2>1. UNCHANGED <<pool, version, fetch>>
    BY <1>8 DEF CacheExpires
  <2>2. cache' \in [fresh : BOOLEAN, list : Seq(Device), since : 0..version]
    BY <1>1, <1>8 DEF CacheExpires
  <2>. QED  BY <1>1, <2>1, <2>2 DEF ListInv, ListTypeOK, ListsAreRight
<1>9. CASE ListRestart
  <2>1. /\ UNCHANGED <<pool, version>> /\ fetch' = [c \in ListTasks |-> NoFetch]
        /\ cache' = [fresh |-> FALSE, list |-> <<>>, since |-> 0]
    BY <1>9 DEF ListRestart
  <2>2. ListTypeOK'
    BY <1>1, <1>2, <2>1 DEF ListTypeOK, Fetch
  <2>. QED  BY <2>1, <2>2, NoneIsRight DEF ListInv, ListsAreRight
<1>10. CASE ListEvent
  <2>1. PICK q \in Pools : OneMoves(pool, q) /\ PoolChange(q)
    BY <1>1, <1>10, PoolChanges
  <2>2. /\ pool' = q /\ version' = version + 1 /\ cache' = cache
        /\ fetch' = [c \in ListTasks |-> [fetch[c] EXCEPT !.steady = @ \cap ToSet(q)]]
    BY <2>1 DEF PoolChange
  <2>3. ListTypeOK'
    <3>1. 0..version \subseteq 0..(version + 1)
      BY <1>1
    <3>2. ASSUME NEW c \in ListTasks PROVE fetch'[c] \in Fetch'
      <4>1. fetch[c] \in Fetch
        BY <1>1
      <4>2. fetch'[c] = [fetch[c] EXCEPT !.steady = @ \cap ToSet(q)]
        BY <2>2
      <4>3. fetch[c].steady \cap ToSet(q) \in SUBSET Device
        BY <4>1 DEF Fetch
      <4>. QED  BY <2>2, <3>1, <4>1, <4>2, <4>3 DEF Fetch
    <3>3. fetch' \in [ListTasks -> Fetch']
      <4>1. fetch' = [c \in ListTasks |-> fetch'[c]]
        BY <2>2
      <4>. QED  BY <3>2, <4>1
    <3>4. cache' \in [fresh : BOOLEAN, list : Seq(Device), since : 0..version']
      BY <1>1, <2>2, <3>1
    <3>5. pool' \in Seq(Device) /\ IsInjective(pool') /\ version' \in Nat
      BY <1>1, <2>1, <2>2 DEF Pools
    <3>. QED  BY <3>3, <3>4, <3>5 DEF ListTypeOK, Fetch
  <2>4. ASSUME NEW c \in ListTasks
        PROVE  /\ fetch'[c].pc = fetch[c].pc /\ fetch'[c].since = fetch[c].since
               /\ fetch'[c].start = fetch[c].start /\ fetch'[c].got = fetch[c].got
               /\ fetch'[c].steady = fetch[c].steady \cap ToSet(q)
               /\ fetch[c].since \in 0..version /\ fetch[c].start \in Nat
               /\ IsFiniteSet(fetch[c].steady)
    <3>1. fetch[c] \in Fetch
      BY <1>1
    <3>2. IsFiniteSet(fetch[c].steady)
      BY <3>1, ListAssumption, FS_Subset DEF Fetch
    <3>. QED  BY <2>2, <3>1, <3>2 DEF Fetch
  <2>5. ASSUME NEW c \in ListTasks PROVE OffBy(fetch'[c], q, version + 1)
    <3>. DEFINE f == fetch[c]
                g == fetch'[c]
    <3>1. \A d : Times(g, d) = Times(f, d)
      BY <2>4 DEF Times
    <3>2. f.steady \subseteq ToSet(pool)
      BY <1>1 DEF ListsAreRight, Right, OffBy
    <3>3. ASSUME g.pc = "page" PROVE Cardinality(Off(g, q)) <= (version + 1) - g.since
      <4>1. PICK x : \A d \in ToSet(pool) \cap ToSet(q) :
                       d # x => (d \in Passed(pool, f.start) <=> d \in Passed(q, f.start))
        BY <2>1, <2>4 DEF OneMoves
      <4>2. Off(g, q) \subseteq Off(f, pool) \cup {x}
        BY <2>4, <3>1, <3>2, <4>1 DEF Off
      <4>3. IsFiniteSet(Off(f, pool))
        <5>1. Off(f, pool) \in SUBSET f.steady
          BY DEF Off
        <5>. QED  BY <2>4, <5>1, FS_Subset
      <4>4. /\ IsFiniteSet(Off(f, pool) \cup {x})
            /\ Cardinality(Off(f, pool) \cup {x}) <= Cardinality(Off(f, pool)) + 1
            /\ Cardinality(Off(f, pool)) \in Nat
            /\ Cardinality(Off(f, pool) \cup {x}) \in Nat
        BY <4>3, FS_AddElement, FS_CardinalityType
      <4>5. /\ Cardinality(Off(g, q)) <= Cardinality(Off(f, pool) \cup {x})
            /\ Cardinality(Off(g, q)) \in Nat
        BY <4>2, <4>4, FS_Subset, FS_CardinalityType
      <4>6. Cardinality(Off(f, pool)) <= version - f.since
        BY <1>1, <2>4, <3>3 DEF ListsAreRight, Right, OffBy
      <4>. HIDE DEF f, g
      <4>7. g.since = f.since /\ f.since \in 0..version
        BY <2>4 DEF f, g
      <4>. QED  BY <1>1, <4>4, <4>5, <4>6, <4>7
    <3>4. ASSUME g.pc = "store" PROVE Cardinality(Missed(g)) <= (version + 1) - g.since
      <4>1. Missed(g) \in SUBSET Missed(f) /\ Missed(f) \in SUBSET f.steady
        BY <2>4, <3>1 DEF Missed
      <4>2. IsFiniteSet(Missed(f))
        BY <2>4, <4>1, FS_Subset
      <4>3. /\ Cardinality(Missed(g)) <= Cardinality(Missed(f))
            /\ Cardinality(Missed(g)) \in Nat /\ Cardinality(Missed(f)) \in Nat
        BY <4>1, <4>2, FS_Subset, FS_CardinalityType
      <4>4. Cardinality(Missed(f)) <= version - f.since
        BY <1>1, <2>4, <3>4 DEF ListsAreRight, Right, OffBy
      <4>. HIDE DEF f, g
      <4>5. g.since = f.since /\ f.since \in 0..version
        BY <2>4 DEF f, g
      <4>. QED  BY <1>1, <4>3, <4>4, <4>5
    <3>5. g.steady \subseteq ToSet(q)
      BY <2>4
    <3>. HIDE DEF g
    <3>6. OffBy(g, q, version + 1)
      BY <3>3, <3>4, <3>5, Zenon DEF OffBy
    <3>. QED  BY <3>6 DEF g
  <2>6. ASSUME NEW c \in ListTasks PROVE fetch'[c].since # version + 1
    <3>1. fetch'[c].since \in 0..version
      BY <2>4
    <3>. QED  BY <1>1, <3>1
  <2>7. ListsAreRight'
    <3>1. \A c \in ListTasks : Right(fetch'[c], q, version + 1)
      BY <2>5, <2>6 DEF Right, Prefix
    <3>. QED  BY <2>2, <3>1 DEF ListsAreRight
  <2>. QED  BY <2>3, <2>7 DEF ListInv
<1>. QED  BY <1>4, <1>5, <1>6, <1>7, <1>8, <1>9, <1>10 DEF ListNext, ListStep

(* What a list that is being spliced is at any moment, as long as the node    *)
(* runs.                                                                      *)
THEOREM ListInvariant == Spec => []ListInv
<1>1. Init => ListInv
  BY ListStarts DEF Init
<1>2. ListInv /\ [Next]_vars => ListInv'
  BY ListMoves, ListKeeps
<1>. QED  BY <1>1, <1>2, PTL DEF Spec

(* A device list that is spliced while the network changes misses or doubles  *)
(* at most one of the devices that were there all the time per change, and    *)
(* with no change it is the pool (GapsBounded; devlist_fetch_all), for any    *)
(* number of devices, any page size and any order of changes and pages.       *)
THEOREM GapsStayBounded == Spec => []GapsBounded
<1>1. ListInv => GapsBounded
  <2>. SUFFICES ASSUME ListInv, NEW c \in ListTasks, fetch[c].pc = "store"
                PROVE  /\ Cardinality(Missed(fetch[c])) <= version - fetch[c].since
                       /\ version = fetch[c].since => fetch[c].got = pool
    BY DEF GapsBounded, Missed
  <2>1. pool \in Seq(Device)
    BY DEF ListInv, ListTypeOK
  <2>. QED  BY <2>1, SubSeqFull DEF ListInv, ListsAreRight, Right, OffBy, Prefix
<1>. QED  BY <1>1, ListInvariant, PTL
-----------------------------------------------------------------------------
(***************************************************************************)
(* GroupMirror.                                                            *)
(***************************************************************************)
DgmNext ==
  \/ \E c \in DgmTasks : DgmRequest(c) \/ DgmStep(c)
  \/ DgmEvent \/ DgmRestart

(* What a step of the whole does to the mirror is a step of its own.          *)
LEMMA DgmMoves == [Next]_vars => [DgmNext]_dgmVars
<1>. SUFFICES ASSUME [Next]_vars PROVE DgmNext \/ UNCHANGED dgmVars
  OBVIOUS
<1>1. CASE UNCHANGED vars
  BY <1>1 DEF vars
<1>2. CASE Next
  <2>. USE DEF List, Options, Groups, Mirror, Setting, Secret
  <2>1. ASSUME NEW c \in Api, Call(c) PROVE DgmNext \/ UNCHANGED dgmVars
    BY <2>1, Zenon DEF Call, DgmNext
  <2>2. ASSUME NEW c \in Api, Proceed(c) PROVE DgmNext \/ UNCHANGED dgmVars
    BY <2>2, Zenon DEF Proceed, DgmNext
  <2>3. CASE Environment
    BY <2>3, Zenon DEF Environment, DgmNext
  <2>4. CASE (OptStep /\ Options) \/ (CacheExpires /\ List) \/ (FlushNow /\ Options)
    BY <2>4, Zenon
  <2>5. CASE Restart
    BY <2>5, Zenon DEF DgmNext, Restart
  <2>. QED  BY <1>2, <2>1, <2>2, <2>3, <2>4, <2>5, Zenon DEF Next
<1>. QED  BY <1>1, <1>2

(* A list of groups as the mirror may keep it, of groups in S.                *)
GidList(s, S) ==
  /\ s \in Seq(Gid) /\ Len(s) <= MaxGids
  /\ \A i, j \in 1..Len(s) : s[i] = s[j] => i = j
  /\ \A i \in 1..Len(s) : s[i] \in S

(* A table as the mirror may be, if ever says which groups each device was in.*)
HonestTable(t, ever) ==
  /\ t \in Seq(Entry) /\ Len(t) <= MaxDevs
  /\ \A i, j \in 1..Len(t) : t[i].dev = t[j].dev => i = j
  /\ \A i \in 1..Len(t) : GidList(t[i].gids, ever[t[i].dev]) /\ Len(t[i].gids) > 0

(* A task carries groups its device was in: one to add or to remove, or what  *)
(* the device read back.                                                      *)
HonestJob(job, ever) ==
  job.pc # "idle" =>
    /\ job.pc \in {"add", "remove", "set"}
    /\ job.dev \in DgmDev /\ GidList(job.gids, ever[job.dev])
    /\ job.pc \in {"add", "remove"} => Len(job.gids) = 1

DgmInv ==
  /\ member \in [DgmDev -> SUBSET Gid] /\ everIn \in [DgmDev -> SUBSET Gid]
  /\ \A d \in DgmDev : member[d] \subseteq everIn[d]
  /\ HonestTable(mirror, everIn)
  /\ dgm = [c \in DgmTasks |-> dgm[c]]
  /\ \A c \in DgmTasks : HonestJob(dgm[c], everIn)

-----------------------------------------------------------------------------
(* An entry of the table, in terms of its fields.                             *)
LEMMA EntryShape ==
  /\ \A e \in Entry : e.dev \in DgmDev /\ e.gids \in Seq(Gid)
  /\ \A d \in DgmDev, s \in Seq(Gid) : Len(s) <= MaxGids => [dev |-> d, gids |-> s] \in Entry
<1>1. \A s : s \in SeqOf(Gid, MaxGids) => s \in Seq(Gid)
  <2>. SUFFICES ASSUME NEW s, NEW m \in 0..MaxGids, s \in [1..m -> Gid] PROVE s \in Seq(Gid)
    BY DgmAssumption DEF SeqOf
  <2>. QED  BY DgmAssumption
<1>2. \A s \in Seq(Gid) : Len(s) <= MaxGids => s \in SeqOf(Gid, MaxGids)
  <2>. SUFFICES ASSUME NEW s \in Seq(Gid), Len(s) <= MaxGids
                PROVE  \E m \in 0..MaxGids : s \in [1..m -> Gid]
    BY DEF SeqOf
  <2>1. Len(s) \in 0..MaxGids /\ s \in [1..Len(s) -> Gid]
    BY DgmAssumption, LenProperties
  <2>. QED  BY <2>1
<1>. QED  BY <1>1, <1>2 DEF Entry

(* Entries of a table are found where they are.                               *)
LEMMA Found ==
  ASSUME NEW t \in Seq(Entry), NEW d, At(t, d) # {}
  PROVE  Find(t, d) \in 1..Len(t) /\ t[Find(t, d)].dev = d
<1>1. Find(t, d) \in At(t, d)
  BY DEF Find
<1>. QED  BY <1>1 DEF At

(* Forgetting a device keeps the others, each once.                           *)
LEMMA ForgetIsHonest ==
  ASSUME NEW ever, NEW t, HonestTable(t, ever), NEW d
  PROVE  /\ HonestTable(TblForget(t, d), ever)
         /\ \A i \in 1..Len(TblForget(t, d)) : TblForget(t, d)[i].dev # d
<1>0. t \in Seq(Entry) /\ Len(t) \in Nat /\ DOMAIN t = 1..Len(t)
  BY DEF HonestTable
<1>1. CASE At(t, d) = {}
  BY <1>0, <1>1 DEF TblForget, At
<1>2. CASE At(t, d) # {}
  <2>. DEFINE k == Find(t, d)
              r == [t EXCEPT ![k] = t[Len(t)]]
              f == SubSeq(r, 1, Len(r) - 1)
  <2>1. k \in 1..Len(t) /\ t[k].dev = d
    BY <1>0, <1>2, Found
  <2>2. TblForget(t, d) = f
    BY <1>2 DEF TblForget, Front, ReplaceAt, Last
  <2>. HIDE DEF k
  <2>3. /\ r \in Seq(Entry) /\ Len(r) = Len(t)
        /\ \A i \in 1..Len(t) : r[i] = t[IF i = k THEN Len(t) ELSE i]
    BY <1>0, <2>1
  <2>. HIDE DEF r
  <2>4. /\ f \in Seq(Entry) /\ Len(f) = Len(t) - 1
        /\ \A i \in 1..(Len(t) - 1) : f[i] = t[IF i = k THEN Len(t) ELSE i]
    <3>1. \A i \in 1..(Len(r) - 1) : r[i] \in Entry
      BY <1>0, <2>3
    <3>. QED  BY <1>0, <2>1, <2>3, <3>1, SubSeqProperties
  <2>. HIDE DEF f
  <2>5. \A i, j \in 1..Len(f) : f[i].dev = f[j].dev => i = j
    <3>. SUFFICES ASSUME NEW i \in 1..Len(f), NEW j \in 1..Len(f), f[i].dev = f[j].dev
                  PROVE  i = j
      OBVIOUS
    <3>. DEFINE a == IF i = k THEN Len(t) ELSE i
                b == IF j = k THEN Len(t) ELSE j
    <3>1. a \in 1..Len(t) /\ b \in 1..Len(t) /\ f[i] = t[a] /\ f[j] = t[b]
      BY <1>0, <2>1, <2>4
    <3>2. a = b => i = j
      BY <1>0, <2>1, <2>4
    <3>. HIDE DEF a, b
    <3>. QED  BY <3>1, <3>2 DEF HonestTable
  <2>6. \A i \in 1..Len(f) : \E a \in 1..Len(t) : a # k /\ f[i] = t[a]
    <3>. SUFFICES ASSUME NEW i \in 1..Len(f) PROVE \E a \in 1..Len(t) : a # k /\ f[i] = t[a]
      OBVIOUS
    <3>1. CASE i = k
      BY <1>0, <2>1, <2>4, <3>1
    <3>2. CASE i # k
      BY <1>0, <2>1, <2>4, <3>2
    <3>. QED  BY <3>1, <3>2
  <2>7. Len(f) <= MaxDevs
    BY <1>0, <2>4, DgmAssumption DEF HonestTable
  <2>8. \A i \in 1..Len(f) : f[i].dev # d
    BY <2>1, <2>6 DEF HonestTable
  <2>. QED  BY <2>2, <2>4, <2>5, <2>6, <2>7, <2>8 DEF HonestTable
<1>. QED  BY <1>1, <1>2

(* A further entry, of a device that has none, is honest if its groups are.   *)
LEMMA AnotherIsHonest ==
  ASSUME NEW ever, NEW t, HonestTable(t, ever), Len(t) < MaxDevs,
         NEW d \in DgmDev, \A i \in 1..Len(t) : t[i].dev # d,
         NEW s, GidList(s, ever[d]), Len(s) > 0
  PROVE  HonestTable(Append(t, [dev |-> d, gids |-> s]), ever)
<1>. DEFINE e == [dev |-> d, gids |-> s]
            u == Append(t, e)
<1>1. e \in Entry /\ e.dev = d /\ e.gids = s
  BY EntryShape DEF GidList
<1>. HIDE DEF e
<1>2. /\ u \in Seq(Entry) /\ Len(u) = Len(t) + 1 /\ Len(t) \in Nat
      /\ \A i \in 1..Len(t) : u[i] = t[i]
      /\ u[Len(t) + 1] = e
  BY <1>1, AppendProperties DEF HonestTable
<1>. HIDE DEF u
<1>3. \A i, j \in 1..Len(u) : u[i].dev = u[j].dev => i = j
  BY <1>1, <1>2 DEF HonestTable
<1>4. \A i \in 1..Len(u) : GidList(u[i].gids, ever[u[i].dev]) /\ Len(u[i].gids) > 0
  <2>. SUFFICES ASSUME NEW i \in 1..Len(u)
                PROVE  GidList(u[i].gids, ever[u[i].dev]) /\ Len(u[i].gids) > 0
    OBVIOUS
  <2>1. CASE i = Len(t) + 1
    BY <1>1, <1>2, <2>1
  <2>2. CASE i \in 1..Len(t)
    BY <1>2, <2>2 DEF HonestTable
  <2>. QED  BY <1>2, <2>1, <2>2
<1>5. Len(u) <= MaxDevs
  BY <1>2, DgmAssumption
<1>6. HonestTable(u, ever)
  BY <1>2, <1>3, <1>4, <1>5 DEF HonestTable
<1>. QED  BY <1>6 DEF u, e

(* An entry whose groups change stays honest if the new groups are.           *)
LEMMA ChangedIsHonest ==
  ASSUME NEW ever, NEW t, HonestTable(t, ever), NEW k \in 1..Len(t),
         NEW s, GidList(s, ever[t[k].dev]), Len(s) > 0
  PROVE  HonestTable([t EXCEPT ![k].gids = s], ever)
<1>. DEFINE e == [t[k] EXCEPT !.gids = s]
            u == [t EXCEPT ![k] = e]
<1>0. t \in Seq(Entry) /\ Len(t) \in Nat
  BY DEF HonestTable
<1>1. t[k] \in Entry
  BY <1>0
<1>2. t[k] = [dev |-> t[k].dev, gids |-> t[k].gids] /\ t[k].dev \in DgmDev
  BY <1>1 DEF Entry
<1>3. e = [dev |-> t[k].dev, gids |-> s]
  BY <1>2
<1>4. e \in Entry /\ e.dev = t[k].dev /\ e.gids = s
  BY <1>2, <1>3, EntryShape DEF GidList
<1>. HIDE DEF e
<1>5. /\ u \in Seq(Entry) /\ Len(u) = Len(t)
      /\ \A i \in 1..Len(t) : u[i] = IF i = k THEN e ELSE t[i]
  BY <1>0, <1>4, ExceptSeq
<1>. HIDE DEF u
<1>6. \A i \in 1..Len(u) : u[i].dev = t[i].dev
  BY <1>4, <1>5
<1>7. \A i \in 1..Len(u) : GidList(u[i].gids, ever[u[i].dev]) /\ Len(u[i].gids) > 0
  <2>. SUFFICES ASSUME NEW i \in 1..Len(u)
                PROVE  GidList(u[i].gids, ever[u[i].dev]) /\ Len(u[i].gids) > 0
    OBVIOUS
  <2>1. CASE i = k
    BY <1>4, <1>5, <2>1
  <2>2. CASE i # k
    BY <1>5, <2>2 DEF HonestTable
  <2>. QED  BY <2>1, <2>2
<1>8. HonestTable(u, ever)
  BY <1>5, <1>6, <1>7 DEF HonestTable
<1>9. [t EXCEPT ![k].gids = s] = u
  BY DEF u, e
<1>. QED  BY <1>8, <1>9

(* Adding a group its device was in keeps the table honest, full or not       *)
(* (dgm_tbl_add).                                                             *)
LEMMA AddIsHonest ==
  ASSUME NEW ever, NEW t, HonestTable(t, ever), NEW d \in DgmDev,
         NEW g \in Gid, g \in ever[d]
  PROVE  HonestTable(TblAdd(t, d, g), ever)
<1>0. t \in Seq(Entry) /\ Len(t) \in Nat /\ DOMAIN t = 1..Len(t)
  BY DEF HonestTable
<1>1. CASE At(t, d) # {}
  <2>. DEFINE k == Find(t, d)
              old == t[k].gids
              s == Append(old, g)
  <2>1. k \in 1..Len(t) /\ t[k].dev = d
    BY <1>0, <1>1, Found
  <2>2. CASE Contains(old, g) \/ Len(old) >= MaxGids
    BY <1>1, <2>2 DEF TblAdd
  <2>3. CASE ~ (Contains(old, g) \/ Len(old) >= MaxGids)
    <3>1. TblAdd(t, d, g) = [t EXCEPT ![k].gids = s]
      BY <1>1, <2>3 DEF TblAdd
    <3>. HIDE DEF k
    <3>2. GidList(old, ever[d])
      BY <2>1 DEF HonestTable
    <3>. HIDE DEF old
    <3>3. /\ s \in Seq(Gid) /\ Len(s) = Len(old) + 1 /\ Len(old) \in Nat
          /\ \A i \in 1..Len(old) : s[i] = old[i]
          /\ s[Len(old) + 1] = g
      BY <3>2, AppendProperties DEF GidList
    <3>. HIDE DEF s
    <3>4. \A i \in 1..Len(old) : old[i] # g
      BY <2>3 DEF Contains
    <3>5. GidList(s, ever[d]) /\ Len(s) > 0
      BY <2>3, <3>2, <3>3, <3>4, DgmAssumption DEF GidList
    <3>6. k \in 1..Len(t) /\ GidList(s, ever[t[k].dev])
      BY <2>1, <3>5
    <3>7. HonestTable([t EXCEPT ![k].gids = s], ever)
      BY <3>5, <3>6, ChangedIsHonest
    <3>. QED  BY <3>1, <3>7 DEF k
  <2>. QED  BY <2>2, <2>3
<1>2. CASE At(t, d) = {}
  <2>1. CASE Len(t) >= MaxDevs
    BY <1>2, <2>1 DEF TblAdd
  <2>2. CASE Len(t) < MaxDevs
    <3>1. TblAdd(t, d, g) = Append(t, [dev |-> d, gids |-> <<g>>])
      BY <1>0, <1>2, <2>2, DgmAssumption DEF TblAdd
    <3>2. \A i \in 1..Len(t) : t[i].dev # d
      BY <1>0, <1>2 DEF At
    <3>3. GidList(<<g>>, ever[d]) /\ Len(<<g>>) > 0
      BY DgmAssumption DEF GidList
    <3>. QED  BY <2>2, <3>1, <3>2, <3>3, AnotherIsHonest
  <2>. QED  BY <1>0, <2>1, <2>2, DgmAssumption
<1>. QED  BY <1>1, <1>2

(* A list without the group at one of its places.                             *)
LEMMA OneLess ==
  ASSUME NEW S, NEW s, GidList(s, S), Len(s) > 1, NEW j \in 1..Len(s)
  PROVE  GidList(RemoveAt(s, j), S) /\ Len(RemoveAt(s, j)) > 0
<1>. DEFINE a == SubSeq(s, 1, j - 1)
            b == SubSeq(s, j + 1, Len(s))
            r == a \o b
            from(i) == IF i < j THEN i ELSE i + 1
<1>0. s \in Seq(Gid) /\ Len(s) \in Nat /\ \A i \in 1..Len(s) : s[i] \in Gid
  BY DEF GidList
<1>1. a \in Seq(Gid) /\ Len(a) = j - 1 /\ \A i \in 1..(j - 1) : a[i] = s[i]
  <2>1. \A i \in 1..(j - 1) : s[i] \in Gid
    BY <1>0
  <2>2. /\ a \in Seq(Gid) /\ Len(a) = IF 1 <= j - 1 THEN (j - 1) - 1 + 1 ELSE 0
        /\ \A i \in 1..((j - 1) - 1 + 1) : a[i] = s[1 + i - 1]
    BY <1>0, <2>1, SubSeqProperties
  <2>. HIDE DEF a
  <2>. QED  BY <1>0, <2>2
<1>2. b \in Seq(Gid) /\ Len(b) = Len(s) - j /\ \A i \in 1..(Len(s) - j) : b[i] = s[j + i]
  <2>1. \A i \in (j + 1)..Len(s) : s[i] \in Gid
    BY <1>0
  <2>2. /\ b \in Seq(Gid) /\ Len(b) = IF j + 1 <= Len(s) THEN Len(s) - (j + 1) + 1 ELSE 0
        /\ \A i \in 1..(Len(s) - (j + 1) + 1) : b[i] = s[j + 1 + i - 1]
    BY <1>0, <2>1, SubSeqProperties
  <2>. HIDE DEF b
  <2>. QED  BY <1>0, <2>2
<1>. HIDE DEF a, b
<1>3. /\ r \in Seq(Gid) /\ Len(r) = Len(a) + Len(b)
      /\ \A i \in 1..(Len(a) + Len(b)) : r[i] = IF i <= Len(a) THEN a[i] ELSE b[i - Len(a)]
  BY <1>1, <1>2, ConcatProperties
<1>. HIDE DEF r
<1>4. Len(r) = Len(s) - 1
  BY <1>0, <1>1, <1>2, <1>3
<1>5. ASSUME NEW i \in 1..Len(r)
      PROVE  from(i) \in 1..Len(s) /\ r[i] = s[from(i)]
  <2>1. CASE i < j
    BY <1>0, <1>1, <1>2, <1>3, <1>4, <2>1
  <2>2. CASE i >= j
    <3>1. i - (j - 1) \in 1..(Len(s) - j) /\ ~ (i <= j - 1)
      BY <1>0, <1>4, <2>2
    <3>2. r[i] = b[i - (j - 1)]
      BY <1>0, <1>1, <1>2, <1>3, <1>4, <3>1
    <3>3. b[i - (j - 1)] = s[j + (i - (j - 1))] /\ j + (i - (j - 1)) = i + 1
      BY <1>0, <1>2, <1>4, <3>1
    <3>. QED  BY <1>0, <1>4, <2>2, <3>2, <3>3
  <2>. QED  BY <1>0, <1>4, <2>1, <2>2
<1>6. ASSUME NEW i \in 1..Len(r), NEW k \in 1..Len(r), from(i) = from(k) PROVE i = k
  BY <1>0, <1>4, <1>6
<1>. HIDE DEF from
<1>7. GidList(r, S)
  BY <1>0, <1>3, <1>4, <1>5, <1>6, DgmAssumption DEF GidList
<1>8. Len(r) > 0
  BY <1>0, <1>4
<1>. QED  BY <1>7, <1>8 DEF RemoveAt, r, a, b

(* Removing a group keeps the table honest: without its last group the entry  *)
(* goes as well (dgm_tbl_remove).                                             *)
LEMMA RemoveIsHonest ==
  ASSUME NEW ever, NEW t, HonestTable(t, ever), NEW d, NEW g
  PROVE  HonestTable(TblRemove(t, d, g), ever)
<1>0. t \in Seq(Entry) /\ Len(t) \in Nat /\ DOMAIN t = 1..Len(t)
  BY DEF HonestTable
<1>. DEFINE gids == TblList(t, d)
            First(k) == gids[k] = g /\ \A m \in DOMAIN gids : m < k => gids[m] # g
            j == CHOOSE k \in DOMAIN gids : First(k)
<1>1. CASE ~ Contains(gids, g)
  BY <1>1 DEF TblRemove
<1>2. CASE Contains(gids, g)
  <2>1. PICK x \in 1..Len(gids) : gids[x] = g
    BY <1>2 DEF Contains
  <2>2. At(t, d) # {}
    BY <2>1 DEF TblList
  <2>3. Find(t, d) \in 1..Len(t) /\ t[Find(t, d)].dev = d /\ gids = t[Find(t, d)].gids
    BY <1>0, <2>2, Found DEF TblList
  <2>4. GidList(gids, ever[d])
    BY <2>3 DEF HonestTable
  <2>5. DOMAIN gids = 1..Len(gids) /\ Len(gids) \in Nat
    BY <2>4 DEF GidList
  <2>6. CASE Len(gids) = 1
    BY <1>2, <2>6, ForgetIsHonest DEF TblRemove
  <2>7. CASE Len(gids) # 1
    <3>1. TblRemove(t, d, g) = [t EXCEPT ![Find(t, d)].gids = RemoveAt(gids, j)]
      BY <1>2, <2>7 DEF TblRemove
    <3>. HIDE DEF gids
    <3>2. First(x)
      BY <2>1, <2>4, <2>5 DEF GidList
    <3>3. j \in 1..Len(gids)
      <4>. HIDE DEF First
      <4>. QED  BY <2>1, <2>5, <3>2
    <3>. HIDE DEF j
    <3>4. Len(gids) > 1
      BY <2>1, <2>5, <2>7
    <3>5. GidList(RemoveAt(gids, j), ever[d]) /\ Len(RemoveAt(gids, j)) > 0
      BY <2>4, <3>3, <3>4, OneLess
    <3>6. HonestTable([t EXCEPT ![Find(t, d)].gids = RemoveAt(gids, j)], ever)
      BY <2>3, <3>5, ChangedIsHonest
    <3>. QED  BY <3>1, <3>6 DEF j, gids
  <2>. QED  BY <2>6, <2>7
<1>. QED  BY <1>1, <1>2

(* What the device read back takes the place of its entry (dgm_tbl_set).      *)
LEMMA SetIsHonest ==
  ASSUME NEW ever, NEW t, HonestTable(t, ever), NEW d \in DgmDev, NEW s, GidList(s, ever[d])
  PROVE  HonestTable(TblSet(t, d, s), ever)
<1>. DEFINE rest == TblForget(t, d)
<1>1. HonestTable(rest, ever) /\ \A i \in 1..Len(rest) : rest[i].dev # d
  BY ForgetIsHonest
<1>. HIDE DEF rest
<1>2. CASE s = <<>> \/ Len(rest) >= MaxDevs
  BY <1>1, <1>2 DEF TblSet, rest
<1>3. CASE ~ (s = <<>> \/ Len(rest) >= MaxDevs)
  <2>1. TblSet(t, d, s) = Append(rest, [dev |-> d, gids |-> s])
    BY <1>3 DEF TblSet, rest
  <2>2. Len(rest) < MaxDevs /\ Len(s) > 0
    BY <1>1, <1>3, DgmAssumption, EmptySeq DEF HonestTable, GidList
  <2>. QED  BY <1>1, <2>1, <2>2, AnotherIsHonest
<1>. QED  BY <1>2, <1>3

-----------------------------------------------------------------------------
(* What was honest stays so when devices join groups.                         *)
LEMMA MoreIsHonest ==
  ASSUME everIn \in [DgmDev -> SUBSET Gid], NEW d \in DgmDev, NEW g \in Gid,
         everIn' = [everIn EXCEPT ![d] = @ \cup {g}]
  PROVE  /\ HonestTable(mirror, everIn) => HonestTable(mirror, everIn')
         /\ \A job : HonestJob(job, everIn) => HonestJob(job, everIn')
<1>1. \A x \in DgmDev : everIn[x] \subseteq everIn'[x]
  OBVIOUS
<1>2. \A x \in DgmDev : \A s : GidList(s, everIn[x]) => GidList(s, everIn'[x])
  BY <1>1 DEF GidList
<1>3. \A t \in Seq(Entry) : \A i \in 1..Len(t) : t[i].dev \in DgmDev
  BY EntryShape
<1>. QED  BY <1>2, <1>3 DEF HonestTable, HonestJob

(* The read-back of a device names groups it is in, each once.                *)
LEMMA ReadBack ==
  ASSUME NEW S \in SUBSET Gid, NEW read \in SetToSeqs(S)
  PROVE  GidList(SubSeq(read, 1, IF Len(read) < MaxGids THEN Len(read) ELSE MaxGids), S)
<1>. DEFINE n == Cardinality(S)
            m == IF Len(read) < MaxGids THEN Len(read) ELSE MaxGids
            r == SubSeq(read, 1, m)
<1>1. n \in Nat
  <2>1. IsFiniteSet(S)
    BY DgmAssumption, FS_Subset
  <2>. QED  BY <2>1, FS_CardinalityType
<1>2. read \in [1..n -> S] /\ \A i, j \in 1..n : i # j => read[i] # read[j]
  BY DEF SetToSeqs
<1>. HIDE DEF n
<1>3. Len(read) = n
  BY <1>1, <1>2
<1>4. m \in 0..n /\ m <= MaxGids
  BY <1>1, <1>3, DgmAssumption
<1>. HIDE DEF m
<1>5. /\ r \in Seq(Gid) /\ Len(r) = m
      /\ \A i \in 1..m : r[i] = read[i]
  <2>1. \A i \in 1..m : read[i] \in Gid
    BY <1>1, <1>2, <1>4
  <2>2. /\ r \in Seq(Gid) /\ Len(r) = IF 1 <= m THEN m - 1 + 1 ELSE 0
        /\ \A i \in 1..(m - 1 + 1) : r[i] = read[1 + i - 1]
    BY <1>1, <1>4, <2>1, SubSeqProperties
  <2>. HIDE DEF r
  <2>. QED  BY <1>1, <1>4, <2>2
<1>. HIDE DEF r
<1>6. GidList(r, S)
  BY <1>1, <1>2, <1>4, <1>5, DgmAssumption DEF GidList
<1>. QED  BY <1>6 DEF r, m

(* Initially the mirror is empty and no task has a job.                       *)
LEMMA DgmStarts == DgmInit => DgmInv
  BY DgmAssumption DEF DgmInit, DgmInv, HonestTable, HonestJob, NoJob

(* The tasks stay the ones they are.                                          *)
LEMMA DgmTasksStay ==
  ASSUME DgmInv, [DgmNext]_dgmVars
  PROVE  dgm' = [c \in DgmTasks |-> dgm'[c]]
<1>. DEFINE OfTasks(f) == f = [c \in DgmTasks |-> f[c]]
<1>1. OfTasks(dgm)
  BY DEF DgmInv
<1>2. ASSUME NEW c, NEW j PROVE OfTasks([dgm EXCEPT ![c] = j])
  BY <1>1
<1>3. ASSUME NEW c \in DgmTasks, NEW d, NEW g, SendAdd(c, d, g) \/ SendRemove(c, d, g)
      PROVE  OfTasks(dgm')
  BY <1>1, <1>2, <1>3 DEF SendAdd, SendRemove, DgmGoto
<1>4. ASSUME NEW c \in DgmTasks, NEW d, Query(c, d) PROVE OfTasks(dgm')
  BY <1>2, <1>4 DEF Query, DgmGoto
<1>5. ASSUME NEW c \in DgmTasks, DgmStep(c) PROVE OfTasks(dgm')
  BY <1>2, <1>5 DEF DgmStep, MirrorAdd, MirrorRemove, MirrorSet
<1>6. CASE DgmRestart
  BY <1>6 DEF DgmRestart
<1>7. CASE DgmEvent \/ UNCHANGED dgmVars
  <2>1. dgm' = dgm
    BY <1>7 DEF DgmEvent, DeviceReset, dgmVars
  <2>. QED  BY <1>1, <2>1
<1>. QED  BY <1>3, <1>4, <1>5, <1>6, <1>7 DEF DgmNext, DgmRequest

(* Every step keeps the mirror honest.                                        *)
LEMMA DgmKeeps == DgmInv /\ [DgmNext]_dgmVars => DgmInv'
<1>. SUFFICES ASSUME DgmInv, [DgmNext]_dgmVars PROVE DgmInv'
  OBVIOUS
<1>0. dgm' = [c \in DgmTasks |-> dgm'[c]]
  BY DgmTasksStay
<1>1. CASE UNCHANGED dgmVars
  BY <1>1, Zenon DEF dgmVars, DgmInv
<1>2. ASSUME NEW c \in DgmTasks, NEW d \in DgmDev, Query(c, d) PROVE DgmInv'
  <2>1. PICK read \in SetToSeqs(member[d]) :
          DgmGoto(c, "set", d, SubSeq(read, 1, IF Len(read) < MaxGids THEN Len(read) ELSE MaxGids))
    BY <1>2 DEF Query
  <2>. DEFINE s == SubSeq(read, 1, IF Len(read) < MaxGids THEN Len(read) ELSE MaxGids)
  <2>2. GidList(s, member[d])
    BY ReadBack DEF DgmInv
  <2>3. DgmGoto(c, "set", d, s)
    BY <2>1
  <2>. HIDE DEF s
  <2>4. GidList(s, everIn[d])
    BY <2>2 DEF GidList, DgmInv
  <2>5. HonestJob([pc |-> "set", dev |-> d, gids |-> s], everIn)
    BY <2>4 DEF HonestJob
  <2>6. \A x \in DgmTasks : dgm'[x] = dgm[x] \/ dgm'[x] = [pc |-> "set", dev |-> d, gids |-> s]
    BY <2>3 DEF DgmGoto, DgmInv
  <2>. QED  BY <1>0, <1>2, <2>5, <2>6 DEF Query, DgmInv
<1>3. ASSUME NEW c \in DgmTasks, NEW d \in DgmDev, NEW g \in Gid, SendAdd(c, d, g) PROVE DgmInv'
  <2>1. Joins(d, g) /\ mirror' = mirror
        /\ (DgmGoto(c, "add", d, <<g>>) \/ dgm' = dgm)
    BY <1>3 DEF SendAdd
  <2>2. /\ everIn' \in [DgmDev -> SUBSET Gid] /\ member' \in [DgmDev -> SUBSET Gid]
        /\ \A x \in DgmDev : member'[x] \subseteq everIn'[x]
        /\ g \in everIn'[d]
    BY <2>1 DEF DgmInv, Joins
  <2>3. /\ HonestTable(mirror, everIn')
        /\ \A x \in DgmTasks : HonestJob(dgm[x], everIn')
    BY <2>1, MoreIsHonest DEF DgmInv, Joins
  <2>4. GidList(<<g>>, everIn'[d]) /\ Len(<<g>>) = 1
    BY <2>2, DgmAssumption DEF GidList
  <2>5. HonestJob([pc |-> "add", dev |-> d, gids |-> <<g>>], everIn')
    BY <2>4 DEF HonestJob
  <2>6. \A x \in DgmTasks : dgm'[x] = dgm[x] \/ dgm'[x] = [pc |-> "add", dev |-> d, gids |-> <<g>>]
    BY <2>1 DEF DgmGoto, DgmInv
  <2>. QED  BY <1>0, <2>1, <2>2, <2>3, <2>5, <2>6 DEF DgmInv
<1>4. ASSUME NEW c \in DgmTasks, NEW d \in DgmDev, NEW g \in Gid, SendRemove(c, d, g) PROVE DgmInv'
  <2>1. /\ member' = [member EXCEPT ![d] = @ \ {g}] /\ g \in member[d]
        /\ everIn' = everIn /\ mirror' = mirror
        /\ (DgmGoto(c, "remove", d, <<g>>) \/ dgm' = dgm)
    BY <1>4 DEF SendRemove
  <2>2. /\ member' \in [DgmDev -> SUBSET Gid] /\ g \in everIn[d]
        /\ \A x \in DgmDev : member'[x] \subseteq everIn[x]
    BY <2>1 DEF DgmInv
  <2>3. GidList(<<g>>, everIn[d]) /\ Len(<<g>>) = 1
    BY <2>2, DgmAssumption DEF GidList
  <2>4. HonestJob([pc |-> "remove", dev |-> d, gids |-> <<g>>], everIn)
    BY <2>3 DEF HonestJob
  <2>5. \A x \in DgmTasks : dgm'[x] = dgm[x] \/ dgm'[x] = [pc |-> "remove", dev |-> d, gids |-> <<g>>]
    BY <2>1 DEF DgmGoto, DgmInv
  <2>. QED  BY <1>0, <2>1, <2>2, <2>4, <2>5 DEF DgmInv
<1>5. ASSUME NEW c \in DgmTasks, DgmStep(c) PROVE DgmInv'
  <2>. DEFINE job == dgm[c]
  <2>1. \A x \in DgmTasks : dgm'[x] = dgm[x] \/ dgm'[x].pc = "idle"
    BY <1>5 DEF DgmStep, MirrorAdd, MirrorRemove, MirrorSet, NoJob, DgmInv
  <2>2. \A x \in DgmTasks : HonestJob(dgm'[x], everIn)
    BY <1>0, <2>1 DEF DgmInv, HonestJob
  <2>3. member' = member /\ everIn' = everIn
    BY <1>5 DEF DgmStep, MirrorAdd, MirrorRemove, MirrorSet
  <2>4. HonestJob(job, everIn) /\ HonestTable(mirror, everIn)
    BY DEF DgmInv
  <2>5. CASE MirrorAdd(c)
    <3>1. job.pc = "add" /\ mirror' \in {mirror, TblAdd(mirror, job.dev, Head(job.gids))}
      BY <2>5 DEF MirrorAdd, Save
    <3>2. job.dev \in DgmDev /\ Head(job.gids) \in Gid /\ Head(job.gids) \in everIn[job.dev]
      BY <2>4, <3>1 DEF HonestJob, GidList
    <3>3. HonestTable(mirror', everIn)
      BY <2>4, <3>1, <3>2, AddIsHonest
    <3>. QED  BY <1>0, <2>2, <2>3, <3>3 DEF DgmInv
  <2>6. CASE MirrorRemove(c)
    <3>1. mirror' \in {mirror, TblRemove(mirror, job.dev, Head(job.gids))}
      BY <2>6 DEF MirrorRemove, Save
    <3>2. HonestTable(mirror', everIn)
      BY <2>4, <3>1, RemoveIsHonest
    <3>. QED  BY <1>0, <2>2, <2>3, <3>2 DEF DgmInv
  <2>7. CASE MirrorSet(c)
    <3>1. job.pc = "set" /\ mirror' \in {mirror, TblSet(mirror, job.dev, job.gids)}
      BY <2>7 DEF MirrorSet, Save
    <3>2. job.dev \in DgmDev /\ GidList(job.gids, everIn[job.dev])
      BY <2>4, <3>1 DEF HonestJob
    <3>3. HonestTable(mirror', everIn)
      BY <2>4, <3>1, <3>2, SetIsHonest
    <3>. QED  BY <1>0, <2>2, <2>3, <3>3 DEF DgmInv
  <2>. QED  BY <1>5, <2>5, <2>6, <2>7 DEF DgmStep
<1>6. ASSUME NEW d \in DgmDev, DeviceReset(d) PROVE DgmInv'
  <2>1. member' = [member EXCEPT ![d] = {}] /\ UNCHANGED <<everIn, mirror, dgm>>
    BY <1>6 DEF DeviceReset
  <2>. QED  BY <2>1 DEF DgmInv
<1>7. CASE DgmRestart
  <2>1. UNCHANGED <<member, everIn, mirror>> /\ \A c \in DgmTasks : dgm'[c].pc = "idle"
    BY <1>7 DEF DgmRestart, NoJob
  <2>. QED  BY <1>0, <2>1 DEF DgmInv, HonestJob
<1>. QED  BY <1>1, <1>2, <1>3, <1>4, <1>5, <1>6, <1>7 DEF DgmNext, DgmRequest, DgmEvent

(* What the mirror and the tasks at work on it are at any moment, as long as  *)
(* the node runs.                                                             *)
THEOREM MirrorInvariant == Spec => []DgmInv
<1>1. Init => DgmInv
  BY DgmStarts DEF Init
<1>2. DgmInv /\ [Next]_vars => DgmInv'
  BY DgmMoves, DgmKeeps
<1>. QED  BY <1>1, <1>2, PTL DEF Spec

(* The mirror lists no group that its device was never in, each device and    *)
(* each of its groups once, and no device without a group, through adds,      *)
(* removals and refreshes of any number of tasks, failed saves, lost answers  *)
(* and restarts (MirrorHonest; dgm_store).                                    *)
THEOREM MirrorStaysHonest == Spec => []MirrorHonest
<1>1. DgmInv => MirrorHonest
  <2>. SUFFICES ASSUME HonestTable(mirror, everIn) PROVE MirrorHonest
    BY DEF DgmInv
  <2>1. DOMAIN mirror = 1..Len(mirror)
    BY DEF HonestTable
  <2>2. ASSUME NEW i \in 1..Len(mirror)
        PROVE  /\ mirror[i].gids # <<>> /\ IsInjective(mirror[i].gids)
               /\ ToSet(mirror[i].gids) \subseteq everIn[mirror[i].dev]
    <3>1. GidList(mirror[i].gids, everIn[mirror[i].dev]) /\ Len(mirror[i].gids) > 0
      BY DEF HonestTable
    <3>2. DOMAIN mirror[i].gids = 1..Len(mirror[i].gids)
      BY <3>1 DEF GidList
    <3>3. mirror[i].gids # <<>>
      BY <3>1
    <3>. QED  BY <3>1, <3>2, <3>3 DEF GidList, IsInjective, ToSet
  <2>. QED  BY <2>1, <2>2 DEF HonestTable, MirrorHonest
<1>. QED  BY <1>1, MirrorInvariant, PTL
=============================================================================
