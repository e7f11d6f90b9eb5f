---------------------------- MODULE GroupMirror ----------------------------
(* The mirror of the groups each Zigbee device is in: main/dgm_store.cpp and *)
(* the device.groups.* handlers of main/api_devices.cpp.  The device has the *)
(* table itself; the mirror follows what the device confirmed, and a refresh *)
(* replaces it by what the device reads back.  Command and mirror are two    *)
(* steps of a task; an operation on the mirror (load, change, save) is one,  *)
(* under the store lock.                                                     *)
EXTENDS Naturals, Sequences, SequencesExt, FiniteSets

CONSTANTS
    DgmTasks,       \* tasks that serve device.groups.* (httpd, task_remote)
    DgmDev,         \* devices
    Gid,            \* group numbers
    MaxGids,        \* DGM_MAX_GIDS
    MaxDevs         \* DGM_MAX_DEVS

ASSUME DgmAssumption ==
    MaxGids \in Nat \ {0} /\ MaxDevs \in Nat /\ IsFiniteSet(Gid)

VARIABLES
    member,     \* the groups each device is in, as the device has them
    everIn,     \* those it was ever in (history)
    mirror,     \* the table of dgm_store: entries [dev, gids] in order
    dgm         \* what each task is in the middle of

dgmVars == <<member, everIn, mirror, dgm>>

Entry == [dev : DgmDev, gids : SeqOf(Gid, MaxGids)]
NoJob == [pc |-> "idle", dev |-> CHOOSE d \in DgmDev : TRUE, gids |-> <<>>]

DgmTypeOK ==
    /\ member \in [DgmDev -> SUBSET Gid] /\ everIn \in [DgmDev -> SUBSET Gid]
    /\ mirror \in Seq(Entry) /\ Len(mirror) <= MaxDevs
    /\ \A c \in DgmTasks : dgm[c].pc \in {"idle", "add", "remove", "set"}

DgmInit ==
    /\ member = [d \in DgmDev |-> {}] /\ everIn = member
    /\ mirror = <<>>
    /\ dgm = [c \in DgmTasks |-> NoJob]

(***************************************************************************)
(* The table operations.                                                    *)
(***************************************************************************)
At(t, d) == {i \in DOMAIN t : t[i].dev = d}
Find(t, d) == CHOOSE i \in At(t, d) : TRUE
TblList(t, d) == IF At(t, d) = {} THEN <<>> ELSE t[Find(t, d)].gids

TblAdd(t, d, g) ==
    IF At(t, d) # {}
    THEN LET i == Find(t, d) IN
         IF Contains(t[i].gids, g) \/ Len(t[i].gids) >= MaxGids THEN t
         ELSE [t EXCEPT ![i].gids = Append(@, g)]
    ELSE IF Len(t) >= MaxDevs THEN t ELSE Append(t, [dev |-> d, gids |-> <<g>>])

(* The last entry takes the place of the one that goes. *)
TblForget(t, d) ==
    IF At(t, d) = {} THEN t ELSE Front(ReplaceAt(t, Find(t, d), Last(t)))

(* The groups behind the first match move up; an entry without groups goes. *)
TblRemove(t, d, g) ==
    IF ~ Contains(TblList(t, d), g) THEN t
    ELSE LET gids == TblList(t, d)
             j == CHOOSE k \in DOMAIN gids :
                    gids[k] = g /\ \A m \in DOMAIN gids : m < k => gids[m] # g
         IN  IF Len(gids) = 1 THEN TblForget(t, d)
             ELSE [t EXCEPT ![Find(t, d)].gids = RemoveAt(gids, j)]

(* Forget, then add one after the other: as each of the at most MaxGids       *)
(* groups is given once, all of them or, without room for the entry, none.    *)
TblSet(t, d, gids) ==
    LET rest == TblForget(t, d) IN
    IF gids = <<>> \/ Len(rest) >= MaxDevs THEN rest
    ELSE Append(rest, [dev |-> d, gids |-> gids])

(* dgm_save may fail; the table in flash is then the one before.             *)
Save(t) == mirror' \in {mirror, t}

(***************************************************************************)
(* device.groups.add and .remove: the command to the device first.          *)
(***************************************************************************)
DgmGoto(c, pc, d, gids) == dgm' = [dgm EXCEPT ![c] = [pc |-> pc, dev |-> d, gids |-> gids]]
Joins(d, g) == /\ member' = [member EXCEPT ![d] = @ \cup {g}]
               /\ everIn' = [everIn EXCEPT ![d] = @ \cup {g}]

(* Mutant: the mirror is updated whatever the device answers. *)
SendAddAnyway(c, d, g) ==
    /\ dgm[c].pc = "idle"
    /\ \/ Joins(d, g)
       \/ UNCHANGED <<member, everIn>>
    /\ DgmGoto(c, "add", d, <<g>>)
    /\ UNCHANGED mirror

(* The device takes the command and says so, or it does not, or its answer   *)
(* is lost.                                                                   *)
SendAdd(c, d, g) ==
    /\ dgm[c].pc = "idle"
    /\ \/ Joins(d, g) /\ DgmGoto(c, "add", d, <<g>>)
       \/ Joins(d, g) /\ UNCHANGED dgm
    /\ UNCHANGED mirror

MirrorAdd(c) ==
    /\ dgm[c].pc = "add"
    /\ Save(TblAdd(mirror, dgm[c].dev, Head(dgm[c].gids)))
    /\ dgm' = [dgm EXCEPT ![c] = NoJob]
    /\ UNCHANGED <<member, everIn>>

SendRemove(c, d, g) ==
    /\ dgm[c].pc = "idle" /\ g \in member[d]
    /\ member' = [member EXCEPT ![d] = @ \ {g}]
    /\ DgmGoto(c, "remove", d, <<g>>) \/ UNCHANGED dgm
    /\ UNCHANGED <<everIn, mirror>>

MirrorRemove(c) ==
    /\ dgm[c].pc = "remove"
    /\ Save(TblRemove(mirror, dgm[c].dev, Head(dgm[c].gids)))
    /\ dgm' = [dgm EXCEPT ![c] = NoJob]
    /\ UNCHANGED <<member, everIn>>

(* device.groups.refresh: the read-back, in the order the device has them,   *)
(* then dgm_set of at most DGM_MAX_GIDS of it.                               *)
Query(c, d) ==
    /\ dgm[c].pc = "idle"
    /\ \E read \in SetToSeqs(member[d]) :
       DgmGoto(c, "set", d, SubSeq(read, 1, IF Len(read) < MaxGids THEN Len(read) ELSE MaxGids))
    /\ UNCHANGED <<member, everIn, mirror>>

MirrorSet(c) ==
    /\ dgm[c].pc = "set"
    /\ Save(TblSet(mirror, dgm[c].dev, dgm[c].gids))
    /\ dgm' = [dgm EXCEPT ![c] = NoJob]
    /\ UNCHANGED <<member, everIn>>

(* A device that leaves the network or is reset loses its groups; nobody     *)
(* calls dgm_forget.                                                         *)
DeviceReset(d) ==
    /\ member[d] # {}
    /\ member' = [member EXCEPT ![d] = {}]
    /\ UNCHANGED <<everIn, mirror, dgm>>

DgmRestart ==
    /\ dgm' = [c \in DgmTasks |-> NoJob]
    /\ UNCHANGED <<member, everIn, mirror>>

DgmStep(c) == MirrorAdd(c) \/ MirrorRemove(c) \/ MirrorSet(c)
DgmRequest(c) ==
    \E d \in DgmDev : Query(c, d) \/ \E g \in Gid : SendAdd(c, d, g) \/ SendRemove(c, d, g)
DgmEvent == \E d \in DgmDev : DeviceReset(d)

-----------------------------------------------------------------------------
(* The mirror lists no group that the device was never in, each device once, *)
(* each group once and no device without a group, through adds, removals,    *)
(* refreshes of two tasks, failed saves and lost answers.                    *)
MirrorHonest ==
    /\ \A i, j \in DOMAIN mirror : mirror[i].dev = mirror[j].dev => i = j
    /\ \A i \in DOMAIN mirror :
        /\ mirror[i].gids # <<>> /\ IsInjective(mirror[i].gids)
        /\ ToSet(mirror[i].gids) \subseteq everIn[mirror[i].dev]

-----------------------------------------------------------------------------
(* The table operations against the relation they stand for, for every table *)
(* within the caps (evaluated by the MC module).                             *)
RelOf(t) == UNION {{t[i].dev} \X ToSet(t[i].gids) : i \in DOMAIN t}
Tables == {t \in SeqOf(Entry, MaxDevs) :
             /\ \A i, j \in DOMAIN t : t[i].dev = t[j].dev => i = j
             /\ \A i \in DOMAIN t : t[i].gids # <<>> /\ IsInjective(t[i].gids)}
TableOpsCorrect ==
    \A t \in Tables, d \in DgmDev :
        /\ RelOf(TblForget(t, d)) = {p \in RelOf(t) : p[1] # d}
        /\ \A g \in Gid :
            /\ RelOf(TblRemove(t, d, g)) = RelOf(t) \ {<<d, g>>}
            /\ RelOf(TblAdd(t, d, g)) =
                 IF Len(TblList(t, d)) < MaxGids /\ (At(t, d) # {} \/ Len(t) < MaxDevs)
                 THEN RelOf(t) \cup {<<d, g>>} ELSE RelOf(t)
        /\ \A gs \in SeqOf(Gid, MaxGids) : IsInjective(gs) =>
            /\ TblSet(t, d, gs) = FoldLeft(LAMBDA acc, g : TblAdd(acc, d, g), TblForget(t, d), gs)
            /\ At(t, d) # {} \/ Len(t) < MaxDevs =>
                RelOf(TblSet(t, d, gs)) = RelOf(TblForget(t, d)) \cup ({d} \X ToSet(gs))
=============================================================================
