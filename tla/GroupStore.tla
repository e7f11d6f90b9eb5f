----------------------------- MODULE GroupStore -----------------------------
(* Groups in flash: main/groups_store.cpp, called by the group.* handlers of *)
(* main/api_groups.cpp.  A group is a record under its own key and a bit of  *)
(* a bitmap under another; each operation holds the store lock and ends with *)
(* a commit.  Until then a write may or may not survive a loss of power.     *)
(* group.update reads and writes in two operations.                          *)
EXTENDS Naturals

CONSTANTS
    GrpTasks,       \* tasks that serve group.* (httpd, task_remote)
    GrpId,          \* group numbers, 1..GRP_MAX_GROUPS
    GrpRec,         \* what a group can say (name and members)
    NoGrp

ASSUME GrpAssumption == GrpId \subseteq Nat \ {0} /\ NoGrp \notin GrpRec \cup GrpTasks

VARIABLES
    blob, bmp,              \* the records and the bitmap, as the handles read them
    blobFlash, bmpFlash,    \* what is committed
    grpLock,                \* the holder of s_grp_mtx
    grp,                    \* what each task is in the middle of
    saved,                  \* groups whose save was acknowledged and that no delete
                            \* was asked for since (history)
    unmarked                \* groups whose bit could not be written (history)

grpVars == <<blob, bmp, blobFlash, bmpFlash, grpLock, grp, saved, unmarked>>

NoCall == [pc |-> "idle", id |-> 0, rec |-> NoGrp]

GrpTypeOK ==
    /\ blob \in [GrpId -> GrpRec \cup {NoGrp}] /\ bmp \subseteq GrpId
    /\ blobFlash \in [GrpId -> GrpRec \cup {NoGrp}] /\ bmpFlash \subseteq GrpId
    /\ grpLock \in GrpTasks \cup {NoGrp}
    /\ grp \in [GrpTasks -> [pc : {"idle", "found", "blob", "bitmap", "commit",
                                   "erase", "clear", "gone"},
                             id : GrpId \cup {0}, rec : GrpRec \cup {NoGrp}]]
    /\ saved \subseteq GrpId /\ unmarked \subseteq GrpId

GrpInit ==
    /\ blob = [i \in GrpId |-> NoGrp] /\ bmp = {}
    /\ blobFlash = blob /\ bmpFlash = bmp
    /\ grpLock = NoGrp /\ grp = [c \in GrpTasks |-> NoCall]
    /\ saved = {} /\ unmarked = {}

grpData == <<blob, bmp, blobFlash, bmpFlash>>

GrpGoto(c, pc) == grp' = [grp EXCEPT ![c].pc = pc]
Take(c) == grpLock = NoGrp /\ grpLock' = c
Return(c) == grp' = [grp EXCEPT ![c] = NoCall] /\ grpLock' = NoGrp

(* grp_next_id: the first number whose bit is clear. *)
FreeIds == GrpId \ bmp
NextId(i) == i \in FreeIds /\ \A j \in FreeIds : i <= j

(* grp_create takes the lock for both the number and the save. *)
CreateGroup(c, r) ==
    /\ grp[c].pc = "idle"
    /\ Take(c)
    /\ \E i \in GrpId :
        NextId(i) /\ grp' = [grp EXCEPT ![c] = [pc |-> "blob", id |-> i, rec |-> r]]
    /\ UNCHANGED <<grpData, saved, unmarked>>

(* api_group_update: grp_find, the change, then grp_save under a new lock. *)
FindGroup(c, i, r) ==
    /\ grp[c].pc = "idle" /\ grpLock = NoGrp /\ blob[i] # NoGrp
    /\ grp' = [grp EXCEPT ![c] = [pc |-> "found", id |-> i, rec |-> r]]
    /\ UNCHANGED <<grpData, grpLock, saved, unmarked>>

UpdateGroup(c) ==
    /\ grp[c].pc = "found" /\ Take(c) /\ GrpGoto(c, "blob")
    /\ UNCHANGED <<grpData, saved, unmarked>>

(***************************************************************************)
(* grp_save.                                                                *)
(***************************************************************************)
SetBlob(c) ==
    /\ grp[c].pc = "blob"
    /\ \/ /\ blob' = [blob EXCEPT ![grp[c].id] = grp[c].rec]
          /\ GrpGoto(c, "bitmap") /\ UNCHANGED grpLock
       \/ Return(c) /\ UNCHANGED blob
    /\ UNCHANGED <<bmp, blobFlash, bmpFlash, saved, unmarked>>

(* Whether the bitmap could be written is not looked at. *)
SetBitmap(c) ==
    /\ grp[c].pc = "bitmap"
    /\ \/ bmp' = bmp \cup {grp[c].id} /\ UNCHANGED unmarked
       \/ /\ grp[c].id \notin bmp
          /\ bmp' = bmp /\ unmarked' = unmarked \cup {grp[c].id}
    /\ GrpGoto(c, "commit")
    /\ UNCHANGED <<blob, blobFlash, bmpFlash, grpLock, saved>>

(* Mutant: the commit is left to the close of the handle. *)
SaveUncommitted(c) ==
    /\ grp[c].pc = "commit"
    /\ saved' = saved \cup {grp[c].id}
    /\ Return(c)
    /\ UNCHANGED <<grpData, unmarked>>
CommitSave(c) ==
    /\ grp[c].pc = "commit"
    /\ \/ /\ blobFlash' = blob /\ bmpFlash' = bmp
          /\ saved' = saved \cup {grp[c].id} /\ unmarked' = unmarked \ bmp
       \/ UNCHANGED <<blobFlash, bmpFlash, saved, unmarked>>
    /\ Return(c)
    /\ UNCHANGED <<blob, bmp>>

(***************************************************************************)
(* grp_delete: a failure of any write ends it.                              *)
(***************************************************************************)
DeleteGroup(c, i) ==
    /\ grp[c].pc = "idle" /\ (i \in bmp \/ blob[i] # NoGrp)
    /\ Take(c)
    /\ grp' = [grp EXCEPT ![c] = [pc |-> "erase", id |-> i, rec |-> NoGrp]]
    /\ saved' = saved \ {i}
    /\ UNCHANGED <<grpData, unmarked>>

EraseBlob(c) ==
    /\ grp[c].pc = "erase"
    /\ \/ /\ blob' = [blob EXCEPT ![grp[c].id] = NoGrp]
          /\ GrpGoto(c, "clear") /\ UNCHANGED grpLock
       \/ Return(c) /\ UNCHANGED blob
    /\ UNCHANGED <<bmp, blobFlash, bmpFlash, saved, unmarked>>

ClearBit(c) ==
    /\ grp[c].pc = "clear"
    /\ \/ bmp' = bmp \ {grp[c].id} /\ GrpGoto(c, "gone") /\ UNCHANGED grpLock
       \/ Return(c) /\ UNCHANGED bmp
    /\ UNCHANGED <<blob, blobFlash, bmpFlash, saved, unmarked>>

CommitDelete(c) ==
    /\ grp[c].pc = "gone"
    /\ \/ blobFlash' = blob /\ bmpFlash' = bmp
       \/ UNCHANGED <<blobFlash, bmpFlash>>
    /\ Return(c)
    /\ UNCHANGED <<blob, bmp, saved, unmarked>>

(* A restart: of the writes that were not committed any may have survived.   *)
GrpRestart ==
    /\ \E I \in SUBSET {i \in GrpId : blob[i] # blobFlash[i]} :
        blob' = [i \in GrpId |-> IF i \in I THEN blob[i] ELSE blobFlash[i]]
    /\ bmp' \in {bmp, bmpFlash}
    /\ blobFlash' = blob' /\ bmpFlash' = bmp'
    /\ grpLock' = NoGrp /\ grp' = [c \in GrpTasks |-> NoCall]
    /\ UNCHANGED <<saved, unmarked>>

GrpStep(c) ==
    UpdateGroup(c) \/ SetBlob(c) \/ SetBitmap(c) \/ CommitSave(c)
    \/ EraseBlob(c) \/ ClearBit(c) \/ CommitDelete(c)
GrpRequest(c) ==
    \/ \E r \in GrpRec : CreateGroup(c, r)
    \/ \E i \in GrpId : DeleteGroup(c, i) \/ \E r \in GrpRec : FindGroup(c, i, r)

-----------------------------------------------------------------------------
(* grp_load_all lists a group whose bit is set and whose record is there.    *)
Listed == {i \in bmp : blob[i] # NoGrp}

(* A group whose save was acknowledged stays in the list until somebody asks *)
(* to delete it, whatever writes fail and whenever the power is lost - if    *)
(* its bit was written, which grp_save does not look at.                     *)
SavedStaysListed == grpLock = NoGrp => saved \ unmarked \subseteq Listed

(* "propagate NVS failures ... a failed bitmap write otherwise leaves the    *)
(* bitmap and blobs divergent while the call still returns success". Does    *)
(* not hold of grp_save (MCStores_claims.cfg).                               *)
SavedIsListed == grpLock = NoGrp => saved \subseteq Listed
=============================================================================
