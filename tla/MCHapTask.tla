----------------------------- MODULE MCHapTask -----------------------------
(***************************************************************************)
(* Small instances of HapLink and HapBulk, the two jobs of task_hap.  They *)
(* share no variable, so one run explores them side by side: a behaviour   *)
(* moves one part and leaves the other where it is.  With Meeting = FALSE  *)
(* the coalescer is explored until two tasks meet in it, which is where    *)
(* its promises end.                                                       *)
(***************************************************************************)
EXTENDS HapLink, HapBulk

CONSTANTS Parts, Meeting
Sizes == <<1, 2, 2, 4, 5, 2, 1>>
TwoSizes == <<1, 1>>

VARIABLE part

linkVars == vars

TaskInit == part \in Parts /\ Init /\ (part = "bulk" => calm) /\ BulkInit

InTurn == Meeting \/ ~ met'

TaskNext ==
  /\ UNCHANGED part
  /\ \/ part = "link" /\ Next /\ UNCHANGED bulkVars
     \/ part = "bulk" /\ BulkNext /\ InTurn /\ UNCHANGED linkVars

(* The fairness of each part, as its module states it, while it moves.        *)
TaskSpec ==
  /\ TaskInit /\ [][TaskNext]_<<part, linkVars, bulkVars>>
  /\ WF_linkVars(part = "link" /\ Tick)
  /\ WF_linkVars(part = "link" /\ LoopSync)
  /\ WF_linkVars(part = "link" /\ (LoopSilence \/ Raise))
  /\ WF_linkVars(part = "link" /\ Frame(TaskHAP))
  /\ \A t \in Drivers : WF_linkVars(part = "link" /\ HbRest(t))
  /\ SF_linkVars(part = "link" /\ P4Answers)
  /\ SF_linkVars(part = "link" /\ \E t \in Drivers : \E f \in p4_queue : OnSync(t, f))
  /\ WF_bulkVars(part = "bulk" /\ Timer /\ InTurn)
  /\ \A t \in BulkDrivers : WF_bulkVars(part = "bulk" /\ Step(t))

LinkResyncs == part = "link" => Resyncs
=============================================================================
