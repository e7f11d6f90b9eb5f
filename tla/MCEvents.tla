------------------------------ MODULE MCEvents ------------------------------
(* Small instances of Events.  A behaviour is either about logs.get, which   *)
(* walks the ring while lines are written and a frame is on its way, or      *)
(* about three frames, of events or of a line.                               *)
EXTENDS Events

VARIABLE reading

BrowserInit == reading \in BOOLEAN /\ EventsInit
BrowserNext ==
  /\ UNCHANGED reading /\ EventsNext
  /\ reading => Queue!Total(made') <= 1
  /\ reading \/ (lines' <= 1 /\ ~ walk'.on)

(* The fairness of Events. *)
BrowserSpec ==
  /\ BrowserInit /\ [][BrowserNext]_<<pathVars, reading>>
  /\ \A t \in Producers \cup {Sender} : SF_pathVars(HandOver(t))
  /\ WF_pathVars(Work)
  /\ WF_pathVars(FailureLine)
=============================================================================
