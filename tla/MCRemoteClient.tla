--------------------------- MODULE MCRemoteClient ---------------------------
(* Small instances of RemoteClient: queues of one place, enough ids for a    *)
(* request in flight beside replies to others.                               *)
EXTENDS RemoteClient, TLC

CONSTANTS i1, i2

Setting(wired, races, commands) == [wired |-> wired, races |-> races, commands |-> commands]

(* Everything that a safety property has to stand. *)
Rough == {Setting(FALSE, {"flap"}, TRUE), Setting(FALSE, {"hasty", "overtake"}, FALSE)}

(* What the client gets through to what was asked of it: one call after the  *)
(* other, Wi-Fi that does not go and come within a turn, or Ethernet.        *)
Orderly == {Setting(FALSE, {}, FALSE), Setting(TRUE, {"flap"}, FALSE)}

(* A cloud that sends commands and events, in calm weather.                 *)
Talkative == {Setting(FALSE, {}, TRUE)}

IdSymmetry == Permutations(Ids)
=============================================================================
