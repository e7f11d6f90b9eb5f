-------------------------- MODULE MCHapRoundtrip --------------------------
(* Small instances of HapRoundtrip: a sequence counter short enough to wrap *)
(* while a call is still in flight, and either more callers than slots (a   *)
(* crowd, all of one response type) or as many, of two types.               *)
EXTENDS HapRoundtrip, TLC

CONSTANTS info, ack

VARIABLE crowd

(* In a crowd every call wants the one type, and that is what arrives.      *)
OneType ==
  /\ Cardinality({want'[c] : c \in Callers} \ {None}) <= 1
  /\ \A s \in Slots : ~ sem[s] /\ sem'[s] => ok'[s]
Few == Cardinality({c \in Callers : call_no'[c] > 0}) <= SlotCount

CallsInit == crowd \in BOOLEAN /\ Init
CallsNext == UNCHANGED crowd /\ Next /\ (crowd => OneType) /\ (crowd \/ Few)
CallsSpec == CallsInit /\ [][CallsNext]_<<vars, crowd>>

Symmetry == Permutations(Callers) \cup Permutations(RspTypes)
===========================================================================
