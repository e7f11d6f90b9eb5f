---------------------------- MODULE UpdateStream ----------------------------
(***************************************************************************)
(* What the browser is promised of the P4's attribute updates: each one is *)
(* shown once, in the order it was received, in batches that are never     *)
(* empty, and none is kept back for ever.  How updates are packed into     *)
(* "attr.bulk" events is HapBulk's business.                               *)
(***************************************************************************)
EXTENDS Naturals, Sequences

VARIABLES
  pending,  \* updates received (1, 2, ...), not yet sent
  events,   \* the batches sent
  next      \* the update that comes next

vars == <<pending, events, next>>

Init == pending = <<>> /\ events = <<>> /\ next = 1

Add ==
  /\ pending' = Append(pending, next)
  /\ next' = next + 1
  /\ UNCHANGED events

Emit ==
  /\ pending # <<>>
  /\ events' = Append(events, pending)
  /\ pending' = <<>>
  /\ UNCHANGED next

(* An update may also go out in a batch of its own, if it overtakes nothing.  *)
EmitAlone ==
  /\ pending = <<>>
  /\ events' = Append(events, <<next>>)
  /\ next' = next + 1
  /\ UNCHANGED pending

Next == Add \/ Emit \/ EmitAlone

Safety == Init /\ [][Next]_vars
Spec == Safety /\ WF_vars(Emit)

(* The batches, one after the other, are the updates 1, 2, ... without a gap, *)
(* and what is pending comes next.                                            *)
Consecutive(s) == \A j \in 1..(Len(s) - 1) : s[j + 1] = s[j] + 1
EndOf(s) == s[Len(s)]
InSequence ==
  /\ \A k \in DOMAIN events :
       /\ events[k] # <<>> /\ Consecutive(events[k])
       /\ events[k][1] = IF k = 1 THEN 1 ELSE EndOf(events[k - 1]) + 1
  /\ Consecutive(pending)
  /\ LET sent == IF events = <<>> THEN 0 ELSE EndOf(EndOf(events))
     IN  /\ pending # <<>> => pending[1] = sent + 1
         /\ next = 1 + IF pending = <<>> THEN sent ELSE EndOf(pending)
=============================================================================
