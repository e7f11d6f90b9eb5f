------------------------------ MODULE LogRing ------------------------------
(***************************************************************************)
(* The last lines of the log (main/log_ring.cpp): a ring that log_vprintf  *)
(* and log_sinks_publish_p4 write under a spinlock, and that               *)
(* log_ring_to_json walks for logs.get, taking the lock once for the       *)
(* bounds and once for each entry.  Between two entries lines are written. *)
(*                                                                         *)
(* A line is a number, in the order of writing; 0 stands for each line     *)
(* that sending a frame causes (see EventQueue), and for an empty entry.   *)
(***************************************************************************)
EXTENDS Naturals, Sequences

CONSTANTS
  LOG_RING_SIZE,
  MaxLines,  \* bound: numbered lines
  MaxWalks   \* bound: answers to logs.get

VARIABLES
  s_ring, s_head, s_count,
  lines,     \* numbered lines 1..lines have been written
  walk,      \* the walk under way
  walks

ringVars == <<s_ring, s_head, s_count, lines>>
walkVars == <<walk, walks>>
vars == <<ringVars, walkVars>>

Slots == 0..(LOG_RING_SIZE - 1)
(* had: lines in the ring at the start; written: lines written since (up to   *)
(* the size of the ring).                                                     *)
NoWalk == [on |-> FALSE, count |-> 0, start |-> 0, answer |-> <<>>, had |-> {}, written |-> 0]

Init ==
  /\ s_ring = [i \in Slots |-> 0] /\ s_head = 0 /\ s_count = 0 /\ lines = 0
  /\ walk = NoWalk /\ walks = 0

(* One line under s_mux. *)
WriteEntry(line) ==
  /\ s_ring' = [s_ring EXCEPT ![s_head] = line]
  /\ s_head' = (s_head + 1) % LOG_RING_SIZE
  /\ s_count' = IF s_count < LOG_RING_SIZE THEN s_count + 1 ELSE s_count
  /\ walk' = IF walk.on /\ walk.written < LOG_RING_SIZE
               THEN [walk EXCEPT !.written = @ + 1] ELSE walk
  /\ UNCHANGED walks

WriteLine ==
  /\ lines < MaxLines
  /\ lines' = lines + 1
  /\ WriteEntry(lines')

WriteSendLine == WriteEntry(0) /\ UNCHANGED lines

(* log_ring_to_json: where the oldest line is.                                *)
FromZero == 0
Oldest == IF s_count = LOG_RING_SIZE THEN s_head ELSE 0

StartWalk ==
  /\ ~ walk.on /\ walks < MaxWalks
  /\ walks' = walks + 1
  /\ walk' = [NoWalk EXCEPT !.on = TRUE, !.count = s_count, !.start = Oldest,
                            !.had = {s_ring[i] : i \in Slots} \ {0}]
  /\ UNCHANGED ringVars

WalkOn ==
  /\ walk.on /\ Len(walk.answer) < walk.count
  /\ walk' = [walk EXCEPT !.answer =
       Append(@, s_ring[(walk.start + Len(@)) % LOG_RING_SIZE])]
  /\ UNCHANGED <<ringVars, walks>>

EndWalk ==
  /\ walk.on /\ Len(walk.answer) = walk.count
  /\ walk' = NoWalk
  /\ UNCHANGED <<ringVars, walks>>

-----------------------------------------------------------------------------
TypeOK ==
  /\ s_ring \in [Slots -> 0..lines]
  /\ s_head \in Slots
  /\ s_count \in 0..LOG_RING_SIZE
  /\ Len(walk.answer) <= walk.count

(* The places in the answer whose line is one of a set, and the order there.  *)
PlacesOf(set) == {i \in DOMAIN walk.answer : walk.answer[i] \in set}
Ascending(places) ==
  \A i, j \in places : i < j => walk.answer[i] < walk.answer[j]

(* The lines that were there at the start, and newer ones in their place.     *)
Old == PlacesOf(walk.had)
New == PlacesOf((1..lines) \ walk.had)

(* The answer runs from the oldest line to the newest: does not hold once a   *)
(* line is written while the walk is on.                                      *)
WalkInOrder == Ascending(PlacesOf(1..lines))
=============================================================================
