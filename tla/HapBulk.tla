------------------------------ MODULE HapBulk ------------------------------
(***************************************************************************)
(* The attr.bulk coalescer (main/hap_bridge.cpp, bulk_append, bulk_flush,  *)
(* the BULK_STATE_UPDATE case of the frame callback and the flush at the   *)
(* tail of task_hap's loop).  Updates are packed into one static buffer,   *)
(*     [ update , update , update ]                                        *)
(* which goes out as one event every 100 ms, or when it is full.           *)
(*                                                                         *)
(* The buffer, its length and its count have no lock.  The callback runs   *)
(* on the task whose exchange brought the frame (see HapExchange), so each *)
(* access that another task may come between is a step of its own.  What   *)
(* is promised is promised until two tasks meet in the coalescer; before,  *)
(* it may pass from task to task.                                          *)
(***************************************************************************)
EXTENDS Naturals, FiniteSets, Sequences

CONSTANTS
  BulkDrivers,  \* tasks on which frames are handled
  Flusher,      \* the one whose loop flushes (TaskHAP)
  Size,         \* Size[p]: the length of update p
  Cap           \* BULK_COALESCE_CAP

VARIABLES
  s_bulk_buf, s_bulk_len, s_bulk_count,
  bulkAt,       \* where each driver is
  payload,      \* the update each driver handles
  after,        \* where a driver continues after bulk_flush
  received,     \* updates 1..received have arrived
  out,          \* events broadcast: are they arrays, and their text
  dropped,      \* updates given up
  met           \* history: a task came in while another one was inside

bufVars == <<s_bulk_buf, s_bulk_len, s_bulk_count>>
bulkHistory == <<received, out, dropped>>
bulkVars == <<bufVars, bulkAt, payload, after, bulkHistory, met>>

Payloads == DOMAIN Size
Open == <<"[", 0>>
Comma == <<",", 0>>
Close == <<"]", 0>>
Cells == {Open, Comma, Close} \cup ({"part", "item"} \X Payloads)
(* The text of an update: its last cell marks that it is complete. *)
Text(p) == [i \in 1..Size[p] |-> <<IF i = Size[p] THEN "item" ELSE "part", p>>]

ASSUME BulkAssumption ==
  /\ Flusher \in BulkDrivers
  /\ Size \in Seq(Nat \ {0})
  /\ Cap \in Nat \ {0}

Places == {"idle", "append", "separator", "copy", "grow", "count",
           "flush", "close", "emit", "reset_len", "reset_count", "retry", "alone"}

BulkTypeOK ==
  /\ s_bulk_buf \in [1..Cap -> Cells]
  /\ s_bulk_len \in Nat
  /\ s_bulk_count \in Nat
  /\ bulkAt \in [BulkDrivers -> Places]
  /\ payload \in [BulkDrivers -> Payloads \cup {0}]
  /\ after \in [BulkDrivers -> {"idle", "retry", "alone"}]
  /\ received \in Payloads \cup {0}
  /\ \A i \in DOMAIN out : out[i].array \in BOOLEAN /\ out[i].text \in Seq(Cells)
  /\ dropped \subseteq Payloads
  /\ met \in BOOLEAN

BulkInit ==
  /\ s_bulk_buf = [i \in 1..Cap |-> Comma]
  /\ s_bulk_len = 0 /\ s_bulk_count = 0
  /\ bulkAt = [t \in BulkDrivers |-> "idle"]
  /\ payload = [t \in BulkDrivers |-> 0]
  /\ after = [t \in BulkDrivers |-> "idle"]
  /\ received = 0
  /\ out = <<>>
  /\ dropped = {}
  /\ met = FALSE

-----------------------------------------------------------------------------
Place(t, place) == bulkAt' = [bulkAt EXCEPT ![t] = place]
Enter(t) == met' = (met \/ \E u \in BulkDrivers \ {t} : bulkAt[u] # "idle")
CallFlush(t, then) == Place(t, "flush") /\ after' = [after EXCEPT ![t] = then]

(* Text written at s_bulk_len, and the text written so far. *)
Write(text) ==
  s_bulk_buf' = [i \in 1..Cap |->
    IF i - s_bulk_len \in DOMAIN text THEN text[i - s_bulk_len] ELSE s_bulk_buf[i]]

Written == SubSeq(s_bulk_buf, 1, IF s_bulk_len > Cap THEN Cap ELSE s_bulk_len)

(* A BULK_STATE_UPDATE arrives on task t: one that can never fit bypasses the *)
(* buffer, behind what is queued in it.                                       *)
Receive(t) ==
  LET p == received + 1 IN
  /\ bulkAt[t] = "idle"
  /\ Enter(t)
  /\ p \in Payloads
  /\ received' = p
  /\ payload' = [payload EXCEPT ![t] = p]
  /\ IF Size[p] + 2 > Cap
       THEN CallFlush(t, "alone")
       ELSE Place(t, "append") /\ UNCHANGED after
  /\ UNCHANGED <<bufVars, out, dropped>>

(* bulk_append: room is needed for a separator, the text and the final "]".   *)
Fits(p) == s_bulk_len + 1 + Size[p] + 1 <= Cap

TryAppend(t) ==
  /\ bulkAt[t] = "append"
  /\ IF Fits(payload[t])
       THEN Place(t, "separator") /\ UNCHANGED after
       ELSE CallFlush(t, "retry")
  /\ UNCHANGED <<bufVars, payload, bulkHistory, met>>

(* After the flush the second bulk_append, whose failure drops the update.    *)
Retry(t) ==
  /\ bulkAt[t] = "retry"
  /\ IF Fits(payload[t])
       THEN Place(t, "separator") /\ UNCHANGED dropped
       ELSE Place(t, "idle") /\ dropped' = dropped \cup {payload[t]}
  /\ UNCHANGED <<bufVars, payload, after, received, out, met>>

Separator(t) ==
  /\ bulkAt[t] = "separator"
  /\ Write(<<IF s_bulk_count = 0 THEN Open ELSE Comma>>)
  /\ s_bulk_len' = s_bulk_len + 1
  /\ Place(t, "copy")
  /\ UNCHANGED <<s_bulk_count, payload, after, received, out, dropped, met>>

Copy(t) ==
  /\ bulkAt[t] = "copy"
  /\ Write(Text(payload[t]))
  /\ Place(t, "grow")
  /\ UNCHANGED <<s_bulk_len, s_bulk_count, payload, after, received, out, dropped, met>>

Grow(t) ==
  /\ bulkAt[t] = "grow"
  /\ s_bulk_len' = s_bulk_len + Size[payload[t]]
  /\ Place(t, "count")
  /\ UNCHANGED <<s_bulk_buf, s_bulk_count, payload, after, bulkHistory, met>>

Count(t) ==
  /\ bulkAt[t] = "count"
  /\ s_bulk_count' = s_bulk_count + 1
  /\ Place(t, "idle")
  /\ UNCHANGED <<s_bulk_buf, s_bulk_len, payload, after, bulkHistory, met>>

(* bulk_flush. *)
Flush(t) ==
  /\ bulkAt[t] = "flush"
  /\ Place(t, IF s_bulk_count = 0 THEN after[t] ELSE "close")
  /\ UNCHANGED <<bufVars, payload, after, bulkHistory, met>>

CloseArray(t) ==
  /\ bulkAt[t] = "close"
  /\ Write(<<Close>>)
  /\ s_bulk_len' = s_bulk_len + 1
  /\ Place(t, "emit")
  /\ UNCHANGED <<s_bulk_count, payload, after, received, out, dropped, met>>

Broadcast(array, text) == out' = Append(out, [array |-> array, text |-> text])

Emit(t) ==
  /\ bulkAt[t] = "emit"
  /\ Broadcast(TRUE, Written)
  /\ Place(t, "reset_len")
  /\ UNCHANGED <<bufVars, payload, after, received, dropped, met>>

ResetLen(t) ==
  /\ bulkAt[t] = "reset_len"
  /\ s_bulk_len' = 0
  /\ Place(t, "reset_count")
  /\ UNCHANGED <<s_bulk_buf, s_bulk_count, payload, after, bulkHistory, met>>

KeepCount(t) ==
  /\ bulkAt[t] = "reset_count"
  /\ Place(t, after[t])
  /\ UNCHANGED <<bufVars, payload, after, bulkHistory, met>>
ResetCount(t) ==
  /\ bulkAt[t] = "reset_count"
  /\ s_bulk_count' = 0
  /\ Place(t, after[t])
  /\ UNCHANGED <<s_bulk_buf, s_bulk_len, payload, after, bulkHistory, met>>

(* The update that is too long goes out by itself. *)
SendAlone(t) ==
  /\ bulkAt[t] = "alone"
  /\ Broadcast(FALSE, Text(payload[t]))
  /\ Place(t, "idle")
  /\ UNCHANGED <<bufVars, payload, after, received, dropped, met>>

(* The tail of task_hap's loop, once the 100 ms window is over. *)
NoTimer == FALSE /\ UNCHANGED bulkVars
Timer ==
  /\ bulkAt[Flusher] = "idle"
  /\ Enter(Flusher)
  /\ CallFlush(Flusher, "idle")
  /\ UNCHANGED <<bufVars, payload, bulkHistory>>

Step(t) ==
  \/ TryAppend(t) \/ Retry(t) \/ Separator(t) \/ Copy(t) \/ Grow(t) \/ Count(t)
  \/ Flush(t) \/ CloseArray(t) \/ Emit(t) \/ ResetLen(t) \/ ResetCount(t) \/ SendAlone(t)

BulkNext == Timer \/ \E t \in BulkDrivers : Receive(t) \/ Step(t)

BulkSpec == BulkInit /\ [][BulkNext]_bulkVars
(* The tasks run and the window ends again and again. *)
BulkFairSpec == BulkSpec /\ WF_bulkVars(Timer) /\ \A t \in BulkDrivers : WF_bulkVars(Step(t))

-----------------------------------------------------------------------------
(* A text is an array of whole updates: it opens once, each separator is      *)
(* followed by an update and that by a further one or by the end, and it ends *)
(* where it is closed.                                                        *)
Follows(text, i, p) ==
  i + Size[p] <= Len(text) /\ \A k \in 1..Size[p] : text[i + k] = Text(p)[k]
IsArray(text) ==
  /\ text # <<>> /\ text[1] = Open
  /\ \A i \in DOMAIN text : text[i] = Close => i = Len(text)
  /\ \A i \in DOMAIN text : text[i] \in {Open, Comma} =>
       \E p \in Payloads :
         /\ Follows(text, i, p)
         /\ i + Size[p] < Len(text)
         /\ text[i + Size[p] + 1] \in {Comma, Close}

(* Every array that is broadcast is a well-formed one.  Does not hold: the    *)
(* comment has append and flush "run on task_hap exclusively", and they run   *)
(* on every task that makes an exchange (MCHapTask_two_tasks.cfg).            *)
NoBrokenArray == \A i \in DOMAIN out : out[i].array => IsArray(out[i].text)

(* It takes a meeting of two tasks inside the coalescer to break one: an      *)
(* array that several tasks have filled in turn, and another one flushed, is  *)
(* well-formed.                                                               *)
ArraysWellFormed == ~ met => NoBrokenArray

(* Nor does a write leave the buffer: the byte kept for "]" is there.         *)
StaysInBuffer == ~ met => s_bulk_len <= Cap

(* Every event is an array ("`data` is now an array, the SPA iterates"). Does *)
(* not hold: an update that does not fit an empty buffer is sent as it is.    *)
EventsAreArrays == \A i \in DOMAIN out : out[i].array

(* The updates a text holds completely, in the order in which it has them.    *)
ItemCells(text) == {i \in DOMAIN text : text[i][1] = "item"}
Rank(text, i) == Cardinality({j \in ItemCells(text) : j <= i})
OfRank(text, k) == {i \in ItemCells(text) : Rank(text, i) = k}
The(S) == CHOOSE x \in S : TRUE
Items(text) ==
  [k \in 1..Cardinality(ItemCells(text)) |-> text[The(OfRank(text, k))][2]]

(* An update has arrived and is neither in the buffer nor sent.               *)
InHand(t) ==
  \/ bulkAt[t] \in {"append", "separator", "copy", "grow", "retry", "alone"}
  \/ /\ bulkAt[t] \in {"flush", "close", "emit", "reset_len", "reset_count"}
     /\ after[t] # "idle"

(* Until two tasks meet, the coalescer keeps the browser's promise.           *)
Pending == IF \E t \in BulkDrivers : bulkAt[t] = "reset_len" THEN <<>> ELSE Items(Written)
Shown == [i \in DOMAIN out |-> Items(out[i].text)]
NextUpdate == IF \E t \in BulkDrivers : InHand(t) THEN received ELSE received + 1
Stream == INSTANCE UpdateStream WITH
  pending <- Pending, events <- Shown, next <- NextUpdate
ImplementsStream == Stream!Spec

(* What that gives the browser: 1, 2, ... without a gap or a repetition.      *)
ShownInSequence == ~ met => Stream!InSequence
=============================================================================
