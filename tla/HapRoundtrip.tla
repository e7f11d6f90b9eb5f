---------------------------- MODULE HapRoundtrip ----------------------------
(***************************************************************************)
(* Request/response correlation between the S3 and the P4 chip             *)
(* (main/hap_bridge.cpp, hap_roundtrip_v2 and the HapWaiter table).        *)
(*                                                                         *)
(* Any task may call hap_roundtrip_v2.  A call takes a unit of the         *)
(* counting semaphore, claims a table slot with a fresh 16-bit sequence    *)
(* number, sends its request and sleeps on the slot's semaphore.  Whatever *)
(* task receives a frame with ack_seq # 0 looks the slot up and copies the *)
(* payload into the CALLER's buffer.  The caller may give up at any        *)
(* moment, so the table must never let a late frame reach a buffer whose   *)
(* owner has returned, or a slot that now belongs to somebody else.        *)
(*                                                                         *)
(* hap_session (sequence counter, retransmit window), the SPI link and the *)
(* P4 are external: a request may be refused, lost, answered late, with a  *)
(* frame of another type, or more than once, and replies may overtake each *)
(* other.                                                                  *)
(***************************************************************************)
EXTENDS Integers, FiniteSets

CONSTANTS
  Callers,     \* tasks that call hap_roundtrip_v2 (httpd, remote, p4_ota, ...)
  SlotCount,   \* kHapWaiterCount
  MaxSeq,      \* largest sequence number: 65535 in the code
  MaxTries,    \* kWaiterClaimMaxTries
  DeadStreak,  \* HAP_ROUNDTRIP_DEAD_STREAK
  RspTypes,    \* response frame types
  FramesExpire,\* TRUE: no frame outlives a whole cycle of the seq counter
  MaxCalls,    \* bound: calls made by each caller
  None         \* "no value"

VARIABLES
  \* the waiter table, one entry per slot
  seq,          \* seq of the request in the slot, 0 = free
  rsp_type,     \* expected response type
  rsp_buf,      \* whose buffer the slot points to
  ok,           \* set by a delivery of the expected type
  sem,          \* the slot's binary semaphore
  s_waiter_free_sem,
  table_mutex,  \* holder of s_waiter_table_mutex between two actions
  \* one entry per caller: the locals of its call
  pc, want, slot, tries, outcome, ok_read, buf, ret,
  \* history: the number of calls made, and whether a frame answered this one
  call_no, heard,
  \* the link
  last_seq,     \* last value hap_session_next_seq handed out
  in_flight,    \* requests the P4 may still answer, or whose answer is on the way
  s_synced,
  s_roundtrip_dead_streak

tableVars  == <<seq, rsp_type, rsp_buf, ok, sem>>
localVars  == <<slot, tries, outcome, ok_read, heard>>
callVars   == <<want, buf, ret, call_no>>
streakVars == <<s_synced, s_roundtrip_dead_streak>>
linkVars   == <<last_seq, in_flight>>
vars == <<tableVars, s_waiter_free_sem, table_mutex, pc, localVars, callVars, linkVars,
          streakVars>>

Slots == 1..SlotCount
Seqs  == 1..MaxSeq
U8    == 256             \* s_roundtrip_dead_streak is a uint8_t

CallId == Callers \X (0..MaxCalls)
Frames == [seq : Seqs, type : RspTypes, call : CallId]
ThisCall(c) == <<c, call_no[c]>>

ASSUME ConstantsAssumption ==
  /\ IsFiniteSet(Callers)
  /\ SlotCount \in Nat \ {0}
  /\ MaxSeq \in Nat \ {0}
  /\ MaxTries \in Nat \ {0}
  /\ DeadStreak \in Nat \ {0}
  /\ MaxCalls \in Nat
  /\ FramesExpire \in BOOLEAN
  /\ None \notin Callers
  /\ None \notin Frames

(* Where a caller can be inside hap_roundtrip_v2. *)
Outside   == {"idle"}
Claiming  == {"claim", "draw"}
Holding   == {"send", "wait", "read", "release"}
Returning == {"giveback", "give", "clear", "bump", "resync", "zero"}
Labels    == Outside \cup {"take"} \cup Claiming \cup Holding \cup Returning
(* The labels at which a caller owns a unit of the counting semaphore. *)
HasUnit   == Claiming \cup Holding \cup {"giveback", "give"}
UnitHolders == {c \in Callers : pc[c] \in HasUnit}

TypeOK ==
  /\ seq \in [Slots -> 0..MaxSeq]
  /\ rsp_type \in [Slots -> RspTypes \cup {None}]
  /\ rsp_buf \in [Slots -> Callers \cup {None}]
  /\ ok \in [Slots -> BOOLEAN]
  /\ sem \in [Slots -> BOOLEAN]
  /\ s_waiter_free_sem \in 0..SlotCount
  /\ table_mutex \in Callers \cup {None}
  /\ pc \in [Callers -> Labels]
  /\ want \in [Callers -> RspTypes \cup {None}]
  /\ slot \in [Callers -> Slots \cup {None}]
  /\ tries \in [Callers -> 0..MaxTries]
  /\ outcome \in [Callers -> {"none", "refused", "reply", "timeout"}]
  /\ ok_read \in [Callers -> BOOLEAN]
  /\ buf \in [Callers -> Frames \cup {None}]
  /\ ret \in [Callers -> BOOLEAN]
  /\ call_no \in [Callers -> 0..MaxCalls]
  /\ heard \in [Callers -> BOOLEAN]
  /\ last_seq \in Seqs
  /\ in_flight \subseteq Frames
  /\ s_synced \in BOOLEAN
  /\ s_roundtrip_dead_streak \in 0..(U8 - 1)

Init ==
  /\ seq = [s \in Slots |-> 0]
  /\ rsp_type = [s \in Slots |-> None]
  /\ rsp_buf = [s \in Slots |-> None]
  /\ ok = [s \in Slots |-> FALSE]
  /\ sem = [s \in Slots |-> FALSE]
  /\ s_waiter_free_sem = SlotCount
  /\ table_mutex = None
  /\ pc = [c \in Callers |-> "idle"]
  /\ want = [c \in Callers |-> None]
  /\ slot = [c \in Callers |-> None]
  /\ tries = [c \in Callers |-> 0]
  /\ outcome = [c \in Callers |-> "none"]
  /\ ok_read = [c \in Callers |-> FALSE]
  /\ buf = [c \in Callers |-> None]
  /\ ret = [c \in Callers |-> FALSE]
  /\ call_no = [c \in Callers |-> 0]
  /\ heard = [c \in Callers |-> FALSE]
  /\ last_seq = MaxSeq
  /\ in_flight = {}
  /\ s_synced = FALSE
  /\ s_roundtrip_dead_streak = 0

-----------------------------------------------------------------------------
Goto(c, l) == pc' = [pc EXCEPT ![c] = l]

(* The call returns r: its locals are gone. *)
Return(c, r) ==
  /\ Goto(c, "idle")
  /\ slot' = [slot EXCEPT ![c] = None]
  /\ tries' = [tries EXCEPT ![c] = 0]
  /\ outcome' = [outcome EXCEPT ![c] = "none"]
  /\ ok_read' = [ok_read EXCEPT ![c] = FALSE]
  /\ heard' = [heard EXCEPT ![c] = FALSE]
  /\ ret' = [ret EXCEPT ![c] = r]
  /\ UNCHANGED <<want, buf, call_no>>
Continue(c, l) == Goto(c, l) /\ UNCHANGED <<localVars, callVars>>

(* hap_session_next_seq: a 16-bit counter that skips 0. *)
NextSeq(q) == IF q = MaxSeq THEN 1 ELSE q + 1

(* A task calls hap_roundtrip_v2 with a request whose answer has type t. *)
Call(c, t) ==
  /\ pc[c] = "idle"
  /\ call_no[c] < MaxCalls
  /\ call_no' = [call_no EXCEPT ![c] = @ + 1]
  /\ want' = [want EXCEPT ![c] = t]
  /\ buf' = [buf EXCEPT ![c] = None]
  /\ ret' = [ret EXCEPT ![c] = FALSE]
  /\ Goto(c, "take")
  /\ UNCHANGED <<tableVars, s_waiter_free_sem, table_mutex, localVars, linkVars,
                 streakVars>>

TakeUnit(c) ==
  /\ pc[c] = "take"
  /\ s_waiter_free_sem > 0
  /\ s_waiter_free_sem' = s_waiter_free_sem - 1
  /\ Continue(c, "claim")
  /\ UNCHANGED <<tableVars, table_mutex, linkVars, streakVars>>

(* The wait for a slot times out. *)
NoUnit(c) ==
  /\ pc[c] = "take"
  /\ s_waiter_free_sem = 0
  /\ Return(c, FALSE)
  /\ UNCHANGED <<tableVars, s_waiter_free_sem, table_mutex, linkVars, streakVars>>

(* waiter_claim: lock the table and pick the first free slot. *)
ClaimSlot(c) ==
  /\ pc[c] = "claim"
  /\ table_mutex = None
  /\ \/ \E s \in Slots :
          /\ seq[s] = 0
          /\ \A t \in Slots : seq[t] = 0 => s <= t
          /\ slot' = [slot EXCEPT ![c] = s]
          /\ table_mutex' = c
          /\ Goto(c, "draw")
     \/ /\ \A s \in Slots : seq[s] # 0
        /\ Goto(c, "giveback")
        /\ UNCHANGED <<slot, table_mutex>>
  /\ UNCHANGED <<tableVars, s_waiter_free_sem, tries, outcome, ok_read, heard, callVars,
                 linkVars, streakVars>>

(* A candidate seq is rejected when a live slot holds it. *)
CollidesNever(q) == FALSE
Collides(q) == \E s \in Slots : seq[s] = q

(* Handing q out again means a whole cycle of draws has passed: no frame of   *)
(* its previous use is still on the way, if FramesExpire.                     *)
Surviving(q) == IF FramesExpire THEN {f \in in_flight : f.seq # q} ELSE in_flight

(* A stale signal of the slot's previous user is drained at the claim. *)
KeepSem(s) == sem
DrainSem(s) == [sem EXCEPT ![s] = FALSE]

(* One turn of waiter_claim's loop, the table locked: draw a candidate; take  *)
(* it, try again, or give up after MaxTries.                                  *)
DrawSeq(c) ==
  LET q == NextSeq(last_seq)
      s == slot[c]
  IN
  /\ pc[c] = "draw"
  /\ last_seq' = q
  /\ \/ /\ ~ Collides(q)
        /\ seq' = [seq EXCEPT ![s] = q]
        /\ rsp_type' = [rsp_type EXCEPT ![s] = want[c]]
        /\ rsp_buf' = [rsp_buf EXCEPT ![s] = c]
        /\ ok' = [ok EXCEPT ![s] = FALSE]
        /\ sem' = DrainSem(s)
        /\ in_flight' = Surviving(q)
        /\ table_mutex' = None
        /\ Goto(c, "send")
        /\ UNCHANGED tries
     \/ /\ Collides(q)
        /\ tries' = [tries EXCEPT ![c] = @ + 1]
        /\ IF tries[c] + 1 < MaxTries
             THEN UNCHANGED <<table_mutex, pc>>
             ELSE table_mutex' = None /\ Goto(c, "giveback")
        /\ UNCHANGED <<tableVars, in_flight>>
  /\ UNCHANGED <<s_waiter_free_sem, slot, outcome, ok_read, heard, callVars, streakVars>>

(* The claim failed: give the unit back and return false. *)
GiveBackLeak(c) ==
  /\ pc[c] = "giveback"
  /\ Return(c, FALSE)
  /\ UNCHANGED <<tableVars, s_waiter_free_sem, table_mutex, linkVars, streakVars>>
GiveBack(c) ==
  /\ pc[c] = "giveback"
  /\ s_waiter_free_sem' = s_waiter_free_sem + 1
  /\ Return(c, FALSE)
  /\ UNCHANGED <<tableVars, table_mutex, linkVars, streakVars>>

Finish(c, o) ==
  /\ outcome' = [outcome EXCEPT ![c] = o]
  /\ UNCHANGED <<slot, tries, ok_read, heard, callVars>>

(* hap_session_send queues the request, or refuses it because the retransmit  *)
(* window is full.                                                            *)
Send(c) ==
  /\ pc[c] = "send"
  /\ \/ /\ in_flight' = in_flight \cup
             {[seq |-> seq[slot[c]], type |-> want[c], call |-> ThisCall(c)]}
        /\ Continue(c, "wait")
     \/ /\ Finish(c, "refused")
        /\ Goto(c, "release")
        /\ UNCHANGED in_flight
  /\ UNCHANGED <<tableVars, s_waiter_free_sem, table_mutex, last_seq, streakVars>>

Wake(c) ==
  /\ pc[c] = "wait"
  /\ sem[slot[c]]
  /\ sem' = [sem EXCEPT ![slot[c]] = FALSE]
  /\ Finish(c, "reply")
  /\ Goto(c, "read")
  /\ UNCHANGED <<seq, rsp_type, rsp_buf, ok, s_waiter_free_sem, table_mutex, linkVars,
                 streakVars>>

Timeout(c) ==
  /\ pc[c] = "wait"
  /\ ~ sem[slot[c]]
  /\ Finish(c, "timeout")
  /\ Goto(c, "release")
  /\ UNCHANGED <<tableVars, s_waiter_free_sem, table_mutex, linkVars, streakVars>>

(* w->ok is read outside the table mutex. *)
ReadOk(c) ==
  /\ pc[c] = "read"
  /\ ok_read' = [ok_read EXCEPT ![c] = ok[slot[c]]]
  /\ Goto(c, "release")
  /\ UNCHANGED <<tableVars, s_waiter_free_sem, table_mutex, slot, tries, outcome, heard,
                 callVars, linkVars, streakVars>>

(* waiter_release: free the slot under the mutex, then give the unit. *)
ReleaseKeepsSeq(c) ==
  /\ pc[c] = "release"
  /\ table_mutex = None
  /\ Continue(c, "give")
  /\ UNCHANGED <<tableVars, s_waiter_free_sem, table_mutex, linkVars, streakVars>>
Release(c) ==
  /\ pc[c] = "release"
  /\ table_mutex = None
  /\ seq' = [seq EXCEPT ![slot[c]] = 0]
  /\ Continue(c, "give")
  /\ UNCHANGED <<rsp_type, rsp_buf, ok, sem, s_waiter_free_sem, table_mutex, linkVars,
                 streakVars>>

GiveUnit(c) ==
  /\ pc[c] = "give"
  /\ s_waiter_free_sem' = s_waiter_free_sem + 1
  /\ \/ outcome[c] = "refused" /\ Return(c, FALSE)
     \/ outcome[c] = "reply"   /\ Continue(c, "clear")
     \/ outcome[c] = "timeout" /\ Continue(c, "bump")
  /\ UNCHANGED <<tableVars, table_mutex, linkVars, streakVars>>

(* A reply arrived: clear the dead-link streak and return got && w->ok. *)
ClearStreak(c) ==
  /\ pc[c] = "clear"
  /\ s_roundtrip_dead_streak' = 0
  /\ Return(c, ok_read[c])
  /\ UNCHANGED <<tableVars, s_waiter_free_sem, table_mutex, linkVars, s_synced>>

(* A timeout: one more on the streak; when it is long enough, force a new     *)
(* SYNC and start the streak over.  fetch_add, exchange and store are three   *)
(* separate atomic steps.                                                     *)
BumpStreak(c) ==
  LET n == (s_roundtrip_dead_streak + 1) % U8 IN
  /\ pc[c] = "bump"
  /\ s_roundtrip_dead_streak' = n
  /\ IF n >= DeadStreak THEN Continue(c, "resync") ELSE Return(c, FALSE)
  /\ UNCHANGED <<tableVars, s_waiter_free_sem, table_mutex, linkVars, s_synced>>

ForceResync(c) ==
  /\ pc[c] = "resync"
  /\ s_synced' = FALSE
  /\ IF s_synced THEN Continue(c, "zero") ELSE Return(c, FALSE)
  /\ UNCHANGED <<tableVars, s_waiter_free_sem, table_mutex, linkVars,
                 s_roundtrip_dead_streak>>

ZeroStreak(c) ==
  /\ pc[c] = "zero"
  /\ s_roundtrip_dead_streak' = 0
  /\ Return(c, FALSE)
  /\ UNCHANGED <<tableVars, s_waiter_free_sem, table_mutex, linkVars, s_synced>>

-----------------------------------------------------------------------------
(* waiter_deliver: the answer to request r, a frame of type t, arrived on some*)
(* task.  Lookup, copy and signal are one critical section.  A frame of       *)
(* another type wakes the caller without filling its buffer; one that matches *)
(* nothing is dropped.  The answer may come again.                            *)
Deliver(r, t) ==
  /\ table_mutex = None
  /\ \/ in_flight' = in_flight \ {r}
     \/ UNCHANGED in_flight
  /\ \/ \E s \in Slots :
          /\ seq[s] = r.seq
          /\ \A u \in Slots : seq[u] = r.seq => s <= u
          /\ sem' = [sem EXCEPT ![s] = TRUE]
          /\ heard' = [heard EXCEPT ![rsp_buf[s]] = TRUE]
          /\ \/ /\ t = rsp_type[s]
                /\ buf' = [buf EXCEPT ![rsp_buf[s]] = [r EXCEPT !.type = t]]
                /\ ok' = [ok EXCEPT ![s] = TRUE]
             \/ /\ t # rsp_type[s]
                /\ UNCHANGED <<buf, ok>>
     \/ /\ \A s \in Slots : seq[s] # r.seq
        /\ UNCHANGED <<sem, heard, buf, ok>>
  /\ UNCHANGED <<seq, rsp_type, rsp_buf, s_waiter_free_sem, table_mutex, pc, slot, tries,
                 outcome, ok_read, want, ret, call_no, last_seq, streakVars>>

(* hap_send from any other task draws a seq without looking at the table. *)
OtherSend ==
  /\ last_seq' = NextSeq(last_seq)
  /\ UNCHANGED <<tableVars, s_waiter_free_sem, table_mutex, pc, localVars, callVars,
                 in_flight, streakVars>>

(* on_sync with a SYNC_ACK; on_link_dead. *)
SetSynced(b) ==
  /\ s_synced # b
  /\ s_synced' = b
  /\ UNCHANGED <<tableVars, s_waiter_free_sem, table_mutex, pc, localVars, callVars,
                 linkVars, s_roundtrip_dead_streak>>

CallStep(c) ==
  \/ TakeUnit(c) \/ NoUnit(c) \/ ClaimSlot(c) \/ DrawSeq(c) \/ GiveBack(c)
  \/ Send(c) \/ Wake(c) \/ Timeout(c) \/ ReadOk(c) \/ Release(c) \/ GiveUnit(c)
  \/ ClearStreak(c) \/ BumpStreak(c) \/ ForceResync(c) \/ ZeroStreak(c)

Link ==
  \/ \E r \in in_flight, t \in RspTypes : Deliver(r, t)
  \/ OtherSend
  \/ \E b \in BOOLEAN : SetSynced(b)

Next ==
  \/ \E c \in Callers, t \in RspTypes : Call(c, t)
  \/ \E c \in Callers : CallStep(c)
  \/ Link

Spec == Init /\ [][Next]_vars

(* Every task is scheduled; nothing is assumed of the link or of the P4. *)
FairSpec == Spec /\ \A c \in Callers : WF_vars(CallStep(c))

-----------------------------------------------------------------------------
(* Two calls in flight never hold the same seq, whatever the counter does     *)
(* (Defect 1 in waiter_claim's comment): a reply names one call.              *)
UniqueLiveSeqs ==
  \A s, t \in Slots : s # t /\ seq[s] # 0 => seq[s] # seq[t]

(* Whatever is in a caller's buffer answers the very call it is making, and a *)
(* call that returned true has an answer of the type it asked for.            *)
ReplyAnswersCall ==
  \A c \in Callers :
    /\ buf[c] # None => buf[c].call = ThisCall(c)
    /\ ret[c] => buf[c] # None /\ buf[c].type = want[c]

(* A call that does not own a slot is never written to: late, duplicated and  *)
(* mistyped frames find no slot, or the slot of somebody else (Defect 2).     *)
NoWriteAfterReturn ==
  [][\A c \in Callers :
       pc[c] \notin Holding => (buf'[c] = buf[c] \/ buf'[c] = None)]_vars

(* The semaphore counts the slots: every path out of a call returns its unit  *)
(* exactly once.                                                              *)
UnitsConserved == s_waiter_free_sem + Cardinality(UnitHolders) = SlotCount

(* Whoever took a unit finds a free slot ("the table state diverged from the  *)
(* sem count" never happens).                                                 *)
UnitFindsSlot ==
  \A c \in Callers : pc[c] = "claim" /\ table_mutex = None =>
    \E s \in Slots : seq[s] = 0

(* A caller is woken only by a frame for this very call, never by the signal  *)
(* left behind by the slot's previous user.                                   *)
WokenByOwnReply ==
  \A c \in Callers : outcome[c] = "reply" => heard[c]

(* Who owns what, the reason the properties above hold.  A slot with a seq    *)
(* points into the buffer of a caller that is inside its call and sits in     *)
(* that slot; a caller between claim and release owns such a slot; the table  *)
(* mutex is held across actions only by the caller in the draw loop.          *)
SlotsOwned ==
  \A s \in Slots : seq[s] # 0 =>
    /\ rsp_buf[s] \in Callers
    /\ pc[rsp_buf[s]] \in Holding
    /\ slot[rsp_buf[s]] = s

HoldersOwn ==
  \A c \in Callers : pc[c] \in Holding =>
    /\ slot[c] \in Slots
    /\ seq[slot[c]] # 0
    /\ rsp_buf[slot[c]] = c
    /\ rsp_type[slot[c]] = want[c]

DrawLocked ==
  \A c \in Callers :
    /\ pc[c] = "draw" <=> table_mutex = c
    /\ pc[c] = "draw" => slot[c] \in Slots /\ seq[slot[c]] = 0 /\ tries[c] < MaxTries
    /\ pc[c] \in {"idle", "take", "claim"} => tries[c] = 0
    /\ pc[c] \notin Outside => want[c] \in RspTypes
    /\ pc[c] \in {"read", "release", "give"} => outcome[c] # "none"

TableInv ==
  TypeOK /\ UnitsConserved /\ SlotsOwned /\ HoldersOwn /\ DrawLocked /\ UniqueLiveSeqs

(* A frame on the way that carries the seq of a live slot belongs to the call *)
(* in that slot, and what a call has read or will return is its own answer.   *)
FramesOwned ==
  \A r \in in_flight, s \in Slots :
    seq[s] # 0 /\ r.seq = seq[s] => r.call = ThisCall(rsp_buf[s])

OwnAnswer(c) == buf[c] # None /\ buf[c].type = want[c]
AnswersOwned ==
  \A c \in Callers :
    /\ pc[c] \in Holding /\ ok[slot[c]] => OwnAnswer(c)
    /\ ok_read[c] => OwnAnswer(c) /\ pc[c] \notin Outside

CorrelationInv == TableInv /\ FramesOwned /\ AnswersOwned /\ ReplyAnswersCall

(* Every call returns, even if the P4 never answers and the link is dead (by  *)
(* hand: MCHapRoundtrip_calls.cfg with FairSpec, no SYMMETRY, two numbers and *)
(* one type).                                                                 *)
CallReturns == \A c \in Callers : pc[c] # "idle" ~> pc[c] = "idle"
=============================================================================
