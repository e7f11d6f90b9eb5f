------------------------ MODULE HapRoundtrip_proofs ------------------------
(* Proofs about the waiter table of hap_roundtrip_v2, for any number of     *)
(* callers, slots, sequence numbers and calls.                              *)
EXTENDS HapRoundtrip, FiniteSetTheorems, TLAPS

(* Callers that hold a unit are finitely many.                                *)
LEMMA UnitHoldersFinite ==
  IsFiniteSet(UnitHolders) /\ IsFiniteSet(UnitHolders')
<1>1. UnitHolders \subseteq Callers /\ UnitHolders' \subseteq Callers
  BY DEF UnitHolders
<1>. QED  BY <1>1, FS_Subset, ConstantsAssumption

(* The semaphore stays in range because the units are conserved. *)
LEMMA UnitsInRange ==
  ASSUME UnitsConserved, s_waiter_free_sem \in Nat
  PROVE  s_waiter_free_sem \in 0..SlotCount
<1>1. Cardinality(UnitHolders) \in Nat
  BY UnitHoldersFinite, FS_CardinalityType
<1>. QED  BY <1>1, ConstantsAssumption DEF UnitsConserved

(* A caller that takes a unit joins the holders; one that gives it leaves.  *)
LEMMA UnitTaken ==
  ASSUME NEW c \in Callers, UnitsConserved, s_waiter_free_sem \in Nat,
         s_waiter_free_sem' = s_waiter_free_sem - 1,
         c \notin UnitHolders, UnitHolders' = UnitHolders \cup {c}
  PROVE  UnitsConserved'
<1>1. Cardinality(UnitHolders') = Cardinality(UnitHolders) + 1
  BY UnitHoldersFinite, FS_AddElement
<1>2. Cardinality(UnitHolders) \in Nat
  BY UnitHoldersFinite, FS_CardinalityType
<1>. QED  BY <1>1, <1>2, ConstantsAssumption DEF UnitsConserved

(* A caller that gives its unit back is one holder less.                      *)
LEMMA UnitGiven ==
  ASSUME NEW c \in Callers, UnitsConserved, s_waiter_free_sem \in Nat,
         s_waiter_free_sem' = s_waiter_free_sem + 1,
         c \in UnitHolders, UnitHolders' = UnitHolders \ {c}
  PROVE  UnitsConserved' /\ s_waiter_free_sem' \in 0..SlotCount
<1>1. Cardinality(UnitHolders') = Cardinality(UnitHolders) - 1
  BY UnitHoldersFinite, FS_RemoveElement
<1>2. Cardinality(UnitHolders) \in Nat /\ Cardinality(UnitHolders') \in Nat
  BY UnitHoldersFinite, FS_CardinalityType
<1>. QED  BY <1>1, <1>2, ConstantsAssumption DEF UnitsConserved

(* A caller that neither takes nor gives changes no account.                  *)
LEMMA UnitsKept ==
  ASSUME UnitsConserved, s_waiter_free_sem' = s_waiter_free_sem,
         UnitHolders' = UnitHolders
  PROVE  UnitsConserved'
BY DEF UnitsConserved

(* The types of what a call keeps, after it returned or moved on. *)
CallTypes ==
  /\ pc \in [Callers -> Labels]
  /\ want \in [Callers -> RspTypes \cup {None}]
  /\ slot \in [Callers -> Slots \cup {None}]
  /\ tries \in [Callers -> 0..MaxTries]
  /\ outcome \in [Callers -> {"none", "refused", "reply", "timeout"}]
  /\ ok_read \in [Callers -> BOOLEAN]
  /\ buf \in [Callers -> Frames \cup {None}]
  /\ ret \in [Callers -> BOOLEAN]
  /\ call_no \in [Callers -> 0..MaxCalls]
  /\ heard \in [Callers -> BOOLEAN]

LEMMA ReturnTypes ==
  ASSUME CallTypes, NEW c \in Callers, NEW r \in BOOLEAN, Return(c, r)
  PROVE  CallTypes'
<1>1. 0 \in 0..MaxTries
  BY ConstantsAssumption
<1>. QED  BY <1>1, Zenon DEF CallTypes, Return, Goto, Labels, Outside

LEMMA ContinueTypes ==
  ASSUME CallTypes, NEW c \in Callers, NEW l \in Labels, Continue(c, l)
  PROVE  CallTypes'
BY Zenon DEF CallTypes, Continue, Goto, localVars, callVars

-----------------------------------------------------------------------------
(* Initially all slots are free and all units there.                          *)
LEMMA TableInit == Init => TableInv
<1>. SUFFICES ASSUME Init PROVE TableInv
  OBVIOUS
<1>1. TypeOK
  <2>1. MaxSeq \in Seqs /\ 0 \in 0..(U8 - 1) /\ 0 \in 0..MaxSeq /\ 0 \in 0..MaxTries
        /\ 0 \in 0..MaxCalls /\ SlotCount \in 0..SlotCount
    BY ConstantsAssumption DEF Seqs, U8
  <2>. QED  BY <2>1, Zenon DEF Init, TypeOK, Labels, Outside
<1>2. UnitsConserved
  <2>1. UnitHolders = {}
    BY DEF Init, UnitHolders, HasUnit, Claiming, Holding
  <2>. QED  BY <2>1, FS_EmptySet, ConstantsAssumption DEF Init, UnitsConserved
<1>3. SlotsOwned /\ HoldersOwn /\ DrawLocked /\ UniqueLiveSeqs
  BY ConstantsAssumption
  DEF Init, SlotsOwned, HoldersOwn, DrawLocked, UniqueLiveSeqs, Holding, Outside, Slots
<1>. QED  BY <1>1, <1>2, <1>3 DEF TableInv

(* Every step keeps the table invariant: one step per action. *)
LEMMA TableStep == TableInv /\ [Next]_vars => TableInv'
<1>. SUFFICES ASSUME TableInv, [Next]_vars PROVE TableInv'
  OBVIOUS
<1>. USE ConstantsAssumption
     DEF TableInv, tableVars, localVars, callVars, linkVars, streakVars
<1>1. ASSUME NEW c \in Callers, NEW t \in RspTypes, Call(c, t) PROVE TableInv'
  <2>. USE <1>1
  <2>1. UnitsConserved'
    <3>1. UnitHolders' = UnitHolders /\ s_waiter_free_sem' = s_waiter_free_sem
      BY DEF Call, Goto, UnitHolders, HasUnit, Claiming, Holding, TypeOK
    <3>. QED  BY <3>1, UnitsKept
  <2>2. TypeOK'
    BY <2>1 DEF Call, Goto, TypeOK, Labels, Claiming, Holding, Returning, Outside
  <2>3. (SlotsOwned /\ HoldersOwn /\ DrawLocked /\ UniqueLiveSeqs)'
    BY DEF Call, Goto, TypeOK, Claiming, Holding, Outside, SlotsOwned, HoldersOwn,
           DrawLocked, UniqueLiveSeqs
  <2>. QED  BY <2>1, <2>2, <2>3
<1>2. ASSUME NEW c \in Callers, TakeUnit(c) PROVE TableInv'
  <2>. USE <1>2
  <2>1. UnitsConserved'
    <3>1. c \notin UnitHolders /\ UnitHolders' = UnitHolders \cup {c}
      BY DEF TakeUnit, Continue, Goto, UnitHolders, HasUnit, Claiming, Holding, TypeOK
    <3>. QED  BY <3>1, UnitTaken DEF TakeUnit, TypeOK
  <2>2. TypeOK'
    BY <2>1 DEF TakeUnit, Continue, Goto, TypeOK, Labels, Claiming, Holding, Returning, Outside
  <2>3. (SlotsOwned /\ HoldersOwn /\ DrawLocked /\ UniqueLiveSeqs)'
    BY DEF TakeUnit, Continue, Goto, TypeOK, Claiming, Holding, Outside, SlotsOwned, HoldersOwn,
           DrawLocked, UniqueLiveSeqs
  <2>. QED  BY <2>1, <2>2, <2>3
<1>3. ASSUME NEW c \in Callers, NoUnit(c) PROVE TableInv'
  <2>. USE <1>3
  <2>1. UnitsConserved'
    <3>1. UnitHolders' = UnitHolders /\ s_waiter_free_sem' = s_waiter_free_sem
      BY DEF NoUnit, Return, Goto, UnitHolders, HasUnit, Claiming, Holding, TypeOK
    <3>. QED  BY <3>1, UnitsKept
  <2>2. TypeOK'
    BY <2>1 DEF NoUnit, Return, Goto, TypeOK, Labels, Claiming, Holding, Returning, Outside
  <2>3. (SlotsOwned /\ HoldersOwn /\ DrawLocked /\ UniqueLiveSeqs)'
    BY DEF NoUnit, Return, Goto, TypeOK, Claiming, Holding, Outside, SlotsOwned, HoldersOwn,
           DrawLocked, UniqueLiveSeqs
  <2>. QED  BY <2>1, <2>2, <2>3
<1>4. ASSUME NEW c \in Callers, ClaimSlot(c) PROVE TableInv'
  <2>. USE <1>4
  <2>0. None # c
    OBVIOUS
  <2>1. UnitsConserved'
    <3>1. UnitHolders' = UnitHolders /\ s_waiter_free_sem' = s_waiter_free_sem
      BY DEF ClaimSlot, Goto, UnitHolders, HasUnit, Claiming, Holding, TypeOK
    <3>. QED  BY <3>1, UnitsKept
  <2>2. TypeOK'
    BY <2>1 DEF ClaimSlot, Goto, TypeOK, Labels, Claiming, Holding, Returning, Outside
  <2>3. (SlotsOwned /\ HoldersOwn /\ DrawLocked /\ UniqueLiveSeqs)'
    <3>1. SlotsOwned' /\ HoldersOwn' /\ UniqueLiveSeqs'
      BY DEF ClaimSlot, Goto, TypeOK, Holding, SlotsOwned, HoldersOwn, UniqueLiveSeqs
    <3>2. tries[c] < MaxTries
      BY DEF ClaimSlot, DrawLocked
    <3>3. DrawLocked'
      BY <3>2, <2>0 DEF ClaimSlot, Goto, TypeOK, Outside, DrawLocked
    <3>. QED  BY <3>1, <3>3
  <2>. QED  BY <2>1, <2>2, <2>3
<1>5. ASSUME NEW c \in Callers, DrawSeq(c) PROVE TableInv'
  <2>. USE <1>5
  <2>0. None # c
    OBVIOUS
  <2>1. UnitsConserved'
    <3>1. UnitHolders' = UnitHolders /\ s_waiter_free_sem' = s_waiter_free_sem
      BY DEF DrawSeq, Goto, UnitHolders, HasUnit, Claiming, Holding, TypeOK
    <3>. QED  BY <3>1, UnitsKept
  <2>2. TypeOK'
    <3>1. NextSeq(last_seq) \in Seqs /\ NextSeq(last_seq) \in 0..MaxSeq
      BY DEF TypeOK, NextSeq, Seqs
    <3>2. slot[c] \in Slots /\ want[c] \in RspTypes /\ tries[c] + 1 \in 0..MaxTries
      BY DEF DrawSeq, DrawLocked, Outside, TypeOK
    <3>3. CASE Collides(NextSeq(last_seq))
      BY <3>1, <3>2, <3>3
      DEF DrawSeq, Goto, TypeOK, Labels, Returning
    <3>4. CASE ~ Collides(NextSeq(last_seq))
      <4>1. seq' \in [Slots -> 0..MaxSeq] /\ last_seq' \in Seqs /\ in_flight' \subseteq Frames
        BY <3>1, <3>2, <3>4 DEF DrawSeq, TypeOK, Surviving
      <4>2. /\ rsp_type' \in [Slots -> RspTypes \cup {None}]
            /\ rsp_buf' \in [Slots -> Callers \cup {None}]
            /\ ok' \in [Slots -> BOOLEAN] /\ sem' \in [Slots -> BOOLEAN]
        <5>1. rsp_type' \in [Slots -> RspTypes \cup {None}]
          BY <3>2, <3>4, Zenon DEF DrawSeq, TypeOK
        <5>2. rsp_buf' \in [Slots -> Callers \cup {None}]
          BY <3>2, <3>4, Zenon DEF DrawSeq, TypeOK
        <5>3. ok' \in [Slots -> BOOLEAN]
          BY <3>2, <3>4, Zenon DEF DrawSeq, TypeOK
        <5>4. sem' \in [Slots -> BOOLEAN]
          BY <3>2, <3>4, Zenon DEF DrawSeq, TypeOK, DrainSem
        <5>. QED  BY <5>1, <5>2, <5>3, <5>4
      <4>3. pc' \in [Callers -> Labels] /\ table_mutex' \in Callers \cup {None}
        BY <3>4, Zenon DEF DrawSeq, Goto, TypeOK, Labels, Holding
      <4>. QED  BY <4>1, <4>2, <4>3, <3>4 DEF DrawSeq, TypeOK
    <3>. QED  BY <3>3, <3>4
  <2>3. (SlotsOwned /\ HoldersOwn /\ DrawLocked /\ UniqueLiveSeqs)'
    <3>1. NextSeq(last_seq) \in Seqs /\ NextSeq(last_seq) # 0
      BY DEF TypeOK, NextSeq, Seqs
    <3>2. slot[c] \in Slots /\ seq[slot[c]] = 0 /\ tries[c] \in 0..MaxTries
          /\ table_mutex = c /\ want[c] \in RspTypes
      BY DEF DrawSeq, DrawLocked, Outside, TypeOK
    <3>3. CASE Collides(NextSeq(last_seq))
      <4>1. SlotsOwned' /\ HoldersOwn' /\ UniqueLiveSeqs'
        BY <3>3 DEF DrawSeq, Goto, TypeOK, Holding, SlotsOwned, HoldersOwn, UniqueLiveSeqs
      <4>2. CASE tries[c] + 1 < MaxTries
        BY <3>2, <3>3, <4>1, <4>2 DEF DrawSeq, TypeOK, DrawLocked, Outside
      <4>3. CASE ~ (tries[c] + 1 < MaxTries)
        BY <3>2, <3>3, <4>1, <4>3, <2>0 DEF DrawSeq, Goto, TypeOK, DrawLocked, Outside
      <4>. QED  BY <4>2, <4>3
    <3>4. CASE ~ Collides(NextSeq(last_seq))
      <4>1. UniqueLiveSeqs'
        BY <3>1, <3>2, <3>4 DEF DrawSeq, TypeOK, UniqueLiveSeqs, Collides
      <4>2. SlotsOwned' /\ HoldersOwn'
        BY <3>1, <3>2, <3>4 DEF DrawSeq, Goto, TypeOK, Holding, SlotsOwned, HoldersOwn
      <4>3. DrawLocked'
        BY <3>2, <3>4, <2>0 DEF DrawSeq, Goto, TypeOK, Outside, DrawLocked
      <4>. QED  BY <4>1, <4>2, <4>3
    <3>. QED  BY <3>3, <3>4
  <2>. QED  BY <2>1, <2>2, <2>3
<1>6. ASSUME NEW c \in Callers, GiveBack(c) PROVE TableInv'
  <2>. USE <1>6
  <2>1. UnitsConserved' /\ s_waiter_free_sem' \in 0..SlotCount
    <3>1. c \in UnitHolders /\ UnitHolders' = UnitHolders \ {c}
      BY DEF GiveBack, Return, Goto, UnitHolders, HasUnit, Claiming, Holding, TypeOK, DrawLocked
    <3>. QED  BY <3>1, UnitGiven DEF GiveBack, TypeOK
  <2>2. TypeOK'
    BY <2>1 DEF GiveBack, Return, Goto, TypeOK, Labels, Claiming, Holding, Returning, Outside
  <2>3. (SlotsOwned /\ HoldersOwn /\ DrawLocked /\ UniqueLiveSeqs)'
    BY DEF GiveBack, Return, Goto, TypeOK, Claiming, Holding, Outside, SlotsOwned, HoldersOwn,
           DrawLocked, UniqueLiveSeqs
  <2>. QED  BY <2>1, <2>2, <2>3
<1>7. ASSUME NEW c \in Callers, Send(c) PROVE TableInv'
  <2>. USE <1>7
  <2>1. UnitsConserved'
    <3>1. UnitHolders' = UnitHolders /\ s_waiter_free_sem' = s_waiter_free_sem
      BY DEF Send, Continue, Finish, Goto, UnitHolders, HasUnit, Claiming, Holding, TypeOK
    <3>. QED  BY <3>1, UnitsKept
  <2>2. TypeOK'
    <3>1. [seq |-> seq[slot[c]], type |-> want[c], call |-> ThisCall(c)] \in Frames
      <4>1. seq[slot[c]] \in Seqs /\ want[c] \in RspTypes
        BY DEF Send, HoldersOwn, DrawLocked, TypeOK, Holding, Outside, Seqs
      <4>. QED  BY <4>1 DEF Frames, CallId, ThisCall, TypeOK
    <3>2. in_flight' \subseteq Frames
      BY <3>1 DEF Send, TypeOK
    <3>. QED
      BY <3>2 DEF Send, Continue, Finish, Goto, TypeOK, Labels, Holding
  <2>3. (SlotsOwned /\ HoldersOwn /\ DrawLocked /\ UniqueLiveSeqs)'
    BY DEF Send, Continue, Finish, Goto, TypeOK, Claiming, Holding, Outside, SlotsOwned, HoldersOwn,
           DrawLocked, UniqueLiveSeqs
  <2>. QED  BY <2>1, <2>2, <2>3
<1>8. ASSUME NEW c \in Callers, Wake(c) PROVE TableInv'
  <2>. USE <1>8
  <2>1. UnitsConserved'
    <3>1. UnitHolders' = UnitHolders /\ s_waiter_free_sem' = s_waiter_free_sem
      BY DEF Wake, Finish, Goto, UnitHolders, HasUnit, Claiming, Holding, TypeOK
    <3>. QED  BY <3>1, UnitsKept
  <2>2. TypeOK'
    BY <2>1 DEF Wake, Finish, Goto, TypeOK, Labels, Claiming, Holding, Returning, Outside
  <2>3. (SlotsOwned /\ HoldersOwn /\ DrawLocked /\ UniqueLiveSeqs)'
    BY DEF Wake, Finish, Goto, TypeOK, Claiming, Holding, Outside, SlotsOwned, HoldersOwn,
           DrawLocked, UniqueLiveSeqs
  <2>. QED  BY <2>1, <2>2, <2>3
<1>9. ASSUME NEW c \in Callers, Timeout(c) PROVE TableInv'
  <2>. USE <1>9
  <2>1. UnitsConserved'
    <3>1. UnitHolders' = UnitHolders /\ s_waiter_free_sem' = s_waiter_free_sem
      BY DEF Timeout, Finish, Goto, UnitHolders, HasUnit, Claiming, Holding, TypeOK
    <3>. QED  BY <3>1, UnitsKept
  <2>2. TypeOK'
    BY <2>1 DEF Timeout, Finish, Goto, TypeOK, Labels, Claiming, Holding, Returning, Outside
  <2>3. (SlotsOwned /\ HoldersOwn /\ DrawLocked /\ UniqueLiveSeqs)'
    BY DEF Timeout, Finish, Goto, TypeOK, Claiming, Holding, Outside, SlotsOwned, HoldersOwn,
           DrawLocked, UniqueLiveSeqs
  <2>. QED  BY <2>1, <2>2, <2>3
<1>10. ASSUME NEW c \in Callers, ReadOk(c) PROVE TableInv'
  <2>. USE <1>10
  <2>1. UnitsConserved'
    <3>1. UnitHolders' = UnitHolders /\ s_waiter_free_sem' = s_waiter_free_sem
      BY DEF ReadOk, Goto, UnitHolders, HasUnit, Claiming, Holding, TypeOK
    <3>. QED  BY <3>1, UnitsKept
  <2>2. TypeOK'
    <3>1. slot[c] \in Slots
      BY DEF ReadOk, HoldersOwn, Holding
    <3>2. ok_read' \in [Callers -> BOOLEAN] /\ pc' \in [Callers -> Labels]
      BY <3>1, Zenon DEF ReadOk, Goto, TypeOK, Labels, Holding
    <3>. QED  BY <3>2 DEF ReadOk, TypeOK
  <2>3. (SlotsOwned /\ HoldersOwn /\ DrawLocked /\ UniqueLiveSeqs)'
    <3>1. /\ pc[c] = "read" /\ pc' = [pc EXCEPT ![c] = "release"]
          /\ UNCHANGED <<tableVars, table_mutex, slot, tries, outcome, want>>
      BY DEF ReadOk, Goto
    <3>2. outcome[c] # "none"
      BY <3>1 DEF DrawLocked
    <3>. QED
      BY <3>1, <3>2 DEF TypeOK, Holding, Outside, SlotsOwned, HoldersOwn, DrawLocked,
         UniqueLiveSeqs
  <2>. QED  BY <2>1, <2>2, <2>3
<1>11. ASSUME NEW c \in Callers, Release(c) PROVE TableInv'
  <2>. USE <1>11
  <2>1. UnitsConserved'
    <3>1. UnitHolders' = UnitHolders /\ s_waiter_free_sem' = s_waiter_free_sem
      BY DEF Release, Continue, Goto, UnitHolders, HasUnit, Claiming, Holding, TypeOK
    <3>. QED  BY <3>1, UnitsKept
  <2>2. TypeOK'
    <3>1. slot[c] \in Slots /\ 0 \in 0..MaxSeq
      BY DEF Release, HoldersOwn, Holding
    <3>2. seq' \in [Slots -> 0..MaxSeq]
      BY <3>1, Zenon DEF Release, TypeOK
    <3>3. CallTypes'
      BY ContinueTypes DEF Release, TypeOK, CallTypes, Labels, Returning
    <3>. QED  BY <3>2, <3>3 DEF Release, TypeOK, CallTypes
  <2>3. (SlotsOwned /\ HoldersOwn /\ DrawLocked /\ UniqueLiveSeqs)'
    BY DEF Release, Continue, Goto, TypeOK, Claiming, Holding, Outside, SlotsOwned, HoldersOwn,
           DrawLocked, UniqueLiveSeqs
  <2>. QED  BY <2>1, <2>2, <2>3
<1>12. ASSUME NEW c \in Callers, GiveUnit(c) PROVE TableInv'
  <2>. USE <1>12
  <2>1. UnitsConserved' /\ s_waiter_free_sem' \in 0..SlotCount
    <3>1. c \in UnitHolders /\ UnitHolders' = UnitHolders \ {c}
      BY DEF GiveUnit, Continue, Return, Goto, UnitHolders, HasUnit, Claiming, Holding, TypeOK, DrawLocked
    <3>. QED  BY <3>1, UnitGiven DEF GiveUnit, TypeOK
  <2>2. TypeOK'
    <3>1. CallTypes /\ {"clear", "bump"} \subseteq Labels
      BY DEF TypeOK, CallTypes, Labels, Returning
    <3>2. CallTypes'
      BY <3>1, ReturnTypes, ContinueTypes DEF GiveUnit
    <3>. QED  BY <2>1, <3>2 DEF GiveUnit, TypeOK, CallTypes
  <2>3. (SlotsOwned /\ HoldersOwn /\ DrawLocked /\ UniqueLiveSeqs)'
    BY DEF GiveUnit, Continue, Return, Goto, TypeOK, Claiming, Holding, Outside, SlotsOwned, HoldersOwn,
           DrawLocked, UniqueLiveSeqs
  <2>. QED  BY <2>1, <2>2, <2>3
<1>13. ASSUME NEW c \in Callers, ClearStreak(c) PROVE TableInv'
  <2>. USE <1>13
  <2>1. UnitsConserved'
    <3>1. UnitHolders' = UnitHolders /\ s_waiter_free_sem' = s_waiter_free_sem
      BY DEF ClearStreak, Return, Goto, UnitHolders, HasUnit, Claiming, Holding, TypeOK
    <3>. QED  BY <3>1, UnitsKept
  <2>2. TypeOK'
    BY <2>1 DEF ClearStreak, Return, Goto, TypeOK, Labels, Claiming, Holding, Returning, Outside, U8
  <2>3. (SlotsOwned /\ HoldersOwn /\ DrawLocked /\ UniqueLiveSeqs)'
    BY DEF ClearStreak, Return, Goto, TypeOK, Claiming, Holding, Outside, SlotsOwned, HoldersOwn,
           DrawLocked, UniqueLiveSeqs
  <2>. QED  BY <2>1, <2>2, <2>3
<1>14. ASSUME NEW c \in Callers, BumpStreak(c) PROVE TableInv'
  <2>. USE <1>14
  <2>1. UnitsConserved'
    <3>1. UnitHolders' = UnitHolders /\ s_waiter_free_sem' = s_waiter_free_sem
      BY DEF BumpStreak, Continue, Return, Goto, UnitHolders, HasUnit, Claiming, Holding, TypeOK
    <3>. QED  BY <3>1, UnitsKept
  <2>2. TypeOK'
    <3>1. CallTypes /\ "resync" \in Labels
      BY DEF TypeOK, CallTypes, Labels, Returning
    <3>2. CallTypes'
      BY <3>1, ReturnTypes, ContinueTypes DEF BumpStreak
    <3>3. s_roundtrip_dead_streak' \in 0..(U8 - 1)
      BY DEF BumpStreak, TypeOK, U8
    <3>. QED  BY <3>2, <3>3 DEF BumpStreak, TypeOK, CallTypes
  <2>3. (SlotsOwned /\ HoldersOwn /\ DrawLocked /\ UniqueLiveSeqs)'
    BY DEF BumpStreak, Continue, Return, Goto, TypeOK, Claiming, Holding, Outside, SlotsOwned, HoldersOwn,
           DrawLocked, UniqueLiveSeqs
  <2>. QED  BY <2>1, <2>2, <2>3
<1>15. ASSUME NEW c \in Callers, ForceResync(c) PROVE TableInv'
  <2>. USE <1>15
  <2>1. UnitsConserved'
    <3>1. UnitHolders' = UnitHolders /\ s_waiter_free_sem' = s_waiter_free_sem
      BY DEF ForceResync, Continue, Return, Goto, UnitHolders, HasUnit, Claiming, Holding, TypeOK
    <3>. QED  BY <3>1, UnitsKept
  <2>2. TypeOK'
    <3>1. CallTypes /\ "zero" \in Labels
      BY DEF TypeOK, CallTypes, Labels, Returning
    <3>2. CallTypes'
      BY <3>1, ReturnTypes, ContinueTypes DEF ForceResync
    <3>. QED  BY <3>2 DEF ForceResync, TypeOK, CallTypes
  <2>3. (SlotsOwned /\ HoldersOwn /\ DrawLocked /\ UniqueLiveSeqs)'
    BY DEF ForceResync, Continue, Return, Goto, TypeOK, Claiming, Holding, Outside, SlotsOwned, HoldersOwn,
           DrawLocked, UniqueLiveSeqs
  <2>. QED  BY <2>1, <2>2, <2>3
<1>16. ASSUME NEW c \in Callers, ZeroStreak(c) PROVE TableInv'
  <2>. USE <1>16
  <2>1. UnitsConserved'
    <3>1. UnitHolders' = UnitHolders /\ s_waiter_free_sem' = s_waiter_free_sem
      BY DEF ZeroStreak, Return, Goto, UnitHolders, HasUnit, Claiming, Holding, TypeOK
    <3>. QED  BY <3>1, UnitsKept
  <2>2. TypeOK'
    BY <2>1 DEF ZeroStreak, Return, Goto, TypeOK, Labels, Claiming, Holding, Returning, Outside, U8
  <2>3. (SlotsOwned /\ HoldersOwn /\ DrawLocked /\ UniqueLiveSeqs)'
    BY DEF ZeroStreak, Return, Goto, TypeOK, Claiming, Holding, Outside, SlotsOwned, HoldersOwn,
           DrawLocked, UniqueLiveSeqs
  <2>. QED  BY <2>1, <2>2, <2>3
<1>17. ASSUME NEW r \in in_flight, NEW t \in RspTypes, Deliver(r, t) PROVE TableInv'
  <2>. USE <1>17
  <2>1. UnitsConserved'
    BY UnitsKept DEF Deliver, UnitHolders
  <2>2. TypeOK'
    <3>1. in_flight' \subseteq Frames
      BY DEF Deliver, TypeOK
    <3>2. r \in Frames /\ [r EXCEPT !.type = t] \in Frames
      BY DEF TypeOK, Frames
    <3>3. /\ sem' \in [Slots -> BOOLEAN] /\ ok' \in [Slots -> BOOLEAN]
          /\ heard' \in [Callers -> BOOLEAN] /\ buf' \in [Callers -> Frames \cup {None}]
      <4>1. CASE \A s \in Slots : seq[s] # r.seq
        BY <4>1, Zenon DEF Deliver, TypeOK
      <4>2. CASE ~ \A s \in Slots : seq[s] # r.seq
        <5>1. r.seq # 0
          BY <3>2 DEF Frames, Seqs
        <5>2. PICK s \in Slots :
                /\ seq[s] = r.seq
                /\ sem' = [sem EXCEPT ![s] = TRUE]
                /\ heard' = [heard EXCEPT ![rsp_buf[s]] = TRUE]
                /\ \/ /\ buf' = [buf EXCEPT ![rsp_buf[s]] = [r EXCEPT !.type = t]]
                      /\ ok' = [ok EXCEPT ![s] = TRUE]
                   \/ UNCHANGED <<buf, ok>>
          BY <4>2, Zenon DEF Deliver
        <5>3. rsp_buf[s] \in Callers
          BY <5>1, <5>2 DEF SlotsOwned
        <5>4. sem' \in [Slots -> BOOLEAN] /\ heard' \in [Callers -> BOOLEAN]
          BY <5>2, <5>3, Zenon DEF TypeOK
        <5>5. ok' \in [Slots -> BOOLEAN] /\ buf' \in [Callers -> Frames \cup {None}]
          <6> DEFINE d == [r EXCEPT !.type = t]
          <6>1. d \in Frames
            BY <3>2
          <6>2. \/ buf' = [buf EXCEPT ![rsp_buf[s]] = d] /\ ok' = [ok EXCEPT ![s] = TRUE]
                \/ UNCHANGED <<buf, ok>>
            BY <5>2, Zenon
          <6> HIDE DEF d
          <6>3. CASE UNCHANGED <<buf, ok>>
            BY <6>3 DEF TypeOK
          <6>4. CASE buf' = [buf EXCEPT ![rsp_buf[s]] = d] /\ ok' = [ok EXCEPT ![s] = TRUE]
            <7>1. buf' \in [Callers -> Frames \cup {None}]
              BY <6>1, <6>4, <5>3 DEF TypeOK
            <7>2. ok' \in [Slots -> BOOLEAN]
              BY <6>4, Zenon DEF TypeOK
            <7>. QED  BY <7>1, <7>2
          <6>. QED  BY <6>2, <6>3, <6>4
        <5>. QED  BY <5>4, <5>5
      <4>. QED  BY <4>1, <4>2
    <3>. QED  BY <3>1, <3>3 DEF Deliver, TypeOK
  <2>3. (SlotsOwned /\ HoldersOwn /\ DrawLocked /\ UniqueLiveSeqs)'
    BY DEF Deliver, TypeOK, SlotsOwned, HoldersOwn, DrawLocked, UniqueLiveSeqs
  <2>. QED  BY <2>1, <2>2, <2>3
<1>18. ASSUME OtherSend PROVE TableInv'
  <2>. USE <1>18
  <2>1. UnitsConserved'
    BY UnitsKept DEF OtherSend, UnitHolders
  <2>2. TypeOK'
    BY DEF OtherSend, TypeOK, NextSeq, Seqs
  <2>3. (SlotsOwned /\ HoldersOwn /\ DrawLocked /\ UniqueLiveSeqs)'
    BY DEF OtherSend, TypeOK, SlotsOwned, HoldersOwn, DrawLocked, UniqueLiveSeqs
  <2>. QED  BY <2>1, <2>2, <2>3
<1>19. ASSUME NEW b \in BOOLEAN, SetSynced(b) PROVE TableInv'
  <2>. USE <1>19
  <2>1. UnitsConserved'
    BY UnitsKept DEF SetSynced, UnitHolders
  <2>2. TypeOK'
    BY DEF SetSynced, TypeOK
  <2>3. (SlotsOwned /\ HoldersOwn /\ DrawLocked /\ UniqueLiveSeqs)'
    BY DEF SetSynced, TypeOK, SlotsOwned, HoldersOwn, DrawLocked, UniqueLiveSeqs
  <2>. QED  BY <2>1, <2>2, <2>3
<1>20. CASE UNCHANGED vars
  <2>. USE <1>20 DEF vars
  <2>1. UnitsConserved'
    BY UnitsKept DEF UnitHolders
  <2>2. (TypeOK /\ SlotsOwned /\ HoldersOwn /\ DrawLocked /\ UniqueLiveSeqs)'
    BY DEF TypeOK, SlotsOwned, HoldersOwn, DrawLocked, UniqueLiveSeqs
  <2>. QED  BY <2>1, <2>2
<1>. QED
  BY <1>1, <1>2, <1>3, <1>4, <1>5, <1>6, <1>7, <1>8, <1>9, <1>10, <1>11, <1>12, <1>13, <1>14, <1>15, <1>16, <1>17, <1>18, <1>19, <1>20 DEF Next, CallStep, Link

(* The table invariant holds in every reachable state, with or without        *)
(* assumptions on how long a frame lives.                                     *)
THEOREM TableInvariant == Spec => []TableInv
<1>1. TableInv /\ [Next]_vars => TableInv'
  BY TableStep
<1>. QED  BY TableInit, <1>1, PTL DEF Spec

(* Every variable keeps its type. *)
THEOREM TypeCorrect == Spec => []TypeOK
<1>1. TableInv => TypeOK
  BY DEF TableInv
<1>. QED  BY <1>1, TableInvariant, PTL

(* No two calls in flight hold the same seq, although the counter wraps and   *)
(* other tasks draw from it all the time.                                     *)
THEOREM SeqsUnique == Spec => []UniqueLiveSeqs
<1>1. TableInv => UniqueLiveSeqs
  BY DEF TableInv
<1>. QED  BY <1>1, TableInvariant, PTL

(* No path through a call loses a unit of the semaphore or gives it twice.    *)
THEOREM UnitsAreConserved == Spec => []UnitsConserved
<1>1. TableInv => UnitsConserved
  BY DEF TableInv
<1>. QED  BY <1>1, TableInvariant, PTL

(* waiter_deliver never writes to the buffer of a caller that has released    *)
(* its slot: a live slot always points to a caller that still sits in it.     *)
THEOREM NoLateWrite == Spec => NoWriteAfterReturn
<1>1. ASSUME TableInv, [Next]_vars, NEW c \in Callers, pc[c] \notin Holding
      PROVE  buf'[c] = buf[c] \/ buf'[c] = None
  <2>. USE <1>1 DEF TableInv, tableVars, localVars, callVars, linkVars, streakVars
  <2>1. ASSUME NEW d \in Callers, NEW t \in RspTypes, Call(d, t)
        PROVE  buf'[c] = buf[c] \/ buf'[c] = None
    BY <2>1 DEF Call, TypeOK
  <2>2. ASSUME NEW d \in Callers, CallStep(d)  PROVE buf'[c] = buf[c]
    BY <2>2
    DEF CallStep, TakeUnit, NoUnit, ClaimSlot, DrawSeq, GiveBack, Send, Wake, Timeout,
        ReadOk, Release, GiveUnit, ClearStreak, BumpStreak, ForceResync, ZeroStreak,
        Return, Continue, Finish
  <2>3. ASSUME NEW r \in in_flight, NEW t \in RspTypes, Deliver(r, t)
        PROVE  buf'[c] = buf[c]
    <3>1. CASE UNCHANGED buf
      BY <3>1
    <3>2. ASSUME NEW s \in Slots, seq[s] = r.seq,
                 buf' = [buf EXCEPT ![rsp_buf[s]] = [r EXCEPT !.type = t]]
          PROVE  buf'[c] = buf[c]
      <4>1. seq[s] # 0
        BY <3>2 DEF TypeOK, Frames, Seqs
      <4>2. rsp_buf[s] # c
        BY <4>1 DEF SlotsOwned
      <4>. QED  BY <3>2, <4>2 DEF TypeOK
    <3>. QED  BY <2>3, <3>1, <3>2 DEF Deliver
  <2>4. CASE OtherSend \/ (\E b \in BOOLEAN : SetSynced(b)) \/ UNCHANGED vars
    BY <2>4 DEF OtherSend, SetSynced, vars
  <2>. QED  BY <2>1, <2>2, <2>3, <2>4 DEF Next, Link
<1>2. TableInv /\ [Next]_vars
      => [\A c \in Callers :
            pc[c] \notin Holding => (buf'[c] = buf[c] \/ buf'[c] = None)]_vars
  BY <1>1
<1>. QED  BY <1>2, TableInvariant, PTL DEF Spec, NoWriteAfterReturn

(* Whoever holds a unit and is about to claim finds a free slot: each live    *)
(* slot is held by a caller of its own, and each of those holds a unit too.   *)
THEOREM ClaimSucceeds == Spec => []UnitFindsSlot
<1>1. ASSUME TableInv, NEW c \in Callers, pc[c] = "claim",
             \A s \in Slots : seq[s] # 0
      PROVE  FALSE
  <2>. USE <1>1, ConstantsAssumption DEF TableInv
  <2> DEFINE U == UnitHolders \ {c}
             f == [s \in Slots |-> rsp_buf[s]]
  <2>1. IsFiniteSet(Slots) /\ Cardinality(Slots) = SlotCount
    BY FS_Interval DEF Slots
  <2>2. IsFiniteSet(U) /\ Cardinality(U) = Cardinality(UnitHolders) - 1
    BY UnitHoldersFinite, FS_RemoveElement DEF UnitHolders, HasUnit, Claiming
  <2>3. \A s \in Slots : rsp_buf[s] \in U /\ slot[rsp_buf[s]] = s
    BY DEF SlotsOwned, UnitHolders, HasUnit, Holding
  <2>4. f \in Injection(Slots, U)
    BY <2>3 DEF Injection, IsInjective
  <2>5. Cardinality(Slots) <= Cardinality(U)
    BY <2>1, <2>2, <2>4, FS_Injection
  <2>6. s_waiter_free_sem >= 0 /\ Cardinality(UnitHolders) \in Nat
    BY UnitHoldersFinite, FS_CardinalityType DEF TypeOK
  <2>. QED  BY <2>1, <2>2, <2>5, <2>6 DEF UnitsConserved, TypeOK
<1>2. TableInv => UnitFindsSlot
  BY <1>1 DEF UnitFindsSlot
<1>. QED  BY <1>2, TableInvariant, PTL

-----------------------------------------------------------------------------
(* What the correlation adds to the table invariant. *)
Correlated == FramesOwned /\ AnswersOwned /\ ReplyAnswersCall

(* Initially no frame is on the way.                                          *)
LEMMA CorrelatedInit == Init => Correlated
BY ConstantsAssumption
DEF Init, Correlated, FramesOwned, AnswersOwned, ReplyAnswersCall, Holding, Slots

(* Every step keeps it, as long as no frame outlives a whole cycle of the     *)
(* sequence counter.                                                          *)
LEMMA CorrelatedStep ==
  ASSUME FramesExpire, TableInv, TableInv', Correlated, [Next]_vars
  PROVE  Correlated'
<1>. USE ConstantsAssumption
     DEF TableInv, Correlated, tableVars, localVars, callVars, linkVars, streakVars
<1>1. ASSUME NEW c \in Callers, NEW t \in RspTypes, Call(c, t) PROVE Correlated'
  <2>. USE <1>1
  <2>1. FramesOwned'
    BY DEF Call, Goto, TypeOK, Holding, Outside, FramesOwned, SlotsOwned, HoldersOwn, ThisCall
  <2>2. AnswersOwned'
    BY DEF Call, Goto, TypeOK, Holding, Outside, AnswersOwned, OwnAnswer, HoldersOwn
  <2>3. ReplyAnswersCall'
    BY DEF Call, Goto, TypeOK, Holding, Outside, ReplyAnswersCall, AnswersOwned, OwnAnswer, ThisCall
  <2>. QED  BY <2>1, <2>2, <2>3
<1>2. ASSUME NEW c \in Callers, TakeUnit(c) PROVE Correlated'
  <2>. USE <1>2
  <2>1. FramesOwned'
    BY DEF TakeUnit, Continue, Goto, TypeOK, Holding, Outside, FramesOwned, SlotsOwned, HoldersOwn, ThisCall
  <2>2. AnswersOwned'
    BY DEF TakeUnit, Continue, Goto, TypeOK, Holding, Outside, AnswersOwned, OwnAnswer, HoldersOwn
  <2>3. ReplyAnswersCall'
    BY DEF TakeUnit, Continue, Goto, TypeOK, Holding, Outside, ReplyAnswersCall, AnswersOwned, OwnAnswer, ThisCall
  <2>. QED  BY <2>1, <2>2, <2>3
<1>3. ASSUME NEW c \in Callers, NoUnit(c) PROVE Correlated'
  <2>. USE <1>3
  <2>1. FramesOwned'
    BY DEF NoUnit, Return, Goto, TypeOK, Holding, Outside, FramesOwned, SlotsOwned, HoldersOwn, ThisCall
  <2>2. AnswersOwned'
    BY DEF NoUnit, Return, Goto, TypeOK, Holding, Outside, AnswersOwned, OwnAnswer, HoldersOwn
  <2>3. ReplyAnswersCall'
    BY DEF NoUnit, Return, Goto, TypeOK, Holding, Outside, ReplyAnswersCall, AnswersOwned, OwnAnswer, ThisCall
  <2>. QED  BY <2>1, <2>2, <2>3
<1>4. ASSUME NEW c \in Callers, ClaimSlot(c) PROVE Correlated'
  <2>. USE <1>4
  <2>1. FramesOwned'
    BY DEF ClaimSlot, Goto, TypeOK, Holding, Outside, FramesOwned, SlotsOwned, HoldersOwn, ThisCall
  <2>2. AnswersOwned'
    BY DEF ClaimSlot, Goto, TypeOK, Holding, Outside, AnswersOwned, OwnAnswer, HoldersOwn
  <2>3. ReplyAnswersCall'
    BY DEF ClaimSlot, Goto, TypeOK, Holding, Outside, ReplyAnswersCall, AnswersOwned, OwnAnswer, ThisCall
  <2>. QED  BY <2>1, <2>2, <2>3
<1>5. ASSUME NEW c \in Callers, DrawSeq(c) PROVE Correlated'
  <2>. USE <1>5
  <2>1. FramesOwned'
    <3> DEFINE q == NextSeq(last_seq)
    <3>1. CASE Collides(q)
      BY <3>1 DEF DrawSeq, FramesOwned, ThisCall
    <3>2. CASE ~ Collides(q)
      <4>1. /\ seq' = [seq EXCEPT ![slot[c]] = q] /\ rsp_buf' = [rsp_buf EXCEPT ![slot[c]] = c]
            /\ in_flight' = Surviving(q) /\ UNCHANGED call_no
        BY <3>2 DEF DrawSeq
      <4>2. in_flight' \subseteq in_flight /\ \A r \in in_flight' : r.seq # q
        BY <4>1 DEF Surviving
      <4> HIDE DEF q
      <4>. QED  BY <4>1, <4>2 DEF TypeOK, FramesOwned, ThisCall
    <3>. QED  BY <3>1, <3>2
  <2>2. AnswersOwned'
    BY DEF DrawSeq, Goto, TypeOK, Holding, Outside, AnswersOwned, OwnAnswer, HoldersOwn
  <2>3. ReplyAnswersCall'
    BY DEF DrawSeq, Goto, TypeOK, Holding, Outside, ReplyAnswersCall, AnswersOwned, OwnAnswer, ThisCall
  <2>. QED  BY <2>1, <2>2, <2>3
<1>6. ASSUME NEW c \in Callers, GiveBack(c) PROVE Correlated'
  <2>. USE <1>6
  <2>1. FramesOwned'
    BY DEF GiveBack, Return, Goto, TypeOK, Holding, Outside, FramesOwned, SlotsOwned, HoldersOwn, ThisCall
  <2>2. AnswersOwned'
    BY DEF GiveBack, Return, Goto, TypeOK, Holding, Outside, AnswersOwned, OwnAnswer, HoldersOwn
  <2>3. ReplyAnswersCall'
    BY DEF GiveBack, Return, Goto, TypeOK, Holding, Outside, ReplyAnswersCall, AnswersOwned, OwnAnswer, ThisCall
  <2>. QED  BY <2>1, <2>2, <2>3
<1>7. ASSUME NEW c \in Callers, Send(c) PROVE Correlated'
  <2>. USE <1>7
  <2>1. FramesOwned'
    <3> DEFINE r0 == [seq |-> seq[slot[c]], type |-> want[c], call |-> ThisCall(c)]
    <3>1. \A s \in Slots : seq[s] # 0 /\ r0.seq = seq[s] => r0.call = ThisCall(rsp_buf[s])
      BY DEF Send, Holding, HoldersOwn, UniqueLiveSeqs
    <3>2. in_flight' \subseteq in_flight \cup {r0} /\ UNCHANGED <<seq, rsp_buf, call_no>>
      BY DEF Send, Continue, Finish
    <3> HIDE DEF r0
    <3>. QED  BY <3>1, <3>2 DEF FramesOwned, ThisCall
  <2>2. AnswersOwned'
    BY DEF Send, Continue, Finish, Goto, TypeOK, Holding, Outside, AnswersOwned, OwnAnswer, HoldersOwn
  <2>3. ReplyAnswersCall'
    BY DEF Send, Continue, Finish, Goto, TypeOK, Holding, Outside, ReplyAnswersCall, AnswersOwned, OwnAnswer, ThisCall
  <2>. QED  BY <2>1, <2>2, <2>3
<1>8. ASSUME NEW c \in Callers, Wake(c) PROVE Correlated'
  <2>. USE <1>8
  <2>1. FramesOwned'
    BY DEF Wake, Finish, Goto, TypeOK, Holding, Outside, FramesOwned, SlotsOwned, HoldersOwn, ThisCall
  <2>2. AnswersOwned'
    BY DEF Wake, Finish, Goto, TypeOK, Holding, Outside, AnswersOwned, OwnAnswer, HoldersOwn
  <2>3. ReplyAnswersCall'
    BY DEF Wake, Finish, Goto, TypeOK, Holding, Outside, ReplyAnswersCall, AnswersOwned, OwnAnswer, ThisCall
  <2>. QED  BY <2>1, <2>2, <2>3
<1>9. ASSUME NEW c \in Callers, Timeout(c) PROVE Correlated'
  <2>. USE <1>9
  <2>1. FramesOwned'
    BY DEF Timeout, Finish, Goto, TypeOK, Holding, Outside, FramesOwned, SlotsOwned, HoldersOwn, ThisCall
  <2>2. AnswersOwned'
    BY DEF Timeout, Finish, Goto, TypeOK, Holding, Outside, AnswersOwned, OwnAnswer, HoldersOwn
  <2>3. ReplyAnswersCall'
    BY DEF Timeout, Finish, Goto, TypeOK, Holding, Outside, ReplyAnswersCall, AnswersOwned, OwnAnswer, ThisCall
  <2>. QED  BY <2>1, <2>2, <2>3
<1>10. ASSUME NEW c \in Callers, ReadOk(c) PROVE Correlated'
  <2>. USE <1>10
  <2>1. FramesOwned'
    BY DEF ReadOk, Goto, TypeOK, Holding, Outside, FramesOwned, SlotsOwned, HoldersOwn, ThisCall
  <2>2. AnswersOwned'
    BY DEF ReadOk, Goto, TypeOK, Holding, Outside, AnswersOwned, OwnAnswer, HoldersOwn
  <2>3. ReplyAnswersCall'
    BY DEF ReadOk, Goto, TypeOK, Holding, Outside, ReplyAnswersCall, AnswersOwned, OwnAnswer, ThisCall
  <2>. QED  BY <2>1, <2>2, <2>3
<1>11. ASSUME NEW c \in Callers, Release(c) PROVE Correlated'
  <2>. USE <1>11
  <2>1. FramesOwned'
    BY DEF Release, Continue, Goto, TypeOK, Holding, Outside, FramesOwned, SlotsOwned, HoldersOwn, ThisCall
  <2>2. AnswersOwned'
    BY DEF Release, Continue, Goto, TypeOK, Holding, Outside, AnswersOwned, OwnAnswer, HoldersOwn
  <2>3. ReplyAnswersCall'
    BY DEF Release, Continue, Goto, TypeOK, Holding, Outside, ReplyAnswersCall, AnswersOwned, OwnAnswer, ThisCall
  <2>. QED  BY <2>1, <2>2, <2>3
<1>12. ASSUME NEW c \in Callers, GiveUnit(c) PROVE Correlated'
  <2>. USE <1>12
  <2>1. FramesOwned'
    BY DEF GiveUnit, Continue, Return, Goto, TypeOK, Holding, Outside, FramesOwned, SlotsOwned, HoldersOwn, ThisCall
  <2>2. AnswersOwned'
    BY DEF GiveUnit, Continue, Return, Goto, TypeOK, Holding, Outside, AnswersOwned, OwnAnswer, HoldersOwn
  <2>3. ReplyAnswersCall'
    BY DEF GiveUnit, Continue, Return, Goto, TypeOK, Holding, Outside, ReplyAnswersCall, AnswersOwned, OwnAnswer, ThisCall
  <2>. QED  BY <2>1, <2>2, <2>3
<1>13. ASSUME NEW c \in Callers, ClearStreak(c) PROVE Correlated'
  <2>. USE <1>13
  <2>1. FramesOwned'
    BY DEF ClearStreak, Return, Goto, TypeOK, Holding, Outside, FramesOwned, SlotsOwned, HoldersOwn, ThisCall
  <2>2. AnswersOwned'
    BY DEF ClearStreak, Return, Goto, TypeOK, Holding, Outside, AnswersOwned, OwnAnswer, HoldersOwn
  <2>3. ReplyAnswersCall'
    BY DEF ClearStreak, Return, Goto, TypeOK, Holding, Outside, ReplyAnswersCall, AnswersOwned, OwnAnswer, ThisCall
  <2>. QED  BY <2>1, <2>2, <2>3
<1>14. ASSUME NEW c \in Callers, BumpStreak(c) PROVE Correlated'
  <2>. USE <1>14
  <2>1. FramesOwned'
    BY DEF BumpStreak, Continue, Return, Goto, TypeOK, Holding, Outside, FramesOwned, SlotsOwned, HoldersOwn, ThisCall
  <2>2. AnswersOwned'
    BY DEF BumpStreak, Continue, Return, Goto, TypeOK, Holding, Outside, AnswersOwned, OwnAnswer, HoldersOwn
  <2>3. ReplyAnswersCall'
    BY DEF BumpStreak, Continue, Return, Goto, TypeOK, Holding, Outside, ReplyAnswersCall, AnswersOwned, OwnAnswer, ThisCall
  <2>. QED  BY <2>1, <2>2, <2>3
<1>15. ASSUME NEW c \in Callers, ForceResync(c) PROVE Correlated'
  <2>. USE <1>15
  <2>1. FramesOwned'
    BY DEF ForceResync, Continue, Return, Goto, TypeOK, Holding, Outside, FramesOwned, SlotsOwned, HoldersOwn, ThisCall
  <2>2. AnswersOwned'
    BY DEF ForceResync, Continue, Return, Goto, TypeOK, Holding, Outside, AnswersOwned, OwnAnswer, HoldersOwn
  <2>3. ReplyAnswersCall'
    BY DEF ForceResync, Continue, Return, Goto, TypeOK, Holding, Outside, ReplyAnswersCall, AnswersOwned, OwnAnswer, ThisCall
  <2>. QED  BY <2>1, <2>2, <2>3
<1>16. ASSUME NEW c \in Callers, ZeroStreak(c) PROVE Correlated'
  <2>. USE <1>16
  <2>1. FramesOwned'
    BY DEF ZeroStreak, Return, Goto, TypeOK, Holding, Outside, FramesOwned, SlotsOwned, HoldersOwn, ThisCall
  <2>2. AnswersOwned'
    BY DEF ZeroStreak, Return, Goto, TypeOK, Holding, Outside, AnswersOwned, OwnAnswer, HoldersOwn
  <2>3. ReplyAnswersCall'
    BY DEF ZeroStreak, Return, Goto, TypeOK, Holding, Outside, ReplyAnswersCall, AnswersOwned, OwnAnswer, ThisCall
  <2>. QED  BY <2>1, <2>2, <2>3
<1>17. ASSUME NEW r \in in_flight, NEW t \in RspTypes, Deliver(r, t) PROVE Correlated'
  <2>. USE <1>17
  <2>1. FramesOwned'
    BY DEF Deliver, FramesOwned, ThisCall
  <2>2. CASE UNCHANGED <<buf, ok>>
    BY <2>1, <2>2 DEF Deliver, AnswersOwned, OwnAnswer, ReplyAnswersCall, ThisCall
  <2>3. CASE ~ UNCHANGED <<buf, ok>>
    <3>1. PICK s \in Slots :
            /\ seq[s] = r.seq
            /\ t = rsp_type[s]
            /\ buf' = [buf EXCEPT ![rsp_buf[s]] = [r EXCEPT !.type = t]]
            /\ ok' = [ok EXCEPT ![s] = TRUE]
      BY <2>3, Zenon DEF Deliver
    <3> DEFINE d == [r EXCEPT !.type = t]
    <3>2. d \in Frames /\ d.type = t /\ d.call = r.call /\ d # None
      BY DEF TypeOK, Frames
    <3>3. seq[s] # 0
      BY <3>1 DEF TypeOK, Frames, Seqs
    <3>4. PICK o \in Callers :
            /\ o = rsp_buf[s] /\ pc[o] \in Holding /\ slot[o] = s
            /\ t = want[o] /\ r.call = ThisCall(o)
      BY <3>1, <3>3 DEF SlotsOwned, HoldersOwn, FramesOwned
    <3> HIDE DEF d
    <3>5. buf' = [buf EXCEPT ![o] = d]
      BY <3>1, <3>4 DEF d
    <3>6. /\ \A c \in Callers : c # o => buf'[c] = buf[c]
          /\ buf'[o] = d
      BY <3>4, <3>5 DEF TypeOK
    <3>7. \A c \in Callers : c # o /\ pc[c] \in Holding => ok'[slot[c]] = ok[slot[c]]
      <4>1. ASSUME NEW c \in Callers, c # o, pc[c] \in Holding PROVE slot[c] # s /\ slot[c] \in Slots
        BY <4>1, <3>4 DEF HoldersOwn
      <4>. QED  BY <4>1, <3>1 DEF TypeOK
    <3>8. OwnAnswer(o)' /\ \A c \in Callers : c # o /\ OwnAnswer(c) => OwnAnswer(c)'
      <4>1. UNCHANGED want
        BY DEF Deliver
      <4>2. OwnAnswer(o)'
        BY <3>2, <3>4, <3>6, <4>1 DEF OwnAnswer
      <4>3. \A c \in Callers : c # o /\ OwnAnswer(c) => OwnAnswer(c)'
        BY <3>6, <4>1 DEF OwnAnswer
      <4>. QED  BY <4>2, <4>3
    <3>9. AnswersOwned'
      <4>1. UNCHANGED <<pc, slot, ok_read>>
        BY DEF Deliver
      <4>2. ASSUME NEW c \in Callers, pc[c] \in Holding, ok'[slot[c]] PROVE OwnAnswer(c)'
        <5>1. CASE c = o
          BY <5>1, <3>8 DEF OwnAnswer
        <5>2. CASE c # o
          BY <4>2, <5>2, <3>7, <3>8 DEF AnswersOwned, OwnAnswer
        <5>. QED  BY <5>1, <5>2
      <4>3. ASSUME NEW c \in Callers, ok_read[c]
            PROVE  OwnAnswer(c)' /\ pc[c] \notin Outside
        BY <4>3, <3>8 DEF AnswersOwned, OwnAnswer
      <4>. QED  BY <4>1, <4>2, <4>3 DEF AnswersOwned, OwnAnswer
    <3>10. ReplyAnswersCall'
      BY <3>2, <3>4, <3>6 DEF Deliver, ReplyAnswersCall, ThisCall
    <3>. QED  BY <2>1, <3>9, <3>10
  <2>. QED  BY <2>2, <2>3
<1>18. CASE OtherSend
  BY <1>18 DEF OtherSend, FramesOwned, AnswersOwned, ReplyAnswersCall, OwnAnswer, ThisCall
<1>19. ASSUME NEW b \in BOOLEAN, SetSynced(b) PROVE Correlated'
  BY <1>19 DEF SetSynced, FramesOwned, AnswersOwned, ReplyAnswersCall, OwnAnswer, ThisCall
<1>20. CASE UNCHANGED vars
  BY <1>20 DEF vars, FramesOwned, AnswersOwned, ReplyAnswersCall, OwnAnswer, ThisCall
<1>. QED
  BY <1>1, <1>2, <1>3, <1>4, <1>5, <1>6, <1>7, <1>8, <1>9, <1>10, <1>11,
     <1>12, <1>13, <1>14, <1>15, <1>16, <1>17, <1>18, <1>19, <1>20
  DEF Next, CallStep, Link

(* If no frame outlives a whole cycle of the 16-bit sequence counter, what a  *)
(* caller finds in its buffer answers the very call it is making.             *)
THEOREM CorrelationInvariant ==
  ASSUME FramesExpire PROVE Spec => []CorrelationInv
<1>1. TableInv /\ TableInv' /\ Correlated /\ [Next]_vars => Correlated'
  BY CorrelatedStep
<1>2. TableInv /\ Correlated <=> CorrelationInv
  BY DEF Correlated, CorrelationInv, TableInv
<1>. QED  BY TableInvariant, CorrelatedInit, <1>1, <1>2, PTL DEF Spec

(* Under the same assumption: a reply never ends in the wrong call.           *)
THEOREM ReplyIsMine ==
  ASSUME FramesExpire PROVE Spec => []ReplyAnswersCall
<1>1. CorrelationInv => ReplyAnswersCall
  BY DEF CorrelationInv
<1>. QED  BY <1>1, CorrelationInvariant, PTL
-----------------------------------------------------------------------------
(* A signal in the slot of a call was given by a frame that this call heard:  *)
(* the claim has drained what the previous user of the slot left behind.      *)
SignalsHeard ==
  \A c \in Callers :
    /\ pc[c] \in Holding /\ sem[slot[c]] => heard[c]
    /\ outcome[c] = "reply" => heard[c]

(* Most steps give no signal, end no wait and let no caller into a slot.      *)
LEMMA HeardFrame ==
  ASSUME SignalsHeard,
         \A c \in Callers :
           /\ (pc'[c] \in Holding /\ sem'[slot'[c]]) =>
                (pc[c] \in Holding /\ sem[slot[c]] /\ heard'[c] = heard[c])
           /\ outcome'[c] = "reply" => outcome[c] = "reply" /\ heard'[c] = heard[c]
  PROVE  SignalsHeard'
BY Zenon DEF SignalsHeard

(* Every step keeps signals with the slot whose reply raised them.            *)
LEMMA HeardStep == TableInv /\ SignalsHeard /\ [Next]_vars => SignalsHeard'
<1>. SUFFICES ASSUME TableInv, SignalsHeard, [Next]_vars PROVE SignalsHeard'
  OBVIOUS
<1>. USE DEF TableInv, TypeOK, localVars, callVars, linkVars, streakVars, tableVars, Holding
<1>1. ASSUME NEW c \in Callers, NEW t \in RspTypes, Call(c, t) PROVE SignalsHeard'
  BY <1>1, HeardFrame DEF Call, Goto
<1>2. ASSUME NEW c \in Callers, TakeUnit(c) PROVE SignalsHeard'
  BY <1>2, HeardFrame DEF TakeUnit, Continue, Goto
<1>3. ASSUME NEW c \in Callers, NoUnit(c) PROVE SignalsHeard'
  BY <1>3, HeardFrame DEF NoUnit, Return, Goto
<1>4. ASSUME NEW c \in Callers, ClaimSlot(c) PROVE SignalsHeard'
  BY <1>4, HeardFrame DEF ClaimSlot, Goto
<1>5. ASSUME NEW c \in Callers, DrawSeq(c) PROVE SignalsHeard'
  <2>1. CASE sem' = DrainSem(slot[c]) /\ Goto(c, "send")
    <3>1. slot[c] \in Slots
      BY <1>5 DEF DrawSeq, DrawLocked
    <3>2. /\ UNCHANGED <<slot, outcome, heard>>
          /\ sem' = [sem EXCEPT ![slot[c]] = FALSE]
          /\ pc' = [pc EXCEPT ![c] = "send"]
      BY <1>5, <2>1 DEF DrawSeq, DrainSem, Goto
    <3>3. \A d \in Callers : pc'[d] \in Holding /\ sem'[slot'[d]] =>
            pc[d] \in Holding /\ sem[slot[d]]
      BY <3>1, <3>2 DEF HoldersOwn
    <3>. QED  BY <3>2, <3>3, HeardFrame
  <2>2. CASE UNCHANGED sem /\ (UNCHANGED pc \/ Goto(c, "giveback"))
    BY <1>5, <2>2, HeardFrame DEF DrawSeq, Goto
  <2>. QED  BY <1>5, <2>1, <2>2 DEF DrawSeq
<1>6. ASSUME NEW c \in Callers, GiveBack(c) PROVE SignalsHeard'
  BY <1>6, HeardFrame DEF GiveBack, Return, Goto
<1>7. ASSUME NEW c \in Callers, Send(c) PROVE SignalsHeard'
  BY <1>7, HeardFrame DEF Send, Continue, Finish, Goto
<1>8. ASSUME NEW c \in Callers, Wake(c) PROVE SignalsHeard'
  <2>1. heard[c]
    BY <1>8 DEF Wake, SignalsHeard
  <2>2. /\ UNCHANGED <<slot, heard>> /\ slot[c] \in Slots
        /\ sem' = [sem EXCEPT ![slot[c]] = FALSE]
        /\ pc' = [pc EXCEPT ![c] = "read"]
        /\ outcome' = [outcome EXCEPT ![c] = "reply"]
    BY <1>8 DEF Wake, Finish, Goto, HoldersOwn
  <2>3. ASSUME NEW d \in Callers, pc'[d] \in Holding, sem'[slot'[d]] PROVE heard'[d]
    <3>1. pc[d] \in Holding /\ sem[slot[d]]
      BY <1>8, <2>2, <2>3 DEF HoldersOwn, Wake
    <3>. QED  BY <3>1, <2>2 DEF SignalsHeard
  <2>4. ASSUME NEW d \in Callers, outcome'[d] = "reply" PROVE heard'[d]
    BY <2>1, <2>2, <2>4 DEF SignalsHeard
  <2>. QED  BY <2>3, <2>4 DEF SignalsHeard
<1>9. ASSUME NEW c \in Callers, Timeout(c) PROVE SignalsHeard'
  BY <1>9, HeardFrame DEF Timeout, Finish, Goto
<1>10. ASSUME NEW c \in Callers, ReadOk(c) PROVE SignalsHeard'
  BY <1>10, HeardFrame DEF ReadOk, Goto
<1>11. ASSUME NEW c \in Callers, Release(c) PROVE SignalsHeard'
  BY <1>11, HeardFrame DEF Release, Continue, Goto
<1>12. ASSUME NEW c \in Callers, GiveUnit(c) PROVE SignalsHeard'
  <2>1. CASE Return(c, FALSE)
    BY <1>12, <2>1, HeardFrame DEF GiveUnit, Return, Goto
  <2>2. CASE Continue(c, "clear") \/ Continue(c, "bump")
    BY <1>12, <2>2, HeardFrame DEF GiveUnit, Continue, Goto
  <2>. QED  BY <1>12, <2>1, <2>2 DEF GiveUnit
<1>13. ASSUME NEW c \in Callers, ClearStreak(c) PROVE SignalsHeard'
  BY <1>13, HeardFrame DEF ClearStreak, Return, Goto
<1>14. ASSUME NEW c \in Callers, BumpStreak(c) PROVE SignalsHeard'
  BY <1>14, HeardFrame DEF BumpStreak, Return, Continue, Goto
<1>15. ASSUME NEW c \in Callers, ForceResync(c) PROVE SignalsHeard'
  BY <1>15, HeardFrame DEF ForceResync, Return, Continue, Goto
<1>16. ASSUME NEW c \in Callers, ZeroStreak(c) PROVE SignalsHeard'
  BY <1>16, HeardFrame DEF ZeroStreak, Return, Goto
<1>17. ASSUME NEW r \in in_flight, NEW t \in RspTypes, Deliver(r, t) PROVE SignalsHeard'
  <2>1. UNCHANGED <<pc, slot, outcome>>
    BY <1>17 DEF Deliver
  <2>2. CASE UNCHANGED <<sem, heard>>
    BY <2>1, <2>2, HeardFrame
  <2>3. ASSUME NEW s \in Slots, seq[s] = r.seq,
               sem' = [sem EXCEPT ![s] = TRUE],
               heard' = [heard EXCEPT ![rsp_buf[s]] = TRUE]
        PROVE  SignalsHeard'
    <3>1. \A d \in Callers : heard[d] => heard'[d]
      BY <2>3
    <3>2. ASSUME NEW d \in Callers, pc'[d] \in Holding, sem'[slot'[d]] PROVE heard'[d]
      <4>1. CASE slot[d] = s
        BY <2>1, <2>3, <3>2, <4>1 DEF HoldersOwn
      <4>2. CASE slot[d] # s
        <5>1. sem[slot[d]]
          BY <2>1, <2>3, <3>2, <4>2 DEF HoldersOwn
        <5>. QED  BY <2>1, <3>1, <3>2, <5>1 DEF SignalsHeard
      <4>. QED  BY <4>1, <4>2
    <3>. QED  BY <2>1, <3>1, <3>2 DEF SignalsHeard
  <2>. QED  BY <1>17, <2>2, <2>3 DEF Deliver
<1>18. CASE OtherSend \/ (\E b \in BOOLEAN : SetSynced(b)) \/ UNCHANGED vars
  <2>1. UNCHANGED <<pc, slot, outcome, sem, heard>>
    BY <1>18 DEF OtherSend, SetSynced, vars
  <2>. QED  BY <2>1, HeardFrame
<1>. QED
  BY <1>1, <1>2, <1>3, <1>4, <1>5, <1>6, <1>7, <1>8, <1>9, <1>10, <1>11, <1>12, <1>13,
     <1>14, <1>15, <1>16, <1>17, <1>18
  DEF Next, CallStep, Link

(* Who is woken has heard a frame for the present call, and not the signal    *)
(* that a late frame left in the slot for its previous user                   *)
(* (waiter_claim drains the semaphore).                                       *)
THEOREM WokenByTheOwn == Spec => []WokenByOwnReply
<1>1. Init => SignalsHeard
  BY DEF Init, SignalsHeard, Holding
<1>2. SignalsHeard => WokenByOwnReply
  BY DEF SignalsHeard, WokenByOwnReply
<1>. QED  BY TableInvariant, <1>1, <1>2, HeardStep, PTL DEF Spec
=============================================================================
