-------------------------- MODULE Rainmaker_proofs --------------------------
(* The RainMaker bridge, for any number of devices, entries, callers and    *)
(* any length of the work queue; and the conversions of the type map for    *)
(* every value a device or the cloud may send.                              *)
EXTENDS Rainmaker, RmkTypemap, SequenceTheorems, TLAPS

USE DEF history

(***************************************************************************)
(* The conversions.                                                        *)
(***************************************************************************)

(* Integer division by a constant, as the provers need it spelled out. *)
LEMMA DivBy254 == ASSUME NEW n \in Nat
                  PROVE  /\ n \div 254 \in Nat
                         /\ 254 * (n \div 254) <= n /\ n < 254 * (n \div 254) + 254
  BY SMT

(* Division by 100 as the provers know it.                                    *)
LEMMA DivBy100 == ASSUME NEW n \in Nat
                  PROVE  /\ n \div 100 \in Nat
                         /\ 100 * (n \div 100) <= n /\ n < 100 * (n \div 100) + 100
  BY SMT

(* Whatever a device reports, the slider is told a value on its scale       *)
(* (rmk_bri_to_rm).                                                         *)
THEOREM BrightnessInBounds == ASSUME NEW zb \in Int
                              PROVE  BriToRm(zb) \in 0..100
<1>1. Clamp(zb, 0, 254) \in 0..254
  BY SMT DEF Clamp
<1> DEFINE n == Clamp(zb, 0, 254) * 100 + 127
<1>2. n \in Nat /\ n <= 25527
  BY <1>1, SMT
<1> HIDE DEF n
<1>3. n \div 254 \in Nat /\ 254 * (n \div 254) <= n
  BY <1>2, DivBy254, SMT
<1>4. BriToRm(zb) = n \div 254
  BY SMT DEF BriToRm, n
<1> QED
  BY <1>2, <1>3, <1>4, SMT

(* The colour temperature stays within the bounds the parameter is declared *)
(* with, a device that reports no temperature included                      *)
(* (rmk_mired_to_kelvin).                                                   *)
THEOREM KelvinInBounds == ASSUME NEW m \in Int
                          PROVE  MiredToKelvin(m) \in 2700..6500
<1>1. CASE m <= 0
  BY <1>1, SMT DEF MiredToKelvin
<1>2. CASE m > 0
  <2>1. 1000000 \div m \in Int
    BY <1>2, SMT
  <2> QED
    BY <2>1, <1>2, SMT DEF MiredToKelvin, Clamp
<1> QED
  BY <1>1, <1>2, SMT

(* A position the cloud has set survives the way to the device and back     *)
(* (rmk_bri_from_rm, rmk_bri_to_rm).                                        *)
THEOREM SliderStays == BrightnessStays
<1> SUFFICES ASSUME NEW rm \in 0..100
             PROVE  BriToRm(BriFromRm(rm)) = rm
  BY SMT DEF BrightnessStays
<1> DEFINE n == rm * 254 + 50
<1> DEFINE zb == n \div 100
<1>1. n \in Nat /\ n <= 25450
  BY SMT
<1>2. BriFromRm(rm) = zb
  BY SMT DEF BriFromRm, Clamp, n, zb
<1>3. zb \in Nat /\ 100 * zb <= n /\ n < 100 * zb + 100
  BY <1>1, DivBy100, SMT
<1>4. zb \in 0..254
  BY <1>1, <1>3, SMT
<1> DEFINE p == zb * 100 + 127
<1>5. p \in Nat /\ 254 * rm <= p /\ p < 254 * rm + 254
  BY <1>3, <1>4, SMT DEF n
<1>6. p \div 254 \in Nat /\ 254 * (p \div 254) <= p /\ p < 254 * (p \div 254) + 254
  BY <1>5, DivBy254, SMT
<1>7. p \div 254 = rm
  <2> DEFINE q == p \div 254
  <2>1. q \in Nat /\ 254 * q <= p /\ p < 254 * q + 254
    BY <1>6, SMT
  <2> HIDE DEF p, q
  <2>2. q = rm
    BY <1>5, <2>1, SMT
  <2> QED
    BY <2>2, SMT DEF q
<1>8. BriToRm(zb) = p \div 254
  BY <1>4, SMT DEF BriToRm, Clamp, p
<1> QED
  BY <1>2, <1>7, <1>8, SMT

(***************************************************************************)
(* The work queue.                                                         *)
(***************************************************************************)
(* What posting an item, and taking the first, does to it. *)
LEMMA Posted ==
  ASSUME NEW q \in Seq(Items), NEW x \in Items
  PROVE  /\ Append(q, x) \in Seq(Items) /\ Len(Append(q, x)) = Len(q) + 1
         /\ DOMAIN Append(q, x) = DOMAIN q \cup {Len(q) + 1}
         /\ \A k \in DOMAIN q : k \in Nat /\ k < Len(q) + 1 /\ Append(q, x)[k] = q[k]
         /\ Append(q, x)[Len(q) + 1] = x /\ Len(q) + 1 \notin DOMAIN q
         /\ Len(q) + 1 \in Nat
<1>1. /\ Append(q, x) \in Seq(Items) /\ Len(Append(q, x)) = Len(q) + 1
      /\ \A k \in 1..Len(q) : Append(q, x)[k] = q[k]
      /\ Append(q, x)[Len(q) + 1] = x
  BY AppendProperties
<1>2. /\ Len(q) \in Nat /\ DOMAIN q = 1..Len(q)
      /\ DOMAIN Append(q, x) = 1..(Len(q) + 1)
  BY <1>1, LenProperties
<1>. QED  BY <1>1, <1>2

(* The rest of a queue is a queue.                                            *)
LEMMA Taken ==
  ASSUME NEW q \in Seq(Items), q # <<>>
  PROVE  /\ Tail(q) \in Seq(Items) /\ Len(Tail(q)) < Len(q)
         /\ Head(q) = q[1] /\ 1 \in DOMAIN q /\ DOMAIN q \subseteq Nat \ {0}
         /\ \A k \in DOMAIN Tail(q) : k \in Nat \ {0} /\ k + 1 \in DOMAIN q /\ Tail(q)[k] = q[k + 1]
         /\ \A k \in DOMAIN q : k # 1 => k - 1 \in DOMAIN Tail(q) /\ Tail(q)[k - 1] = q[k]
<1>1. Len(q) \in Nat /\ Len(q) # 0 /\ DOMAIN q = 1..Len(q)
  BY LenProperties, EmptySeq
<1>2. /\ Tail(q) \in Seq(Items) /\ Len(Tail(q)) = Len(q) - 1
      /\ \A k \in 1..Len(Tail(q)) : Tail(q)[k] = q[k + 1]
  BY <1>1, HeadTailProperties
<1>3. DOMAIN Tail(q) = 1..(Len(q) - 1)
  BY <1>2, LenProperties
<1>4. Head(q) = q[1]
  OBVIOUS
<1>. QED  BY <1>1, <1>2, <1>3, <1>4

(* An item of a queue is one, of one of the three kinds. *)
LEMMA ItemsAre ==
  ASSUME NEW q \in Seq(Items), NEW k \in DOMAIN q
  PROVE  /\ q[k] \in Items /\ q[k].dev \in Sdk
         /\ q[k].kind \in {"report", "write", "teardown"}
         /\ q[k].kind # "teardown" => q[k].val \in Vals
<1>1. q[k] \in Items
  BY ElementOfSeq, LenProperties
<1>. QED  BY <1>1 DEF Items


(***************************************************************************)
(* Types, and what a caller that is in the middle of something holds.      *)
(***************************************************************************)
Shaped(p) ==
    /\ p.pc \notin {"idle", "snapshot"} => p.ieee \in Ieee
    /\ p.pc \in {"build", "commit"} => p.slot \in Slots
    /\ p.pc \in {"commit", "teardown"} => p.dev \in Sdk

CallShape == \A c \in Callers : Shaped(call[c])

(* A caller goes from one place to the next; the others stay. *)
LEMMA Went ==
  ASSUME call \in [Callers -> Place], CallShape, NEW c \in Callers, NEW p \in Place,
         Shaped(p), Goto(c, p)
  PROVE  /\ call' \in [Callers -> Place] /\ CallShape'
         /\ call'[c] = p /\ \A e \in Callers : e # c => call'[e] = call[e]
<1>1. /\ call' \in [Callers -> Place] /\ call'[c] = p
      /\ \A e \in Callers : e # c => call'[e] = call[e]
  BY DEF Goto
<1>2. CallShape'
  BY <1>1 DEF CallShape, Shaped
<1>. QED  BY <1>1, <1>2

(* The places callers go to. *)
LEMMA FirstPlaces ==
  /\ Idle \in Place /\ Shaped(Idle)
  /\ [Idle EXCEPT !.pc = "snapshot"] \in Place /\ Shaped([Idle EXCEPT !.pc = "snapshot"])
  /\ \A i \in Ieee : /\ [Idle EXCEPT !.pc = "fetch", !.ieee = i] \in Place
                     /\ Shaped([Idle EXCEPT !.pc = "fetch", !.ieee = i])
  BY DEF Idle, Place, Shaped

(* The places after a piece of work, before and after the head is taken.      *)
LEMMA LaterPlaces ==
  ASSUME NEW p \in Place, p.ieee \in Ieee
  PROVE  /\ \A s \in Slots : /\ [p EXCEPT !.pc = "build", !.slot = s] \in Place
                             /\ Shaped([p EXCEPT !.pc = "build", !.slot = s])
         /\ \A d \in Sdk : /\ [p EXCEPT !.pc = "commit", !.dev = d] \in Place
                           /\ p.slot \in Slots => Shaped([p EXCEPT !.pc = "commit", !.dev = d])
         /\ [p EXCEPT !.pc = "record", !.dev = Nil, !.slot = Nil] \in Place
         /\ Shaped([p EXCEPT !.pc = "record", !.dev = Nil, !.slot = Nil])
         /\ [p EXCEPT !.pc = "forget", !.dev = Nil] \in Place
         /\ Shaped([p EXCEPT !.pc = "forget", !.dev = Nil])
<1>1. \A s \in Slots : /\ [p EXCEPT !.pc = "build", !.slot = s] \in Place
                       /\ Shaped([p EXCEPT !.pc = "build", !.slot = s])
  BY DEF Place, Shaped
<1>2. \A d \in Sdk : /\ [p EXCEPT !.pc = "commit", !.dev = d] \in Place
                     /\ p.slot \in Slots => Shaped([p EXCEPT !.pc = "commit", !.dev = d])
  BY DEF Place, Shaped
<1>3. /\ [p EXCEPT !.pc = "record", !.dev = Nil, !.slot = Nil] \in Place
      /\ Shaped([p EXCEPT !.pc = "record", !.dev = Nil, !.slot = Nil])
      /\ [p EXCEPT !.pc = "forget", !.dev = Nil] \in Place
      /\ Shaped([p EXCEPT !.pc = "forget", !.dev = Nil])
  BY DEF Place, Shaped
<1>. QED  BY <1>1, <1>2, <1>3

(* The steps, one case for each action. *)
BridgeStep ==
    /\ UNCHANGED writeTask
    /\ \/ Gateway
       \/ \E c \in Callers, i \in Ieee : AddStart(c, i)
       \/ \E c \in Callers, i \in Ieee : Unexpose(c, i)
       \/ \E i \in Ieee, v \in Vals, force \in BOOLEAN : AttrUpdate(i, v, force)
       \/ \E d \in Sdk, v \in Vals : CloudWrite(d, v)
       \/ \E c \in Callers : Fetch(c)
       \/ \E c \in Callers : Build(c)
       \/ \E c \in Callers : Commit(c)
       \/ \E c \in Callers : Record(c)
       \/ \E c \in Callers : QueueTeardown(c)
       \/ \E c \in Callers : Forget(c)
       \/ RunReport
       \/ RunTeardown
       \/ RunWrite
       \/ WriteAck
       \/ WriteNote
       \/ WriteFail
       \/ SnapBack
       \/ RestoreSnapshot
       \/ \E i \in Ieee : RestoreNext(i)
       \/ Reboot

(* The steps of the gateway are one kind of step for the bridge: what they do *)
(* to it is said once.                                                        *)
LEMMA Steps == Next => BridgeStep
  BY Zenon DEF Next, Request, Inner, CallerStep, WorkerStep, BridgeStep


(* A write has an object in hand, and the entry it began with. *)
Busy ==
    /\ worker.pc = "idle" <=> worker.dev = Nil
    /\ worker.pc # "idle" => worker.slot \in Slots

(* What a publish, and the end of an object, leave of the types. *)
LEMMA Outcomes ==
  ASSUME BridgeTypeOK, NEW d \in Sdk
  PROVE  /\ \A v \in Vals \cup {Nil} : Publish(d, v) =>
              cloud' \in [Sdk -> Vals \cup {Nil}] /\ lost' \subseteq Sdk
         /\ Free(d) => /\ live' \subseteq Sdk /\ node' \subseteq live'
                       /\ crossed' \subseteq Sdk /\ lost' \subseteq Sdk
  BY DEF BridgeTypeOK, Publish, Free

(* The start of a write. *)
LEMMA Started ==
  ASSUME BridgeTypeOK, Busy, NEW d \in Sdk, NEW v \in Vals, StartWrite(d, v), worker.pc = "idle"
  PROVE  /\ worker' \in Work /\ Busy'
         /\ \/ worker' = worker
            \/ /\ worker'.dev = d /\ worker'.pc = "write"
               /\ d \in live /\ \E s \in Slots : reg[s].dev = d
<1>1. CASE d \in node /\ Owns(d)
  <2>1. priv[d] \in Slots
    BY <1>1 DEF Owns, BridgeTypeOK
  <2>2. reg[priv[d]].ieee \in Ieee \cup {Nil} /\ reg[priv[d]].dev = d /\ d \in live /\ d # Nil
    BY <1>1, <2>1, RmkAssumption DEF Owns, BridgeTypeOK, Entry
  <2> DEFINE i == reg[priv[d]].ieee
  <2>3. worker' = [pc |-> "write", dev |-> d, val |-> v, slot |-> priv[d], ieee |-> i]
    BY <1>1 DEF StartWrite
  <2> HIDE DEF i
  <2>4. i \in Ieee \cup {Nil}
    BY <2>2 DEF i
  <2>. QED  BY <2>1, <2>2, <2>3, <2>4 DEF Work, Busy
<1>2. CASE ~(d \in node /\ Owns(d))
  BY <1>2 DEF StartWrite, BridgeTypeOK, Busy
<1>. QED  BY <1>1, <1>2

(* Types are kept, action by action. *)
LEMMA BridgeTypes ==
  BridgeTypeOK /\ CallShape /\ Busy /\ BridgeStep => BridgeTypeOK' /\ CallShape'
<1>. SUFFICES ASSUME BridgeTypeOK, CallShape, Busy, BridgeStep
              PROVE  BridgeTypeOK' /\ CallShape'
  OBVIOUS
<1>a. /\ call \in [Callers -> Place] /\ reg \in [Slots -> Entry] /\ Restore \in Callers
      /\ \A c \in Callers : call[c] \in Place /\ Shaped(call[c])
      /\ queue \in Seq(Items) /\ Len(queue) \in Nat /\ Len(queue) <= QueueCap /\ QueueCap \in Nat
  BY RmkAssumption, LenProperties DEF BridgeTypeOK, CallShape, Callers
<1>b. UNCHANGED call => call' \in [Callers -> Place] /\ CallShape'
  BY <1>a DEF CallShape
<1>c. \A c \in Callers : Done(c) => call' \in [Callers -> Place] /\ CallShape'
  BY <1>a, Went, FirstPlaces DEF Done
<1>d. queue # <<>> => /\ Tail(queue) \in Seq(Items) /\ Len(Tail(queue)) <= QueueCap
                      /\ Head(queue) \in Items /\ Head(queue).dev \in Sdk
                      /\ Head(queue).kind # "teardown" => Head(queue).val \in Vals
  <2>. SUFFICES ASSUME queue # <<>>
                PROVE  /\ Tail(queue) \in Seq(Items) /\ Len(Tail(queue)) <= QueueCap
                       /\ Head(queue) \in Items /\ Head(queue).dev \in Sdk
                       /\ Head(queue).kind # "teardown" => Head(queue).val \in Vals
    OBVIOUS
  <2>1. Head(queue) = queue[1] /\ 1 \in DOMAIN queue /\ Tail(queue) \in Seq(Items)
        /\ Len(Tail(queue)) < Len(queue) /\ Len(Tail(queue)) \in Nat
    BY <1>a, Taken, LenProperties
  <2>. QED  BY <1>a, <2>1, ItemsAre
<1>e. \A x \in Items : Len(queue) < QueueCap =>
        Append(queue, x) \in Seq(Items) /\ Len(Append(queue, x)) <= QueueCap
  BY <1>a, Posted
<1>1. CASE Gateway
  <2>1. CASE attached' /\ ~attached
    <3>1. Goto(Restore, [Idle EXCEPT !.pc = "snapshot"])
      BY <1>1, <2>1 DEF Gateway, Goto
    <3>2. call' \in [Callers -> Place] /\ CallShape'
      BY <1>a, <3>1, FirstPlaces, Went
    <3>. QED  BY <1>1, <3>2 DEF Gateway, BridgeTypeOK
  <2>2. CASE ~(attached' /\ ~attached)
    <3>1. UNCHANGED call
      BY <1>1, <2>2 DEF Gateway
    <3>. QED  BY <1>1, <1>b, <3>1 DEF Gateway, BridgeTypeOK
  <2>. QED  BY <2>1, <2>2
<1>2. CASE \E c \in Callers, i \in Ieee : AddStart(c, i)
  <2>1. PICK c \in Callers, i \in Ieee : AddStart(c, i)
    BY <1>2
  <2>2. call' \in [Callers -> Place] /\ CallShape'
    BY <1>a, <2>1, Went, FirstPlaces DEF AddStart
  <2>. QED  BY <2>1, <2>2 DEF AddStart, BridgeTypeOK
<1>3. CASE \E c \in Callers, i \in Ieee : Unexpose(c, i)
  <2>1. PICK c \in Callers, i \in Ieee : Unexpose(c, i)
    BY <1>3
  <2>2. CASE EntryOf(i) = {}
    <3>1. [Idle EXCEPT !.pc = "forget", !.ieee = i] \in Place
          /\ Shaped([Idle EXCEPT !.pc = "forget", !.ieee = i])
      BY DEF Idle, Place, Shaped
    <3>2. call' \in [Callers -> Place] /\ CallShape'
      BY <1>a, <2>1, <2>2, <3>1, Went DEF Unexpose
    <3>. QED  BY <2>1, <2>2, <3>2 DEF Unexpose, BridgeTypeOK
  <2>3. CASE EntryOf(i) # {}
    <3> DEFINE p(s) == [Idle EXCEPT !.pc = IF reg[s].dev = Nil THEN "forget" ELSE "teardown",
                                    !.ieee = i, !.dev = reg[s].dev]
    <3>1. PICK s \in Slots : /\ reg' = [reg EXCEPT ![s] = Empty] /\ Goto(c, p(s))
                             /\ count' = IF count > 0 THEN count - 1 ELSE 0
      BY <2>1, <2>3 DEF Unexpose
    <3>2. p(s) \in Place /\ Shaped(p(s))
      BY <1>a DEF Idle, Place, Shaped, Entry
    <3> HIDE DEF p
    <3>3. call' \in [Callers -> Place] /\ CallShape'
      BY <1>a, <3>1, <3>2, Went
    <3>4. reg' \in [Slots -> Entry] /\ count' \in Nat
      BY <1>a, <3>1 DEF Entry, Empty, BridgeTypeOK
    <3>. QED  BY <2>1, <3>3, <3>4 DEF Unexpose, BridgeTypeOK
  <2>. QED  BY <2>2, <2>3
<1>4. CASE \E i \in Ieee, v \in Vals, force \in BOOLEAN : AttrUpdate(i, v, force)
  <2>1. PICK i \in Ieee, v \in Vals, force \in BOOLEAN : AttrUpdate(i, v, force)
    BY <1>4
  <2>2. PICK s \in Slots : reg[s].dev # Nil /\ Queued(s, v)
    BY <2>1 DEF AttrUpdate, EntryOf
  <2>3. reg[s].dev \in Sdk
    BY <1>a, <2>2 DEF Entry
  <2>4. queue' \in Seq(Items) /\ Len(queue') <= QueueCap
    BY <1>e, <2>2, <2>3 DEF Queued, Items
  <2>5. reg' \in [Slots -> Entry]
    BY <1>a, <2>2 DEF Queued, Entry
  <2>6. crossed' \subseteq Sdk
    BY <2>2, <2>3 DEF Queued, BridgeTypeOK
  <2>. QED  BY <1>b, <2>1, <2>4, <2>5, <2>6 DEF AttrUpdate, BridgeTypeOK
<1>5. CASE \E d \in Sdk, v \in Vals : CloudWrite(d, v)
  <2>1. PICK d \in Sdk, v \in Vals : CloudWrite(d, v)
    BY <1>5
  <2>2. queue' \in Seq(Items) /\ Len(queue') <= QueueCap
    BY <1>a, <1>e, <2>1 DEF CloudWrite, Items
  <2>3. worker' \in Work
    BY <2>1, Started DEF CloudWrite, BridgeTypeOK
  <2>. QED  BY <1>b, <2>1, <2>2, <2>3 DEF CloudWrite, BridgeTypeOK
<1>6. CASE \E c \in Callers : Fetch(c)
  <2>1. PICK c \in Callers : Fetch(c)
    BY <1>6
  <2>2. CASE Done(c) /\ reg' = reg
    BY <1>c, <2>1, <2>2 DEF Fetch, BridgeTypeOK
  <2>3. CASE ~(Done(c) /\ reg' = reg)
    <3>1. PICK s \in Slots :
            /\ reg' = [reg EXCEPT ![s] = [Empty EXCEPT !.ieee = call[c].ieee]]
            /\ Goto(c, [call[c] EXCEPT !.pc = "build", !.slot = s])
      BY <2>1, <2>3 DEF Fetch
    <3>2. call[c].ieee \in Ieee
      BY <1>a, <2>1 DEF Fetch, Shaped
    <3>3. call' \in [Callers -> Place] /\ CallShape'
      BY <1>a, <3>1, <3>2, Went, LaterPlaces
    <3>4. reg' \in [Slots -> Entry]
      BY <1>a, <3>1, <3>2 DEF Entry, Empty
    <3>. QED  BY <2>1, <3>3, <3>4 DEF Fetch, BridgeTypeOK
  <2>. QED  BY <2>2, <2>3
<1>7. CASE \E c \in Callers : Build(c)
  <2>1. PICK c \in Callers : Build(c)
    BY <1>7
  <2>2. call[c].ieee \in Ieee /\ call[c].slot \in Slots
    BY <1>a, <2>1 DEF Build, Shaped
  <2> DEFINE Failed == /\ Done(c) /\ UNCHANGED <<live, node, priv, cloud>>
                       /\ reg' = reg \/ reg' = [reg EXCEPT ![call[c].slot] = Empty]
  <2> DEFINE Made == \E d \in Sdk \ live :
            /\ live' = live \cup {d} /\ node' = node \cup {d}
            /\ priv' = [priv EXCEPT ![d] = call[c].slot]
            /\ cloud' = [cloud EXCEPT ![d] = Nil]
            /\ Goto(c, [call[c] EXCEPT !.pc = "commit", !.dev = d])
            /\ reg' = reg
  <2>3. Failed \/ Made
    BY <2>1 DEF Build
  <2>4. CASE Failed
    <3>1. reg' \in [Slots -> Entry]
      BY <1>a, <2>2, <2>4 DEF Entry, Empty
    <3>. QED  BY <1>c, <2>1, <2>4, <3>1 DEF Build, BridgeTypeOK
  <2>5. CASE Made
    <3>1. PICK d \in Sdk \ live :
            /\ live' = live \cup {d} /\ node' = node \cup {d}
            /\ priv' = [priv EXCEPT ![d] = call[c].slot]
            /\ cloud' = [cloud EXCEPT ![d] = Nil]
            /\ Goto(c, [call[c] EXCEPT !.pc = "commit", !.dev = d])
            /\ reg' = reg
      BY <2>5
    <3>2. call' \in [Callers -> Place] /\ CallShape'
      BY <1>a, <2>2, <3>1, Went, LaterPlaces
    <3>. QED  BY <2>1, <2>2, <3>1, <3>2 DEF Build, BridgeTypeOK
  <2>. QED  BY <2>3, <2>4, <2>5
<1>8. CASE \E c \in Callers : Commit(c)
  <2>1. PICK c \in Callers : Commit(c)
    BY <1>8
  <2> DEFINE s == call[c].slot
  <2> DEFINE i == call[c].ieee
  <2> DEFINE d == call[c].dev
  <2>2. i \in Ieee /\ s \in Slots /\ d \in Sdk
    BY <1>a, <2>1 DEF Commit, Shaped
  <2>3. CASE reg[s].ieee = i
    <3>1. /\ reg' = [reg EXCEPT ![s] = [ieee |-> i, dev |-> d, last |-> Nil]]
          /\ count' = count + 1 /\ UNCHANGED <<live, node>>
          /\ Goto(c, [call[c] EXCEPT !.pc = "record", !.dev = Nil, !.slot = Nil])
      BY <2>1, <2>3 DEF Commit
    <3>2. call' \in [Callers -> Place] /\ CallShape'
      BY <1>a, <2>2, <3>1, Went, LaterPlaces
    <3> HIDE DEF s, i, d
    <3>3. reg' \in [Slots -> Entry]
      BY <1>a, <2>2, <3>1 DEF Entry
    <3>. QED  BY <2>1, <3>1, <3>2, <3>3 DEF Commit, BridgeTypeOK
  <2>4. CASE reg[s].ieee # i
    <3>1. Free(d) /\ Done(c)
      BY <2>1, <2>4 DEF Commit
    <3>. QED  BY <1>c, <2>1, <2>2, <2>4, <3>1, Outcomes DEF Commit, BridgeTypeOK
  <2>. QED  BY <2>3, <2>4
<1>9. CASE \E c \in Callers : Record(c)
  <2>1. PICK c \in Callers : Record(c)
    BY <1>9
  <2>2. call[c].ieee \in Ieee
    BY <1>a, <2>1 DEF Record, Shaped
  <2>. QED  BY <1>c, <2>1, <2>2 DEF Record, BridgeTypeOK
<1>10. CASE \E c \in Callers : QueueTeardown(c)
  <2>1. PICK c \in Callers : QueueTeardown(c)
    BY <1>10
  <2>2. call[c].ieee \in Ieee /\ call[c].dev \in Sdk
    BY <1>a, <2>1 DEF QueueTeardown, Shaped
  <2>3. queue' \in Seq(Items) /\ Len(queue') <= QueueCap
    BY <1>a, <1>e, <2>1, <2>2 DEF QueueTeardown, Items
  <2>4. call' \in [Callers -> Place] /\ CallShape'
    BY <1>a, <2>1, <2>2, Went, LaterPlaces DEF QueueTeardown
  <2>. QED  BY <2>1, <2>3, <2>4 DEF QueueTeardown, BridgeTypeOK
<1>11. CASE \E c \in Callers : Forget(c)
  BY <1>c, <1>11 DEF Forget, BridgeTypeOK
<1>12. CASE RunReport
  <2>1. Head(queue).dev \in Sdk /\ Head(queue).val \in Vals /\ queue # <<>>
    BY <1>d, <1>12 DEF RunReport, QueueRuns
  <2>2. cloud' \in [Sdk -> Vals \cup {Nil}] /\ lost' \subseteq Sdk
    BY <1>12, <2>1, Outcomes DEF RunReport
  <2>. QED  BY <1>b, <1>d, <1>12, <2>1, <2>2 DEF RunReport, QueueRuns, BridgeTypeOK
<1>13. CASE RunTeardown
  <2>1. Head(queue).dev \in Sdk /\ queue # <<>>
    BY <1>d, <1>13 DEF RunTeardown, QueueRuns
  <2>. QED  BY <1>b, <1>d, <1>13, <2>1, Outcomes DEF RunTeardown, QueueRuns, BridgeTypeOK
<1>14. CASE RunWrite
  <2>1. Head(queue).dev \in Sdk /\ Head(queue).val \in Vals /\ queue # <<>>
    BY <1>d, <1>14 DEF RunWrite, QueueRuns
  <2>2. worker' \in Work
    BY <1>14, <2>1, Started DEF RunWrite
  <2>. QED  BY <1>b, <1>d, <1>14, <2>1, <2>2 DEF RunWrite, QueueRuns, BridgeTypeOK
<1>w. worker.pc # "idle" => /\ worker.dev \in Sdk /\ worker.slot \in Slots
                            /\ worker.val \in Vals \cup {Nil}
                            /\ reg[worker.slot].last \in Vals \cup {Nil}
  BY <1>a DEF Busy, BridgeTypeOK, Work, Entry
<1>15. CASE WriteAck
  <2>1. worker' \in Work
    BY <1>15 DEF WriteAck, BridgeTypeOK, Work
  <2>2. cloud' \in [Sdk -> Vals \cup {Nil}] /\ lost' \subseteq Sdk
    BY <1>w, <1>15, Outcomes DEF WriteAck
  <2>. QED  BY <1>b, <1>15, <2>1, <2>2 DEF WriteAck, BridgeTypeOK
<1>16. CASE WriteNote
  <2>1. worker' \in Work
    BY <1>16 DEF WriteNote, Work, Resting
  <2>2. reg' \in [Slots -> Entry]
    <3>1. reg' = reg \/ reg' = [reg EXCEPT ![worker.slot].last = worker.val]
      BY <1>16 DEF WriteNote
    <3>. QED  BY <1>a, <1>w, <1>16, <3>1 DEF WriteNote, Entry
  <2>3. crossed' \subseteq Sdk
    BY <1>w, <1>16 DEF WriteNote, BridgeTypeOK
  <2>. QED  BY <1>b, <1>16, <2>1, <2>2, <2>3 DEF WriteNote, BridgeTypeOK
<1>17. CASE WriteFail
  <2>1. worker' \in Work
    <3> DEFINE l == reg[worker.slot].last
    <3>1. worker' = [worker EXCEPT !.pc = "snap", !.val = l] \/ worker' = Resting
      BY <1>17 DEF WriteFail
    <3>2. l \in Vals \cup {Nil}
      BY <1>w, <1>17 DEF WriteFail
    <3>3. worker \in Work /\ Resting \in Work
      BY DEF BridgeTypeOK, Work, Resting
    <3> HIDE DEF l
    <3>4. [worker EXCEPT !.pc = "snap", !.val = l] \in Work
      BY <3>2, <3>3 DEF Work
    <3>. QED  BY <3>1, <3>3, <3>4
  <2>. QED  BY <1>b, <1>17, <2>1 DEF WriteFail, BridgeTypeOK
<1>18. CASE SnapBack
  <2>1. worker' \in Work
    BY <1>18 DEF SnapBack, Work, Resting
  <2>2. cloud' \in [Sdk -> Vals \cup {Nil}] /\ lost' \subseteq Sdk
    BY <1>w, <1>18, Outcomes DEF SnapBack
  <2>. QED  BY <1>b, <1>18, <2>1, <2>2 DEF SnapBack, BridgeTypeOK
<1>19. CASE RestoreSnapshot
  BY <1>a, <1>c, <1>19 DEF RestoreSnapshot, BridgeTypeOK
<1>20. CASE \E i \in Ieee : RestoreNext(i)
  <2>1. PICK i \in Ieee : RestoreNext(i)
    BY <1>20
  <2>2. call' \in [Callers -> Place] /\ CallShape'
    BY <1>a, <2>1, Went, FirstPlaces DEF RestoreNext
  <2>. QED  BY <2>1, <2>2 DEF RestoreNext, BridgeTypeOK
<1>21. CASE Reboot
  <2>1. /\ call' \in [Callers -> Place] /\ CallShape'
    BY <1>21, FirstPlaces DEF Reboot, CallShape
  <2>2. queue' \in Seq(Items) /\ Len(queue') <= QueueCap
    BY <1>a, <1>21, EmptySeq DEF Reboot
  <2>3. reg' \in [Slots -> Entry] /\ worker' \in Work
    BY <1>21 DEF Reboot, Entry, Empty, Work, Resting
  <2>4. boots' \in 0..MaxBoots
    BY <1>21, RmkAssumption DEF Reboot, BridgeTypeOK
  <2>. QED  BY <1>21, <2>1, <2>2, <2>3, <2>4 DEF Reboot, BridgeTypeOK
<1>. QED
  BY Zenon, <1>1, <1>2, <1>3, <1>4, <1>5, <1>6, <1>7, <1>8, <1>9, <1>10, <1>11, <1>12, <1>13,
     <1>14, <1>15, <1>16, <1>17, <1>18, <1>19, <1>20, <1>21 DEF BridgeStep


(* A write has its object from its start to its end. *)
LEMMA BusyStays == BridgeTypeOK /\ Busy /\ BridgeStep => Busy'
<1>. SUFFICES ASSUME BridgeTypeOK, Busy, BridgeStep PROVE Busy'
  OBVIOUS
<1>1. CASE UNCHANGED worker
  BY <1>1 DEF Busy
<1>2. CASE worker' = Resting
  BY <1>2 DEF Busy, Resting
<1>3. CASE RunWrite
  <2>1. queue # <<>> /\ queue \in Seq(Items) /\ Head(queue).kind = "write"
    BY <1>3 DEF RunWrite, QueueRuns, BridgeTypeOK
  <2>2. Head(queue).dev \in Sdk /\ Head(queue).val \in Vals
    BY <2>1, Taken, ItemsAre
  <2>. QED  BY <1>3, <2>2, Started DEF RunWrite
<1>4. CASE worker.pc = "write" /\ worker'.pc # "idle" /\ worker'.dev = worker.dev
           /\ worker'.slot = worker.slot
  BY <1>4 DEF Busy
<1>5. WriteAck => worker.pc = "write" /\ worker'.pc # "idle" /\ worker'.dev = worker.dev
                  /\ worker'.slot = worker.slot
  BY DEF WriteAck, BridgeTypeOK, Work
<1>6. WriteFail => \/ worker' = Resting
                   \/ worker.pc = "write" /\ worker'.pc # "idle" /\ worker'.dev = worker.dev
                      /\ worker'.slot = worker.slot
  BY DEF WriteFail, BridgeTypeOK, Work
<1>7. WriteNote \/ SnapBack \/ Reboot => worker' = Resting
  BY DEF WriteNote, SnapBack, Reboot
<1>8. (\E c \in Callers, i \in Ieee : AddStart(c, i) \/ Unexpose(c, i)) => UNCHANGED worker
  BY DEF AddStart, Unexpose
<1>9. (\E c \in Callers : Fetch(c) \/ Build(c) \/ Commit(c) \/ Record(c) \/ QueueTeardown(c)
                          \/ Forget(c)) => UNCHANGED worker
  BY DEF Fetch, Build, Commit, Record, QueueTeardown, Forget
<1>10. (\E i \in Ieee, v \in Vals, force \in BOOLEAN : AttrUpdate(i, v, force)) => UNCHANGED worker
  BY DEF AttrUpdate
<1>11. CASE \E d \in Sdk, v \in Vals : CloudWrite(d, v)
  BY <1>1, <1>11, Started DEF CloudWrite
<1>12. \/ Gateway \/ RunReport \/ RunTeardown \/ RestoreSnapshot
       \/ \E i \in Ieee : RestoreNext(i)
       => UNCHANGED worker
  BY DEF Gateway, RunReport, RunTeardown, RestoreSnapshot, RestoreNext
<1>. QED
  BY Zenon, <1>1, <1>2, <1>3, <1>4, <1>5, <1>6, <1>7, <1>8, <1>9, <1>10, <1>11, <1>12
     DEF BridgeStep


(***************************************************************************)
(* Who refers to an object.  Each one alive is built and not yet committed  *)
(* by one caller, or in one registry entry, or with one caller that takes   *)
(* it off, or in one teardown of the queue, or leaked; only the objects of  *)
(* entries are reported, and all reports lie before the teardown.           *)
(***************************************************************************)
Has(p) == p.pc \in {"commit", "teardown"}

Entries ==
    \A s \in Slots : reg[s].dev # Nil =>
        reg[s].dev \in live /\ reg[s].ieee # Nil /\ priv[reg[s].dev] = s

Held ==
    \A c \in Callers : Has(call[c]) =>
        /\ call[c].dev \in live
        /\ \A s \in Slots : reg[s].dev # call[c].dev
        /\ \A e \in Callers : Has(call[e]) /\ e # c => call[e].dev # call[c].dev
        /\ \A k \in DOMAIN queue : queue[k].kind = "teardown" => queue[k].dev # call[c].dev

Built ==
    \A c \in Callers : call[c].pc = "commit" =>
        /\ priv[call[c].dev] = call[c].slot
        /\ (writeTask = "queue" => worker.dev # call[c].dev)
        /\ \A k \in DOMAIN queue : queue[k].kind = "report" => queue[k].dev # call[c].dev

Going ==
    \A k \in DOMAIN queue : queue[k].kind = "teardown" =>
        /\ queue[k].dev \in live
        /\ \A s \in Slots : reg[s].dev # queue[k].dev
        /\ \A j \in DOMAIN queue : queue[j].dev = queue[k].dev /\ j # k =>
             queue[j].kind # "teardown" /\ (queue[j].kind = "report" => j < k)

Used ==
    /\ \A k \in DOMAIN queue : queue[k].kind = "report" => queue[k].dev \in live
    /\ writeTask = "queue" /\ worker.dev # Nil => worker.dev \in live

Refs == Entries /\ Held /\ Built /\ Going /\ Used

(* A step that only lets go of objects keeps all of it. *)
LEMMA LettingGo ==
  ASSUME Refs, UNCHANGED <<live, priv, queue, writeTask>>,
         \A s \in Slots : \/ reg'[s].dev = Nil
                          \/ reg'[s].dev = reg[s].dev /\ reg'[s].ieee = reg[s].ieee,
         writeTask = "queue" => worker'.dev \in {worker.dev, Nil},
         \A c \in Callers : Has(call'[c]) => call'[c] = call[c],
         Nil \notin live
  PROVE  Refs'
<1>1. Entries'
  BY DEF Refs, Entries
<1>2. Held'
  BY DEF Refs, Held
<1>3. Built'
  <2>. SUFFICES ASSUME NEW c \in Callers, call'[c].pc = "commit"
                PROVE  /\ priv[call'[c].dev] = call'[c].slot
                       /\ (writeTask = "queue" => worker'.dev # call'[c].dev)
                       /\ \A k \in DOMAIN queue :
                            queue[k].kind = "report" => queue[k].dev # call'[c].dev
    BY DEF Built
  <2>1. call'[c] = call[c] /\ call[c].pc = "commit" /\ Has(call[c])
    BY DEF Has
  <2>2. call[c].dev \in live
    BY <2>1 DEF Refs, Held
  <2>. QED  BY <2>1, <2>2 DEF Refs, Built
<1>4. Going'
  <2>. SUFFICES ASSUME NEW k \in DOMAIN queue, queue[k].kind = "teardown"
                PROVE  /\ queue[k].dev \in live
                       /\ \A s \in Slots : reg'[s].dev # queue[k].dev
                       /\ \A j \in DOMAIN queue : queue[j].dev = queue[k].dev /\ j # k =>
                            queue[j].kind # "teardown" /\ (queue[j].kind = "report" => j < k)
    BY DEF Going
  <2>1. queue[k].dev \in live
    BY DEF Refs, Going
  <2>. QED  BY <2>1 DEF Refs, Going
<1>5. Used'
  BY DEF Refs, Used
<1>. QED  BY <1>1, <1>2, <1>3, <1>4, <1>5 DEF Refs

(* Of the callers, one moves and holds nothing afterwards. *)
LEMMA OneMoves ==
  ASSUME call \in [Callers -> Place], NEW c \in Callers, NEW p, ~Has(p), Goto(c, p)
  PROVE  \A e \in Callers : Has(call'[e]) => call'[e] = call[e] /\ e # c
  BY DEF Goto


(* The steps that let go of objects, or touch none. *)
LEMMA EasySteps ==
  ASSUME BridgeTypeOK, CallShape, Busy, Refs, UNCHANGED writeTask,
         \/ Gateway \/ WriteAck \/ WriteNote \/ WriteFail \/ SnapBack \/ RestoreSnapshot
         \/ \E c \in Callers, i \in Ieee : AddStart(c, i)
         \/ \E c \in Callers : Fetch(c) \/ Record(c) \/ Forget(c)
         \/ \E i \in Ieee : RestoreNext(i)
  PROVE  Refs'
<1>a. /\ call \in [Callers -> Place] /\ reg \in [Slots -> Entry] /\ Restore \in Callers
      /\ Nil \notin live /\ ~Has(Idle) /\ worker \in Work
  BY RmkAssumption DEF BridgeTypeOK, Callers, Has, Idle
<1>b. UNCHANGED reg => \A s \in Slots : reg'[s].dev = reg[s].dev /\ reg'[s].ieee = reg[s].ieee
  OBVIOUS
<1>c. UNCHANGED worker => worker'.dev \in {worker.dev, Nil}
  OBVIOUS
<1>d. UNCHANGED call => \A e \in Callers : Has(call'[e]) => call'[e] = call[e]
  OBVIOUS
<1>e. \A c \in Callers : Done(c) => \A e \in Callers : Has(call'[e]) => call'[e] = call[e]
  BY <1>a, OneMoves DEF Done
<1>1. CASE Gateway
  <2>1. UNCHANGED call \/ Goto(Restore, [Idle EXCEPT !.pc = "snapshot"])
    BY <1>1 DEF Gateway, Goto
  <2>2. ~Has([Idle EXCEPT !.pc = "snapshot"])
    BY DEF Has, Idle
  <2>3. \A e \in Callers : Has(call'[e]) => call'[e] = call[e]
    BY <1>a, <1>d, <2>1, <2>2, OneMoves
  <2>. QED  BY <1>a, <1>b, <1>c, <1>1, <2>3, LettingGo DEF Gateway
<1>2. CASE WriteAck
  <2>1. worker'.dev = worker.dev
    BY <1>a, <1>2 DEF WriteAck, Work
  <2>. QED  BY <1>a, <1>b, <1>d, <1>2, <2>1, LettingGo DEF WriteAck
<1>3. CASE WriteNote
  <2>1. worker'.dev = Nil
    BY <1>3 DEF WriteNote, Resting
  <2>2. \A s \in Slots : reg'[s].dev = reg[s].dev /\ reg'[s].ieee = reg[s].ieee
    <3> DEFINE s == worker.slot
    <3>1. reg' = reg \/ reg' = [reg EXCEPT ![s].last = worker.val]
      BY <1>3 DEF WriteNote
    <3> HIDE DEF s
    <3>. QED  BY <1>a, <3>1 DEF Entry
  <2>. QED  BY <1>a, <1>d, <1>3, <2>1, <2>2, LettingGo DEF WriteNote
<1>4. CASE WriteFail
  <2>1. worker'.dev \in {worker.dev, Nil}
    BY <1>a, <1>4 DEF WriteFail, Resting, Work
  <2>. QED  BY <1>a, <1>b, <1>d, <1>4, <2>1, LettingGo DEF WriteFail
<1>5. CASE SnapBack
  <2>1. worker'.dev = Nil
    BY <1>5 DEF SnapBack, Resting
  <2>. QED  BY <1>a, <1>b, <1>d, <1>5, <2>1, LettingGo DEF SnapBack
<1>6. CASE RestoreSnapshot
  BY <1>a, <1>b, <1>c, <1>e, <1>6, LettingGo DEF RestoreSnapshot
<1>7. CASE \E c \in Callers, i \in Ieee : AddStart(c, i)
  <2>1. PICK c \in Callers, i \in Ieee : AddStart(c, i)
    BY <1>7
  <2>2. ~Has([Idle EXCEPT !.pc = "fetch", !.ieee = i])
    BY DEF Has, Idle
  <2>3. \A e \in Callers : Has(call'[e]) => call'[e] = call[e]
    BY <1>a, <2>1, <2>2, OneMoves DEF AddStart
  <2>. QED  BY <1>a, <1>b, <1>c, <2>1, <2>3, LettingGo DEF AddStart
<1>8. CASE \E c \in Callers : Fetch(c)
  <2>1. PICK c \in Callers : Fetch(c)
    BY <1>8
  <2>2. CASE Done(c) /\ reg' = reg
    BY <1>a, <1>b, <1>c, <1>e, <2>1, <2>2, LettingGo DEF Fetch
  <2>3. CASE ~(Done(c) /\ reg' = reg)
    <3>1. PICK s \in Slots :
            /\ reg' = [reg EXCEPT ![s] = [Empty EXCEPT !.ieee = call[c].ieee]]
            /\ Goto(c, [call[c] EXCEPT !.pc = "build", !.slot = s])
      BY <2>1, <2>3 DEF Fetch
    <3>2. ~Has([call[c] EXCEPT !.pc = "build", !.slot = s])
      BY <1>a DEF Has, Place
    <3>3. \A e \in Callers : Has(call'[e]) => call'[e] = call[e]
      BY <1>a, <3>1, <3>2, OneMoves
    <3>4. \A t \in Slots : \/ reg'[t].dev = Nil
                           \/ reg'[t].dev = reg[t].dev /\ reg'[t].ieee = reg[t].ieee
      BY <1>a, <3>1 DEF Empty
    <3>. QED  BY <1>a, <1>c, <2>1, <3>3, <3>4, LettingGo DEF Fetch
  <2>. QED  BY <2>2, <2>3
<1>9. CASE \E c \in Callers : Record(c) \/ Forget(c)
  BY <1>a, <1>b, <1>c, <1>e, <1>9, LettingGo DEF Record, Forget
<1>10. CASE \E i \in Ieee : RestoreNext(i)
  <2>1. PICK i \in Ieee : RestoreNext(i)
    BY <1>10
  <2>2. ~Has([Idle EXCEPT !.pc = "fetch", !.ieee = i])
    BY DEF Has, Idle
  <2>3. \A e \in Callers : Has(call'[e]) => call'[e] = call[e]
    BY <1>a, <2>1, <2>2, OneMoves DEF RestoreNext
  <2>. QED  BY <1>a, <1>b, <1>c, <2>1, <2>3, LettingGo DEF RestoreNext
<1>. QED
  BY Zenon, <1>1, <1>2, <1>3, <1>4, <1>5, <1>6, <1>7, <1>8, <1>9, <1>10

(* A build that fails gives the reservation back; one that succeeds has an  *)
(* object that nobody knows yet.                                            *)
LEMMA BuildRefs ==
  ASSUME BridgeTypeOK, CallShape, Busy, Refs, UNCHANGED writeTask, NEW c \in Callers, Build(c)
  PROVE  Refs'
<1>a. /\ call \in [Callers -> Place] /\ reg \in [Slots -> Entry] /\ call[c] \in Place
      /\ Nil \notin live /\ ~Has(Idle) /\ live \subseteq Sdk
      /\ priv \in [Sdk -> Slots \cup {Nil}]
  BY RmkAssumption DEF BridgeTypeOK, Callers, Has, Idle
<1> DEFINE Failed == /\ Done(c) /\ UNCHANGED <<live, node, priv, cloud>>
                     /\ reg' = reg \/ reg' = [reg EXCEPT ![call[c].slot] = Empty]
<1> DEFINE Made == \E d \in Sdk \ live :
          /\ live' = live \cup {d} /\ priv' = [priv EXCEPT ![d] = call[c].slot]
          /\ Goto(c, [call[c] EXCEPT !.pc = "commit", !.dev = d])
          /\ reg' = reg
<1>1. Failed \/ Made
  BY DEF Build
<1>2. UNCHANGED <<queue, worker>>
  BY DEF Build
<1>3. CASE Failed
  <2>1. \A e \in Callers : Has(call'[e]) => call'[e] = call[e]
    BY <1>a, <1>3, OneMoves DEF Done
  <2>2. \A t \in Slots : \/ reg'[t].dev = Nil
                         \/ reg'[t].dev = reg[t].dev /\ reg'[t].ieee = reg[t].ieee
    BY <1>a, <1>3 DEF Empty
  <2>3. worker'.dev \in {worker.dev, Nil}
    BY <1>2
  <2>. QED  BY <1>a, <1>2, <1>3, <2>1, <2>2, <2>3, LettingGo
<1>4. CASE Made
  <2>1. PICK d \in Sdk \ live :
          /\ live' = live \cup {d} /\ priv' = [priv EXCEPT ![d] = call[c].slot]
          /\ Goto(c, [call[c] EXCEPT !.pc = "commit", !.dev = d])
          /\ reg' = reg
    BY <1>4
  <2>2. /\ call'[c].pc = "commit" /\ call'[c].dev = d /\ call'[c].slot = call[c].slot
        /\ \A e \in Callers : e # c => call'[e] = call[e]
    BY <1>a, <2>1 DEF Goto, Place
  <2>3. /\ \A s \in Slots : reg[s].dev # d
        /\ \A e \in Callers : Has(call[e]) => call[e].dev \in live
        /\ \A k \in DOMAIN queue : queue[k].kind \in {"report", "teardown"} => queue[k].dev \in live
        /\ (writeTask = "queue" => worker.dev # d)
    BY <1>a, <2>1, RmkAssumption DEF Refs, Entries, Held, Going, Used
  <2>4. priv'[d] = call[c].slot /\ \A e \in live : priv'[e] = priv[e]
    BY <1>a, <2>1
  <2>5. Entries'
    BY <2>1, <2>4 DEF Refs, Entries
  <2>6. Held'
    <3>1. ASSUME NEW b \in Callers, Has(call'[b]), b # c
          PROVE  /\ call'[b].dev \in live /\ \A s \in Slots : reg'[s].dev # call'[b].dev
                 /\ \A e \in Callers : Has(call'[e]) /\ e # b => call'[e].dev # call'[b].dev
                 /\ \A k \in DOMAIN queue : queue[k].kind = "teardown" => queue[k].dev # call'[b].dev
      BY <2>1, <2>2, <2>3, <3>1 DEF Refs, Held
    <3>2. /\ call'[c].dev \in live' /\ \A s \in Slots : reg'[s].dev # call'[c].dev
          /\ \A e \in Callers : Has(call'[e]) /\ e # c => call'[e].dev # call'[c].dev
          /\ \A k \in DOMAIN queue : queue[k].kind = "teardown" => queue[k].dev # call'[c].dev
      BY <2>1, <2>2, <2>3
    <3>. QED  BY <1>2, <2>1, <3>1, <3>2 DEF Held
  <2>7. Built'
    <3>1. ASSUME NEW b \in Callers, call'[b].pc = "commit", b # c
          PROVE  /\ priv'[call'[b].dev] = call'[b].slot
                 /\ (writeTask = "queue" => worker.dev # call'[b].dev)
                 /\ \A k \in DOMAIN queue : queue[k].kind = "report" => queue[k].dev # call'[b].dev
      <4>1. call[b].pc = "commit" /\ call'[b] = call[b] /\ Has(call[b])
        BY <2>2, <3>1 DEF Has
      <4>. QED  BY <2>3, <2>4, <4>1 DEF Refs, Built
    <3>2. /\ priv'[call'[c].dev] = call'[c].slot /\ (writeTask = "queue" => worker.dev # call'[c].dev)
          /\ \A k \in DOMAIN queue : queue[k].kind = "report" => queue[k].dev # call'[c].dev
      BY <2>1, <2>2, <2>3, <2>4
    <3>. QED  BY <1>2, <3>1, <3>2 DEF Built
  <2>8. Going'
    BY <1>2, <2>1 DEF Refs, Going
  <2>9. Used'
    BY <1>2, <2>1 DEF Refs, Used
  <2>. QED  BY <2>5, <2>6, <2>7, <2>8, <2>9 DEF Refs
<1>. QED  BY <1>1, <1>3, <1>4


(* A commit gives the object to the entry that was made for it, or frees   *)
(* it: nobody else knew it.                                                *)
LEMMA CommitRefs ==
  ASSUME BridgeTypeOK, CallShape, Busy, Refs, UNCHANGED writeTask, NEW c \in Callers, Commit(c)
  PROVE  Refs'
<1> DEFINE s == call[c].slot
<1> DEFINE i == call[c].ieee
<1> DEFINE d == call[c].dev
<1>a. /\ call \in [Callers -> Place] /\ reg \in [Slots -> Entry] /\ call[c] \in Place
      /\ Nil \notin live /\ Nil \notin Ieee /\ ~Has(Idle)
      /\ s \in Slots /\ i \in Ieee /\ d \in Sdk
      /\ Has(call[c]) /\ call[c].pc = "commit"
  BY RmkAssumption DEF BridgeTypeOK, CallShape, Shaped, Callers, Has, Idle, Commit
<1>b. /\ d \in live /\ priv[d] = s /\ (writeTask = "queue" => worker.dev # d)
      /\ \A t \in Slots : reg[t].dev # d
      /\ \A e \in Callers : Has(call[e]) /\ e # c => call[e].dev # d
      /\ \A k \in DOMAIN queue : queue[k].kind \in {"report", "teardown"} => queue[k].dev # d
  BY <1>a DEF Refs, Held, Built
<1>c. UNCHANGED <<priv, queue, worker>>
  BY DEF Commit
<1>1. CASE reg[s].ieee = i
  <2>1. /\ reg' = [reg EXCEPT ![s] = [ieee |-> i, dev |-> d, last |-> Nil]]
        /\ UNCHANGED live
        /\ Goto(c, [call[c] EXCEPT !.pc = "record", !.dev = Nil, !.slot = Nil])
    BY <1>1 DEF Commit
  <2>2. ~Has([call[c] EXCEPT !.pc = "record", !.dev = Nil, !.slot = Nil])
    BY <1>a DEF Has, Place
  <2>3. \A e \in Callers : Has(call'[e]) => call'[e] = call[e] /\ e # c
    BY <1>a, <2>1, <2>2, OneMoves
  <2> HIDE DEF s, i, d
  <2>4. /\ reg'[s].dev = d /\ reg'[s].ieee = i
        /\ \A t \in Slots : t # s => reg'[t] = reg[t]
    BY <1>a, <2>1
  <2>5. Entries'
    BY <1>a, <1>b, <1>c, <2>1, <2>4 DEF Refs, Entries
  <2>6. Held'
    <3>. SUFFICES ASSUME NEW b \in Callers, Has(call'[b])
                  PROVE  /\ call'[b].dev \in live
                         /\ \A t \in Slots : reg'[t].dev # call'[b].dev
                         /\ \A e \in Callers : Has(call'[e]) /\ e # b => call'[e].dev # call'[b].dev
                         /\ \A k \in DOMAIN queue :
                              queue[k].kind = "teardown" => queue[k].dev # call'[b].dev
      BY <1>c, <2>1 DEF Held
    <3>1. call'[b] = call[b] /\ b # c /\ call[b].dev # d
      BY <1>b, <2>3
    <3>2. \A t \in Slots : reg'[t].dev # call'[b].dev
      BY <2>4, <3>1 DEF Refs, Held
    <3>. QED  BY <2>3, <3>1, <3>2 DEF Refs, Held
  <2>7. Built'
    <3>. SUFFICES ASSUME NEW b \in Callers, call'[b].pc = "commit"
                  PROVE  /\ priv[call'[b].dev] = call'[b].slot
                         /\ (writeTask = "queue" => worker.dev # call'[b].dev)
                         /\ \A k \in DOMAIN queue :
                              queue[k].kind = "report" => queue[k].dev # call'[b].dev
      BY <1>c DEF Built
    <3>1. call'[b] = call[b]
      BY <2>3 DEF Has
    <3>. QED  BY <3>1 DEF Refs, Built
  <2>8. Going'
    <3>. SUFFICES ASSUME NEW k \in DOMAIN queue, queue[k].kind = "teardown"
                  PROVE  /\ queue[k].dev \in live
                         /\ \A t \in Slots : reg'[t].dev # queue[k].dev
                         /\ \A j \in DOMAIN queue : queue[j].dev = queue[k].dev /\ j # k =>
                              queue[j].kind # "teardown" /\ (queue[j].kind = "report" => j < k)
      BY <1>c, <2>1 DEF Going
    <3>1. \A t \in Slots : reg'[t].dev # queue[k].dev
      BY <1>b, <2>4 DEF Refs, Going
    <3>. QED  BY <3>1 DEF Refs, Going
  <2>9. Used'
    BY <1>c, <2>1 DEF Refs, Used
  <2>. QED  BY <2>5, <2>6, <2>7, <2>8, <2>9 DEF Refs
<1>2. CASE reg[s].ieee # i
  <2>1. reg' = reg /\ live' = live \ {d} /\ Done(c)
    BY <1>2 DEF Commit, Free
  <2>2. \A e \in Callers : Has(call'[e]) => call'[e] = call[e] /\ e # c
    BY <1>a, <2>1, OneMoves DEF Done
  <2> HIDE DEF s, i, d
  <2>3. Entries'
    BY <1>b, <1>c, <2>1 DEF Refs, Entries
  <2>4. Held'
    BY <1>b, <1>c, <2>1, <2>2 DEF Refs, Held
  <2>5. Built'
    <3>. SUFFICES ASSUME NEW b \in Callers, call'[b].pc = "commit"
                  PROVE  /\ priv[call'[b].dev] = call'[b].slot
                         /\ (writeTask = "queue" => worker.dev # call'[b].dev)
                         /\ \A k \in DOMAIN queue :
                              queue[k].kind = "report" => queue[k].dev # call'[b].dev
      BY <1>c DEF Built
    <3>1. call'[b] = call[b]
      BY <2>2 DEF Has
    <3>. QED  BY <3>1 DEF Refs, Built
  <2>6. Going'
    BY <1>b, <1>c, <2>1 DEF Refs, Going
  <2>7. Used'
    BY <1>b, <1>c, <2>1 DEF Refs, Used
  <2>. QED  BY <2>3, <2>4, <2>5, <2>6, <2>7 DEF Refs
<1>. QED  BY <1>1, <1>2

(* A device that is taken off leaves its object with the caller. *)
LEMMA UnexposeRefs ==
  ASSUME BridgeTypeOK, CallShape, Busy, Refs, UNCHANGED writeTask,
         NEW c \in Callers, NEW i \in Ieee, Unexpose(c, i)
  PROVE  Refs'
<1>a. /\ call \in [Callers -> Place] /\ reg \in [Slots -> Entry]
      /\ Nil \notin live /\ call[c].pc = "idle" /\ ~Has(call[c])
  BY RmkAssumption DEF BridgeTypeOK, Callers, Has, Unexpose
<1>b. UNCHANGED <<live, priv, queue, worker>>
  BY DEF Unexpose
<1>1. CASE EntryOf(i) = {}
  <2>1. UNCHANGED reg /\ Goto(c, [Idle EXCEPT !.pc = "forget", !.ieee = i])
    BY <1>1 DEF Unexpose
  <2>2. ~Has([Idle EXCEPT !.pc = "forget", !.ieee = i])
    BY DEF Has, Idle
  <2>3. \A e \in Callers : Has(call'[e]) => call'[e] = call[e]
    BY <1>a, <2>1, <2>2, OneMoves
  <2>4. /\ \A t \in Slots : reg'[t].dev = reg[t].dev /\ reg'[t].ieee = reg[t].ieee
        /\ worker'.dev \in {worker.dev, Nil}
    BY <1>b, <2>1
  <2>. QED  BY <1>a, <1>b, <2>3, <2>4, LettingGo
<1>2. CASE EntryOf(i) # {}
  <2> DEFINE p(s) == [Idle EXCEPT !.pc = IF reg[s].dev = Nil THEN "forget" ELSE "teardown",
                                  !.ieee = i, !.dev = reg[s].dev]
  <2>1. PICK s \in Slots : reg' = [reg EXCEPT ![s] = Empty] /\ Goto(c, p(s))
    BY <1>2 DEF Unexpose
  <2>2. /\ p(s).pc # "commit" /\ p(s).dev = reg[s].dev
        /\ p(s).pc = "teardown" <=> reg[s].dev # Nil
    BY DEF Idle
  <2> HIDE DEF p
  <2>3. /\ reg'[s].dev = Nil /\ \A t \in Slots : t # s => reg'[t] = reg[t]
    BY <1>a, <2>1 DEF Empty
  <2>4. /\ call'[c] = p(s) /\ \A e \in Callers : e # c => call'[e] = call[e]
    BY <1>a, <2>1 DEF Goto
  <2>5. CASE reg[s].dev = Nil
    <3>1. \A e \in Callers : Has(call'[e]) => call'[e] = call[e]
      BY <2>2, <2>4, <2>5 DEF Has
    <3>2. /\ \A t \in Slots : \/ reg'[t].dev = Nil
                              \/ reg'[t].dev = reg[t].dev /\ reg'[t].ieee = reg[t].ieee
          /\ worker'.dev \in {worker.dev, Nil}
      BY <1>b, <2>3
    <3>. QED  BY <1>a, <1>b, <3>1, <3>2, LettingGo
  <2>6. CASE reg[s].dev # Nil
    <3>1. /\ call'[c].pc = "teardown" /\ call'[c].dev = reg[s].dev /\ Has(call'[c])
      BY <2>2, <2>4, <2>6 DEF Has
    <3>2. /\ reg[s].dev \in live
          /\ \A t \in Slots : reg'[t].dev # reg[s].dev
          /\ \A e \in Callers : Has(call[e]) => call[e].dev # reg[s].dev
          /\ \A k \in DOMAIN queue : queue[k].kind = "teardown" => queue[k].dev # reg[s].dev
      <4>1. \A t \in Slots : t # s => reg[t].dev # reg[s].dev
        BY <2>6 DEF Refs, Entries
      <4>2. \A t \in Slots : reg'[t].dev # reg[s].dev
        BY <2>3, <2>6, <4>1
      <4>. QED  BY <2>6, <4>2 DEF Refs, Entries, Held, Going
    <3>3. Entries'
      BY <1>b, <2>3 DEF Refs, Entries
    <3>4. Held'
      <4>1. ASSUME NEW b \in Callers, Has(call'[b]), b # c
            PROVE  /\ call'[b].dev \in live /\ \A t \in Slots : reg'[t].dev # call'[b].dev
                   /\ \A e \in Callers : Has(call'[e]) /\ e # b => call'[e].dev # call'[b].dev
                   /\ \A k \in DOMAIN queue :
                        queue[k].kind = "teardown" => queue[k].dev # call'[b].dev
        <5>1. call'[b] = call[b] /\ Has(call[b]) /\ call[b].dev \in live
              /\ \A t \in Slots : reg[t].dev # call[b].dev
          BY <2>4, <4>1 DEF Refs, Held
        <5>2. \A t \in Slots : reg'[t].dev # call'[b].dev
          BY <1>a, <2>3, <5>1
        <5>. QED  BY <2>4, <3>1, <3>2, <5>1, <5>2 DEF Refs, Held
      <4>2. /\ call'[c].dev \in live /\ \A t \in Slots : reg'[t].dev # call'[c].dev
            /\ \A e \in Callers : Has(call'[e]) /\ e # c => call'[e].dev # call'[c].dev
            /\ \A k \in DOMAIN queue : queue[k].kind = "teardown" => queue[k].dev # call'[c].dev
        BY <2>4, <3>1, <3>2
      <4>. QED  BY <1>b, <4>1, <4>2 DEF Held
    <3>5. Built'
      <4>. SUFFICES ASSUME NEW b \in Callers, call'[b].pc = "commit"
                    PROVE  /\ priv[call'[b].dev] = call'[b].slot
                           /\ (writeTask = "queue" => worker.dev # call'[b].dev)
                           /\ \A k \in DOMAIN queue :
                                queue[k].kind = "report" => queue[k].dev # call'[b].dev
        BY <1>b DEF Built
      <4>1. call'[b] = call[b]
        BY <2>4, <3>1
      <4>. QED  BY <4>1 DEF Refs, Built
    <3>6. Going'
      <4>. SUFFICES ASSUME NEW k \in DOMAIN queue, queue[k].kind = "teardown"
                    PROVE  /\ queue[k].dev \in live
                           /\ \A t \in Slots : reg'[t].dev # queue[k].dev
                           /\ \A j \in DOMAIN queue : queue[j].dev = queue[k].dev /\ j # k =>
                                queue[j].kind # "teardown" /\ (queue[j].kind = "report" => j < k)
        BY <1>b DEF Going
      <4>1. queue[k].dev \in live /\ \A t \in Slots : reg[t].dev # queue[k].dev
        BY DEF Refs, Going
      <4>2. \A t \in Slots : reg'[t].dev # queue[k].dev
        BY <1>a, <2>3, <4>1
      <4>. QED  BY <4>2 DEF Refs, Going
    <3>7. Used'
      BY <1>b DEF Refs, Used
    <3>. QED  BY <3>3, <3>4, <3>5, <3>6, <3>7 DEF Refs
  <2>. QED  BY <2>5, <2>6
<1>. QED  BY <1>1, <1>2


(* A report is about the object of an entry, which no teardown is about. *)
LEMMA ReportRefs ==
  ASSUME BridgeTypeOK, CallShape, Busy, Refs, UNCHANGED writeTask,
         NEW i \in Ieee, NEW v \in Vals, NEW force \in BOOLEAN, AttrUpdate(i, v, force)
  PROVE  Refs'
<1>1. PICK s \in Slots : reg[s].dev # Nil /\ Queued(s, v)
  BY DEF AttrUpdate, EntryOf
<1> DEFINE d == reg[s].dev
<1> DEFINE x == [kind |-> "report", dev |-> d, val |-> v]
<1> DEFINE n == Len(queue) + 1
<1>2. UNCHANGED <<live, priv, worker, call>>
  BY DEF AttrUpdate
<1>3. d \in Sdk /\ x \in Items /\ queue \in Seq(Items)
  BY <1>1 DEF BridgeTypeOK, Entry, Items
<1>4. queue' = Append(queue, x)
  BY <1>1 DEF Queued
<1>5. \A t \in Slots : reg'[t].dev = reg[t].dev /\ reg'[t].ieee = reg[t].ieee
  BY <1>1 DEF Queued, BridgeTypeOK, Entry
<1>6. x.kind = "report" /\ x.dev = d
  OBVIOUS
<1> HIDE DEF x, n
<1>7. /\ DOMAIN queue' = DOMAIN queue \cup {n} /\ queue'[n] = x /\ n \notin DOMAIN queue
      /\ \A k \in DOMAIN queue : queue'[k] = queue[k]
  BY <1>3, <1>4, Posted DEF n
<1>8. d \in live /\ \A e \in Callers : Has(call[e]) => call[e].dev # d
  BY <1>1 DEF Refs, Entries, Held
<1>9. \A k \in DOMAIN queue : queue[k].kind = "teardown" => queue[k].dev # d
  BY DEF Refs, Going
<1> HIDE DEF d
<1>10. Entries'
  BY <1>2, <1>5 DEF Refs, Entries
<1>11. Held'
  <2>1. \A k \in DOMAIN queue' : queue'[k].kind = "teardown" => k \in DOMAIN queue /\ queue'[k] = queue[k]
    BY <1>6, <1>7
  <2>. QED  BY <1>2, <1>5, <2>1 DEF Refs, Held
<1>12. Built'
  <2>. SUFFICES ASSUME NEW b \in Callers, call[b].pc = "commit", NEW k \in DOMAIN queue',
                       queue'[k].kind = "report"
                PROVE  queue'[k].dev # call[b].dev
    BY <1>2 DEF Refs, Built
  <2>1. call[b].dev # d
    BY <1>8 DEF Has
  <2>. QED  BY <1>6, <1>7, <2>1 DEF Refs, Built
<1>13. Going'
  <2>. SUFFICES ASSUME NEW k \in DOMAIN queue', queue'[k].kind = "teardown"
                PROVE  /\ queue'[k].dev \in live
                       /\ \A t \in Slots : reg'[t].dev # queue'[k].dev
                       /\ \A j \in DOMAIN queue' : queue'[j].dev = queue'[k].dev /\ j # k =>
                            queue'[j].kind # "teardown" /\ (queue'[j].kind = "report" => j < k)
    BY <1>2 DEF Going
  <2>1. k \in DOMAIN queue /\ queue'[k] = queue[k] /\ queue[k].kind = "teardown"
    BY <1>6, <1>7
  <2>2. queue[k].dev # d
    BY <1>9, <2>1
  <2>3. ASSUME NEW j \in DOMAIN queue', queue'[j].dev = queue'[k].dev, j # k
        PROVE  queue'[j].kind # "teardown" /\ (queue'[j].kind = "report" => j < k)
    <3>1. j \in DOMAIN queue /\ queue'[j] = queue[j]
      BY <1>6, <1>7, <2>1, <2>2, <2>3
    <3>. QED  BY <2>1, <2>3, <3>1 DEF Refs, Going
  <2>. QED  BY <1>5, <2>1, <2>3 DEF Refs, Going
<1>14. Used'
  <2>1. \A k \in DOMAIN queue' : queue'[k].kind = "report" => queue'[k].dev \in live
    BY <1>6, <1>7, <1>8 DEF Refs, Used
  <2>. QED  BY <1>2, <2>1 DEF Refs, Used
<1>. QED  BY <1>10, <1>11, <1>12, <1>13, <1>14 DEF Refs

(* A write may be about anything: it is checked when it runs. *)
LEMMA WriteRefs ==
  ASSUME BridgeTypeOK, CallShape, Busy, Refs, UNCHANGED writeTask,
         NEW d \in Sdk, NEW v \in Vals, CloudWrite(d, v)
  PROVE  Refs'
<1> DEFINE x == [kind |-> "write", dev |-> d, val |-> v]
<1> DEFINE n == Len(queue) + 1
<1>1. /\ UNCHANGED <<reg, live, priv, call>> /\ queue' \in {queue, Append(queue, x)}
      /\ writeTask = "queue" => queue' = Append(queue, x) /\ worker' = worker
  BY DEF CloudWrite
<1>2. x \in Items /\ queue \in Seq(Items)
  BY DEF BridgeTypeOK, Items
<1>3. x.kind = "write"
  OBVIOUS
<1> HIDE DEF x, n
<1>5. \A k \in DOMAIN queue' : queue'[k].kind # "write" => k \in DOMAIN queue /\ queue'[k] = queue[k]
  <2>1. CASE queue' = queue
    BY <2>1
  <2>2. CASE queue' = Append(queue, x)
    <3>1. /\ DOMAIN queue' = DOMAIN queue \cup {n} /\ queue'[n] = x
          /\ \A k \in DOMAIN queue : queue'[k] = queue[k]
      BY <1>2, <2>2, Posted DEF n
    <3>. QED  BY <1>3, <3>1
  <2>. QED  BY <1>1, <2>1, <2>2
<1>6. Entries' /\ Held' /\ Built' /\ Used'
  BY <1>1, <1>5 DEF Refs, Entries, Held, Built, Used
<1>7. Going'
  <2>. SUFFICES ASSUME NEW k \in DOMAIN queue', queue'[k].kind = "teardown"
                PROVE  /\ queue'[k].dev \in live
                       /\ \A t \in Slots : reg[t].dev # queue'[k].dev
                       /\ \A j \in DOMAIN queue' : queue'[j].dev = queue'[k].dev /\ j # k =>
                            queue'[j].kind # "teardown" /\ (queue'[j].kind = "report" => j < k)
    BY <1>1 DEF Going
  <2>1. k \in DOMAIN queue /\ queue'[k] = queue[k] /\ queue[k].kind = "teardown"
    BY <1>5
  <2>2. ASSUME NEW j \in DOMAIN queue', queue'[j].dev = queue'[k].dev, j # k
        PROVE  queue'[j].kind # "teardown" /\ (queue'[j].kind = "report" => j < k)
    <3>1. queue'[j].kind = "write" \/ (j \in DOMAIN queue /\ queue'[j] = queue[j])
      BY <1>5
    <3>. QED  BY <2>1, <2>2, <3>1 DEF Refs, Going
  <2>. QED  BY <2>1, <2>2 DEF Refs, Going
<1>. QED  BY <1>6, <1>7 DEF Refs

(* The teardown goes to the end of the queue, behind every report. *)
LEMMA TeardownRefs ==
  ASSUME BridgeTypeOK, CallShape, Busy, Refs, UNCHANGED writeTask,
         NEW c \in Callers, QueueTeardown(c)
  PROVE  Refs'
<1> DEFINE d == call[c].dev
<1> DEFINE x == [kind |-> "teardown", dev |-> d, val |-> Nil]
<1> DEFINE n == Len(queue) + 1
<1>1. /\ UNCHANGED <<reg, live, priv, worker>> /\ queue' \in {queue, Append(queue, x)}
      /\ Goto(c, [call[c] EXCEPT !.pc = "forget", !.dev = Nil])
      /\ Has(call[c]) /\ call[c].pc = "teardown"
  BY DEF QueueTeardown, Has
<1>2. /\ call \in [Callers -> Place] /\ call[c] \in Place /\ d \in Sdk
      /\ x \in Items /\ queue \in Seq(Items)
  BY <1>1 DEF BridgeTypeOK, CallShape, Shaped, Items
<1>3. /\ d \in live /\ \A s \in Slots : reg[s].dev # d
      /\ \A e \in Callers : Has(call[e]) /\ e # c => call[e].dev # d
      /\ \A k \in DOMAIN queue : queue[k].kind = "teardown" => queue[k].dev # d
  BY <1>1 DEF Refs, Held
<1>4. ~Has([call[c] EXCEPT !.pc = "forget", !.dev = Nil])
  BY <1>2 DEF Has, Place
<1>5. \A e \in Callers : Has(call'[e]) => call'[e] = call[e] /\ e # c
  BY <1>1, <1>2, <1>4, OneMoves
<1>6. x.kind = "teardown" /\ x.dev = d
  OBVIOUS
<1>7. worker'.dev \in {worker.dev, Nil} /\ Nil \notin live
      /\ \A s \in Slots : reg'[s].dev = reg[s].dev /\ reg'[s].ieee = reg[s].ieee
  BY <1>1, RmkAssumption DEF BridgeTypeOK
<1>8. CASE queue' = queue
  BY <1>1, <1>5, <1>7, <1>8, LettingGo
<1>9. CASE queue' = Append(queue, x)
  <2> HIDE DEF x, n, d
  <2>1. /\ DOMAIN queue' = DOMAIN queue \cup {n} /\ queue'[n] = x
        /\ \A k \in DOMAIN queue : queue'[k] = queue[k] /\ k < n
    BY <1>2, <1>9, Posted DEF n
  <2>2. Entries'
    BY <1>1 DEF Refs, Entries
  <2>3. Held'
    <3>. SUFFICES ASSUME NEW b \in Callers, Has(call'[b])
                  PROVE  /\ call'[b].dev \in live
                         /\ \A t \in Slots : reg[t].dev # call'[b].dev
                         /\ \A e \in Callers : Has(call'[e]) /\ e # b => call'[e].dev # call'[b].dev
                         /\ \A k \in DOMAIN queue' :
                              queue'[k].kind = "teardown" => queue'[k].dev # call'[b].dev
      BY <1>1 DEF Held
    <3>1. call'[b] = call[b] /\ call[b].dev # d
      BY <1>3, <1>5
    <3>2. \A k \in DOMAIN queue' : queue'[k].kind = "teardown" => queue'[k].dev # call'[b].dev
      BY <1>5, <1>6, <2>1, <3>1 DEF Refs, Held
    <3>. QED  BY <1>5, <3>1, <3>2 DEF Refs, Held
  <2>4. Built'
    <3>. SUFFICES ASSUME NEW b \in Callers, call'[b].pc = "commit"
                  PROVE  /\ priv[call'[b].dev] = call'[b].slot
                         /\ (writeTask = "queue" => worker.dev # call'[b].dev)
                         /\ \A k \in DOMAIN queue' :
                              queue'[k].kind = "report" => queue'[k].dev # call'[b].dev
      BY <1>1 DEF Built
    <3>1. call'[b] = call[b]
      BY <1>5 DEF Has
    <3>2. \A k \in DOMAIN queue' :
            queue'[k].kind = "report" => k \in DOMAIN queue /\ queue'[k] = queue[k]
      BY <1>6, <2>1
    <3>. QED  BY <3>1, <3>2 DEF Refs, Built
  <2>5. Going'
    <3>. SUFFICES ASSUME NEW k \in DOMAIN queue', queue'[k].kind = "teardown"
                  PROVE  /\ queue'[k].dev \in live
                         /\ \A t \in Slots : reg[t].dev # queue'[k].dev
                         /\ \A j \in DOMAIN queue' : queue'[j].dev = queue'[k].dev /\ j # k =>
                              queue'[j].kind # "teardown" /\ (queue'[j].kind = "report" => j < k)
      BY <1>1 DEF Going
    <3>1. CASE k = n
      <4>1. ASSUME NEW j \in DOMAIN queue', queue'[j].dev = d, j # n
            PROVE  queue'[j].kind # "teardown" /\ j < n
        BY <1>3, <2>1, <4>1
      <4>. QED  BY <1>3, <1>6, <2>1, <3>1, <4>1
    <3>2. CASE k # n
      <4>1. k \in DOMAIN queue /\ queue'[k] = queue[k] /\ queue[k].dev # d
        BY <1>3, <2>1, <3>2
      <4>2. ASSUME NEW j \in DOMAIN queue', queue'[j].dev = queue'[k].dev, j # k
            PROVE  queue'[j].kind # "teardown" /\ (queue'[j].kind = "report" => j < k)
        <5>1. j \in DOMAIN queue /\ queue'[j] = queue[j]
          BY <1>6, <2>1, <4>1, <4>2
        <5>. QED  BY <4>1, <4>2, <5>1 DEF Refs, Going
      <4>. QED  BY <4>1, <4>2 DEF Refs, Going
    <3>. QED  BY <3>1, <3>2
  <2>6. Used'
    <3>1. \A k \in DOMAIN queue' : queue'[k].kind = "report" => queue'[k].dev \in live
      BY <1>6, <2>1 DEF Refs, Used
    <3>. QED  BY <1>1, <3>1 DEF Refs, Used
  <2>. QED  BY <2>2, <2>3, <2>4, <2>5, <2>6 DEF Refs
<1>. QED  BY <1>1, <1>8, <1>9

(* What the worker takes from the queue is gone from it, and what stays    *)
(* keeps its order.                                                        *)
LEMMA TakenRefs ==
  ASSUME BridgeTypeOK, CallShape, Busy, Refs, UNCHANGED writeTask,
         RunReport \/ RunTeardown \/ RunWrite
  PROVE  Refs'
<1> DEFINE d == Head(queue).dev
<1>1. queue \in Seq(Items) /\ queue # <<>> /\ queue' = Tail(queue)
      /\ (writeTask = "queue" => worker.pc = "idle") /\ UNCHANGED <<reg, priv, call>>
  BY DEF BridgeTypeOK, RunReport, RunTeardown, RunWrite, QueueRuns
<1>2. /\ 1 \in DOMAIN queue /\ queue[1] = Head(queue) /\ d \in Sdk
      /\ \A k \in DOMAIN queue' : k \in Nat \ {0} /\ k + 1 \in DOMAIN queue /\ queue'[k] = queue[k + 1]
  BY <1>1, Taken, ItemsAre
<1>3. (writeTask = "queue" => worker.dev = Nil) /\ Nil \notin live
  BY <1>1, RmkAssumption DEF Busy, BridgeTypeOK
<1>4. (\A k \in DOMAIN queue' : queue'[k].kind = "teardown" =>
         \A j \in DOMAIN queue' : queue'[j].dev = queue'[k].dev /\ j # k =>
                            queue'[j].kind # "teardown" /\ (queue'[j].kind = "report" => j < k))
  <2>. SUFFICES ASSUME NEW k \in DOMAIN queue', queue'[k].kind = "teardown",
                       NEW j \in DOMAIN queue', queue'[j].dev = queue'[k].dev, j # k
                PROVE  queue'[j].kind # "teardown" /\ (queue'[j].kind = "report" => j < k)
    OBVIOUS
  <2> DEFINE a == k + 1
  <2> DEFINE b == j + 1
  <2>1. /\ a \in DOMAIN queue /\ b \in DOMAIN queue /\ a # b /\ (b < a => j < k)
        /\ queue'[k] = queue[a] /\ queue'[j] = queue[b]
    BY <1>2
  <2> HIDE DEF a, b
  <2>. QED  BY <2>1 DEF Refs, Going
<1>5. CASE UNCHANGED live
  <2>1. Entries'
    BY <1>1, <1>5 DEF Refs, Entries
  <2>2. Held'
    BY <1>1, <1>2, <1>5 DEF Refs, Held
  <2>3. \A k \in DOMAIN queue' : queue'[k].kind = "report" => queue'[k].dev \in live
    BY <1>2 DEF Refs, Used
  <2>4. writeTask = "queue" =>
          worker'.dev = Nil \/ (worker'.dev \in live /\ \E s \in Slots : reg[s].dev = worker'.dev)
    <3>1. CASE UNCHANGED worker
      BY <1>3, <3>1
    <3>2. CASE RunWrite
      <4>1. Head(queue).val \in Vals
        BY <1>1, <1>2, <3>2, ItemsAre DEF RunWrite, QueueRuns
      <4>. QED  BY <1>2, <1>3, <3>2, <4>1, Started DEF RunWrite
    <3>. QED  BY <3>1, <3>2 DEF RunReport, RunTeardown
  <2>5. Built'
    <3>. SUFFICES ASSUME NEW b \in Callers, call[b].pc = "commit"
                  PROVE  /\ priv[call[b].dev] = call[b].slot
                         /\ (writeTask = "queue" => worker'.dev # call[b].dev)
                         /\ \A k \in DOMAIN queue' :
                              queue'[k].kind = "report" => queue'[k].dev # call[b].dev
      BY <1>1 DEF Built
    <3>1. call[b].dev \in live /\ \A s \in Slots : reg[s].dev # call[b].dev
      BY DEF Refs, Held, Has
    <3>2. writeTask = "queue" => worker'.dev # call[b].dev
      BY <1>3, <2>4, <3>1
    <3>. QED  BY <1>2, <3>2 DEF Refs, Built
  <2>6. Going'
    BY <1>1, <1>2, <1>4, <1>5 DEF Refs, Going
  <2>7. Used'
    BY <1>5, <2>3, <2>4 DEF Used
  <2>. QED  BY <2>1, <2>2, <2>5, <2>6, <2>7 DEF Refs
<1>6. CASE RunTeardown
  <2>1. live' = live \ {d} /\ UNCHANGED worker /\ queue[1].kind = "teardown" /\ queue[1].dev = d
    BY <1>2, <1>6 DEF RunTeardown, QueueRuns, Free
  <2>2. /\ d \in live /\ \A s \in Slots : reg[s].dev # d
        /\ \A k \in DOMAIN queue : k # 1 /\ queue[k].dev = d =>
             queue[k].kind # "teardown" /\ (queue[k].kind = "report" => k < 1)
        /\ \A e \in Callers : Has(call[e]) => call[e].dev # d
    BY <1>2, <2>1 DEF Refs, Going, Held
  <2>3. \A k \in DOMAIN queue' : queue'[k].dev = d => queue'[k].kind = "write"
    <3>. SUFFICES ASSUME NEW k \in DOMAIN queue', queue'[k].dev = d
                  PROVE  queue'[k].kind = "write"
      OBVIOUS
    <3> DEFINE a == k + 1
    <3>1. a \in DOMAIN queue /\ queue'[k] = queue[a] /\ a # 1 /\ ~(a < 1)
      BY <1>2
    <3> HIDE DEF a
    <3>2. queue[a].kind \in {"report", "write", "teardown"}
      BY <1>1, <3>1, ItemsAre
    <3>. QED  BY <2>2, <3>1, <3>2
  <2> HIDE DEF d
  <2>4. Entries'
    BY <1>1, <2>1, <2>2 DEF Refs, Entries
  <2>5. Held'
    <3>1. \A e \in Callers, k \in DOMAIN queue' :
            Has(call[e]) /\ queue'[k].kind = "teardown" => queue'[k].dev # call[e].dev
      BY <1>2 DEF Refs, Held
    <3>. QED  BY <1>1, <2>1, <2>2, <3>1 DEF Refs, Held
  <2>6. Built'
    <3>1. \A e \in Callers, k \in DOMAIN queue' :
            call[e].pc = "commit" /\ queue'[k].kind = "report" => queue'[k].dev # call[e].dev
      BY <1>2 DEF Refs, Built
    <3>. QED  BY <1>1, <2>1, <3>1 DEF Refs, Built
  <2>7. Going'
    <3>1. \A k \in DOMAIN queue' : queue'[k].kind = "teardown" =>
            queue'[k].dev \in live \ {d} /\ \A s \in Slots : reg[s].dev # queue'[k].dev
      BY <1>2, <2>3 DEF Refs, Going
    <3>. QED  BY <1>1, <1>4, <2>1, <3>1 DEF Going
  <2>8. Used'
    <3>1. \A k \in DOMAIN queue' : queue'[k].kind = "report" => queue'[k].dev \in live \ {d}
      <4>1. \A k \in DOMAIN queue' : queue'[k].kind = "report" => queue'[k].dev \in live
        BY <1>2 DEF Refs, Used
      <4>. QED  BY <2>3, <4>1
    <3>. QED  BY <1>3, <2>1, <3>1 DEF Used
  <2>. QED  BY <2>4, <2>5, <2>6, <2>7, <2>8 DEF Refs
<1>. QED  BY <1>5, <1>6 DEF RunReport, RunWrite


(* Every step keeps the account of who refers to an object.                   *)
LEMMA RefsKept == BridgeTypeOK /\ CallShape /\ Busy /\ Refs /\ BridgeStep => Refs'
<1>. SUFFICES ASSUME BridgeTypeOK, CallShape, Busy, Refs, BridgeStep, UNCHANGED writeTask
              PROVE  Refs'
  BY DEF BridgeStep
<1>1. CASE \/ Gateway \/ WriteAck \/ WriteNote \/ WriteFail \/ SnapBack \/ RestoreSnapshot
           \/ \E c \in Callers, i \in Ieee : AddStart(c, i)
           \/ \E c \in Callers : Fetch(c) \/ Record(c) \/ Forget(c)
           \/ \E i \in Ieee : RestoreNext(i)
  BY Zenon, <1>1, EasySteps
<1>2. CASE \E c \in Callers : Build(c)
  BY <1>2, BuildRefs
<1>3. CASE \E c \in Callers : Commit(c)
  BY <1>3, CommitRefs
<1>4. CASE \E c \in Callers, i \in Ieee : Unexpose(c, i)
  BY <1>4, UnexposeRefs
<1>5. CASE \E i \in Ieee, v \in Vals, force \in BOOLEAN : AttrUpdate(i, v, force)
  BY <1>5, ReportRefs
<1>6. CASE \E d \in Sdk, v \in Vals : CloudWrite(d, v)
  BY <1>6, WriteRefs
<1>7. CASE \E c \in Callers : QueueTeardown(c)
  BY <1>7, TeardownRefs
<1>8. CASE RunReport \/ RunTeardown \/ RunWrite
  BY <1>8, TakenRefs
<1>9. CASE Reboot
  <2>1. /\ \A s \in Slots : reg'[s].dev = Nil
        /\ \A c \in Callers : call'[c].pc = "idle"
        /\ DOMAIN queue' = {} /\ worker'.dev = Nil
    BY <1>9 DEF Reboot, Empty, Idle, Resting
  <2>. QED  BY <2>1 DEF Refs, Entries, Held, Built, Going, Used, Has
<1>. QED
  BY Zenon, <1>1, <1>2, <1>3, <1>4, <1>5, <1>6, <1>7, <1>8, <1>9 DEF BridgeStep

BridgeInv == BridgeTypeOK /\ CallShape /\ Busy /\ Refs

(* Initially there are no objects.                                            *)
LEMMA BridgeStarts == Init => BridgeInv
<1>. SUFFICES ASSUME Init PROVE BridgeInv
  OBVIOUS
<1>1. BridgeTypeOK
  <2>1. queue \in Seq(Items) /\ Len(queue) <= QueueCap
    BY RmkAssumption, EmptySeq DEF Init
  <2>2. reg \in [Slots -> Entry] /\ worker \in Work /\ call \in [Callers -> Place]
    BY FirstPlaces DEF Init, Entry, Empty, Work, Resting
  <2>. QED  BY <2>1, <2>2, RmkAssumption DEF Init, BridgeTypeOK
<1>2. CallShape /\ Busy
  BY FirstPlaces DEF Init, CallShape, Busy, Resting
<1>3. Refs
  <2>1. /\ \A s \in Slots : reg[s].dev = Nil
        /\ \A c \in Callers : call[c].pc = "idle"
        /\ DOMAIN queue = {} /\ worker.dev = Nil
    BY DEF Init, Empty, Idle, Resting
  <2>. QED  BY <2>1 DEF Refs, Entries, Held, Built, Going, Used, Has
<1>. QED  BY <1>1, <1>2, <1>3 DEF BridgeInv

(* Every step keeps the invariant of the bridge.                              *)
LEMMA BridgeKept == BridgeInv /\ [Next]_vars => BridgeInv'
<1>. SUFFICES ASSUME BridgeInv, [Next]_vars PROVE BridgeInv'
  OBVIOUS
<1>1. CASE Next
  BY <1>1, Steps, BridgeTypes, BusyStays, RefsKept DEF BridgeInv
<1>2. CASE UNCHANGED vars
  BY <1>2 DEF vars, bridgeVars, BridgeInv, BridgeTypeOK, CallShape, Busy, Refs, Entries, Held,
              Built, Going, Used
<1>. QED  BY <1>1, <1>2

(* The invariant of the bridge: the types, and who refers to an object. *)
THEOREM BridgeInvariant == Spec => []BridgeInv
  BY BridgeStarts, BridgeKept, PTL DEF Spec

(* No report of the queue and no registry entry refers to an object that    *)
(* the SDK has freed, for any number of callers that expose and take off    *)
(* devices at once (rmk_bridge_unexpose_device, rmk_bridge_expose_device,   *)
(* rmk_bridge_on_attr_update); nor does a write in progress, if the SDK     *)
(* runs writes on the task of its queue.  On a task of their own it may:    *)
(* that window the source accepts (api_device_rainmaker_remove).            *)
THEOREM NoObjectDangles == Spec => []NoDangling
<1>1. BridgeInv => NoDangling
  BY DEF BridgeInv, Refs, Entries, Used, NoDangling
<1>. QED  BY <1>1, BridgeInvariant, PTL


(***************************************************************************)
(* The agent's life.                                                       *)
(***************************************************************************)
GwStep == GwNext \/ (Input /\ UNCHANGED gwOnly) \/ UNCHANGED gwVars \/ GwReboot

(* A step of the whole, seen by the gateway.                                  *)
LEMMA GwSteps == [Next]_vars => GwStep
  BY Zenon DEF Next, Gateway, Reboot, GwStep, vars

(* Every step keeps the types of the gateway.                                 *)
LEMMA GwTypes == GwTypeOK /\ GwStep => GwTypeOK'
<1>. SUFFICES ASSUME GwTypeOK, GwStep PROVE GwTypeOK'
  OBVIOUS
<1>1. Input => inputs' \in 0..MaxInputs
  BY GwAssumption DEF GwTypeOK, Input
<1>2. CASE AgentStarted
  BY <1>2 DEF AgentStarted, GwTypeOK, GwStates
<1>3. CASE ClaimEnds
  BY <1>1, <1>3 DEF ClaimEnds, GwEvent, GwTypeOK, GwStates
<1>4. CASE Connected
  BY <1>1, <1>4 DEF Connected, GwEvent, BecomeReady, GwTypeOK, GwStates
<1>5. CASE Disconnected
  BY <1>1, <1>5 DEF Disconnected, GwEvent, GwTypeOK, GwStates
<1>6. CASE MappingDone
  BY <1>1, <1>6 DEF MappingDone, GwEvent, BecomeReady, GwTypeOK, GwStates
<1>7. CASE MappingReset
  BY <1>1, <1>7 DEF MappingReset, GwEvent, GwTypeOK, GwStates
<1>8. CASE \E mode \in Uplinks : UplinkSet(mode)
  BY <1>1, <1>8 DEF UplinkSet, InitAgent, GwTypeOK, GwStates
<1>9. CASE GwReboot
  BY <1>9 DEF GwReboot, InitAgent, GwTypeOK, GwStates
<1>10. CASE Input /\ UNCHANGED gwOnly
  BY <1>1, <1>10 DEF gwOnly, GwTypeOK
<1>11. CASE UNCHANGED gwVars
  BY <1>11 DEF gwVars, GwTypeOK
<1>. QED
  BY Zenon, <1>2, <1>3, <1>4, <1>5, <1>6, <1>7, <1>8, <1>9, <1>10, <1>11 DEF GwStep, GwNext

(* While the agent is starting it has sent nothing; a connection is claimed *)
(* and is either served or waits for its user.                             *)
GwInv ==
    /\ starting => gw = "disabled"
    /\ gw = "unassociated" => ~mapped
    /\ gw = "ready" => up
    /\ up => claimed /\ gw \in {"ready", "unassociated"}

(* When no event comes before the start of the agent has been noted, every    *)
(* step keeps the gateway serving.                                            *)
LEMMA GwKept == ~EarlyEvents /\ GwTypeOK /\ GwInv /\ GwStep => GwInv'
<1>. SUFFICES ASSUME ~EarlyEvents, GwTypeOK, GwInv, GwStep PROVE GwInv'
  OBVIOUS
<1>1. CASE AgentStarted
  BY <1>1 DEF AgentStarted, GwInv
<1>2. CASE ClaimEnds
  BY <1>2 DEF ClaimEnds, GwEvent, Runs, GwInv
<1>3. CASE Connected
  <2>1. gw \notin {"disabled", "claim_failed"} /\ claimed' /\ up' /\ ~starting' /\ ~up
    BY <1>3 DEF Connected, GwEvent, Runs, GwInv
  <2>2. \/ gw' = "ready"
        \/ gw' = "unassociated" /\ ~mapped
        \/ gw' = gw /\ gw \in {"unassociated", "ready"}
    BY <1>3, <2>1 DEF Connected, BecomeReady, GwTypeOK, GwStates
  <2>3. UNCHANGED mapped
    BY <1>3 DEF Connected
  <2>. QED  BY <2>1, <2>2, <2>3 DEF GwInv
<1>4. CASE Disconnected
  BY <1>4 DEF Disconnected, GwEvent, GwInv
<1>5. CASE MappingDone
  BY <1>5 DEF MappingDone, GwEvent, BecomeReady, GwInv
<1>6. CASE MappingReset
  BY <1>6 DEF MappingReset, GwEvent, GwInv
<1>7. CASE \E mode \in Uplinks : UplinkSet(mode)
  BY <1>7 DEF UplinkSet, InitAgent, GwInv
<1>8. CASE GwReboot
  BY <1>8 DEF GwReboot, InitAgent, GwInv
<1>9. CASE (Input /\ UNCHANGED gwOnly) \/ UNCHANGED gwVars
  BY <1>9 DEF gwOnly, gwVars, GwInv
<1>. QED
  BY Zenon, <1>1, <1>2, <1>3, <1>4, <1>5, <1>6, <1>7, <1>8, <1>9 DEF GwStep, GwNext

(* The types of the whole bridge. *)
THEOREM RainmakerTypes == Spec => []TypeOK
<1>1. Init => GwTypeOK
  <2>. SUFFICES ASSUME GwInit PROVE GwTypeOK
    BY DEF Init
  <2>1. claimed \in BOOLEAN /\ up \in BOOLEAN /\ attached \in BOOLEAN
    BY DEF GwInit
  <2>2. mapped \in BOOLEAN
    BY Zenon, <2>1 DEF GwInit
  <2>3. starting \in BOOLEAN /\ mqtt \in BOOLEAN
    BY DEF GwInit
  <2>4. gw \in GwStates /\ uplink \in Uplinks /\ inputs \in 0..MaxInputs
    BY GwAssumption DEF GwInit, GwStates, Uplinks
  <2>. QED  BY Zenon, <2>1, <2>2, <2>3, <2>4 DEF GwTypeOK
<1>2. GwTypeOK /\ [Next]_vars => GwTypeOK'
  BY GwSteps, GwTypes
<1>3. BridgeInv /\ GwTypeOK /\ writeTask \in WriteTasks => TypeOK
  BY DEF BridgeInv, TypeOK
<1>4. Init => writeTask \in WriteTasks
  BY DEF Init
<1>5. writeTask \in WriteTasks /\ [Next]_vars => (writeTask \in WriteTasks)'
  BY DEF Next, vars, bridgeVars
<1>. QED  BY <1>1, <1>2, <1>3, <1>4, <1>5, BridgeInvariant, PTL DEF Spec

(* A connected node that is mapped to a user serves, whatever the order of  *)
(* claim, connection, mapping and reconnection - as long as the agent's     *)
(* events come after its start has returned (rmk_event_handler,             *)
(* rainmaker_gw_init).                                                      *)
THEOREM ConnectedServes == ~EarlyEvents => (Spec => []Serving)
<1>. SUFFICES ASSUME ~EarlyEvents PROVE Spec => []Serving
  OBVIOUS
<1>1. Init => GwInv
  BY DEF Init, GwInit, GwInv
<1>2. TypeOK /\ GwInv /\ [Next]_vars => GwInv'
  BY GwSteps, GwKept DEF TypeOK
<1>3. GwInv => Serving
  BY DEF GwInv, Serving
<1>. QED  BY <1>1, <1>2, <1>3, RainmakerTypes, PTL DEF Spec


(***************************************************************************)
(* The throttle key.  What the bridge noted for an entry is what the last   *)
(* report of the queue says, or else what the cloud shows, or else what the *)
(* write in progress is about to show or to note.                           *)
(***************************************************************************)
IsReport(q, k, d) == q[k].kind = "report" /\ q[k].dev = d
NoReport(q, d) == \A k \in DOMAIN q : ~IsReport(q, k, d)
LastReport(q, k, d) == IsReport(q, k, d) /\ \A j \in DOMAIN q : IsReport(q, j, d) => j <= k

(* The reports of p are those of q, as far as the last one of each object goes. *)
SameReports(q, p) ==
    \A d \in Sdk :
        /\ NoReport(p, d) => NoReport(q, d)
        /\ \A k \in DOMAIN p : LastReport(p, k, d) =>
             \E j \in DOMAIN q : LastReport(q, j, d) /\ p[k] = q[j]

(* A report of d becomes the last one; any other item changes nothing for d. *)
LEMMA PostedOrder ==
  ASSUME NEW q \in Seq(Items), NEW x \in Items, NEW d \in Sdk
  PROVE  /\ x.kind = "report" /\ x.dev = d =>
              /\ ~NoReport(Append(q, x), d)
              /\ \A k \in DOMAIN Append(q, x) :
                   LastReport(Append(q, x), k, d) => Append(q, x)[k] = x
         /\ ~(x.kind = "report" /\ x.dev = d) =>
              /\ NoReport(Append(q, x), d) => NoReport(q, d)
              /\ \A k \in DOMAIN Append(q, x) : LastReport(Append(q, x), k, d) =>
                   k \in DOMAIN q /\ LastReport(q, k, d) /\ Append(q, x)[k] = q[k]
<1> DEFINE a == Append(q, x)
<1> DEFINE n == Len(q) + 1
<1>1. /\ DOMAIN a = DOMAIN q \cup {n} /\ a[n] = x /\ n \in Nat
      /\ \A k \in DOMAIN q : k \in Nat /\ k < n /\ a[k] = q[k]
  BY Posted
<1> HIDE DEF a, n
<1>2. ASSUME x.kind = "report", x.dev = d
      PROVE  ~NoReport(a, d) /\ \A k \in DOMAIN a : LastReport(a, k, d) => a[k] = x
  <2>1. n \in DOMAIN a /\ IsReport(a, n, d)
    BY <1>1, <1>2 DEF IsReport
  <2>2. \A k \in DOMAIN a : LastReport(a, k, d) => a[k] = x
    <3>. SUFFICES ASSUME NEW k \in DOMAIN a, LastReport(a, k, d) PROVE a[k] = x
      OBVIOUS
    <3>1. n <= k
      BY <2>1 DEF LastReport
    <3>. QED  BY <1>1, <3>1
  <2>. QED  BY <2>1, <2>2 DEF NoReport
<1>3. ASSUME ~(x.kind = "report" /\ x.dev = d)
      PROVE  /\ NoReport(a, d) => NoReport(q, d)
             /\ \A k \in DOMAIN a : LastReport(a, k, d) =>
                  k \in DOMAIN q /\ LastReport(q, k, d) /\ a[k] = q[k]
  <2>1. \A k \in DOMAIN a : IsReport(a, k, d) <=> k \in DOMAIN q /\ IsReport(q, k, d)
    <3>1. ~IsReport(a, n, d) /\ n \notin DOMAIN q
      BY <1>1, <1>3 DEF IsReport
    <3>. QED  BY <1>1, <3>1 DEF IsReport
  <2>2. NoReport(a, d) => NoReport(q, d)
    BY <1>1, <2>1 DEF NoReport
  <2>3. \A k \in DOMAIN a : LastReport(a, k, d) =>
          k \in DOMAIN q /\ LastReport(q, k, d) /\ a[k] = q[k]
    BY <1>1, <2>1 DEF LastReport
  <2>. QED  BY <2>2, <2>3
<1>. QED  BY <1>2, <1>3 DEF a

(* Taking the first item: the last report stays the last, unless it was the *)
(* first.                                                                  *)
LEMMA TakenOrder ==
  ASSUME NEW q \in Seq(Items), q # <<>>, NEW d \in Sdk
  PROVE  /\ \A k \in DOMAIN Tail(q) : LastReport(Tail(q), k, d) =>
              \E j \in DOMAIN q : LastReport(q, j, d) /\ Tail(q)[k] = q[j]
         /\ NoReport(Tail(q), d) => NoReport(q, d) \/ LastReport(q, 1, d)
<1> DEFINE t == Tail(q)
<1>1. /\ 1 \in DOMAIN q /\ DOMAIN q \subseteq Nat \ {0}
      /\ \A k \in DOMAIN t : k \in Nat \ {0} /\ k + 1 \in DOMAIN q /\ t[k] = q[k + 1]
      /\ \A k \in DOMAIN q : k # 1 => k - 1 \in DOMAIN t /\ t[k - 1] = q[k]
  BY Taken
<1> HIDE DEF t
<1>2. ASSUME NEW k \in DOMAIN t, LastReport(t, k, d)
      PROVE  \E j \in DOMAIN q : LastReport(q, j, d) /\ t[k] = q[j]
  <2> DEFINE j == k + 1
  <2>1. j \in DOMAIN q /\ t[k] = q[j] /\ k \in Nat /\ j = k + 1
    BY <1>1
  <2>2. \A i \in DOMAIN q : IsReport(q, i, d) => i <= j
    <3>. SUFFICES ASSUME NEW i \in DOMAIN q, IsReport(q, i, d), i # 1 PROVE i <= j
      BY <1>1, <2>1
    <3> DEFINE h == i - 1
    <3>1. h \in DOMAIN t /\ t[h] = q[i] /\ i \in Nat /\ h = i - 1
      BY <1>1
    <3> HIDE DEF h
    <3>2. h <= k
      BY <1>2, <3>1 DEF LastReport, IsReport
    <3>. QED  BY <2>1, <3>1, <3>2
  <2> HIDE DEF j
  <2>3. LastReport(q, j, d)
    BY <1>2, <2>1, <2>2 DEF LastReport, IsReport
  <2>. QED  BY <2>1, <2>3
<1>3. ASSUME NoReport(t, d) PROVE NoReport(q, d) \/ LastReport(q, 1, d)
  <2>1. \A i \in DOMAIN q : i # 1 => ~IsReport(q, i, d)
    BY <1>1, <1>3 DEF NoReport, IsReport
  <2>. QED  BY <1>1, <2>1 DEF NoReport, LastReport
<1>. QED  BY <1>2, <1>3 DEF t

(* Anything but a report, posted or taken, leaves the reports as they are. *)
LEMMA OtherItems ==
  ASSUME NEW q \in Seq(Items)
  PROVE  /\ SameReports(q, q)
         /\ \A x \in Items : x.kind # "report" => SameReports(q, Append(q, x))
         /\ q # <<>> /\ Head(q).kind # "report" => SameReports(q, Tail(q))
<1>1. SameReports(q, q)
  BY DEF SameReports
<1>2. ASSUME NEW x \in Items, x.kind # "report" PROVE SameReports(q, Append(q, x))
  BY <1>2, PostedOrder DEF SameReports
<1>3. ASSUME q # <<>>, Head(q).kind # "report" PROVE SameReports(q, Tail(q))
  <2>1. \A d \in Sdk : ~LastReport(q, 1, d)
    BY <1>3, Taken DEF LastReport, IsReport
  <2>. QED  BY <1>3, <2>1, TakenOrder DEF SameReports
<1>. QED  BY <1>1, <1>2, <1>3


Shown ==
    \A s \in Slots :
        reg[s].dev # Nil /\ reg[s].last # Nil /\ reg[s].dev \notin crossed =>
            /\ \A k \in DOMAIN queue :
                 LastReport(queue, k, reg[s].dev) => queue[k].val = reg[s].last
            /\ NoReport(queue, reg[s].dev) =>
                 /\ worker.dev = reg[s].dev /\ worker.pc = "snap" => worker.val = reg[s].last
                 /\ (worker.dev = reg[s].dev => worker.pc = "write") /\ reg[s].dev \notin lost =>
                      cloud[reg[s].dev] = reg[s].last

(* A write outlives its object only as one that is counted as crossed. *)
InHand ==
    /\ worker.pc = "note" /\ worker.dev \notin crossed \cup lost /\ NoReport(queue, worker.dev) =>
         cloud[worker.dev] = worker.val
    /\ worker.dev # Nil /\ worker.dev \notin live => worker.dev \in crossed

Throttle == Shown /\ InHand

(* What a step does not touch of an object. *)
Keeps(d) ==
    /\ cloud'[d] = cloud[d]
    /\ d \in crossed => d \in crossed'
    /\ d \in lost => d \in lost'

(* What is known of the objects by their types. *)
LEMMA Objects ==
  ASSUME BridgeInv
  PROVE  /\ \A s \in Slots : reg[s].dev \in Sdk \cup {Nil}
         /\ worker.dev \in Sdk \cup {Nil} /\ (worker.pc # "idle" => worker.dev \in Sdk)
         /\ \A s, t \in Slots : reg[s].dev # Nil /\ reg[t].dev = reg[s].dev => s = t
         /\ cloud \in [Sdk -> Vals \cup {Nil}] /\ queue \in Seq(Items) /\ Nil \notin Sdk
         /\ reg \in [Slots -> Entry] /\ live \subseteq Sdk
  BY RmkAssumption DEF BridgeInv, BridgeTypeOK, Entry, Work, Busy, Refs, Entries

(* A step that drops entries, makes them without a last value, or leaves them *)
(* and their objects, and lets a write go on.                                 *)
LEMMA Undisturbed ==
  ASSUME BridgeInv, Throttle, UNCHANGED worker, SameReports(queue, queue'),
         \A s \in Slots :
            \/ reg'[s].dev = Nil \/ reg'[s].last = Nil
            \/ reg'[s] = reg[s] /\ (reg[s].dev # Nil => Keeps(reg[s].dev)),
         worker.dev # Nil => \/ worker.dev \in crossed'
                             \/ Keeps(worker.dev) /\ (worker.dev \in live => worker.dev \in live')
  PROVE  Throttle'
<1>1. Shown'
  <2>. SUFFICES ASSUME NEW s \in Slots, reg'[s].dev # Nil, reg'[s].last # Nil,
                       reg'[s].dev \notin crossed'
                PROVE  /\ \A k \in DOMAIN queue' :
                            LastReport(queue', k, reg[s].dev) => queue'[k].val = reg[s].last
                       /\ NoReport(queue', reg[s].dev) =>
                            /\ worker.dev = reg[s].dev /\ worker.pc = "snap" =>
                                 worker.val = reg[s].last
                            /\ (worker.dev = reg[s].dev => worker.pc = "write")
                               /\ reg[s].dev \notin lost' => cloud'[reg[s].dev] = reg[s].last
                       /\ reg'[s] = reg[s]
    BY DEF Shown
  <2>1. reg'[s] = reg[s] /\ Keeps(reg[s].dev)
    OBVIOUS
  <2>2. reg[s].dev \in Sdk /\ reg[s].last # Nil /\ reg[s].dev \notin crossed
    BY <2>1, Objects DEF Keeps
  <2>3. /\ NoReport(queue', reg[s].dev) => NoReport(queue, reg[s].dev)
        /\ \A k \in DOMAIN queue' : LastReport(queue', k, reg[s].dev) =>
             \E j \in DOMAIN queue : LastReport(queue, j, reg[s].dev) /\ queue'[k] = queue[j]
    BY <2>2 DEF SameReports
  <2>. QED  BY <2>1, <2>2, <2>3 DEF Throttle, Shown, Keeps
<1>2. InHand'
  <2>1. ASSUME worker.pc = "note", worker.dev \notin crossed' \cup lost', NoReport(queue', worker.dev)
        PROVE  cloud'[worker.dev] = worker.val
    <3>1. worker.dev \in Sdk /\ worker.dev # Nil
      BY <2>1, Objects
    <3>2. NoReport(queue, worker.dev) /\ Keeps(worker.dev)
      BY <2>1, <3>1 DEF SameReports
    <3>. QED  BY <2>1, <3>2 DEF Throttle, InHand, Keeps
  <2>2. ASSUME worker.dev # Nil, worker.dev \notin live' PROVE worker.dev \in crossed'
    BY <2>2 DEF Throttle, InHand, Keeps
  <2>. QED  BY <2>1, <2>2 DEF InHand
<1>. QED  BY <1>1, <1>2 DEF Throttle

(* What callers do to the registry, the gateway and the end of an object keep *)
(* the account of the noted values.                                           *)
LEMMA CallersThrottle ==
  ASSUME BridgeInv, Throttle,
         \/ Gateway \/ RestoreSnapshot
         \/ \E c \in Callers, i \in Ieee : AddStart(c, i) \/ Unexpose(c, i)
         \/ \E c \in Callers : Fetch(c) \/ Build(c) \/ Commit(c) \/ Record(c) \/ Forget(c)
         \/ \E c \in Callers : QueueTeardown(c)
         \/ \E i \in Ieee : RestoreNext(i)
         \/ RunTeardown
  PROVE  Throttle'
<1>a. /\ reg \in [Slots -> Entry] /\ call \in [Callers -> Place] /\ live \subseteq Sdk
      /\ cloud \in [Sdk -> Vals \cup {Nil}] /\ queue \in Seq(Items)
      /\ \A s \in Slots : reg[s].dev # Nil => reg[s].dev \in live
  BY Objects DEF BridgeInv, BridgeTypeOK, Refs, Entries
<1>b. SameReports(queue, queue)
  BY <1>a, OtherItems
<1>1. CASE \/ Gateway \/ RestoreSnapshot
           \/ \E c \in Callers, i \in Ieee : AddStart(c, i)
           \/ \E c \in Callers : Record(c) \/ Forget(c)
           \/ \E i \in Ieee : RestoreNext(i)
  <2>1. UNCHANGED <<reg, cloud, queue, worker, crossed, lost, live>>
    BY <1>1 DEF Gateway, RestoreSnapshot, AddStart, Record, Forget, RestoreNext
  <2>. QED  BY <1>b, <2>1, Undisturbed DEF Keeps
<1>2. CASE \E c \in Callers, i \in Ieee : Unexpose(c, i)
  <2>1. PICK c \in Callers, i \in Ieee : Unexpose(c, i)
    BY <1>2
  <2>2. UNCHANGED <<cloud, queue, worker, crossed, lost, live>>
    BY <2>1 DEF Unexpose
  <2>3. reg' = reg \/ \E s \in Slots : reg' = [reg EXCEPT ![s] = Empty]
    BY <2>1 DEF Unexpose
  <2>4. \A s \in Slots : reg'[s].dev = Nil \/ reg'[s] = reg[s]
    BY <1>a, <2>3 DEF Empty
  <2>. QED  BY <1>b, <2>2, <2>4, Undisturbed DEF Keeps
<1>3. CASE \E c \in Callers : Fetch(c)
  <2>1. PICK c \in Callers : Fetch(c)
    BY <1>3
  <2>2. UNCHANGED <<cloud, queue, worker, crossed, lost, live>>
    BY <2>1 DEF Fetch
  <2>3. reg' = reg \/ \E s \in Slots : reg' = [reg EXCEPT ![s] = [Empty EXCEPT !.ieee = call[c].ieee]]
    BY <2>1 DEF Fetch
  <2>4. \A s \in Slots : reg'[s].dev = Nil \/ reg'[s] = reg[s]
    BY <1>a, <2>3 DEF Empty
  <2>. QED  BY <1>b, <2>2, <2>4, Undisturbed DEF Keeps
<1>4. CASE \E c \in Callers : Build(c)
  <2>1. PICK c \in Callers : Build(c)
    BY <1>4
  <2>2. UNCHANGED <<queue, worker, crossed, lost>>
    BY <2>1 DEF Build
  <2>3. \/ /\ UNCHANGED <<cloud, live>>
           /\ reg' = reg \/ reg' = [reg EXCEPT ![call[c].slot] = Empty]
        \/ reg' = reg /\ \E d \in Sdk \ live : /\ cloud' = [cloud EXCEPT ![d] = Nil]
                                               /\ live' = live \cup {d}
    BY <2>1 DEF Build
  <2>4. CASE /\ UNCHANGED <<cloud, live>>
             /\ reg' = reg \/ reg' = [reg EXCEPT ![call[c].slot] = Empty]
    <3>1. \A s \in Slots : reg'[s].dev = Nil \/ reg'[s] = reg[s]
      BY <1>a, <2>4 DEF Empty
    <3>. QED  BY <1>b, <2>2, <2>4, <3>1, Undisturbed DEF Keeps
  <2>5. CASE reg' = reg /\ \E d \in Sdk \ live : /\ cloud' = [cloud EXCEPT ![d] = Nil]
                                                 /\ live' = live \cup {d}
    <3>1. PICK d \in Sdk \ live : cloud' = [cloud EXCEPT ![d] = Nil] /\ live' = live \cup {d}
      BY <2>5
    <3>2. \A s \in Slots : reg[s].dev # Nil => Keeps(reg[s].dev)
      BY <1>a, <2>2, <3>1 DEF Keeps
    <3>3. worker.dev # Nil /\ worker.dev = d => worker.dev \in crossed'
      BY <2>2 DEF Throttle, InHand
    <3>4. worker.dev # Nil /\ worker.dev # d => Keeps(worker.dev)
      BY <1>a, <2>2, <3>1, Objects DEF Keeps
    <3>. QED  BY <1>b, <2>2, <2>5, <3>1, <3>2, <3>3, <3>4, Undisturbed
  <2>. QED  BY <2>3, <2>4, <2>5
<1>f. ASSUME NEW d \in Sdk, Free(d), UNCHANGED <<reg, cloud, worker>>,
             \A s \in Slots : reg[s].dev # d, SameReports(queue, queue')
      PROVE  Throttle'
  <2>1. \A e : e # d => Keeps(e) /\ (e \in live => e \in live')
    BY <1>f DEF Free, Keeps
  <2>2. worker.dev = d => worker.dev \in crossed'
    BY <1>f DEF Free
  <2>. QED  BY <1>f, <2>1, <2>2, Undisturbed
<1>5. CASE \E c \in Callers : Commit(c)
  <2>1. PICK c \in Callers : Commit(c)
    BY <1>5
  <2>2. UNCHANGED <<cloud, queue, worker>>
    BY <2>1 DEF Commit
  <2> DEFINE r == [ieee |-> call[c].ieee, dev |-> call[c].dev, last |-> Nil]
  <2>3. CASE reg[call[c].slot].ieee = call[c].ieee
    <3>1. UNCHANGED <<crossed, lost, live>> /\ reg' = [reg EXCEPT ![call[c].slot] = r]
      BY <2>1, <2>3 DEF Commit
    <3>2. r.last = Nil
      OBVIOUS
    <3> HIDE DEF r
    <3>3. \A s \in Slots : reg'[s] = reg[s] \/ reg'[s].last = Nil
      BY <1>a, <3>1, <3>2
    <3>. QED  BY <1>b, <2>2, <3>1, <3>3, Undisturbed DEF Keeps
  <2>4. CASE reg[call[c].slot].ieee # call[c].ieee
    <3>1. Free(call[c].dev) /\ reg' = reg
      BY <2>1, <2>4 DEF Commit
    <3>2. call[c].dev \in Sdk /\ \A s \in Slots : reg[s].dev # call[c].dev
      BY <1>a, <2>1 DEF Commit, BridgeInv, Refs, Held, Has
    <3>. QED  BY <1>b, <1>f, <2>2, <3>1, <3>2
  <2>. QED  BY <2>3, <2>4
<1>6. CASE \E c \in Callers : QueueTeardown(c)
  <2>1. PICK c \in Callers : QueueTeardown(c)
    BY <1>6
  <2> DEFINE x == [kind |-> "teardown", dev |-> call[c].dev, val |-> Nil]
  <2>2. /\ UNCHANGED <<reg, cloud, worker, crossed, lost, live>>
        /\ queue' = queue \/ queue' = Append(queue, x)
    BY <2>1 DEF QueueTeardown
  <2>3. call[c].dev \in Sdk
    BY <2>1 DEF QueueTeardown, BridgeInv, CallShape, Shaped
  <2>4. x \in Items /\ x.kind # "report"
    BY <2>3 DEF Items
  <2> HIDE DEF x
  <2>5. SameReports(queue, queue')
    BY <1>a, <1>b, <2>2, <2>4, OtherItems
  <2>. QED  BY <2>2, <2>5, Undisturbed DEF Keeps
<1>7. CASE RunTeardown
  <2>1. /\ UNCHANGED <<reg, cloud, worker>> /\ queue # <<>> /\ queue' = Tail(queue)
        /\ Head(queue).kind = "teardown" /\ Free(Head(queue).dev)
    BY <1>7 DEF RunTeardown, QueueRuns
  <2>2. 1 \in DOMAIN queue /\ queue[1] = Head(queue) /\ Head(queue).dev \in Sdk
    BY <1>a, <2>1, Taken, ItemsAre
  <2>3. \A s \in Slots : reg[s].dev # Head(queue).dev
    BY <2>1, <2>2 DEF BridgeInv, Refs, Going
  <2>4. SameReports(queue, queue')
    BY <1>a, <2>1, OtherItems
  <2>. QED  BY <1>f, <2>1, <2>2, <2>3, <2>4
<1>. QED
  BY Zenon, <1>1, <1>2, <1>3, <1>4, <1>5, <1>6, <1>7

(* A report: the noted value is that of the last report of the queue. *)
LEMMA ReportThrottle ==
  ASSUME BridgeInv, Throttle,
         NEW i \in Ieee, NEW v \in Vals, NEW force \in BOOLEAN, AttrUpdate(i, v, force)
  PROVE  Throttle'
<1>1. PICK s \in Slots : reg[s].dev # Nil /\ Queued(s, v)
  BY DEF AttrUpdate, EntryOf
<1> DEFINE d == reg[s].dev
<1> DEFINE x == [kind |-> "report", dev |-> d, val |-> v]
<1>2. /\ UNCHANGED <<worker, cloud, lost, live>> /\ queue' = Append(queue, x)
      /\ crossed' = crossed \ {d}
  BY <1>1 DEF AttrUpdate, Queued
<1>3. d \in Sdk /\ d \in live /\ queue \in Seq(Items)
  BY <1>1, Objects DEF BridgeInv, Refs, Entries
<1>4. x \in Items /\ x.kind = "report" /\ x.dev = d /\ x.val = v
  BY <1>3 DEF Items
<1>5. /\ reg'[s].dev = d /\ reg'[s].last = v
      /\ \A t \in Slots : t # s => reg'[t] = reg[t] /\ reg[t].dev # d
  <2>1. reg' = [reg EXCEPT ![s].last = v]
    BY <1>1 DEF Queued
  <2>. QED  BY <1>1, <2>1, Objects DEF Entry
<1>6. \A t \in Slots : reg[t].dev \in Sdk \cup {Nil}
  BY Objects
<1> HIDE DEF x, d
<1>7. Shown'
  <2>. SUFFICES ASSUME NEW t \in Slots, reg'[t].dev # Nil, reg'[t].last # Nil,
                       reg'[t].dev \notin crossed'
                PROVE  /\ \A k \in DOMAIN queue' :
                            LastReport(queue', k, reg'[t].dev) => queue'[k].val = reg'[t].last
                       /\ NoReport(queue', reg'[t].dev) =>
                            /\ worker.dev = reg'[t].dev /\ worker.pc = "snap" =>
                                 worker.val = reg'[t].last
                            /\ (worker.dev = reg'[t].dev => worker.pc = "write")
                               /\ reg'[t].dev \notin lost => cloud[reg'[t].dev] = reg'[t].last
    BY <1>2 DEF Shown
  <2>1. CASE t = s
    BY <1>2, <1>3, <1>4, <1>5, <2>1, PostedOrder
  <2>2. CASE t # s
    <3>1. reg'[t] = reg[t] /\ reg[t].dev # d /\ reg[t].dev \notin crossed /\ reg[t].dev \in Sdk
      BY <1>2, <1>5, <1>6, <2>2
    <3>2. /\ NoReport(queue', reg[t].dev) => NoReport(queue, reg[t].dev)
          /\ \A k \in DOMAIN queue' : LastReport(queue', k, reg[t].dev) =>
               k \in DOMAIN queue /\ LastReport(queue, k, reg[t].dev) /\ queue'[k] = queue[k]
      BY <1>2, <1>3, <1>4, <3>1, PostedOrder
    <3>. QED  BY <3>1, <3>2 DEF Throttle, Shown
  <2>. QED  BY <2>1, <2>2
<1>8. InHand'
  <2>1. ASSUME worker.pc = "note", worker.dev \notin crossed' \cup lost, NoReport(queue', worker.dev)
        PROVE  cloud[worker.dev] = worker.val
    <3>1. worker.dev \in Sdk
      BY <2>1, Objects
    <3>2. worker.dev # d
      BY <1>2, <1>3, <1>4, <2>1, PostedOrder
    <3>3. NoReport(queue, worker.dev) /\ worker.dev \notin crossed
      BY <1>2, <1>3, <1>4, <2>1, <3>1, <3>2, PostedOrder
    <3>. QED  BY <2>1, <3>3 DEF Throttle, InHand
  <2>2. worker.dev # Nil /\ worker.dev \notin live => worker.dev \in crossed'
    BY <1>2, <1>3 DEF Throttle, InHand
  <2>. QED  BY <1>2, <2>1, <2>2 DEF InHand
<1>. QED  BY <1>7, <1>8 DEF Throttle

(* The start of a write finds what is noted shown, or on its way. *)
LEMMA StartThrottle ==
  ASSUME BridgeInv, Throttle, UNCHANGED <<reg, cloud, live, crossed, lost>>,
         NEW d \in Sdk, NEW v \in Vals, StartWrite(d, v), worker.pc = "idle",
         SameReports(queue, queue')
  PROVE  Throttle'
<1>1. CASE worker' = worker
  BY <1>1, Undisturbed DEF Keeps
<1>2. CASE worker'.dev = d /\ worker'.pc = "write" /\ d \in live
  <2>1. worker.dev = Nil
    BY DEF BridgeInv, Busy
  <2>2. Shown'
    <3>. SUFFICES ASSUME NEW t \in Slots, reg[t].dev # Nil, reg[t].last # Nil,
                         reg[t].dev \notin crossed
                  PROVE  /\ \A k \in DOMAIN queue' :
                              LastReport(queue', k, reg[t].dev) => queue'[k].val = reg[t].last
                         /\ NoReport(queue', reg[t].dev) /\ reg[t].dev \notin lost =>
                              cloud[reg[t].dev] = reg[t].last
      BY <1>2 DEF Shown
    <3>1. reg[t].dev \in Sdk
      BY Objects
    <3>2. /\ NoReport(queue', reg[t].dev) => NoReport(queue, reg[t].dev)
          /\ \A k \in DOMAIN queue' : LastReport(queue', k, reg[t].dev) =>
               \E j \in DOMAIN queue : LastReport(queue, j, reg[t].dev) /\ queue'[k] = queue[j]
      BY <3>1 DEF SameReports
    <3>. QED  BY <2>1, <3>2 DEF Throttle, Shown
  <2>3. InHand'
    BY <1>2 DEF InHand
  <2>. QED  BY <2>2, <2>3 DEF Throttle
<1>. QED
  BY <1>1, <1>2, Started DEF BridgeInv

(* A write that comes from the cloud, or from the queue. *)
LEMMA WriteThrottle ==
  ASSUME BridgeInv, Throttle, RunWrite \/ \E d \in Sdk, v \in Vals : CloudWrite(d, v)
  PROVE  Throttle'
<1>a. queue \in Seq(Items)
  BY Objects
<1>1. CASE RunWrite
  <2>1. /\ queue # <<>> /\ queue' = Tail(queue) /\ Head(queue).kind = "write" /\ worker.pc = "idle"
        /\ StartWrite(Head(queue).dev, Head(queue).val)
        /\ UNCHANGED <<reg, cloud, live, crossed, lost>>
    BY <1>1 DEF RunWrite, QueueRuns
  <2>2. Head(queue).dev \in Sdk /\ Head(queue).val \in Vals
    BY <1>a, <2>1, Taken, ItemsAre
  <2>3. SameReports(queue, queue')
    BY <1>a, <2>1, OtherItems
  <2>. QED  BY <2>1, <2>2, <2>3, StartThrottle
<1>2. CASE \E d \in Sdk, v \in Vals : CloudWrite(d, v)
  <2>1. PICK d \in Sdk, v \in Vals : CloudWrite(d, v)
    BY <1>2
  <2> DEFINE x == [kind |-> "write", dev |-> d, val |-> v]
  <2>2. /\ UNCHANGED <<reg, cloud, live, crossed, lost>>
        /\ \/ queue' = Append(queue, x) /\ worker' = worker
           \/ queue' = queue /\ StartWrite(d, v) /\ worker.pc = "idle"
    BY <2>1 DEF CloudWrite
  <2>3. x \in Items /\ x.kind # "report"
    BY DEF Items
  <2> HIDE DEF x
  <2>4. SameReports(queue, queue')
    BY <1>a, <2>2, <2>3, OtherItems
  <2>. QED  BY <2>2, <2>4, StartThrottle, Undisturbed DEF Keeps
<1>. QED  BY <1>1, <1>2

(* The publish of a report: the last one shows what is noted, or is lost; one *)
(* that comes between the parts of a write is counted as crossed.             *)
LEMMA PublishThrottle ==
  ASSUME BridgeInv, Throttle, RunReport
  PROVE  Throttle'
<1> DEFINE d == Head(queue).dev
<1>1. /\ UNCHANGED <<reg, live, worker>> /\ queue # <<>> /\ queue' = Tail(queue)
      /\ queue \in Seq(Items) /\ Head(queue).kind = "report" /\ Publish(d, Head(queue).val)
      /\ crossed' = IF worker.dev = d /\ worker.pc \in {"note", "snap"} THEN crossed \cup {d}
                                                                       ELSE crossed
  BY Objects DEF RunReport, QueueRuns
<1>2. 1 \in DOMAIN queue /\ queue[1] = Head(queue) /\ d \in Sdk
  BY <1>1, Taken, ItemsAre
<1> HIDE DEF d
<1>3. crossed \subseteq crossed'
      /\ (worker.dev = d /\ worker.pc \in {"note", "snap"} => d \in crossed')
  BY <1>1
<1>4. \A e \in Sdk : e # d => /\ cloud'[e] = cloud[e] /\ (e \in lost <=> e \in lost')
                              /\ ~LastReport(queue, 1, e)
  BY <1>1, <1>2, Objects DEF Publish, LastReport, IsReport, d
<1>5. d \in lost' \/ cloud'[d] = queue[1].val
  BY <1>1, <1>2, Objects DEF Publish
<1>6. Shown'
  <2>. SUFFICES ASSUME NEW t \in Slots, reg[t].dev # Nil, reg[t].last # Nil,
                       reg[t].dev \notin crossed'
                PROVE  /\ \A k \in DOMAIN queue' :
                            LastReport(queue', k, reg[t].dev) => queue'[k].val = reg[t].last
                       /\ NoReport(queue', reg[t].dev) =>
                            /\ worker.dev = reg[t].dev /\ worker.pc = "snap" =>
                                 worker.val = reg[t].last
                            /\ (worker.dev = reg[t].dev => worker.pc = "write")
                               /\ reg[t].dev \notin lost' => cloud'[reg[t].dev] = reg[t].last
    BY <1>1 DEF Shown
  <2>1. reg[t].dev \in Sdk /\ reg[t].dev \notin crossed
    BY <1>3, Objects
  <2>2. \A k \in DOMAIN queue' : LastReport(queue', k, reg[t].dev) => queue'[k].val = reg[t].last
    BY <1>1, <2>1, TakenOrder DEF Throttle, Shown
  <2>3. ASSUME NoReport(queue', reg[t].dev)
        PROVE  /\ worker.dev = reg[t].dev /\ worker.pc = "snap" => worker.val = reg[t].last
               /\ (worker.dev = reg[t].dev => worker.pc = "write") /\ reg[t].dev \notin lost' =>
                    cloud'[reg[t].dev] = reg[t].last
    <3>1. NoReport(queue, reg[t].dev) \/ LastReport(queue, 1, reg[t].dev)
      BY <1>1, <2>1, <2>3, TakenOrder
    <3>2. CASE reg[t].dev # d
      <4>1. NoReport(queue, reg[t].dev)
        BY <1>4, <2>1, <3>1, <3>2
      <4>. QED  BY <1>4, <2>1, <3>2, <4>1 DEF Throttle, Shown
    <3>3. CASE reg[t].dev = d
      <4>1. ~NoReport(queue, d)
        BY <1>1, <1>2 DEF NoReport, IsReport, d
      <4>2. queue[1].val = reg[t].last
        BY <1>2, <2>1, <3>1, <3>3, <4>1 DEF Throttle, Shown
      <4>3. ~(worker.dev = d /\ worker.pc = "snap")
        BY <1>3, <3>3
      <4>. QED  BY <1>5, <3>3, <4>2, <4>3
    <3>. QED  BY <3>2, <3>3
  <2>. QED  BY <2>2, <2>3
<1>7. InHand'
  <2>1. ASSUME worker.pc = "note", worker.dev \notin crossed' \cup lost', NoReport(queue', worker.dev)
        PROVE  cloud'[worker.dev] = worker.val
    <3>1. worker.dev \in Sdk /\ worker.dev # d
      BY <1>3, <2>1, Objects
    <3>2. NoReport(queue, worker.dev)
      BY <1>1, <1>4, <2>1, <3>1, TakenOrder
    <3>3. worker.dev \notin crossed \cup lost /\ cloud'[worker.dev] = cloud[worker.dev]
      BY <1>3, <1>4, <2>1, <3>1
    <3>. QED  BY <2>1, <3>2, <3>3 DEF Throttle, InHand
  <2>2. worker.dev # Nil /\ worker.dev \notin live => worker.dev \in crossed'
    BY <1>3 DEF Throttle, InHand
  <2>. QED  BY <1>1, <2>1, <2>2 DEF InHand
<1>. QED  BY <1>6, <1>7 DEF Throttle

(* The rest of a write: what is noted, or shown again, is what is shown. *)
LEMMA HandThrottle ==
  ASSUME BridgeInv, Throttle, WriteAck \/ WriteNote \/ WriteFail \/ SnapBack
  PROVE  Throttle'
<1> DEFINE d == worker.dev
<1>1. UNCHANGED <<queue, live>> /\ worker.pc # "idle"
  BY DEF WriteAck, WriteNote, WriteFail, SnapBack
<1>2. /\ d \in Sdk /\ d # Nil /\ worker \in Work /\ worker.slot \in Slots
      /\ reg \in [Slots -> Entry]
  BY <1>1, Objects DEF BridgeInv, BridgeTypeOK, Busy
<1>3. \A t \in Slots : /\ reg[t].dev \in Sdk \cup {Nil}
                       /\ reg[t].dev = d /\ StillOwns => t = worker.slot
  BY <1>2, Objects DEF StillOwns
<1>4. \A t \in Slots : reg[t].dev # Nil /\ reg[t].last # Nil /\ reg[t].dev \notin crossed =>
        \A k \in DOMAIN queue : LastReport(queue, k, reg[t].dev) => queue[k].val = reg[t].last
  BY DEF Throttle, Shown
<1>5. \A t \in Slots : reg[t].dev # Nil /\ reg[t].last # Nil /\ reg[t].dev \notin crossed \cup lost
                       /\ NoReport(queue, reg[t].dev) /\ reg[t].dev # d =>
        cloud[reg[t].dev] = reg[t].last
  BY DEF Throttle, Shown
<1>6. \A v : Publish(d, v) => /\ d \in lost' \/ cloud'[d] = v
                              /\ \A e \in Sdk : e # d => /\ cloud'[e] = cloud[e]
                                                         /\ (e \in lost <=> e \in lost')
  BY <1>2, Objects DEF Publish
<1>7. CASE WriteAck
  <2>1. UNCHANGED <<reg, crossed>> /\ Publish(d, worker.val)
        /\ worker'.dev = d /\ worker'.pc = "note" /\ worker'.val = worker.val
    BY <1>2, <1>7 DEF WriteAck, Work
  <2> HIDE DEF d
  <2>2. Shown'
    <3>. SUFFICES ASSUME NEW t \in Slots, reg[t].dev # Nil, reg[t].last # Nil,
                         reg[t].dev \notin crossed
                  PROVE  NoReport(queue, reg[t].dev) /\ reg[t].dev # d /\ reg[t].dev \notin lost' =>
                           cloud'[reg[t].dev] = reg[t].last
      BY <1>1, <1>4, <2>1 DEF Shown
    <3>. QED  BY <1>3, <1>5, <1>6, <2>1
  <2>3. InHand'
    BY <1>1, <1>2, <1>6, <2>1 DEF Throttle, InHand, d
  <2>. QED  BY <2>2, <2>3 DEF Throttle
<1>8. CASE WriteNote
  <2> DEFINE noted == StillOwns /\ reg[worker.slot].ieee = worker.ieee
  <2>1. /\ UNCHANGED <<cloud, lost>> /\ worker'.dev = Nil /\ worker'.pc = "idle"
        /\ worker.pc = "note"
        /\ reg' = IF noted THEN [reg EXCEPT ![worker.slot].last = worker.val] ELSE reg
        /\ crossed' = IF noted /\ ~ReportWaits(d) THEN crossed ELSE crossed \cup {d}
    BY <1>8 DEF WriteNote, Resting
  <2>2. noted => reg[worker.slot].dev = d /\ \A t \in Slots : reg[t].dev = d => t = worker.slot
    BY <1>3 DEF StillOwns
  <2>3. noted => reg'[worker.slot].dev = d /\ reg'[worker.slot].last = worker.val
    BY <1>2, <2>1, <2>2 DEF Entry
  <2>4. \A t \in Slots : reg'[t] = reg[t] \/ (noted /\ t = worker.slot)
    BY <1>2, <2>1
  <2>5. crossed \subseteq crossed' /\ (d \notin crossed' => noted /\ ~ReportWaits(d))
    BY <2>1
  <2>6. ~ReportWaits(d) => NoReport(queue, d)
    BY DEF ReportWaits, NoReport, IsReport
  <2>7. d \notin crossed' \cup lost => cloud[d] = worker.val
    BY <2>1, <2>5, <2>6 DEF Throttle, InHand
  <2> HIDE DEF d, noted
  <2>8. Shown'
    <3>. SUFFICES ASSUME NEW t \in Slots, reg'[t].dev # Nil, reg'[t].last # Nil,
                         reg'[t].dev \notin crossed'
                  PROVE  /\ \A k \in DOMAIN queue :
                              LastReport(queue, k, reg'[t].dev) => queue[k].val = reg'[t].last
                         /\ NoReport(queue, reg'[t].dev) /\ reg'[t].dev \notin lost =>
                              cloud[reg'[t].dev] = reg'[t].last
      BY <1>1, <2>1 DEF Shown
    <3>1. CASE reg'[t].dev = d
      <4>1. noted /\ NoReport(queue, d)
        BY <2>5, <2>6, <3>1
      <4>2. t = worker.slot
        BY <2>2, <2>4, <3>1, <4>1
      <4>3. \A k \in DOMAIN queue : ~LastReport(queue, k, d)
        BY <4>1 DEF NoReport, LastReport
      <4>. QED  BY <2>3, <2>7, <3>1, <4>1, <4>2, <4>3
    <3>2. CASE reg'[t].dev # d
      <4>1. reg'[t] = reg[t] /\ reg[t].dev # d /\ reg[t].dev \notin crossed
        BY <2>3, <2>4, <2>5, <3>2
      <4>. QED  BY <1>4, <1>5, <4>1
    <3>. QED  BY <3>1, <3>2
  <2>9. InHand'
    BY <2>1 DEF InHand
  <2>. QED  BY <2>8, <2>9 DEF Throttle
<1>9. CASE WriteFail
  <2>1. UNCHANGED <<cloud, reg, crossed, lost>> /\ worker.pc = "write"
    BY <1>9 DEF WriteFail
  <2>2. \A t \in Slots : reg[t].dev # Nil /\ reg[t].last # Nil
                         /\ reg[t].dev \notin crossed \cup lost /\ NoReport(queue, reg[t].dev) =>
          cloud[reg[t].dev] = reg[t].last
    BY <2>1 DEF Throttle, Shown
  <2>3. CASE StillOwns /\ reg[worker.slot].last # Nil
    <3> DEFINE l == reg[worker.slot].last
    <3>1. worker' = [worker EXCEPT !.pc = "snap", !.val = l]
      BY <1>9, <2>3 DEF WriteFail
    <3>2. \A t \in Slots : reg[t].dev = d => reg[t].last = l
      BY <1>3, <2>3
    <3> HIDE DEF l
    <3>3. worker'.dev = d /\ worker'.pc = "snap" /\ worker'.val = l
      BY <1>2, <3>1 DEF Work
    <3>4. Shown'
      BY <1>1, <1>4, <2>1, <2>2, <3>2, <3>3 DEF Shown
    <3>5. InHand'
      BY <1>1, <2>1, <3>3 DEF Throttle, InHand
    <3>. QED  BY <3>4, <3>5 DEF Throttle
  <2>4. CASE ~(StillOwns /\ reg[worker.slot].last # Nil)
    <3>1. worker'.dev = Nil /\ worker'.pc = "idle"
      BY <1>9, <2>4 DEF WriteFail, Resting
    <3>2. Shown'
      BY <1>1, <1>4, <2>1, <2>2, <3>1 DEF Shown
    <3>3. InHand'
      BY <3>1 DEF InHand
    <3>. QED  BY <3>2, <3>3 DEF Throttle
  <2>. QED  BY <2>3, <2>4
<1>10. CASE SnapBack
  <2>1. UNCHANGED <<reg, crossed>> /\ Publish(d, worker.val) /\ worker.pc = "snap"
        /\ worker'.dev = Nil /\ worker'.pc = "idle"
    BY <1>10 DEF SnapBack, Resting
  <2>2. \A t \in Slots : reg[t].dev = d /\ reg[t].last # Nil /\ d \notin crossed
                         /\ NoReport(queue, d) => worker.val = reg[t].last
    BY <1>2, <2>1 DEF Throttle, Shown
  <2> HIDE DEF d
  <2>3. Shown'
    <3>. SUFFICES ASSUME NEW t \in Slots, reg[t].dev # Nil, reg[t].last # Nil,
                         reg[t].dev \notin crossed
                  PROVE  NoReport(queue, reg[t].dev) /\ reg[t].dev \notin lost' =>
                           cloud'[reg[t].dev] = reg[t].last
      BY <1>1, <1>4, <2>1 DEF Shown
    <3>1. CASE reg[t].dev = d
      BY <1>6, <2>1, <2>2, <3>1
    <3>2. CASE reg[t].dev # d
      BY <1>3, <1>5, <1>6, <2>1, <3>2
    <3>. QED  BY <3>1, <3>2
  <2>4. InHand'
    BY <2>1 DEF InHand
  <2>. QED  BY <2>3, <2>4 DEF Throttle
<1>. QED  BY <1>7, <1>8, <1>9, <1>10

(* Every step keeps the account of the noted values.                          *)
LEMMA ThrottleKept == BridgeInv /\ Throttle /\ [Next]_vars => Throttle'
<1>. SUFFICES ASSUME BridgeInv, Throttle, [Next]_vars PROVE Throttle'
  OBVIOUS
<1>1. CASE \/ Gateway \/ RestoreSnapshot
           \/ \E c \in Callers, i \in Ieee : AddStart(c, i) \/ Unexpose(c, i)
           \/ \E c \in Callers : Fetch(c) \/ Build(c) \/ Commit(c) \/ Record(c) \/ Forget(c)
           \/ \E c \in Callers : QueueTeardown(c)
           \/ \E i \in Ieee : RestoreNext(i)
           \/ RunTeardown
  BY Zenon, <1>1, CallersThrottle
<1>2. CASE \E i \in Ieee, v \in Vals, force \in BOOLEAN : AttrUpdate(i, v, force)
  BY <1>2, ReportThrottle
<1>3. CASE RunWrite \/ \E d \in Sdk, v \in Vals : CloudWrite(d, v)
  BY Zenon, <1>3, WriteThrottle
<1>4. CASE RunReport
  BY <1>4, PublishThrottle
<1>5. CASE WriteAck \/ WriteNote \/ WriteFail \/ SnapBack
  BY <1>5, HandThrottle
<1>6. CASE Reboot
  <2>1. /\ \A s \in Slots : reg'[s].dev = Nil
        /\ worker'.dev = Nil /\ worker'.pc = "idle"
    BY <1>6 DEF Reboot, Empty, Resting
  <2>. QED  BY <2>1 DEF Throttle, Shown, InHand
<1>7. CASE UNCHANGED vars
  BY <1>7 DEF vars, bridgeVars, Throttle, Shown, InHand
<1>. QED
  BY Zenon, <1>1, <1>2, <1>3, <1>4, <1>5, <1>6, <1>7, Steps DEF BridgeStep

(* What the bridge skips as unchanged is what the cloud was last told, over *)
(* every interleaving of reports, commands, publishes that fail, writes on  *)
(* either task that succeed or fail, and devices taken off and added again, *)
(* unless the last publish was lost or a write ended while a report of its  *)
(* object was on its way, and only until the next publish or report         *)
(* (rmk_bridge_on_attr_update, rmk_bridge_write_cb, last_reported).         *)
THEOREM ThrottleIsRight == Spec => []ThrottleKeyHolds
<1>1. Init => Throttle
  <2>. SUFFICES ASSUME Init PROVE Throttle
    OBVIOUS
  <2>1. /\ \A s \in Slots : reg[s].dev = Nil
        /\ worker.dev = Nil /\ worker.pc = "idle"
    BY DEF Init, Empty, Resting
  <2>. QED  BY <2>1 DEF Throttle, Shown, InHand
<1>2. Throttle => ThrottleKeyHolds
  BY DEF Throttle, Shown, ThrottleKeyHolds, Quiet, NoReport, IsReport
<1>. QED  BY <1>1, <1>2, ThrottleKept, BridgeInvariant, PTL DEF Spec

=============================================================================
