--------------------------- MODULE Frames_proofs ---------------------------
(***************************************************************************)
(* Proofs about frames on their way: between the two chips, where exchanges*)
(* nest (HapExchange), for any number of tasks and frames and any depth;   *)
(* and to the browsers, with the log lines beside them (Events), for any   *)
(* producers, depth of the queue and size of the ring.                     *)
(***************************************************************************)
EXTENDS HapExchange, Events, FiniteSetTheorems, FunctionTheorems, SequenceTheorems, TLAPS

-----------------------------------------------------------------------------
(***************************************************************************)
(* HapExchange: nested exchanges.                                          *)
(***************************************************************************)

(* What a task does to its stack of exchanges: it moves its innermost one on, *)
(* leaves it, or enters one more.                                             *)
LEMMA TopMoved ==
  ASSUME NEW s \in Seq(Activation), s # <<>>, NEW a \in Activation,
         NEW n, n = [s EXCEPT ![Len(s)] = a]
  PROVE  /\ n \in Seq(Activation) /\ n # <<>> /\ Len(n) = Len(s) /\ Last(n) = a
         /\ \A i \in 1..(Len(s) - 1) : n[i] = s[i]
<1>1. Len(s) \in Nat /\ Len(s) >= 1 /\ Len(s) \in DOMAIN s
  BY EmptySeq, LenProperties
<1>. QED  BY <1>1 DEF Last

(* A task leaves its innermost exchange: the outer ones stay as they were.    *)
LEMMA TopLeft ==
  ASSUME NEW s \in Seq(Activation), s # <<>>
  PROVE  /\ Front(s) \in Seq(Activation) /\ Len(Front(s)) = Len(s) - 1
         /\ \A i \in 1..(Len(s) - 1) : Front(s)[i] = s[i]
<1>. DEFINE n == Len(s) - 1
<1>1. n \in Nat /\ n = Len(s) - 1 /\ \A i \in 1..n : s[i] \in Activation
  BY EmptySeq, LenProperties, ElementOfSeq
<1>2. Front(s) = SubSeq(s, 1, n)
  BY DEF Front
<1>. HIDE DEF n
<1>3. n \in Int /\ 1 \in Int
  BY <1>1
<1>4. /\ SubSeq(s, 1, n) \in Seq(Activation)
      /\ Len(SubSeq(s, 1, n)) = IF 1 <= n THEN n - 1 + 1 ELSE 0
      /\ \A i \in 1..(n - 1 + 1) : SubSeq(s, 1, n)[i] = s[1 + i - 1]
  BY <1>1, <1>3, SubSeqProperties
<1>5. Len(SubSeq(s, 1, n)) = n
  BY <1>1, <1>4
<1>6. \A i \in 1..n : SubSeq(s, 1, n)[i] = s[i]
  BY <1>1, <1>4
<1>. QED  BY <1>1, <1>2, <1>4, <1>5, <1>6

(* A task enters an exchange inside those it is in.                           *)
LEMMA TopEntered ==
  ASSUME NEW s \in Seq(Activation), NEW a \in Activation
  PROVE  /\ Append(s, a) \in Seq(Activation) /\ Append(s, a) # <<>>
         /\ Len(Append(s, a)) = Len(s) + 1 /\ Last(Append(s, a)) = a
         /\ \A i \in 1..Len(s) : Append(s, a)[i] = s[i]
  BY AppendProperties, LenProperties DEF Last

-----------------------------------------------------------------------------
(* Only the innermost exchange of a task moves: the outer ones have replied,  *)
(* and the holder of the mutex is between taking it and giving it.            *)
StackOK == calls \in [Tasks -> Seq(Activation)]
OuterReplied ==
  \A t \in Tasks : \A i \in 1..(Len(calls[t]) - 1) : calls[t][i].at = "notify"
MutexHeld == \A t \in Tasks : t \in s_spi_mutex => At(t, "transmit") \/ At(t, "give")
FramesOK == p4_queue \in Seq(Frames) /\ pushed \in 0..FrameCount
StackInv == StackOK /\ OuterReplied /\ MutexHeld /\ FramesOK

(* The other tasks' exchanges stay as they are. *)
Others(t) == \A u \in Tasks : u # t => calls'[u] = calls[u]
(* The stack of t after the step, with its innermost exchange at this place.  *)
TopAt(t, place) ==
  /\ StackOK' /\ OuterReplied' /\ Others(t)
  /\ calls'[t] # <<>> /\ Last(calls'[t]).at = place

(* The steps of a task as seen by the invariant: its innermost exchange       *)
(* moves to a place, and nothing else of the stacks changes.                  *)
LEMMA Moved ==
  ASSUME StackOK, OuterReplied, NEW t \in Tasks, ~ Idle(t), NEW a \in Activation,
         calls' = [calls EXCEPT ![t][Len(calls[t])] = a]
  PROVE  TopAt(t, a.at) /\ Last(calls'[t]) = a
<1>. DEFINE s == calls[t]
            n == [s EXCEPT ![Len(s)] = a]
<1>1. s \in Seq(Activation) /\ s # <<>>
  BY DEF StackOK, Idle
<1>2. calls' = [calls EXCEPT ![t] = n]
  OBVIOUS
<1>. HIDE DEF n
<1>3. /\ n \in Seq(Activation) /\ n # <<>> /\ Len(n) = Len(s) /\ Last(n) = a
      /\ \A i \in 1..(Len(s) - 1) : n[i] = s[i]
  BY <1>1, TopMoved DEF n
<1>4. calls' \in [Tasks -> Seq(Activation)] /\ calls'[t] = n /\ Others(t)
  BY <1>2, <1>3 DEF StackOK, Others
<1>5. OuterReplied'
  BY <1>3, <1>4 DEF OuterReplied, Others
<1>. QED  BY <1>3, <1>4, <1>5 DEF TopAt, StackOK

(* ... when only the place changes (Goto), the frame stays the same.          *)
LEMMA MovedOn ==
  ASSUME StackOK, OuterReplied, NEW t \in Tasks, ~ Idle(t), NEW place \in Steps, Goto(t, place)
  PROVE  TopAt(t, place) /\ Last(calls'[t]).peer = Peer(t)
<1>. DEFINE a == [Last(calls[t]) EXCEPT !.at = place]
<1>1. Last(calls[t]) \in Activation
  <2>1. calls[t] \in Seq(Activation) /\ calls[t] # <<>>
    BY DEF StackOK, Idle
  <2>2. Len(calls[t]) \in 1..Len(calls[t])
    BY <2>1, EmptySeq, LenProperties
  <2>. QED  BY <2>1, <2>2, ElementOfSeq DEF Last
<1>2. a \in Activation /\ a.at = place /\ a.peer = Peer(t)
  BY <1>1 DEF Activation, Peer
<1>3. calls' = [calls EXCEPT ![t][Len(calls[t])] = a]
  BY DEF Goto, Last
<1>. HIDE DEF a
<1>. QED  BY <1>2, <1>3, Moved

(* ... when an idle task starts an exchange (Enter).                          *)
LEMMA Entered ==
  ASSUME StackOK, OuterReplied, NEW t \in Tasks, Idle(t), Enter(t)
  PROVE  TopAt(t, "lock")
<1>. DEFINE a == [at |-> "lock", peer |-> 0]
            n == Append(calls[t], a)
<1>1. calls[t] \in Seq(Activation) /\ Len(calls[t]) = 0
  BY EmptySeq DEF StackOK, Idle
<1>2. a \in Activation
  BY DEF Activation, Steps
<1>3. calls' = [calls EXCEPT ![t] = n]
  BY DEF Enter
<1>. HIDE DEF a
<1>4. n \in Seq(Activation) /\ n # <<>> /\ Len(n) = 1 /\ Last(n) = a
  BY <1>1, <1>2, TopEntered
<1>. HIDE DEF n
<1>5. calls' \in [Tasks -> Seq(Activation)] /\ calls'[t] = n /\ Others(t)
  BY <1>3, <1>4 DEF StackOK, Others
<1>6. ASSUME NEW u \in Tasks, NEW i \in 1..(Len(calls'[u]) - 1)
      PROVE  calls'[u][i].at = "notify"
  <2>1. CASE u = t
    <3>1. Len(calls'[u]) = 1
      BY <1>4, <1>5, <2>1
    <3>. QED  BY <1>6, <3>1
  <2>2. CASE u # t
    BY <1>5, <1>6, <2>2 DEF OuterReplied, Others
  <2>. QED  BY <2>1, <2>2
<1>7. OuterReplied'
  BY <1>6 DEF OuterReplied
<1>. QED  BY <1>4, <1>5, <1>7 DEF TopAt, StackOK, a

(* ... when it returns from one (Leave): the exchange around it, if there is  *)
(* one, was waiting in its callback.                                          *)
LEMMA Left ==
  ASSUME StackOK, OuterReplied, NEW t \in Tasks, ~ Idle(t), Leave(t)
  PROVE  /\ StackOK' /\ OuterReplied' /\ Others(t)
         /\ calls'[t] # <<>> => Last(calls'[t]).at = "notify"
<1>. DEFINE s == calls[t]
            n == Front(s)
<1>1. s \in Seq(Activation) /\ s # <<>> /\ Len(s) \in Nat /\ Len(s) >= 1
  BY EmptySeq, LenProperties DEF StackOK, Idle
<1>2. calls' = [calls EXCEPT ![t] = n]
  BY DEF Leave
<1>3. /\ n \in Seq(Activation) /\ Len(n) = Len(s) - 1
      /\ \A i \in 1..(Len(s) - 1) : n[i] = s[i]
  BY <1>1, TopLeft
<1>. HIDE DEF n
<1>4. calls' \in [Tasks -> Seq(Activation)] /\ calls'[t] = n /\ Others(t)
  BY <1>2, <1>3 DEF StackOK, Others
<1>5. \A i \in 1..Len(n) : n[i].at = "notify"
  BY <1>1, <1>3 DEF OuterReplied
<1>6. OuterReplied'
  <2>1. \A i \in 1..(Len(n) - 1) : i \in 1..Len(n)
    BY <1>1, <1>3
  <2>. QED  BY <2>1, <1>4, <1>5 DEF OuterReplied, Others
<1>7. n # <<>> => Last(n).at = "notify"
  <2>1. n # <<>> => Len(n) \in 1..Len(n)
    BY <1>3, EmptySeq, LenProperties
  <2>. QED  BY <2>1, <1>5 DEF Last
<1>. QED  BY <1>4, <1>6, <1>7 DEF StackOK

(* ... when the handler of a frame sends (Reply): the exchange of the frame   *)
(* waits in its callback, a new one waits for the mutex.                      *)
LEMMA Replied ==
  ASSUME StackOK, OuterReplied, NEW t \in Tasks, ~ Idle(t),
         calls' = [calls EXCEPT ![t] =
           Append(Front(@), [Last(@) EXCEPT !.at = "notify"])
             \o <<[at |-> "lock", peer |-> 0]>>]
  PROVE  TopAt(t, "lock")
<1>. DEFINE s == calls[t]
            a == [Last(s) EXCEPT !.at = "notify"]
            b == [at |-> "lock", peer |-> 0]
            m == Append(Front(s), a)
            n == Append(m, b)
<1>1. s \in Seq(Activation) /\ s # <<>> /\ Len(s) \in Nat /\ Len(s) >= 1
  BY EmptySeq, LenProperties DEF StackOK, Idle
<1>2. Last(s) \in Activation
  BY <1>1, ElementOfSeq DEF Last
<1>3. a \in Activation /\ a.at = "notify" /\ b \in Activation /\ b.at = "lock"
  BY <1>2 DEF Activation, Steps
<1>4. /\ Front(s) \in Seq(Activation) /\ Len(Front(s)) = Len(s) - 1
      /\ \A i \in 1..(Len(s) - 1) : Front(s)[i] = s[i]
  BY <1>1, TopLeft
<1>. HIDE DEF a, b
<1>5. /\ m \in Seq(Activation) /\ m # <<>> /\ Len(m) = Len(s) /\ Last(m) = a
      /\ \A i \in 1..(Len(s) - 1) : m[i] = s[i]
  BY <1>1, <1>3, <1>4, TopEntered
<1>6. \A i \in 1..Len(s) : m[i].at = "notify"
  <2>1. \A i \in 1..Len(s) : i \in 1..(Len(s) - 1) \/ i = Len(m)
    BY <1>1, <1>5
  <2>. QED  BY <2>1, <1>3, <1>5 DEF OuterReplied, Last
<1>7. m \o <<b>> = n
  BY <1>3, <1>5, AppendIsConcat
<1>8. calls' = [calls EXCEPT ![t] = n]
  BY <1>7 DEF a, b
<1>. HIDE DEF m
<1>9. /\ n \in Seq(Activation) /\ n # <<>> /\ Len(n) = Len(s) + 1 /\ Last(n) = b
      /\ \A i \in 1..Len(s) : n[i] = m[i]
  BY <1>3, <1>5, TopEntered
<1>. HIDE DEF n
<1>10. calls' \in [Tasks -> Seq(Activation)] /\ calls'[t] = n /\ Others(t)
  BY <1>8, <1>9 DEF StackOK, Others
<1>11. OuterReplied'
  <2>1. \A i \in 1..(Len(n) - 1) : i \in 1..Len(s)
    BY <1>1, <1>9
  <2>. QED  BY <2>1, <1>6, <1>9, <1>10 DEF OuterReplied, Others
<1>. QED  BY <1>3, <1>9, <1>10, <1>11 DEF TopAt, StackOK

-----------------------------------------------------------------------------
(* What Transmit fetches is a frame, and what is left is a queue of frames.   *)
LEMMA QueueHead ==
  ASSUME FramesOK, p4_queue # <<>>
  PROVE  Head(p4_queue) \in Frames /\ Tail(p4_queue) \in Seq(Frames)
  BY HeadTailProperties DEF FramesOK

(* The holder of the mutex does not change when another task's exchange ends  *)
(* up somewhere, nor does anybody get it who was not given it.                *)
LEMMA HolderKept ==
  ASSUME MutexHeld, NEW t \in Tasks, Others(t),
         s_spi_mutex' \subseteq s_spi_mutex, t \notin s_spi_mutex'
  PROVE  MutexHeld'
  BY DEF MutexHeld, Others, At, Idle

(* The task that takes the mutex, or goes on with it, is the holder the       *)
(* invariant wants.                                                           *)
LEMMA HolderMoved ==
  ASSUME MutexHeld, NEW t \in Tasks, Others(t),
         s_spi_mutex' \subseteq s_spi_mutex \cup {t},
         calls'[t] # <<>>, Last(calls'[t]).at \in {"transmit", "give"}
  PROVE  MutexHeld'
  BY DEF MutexHeld, Others, At, Idle

(* Every step of an exchange, whichever task takes it, keeps the invariant:   *)
(* only the innermost exchange of a task moves, and who holds s_spi_mutex is  *)
(* between taking and giving it.                                              *)
THEOREM StackInvStep == StackInv /\ [Next]_vars => StackInv'
<1>. SUFFICES ASSUME StackInv, [Next]_vars
              PROVE  StackInv'
  OBVIOUS
<1>. USE DEF StackInv
<1>1. CASE Push
  <2>1. StackOK' /\ OuterReplied' /\ MutexHeld'
    BY <1>1 DEF Push, StackOK, OuterReplied, MutexHeld, At, Idle
  <2>2. pushed + 1 \in Frames
    BY <1>1, ExchangeAssumption DEF Push, Frames, FramesOK
  <2>3. p4_queue' \in Seq(Frames)
    BY <1>1, <2>2, AppendProperties DEF Push, FramesOK
  <2>. QED  BY <1>1, <2>1, <2>2, <2>3 DEF Push, FramesOK, Frames
<1>2. CASE Poll \/ Timer
  <2>1. TaskHAP \in Tasks /\ Idle(TaskHAP) /\ Enter(TaskHAP)
    BY <1>2, ExchangeAssumption DEF Poll, Timer
  <2>2. TopAt(TaskHAP, "lock")
    BY <2>1, Entered
  <2>3. TaskHAP \notin s_spi_mutex /\ s_spi_mutex' = s_spi_mutex
    BY <1>2, <2>1 DEF MutexHeld, At, Poll, Timer
  <2>. QED  BY <1>2, <2>1, <2>2, <2>3, HolderKept DEF TopAt, FramesOK, Poll, Timer
<1>3. ASSUME NEW t \in Tasks, StartSend(t)
      PROVE  StackInv'
  <2>1. TopAt(t, "lock")
    BY <1>3, Entered DEF StartSend
  <2>2. t \notin s_spi_mutex
    BY <1>3 DEF MutexHeld, At, StartSend
  <2>. QED  BY <1>3, <2>1, <2>2, HolderKept DEF TopAt, FramesOK, StartSend
<1>4. ASSUME NEW t \in Tasks, ExchangeStep(t)
      PROVE  StackInv'
  <2>1. CASE Lock(t)
    <3>1. TopAt(t, "transmit")
      BY <2>1, MovedOn DEF Lock, At, Steps
    <3>. QED  BY <2>1, <3>1, HolderMoved DEF TopAt, FramesOK, Lock
  <2>2. CASE LockTimeout(t)
    <3>1. StackOK' /\ OuterReplied' /\ Others(t)
      BY <2>2, Left DEF LockTimeout, At
    <3>2. t \notin s_spi_mutex
      BY <2>2 DEF MutexHeld, LockTimeout, At
    <3>. QED  BY <2>2, <3>1, <3>2, HolderKept DEF FramesOK, LockTimeout
  <2>3. CASE TransmitNothing(t)
    <3>1. StackOK' /\ OuterReplied' /\ Others(t)
      BY <2>3, Left DEF TransmitNothing, At
    <3>2. FramesOK'
      BY <2>3, QueueHead DEF FramesOK, TransmitNothing
    <3>. QED  BY <2>3, <3>1, <3>2, HolderKept DEF TransmitNothing
  <2>4. CASE Transmit(t)
    <3>. DEFINE a == [at |-> "give", peer |-> Head(p4_queue)]
    <3>1. FramesOK' /\ a \in Activation
      BY <2>4, QueueHead DEF FramesOK, Transmit, Activation, Steps
    <3>2. TopAt(t, "give")
      BY <2>4, <3>1, Moved DEF Transmit, At
    <3>. QED  BY <2>4, <3>1, <3>2, HolderMoved DEF TopAt, Transmit
  <2>5. CASE Give(t)
    <3>1. TopAt(t, "handle")
      BY <2>5, MovedOn DEF Give, At, Steps
    <3>. QED  BY <2>5, <3>1, HolderKept DEF TopAt, FramesOK, Give
  <2>6. CASE Handle(t)
    <3>1. TopAt(t, "reply")
      BY <2>6, MovedOn DEF Handle, At, Steps
    <3>2. t \notin s_spi_mutex
      BY <2>6 DEF MutexHeld, Handle, At
    <3>. QED  BY <2>6, <3>1, <3>2, HolderKept DEF TopAt, FramesOK, Handle
  <2>7. CASE Reply(t)
    <3>1. TopAt(t, "lock")
      BY <2>7, Replied DEF Reply, At
    <3>2. t \notin s_spi_mutex
      BY <2>7 DEF MutexHeld, Reply, At
    <3>. QED  BY <2>7, <3>1, <3>2, HolderKept DEF TopAt, FramesOK, Reply
  <2>8. CASE NoReply(t)
    <3>1. TopAt(t, "notify")
      BY <2>8, MovedOn DEF NoReply, At, Steps
    <3>2. t \notin s_spi_mutex
      BY <2>8 DEF MutexHeld, NoReply, At
    <3>. QED  BY <2>8, <3>1, <3>2, HolderKept DEF TopAt, FramesOK, NoReply
  <2>9. CASE NotifyHap(t)
    <3>1. StackOK' /\ OuterReplied' /\ Others(t)
      BY <2>9, Left DEF NotifyHap, At
    <3>2. t \notin s_spi_mutex
      BY <2>9 DEF MutexHeld, NotifyHap, At
    <3>. QED  BY <2>9, <3>1, <3>2, HolderKept DEF FramesOK, NotifyHap
  <2>. QED  BY <1>4, <2>1, <2>2, <2>3, <2>4, <2>5, <2>6, <2>7, <2>8, <2>9 DEF ExchangeStep
<1>5. CASE UNCHANGED vars
  BY <1>5 DEF vars, StackOK, OuterReplied, MutexHeld, FramesOK, At, Idle
<1>. QED  BY <1>1, <1>2, <1>3, <1>4, <1>5 DEF Next

(* No task is in an exchange when hap_master_init returns.                    *)
LEMMA StackInvInit == Init => StackInv
<1>. SUFFICES ASSUME Init
              PROVE  StackInv
  OBVIOUS
<1>1. \A t \in Tasks : calls[t] = <<>> /\ Len(calls[t]) = 0
  BY DEF Init
<1>2. StackOK /\ OuterReplied
  BY <1>1, EmptySeq DEF Init, StackOK, OuterReplied
<1>. QED  BY <1>2, EmptySeq, ExchangeAssumption DEF Init, StackInv, MutexHeld, FramesOK

(* The invariant of the nested exchanges holds in every run of the firmware.  *)
THEOREM ExchangeInvariant == Spec => []StackInv
<1>. QED  BY StackInvInit, StackInvStep, PTL DEF Spec

(* A task that waits for the mutex does not hold it in an outer exchange.     *)
THEOREM NeverWaitsForItself == Spec => []NoSelfWait
<1>1. StackInv => NoSelfWait
  BY DEF StackInv, MutexHeld, NoSelfWait, At
<1>. QED  BY <1>1, ExchangeInvariant, PTL

-----------------------------------------------------------------------------
(* Frames are fetched in the order they were pushed.  When TaskHAP is alone,  *)
(* the frame that is about to be handled still has its payload in the buffer, *)
(* and comes after the handled ones and before the queued ones.               *)
Ascending(s) == \A i, j \in DOMAIN s : i < j => s[i] < s[j]
Pending(t) == At(t, "give") \/ At(t, "handle")
QueueInv ==
  /\ Ascending(p4_queue)
  /\ \A j \in DOMAIN p4_queue : p4_queue[j] <= pushed
  /\ \A t \in Tasks : Pending(t) => Peer(t) \in Frames
  /\ s_dispatch_buf \in Frames \cup {0}
  /\ handled \in Seq(Handling)

PeerNext(f) ==
  /\ f \notin Bare => s_dispatch_buf = f
  /\ f <= pushed
  /\ \A j \in DOMAIN p4_queue : f < p4_queue[j]
  /\ \A i \in DOMAIN handled : handled[i].frame < f
AloneInv ==
  /\ \A t \in Tasks : t # TaskHAP => Idle(t)
  /\ Pending(TaskHAP) => PeerNext(Peer(TaskHAP))
  /\ \A i \in DOMAIN handled : /\ handled[i].frame <= pushed
                              /\ \A j \in DOMAIN p4_queue : handled[i].frame < p4_queue[j]
  /\ PayloadIntact
  /\ \A i, j \in DOMAIN handled : i < j => handled[i].frame < handled[j].frame
HandlerInv == QueueInv /\ (alone => AloneInv)

(* Fetching the oldest frame leaves the younger ones, still in order.         *)
LEMMA TailAscends ==
  ASSUME NEW s \in Seq(Frames), s # <<>>, Ascending(s)
  PROVE  /\ Ascending(Tail(s))
         /\ \A j \in DOMAIN Tail(s) :
              Head(s) < Tail(s)[j] /\ \E k \in DOMAIN s : Tail(s)[j] = s[k]
<1>1. /\ Len(s) \in Nat /\ Len(s) >= 1 /\ DOMAIN s = 1..Len(s)
      /\ Head(s) = s[1]
  BY EmptySeq, LenProperties
<1>2. /\ Tail(s) \in Seq(Frames) /\ Len(Tail(s)) = Len(s) - 1
      /\ \A i \in 1..Len(Tail(s)) : Tail(s)[i] = s[i + 1]
  BY HeadTailProperties
<1>3. DOMAIN Tail(s) = 1..(Len(s) - 1)
  BY <1>2, LenProperties
<1>4. \A i \in DOMAIN Tail(s) : i \in Nat /\ i + 1 \in DOMAIN s /\ Tail(s)[i] = s[i + 1]
  BY <1>1, <1>2, <1>3
<1>. HIDE DEF Frames
<1>5. Ascending(Tail(s))
  BY <1>4 DEF Ascending
<1>6. \A j \in DOMAIN Tail(s) : 1 \in DOMAIN s /\ 1 < j + 1
  BY <1>1, <1>3
<1>. QED  BY <1>1, <1>4, <1>5, <1>6 DEF Ascending

(* Queueing a frame younger than all others keeps the order.                  *)
LEMMA AppendAscends ==
  ASSUME NEW s \in Seq(Frames), NEW e \in Frames, Ascending(s),
         \A j \in DOMAIN s : s[j] < e
  PROVE  /\ Ascending(Append(s, e))
         /\ \A j \in DOMAIN Append(s, e) :
              Append(s, e)[j] = e \/ \E k \in DOMAIN s : Append(s, e)[j] = s[k]
<1>. DEFINE n == Append(s, e)
<1>1. Len(s) \in Nat /\ DOMAIN s = 1..Len(s)
  BY LenProperties
<1>2. /\ n \in Seq(Frames) /\ Len(n) = Len(s) + 1
      /\ \A i \in 1..Len(s) : n[i] = s[i]
      /\ n[Len(s) + 1] = e
  BY AppendProperties
<1>. HIDE DEF n
<1>3. DOMAIN n = 1..(Len(s) + 1)
  BY <1>2, LenProperties
<1>4. \A j \in DOMAIN n : \/ j = Len(s) + 1 /\ n[j] = e
                          \/ j \in DOMAIN s /\ n[j] = s[j]
  BY <1>1, <1>2, <1>3
<1>5. Ascending(n)
  BY <1>1, <1>3, <1>4 DEF Ascending
<1>. QED  BY <1>4, <1>5 DEF n

(* A step of t that handles nothing, fetches nothing that is handled, and     *)
(* does not leave t with a frame to handle.                                   *)
LEMMA HandlerQuiet ==
  ASSUME HandlerInv, StackInv, NEW t \in Tasks, Others(t),
         calls'[t] # <<>> => Last(calls'[t]).at \notin {"give", "handle"},
         UNCHANGED <<alone, handled, pushed, s_dispatch_buf>>, alone => t = TaskHAP,
         p4_queue' = p4_queue \/ (p4_queue # <<>> /\ p4_queue' = Tail(p4_queue))
  PROVE  HandlerInv'
<1>1. /\ Ascending(p4_queue')
      /\ \A j \in DOMAIN p4_queue' : \E k \in DOMAIN p4_queue : p4_queue'[j] = p4_queue[k]
  <2>1. p4_queue \in Seq(Frames) /\ Ascending(p4_queue)
    BY DEF HandlerInv, QueueInv, StackInv, FramesOK
  <2>2. CASE p4_queue' = p4_queue
    BY <2>1, <2>2
  <2>3. CASE p4_queue # <<>> /\ p4_queue' = Tail(p4_queue)
    BY <2>1, <2>3, TailAscends
  <2>. QED  BY <2>2, <2>3
<1>2. \A u \in Tasks : Pending(u)' => u # t /\ Pending(u) /\ Peer(u)' = Peer(u)
  BY DEF Pending, At, Idle, Peer, Others
<1>3. QueueInv'
  BY <1>1, <1>2 DEF HandlerInv, QueueInv
<1>4. ASSUME alone
      PROVE  AloneInv'
  <2>1. AloneInv /\ t = TaskHAP
    BY <1>4 DEF HandlerInv
  <2>2. ~ Pending(TaskHAP)'
    BY <1>2, <2>1
  <2>3. \A u \in Tasks : u # TaskHAP => Idle(u)'
    BY <2>1 DEF AloneInv, Idle, Others
  <2>4. \A i \in DOMAIN handled' :
          /\ handled'[i].frame <= pushed'
          /\ \A j \in DOMAIN p4_queue' : handled'[i].frame < p4_queue'[j]
    BY <1>1, <2>1 DEF AloneInv
  <2>. QED  BY <2>1, <2>2, <2>3, <2>4 DEF AloneInv, PayloadIntact
<1>. QED  BY <1>3, <1>4 DEF HandlerInv

(* The P4 pushes a frame: it is younger than all there are.                   *)
LEMMA HandlerPush == HandlerInv /\ StackInv /\ Push => HandlerInv'
<1>. SUFFICES ASSUME HandlerInv, StackInv, Push
              PROVE  HandlerInv'
  OBVIOUS
<1>1. /\ pushed \in Nat /\ pushed + 1 \in Frames
      /\ p4_queue \in Seq(Frames) /\ p4_queue' = Append(p4_queue, pushed + 1)
  BY ExchangeAssumption DEF StackInv, FramesOK, Push, Frames
<1>2. \A j \in DOMAIN p4_queue : p4_queue[j] \in Nat /\ p4_queue[j] < pushed + 1
  <2>1. \A j \in DOMAIN p4_queue : p4_queue[j] \in Frames
    BY <1>1, LenProperties
  <2>. QED  BY <1>1, <2>1 DEF HandlerInv, QueueInv, Frames
<1>3. /\ Ascending(p4_queue')
      /\ \A j \in DOMAIN p4_queue' :
           p4_queue'[j] = pushed + 1 \/ \E k \in DOMAIN p4_queue : p4_queue'[j] = p4_queue[k]
  BY <1>1, <1>2, AppendAscends DEF HandlerInv, QueueInv
<1>4. \A u \in Tasks : Pending(u)' = Pending(u) /\ Peer(u)' = Peer(u) /\ Idle(u)' = Idle(u)
  BY DEF Pending, At, Idle, Peer, Push
<1>5. QueueInv'
  <2>1. \A j \in DOMAIN p4_queue' : p4_queue'[j] <= pushed'
    BY <1>1, <1>2, <1>3 DEF Push
  <2>. QED  BY <1>3, <1>4, <2>1 DEF HandlerInv, QueueInv, Push
<1>6. ASSUME alone
      PROVE  AloneInv'
  <2>1. AloneInv
    BY <1>6 DEF HandlerInv
  <2>2. ASSUME Pending(TaskHAP)
        PROVE  PeerNext(Peer(TaskHAP))'
    <3>1. PeerNext(Peer(TaskHAP)) /\ Peer(TaskHAP) \in Frames
      BY <2>1, <2>2, ExchangeAssumption DEF AloneInv, HandlerInv, QueueInv
    <3>. QED  BY <1>1, <1>3, <1>4, <3>1, ExchangeAssumption DEF PeerNext, Push, Frames
  <2>3. \A i \in DOMAIN handled : handled[i].frame \in Nat
    <3>1. \A i \in DOMAIN handled : handled[i] \in Handling
      BY LenProperties, ElementOfSeq DEF HandlerInv, QueueInv
    <3>. QED  BY <3>1 DEF Handling, Frames
  <2>4. \A i \in DOMAIN handled' :
          /\ handled'[i].frame <= pushed'
          /\ \A j \in DOMAIN p4_queue' : handled'[i].frame < p4_queue'[j]
    BY <1>1, <1>3, <2>1, <2>3 DEF AloneInv, Push
  <2>. QED  BY <1>4, <2>1, <2>2, <2>4, ExchangeAssumption DEF AloneInv, PayloadIntact, Push
<1>. QED  BY <1>5, <1>6 DEF HandlerInv, Push

(* A task fetches the oldest frame: if it has a payload, it is now in the     *)
(* buffer.                                                                    *)
LEMMA HandlerTransmit ==
  ASSUME HandlerInv, StackInv, NEW t \in Tasks, Transmit(t)
  PROVE  HandlerInv'
<1>. DEFINE f == Head(p4_queue)
            a == [at |-> "give", peer |-> f]
<1>1. /\ p4_queue \in Seq(Frames) /\ p4_queue # <<>>
      /\ f \in Frames /\ p4_queue' = Tail(p4_queue)
  BY QueueHead DEF StackInv, FramesOK, Transmit
<1>2. a \in Activation /\ a.at = "give" /\ a.peer = f
  BY <1>1 DEF Activation, Steps
<1>3. TopAt(t, "give") /\ Last(calls'[t]) = a
  BY <1>2, Moved DEF Transmit, StackInv, At
<1>4. /\ Ascending(p4_queue')
      /\ \A j \in DOMAIN p4_queue' :
           f < p4_queue'[j] /\ \E k \in DOMAIN p4_queue : p4_queue'[j] = p4_queue[k]
  BY <1>1, TailAscends DEF HandlerInv, QueueInv
<1>5. 1 \in DOMAIN p4_queue /\ f = p4_queue[1]
  BY <1>1, EmptySeq, LenProperties
<1>6. \A u \in Tasks : u # t => (Pending(u)' = Pending(u) /\ Peer(u)' = Peer(u) /\ Idle(u)' = Idle(u))
  BY <1>3 DEF Pending, At, Idle, Peer, TopAt, Others
<1>7. Peer(t)' = f
  BY <1>2, <1>3 DEF Peer
<1>8. s_dispatch_buf' \in Frames \cup {0} /\ (f \notin Bare => s_dispatch_buf' = f)
  BY <1>1 DEF Transmit, HandlerInv, QueueInv
<1>9. QueueInv'
  BY <1>1, <1>4, <1>6, <1>7, <1>8 DEF HandlerInv, QueueInv, Transmit
<1>10. ASSUME alone
       PROVE  AloneInv'
  <2>1. AloneInv /\ t = TaskHAP
    BY <1>10 DEF HandlerInv, AloneInv, Transmit, At
  <2>2. PeerNext(Peer(TaskHAP))'
    <3>1. pushed' = pushed /\ handled' = handled
      BY DEF Transmit
    <3>2. f <= pushed /\ \A i \in DOMAIN handled : handled[i].frame < f
      BY <1>5, <2>1 DEF AloneInv, HandlerInv, QueueInv
    <3>. QED  BY <1>4, <1>7, <1>8, <2>1, <3>1, <3>2 DEF PeerNext
  <2>3. \A i \in DOMAIN handled' :
          /\ handled'[i].frame <= pushed'
          /\ \A j \in DOMAIN p4_queue' : handled'[i].frame < p4_queue'[j]
    BY <1>4, <2>1 DEF AloneInv, Transmit
  <2>4. handled' = handled
    BY DEF Transmit
  <2>. QED  BY <1>6, <2>1, <2>2, <2>3, <2>4 DEF AloneInv, PayloadIntact
<1>. QED  BY <1>9, <1>10 DEF HandlerInv, Transmit

(* Giving the mutex leaves the frame to be handled and the buffer alone.      *)
LEMMA HandlerGive ==
  ASSUME HandlerInv, StackInv, NEW t \in Tasks, Give(t)
  PROVE  HandlerInv'
<1>1. TopAt(t, "handle") /\ Last(calls'[t]).peer = Peer(t)
  BY MovedOn DEF Give, StackInv, At, Steps
<1>2. \A u \in Tasks : Pending(u)' = Pending(u) /\ Peer(u)' = Peer(u) /\ Idle(u)' = Idle(u)
  BY <1>1 DEF Pending, At, Idle, Peer, TopAt, Others, Give
<1>. QED  BY <1>2, ExchangeAssumption
          DEF HandlerInv, QueueInv, AloneInv, PeerNext, PayloadIntact, Give

(* The handler of a frame sees its payload, and its frame is the youngest     *)
(* handled.                                                                   *)
LEMMA HandlerHandle ==
  ASSUME HandlerInv, StackInv, NEW t \in Tasks, Handle(t)
  PROVE  HandlerInv'
<1>. DEFINE f == Peer(t)
            h == [frame |-> f, payload |-> IF f \in Bare THEN 0 ELSE s_dispatch_buf]
            n == Append(handled, h)
<1>1. TopAt(t, "reply")
  BY MovedOn DEF Handle, StackInv, At, Steps
<1>2. Pending(t) /\ f \in Frames
  BY DEF Handle, Pending, HandlerInv, QueueInv
<1>3. h \in Handling /\ handled \in Seq(Handling)
  BY <1>2 DEF Handling, HandlerInv, QueueInv
<1>4. handled' = n
  BY DEF Handle
<1>5. h.frame = f /\ (f \notin Bare => h.payload = s_dispatch_buf)
  OBVIOUS
<1>. HIDE DEF h
<1>6. /\ n \in Seq(Handling) /\ Len(n) = Len(handled) + 1
      /\ \A i \in 1..Len(handled) : n[i] = handled[i]
      /\ n[Len(handled) + 1] = h
  BY <1>3, AppendProperties
<1>7. Len(handled) \in Nat /\ DOMAIN handled = 1..Len(handled)
  BY <1>3, LenProperties
<1>. HIDE DEF n
<1>8. DOMAIN n = 1..(Len(handled) + 1)
  BY <1>6, LenProperties
<1>9. \A i \in DOMAIN n : \/ i = Len(handled) + 1 /\ n[i] = h
                          \/ i \in DOMAIN handled /\ n[i] = handled[i]
  BY <1>6, <1>7, <1>8
<1>10. \A u \in Tasks : Pending(u)' => u # t /\ Pending(u) /\ Peer(u)' = Peer(u)
  BY <1>1 DEF Pending, At, Idle, Peer, TopAt, Others
<1>11. \A u \in Tasks : u # t => Idle(u)' = Idle(u)
  BY <1>1 DEF Idle, TopAt, Others
<1>0. UNCHANGED <<s_dispatch_buf, p4_queue, pushed, alone>>
  BY DEF Handle
<1>12. QueueInv'
  <2>1. \A u \in Tasks : Pending(u)' => Peer(u)' \in Frames
    BY <1>10 DEF HandlerInv, QueueInv
  <2>. QED  BY <1>0, <1>4, <1>6, <2>1 DEF HandlerInv, QueueInv, Ascending
<1>13. ASSUME alone
       PROVE  AloneInv'
  <2>1. AloneInv /\ t = TaskHAP
    BY <1>13 DEF HandlerInv, AloneInv, Handle, At
  <2>2. PeerNext(f)
    BY <1>2, <2>1 DEF AloneInv
  <2>3. \A i \in DOMAIN n : /\ n[i].frame <= pushed
                           /\ \A j \in DOMAIN p4_queue : n[i].frame < p4_queue[j]
    BY <1>5, <1>9, <2>1, <2>2 DEF AloneInv, PeerNext
  <2>4. \A i \in DOMAIN n : n[i].frame \notin Bare => n[i].payload = n[i].frame
    BY <1>5, <1>9, <2>1, <2>2 DEF AloneInv, PeerNext, PayloadIntact
  <2>5. \A i, j \in DOMAIN n : i < j => n[i].frame < n[j].frame
    <3>1. SUFFICES ASSUME NEW i \in DOMAIN n, NEW j \in DOMAIN n, i < j
                   PROVE  n[i].frame < n[j].frame
      OBVIOUS
    <3>2. i \in DOMAIN handled /\ n[i] = handled[i]
      BY <1>7, <1>8, <1>9, <3>1
    <3>. QED  BY <1>5, <1>9, <2>1, <2>2, <3>1, <3>2 DEF AloneInv, PeerNext
  <2>6. ~ Pending(TaskHAP)' /\ \A u \in Tasks : u # TaskHAP => Idle(u)'
    BY <1>10, <1>11, <2>1, ExchangeAssumption DEF AloneInv
  <2>. QED  BY <1>0, <1>4, <2>3, <2>4, <2>5, <2>6 DEF AloneInv, PayloadIntact
<1>. QED  BY <1>0, <1>12, <1>13 DEF HandlerInv

(* Every step keeps the order of the frames, and between fetching a frame     *)
(* and handling it nothing that TaskHAP does overwrites the buffer.           *)
THEOREM HandlerInvStep == HandlerInv /\ StackInv /\ [Next]_vars => HandlerInv'
<1>. SUFFICES ASSUME HandlerInv, StackInv, [Next]_vars
              PROVE  HandlerInv'
  OBVIOUS
<1>0. StackOK /\ OuterReplied
  BY DEF StackInv
<1>1. CASE Push
  BY <1>1, HandlerPush
<1>2. CASE Poll \/ Timer
  <2>1. TaskHAP \in Tasks /\ TopAt(TaskHAP, "lock")
    BY <1>0, <1>2, Entered, ExchangeAssumption DEF Poll, Timer
  <2>. QED  BY <1>2, <2>1, HandlerQuiet DEF TopAt, Poll, Timer
<1>3. ASSUME NEW t \in Tasks, StartSend(t)
      PROVE  HandlerInv'
  <2>1. TopAt(t, "lock")
    BY <1>0, <1>3, Entered DEF StartSend
  <2>. QED  BY <1>3, <2>1, HandlerQuiet DEF TopAt, StartSend
<1>4. ASSUME NEW t \in Tasks, ExchangeStep(t)
      PROVE  HandlerInv'
  <2>0. ~ Idle(t) /\ (alone => t = TaskHAP)
    BY <1>4 DEF HandlerInv, AloneInv, ExchangeStep, At, Lock, LockTimeout, TransmitNothing,
                Transmit, Give, Handle, Reply, NoReply, NotifyHap
  <2>1. CASE Lock(t)
    <3>1. TopAt(t, "transmit")
      BY <1>0, <2>0, <2>1, MovedOn DEF Lock, Steps
    <3>. QED  BY <2>0, <2>1, <3>1, HandlerQuiet DEF TopAt, Lock
  <2>2. CASE LockTimeout(t) \/ TransmitNothing(t) \/ NotifyHap(t)
    <3>1. Others(t) /\ (calls'[t] # <<>> => Last(calls'[t]).at = "notify")
      BY <1>0, <2>0, <2>2, Left DEF LockTimeout, TransmitNothing, NotifyHap
    <3>. QED  BY <2>0, <2>2, <3>1, HandlerQuiet DEF LockTimeout, TransmitNothing, NotifyHap
  <2>3. CASE Transmit(t)
    BY <2>3, HandlerTransmit
  <2>4. CASE Give(t)
    BY <2>4, HandlerGive
  <2>5. CASE Handle(t)
    BY <2>5, HandlerHandle
  <2>6. CASE Reply(t)
    <3>1. TopAt(t, "lock")
      BY <1>0, <2>0, <2>6, Replied DEF Reply
    <3>. QED  BY <2>0, <2>6, <3>1, HandlerQuiet DEF TopAt, Reply
  <2>7. CASE NoReply(t)
    <3>1. TopAt(t, "notify")
      BY <1>0, <2>0, <2>7, MovedOn DEF NoReply, Steps
    <3>. QED  BY <2>0, <2>7, <3>1, HandlerQuiet DEF TopAt, NoReply
  <2>. QED  BY <1>4, <2>1, <2>2, <2>3, <2>4, <2>5, <2>6, <2>7 DEF ExchangeStep
<1>5. CASE UNCHANGED vars
  BY <1>5 DEF vars, HandlerInv, QueueInv, AloneInv, PeerNext, PayloadIntact, Pending, At, Idle,
              Peer
<1>. QED  BY <1>1, <1>2, <1>3, <1>4, <1>5 DEF Next

(* No frame has been pushed at the start.                                     *)
LEMMA HandlerInvInit == Init => HandlerInv
<1>. SUFFICES ASSUME Init
              PROVE  HandlerInv
  OBVIOUS
<1>1. \A t \in Tasks : Idle(t)
  BY DEF Init, Idle
<1>2. DOMAIN p4_queue = {} /\ DOMAIN handled = {} /\ handled \in Seq(Handling)
  BY EmptySeq DEF Init
<1>. QED  BY <1>1, <1>2, ExchangeAssumption
          DEF Init, HandlerInv, QueueInv, AloneInv, Ascending, PayloadIntact, Pending, At

(* The invariant behind the next two theorems. *)
THEOREM HandlerInvariant == Spec => []HandlerInv
<1>. QED  BY HandlerInvInit, HandlerInvStep, ExchangeInvariant, PTL DEF Spec

(* However deep exchanges nest on the one task that makes them, a handler     *)
(* sees the payload of the frame it handles.                                  *)
THEOREM NestedHandlersSeeTheirPayload == Spec => []NestingIsSafe
<1>1. HandlerInv => NestingIsSafe
  BY DEF HandlerInv, AloneInv, NestingIsSafe
<1>. QED  BY <1>1, HandlerInvariant, PTL

(* ... and frames are handled in the order the P4 sent them, none twice.      *)
THEOREM NestedHandlersKeepTheOrder == Spec => []HandledInOrder
<1>1. HandlerInv => HandledInOrder
  BY DEF HandlerInv, AloneInv, HandledInOrder
<1>. QED  BY <1>1, HandlerInvariant, PTL

-----------------------------------------------------------------------------
(***************************************************************************)
(* Events: frames on their way to the browsers (EventQueue).               *)
(***************************************************************************)
(* A step of the whole, as the queue sees it.                                 *)
queueCore == <<s_evt_mutex, s_evt_buf, step, frame, s_ws_tx_q, s_ws_tx_drops,
               sending, sent, made, lost, delivered, newest>>

SenderMakes == /\ Queue!MakeLogFrame(Sender)
               /\ UNCHANGED <<s_ws_tx_q, s_ws_tx_drops, sending, sent, delivered, newest>>

QueueStep ==
  \/ \E t \in Producers : Queue!Make(t, "format") \/ Queue!Make(t, "copy")
  \/ SenderMakes
  \/ \E t \in Producers \cup {Sender} : Queue!Produce(t)
  \/ Queue!Receive \/ Queue!EndLoop \/ Queue!FreeFrame

BrowserFrame == [from : Producers \cup {Sender, Nobody}, n : Nat]

QueueTypes ==
  /\ s_evt_mutex \in Producers \cup {Sender, Nobody}
  /\ step \in [Producers \cup {Sender} -> {"idle", "format", "snapshot", "copy", "enqueue"}]
  /\ frame \in [Producers \cup {Sender} -> BrowserFrame]
  /\ s_ws_tx_q \in Seq(BrowserFrame) /\ sent \in BrowserFrame
  /\ sending \in {"wait", "send", "report"}
  /\ made \in [Producers -> Nat] /\ newest \in [Producers -> Nat]
  /\ s_ws_tx_drops \in Nat /\ delivered \in Nat /\ lost \in Nat

(* Whoever is between the two halves of ws_event_broadcast holds the mutex,   *)
(* and finds its own event in the slab.                                       *)
SlabIsMine ==
  \A t \in Producers : step[t] = "snapshot" => s_evt_mutex = t /\ s_evt_buf = frame[t]

(* A producer carries its newest frame, which is newer than all that was sent.*)
HeldFrames ==
  /\ \A t \in Producers :
       /\ newest[t] <= made[t]
       /\ step[t] # "idle" => frame[t] = [from |-> t, n |-> made[t]] /\ newest[t] < made[t]
  /\ step[Sender] \in {"idle", "copy", "enqueue"} /\ frame[Sender].n = 0

(* The frames underway, seen as any sequence u.                               *)
Marks(u) == {i \in DOMAIN u : u[i].n > 0}
OrderedFrames(u) ==
  \A i \in Marks(u) :
    /\ u[i].from \in Producers
    /\ newest[u[i].from] < u[i].n /\ u[i].n <= made[u[i].from]
    /\ step[u[i].from] # "idle" => u[i].n < made[u[i].from]
    /\ \A j \in Marks(u) : i < j /\ u[j].from = u[i].from => u[i].n < u[j].n

Accounted ==
  /\ IsFiniteSet(Queue!Frames) /\ IsFiniteSet(Queue!InHand)
  /\ DropsCounted

FramesInv == QueueTypes /\ SlabIsMine /\ HeldFrames /\ OrderedFrames(Queue!Underway) /\ Accounted

-----------------------------------------------------------------------------
(* What a step of the whole does to the queue is a step of the queue.         *)
LEMMA QueueMoves == [EventsNext]_pathVars => QueueStep \/ UNCHANGED queueCore
<1>. SUFFICES ASSUME [EventsNext]_pathVars PROVE QueueStep \/ UNCHANGED queueCore
  OBVIOUS
<1>. USE DEF queueCore, eventVars, producerVars, queueVars, senderVars, clientVars,
     Queue!producerVars, Queue!queueVars, Queue!senderVars, Queue!clientVars
<1>1. CASE UNCHANGED pathVars
  BY <1>1 DEF pathVars
<1>2. CASE \E t \in EventTasks : Event(t)
  BY <1>2 DEF Event, QueueStep, Producers
<1>3. CASE DirectFrame
  BY <1>3 DEF DirectFrame, QueueStep, Producers
<1>4. CASE \E t \in Producers : LogLine(t)
  BY <1>4 DEF LogLine, QueueStep
<1>5. CASE LineWhileSending
  BY <1>5 DEF LineWhileSending, SenderLine, QueueStep, SenderMakes
<1>6. CASE FailureLine
  BY <1>6 DEF FailureLine, SenderLine, QueueStep, SenderMakes
<1>7. CASE WalkRing \/ EnableSink
  BY <1>7 DEF WalkRing, EnableSink
<1>8. CASE \E t \in Producers \cup {Sender} : HandOver(t)
  BY <1>8 DEF HandOver, QueueStep
<1>9. CASE Work
  BY <1>9 DEF Work, Queue!Work, Queue!SendTo, Queue!SendFails, QueueStep
<1>10. CASE Connect
  BY <1>10 DEF Connect, Queue!Connect
<1>. QED  BY <1>1, <1>2, <1>3, <1>4, <1>5, <1>6, <1>7, <1>8, <1>9, <1>10 DEF EventsNext

(* A frame ahead of others, or none.                                          *)
LEMMA Prefixed ==
  ASSUME NEW F, NEW x \in F, NEW q \in Seq(F)
  PROVE  /\ <<x>> \o q \in Seq(F) /\ Len(<<x>> \o q) = Len(q) + 1
         /\ (<<x>> \o q)[1] = x /\ \A i \in 1..Len(q) : (<<x>> \o q)[i + 1] = q[i]
         /\ <<>> \o q = q
<1>1. <<x>> \in Seq(F) /\ Len(<<x>>) = 1 /\ <<x>>[1] = x
  OBVIOUS
<1>2. <<x>> \o q \in Seq(F) /\ Len(<<x>> \o q) = 1 + Len(q)
  BY <1>1, ConcatProperties
<1>3. \A i \in 1..(1 + Len(q)) : (<<x>> \o q)[i] = IF i <= 1 THEN <<x>>[i] ELSE q[i - 1]
  BY <1>1, ConcatProperties
<1>4. Len(q) \in Nat
  OBVIOUS
<1>5. (<<x>> \o q)[1] = x
  BY <1>1, <1>3, <1>4
<1>6. ASSUME NEW i \in 1..Len(q) PROVE (<<x>> \o q)[i + 1] = q[i]
  <2>1. i + 1 \in 1..(1 + Len(q)) /\ ~ (i + 1 <= 1) /\ (i + 1) - 1 = i
    BY <1>4
  <2>. QED  BY <1>3, <2>1
<1>7. <<>> \o q = q
  BY ConcatEmptySeq
<1>. QED  BY <1>2, <1>4, <1>5, <1>6, <1>7

(* The frames underway are a sequence of frames.                              *)
LEMMA UnderwayType ==
  ASSUME QueueTypes
  PROVE  /\ Queue!Underway \in Seq(BrowserFrame)
         /\ Queue!Numbered = Marks(Queue!Underway)
         /\ IsFiniteSet(Queue!Numbered) /\ Cardinality(Queue!Numbered) \in Nat
<1>1. Queue!Underway \in Seq(BrowserFrame)
  <2>1. CASE sending = "send"
    BY <2>1, Prefixed DEF QueueTypes, Queue!Underway
  <2>2. CASE sending # "send"
    BY <2>2, Prefixed DEF QueueTypes, Queue!Underway
  <2>. QED  BY <2>1, <2>2
<1>2. Queue!Numbered = Marks(Queue!Underway)
  BY DEF Queue!Numbered, Marks
<1>3. Queue!Numbered \subseteq 1..Len(Queue!Underway)
  BY <1>1, <1>2 DEF Marks
<1>4. IsFiniteSet(Queue!Numbered)
  <2>1. IsFiniteSet(1..Len(Queue!Underway))
    BY <1>1, FS_Interval
  <2>. QED  BY <1>3, <2>1, FS_Subset
<1>. QED  BY <1>1, <1>2, <1>4, FS_CardinalityType

(* The worker takes the oldest frame: it stays underway.                      *)
LEMMA Received ==
  ASSUME QueueTypes, Queue!Receive
  PROVE  Queue!Underway' = Queue!Underway
<1>1. /\ sending = "wait" /\ sending' = "send" /\ s_ws_tx_q # <<>>
      /\ sent' = Head(s_ws_tx_q) /\ s_ws_tx_q' = Tail(s_ws_tx_q)
  BY DEF Queue!Receive
<1>2. s_ws_tx_q \in Seq(BrowserFrame)
  BY DEF QueueTypes
<1>3. <<Head(s_ws_tx_q)>> \o Tail(s_ws_tx_q) = s_ws_tx_q
  BY <1>1, <1>2
<1>4. <<>> \o s_ws_tx_q = s_ws_tx_q
  BY <1>2, ConcatEmptySeq
<1>. QED  BY <1>1, <1>3, <1>4 DEF Queue!Underway

(* A frame that is queued comes last.                                         *)
LEMMA Queued ==
  ASSUME QueueTypes, NEW f \in BrowserFrame, s_ws_tx_q' = Append(s_ws_tx_q, f),
         UNCHANGED <<sending, sent>>
  PROVE  Queue!Underway' = Append(Queue!Underway, f)
<1>1. s_ws_tx_q \in Seq(BrowserFrame) /\ sent \in BrowserFrame
  BY DEF QueueTypes
<1>2. CASE sending = "send"
  <2>1. <<sent>> \o Append(s_ws_tx_q, f) = Append(<<sent>> \o s_ws_tx_q, f)
    BY <1>1
  <2>. QED  BY <1>2, <2>1 DEF Queue!Underway
<1>3. CASE sending # "send"
  <2>1. <<>> \o Append(s_ws_tx_q, f) = Append(<<>> \o s_ws_tx_q, f)
    BY <1>1
  <2>. QED  BY <1>3, <2>1 DEF Queue!Underway
<1>. QED  BY <1>2, <1>3

(* A frame behind the others, with a number or without.                       *)
LEMMA MarksGrow ==
  ASSUME NEW u \in Seq(BrowserFrame), NEW f \in BrowserFrame
  PROVE  /\ f.n = 0 => Marks(Append(u, f)) = Marks(u)
         /\ f.n > 0 => /\ Marks(Append(u, f)) = Marks(u) \cup {Len(u) + 1}
                       /\ Cardinality(Marks(Append(u, f))) = Cardinality(Marks(u)) + 1
         /\ \A i \in Marks(u) : Append(u, f)[i] = u[i] /\ i <= Len(u)
         /\ Append(u, f)[Len(u) + 1] = f
<1>. DEFINE v == Append(u, f)
<1>1. /\ v \in Seq(BrowserFrame) /\ Len(v) = Len(u) + 1 /\ v[Len(u) + 1] = f
      /\ \A i \in 1..Len(u) : v[i] = u[i]
  BY AppendProperties
<1>2. DOMAIN v = 1..(Len(u) + 1) /\ DOMAIN u = 1..Len(u) /\ Len(u) \in Nat
  BY <1>1
<1>. HIDE DEF v
<1>3. f.n \in Nat
  BY DEF BrowserFrame
<1>4. \A i : i \in 1..(Len(u) + 1) <=> i \in 1..Len(u) \/ i = Len(u) + 1
  BY <1>2
<1>5. f.n = 0 => Marks(v) = Marks(u)
  BY <1>1, <1>2, <1>4 DEF Marks
<1>6. f.n > 0 => Marks(v) = Marks(u) \cup {Len(u) + 1}
  BY <1>1, <1>2, <1>4 DEF Marks
<1>7. \A i \in Marks(u) : v[i] = u[i] /\ i <= Len(u) /\ i \in 1..Len(u)
  BY <1>1, <1>2 DEF Marks
<1>8. IsFiniteSet(Marks(u)) /\ Len(u) + 1 \notin Marks(u)
  <2>1. Marks(u) \subseteq 1..Len(u)
    BY <1>2 DEF Marks
  <2>2. Len(u) + 1 \notin 1..Len(u)
    BY <1>2
  <2>3. IsFiniteSet(1..Len(u))
    BY <1>2, FS_Interval
  <2>. QED  BY <2>1, <2>2, <2>3, FS_Subset
<1>9. f.n > 0 => Cardinality(Marks(v)) = Cardinality(Marks(u)) + 1
  BY <1>6, <1>8, FS_AddElement
<1>. QED  BY <1>1, <1>5, <1>6, <1>7, <1>9 DEF v

(* The frame that was sent leaves; the others move up.                        *)
LEMMA MarksShift ==
  ASSUME NEW q \in Seq(BrowserFrame), NEW f \in BrowserFrame, NEW u, u = <<f>> \o q
  PROVE  /\ \A i \in Marks(q) : i + 1 \in Marks(u) /\ u[i + 1] = q[i] /\ i > 0
         /\ f.n > 0 => 1 \in Marks(u)
         /\ u[1] = f
         /\ f.n > 0 => Cardinality(Marks(u)) = Cardinality(Marks(q)) + 1
         /\ ~ (f.n > 0) => Cardinality(Marks(u)) = Cardinality(Marks(q))
<1>1. /\ u \in Seq(BrowserFrame) /\ Len(u) = Len(q) + 1
      /\ u[1] = f /\ \A i \in 1..Len(q) : u[i + 1] = q[i]
  BY Prefixed
<1>2. DOMAIN u = 1..(Len(q) + 1) /\ DOMAIN q = 1..Len(q) /\ Len(q) \in Nat
  BY <1>1
<1>3. \A i \in 1..Len(q) : i + 1 \in 1..(Len(q) + 1)
  BY <1>2
<1>4. \A i \in Marks(q) : i + 1 \in Marks(u) /\ u[i + 1] = q[i] /\ i > 0 /\ i \in Nat
  BY <1>1, <1>2, <1>3 DEF Marks
<1>5. 1 \in 1..(Len(q) + 1)
  BY <1>2
<1>6. 1 \in Marks(u) <=> f.n > 0
  BY <1>1, <1>2, <1>5 DEF Marks
<1>7. IsFiniteSet(Marks(q))
  <2>1. Marks(q) \subseteq 1..Len(q)
    BY <1>2 DEF Marks
  <2>2. IsFiniteSet(1..Len(q))
    BY <1>2, FS_Interval
  <2>. QED  BY <2>1, <2>2, FS_Subset
<1>. DEFINE Rest == Marks(u) \ {1}
            up == [i \in Marks(q) |-> i + 1]
<1>8. ASSUME NEW k \in Rest PROVE k - 1 \in Marks(q) /\ (k - 1) + 1 = k
  <2>1. k \in 1..(Len(q) + 1) /\ k # 1 /\ u[k].n > 0
    BY <1>2 DEF Marks
  <2>2. k - 1 \in 1..Len(q) /\ (k - 1) + 1 = k
    BY <1>2, <2>1
  <2>. QED  BY <1>1, <1>2, <2>1, <2>2 DEF Marks
<1>9. up \in Bijection(Marks(q), Rest)
  <2>1. \A i \in Marks(q) : i + 1 \in Rest
    BY <1>4
  <2>2. up \in [Marks(q) -> Rest]
    BY <2>1
  <2>3. \A i, j \in Marks(q) : up[i] = up[j] => i = j
    BY <1>4
  <2>4. \A k \in Rest : \E i \in Marks(q) : up[i] = k
    BY <1>8
  <2>. HIDE DEF up, Rest
  <2>. QED  BY <2>2, <2>3, <2>4, Fun_IsBij
<1>10. Cardinality(Rest) = Cardinality(Marks(q)) /\ IsFiniteSet(Rest)
  <2>1. ExistsBijection(Marks(q), Rest)
    BY <1>9 DEF ExistsBijection
  <2>. HIDE DEF Rest
  <2>. QED  BY <1>7, <2>1, FS_Bijection
<1>11. CASE f.n > 0
  <2>1. Marks(u) = Rest \cup {1} /\ 1 \notin Rest
    BY <1>6, <1>11
  <2>2. Cardinality(Rest \cup {1}) = Cardinality(Rest) + 1
    BY <1>10, <2>1, FS_AddElement
  <2>. QED  BY <1>1, <1>4, <1>6, <1>10, <1>11, <2>1, <2>2
<1>12. CASE ~ (f.n > 0)
  <2>1. Marks(u) = Rest
    BY <1>6, <1>12
  <2>2. Cardinality(Marks(u)) = Cardinality(Marks(q))
    BY <1>10, <2>1
  <2>. QED  BY <1>1, <1>4, <1>6, <1>12, <2>2
<1>. QED  BY <1>11, <1>12

(* Initially nothing is on its way.                                           *)
LEMMA QueueStarts == Queue!Init => FramesInv
<1>. SUFFICES ASSUME Queue!Init PROVE FramesInv
  OBVIOUS
<1>. USE DEF Queue!Init, Queue!Tasks
<1>1. QueueTypes
  BY DEF QueueTypes, BrowserFrame, Queue!NoFrame
<1>2. SlabIsMine
  BY DEF SlabIsMine
<1>3. HeldFrames
  BY DEF HeldFrames, Queue!NoFrame
<1>4. Marks(Queue!Underway) = {} /\ Queue!Numbered = {}
  <2>1. Queue!Underway = <<>>
    BY DEF Queue!Underway
  <2>2. Marks(<<>>) = {}
    BY DEF Marks
  <2>. QED  BY <1>1, <2>1, <2>2, UnderwayType
<1>5. OrderedFrames(Queue!Underway)
  BY <1>4 DEF OrderedFrames
<1>6. Accounted
  <2>1. Queue!Frames = {}
    BY DEF Queue!Frames
  <2>2. Queue!InHand = {}
    BY DEF Queue!InHand
  <2>. QED  BY <1>4, <2>1, <2>2, FS_EmptySet DEF Accounted, DropsCounted
<1>. QED  BY <1>1, <1>2, <1>3, <1>5, <1>6 DEF FramesInv

(* A numbered frame underway is a frame.                                      *)
LEMMA FrameOf ==
  ASSUME NEW u \in Seq(BrowserFrame), NEW i \in Marks(u)
  PROVE  i \in 1..Len(u) /\ u[i] \in BrowserFrame /\ u[i].n \in Nat /\ u[i].n > 0
<1>1. i \in 1..Len(u) /\ u[i].n > 0
  BY DEF Marks
<1>2. u[i] \in BrowserFrame
  BY <1>1
<1>3. \A f \in BrowserFrame : f.n \in Nat
  BY DEF BrowserFrame
<1>. QED  BY <1>1, <1>2, <1>3

(* The order of the frames underway where they and what was sent stay, and no *)
(* task becomes busy but with a newer frame.                                  *)
LEMMA OrderStays ==
  ASSUME FramesInv, QueueTypes', Queue!Underway' = Queue!Underway, newest' = newest,
         \A t \in Producers :
           /\ made[t] <= made'[t]
           /\ step'[t] # "idle" => step[t] # "idle" \/ made[t] < made'[t]
  PROVE  OrderedFrames(Queue!Underway)' /\ Queue!Numbered' = Queue!Numbered
<1>. DEFINE u == Queue!Underway
<1>1. /\ made \in [Producers -> Nat] /\ made' \in [Producers -> Nat]
      /\ u \in Seq(BrowserFrame) /\ OrderedFrames(u)
  BY UnderwayType DEF FramesInv, QueueTypes
<1>2. \A i \in Marks(u) : u[i].n \in Nat
  BY <1>1, FrameOf
<1>3. ASSUME NEW i \in Marks(u)
      PROVE  /\ u[i].from \in Producers
             /\ newest'[u[i].from] < u[i].n /\ u[i].n <= made'[u[i].from]
             /\ step'[u[i].from] # "idle" => u[i].n < made'[u[i].from]
             /\ \A j \in Marks(u) : i < j /\ u[j].from = u[i].from => u[i].n < u[j].n
  <2>. DEFINE t == u[i].from
              n == u[i].n
  <2>1. /\ t \in Producers /\ newest[t] < n /\ n <= made[t]
        /\ step[t] # "idle" => n < made[t]
        /\ \A j \in Marks(u) : i < j /\ u[j].from = t => n < u[j].n
    BY <1>1 DEF OrderedFrames
  <2>2. /\ made[t] <= made'[t] /\ made[t] \in Nat /\ made'[t] \in Nat /\ n \in Nat
        /\ step'[t] # "idle" => step[t] # "idle" \/ made[t] < made'[t]
    BY <1>1, <1>2, <2>1
  <2>. HIDE DEF t, n
  <2>3. n <= made'[t] /\ (step'[t] # "idle" => n < made'[t])
    BY <2>1, <2>2
  <2>. QED  BY <2>1, <2>3 DEF t, n
<1>. HIDE DEF u
<1>4. OrderedFrames(u)'
  BY <1>3 DEF OrderedFrames, Marks, u
<1>5. Queue!Numbered' = Queue!Numbered
  BY DEF Queue!Numbered
<1>. QED  BY <1>4, <1>5 DEF u

(* What was said of the order includes what is promised of it.                *)
LEMMA OrderedIsInOrder ==
  ASSUME FramesInv
  PROVE  InOrder
<1>1. /\ Queue!Numbered = Marks(Queue!Underway) /\ OrderedFrames(Queue!Underway)
      /\ newest \in [Producers -> Nat] /\ HeldFrames
  BY UnderwayType DEF FramesInv, QueueTypes
<1>2. Queue!Underway \in Seq(BrowserFrame)
  BY UnderwayType DEF FramesInv
<1>3. ASSUME NEW i \in Queue!Numbered
      PROVE  /\ Queue!Underway[i].n > newest[Queue!Underway[i].from]
             /\ \A j \in Queue!Numbered :
                  i < j /\ Queue!Underway[j].from = Queue!Underway[i].from
                    => Queue!Underway[i].n < Queue!Underway[j].n
  <2>1. /\ Queue!Underway[i].from \in Producers
        /\ newest[Queue!Underway[i].from] < Queue!Underway[i].n
        /\ \A j \in Queue!Numbered :
             i < j /\ Queue!Underway[j].from = Queue!Underway[i].from
               => Queue!Underway[i].n < Queue!Underway[j].n
    BY <1>1 DEF OrderedFrames
  <2>2. newest[Queue!Underway[i].from] \in Nat /\ Queue!Underway[i].n \in Nat
    BY <1>1, <1>2, <2>1, FrameOf
  <2>. QED  BY <2>1, <2>2
<1>4. \A t \in Producers : step[t] = "enqueue" => frame[t] = [from |-> t, n |-> made[t]]
  BY <1>1 DEF HeldFrames
<1>. QED  BY <1>3, <1>4 DEF InOrder, Queue!InOrder

(* The counts the account is made of.                                         *)
LEMMA Counts ==
  ASSUME FramesInv
  PROVE  /\ Cardinality(Queue!Frames) \in Nat /\ Cardinality(Queue!InHand) \in Nat
         /\ Cardinality(Queue!Numbered) \in Nat
         /\ s_ws_tx_drops \in Nat /\ delivered \in Nat /\ lost \in Nat
         /\ Cardinality(Queue!Frames) =
              Cardinality(Queue!InHand) + Cardinality(Queue!Numbered)
                + delivered + s_ws_tx_drops + lost
  BY UnderwayType, FS_CardinalityType DEF FramesInv, Accounted, QueueTypes, DropsCounted

(* A producer that is busy has a numbered frame in hand.                      *)
LEMMA Busy ==
  ASSUME FramesInv, NEW t \in Producers
  PROVE  /\ t \in Queue!InHand <=> step[t] # "idle"
         /\ newest[t] \in Nat /\ made[t] \in Nat
<1>1. newest[t] \in Nat /\ made[t] \in Nat
  BY DEF FramesInv, QueueTypes
<1>2. step[t] # "idle" => frame[t] = [from |-> t, n |-> made[t]] /\ newest[t] < made[t]
  BY DEF FramesInv, HeldFrames
<1>3. step[t] # "idle" => frame[t].n = made[t]
  BY <1>2
<1>4. step[t] # "idle" => frame[t].n > 0
  BY <1>1, <1>2, <1>3
<1>. QED  BY <1>1, <1>4 DEF Queue!InHand

(* A new frame: one more was made and is in hand.                             *)
LEMMA MakeKeeps ==
  ASSUME FramesInv, NEW t \in Producers, Queue!Make(t, "format") \/ Queue!Make(t, "copy")
  PROVE  FramesInv'
<1>. DEFINE n == made[t] + 1
            new == [from |-> t, n |-> n]
<1>. USE DEF Queue!queueVars, Queue!senderVars
<1>1. PICK place \in {"format", "copy"} : Queue!Make(t, place)
  OBVIOUS
<1>2. /\ QueueTypes /\ SlabIsMine /\ HeldFrames /\ step[t] = "idle"
      /\ made[t] \in Nat /\ newest[t] \in Nat /\ newest[t] <= made[t]
      /\ made \in [Producers -> Nat] /\ newest \in [Producers -> Nat]
      /\ step \in [Producers \cup {Sender} -> {"idle", "format", "snapshot", "copy", "enqueue"}]
      /\ frame \in [Producers \cup {Sender} -> BrowserFrame]
  BY <1>1 DEF FramesInv, QueueTypes, HeldFrames, Queue!Make
<1>3. /\ made' = [made EXCEPT ![t] = n] /\ step' = [step EXCEPT ![t] = place]
      /\ UNCHANGED <<s_evt_mutex, s_evt_buf, lost, s_ws_tx_q, s_ws_tx_drops, sending, sent,
                     delivered, newest>>
  BY <1>1, <1>2 DEF Queue!Make, Queue!Hand, Queue!Goto
<1>4. made'[t] = n
  BY <1>2, <1>3
<1>5. frame' = [frame EXCEPT ![t] = new]
  BY <1>1, <1>4 DEF Queue!Make, Queue!Hand
<1>6. n \in Nat /\ made[t] < n /\ newest[t] < n /\ n > 0 /\ new \in BrowserFrame
  BY <1>2 DEF BrowserFrame
<1>. HIDE DEF n
<1>7. /\ step' \in [Producers \cup {Sender} -> {"idle", "format", "snapshot", "copy", "enqueue"}]
      /\ frame' \in [Producers \cup {Sender} -> BrowserFrame] /\ made' \in [Producers -> Nat]
  BY <1>2, <1>3, <1>5, <1>6
<1>8. QueueTypes'
  BY <1>2, <1>3, <1>7 DEF QueueTypes
<1>9. /\ step'[t] = place /\ frame'[t] = new
      /\ \A s \in Producers \cup {Sender} : s # t => step'[s] = step[s] /\ frame'[s] = frame[s]
      /\ \A s \in Producers : s # t => made'[s] = made[s]
  BY <1>2, <1>3, <1>5
<1>10. SlabIsMine'
  BY <1>2, <1>3, <1>9 DEF SlabIsMine
<1>11. HeldFrames'
  <2>1. Sender # t
    BY EventsAssumption
  <2>. QED  BY <1>2, <1>3, <1>4, <1>6, <1>9, <2>1 DEF HeldFrames
<1>12. Queue!Underway' = Queue!Underway
  BY <1>3 DEF Queue!Underway
<1>13. \A s \in Producers :
         /\ made[s] <= made'[s]
         /\ step'[s] # "idle" => step[s] # "idle" \/ made[s] < made'[s]
  BY <1>2, <1>4, <1>6, <1>9
<1>14. OrderedFrames(Queue!Underway)' /\ Queue!Numbered' = Queue!Numbered
  BY <1>3, <1>8, <1>12, <1>13, OrderStays
<1>15. Queue!Frames' = Queue!Frames \cup {<<t, n>>} /\ <<t, n>> \notin Queue!Frames
  <2>1. \A s : \A k : <<s, k>> \in Queue!Frames <=> s \in Producers /\ k \in 1..made[s]
    BY DEF Queue!Frames
  <2>2. \A s : \A k : <<s, k>> \in Queue!Frames' <=> s \in Producers /\ k \in 1..made'[s]
    BY DEF Queue!Frames
  <2>3. \A k : k \in 1..n <=> k \in 1..made[t] \/ k = n
    BY <1>2, <1>6 DEF n
  <2>4. n \notin 1..made[t]
    BY <1>2, <1>6
  <2>5. /\ \A x \in Queue!Frames : x = <<x[1], x[2]>>
        /\ \A x \in Queue!Frames' : x = <<x[1], x[2]>>
    BY DEF Queue!Frames
  <2>6. \A s : \A k : <<s, k>> \in Queue!Frames' <=> <<s, k>> \in Queue!Frames \/ (s = t /\ k = n)
    BY <1>4, <1>9, <2>1, <2>2, <2>3
  <2>7. \A x : x \in Queue!Frames' <=> x \in Queue!Frames \/ x = <<t, n>>
    BY <2>5, <2>6
  <2>. QED  BY <2>1, <2>4, <2>7
<1>16. Queue!InHand' = Queue!InHand \cup {t} /\ t \notin Queue!InHand
  <2>1. new.n > 0
    BY <1>6
  <2>2. place # "idle"
    OBVIOUS
  <2>. HIDE DEF new
  <2>. QED  BY <1>2, <1>9, <2>1, <2>2 DEF Queue!InHand
<1>17. Accounted'
  <2>1. /\ Cardinality(Queue!Frames') = Cardinality(Queue!Frames) + 1
        /\ IsFiniteSet(Queue!Frames')
    BY <1>15, FS_AddElement DEF FramesInv, Accounted
  <2>2. /\ Cardinality(Queue!InHand') = Cardinality(Queue!InHand) + 1
        /\ IsFiniteSet(Queue!InHand')
    BY <1>16, FS_AddElement DEF FramesInv, Accounted
  <2>3. Cardinality(Queue!Frames') =
          Cardinality(Queue!InHand') + Cardinality(Queue!Numbered')
            + delivered' + s_ws_tx_drops' + lost'
    BY <1>3, <1>14, <2>1, <2>2, Counts
  <2>. QED  BY <2>1, <2>2, <2>3 DEF Accounted, DropsCounted
<1>. QED  BY <1>8, <1>10, <1>11, <1>14, <1>17 DEF FramesInv

(* A line of the worker as a frame: it has no number.                         *)
LEMMA SenderMakesKeeps ==
  ASSUME FramesInv, SenderMakes
  PROVE  FramesInv'
<1>. DEFINE new == [from |-> Sender, n |-> 0]
<1>1. /\ QueueTypes /\ SlabIsMine /\ HeldFrames /\ Sender \notin Producers
      /\ step \in [Producers \cup {Sender} -> {"idle", "format", "snapshot", "copy", "enqueue"}]
      /\ frame \in [Producers \cup {Sender} -> BrowserFrame]
  BY EventsAssumption DEF FramesInv, QueueTypes
<1>2. /\ step' = [step EXCEPT ![Sender] = "copy"] /\ frame' = [frame EXCEPT ![Sender] = new]
      /\ UNCHANGED <<s_evt_mutex, s_evt_buf, made, lost, s_ws_tx_q, s_ws_tx_drops, sending, sent,
                     delivered, newest>>
  BY DEF SenderMakes, Queue!MakeLogFrame, Queue!LogFrame, Queue!Hand, Queue!Goto
<1>3. new \in BrowserFrame /\ new.n = 0
  BY DEF BrowserFrame
<1>. HIDE DEF new
<1>4. /\ step' \in [Producers \cup {Sender} -> {"idle", "format", "snapshot", "copy", "enqueue"}]
      /\ frame' \in [Producers \cup {Sender} -> BrowserFrame]
      /\ step'[Sender] = "copy" /\ frame'[Sender] = new
      /\ \A s \in Producers : step'[s] = step[s] /\ frame'[s] = frame[s]
  BY <1>1, <1>2, <1>3
<1>5. QueueTypes'
  BY <1>1, <1>2, <1>4 DEF QueueTypes
<1>6. SlabIsMine'
  BY <1>1, <1>2, <1>4 DEF SlabIsMine
<1>7. HeldFrames'
  BY <1>1, <1>2, <1>3, <1>4 DEF HeldFrames
<1>8. OrderedFrames(Queue!Underway)' /\ Queue!Numbered' = Queue!Numbered
  <2>1. Queue!Underway' = Queue!Underway
    BY <1>2 DEF Queue!Underway
  <2>2. \A s \in Producers : made[s] \in Nat
    BY <1>1 DEF QueueTypes
  <2>. QED  BY <1>2, <1>4, <1>5, <2>1, <2>2, OrderStays
<1>9. Queue!InHand' = Queue!InHand /\ Queue!Frames' = Queue!Frames
  BY <1>2, <1>4 DEF Queue!InHand, Queue!Frames
<1>10. Accounted'
  BY <1>2, <1>8, <1>9, Counts DEF FramesInv, Accounted, DropsCounted
<1>. QED  BY <1>5, <1>6, <1>7, <1>8, <1>10 DEF FramesInv

(* Where a task that stays busy keeps its frame.                              *)
LEMMA HandStays ==
  ASSUME FramesInv, NEW t \in Producers \cup {Sender}, NEW x, x # "idle", step[t] # "idle",
         step' = [step EXCEPT ![t] = x], UNCHANGED frame
  PROVE  Queue!InHand' = Queue!InHand
<1>1. step \in [Producers \cup {Sender} -> {"idle", "format", "snapshot", "copy", "enqueue"}]
  BY DEF FramesInv, QueueTypes
<1>2. \A s \in Producers : step'[s] # "idle" <=> step[s] # "idle"
  BY <1>1
<1>. QED  BY <1>2 DEF Queue!InHand

(* Where a task is done with its frame: a producer's was numbered.            *)
LEMMA HandLeft ==
  ASSUME FramesInv, NEW t \in Producers \cup {Sender}, step[t] # "idle",
         step' = [step EXCEPT ![t] = "idle"], frame' = [frame EXCEPT ![t] = Queue!NoFrame]
  PROVE  /\ IsFiniteSet(Queue!InHand')
         /\ t \in Producers => Cardinality(Queue!InHand) = Cardinality(Queue!InHand') + 1
         /\ t \notin Producers => Queue!InHand' = Queue!InHand
<1>1. /\ step \in [Producers \cup {Sender} -> {"idle", "format", "snapshot", "copy", "enqueue"}]
      /\ frame \in [Producers \cup {Sender} -> BrowserFrame]
      /\ IsFiniteSet(Queue!InHand)
  BY DEF FramesInv, QueueTypes, Accounted
<1>2. \A s \in Producers : s # t => step'[s] = step[s] /\ frame'[s] = frame[s]
  BY <1>1
<1>3. step'[t] = "idle"
  BY <1>1
<1>4. Queue!InHand' = Queue!InHand \ {t}
  BY <1>2, <1>3 DEF Queue!InHand
<1>5. IsFiniteSet(Queue!InHand')
  BY <1>1, <1>4, FS_RemoveElement
<1>6. CASE t \in Producers
  <2>1. t \in Queue!InHand
    BY <1>6, Busy
  <2>2. Cardinality(Queue!InHand \ {t}) = Cardinality(Queue!InHand) - 1
    BY <1>1, <2>1, FS_RemoveElement
  <2>3. Cardinality(Queue!InHand) \in Nat
    BY <1>1, FS_CardinalityType
  <2>. QED  BY <1>4, <1>5, <1>6, <2>2, <2>3
<1>7. CASE t \notin Producers
  <2>1. t \notin Queue!InHand
    BY <1>7 DEF Queue!InHand
  <2>. QED  BY <1>4, <1>5, <1>7, <2>1
<1>. QED  BY <1>6, <1>7

(* The two halves of ws_event_broadcast, and a copy.                          *)
LEMMA ProduceKeeps ==
  ASSUME FramesInv, NEW t \in Producers \cup {Sender},
         Queue!Format(t) \/ Queue!Snapshot(t) \/ Queue!Copy(t)
  PROVE  FramesInv'
<1>. USE DEF Queue!queueVars, Queue!senderVars, Queue!Goto, Queue!Hand
<1>0. /\ QueueTypes /\ SlabIsMine /\ HeldFrames /\ Sender \notin Producers
      /\ Nobody \notin Producers \cup {Sender}
      /\ step \in [Producers \cup {Sender} -> {"idle", "format", "snapshot", "copy", "enqueue"}]
      /\ frame \in [Producers \cup {Sender} -> BrowserFrame]
      /\ IsFiniteSet(Queue!Frames) /\ IsFiniteSet(Queue!InHand)
  BY EventsAssumption DEF FramesInv, QueueTypes, Accounted
<1>1. UNCHANGED <<made, newest, delivered, s_ws_tx_q, sending, sent>>
  BY DEF Queue!Format, Queue!Snapshot, Queue!Copy
<1>2. step[t] # "idle"
  BY DEF Queue!Format, Queue!Snapshot, Queue!Copy
<1>3. Queue!NoFrame \in BrowserFrame /\ Queue!NoFrame.n = 0
  BY DEF Queue!NoFrame, BrowserFrame
<1>4. ASSUME NEW x \in {"snapshot", "enqueue"}, step' = [step EXCEPT ![t] = x], UNCHANGED frame,
             UNCHANGED <<lost, s_ws_tx_drops>>,
             s_evt_mutex' \in Producers \cup {Sender, Nobody}, SlabIsMine',
             t = Sender => x = "enqueue"
      PROVE  FramesInv'
  <2>1. /\ step' \in [Producers \cup {Sender} -> {"idle", "format", "snapshot", "copy", "enqueue"}]
        /\ step'[t] = x /\ \A s \in Producers \cup {Sender} : s # t => step'[s] = step[s]
    BY <1>0, <1>4
  <2>2. QueueTypes'
    BY <1>0, <1>1, <1>4, <2>1 DEF QueueTypes
  <2>3. HeldFrames'
    BY <1>0, <1>1, <1>2, <1>4, <2>1 DEF HeldFrames
  <2>4. Queue!Underway' = Queue!Underway
    BY <1>1 DEF Queue!Underway
  <2>5. \A s \in Producers : made[s] \in Nat
    BY <1>0 DEF QueueTypes
  <2>6. OrderedFrames(Queue!Underway)' /\ Queue!Numbered' = Queue!Numbered
    BY <1>1, <1>2, <2>1, <2>2, <2>4, <2>5, OrderStays
  <2>7. Queue!InHand' = Queue!InHand /\ Queue!Frames' = Queue!Frames
    <3>1. Queue!InHand' = Queue!InHand
      BY <1>2, <1>4, HandStays
    <3>. QED  BY <1>1, <3>1 DEF Queue!Frames
  <2>8. Accounted'
    BY <1>0, <1>1, <1>4, <2>6, <2>7, Counts DEF Accounted, DropsCounted
  <2>. QED  BY <1>4, <2>2, <2>3, <2>6, <2>8 DEF FramesInv
<1>5. ASSUME step' = [step EXCEPT ![t] = "idle"], frame' = [frame EXCEPT ![t] = Queue!NoFrame],
             s_evt_mutex' \in Producers \cup {Sender, Nobody}, SlabIsMine',
             lost' \in Nat, s_ws_tx_drops' \in Nat,
             t \in Producers => lost' + s_ws_tx_drops' = lost + s_ws_tx_drops + 1,
             t \notin Producers => lost' + s_ws_tx_drops' = lost + s_ws_tx_drops
      PROVE  FramesInv'
  <2>1. /\ step' \in [Producers \cup {Sender} -> {"idle", "format", "snapshot", "copy", "enqueue"}]
        /\ frame' \in [Producers \cup {Sender} -> BrowserFrame]
        /\ step'[t] = "idle" /\ frame'[t] = Queue!NoFrame
        /\ \A s \in Producers \cup {Sender} : s # t => step'[s] = step[s] /\ frame'[s] = frame[s]
    BY <1>0, <1>3, <1>5
  <2>2. QueueTypes'
    BY <1>0, <1>1, <1>5, <2>1 DEF QueueTypes
  <2>3. HeldFrames'
    BY <1>0, <1>1, <1>3, <2>1 DEF HeldFrames
  <2>4. Queue!Underway' = Queue!Underway
    BY <1>1 DEF Queue!Underway
  <2>5. \A s \in Producers : made[s] \in Nat
    BY <1>0 DEF QueueTypes
  <2>6. OrderedFrames(Queue!Underway)' /\ Queue!Numbered' = Queue!Numbered
    BY <1>1, <2>1, <2>2, <2>4, <2>5, OrderStays
  <2>7. Queue!Frames' = Queue!Frames
    BY <1>1 DEF Queue!Frames
  <2>8. /\ IsFiniteSet(Queue!InHand')
        /\ t \in Producers => Cardinality(Queue!InHand) = Cardinality(Queue!InHand') + 1
        /\ t \notin Producers => Queue!InHand' = Queue!InHand
    BY <1>2, <1>5, HandLeft
  <2>9. Cardinality(Queue!Frames') =
          Cardinality(Queue!InHand') + Cardinality(Queue!Numbered')
            + delivered' + s_ws_tx_drops' + lost'
    <3>1. Cardinality(Queue!InHand') \in Nat
      BY <2>8, FS_CardinalityType
    <3>2. /\ Cardinality(Queue!Frames') = Cardinality(Queue!Frames)
          /\ Cardinality(Queue!Numbered') = Cardinality(Queue!Numbered)
          /\ delivered' = delivered
      BY <1>1, <2>6, <2>7
    <3>3. CASE t \in Producers
      <4>1. /\ Cardinality(Queue!InHand) = Cardinality(Queue!InHand') + 1
            /\ lost' + s_ws_tx_drops' = lost + s_ws_tx_drops + 1
            /\ lost' \in Nat /\ s_ws_tx_drops' \in Nat
        BY <1>5, <2>8, <3>3
      <4>. QED  BY <3>1, <3>2, <4>1, Counts
    <3>4. CASE t \notin Producers
      <4>1. /\ Cardinality(Queue!InHand') = Cardinality(Queue!InHand)
            /\ lost' + s_ws_tx_drops' = lost + s_ws_tx_drops
            /\ lost' \in Nat /\ s_ws_tx_drops' \in Nat
        BY <1>5, <2>8, <3>4
      <4>. QED  BY <3>1, <3>2, <4>1, Counts
    <3>. QED  BY <3>3, <3>4
  <2>10. Accounted'
    BY <1>0, <2>7, <2>8, <2>9 DEF Accounted, DropsCounted
  <2>. QED  BY <1>5, <2>2, <2>3, <2>6, <2>10 DEF FramesInv
<1>6. lost \in Nat /\ s_ws_tx_drops \in Nat
  BY Counts
<1>7. CASE Queue!Format(t)
  <2>1. /\ step[t] = "format" /\ s_evt_mutex = Nobody /\ s_evt_mutex' = t /\ s_evt_buf' = frame[t]
        /\ step' = [step EXCEPT ![t] = "snapshot"] /\ UNCHANGED <<frame, lost, s_ws_tx_drops>>
    BY <1>7 DEF Queue!Format
  <2>2. t # Sender
    BY <1>0, <2>1 DEF HeldFrames
  <2>3. SlabIsMine'
    <3>. SUFFICES ASSUME NEW s \in Producers, step'[s] = "snapshot"
                  PROVE  s_evt_mutex' = s /\ s_evt_buf' = frame'[s]
      BY DEF SlabIsMine
    <3>1. CASE s = t
      BY <2>1, <3>1
    <3>2. CASE s # t
      BY <1>0, <2>1, <3>2 DEF SlabIsMine
    <3>. QED  BY <3>1, <3>2
  <2>. QED  BY <1>4, <2>1, <2>2, <2>3
<1>8. CASE Queue!Snapshot(t)
  <2>1. /\ step[t] = "snapshot" /\ s_evt_mutex' = Nobody /\ UNCHANGED s_ws_tx_drops
        /\ \/ /\ step' = [step EXCEPT ![t] = "enqueue"]
              /\ frame' = [frame EXCEPT ![t] = s_evt_buf] /\ lost' = lost
           \/ /\ step' = [step EXCEPT ![t] = "idle"]
              /\ frame' = [frame EXCEPT ![t] = Queue!NoFrame] /\ lost' = lost + 1
    BY <1>8 DEF Queue!Snapshot
  <2>2. t \in Producers /\ t # Sender
    BY <1>0, <2>1 DEF HeldFrames
  <2>3. s_evt_mutex = t /\ s_evt_buf = frame[t]
    BY <1>0, <2>1, <2>2 DEF SlabIsMine
  <2>4. SlabIsMine'
    <3>1. ASSUME NEW s \in Producers PROVE step'[s] # "snapshot"
      <4>1. CASE s = t
        BY <1>0, <2>1, <4>1
      <4>2. CASE s # t
        BY <1>0, <2>1, <2>3, <4>2 DEF SlabIsMine
      <4>. QED  BY <4>1, <4>2
    <3>. QED  BY <3>1 DEF SlabIsMine
  <2>5. [frame EXCEPT ![t] = s_evt_buf] = frame
    BY <1>0, <2>3
  <2>6. CASE step' = [step EXCEPT ![t] = "enqueue"] /\ frame' = [frame EXCEPT ![t] = s_evt_buf]
               /\ lost' = lost
    BY <1>4, <2>1, <2>2, <2>4, <2>5, <2>6
  <2>7. CASE step' = [step EXCEPT ![t] = "idle"]
              /\ frame' = [frame EXCEPT ![t] = Queue!NoFrame] /\ lost' = lost + 1
    BY <1>5, <1>6, <2>1, <2>2, <2>4, <2>7
  <2>. QED  BY <2>1, <2>6, <2>7
<1>9. CASE Queue!Copy(t)
  <2>1. /\ step[t] = "copy" /\ UNCHANGED <<s_evt_mutex, s_evt_buf, lost>>
        /\ \/ step' = [step EXCEPT ![t] = "enqueue"] /\ UNCHANGED <<frame, s_ws_tx_drops>>
           \/ /\ step' = [step EXCEPT ![t] = "idle"]
              /\ frame' = [frame EXCEPT ![t] = Queue!NoFrame]
              /\ s_ws_tx_drops' = s_ws_tx_drops + (IF frame[t].n = 0 THEN 0 ELSE 1)
    BY <1>9 DEF Queue!Copy
  <2>2. s_evt_mutex' \in Producers \cup {Sender, Nobody}
    BY <1>0, <2>1 DEF QueueTypes
  <2>3. SlabIsMine'
    <3>. SUFFICES ASSUME NEW s \in Producers, step'[s] = "snapshot"
                  PROVE  s_evt_mutex' = s /\ s_evt_buf' = frame'[s]
      BY DEF SlabIsMine
    <3>1. s # t /\ step[s] = "snapshot"
      BY <1>0, <2>1
    <3>2. frame'[s] = frame[s]
      BY <1>0, <2>1, <3>1
    <3>. QED  BY <1>0, <2>1, <3>1, <3>2 DEF SlabIsMine
  <2>4. CASE step' = [step EXCEPT ![t] = "enqueue"] /\ UNCHANGED <<frame, s_ws_tx_drops>>
    BY <1>4, <2>1, <2>2, <2>3, <2>4
  <2>5. CASE /\ step' = [step EXCEPT ![t] = "idle"]
             /\ frame' = [frame EXCEPT ![t] = Queue!NoFrame]
             /\ s_ws_tx_drops' = s_ws_tx_drops + (IF frame[t].n = 0 THEN 0 ELSE 1)
    <3>1. IF t \in Producers THEN frame[t].n # 0 ELSE frame[t].n = 0
      <4>1. CASE t \in Producers
        BY <1>2, <4>1, Busy DEF Queue!InHand
      <4>2. CASE t \notin Producers
        BY <1>0, <4>2 DEF HeldFrames
      <4>. QED  BY <4>1, <4>2
    <3>2. CASE t \in Producers
      BY <1>5, <1>6, <2>1, <2>2, <2>3, <2>5, <3>1, <3>2
    <3>3. CASE t \notin Producers
      BY <1>5, <1>6, <2>1, <2>2, <2>3, <2>5, <3>1, <3>3
    <3>. QED  BY <3>2, <3>3
  <2>. QED  BY <2>1, <2>4, <2>5
<1>. QED  BY <1>7, <1>8, <1>9

(* tx_enqueue_owned: the frame comes last in the queue, or is counted.        *)
LEMMA EnqueueKeeps ==
  ASSUME FramesInv, NEW t \in Producers \cup {Sender}, Queue!Enqueue(t)
  PROVE  FramesInv'
<1>. DEFINE f == frame[t]
            u == Queue!Underway
<1>. USE DEF Queue!queueVars, Queue!senderVars, Queue!Goto, Queue!Hand
<1>1. /\ QueueTypes /\ SlabIsMine /\ HeldFrames /\ OrderedFrames(u) /\ Sender \notin Producers
      /\ step \in [Producers \cup {Sender} -> {"idle", "format", "snapshot", "copy", "enqueue"}]
      /\ frame \in [Producers \cup {Sender} -> BrowserFrame]
      /\ IsFiniteSet(Queue!Frames) /\ IsFiniteSet(Queue!InHand)
      /\ s_ws_tx_q \in Seq(BrowserFrame) /\ f \in BrowserFrame /\ f.n \in Nat
      /\ made \in [Producers -> Nat] /\ newest \in [Producers -> Nat]
  BY EventsAssumption DEF FramesInv, QueueTypes, Accounted, BrowserFrame
<1>2. /\ step[t] = "enqueue" /\ step' = [step EXCEPT ![t] = "idle"]
      /\ frame' = [frame EXCEPT ![t] = Queue!NoFrame]
      /\ UNCHANGED <<s_evt_mutex, s_evt_buf, made, lost, sending, sent, delivered, newest>>
      /\ \/ s_ws_tx_q' = Append(s_ws_tx_q, f) /\ s_ws_tx_drops' = s_ws_tx_drops
         \/ /\ s_ws_tx_drops' = s_ws_tx_drops + (IF f.n = 0 THEN 0 ELSE 1)
            /\ s_ws_tx_q' = s_ws_tx_q
  BY DEF Queue!Enqueue
<1>3. Queue!NoFrame \in BrowserFrame /\ Queue!NoFrame.n = 0
  BY DEF Queue!NoFrame, BrowserFrame
<1>4. /\ step' \in [Producers \cup {Sender} -> {"idle", "format", "snapshot", "copy", "enqueue"}]
      /\ frame' \in [Producers \cup {Sender} -> BrowserFrame]
      /\ step'[t] = "idle" /\ frame'[t] = Queue!NoFrame
      /\ \A s \in Producers \cup {Sender} : s # t => step'[s] = step[s] /\ frame'[s] = frame[s]
  BY <1>1, <1>2, <1>3
<1>5. s_ws_tx_q' \in Seq(BrowserFrame)
  <2>1. Append(s_ws_tx_q, f) \in Seq(BrowserFrame)
    BY <1>1, AppendProperties
  <2>. QED  BY <1>1, <1>2, <2>1
<1>6. s_ws_tx_drops' \in Nat
  BY <1>1, <1>2 DEF QueueTypes
<1>7. QueueTypes'
  BY <1>1, <1>2, <1>4, <1>5, <1>6 DEF QueueTypes
<1>8. SlabIsMine'
  <2>. SUFFICES ASSUME NEW s \in Producers, step'[s] = "snapshot"
                PROVE  s_evt_mutex' = s /\ s_evt_buf' = frame'[s]
    BY DEF SlabIsMine
  <2>1. s # t
    BY <1>4
  <2>2. step'[s] = step[s] /\ frame'[s] = frame[s]
    BY <1>4, <2>1
  <2>. QED  BY <1>1, <1>2, <2>2 DEF SlabIsMine
<1>9. HeldFrames'
  BY <1>1, <1>2, <1>3, <1>4 DEF HeldFrames
<1>10. /\ t \in Producers => f = [from |-> t, n |-> made[t]] /\ newest[t] < made[t] /\ f.n > 0
       /\ t \notin Producers => f.n = 0
  <2>1. CASE t \in Producers
    <3>1. f = [from |-> t, n |-> made[t]] /\ newest[t] < made[t]
      BY <1>1, <1>2, <2>1 DEF HeldFrames
    <3>2. f.n = made[t] /\ newest[t] \in Nat /\ made[t] \in Nat
      BY <1>1, <2>1, <3>1
    <3>. QED  BY <2>1, <3>1, <3>2
  <2>2. CASE t \notin Producers
    BY <1>1, <2>2 DEF HeldFrames
  <2>. QED  BY <2>1, <2>2
<1>11. Queue!Frames' = Queue!Frames
  BY <1>2 DEF Queue!Frames
<1>12. /\ IsFiniteSet(Queue!InHand')
       /\ t \in Producers => Cardinality(Queue!InHand) = Cardinality(Queue!InHand') + 1
       /\ t \notin Producers => Queue!InHand' = Queue!InHand
  BY <1>2, HandLeft
<1>13. Cardinality(Queue!InHand') \in Nat
  BY <1>12, FS_CardinalityType
<1>14. u \in Seq(BrowserFrame) /\ Queue!Numbered = Marks(u) /\ Queue!Numbered' = Marks(u')
  <2>1. Queue!Numbered = Marks(Queue!Underway) /\ Queue!Underway \in Seq(BrowserFrame)
    BY <1>1, UnderwayType
  <2>2. Queue!Numbered' = Marks(Queue!Underway')
    BY DEF Queue!Numbered, Marks
  <2>. QED  BY <2>1, <2>2
<1>15. ASSUME s_ws_tx_q' = Append(s_ws_tx_q, f), s_ws_tx_drops' = s_ws_tx_drops
       PROVE  FramesInv'
  <2>1. u' = Append(u, f)
    BY <1>1, <1>2, <1>15, Queued
  <2>. DEFINE v == Append(u, f)
  <2>2. /\ f.n = 0 => Marks(v) = Marks(u)
        /\ f.n > 0 => /\ Marks(v) = Marks(u) \cup {Len(u) + 1}
                      /\ Cardinality(Marks(v)) = Cardinality(Marks(u)) + 1
        /\ \A i \in Marks(u) : v[i] = u[i] /\ i <= Len(u)
        /\ v[Len(u) + 1] = f
    BY <1>1, <1>14, MarksGrow
  <2>3. \A i \in Marks(u) : i \in 1..Len(u) /\ u[i].n \in Nat
    BY <1>14, FrameOf
  <2>4. Len(u) \in Nat
    BY <1>14
  <2>. HIDE DEF u, v
  <2>5. ASSUME NEW i \in Marks(u)
        PROVE  /\ v[i].from \in Producers
               /\ newest'[v[i].from] < v[i].n /\ v[i].n <= made'[v[i].from]
               /\ step'[v[i].from] # "idle" => v[i].n < made'[v[i].from]
               /\ \A j \in Marks(u) : i < j /\ v[j].from = v[i].from => v[i].n < v[j].n
    <3>1. v[i] = u[i] /\ \A j \in Marks(u) : v[j] = u[j]
      BY <2>2
    <3>2. /\ u[i].from \in Producers
          /\ newest[u[i].from] < u[i].n /\ u[i].n <= made[u[i].from]
          /\ step[u[i].from] # "idle" => u[i].n < made[u[i].from]
          /\ \A j \in Marks(u) : i < j /\ u[j].from = u[i].from => u[i].n < u[j].n
      BY <1>1 DEF OrderedFrames
    <3>3. step'[u[i].from] # "idle" => step[u[i].from] # "idle"
      BY <1>4, <3>2
    <3>. QED  BY <1>2, <3>1, <3>2, <3>3
  <2>6. CASE t \in Producers
    <3>1. Marks(v) = Marks(u) \cup {Len(u) + 1}
      BY <1>10, <2>2, <2>6
    <3>2. /\ v[Len(u) + 1].from = t /\ v[Len(u) + 1].n = made[t]
      BY <1>10, <2>2, <2>6
    <3>3. /\ v[Len(u) + 1].from \in Producers
          /\ newest'[t] < v[Len(u) + 1].n /\ v[Len(u) + 1].n <= made'[t]
          /\ step'[t] = "idle"
      BY <1>1, <1>2, <1>4, <1>10, <2>6, <3>2
    <3>4. ASSUME NEW i \in Marks(u), v[i].from = t PROVE v[i].n < made[t]
      <4>1. v[i] = u[i]
        BY <2>2
      <4>2. step[u[i].from] # "idle" => u[i].n < made[u[i].from]
        BY <1>1 DEF OrderedFrames
      <4>. QED  BY <1>2, <3>4, <4>1, <4>2
    <3>5. \A i \in Marks(u) : ~ (Len(u) + 1 < i)
      BY <2>3, <2>4
    <3>6. \A i \in Marks(v) :
            /\ v[i].from \in Producers
            /\ newest'[v[i].from] < v[i].n /\ v[i].n <= made'[v[i].from]
            /\ step'[v[i].from] # "idle" => v[i].n < made'[v[i].from]
      BY <2>5, <3>1, <3>2, <3>3
    <3>7. \A i, j \in Marks(v) : i < j /\ v[j].from = v[i].from => v[i].n < v[j].n
      <4>. SUFFICES ASSUME NEW i \in Marks(v), NEW j \in Marks(v), i < j, v[j].from = v[i].from
                    PROVE  v[i].n < v[j].n
        OBVIOUS
      <4>1. CASE i = Len(u) + 1
        BY <2>4, <3>1, <3>5, <4>1
      <4>2. CASE i \in Marks(u) /\ j \in Marks(u)
        BY <2>5, <4>2
      <4>3. CASE i \in Marks(u) /\ j = Len(u) + 1
        BY <3>2, <3>4, <4>3
      <4>. QED  BY <3>1, <4>1, <4>2, <4>3
    <3>8. OrderedFrames(u)'
      BY <2>1, <3>6, <3>7 DEF OrderedFrames, Marks, v
    <3>9. Cardinality(Marks(v)) = Cardinality(Marks(u)) + 1
      BY <1>10, <2>2, <2>6
    <3>10. /\ Cardinality(Queue!Frames') = Cardinality(Queue!Frames)
           /\ Cardinality(Queue!Numbered') = Cardinality(Queue!Numbered) + 1
           /\ Cardinality(Queue!InHand) = Cardinality(Queue!InHand') + 1
           /\ delivered' = delivered /\ lost' = lost /\ s_ws_tx_drops' = s_ws_tx_drops
      BY <1>2, <1>11, <1>12, <1>14, <1>15, <2>1, <2>6, <3>9 DEF v
    <3>11. Cardinality(Queue!Frames') =
             Cardinality(Queue!InHand') + Cardinality(Queue!Numbered')
               + delivered' + s_ws_tx_drops' + lost'
      BY <1>13, <3>10, Counts
    <3>12. Accounted'
      BY <1>1, <1>11, <1>12, <3>11 DEF Accounted, DropsCounted
    <3>. QED  BY <1>7, <1>8, <1>9, <3>8, <3>12 DEF FramesInv, u
  <2>7. CASE t \notin Producers
    <3>1. Marks(v) = Marks(u)
      BY <1>10, <2>2, <2>7
    <3>2. OrderedFrames(u)'
      BY <2>1, <2>5, <3>1 DEF OrderedFrames, Marks, v
    <3>3. Queue!Numbered' = Queue!Numbered
      BY <1>14, <2>1, <3>1 DEF v
    <3>4. Accounted'
      BY <1>1, <1>2, <1>11, <1>12, <1>15, <2>7, <3>3, Counts DEF Accounted, DropsCounted
    <3>. QED  BY <1>7, <1>8, <1>9, <3>2, <3>4 DEF FramesInv, u
  <2>. QED  BY <2>6, <2>7
<1>16. ASSUME s_ws_tx_drops' = s_ws_tx_drops + (IF f.n = 0 THEN 0 ELSE 1), s_ws_tx_q' = s_ws_tx_q
       PROVE  FramesInv'
  <2>1. Queue!Underway' = Queue!Underway
    BY <1>2, <1>16 DEF Queue!Underway
  <2>2. \A s \in Producers : made[s] \in Nat
    BY <1>1
  <2>3. OrderedFrames(Queue!Underway)' /\ Queue!Numbered' = Queue!Numbered
    BY <1>2, <1>4, <1>7, <2>1, <2>2, OrderStays
  <2>4. CASE t \in Producers
    <3>1. s_ws_tx_drops' = s_ws_tx_drops + 1
      <4>. HIDE DEF f
      <4>. QED  BY <1>1, <1>10, <1>16, <2>4
    <3>2. /\ Cardinality(Queue!Frames') = Cardinality(Queue!Frames)
          /\ Cardinality(Queue!Numbered') = Cardinality(Queue!Numbered)
          /\ Cardinality(Queue!InHand) = Cardinality(Queue!InHand') + 1
          /\ delivered' = delivered /\ lost' = lost
      BY <1>2, <1>11, <1>12, <2>3, <2>4
    <3>3. Cardinality(Queue!Frames') =
            Cardinality(Queue!InHand') + Cardinality(Queue!Numbered')
              + delivered' + s_ws_tx_drops' + lost'
      BY <1>13, <3>1, <3>2, Counts
    <3>4. Accounted'
      BY <1>1, <1>11, <1>12, <3>3 DEF Accounted, DropsCounted
    <3>. QED  BY <1>7, <1>8, <1>9, <2>3, <3>4 DEF FramesInv
  <2>5. CASE t \notin Producers
    <3>1. s_ws_tx_drops' = s_ws_tx_drops
      <4>. HIDE DEF f
      <4>. QED  BY <1>10, <1>16, <2>5, Counts
    <3>2. Accounted'
      BY <1>1, <1>2, <1>11, <1>12, <2>3, <2>5, <3>1, Counts DEF Accounted, DropsCounted
    <3>. QED  BY <1>7, <1>8, <1>9, <2>3, <3>2 DEF FramesInv
  <2>. QED  BY <2>4, <2>5
<1>. QED  BY <1>2, <1>15, <1>16

(* The worker takes a frame, and is done with one.                            *)
LEMMA ReceiveKeeps ==
  ASSUME FramesInv, Queue!Receive \/ Queue!FreeFrame
  PROVE  FramesInv'
<1>. USE DEF Queue!queueVars, Queue!producerVars
<1>1. /\ QueueTypes /\ SlabIsMine /\ HeldFrames
      /\ s_ws_tx_q \in Seq(BrowserFrame) /\ \A s \in Producers : made[s] \in Nat
  BY DEF FramesInv, QueueTypes
<1>2. UNCHANGED <<s_evt_mutex, s_evt_buf, step, frame, made, lost, s_ws_tx_drops, delivered, newest>>
  BY DEF Queue!Receive, Queue!FreeFrame
<1>3. /\ s_ws_tx_q' \in Seq(BrowserFrame) /\ sent' \in BrowserFrame
      /\ sending' \in {"wait", "send", "report"} /\ Queue!Underway' = Queue!Underway
  <2>1. CASE Queue!Receive
    <3>1. /\ s_ws_tx_q # <<>> /\ sending' = "send"
          /\ sent' = Head(s_ws_tx_q) /\ s_ws_tx_q' = Tail(s_ws_tx_q)
      BY <2>1 DEF Queue!Receive
    <3>2. Head(s_ws_tx_q) \in BrowserFrame /\ Tail(s_ws_tx_q) \in Seq(BrowserFrame)
      BY <1>1, <3>1
    <3>3. Queue!Underway' = Queue!Underway
      BY <1>1, <2>1, Received
    <3>. QED  BY <3>1, <3>2, <3>3
  <2>2. CASE Queue!FreeFrame
    <3>1. /\ sending = "report" /\ sending' = "wait"
          /\ sent' = Queue!NoFrame /\ s_ws_tx_q' = s_ws_tx_q
      BY <2>2 DEF Queue!FreeFrame
    <3>2. Queue!NoFrame \in BrowserFrame
      BY DEF Queue!NoFrame, BrowserFrame
    <3>. QED  BY <1>1, <3>1, <3>2 DEF Queue!Underway
  <2>. QED  BY <2>1, <2>2
<1>4. QueueTypes'
  BY <1>1, <1>2, <1>3 DEF QueueTypes
<1>5. SlabIsMine'
  BY <1>1, <1>2 DEF SlabIsMine
<1>6. HeldFrames'
  BY <1>1, <1>2 DEF HeldFrames
<1>7. OrderedFrames(Queue!Underway)' /\ Queue!Numbered' = Queue!Numbered
  BY <1>1, <1>2, <1>3, <1>4, OrderStays
<1>8. Queue!InHand' = Queue!InHand /\ Queue!Frames' = Queue!Frames
  BY <1>2 DEF Queue!InHand, Queue!Frames
<1>9. Accounted'
  BY <1>2, <1>7, <1>8, Counts DEF FramesInv, Accounted, DropsCounted
<1>. QED  BY <1>4, <1>5, <1>6, <1>7, <1>9 DEF FramesInv

(* The frame was sent: all that are left of its task are newer.               *)
LEMMA EndLoopKeeps ==
  ASSUME FramesInv, Queue!EndLoop
  PROVE  FramesInv'
<1>. DEFINE q == s_ws_tx_q
            u == Queue!Underway
<1>. USE DEF Queue!queueVars, Queue!producerVars
<1>1. /\ QueueTypes /\ SlabIsMine /\ HeldFrames /\ OrderedFrames(u)
      /\ q \in Seq(BrowserFrame) /\ sent \in BrowserFrame /\ sent.n \in Nat
      /\ made \in [Producers -> Nat] /\ newest \in [Producers -> Nat] /\ delivered \in Nat
  BY DEF FramesInv, QueueTypes, BrowserFrame
<1>2. /\ UNCHANGED <<s_evt_mutex, s_evt_buf, step, frame, made, lost, s_ws_tx_q, s_ws_tx_drops, sent>>
      /\ sending = "send" /\ sending' = "report"
      /\ sent.n = 0 => delivered' = delivered /\ newest' = newest
      /\ sent.n # 0 => delivered' = delivered + 1 /\ newest' = [newest EXCEPT ![sent.from] = sent.n]
  BY DEF Queue!EndLoop
<1>3. u = <<sent>> \o q /\ u' = <<>> \o q
  BY <1>2 DEF Queue!Underway
<1>4. u' = q
  BY <1>1, <1>3, ConcatEmptySeq
<1>5. /\ Queue!Numbered = Marks(u) /\ u \in Seq(BrowserFrame) /\ Queue!Numbered' = Marks(q)
  <2>1. Queue!Numbered = Marks(u) /\ u \in Seq(BrowserFrame)
    BY <1>1, UnderwayType
  <2>2. Queue!Numbered' = Marks(u')
    BY DEF Queue!Numbered, Marks
  <2>. QED  BY <1>4, <2>1, <2>2
<1>. HIDE DEF u, q
<1>6. /\ \A i \in Marks(q) : i + 1 \in Marks(u) /\ u[i + 1] = q[i] /\ i > 0
      /\ sent.n > 0 => 1 \in Marks(u)
      /\ u[1] = sent
      /\ sent.n > 0 => Cardinality(Marks(u)) = Cardinality(Marks(q)) + 1
      /\ ~ (sent.n > 0) => Cardinality(Marks(u)) = Cardinality(Marks(q))
  <2>. DEFINE w == <<sent>> \o q
  <2>1. /\ \A i \in Marks(q) : i + 1 \in Marks(w) /\ w[i + 1] = q[i] /\ i > 0
        /\ sent.n > 0 => 1 \in Marks(w)
        /\ w[1] = sent
        /\ sent.n > 0 => Cardinality(Marks(w)) = Cardinality(Marks(q)) + 1
        /\ ~ (sent.n > 0) => Cardinality(Marks(w)) = Cardinality(Marks(q))
    BY <1>1, MarksShift
  <2>2. u = w
    BY <1>3
  <2>. HIDE DEF w
  <2>. QED  BY <2>1, <2>2
<1>7. \A i \in Marks(q) : i \in 1..Len(q) /\ q[i].n \in Nat
  BY <1>1, FrameOf
<1>8. ASSUME NEW i \in Marks(q)
      PROVE  /\ q[i].from \in Producers
             /\ newest[q[i].from] < q[i].n /\ q[i].n <= made[q[i].from]
             /\ step[q[i].from] # "idle" => q[i].n < made[q[i].from]
             /\ sent.n > 0 /\ q[i].from = sent.from => sent.n < q[i].n
             /\ \A j \in Marks(q) : i < j /\ q[j].from = q[i].from => q[i].n < q[j].n
  <2>1. i + 1 \in Marks(u) /\ u[i + 1] = q[i] /\ i > 0 /\ i \in Nat
    BY <1>6, <1>7
  <2>2. /\ q[i].from \in Producers
        /\ newest[q[i].from] < q[i].n /\ q[i].n <= made[q[i].from]
        /\ step[q[i].from] # "idle" => q[i].n < made[q[i].from]
        /\ \A j \in Marks(u) : i + 1 < j /\ u[j].from = q[i].from => q[i].n < u[j].n
    BY <1>1, <2>1 DEF OrderedFrames
  <2>3. sent.n > 0 => \A j \in Marks(u) : 1 < j /\ u[j].from = sent.from => sent.n < u[j].n
    BY <1>1, <1>6 DEF OrderedFrames
  <2>4. 1 < i + 1
    BY <2>1
  <2>5. sent.n > 0 /\ q[i].from = sent.from => sent.n < q[i].n
    BY <2>1, <2>3, <2>4
  <2>6. ASSUME NEW j \in Marks(q), i < j, q[j].from = q[i].from PROVE q[i].n < q[j].n
    <3>1. j + 1 \in Marks(u) /\ u[j + 1] = q[j] /\ j \in Nat
      BY <1>6, <1>7
    <3>2. i + 1 < j + 1
      BY <2>1, <2>6, <3>1
    <3>. QED  BY <2>2, <2>6, <3>1, <3>2
  <2>. QED  BY <2>2, <2>5, <2>6
<1>9. sent.n > 0 => /\ sent.from \in Producers /\ newest[sent.from] < sent.n
                    /\ sent.n <= made[sent.from]
                    /\ step[sent.from] # "idle" => sent.n < made[sent.from]
  BY <1>1, <1>6 DEF OrderedFrames
<1>10. CASE sent.n > 0
  <2>1. /\ newest' = [newest EXCEPT ![sent.from] = sent.n] /\ delivered' = delivered + 1
    BY <1>1, <1>2, <1>10
  <2>2. /\ newest' \in [Producers -> Nat] /\ newest'[sent.from] = sent.n
        /\ \A s \in Producers : s # sent.from => newest'[s] = newest[s]
    BY <1>1, <1>9, <1>10, <2>1
  <2>3. \A s \in Producers :
          newest'[s] <= made[s] /\ (step[s] # "idle" => newest'[s] < made[s])
    <3>1. ASSUME NEW s \in Producers
          PROVE  newest'[s] <= made[s] /\ (step[s] # "idle" => newest'[s] < made[s])
      <4>1. CASE s = sent.from
        BY <1>9, <1>10, <2>2, <4>1
      <4>2. CASE s # sent.from
        BY <1>1, <2>2, <4>2 DEF HeldFrames
      <4>. QED  BY <4>1, <4>2
    <3>. QED  BY <3>1
  <2>4. HeldFrames'
    BY <1>1, <1>2, <2>3 DEF HeldFrames
  <2>5. QueueTypes'
    <3>1. delivered' \in Nat
      BY <1>1, <2>1
    <3>. QED  BY <1>1, <1>2, <2>2, <3>1 DEF QueueTypes
  <2>6. \A i \in Marks(q) : newest'[q[i].from] < q[i].n
    <3>1. ASSUME NEW i \in Marks(q) PROVE newest'[q[i].from] < q[i].n
      <4>1. CASE q[i].from = sent.from
        BY <1>8, <1>10, <2>2, <4>1
      <4>2. CASE q[i].from # sent.from
        BY <1>8, <2>2, <4>2
      <4>. QED  BY <4>1, <4>2
    <3>. QED  BY <3>1
  <2>7. OrderedFrames(u)'
    BY <1>2, <1>4, <1>8, <2>6 DEF OrderedFrames, Marks
  <2>8. Queue!InHand' = Queue!InHand /\ Queue!Frames' = Queue!Frames
    BY <1>2 DEF Queue!InHand, Queue!Frames
  <2>9. Cardinality(Queue!Numbered) = Cardinality(Queue!Numbered') + 1
    BY <1>5, <1>6, <1>10
  <2>10. Cardinality(Queue!Numbered') \in Nat
    <3>1. IsFiniteSet(Marks(q))
      <4>1. Marks(q) \subseteq 1..Len(q)
        BY <1>7
      <4>2. IsFiniteSet(1..Len(q))
        BY <1>1, FS_Interval
      <4>. QED  BY <4>1, <4>2, FS_Subset
    <3>. QED  BY <1>5, <3>1, FS_CardinalityType
  <2>11. Cardinality(Queue!Frames') =
          Cardinality(Queue!InHand') + Cardinality(Queue!Numbered')
            + delivered' + s_ws_tx_drops' + lost'
    <3>1. /\ Cardinality(Queue!Frames') = Cardinality(Queue!Frames)
          /\ Cardinality(Queue!InHand') = Cardinality(Queue!InHand)
          /\ lost' = lost /\ s_ws_tx_drops' = s_ws_tx_drops
      BY <1>2, <2>8
    <3>. QED  BY <2>1, <2>9, <2>10, <3>1, Counts
  <2>12. Accounted'
    BY <2>8, <2>11 DEF FramesInv, Accounted, DropsCounted
  <2>13. SlabIsMine'
    BY <1>1, <1>2 DEF SlabIsMine
  <2>. QED  BY <2>4, <2>5, <2>7, <2>12, <2>13 DEF FramesInv, u
<1>11. CASE ~ (sent.n > 0)
  <2>1. sent.n = 0
    BY <1>1, <1>11
  <2>2. delivered' = delivered /\ newest' = newest
    BY <1>2, <2>1
  <2>3. QueueTypes' /\ SlabIsMine'
    BY <1>1, <1>2, <2>2 DEF QueueTypes, SlabIsMine
  <2>4. HeldFrames'
    BY <1>1, <1>2, <2>2 DEF HeldFrames
  <2>5. OrderedFrames(u)'
    BY <1>2, <1>4, <1>8, <2>2 DEF OrderedFrames, Marks
  <2>6. Queue!InHand' = Queue!InHand /\ Queue!Frames' = Queue!Frames
    BY <1>2 DEF Queue!InHand, Queue!Frames
  <2>7. Cardinality(Queue!Numbered') = Cardinality(Queue!Numbered)
    BY <1>5, <1>6, <1>11
  <2>8. Accounted'
    BY <1>2, <2>2, <2>6, <2>7, Counts DEF FramesInv, Accounted, DropsCounted
  <2>. QED  BY <2>3, <2>4, <2>5, <2>8 DEF FramesInv, u
<1>. QED  BY <1>10, <1>11

(* A step that leaves the queue alone.                                        *)
LEMMA QueueStutters ==
  ASSUME FramesInv, UNCHANGED queueCore
  PROVE  FramesInv'
<1>1. UNCHANGED <<s_evt_mutex, s_evt_buf, step, frame, s_ws_tx_q, s_ws_tx_drops,
                  sending, sent, made, lost, delivered, newest>>
  BY DEF queueCore
<1>2. QueueTypes' /\ SlabIsMine' /\ HeldFrames'
  BY <1>1 DEF FramesInv, QueueTypes, SlabIsMine, HeldFrames
<1>3. Queue!Underway' = Queue!Underway
  BY <1>1 DEF Queue!Underway
<1>4. OrderedFrames(Queue!Underway)'
  BY <1>1, <1>3 DEF FramesInv, OrderedFrames, Marks
<1>5. /\ Queue!Numbered' = Queue!Numbered /\ Queue!Frames' = Queue!Frames
      /\ Queue!InHand' = Queue!InHand
  BY <1>1, <1>3 DEF Queue!Numbered, Queue!Frames, Queue!InHand
<1>6. Accounted'
  BY <1>1, <1>5 DEF FramesInv, Accounted, DropsCounted
<1>. QED  BY <1>2, <1>4, <1>6 DEF FramesInv

(* What is true of the queue in every state.                                  *)
THEOREM QueueInvariant == EventsSpec => []FramesInv
<1>1. EventsInit => FramesInv
  BY QueueStarts DEF EventsInit
<1>2. ASSUME FramesInv, [EventsNext]_pathVars PROVE FramesInv'
  <2>1. QueueStep \/ UNCHANGED queueCore
    BY <1>2, QueueMoves
  <2>2. CASE UNCHANGED queueCore
    BY <1>2, <2>2, QueueStutters
  <2>3. CASE QueueStep
    BY <1>2, <2>3, MakeKeeps, SenderMakesKeeps, ProduceKeeps, EnqueueKeeps, ReceiveKeeps,
       EndLoopKeeps DEF QueueStep, Queue!Produce
  <2>. QED  BY <2>1, <2>2, <2>3
<1>. QED  BY <1>1, <1>2, PTL DEF EventsSpec

(* Whatever the tasks, the depth of the queue and the failures: the frames of *)
(* one task are sent in the order in which it made them, none twice, and      *)
(* what it takes out of the shared slab is its own event.                     *)
THEOREM FramesInOrder == EventsSpec => []InOrder
  BY QueueInvariant, OrderedIsInOrder, PTL

(* No frame disappears but in the count of drops, or when its copy could not  *)
(* be allocated.                                                              *)
THEOREM EveryDropCounted == EventsSpec => []DropsCounted
<1>1. FramesInv => DropsCounted
  BY DEF FramesInv, Accounted
<1>. QED  BY <1>1, QueueInvariant, PTL

-----------------------------------------------------------------------------
(***************************************************************************)
(* Events: the ring of log lines and the walks through it (LogRing).       *)
(***************************************************************************)
ringCore == <<s_ring, s_head, s_count, lines, walk>>

RingStep == \/ Log!WriteLine \/ Log!WriteSendLine
            \/ Log!StartWalk \/ Log!WalkOn \/ Log!EndWalk

WalkRecord == [on : BOOLEAN, count : 0..LOG_RING_SIZE, start : 0..(LOG_RING_SIZE - 1),
               answer : Seq(Nat), had : SUBSET Nat, written : 0..LOG_RING_SIZE]

RingTypes ==
  /\ lines \in Nat
  /\ s_ring \in [0..(LOG_RING_SIZE - 1) -> 0..lines]
  /\ s_head \in 0..(LOG_RING_SIZE - 1) /\ s_count \in 0..LOG_RING_SIZE
  /\ walk \in WalkRecord /\ Len(walk.answer) <= walk.count
  /\ \A i \in 1..Len(walk.answer) : walk.answer[i] \in 0..lines
  /\ walk.had \subseteq 1..lines
  /\ IsFiniteSet(walk.had) /\ Cardinality(walk.had) <= LOG_RING_SIZE
  /\ ~ walk.on => walk = Log!NoWalk

(* From the head on, around the ring, the numbered lines ascend; before the   *)
(* ring is full there is nothing from the head on.                            *)
RingOrder ==
  /\ \A a, b \in 0..(LOG_RING_SIZE - 1) :
       s_ring[a] # 0 /\ s_ring[b] # 0 =>
         /\ a < b /\ (b < s_head \/ s_head <= a) => s_ring[a] < s_ring[b]
         /\ a < s_head /\ s_head <= b => s_ring[b] < s_ring[a]
  /\ s_count < LOG_RING_SIZE =>
       s_head = s_count /\ \A a \in 0..(LOG_RING_SIZE - 1) : a >= s_count => s_ring[a] = 0

(* A place less than two rounds from the start of the ring.                   *)
Around(k) == IF k < LOG_RING_SIZE THEN k ELSE k - LOG_RING_SIZE
(* Where the j-th entry of the answer comes from, and what it is or would be  *)
(* if it was read now.                                                        *)
SlotOf(j) == Around(walk.start + j - 1)
Entry(j) == IF j <= Len(walk.answer) THEN walk.answer[j] ELSE s_ring[SlotOf(j)]
(* The entries still to be read that hold a line of the start.                *)
StillThere ==
  {j \in (Len(walk.answer) + 1)..walk.count : s_ring[SlotOf(j)] \in walk.had}

(* The writers follow the walk: they are as far behind its first entry as     *)
(* entries are free, and have gone on by the lines written since.             *)
HeadFollows ==
  walk.on /\ walk.written < LOG_RING_SIZE =>
    \/ s_head = walk.start + walk.count + walk.written
    \/ s_head = walk.start + walk.count + walk.written - LOG_RING_SIZE
    \/ s_head = walk.start + walk.count + walk.written - LOG_RING_SIZE - LOG_RING_SIZE

EntryOrder ==
  /\ \A i, j \in 1..walk.count :
       i < j /\ Entry(i) \in walk.had /\ Entry(j) \in walk.had => Entry(i) < Entry(j)
  /\ \A i \in 1..walk.count : Entry(i) # 0 /\ Entry(i) \notin walk.had => i <= walk.written

LinesLost ==
  Cardinality(walk.had) <= Cardinality(Log!Old) + Cardinality(StillThere) + walk.written

RingInv == RingTypes /\ RingOrder /\ HeadFollows /\ EntryOrder /\ LinesLost

-----------------------------------------------------------------------------
(* What a step of the whole does to the ring is a step of the ring.           *)
LEMMA RingMoves == [EventsNext]_pathVars => RingStep \/ UNCHANGED ringCore
<1>. SUFFICES ASSUME [EventsNext]_pathVars PROVE RingStep \/ UNCHANGED ringCore
  OBVIOUS
<1>. USE DEF ringCore, logVars
<1>1. CASE UNCHANGED pathVars
  BY <1>1 DEF pathVars
<1>2. CASE (\E t \in EventTasks : Event(t)) \/ DirectFrame
  BY <1>2 DEF Event, DirectFrame
<1>3. CASE \E t \in Producers : LogLine(t)
  BY <1>3 DEF LogLine, RingStep
<1>4. CASE LineWhileSending \/ FailureLine
  BY <1>4 DEF LineWhileSending, FailureLine, SenderLine, RingStep
<1>5. CASE WalkRing \/ EnableSink
  BY <1>5 DEF WalkRing, EnableSink, RingStep
<1>6. CASE \/ \E t \in Producers \cup {Sender} : HandOver(t)
           \/ Work \/ Connect
  BY <1>6 DEF HandOver, Work, Connect
<1>. QED  BY <1>1, <1>2, <1>3, <1>4, <1>5, <1>6 DEF EventsNext

(* One round and the next of the ring.                                        *)
LEMMA Wraps ==
  ASSUME NEW k \in Nat, k < LOG_RING_SIZE + LOG_RING_SIZE
  PROVE  k % LOG_RING_SIZE = Around(k)
<1>1. LOG_RING_SIZE \in Nat \ {0}
  BY EventsAssumption
<1>2. CASE k < LOG_RING_SIZE
  <2>1. k % LOG_RING_SIZE = k
    BY <1>1, <1>2
  <2>. QED  BY <1>2, <2>1 DEF Around
<1>3. CASE ~ (k < LOG_RING_SIZE)
  <2>1. k % LOG_RING_SIZE = k - LOG_RING_SIZE
    BY <1>1, <1>3
  <2>. QED  BY <1>3, <2>1 DEF Around
<1>. QED  BY <1>2, <1>3

(* Going around less than once from a place meets each slot at most once.     *)
LEMMA OnceAround ==
  ASSUME NEW s \in Nat, s < LOG_RING_SIZE,
         NEW i \in Nat, 0 < i, i <= LOG_RING_SIZE,
         NEW j \in Nat, 0 < j, j <= LOG_RING_SIZE
  PROVE  /\ Around(s + j - 1) \in Nat /\ Around(s + j - 1) < LOG_RING_SIZE
         /\ Around(s + i - 1) = Around(s + j - 1) => i = j
<1>1. LOG_RING_SIZE \in Nat
  BY EventsAssumption
<1>2. /\ s + j - 1 < LOG_RING_SIZE => Around(s + j - 1) = s + j - 1
      /\ ~ (s + j - 1 < LOG_RING_SIZE) => Around(s + j - 1) = s + j - 1 - LOG_RING_SIZE
  BY <1>1 DEF Around
<1>3. /\ s + i - 1 < LOG_RING_SIZE => Around(s + i - 1) = s + i - 1
      /\ ~ (s + i - 1 < LOG_RING_SIZE) => Around(s + i - 1) = s + i - 1 - LOG_RING_SIZE
  BY <1>1 DEF Around
<1>4. Around(s + j - 1) \in Nat /\ Around(s + j - 1) < LOG_RING_SIZE
  BY <1>1, <1>2
<1>5. Around(s + i - 1) = Around(s + j - 1) => i = j
  BY <1>1, <1>2, <1>3
<1>. QED  BY <1>4, <1>5

(* The parts of a walk, and the entries: each has a slot of its own.          *)
LEMMA WalkParts ==
  ASSUME RingInv
  PROVE  /\ LOG_RING_SIZE \in Nat \ {0} /\ lines \in Nat
         /\ walk.on \in BOOLEAN /\ walk.count \in Nat /\ walk.count <= LOG_RING_SIZE
         /\ walk.start \in 0..(LOG_RING_SIZE - 1) /\ walk.answer \in Seq(Nat)
         /\ walk.had \subseteq 1..lines /\ walk.written \in Nat
         /\ walk.written <= LOG_RING_SIZE
         /\ Len(walk.answer) \in Nat /\ Len(walk.answer) <= walk.count
         /\ DOMAIN walk.answer = 1..Len(walk.answer)
         /\ \A j \in 1..walk.count :
              /\ SlotOf(j) \in 0..(LOG_RING_SIZE - 1)
              /\ Entry(j) \in 0..lines
              /\ \A i \in 1..walk.count : SlotOf(i) = SlotOf(j) => i = j
<1>1. /\ LOG_RING_SIZE \in Nat \ {0} /\ RingTypes
  BY EventsAssumption DEF RingInv
<1>2. /\ walk.on \in BOOLEAN /\ walk.count \in 0..LOG_RING_SIZE
      /\ walk.start \in 0..(LOG_RING_SIZE - 1) /\ walk.answer \in Seq(Nat)
      /\ walk.written \in 0..LOG_RING_SIZE /\ walk.had \subseteq 1..lines /\ lines \in Nat
      /\ Len(walk.answer) <= walk.count
      /\ s_ring \in [0..(LOG_RING_SIZE - 1) -> 0..lines]
      /\ \A i \in 1..Len(walk.answer) : walk.answer[i] \in 0..lines
  BY <1>1 DEF RingTypes, WalkRecord
<1>3. /\ walk.count \in Nat /\ walk.count <= LOG_RING_SIZE
      /\ walk.written \in Nat /\ walk.written <= LOG_RING_SIZE
  BY <1>1, <1>2
<1>4. Len(walk.answer) \in Nat /\ DOMAIN walk.answer = 1..Len(walk.answer)
  BY <1>2
<1>5. ASSUME NEW j \in 1..walk.count
      PROVE  j \in Nat /\ 0 < j /\ j <= LOG_RING_SIZE
  BY <1>1, <1>3
<1>6. walk.start \in Nat /\ walk.start < LOG_RING_SIZE
  BY <1>1, <1>2
<1>7. ASSUME NEW j \in 1..walk.count PROVE SlotOf(j) \in 0..(LOG_RING_SIZE - 1)
  <2>1. SlotOf(j) \in Nat /\ SlotOf(j) < LOG_RING_SIZE
    BY <1>5, <1>6, OnceAround DEF SlotOf
  <2>. QED  BY <1>1, <2>1
<1>8. ASSUME NEW i \in 1..walk.count, NEW j \in 1..walk.count, SlotOf(i) = SlotOf(j)
      PROVE  i = j
  BY <1>5, <1>6, <1>8, OnceAround DEF SlotOf
<1>9. ASSUME NEW j \in 1..walk.count PROVE Entry(j) \in 0..lines
  <2>1. CASE j <= Len(walk.answer)
    <3>1. j \in 1..Len(walk.answer)
      BY <1>3, <1>4, <2>1
    <3>. QED  BY <1>2, <2>1, <3>1 DEF Entry
  <2>2. CASE ~ (j <= Len(walk.answer))
    BY <1>2, <1>7, <2>2 DEF Entry
  <2>. QED  BY <2>1, <2>2
<1>. QED  BY <1>1, <1>2, <1>3, <1>4, <1>7, <1>8, <1>9

(* Nothing was logged yet.                                                    *)
LEMMA RingStarts == Log!Init => RingInv
<1>. SUFFICES ASSUME Log!Init PROVE RingInv
  OBVIOUS
<1>1. LOG_RING_SIZE \in Nat \ {0}
  BY EventsAssumption
<1>2. /\ s_ring = [i \in 0..(LOG_RING_SIZE - 1) |-> 0] /\ s_head = 0 /\ s_count = 0 /\ lines = 0
      /\ walk = Log!NoWalk
  BY DEF Log!Init, Log!Slots
<1>3. /\ walk.on = FALSE /\ walk.count = 0 /\ walk.start = 0 /\ walk.answer = <<>>
      /\ walk.had = {} /\ walk.written = 0 /\ walk \in WalkRecord
  BY <1>1, <1>2 DEF Log!NoWalk, WalkRecord
<1>4. RingTypes
  <2>1. IsFiniteSet({}) /\ Cardinality({}) = 0
    BY FS_EmptySet
  <2>. QED  BY <1>1, <1>2, <1>3, <2>1 DEF RingTypes
<1>5. RingOrder
  BY <1>1, <1>2 DEF RingOrder
<1>6. HeadFollows /\ EntryOrder
  BY <1>3 DEF HeadFollows, EntryOrder
<1>7. LinesLost
  <2>1. Log!Old = {} /\ StillThere = {}
    BY <1>3 DEF Log!Old, Log!PlacesOf, StillThere
  <2>2. Cardinality({}) = 0
    BY FS_EmptySet
  <2>. QED  BY <1>3, <2>1, <2>2 DEF LinesLost
<1>. QED  BY <1>4, <1>5, <1>6, <1>7 DEF RingInv

(* The places whose entries were there at the start: those answered, and      *)
(* those still to come.                                                       *)
LEMMA OldAndLeft ==
  ASSUME RingInv
  PROVE  /\ Log!Old = {i \in 1..Len(walk.answer) : walk.answer[i] \in walk.had}
         /\ IsFiniteSet(Log!Old) /\ Cardinality(Log!Old) \in Nat
         /\ IsFiniteSet(StillThere) /\ Cardinality(StillThere) \in Nat
         /\ StillThere \subseteq 1..walk.count
         /\ Cardinality(walk.had) \in Nat
<1>1. Log!Old = {i \in 1..Len(walk.answer) : walk.answer[i] \in walk.had}
  BY WalkParts DEF Log!Old, Log!PlacesOf
<1>2. Len(walk.answer) \in Nat /\ walk.count \in Nat
  BY WalkParts
<1>3. IsFiniteSet(1..Len(walk.answer)) /\ IsFiniteSet(1..walk.count)
  <2>1. IsFiniteSet(1..Len(walk.answer))
    BY <1>2, FS_Interval
  <2>2. IsFiniteSet(1..walk.count)
    BY <1>2, FS_Interval
  <2>. QED  BY <2>1, <2>2
<1>4. IsFiniteSet(Log!Old)
  <2>1. Log!Old \subseteq 1..Len(walk.answer)
    BY <1>1
  <2>. QED  BY <1>3, <2>1, FS_Subset
<1>5. StillThere \subseteq 1..walk.count
  <2>1. \A j \in (Len(walk.answer) + 1)..walk.count : j \in 1..walk.count
    BY <1>2
  <2>. QED  BY <2>1 DEF StillThere
<1>6. IsFiniteSet(StillThere)
  BY <1>3, <1>5, FS_Subset
<1>7. IsFiniteSet(walk.had)
  BY DEF RingInv, RingTypes
<1>. QED  BY <1>1, <1>4, <1>5, <1>6, <1>7, FS_CardinalityType

(* What is promised of an answer.                                             *)
LEMMA AnswerIsBounded == ASSUME RingInv PROVE WalkBounded
<1>1. /\ Len(walk.answer) \in Nat /\ walk.count \in Nat /\ Len(walk.answer) <= walk.count
      /\ DOMAIN walk.answer = 1..Len(walk.answer) /\ walk.written \in Nat /\ EntryOrder
  BY WalkParts DEF RingInv
<1>2. \A i \in 1..Len(walk.answer) : i \in 1..walk.count /\ Entry(i) = walk.answer[i]
  BY <1>1 DEF Entry
<1>3. Log!Ascending(Log!Old)
  <2>. SUFFICES ASSUME NEW i \in Log!Old, NEW j \in Log!Old, i < j
                PROVE  walk.answer[i] < walk.answer[j]
    BY DEF Log!Ascending
  <2>1. /\ i \in 1..Len(walk.answer) /\ j \in 1..Len(walk.answer)
        /\ walk.answer[i] \in walk.had /\ walk.answer[j] \in walk.had
    BY OldAndLeft
  <2>. QED  BY <1>1, <1>2, <2>1 DEF EntryOrder
<1>4. Cardinality(Log!New) <= walk.written
  <2>1. ASSUME NEW i \in Log!New PROVE i \in 1..walk.written
    <3>1. /\ i \in 1..Len(walk.answer) /\ walk.answer[i] \in 1..lines
          /\ walk.answer[i] \notin walk.had
      BY <1>1 DEF Log!New, Log!PlacesOf
    <3>2. walk.answer[i] # 0
      BY <3>1, WalkParts
    <3>3. i <= walk.written
      BY <1>1, <1>2, <3>1, <3>2 DEF EntryOrder
    <3>. QED  BY <1>1, <3>1, <3>3
  <2>2. Log!New \subseteq 1..walk.written
    BY <2>1
  <2>3. IsFiniteSet(1..walk.written) /\ Cardinality(1..walk.written) = walk.written
    <3>1. walk.written \in Int /\ 1 \in Int
      BY <1>1
    <3>2. IsFiniteSet(1..walk.written)
      BY <3>1, FS_Interval
    <3>3. Cardinality(1..walk.written) = IF 1 > walk.written THEN 0 ELSE walk.written - 1 + 1
      BY <3>1, FS_Interval
    <3>. QED  BY <1>1, <3>2, <3>3
  <2>4. Cardinality(Log!New) <= Cardinality(1..walk.written)
    BY <2>2, <2>3, FS_Subset
  <2>. QED  BY <2>3, <2>4
<1>5. ASSUME walk.on, Len(walk.answer) = walk.count
      PROVE  Cardinality(Log!Old) + walk.written >= Cardinality(walk.had)
  <2>1. StillThere = {}
    BY <1>1, <1>5 DEF StillThere
  <2>2. Cardinality(StillThere) = 0
    BY <2>1, FS_EmptySet
  <2>3. Cardinality(walk.had) <= Cardinality(Log!Old) + Cardinality(StillThere) + walk.written
    BY DEF RingInv, LinesLost
  <2>. QED  BY <1>1, <2>2, <2>3, OldAndLeft
<1>. QED  BY <1>3, <1>4, <1>5 DEF WalkBounded

(* A line that is written takes the slot at the head, which moves on.         *)
LEMMA HeadMoves ==
  ASSUME RingInv, NEW line \in Nat, Log!WriteEntry(line), lines' \in Nat,
         (line = 0 /\ lines' = lines) \/ (line = lines + 1 /\ lines' = line)
  PROVE  /\ s_ring' = [s_ring EXCEPT ![s_head] = line]
         /\ s_ring' \in [0..(LOG_RING_SIZE - 1) -> 0..lines']
         /\ s_ring'[s_head] = line
         /\ \A a \in 0..(LOG_RING_SIZE - 1) : a # s_head => s_ring'[a] = s_ring[a]
         /\ s_head' \in 0..(LOG_RING_SIZE - 1) /\ s_count' \in 0..LOG_RING_SIZE
         /\ s_head + 1 < LOG_RING_SIZE => s_head' = s_head + 1
         /\ s_head + 1 = LOG_RING_SIZE => s_head' = 0
         /\ s_count < LOG_RING_SIZE => s_count' = s_count + 1
         /\ s_count = LOG_RING_SIZE => s_count' = s_count
         /\ line \notin walk.had /\ lines <= lines' /\ line \in 0..lines'
<1>1. /\ LOG_RING_SIZE \in Nat \ {0} /\ lines \in Nat /\ walk.had \subseteq 1..lines
  BY WalkParts
<1>2. /\ s_ring \in [0..(LOG_RING_SIZE - 1) -> 0..lines]
      /\ s_head \in 0..(LOG_RING_SIZE - 1) /\ s_count \in 0..LOG_RING_SIZE
  BY DEF RingInv, RingTypes
<1>3. /\ s_ring' = [s_ring EXCEPT ![s_head] = line]
      /\ s_head' = (s_head + 1) % LOG_RING_SIZE
      /\ s_count' = IF s_count < LOG_RING_SIZE THEN s_count + 1 ELSE s_count
  BY DEF Log!WriteEntry
<1>4. lines <= lines' /\ line \in 0..lines' /\ line \notin 1..lines
  BY <1>1
<1>5. \A x \in 0..lines : x \in 0..lines'
  BY <1>1, <1>4
<1>6. /\ s_ring' \in [0..(LOG_RING_SIZE - 1) -> 0..lines'] /\ s_ring'[s_head] = line
      /\ \A a \in 0..(LOG_RING_SIZE - 1) : a # s_head => s_ring'[a] = s_ring[a]
  BY <1>2, <1>3, <1>4, <1>5
<1>7. (s_head + 1) % LOG_RING_SIZE = Around(s_head + 1)
  <2>1. s_head + 1 \in Nat /\ s_head + 1 < LOG_RING_SIZE + LOG_RING_SIZE
    BY <1>1, <1>2
  <2>. QED  BY <2>1, Wraps
<1>8. /\ s_head + 1 < LOG_RING_SIZE => s_head' = s_head + 1
      /\ s_head + 1 = LOG_RING_SIZE => s_head' = 0
  BY <1>1, <1>2, <1>3, <1>7 DEF Around
<1>9. s_head' \in 0..(LOG_RING_SIZE - 1)
  BY <1>1, <1>2, <1>8
<1>10. /\ s_count' \in 0..LOG_RING_SIZE
       /\ s_count < LOG_RING_SIZE => s_count' = s_count + 1
       /\ s_count = LOG_RING_SIZE => s_count' = s_count
  BY <1>1, <1>2, <1>3
<1>. QED  BY <1>1, <1>3, <1>4, <1>6, <1>8, <1>9, <1>10

(* The ring stays in order: the new line is the newest.                       *)
LEMMA WriteKeepsOrder ==
  ASSUME RingInv, NEW line \in Nat, Log!WriteEntry(line), lines' \in Nat,
         (line = 0 /\ lines' = lines) \/ (line = lines + 1 /\ lines' = line)
  PROVE  RingOrder'
<1>1. /\ LOG_RING_SIZE \in Nat \ {0} /\ lines \in Nat
  BY WalkParts
<1>2. /\ s_ring \in [0..(LOG_RING_SIZE - 1) -> 0..lines] /\ RingOrder
      /\ s_head \in 0..(LOG_RING_SIZE - 1) /\ s_count \in 0..LOG_RING_SIZE
  BY DEF RingInv, RingTypes
<1>3. /\ s_ring'[s_head] = line
      /\ \A a \in 0..(LOG_RING_SIZE - 1) : a # s_head => s_ring'[a] = s_ring[a]
      /\ s_head' \in 0..(LOG_RING_SIZE - 1)
      /\ s_head + 1 < LOG_RING_SIZE => s_head' = s_head + 1
      /\ s_head + 1 = LOG_RING_SIZE => s_head' = 0
      /\ s_count < LOG_RING_SIZE => s_count' = s_count + 1
      /\ s_count = LOG_RING_SIZE => s_count' = s_count
  BY HeadMoves
<1>4. \A a \in 0..(LOG_RING_SIZE - 1) : s_ring[a] \in Nat /\ s_ring[a] <= lines
  BY <1>1, <1>2
<1>5. line # 0 => line = lines + 1
  OBVIOUS
<1>6. s_head \in Nat /\ s_head' \in Nat /\ s_head < LOG_RING_SIZE
  BY <1>1, <1>2, <1>3
<1>7. ASSUME NEW a \in 0..(LOG_RING_SIZE - 1), NEW b \in 0..(LOG_RING_SIZE - 1),
             s_ring'[a] # 0, s_ring'[b] # 0
      PROVE  /\ a < b /\ (b < s_head' \/ s_head' <= a) => s_ring'[a] < s_ring'[b]
             /\ a < s_head' /\ s_head' <= b => s_ring'[b] < s_ring'[a]
  <2>1. a \in Nat /\ b \in Nat /\ a < LOG_RING_SIZE /\ b < LOG_RING_SIZE
    BY <1>1
  <2>2. CASE a # s_head /\ b # s_head
    <3>1. s_ring'[a] = s_ring[a] /\ s_ring'[b] = s_ring[b]
      BY <1>3, <2>2
    <3>2. /\ a < b /\ (b < s_head \/ s_head <= a) => s_ring[a] < s_ring[b]
          /\ a < s_head /\ s_head <= b => s_ring[b] < s_ring[a]
      BY <1>2, <1>7, <3>1 DEF RingOrder
    <3>3. CASE s_head + 1 < LOG_RING_SIZE
      <4>1. s_head' = s_head + 1
        BY <1>3, <3>3
      <4>2. /\ b < s_head' <=> b < s_head
            /\ s_head' <= a <=> s_head <= a
            /\ a < s_head' <=> a < s_head
            /\ s_head' <= b <=> s_head <= b
        BY <1>6, <2>1, <2>2, <4>1
      <4>. QED  BY <3>1, <3>2, <4>2
    <3>4. CASE s_head + 1 = LOG_RING_SIZE
      <4>1. s_head' = 0 /\ b < s_head /\ a < s_head /\ ~ (a < s_head')
        BY <1>1, <1>3, <1>6, <2>1, <2>2, <3>4
      <4>. QED  BY <3>1, <3>2, <4>1
    <3>. QED  BY <1>1, <1>6, <3>3, <3>4
  <2>3. CASE b = s_head /\ a # s_head
    <3>1. s_ring'[a] = s_ring[a] /\ s_ring'[b] = line
      BY <1>3, <2>3
    <3>2. s_ring'[a] < s_ring'[b]
      BY <1>1, <1>4, <1>5, <1>7, <3>1
    <3>3. ~ (a < s_head' /\ s_head' <= b)
      BY <1>1, <1>3, <1>6, <2>1, <2>3
    <3>. QED  BY <3>2, <3>3
  <2>4. CASE a = s_head /\ b # s_head
    <3>1. s_ring'[b] = s_ring[b] /\ s_ring'[a] = line
      BY <1>3, <2>4
    <3>2. s_ring'[b] < s_ring'[a]
      BY <1>1, <1>4, <1>5, <1>7, <3>1
    <3>3. ~ (a < b /\ (b < s_head' \/ s_head' <= a))
      BY <1>1, <1>3, <1>6, <2>1, <2>4
    <3>. QED  BY <3>2, <3>3
  <2>5. CASE a = s_head /\ b = s_head
    <3>1. ~ (a < b) /\ ~ (a < s_head' /\ s_head' <= b)
      BY <2>1, <2>5, <1>3, <1>6
    <3>. QED  BY <3>1
  <2>. QED  BY <2>2, <2>3, <2>4, <2>5
<1>8. ASSUME s_count' < LOG_RING_SIZE
      PROVE  s_head' = s_count'
             /\ \A a \in 0..(LOG_RING_SIZE - 1) : a >= s_count' => s_ring'[a] = 0
  <2>1. s_count < LOG_RING_SIZE /\ s_count' = s_count + 1
    BY <1>1, <1>2, <1>3, <1>8
  <2>2. s_head = s_count /\ \A a \in 0..(LOG_RING_SIZE - 1) : a >= s_count => s_ring[a] = 0
    BY <1>2, <2>1 DEF RingOrder
  <2>3. s_head' = s_count'
    BY <1>1, <1>2, <1>3, <1>8, <2>1, <2>2
  <2>4. ASSUME NEW a \in 0..(LOG_RING_SIZE - 1), a >= s_count' PROVE s_ring'[a] = 0
    <3>1. a >= s_count /\ a # s_head
      BY <1>2, <2>1, <2>2, <2>4
    <3>. QED  BY <1>3, <2>2, <3>1
  <2>. QED  BY <2>3, <2>4
<1>. QED  BY <1>7, <1>8 DEF RingOrder

(* Where the entry is that a writer replaces under a walk: the walk is ahead  *)
(* of the writers by the entries that are free.                               *)
LEMMA WhereHit ==
  ASSUME RingInv, walk.on, walk.written < LOG_RING_SIZE,
         NEW j \in 1..walk.count, SlotOf(j) = s_head
  PROVE  j <= walk.written + 1
<1>1. /\ LOG_RING_SIZE \in Nat /\ walk.count \in Nat /\ walk.count <= LOG_RING_SIZE
      /\ walk.start \in 0..(LOG_RING_SIZE - 1) /\ walk.written \in Nat
  BY WalkParts
<1>2. j \in Nat /\ 0 < j /\ j <= walk.count
  BY <1>1
<1>3. s_head = walk.start + j - 1 \/ s_head = walk.start + j - 1 - LOG_RING_SIZE
  BY <1>1 DEF SlotOf, Around
<1>4. \/ s_head = walk.start + walk.count + walk.written
      \/ s_head = walk.start + walk.count + walk.written - LOG_RING_SIZE
      \/ s_head = walk.start + walk.count + walk.written - LOG_RING_SIZE - LOG_RING_SIZE
  BY DEF RingInv, HeadFollows
<1>5. walk.start \in Nat
  BY <1>1
<1>. DEFINE c == walk.count
            w == walk.written
            s == walk.start
<1>. HIDE DEF c, w, s
<1>6. c \in Nat /\ w \in Nat /\ s \in Nat /\ c <= LOG_RING_SIZE /\ j <= c
  BY <1>1, <1>2, <1>5 DEF c, w, s
<1>7. s_head = s + j - 1 \/ s_head = s + j - 1 - LOG_RING_SIZE
  BY <1>3 DEF s
<1>8. \/ s_head = s + c + w \/ s_head = s + c + w - LOG_RING_SIZE
      \/ s_head = s + c + w - LOG_RING_SIZE - LOG_RING_SIZE
  BY <1>4 DEF c, w, s
<1>9. j <= w + 1
  BY <1>1, <1>2, <1>6, <1>7, <1>8
<1>. QED  BY <1>9 DEF w

(* A write under a walk: no more than one entry to come is lost, and nothing  *)
(* of what was answered.                                                      *)
LEMMA WriteKeeps ==
  ASSUME RingInv, NEW line \in Nat, Log!WriteEntry(line), lines' \in Nat,
         (line = 0 /\ lines' = lines) \/ (line = lines + 1 /\ lines' = line)
  PROVE  RingInv'
<1>1. /\ LOG_RING_SIZE \in Nat \ {0} /\ lines \in Nat
      /\ walk.on \in BOOLEAN /\ walk.count \in Nat /\ walk.count <= LOG_RING_SIZE
      /\ walk.start \in 0..(LOG_RING_SIZE - 1) /\ walk.answer \in Seq(Nat)
      /\ walk.had \subseteq 1..lines /\ walk.written \in Nat /\ walk.written <= LOG_RING_SIZE
      /\ Len(walk.answer) \in Nat /\ Len(walk.answer) <= walk.count
  BY WalkParts
<1>2. RingTypes /\ HeadFollows /\ EntryOrder /\ LinesLost /\ walk \in WalkRecord
  BY DEF RingInv, RingTypes
<1>3. /\ s_ring' \in [0..(LOG_RING_SIZE - 1) -> 0..lines'] /\ s_ring'[s_head] = line
      /\ \A a \in 0..(LOG_RING_SIZE - 1) : a # s_head => s_ring'[a] = s_ring[a]
      /\ s_head' \in 0..(LOG_RING_SIZE - 1) /\ s_count' \in 0..LOG_RING_SIZE
      /\ s_head + 1 < LOG_RING_SIZE => s_head' = s_head + 1
      /\ s_head + 1 = LOG_RING_SIZE => s_head' = 0
      /\ line \notin walk.had /\ lines <= lines'
  BY HeadMoves
<1>4. walk' = IF walk.on /\ walk.written < LOG_RING_SIZE
                THEN [walk EXCEPT !.written = walk.written + 1] ELSE walk
  BY DEF Log!WriteEntry
<1>5. /\ walk' \in WalkRecord
      /\ walk'.on = walk.on /\ walk'.count = walk.count /\ walk'.start = walk.start
      /\ walk'.answer = walk.answer /\ walk'.had = walk.had
      /\ walk.on /\ walk.written < LOG_RING_SIZE => walk'.written = walk.written + 1
      /\ ~ (walk.on /\ walk.written < LOG_RING_SIZE) => walk' = walk
  <2>1. CASE walk.on /\ walk.written < LOG_RING_SIZE
    <3>1. walk.written + 1 \in 0..LOG_RING_SIZE
      BY <1>1, <2>1
    <3>2. walk' = [walk EXCEPT !.written = walk.written + 1]
      BY <1>4, <2>1
    <3>. QED  BY <1>2, <2>1, <3>1, <3>2 DEF WalkRecord
  <2>2. CASE ~ (walk.on /\ walk.written < LOG_RING_SIZE)
    BY <1>2, <1>4, <2>2
  <2>. QED  BY <2>1, <2>2
<1>6. RingTypes'
  <2>0. lines' \in Nat /\ lines <= lines'
    BY <1>3
  <2>1. walk'.had \subseteq 1..lines'
    <3>1. \A x \in 1..lines : x \in 1..lines'
      BY <1>1, <2>0
    <3>. QED  BY <1>1, <1>5, <3>1
  <2>2. \A i \in 1..Len(walk.answer) : walk.answer[i] \in 0..lines'
    <3>1. \A x \in 0..lines : x \in 0..lines'
      BY <1>1, <2>0
    <3>. QED  BY <1>2, <3>1 DEF RingTypes
  <2>3. ~ walk'.on => walk' = Log!NoWalk
    BY <1>2, <1>5 DEF RingTypes
  <2>4. IsFiniteSet(walk.had) /\ Cardinality(walk.had) <= LOG_RING_SIZE
    BY <1>2 DEF RingTypes
  <2>. QED  BY <1>1, <1>3, <1>5, <2>1, <2>2, <2>3, <2>4 DEF RingTypes
<1>7. RingOrder'
  BY WriteKeepsOrder
<1>8. \A j : SlotOf(j)' = SlotOf(j)
  BY <1>5 DEF SlotOf
<1>9. \A j \in 1..walk.count :
        /\ SlotOf(j) \in 0..(LOG_RING_SIZE - 1)
        /\ \A i \in 1..walk.count : SlotOf(i) = SlotOf(j) => i = j
  BY WalkParts
<1>10. \A j \in 1..walk.count :
         \/ Entry(j)' = Entry(j)
         \/ Entry(j)' = line /\ SlotOf(j) = s_head
  BY <1>3, <1>5, <1>8, <1>9 DEF Entry
<1>11. HeadFollows'
  <2>. SUFFICES ASSUME walk.on, walk'.written < LOG_RING_SIZE
                PROVE  \/ s_head' = walk.start + walk.count + walk'.written
                       \/ s_head' = walk.start + walk.count + walk'.written - LOG_RING_SIZE
                       \/ s_head' = walk.start + walk.count + walk'.written - LOG_RING_SIZE
                                      - LOG_RING_SIZE
    BY <1>5 DEF HeadFollows
  <2>1. walk.written < LOG_RING_SIZE /\ walk'.written = walk.written + 1
    BY <1>1, <1>5
  <2>2. \/ s_head = walk.start + walk.count + walk.written
        \/ s_head = walk.start + walk.count + walk.written - LOG_RING_SIZE
        \/ s_head = walk.start + walk.count + walk.written - LOG_RING_SIZE - LOG_RING_SIZE
    BY <1>2, <2>1 DEF HeadFollows
  <2>. DEFINE c == walk.count
              w == walk.written
              v == walk'.written
              s == walk.start
  <2>. HIDE DEF c, w, v, s
  <2>3. \/ s_head = s + c + w \/ s_head = s + c + w - LOG_RING_SIZE
        \/ s_head = s + c + w - LOG_RING_SIZE - LOG_RING_SIZE
    BY <2>2 DEF c, w, s
  <2>4. /\ c \in Nat /\ w \in Nat /\ s \in Nat /\ c <= LOG_RING_SIZE /\ w + 1 < LOG_RING_SIZE
        /\ s < LOG_RING_SIZE /\ v = w + 1
    BY <1>1, <2>1 DEF c, w, v, s
  <2>5. /\ s_head \in Nat /\ s_head < LOG_RING_SIZE
        /\ s_head' = s_head + 1 \/ (s_head + 1 = LOG_RING_SIZE /\ s_head' = 0)
    <3>1. s_head \in 0..(LOG_RING_SIZE - 1)
      BY <1>2 DEF RingTypes
    <3>2. s_head \in Nat /\ s_head < LOG_RING_SIZE
      BY <1>1, <3>1
    <3>3. s_head + 1 < LOG_RING_SIZE \/ s_head + 1 = LOG_RING_SIZE
      BY <1>1, <3>2
    <3>. QED  BY <1>3, <3>2, <3>3
  <2>6. \/ s_head' = s + c + v \/ s_head' = s + c + v - LOG_RING_SIZE
        \/ s_head' = s + c + v - LOG_RING_SIZE - LOG_RING_SIZE
    BY <1>1, <2>3, <2>4, <2>5
  <2>. QED  BY <2>6 DEF c, v, s
<1>12. EntryOrder'
  <2>1. ASSUME NEW i \in 1..walk.count, NEW j \in 1..walk.count, i < j,
               Entry(i)' \in walk.had, Entry(j)' \in walk.had
        PROVE  Entry(i)' < Entry(j)'
    <3>1. Entry(i)' = Entry(i) /\ Entry(j)' = Entry(j)
      BY <1>3, <1>10, <2>1
    <3>. QED  BY <1>2, <2>1, <3>1 DEF EntryOrder
  <2>2. ASSUME NEW i \in 1..walk.count, Entry(i)' # 0, Entry(i)' \notin walk.had
        PROVE  i <= walk'.written
    <3>0. i \in Nat /\ i <= walk.count /\ 0 < i
      BY <1>1
    <3>1. CASE Entry(i)' = Entry(i)
      <4>1. i <= walk.written
        BY <1>2, <2>2, <3>1 DEF EntryOrder
      <4>. QED  BY <1>1, <1>5, <3>0, <4>1
    <3>2. CASE SlotOf(i) = s_head
      <4>1. CASE walk.on /\ walk.written < LOG_RING_SIZE
        <5>1. i <= walk.written + 1
          BY <3>2, <4>1, WhereHit
        <5>. QED  BY <1>5, <4>1, <5>1
      <4>2. CASE walk.on /\ ~ (walk.written < LOG_RING_SIZE)
        BY <1>1, <1>5, <3>0, <4>2
      <4>3. CASE ~ walk.on
        <5>1. walk.count = 0
          BY <1>2, <4>3 DEF RingTypes, Log!NoWalk
        <5>. QED  BY <3>0, <5>1
      <4>. QED  BY <4>1, <4>2, <4>3
    <3>. QED  BY <1>10, <3>1, <3>2
  <2>. QED  BY <1>5, <2>1, <2>2 DEF EntryOrder
<1>13. LinesLost'
  <2>1. /\ IsFiniteSet(StillThere) /\ Cardinality(StillThere) \in Nat
        /\ StillThere \subseteq 1..walk.count
        /\ Cardinality(walk.had) \in Nat /\ Cardinality(Log!Old) \in Nat
    BY OldAndLeft
  <2>2. Log!Old' = Log!Old
    BY <1>5 DEF Log!Old, Log!PlacesOf
  <2>3. \A j \in (Len(walk.answer) + 1)..walk.count : j \in 1..walk.count
    BY <1>1
  <2>4. StillThere' = StillThere \ {j \in StillThere : SlotOf(j) = s_head}
    <3>1. ASSUME NEW j \in (Len(walk.answer) + 1)..walk.count
          PROVE  s_ring'[SlotOf(j)] \in walk.had <=>
                   s_ring[SlotOf(j)] \in walk.had /\ SlotOf(j) # s_head
      BY <1>3, <1>9, <2>3
    <3>2. StillThere' = {j \in (Len(walk.answer) + 1)..walk.count : s_ring'[SlotOf(j)] \in walk.had}
      BY <1>5, <1>8 DEF StillThere
    <3>. QED  BY <3>1, <3>2 DEF StillThere
  <2>5. CASE \E j \in StillThere : SlotOf(j) = s_head
    <3>1. PICK j \in StillThere : SlotOf(j) = s_head
      BY <2>5
    <3>2. StillThere' = StillThere \ {j}
      BY <1>9, <2>1, <2>4, <3>1
    <3>3. Cardinality(StillThere \ {j}) = Cardinality(StillThere) - 1
      BY <2>1, <3>1, FS_RemoveElement
    <3>4. CASE walk.on /\ walk.written < LOG_RING_SIZE
      <4>1. /\ Cardinality(StillThere') = Cardinality(StillThere) - 1
            /\ Cardinality(Log!Old') = Cardinality(Log!Old)
            /\ walk'.written = walk.written + 1 /\ walk'.had = walk.had
        BY <1>5, <2>2, <3>2, <3>3, <3>4
      <4>2. Cardinality(walk.had) <= Cardinality(Log!Old) + Cardinality(StillThere) + walk.written
        BY <1>2 DEF LinesLost
      <4>3. Cardinality(walk.had) <=
              Cardinality(Log!Old') + Cardinality(StillThere') + walk'.written
        BY <1>1, <2>1, <4>1, <4>2
      <4>. QED  BY <4>1, <4>3 DEF LinesLost
    <3>5. CASE walk.on /\ ~ (walk.written < LOG_RING_SIZE)
      <4>1. walk'.written = LOG_RING_SIZE /\ walk'.had = walk.had
        BY <1>1, <1>5, <3>5
      <4>2. IsFiniteSet(StillThere') /\ Cardinality(StillThere') \in Nat
        BY <2>1, <3>2, FS_RemoveElement, FS_CardinalityType
      <4>3. Cardinality(walk.had) <= LOG_RING_SIZE /\ Cardinality(Log!Old') \in Nat
        BY <1>2, <2>1, <2>2 DEF RingTypes
      <4>4. Cardinality(walk.had) <=
              Cardinality(Log!Old') + Cardinality(StillThere') + LOG_RING_SIZE
        BY <1>1, <2>1, <4>2, <4>3
      <4>. QED  BY <4>1, <4>4 DEF LinesLost
    <3>6. CASE ~ walk.on
      <4>1. walk.count = 0
        BY <1>2, <3>6 DEF RingTypes, Log!NoWalk
      <4>. QED  BY <1>1, <2>1, <3>1, <4>1
    <3>. QED  BY <3>4, <3>5, <3>6
  <2>6. CASE ~ \E j \in StillThere : SlotOf(j) = s_head
    <3>1. StillThere' = StillThere
      BY <2>4, <2>6
    <3>2. walk'.had = walk.had /\ walk'.written \in Nat /\ walk.written <= walk'.written
      <4>1. walk'.written = walk.written + 1 \/ walk'.written = walk.written
        BY <1>5
      <4>. QED  BY <1>1, <1>5, <4>1
    <3>3. Cardinality(walk.had) <= Cardinality(Log!Old) + Cardinality(StillThere) + walk.written
      BY <1>2 DEF LinesLost
    <3>4. Cardinality(walk.had) <= Cardinality(Log!Old) + Cardinality(StillThere) + walk'.written
      BY <1>1, <2>1, <3>2, <3>3
    <3>. QED  BY <2>2, <3>1, <3>2, <3>4 DEF LinesLost
  <2>. QED  BY <2>5, <2>6
<1>. QED  BY <1>6, <1>7, <1>11, <1>12, <1>13 DEF RingInv

(* A walk starts at the oldest line: every line of the ring is ahead of it,   *)
(* in order.                                                                  *)
LEMMA StartKeeps ==
  ASSUME RingInv, Log!StartWalk
  PROVE  RingInv'
<1>1. LOG_RING_SIZE \in Nat \ {0} /\ lines \in Nat
  BY WalkParts
<1>2. /\ s_ring \in [0..(LOG_RING_SIZE - 1) -> 0..lines] /\ RingOrder
      /\ s_head \in 0..(LOG_RING_SIZE - 1) /\ s_count \in 0..LOG_RING_SIZE
  BY DEF RingInv, RingTypes
<1>. DEFINE start == IF s_count = LOG_RING_SIZE THEN s_head ELSE 0
            had == {s_ring[i] : i \in 0..(LOG_RING_SIZE - 1)} \ {0}
<1>3. /\ UNCHANGED <<s_ring, s_head, s_count, lines>>
      /\ walk' = [on |-> TRUE, count |-> s_count, start |-> start, answer |-> <<>>,
                  had |-> had, written |-> 0]
  BY DEF Log!StartWalk, Log!NoWalk, Log!Oldest, Log!Slots, Log!ringVars
<1>4. start \in 0..(LOG_RING_SIZE - 1)
  BY <1>1, <1>2
<1>5. \A x \in had : x \in 1..lines
  BY <1>1, <1>2
<1>6. had \subseteq 1..lines /\ had \in SUBSET Nat
  BY <1>1, <1>5
<1>7. ASSUME NEW x \in had
      PROVE  \E k \in 0..(LOG_RING_SIZE - 1) : s_ring[k] = x /\ x # 0
  OBVIOUS
<1>. HIDE DEF start, had
<1>8. /\ walk'.on = TRUE /\ walk'.count = s_count /\ walk'.start = start
      /\ walk'.answer = <<>> /\ walk'.had = had /\ walk'.written = 0
      /\ Len(walk'.answer) = 0
  BY <1>3
<1>9. walk' \in WalkRecord
  BY <1>1, <1>2, <1>3, <1>4, <1>6 DEF WalkRecord
<1>10. s_count \in Nat /\ s_count <= LOG_RING_SIZE /\ s_head \in Nat /\ s_head < LOG_RING_SIZE
  BY <1>1, <1>2
<1>11. /\ s_count = LOG_RING_SIZE => start = s_head
       /\ s_count < LOG_RING_SIZE => start = 0 /\ s_head = s_count
  BY <1>1, <1>2, <1>10 DEF start, RingOrder
<1>. DEFINE place == [j \in 1..s_count |-> Around(start + j - 1)]
            Ahead == {j \in 1..s_count : s_ring[place[j]] \in had}
<1>12. \A j : SlotOf(j)' = Around(start + j - 1)
  BY <1>8 DEF SlotOf
<1>13. ASSUME NEW j \in 1..s_count
       PROVE  /\ j \in Nat /\ 0 < j /\ j <= s_count
              /\ place[j] \in 0..(LOG_RING_SIZE - 1)
              /\ Entry(j)' = s_ring[place[j]]
              /\ s_count < LOG_RING_SIZE => place[j] = j - 1
              /\ s_count = LOG_RING_SIZE =>
                   \/ s_head + j - 1 < LOG_RING_SIZE /\ place[j] = s_head + j - 1
                   \/ s_head + j - 1 >= LOG_RING_SIZE /\ place[j] = s_head + j - 1 - LOG_RING_SIZE
  <2>1. j \in Nat /\ 0 < j /\ j <= s_count
    BY <1>10
  <2>2. start \in Nat /\ start < LOG_RING_SIZE
    BY <1>1, <1>4
  <2>3. Around(start + j - 1) \in Nat /\ Around(start + j - 1) < LOG_RING_SIZE
    <3>1. j <= LOG_RING_SIZE
      BY <1>1, <1>10, <2>1
    <3>. QED  BY <2>1, <2>2, <3>1, OnceAround
  <2>4. Entry(j)' = s_ring[Around(start + j - 1)]
    <3>1. ~ (j <= Len(walk'.answer))
      BY <1>8, <2>1
    <3>. QED  BY <1>3, <1>12, <3>1 DEF Entry
  <2>5. s_count < LOG_RING_SIZE => Around(start + j - 1) = j - 1
    BY <1>1, <1>10, <1>11, <2>1 DEF Around
  <2>6. s_count = LOG_RING_SIZE =>
          \/ s_head + j - 1 < LOG_RING_SIZE /\ Around(start + j - 1) = s_head + j - 1
          \/ /\ s_head + j - 1 >= LOG_RING_SIZE
             /\ Around(start + j - 1) = s_head + j - 1 - LOG_RING_SIZE
    BY <1>1, <1>10, <1>11, <2>1 DEF Around
  <2>7. place[j] = Around(start + j - 1)
    OBVIOUS
  <2>. HIDE DEF place
  <2>8. place[j] \in 0..(LOG_RING_SIZE - 1)
    BY <1>1, <2>3, <2>7
  <2>. QED  BY <2>1, <2>4, <2>5, <2>6, <2>7, <2>8
<1>14. DOMAIN place = 1..s_count
  OBVIOUS
<1>. HIDE DEF place
<1>15. HeadFollows'
  <2>1. \/ s_head = start + s_count + 0
        \/ s_head = start + s_count + 0 - LOG_RING_SIZE
    BY <1>1, <1>10, <1>11
  <2>. QED  BY <1>3, <1>8, <2>1 DEF HeadFollows
<1>16. ASSUME NEW i \in 1..s_count, NEW j \in 1..s_count, i < j,
              Entry(i)' # 0, Entry(j)' # 0
       PROVE  Entry(i)' < Entry(j)'
  <2>. DEFINE a == place[i]
              b == place[j]
  <2>1. /\ Entry(i)' = s_ring[a] /\ Entry(j)' = s_ring[b]
        /\ a \in 0..(LOG_RING_SIZE - 1) /\ b \in 0..(LOG_RING_SIZE - 1)
    BY <1>13
  <2>2. /\ a < b /\ (b < s_head \/ s_head <= a) => s_ring[a] < s_ring[b]
        /\ b < s_head /\ s_head <= a => s_ring[a] < s_ring[b]
    BY <1>2, <1>16, <2>1 DEF RingOrder
  <2>3. i \in Nat /\ 0 < i /\ i <= s_count /\ j \in Nat /\ 0 < j /\ j <= s_count
    BY <1>13
  <2>4. CASE s_count < LOG_RING_SIZE
    <3>1. a = i - 1 /\ b = j - 1 /\ s_head = s_count
      BY <1>11, <1>13, <2>4
    <3>2. a < b /\ b < s_head
      BY <1>10, <1>16, <2>3, <3>1
    <3>. QED  BY <2>1, <2>2, <3>2
  <2>5. CASE s_count = LOG_RING_SIZE
    <3>1. /\ \/ s_head + i - 1 < LOG_RING_SIZE /\ a = s_head + i - 1
             \/ s_head + i - 1 >= LOG_RING_SIZE /\ a = s_head + i - 1 - LOG_RING_SIZE
          /\ \/ s_head + j - 1 < LOG_RING_SIZE /\ b = s_head + j - 1
             \/ s_head + j - 1 >= LOG_RING_SIZE /\ b = s_head + j - 1 - LOG_RING_SIZE
      BY <1>13, <2>5
    <3>. HIDE DEF a, b
    <3>2. \/ a < b /\ (b < s_head \/ s_head <= a)
          \/ b < s_head /\ s_head <= a
      BY <1>1, <1>10, <1>16, <2>3, <2>5, <3>1
    <3>. QED  BY <2>1, <2>2, <3>2
  <2>. QED  BY <1>1, <1>10, <2>4, <2>5
<1>17. ASSUME NEW i \in 1..s_count, Entry(i)' # 0 PROVE Entry(i)' \in had
  <2>1. Entry(i)' = s_ring[place[i]] /\ place[i] \in 0..(LOG_RING_SIZE - 1)
    BY <1>13
  <2>. QED  BY <1>17, <2>1 DEF had
<1>18. EntryOrder'
  <2>1. 0 \notin had
    BY DEF had
  <2>. QED  BY <1>8, <1>16, <1>17, <2>1 DEF EntryOrder
<1>19. \A x \in had : \E j \in Ahead : s_ring[place[j]] = x
  <2>. SUFFICES ASSUME NEW x \in had PROVE \E j \in Ahead : s_ring[place[j]] = x
    OBVIOUS
  <2>1. PICK k \in 0..(LOG_RING_SIZE - 1) : s_ring[k] = x /\ x # 0
    BY <1>7
  <2>2. k \in Nat /\ k < LOG_RING_SIZE
    BY <1>1
  <2>3. \E j \in 1..s_count : place[j] = k
    <3>1. CASE s_count < LOG_RING_SIZE
      <4>1. k < s_count
        <5>1. k >= s_count => s_ring[k] = 0
          BY <1>2, <2>1, <3>1 DEF RingOrder
        <5>. QED  BY <1>10, <2>1, <2>2, <5>1
      <4>2. k + 1 \in 1..s_count /\ (k + 1) - 1 = k
        BY <1>10, <2>2, <4>1
      <4>3. place[k + 1] = k
        BY <1>13, <3>1, <4>2
      <4>. QED  BY <4>2, <4>3
    <3>2. CASE s_count = LOG_RING_SIZE /\ s_head <= k
      <4>1. k - s_head + 1 \in 1..s_count /\ s_head + (k - s_head + 1) - 1 = k
        BY <1>10, <2>2, <3>2
      <4>2. place[k - s_head + 1] = k
        BY <1>10, <1>13, <2>2, <3>2, <4>1
      <4>. QED  BY <4>1, <4>2
    <3>3. CASE s_count = LOG_RING_SIZE /\ ~ (s_head <= k)
      <4>. DEFINE j == k - s_head + LOG_RING_SIZE + 1
      <4>1. /\ j \in 1..s_count /\ s_head + j - 1 = k + LOG_RING_SIZE
            /\ s_head + j - 1 - LOG_RING_SIZE = k
        BY <1>1, <1>10, <2>2, <3>3
      <4>. HIDE DEF j
      <4>2. place[j] = k
        <5>1. ~ (s_head + j - 1 < LOG_RING_SIZE)
          BY <1>1, <2>2, <4>1
        <5>. QED  BY <1>13, <3>3, <4>1, <5>1
      <4>. QED  BY <4>1, <4>2
    <3>. QED  BY <1>1, <1>10, <2>2, <3>1, <3>2, <3>3
  <2>. QED  BY <2>1, <2>3
<1>20. IsFiniteSet(Ahead) /\ Ahead \subseteq 1..s_count /\ Cardinality(Ahead) <= LOG_RING_SIZE
  <2>1. s_count \in Int /\ 1 \in Int
    BY <1>10
  <2>2. IsFiniteSet(1..s_count)
    BY <2>1, FS_Interval
  <2>3. Cardinality(1..s_count) = IF 1 > s_count THEN 0 ELSE s_count - 1 + 1
    BY <2>1, FS_Interval
  <2>4. Cardinality(1..s_count) = s_count
    BY <1>10, <2>3
  <2>5. Ahead \subseteq 1..s_count
    OBVIOUS
  <2>6. IsFiniteSet(Ahead) /\ Cardinality(Ahead) <= Cardinality(1..s_count)
    BY <2>2, <2>5, FS_Subset
  <2>7. Cardinality(Ahead) \in Nat
    BY <2>6, FS_CardinalityType
  <2>. HIDE DEF Ahead
  <2>. QED  BY <1>1, <1>10, <2>4, <2>5, <2>6, <2>7
<1>21. IsFiniteSet(had) /\ Cardinality(had) <= Cardinality(Ahead)
  <2>. DEFINE line == [j \in Ahead |-> s_ring[place[j]]]
  <2>1. line \in [Ahead -> had]
    OBVIOUS
  <2>2. \A x \in had : \E j \in Ahead : line[j] = x
    BY <1>19
  <2>. HIDE DEF line, Ahead
  <2>3. line \in Surjection(Ahead, had)
    BY <2>1, <2>2, Fun_IsSurj
  <2>. QED  BY <1>20, <2>3, FS_Surjection
<1>22. RingTypes'
  <2>1. Cardinality(had) <= LOG_RING_SIZE
    <3>1. Cardinality(had) \in Nat /\ Cardinality(Ahead) \in Nat
      BY <1>20, <1>21, FS_CardinalityType
    <3>. HIDE DEF Ahead
    <3>. QED  BY <1>1, <1>20, <1>21, <3>1
  <2>. QED  BY <1>1, <1>2, <1>3, <1>6, <1>8, <1>9, <1>10, <1>21, <2>1 DEF RingTypes
<1>23. RingOrder'
  BY <1>2, <1>3 DEF RingOrder
<1>24. LinesLost'
  <2>1. StillThere' = Ahead
    <3>1. \A j : j \in (Len(walk'.answer) + 1)..walk'.count <=> j \in 1..s_count
      BY <1>8
    <3>2. \A j \in 1..s_count : SlotOf(j)' = place[j]
      BY <1>12 DEF place
    <3>3. StillThere' =
            {j \in (Len(walk'.answer) + 1)..walk'.count : s_ring'[SlotOf(j)'] \in walk'.had}
      BY DEF StillThere
    <3>. QED  BY <1>3, <1>8, <3>1, <3>2, <3>3
  <2>2. Log!Old' = {}
    BY <1>8 DEF Log!Old, Log!PlacesOf
  <2>3. Cardinality({}) = 0
    BY FS_EmptySet
  <2>4. Cardinality(had) \in Nat /\ Cardinality(Ahead) \in Nat
    BY <1>20, <1>21, FS_CardinalityType
  <2>. HIDE DEF Ahead
  <2>. QED  BY <1>8, <1>21, <2>1, <2>2, <2>3, <2>4 DEF LinesLost
<1>. QED  BY <1>15, <1>18, <1>22, <1>23, <1>24 DEF RingInv

(* One more entry is answered: it is what it was.                             *)
LEMMA WalkOnKeeps ==
  ASSUME RingInv, Log!WalkOn
  PROVE  RingInv'
<1>. DEFINE k == Len(walk.answer) + 1
            x == s_ring[SlotOf(k)]
<1>1. /\ LOG_RING_SIZE \in Nat \ {0} /\ lines \in Nat
      /\ walk.on /\ walk.count \in Nat /\ walk.count <= LOG_RING_SIZE
      /\ walk.start \in 0..(LOG_RING_SIZE - 1) /\ walk.answer \in Seq(Nat)
      /\ walk.had \subseteq 1..lines /\ walk.written \in Nat
      /\ Len(walk.answer) \in Nat /\ Len(walk.answer) < walk.count
      /\ k \in Nat /\ k \in 1..walk.count /\ ~ (k <= Len(walk.answer))
      /\ UNCHANGED <<s_ring, s_head, s_count, lines>>
  BY WalkParts DEF Log!WalkOn, Log!ringVars
<1>2. RingTypes /\ RingOrder /\ HeadFollows /\ EntryOrder /\ LinesLost /\ walk \in WalkRecord
  BY DEF RingInv, RingTypes
<1>3. walk' = [walk EXCEPT !.answer = Append(walk.answer, x)]
  <2>1. walk.start + Len(walk.answer) \in Nat
        /\ walk.start + Len(walk.answer) < LOG_RING_SIZE + LOG_RING_SIZE
    BY <1>1
  <2>2. (walk.start + Len(walk.answer)) % LOG_RING_SIZE = Around(walk.start + Len(walk.answer))
    BY <2>1, Wraps
  <2>3. walk.start + k - 1 = walk.start + Len(walk.answer)
    BY <1>1
  <2>4. SlotOf(k) = (walk.start + Len(walk.answer)) % LOG_RING_SIZE
    BY <2>2, <2>3 DEF SlotOf
  <2>. HIDE DEF k
  <2>. QED  BY <2>4 DEF Log!WalkOn
<1>4. x \in 0..lines /\ x = Entry(k)
  <2>1. Entry(k) \in 0..lines
    BY <1>1, WalkParts
  <2>2. Entry(k) = x
    BY <1>1 DEF Entry
  <2>. QED  BY <2>1, <2>2
<1>5. x \in Nat
  BY <1>1, <1>4
<1>. HIDE DEF x
<1>6. /\ walk'.on = walk.on /\ walk'.count = walk.count /\ walk'.start = walk.start
      /\ walk'.had = walk.had /\ walk'.written = walk.written
      /\ walk'.answer = Append(walk.answer, x)
  BY <1>2, <1>3 DEF WalkRecord
<1>7. /\ walk'.answer \in Seq(Nat) /\ Len(walk'.answer) = k
      /\ walk'.answer[k] = x
      /\ \A i \in 1..Len(walk.answer) : walk'.answer[i] = walk.answer[i]
  BY <1>1, <1>5, <1>6, AppendProperties
<1>8. walk' \in WalkRecord
  BY <1>2, <1>3, <1>6, <1>7 DEF WalkRecord
<1>9. \A i : i \in 1..k <=> i \in 1..Len(walk.answer) \/ i = k
  BY <1>1
<1>10. RingTypes'
  <2>1. \A i \in 1..k : walk'.answer[i] \in 0..lines
    BY <1>2, <1>4, <1>7, <1>9 DEF RingTypes
  <2>2. k <= walk.count
    BY <1>1
  <2>. QED  BY <1>1, <1>2, <1>6, <1>7, <1>8, <2>1, <2>2 DEF RingTypes
<1>11. RingOrder'
  BY <1>1, <1>2 DEF RingOrder
<1>12. HeadFollows'
  BY <1>1, <1>2, <1>6 DEF HeadFollows
<1>13. \A j : SlotOf(j)' = SlotOf(j)
  BY <1>6 DEF SlotOf
<1>14. ASSUME NEW j \in 1..walk.count PROVE Entry(j)' = Entry(j)
  <2>0. j \in Nat /\ 0 < j
    BY <1>1
  <2>1. CASE j <= Len(walk.answer)
    <3>1. j \in 1..Len(walk.answer) /\ j <= k
      BY <1>1, <2>0, <2>1
    <3>. QED  BY <1>7, <2>1, <3>1 DEF Entry
  <2>2. CASE j = k
    <3>1. Entry(j)' = walk'.answer[j]
      BY <1>7, <2>0, <2>2 DEF Entry
    <3>. QED  BY <1>4, <1>7, <2>2, <3>1
  <2>3. CASE ~ (j <= Len(walk.answer)) /\ j # k
    <3>1. ~ (j <= k)
      BY <1>1, <2>0, <2>3
    <3>. QED  BY <1>1, <1>7, <1>13, <2>3, <3>1 DEF Entry
  <2>. QED  BY <2>1, <2>2, <2>3
<1>15. EntryOrder'
  BY <1>2, <1>6, <1>14 DEF EntryOrder
<1>16. LinesLost'
  <2>1. /\ IsFiniteSet(StillThere) /\ Cardinality(StillThere) \in Nat
        /\ IsFiniteSet(Log!Old) /\ Cardinality(Log!Old) \in Nat
        /\ Log!Old = {i \in 1..Len(walk.answer) : walk.answer[i] \in walk.had}
        /\ Cardinality(walk.had) \in Nat
    BY OldAndLeft
  <2>2. Log!Old' = {i \in 1..k : walk'.answer[i] \in walk.had}
    <3>1. DOMAIN walk'.answer = 1..k
      BY <1>7
    <3>. QED  BY <1>6, <3>1 DEF Log!Old, Log!PlacesOf
  <2>3. StillThere' = {j \in (k + 1)..walk.count : s_ring[SlotOf(j)] \in walk.had}
    BY <1>1, <1>6, <1>7, <1>13 DEF StillThere
  <2>4. StillThere = {j \in k..walk.count : s_ring[SlotOf(j)] \in walk.had}
    BY DEF StillThere
  <2>5. \A j : j \in k..walk.count <=> j \in (k + 1)..walk.count \/ j = k
    BY <1>1
  <2>6. k \notin (k + 1)..walk.count /\ k \notin 1..Len(walk.answer)
    BY <1>1
  <2>7. Cardinality(walk.had) <= Cardinality(Log!Old) + Cardinality(StillThere) + walk.written
    BY <1>2 DEF LinesLost
  <2>. HIDE DEF k
  <2>8. CASE x \in walk.had
    <3>1. Log!Old' = Log!Old \cup {k} /\ k \notin Log!Old
      BY <1>7, <1>9, <2>1, <2>2, <2>6, <2>8
    <3>2. StillThere' = StillThere \ {k} /\ k \in StillThere
      BY <2>3, <2>4, <2>5, <2>6, <2>8 DEF x
    <3>3. Cardinality(Log!Old') = Cardinality(Log!Old) + 1
      BY <2>1, <3>1, FS_AddElement
    <3>4. Cardinality(StillThere') = Cardinality(StillThere) - 1
      BY <2>1, <3>2, FS_RemoveElement
    <3>5. Cardinality(walk.had) <= Cardinality(Log!Old') + Cardinality(StillThere') + walk.written
      BY <1>1, <2>1, <2>7, <3>3, <3>4
    <3>. QED  BY <1>6, <3>5 DEF LinesLost
  <2>9. CASE x \notin walk.had
    <3>1. Log!Old' = Log!Old
      BY <1>7, <1>9, <2>1, <2>2, <2>9
    <3>2. StillThere' = StillThere
      BY <2>3, <2>4, <2>5, <2>9 DEF x
    <3>. QED  BY <1>6, <2>7, <3>1, <3>2 DEF LinesLost
  <2>. QED  BY <2>8, <2>9
<1>. QED  BY <1>10, <1>11, <1>12, <1>15, <1>16 DEF RingInv

(* The answer is sent.                                                        *)
LEMMA EndKeeps ==
  ASSUME RingInv, Log!EndWalk
  PROVE  RingInv'
<1>1. LOG_RING_SIZE \in Nat \ {0} /\ RingTypes /\ RingOrder
  BY WalkParts DEF RingInv
<1>2. UNCHANGED <<s_ring, s_head, s_count, lines>> /\ walk' = Log!NoWalk
  BY DEF Log!EndWalk, Log!ringVars
<1>3. /\ walk'.on = FALSE /\ walk'.count = 0 /\ walk'.start = 0 /\ walk'.answer = <<>>
      /\ walk'.had = {} /\ walk'.written = 0 /\ walk' \in WalkRecord
  BY <1>1, <1>2 DEF Log!NoWalk, WalkRecord
<1>4. IsFiniteSet({}) /\ Cardinality({}) = 0
  BY FS_EmptySet
<1>5. RingTypes'
  <2>1. Len(walk'.answer) <= walk'.count /\ 1..Len(walk'.answer) = {}
    BY <1>3
  <2>. QED  BY <1>1, <1>2, <1>3, <1>4, <2>1 DEF RingTypes
<1>6. RingOrder'
  BY <1>1, <1>2 DEF RingOrder
<1>7. HeadFollows' /\ EntryOrder'
  BY <1>3 DEF HeadFollows, EntryOrder
<1>8. LinesLost'
  <2>1. Log!Old' = {} /\ StillThere' = {}
    BY <1>3 DEF Log!Old, Log!PlacesOf, StillThere
  <2>. QED  BY <1>3, <1>4, <2>1 DEF LinesLost
<1>. QED  BY <1>5, <1>6, <1>7, <1>8 DEF RingInv

(* What is true of the ring and of a walk in every state.                     *)
THEOREM RingInvariant == EventsSpec => []RingInv
<1>1. EventsInit => RingInv
  BY RingStarts DEF EventsInit
<1>2. ASSUME RingInv, [EventsNext]_pathVars PROVE RingInv'
  <2>1. RingStep \/ UNCHANGED ringCore
    BY <1>2, RingMoves
  <2>2. lines \in Nat
    BY <1>2, WalkParts
  <2>3. CASE UNCHANGED ringCore
    <3>1. UNCHANGED <<s_ring, s_head, s_count, lines, walk>>
      BY <2>3 DEF ringCore
    <3>2. RingTypes' /\ RingOrder' /\ HeadFollows'
      BY <1>2, <3>1 DEF RingInv, RingTypes, RingOrder, HeadFollows
    <3>3. \A j : SlotOf(j)' = SlotOf(j)
      BY <3>1 DEF SlotOf
    <3>4. \A j : Entry(j)' = Entry(j)
      BY <3>1, <3>3 DEF Entry
    <3>5. EntryOrder'
      BY <1>2, <3>1, <3>4 DEF RingInv, EntryOrder
    <3>6. Log!Old' = Log!Old /\ StillThere' = StillThere
      BY <3>1, <3>3 DEF Log!Old, Log!PlacesOf, StillThere
    <3>7. LinesLost'
      BY <1>2, <3>1, <3>6 DEF RingInv, LinesLost
    <3>. QED  BY <3>2, <3>5, <3>7 DEF RingInv
  <2>4. CASE Log!WriteLine
    <3>1. Log!WriteEntry(lines + 1) /\ lines' = lines + 1
      BY <2>4 DEF Log!WriteLine
    <3>2. lines + 1 \in Nat
      BY <2>2
    <3>. QED  BY <1>2, <3>1, <3>2, WriteKeeps
  <2>5. CASE Log!WriteSendLine
    <3>1. Log!WriteEntry(0) /\ lines' = lines /\ 0 \in Nat
      BY <2>5 DEF Log!WriteSendLine
    <3>. QED  BY <1>2, <2>2, <3>1, WriteKeeps
  <2>. QED  BY <1>2, <2>1, <2>3, <2>4, <2>5, StartKeeps, WalkOnKeeps, EndKeeps DEF RingStep
<1>. QED  BY <1>1, <1>2, PTL DEF EventsSpec

(* Whatever the size of the ring and however many lines are written while it  *)
(* is read: the lines that were there at the start come in order, and at most *)
(* one of them is missing for each line written.                              *)
THEOREM WalkIsBounded == EventsSpec => []WalkBounded
  BY RingInvariant, AnswerIsBounded, PTL
=============================================================================
