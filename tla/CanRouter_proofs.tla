-------------------------- MODULE CanRouter_proofs ---------------------------
(* Theorems about CanRouter for every number of clients, slots and frames    *)
(* and every ring size.                                                      *)
EXTENDS CanRouter, FiniteSetTheorems, SequenceTheorems, TLAPS

(* A slot given back by unsubscribe is a slot.                               *)
LEMMA ReleasedType ==
  ASSUME NEW slot \in Slot
  PROVE  [slot EXCEPT !.active = FALSE, !.count = 0, !.head = 0] \in Slot
<1>1. 0 \in Index /\ 0 \in 0..QueueDepth
      BY RouterAssumption DEF Index
<1>2. QED
      BY <1>1 DEF Slot

(* The two updates of a ring keep it a ring.                                 *)
LEMMA EnqueueType ==
  ASSUME NEW slot \in Slot,
         NEW frame \in Frame
  PROVE  /\ Enqueue(slot, frame) \in Slot
         /\ Enqueue(slot, frame).active = slot.active
         /\ Enqueue(slot, frame).accept = slot.accept
         /\ Enqueue(slot, frame).count =
              IF slot.count = QueueDepth THEN slot.count ELSE slot.count + 1
<1> USE DEF Slot
<1> DEFINE full == slot.count = QueueDepth
           head == IF full THEN (slot.head + 1) % QueueDepth ELSE slot.head
           count == IF full THEN slot.count ELSE slot.count + 1
           tail == (head + count - 1) % QueueDepth
<1>1. slot.head \in Nat /\ slot.count \in Nat /\ slot.count <= QueueDepth
      BY RouterAssumption DEF Index
<1>2. head \in Index
      BY <1>1, RouterAssumption DEF Index
<1>3. count \in 1..QueueDepth
      BY <1>1, RouterAssumption
<1>4. tail \in Index
  <2>1. head + count - 1 \in Nat
        BY <1>2, <1>3, RouterAssumption DEF Index
  <2>2. \A n \in Nat : n % QueueDepth \in 0..(QueueDepth - 1)
        BY RouterAssumption, SMTT(30)
  <2>3. QED
        BY <2>1, <2>2 DEF Index
<1>5. Enqueue(slot, frame) =
        [slot EXCEPT !.head = head, !.count = count, !.queue[tail] = frame]
      BY DEF Enqueue
<1> HIDE DEF head, count, tail
<1>6. Enqueue(slot, frame) =
        [active |-> slot.active, accept |-> slot.accept, head |-> head, count |-> count,
         queue |-> [slot.queue EXCEPT ![tail] = frame]]
      BY <1>5
<1>7. [slot.queue EXCEPT ![tail] = frame] \in [Index -> Frame \cup {NoFrame}]
      BY <1>4
<1>8. QED
      BY <1>2, <1>3, <1>6, <1>7 DEF count

LEMMA DequeueType ==
  ASSUME NEW slot \in Slot,
         slot.count > 0
  PROVE  /\ Dequeue(slot) \in Slot
         /\ Dequeue(slot).active = slot.active
         /\ Dequeue(slot).count = slot.count - 1
<1> USE DEF Slot
<1>1. (slot.head + 1) % QueueDepth \in Index
      BY RouterAssumption DEF Index
<1>2. slot.count - 1 \in 0..QueueDepth
      BY RouterAssumption
<1>3. QED
      BY <1>1, <1>2 DEF Dequeue

LEMMA Wrap ==
  ASSUME NEW x \in Nat, x < QueueDepth + QueueDepth
  PROVE  x % QueueDepth = IF x < QueueDepth THEN x ELSE x - QueueDepth
<1>1. QueueDepth \in Nat \ {0}
      BY RouterAssumption
<1>2. CASE x < QueueDepth
      BY <1>1, <1>2
<1>3. CASE x >= QueueDepth
      BY <1>1, <1>3
<1>4. QED
      BY <1>1, <1>2, <1>3

(* Enqueue appends, and drops the oldest entry of a full ring.               *)
LEMMA EnqueueContent ==
  ASSUME NEW slot \in Slot, NEW frame,
         NEW i \in 1..Enqueue(slot, frame).count
  PROVE  At(Enqueue(slot, frame), i) =
           IF i = Enqueue(slot, frame).count THEN frame
           ELSE IF slot.count = QueueDepth THEN At(slot, i + 1) ELSE At(slot, i)
<1> DEFINE full == slot.count = QueueDepth
           head == IF full THEN (slot.head + 1) % QueueDepth ELSE slot.head
           count == IF full THEN slot.count ELSE slot.count + 1
           tail == (head + count - 1) % QueueDepth
<1>0. QueueDepth \in Nat \ {0}
      BY RouterAssumption
<1>1. slot.head \in 0..(QueueDepth - 1) /\ slot.count \in 0..QueueDepth
      BY DEF Slot, Index
<1>2. head \in 0..(QueueDepth - 1) /\ count \in 1..QueueDepth
      BY <1>0, <1>1
<1>a. Enqueue(slot, frame) =
        [slot EXCEPT !.head = head, !.count = count, !.queue[tail] = frame]
      BY DEF Enqueue
<1>4. full => head = IF slot.head + 1 < QueueDepth THEN slot.head + 1
                     ELSE slot.head + 1 - QueueDepth
  <2>1. slot.head + 1 \in Nat /\ slot.head + 1 < QueueDepth + QueueDepth
        BY <1>0, <1>1
  <2>2. QED
        BY <1>0, <1>1, <2>1, Wrap
<1>5. ~full => head = slot.head
      OBVIOUS
<1> HIDE DEF head, count, tail
<1>3. Enqueue(slot, frame) =
        [active |-> slot.active, accept |-> slot.accept, head |-> head, count |-> count,
         queue |-> [slot.queue EXCEPT ![tail] = frame]]
      BY <1>a DEF Slot
<1>6. i \in 1..count
      BY <1>3
<1>7. tail = (IF head + count - 1 < QueueDepth THEN head + count - 1
             ELSE head + count - 1 - QueueDepth)
      BY <1>0, <1>2, Wrap DEF tail
<1> DEFINE pos == (head + i - 1) % QueueDepth
<1>8. pos = (IF head + i - 1 < QueueDepth THEN head + i - 1
            ELSE head + i - 1 - QueueDepth)
      BY <1>0, <1>2, <1>6, Wrap
<1>9. pos \in Index /\ tail \in Index
      BY <1>0, <1>2, <1>6, <1>7, <1>8 DEF Index
<1>10. DOMAIN slot.queue = Index
      BY DEF Slot
<1>11. pos = tail <=> i = count
      BY <1>0, <1>2, <1>6, <1>7, <1>8
<1>12. At(Enqueue(slot, frame), i) = [slot.queue EXCEPT ![tail] = frame][pos]
      BY <1>3 DEF At
<1>13. CASE i = count
      BY <1>3, <1>9, <1>10, <1>11, <1>12, <1>13
<1>14. CASE i # count
  <2>1. At(Enqueue(slot, frame), i) = slot.queue[pos]
        BY <1>9, <1>10, <1>11, <1>12, <1>14
  <2>2. CASE ~full
        BY <1>3, <1>5, <1>14, <2>1, <2>2 DEF At
  <2>3. CASE full
    <3>1. count = QueueDepth
          BY <2>3 DEF count
    <3>2. slot.head + (i + 1) - 1 \in Nat /\ slot.head + (i + 1) - 1 < QueueDepth + QueueDepth
          BY <1>0, <1>1, <1>2, <1>6, <1>14, <3>1
    <3>3. (slot.head + (i + 1) - 1) % QueueDepth =
            (IF slot.head + i < QueueDepth THEN slot.head + i
             ELSE slot.head + i - QueueDepth)
          BY <1>0, <1>1, <1>6, <1>2, <3>2, Wrap
    <3>4. (slot.head + (i + 1) - 1) % QueueDepth = pos
          BY <1>0, <1>1, <1>2, <1>4, <1>6, <1>8, <2>3, <3>1, <3>3, <1>14
    <3>5. QED
          BY <1>3, <1>14, <2>1, <2>3, <3>4 DEF At
  <2>4. QED
        BY <2>2, <2>3
<1>15. QED
      BY <1>13, <1>14

(* Dequeue removes the oldest entry.                                         *)
LEMMA DequeueContent ==
  ASSUME NEW slot \in Slot, NEW i \in 1..(slot.count - 1)
  PROVE  At(Dequeue(slot), i) = At(slot, i + 1)
<1>0. QueueDepth \in Nat \ {0}
      BY RouterAssumption
<1>1. slot.head \in 0..(QueueDepth - 1) /\ slot.count \in 0..QueueDepth
      BY DEF Slot, Index
<1> DEFINE head == (slot.head + 1) % QueueDepth
<1>2. head = IF slot.head + 1 < QueueDepth THEN slot.head + 1
             ELSE slot.head + 1 - QueueDepth
  <2>1. slot.head + 1 \in Nat /\ slot.head + 1 < QueueDepth + QueueDepth
        BY <1>0, <1>1
  <2>2. QED
        BY <1>0, <1>1, <2>1, Wrap
<1>3. Dequeue(slot).head = head /\ Dequeue(slot).queue = slot.queue
      BY DEF Dequeue, Slot
<1> HIDE DEF head
<1>4. (head + i - 1) % QueueDepth = (IF head + i - 1 < QueueDepth THEN head + i - 1
                                     ELSE head + i - 1 - QueueDepth)
  <2>1. head + i - 1 \in Nat /\ head + i - 1 < QueueDepth + QueueDepth
        BY <1>0, <1>1, <1>2
  <2>2. QED
        BY <1>0, <1>1, <1>2, <2>1, Wrap
<1>5. (slot.head + (i + 1) - 1) % QueueDepth =
        (IF slot.head + i < QueueDepth THEN slot.head + i ELSE slot.head + i - QueueDepth)
  <2>1. slot.head + (i + 1) - 1 = slot.head + i /\ slot.head + i \in Nat
        BY <1>0, <1>1
  <2>2. slot.head + i < QueueDepth + QueueDepth
        BY <1>0, <1>1
  <2>3. QED
        BY <1>0, <1>1, <2>1, <2>2, Wrap
<1>6. (head + i - 1) % QueueDepth = (slot.head + (i + 1) - 1) % QueueDepth
      BY <1>0, <1>1, <1>2, <1>4, <1>5
<1>7. QED
      BY <1>3, <1>6 DEF At

-----------------------------------------------------------------------------
(* What is queued is a frame, never an entry the memset left.                *)
RingFilled == \A s \in Slots : \A i \in 1..sub[s].count : At(sub[s], i) \in Frame

RouterInv ==
  TypeOK /\ RingFilled /\ SlotsOwned /\ TokensMatchFrames /\ TokenIsHonoured

LEMMA InitRouter == Init => RouterInv
<1> SUFFICES ASSUME Init PROVE RouterInv
    OBVIOUS
<1>1. TypeOK
  <2>1. 0 \in Index /\ 0 \in 0..QueueDepth
        BY RouterAssumption DEF Index
  <2>2. Cleared \in Slot
        BY <2>1 DEF Cleared, Slot
  <2>3. QED
        BY <2>2 DEF Init, TypeOK, Codes
<1>2. SlotsOwned /\ TokensMatchFrames /\ TokenIsHonoured
      BY RouterAssumption DEF Init, SlotsOwned, TokensMatchFrames, TokenIsHonoured, Cleared, Slots
<1>r. RingFilled
      BY DEF Init, RingFilled, Cleared
<1>3. QED
      BY <1>1, <1>2, <1>r DEF RouterInv

LEMMA DispatchKeeps ==
  ASSUME RouterInv, NEW id \in Ids, Dispatch(id)
  PROVE  RouterInv'
<1> USE DEF RouterInv, Dispatch
<1> DEFINE frame == [n |-> rxFrames + 1, id |-> id]
           Hit(s) == Matches(s, id)
<1>1. frame \in Frame
      BY DEF TypeOK, Frame
<1>2. ASSUME NEW s \in Slots
      PROVE  /\ sub'[s] \in Slot
             /\ sub'[s].active = sub[s].active
             /\ sub'[s].count - sub[s].count = available'[s] - available[s]
             /\ available'[s] \in Nat
  <2>1. sub[s] \in Slot /\ available[s] \in Nat
        BY DEF TypeOK
  <2>2. sub[s].count \in Nat
        BY <2>1, RouterAssumption DEF Slot
  <2>3. CASE Hit(s)
    <3>1. sub'[s] = Enqueue(sub[s], frame)
          BY <2>3
    <3>2. available'[s] = IF Full(s) THEN available[s] ELSE available[s] + 1
          BY <2>3
    <3>3. QED
          BY <1>1, <2>1, <2>2, <3>1, <3>2, EnqueueType DEF Full
  <2>4. CASE ~Hit(s)
        BY <2>1, <2>2, <2>4
  <2>5. QED
        BY <2>3, <2>4
<1>3. sub' \in [Slots -> Slot] /\ available' \in [Slots -> Nat]
  <2>1. sub' = [s \in Slots |-> sub'[s]] /\ available' = [s \in Slots |-> available'[s]]
        OBVIOUS
  <2>2. \A s \in Slots : sub'[s] \in Slot /\ available'[s] \in Nat
        BY <1>2
  <2> HIDE DEF Dispatch
  <2>3. QED
        BY <2>1, <2>2
<1>4. TypeOK'
  <2>1. Cardinality({s \in Slots : Matches(s, id) /\ Full(s)}) \in Nat
    <3>1. IsFiniteSet(Slots)
          BY FS_Interval, RouterAssumption DEF Slots
    <3>2. QED
          BY <3>1, FS_Subset, FS_CardinalityType
  <2>2. rxDropped' \in Nat /\ rxFrames' \in Nat
        BY <2>1 DEF TypeOK
  <2>3. QED
        BY <1>3, <2>2 DEF TypeOK, clients
<1>5. SlotsOwned'
      BY <1>2 DEF SlotsOwned, clients
<1>6. TokensMatchFrames'
  <2> SUFFICES ASSUME NEW c \in Clients, pc[c] # "out"
               PROVE  sub'[handle[c]].count =
                        available'[handle[c]] + (IF pc[c] = "holding" THEN 1 ELSE 0)
      BY DEF TokensMatchFrames, clients
  <2>1. handle[c] \in Slots
        BY DEF SlotsOwned, TypeOK
  <2>2. sub[handle[c]].count \in Nat /\ sub'[handle[c]].count \in Nat
        BY <1>2, <2>1, RouterAssumption DEF TypeOK, Slot
  <2>3. available[handle[c]] \in Nat /\ available'[handle[c]] \in Nat
        BY <1>2, <2>1 DEF TypeOK
  <2>4. QED
        BY <1>2, <2>1, <2>2, <2>3 DEF TokensMatchFrames
<1>7. TokenIsHonoured'
      BY DEF TokenIsHonoured, clients
<1>8. RingFilled'
  <2> SUFFICES ASSUME NEW s \in Slots, NEW i \in 1..sub'[s].count
               PROVE  At(sub'[s], i) \in Frame
      BY DEF RingFilled, At
  <2>1. sub[s] \in Slot /\ sub[s].count \in 0..QueueDepth
        BY DEF TypeOK, Slot
  <2>2. CASE Hit(s)
    <3>1. sub'[s] = Enqueue(sub[s], frame)
          BY <2>2
    <3>2. Enqueue(sub[s], frame).count =
            IF sub[s].count = QueueDepth THEN sub[s].count ELSE sub[s].count + 1
          BY <1>1, <2>1, EnqueueType
    <3>3. i \in 1..Enqueue(sub[s], frame).count
          BY <3>1
    <3>4. At(sub'[s], i) = IF i = Enqueue(sub[s], frame).count THEN frame
                           ELSE IF sub[s].count = QueueDepth THEN At(sub[s], i + 1)
                           ELSE At(sub[s], i)
          BY <2>1, <3>1, <3>3, EnqueueContent
    <3>5. i = Enqueue(sub[s], frame).count \/
          (IF sub[s].count = QueueDepth THEN i + 1 ELSE i) \in 1..sub[s].count
          BY <2>1, <3>2, <3>3, RouterAssumption
    <3>6. QED
          BY <1>1, <3>4, <3>5 DEF RingFilled
  <2>3. CASE ~Hit(s)
        BY <2>3 DEF RingFilled
  <2>4. QED
        BY <2>2, <2>3
<1>9. QED
      BY <1>4, <1>5, <1>6, <1>7, <1>8

LEMMA ReaderKeeps ==
  ASSUME RouterInv, NEW c \in Clients, Reader(c)
  PROVE  RouterInv'
<1> USE DEF RouterInv
<1>0. /\ pc \in [Clients -> {"out", "ready", "waiting", "holding"}]
      /\ handle \in [Clients -> Slots \cup {NoHandle}]
      /\ sub \in [Slots -> Slot] /\ available \in [Slots -> Nat]
      /\ \A s \in Slots : sub[s].count \in Nat
      /\ NoHandle \notin Slots
      BY RouterAssumption DEF TypeOK, Slot, Slots
<1>h. \A b \in Clients : pc[b] # "out" => handle[b] \in Slots
      BY <1>0 DEF SlotsOwned
<1>1. CASE Subscribe(c)
  <2>1. PICK s \in Slots, f \in Filters :
          /\ ~sub[s].active
          /\ sub' = [sub EXCEPT ![s] = [Cleared EXCEPT !.active = TRUE, !.accept = f]]
          /\ available' = [available EXCEPT ![s] = 0]
          /\ handle' = [handle EXCEPT ![c] = s]
        BY <1>1 DEF Subscribe
  <2>2. pc[c] = "out" /\ handle[c] = NoHandle /\ pc' = [pc EXCEPT ![c] = "ready"]
        /\ ret' = [ret EXCEPT ![c] = "OK"]
        BY <1>1 DEF Subscribe, Return, SlotsOwned
  <2>3. [Cleared EXCEPT !.active = TRUE, !.accept = f] \in Slot
    <3>1. 0 \in Index /\ 0 \in 0..QueueDepth
          BY RouterAssumption DEF Index
    <3>2. QED
          BY <3>1, RouterAssumption DEF Cleared, Slot
  <2>4. TypeOK'
        BY <1>0, <1>1, <2>1, <2>2, <2>3 DEF Subscribe, TypeOK, Codes
  <2>5. \A b \in Clients : handle[b] # s
        BY <2>1 DEF SlotsOwned
  <2>6. SlotsOwned'
        BY <1>0, <2>1, <2>2, <2>5 DEF SlotsOwned, Cleared
  <2>7. TokensMatchFrames'
        BY <1>0, <1>h, <2>1, <2>2, <2>5 DEF TokensMatchFrames, Cleared
  <2>8. TokenIsHonoured'
        BY <2>2 DEF TokenIsHonoured, TypeOK
  <2>9. RingFilled'
        BY <1>0, <2>1 DEF RingFilled, Cleared, At
  <2>10. QED
        BY <2>4, <2>6, <2>7, <2>8, <2>9
<1>2. CASE SubscribeFull(c)
      BY <1>0, <1>2 DEF SubscribeFull, Return, TypeOK, Codes, SlotsOwned, TokensMatchFrames,
         TokenIsHonoured, RingFilled, At
<1>3. CASE Unsubscribe(c)
  <2> DEFINE s == handle[c]
  <2>1. /\ pc[c] = "ready" /\ s \in Slots
        /\ pc' = [pc EXCEPT ![c] = "out"] /\ ret' = [ret EXCEPT ![c] = "OK"]
        /\ handle' = [handle EXCEPT ![c] = NoHandle]
        /\ available' = [available EXCEPT ![s] = 0]
        BY <1>h, <1>3 DEF Unsubscribe, Return
  <2>2. sub' = [sub EXCEPT ![s] = [@ EXCEPT !.active = FALSE, !.count = 0, !.head = 0]]
        BY <1>0, <1>3, <2>1 DEF Unsubscribe, Slot
  <2>3. [sub[s] EXCEPT !.active = FALSE, !.count = 0, !.head = 0] \in Slot
        BY <1>0, <2>1, ReleasedType
  <2>4. TypeOK'
    <3>1. sub' \in [Slots -> Slot]
          BY <1>0, <2>1, <2>2, <2>3 DEF TypeOK
    <3>2. /\ available' \in [Slots -> Nat] /\ handle' \in [Clients -> Slots \cup {NoHandle}]
          /\ ret' \in [Clients -> Codes]
          /\ pc' \in [Clients -> {"out", "ready", "waiting", "holding"}]
          BY <1>0, <2>1 DEF TypeOK, Codes
    <3>3. rxFrames' = rxFrames /\ rxDropped' = rxDropped /\ got' = got
          BY <1>3 DEF Unsubscribe
    <3>4. QED
          BY <1>0, <3>1, <3>2, <3>3 DEF TypeOK
  <2>5. \A b \in Clients \ {c} : handle[b] # s
        BY <1>0, <2>1 DEF SlotsOwned
  <2>6. ~sub'[s].active
        BY <1>0, <2>1, <2>2 DEF Slot
  <2>7. SlotsOwned'
        BY <1>0, <2>1, <2>2, <2>5, <2>6 DEF SlotsOwned
  <2>8. TokensMatchFrames'
        BY <1>0, <1>h, <2>1, <2>2, <2>5 DEF TokensMatchFrames
  <2>9. TokenIsHonoured'
        BY <2>1 DEF TokenIsHonoured, TypeOK
  <2>r. RingFilled'
    <3>1. \A t \in Slots \ {s} : sub'[t] = sub[t]
          BY <1>0, <2>2
    <3>2. sub'[s].count = 0
          BY <1>0, <2>1, <2>2 DEF Slot
    <3>3. QED
          BY <1>0, <2>1, <3>1, <3>2 DEF RingFilled, At
  <2>10. QED
        BY <2>4, <2>7, <2>8, <2>9, <2>r
<1>4. CASE Receive(c)
  <2>1. PICK to \in {"waiting", "ready"}, code \in {"none", "ENOENT"} :
          Return(c, "ready", to, code)
        BY <1>4 DEF Receive
  <2>2. QED
        BY <1>0, <1>4, <2>1 DEF Receive, Return, TypeOK, Codes, SlotsOwned,
           TokensMatchFrames, TokenIsHonoured, RingFilled, At
<1>5. CASE TakeToken(c)
  <2>1. /\ pc[c] = "waiting" /\ handle[c] \in Slots
        /\ \A b \in Clients \ {c} : pc[b] # "out" => handle[b] # handle[c]
        BY <1>0, <1>h, <1>5 DEF TakeToken, Return, SlotsOwned
  <2>2. TypeOK' /\ SlotsOwned' /\ TokenIsHonoured' /\ RingFilled'
        BY <1>0, <1>5, <2>1 DEF TakeToken, Return, TypeOK, Codes, SlotsOwned, TokenIsHonoured,
           RingFilled, At
  <2>3. TokensMatchFrames'
        BY <1>0, <1>h, <1>5, <2>1 DEF TakeToken, Return, TokensMatchFrames
  <2>4. QED
        BY <2>2, <2>3
<1>6. CASE TimedOut(c)
      BY <1>0, <1>6 DEF TimedOut, Return, TypeOK, Codes, SlotsOwned, TokensMatchFrames,
         TokenIsHonoured, RingFilled, At
<1>7. CASE TakeFrame(c)
  <2>1. /\ pc[c] = "holding" /\ handle[c] \in Slots
        /\ \A b \in Clients \ {c} : pc[b] # "out" => handle[b] # handle[c]
        BY <1>0, <1>h, <1>7 DEF TakeFrame, Return, SlotsOwned
  <2>2. sub[handle[c]].active /\ sub[handle[c]].count > 0
        BY <1>0, <2>1 DEF SlotsOwned, TokensMatchFrames
  <2>3. /\ pc' = [pc EXCEPT ![c] = "ready"] /\ ret' = [ret EXCEPT ![c] = "OK"]
        /\ sub' = [sub EXCEPT ![handle[c]] = Dequeue(sub[handle[c]])]
        /\ got' = [got EXCEPT ![c] =
                     Append(@, sub[handle[c]].queue[sub[handle[c]].head])]
        /\ UNCHANGED <<available, rxFrames, rxDropped, handle>>
        BY <1>7, <2>2, <1>0, <2>1 DEF TakeFrame, Return
  <2>4. /\ Dequeue(sub[handle[c]]) \in Slot /\ Dequeue(sub[handle[c]]).active
        /\ Dequeue(sub[handle[c]]).count = sub[handle[c]].count - 1
        BY <1>0, <2>1, <2>2, DequeueType
  <2>5. SlotsOwned'
        BY <1>0, <2>1, <2>2, <2>3, <2>4 DEF SlotsOwned
  <2>6. TokensMatchFrames'
        BY <1>0, <1>h, <2>1, <2>2, <2>3, <2>4 DEF TokensMatchFrames
  <2>7. TokenIsHonoured'
        BY <2>3 DEF TokenIsHonoured, TypeOK
  <2>8. sub[handle[c]].queue[sub[handle[c]].head] \in Frame
    <3>1. sub[handle[c]].head \in Index /\ sub[handle[c]].count \in Nat
          BY <1>0, <2>1 DEF Slot
    <3>2. 1 \in 1..sub[handle[c]].count
          BY <2>2, <3>1
    <3>3. At(sub[handle[c]], 1) \in Frame
          BY <2>1, <3>2 DEF RingFilled
    <3>4. sub[handle[c]].head + 1 - 1 = sub[handle[c]].head
          BY <3>1 DEF Index
    <3>5. sub[handle[c]].head % QueueDepth = sub[handle[c]].head
          BY <3>1, RouterAssumption DEF Index
    <3>6. QED
          BY <3>3, <3>4, <3>5 DEF At
  <2>9. TypeOK'
    <3>1. got' \in [Clients -> Seq(Frame)]
          BY <2>3, <2>8 DEF TypeOK
    <3>2. QED
          BY <1>0, <2>1, <2>3, <2>4, <3>1 DEF TypeOK, Codes
  <2>10. RingFilled'
    <3> SUFFICES ASSUME NEW s \in Slots, NEW i \in 1..sub'[s].count
                 PROVE  At(sub'[s], i) \in Frame
        BY DEF RingFilled, At
    <3>1. CASE s # handle[c]
          BY <1>0, <2>1, <2>3, <3>1 DEF RingFilled
    <3>2. CASE s = handle[c]
      <4>1. sub'[s] = Dequeue(sub[s]) /\ sub[s] \in Slot /\ sub[s].count \in Nat
            BY <1>0, <2>1, <2>3, <3>2
      <4>2. i \in 1..(sub[s].count - 1)
            BY <2>4, <3>2, <4>1
      <4>3. At(sub'[s], i) = At(sub[s], i + 1)
            BY <4>1, <4>2, DequeueContent
      <4>4. i + 1 \in 1..sub[s].count
            BY <4>1, <4>2
      <4>5. QED
            BY <4>3, <4>4 DEF RingFilled
    <3>3. QED
          BY <3>1, <3>2
  <2>11. QED
        BY <2>5, <2>6, <2>7, <2>9, <2>10
<1>8. QED
      BY <1>1, <1>2, <1>3, <1>4, <1>5, <1>6, <1>7 DEF Reader

LEMMA NextRouter == RouterInv /\ [Next]_vars => RouterInv'
<1> SUFFICES ASSUME RouterInv, [Next]_vars PROVE RouterInv'
    OBVIOUS
<1>1. CASE UNCHANGED vars
      BY <1>1 DEF RouterInv, TypeOK, RingFilled, At, SlotsOwned, TokensMatchFrames,
         TokenIsHonoured, vars, clients
<1>2. CASE Next
      BY <1>2, DispatchKeeps, ReaderKeeps DEF Next
<1>3. QED
      BY <1>1, <1>2

LEMMA RouterSafe == Spec => []RouterInv
BY InitRouter, NextRouter, PTL DEF Spec

(* The subscriber table keeps its type for every table and ring size: head   *)
(* and count stay inside the ring, and what a reader gets is a frame.        *)
THEOREM RouterTypeCorrect == Spec => []TypeOK
<1>1. RouterInv => TypeOK
      BY DEF RouterInv
<1>2. QED
      BY <1>1, RouterSafe, PTL

(* A slot in use has exactly one owner.                                      *)
THEOREM SlotsHaveOwners == Spec => []SlotsOwned
<1>1. RouterInv => SlotsOwned
      BY DEF RouterInv
<1>2. QED
      BY <1>1, RouterSafe, PTL

(* Tokens and queued frames agree, through every overflow and reuse.         *)
THEOREM TokensAgree == Spec => []TokensMatchFrames
<1>1. RouterInv => TokensMatchFrames
      BY DEF RouterInv
<1>2. QED
      BY <1>1, RouterSafe, PTL

(* receive never returns -EAGAIN once it has been given a token.             *)
THEOREM TokensHonoured == Spec => []TokenIsHonoured
<1>1. RouterInv => TokenIsHonoured
      BY DEF RouterInv
<1>2. QED
      BY <1>1, RouterSafe, PTL

(* Slots, tokens and frames agree with each other at every step.             *)
THEOREM BooksAlwaysBalance == Spec => []BooksBalance
<1>1. RouterInv => BooksBalance
      BY DEF RouterInv, BooksBalance
<1>2. QED
      BY <1>1, RouterSafe, PTL

-----------------------------------------------------------------------------
(* The refinement: what the ring operations do to the sequence of entries.   *)
LEMMA ContentSeq ==
  ASSUME NEW slot \in Slot, \A i \in 1..slot.count : At(slot, i) \in Frame
  PROVE  /\ Content(slot) \in Seq(Frame)
         /\ Len(Content(slot)) = slot.count
         /\ \A i \in 1..slot.count : Content(slot)[i] = At(slot, i)
<1>1. slot.count \in Nat
      BY RouterAssumption DEF Slot
<1>2. QED
      BY <1>1 DEF Content

LEMMA EnqueueSeq ==
  ASSUME NEW slot \in Slot, NEW frame \in Frame,
         \A i \in 1..slot.count : At(slot, i) \in Frame
  PROVE  Content(Enqueue(slot, frame)) = Mailbox!Newest(Append(Content(slot), frame))
<1> DEFINE new == Enqueue(slot, frame)
           box == Append(Content(slot), frame)
<1>1. /\ new \in Slot /\ slot.count \in 0..QueueDepth /\ QueueDepth \in Nat \ {0}
      /\ new.count = IF slot.count = QueueDepth THEN slot.count ELSE slot.count + 1
      BY EnqueueType, RouterAssumption DEF Slot
<1>2. \A i \in 1..new.count :
        At(new, i) = IF i = new.count THEN frame
                     ELSE IF slot.count = QueueDepth THEN At(slot, i + 1) ELSE At(slot, i)
      BY EnqueueContent
<1>3. /\ box \in Seq(Frame) /\ Len(box) = slot.count + 1
      /\ \A i \in 1..slot.count : box[i] = At(slot, i)
      /\ box[slot.count + 1] = frame
      BY <1>1, ContentSeq
<1> HIDE DEF new, box
<1>4. CASE slot.count = QueueDepth
  <2>1. Mailbox!Newest(box) = Tail(box)
        BY <1>1, <1>3, <1>4 DEF Mailbox!Newest
  <2>2. /\ Tail(box) \in Seq(Frame) /\ Len(Tail(box)) = slot.count
        /\ \A i \in 1..slot.count : Tail(box)[i] = box[i + 1]
    <3>1. box # <<>>
          BY <1>1, <1>3
    <3>2. QED
          BY <1>1, <1>3, <3>1, HeadTailProperties
  <2>3. \A i \in 1..new.count : At(new, i) = Tail(box)[i]
        BY <1>1, <1>2, <1>3, <1>4, <2>2
  <2>4. \A i \in 1..new.count : At(new, i) \in Frame
        BY <1>1, <1>4, <2>2, <2>3, ElementOfSeq
  <2>5. /\ Content(new) \in Seq(Frame) /\ Len(Content(new)) = new.count
        /\ \A i \in 1..new.count : Content(new)[i] = At(new, i)
        BY <1>1, <2>4, ContentSeq
  <2>6. Content(new) = Tail(box)
        BY <1>1, <1>4, <2>2, <2>3, <2>5, SeqEqual
  <2>7. QED
        BY <2>1, <2>6 DEF new, box
<1>5. CASE slot.count # QueueDepth
  <2>1. Mailbox!Newest(box) = box
        BY <1>1, <1>3, <1>5 DEF Mailbox!Newest
  <2>2. \A i \in 1..new.count : At(new, i) = box[i]
        BY <1>1, <1>2, <1>3, <1>5
  <2>3. \A i \in 1..new.count : At(new, i) \in Frame
        BY <1>1, <1>3, <1>5, <2>2, ElementOfSeq
  <2>4. /\ Content(new) \in Seq(Frame) /\ Len(Content(new)) = new.count
        /\ \A i \in 1..new.count : Content(new)[i] = At(new, i)
        BY <1>1, <2>3, ContentSeq
  <2>5. Content(new) = box
        BY <1>1, <1>3, <1>5, <2>2, <2>4, SeqEqual
  <2>6. QED
        BY <2>1, <2>5 DEF new, box
<1>6. QED
      BY <1>4, <1>5

LEMMA DequeueSeq ==
  ASSUME NEW slot \in Slot, slot.count > 0,
         \A i \in 1..slot.count : At(slot, i) \in Frame
  PROVE  /\ Content(slot) # <<>>
         /\ Content(Dequeue(slot)) = Tail(Content(slot))
         /\ Head(Content(slot)) = slot.queue[slot.head]
<1> DEFINE new == Dequeue(slot)
           box == Content(slot)
<1>1. new \in Slot /\ new.count = slot.count - 1 /\ slot.count \in Nat
      BY DequeueType, RouterAssumption DEF Slot
<1>2. /\ box \in Seq(Frame) /\ Len(box) = slot.count
      /\ \A i \in 1..slot.count : box[i] = At(slot, i)
      BY ContentSeq
<1>3. \A i \in 1..new.count : At(new, i) = At(slot, i + 1)
      BY <1>1, DequeueContent
<1> HIDE DEF new, box
<1>4. box # <<>>
      BY <1>1, <1>2
<1>5. /\ Tail(box) \in Seq(Frame) /\ Len(Tail(box)) = new.count
      /\ \A i \in 1..new.count : Tail(box)[i] = box[i + 1]
      BY <1>1, <1>2, <1>4, HeadTailProperties
<1>6. \A i \in 1..new.count : At(new, i) = Tail(box)[i]
      BY <1>1, <1>2, <1>3, <1>5
<1>7. \A i \in 1..new.count : At(new, i) \in Frame
      BY <1>1, <1>5, <1>6, ElementOfSeq
<1>8. /\ Content(new) \in Seq(Frame) /\ Len(Content(new)) = new.count
      /\ \A i \in 1..new.count : Content(new)[i] = At(new, i)
      BY <1>1, <1>7, ContentSeq
<1>9. Content(new) = Tail(box)
      BY <1>1, <1>5, <1>6, <1>8, SeqEqual
<1>10. Head(box) = slot.queue[slot.head]
  <2>1. Head(box) = At(slot, 1)
        BY <1>1, <1>2, <1>4
  <2>2. slot.head \in Nat /\ slot.head < QueueDepth /\ QueueDepth \in Nat \ {0}
        BY RouterAssumption DEF Slot, Index
  <2>3. (slot.head + 1 - 1) % QueueDepth = slot.head
        BY <2>2
  <2>4. QED
        BY <2>1, <2>3 DEF At
<1>11. QED
      BY <1>4, <1>9, <1>10 DEF new, box

LEMMA InitRefines == Init => Mailbox!Init
BY DEF Init, Mailbox!Init, Accept, Box

LEMMA DispatchRefines ==
  ASSUME RouterInv, NEW id \in Ids, Dispatch(id)
  PROVE  Mailbox!Next
<1> USE DEF RouterInv
<1> DEFINE frame == [n |-> rxFrames + 1, id |-> id]
<1>1. frame \in Frame
      BY DEF TypeOK, Frame
<1>2. ASSUME NEW c \in Clients
      PROVE  /\ Box(c)' = IF id \in Accept(c) THEN Mailbox!Newest(Append(Box(c), frame))
                          ELSE Box(c)
             /\ Accept(c)' = Accept(c)
  <2>1. handle' = handle
        BY DEF Dispatch, clients
  <2>2. CASE handle[c] = NoHandle
        BY <2>1, <2>2 DEF Box, Accept
  <2>3. CASE handle[c] # NoHandle
    <3> DEFINE s == handle[c]
    <3>1. s \in Slots /\ sub[s] \in Slot /\ sub[s].active
          BY <2>3 DEF TypeOK, SlotsOwned
    <3>2. \A i \in 1..sub[s].count : At(sub[s], i) \in Frame
          BY <3>1 DEF RingFilled
    <3>3. sub'[s] = IF id \in Accept(c) THEN Enqueue(sub[s], frame) ELSE sub[s]
          BY <2>3, <3>1 DEF Dispatch, Matches, Accept
    <3>4. Box(c) = Content(sub[s]) /\ Box(c)' = Content(sub'[s])
          BY <2>1, <2>3 DEF Box, Content, At
    <3>5. Accept(c)' = Accept(c)
          BY <1>1, <2>1, <2>3, <3>1, <3>3, EnqueueType DEF Accept
    <3>6. QED
          BY <1>1, <3>1, <3>2, <3>3, <3>4, <3>5, EnqueueSeq
  <2>4. QED
        BY <2>2, <2>3
<1>3. Mailbox!Arrive(id)
  <2>1. rxFrames' = rxFrames + 1 /\ got' = got
        BY DEF Dispatch, clients
  <2>2. [c \in Clients |-> Accept(c)]' = [c \in Clients |-> Accept(c)]
        BY <1>2
  <2>3. [c \in Clients |-> Box(c)]' =
          [c \in Clients |->
             IF id \in [d \in Clients |-> Accept(d)][c]
               THEN Mailbox!Newest(Append([d \in Clients |-> Box(d)][c], frame))
               ELSE [d \in Clients |-> Box(d)][c]]
        BY <1>2
  <2>4. QED
        BY <2>1, <2>2, <2>3 DEF Mailbox!Arrive
<1>4. QED
      BY <1>3 DEF Mailbox!Next

(* Every reader step is a mailbox step of that client or leaves every        *)
(* mailbox as it was.                                                        *)
LEMMA ReaderRefines ==
  ASSUME RouterInv, NEW c \in Clients, Reader(c)
  PROVE  Mailbox!Next \/ UNCHANGED Mailbox!vars
<1> USE DEF RouterInv
<1>0. /\ \A b \in Clients : handle[b] # NoHandle =>
           handle[b] \in Slots /\ sub[handle[b]] \in Slot /\ sub[handle[b]].active
      /\ \A b \in Clients \ {c} : handle[b] = handle[c] => handle[b] = NoHandle
      BY DEF TypeOK, SlotsOwned
<1>1. CASE Subscribe(c)
  <2>1. PICK s \in Slots, f \in Filters :
          /\ ~sub[s].active
          /\ sub' = [sub EXCEPT ![s] = [Cleared EXCEPT !.active = TRUE, !.accept = f]]
          /\ handle' = [handle EXCEPT ![c] = s]
        BY <1>1 DEF Subscribe
  <2>2. handle[c] = NoHandle /\ s # NoHandle
        BY <1>1, RouterAssumption DEF Subscribe, Return, SlotsOwned, Slots
  <2>3. /\ sub'[s].accept = f /\ sub'[s].count = 0 /\ handle'[c] = s
        /\ \A b \in Clients \ {c} : handle'[b] = handle[b]
        /\ \A t \in Slots \ {s} : sub'[t] = sub[t]
        BY <2>1 DEF TypeOK, Cleared
  <2>4. Accept(c) = {} /\ Accept(c)' = f /\ Box(c) = <<>> /\ Box(c)' = <<>>
        BY <2>2, <2>3 DEF Accept, Box, Content
  <2>5. ASSUME NEW b \in Clients \ {c}
        PROVE  Accept(b)' = Accept(b) /\ Box(b)' = Box(b)
    <3>1. CASE handle[b] = NoHandle
          BY <2>3, <3>1 DEF Accept, Box
    <3>2. CASE handle[b] # NoHandle
      <4>1. handle[b] \in Slots \ {s}
            BY <1>0, <2>1, <3>2
      <4>2. QED
            BY <2>3, <3>2, <4>1 DEF Accept, Box, Content, At
    <3>3. QED
          BY <3>1, <3>2
  <2>6. got' = [got EXCEPT ![c] = <<>>] /\ rxFrames' = rxFrames
        BY <1>1 DEF Subscribe
  <2>7. [b \in Clients |-> Accept(b)]' = [[b \in Clients |-> Accept(b)] EXCEPT ![c] = f]
        BY <2>4, <2>5
  <2>8. [b \in Clients |-> Box(b)]' = [b \in Clients |-> Box(b)]
        BY <2>4, <2>5
  <2>9. Mailbox!Subscribe(c)
        BY <2>1, <2>4, <2>6, <2>7, <2>8 DEF Mailbox!Subscribe
  <2>10. QED
        BY <2>9 DEF Mailbox!Next
<1>2. CASE Unsubscribe(c)
  <2>1. /\ handle[c] \in Slots /\ handle[c] # NoHandle
        /\ handle' = [handle EXCEPT ![c] = NoHandle]
        /\ rxFrames' = rxFrames /\ got' = got
        BY <1>0, <1>2 DEF Unsubscribe, Return, SlotsOwned
  <2>2. \A t \in Slots \ {handle[c]} : sub'[t] = sub[t]
        BY <1>2 DEF Unsubscribe, TypeOK
  <2>3. Accept(c)' = {} /\ Box(c)' = <<>>
        BY <2>1 DEF Accept, Box, TypeOK
  <2>4. ASSUME NEW b \in Clients \ {c}
        PROVE  Accept(b)' = Accept(b) /\ Box(b)' = Box(b)
    <3>0. handle'[b] = handle[b]
          BY <2>1 DEF TypeOK
    <3>1. CASE handle[b] = NoHandle
          BY <3>0, <3>1 DEF Accept, Box
    <3>2. CASE handle[b] # NoHandle
      <4>1. handle[b] \in Slots \ {handle[c]}
            BY <1>0, <3>2
      <4>2. QED
            BY <2>2, <3>0, <3>2, <4>1 DEF Accept, Box, Content, At
    <3>3. QED
          BY <3>1, <3>2
  <2>5. [b \in Clients |-> Accept(b)]' = [[b \in Clients |-> Accept(b)] EXCEPT ![c] = {}]
        BY <2>3, <2>4
  <2>6. [b \in Clients |-> Box(b)]' = [[b \in Clients |-> Box(b)] EXCEPT ![c] = <<>>]
        BY <2>3, <2>4
  <2>7. Mailbox!Unsubscribe(c)
        BY <2>1, <2>5, <2>6 DEF Mailbox!Unsubscribe
  <2>8. QED
        BY <2>7 DEF Mailbox!Next
<1>3. CASE TakeFrame(c)
  <2> DEFINE slot == sub[handle[c]]
  <2>1. /\ pc[c] = "holding" /\ handle[c] \in Slots /\ handle[c] # NoHandle
        /\ slot \in Slot /\ slot.active /\ slot.count > 0
        BY <1>0, <1>3 DEF TakeFrame, Return, SlotsOwned, TokensMatchFrames, TypeOK
  <2>2. /\ sub' = [sub EXCEPT ![handle[c]] = Dequeue(slot)]
        /\ got' = [got EXCEPT ![c] = Append(@, slot.queue[slot.head])]
        /\ handle' = handle /\ rxFrames' = rxFrames
        BY <1>3, <2>1 DEF TakeFrame
  <2>3. \A i \in 1..slot.count : At(slot, i) \in Frame
        BY <2>1 DEF RingFilled
  <2>4. /\ Content(slot) # <<>> /\ Content(Dequeue(slot)) = Tail(Content(slot))
        /\ Head(Content(slot)) = slot.queue[slot.head]
        BY <2>1, <2>3, DequeueSeq
  <2>5. /\ sub'[handle[c]] = Dequeue(slot)
        /\ \A t \in Slots \ {handle[c]} : sub'[t] = sub[t]
        BY <2>1, <2>2 DEF TypeOK
  <2>6. /\ Box(c) = Content(slot) /\ Box(c)' = Tail(Box(c))
        /\ Accept(c)' = Accept(c)
    <3>1. Box(c) = Content(slot)
          BY <2>1 DEF Box
    <3>2. Box(c)' = Content(Dequeue(slot))
      <4>1. handle'[c] # NoHandle /\ sub'[handle'[c]] = Dequeue(slot)
            BY <2>1, <2>2, <2>5
      <4>2. QED
            BY <4>1 DEF Box, Content, At
    <3>3. Accept(c)' = Accept(c)
          BY <2>1, <2>2, <2>5 DEF Accept, Dequeue, Slot
    <3>4. QED
          BY <2>4, <3>1, <3>2, <3>3
  <2>7. ASSUME NEW b \in Clients \ {c}
        PROVE  Accept(b)' = Accept(b) /\ Box(b)' = Box(b)
    <3>1. CASE handle[b] = NoHandle
          BY <2>2, <3>1 DEF Accept, Box
    <3>2. CASE handle[b] # NoHandle
      <4>1. handle[b] \in Slots \ {handle[c]}
            BY <1>0, <3>2
      <4>2. handle'[b] = handle[b] /\ sub'[handle[b]] = sub[handle[b]]
            BY <2>2, <2>5, <4>1
      <4>3. QED
            BY <3>2, <4>2 DEF Accept, Box, Content, At
    <3>3. QED
          BY <3>1, <3>2
  <2>8. [b \in Clients |-> Accept(b)]' = [b \in Clients |-> Accept(b)]
        BY <2>6, <2>7
  <2>9. [b \in Clients |-> Box(b)]' =
          [[b \in Clients |-> Box(b)] EXCEPT ![c] = Tail([b \in Clients |-> Box(b)][c])]
        BY <2>6, <2>7
  <2>10. Mailbox!Receive(c)
    <3>1. /\ [b \in Clients |-> Box(b)][c] # <<>>
          /\ Head([b \in Clients |-> Box(b)][c]) = slot.queue[slot.head]
          BY <2>4, <2>6
    <3>2. QED
          BY <2>2, <2>8, <2>9, <3>1 DEF Mailbox!Receive
  <2>11. QED
        BY <2>10 DEF Mailbox!Next
<1>4. CASE SubscribeFull(c) \/ Receive(c) \/ TakeToken(c) \/ TimedOut(c)
  <2>1. sub' = sub /\ handle' = handle /\ rxFrames' = rxFrames /\ got' = got
        BY <1>4 DEF SubscribeFull, Receive, TakeToken, TimedOut
  <2>2. \A b \in Clients : Accept(b)' = Accept(b) /\ Box(b)' = Box(b)
        BY <2>1 DEF Accept, Box, Content, At
  <2>3. QED
        BY <2>1, <2>2 DEF Mailbox!vars
<1>5. QED
      BY <1>1, <1>2, <1>3, <1>4 DEF Reader

LEMMA NextRefines == RouterInv /\ [Next]_vars => [Mailbox!Next]_(Mailbox!vars)
<1> SUFFICES ASSUME RouterInv, [Next]_vars
             PROVE  Mailbox!Next \/ UNCHANGED Mailbox!vars
    OBVIOUS
<1>1. CASE UNCHANGED vars
      BY <1>1 DEF vars, clients, Mailbox!vars, Accept, Box, Content, At
<1>2. CASE Next
      BY <1>2, DispatchRefines, ReaderRefines DEF Next
<1>3. QED
      BY <1>1, <1>2

(* The table of rings, semaphores and slots implements one lossy mailbox per *)
(* subscriber, for any number of clients, slots and ring entries: a reader   *)
(* misses a frame only when QueueDepth newer ones wait behind it, and gets   *)
(* the others in order.                                                      *)
THEOREM RefinesMailbox == Spec => ImplementsMailbox
BY InitRefines, NextRefines, RouterSafe, PTL
   DEF Spec, ImplementsMailbox, Mailbox!Spec
=============================================================================
