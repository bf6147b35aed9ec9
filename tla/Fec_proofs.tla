------------------------------ MODULE Fec_proofs ------------------------------
(* Theorems about Fec for rings of any size, any number of frames, starts of *)
(* the interface and runs of the probe.                                      *)
EXTENDS Fec, TLAPS

-----------------------------------------------------------------------------
(* The inductive invariant.  Frame k + 1 has its place in descriptor k       *)
(* modulo the size of the ring.                                              *)

RxSlot(k) == k % RxCount
TxSlot(k) == k % TxCount

(* How many frames the worker has given back, and has gone past.             *)
Returned == IF pc \in {"reply", "back"} THEN Len(seen) - 1 ELSE Len(seen)
Passed   == IF pc \in {"reply", "back", "rearm"} THEN Len(seen) - 1 ELSE Len(seen)

(* How many frames the worker has told the DMA about.                        *)
Rung == IF pc \in {"reply", "bell"} THEN granted - 1 ELSE granted

(* The worker runs only on an interface that is up, and what the interface,  *)
(* the probe and the controller know of each other.                          *)
Linked ==
  /\ pc # "sleep" => up
  /\ ~disturbed => probe = "idle" /\ mac.ether = up

(* The full receive descriptors hold the frames stored and not given back.   *)
RxRing ==
  Undisturbed =>
    /\ pc \in {"reply", "back", "rearm"} => Len(seen) > 0
    /\ mac.rxAt = RxSlot(stored) /\ rxhead = RxSlot(Passed)
    /\ Len(seen) <= stored
    /\ \A k \in Returned..(stored - 1) :
         ~rx[RxSlot(k)].empty /\ rx[RxSlot(k)].frame = k + 1
    /\ \A i \in RxIndex : ~rx[i].empty => \E k \in Returned..(stored - 1) : RxSlot(k) = i

(* The READY descriptors hold the frames handed over and not sent.           *)
TxRing ==
  Undisturbed =>
    /\ pc \in {"reply", "bell"} => granted > 0
    /\ mac.txAt = TxSlot(Len(wire)) /\ txhead = TxSlot(Rung)
    /\ Len(wire) <= granted /\ granted <= Len(wire) + TxCount
    /\ \A k \in Len(wire)..(granted - 1) :
         /\ tx[TxSlot(k)].ready /\ tx[TxSlot(k)].frame = k + 1
         /\ tx[TxSlot(k)].data \in {k + 1, k + 1 + TxCount}
    /\ \A i \in TxIndex : tx[i].ready => \E k \in Len(wire)..(granted - 1) : TxSlot(k) = i

IInv == TypeOK /\ Linked /\ RxRing /\ TxRing /\ FramesInOrder /\ NothingStuck

-----------------------------------------------------------------------------
(* Lemmas about places in a ring.                                            *)

LEMMA Divide ==
  ASSUME NEW m \in Nat \ {0}, NEW k \in Nat
  PROVE  k = m * (k \div m) + (k % m) /\ (k \div m) \in Nat /\ k % m \in 0..(m - 1)
OBVIOUS

LEMMA Remainder ==
  ASSUME NEW m \in Nat \ {0}, NEW k \in Nat, NEW q \in Nat, NEW r \in 0..(m - 1), k = m * q + r
  PROVE  k % m = r
OBVIOUS

LEMMA NextPlace ==
  ASSUME NEW m \in Nat \ {0}, NEW k \in Nat
  PROVE  ((k % m) + 1) % m = (k + 1) % m
<1> DEFINE q == k \div m
           r == k % m
<1>1. k = m * q + r /\ q \in Nat /\ r \in 0..(m - 1)
      BY Divide
<1> HIDE DEF q, r
<1>2. CASE r + 1 < m
  <2>1. r + 1 \in 0..(m - 1) /\ k + 1 = m * q + (r + 1)
        BY <1>1, <1>2
  <2>2. (k + 1) % m = r + 1
        BY <1>1, <2>1, Remainder
  <2>3. (r + 1) % m = r + 1
        BY <2>1
  <2>4. QED
        BY <2>2, <2>3 DEF r
<1>3. CASE r + 1 = m
  <2>1. k + 1 = m * (q + 1) + 0 /\ q + 1 \in Nat /\ 0 \in 0..(m - 1)
        BY <1>1, <1>3
  <2>2. (k + 1) % m = 0
        BY <1>1, <2>1, Remainder
  <2>3. (r + 1) % m = 0
        BY <1>3
  <2>4. QED
        BY <2>2, <2>3 DEF r
<1>4. QED
      BY <1>1, <1>2, <1>3

(* Numbers that differ by less than the size have different places.          *)
LEMMA OnePlace ==
  ASSUME NEW m \in Nat \ {0}, NEW i \in Nat, NEW j \in Nat,
         i <= j, j < i + m, i % m = j % m
  PROVE  i = j
<1> DEFINE p == i \div m
           q == j \div m
           r == i % m
<1>1. /\ p \in Nat /\ q \in Nat /\ r \in 0..(m - 1)
      /\ i = m * p + r /\ j = m * q + r
  <2>1. p \in Nat /\ r \in 0..(m - 1) /\ i = m * p + r
        BY Divide
  <2>2. q \in Nat /\ j = m * q + (j % m)
        BY Divide
  <2>3. QED
        BY <2>1, <2>2
<1> HIDE DEF p, q, r
<1>2. p <= q
  <2>1. SUFFICES ASSUME p >= q + 1 PROVE FALSE
        BY <1>1
  <2>2. m * p >= m * (q + 1)
        BY <1>1, <2>1
  <2>3. m * (q + 1) = m * q + m
        BY <1>1
  <2>4. QED
        BY <1>1, <2>2, <2>3
<1>3. q <= p
  <2>1. SUFFICES ASSUME q >= p + 1 PROVE FALSE
        BY <1>1
  <2>2. m * q >= m * (p + 1)
        BY <1>1, <2>1
  <2>3. m * (p + 1) = m * p + m
        BY <1>1
  <2>4. QED
        BY <1>1, <2>2, <2>3
<1>4. QED
      BY <1>1, <1>2, <1>3

LEMMA RxSlots ==
  /\ \A k \in Nat : RxSlot(k) \in RxIndex /\ AfterRx(RxSlot(k)) = RxSlot(k + 1)
  /\ RxSlot(0) = 0
<1>1. RxCount \in Nat \ {0}
      BY FecAssumption
<1>2. \A k \in Nat : RxSlot(k) \in RxIndex
      BY <1>1, Divide DEF RxSlot, RxIndex
<1>3. \A k \in Nat : AfterRx(RxSlot(k)) = RxSlot(k + 1)
      BY <1>1, NextPlace DEF RxSlot, AfterRx
<1>4. RxSlot(0) = 0
      BY <1>1 DEF RxSlot
<1>5. QED
      BY <1>2, <1>3, <1>4

LEMMA TxSlots ==
  /\ \A k \in Nat : TxSlot(k) \in TxIndex /\ AfterTx(TxSlot(k)) = TxSlot(k + 1)
  /\ TxSlot(0) = 0
<1>1. TxCount \in Nat \ {0}
      BY FecAssumption
<1>2. \A k \in Nat : TxSlot(k) \in TxIndex
      BY <1>1, Divide DEF TxSlot, TxIndex
<1>3. \A k \in Nat : AfterTx(TxSlot(k)) = TxSlot(k + 1)
      BY <1>1, NextPlace DEF TxSlot, AfterTx
<1>4. TxSlot(0) = 0
      BY <1>1 DEF TxSlot
<1>5. QED
      BY <1>2, <1>3, <1>4

LEMMA TxSlotOnce ==
  ASSUME NEW i \in Nat, NEW j \in Nat, i <= j, j < i + TxCount, TxSlot(i) = TxSlot(j)
  PROVE  i = j
BY FecAssumption, OnePlace DEF TxSlot

(* A ring goes round.                                                        *)
LEMMA TxSlotRound == ASSUME NEW k \in Nat PROVE TxSlot(k + TxCount) = TxSlot(k)
<1>1. TxCount \in Nat \ {0}
      BY FecAssumption
<1>2. PICK q \in Nat, r \in 0..(TxCount - 1) : k = TxCount * q + r
      BY <1>1, Divide
<1>3. k + TxCount = TxCount * (q + 1) + r /\ q + 1 \in Nat /\ k + TxCount \in Nat
      BY <1>1, <1>2
<1>4. QED
      BY <1>1, <1>2, <1>3, Remainder DEF TxSlot

LEMMA AfterType ==
  /\ \A i \in RxIndex : AfterRx(i) \in RxIndex
  /\ \A i \in TxIndex : AfterTx(i) \in TxIndex
  /\ 0 \in RxIndex /\ 0 \in TxIndex
BY FecAssumption, Divide DEF RxIndex, TxIndex, AfterRx, AfterTx

LEMMA EmptyRings ==
  /\ EmptyRx \in [RxIndex -> [empty : BOOLEAN, frame : Nat]]
  /\ IdleTx \in [TxIndex -> [ready : BOOLEAN, frame : Nat, data : Nat]]
  /\ \A i \in RxIndex : EmptyRx[i].empty
  /\ \A i \in TxIndex : ~IdleTx[i].ready
BY DEF EmptyRx, IdleTx
-----------------------------------------------------------------------------
(* Types.                                                                    *)

LEMMA AppendType ==
  ASSUME NEW S, NEW seq \in Seq(S), NEW e \in S
  PROVE  Append(seq, e) \in Seq(S)
OBVIOUS

LEMMA AppendFacts ==
  ASSUME NEW S, NEW seq \in Seq(S), NEW e \in S
  PROVE  /\ Len(Append(seq, e)) = Len(seq) + 1 /\ Append(seq, e)[Len(seq) + 1] = e
         /\ DOMAIN Append(seq, e) = 1..(Len(seq) + 1) /\ DOMAIN seq = 1..Len(seq)
         /\ \A i \in DOMAIN seq : Append(seq, e)[i] = seq[i]
OBVIOUS

LEMMA InitType == Init => TypeOK
<1> SUFFICES ASSUME Init PROVE TypeOK
    OBVIOUS
<1>1. mac \in [ether : BOOLEAN, rxOn : BOOLEAN, txOn : BOOLEAN, rxAt : RxIndex, txAt : TxIndex]
      BY AfterType DEF Init, Off
<1>2. seen \in Seq(Nat) /\ wire \in Seq([frame : Nat, data : Nat])
      BY DEF Init
<1>3. ups \in 0..MaxUps /\ probes \in 0..MaxProbes
      BY FecAssumption DEF Init
<1>4. QED
      BY <1>1, <1>2, <1>3, EmptyRings, AfterType DEF Init, TypeOK, WorkerAt

LEMMA ControllerType ==
  ASSUME TypeOK
  PROVE  /\ Off \in [ether : BOOLEAN, rxOn : BOOLEAN, txOn : BOOLEAN,
                     rxAt : RxIndex, txAt : TxIndex]
         /\ \A s \in BOOLEAN : [Off EXCEPT !.ether = TRUE, !.rxOn = s] \in
              [ether : BOOLEAN, rxOn : BOOLEAN, txOn : BOOLEAN, rxAt : RxIndex, txAt : TxIndex]
BY AfterType DEF Off

LEMMA BellType ==
  ASSUME TypeOK, Bell
  PROVE  /\ mac' \in [ether : BOOLEAN, rxOn : BOOLEAN, txOn : BOOLEAN,
                      rxAt : RxIndex, txAt : TxIndex]
         /\ txhead' \in TxIndex
BY AfterType DEF TypeOK, Bell

LEMMA GrantType ==
  ASSUME TypeOK, NEW next, Grant(next)
  PROVE  /\ tx' \in [TxIndex -> [ready : BOOLEAN, frame : Nat, data : Nat]]
         /\ granted' \in Nat
BY DEF TypeOK, Grant

LEMMA DmaType == ASSUME TypeOK, Store \/ Send PROVE TypeOK'
<1>1. CASE Store
  <2>1. rx' \in [RxIndex -> [empty : BOOLEAN, frame : Nat]]
    <3>1. [empty |-> FALSE, frame |-> stored + 1] \in [empty : BOOLEAN, frame : Nat]
          BY DEF TypeOK
    <3>2. QED
          BY <1>1, <3>1 DEF TypeOK, Store
  <2>2. mac' \in [ether : BOOLEAN, rxOn : BOOLEAN, txOn : BOOLEAN, rxAt : RxIndex, txAt : TxIndex]
        BY <1>1, AfterType DEF TypeOK, Store
  <2>3. stored' \in Nat
        BY <1>1 DEF TypeOK, Store
  <2>4. QED
        BY <1>1, <2>1, <2>2, <2>3 DEF TypeOK, Store, net, bounds
<1>2. CASE Send
  <2>1. tx' \in [TxIndex -> [ready : BOOLEAN, frame : Nat, data : Nat]]
    <3>1. [tx[mac.txAt] EXCEPT !.ready = FALSE] \in [ready : BOOLEAN, frame : Nat, data : Nat]
          BY DEF TypeOK
    <3>2. tx' = tx \/ tx' = [tx EXCEPT ![mac.txAt] = [tx[mac.txAt] EXCEPT !.ready = FALSE]]
          BY <1>2 DEF Send
    <3>3. QED
          BY <3>1, <3>2 DEF TypeOK
  <2>2. mac' \in [ether : BOOLEAN, rxOn : BOOLEAN, txOn : BOOLEAN, rxAt : RxIndex, txAt : TxIndex]
        BY <1>2, AfterType DEF TypeOK, Send
  <2>3. wire' \in Seq([frame : Nat, data : Nat])
    <3>1. Contents(tx[mac.txAt]) \in [frame : Nat, data : Nat]
          BY DEF TypeOK, Contents
    <3>2. wire' = wire \/ wire' = Append(wire, Contents(tx[mac.txAt]))
          BY <1>2 DEF Send
    <3>3. wire \in Seq([frame : Nat, data : Nat])
          BY DEF TypeOK
    <3>4. QED
          BY <3>1, <3>2, <3>3, AppendType
  <2>4. QED
        BY <1>2, <2>1, <2>2, <2>3 DEF TypeOK, Send, net, bounds
<1>3. QED
      BY <1>1, <1>2

LEMMA DriverType == ASSUME TypeOK, Driver PROVE TypeOK'
<1>1. CASE IfUp
  <2>1. rx' \in [RxIndex -> [empty : BOOLEAN, frame : Nat]]
        BY <1>1, EmptyRings DEF IfUp, InitializeDone, Rings
  <2>2. tx' \in [TxIndex -> [ready : BOOLEAN, frame : Nat, data : Nat]]
        BY <1>1, EmptyRings DEF IfUp, InitializeDone, Rings
  <2>3. mac' \in [ether : BOOLEAN, rxOn : BOOLEAN, txOn : BOOLEAN, rxAt : RxIndex, txAt : TxIndex]
        BY <1>1, ControllerType DEF IfUp, InitializeDone
  <2>4. ups' \in 0..MaxUps
        BY <1>1, FecAssumption DEF TypeOK, IfUp
  <2>5. disturbed' \in BOOLEAN /\ seen' \in Seq(Nat) /\ wire' \in Seq([frame : Nat, data : Nat])
        BY <1>1 DEF IfUp
  <2>6. QED
        BY <1>1, <2>1, <2>2, <2>3, <2>4, <2>5, AfterType DEF TypeOK, IfUp
<1>2. CASE IfUpFails
      BY <1>2, ControllerType DEF TypeOK, IfUpFails, InitializeFails, net, ring, history, bounds
<1>3. CASE IfDown
      BY <1>3, ControllerType DEF TypeOK, IfDown, ring, history, bounds
<1>4. QED
      BY <1>1, <1>2, <1>3 DEF Driver

LEMMA WorkerType == ASSUME TypeOK, Worker PROVE TypeOK'
<1>1. CASE Wake
      BY <1>1 DEF TypeOK, WorkerAt, Wake, ring, history, bounds
<1>2. CASE Dispatch
  <2>1. seen' \in Seq(Nat)
        BY <1>2 DEF TypeOK, Dispatch
  <2>2. /\ tx' \in [TxIndex -> [ready : BOOLEAN, frame : Nat, data : Nat]]
        /\ granted' \in Nat /\ pc' \in WorkerAt
        BY <1>2, GrantType DEF TypeOK, WorkerAt, Dispatch, Grant
  <2>3. QED
        BY <1>2, <2>1, <2>2 DEF TypeOK, Dispatch, bounds
<1>3. CASE RingForReply
      BY <1>3, BellType DEF TypeOK, WorkerAt, RingForReply, ring, history, bounds
<1>4. CASE GiveBack
      BY <1>4 DEF TypeOK, WorkerAt, GiveBack, history, bounds
<1>5. CASE Rearm
      BY <1>5, AfterType DEF TypeOK, WorkerAt, Rearm, ring, history, bounds
<1>6. CASE NothingMore
      BY <1>6 DEF TypeOK, WorkerAt, NothingMore, ring, history, bounds
<1>7. CASE Poll
  <2>1. [tx[txhead] EXCEPT !.data = granted + 1] \in [ready : BOOLEAN, frame : Nat, data : Nat]
    <3>1. granted + 1 \in Nat /\ tx[txhead] \in [ready : BOOLEAN, frame : Nat, data : Nat]
          BY DEF TypeOK
    <3>2. QED
          BY <3>1
  <2>2. tx' = tx \/ tx' = [tx EXCEPT ![txhead] = [tx[txhead] EXCEPT !.data = granted + 1]]
        BY <1>7 DEF Poll
  <2>3. tx' \in [TxIndex -> [ready : BOOLEAN, frame : Nat, data : Nat]]
        BY <2>1, <2>2 DEF TypeOK
  <2>4. QED
        BY <1>7, <2>3 DEF TypeOK, WorkerAt, Poll, bounds
<1>8. CASE Submit
  <2>1. /\ tx' \in [TxIndex -> [ready : BOOLEAN, frame : Nat, data : Nat]]
        /\ granted' \in Nat /\ pc' \in WorkerAt
        BY <1>8, GrantType DEF TypeOK, WorkerAt, Submit, Grant
  <2>2. QED
        BY <1>8, <2>1 DEF TypeOK, Submit, bounds
<1>9. CASE RingForPoll
      BY <1>9, BellType DEF TypeOK, WorkerAt, RingForPoll, ring, history, bounds
<1>10. QED
       BY <1>1, <1>2, <1>3, <1>4, <1>5, <1>6, <1>7, <1>8, <1>9 DEF Worker

LEMMA ProbeType == ASSUME TypeOK, Probe PROVE TypeOK'
<1>1. CASE ProbeStart
  <2>1. probes' \in 0..MaxProbes
        BY <1>1, FecAssumption DEF TypeOK, ProbeStart
  <2>2. mac' \in [ether : BOOLEAN, rxOn : BOOLEAN, txOn : BOOLEAN, rxAt : RxIndex, txAt : TxIndex]
        BY <1>1, ControllerType DEF TypeOK, ProbeStart, InitializeFails, InitializeDone
  <2>3. /\ rx' \in [RxIndex -> [empty : BOOLEAN, frame : Nat]]
        /\ tx' \in [TxIndex -> [ready : BOOLEAN, frame : Nat, data : Nat]]
        BY <1>1, EmptyRings DEF TypeOK, ProbeStart, InitializeFails, InitializeDone, Rings, ring
  <2>4. probe' \in {"idle", "armed", "waiting"}
        BY <1>1 DEF TypeOK, ProbeStart
  <2>5. QED
        BY <1>1, <2>1, <2>2, <2>3, <2>4 DEF TypeOK, ProbeStart, net
<1>2. CASE ProbeSend
  <2>1. /\ [tx[0] EXCEPT !.data = 0] \in [ready : BOOLEAN, frame : Nat, data : Nat]
        /\ [ready |-> TRUE, frame |-> 0, data |-> 0] \in [ready : BOOLEAN, frame : Nat, data : Nat]
        BY AfterType DEF TypeOK
  <2>2. \/ tx' = [tx EXCEPT ![0] = [tx[0] EXCEPT !.data = 0]]
        \/ tx' = [tx EXCEPT ![0] = [ready |-> TRUE, frame |-> 0, data |-> 0]]
        BY <1>2 DEF ProbeSend
  <2>3. tx' \in [TxIndex -> [ready : BOOLEAN, frame : Nat, data : Nat]]
        BY <2>1, <2>2 DEF TypeOK
  <2>4. mac' \in [ether : BOOLEAN, rxOn : BOOLEAN, txOn : BOOLEAN, rxAt : RxIndex, txAt : TxIndex]
        BY <1>2 DEF TypeOK, ProbeSend
  <2>5. probe' \in {"idle", "armed", "waiting"}
        BY <1>2 DEF ProbeSend
  <2>6. QED
        BY <1>2, <2>3, <2>4, <2>5 DEF TypeOK, ProbeSend, net, history, bounds
<1>3. CASE ProbeSent
      BY <1>3 DEF TypeOK, ProbeSent, net, ring, history, bounds
<1>4. CASE ProbeReclaim
  <2>1. mac' \in [ether : BOOLEAN, rxOn : BOOLEAN, txOn : BOOLEAN, rxAt : RxIndex, txAt : TxIndex]
        BY <1>4 DEF TypeOK, ProbeReclaim
  <2>2. QED
        BY <1>4, <2>1, EmptyRings DEF TypeOK, ProbeReclaim, net, history, bounds
<1>5. CASE ProbeEnd
      BY <1>5 DEF TypeOK, ProbeEnd, net, ring, history, bounds
<1>6. QED
      BY <1>1, <1>2, <1>3, <1>4, <1>5 DEF Probe

-----------------------------------------------------------------------------
(* What an action keeps that does not touch a ring.                          *)

LEMMA RxRingSame ==
  ASSUME RxRing, UNCHANGED <<up, disturbed, rx, stored, seen, rxhead>>, mac'.rxAt = mac.rxAt,
         Returned' = Returned, Passed' = Passed,
         pc' \in {"reply", "back", "rearm"} => pc \in {"reply", "back", "rearm"}
  PROVE  RxRing'
BY DEF RxRing, Undisturbed

LEMMA TxRingSame ==
  ASSUME TxRing, UNCHANGED <<up, disturbed, tx, granted, wire, txhead>>, mac'.txAt = mac.txAt,
         Rung' = Rung, pc' \in {"reply", "bell"} => pc \in {"reply", "bell"}
  PROVE  TxRing'
BY DEF TxRing, Undisturbed

LEMMA FramesSame ==
  ASSUME FramesInOrder, UNCHANGED <<disturbed, seen, wire>>
  PROVE  FramesInOrder'
BY DEF FramesInOrder, TakenInOrder, SentInOrder

(* Of a disturbed interface only types and links are known.                  *)
LEMMA Disturbed == ASSUME TypeOK', Linked', disturbed' PROVE IInv'
BY DEF IInv, RxRing, TxRing, FramesInOrder, NothingStuck, Undisturbed

-----------------------------------------------------------------------------
(* The DMA.                                                                  *)

LEMMA StoreKeeps == ASSUME IInv, Store PROVE IInv'
<1>1. /\ UNCHANGED <<up, pc, rxhead, txhead, tx, probe, seen, granted, wire, disturbed>>
      /\ mac.ether /\ mac.rxOn
      BY DEF Store, net
<1>2. TypeOK'
      BY DmaType DEF IInv
<1>3. /\ mac'.ether = mac.ether /\ mac'.txAt = mac.txAt /\ mac'.txOn = mac.txOn
      BY DEF IInv, TypeOK, Store
<1>4. Linked'
      BY <1>1, <1>3 DEF IInv, Linked
<1>5. CASE disturbed
      BY <1>1, <1>2, <1>4, <1>5, Disturbed
<1>6. CASE ~disturbed
  <2>1. Undisturbed /\ Undisturbed'
        BY <1>1, <1>6 DEF IInv, Linked, Undisturbed, TypeOK
  <2>2. /\ mac.rxAt = RxSlot(stored) /\ rxhead = RxSlot(Passed)
        /\ \A k \in Returned..(stored - 1) : ~rx[RxSlot(k)].empty /\ rx[RxSlot(k)].frame = k + 1
        /\ \A i \in RxIndex : ~rx[i].empty => \E k \in Returned..(stored - 1) : RxSlot(k) = i
        /\ pc \in {"reply", "back", "rearm"} => Len(seen) > 0
        /\ Len(seen) <= stored
        BY <2>1 DEF IInv, RxRing
  <2>3. /\ Returned' = Returned /\ Passed' = Passed /\ Rung' = Rung
        /\ Returned \in Nat /\ Passed \in Nat /\ stored \in Nat /\ Len(seen) \in Nat
        BY <1>1, <2>2 DEF IInv, TypeOK, Returned, Passed, Rung
  <2>4. TxRing'
        BY <1>1, <1>3, <2>3, TxRingSame DEF IInv
  <2>5. FramesInOrder'
        BY <1>1, FramesSame DEF IInv
  <2>6. (\E i \in TxIndex : tx'[i].ready) => mac'.txOn \/ pc' \in {"reply", "bell"}
        BY <1>1, <1>3, <2>1 DEF IInv, NothingStuck
  <2>7. CASE rx[mac.rxAt].empty
    <3>1. /\ rx' = [rx EXCEPT ![mac.rxAt] = [empty |-> FALSE, frame |-> stored + 1]]
          /\ mac' = [mac EXCEPT !.rxAt = AfterRx(mac.rxAt)]
          /\ stored' = stored + 1
          BY <2>7 DEF Store
    <3>2. mac'.rxAt = RxSlot(stored + 1) /\ mac'.rxOn
          BY <1>1, <2>2, <2>3, <3>1, RxSlots DEF IInv, TypeOK
    <3>3. /\ ~rx'[mac.rxAt].empty /\ rx'[mac.rxAt].frame = stored + 1
          /\ \A i \in RxIndex : i # mac.rxAt => rx'[i] = rx[i]
          BY <3>1 DEF IInv, TypeOK
    <3>4. ASSUME NEW k \in Returned..stored
          PROVE  ~rx'[RxSlot(k)].empty /\ rx'[RxSlot(k)].frame = k + 1
      <4>1. CASE k = stored
            BY <2>2, <3>3, <4>1
      <4>2. CASE k # stored
        <5>1. k \in Returned..(stored - 1) /\ k \in Nat /\ RxSlot(k) \in RxIndex
              BY <2>3, <4>2, RxSlots
        <5>2. ~rx[RxSlot(k)].empty
              BY <2>2, <5>1
        <5>3. RxSlot(k) # mac.rxAt
              BY <2>7, <5>2
        <5>4. QED
              BY <2>2, <3>3, <5>1, <5>3
      <4>3. QED
            BY <4>1, <4>2
    <3>5. ASSUME NEW i \in RxIndex, ~rx'[i].empty
          PROVE  \E k \in Returned..stored : RxSlot(k) = i
      <4>1. CASE i = mac.rxAt
        <5>1. Returned <= Len(seen)
              BY <2>3 DEF Returned
        <5>2. stored \in Returned..stored
              BY <2>2, <2>3, <5>1
        <5>3. QED
              BY <2>2, <4>1, <5>2
      <4>2. CASE i # mac.rxAt
        <5>1. PICK k \in Returned..(stored - 1) : RxSlot(k) = i
              BY <2>2, <3>3, <3>5, <4>2
        <5>2. k \in Returned..stored
              BY <2>3, <5>1
        <5>3. QED
              BY <5>1, <5>2
      <4>3. QED
            BY <4>1, <4>2
    <3>6. RxRing'
          BY <1>1, <2>2, <2>3, <3>1, <3>2, <3>4, <3>5 DEF RxRing
    <3>7. NothingStuck'
          BY <2>6, <3>2 DEF NothingStuck
    <3>8. QED
          BY <1>2, <1>4, <2>4, <2>5, <3>6, <3>7 DEF IInv
  <2>8. CASE ~rx[mac.rxAt].empty
    <3>1. UNCHANGED <<rx, stored>> /\ mac' = [mac EXCEPT !.rxOn = FALSE]
          BY <2>8 DEF Store
    <3>2. mac'.rxAt = mac.rxAt
          BY <3>1 DEF IInv, TypeOK
    <3>3. RxRing'
          BY <1>1, <2>3, <3>1, <3>2, RxRingSame DEF IInv
    <3>4. mac.rxAt \in RxIndex
          BY DEF IInv, TypeOK
    <3>5. PICK k \in Returned..(stored - 1) : RxSlot(k) = mac.rxAt
          BY <2>2, <2>8, <3>4
    <3>6. Returned \in Returned..(stored - 1)
          BY <2>3, <3>5
    <3>7. ~rx[rxhead].empty \/ pc = "rearm"
          BY <2>2, <3>6 DEF Returned, Passed
    <3>8. NothingStuck'
          BY <1>1, <2>6, <3>1, <3>7 DEF NothingStuck
    <3>9. QED
          BY <1>2, <1>4, <2>4, <2>5, <3>3, <3>8 DEF IInv
  <2>9. QED
        BY <2>7, <2>8
<1>7. QED
      BY <1>5, <1>6
LEMMA SendKeeps == ASSUME IInv, Send PROVE IInv'
<1>1. /\ UNCHANGED <<up, pc, rxhead, txhead, rx, probe, stored, seen, granted, disturbed>>
      /\ mac.ether /\ mac.txOn
      BY DEF Send, net
<1>2. TypeOK'
      BY DmaType DEF IInv
<1>3. /\ mac'.ether = mac.ether /\ mac'.rxAt = mac.rxAt /\ mac'.rxOn = mac.rxOn
      BY DEF IInv, TypeOK, Send
<1>4. Linked'
      BY <1>1, <1>3 DEF IInv, Linked
<1>5. CASE disturbed
      BY <1>1, <1>2, <1>4, <1>5, Disturbed
<1>6. CASE ~disturbed
  <2>1. Undisturbed /\ Undisturbed'
        BY <1>1, <1>6 DEF IInv, Linked, Undisturbed, TypeOK
  <2>2. /\ pc \in {"reply", "bell"} => granted > 0
        /\ mac.txAt = TxSlot(Len(wire)) /\ txhead = TxSlot(Rung)
        /\ Len(wire) <= granted /\ granted <= Len(wire) + TxCount
        /\ \A k \in Len(wire)..(granted - 1) :
             /\ tx[TxSlot(k)].ready /\ tx[TxSlot(k)].frame = k + 1
             /\ tx[TxSlot(k)].data \in {k + 1, k + 1 + TxCount}
        /\ \A i \in TxIndex : tx[i].ready => \E k \in Len(wire)..(granted - 1) : TxSlot(k) = i
        BY <2>1 DEF IInv, TxRing
  <2>3. /\ Returned' = Returned /\ Passed' = Passed /\ Rung' = Rung
        /\ granted \in Nat /\ Len(wire) \in Nat /\ TxCount \in Nat
        BY <1>1, FecAssumption DEF IInv, TypeOK, Returned, Passed, Rung
  <2>4. RxRing'
        BY <1>1, <1>3, <2>3, RxRingSame DEF IInv
  <2>5. mac'.rxOn \/ ~rx'[rxhead'].empty \/ pc' = "rearm"
        BY <1>1, <1>3, <2>1 DEF IInv, NothingStuck
  <2>6. mac.txAt \in TxIndex
        BY DEF IInv, TypeOK
  <2>7. CASE tx[mac.txAt].ready
    <3>1. /\ tx' = [tx EXCEPT ![mac.txAt].ready = FALSE]
          /\ mac' = [mac EXCEPT !.txAt = AfterTx(mac.txAt)]
          /\ wire' = Append(wire, Contents(tx[mac.txAt]))
          BY <1>6, <2>7 DEF Send
    <3>2. PICK k \in Len(wire)..(granted - 1) : TxSlot(k) = mac.txAt
          BY <2>2, <2>6, <2>7
    <3>3. Len(wire) \in Len(wire)..(granted - 1)
          BY <2>3, <3>2
    <3>4. /\ tx[mac.txAt].frame = Len(wire) + 1
          /\ tx[mac.txAt].data \in {Len(wire) + 1, Len(wire) + 1 + TxCount}
          BY <2>2, <3>3
    <3>5. /\ Len(wire') = Len(wire) + 1 /\ wire'[Len(wire) + 1] = Contents(tx[mac.txAt])
          /\ DOMAIN wire' = 1..(Len(wire) + 1) /\ DOMAIN wire = 1..Len(wire)
          /\ \A i \in DOMAIN wire : wire'[i] = wire[i]
      <4>1. wire \in Seq([frame : Nat, data : Nat])
            BY DEF IInv, TypeOK
      <4>2. Contents(tx[mac.txAt]) \in [frame : Nat, data : Nat]
            BY <2>6 DEF IInv, TypeOK, Contents
      <4>3. QED
            BY <3>1, <4>1, <4>2, AppendFacts
    <3>6. mac'.txAt = TxSlot(Len(wire')) /\ mac'.txOn
      <4>1. mac'.txAt = AfterTx(mac.txAt) /\ mac'.txOn = mac.txOn
            BY <3>1 DEF IInv, TypeOK
      <4>2. AfterTx(TxSlot(Len(wire))) = TxSlot(Len(wire) + 1)
            BY <2>3, TxSlots
      <4>3. QED
            BY <1>1, <2>2, <3>5, <4>1, <4>2
    <3>7. /\ ~tx'[mac.txAt].ready
          /\ \A i \in TxIndex : i # mac.txAt => tx'[i] = tx[i]
          BY <2>6, <3>1 DEF IInv, TypeOK
    <3>8. ASSUME NEW j \in (Len(wire) + 1)..(granted - 1)
          PROVE  /\ tx'[TxSlot(j)].ready /\ tx'[TxSlot(j)].frame = j + 1
                 /\ tx'[TxSlot(j)].data \in {j + 1, j + 1 + TxCount}
      <4>1. j \in Len(wire)..(granted - 1) /\ j \in Nat /\ TxSlot(j) \in TxIndex
            BY <2>3, TxSlots
      <4>2. TxSlot(j) # mac.txAt
            BY <2>2, <2>3, <3>4, <4>1
      <4>3. tx'[TxSlot(j)] = tx[TxSlot(j)]
            BY <3>7, <4>1, <4>2
      <4>4. QED
            BY <2>2, <4>1, <4>3
    <3>9. ASSUME NEW i \in TxIndex, tx'[i].ready
          PROVE  \E j \in (Len(wire) + 1)..(granted - 1) : TxSlot(j) = i
      <4>1. i # mac.txAt /\ tx[i].ready
            BY <3>7, <3>9
      <4>2. PICK j \in Len(wire)..(granted - 1) : TxSlot(j) = i
            BY <2>2, <4>1
      <4>3. j # Len(wire)
            BY <2>2, <4>1, <4>2
      <4>4. j \in (Len(wire) + 1)..(granted - 1)
            BY <2>3, <4>2, <4>3
      <4>5. QED
            BY <4>2, <4>4
    <3>10. Len(wire') <= granted' /\ granted' <= Len(wire') + TxCount
           BY <1>1, <2>2, <2>3, <3>3, <3>5
    <3>11. TxRing'
           BY <1>1, <2>2, <2>3, <3>5, <3>6, <3>8, <3>9, <3>10 DEF TxRing
    <3>12. FramesInOrder'
      <4>1. ASSUME NEW i \in DOMAIN wire'
            PROVE  wire'[i].frame = i /\ wire'[i].data \in {i, i + TxCount}
        <5>1. CASE i = Len(wire) + 1
              BY <3>4, <3>5, <5>1 DEF Contents
        <5>2. CASE i # Len(wire) + 1
              BY <1>6, <3>5, <5>2 DEF IInv, FramesInOrder, SentInOrder
        <5>3. QED
              BY <5>1, <5>2
      <4>2. QED
            BY <1>1, <1>6, <4>1 DEF IInv, FramesInOrder, TakenInOrder, SentInOrder
    <3>13. NothingStuck'
           BY <2>5, <3>6 DEF NothingStuck
    <3>14. QED
           BY <1>2, <1>4, <2>4, <3>11, <3>12, <3>13 DEF IInv
  <2>8. CASE ~tx[mac.txAt].ready
    <3>1. UNCHANGED <<tx, wire>> /\ mac' = [mac EXCEPT !.txOn = FALSE]
          BY <2>8 DEF Send
    <3>2. mac'.txAt = mac.txAt
          BY <3>1 DEF IInv, TypeOK
    <3>3. TxRing'
          BY <1>1, <2>3, <3>1, <3>2, TxRingSame DEF IInv
    <3>4. FramesInOrder'
          BY <1>1, <3>1, FramesSame DEF IInv
    <3>5. ASSUME NEW i \in TxIndex, tx[i].ready PROVE FALSE
      <4>1. PICK k \in Len(wire)..(granted - 1) : TxSlot(k) = i
            BY <2>2, <3>5
      <4>2. Len(wire) \in Len(wire)..(granted - 1)
            BY <2>3, <4>1
      <4>3. QED
            BY <2>2, <2>8, <4>2
    <3>6. NothingStuck'
          BY <2>5, <3>1, <3>5 DEF NothingStuck
    <3>7. QED
          BY <1>2, <1>4, <2>4, <3>3, <3>4, <3>6 DEF IInv
  <2>9. QED
        BY <2>7, <2>8
<1>7. QED
      BY <1>5, <1>6

-----------------------------------------------------------------------------
(* The driver and the probe.                                                 *)

LEMMA IfUpKeeps == ASSUME IInv, IfUp PROVE IInv'
<1>1. TypeOK'
      BY DriverType DEF IInv, Driver
<1>2. /\ up' = TRUE /\ pc' = "sleep" /\ disturbed' = (probe # "idle") /\ probe' = probe
      /\ rx' = EmptyRx /\ tx' = IdleTx /\ rxhead' = 0 /\ txhead' = 0
      /\ mac' = [Off EXCEPT !.ether = TRUE, !.rxOn = TRUE]
      /\ stored' = 0 /\ seen' = <<>> /\ granted' = 0 /\ wire' = <<>>
      BY DEF IfUp, InitializeDone, Rings, LockFree
<1>3. mac'.ether = TRUE /\ mac'.rxOn = TRUE /\ mac'.rxAt = 0 /\ mac'.txAt = 0
      BY <1>2 DEF Off
<1>4. Linked'
      BY <1>2, <1>3 DEF Linked
<1>5. RxRing'
      BY <1>2, <1>3, RxSlots, EmptyRings DEF RxRing, Returned, Passed
<1>6. TxRing'
  <2>1. Len(wire') = 0 /\ Rung' = 0 /\ TxCount \in Nat
        BY <1>2, FecAssumption DEF Rung
  <2>2. \A i \in TxIndex : ~tx'[i].ready
        BY <1>2, EmptyRings
  <2>3. QED
        BY <1>2, <1>3, <2>1, <2>2, TxSlots DEF TxRing
<1>7. FramesInOrder'
      BY <1>2 DEF FramesInOrder, TakenInOrder, SentInOrder
<1>8. NothingStuck'
      BY <1>2, <1>3, EmptyRings DEF NothingStuck
<1>9. QED
      BY <1>1, <1>4, <1>5, <1>6, <1>7, <1>8 DEF IInv

(* An interface that is down promises nothing more than what it did.         *)
LEMMA DownKeeps == ASSUME IInv, IfUpFails \/ IfDown PROVE IInv'
<1>1. TypeOK'
      BY DriverType DEF IInv, Driver
<1>2. up' = FALSE /\ pc' = "sleep" /\ UNCHANGED <<probe, seen, wire, disturbed>>
      BY DEF IInv, Linked, TypeOK, IfUpFails, IfDown, LockFree, net, history
<1>3. (mac' = mac /\ ~up) \/ mac'.ether = FALSE
      BY DEF IfUpFails, IfDown, InitializeFails, Off
<1>4. Linked'
      BY <1>2, <1>3 DEF IInv, Linked, TypeOK
<1>5. FramesInOrder'
      BY <1>2, FramesSame DEF IInv
<1>6. QED
      BY <1>1, <1>2, <1>4, <1>5 DEF IInv, RxRing, TxRing, NothingStuck, Undisturbed

LEMMA ProbeKeeps == ASSUME IInv, Probe PROVE IInv'
<1>1. TypeOK'
      BY ProbeType DEF IInv
<1>2. disturbed'
      BY DEF IInv, Linked, TypeOK, Probe, ProbeStart, ProbeSend, ProbeSent, ProbeReclaim, ProbeEnd, history
<1>3. UNCHANGED <<up, pc>>
      BY DEF Probe, ProbeStart, ProbeSend, ProbeSent, ProbeReclaim, ProbeEnd, net
<1>4. Linked'
      BY <1>2, <1>3 DEF IInv, Linked
<1>5. QED
      BY <1>1, <1>2, <1>4, Disturbed

-----------------------------------------------------------------------------
(* The worker.                                                               *)

LEMMA WorkerLinks == ASSUME IInv, Worker PROVE Linked' /\ UNCHANGED <<up, disturbed>>
<1>1. UNCHANGED <<up, disturbed, probe>>
      BY DEF Worker, Wake, Dispatch, RingForReply, GiveBack, Rearm, NothingMore,
             Poll, Submit, RingForPoll, history
<1>2. up
      BY DEF IInv, Linked, Worker, Wake, Dispatch, RingForReply, GiveBack, Rearm,
             NothingMore, Poll, Submit, RingForPoll
<1>3. mac'.ether = mac.ether \/ mac'.ether = TRUE
      BY DEF IInv, TypeOK, Worker, Wake, Dispatch, RingForReply, GiveBack, Rearm,
             NothingMore, Poll, Submit, RingForPoll, Bell
<1>4. QED
      BY <1>1, <1>2, <1>3 DEF IInv, Linked, TypeOK

(* What is left to show of a step of the worker.                             *)
LEMMA WorkerStep ==
  ASSUME IInv, Worker,
         Undisturbed => RxRing' /\ TxRing' /\ FramesInOrder' /\ NothingStuck'
  PROVE  IInv'
<1>1. TypeOK' /\ Linked' /\ UNCHANGED <<up, disturbed>>
      BY WorkerType, WorkerLinks DEF IInv
<1>2. up
      BY DEF IInv, Linked, Worker, Wake, Dispatch, RingForReply, GiveBack, Rearm,
             NothingMore, Poll, Submit, RingForPoll
<1>3. CASE disturbed
      BY <1>1, <1>3, Disturbed
<1>4. CASE ~disturbed
      BY <1>1, <1>2, <1>4 DEF IInv, Undisturbed
<1>5. QED
      BY <1>3, <1>4

LEMMA MoveKeeps == ASSUME IInv, Wake \/ NothingMore PROVE IInv'
<1>1. UNCHANGED <<up, rxhead, txhead, rx, tx, mac, stored, seen, granted, wire, disturbed>>
      BY DEF Wake, NothingMore, ring, history
<1>2. /\ pc \notin {"reply", "back", "rearm", "bell"}
      /\ pc' \notin {"reply", "back", "rearm", "bell"}
      BY DEF Wake, NothingMore
<1>3. Returned' = Returned /\ Passed' = Passed /\ Rung' = Rung
      BY <1>1, <1>2 DEF Returned, Passed, Rung
<1>4. RxRing' /\ TxRing' /\ FramesInOrder'
      BY <1>1, <1>2, <1>3, RxRingSame, TxRingSame, FramesSame DEF IInv
<1>5. NothingStuck'
      BY <1>1, <1>2 DEF IInv, NothingStuck, Undisturbed
<1>6. QED
      BY <1>4, <1>5, WorkerStep DEF Worker

(* A frame that is handed over takes the free place at the head.             *)
LEMMA GrantKeeps ==
  ASSUME IInv, Undisturbed, ~Busy, NEW next \in {"reply", "bell"}, Grant(next),
         pc \notin {"reply", "bell"}, UNCHANGED <<up, disturbed, wire, txhead, mac>>
  PROVE  TxRing' /\ \A i \in TxIndex : i # txhead => tx'[i] = tx[i]
<1>1. /\ mac.txAt = TxSlot(Len(wire)) /\ txhead = TxSlot(granted)
      /\ Len(wire) <= granted /\ granted <= Len(wire) + TxCount
      /\ \A k \in Len(wire)..(granted - 1) :
           /\ tx[TxSlot(k)].ready /\ tx[TxSlot(k)].frame = k + 1
           /\ tx[TxSlot(k)].data \in {k + 1, k + 1 + TxCount}
      /\ \A i \in TxIndex : tx[i].ready => \E k \in Len(wire)..(granted - 1) : TxSlot(k) = i
      BY DEF IInv, TxRing, Rung
<1>2. /\ tx' = [tx EXCEPT ![txhead] = [ready |-> TRUE, frame |-> granted + 1, data |-> granted + 1]]
      /\ granted' = granted + 1 /\ pc' = next
      BY DEF Grant
<1>3. granted \in Nat /\ Len(wire) \in Nat /\ TxCount \in Nat /\ txhead \in TxIndex
      BY FecAssumption DEF IInv, TypeOK
<1>4. /\ tx'[txhead] = [ready |-> TRUE, frame |-> granted + 1, data |-> granted + 1]
      /\ \A i \in TxIndex : i # txhead => tx'[i] = tx[i]
      BY <1>2, <1>3 DEF IInv, TypeOK
<1>5. granted < Len(wire) + TxCount
  <2>1. CASE granted = Len(wire) + TxCount
    <3>1. TxCount > 0
          BY FecAssumption
    <3>2. Len(wire) \in Len(wire)..(granted - 1)
          BY <1>3, <2>1, <3>1
    <3>3. tx[TxSlot(Len(wire))].ready
          BY <1>1, <3>2
    <3>4. QED
          BY <1>1, <1>3, <2>1, <3>3, TxSlotRound DEF Busy
  <2>2. QED
        BY <1>1, <1>3, <2>1
<1>6. ASSUME NEW k \in Len(wire)..granted
      PROVE  /\ tx'[TxSlot(k)].ready /\ tx'[TxSlot(k)].frame = k + 1
             /\ tx'[TxSlot(k)].data \in {k + 1, k + 1 + TxCount}
  <2>1. CASE k = granted
        BY <1>1, <1>4, <2>1
  <2>2. CASE k # granted
    <3>1. k \in Len(wire)..(granted - 1) /\ TxSlot(k) \in TxIndex
          BY <1>3, <2>2, TxSlots
    <3>2. TxSlot(k) # txhead
          BY <1>1, <3>1 DEF Busy
    <3>3. QED
          BY <1>1, <1>4, <3>1, <3>2
  <2>3. QED
        BY <2>1, <2>2
<1>7. ASSUME NEW i \in TxIndex, tx'[i].ready
      PROVE  \E k \in Len(wire)..granted : TxSlot(k) = i
  <2>1. CASE i = txhead
    <3>1. granted \in Len(wire)..granted
          BY <1>1, <1>3
    <3>2. QED
          BY <1>1, <2>1, <3>1
  <2>2. CASE i # txhead
    <3>1. PICK k \in Len(wire)..(granted - 1) : TxSlot(k) = i
          BY <1>1, <1>4, <1>7, <2>2
    <3>2. k \in Len(wire)..granted
          BY <1>3, <3>1
    <3>3. QED
          BY <3>1, <3>2
  <2>3. QED
        BY <2>1, <2>2
<1>8. Rung' = granted /\ granted' - 1 = granted /\ granted' > 0
      BY <1>2, <1>3 DEF Rung
<1>9. Len(wire) <= granted' /\ granted' <= Len(wire) + TxCount
      BY <1>1, <1>2, <1>3, <1>5
<1>10. QED
       BY <1>1, <1>4, <1>6, <1>7, <1>8, <1>9 DEF TxRing

LEMMA DispatchKeeps == ASSUME IInv, Dispatch PROVE IInv'
<1> SUFFICES ASSUME Undisturbed PROVE RxRing' /\ TxRing' /\ FramesInOrder' /\ NothingStuck'
    BY WorkerStep DEF Worker
<1>1. /\ pc = "receive" /\ ~rx[rxhead].empty
      /\ seen' = Append(seen, rx[rxhead].frame)
      /\ UNCHANGED <<up, rxhead, txhead, rx, mac, stored, wire, disturbed>>
      BY DEF Dispatch
<1>2. \/ pc' = "back" /\ UNCHANGED <<tx, granted>>
      \/ ~Busy /\ Grant("reply")
      BY DEF Dispatch
<1>3. pc' \in {"back", "reply"}
      BY <1>2 DEF Grant
<1>4. /\ mac.rxAt = RxSlot(stored) /\ rxhead = RxSlot(Len(seen)) /\ Len(seen) <= stored
      /\ \A k \in Len(seen)..(stored - 1) : ~rx[RxSlot(k)].empty /\ rx[RxSlot(k)].frame = k + 1
      /\ \A i \in RxIndex : ~rx[i].empty => \E k \in Len(seen)..(stored - 1) : RxSlot(k) = i
      BY <1>1 DEF IInv, RxRing, Returned, Passed
<1>5. Len(seen) \in Nat /\ stored \in Nat /\ rxhead \in RxIndex /\ rx[rxhead].frame \in Nat
      BY DEF IInv, TypeOK
<1>6. /\ Len(seen') = Len(seen) + 1 /\ seen'[Len(seen) + 1] = rx[rxhead].frame
      /\ DOMAIN seen' = 1..(Len(seen) + 1) /\ DOMAIN seen = 1..Len(seen)
      /\ \A i \in DOMAIN seen : seen'[i] = seen[i]
  <2>1. seen \in Seq(Nat)
        BY DEF IInv, TypeOK
  <2>2. QED
        BY <1>1, <1>5, <2>1, AppendFacts
<1>7. PICK k \in Len(seen)..(stored - 1) : RxSlot(k) = rxhead
      BY <1>1, <1>4, <1>5
<1>8. Len(seen) \in Len(seen)..(stored - 1)
      BY <1>5, <1>7
<1>9. rx[rxhead].frame = Len(seen) + 1
      BY <1>4, <1>8
<1>10. Returned' = Len(seen) /\ Passed' = Len(seen) /\ Len(seen') > 0 /\ Len(seen') <= stored
  <2>1. Len(seen') - 1 = Len(seen) /\ Len(seen') > 0 /\ Len(seen') <= stored
        BY <1>5, <1>6, <1>8
  <2>2. QED
        BY <1>1, <1>3, <2>1 DEF Returned, Passed
<1>11. RxRing'
       BY <1>1, <1>4, <1>10 DEF RxRing
<1>12. TxRing'
  <2>1. CASE pc' = "back" /\ UNCHANGED <<tx, granted>>
    <3>1. Rung' = Rung
          BY <1>1, <2>1 DEF Rung
    <3>2. QED
          BY <1>1, <2>1, <3>1, TxRingSame DEF IInv
  <2>2. CASE ~Busy /\ Grant("reply")
        BY <1>1, <2>2, GrantKeeps
  <2>3. QED
        BY <1>2, <2>1, <2>2
<1>13. FramesInOrder'
  <2>1. ~disturbed /\ \A i \in DOMAIN seen : seen[i] = i
        BY DEF IInv, FramesInOrder, TakenInOrder, Undisturbed
  <2>2. \A i \in DOMAIN seen' : seen'[i] = i
        BY <1>5, <1>6, <1>9, <2>1
  <2>3. QED
        BY <1>1, <2>2 DEF IInv, FramesInOrder, TakenInOrder, SentInOrder
<1>14. NothingStuck'
       BY <1>1, <1>2 DEF IInv, NothingStuck, Grant
<1>15. QED
       BY <1>11, <1>12, <1>13, <1>14

(* Ringing the bell catches up with what was handed over.                    *)
LEMMA BellKeeps == ASSUME IInv, RingForReply \/ RingForPoll PROVE IInv'
<1> SUFFICES ASSUME Undisturbed PROVE RxRing' /\ TxRing' /\ FramesInOrder' /\ NothingStuck'
    BY WorkerStep DEF Worker
<1>1. /\ \/ pc = "reply" /\ pc' = "back"
         \/ pc = "bell" /\ pc' = "sleep"
      /\ mac' = [mac EXCEPT !.ether = TRUE, !.txOn = TRUE]
      /\ txhead' = AfterTx(txhead)
      /\ UNCHANGED <<up, rxhead, rx, tx, stored, seen, granted, wire, disturbed>>
      BY DEF RingForReply, RingForPoll, Bell, ring, history
<1>2. /\ mac'.txOn = TRUE /\ mac'.rxOn = mac.rxOn
      /\ mac'.rxAt = mac.rxAt /\ mac'.txAt = mac.txAt
      BY <1>1 DEF IInv, TypeOK
<1>3. Returned' = Returned /\ Passed' = Passed
      BY <1>1 DEF Returned, Passed
<1>4. RxRing'
      BY <1>1, <1>2, <1>3, RxRingSame DEF IInv
<1>5. granted > 0 /\ granted \in Nat /\ txhead = TxSlot(granted - 1)
      BY <1>1 DEF IInv, TypeOK, TxRing, Rung
<1>6. txhead' = TxSlot(granted)
  <2>1. granted - 1 \in Nat /\ (granted - 1) + 1 = granted
        BY <1>5
  <2>2. QED
        BY <1>1, <1>5, <2>1, TxSlots
<1>7. Rung' = granted'
      BY <1>1 DEF Rung
<1>8. TxRing'
      BY <1>1, <1>2, <1>6, <1>7 DEF IInv, TxRing
<1>9. FramesInOrder'
      BY <1>1, FramesSame DEF IInv
<1>10. NothingStuck'
       BY <1>1, <1>2 DEF IInv, NothingStuck
<1>11. QED
       BY <1>4, <1>8, <1>9, <1>10
LEMMA GiveBackKeeps == ASSUME IInv, GiveBack PROVE IInv'
<1> SUFFICES ASSUME Undisturbed PROVE RxRing' /\ TxRing' /\ FramesInOrder' /\ NothingStuck'
    BY WorkerStep DEF Worker
<1>1. /\ pc = "back" /\ pc' = "rearm"
      /\ rx' = [rx EXCEPT ![rxhead] = [empty |-> TRUE, frame |-> 0]]
      /\ UNCHANGED <<up, rxhead, txhead, tx, mac, stored, seen, granted, wire, disturbed>>
      BY DEF GiveBack, history
<1> DEFINE h == Len(seen) - 1
<1>2. /\ Len(seen) > 0 /\ Len(seen) <= stored
      /\ mac.rxAt = RxSlot(stored) /\ rxhead = RxSlot(h)
      /\ \A k \in h..(stored - 1) : ~rx[RxSlot(k)].empty /\ rx[RxSlot(k)].frame = k + 1
      /\ \A i \in RxIndex : ~rx[i].empty => \E k \in h..(stored - 1) : RxSlot(k) = i
      BY <1>1 DEF IInv, RxRing, Returned, Passed
<1>3. Len(seen) \in Nat /\ stored \in Nat /\ rxhead \in RxIndex
      BY DEF IInv, TypeOK
<1>4. h \in Nat /\ h + 1 = Len(seen) /\ h \in h..(stored - 1)
      BY <1>2, <1>3
<1>5. /\ rx'[rxhead].empty = TRUE
      /\ \A i \in RxIndex : i # rxhead => rx'[i] = rx[i]
      BY <1>1, <1>3 DEF IInv, TypeOK
<1>6. rx[rxhead].frame = h + 1
      BY <1>2, <1>4
<1> HIDE DEF h
<1>7. ASSUME NEW k \in (h + 1)..(stored - 1)
      PROVE  ~rx'[RxSlot(k)].empty /\ rx'[RxSlot(k)].frame = k + 1
  <2>1. k \in h..(stored - 1) /\ k # h
        BY <1>3, <1>4
  <2> k \in Nat /\ RxSlot(k) \in RxIndex
    <3>1. k \in Nat
          BY <1>3, <1>4
    <3>2. QED
          BY <3>1, RxSlots
  <2>2. ~rx[RxSlot(k)].empty /\ rx[RxSlot(k)].frame = k + 1
        BY <1>2, <2>1
  <2>3. k + 1 # h + 1
        BY <1>3, <1>4, <2>1
  <2>4. RxSlot(k) # rxhead
        BY <1>6, <2>2, <2>3
  <2>5. QED
        BY <1>5, <2>1, <2>2, <2>4
<1>8. ASSUME NEW i \in RxIndex, ~rx'[i].empty
      PROVE  \E k \in (h + 1)..(stored - 1) : RxSlot(k) = i
  <2>1. i # rxhead /\ ~rx[i].empty
        BY <1>5, <1>8
  <2>2. PICK k \in h..(stored - 1) : RxSlot(k) = i
        BY <1>2, <2>1
  <2>3. k \in (h + 1)..(stored - 1)
        BY <1>2, <1>3, <1>4, <2>1, <2>2
  <2>4. QED
        BY <2>2, <2>3
<1>9. Returned' = h + 1 /\ Passed' = h /\ Rung' = Rung
      BY <1>1, <1>4 DEF Returned, Passed, Rung, h
<1>10. RxRing'
       BY <1>1, <1>2, <1>7, <1>8, <1>9 DEF RxRing
<1>11. TxRing' /\ FramesInOrder'
       BY <1>1, <1>9, TxRingSame, FramesSame DEF IInv
<1>12. NothingStuck'
       BY <1>1 DEF IInv, NothingStuck
<1>13. QED
       BY <1>10, <1>11, <1>12

LEMMA RearmKeeps == ASSUME IInv, Rearm PROVE IInv'
<1> SUFFICES ASSUME Undisturbed PROVE RxRing' /\ TxRing' /\ FramesInOrder' /\ NothingStuck'
    BY WorkerStep DEF Worker
<1>1. /\ pc = "rearm" /\ pc' = "receive"
      /\ mac' = [mac EXCEPT !.rxOn = mac.ether] /\ rxhead' = AfterRx(rxhead)
      /\ UNCHANGED <<up, txhead, rx, tx, stored, seen, granted, wire, disturbed>>
      BY DEF Rearm, ring, history
<1>2. /\ mac'.rxOn = mac.ether /\ mac'.txOn = mac.txOn
      /\ mac'.rxAt = mac.rxAt /\ mac'.txAt = mac.txAt
      BY <1>1 DEF IInv, TypeOK
<1>3. mac.ether
      BY DEF IInv, Linked, TypeOK, Undisturbed
<1>4. Len(seen) > 0 /\ Len(seen) \in Nat /\ rxhead = RxSlot(Len(seen) - 1)
      BY <1>1 DEF IInv, TypeOK, RxRing, Passed
<1>5. rxhead' = RxSlot(Len(seen))
  <2>1. Len(seen) - 1 \in Nat /\ (Len(seen) - 1) + 1 = Len(seen)
        BY <1>4
  <2>2. QED
        BY <1>1, <1>4, <2>1, RxSlots
<1>6. Returned' = Returned /\ Passed' = Len(seen) /\ Rung' = Rung
      BY <1>1 DEF Returned, Passed, Rung
<1>7. RxRing'
      BY <1>1, <1>2, <1>5, <1>6 DEF IInv, RxRing
<1>8. TxRing' /\ FramesInOrder'
      BY <1>1, <1>2, <1>6, TxRingSame, FramesSame DEF IInv
<1>9. NothingStuck'
      BY <1>1, <1>2, <1>3 DEF IInv, NothingStuck
<1>10. QED
       BY <1>7, <1>8, <1>9

LEMMA PollKeeps == ASSUME IInv, Poll PROVE IInv'
<1> SUFFICES ASSUME Undisturbed PROVE RxRing' /\ TxRing' /\ FramesInOrder' /\ NothingStuck'
    BY WorkerStep DEF Worker
<1>1. /\ pc = "poll" /\ pc' \in {"sleep", "submit"}
      /\ UNCHANGED <<up, rxhead, txhead, rx, mac, stored, seen, granted, wire, disturbed>>
      /\ UNCHANGED tx \/ tx' = [tx EXCEPT ![txhead].data = granted + 1]
      BY DEF Poll
<1>2. Returned' = Returned /\ Passed' = Passed /\ Rung' = Rung
      BY <1>1 DEF Returned, Passed, Rung
<1>3. RxRing' /\ FramesInOrder'
      BY <1>1, <1>2, RxRingSame, FramesSame DEF IInv
<1>4. /\ txhead = TxSlot(granted) /\ mac.txAt = TxSlot(Len(wire))
      /\ Len(wire) <= granted /\ granted <= Len(wire) + TxCount
      /\ \A k \in Len(wire)..(granted - 1) :
           /\ tx[TxSlot(k)].ready /\ tx[TxSlot(k)].frame = k + 1
           /\ tx[TxSlot(k)].data \in {k + 1, k + 1 + TxCount}
      /\ \A i \in TxIndex : tx[i].ready => \E k \in Len(wire)..(granted - 1) : TxSlot(k) = i
      BY <1>1 DEF IInv, TxRing, Rung
<1>5. granted \in Nat /\ Len(wire) \in Nat /\ TxCount \in Nat /\ txhead \in TxIndex
      BY FecAssumption DEF IInv, TypeOK
<1>6. \A i \in TxIndex :
        /\ tx'[i].ready = tx[i].ready /\ tx'[i].frame = tx[i].frame
        /\ tx'[i].data = tx[i].data \/ (i = txhead /\ tx'[i].data = granted + 1)
      BY <1>1 DEF IInv, TypeOK
(* The buffer that is overwritten holds the frame one round earlier. *)
<1>7. ASSUME NEW k \in Len(wire)..(granted - 1)
      PROVE  tx'[TxSlot(k)].data \in {k + 1, k + 1 + TxCount}
  <2>1. k \in Nat /\ k < granted /\ TxSlot(k) \in TxIndex
        BY <1>5, TxSlots
  <2>2. CASE TxSlot(k) = txhead
    <3>1. ~(granted < k + TxCount)
          BY <1>4, <1>5, <2>1, <2>2, TxSlotOnce
    <3>2. granted + 1 = k + 1 + TxCount
          BY <1>4, <1>5, <2>1, <3>1
    <3>3. QED
          BY <1>4, <1>6, <2>1, <3>2
  <2>3. CASE TxSlot(k) # txhead
        BY <1>4, <1>6, <2>1, <2>3
  <2>4. QED
        BY <2>2, <2>3
<1>8. \A k \in Len(wire)..(granted - 1) : TxSlot(k) \in TxIndex
      BY <1>5, TxSlots
<1>9. Rung' = granted
      BY <1>1 DEF Rung
<1>10. TxRing'
       BY <1>1, <1>4, <1>6, <1>7, <1>8, <1>9 DEF TxRing
<1>11. NothingStuck'
       BY <1>1, <1>6 DEF IInv, NothingStuck
<1>12. QED
       BY <1>3, <1>10, <1>11

LEMMA SubmitKeeps == ASSUME IInv, Submit PROVE IInv'
<1> SUFFICES ASSUME Undisturbed PROVE RxRing' /\ TxRing' /\ FramesInOrder' /\ NothingStuck'
    BY WorkerStep DEF Worker
<1>1. /\ pc = "submit"
      /\ UNCHANGED <<up, rxhead, txhead, rx, mac, stored, seen, wire, disturbed>>
      /\ \/ pc' = "sleep" /\ UNCHANGED <<tx, granted>>
         \/ ~Busy /\ Grant("bell")
      BY DEF Submit
<1>2. pc' \in {"sleep", "bell"}
      BY <1>1 DEF Grant
<1>3. Returned' = Returned /\ Passed' = Passed
      BY <1>1, <1>2 DEF Returned, Passed
<1>4. RxRing' /\ FramesInOrder'
      BY <1>1, <1>2, <1>3, RxRingSame, FramesSame DEF IInv
<1>5. TxRing'
  <2>1. CASE pc' = "sleep" /\ UNCHANGED <<tx, granted>>
    <3>1. Rung' = Rung
          BY <1>1, <2>1 DEF Rung
    <3>2. QED
          BY <1>1, <2>1, <3>1, TxRingSame DEF IInv
  <2>2. CASE ~Busy /\ Grant("bell")
        BY <1>1, <2>2, GrantKeeps
  <2>3. QED
        BY <1>1, <2>1, <2>2
<1>6. NothingStuck'
      BY <1>1, <1>2 DEF IInv, NothingStuck, Grant
<1>7. QED
      BY <1>4, <1>5, <1>6

-----------------------------------------------------------------------------
(* The theorems.                                                             *)

LEMMA InitInv == Init => IInv
<1> SUFFICES ASSUME Init PROVE IInv
    OBVIOUS
<1>1. TypeOK
      BY InitType
<1>2. up = FALSE /\ pc = "sleep" /\ probe = "idle" /\ mac.ether = FALSE
      BY DEF Init, Off
<1>3. Linked /\ RxRing /\ TxRing /\ NothingStuck
      BY <1>2 DEF Linked, RxRing, TxRing, NothingStuck, Undisturbed
<1>4. FramesInOrder
      BY DEF Init, FramesInOrder, TakenInOrder, SentInOrder
<1>5. QED
      BY <1>1, <1>3, <1>4 DEF IInv

LEMMA StutterKeeps == ASSUME IInv, UNCHANGED vars PROVE IInv'
<1>1. UNCHANGED <<up, pc, rxhead, txhead, rx, tx, mac, probe, stored, seen, granted, wire,
                  disturbed, ups, probes>>
      BY DEF vars, net, ring, history, bounds
<1>2. TypeOK'
      BY <1>1 DEF IInv, TypeOK
<1>3. Returned' = Returned /\ Passed' = Passed /\ Rung' = Rung
      BY <1>1 DEF Returned, Passed, Rung
<1>4. RxRing' /\ TxRing' /\ FramesInOrder'
      BY <1>1, <1>3, RxRingSame, TxRingSame, FramesSame DEF IInv
<1>5. Linked' /\ NothingStuck'
      BY <1>1 DEF IInv, Linked, NothingStuck, Undisturbed
<1>6. QED
      BY <1>2, <1>4, <1>5 DEF IInv

(* The invariant holds: initially, and after every step of the DMA, the      *)
(* driver, the worker and the probe.                                         *)
THEOREM InvariantHolds == Spec => []IInv
<1>1. IInv /\ [Next]_vars => IInv'
  <2> SUFFICES ASSUME IInv, [Next]_vars PROVE IInv'
      OBVIOUS
  <2>1. CASE Store \/ Send
        BY <2>1, StoreKeeps, SendKeeps
  <2>2. CASE Driver
        BY <2>2, IfUpKeeps, DownKeeps DEF Driver
  <2>3. CASE Worker
        BY <2>3, MoveKeeps, DispatchKeeps, BellKeeps, GiveBackKeeps, RearmKeeps,
           PollKeeps, SubmitKeeps DEF Worker
  <2>4. CASE Probe
        BY <2>4, ProbeKeeps
  <2>5. CASE UNCHANGED vars
        BY <2>5, StutterKeeps
  <2>6. QED
        BY <2>1, <2>2, <2>3, <2>4, <2>5 DEF Next
<1>2. QED
      BY <1>1, InitInv, PTL DEF Spec

(* Heads and positions stay inside the rings, whatever the probe does.       *)
THEOREM FecTypeCorrect == Spec => []TypeOK
<1>1. IInv => TypeOK
      BY DEF IInv
<1>2. QED
      BY <1>1, InvariantHolds, PTL

(* Until the probe interferes, frames are taken and sent once, in order and  *)
(* with their own contents or those of the frame one round later.            *)
THEOREM FramesAlwaysInOrder == Spec => []FramesInOrder
<1>1. IInv => FramesInOrder
      BY DEF IInv
<1>2. QED
      BY <1>1, InvariantHolds, PTL

(* The DMA rests only when there is nothing to do or it is about to be told. *)
THEOREM NothingEverStuck == Spec => []NothingStuck
<1>1. IInv => NothingStuck
      BY DEF IInv
<1>2. QED
      BY <1>1, InvariantHolds, PTL
===============================================================================
