--------------------------------- MODULE Fec --------------------------------
(* The Ethernet driver of the FEC (ok8mp_fec.c): the network driver with its *)
(* polling worker, the raw probe that shares the rings, and, as far as the   *)
(* two depend on it, the DMA of the controller.                              *)
(*                                                                           *)
(* The frames the controller stores are numbered 1, 2, ... from the time the *)
(* interface came up, and so are the frames the driver hands over for        *)
(* transmission.  The contents of a frame are its number; a buffer may hold  *)
(* those of another.  Descriptor rings are functions of the index.           *)
EXTENDS Naturals, Sequences

CONSTANTS
  RxCount,     \* FEC_RX_DESC_COUNT
  TxCount,     \* FEC_TX_DESC_COUNT
  MaxStored,   \* bound: frames received since the interface came up
  MaxGranted,  \* bound: frames transmitted since the interface came up
  MaxUps,      \* bound: the times the interface is brought up
  MaxProbes    \* bound: runs of fec_probe

ASSUME FecAssumption ==
  /\ RxCount \in Nat \ {0}
  /\ TxCount \in Nat \ {0}
  /\ {MaxStored, MaxGranted, MaxUps, MaxProbes} \subseteq Nat

VARIABLES
  up,        \* g_fec_net.ifup
  pc,        \* where the worker is
  rxhead,    \* the descriptor the worker reads next
  txhead,    \* the descriptor the worker transmits with next
  rx,        \* receive descriptors: [empty, frame]
  tx,        \* transmit descriptors: [ready, frame, data], data the buffer's
  mac,       \* the controller: [ether, rxOn, txOn, rxAt, txAt]
  probe,     \* where fec_probe is
  stored,    \* history: number of frames stored since the interface came up
  seen,      \* history: the frames the worker took since then
  granted,   \* history: number of frames handed over since then
  wire,      \* history: the frames that left since then: [frame, data]
  disturbed, \* history: the probe touched the controller since then
  ups,       \* history: the times the interface was brought up
  probes     \* history: runs of the probe

ring    == <<rx, tx>>
net     == <<up, pc, rxhead, txhead>>
history == <<stored, seen, granted, wire, disturbed>>
bounds  == <<ups, probes>>
vars    == <<net, ring, mac, probe, history, bounds>>

RxIndex == 0..(RxCount - 1)
TxIndex == 0..(TxCount - 1)

WorkerAt == {"sleep", "receive", "reply", "back", "rearm", "poll", "submit", "bell"}

TypeOK ==
  /\ up \in BOOLEAN /\ pc \in WorkerAt
  /\ rxhead \in RxIndex /\ txhead \in TxIndex
  /\ rx \in [RxIndex -> [empty : BOOLEAN, frame : Nat]]
  /\ tx \in [TxIndex -> [ready : BOOLEAN, frame : Nat, data : Nat]]
  /\ mac \in [ether : BOOLEAN, rxOn : BOOLEAN, txOn : BOOLEAN,
              rxAt : RxIndex, txAt : TxIndex]
  /\ probe \in {"idle", "armed", "waiting"}
  /\ stored \in Nat /\ seen \in Seq(Nat)
  /\ granted \in Nat /\ wire \in Seq([frame : Nat, data : Nat])
  /\ disturbed \in BOOLEAN
  /\ ups \in 0..MaxUps /\ probes \in 0..MaxProbes

EmptyRx == [i \in RxIndex |-> [empty |-> TRUE, frame |-> 0]]
IdleTx  == [i \in TxIndex |-> [ready |-> FALSE, frame |-> 0, data |-> 0]]
Off     == [ether |-> FALSE, rxOn |-> FALSE, txOn |-> FALSE, rxAt |-> 0, txAt |-> 0]

(* ok8mp_fec_netinitialize: registered, the worker runs, not yet up.         *)
Init ==
  /\ up = FALSE /\ pc = "sleep" /\ rxhead = 0 /\ txhead = 0
  /\ rx = EmptyRx /\ tx = IdleTx /\ mac = Off
  /\ probe = "idle"
  /\ stored = 0 /\ seen = <<>> /\ granted = 0 /\ wire = <<>>
  /\ disturbed = FALSE
  /\ ups = 0 /\ probes = 0

(* Mutant of AfterTx: the head does not wrap.                                *)
AfterTxNoWrap(i) == i + 1

(* The heads and the DMA wrap where the descriptor says FEC_BD_WRAP.         *)
AfterRx(i) == (i + 1) % RxCount
AfterTx(i) == (i + 1) % TxCount

-----------------------------------------------------------------------------
(* The DMA.  It stores frames in ring order while reception is active, and   *)
(* stops when it meets a descriptor that is not empty: the frame is lost.    *)
Store ==
  /\ mac.ether /\ mac.rxOn /\ stored < MaxStored
  /\ IF rx[mac.rxAt].empty
       THEN /\ rx' = [rx EXCEPT ![mac.rxAt] = [empty |-> FALSE, frame |-> stored + 1]]
            /\ mac' = [mac EXCEPT !.rxAt = AfterRx(@)]
            /\ stored' = stored + 1
       ELSE /\ mac' = [mac EXCEPT !.rxOn = FALSE]
            /\ UNCHANGED <<rx, stored>>
  /\ UNCHANGED <<net, tx, probe, seen, granted, wire, disturbed, bounds>>

(* It sends READY descriptors in ring order, and stops at one that is not.   *)
(* With two READY it may also do nothing any more (the comment in txpoll).   *)
Contents(desc) == [frame |-> desc.frame, data |-> desc.data]

Send ==
  /\ mac.ether /\ mac.txOn
  /\ IF tx[mac.txAt].ready
       THEN /\ tx' = [tx EXCEPT ![mac.txAt].ready = FALSE]
            /\ mac' = [mac EXCEPT !.txAt = AfterTx(@)]
            /\ wire' = IF disturbed THEN wire ELSE Append(wire, Contents(tx[mac.txAt]))
       ELSE /\ mac' = [mac EXCEPT !.txOn = FALSE]
            /\ UNCHANGED <<tx, wire>>
  /\ UNCHANGED <<net, rx, probe, stored, seen, granted, disturbed, bounds>>

Crowded  == \E i, j \in TxIndex : i # j /\ tx[i].ready /\ tx[j].ready
SendLone == ~Crowded /\ Send

-----------------------------------------------------------------------------
(* The rings as ok8mp_fec_dma_initialize_internal fills them.                *)
Rings == rx' = EmptyRx /\ tx' = IdleTx

(* The steps of initialisation that may fail: the RDC is locked before       *)
(* anything is touched, the MAC stays in reset, or the PHY does not answer.  *)
InitializeFails ==
  /\ \/ UNCHANGED mac
     \/ mac' = Off
  /\ UNCHANGED ring

(* The MAC is reset, the rings are filled, the controller starts on them.    *)
InitializeDone(startRx) ==
  /\ Rings
  /\ mac' = [Off EXCEPT !.ether = TRUE, !.rxOn = startRx]

(* net_lock is held by the worker from its waking to its sleeping.           *)
LockFree == pc = "sleep"

(* Mutant of IfUp: the heads stay where they were.                           *)
IfUpKeepsHeads ==
  /\ ~up /\ LockFree /\ ups < MaxUps
  /\ InitializeDone(TRUE)
  /\ up' = TRUE
  /\ UNCHANGED <<pc, rxhead, txhead, probe, probes>>
  /\ ups' = ups + 1
  /\ stored' = 0 /\ seen' = <<>> /\ granted' = 0 /\ wire' = <<>>
  /\ disturbed' = (probe # "idle")

IfUp ==
  /\ ~up /\ LockFree /\ ups < MaxUps
  /\ InitializeDone(TRUE)
  /\ rxhead' = 0 /\ txhead' = 0
  /\ up' = TRUE
  /\ UNCHANGED <<pc, probe, probes>>
  /\ ups' = ups + 1
  /\ stored' = 0 /\ seen' = <<>> /\ granted' = 0 /\ wire' = <<>>
  /\ disturbed' = (probe # "idle")

IfUpFails ==
  /\ ~up /\ LockFree
  /\ InitializeFails
  /\ UNCHANGED <<net, probe, history, bounds>>

(* ETHEREN is cleared: the controller stops and forgets its positions.       *)
IfDown ==
  /\ up /\ LockFree
  /\ up' = FALSE
  /\ mac' = Off
  /\ UNCHANGED <<pc, rxhead, txhead, ring, probe, history, bounds>>

-----------------------------------------------------------------------------
(* The worker.  Every 10 ms it takes the lock and serves an interface that   *)
(* is up.                                                                    *)
Wake ==
  /\ pc = "sleep" /\ up
  /\ pc' = "receive"
  /\ UNCHANGED <<up, rxhead, txhead, ring, mac, probe, history, bounds>>

(* The transmit descriptor at the head still belongs to the DMA.             *)
Busy == tx[txhead].ready

(* ok8mp_fec_net_transmit up to READY.                                       *)
Grant(next) ==
  /\ tx' = [tx EXCEPT ![txhead] = [ready |-> TRUE, frame |-> granted + 1, data |-> granted + 1]]
  /\ granted' = granted + 1
  /\ pc' = next

(* One descriptor of ok8mp_fec_net_receive: a frame that is not empty goes   *)
(* to the stack, which may leave a reply; too long, short and unknown frames *)
(* are dropped.  A reply that finds the descriptor busy is lost.             *)
Dispatch ==
  /\ pc = "receive" /\ ~rx[rxhead].empty
  /\ seen' = Append(seen, rx[rxhead].frame)
  /\ \/ pc' = "back" /\ UNCHANGED <<tx, granted>>
     \/ ~Busy /\ granted < MaxGranted /\ Grant("reply")
  /\ UNCHANGED <<up, rxhead, txhead, rx, mac, probe, stored, wire, disturbed, bounds>>

(* Mutant of Bell: TDAR is not written.                                      *)
Silence == UNCHANGED mac /\ txhead' = AfterTx(txhead)

(* The rest of transmit: ETHEREN is restored, TDAR makes the DMA look at its *)
(* ring again, and the head moves on.                                        *)
Bell ==
  /\ mac' = [mac EXCEPT !.ether = TRUE, !.txOn = TRUE]
  /\ txhead' = AfterTx(txhead)

RingForReply ==
  /\ pc = "reply"
  /\ Bell
  /\ pc' = "back"
  /\ UNCHANGED <<up, rxhead, ring, probe, history, bounds>>

GiveBack ==
  /\ pc = "back"
  /\ rx' = [rx EXCEPT ![rxhead] = [empty |-> TRUE, frame |-> 0]]
  /\ pc' = "rearm"
  /\ UNCHANGED <<up, rxhead, txhead, tx, mac, probe, history, bounds>>

(* RDAR makes the DMA look at its ring again; the head moves on.  The        *)
(* register is inert while the MAC is disabled.                              *)
Rearm ==
  /\ pc = "rearm"
  /\ mac' = [mac EXCEPT !.rxOn = mac.ether]
  /\ rxhead' = AfterRx(rxhead)
  /\ pc' = "receive"
  /\ UNCHANGED <<up, txhead, ring, probe, history, bounds>>

NothingMore ==
  /\ pc = "receive" /\ rx[rxhead].empty
  /\ pc' = "poll"
  /\ UNCHANGED <<up, rxhead, txhead, ring, mac, probe, history, bounds>>

(* devif_poll: the stack has nothing to send, or writes a frame into the     *)
(* buffer of the head, whoever owns it, and calls txpoll.                    *)
Poll ==
  /\ pc = "poll"
  /\ \/ pc' = "sleep" /\ UNCHANGED tx
     \/ /\ granted < MaxGranted
        /\ pc' = "submit"
        /\ tx' = [tx EXCEPT ![txhead].data = granted + 1]
  /\ UNCHANGED <<up, rxhead, txhead, rx, mac, probe, stored, seen, granted, wire,
                 disturbed, bounds>>

(* txpoll: one frame for each pass, none when the descriptor is busy.        *)
Submit ==
  /\ pc = "submit"
  /\ \/ Busy /\ pc' = "sleep" /\ UNCHANGED <<tx, granted>>
     \/ ~Busy /\ Grant("bell")
  /\ UNCHANGED <<up, rxhead, txhead, rx, mac, probe, stored, seen, wire,
                 disturbed, bounds>>

RingForPoll ==
  /\ pc = "bell"
  /\ Bell
  /\ pc' = "sleep"
  /\ UNCHANGED <<up, rxhead, ring, probe, history, bounds>>

Worker ==
  \/ Wake \/ Dispatch \/ RingForReply \/ GiveBack \/ Rearm \/ NothingMore
  \/ Poll \/ Submit \/ RingForPoll

-----------------------------------------------------------------------------
(* fec_probe, which knows nothing of net_lock.                               *)
ProbeStart ==
  /\ probe = "idle" /\ probes < MaxProbes
  /\ \/ InitializeFails /\ UNCHANGED probe
     \/ \E startRx \in BOOLEAN : InitializeDone(startRx) /\ probe' = "armed"
     \/ mac' = Off /\ UNCHANGED <<ring, probe>>       \* ok8mp_fec_phy_probe
  /\ probes' = probes + 1
  /\ disturbed' = TRUE
  /\ UNCHANGED <<net, stored, seen, granted, wire, ups>>

(* ok8mp_fec_dma_send_frame: the frame is built in buffer 0 first; it is not *)
(* sent while descriptor 0 is READY.  (Frame 0 is that of the probe.)        *)
ProbeSend ==
  /\ probe = "armed"
  /\ IF tx[0].ready
       THEN tx' = [tx EXCEPT ![0].data = 0] /\ probe' = "idle" /\ UNCHANGED mac
       ELSE /\ tx' = [tx EXCEPT ![0] = [ready |-> TRUE, frame |-> 0, data |-> 0]]
            /\ mac' = [mac EXCEPT !.txOn = mac.ether]
            /\ probe' = "waiting"
  /\ UNCHANGED <<net, rx, history, bounds>>

(* READY has gone, or 100 ms have.                                           *)
ProbeSent ==
  /\ probe = "waiting"
  /\ probe' = IF tx[0].ready THEN "idle" ELSE "armed"
  /\ UNCHANGED <<net, ring, mac, history, bounds>>

(* ok8mp_fec_dma_reclaim gives back every descriptor that is not empty.      *)
ProbeReclaim ==
  /\ probe = "armed"
  /\ rx' = EmptyRx
  /\ mac' = [mac EXCEPT !.rxOn = @ \/ (mac.ether /\ rx # EmptyRx)]
  /\ UNCHANGED <<net, tx, probe, history, bounds>>

ProbeEnd ==
  /\ probe = "armed"
  /\ probe' = "idle"
  /\ UNCHANGED <<net, ring, mac, history, bounds>>

Probe == ProbeStart \/ ProbeSend \/ ProbeSent \/ ProbeReclaim \/ ProbeEnd

Driver == IfUp \/ IfUpFails \/ IfDown

Next == Store \/ Send \/ Driver \/ Worker \/ Probe

(* The worker is scheduled and the DMA goes on as long as it has not been    *)
(* given two frames at once.                                                 *)
Spec == Init /\ [][Next]_vars /\ WF_vars(Worker) /\ WF_vars(SendLone)

-----------------------------------------------------------------------------
(* Everything below is about an interface that came up and has not met the   *)
(* probe since; bringing it down and up again repairs what the probe did.    *)
Undisturbed == up /\ ~disturbed

(* The worker takes every frame once and in the order the DMA stored them,   *)
(* across the wrap of the ring, full rings and restarts of the interface.    *)
TakenInOrder == \A i \in DOMAIN seen : seen[i] = i

(* What is handed over leaves once and in order.  It leaves with its own     *)
(* contents; only if every descriptor was in flight when the stack was       *)
(* polled, since the poll writes the buffer before READY is looked at, with  *)
(* those of the frame that was then turned away from the same descriptor.    *)
SentInOrder ==
  \A i \in DOMAIN wire :
    wire[i].frame = i /\ wire[i].data \in {i, i + TxCount}

FramesInOrder == ~disturbed => TakenInOrder /\ SentInOrder

(* The DMA never rests while there is work for it unless the driver is about *)
(* to wake it: reception rests only when the worker has a descriptor to give *)
(* back or has just done so, transmission only with nothing READY.           *)
NothingStuck ==
  Undisturbed =>
    /\ mac.rxOn \/ ~rx[rxhead].empty \/ pc = "rearm"
    /\ (\E i \in TxIndex : tx[i].ready) => mac.txOn \/ pc \in {"reply", "bell"}

(* Every frame that was stored is taken and every frame handed over leaves,  *)
(* unless the interface goes down or the probe interferes first; the latter  *)
(* only if replies do not fill the second descriptor while the first is      *)
(* READY, which txpoll is written to avoid and dispatch is not.              *)
EveryFrameServed ==
  /\ \A k \in 1..MaxStored :
       stored >= k ~> Len(seen) >= k \/ stored < k \/ ~Undisturbed
  /\ \A k \in 1..MaxGranted :
       granted >= k ~> Len(wire) >= k \/ granted < k \/ ~Undisturbed \/ Crowded
=============================================================================
