---------------------------- MODULE FlexCan_proofs ----------------------------
(* Theorems about FlexCan for any number of receive mailboxes, frames,       *)
(* messages, openings and recoveries.                                        *)
EXTENDS FlexCan, TLAPS

-----------------------------------------------------------------------------
(* The inductive invariant.                                                  *)

Full(b) == mb[b].code # "EMPTY"
Age(b)  == mb[b].frame

(* The mailboxes that are going to be served after the one the handler is in *)
(* the middle of.                                                            *)
Live(b) == b \in iflag /\ b # box

(* Which variables a device that is closed, opening or recovering, and a     *)
(* handler that does not run, have at rest.                                  *)
Life ==
  /\ dev \in {"closed", "opening"} => imask = NoInts /\ irq = "out" /\ task = "idle"
  /\ dev = "opening" => waiting = 0 /\ txmb = "INACTIVE" /\ Tx \notin iflag
  /\ task # "idle" => irq = "out"
  /\ irq \in {"out", "settle"} => todo = {}
  /\ task = "locked" => waiting > 0
  /\ task \in {"masked", "restarted"} =>
       waiting = 0 /\ txmb = "INACTIVE" /\ Tx \notin iflag
  /\ task \in {"masked", "restarted", "closing"} => imask = NoInts

(* The interrupts that are needed are enabled.                               *)
Working == dev = "open" /\ alive /\ task \in {"idle", "locked", "sending"}
Armed   == Working => imask.rx /\ (txmb = "DATA" \/ Tx \in iflag => imask.tx)

(* What waits is behind something, except while a write is between queueing  *)
(* its message and looking at the mailbox.                                   *)
Going ==
  dev = "open" /\ alive /\ task # "locked" /\ waiting > 0 =>
    txmb = "DATA" \/ Tx \in iflag \/ Tx \in todo

(* A mailbox that is to be served holds a frame, and one that holds a frame  *)
(* is to be served, unless its flag was cleared under it.                    *)
Serving == irq \in {"read", "emptied"}
Flagged ==
  /\ \A b \in Boxes : Live(b) => Full(b)
  /\ \A b \in Boxes : Full(b) => b \in iflag \/ b \in stuck
  /\ \A b \in Boxes \cap todo : Live(b)
  /\ IF Serving THEN box \in Boxes /\ box \in iflag ELSE box = 0 /\ got = 0
  /\ irq = "read" => Full(box) /\ got > 0

Ages ==
  /\ got <= arrived
  /\ \A b \in Boxes : Full(b) => Age(b) \in 1..arrived
  /\ \A i \in DOMAIN delivered : delivered[i] <= arrived

(* What was delivered, what is about to be and what is still to be served    *)
(* follow each other in their turn.                                          *)
Turns ==
  /\ \A i \in DOMAIN delivered : got > 0 => InTurn(delivered[i], got)
  /\ \A i \in DOMAIN delivered : \A b \in Boxes : Live(b) => InTurn(delivered[i], Age(b))
  /\ \A b \in Boxes : Live(b) /\ got > 0 => InTurn(got, Age(b))

(* Outside the handler's passes the mailboxes are filled in order,           *)
Outside ==
  irq \in {"out", "settle"} =>
    \A b, c \in Boxes : Live(b) /\ Live(c) /\ b < c => InTurn(Age(b), Age(c))

(* and when frames can pile up because interrupts are held off, they fill    *)
(* them from the first.                                                      *)
Piled ==
  irq = "out" /\ alive =>
    /\ since = 0 => \A b \in Boxes : ~Live(b)
    /\ Masked \/ ~imask.rx => \A b, c \in Boxes : b < c /\ Live(c) => Full(b)

(* In a pass at most one frame is new, and it is younger than all that are   *)
(* still to be read.                                                         *)
Inside ==
  irq \in {"in", "read", "emptied"} =>
    /\ \A b, c \in Boxes \cap todo : b < c => InTurn(Age(b), Age(c))
    /\ \A b \in Boxes \cap todo : \A c \in Boxes \ todo : Live(c) => Age(b) < Age(c)
    /\ \A b, c \in Boxes \ todo : Live(b) /\ Live(c) => b = c
    /\ \A c \in Boxes \ todo : Live(c) => Age(c) = arrived
    /\ since = 0 => \A b \in Boxes : Live(b) => b \in todo
    /\ since = 0 /\ irq = "read" => Age(box) = got
    /\ since = 0 /\ irq = "emptied" => ~Full(box)

(* While send waits, whatever came after a frame that is to be served came   *)
(* in this wait.                                                             *)
Settling ==
  irq = "settle" =>
    \A b \in Boxes : Live(b) => since > 0 /\ (Age(b) + 1)..arrived \subseteq raced

(* LossIsVisible, which the mailbox that is being emptied does not help.     *)
Shown ==
  \A f \in 1..arrived :
    \/ f \in Held \cup {got} \cup wiped \cup erased \/ \E w \in wiped : w > f
    \/ \E i \in DOMAIN delivered : delivered[i] = f
    \/ overruns > 0
    \/ \E b \in Boxes : mb[b].code = "OVERRUN" /\ Age(b) > f /\ b # box

FramesInv ==
  /\ Flagged /\ Ages /\ Turns /\ DeliveredInOrder
  /\ Outside /\ Piled /\ Inside /\ Settling /\ Shown

IInv == TypeOK /\ Life /\ Armed /\ Going /\ FramesInv

-----------------------------------------------------------------------------
(* Lemmas.                                                                   *)

LEMMA ClearedType == Cleared \in [Boxes -> [code : Codes, frame : Nat]]
BY DEF Cleared, Codes

LEMMA HeldType == ASSUME TypeOK PROVE Held \subseteq Nat
BY DEF TypeOK, Held

LEMMA OneMore ==
  ASSUME TypeOK, resets < MaxResets, resets' = resets + 1
  PROVE  resets' \in 0..MaxResets
BY FlexCanAssumption DEF TypeOK

LEMMA TxIsNoBox == Tx \notin Boxes /\ 0 \notin Boxes
BY DEF Tx, Boxes

(* A task that is not in the middle of anything finds the mailboxes empty,   *)
(* for otherwise the handler would run.                                      *)
LEMMA NothingPends ==
  ASSUME IInv, dev = "open", alive, task = "idle", TaskRuns
  PROVE  \A b \in Boxes : ~Live(b)
BY DEF IInv, TypeOK, Armed, Working, TaskRuns, Pending, Masked, Enabled, Live

(* The invariant about the frames depends on the mailboxes and the handler;  *)
(* a task may change what else there is when no flag is up.                  *)
LEMMA SameFrames ==
  ASSUME FramesInv,
         UNCHANGED <<mb, stuck, irq, box, got, todo, arrived>>,
         UNCHANGED <<delivered, overruns, wiped, erased, raced>>,
         \A b \in Boxes : b \in iflag' <=> b \in iflag,
         since' = since \/ (irq = "out" /\ ~alive'),
         irq = "out" /\ alive' =>
           alive /\ (Masked' \/ ~imask'.rx => Masked \/ ~imask.rx \/ \A b \in Boxes : ~Live(b))
  PROVE  FramesInv'
<1>1. Flagged' /\ Ages' /\ Turns' /\ DeliveredInOrder'
      BY DEF FramesInv, Flagged, Live, Full, Age, Serving, Ages, Turns, InTurn, DeliveredInOrder
<1>2. Outside' /\ Inside' /\ Settling'
  <2>1. Outside' /\ Settling'
        BY DEF FramesInv, Live, Age, InTurn, Outside, Settling
  <2>2. Inside'
        BY DEF FramesInv, Live, Full, Age, InTurn, Inside
  <2>3. QED
        BY <2>1, <2>2
<1>3. Piled'
      BY DEF FramesInv, Live, Full, Piled
<1>4. Shown'
      BY DEF FramesInv, Shown, Held, Age
<1>5. QED
      BY <1>1, <1>2, <1>3, <1>4 DEF FramesInv

(* A reset that goes through empties the mailboxes and moves what they hold  *)
(* to wiped.                                                                 *)
LEMMA ResetKeeps ==
  ASSUME IInv, HwReset, irq = "out",
         UNCHANGED <<irq, box, got, todo, arrived, delivered, overruns, erased, raced>>
  PROVE  /\ mb' \in [Boxes -> [code : Codes, frame : Nat]]
         /\ wiped' \subseteq Nat /\ stuck' \subseteq Boxes
         /\ FramesInv'
<1>1. mb' = Cleared /\ iflag' = {} /\ wiped' = wiped \cup Held /\ stuck' = {}
      BY DEF HwReset
<1>2. \A b \in Boxes : ~Full(b)' /\ ~Live(b)'
      BY <1>1 DEF Full, Live, Cleared
<1>3. mb' \in [Boxes -> [code : Codes, frame : Nat]] /\ wiped' \subseteq Nat
      BY <1>1, ClearedType, HeldType DEF IInv, TypeOK
<1>4. Flagged' /\ Ages' /\ DeliveredInOrder'
  <2>1. Flagged'
        BY <1>2 DEF IInv, FramesInv, Life, Flagged, Serving
  <2>2. Ages'
        BY <1>2 DEF IInv, FramesInv, Ages
  <2>3. DeliveredInOrder'
        BY DEF IInv, FramesInv, DeliveredInOrder, InTurn
  <2>4. QED
        BY <2>1, <2>2, <2>3
<1>5. Turns' /\ Outside' /\ Piled' /\ Inside' /\ Settling'
  <2>1. got = 0
        BY DEF IInv, FramesInv, Flagged, Serving
  <2>2. QED
        BY <1>2, <2>1 DEF Turns, Outside, Piled, Inside, Settling
<1>6. Shown'
  <2> SUFFICES ASSUME NEW f \in 1..arrived
               PROVE  \/ f \in {got} \cup wiped' \cup erased \/ \E w \in wiped' : w > f
                      \/ \E i \in DOMAIN delivered : delivered[i] = f
                      \/ overruns > 0
      BY DEF Shown
  <2>1. ASSUME NEW b \in Boxes, mb[b].code = "OVERRUN", Age(b) > f
        PROVE  \E w \in wiped' : w > f
        BY <1>1, <2>1 DEF Held, Age
  <2>2. QED
        BY <1>1, <2>1 DEF IInv, FramesInv, Shown
<1>7. QED
      BY <1>1, <1>3, <1>4, <1>5, <1>6 DEF FramesInv

(* One that fails may leave them alone.                                      *)
LEMMA FailedResetKeeps ==
  ASSUME IInv, HwResetFails, irq = "out", alive' = FALSE,
         UNCHANGED <<irq, box, got, todo, arrived, delivered, overruns, erased, raced>>
  PROVE  /\ mb' \in [Boxes -> [code : Codes, frame : Nat]]
         /\ wiped' \subseteq Nat /\ stuck' \subseteq Boxes
         /\ iflag' \subseteq Flags /\ Tx \notin iflag' /\ txmb' = "INACTIVE"
         /\ FramesInv'
<1>1. CASE HwReset
      BY <1>1, ResetKeeps DEF HwReset
<1>2. CASE txmb' = "INACTIVE" /\ iflag' = iflag \ {Tx} /\ UNCHANGED <<mb, wiped, stuck>>
  <2>1. /\ mb' \in [Boxes -> [code : Codes, frame : Nat]] /\ wiped' \subseteq Nat
        /\ stuck' \subseteq Boxes /\ iflag' \subseteq Flags /\ Tx \notin iflag'
        BY <1>2 DEF IInv, TypeOK
  <2>2. FramesInv'
        BY <1>2, TxIsNoBox, SameFrames DEF IInv
  <2>3. QED
        BY <1>2, <2>1, <2>2
<1>3. QED
      BY <1>1, <1>2 DEF HwResetFails

-----------------------------------------------------------------------------
(* Preservation, one lemma per action: the tasks.                            *)

LEMMA ResetTaskKeeps == ASSUME IInv, Reset PROVE IInv'
<1>1. /\ dev = "closed" /\ imask' = NoInts /\ resets < MaxResets /\ resets' = resets + 1
      /\ UNCHANGED <<dev, txint, irq, todo, box, got, task, waiting, written, since>>
      /\ UNCHANGED <<arrived, delivered, overruns, erased, raced>>
      /\ alive' \in BOOLEAN
      BY DEF Reset, handler, upper, passed
<1>2. irq = "out"
      BY <1>1 DEF IInv, Life
<1>3. /\ mb' \in [Boxes -> [code : Codes, frame : Nat]]
      /\ wiped' \subseteq Nat /\ stuck' \subseteq Boxes
      /\ iflag' \subseteq Flags /\ txmb' = "INACTIVE" /\ FramesInv'
  <2>1. CASE HwReset
        BY <1>1, <1>2, <2>1, ResetKeeps DEF HwReset
  <2>2. CASE HwResetFails /\ alive' = FALSE
        BY <1>1, <1>2, <2>2, FailedResetKeeps
  <2>3. QED
        BY <2>1, <2>2 DEF Reset
<1>4. TypeOK'
      BY <1>1, <1>3, OneMore DEF IInv, TypeOK, NoInts
<1>5. Life' /\ Armed' /\ Going'
      BY <1>1 DEF IInv, Life, Armed, Working, Going
<1>6. QED
      BY <1>3, <1>4, <1>5 DEF IInv

LEMMA OpenKeeps == ASSUME IInv, Open PROVE IInv'
<1>1. irq = "out" /\ task = "idle" /\ todo = {}
      BY DEF IInv, Open, Life
<1>2. /\ HwReset /\ UNCHANGED <<irq, todo, box, got, arrived, delivered, overruns, erased, raced>>
      BY DEF Open, handler, passed
<1>3. /\ mb' \in [Boxes -> [code : Codes, frame : Nat]]
      /\ wiped' \subseteq Nat /\ stuck' \subseteq Boxes /\ FramesInv'
      BY <1>1, <1>2, ResetKeeps
<1>4. TypeOK'
      BY <1>2, <1>3, FlexCanAssumption DEF IInv, TypeOK, Open, HwReset, NoInts
<1>5. Life' /\ Armed' /\ Going'
      BY <1>1, <1>2 DEF IInv, Life, Armed, Working, Going, Open, HwReset, NoInts
<1>6. QED
      BY <1>3, <1>4, <1>5 DEF IInv

LEMMA OpenFailsKeeps == ASSUME IInv, OpenFails PROVE IInv'
<1>1. /\ HwResetFails /\ alive' = FALSE /\ dev = "closed"
      /\ UNCHANGED <<dev, imask, txint, irq, todo, box, got, task, waiting, written>>
      /\ UNCHANGED <<arrived, delivered, overruns, erased, raced, since>>
      /\ resets < MaxResets /\ resets' = resets + 1
      BY DEF OpenFails, enables, handler, upper, passed
<1>2. irq = "out"
      BY <1>1 DEF IInv, Life
<1>3. /\ mb' \in [Boxes -> [code : Codes, frame : Nat]]
      /\ wiped' \subseteq Nat /\ stuck' \subseteq Boxes
      /\ iflag' \subseteq Flags /\ Tx \notin iflag' /\ txmb' = "INACTIVE"
      /\ FramesInv'
      BY <1>1, <1>2, FailedResetKeeps
<1>4. TypeOK'
      BY <1>1, <1>3, OneMore DEF IInv, TypeOK
<1>5. Life' /\ Armed' /\ Going'
      BY <1>1 DEF IInv, Life, Armed, Working, Going, NoInts
<1>6. QED
      BY <1>3, <1>4, <1>5 DEF IInv

LEMMA RxIntKeeps == ASSUME IInv, RxInt PROVE IInv'
<1>1. TypeOK'
      BY DEF IInv, TypeOK, RxInt, boxes, handler, upper, history, passed
<1>2. Life' /\ Armed' /\ Going'
      BY DEF IInv, TypeOK, Life, Armed, Working, Going, NoInts,
             RxInt, boxes, handler, upper
<1>3. FramesInv'
      BY SameFrames DEF IInv, Life, NoInts, Masked, RxInt, boxes, handler, upper, history, passed
<1>4. QED
      BY <1>1, <1>2, <1>3 DEF IInv

LEMMA CloseBeginKeeps == ASSUME IInv, CloseBegin PROVE IInv'
<1>1. TypeOK'
      BY DEF IInv, TypeOK, CloseBegin, NoInts, device, boxes, handler, history, passed
<1>2. Life' /\ Armed' /\ Going'
      BY DEF IInv, Life, Armed, Working, Going, TaskRuns,
             CloseBegin, device, boxes, handler
<1>3. alive => \A b \in Boxes : ~Live(b)
      BY NothingPends DEF CloseBegin
<1>4. FramesInv'
      BY <1>3, SameFrames DEF IInv, CloseBegin, device, boxes, handler, history, passed
<1>5. QED
      BY <1>1, <1>2, <1>4 DEF IInv

LEMMA CloseEndKeeps == ASSUME IInv, CloseEnd PROVE IInv'
<1>1. TypeOK'
      BY DEF IInv, TypeOK, CloseEnd, boxes, handler, history, passed
<1>2. Life' /\ Armed' /\ Going'
      BY DEF IInv, Life, Armed, Working, Going, CloseEnd, boxes, handler
<1>3. FramesInv'
      BY SameFrames DEF IInv, CloseEnd, boxes, handler, history, passed
<1>4. QED
      BY <1>1, <1>2, <1>3 DEF IInv

LEMMA RecoverBeginKeeps == ASSUME IInv, RecoverBegin PROVE IInv'
<1>1. TypeOK'
      BY OneMore DEF IInv, TypeOK, RecoverBegin, NoInts, device, handler, passed
<1>2. Life' /\ Armed' /\ Going'
      BY DEF IInv, Life, Armed, Working, Going, TaskRuns, RecoverBegin, device, handler
<1>3. alive => \A b \in Boxes : ~Live(b)
      BY NothingPends DEF RecoverBegin
<1>4. FramesInv'
      BY <1>3, TxIsNoBox, SameFrames DEF IInv, RecoverBegin, device, handler, passed
<1>5. QED
      BY <1>1, <1>2, <1>4 DEF IInv

LEMMA RecoverResetKeeps == ASSUME IInv, RecoverReset PROVE IInv'
<1>1. /\ task = "masked" /\ since' = 0
      /\ UNCHANGED <<dev, imask, txint, irq, todo, box, got, waiting, written>>
      /\ UNCHANGED <<arrived, delivered, overruns, erased, raced, resets>>
      BY DEF RecoverReset, enables, handler, passed
<1>2. irq = "out"
      BY <1>1 DEF IInv, Life
<1>3. /\ mb' \in [Boxes -> [code : Codes, frame : Nat]]
      /\ wiped' \subseteq Nat /\ stuck' \subseteq Boxes
      /\ iflag' \subseteq Flags /\ Tx \notin iflag' /\ txmb' = "INACTIVE"
      /\ FramesInv'
  <2>1. CASE HwReset
        BY <1>1, <1>2, <2>1, ResetKeeps DEF HwReset
  <2>2. CASE HwResetFails /\ alive' = FALSE
        BY <1>1, <1>2, <2>2, FailedResetKeeps
  <2>3. QED
        BY <2>1, <2>2 DEF RecoverReset
<1>4. \/ alive' = TRUE /\ task' = "restarted"
      \/ alive' = FALSE /\ task' = "idle"
      BY DEF RecoverReset
<1>5. TypeOK'
      BY <1>1, <1>3, <1>4 DEF IInv, TypeOK
<1>6. Life' /\ Armed' /\ Going'
      BY <1>1, <1>3, <1>4 DEF IInv, Life, Armed, Working, Going, NoInts
<1>7. QED
      BY <1>3, <1>5, <1>6 DEF IInv

LEMMA RecoverEndKeeps == ASSUME IInv, RecoverEnd PROVE IInv'
<1>1. TypeOK'
      BY DEF IInv, TypeOK, RecoverEnd, device, boxes, handler, history, passed
<1>2. Life' /\ Armed' /\ Going'
      BY DEF IInv, TypeOK, Life, Armed, Working, Going,
             RecoverEnd, device, boxes, handler
<1>3. FramesInv'
      BY SameFrames DEF IInv, Masked, RecoverEnd, device, boxes, handler, history, passed
<1>4. QED
      BY <1>1, <1>2, <1>3 DEF IInv

LEMMA WriteBeginKeeps == ASSUME IInv, WriteBegin PROVE IInv'
<1>1. TypeOK'
      BY DEF IInv, TypeOK, WriteBegin, device, boxes, enables, handler, history, passed
<1>2. Life' /\ Armed' /\ Going'
      BY DEF IInv, TypeOK, Life, Armed, Working, Going, TaskRuns,
             WriteBegin, device, boxes, enables, handler
<1>3. alive => \A b \in Boxes : ~Live(b)
      BY NothingPends DEF WriteBegin
<1>4. FramesInv'
      BY <1>3, SameFrames DEF IInv, WriteBegin, device, boxes, enables, handler, history, passed
<1>5. QED
      BY <1>1, <1>2, <1>4 DEF IInv

(* What send does, from a write or from the handler.                         *)
LEMMA SendEffect ==
  ASSUME IInv, Send
  PROVE  /\ txmb' = "DATA" /\ iflag' = iflag \ {Tx} /\ txint' = TRUE
         /\ iflag' \subseteq Flags
         /\ imask' \in [rx : BOOLEAN, tx : BOOLEAN]
         /\ imask'.tx = TRUE /\ imask'.rx = imask.rx
BY DEF IInv, TypeOK, Send

LEMMA WriteSendKeeps == ASSUME IInv, WriteSend PROVE IInv'
<1>1. /\ task = "locked" /\ task' = "sending"
      /\ UNCHANGED <<dev, alive, mb, irq, todo, box, got, written, since>>
      /\ UNCHANGED <<arrived, delivered, overruns, wiped, erased, raced, stuck, resets>>
      BY DEF WriteSend, device, handler, history, passed
<1>2. irq = "out" /\ dev = "open" /\ waiting > 0 /\ waiting \in Nat
      BY <1>1 DEF IInv, Life, TypeOK
<1>3. /\ TypeOK' /\ iflag' \subseteq iflag /\ iflag \ {Tx} \subseteq iflag'
      /\ imask'.rx = imask.rx /\ txmb' = "DATA"
      /\ alive /\ imask.rx => (imask'.tx = TRUE)
  <2>1. CASE TxReady
    <3>1. Send /\ waiting' = waiting - 1
          BY <2>1 DEF WriteSend
    <3>2. waiting' \in Nat
          BY <1>2, <3>1
    <3>3. TypeOK'
          BY <1>1, <3>1, <3>2, SendEffect DEF IInv, TypeOK
    <3>4. QED
          BY <3>1, <3>3, SendEffect
  <2>2. CASE ~TxReady
    <3>1. UNCHANGED <<txmb, iflag, imask, txint, waiting>> /\ txmb = "DATA"
          BY <2>2 DEF WriteSend, TxReady, enables
    <3>2. alive => imask.tx = TRUE
          BY <1>1, <1>2, <3>1 DEF IInv, Armed, Working, TypeOK
    <3>3. QED
          BY <1>1, <3>1, <3>2 DEF IInv, TypeOK
  <2>3. QED
        BY <2>1, <2>2
<1>4. Life' /\ Going'
      BY <1>1, <1>2, <1>3 DEF IInv, Life, Going
<1>5. Armed'
      BY <1>1, <1>2, <1>3 DEF IInv, Armed, Working
<1>6. FramesInv'
      BY <1>1, <1>3, TxIsNoBox, SameFrames DEF IInv, Masked
<1>7. QED
      BY <1>3, <1>4, <1>5, <1>6 DEF IInv

LEMMA WriteEndKeeps == ASSUME IInv, WriteEnd PROVE IInv'
<1>1. TypeOK'
      BY DEF IInv, TypeOK, WriteEnd, device, boxes, enables, handler, history, passed
<1>2. Life' /\ Armed' /\ Going'
      BY DEF IInv, TypeOK, Life, Armed, Working, Going,
             WriteEnd, device, boxes, enables, handler
<1>3. FramesInv'
      BY SameFrames DEF IInv, Masked, WriteEnd, device, boxes, enables, handler, history, passed
<1>4. QED
      BY <1>1, <1>2, <1>3 DEF IInv
-----------------------------------------------------------------------------
(* The controller.                                                           *)

LEMMA CompleteKeeps == ASSUME IInv, Complete PROVE IInv'
<1>1. /\ UNCHANGED <<dev, alive, mb, imask, txint, irq, todo, box, got, task, waiting, written>>
      /\ UNCHANGED <<arrived, delivered, overruns, wiped, erased, raced, stuck, resets, since>>
      /\ alive /\ txmb = "DATA" /\ txmb' = "INACTIVE" /\ iflag' = iflag \cup {Tx}
      BY DEF Complete, device, enables, handler, upper, history, passed
<1>2. TypeOK'
      BY <1>1 DEF IInv, TypeOK, Flags, Tx
<1>3. Life' /\ Going'
      BY <1>1 DEF IInv, Life, Going, NoInts
<1>4. Armed'
      BY <1>1 DEF IInv, Armed, Working
<1>5. FramesInv'
      BY <1>1, TxIsNoBox, SameFrames DEF IInv, Masked
<1>6. QED
      BY <1>2, <1>3, <1>4, <1>5 DEF IInv

LEMMA ArriveKeeps == ASSUME IInv, Arrive PROVE IInv'
<1> USE DEF IInv, FramesInv
<1>1. PICK b \in Boxes :
        /\ \/ FirstEmpty(b) /\ mb' = [mb EXCEPT ![b] = [code |-> "FULL", frame |-> arrived + 1]]
           \/ /\ b = RxCount /\ \A c \in Boxes : mb[c].code # "EMPTY"
              /\ mb' = [mb EXCEPT ![b] = [code |-> "OVERRUN", frame |-> arrived + 1]]
        /\ iflag' = iflag \cup {b}
        /\ stuck' = stuck \ {b}
      BY DEF Arrive
<1>2. /\ mb'[b].frame = arrived + 1 /\ mb'[b].code # "EMPTY"
      /\ \A c \in Boxes \ {b} : mb'[c] = mb[c]
      BY <1>1 DEF TypeOK
<1>3. /\ UNCHANGED <<dev, alive, txmb, imask, txint, irq, todo, box, got, task>>
      /\ UNCHANGED <<waiting, written, delivered, overruns, wiped, erased, resets>>
      /\ arrived' = arrived + 1 /\ since' = since + 1
      /\ raced' = IF irq = "settle" THEN raced \cup {arrived + 1} ELSE raced
      /\ alive /\ (since = 0 \/ Masked \/ ~imask.rx \/ irq = "settle")
      BY DEF Arrive, device, enables, handler, upper, passed
<1>4. TypeOK'
  <2>1. mb' \in [Boxes -> [code : Codes, frame : Nat]]
    <3>1. PICK code \in Codes : mb' = [mb EXCEPT ![b] = [code |-> code, frame |-> arrived + 1]]
          BY <1>1 DEF Codes
    <3>2. [code |-> code, frame |-> arrived + 1] \in [code : Codes, frame : Nat]
          BY DEF TypeOK
    <3>3. QED
          BY <3>1, <3>2 DEF TypeOK
  <2>2. iflag' \subseteq Flags /\ stuck' \subseteq Boxes /\ raced' \subseteq Nat
        BY <1>1, <1>3 DEF TypeOK, Flags
  <2>3. QED
        BY <1>3, <2>1, <2>2 DEF TypeOK
<1>5. Life' /\ Armed' /\ Going' /\ DeliveredInOrder'
  <2>1. Tx \in iflag' <=> Tx \in iflag
        BY <1>1, TxIsNoBox
  <2>2. Life'
        BY <1>3, <2>1 DEF Life, NoInts
  <2>3. Armed' /\ Going'
        BY <1>3, <2>1 DEF Armed, Working, Going
  <2>4. DeliveredInOrder'
        BY <1>3 DEF DeliveredInOrder, InTurn
  <2>5. QED
        BY <2>2, <2>3, <2>4
<1>6. \A c \in Boxes \ {b} : (Live(c)' <=> Live(c)) /\ (Full(c)' <=> Full(c)) /\ Age(c)' = Age(c)
      BY <1>1, <1>2, <1>3 DEF Live, Full, Age
<1>7. Full(b)' /\ Age(b)' = arrived + 1 /\ b \in iflag'
      BY <1>1, <1>2 DEF Full, Age
<1>8. arrived \in Nat /\ got \in Nat /\ since \in Nat /\ \A i \in DOMAIN delivered : delivered[i] \in Nat
      BY DEF TypeOK
<1>9. \A c \in Boxes : Live(c) => Age(c) \in 1..arrived
      BY DEF Flagged, Ages
<1>10. Flagged'
      BY <1>1, <1>3, <1>6, <1>7 DEF Flagged, Serving, Live
<1>11. Ages'
  <2>1. got <= arrived' /\ \A i \in DOMAIN delivered : delivered[i] <= arrived'
        BY <1>3, <1>8 DEF Ages
  <2>2. ASSUME NEW c \in Boxes, Full(c)' PROVE Age(c)' \in 1..arrived'
    <3>1. CASE c = b
          BY <1>3, <1>7, <1>8, <3>1
    <3>2. CASE c # b
          BY <1>3, <1>6, <1>8, <2>2, <3>2 DEF Ages
    <3>3. QED
          BY <3>1, <3>2
  <2>3. QED
        BY <1>3, <2>1, <2>2 DEF Ages
<1>12. raced \subseteq raced' /\ \A f, g \in Nat : InTurn(f, g) => InTurn(f, g)'
       BY <1>3 DEF InTurn
<1>13. Turns'
  <2> DEFINE After(f, g) == f < g \/ (g < f /\ (g + 1)..f \subseteq raced')
  <2>1. ASSUME NEW f \in Nat, NEW g \in Nat, InTurn(f, g) PROVE After(f, g)
        BY <1>12, <2>1 DEF InTurn
  <2>2. ASSUME NEW f \in Nat, f <= arrived, NEW c \in Boxes, Live(c)',
               Live(c) => InTurn(f, Age(c))
        PROVE  After(f, Age(c)')
    <3>1. CASE c = b
          BY <1>7, <1>8, <2>2, <3>1
    <3>2. CASE c # b
      <4>1. Live(c) /\ Age(c)' = Age(c) /\ Age(c) \in Nat
            BY <1>6, <1>9, <2>2, <3>2
      <4>2. QED
            BY <2>1, <2>2, <4>1
    <3>3. QED
          BY <3>1, <3>2
  <2>3. ASSUME NEW i \in DOMAIN delivered, NEW c \in Boxes, Live(c)'
        PROVE  After(delivered[i], Age(c)')
    <3>1. /\ delivered[i] \in Nat /\ delivered[i] <= arrived
          /\ Live(c) => InTurn(delivered[i], Age(c))
          BY <1>8 DEF Turns, Ages
    <3>2. QED
          BY <2>2, <2>3, <3>1
  <2>4. ASSUME NEW c \in Boxes, Live(c)', got > 0
        PROVE  After(got, Age(c)')
    <3>1. got <= arrived /\ (Live(c) => InTurn(got, Age(c)))
          BY <2>4 DEF Turns, Ages
    <3>2. QED
          BY <1>8, <2>2, <2>4, <3>1
  <2>5. ASSUME NEW i \in DOMAIN delivered, got > 0
        PROVE  After(delivered[i], got)
    <3>1. InTurn(delivered[i], got)
          BY <2>5 DEF Turns
    <3>2. QED
          BY <1>8, <2>1, <3>1
  <2>6. QED
        BY <1>3, <2>3, <2>4, <2>5 DEF Turns, InTurn
<1>14. ASSUME irq = "out" PROVE Outside' /\ Piled'
  <2>1. \A c \in Boxes : c < b => Full(c)
        BY <1>1, FlexCanAssumption DEF FirstEmpty, Full, Boxes
  <2>2. \A c \in Boxes : Live(c) => c <= b
    <3>1. CASE since = 0
          BY <1>3, <1>14, <3>1 DEF Piled
    <3>2. CASE b = RxCount
          BY <3>2, FlexCanAssumption DEF Boxes
    <3>3. CASE (Masked \/ ~imask.rx) /\ FirstEmpty(b)
      <4>1. ~Full(b)
            BY <3>3 DEF FirstEmpty, Full
      <4>2. \A c \in Boxes : b < c => ~Live(c)
            BY <1>3, <1>14, <3>3, <4>1 DEF Piled
      <4>3. QED
            BY <4>2, FlexCanAssumption DEF Boxes
    <3>4. QED
          BY <1>1, <1>3, <1>14, <3>1, <3>2, <3>3
  <2>3. ASSUME NEW c \in Boxes, NEW d \in Boxes, Live(c)', Live(d)', c < d
        PROVE  InTurn(Age(c), Age(d))'
    <3>1. c # b
          BY <1>6, <2>2, <2>3, FlexCanAssumption DEF Boxes
    <3>2. Live(c) /\ Age(c)' = Age(c) /\ Age(c) \in 1..arrived
          BY <1>6, <1>9, <2>3, <3>1
    <3>3. CASE d = b
          BY <1>7, <1>8, <3>2, <3>3 DEF InTurn
    <3>4. CASE d # b
      <4>1. Live(d) /\ Age(d)' = Age(d) /\ Age(d) \in 1..arrived
            BY <1>6, <1>9, <2>3, <3>4
      <4>2. InTurn(Age(c), Age(d))
            BY <1>14, <2>3, <3>2, <4>1 DEF Outside
      <4>3. QED
            BY <1>3, <1>14, <3>2, <4>1, <4>2 DEF InTurn
    <3>5. QED
          BY <3>3, <3>4
  <2>4. ASSUME NEW c \in Boxes, NEW d \in Boxes, Live(d)', c < d
        PROVE  Full(c)'
    <3>1. d <= b
          BY <1>6, <2>2, <2>4, FlexCanAssumption DEF Boxes
    <3>2. c < b /\ c # b
          BY <2>4, <3>1, FlexCanAssumption DEF Boxes
    <3>3. QED
          BY <1>6, <2>1, <3>2
  <2>5. since' # 0
        BY <1>3, <1>8
  <2>6. QED
        BY <2>3, <2>4, <2>5 DEF Outside, Piled
<1>15. ASSUME irq = "settle" PROVE Outside' /\ Settling'
  <2>1. raced' = raced \cup {arrived + 1}
        BY <1>3, <1>15
  <2>2. ASSUME NEW c \in Boxes, Live(c)'
        PROVE  /\ since' > 0 /\ ((Age(c)' + 1)..arrived') \subseteq raced'
               /\ c # b => Live(c) /\ Age(c)' = Age(c) /\ Age(c) \in 1..arrived
    <3>1. CASE c = b
          BY <1>3, <1>7, <1>8, <3>1
    <3>2. CASE c # b
      <4>1. Live(c) /\ Age(c)' = Age(c) /\ Age(c) \in 1..arrived
            BY <1>6, <1>9, <2>2, <3>2
      <4>2. (Age(c) + 1)..arrived \subseteq raced
            BY <1>15, <4>1 DEF Settling
      <4>3. QED
            BY <1>3, <1>8, <2>1, <4>1, <4>2
    <3>3. QED
          BY <3>1, <3>2
  <2>3. ASSUME NEW c \in Boxes, NEW d \in Boxes, Live(c)', Live(d)', c < d
        PROVE  InTurn(Age(c), Age(d))'
    <3>1. CASE c # b /\ d # b
      <4>1. InTurn(Age(c), Age(d))
            BY <1>15, <2>2, <2>3, <3>1 DEF Outside
      <4>2. Age(c) \in Nat /\ Age(d) \in Nat /\ Age(c)' = Age(c) /\ Age(d)' = Age(d)
            BY <2>2, <2>3, <3>1
      <4>3. QED
            BY <2>1, <4>1, <4>2 DEF InTurn
    <3>2. CASE d = b
      <4>1. c # b
            BY <2>3, <3>2, FlexCanAssumption DEF Boxes
      <4>2. QED
            BY <1>7, <1>8, <2>2, <2>3, <3>2, <4>1 DEF InTurn
    <3>3. CASE c = b
      <4>1. d # b
            BY <2>3, <3>3, FlexCanAssumption DEF Boxes
      <4>2. Age(d)' \in 1..arrived /\ ((Age(d)' + 1)..(arrived + 1)) \subseteq raced'
            BY <1>3, <2>2, <2>3, <4>1
      <4>3. QED
            BY <1>7, <1>8, <3>3, <4>2 DEF InTurn
    <3>4. QED
          BY <3>1, <3>2, <3>3
  <2>4. QED
        BY <1>3, <1>15, <2>2, <2>3 DEF Outside, Settling
<1>16. ASSUME irq \in {"in", "read", "emptied"} PROVE Inside'
  <2>1. since = 0
        BY <1>3, <1>16 DEF Life, Armed, Working, Masked, TypeOK
  <2>2. \A c \in Boxes : Live(c) => c \in todo
        BY <1>16, <2>1 DEF Inside
  <2>3. b \in todo \/ (irq = "read" /\ b = box) => b = RxCount
        BY <1>1 DEF Flagged, Full, FirstEmpty
  <2>4. ASSUME NEW c \in Boxes \cap todo, NEW d \in Boxes \cap todo, c < d
        PROVE  InTurn(Age(c), Age(d))'
    <3>1. c # b
          BY <2>3, <2>4, FlexCanAssumption DEF Boxes
    <3>2. Live(c) /\ Live(d) /\ InTurn(Age(c), Age(d)) /\ Age(c) \in 1..arrived /\ Age(d) \in 1..arrived
          BY <1>9, <1>16, <2>4 DEF Inside, Flagged
    <3>3. CASE d = b
          BY <1>6, <1>7, <1>8, <3>1, <3>2, <3>3 DEF InTurn
    <3>4. CASE d # b
          BY <1>3, <1>6, <3>1, <3>2, <3>4 DEF InTurn
    <3>5. QED
          BY <3>3, <3>4
  <2>5. ASSUME NEW d \in Boxes \ todo, Live(d)' PROVE d = b
        BY <1>6, <2>2, <2>5
  <2>6. ASSUME NEW c \in Boxes \cap todo, NEW d \in Boxes \ todo, Live(d)'
        PROVE  Age(c)' < Age(d)'
    <3>1. d = b /\ c # b /\ Live(c)
          BY <2>5, <2>6 DEF Flagged
    <3>2. QED
          BY <1>6, <1>7, <1>8, <1>9, <3>1
  <2>7. since' # 0
        BY <1>3, <1>8
  <2>8. QED
        BY <1>3, <1>7, <2>4, <2>5, <2>6, <2>7 DEF Inside
<1>17. Outside' /\ Piled' /\ Inside' /\ Settling'
       BY <1>3, <1>14, <1>15, <1>16 DEF Outside, Piled, Inside, Settling, TypeOK
<1>18. Shown'
  <2> SUFFICES ASSUME NEW f \in 1..(arrived + 1)
               PROVE  \/ f \in Held' \cup {got} \cup wiped \cup erased \/ \E w \in wiped : w > f
                      \/ \E i \in DOMAIN delivered : delivered[i] = f
                      \/ overruns > 0
                      \/ \E c \in Boxes : mb'[c].code = "OVERRUN" /\ mb'[c].frame > f /\ c # box
      BY <1>3 DEF Shown, Age
  <2>1. CASE f = arrived + 1
        BY <1>2, <2>1 DEF Held
  <2>2. CASE f # arrived + 1
    <3>1. f \in 1..arrived
          BY <2>2, <1>8
    <3>2. CASE FirstEmpty(b)
      <4>1. \A c \in Boxes : Full(c) => mb'[c] = mb[c]
            BY <1>2, <3>2 DEF FirstEmpty, Full
      <4>2. Held \subseteq Held'
            BY <4>1 DEF Held, Full
      <4>3. \A c \in Boxes : mb[c].code = "OVERRUN" => mb'[c] = mb[c]
            BY <4>1 DEF Full
      <4>4. QED
            BY <3>1, <4>2, <4>3 DEF Shown, Age
    <3>3. CASE ~FirstEmpty(b) /\ b # box
      <4>1. mb'[b].code = "OVERRUN"
            BY <1>1, <3>3 DEF TypeOK
      <4>2. mb'[b].frame > f
            BY <1>2, <1>8, <3>1
      <4>3. QED
            BY <3>3, <4>1, <4>2
    <3>4. CASE ~FirstEmpty(b) /\ b = box
      <4>1. irq = "read" \/ irq = "emptied"
            BY <3>4, TxIsNoBox DEF Flagged, Serving
      <4>2. \A c \in Boxes : Full(c)
            BY <1>1, <3>4 DEF Full
      <4>3. irq = "read" => Age(box) = got
            BY <1>3, <4>1 DEF Inside, Life, Armed, Working, Masked, TypeOK
      <4>4. CASE f \in Held
        <5>1. PICK c \in Boxes : mb[c].code # "EMPTY" /\ mb[c].frame = f
              BY <4>4 DEF Held
        <5>2. CASE c # b
              BY <1>2, <5>1, <5>2 DEF Held
        <5>3. CASE c = b /\ irq = "read"
              BY <3>4, <4>3, <5>1, <5>3 DEF Age
        <5>4. CASE c = b /\ irq = "emptied"
          <6>1. since = 0
                BY <1>3, <5>4 DEF Life, Armed, Working, Masked, TypeOK
          <6>2. QED
                BY <3>4, <4>2, <5>4, <6>1 DEF Inside
        <5>5. QED
              BY <4>1, <5>2, <5>3, <5>4
      <4>5. CASE f \notin Held
        <5>1. \A c \in Boxes \ {b} : mb[c].code = "OVERRUN" => mb'[c].code = "OVERRUN"
              BY <1>2
        <5>2. QED
              BY <1>2, <3>1, <3>4, <4>5 DEF Shown, Age
      <4>6. QED
            BY <4>4, <4>5
    <3>5. QED
          BY <3>2, <3>3, <3>4
  <2>3. QED
        BY <2>1, <2>2
<1>19. QED
       BY <1>4, <1>5, <1>10, <1>11, <1>13, <1>17, <1>18

-----------------------------------------------------------------------------
(* The handler.                                                              *)

LEMMA EnterKeeps == ASSUME IInv, Enter PROVE IInv'
<1>1. /\ irq = "out" /\ irq' = "in" /\ todo' = iflag /\ since' = 0 /\ task = "idle"
      /\ UNCHANGED <<mb, iflag, stuck, box, got, arrived>>
      /\ UNCHANGED <<delivered, overruns, wiped, erased, raced>>
      BY DEF Enter, Masked, boxes, upper, history, passed
<1>2. TypeOK'
      BY DEF IInv, TypeOK, Enter, device, boxes, enables, upper, history, passed
<1>3. Life' /\ Armed' /\ Going'
      BY DEF IInv, TypeOK, Life, Armed, Working, Going, Pending, Enabled, Masked,
             NoInts, Enter, device, boxes, enables, upper
<1>4. box = 0 /\ got = 0 /\ \A b \in Boxes : Live(b) <=> b \in iflag
      BY <1>1, TxIsNoBox DEF IInv, FramesInv, Flagged, Serving, Live
<1>5. Flagged' /\ Ages' /\ Turns' /\ DeliveredInOrder'
      BY <1>1, <1>4, TxIsNoBox DEF IInv, FramesInv, Flagged, Serving, Live, Full, Age, Ages, Turns,
                                   InTurn, DeliveredInOrder
<1>6. Inside'
      BY <1>1, <1>4 DEF IInv, FramesInv, Outside, Inside, Live, Age, InTurn
<1>7. Outside' /\ Piled' /\ Settling'
      BY <1>1 DEF Outside, Piled, Settling
<1>8. Shown'
      BY <1>1 DEF IInv, FramesInv, Shown, Held, Age
<1>9. QED
      BY <1>2, <1>3, <1>5, <1>6, <1>7, <1>8 DEF IInv, FramesInv

LEMMA LookKeeps == ASSUME IInv, Look PROVE IInv'
<1>1. PICK b \in Boxes :
        /\ irq = "in" /\ b \in todo /\ \A c \in todo \ {Tx} : b <= c
        /\ todo' = todo \ {b} /\ box' = b
        /\ IF mb[b].code = "EMPTY"
             THEN irq' = "emptied" /\ got' = 0 /\ UNCHANGED overruns
             ELSE irq' = "read" /\ got' = mb[b].frame /\ Overrun(b)
      BY DEF Look, Turn
<1>2. /\ UNCHANGED <<dev, alive, mb, txmb, iflag, imask, txint, task, waiting, written>>
      /\ UNCHANGED <<arrived, delivered, erased, wiped, raced, stuck, resets, since>>
      BY DEF Look, device, boxes, enables, upper
<1>3. Live(b) /\ Full(b) /\ box = 0 /\ got = 0
      BY <1>1 DEF IInv, FramesInv, Flagged, Serving
<1>4. irq' = "read" /\ got' = Age(b) /\ Overrun(b)
      BY <1>1, <1>3 DEF Full, Age
<1>5. Age(b) \in 1..arrived /\ arrived \in Nat /\ overruns \in Nat
      BY <1>3 DEF IInv, FramesInv, Ages, TypeOK
<1>6. overruns' \in Nat /\ overruns' >= overruns /\ (mb[b].code = "OVERRUN" => overruns' > 0)
      BY <1>4, <1>5 DEF Overrun
<1>7. TypeOK'
      BY <1>1, <1>2, <1>4, <1>5, <1>6 DEF IInv, TypeOK, Flags
<1>8. Life' /\ Armed' /\ Going'
      BY <1>1, <1>2, <1>4, TxIsNoBox DEF IInv, Life, Armed, Working, Going, NoInts
<1>9. \A c \in Boxes : Live(c)' => c # b /\ Live(c)
      BY <1>1, <1>2, <1>3, TxIsNoBox DEF Live
<1>10. \A c \in Boxes : Full(c)' = Full(c) /\ Age(c)' = Age(c)
       BY <1>2 DEF Full, Age
<1>11. Flagged'
  <2>1. \A c \in Boxes \cap todo' : Live(c)'
        BY <1>1, <1>2 DEF IInv, FramesInv, Flagged, Live
  <2>2. b \in iflag'
        BY <1>2, <1>3 DEF Live
  <2>3. QED
        BY <1>1, <1>2, <1>3, <1>4, <1>5, <1>9, <1>10, <2>1, <2>2
           DEF IInv, FramesInv, Flagged, Serving
<1>12. Ages' /\ DeliveredInOrder'
       BY <1>2, <1>4, <1>5, <1>10 DEF IInv, FramesInv, Ages, DeliveredInOrder, InTurn
<1>13. Turns'
  <2>1. ASSUME NEW c \in Boxes, Live(c)' PROVE InTurn(Age(b), Age(c))
    <3>1. c # b /\ Live(c)
          BY <1>9, <2>1
    <3>2. CASE c \in todo
      <4>1. b < c
            BY <1>1, <3>1, <3>2, TxIsNoBox DEF Boxes
      <4>2. QED
            BY <1>1, <3>2, <4>1 DEF IInv, FramesInv, Inside
    <3>3. CASE c \notin todo
          BY <1>1, <3>1, <3>3 DEF IInv, FramesInv, Inside, InTurn
    <3>4. QED
          BY <3>2, <3>3
  <2>2. \A i \in DOMAIN delivered : InTurn(delivered[i], Age(b))
        BY <1>3 DEF IInv, FramesInv, Turns
  <2>3. \A i \in DOMAIN delivered : \A c \in Boxes : Live(c)' => InTurn(delivered[i], Age(c))
        BY <1>9 DEF IInv, FramesInv, Turns
  <2>4. QED
        BY <1>2, <1>4, <1>10, <2>1, <2>2, <2>3 DEF Turns, InTurn
<1>14. Inside'
  <2>1. \A c \in Boxes \cap todo' : c # b /\ c \in todo
        BY <1>1
  <2>2. \A c \in Boxes \ todo' : Live(c)' => Live(c) /\ c \notin todo
        BY <1>1, <1>9
  <2>3. \A c, d \in Boxes \cap todo' : c < d => InTurn(Age(c), Age(d))
        BY <1>1, <2>1 DEF IInv, FramesInv, Inside
  <2>4. \A c \in Boxes \cap todo' : \A d \in Boxes \ todo' : Live(d)' => Age(c) < Age(d)
        BY <1>1, <2>1, <2>2 DEF IInv, FramesInv, Inside
  <2>5. /\ \A c, d \in Boxes \ todo' : Live(c)' /\ Live(d)' => c = d
        /\ \A c \in Boxes \ todo' : Live(c)' => Age(c) = arrived
        BY <1>1, <2>2 DEF IInv, FramesInv, Inside
  <2>6. since = 0 => \A c \in Boxes : Live(c)' => c \in todo'
        BY <1>1, <1>9 DEF IInv, FramesInv, Inside
  <2>7. QED
        BY <1>1, <1>2, <1>4, <1>10, <2>3, <2>4, <2>5, <2>6 DEF Inside, InTurn
<1>15. Outside' /\ Piled' /\ Settling'
       BY <1>4 DEF Outside, Piled, Settling
<1>16. Shown'
  <2> SUFFICES ASSUME NEW f \in 1..arrived
               PROVE  \/ f \in Held \cup {got'} \cup wiped \cup erased \/ \E w \in wiped : w > f
                      \/ \E i \in DOMAIN delivered : delivered[i] = f
                      \/ overruns' > 0
                      \/ \E c \in Boxes : mb[c].code = "OVERRUN" /\ Age(c) > f /\ c # b
      BY <1>1, <1>2 DEF Shown, Held, Age
  <2>1. f # got
        BY <1>3
  <2>2. QED
        BY <1>5, <1>6, <2>1 DEF IInv, FramesInv, Shown
<1>17. QED
       BY <1>7, <1>8, <1>11, <1>12, <1>13, <1>14, <1>15, <1>16 DEF IInv, FramesInv

LEMMA EmptyKeeps == ASSUME IInv, Empty PROVE IInv'
<1>1. /\ irq = "read" /\ irq' = "emptied"
      /\ mb' = [mb EXCEPT ![box] = [code |-> "EMPTY", frame |-> 0]]
      /\ erased' = erased \cup ({mb[box].frame} \ {got})
      /\ UNCHANGED <<dev, alive, txmb, iflag, imask, txint, task, waiting, written, todo, box, got>>
      /\ UNCHANGED <<arrived, delivered, overruns, wiped, raced, stuck, resets, since>>
      BY DEF Empty, device, enables, upper
<1>2. box \in Boxes /\ box \in iflag /\ got > 0
      BY <1>1 DEF IInv, FramesInv, Flagged, Serving
<1>3. ~Full(box)' /\ \A c \in Boxes \ {box} : mb'[c] = mb[c]
      BY <1>1, <1>2 DEF IInv, TypeOK, Full
<1>4. TypeOK'
  <2>1. mb' \in [Boxes -> [code : Codes, frame : Nat]]
        BY <1>1 DEF IInv, TypeOK, Codes
  <2>2. erased' \subseteq Nat
        BY <1>1, <1>2 DEF IInv, TypeOK
  <2>3. QED
        BY <1>1, <2>1, <2>2 DEF IInv, TypeOK
<1>5. Life' /\ Armed' /\ Going'
      BY <1>1 DEF IInv, Life, Armed, Working, Going, NoInts
<1>6. \A c \in Boxes : /\ Live(c)' <=> Live(c)
                       /\ Live(c) => c # box
                       /\ c # box => Full(c)' = Full(c) /\ Age(c)' = Age(c)
      BY <1>1, <1>3 DEF Live, Full, Age
<1>7. Flagged'
      BY <1>1, <1>2, <1>3, <1>6 DEF IInv, FramesInv, Flagged, Serving
<1>8. Ages' /\ DeliveredInOrder'
      BY <1>1, <1>3, <1>6 DEF IInv, FramesInv, Ages, DeliveredInOrder, InTurn
<1>9. Turns'
      BY <1>1, <1>6 DEF IInv, FramesInv, Turns, InTurn
<1>10. Inside'
  <2>1. \A c \in Boxes \cap todo : Live(c) /\ c # box
        BY <1>6 DEF IInv, FramesInv, Flagged
  <2>2. QED
        BY <1>1, <1>3, <1>6, <2>1 DEF IInv, FramesInv, Inside, InTurn
<1>11. Outside' /\ Piled' /\ Settling'
       BY <1>1 DEF Outside, Piled, Settling
<1>12. Shown'
  <2> SUFFICES ASSUME NEW f \in 1..arrived
               PROVE  \/ f \in Held' \cup {got} \cup wiped \cup erased' \/ \E w \in wiped : w > f
                      \/ \E i \in DOMAIN delivered : delivered[i] = f
                      \/ overruns > 0
                      \/ \E c \in Boxes : mb'[c].code = "OVERRUN" /\ Age(c)' > f /\ c # box
      BY <1>1 DEF Shown, Age
  <2>1. CASE f \in Held
    <3>1. PICK c \in Boxes : mb[c].code # "EMPTY" /\ mb[c].frame = f
          BY <2>1 DEF Held
    <3>2. CASE c = box
          BY <1>1, <3>1, <3>2
    <3>3. CASE c # box
          BY <1>3, <3>1, <3>3 DEF Held
    <3>4. QED
          BY <3>2, <3>3
  <2>2. CASE f \notin Held
    <3>1. \A c \in Boxes : c # box => mb'[c].code = mb[c].code /\ Age(c)' = Age(c)
          BY <1>3 DEF Age
    <3>2. QED
          BY <1>1, <2>2, <3>1 DEF IInv, FramesInv, Shown
  <2>3. QED
        BY <2>1, <2>2
<1>13. QED
       BY <1>4, <1>5, <1>7, <1>8, <1>9, <1>10, <1>11, <1>12 DEF IInv, FramesInv

LEMMA ClearKeeps == ASSUME IInv, Clear PROVE IInv'
<1>1. /\ irq = "emptied" /\ irq' = "in" /\ box' = 0 /\ got' = 0
      /\ iflag' = iflag \ {box}
      /\ stuck' = IF mb[box].code = "EMPTY" THEN stuck ELSE stuck \cup {box}
      /\ delivered' = IF got = 0 THEN delivered ELSE Append(delivered, got)
      /\ UNCHANGED <<dev, alive, mb, txmb, imask, txint, task, waiting, written, todo>>
      /\ UNCHANGED <<arrived, overruns, erased, wiped, raced, resets, since>>
      BY DEF Clear, device, enables, upper
<1>2. box \in Boxes /\ box # Tx /\ got \in Nat /\ delivered \in Seq(Nat)
      BY <1>1, TxIsNoBox DEF IInv, TypeOK, FramesInv, Flagged, Serving
<1>3. /\ \A i \in DOMAIN delivered : i \in DOMAIN delivered' /\ delivered'[i] = delivered[i]
      /\ \A i \in DOMAIN delivered' :
           \/ i \in DOMAIN delivered
           \/ got > 0 /\ delivered'[i] = got /\ i = Len(delivered) + 1
      /\ got > 0 => Len(delivered) + 1 \in DOMAIN delivered' /\ delivered'[Len(delivered) + 1] = got
      /\ delivered' \in Seq(Nat)
  <2>1. CASE got = 0
    <3>1. delivered' = delivered /\ ~(got > 0)
          BY <1>1, <2>1
    <3>2. QED
          BY <1>2, <3>1
  <2>2. CASE got # 0
    <3>1. delivered' = Append(delivered, got) /\ got > 0
          BY <1>1, <1>2, <2>2
    <3>2. /\ Len(delivered) \in Nat /\ DOMAIN delivered = 1..Len(delivered)
          /\ DOMAIN delivered' = 1..(Len(delivered) + 1) /\ delivered' \in Seq(Nat)
          /\ delivered'[Len(delivered) + 1] = got
          /\ \A i \in 1..Len(delivered) : delivered'[i] = delivered[i]
          BY <1>2, <3>1
    <3>3. QED
          BY <3>1, <3>2
  <2>3. QED
        BY <2>1, <2>2
<1>4. TypeOK'
  <2>1. stuck' \subseteq Boxes /\ iflag' \subseteq Flags
        BY <1>1, <1>2 DEF IInv, TypeOK
  <2>2. QED
        BY <1>1, <1>3, <2>1 DEF IInv, TypeOK, Flags
<1>5. (Tx \in iflag' <=> Tx \in iflag) /\ (Tx \in todo' <=> Tx \in todo)
      BY <1>1, <1>2
<1>6. Life'
      BY <1>1, <1>5 DEF IInv, Life, NoInts
<1>7. Armed' /\ Going'
      BY <1>1, <1>5 DEF IInv, Armed, Working, Going
<1>8. \A c \in Boxes : (Live(c)' <=> Live(c)) /\ Full(c)' = Full(c) /\ Age(c)' = Age(c)
      BY <1>1, TxIsNoBox DEF Live, Full, Age
<1>9. Flagged'
  <2>1. \A c \in Boxes : Full(c) => c \in iflag' \/ c \in stuck'
        BY <1>1 DEF IInv, FramesInv, Flagged, Full
  <2>2. QED
        BY <1>1, <1>8, <2>1 DEF IInv, FramesInv, Flagged, Serving
<1>10. Ages'
  <2>1. \A i \in DOMAIN delivered' : delivered'[i] <= arrived
        BY <1>2, <1>3 DEF IInv, FramesInv, Ages
  <2>2. QED
        BY <1>1, <1>8, <2>1 DEF IInv, FramesInv, TypeOK, Ages
<1>11. DeliveredInOrder'
  <2>1. SUFFICES ASSUME NEW i \in DOMAIN delivered', NEW j \in DOMAIN delivered', i < j
                 PROVE  InTurn(delivered'[i], delivered'[j])
        BY <1>1 DEF DeliveredInOrder, InTurn
  <2>2. i \in DOMAIN delivered
        BY <1>2, <1>3, <2>1
  <2>3. CASE j \in DOMAIN delivered
        BY <1>3, <2>1, <2>2, <2>3 DEF IInv, FramesInv, DeliveredInOrder
  <2>4. CASE got > 0 /\ delivered'[j] = got
        BY <1>3, <2>2, <2>4 DEF IInv, FramesInv, Turns
  <2>5. QED
        BY <1>3, <2>3, <2>4
<1>12. Turns'
  <2>1. ASSUME NEW i \in DOMAIN delivered', NEW c \in Boxes, Live(c)'
        PROVE  InTurn(delivered'[i], Age(c))
    <3>1. Live(c)
          BY <1>8, <2>1
    <3>2. CASE i \in DOMAIN delivered
          BY <1>3, <3>1, <3>2 DEF IInv, FramesInv, Turns
    <3>3. CASE got > 0 /\ delivered'[i] = got
          BY <3>1, <3>3 DEF IInv, FramesInv, Turns
    <3>4. QED
          BY <1>3, <3>2, <3>3
  <2>2. QED
        BY <1>1, <1>8, <2>1 DEF Turns, InTurn
<1>13. Inside'
       BY <1>1, <1>8 DEF IInv, FramesInv, Inside, InTurn
<1>14. Outside' /\ Piled' /\ Settling'
       BY <1>1 DEF Outside, Piled, Settling
<1>15. Shown'
  <2> SUFFICES ASSUME NEW f \in 1..arrived
               PROVE  \/ f \in Held \cup wiped \cup erased \/ \E w \in wiped : w > f
                      \/ \E i \in DOMAIN delivered' : delivered'[i] = f
                      \/ overruns > 0
                      \/ \E c \in Boxes : mb[c].code = "OVERRUN" /\ Age(c) > f
      BY <1>1, TxIsNoBox DEF Shown, Held, Age
  <2>1. CASE f = got
        BY <1>3, <2>1
  <2>2. CASE f # got
        BY <1>3, <2>2 DEF IInv, FramesInv, Shown
  <2>3. QED
        BY <2>1, <2>2
<1>16. QED
       BY <1>4, <1>6, <1>7, <1>9, <1>10, <1>11, <1>12, <1>13, <1>14, <1>15 DEF IInv, FramesInv

(* What is left of the invariant when a pass has come to its end.            *)
LEMMA PassDone ==
  ASSUME IInv, irq = "in", Boxes \cap todo = {}
  PROVE  \A b \in Boxes : Live(b) =>
           /\ since > 0 /\ Age(b) = arrived
           /\ \A c \in Boxes : Live(c) => b = c
BY DEF IInv, TypeOK, FramesInv, Inside

LEMMA TxDoneKeeps == ASSUME IInv, TxDone PROVE IInv'
<1>1. /\ irq = "in" /\ todo = {Tx} /\ todo' = {} /\ irq' \in {"in", "settle"}
      /\ UNCHANGED <<dev, alive, mb, box, got, task, written, since>>
      /\ UNCHANGED <<arrived, delivered, overruns, wiped, erased, raced, stuck, resets>>
      BY DEF TxDone, device, history, passed
<1>2. waiting \in Nat
      BY DEF IInv, TypeOK
<1>3. /\ TypeOK' /\ iflag' = iflag \ {Tx} /\ imask'.rx = imask.rx
      /\ \/ txmb' = "DATA" /\ imask'.tx = TRUE
         \/ /\ UNCHANGED <<txmb, imask, waiting>>
            /\ waiting = 0 \/ txmb = "DATA"
  <2>1. CASE waiting > 0 /\ TxReady
    <3>1. Send /\ waiting' = waiting - 1
          BY <2>1 DEF TxDone
    <3>2. waiting' \in Nat
          BY <1>2, <2>1, <3>1
    <3>3. TypeOK'
          BY <1>1, <3>1, <3>2, SendEffect DEF IInv, TypeOK
    <3>4. QED
          BY <3>1, <3>3, SendEffect
  <2>2. CASE ~(waiting > 0 /\ TxReady)
    <3>1. /\ iflag' = iflag \ {Tx} /\ UNCHANGED <<txmb, imask, txint, waiting>>
          /\ waiting = 0 \/ txmb = "DATA"
          BY <1>2, <2>2 DEF TxDone, TxReady, enables
    <3>2. TypeOK'
          BY <1>1, <3>1 DEF IInv, TypeOK
    <3>3. QED
          BY <3>1, <3>2
  <2>3. QED
        BY <2>1, <2>2
<1>4. Life'
      BY <1>1 DEF IInv, Life
<1>5. Armed'
      BY <1>1, <1>3 DEF IInv, Armed, Working
<1>6. Going'
      BY <1>1, <1>2, <1>3 DEF Going
<1>7. \A b \in Boxes : (Live(b)' <=> Live(b)) /\ Full(b)' = Full(b) /\ Age(b)' = Age(b)
      BY <1>1, <1>3, TxIsNoBox DEF Live, Full, Age
<1>8. Flagged'
  <2>1. \A b \in Boxes : b \in iflag' <=> b \in iflag
        BY <1>3, TxIsNoBox
  <2>2. QED
        BY <1>1, <1>7, <2>1 DEF IInv, FramesInv, Flagged, Serving
<1>9. Ages' /\ Turns' /\ DeliveredInOrder'
      BY <1>1, <1>7 DEF IInv, FramesInv, Ages, Turns, DeliveredInOrder, InTurn
<1>10. \A b \in Boxes : Live(b) =>
         since > 0 /\ Age(b) = arrived /\ \A c \in Boxes : Live(c) => b = c
       BY <1>1, TxIsNoBox, PassDone
<1>11. arrived \in Nat /\ since \in Nat /\ \A b \in Boxes : b \in Nat
       BY DEF IInv, TypeOK, Boxes
<1>12. Outside' /\ Piled' /\ Settling'
       BY <1>1, <1>7, <1>10, <1>11 DEF Outside, Piled, Settling
<1>13. Inside'
       BY <1>1, <1>7, <1>10, <1>11 DEF Inside
<1>14. Shown'
       BY <1>1 DEF IInv, FramesInv, Shown, Held, Age
<1>15. QED
       BY <1>3, <1>4, <1>5, <1>6, <1>8, <1>9, <1>12, <1>13, <1>14 DEF IInv, FramesInv

LEMMA LeaveKeeps == ASSUME IInv, Leave PROVE IInv'
<1>1. /\ irq \in {"in", "settle"} /\ irq' = "out" /\ todo = {}
      /\ UNCHANGED <<dev, alive, mb, txmb, iflag, imask, txint, todo, box, got>>
      /\ UNCHANGED <<task, waiting, written, since>>
      /\ UNCHANGED <<arrived, delivered, overruns, wiped, erased, raced, stuck, resets>>
      BY DEF IInv, Life, Leave, device, boxes, enables, upper, history, passed
<1>2. task = "idle" /\ dev = "open" /\ (alive => imask.rx)
      BY <1>1 DEF IInv, TypeOK, Life, Armed, Working
<1>3. TypeOK'
      BY <1>1 DEF IInv, TypeOK
<1>4. Life' /\ Armed' /\ Going'
      BY <1>1, <1>2 DEF IInv, Life, Armed, Working, Going
<1>5. \A b \in Boxes : (Live(b)' <=> Live(b)) /\ Full(b)' = Full(b) /\ Age(b)' = Age(b)
      BY <1>1 DEF Live, Full, Age
<1>6. Flagged'
      BY <1>1, <1>5 DEF IInv, FramesInv, Flagged, Serving
<1>7. Ages' /\ Turns' /\ DeliveredInOrder'
      BY <1>1, <1>5 DEF IInv, FramesInv, Ages, Turns, DeliveredInOrder, InTurn
<1>8. \A b \in Boxes : b \in Nat
      BY DEF Boxes
<1>9. Outside' /\ Piled'
  <2>1. CASE irq = "in"
    <3>1. \A b \in Boxes : Live(b) => since > 0 /\ \A c \in Boxes : Live(c) => b = c
          BY <1>1, <2>1, PassDone
    <3>2. QED
          BY <1>1, <1>2, <1>5, <1>8, <3>1 DEF Outside, Piled, Masked
  <2>2. CASE irq = "settle"
    <3>1. \A b \in Boxes : Live(b) => since > 0
          BY <2>2 DEF IInv, FramesInv, Settling
    <3>2. Outside'
          BY <1>1, <1>5, <2>2 DEF IInv, FramesInv, Outside, InTurn
    <3>3. Piled'
          BY <1>1, <1>2, <1>5, <3>1 DEF Piled, Masked
    <3>4. QED
          BY <3>2, <3>3
  <2>3. QED
        BY <1>1, <2>1, <2>2
<1>10. Inside' /\ Settling'
       BY <1>1 DEF Inside, Settling
<1>11. Shown'
       BY <1>1 DEF IInv, FramesInv, Shown, Held, Age
<1>12. QED
       BY <1>3, <1>4, <1>6, <1>7, <1>9, <1>10, <1>11 DEF IInv, FramesInv

-----------------------------------------------------------------------------
(* The theorems.                                                             *)

LEMMA InitInv == Init => IInv
<1> SUFFICES ASSUME Init PROVE IInv
    OBVIOUS
<1>1. TypeOK
  <2>1. delivered \in Seq(Nat) /\ resets \in 0..MaxResets
        BY FlexCanAssumption DEF Init
  <2>2. QED
        BY <2>1, ClearedType DEF Init, TypeOK, NoInts, Flags
<1>2. \A b \in Boxes : ~Full(b) /\ ~Live(b)
      BY DEF Init, Full, Live, Cleared
<1>3. Life /\ Armed /\ Going
      BY DEF Init, Life, Armed, Working, Going
<1>4. Flagged
      BY <1>2 DEF Init, Flagged, Serving
<1>5. Ages /\ Turns /\ DeliveredInOrder
      BY <1>2 DEF Init, Ages, Turns, DeliveredInOrder
<1>6. Outside /\ Piled /\ Inside /\ Settling /\ Shown
      BY <1>2 DEF Init, Outside, Piled, Inside, Settling, Shown
<1>7. QED
      BY <1>1, <1>3, <1>4, <1>5, <1>6 DEF IInv, FramesInv

LEMMA StutterKeeps == ASSUME IInv, UNCHANGED vars PROVE IInv'
<1>1. TypeOK'
      BY DEF IInv, TypeOK, vars, device, boxes, enables, handler, upper, history, passed
<1>2. Life' /\ Armed' /\ Going'
      BY DEF IInv, Life, Armed, Working, Going, NoInts,
             vars, device, boxes, enables, handler, upper
<1>3. FramesInv'
      BY SameFrames DEF IInv, Masked, vars, device, boxes, enables, handler, upper, history, passed
<1>4. QED
      BY <1>1, <1>2, <1>3 DEF IInv

(* The invariant holds: the initial state satisfies it, and every action     *)
(* keeps it.                                                                 *)
THEOREM InvariantHolds == Spec => []IInv
<1>1. IInv /\ [Next]_vars => IInv'
  <2> SUFFICES ASSUME IInv, [Next]_vars PROVE IInv'
      OBVIOUS
  <2>1. CASE Arrive \/ Complete
        BY <2>1, ArriveKeeps, CompleteKeeps
  <2>2. CASE Handler
        BY <2>2, EnterKeeps, LookKeeps, EmptyKeeps, ClearKeeps, TxDoneKeeps, LeaveKeeps DEF Handler
  <2>3. CASE Task
        BY <2>3, ResetTaskKeeps, OpenKeeps, OpenFailsKeeps, RxIntKeeps, CloseBeginKeeps,
           CloseEndKeeps, RecoverBeginKeeps, RecoverResetKeeps, RecoverEndKeeps,
           WriteBeginKeeps, WriteSendKeeps, WriteEndKeeps DEF Task
  <2>4. CASE UNCHANGED vars
        BY <2>4, StutterKeeps
  <2>5. QED
        BY <2>1, <2>2, <2>3, <2>4 DEF Next
<1>2. QED
      BY <1>1, InitInv, PTL DEF Spec

(* The driver's variables keep their types; the queue never underflows.      *)
THEOREM FlexCanTypeCorrect == Spec => []TypeOK
<1>1. IInv => TypeOK
      BY DEF IInv
<1>2. QED
      BY <1>1, InvariantHolds, PTL

(* Frames are delivered once, and in order unless they came while the        *)
(* handler waited in send, through every overrun, recovery and opening; and  *)
(* none goes without a trace but one that runs over a mailbox being emptied. *)
THEOREM FramesAlwaysAccountedFor == Spec => []FramesAccountedFor
<1>1. IInv => FramesAccountedFor
      BY DEF IInv, FramesInv, Shown, Age, LossIsVisible, FramesAccountedFor
<1>2. QED
      BY <1>1, InvariantHolds, PTL

(* While the device is open and works, the only frame that waits without an  *)
(* interrupt is one that came between the two writes that end the service of *)
(* its mailbox, and no message is forgotten.                                 *)
THEOREM NothingEverStalls == Spec => []NothingStalls
<1>1. IInv => NothingStalls
  <2> SUFFICES ASSUME IInv, dev = "open", alive, task = "idle" PROVE
        /\ \A b \in Boxes : mb[b].code # "EMPTY" => imask.rx /\ (b \in iflag \/ b \in stuck)
        /\ waiting > 0 =>
             \/ txmb = "DATA" /\ imask.tx
             \/ Tx \in iflag /\ imask.tx
             \/ irq # "out" /\ Tx \in todo
      BY DEF NothingStalls, Masked
  <2>1. imask.rx /\ (txmb = "DATA" \/ Tx \in iflag => imask.tx)
        BY DEF IInv, Armed, Working
  <2>2. todo # {} => irq # "out"
        BY DEF IInv, Life
  <2>3. QED
        BY <2>1, <2>2 DEF IInv, FramesInv, Flagged, Full, Going
<1>2. QED
      BY <1>1, InvariantHolds, PTL
=============================================================================
