------------------------------- MODULE FlexCan ------------------------------
(* The FlexCAN driver (ok8mp_flexcan.c) between the controller and the upper *)
(* half of the CAN device, which is not part of the repository and appears   *)
(* here as the driver's callers see it: it keeps messages until the driver   *)
(* takes them, hands over the next one when one is done, and writes with     *)
(* interrupts disabled.                                                      *)
(*                                                                           *)
(* Frames on the bus are numbered in the order they arrive.  A frame fills   *)
(* the first empty mailbox, or the last one if there is none.  The M7 is one *)
(* core: the interrupt handler runs to its end before any task goes on, but  *)
(* the controller works beside it, also between two writes of the handler.   *)
EXTENDS Naturals, Sequences

CONSTANTS
  RxCount,      \* FLEXCAN_RX_MB_COUNT
  MaxArrived,   \* bound: frames that arrive
  MaxWritten,   \* bound: messages the upper half is given
  MaxResets     \* bound: openings and recoveries

ASSUME FlexCanAssumption ==
  /\ RxCount \in Nat \ {0}
  /\ {MaxArrived, MaxWritten, MaxResets} \subseteq Nat

VARIABLES
  dev,       \* "closed", "opening" (until rxint), "open"
  alive,     \* the last hw_reset went through
  task,      \* "idle", or in the middle of a write ("locked", "sending"), a
             \* recovery ("masked", "restarted") or a shutdown ("closing")
  mb,        \* receive mailboxes: [code, frame]
  txmb,      \* the transmit mailbox: "INACTIVE" or "DATA"
  iflag,     \* IFLAG1: mailboxes, and "tx"
  imask,     \* IMASK1: [rx, tx]
  txint,     \* priv->txint_enabled
  irq,       \* the handler: "out", "in", in the middle of a mailbox ("read",
             \* "emptied"), or in send's wait ("settle")
  todo,      \* its copy of the flags, as far as not yet served
  box,       \* the mailbox it is in the middle of
  got,       \* the frame it has read there, 0 if there was none
  waiting,   \* messages of the upper half the driver has not taken
  written,   \* history: messages given to the upper half
  arrived,   \* history: frames that arrived
  since,     \* history: how many since the handler last looked at the flags
  delivered, \* history: frames passed to can_receive
  overruns,  \* stats.rx_overruns
  wiped,     \* history: frames in the mailboxes when these were reset
  erased,    \* history: frames that overran a mailbox between its reading and
             \* its emptying
  raced,     \* history: frames that arrived while the handler settled
  stuck,     \* history: mailboxes whose flag was cleared under a new frame
  resets     \* history: openings and recoveries

device  == <<dev, alive>>
boxes   == <<mb, txmb, iflag>>
enables == <<imask, txint>>
handler == <<irq, todo, box, got>>
upper   == <<task, waiting, written>>
passed  == <<delivered, overruns, erased>>
history == <<arrived, passed, wiped, raced, stuck, resets>>
vars    == <<device, boxes, enables, handler, upper, history, since>>

Boxes == 1..RxCount
Codes == {"EMPTY", "FULL", "OVERRUN"}
Flags == Boxes \cup {0}
Tx    == 0          \* the flag of the transmit mailbox

TypeOK ==
  /\ dev \in {"closed", "opening", "open"} /\ alive \in BOOLEAN
  /\ task \in {"idle", "locked", "sending", "masked", "restarted", "closing"}
  /\ mb \in [Boxes -> [code : Codes, frame : Nat]]
  /\ txmb \in {"INACTIVE", "DATA"}
  /\ iflag \subseteq Flags
  /\ imask \in [rx : BOOLEAN, tx : BOOLEAN] /\ txint \in BOOLEAN
  /\ irq \in {"out", "in", "read", "emptied", "settle"} /\ todo \subseteq Flags
  /\ box \in Flags /\ got \in Nat
  /\ waiting \in Nat /\ written \in Nat
  /\ arrived \in Nat /\ since \in Nat
  /\ delivered \in Seq(Nat) /\ overruns \in Nat
  /\ wiped \cup erased \cup raced \subseteq Nat /\ stuck \subseteq Boxes
  /\ resets \in 0..MaxResets

Cleared == [b \in Boxes |-> [code |-> "EMPTY", frame |-> 0]]
Held    == {mb[b].frame : b \in {c \in Boxes : mb[c].code # "EMPTY"}}
NoInts  == [rx |-> FALSE, tx |-> FALSE]

Init ==
  /\ dev = "closed" /\ alive = FALSE
  /\ task = "idle" /\ waiting = 0 /\ written = 0
  /\ mb = Cleared /\ txmb = "INACTIVE" /\ iflag = {}
  /\ imask = NoInts /\ txint = FALSE
  /\ irq = "out" /\ todo = {} /\ box = 0 /\ got = 0
  /\ arrived = 0 /\ since = 0 /\ delivered = <<>> /\ overruns = 0
  /\ wiped = {} /\ erased = {} /\ raced = {} /\ stuck = {} /\ resets = 0

-----------------------------------------------------------------------------
(* Interrupts.                                                               *)
Enabled == (IF imask.rx THEN Boxes ELSE {}) \cup (IF imask.tx THEN {Tx} ELSE {})
Pending == iflag \cap Enabled # {}
Masked  == task # "idle"

(* A task runs: the handler does not, and has nothing to do at once.         *)
TaskRuns == irq = "out" /\ (Masked \/ ~Pending)

-----------------------------------------------------------------------------
(* The controller.  A frame takes longer on the bus (94 us at 500 kbit/s, if *)
(* it is short) than the handler takes to serve the mailboxes and to start   *)
(* again: at most one arrives between two looks at the flags.  But any       *)
(* number does while interrupts are held off and while the handler waits in  *)
(* send.                                                                     *)
FirstEmpty(b) == mb[b].code = "EMPTY" /\ \A c \in Boxes : c < b => mb[c].code # "EMPTY"

Arrive ==
  /\ alive /\ arrived < MaxArrived
  /\ since = 0 \/ Masked \/ ~imask.rx \/ irq = "settle"
  /\ \E b \in Boxes :
       /\ \/ FirstEmpty(b) /\ mb' = [mb EXCEPT ![b] = [code |-> "FULL", frame |-> arrived + 1]]
          \/ /\ b = RxCount /\ \A c \in Boxes : mb[c].code # "EMPTY"
             /\ mb' = [mb EXCEPT ![b] = [code |-> "OVERRUN", frame |-> arrived + 1]]
       /\ iflag' = iflag \cup {b}
       /\ stuck' = stuck \ {b}
  /\ arrived' = arrived + 1 /\ since' = since + 1
  /\ raced' = IF irq = "settle" THEN raced \cup {arrived + 1} ELSE raced
  /\ UNCHANGED <<device, txmb, enables, handler, upper, passed, wiped, resets>>

(* Somebody acknowledged the frame in the transmit mailbox.                  *)
Complete ==
  /\ alive /\ txmb = "DATA"
  /\ txmb' = "INACTIVE"
  /\ iflag' = iflag \cup {Tx}
  /\ UNCHANGED <<device, mb, enables, handler, upper, history, since>>

-----------------------------------------------------------------------------
(* ok8mp_flexcan_hw_reset, when nothing times out.                           *)
HwReset ==
  /\ mb' = Cleared /\ txmb' = "INACTIVE" /\ iflag' = {}
  /\ wiped' = wiped \cup Held /\ stuck' = {}

(* It may time out before the mailboxes are reset or after.                  *)
HwResetFails ==
  \/ HwReset
  \/ txmb' = "INACTIVE" /\ iflag' = iflag \ {Tx} /\ UNCHANGED <<mb, wiped, stuck>>

(* reset, which the upper half calls before the device is opened.            *)
Reset ==
  /\ dev = "closed" /\ resets < MaxResets
  /\ \/ HwReset      /\ alive' = TRUE
     \/ HwResetFails /\ alive' = FALSE
  /\ imask' = NoInts
  /\ resets' = resets + 1
  /\ UNCHANGED <<dev, txint, handler, upper, arrived, passed, raced, since>>

(* setup: interrupts stay masked until the upper half calls rxint.           *)
Open ==
  /\ dev = "closed" /\ resets < MaxResets
  /\ HwReset
  /\ dev' = "opening" /\ alive' = TRUE
  /\ imask' = NoInts
  /\ waiting' = 0 /\ since' = 0
  /\ resets' = resets + 1
  /\ UNCHANGED <<txint, handler, task, written, arrived, passed, raced>>

OpenFails ==
  /\ dev = "closed" /\ resets < MaxResets
  /\ HwResetFails
  /\ alive' = FALSE
  /\ resets' = resets + 1
  /\ UNCHANGED <<dev, enables, handler, upper, arrived, passed, raced, since>>

RxInt ==
  /\ dev = "opening" /\ TaskRuns
  /\ imask' = [imask EXCEPT !.rx = TRUE]
  /\ dev' = "open"
  /\ UNCHANGED <<alive, boxes, txint, handler, upper, history, since>>

(* shutdown masks the interrupts and disables the module.                    *)
CloseBegin ==
  /\ dev = "open" /\ task = "idle" /\ TaskRuns
  /\ task' = "closing"
  /\ imask' = NoInts
  /\ UNCHANGED <<device, boxes, txint, handler, waiting, written, history, since>>

CloseEnd ==
  /\ task = "closing"
  /\ task' = "idle"
  /\ dev' = "closed" /\ alive' = FALSE
  /\ txint' = FALSE
  /\ UNCHANGED <<boxes, imask, handler, waiting, written, history, since>>

(* Mutant of RecoverBegin: the caller has not flushed the queue.             *)
RecoverUnflushed ==
  /\ dev = "open" /\ task = "idle" /\ TaskRuns /\ resets < MaxResets
  /\ task' = "masked"
  /\ imask' = NoInts
  /\ txmb' = "INACTIVE" /\ iflag' = iflag \ {Tx}
  /\ resets' = resets + 1
  /\ UNCHANGED <<device, mb, txint, handler, waiting, written,
                 arrived, passed, wiped, raced, stuck, since>>

(* OFLUSH and the recovery by the service.  Frames may still arrive until    *)
(* the controller is reset, and again before the interrupts are enabled.     *)
RecoverBegin ==
  /\ dev = "open" /\ task = "idle" /\ TaskRuns /\ resets < MaxResets
  /\ task' = "masked"
  /\ waiting' = 0
  /\ imask' = NoInts
  /\ txmb' = "INACTIVE" /\ iflag' = iflag \ {Tx}
  /\ resets' = resets + 1
  /\ UNCHANGED <<device, mb, txint, handler, written,
                 arrived, passed, wiped, raced, stuck, since>>

RecoverReset ==
  /\ task = "masked"
  /\ \/ HwReset      /\ alive' = TRUE  /\ task' = "restarted"
     \/ HwResetFails /\ alive' = FALSE /\ task' = "idle"
  /\ since' = 0
  /\ UNCHANGED <<dev, enables, handler, waiting, written, arrived, passed, raced, resets>>

(* The receive interrupts are enabled whatever they were before.             *)
RecoverEnd ==
  /\ task = "restarted"
  /\ task' = "idle"
  /\ imask' = [rx |-> TRUE, tx |-> txint]
  /\ UNCHANGED <<device, boxes, txint, handler, waiting, written, history, since>>

-----------------------------------------------------------------------------
(* Transmission.                                                             *)
TxReady == txmb # "DATA"

(* send: whatever completion the flag announced is forgotten.  The upper     *)
(* half calls it for the next message when the mailbox is free, and enables  *)
(* the transmit interrupt.                                                   *)
Send ==
  /\ txmb' = "DATA"
  /\ iflag' = iflag \ {Tx}
  /\ imask' = [imask EXCEPT !.tx = TRUE] /\ txint' = TRUE

(* can_write: interrupts off, the message is queued, and if the hardware is  *)
(* idle the transmission is started; send then waits for 1 ms.               *)
WriteBegin ==
  /\ dev = "open" /\ task = "idle" /\ TaskRuns /\ written < MaxWritten
  /\ task' = "locked"
  /\ waiting' = waiting + 1 /\ written' = written + 1
  /\ UNCHANGED <<device, boxes, enables, handler, history, since>>

WriteSend ==
  /\ task = "locked"
  /\ task' = "sending"
  /\ IF TxReady
       THEN Send /\ waiting' = waiting - 1
       ELSE UNCHANGED <<txmb, iflag, enables, waiting>>
  /\ UNCHANGED <<device, mb, handler, written, history, since>>

WriteEnd ==
  /\ task = "sending"
  /\ task' = "idle"
  /\ UNCHANGED <<device, boxes, enables, handler, waiting, written, history, since>>

-----------------------------------------------------------------------------
(* ok8mp_flexcan_interrupt.                                                  *)
Enter ==
  /\ irq = "out" /\ ~Masked /\ Pending
  /\ irq' = "in" /\ todo' = iflag
  /\ since' = 0
  /\ UNCHANGED <<device, boxes, enables, box, got, upper, history>>

(* Mutant of Turn: from the highest mailbox down.                           *)
HighestFirst(b) == b \in todo \ {Tx} /\ \A c \in todo \ {Tx} : c <= b

(* The mailbox whose turn it is.                                             *)
Turn(b) == b \in todo \ {Tx} /\ \A c \in todo \ {Tx} : b <= c

(* The statistics count mailboxes found overwritten, not frames lost.        *)
Overrun(b) == overruns' = IF mb[b].code = "OVERRUN" THEN overruns + 1 ELSE overruns

(* receive, for the mailboxes in the order of their index: the code and the  *)
(* frame are read, if there is one,                                          *)
Look ==
  \E b \in Boxes :
    /\ irq = "in" /\ Turn(b)
    /\ todo' = todo \ {b}
    /\ box' = b
    /\ IF mb[b].code = "EMPTY"
         THEN irq' = "emptied" /\ got' = 0 /\ UNCHANGED overruns
         ELSE irq' = "read" /\ got' = mb[b].frame /\ Overrun(b)
    /\ UNCHANGED <<device, boxes, enables, upper,
                   arrived, delivered, erased, wiped, raced, stuck, resets, since>>

(* it is made empty, whatever has come into it meanwhile,                    *)
Empty ==
  /\ irq = "read"
  /\ irq' = "emptied"
  /\ mb' = [mb EXCEPT ![box] = [code |-> "EMPTY", frame |-> 0]]
  /\ erased' = erased \cup ({mb[box].frame} \ {got})
  /\ UNCHANGED <<device, txmb, iflag, enables, todo, box, got, upper,
                 arrived, delivered, overruns, wiped, raced, stuck, resets, since>>

(* and its flag is cleared, whatever has come by then.  The frame that was   *)
(* read goes to can_receive.                                                 *)
Clear ==
  /\ irq = "emptied"
  /\ irq' = "in" /\ box' = 0 /\ got' = 0
  /\ iflag' = iflag \ {box}
  /\ stuck' = IF mb[box].code = "EMPTY" THEN stuck ELSE stuck \cup {box}
  /\ delivered' = IF got = 0 THEN delivered ELSE Append(delivered, got)
  /\ UNCHANGED <<device, mb, txmb, enables, todo, upper,
                 arrived, overruns, erased, wiped, raced, resets, since>>

(* Mutant of TxDone: it is not asked whether anything waits.                 *)
TxDoneSends ==
  /\ irq = "in" /\ todo = {Tx}
  /\ todo' = {}
  /\ IF TxReady
       THEN Send /\ waiting' = waiting - 1 /\ irq' = "settle"
       ELSE iflag' = iflag \ {Tx} /\ UNCHANGED <<txmb, enables, waiting, irq>>
  /\ UNCHANGED <<device, mb, box, got, task, written, history, since>>

(* Then the transmit mailbox: can_txdone sends the next message, and send    *)
(* waits for 1 ms, in the handler.                                           *)
TxDone ==
  /\ irq = "in" /\ todo = {Tx}
  /\ todo' = {}
  /\ IF waiting > 0 /\ TxReady
       THEN Send /\ waiting' = waiting - 1 /\ irq' = "settle"
       ELSE iflag' = iflag \ {Tx} /\ UNCHANGED <<txmb, enables, waiting, irq>>
  /\ UNCHANGED <<device, mb, box, got, task, written, history, since>>

Leave ==
  /\ (irq = "in" /\ todo = {}) \/ irq = "settle"
  /\ irq' = "out"
  /\ UNCHANGED <<device, boxes, enables, todo, box, got, upper, history, since>>

Handler == Enter \/ Look \/ Empty \/ Clear \/ TxDone \/ Leave
Task    == Reset \/ Open \/ OpenFails \/ RxInt \/ CloseBegin \/ CloseEnd
             \/ RecoverBegin \/ RecoverReset \/ RecoverEnd
             \/ WriteBegin \/ WriteSend \/ WriteEnd

Next == Arrive \/ Complete \/ Task \/ Handler

Spec == Init /\ [][Next]_vars

-----------------------------------------------------------------------------
(* A frame may be passed on before another if it is older, or if it and all  *)
(* others that came after that one came while the handler settled: those     *)
(* fill mailboxes below the one that was waiting.                            *)
InTurn(f, g) == f < g \/ (g < f /\ (g + 1)..f \subseteq raced)

(* The mailboxes are read in the order of their index, whatever order they   *)
(* were filled in; yet every frame is delivered at most once and none after  *)
(* a later one that did not come in such a wait, across overruns, recoveries *)
(* and new openings.                                                         *)
DeliveredInOrder ==
  \A i, j \in DOMAIN delivered : i < j => InTurn(delivered[i], delivered[j])

(* No frame disappears without a trace: it was delivered or is about to be,  *)
(* is in a mailbox, was there when the controller was reset, or gave way to  *)
(* one that was, or an overrun has been counted or is about to be.  The      *)
(* exception is one that found all mailboxes full and came into the last one *)
(* after the handler had read that and before it made it empty.              *)
LossIsVisible ==
  \A f \in 1..arrived :
    \/ f \in Held \cup {got} \cup wiped \cup erased \/ \E w \in wiped : w > f
    \/ \E i \in DOMAIN delivered : delivered[i] = f
    \/ overruns > 0 \/ \E b \in Boxes : mb[b].code = "OVERRUN" /\ mb[b].frame > f

(* Every frame is accounted for: passed on in its turn or visibly gone.      *)
FramesAccountedFor == DeliveredInOrder /\ LossIsVisible

(* While the device is open and works, what waits is going to be served: a   *)
(* frame in a mailbox raises an interrupt, unless it came between the two    *)
(* writes with which the handler empties the mailbox and clears its flag;    *)
(* and a message that waits in the upper half is behind one that is on its   *)
(* way or whose completion raises an interrupt, although send erases         *)
(* completions that were not served yet.                                     *)
NothingStalls ==
  dev = "open" /\ alive /\ ~Masked =>
    /\ \A b \in Boxes : mb[b].code # "EMPTY" => imask.rx /\ (b \in iflag \/ b \in stuck)
    /\ waiting > 0 =>
         \/ txmb = "DATA" /\ imask.tx
         \/ Tx \in iflag /\ imask.tx
         \/ irq # "out" /\ Tx \in todo
=============================================================================
