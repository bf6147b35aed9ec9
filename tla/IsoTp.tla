-------------------------------- MODULE IsoTp -------------------------------
(* One request/response exchange after another over ISO-TP: the client       *)
(* ok8mp_can_isotp_request (ok8mp_can_isotp.c), the simulated ECU            *)
(* (esp32_can_ecu/src/main.cpp) and the frames between them.                 *)
(*                                                                           *)
(* g_isotp_lock admits one request at a time, so the callers are one client. *)
(* A payload of l Consecutive Frames besides its first has length l; its     *)
(* pieces are [n, k]: piece k of the request, or of the answer to request n. *)
(* Time is left out: a timeout may strike wherever the code looks at the     *)
(* clock.  The repository's ECU asks for neither WAIT, a block size nor more *)
(* than fits, so these answers of Flow Control do not occur.                 *)
EXTENDS Naturals, Sequences, SequencesExt

CONSTANTS
  Lengths,   \* payload lengths of requests and answers
  Modulus,   \* sequence numbers, 16
  Depth,     \* CAN_SERVICE_QUEUE_DEPTH
  MaxCalls   \* bound: requests in one behaviour

(* OK8MP_CAN_ISOTP_MAX_PAYLOAD and kIsoTpMaxPayload: one length is greatest. *)
ASSUME IsoTpAssumption ==
  /\ Lengths \subseteq Nat
  /\ \E l \in Lengths : \A m \in Lengths : m <= l
  /\ Modulus \in Nat \ {0}
  /\ Depth \in Nat \ {0}
  /\ MaxCalls \in Nat

VARIABLES
  n,      \* the number of the current or last call
  cpc,    \* where the client is
  out,    \* the payload it sends: [len, sent]
  parts,  \* the answer it assembles: [total, got], got a sequence of pieces
  ret,    \* what the last call returned: "OK" with .got, or "error"
  ring,   \* the queue of its subscription
  up,     \* frames on their way to the ECU
  down,   \* frames on their way to the client
  epc,    \* where the ECU is
  rx,     \* g_isotp_rx: [active, total, got]
  resp,   \* the answer the ECU sends: [n, len, sent]
  served, \* history: the requests process_isotp_request was called with
  fresh,  \* history: nothing of earlier calls was left when this one began
  clean,  \* history: fresh, and nothing lost or given up since
  lost    \* history: the directions in which a First Frame was lost

client == <<n, cpc, out, parts, ret, ring>>
ecu    == <<epc, rx, resp, served>>
vars   == <<client, up, down, ecu, fresh, clean, lost>>

MaxLength == CHOOSE l \in Lengths : \A m \in Lengths : m <= l
Piece == [n : 1..MaxCalls, k : 0..MaxLength]
Frame == [type : {"SF", "FF", "CF", "FC"}, n : 1..MaxCalls, k : 0..MaxLength,
          len : Lengths \cup {0}]

TypeOK ==
  /\ n \in 0..MaxCalls
  /\ cpc \in {"idle", "first", "flow", "block", "answer", "cts", "collect"}
  /\ out.len \in Lengths \cup {0} /\ out.sent \in 0..out.len
  /\ Len(parts.got) <= parts.total + 1
  /\ \A i \in DOMAIN parts.got : parts.got[i] \in Piece
  /\ ret.code \in {"none", "OK", "error"}
  /\ \A q \in {ring, up, down} : \A i \in DOMAIN q : q[i] \in Frame
  /\ epc \in {"loop", "flow", "block"}
  /\ rx.active \in BOOLEAN /\ Len(rx.got) <= rx.total + 1
  /\ \A i \in DOMAIN rx.got : rx.got[i] \in Piece
  /\ resp.len \in Lengths \cup {0} /\ resp.sent \in 0..resp.len

Nothing == [total |-> 0, got |-> <<>>]

Init ==
  /\ n = 0 /\ cpc = "idle" /\ ring = <<>>
  /\ out = [len |-> 0, sent |-> 0]
  /\ parts = Nothing
  /\ ret = [code |-> "none", got |-> <<>>]
  /\ up = <<>> /\ down = <<>>
  /\ epc = "loop"
  /\ rx = [active |-> FALSE, total |-> 0, got |-> <<>>]
  /\ resp = [n |-> 0, len |-> 0, sent |-> 0]
  /\ served = <<>>
  /\ fresh = TRUE /\ clean = TRUE /\ lost = {}

-----------------------------------------------------------------------------
(* The frames of payload m, and what a receiver reads in them.               *)
First(m, l) == [type |-> IF l = 0 THEN "SF" ELSE "FF", n |-> m, k |-> 0, len |-> l]
Consecutive(m, k) == [type |-> "CF", n |-> m, k |-> k, len |-> 0]
FlowControl(m) == [type |-> "FC", n |-> m, k |-> 0, len |-> 0]

Data(frame) == [n |-> frame.n, k |-> frame.k]
Sequence(frame) == frame.k % Modulus
Begin(frame) == [total |-> frame.len, got |-> <<Data(frame)>>]

(* The next Consecutive Frame of an assembly: its type and its sequence      *)
(* number are as expected.                                                   *)
Expected(a, frame) == frame.type = "CF" /\ Sequence(frame) = Len(a.got) % Modulus

-----------------------------------------------------------------------------
(* The client.                                                               *)
Quiet == up = <<>> /\ down = <<>> /\ epc = "loop"

(* Lock, subscribe with an empty ring, start the clock.                      *)
Call ==
  /\ cpc = "idle" /\ n < MaxCalls
  /\ n' = n + 1
  /\ cpc' = "first"
  /\ \E l \in Lengths : out' = [len |-> l, sent |-> 0]
  /\ parts' = Nothing
  /\ ret' = [code |-> "none", got |-> <<>>]
  /\ fresh' = Quiet /\ clean' = Quiet
  /\ UNCHANGED <<ring, up, down, ecu, lost>>

(* Mutant of Finish: the subscription is kept.                               *)
KeepSubscription(code) ==
  /\ cpc' = "idle"
  /\ ret' = [code |-> code, got |-> parts'.got]
  /\ UNCHANGED ring

(* Unsubscribe, unlock and return.                                           *)
Finish(code) ==
  /\ cpc' = "idle"
  /\ ret' = [code |-> code, got |-> parts'.got]
  /\ ring' = <<>>

(* The time is up, or a frame was not accepted by the service, or a frame    *)
(* that cannot be used arrived.                                              *)
GiveUp ==
  /\ cpc # "idle"
  /\ UNCHANGED parts
  /\ Finish("error")
  /\ clean' = FALSE
  /\ UNCHANGED <<n, out, up, down, ecu, fresh, lost>>

SendFirst ==
  /\ cpc = "first"
  /\ up' = Append(up, First(n, out.len))
  /\ cpc' = IF out.len = 0 THEN "answer" ELSE "flow"
  /\ UNCHANGED <<n, out, parts, ret, ring, down, ecu, fresh, clean, lost>>

(* isotp_wait_flow_control: anything else is skipped.                        *)
AwaitFlow ==
  /\ cpc = "flow" /\ ring # <<>>
  /\ cpc' = IF Head(ring).type = "FC" THEN "block" ELSE "flow"
  /\ ring' = Tail(ring)
  /\ UNCHANGED <<n, out, parts, ret, up, down, ecu, fresh, clean, lost>>

(* Mutant of SendBlock: one Consecutive Frame too many.                      *)
SendOneMore ==
  /\ cpc = "block"
  /\ up' = Append(up, Consecutive(n, out.sent + 1))
  /\ out' = [out EXCEPT !.sent = @ + 1]
  /\ cpc' = IF out.sent = out.len THEN "answer" ELSE "block"
  /\ UNCHANGED <<n, parts, ret, ring, down, ecu, fresh, clean, lost>>

SendBlock ==
  /\ cpc = "block"
  /\ up' = Append(up, Consecutive(n, out.sent + 1))
  /\ out' = [out EXCEPT !.sent = @ + 1]
  /\ cpc' = IF out.sent + 1 = out.len THEN "answer" ELSE "block"
  /\ UNCHANGED <<n, parts, ret, ring, down, ecu, fresh, clean, lost>>

(* isotp_receive_payload up to its Flow Control.                             *)
BeginAnswer ==
  /\ cpc = "answer" /\ ring # <<>>
  /\ Head(ring).type \in {"SF", "FF"}
  /\ parts' = Begin(Head(ring))
  /\ \/ Head(ring).type = "SF" /\ Finish("OK")
     \/ Head(ring).type = "FF" /\ cpc' = "cts" /\ ring' = Tail(ring) /\ UNCHANGED ret
  /\ UNCHANGED <<n, out, up, down, ecu, fresh, clean, lost>>

(* Mutant of SendFlow: the Flow Control is forgotten.                        *)
ForgetFlow ==
  /\ cpc = "cts"
  /\ cpc' = "collect"
  /\ UNCHANGED <<n, out, parts, ret, ring, up, down, ecu, fresh, clean, lost>>

SendFlow ==
  /\ cpc = "cts"
  /\ up' = Append(up, FlowControl(Head(parts.got).n))
  /\ cpc' = "collect"
  /\ UNCHANGED <<n, out, parts, ret, ring, down, ecu, fresh, clean, lost>>

Collect ==
  /\ cpc = "collect" /\ ring # <<>>
  /\ Expected(parts, Head(ring))
  /\ parts' = [parts EXCEPT !.got = Append(@, Data(Head(ring)))]
  /\ IF Len(parts'.got) = parts.total + 1
       THEN Finish("OK")
       ELSE ring' = Tail(ring) /\ UNCHANGED <<cpc, ret>>
  /\ UNCHANGED <<n, out, up, down, ecu, fresh, clean, lost>>

(* A frame of the wrong type or number ends the request.                     *)
Refuse ==
  /\ ring # <<>>
  /\ \/ cpc = "answer" /\ Head(ring).type \notin {"SF", "FF"}
     \/ cpc = "collect" /\ ~Expected(parts, Head(ring))
  /\ UNCHANGED parts
  /\ Finish("error")
  /\ UNCHANGED <<n, out, up, down, ecu, fresh, clean, lost>>

Client ==
  \/ Call \/ GiveUp \/ SendFirst \/ AwaitFlow \/ SendBlock
  \/ BeginAnswer \/ SendFlow \/ Collect \/ Refuse

-----------------------------------------------------------------------------
(* The frames in between.  The service puts a frame on the ring of the       *)
(* subscription while there is one; a full ring loses its oldest frame.      *)
LostFirst(dir, frame) == IF frame.type = "FF" THEN {dir} ELSE {}

Deliver ==
  /\ down # <<>>
  /\ down' = Tail(down)
  /\ IF cpc = "idle"
       THEN UNCHANGED <<ring, clean, lost>>
       ELSE IF Len(ring) < Depth
       THEN ring' = Append(ring, Head(down)) /\ UNCHANGED <<clean, lost>>
       ELSE /\ ring' = Append(Tail(ring), Head(down))
            /\ clean' = FALSE
            /\ lost' = lost \cup LostFirst("down", Head(ring))
  /\ UNCHANGED <<n, cpc, out, parts, ret, up, ecu, fresh>>

(* A full queue of the ECU, a mailbox overrun and the flush of the transmit  *)
(* queue in a recovery lose frames as well.                                  *)
Lose ==
  /\ \/ \E i \in DOMAIN up :
          /\ up' = RemoveAt(up, i)
          /\ lost' = lost \cup LostFirst("up", up[i])
          /\ UNCHANGED down
     \/ \E i \in DOMAIN down :
          /\ down' = RemoveAt(down, i)
          /\ lost' = lost \cup LostFirst("down", down[i])
          /\ UNCHANGED up
  /\ clean' = FALSE
  /\ UNCHANGED <<client, ecu, fresh>>

-----------------------------------------------------------------------------
(* The ECU: one thread.  process_isotp_request answers with a payload of     *)
(* some length, or with none if the transmit queue is full.                  *)
Answer(m) ==
  \/ \E l \in Lengths :
       /\ down' = Append(down, First(m, l))
       /\ resp' = [n |-> m, len |-> l, sent |-> 0]
       /\ epc' = IF l = 0 THEN "loop" ELSE "flow"
       /\ UNCHANGED clean
  \/ /\ clean' = FALSE
     /\ UNCHANGED <<down, resp, epc>>

Serve(got) == served' = Append(served, got) /\ Answer(got[1].n)

TakeSingle ==
  /\ epc = "loop" /\ up # <<>>
  /\ Head(up).type = "SF"
  /\ up' = Tail(up)
  /\ Serve(<<Data(Head(up))>>)
  /\ UNCHANGED <<client, rx, fresh, lost>>

(* Mutant of TakeFirst: a reception that is still open is continued.         *)
ContinueOpenReception ==
  /\ epc = "loop" /\ up # <<>>
  /\ Head(up).type = "FF"
  /\ up' = Tail(up)
  /\ rx' = IF rx.active THEN rx
           ELSE [active |-> TRUE, total |-> Head(up).len, got |-> <<Data(Head(up))>>]
  /\ \/ down' = Append(down, FlowControl(Head(up).n)) /\ UNCHANGED clean
     \/ clean' = FALSE /\ UNCHANGED down
  /\ UNCHANGED <<client, epc, resp, served, fresh, lost>>

TakeFirst ==
  /\ epc = "loop" /\ up # <<>>
  /\ Head(up).type = "FF"
  /\ up' = Tail(up)
  /\ rx' = [active |-> TRUE, total |-> Head(up).len, got |-> <<Data(Head(up))>>]
  /\ \/ down' = Append(down, FlowControl(Head(up).n)) /\ UNCHANGED clean
     \/ clean' = FALSE /\ UNCHANGED down
  /\ UNCHANGED <<client, epc, resp, served, fresh, lost>>

TakeConsecutive ==
  /\ epc = "loop" /\ up # <<>>
  /\ Head(up).type = "CF" /\ rx.active /\ Expected(rx, Head(up))
  /\ up' = Tail(up)
  /\ LET got == Append(rx.got, Data(Head(up))) IN
       IF Len(got) = rx.total + 1
         THEN rx' = [rx EXCEPT !.got = got, !.active = FALSE] /\ Serve(got)
         ELSE /\ rx' = [rx EXCEPT !.got = got]
              /\ UNCHANGED <<down, epc, resp, served, clean>>
  /\ UNCHANGED <<client, fresh, lost>>

(* A sequence error ends the reception; Flow Control and Consecutive Frames  *)
(* that belong to nothing are ignored.                                       *)
TakeOther ==
  /\ epc = "loop" /\ up # <<>>
  /\ \/ Head(up).type = "CF" /\ (rx.active => ~Expected(rx, Head(up)))
     \/ Head(up).type = "FC"
  /\ up' = Tail(up)
  /\ rx' = [rx EXCEPT !.active = @ /\ Head(up).type = "FC"]
  /\ UNCHANGED <<client, down, epc, resp, served, fresh, clean, lost>>

(* isotp_wait_flow_control of the ECU: other frames are taken and dropped.   *)
EcuAwaitFlow ==
  /\ epc = "flow" /\ up # <<>>
  /\ up' = Tail(up)
  /\ epc' = IF Head(up).type = "FC" THEN "block" ELSE "flow"
  /\ lost' = lost \cup LostFirst("up", Head(up))
  /\ UNCHANGED <<client, down, rx, resp, served, fresh, clean>>

EcuSendBlock ==
  /\ epc = "block"
  /\ down' = Append(down, Consecutive(resp.n, resp.sent + 1))
  /\ resp' = [resp EXCEPT !.sent = @ + 1]
  /\ epc' = IF resp.sent + 1 = resp.len THEN "loop" ELSE "block"
  /\ UNCHANGED <<client, up, rx, served, fresh, clean, lost>>

(* One second without Flow Control, or a full transmit queue.                *)
EcuGiveUp ==
  /\ epc # "loop"
  /\ epc' = "loop"
  /\ clean' = FALSE
  /\ UNCHANGED <<client, up, down, rx, resp, served, fresh, lost>>

Ecu ==
  \/ TakeSingle \/ TakeFirst \/ TakeConsecutive \/ TakeOther
  \/ EcuAwaitFlow \/ EcuSendBlock \/ EcuGiveUp

Next == Client \/ Deliver \/ Lose \/ Ecu

Spec == Init /\ [][Next]_vars

-----------------------------------------------------------------------------
(* A payload is whole: the pieces of one message, all of them, in order.     *)
Whole(got) == \A i \in DOMAIN got : got[i] = [n |-> got[1].n, k |-> i - 1]

(* The ECU acts only on requests that one call sent in one piece, although   *)
(* reception contexts stay open when a call gives up, frames of several      *)
(* calls follow each other and frames are lost: a First Frame begins every   *)
(* reception anew, and a message that lost other frames stays too short.     *)
RequestWhole ==
  "up" \notin lost => \A i \in DOMAIN served : Whole(served[i])

(* No request is acted upon twice, and none after a later one: with the same *)
(* exception, since a reception left open by an earlier call is completed by *)
(* the Consecutive Frames of a later one whose First Frame was lost.         *)
ServedInOrder ==
  "up" \notin lost =>
    \A i, j \in DOMAIN served : i < j => served[i][1].n < served[j][1].n

(* A call that returns OK returns one whole answer, whatever was left from   *)
(* earlier calls, unless a First Frame of an answer was lost.                *)
AnswerWhole ==
  ret.code = "OK" /\ "down" \notin lost => Whole(ret.got)

(* No payload is put together from two messages, in either direction, and no *)
(* request is served twice or out of turn.                                   *)
NothingMixed == RequestWhole /\ ServedInOrder /\ AnswerWhole

(* The answer is the one to this call if the call began with nothing left of *)
(* the earlier ones.  (Otherwise a late answer to an earlier call is taken   *)
(* for the answer: requests carry no identification.)                        *)
AnswerIsMine == ret.code = "OK" /\ fresh => ret.got[1].n = n

(* While nothing is lost and nobody's time is up, a call ends with OK and,   *)
(* until it does, somebody can go on: neither side refuses a frame of the    *)
(* other, and the two never wait for each other with no frame under way.     *)
UndisturbedCallsSucceed ==
  clean =>
    /\ ret.code # "error"
    /\ cpc = "idle" \/ cpc \in {"first", "block", "cts"} \/ epc = "block"
         \/ ring # <<>> \/ up # <<>> \/ down # <<>>
=============================================================================
