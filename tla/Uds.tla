--------------------------------- MODULE Uds --------------------------------
(* The diagnostic client (ok8mp_can_diag.c) as the agent's tools and the     *)
(* shell use it side by side, and the simulated ECU's trouble codes, session *)
(* and services (esp32_can_ecu/src/main.cpp).                                *)
(*                                                                           *)
(* IsoTp models how one request and one answer travel; here they travel      *)
(* whole, in order, or are lost.  A request has a number that is not part of *)
(* it: client and ECU cannot see which request an answer belongs to.  Both   *)
(* sides build their messages from the same constants, so of the lengths and *)
(* echoed bytes only the service and its argument remain.                    *)
EXTENDS Naturals, Sequences

CONSTANTS
  Clients,    \* the tasks that call the diagnostic functions
  Faults,     \* the faults the ECU simulates, each with its trouble code
  Reads,      \* the reading services: subset of {"22", "19", "01", "03"}
  Clears,     \* the clearing services: subset of {"14", "04"}
  None,       \* nobody
  MaxCalls,   \* bound: calls in one behaviour
  MaxEvents   \* bound: console commands, restarts and lost messages

ASSUME UdsAssumption ==
  /\ Reads \subseteq {"22", "19", "01", "03"}
  /\ Clears \subseteq {"14", "04"}
  /\ None \notin Clients
  /\ "normal" \notin Faults
  /\ {MaxCalls, MaxEvents} \subseteq Nat

States   == Faults \cup {"normal"}
Sessions == {"default", "extended"}
NoArg    == "none"

VARIABLES
  lock,      \* the holder of g_isotp_lock
  pc,        \* where each client is: "idle", "ready", "waiting"
  call,      \* what it calls, or last called: [svc, arg]
  asked,     \* its current request: [id, svc, arg]
  ret,       \* what its last call returned: [code, got]
  up,        \* requests on their way
  down,      \* answers on their way
  session,   \* g_uds_session
  state,     \* g_ecu_state
  sensor,    \* g_coolant_c and g_battery_mv, named by the state they belong to
  active,    \* the codes with kDtcTestFailed
  stored,    \* the codes with a status other than zero
  done,      \* history: for each client, what the ECU did during its call
  saw,       \* history: for each client, the ECU's data during its call
  late,      \* history: its call took an answer to another request
  timeouts,  \* history: somebody stopped waiting
  asks,      \* history: requests made
  calls,     \* history: calls begun
  events     \* history: console commands, restarts and losses

client  == <<lock, pc, call, asked, ret>>
wire    == <<up, down>>
ecu     == <<session, state, sensor, active, stored>>
seen    == <<done, saw>>
vars    == <<client, wire, ecu, seen, late, timeouts, asks, calls, events>>

Snapshot == [state |-> state, sensor |-> sensor, active |-> active, stored |-> stored]

(* What the reading services report of the ECU's data: 22 counts the codes,  *)
(* of which nothing or something is kept, 19 lists them, 01 tells what the   *)
(* sensors say, 03 lists what is stored.                                     *)
StatusOf(s) == [state |-> s.state, sensor |-> s.sensor,
                active |-> s.active # {}, stored |-> s.stored]
CodesOf(s)  == [active |-> s.active, stored |-> s.stored]
SensorOf(s) == [sensor |-> s.sensor]
StoredOf(s) == [stored |-> s.stored]

View(svc, s) ==
  CASE svc = "22" -> StatusOf(s)
    [] svc = "19" -> CodesOf(s)
    [] svc = "01" -> SensorOf(s)
    [] svc = "03" -> StoredOf(s)

(* The calls: set_state, session, the clears and the reads.                  *)
Calls ==
  [svc : {"2e"}, arg : States] \cup [svc : {"10"}, arg : Sessions]
    \cup [svc : Reads \cup Clears, arg : {NoArg}]

TypeOK ==
  /\ lock \in Clients \cup {None}
  /\ pc \in [Clients -> {"idle", "ready", "waiting"}]
  /\ \A c \in Clients : call[c] \in Calls /\ [svc |-> asked[c].svc, arg |-> asked[c].arg] \in Calls
  /\ \A c \in Clients : (pc[c] = "waiting") <=> (lock = c)
  /\ \A c \in Clients : ret[c].code \in {"none", "OK", "EPROTO", "ETIMEDOUT"}
  /\ session \in Sessions /\ state \in States /\ sensor \in States
  /\ active \subseteq Faults /\ stored \subseteq Faults
  /\ late \in [Clients -> BOOLEAN] /\ timeouts \in BOOLEAN
  /\ calls \in 0..MaxCalls /\ asks \in 0..2 * MaxCalls /\ events \in 0..MaxEvents

Init ==
  /\ lock = None /\ pc = [c \in Clients |-> "idle"]
  /\ call = [c \in Clients |-> [svc |-> "10", arg |-> "default"]]
  /\ asked = [c \in Clients |-> [id |-> 0, svc |-> "10", arg |-> "default"]]
  /\ ret = [c \in Clients |-> [code |-> "none", got |-> NoArg]]
  /\ up = <<>> /\ down = <<>>
  /\ session = "default" /\ state = "normal" /\ sensor = "normal"
  /\ active = {} /\ stored = {}
  /\ done = [c \in Clients |-> {}] /\ saw = [c \in Clients |-> {}]
  /\ late = [c \in Clients |-> FALSE] /\ timeouts = FALSE
  /\ asks = 0 /\ calls = 0 /\ events = 0

-----------------------------------------------------------------------------
(* The client.                                                               *)
Begin(c) ==
  /\ pc[c] = "idle" /\ calls < MaxCalls
  /\ \E k \in Calls :
       /\ call' = [call EXCEPT ![c] = k]
       /\ asked' = [asked EXCEPT ![c] =
            IF k.svc = "2e" THEN [id |-> 0, svc |-> "10", arg |-> "extended"]
            ELSE [id |-> 0, svc |-> k.svc, arg |-> k.arg]]
  /\ pc' = [pc EXCEPT ![c] = "ready"]
  /\ ret' = [ret EXCEPT ![c] = [code |-> "none", got |-> NoArg]]
  /\ done' = [done EXCEPT ![c] = {}]
  /\ saw' = [saw EXCEPT ![c] = {Snapshot}]
  /\ late' = [late EXCEPT ![c] = FALSE]
  /\ calls' = calls + 1
  /\ UNCHANGED <<lock, wire, ecu, timeouts, asks, events>>

(* ok8mp_can_isotp_request: one at a time.                                   *)
Ask(c) ==
  /\ pc[c] = "ready" /\ lock = None
  /\ lock' = c
  /\ pc' = [pc EXCEPT ![c] = "waiting"]
  /\ asks' = asks + 1
  /\ asked' = [asked EXCEPT ![c].id = asks + 1]
  /\ up' = Append(up, asked'[c])
  /\ UNCHANGED <<call, ret, down, ecu, seen, late, timeouts, calls, events>>

Return(c, code, got) ==
  /\ pc' = [pc EXCEPT ![c] = "idle"]
  /\ ret' = [ret EXCEPT ![c] = [code |-> code, got |-> got]]
  /\ UNCHANGED asked

(* Mutant of GiveUp: the error path does not unlock.                         *)
GiveUpLocked(c) ==
  /\ pc[c] = "waiting"
  /\ Return(c, "ETIMEDOUT", NoArg)
  /\ timeouts' = TRUE
  /\ UNCHANGED <<lock, call, wire, ecu, seen, late, asks, calls, events>>

(* The time is up, or the frames of an answer do not fit.                    *)
GiveUp(c) ==
  /\ pc[c] = "waiting"
  /\ lock' = None
  /\ Return(c, "ETIMEDOUT", NoArg)
  /\ timeouts' = TRUE
  /\ UNCHANGED <<call, wire, ecu, seen, late, asks, calls, events>>

(* Mutant of Expected: negative answers count as well.                       *)
ExpectedEither(c, a) == a.svc = asked[c].svc /\ a.arg = asked[c].arg

(* can_diag_expect and the checks of its callers.                            *)
Expected(c, a) == a.positive /\ a.svc = asked[c].svc /\ a.arg = asked[c].arg

(* An answer ends the request; set_state goes on to its second one.          *)
Take(c) ==
  /\ pc[c] = "waiting" /\ down # <<>>
  /\ LET a == Head(down) IN
       /\ late' = [late EXCEPT ![c] = @ \/ a.id # asked[c].id]
       /\ IF ~Expected(c, a)
            THEN Return(c, "EPROTO", NoArg)
          ELSE IF call[c].svc = "2e" /\ asked[c].svc = "10"
            THEN /\ asked' = [asked EXCEPT ![c] = [id |-> 0, svc |-> "2e", arg |-> call[c].arg]]
                 /\ pc' = [pc EXCEPT ![c] = "ready"]
                 /\ UNCHANGED ret
          ELSE Return(c, "OK", a.data)
  /\ lock' = None
  /\ down' = Tail(down)
  /\ UNCHANGED <<call, up, ecu, seen, timeouts, asks, calls, events>>

(* Nobody is subscribed: an answer that is late is dropped.                  *)
Miss ==
  /\ lock = None /\ down # <<>>
  /\ down' = Tail(down)
  /\ UNCHANGED <<client, up, ecu, seen, late, timeouts, asks, calls, events>>

-----------------------------------------------------------------------------
(* The ECU.  What it does is recorded for every call under way.              *)
InCall == {c \in Clients : pc[c] # "idle"}

Record(what) ==
  /\ done' = [c \in Clients |-> IF c \in InCall THEN done[c] \cup {what} ELSE done[c]]
  /\ saw' = [c \in Clients |-> IF c \in InCall
               THEN saw[c] \cup {[state |-> state', sensor |-> sensor',
                                  active |-> active', stored |-> stored']}
               ELSE saw[c]]

(* A present fault is stored; a confirmed one stays until it is cleared.     *)
StoredAfter(s, before) == IF s = "normal" THEN before ELSE before \cup {s}

(* apply_ecu_state with the codes stored before.                             *)
Apply(s, before) ==
  /\ state' = s /\ sensor' = s
  /\ active' = IF s = "normal" THEN {} ELSE {s}
  /\ stored' = StoredAfter(s, before)

(* Mutant of Clear: the present fault is not evaluated again.                *)
ClearAll == active' = {} /\ stored' = {} /\ UNCHANGED <<state, sensor>>

(* clear_dtcs.                                                               *)
Clear == Apply(state, {})

(* An answer that finds the transmit queue full is one that Lose loses.      *)
Answer(q, positive, data) ==
  down' = Append(down, [id |-> q.id, svc |-> q.svc, arg |-> q.arg,
                        positive |-> positive, data |-> data])

(* Mutant of ServeSession: the answer is positive, the session stays.        *)
ServeSessionForgets(q) ==
  /\ q.svc = "10"
  /\ UNCHANGED ecu
  /\ Answer(q, TRUE, NoArg)

ServeSession(q) ==
  /\ q.svc = "10"
  /\ session' = q.arg
  /\ UNCHANGED <<state, sensor, active, stored>>
  /\ Answer(q, TRUE, NoArg)

ServeWrite(q) ==
  /\ q.svc = "2e" /\ session = "extended"
  /\ Apply(q.arg, stored) /\ UNCHANGED session
  /\ Answer(q, TRUE, NoArg)

Refuse(q) ==
  /\ q.svc = "2e" /\ session # "extended"
  /\ UNCHANGED ecu
  /\ Answer(q, FALSE, NoArg)

ServeClear(q) ==
  /\ q.svc \in Clears
  /\ Clear /\ UNCHANGED session
  /\ Answer(q, TRUE, NoArg)

ServeRead(q) ==
  /\ q.svc \in Reads
  /\ UNCHANGED ecu
  /\ Answer(q, TRUE, View(q.svc, Snapshot))

(* process_isotp_request.                                                    *)
Serve ==
  /\ up # <<>>
  /\ up' = Tail(up)
  /\ LET q == Head(up) IN
       \/ (ServeSession(q) \/ ServeWrite(q) \/ ServeClear(q) \/ ServeRead(q))
            /\ Record([svc |-> q.svc, arg |-> q.arg])
       \/ Refuse(q) /\ UNCHANGED seen
  /\ UNCHANGED <<client, late, timeouts, asks, calls, events>>

Event ==
  /\ events < MaxEvents
  /\ events' = events + 1
  /\ UNCHANGED <<client, late, timeouts, asks, calls>>

(* Somebody types 1, 2, 3 or c at the ECU's console.                         *)
Console ==
  /\ Event
  /\ (\E s \in States : Apply(s, stored)) \/ Clear
  /\ Record([svc |-> "console", arg |-> NoArg])
  /\ UNCHANGED <<session, wire>>

(* Nothing survives a restart, nor do requests that were not served.         *)
Restart ==
  /\ Event
  /\ session' = "default" /\ Apply("normal", {})
  /\ up' = <<>>
  /\ Record([svc |-> "restart", arg |-> NoArg])
  /\ UNCHANGED down

Lose ==
  /\ Event
  /\ \/ up # <<>> /\ up' = Tail(up) /\ UNCHANGED down
     \/ down # <<>> /\ down' = Tail(down) /\ UNCHANGED up
  /\ UNCHANGED <<ecu, seen>>

Client == \E c \in Clients : Begin(c) \/ Ask(c) \/ GiveUp(c) \/ Take(c)
Ecu    == Serve \/ Console \/ Restart

Next == Client \/ Miss \/ Ecu \/ Lose

Spec == Init /\ [][Next]_vars

-----------------------------------------------------------------------------
Succeeded(c) == pc[c] = "idle" /\ ret[c].code = "OK"

(* A call that succeeds was carried out by the ECU between its beginning and *)
(* its end, whoever else talks to the ECU and whatever gets lost, unless it  *)
(* took the answer to an earlier request for its own; and that happens only  *)
(* once somebody has stopped waiting for an answer.                          *)
DoneWithinCall ==
  \A c \in Clients :
    /\ Succeeded(c) /\ ~late[c] => call[c] \in done[c]
    /\ late[c] => timeouts

(* What a read returns was true at one moment of the call, all of it: the    *)
(* state, the sensors and the codes belong together, a present fault has its *)
(* code, and both hold even for an answer that is late.                      *)
ReadsAreTrue ==
  \A c \in Clients :
    Succeeded(c) /\ call[c].svc \in Reads =>
      /\ ~late[c] => ret[c].got \in {View(call[c].svc, s) : s \in saw[c]}
      /\ call[c].svc = "22" =>
           LET got == ret[c].got IN
             /\ got.sensor = got.state
             /\ got.active <=> got.state # "normal"
             /\ got.state \in got.stored \cup {"normal"}
      /\ call[c].svc = "19" => ret[c].got.active \subseteq ret[c].got.stored

(* A call that got its own answers is refused only if, between its two       *)
(* requests, another task went back to the default session or the ECU was    *)
(* restarted: a session that was opened lasts.                               *)
RefusedForAReason ==
  \A c \in Clients :
    pc[c] = "idle" /\ ret[c].code = "EPROTO" /\ ~late[c] =>
      /\ call[c].svc = "2e"
      /\ \/ [svc |-> "10", arg |-> "default"] \in done[c]
         \/ [svc |-> "restart", arg |-> NoArg] \in done[c]
=============================================================================
