------------------------------ MODULE Uds_proofs ------------------------------
(* Theorems about Uds for any number of clients, calls, faults and services. *)
EXTENDS Uds, FiniteSetTheorems, SequenceTheorems, TLAPS

-----------------------------------------------------------------------------
(* The inductive invariant.                                                  *)

(* What is on the wire, whatever its place.                                  *)
Elems(q) == {q[i] : i \in 1..Len(q)}

Services  == {"2e", "10"} \cup Reads \cup Clears
Args      == States \cup Sessions \cup {NoArg}
Codes     == {"none", "OK", "EPROTO", "ETIMEDOUT"}
Snapshots == [state : States, sensor : States, active : SUBSET Faults, stored : SUBSET Faults]
Reports   == {NoArg} \cup {View(svc, s) : svc \in Reads, s \in Snapshots}
Requests  == {[id |-> i, svc |-> k.svc, arg |-> k.arg] : i \in Nat, k \in Calls}
Answers   == [id : Nat, svc : Services, arg : Args, positive : BOOLEAN, data : Reports]

TypeInv ==
  /\ lock \in Clients \cup {None}
  /\ pc \in [Clients -> {"idle", "ready", "waiting"}]
  /\ call \in [Clients -> Calls]
  /\ asked \in [Clients -> Requests]
  /\ ret \in [Clients -> [code : Codes, got : Reports]]
  /\ up \in Seq(Requests) /\ down \in Seq(Answers)
  /\ session \in Sessions /\ state \in States /\ sensor \in States
  /\ active \in SUBSET Faults /\ stored \in SUBSET Faults
  /\ DOMAIN done = Clients /\ DOMAIN saw = Clients
  /\ late \in [Clients -> BOOLEAN] /\ timeouts \in BOOLEAN
  /\ asks \in Nat /\ calls \in 0..MaxCalls /\ events \in 0..MaxEvents
  /\ \A c \in Clients : (pc[c] = "waiting") <=> (lock = c)

(* The requests still owed: those about to be made, and the second ones of   *)
(* set_state.  With those made, they are at most two for each call.          *)
Owing  == {c \in Clients : pc[c] = "ready" /\ asked[c].svc # "2e"}
Second == {c \in Clients : /\ pc[c] # "idle" /\ call[c].svc = "2e"
                           /\ ~(pc[c] = "waiting" /\ asked[c].svc = "2e")}
CountInv ==
  /\ IsFiniteSet(Owing) /\ IsFiniteSet(Second)
  /\ asks + Cardinality(Owing) + Cardinality(Second) <= 2 * calls

(* A client's request is the newest of all while it waits, and belongs to    *)
(* its call.                                                                 *)
AskedInv ==
  /\ \A c \in Clients : pc[c] = "waiting" => asked[c].id = asks
  /\ \A c \in Clients : pc[c] # "idle" =>
       \/ call[c].svc = "2e" /\ asked[c].svc = "10" /\ asked[c].arg = "extended"
       \/ asked[c].svc = call[c].svc /\ asked[c].arg = call[c].arg

(* What ends an extended session, and what c may count on until then.        *)
Ended(c) == \/ [svc |-> "10", arg |-> "default"] \in done[c]
            \/ [svc |-> "restart", arg |-> NoArg] \in done[c]
Held(c)  == session = "extended" \/ Ended(c)

(* The messages that bear the newest number are those of the holder of the   *)
(* lock: they repeat its request, and an answer tells what was done and seen *)
(* since its call began.                                                     *)
Confirms(c, m) ==
  /\ [svc |-> m.svc, arg |-> m.arg] \in done[c]
  /\ m.svc \in Reads => m.data \in {View(m.svc, s) : s \in saw[c]}
  /\ m.svc = "10" /\ m.arg = "extended" => Held(c)
Denies(c, m) == m.svc = "2e" /\ (~late[c] => Ended(c))

Numbered == \A m \in Elems(up) \cup Elems(down) : m.id \in 1..asks
Repeated ==
  \A c \in Clients, m \in Elems(up) \cup Elems(down) :
    lock = c /\ m.id = asks => m.svc = asked[c].svc /\ m.arg = asked[c].arg
Answered ==
  \A c \in Clients, m \in Elems(down) :
    lock = c /\ m.id = asks => IF m.positive THEN Confirms(c, m) ELSE Denies(c, m)
Opened ==
  \A c \in Clients : pc[c] # "idle" /\ asked[c].svc = "2e" /\ ~late[c] => Held(c)
WireInv == Numbered /\ Repeated /\ Answered /\ Opened

(* The ECU's data belong together, and so does what it says of them.         *)
Belongs(svc, got) ==
  /\ svc = "22" => /\ got.sensor = got.state
                   /\ got.active <=> got.state # "normal"
                   /\ got.state \in got.stored \cup {"normal"}
  /\ svc = "19" => got.active \subseteq got.stored
EcuInv ==
  /\ sensor = state /\ active = (IF state = "normal" THEN {} ELSE {state})
  /\ active \subseteq stored
  /\ \A m \in Elems(down) : Belongs(m.svc, m.data)

(* Until somebody stops waiting, the wire carries at most one message, and   *)
(* none that nobody waits for.                                               *)
OnTimeInv ==
  /\ \A c \in Clients : late[c] => timeouts
  /\ ~timeouts => /\ \A m \in Elems(up) \cup Elems(down) : m.id = asks
                  /\ Len(up) + Len(down) <= 1
                  /\ lock = None => Len(up) + Len(down) = 0

(* What the result of a call says, from its end to the client's next call.   *)
Kept(c) ==
  /\ Succeeded(c) /\ ~late[c] => call[c] \in done[c]
  /\ Succeeded(c) /\ call[c].svc \in Reads =>
       /\ ~late[c] => ret[c].got \in {View(call[c].svc, s) : s \in saw[c]}
       /\ Belongs(call[c].svc, ret[c].got)
  /\ pc[c] = "idle" /\ ret[c].code = "EPROTO" /\ ~late[c] => call[c].svc = "2e" /\ Ended(c)
ResultInv == \A c \in Clients : Kept(c)

IInv == TypeInv /\ CountInv /\ AskedInv /\ WireInv /\ EcuInv /\ OnTimeInv /\ ResultInv

-----------------------------------------------------------------------------
(* Lemmas about sequences and what is in them.                               *)

LEMMA ElemsEmpty == Elems(<<>>) = {} /\ Len(<<>>) = 0
BY DEF Elems

LEMMA ElemsAppend ==
  ASSUME NEW S, NEW q \in Seq(S), NEW x \in S
  PROVE  /\ Append(q, x) \in Seq(S) /\ Len(Append(q, x)) = Len(q) + 1
         /\ Elems(Append(q, x)) = Elems(q) \cup {x}
<1>1. /\ Append(q, x) \in Seq(S) /\ Len(Append(q, x)) = Len(q) + 1
      /\ \A i \in 1..Len(q) : Append(q, x)[i] = q[i]
      /\ Append(q, x)[Len(q) + 1] = x /\ Len(q) \in Nat
      BY AppendProperties
<1> DEFINE p == Append(q, x)
<1> HIDE DEF p
<1>2. p \in Seq(S) /\ Len(p) = Len(q) + 1 /\ (\A i \in 1..Len(q) : p[i] = q[i])
      /\ p[Len(q) + 1] = x /\ Len(q) \in Nat
      BY <1>1 DEF p
<1>3. Elems(p) = Elems(q) \cup {x}
      BY <1>2 DEF Elems
<1>4. QED
      BY <1>1, <1>3 DEF p

LEMMA ElemsTail ==
  ASSUME NEW S, NEW q \in Seq(S), q # <<>>
  PROVE  /\ Tail(q) \in Seq(S) /\ Len(Tail(q)) = Len(q) - 1
         /\ Len(q) \in Nat \ {0} /\ Elems(Tail(q)) \subseteq Elems(q)
         /\ Head(q) \in Elems(q) /\ Head(q) \in S
<1>1. /\ Head(q) \in S /\ Tail(q) \in Seq(S) /\ Len(Tail(q)) = Len(q) - 1
      /\ \A i \in 1..Len(Tail(q)) : Tail(q)[i] = q[i + 1]
      BY HeadTailProperties
<1>2. Len(q) \in Nat \ {0} /\ Head(q) = q[1]
      OBVIOUS
<1> DEFINE p == Tail(q)
<1> HIDE DEF p
<1>3. Len(p) = Len(q) - 1 /\ (\A i \in 1..Len(p) : p[i] = q[i + 1])
      BY <1>1 DEF p
<1>4. Elems(p) \subseteq Elems(q)
      BY <1>2, <1>3 DEF Elems
<1>5. Head(q) \in Elems(q)
      BY <1>2 DEF Elems
<1>6. QED
      BY <1>1, <1>2, <1>4, <1>5 DEF p

LEMMA ElemsTyped ==
  ASSUME NEW S, NEW q \in Seq(S)
  PROVE  Elems(q) \subseteq S /\ Len(q) \in Nat /\ (Len(q) = 0 => Elems(q) = {})
BY DEF Elems

-----------------------------------------------------------------------------
(* The types.                                                                *)

(* Every call is made of a service and an argument.                          *)
LEMMA CallsTyped ==
  /\ \A k \in Calls : k.svc \in Services /\ k.arg \in Args /\ k = [svc |-> k.svc, arg |-> k.arg]
  /\ [svc |-> "10", arg |-> "extended"] \in Calls
  /\ \A k \in Calls : k.svc = "2e" => k.arg \in States
  /\ \A k \in Calls : k.svc = "10" => k.arg \in Sessions
  /\ "2e" \notin Reads \cup Clears /\ "10" \notin Reads \cup Clears
BY UdsAssumption DEF Calls, Services, Args, Sessions

LEMMA RequestTyped ==
  ASSUME NEW i \in Nat, NEW k \in Calls
  PROVE  [id |-> i, svc |-> k.svc, arg |-> k.arg] \in Requests
BY DEF Requests

LEMMA RequestFields ==
  ASSUME NEW r \in Requests
  PROVE  /\ r.id \in Nat /\ r.svc \in Services /\ r.arg \in Args
         /\ [svc |-> r.svc, arg |-> r.arg] \in Calls
         /\ r = [id |-> r.id, svc |-> r.svc, arg |-> r.arg]
         /\ r.svc = "2e" => r.arg \in States
         /\ r.svc = "10" => r.arg \in Sessions
<1>1. PICK i \in Nat, k \in Calls : r = [id |-> i, svc |-> k.svc, arg |-> k.arg]
      BY DEF Requests
<1>2. r.id = i /\ r.svc = k.svc /\ r.arg = k.arg
      BY <1>1
<1>3. k = [svc |-> k.svc, arg |-> k.arg] /\ k.svc \in Services /\ k.arg \in Args
      /\ (k.svc = "2e" => k.arg \in States) /\ (k.svc = "10" => k.arg \in Sessions)
      BY CallsTyped
<1>4. QED
      BY <1>1, <1>2, <1>3

LEMMA InitType == Init => TypeInv
<1> SUFFICES ASSUME Init PROVE TypeInv
    OBVIOUS
<1> USE UdsAssumption
<1>1. [svc |-> "10", arg |-> "default"] \in Calls
      BY DEF Calls, Sessions
<1>2. "10" \in Services /\ "default" \in Args /\ NoArg \in Reports /\ NoArg \in Args
      BY DEF Services, Args, Sessions, Reports
<1>3. lock \in Clients \cup {None} /\ pc \in [Clients -> {"idle", "ready", "waiting"}]
      BY DEF Init
<1>4. call \in [Clients -> Calls] /\ asked \in [Clients -> Requests]
  <2>1. [id |-> 0, svc |-> "10", arg |-> "default"] \in Requests
        BY <1>1, RequestTyped
  <2>2. QED
        BY <1>1, <2>1 DEF Init
<1>5. ret \in [Clients -> [code : Codes, got : Reports]]
      BY <1>2 DEF Init, Codes
<1>6. up \in Seq(Requests) /\ down \in Seq(Answers)
      BY DEF Init
<1>7. /\ session \in Sessions /\ state \in States /\ sensor \in States
      /\ active \in SUBSET Faults /\ stored \in SUBSET Faults
      BY DEF Init, Sessions, States
<1>8. /\ DOMAIN done = Clients /\ DOMAIN saw = Clients
      /\ late \in [Clients -> BOOLEAN] /\ timeouts \in BOOLEAN
      /\ asks \in Nat /\ calls \in 0..MaxCalls /\ events \in 0..MaxEvents
  <2>1. MaxCalls \in Nat /\ MaxEvents \in Nat
        OBVIOUS
  <2>2. DOMAIN done = Clients /\ DOMAIN saw = Clients
        BY DEF Init
  <2>3. late \in [Clients -> BOOLEAN] /\ timeouts \in BOOLEAN
        BY DEF Init
  <2>4. asks \in Nat /\ calls \in 0..MaxCalls /\ events \in 0..MaxEvents
        BY <2>1 DEF Init
  <2>5. QED
        BY <2>2, <2>3, <2>4
<1>9. \A c \in Clients : (pc[c] = "waiting") <=> (lock = c)
      BY DEF Init
<1>10. QED
      BY <1>3, <1>4, <1>5, <1>6, <1>7, <1>8, <1>9 DEF TypeInv

LEMMA BeginType ==
  ASSUME TypeInv, NEW c \in Clients, Begin(c) PROVE TypeInv'
<1> USE UdsAssumption, CallsTyped DEF TypeInv, Begin
<1>1. PICK k \in Calls :
        /\ call' = [call EXCEPT ![c] = k]
        /\ asked' = [asked EXCEPT ![c] =
             IF k.svc = "2e" THEN [id |-> 0, svc |-> "10", arg |-> "extended"]
             ELSE [id |-> 0, svc |-> k.svc, arg |-> k.arg]]
      OBVIOUS
<1>2. call' \in [Clients -> Calls]
      BY <1>1
<1> DEFINE r == IF k.svc = "2e" THEN [id |-> 0, svc |-> "10", arg |-> "extended"]
                ELSE [id |-> 0, svc |-> k.svc, arg |-> k.arg]
<1>3. r \in Requests
      BY RequestTyped
<1>4. asked' = [asked EXCEPT ![c] = r]
      BY <1>1
<1> HIDE DEF r
<1>5. asked' \in [Clients -> Requests]
      BY <1>3, <1>4
<1>6. ret' \in [Clients -> [code : Codes, got : Reports]]
      BY DEF Codes, Reports
<1>7. /\ lock' \in Clients \cup {None}
      /\ pc' \in [Clients -> {"idle", "ready", "waiting"}]
      /\ \A d \in Clients : (pc'[d] = "waiting") <=> (lock' = d)
      OBVIOUS
<1>8. /\ up' \in Seq(Requests) /\ down' \in Seq(Answers)
      /\ session' \in Sessions /\ state' \in States /\ sensor' \in States
      /\ active' \in SUBSET Faults /\ stored' \in SUBSET Faults
      BY DEF wire, ecu
<1>9. /\ DOMAIN done' = Clients /\ DOMAIN saw' = Clients
      /\ late' \in [Clients -> BOOLEAN] /\ timeouts' \in BOOLEAN
      /\ asks' \in Nat /\ calls' \in 0..MaxCalls /\ events' \in 0..MaxEvents
      OBVIOUS
<1>10. QED
      BY <1>2, <1>5, <1>6, <1>7, <1>8, <1>9

LEMMA AskType ==
  ASSUME TypeInv, NEW c \in Clients, Ask(c)
  PROVE  /\ TypeInv'
         /\ asked'[c] = [id |-> asks + 1, svc |-> asked[c].svc, arg |-> asked[c].arg]
         /\ Elems(up') = Elems(up) \cup {asked'[c]} /\ Len(up') = Len(up) + 1
<1>0. /\ asked \in [Clients -> Requests] /\ asks \in Nat
      /\ [svc |-> asked[c].svc, arg |-> asked[c].arg] \in Calls
      /\ asked[c] = [id |-> asked[c].id, svc |-> asked[c].svc, arg |-> asked[c].arg]
      BY RequestFields DEF TypeInv
<1> DEFINE r == [id |-> asks + 1, svc |-> asked[c].svc, arg |-> asked[c].arg]
<1>1. r \in Requests
      BY <1>0, RequestTyped
<1>2. asked' = [asked EXCEPT ![c] = r]
  <2>1. asked' = [asked EXCEPT ![c].id = asks + 1]
        BY DEF Ask
  <2>2. [asked[c] EXCEPT !.id = asks + 1] = r
        BY <1>0
  <2>3. QED
        BY <2>1, <2>2
<1> HIDE DEF r
<1>3. asked' \in [Clients -> Requests] /\ asked'[c] = r
      BY <1>0, <1>1, <1>2
<1>4. /\ up' \in Seq(Requests) /\ Len(up') = Len(up) + 1
      /\ Elems(up') = Elems(up) \cup {r}
  <2>1. up \in Seq(Requests) /\ up' = Append(up, r)
        BY <1>3 DEF TypeInv, Ask
  <2>2. QED
        BY <2>1, <1>1, ElemsAppend
<1>5. /\ lock' \in Clients \cup {None}
      /\ pc' \in [Clients -> {"idle", "ready", "waiting"}]
      /\ \A d \in Clients : (pc'[d] = "waiting") <=> (lock' = d)
      BY UdsAssumption DEF TypeInv, Ask
<1>6. /\ call' \in [Clients -> Calls] /\ ret' \in [Clients -> [code : Codes, got : Reports]]
      /\ down' \in Seq(Answers)
      /\ session' \in Sessions /\ state' \in States /\ sensor' \in States
      /\ active' \in SUBSET Faults /\ stored' \in SUBSET Faults
      BY DEF TypeInv, Ask, ecu
<1>7. /\ DOMAIN done' = Clients /\ DOMAIN saw' = Clients
      /\ late' \in [Clients -> BOOLEAN] /\ timeouts' \in BOOLEAN
      /\ asks' \in Nat /\ calls' \in 0..MaxCalls /\ events' \in 0..MaxEvents
      BY DEF TypeInv, Ask, seen
<1>8. TypeInv'
      BY <1>3, <1>4, <1>5, <1>6, <1>7 DEF TypeInv
<1>9. QED
      BY <1>3, <1>4, <1>8 DEF r

LEMMA GiveUpType ==
  ASSUME TypeInv, NEW c \in Clients, GiveUp(c) PROVE TypeInv'
<1> USE UdsAssumption DEF TypeInv, GiveUp, Return
<1>1. ret' \in [Clients -> [code : Codes, got : Reports]]
      BY DEF Codes, Reports
<1>2. /\ lock' \in Clients \cup {None}
      /\ pc' \in [Clients -> {"idle", "ready", "waiting"}]
      /\ \A d \in Clients : (pc'[d] = "waiting") <=> (lock' = d)
      OBVIOUS
<1>3. call' \in [Clients -> Calls] /\ asked' \in [Clients -> Requests]
      OBVIOUS
<1>4. /\ up' \in Seq(Requests) /\ down' \in Seq(Answers)
      /\ session' \in Sessions /\ state' \in States /\ sensor' \in States
      /\ active' \in SUBSET Faults /\ stored' \in SUBSET Faults
      BY DEF wire, ecu
<1>5. /\ DOMAIN done' = Clients /\ DOMAIN saw' = Clients
      /\ late' \in [Clients -> BOOLEAN] /\ timeouts' \in BOOLEAN
      /\ asks' \in Nat /\ calls' \in 0..MaxCalls /\ events' \in 0..MaxEvents
      BY DEF seen
<1>6. QED
      BY <1>1, <1>2, <1>3, <1>4, <1>5

(* The three ways an answer ends a request: it is refused, set_state goes on *)
(* to its second request, or the call succeeds.                              *)
TakeRefused(c, a) == ~Expected(c, a) /\ Return(c, "EPROTO", NoArg)
TakeOn(c, a) ==
  /\ Expected(c, a) /\ call[c].svc = "2e" /\ asked[c].svc = "10"
  /\ asked' = [asked EXCEPT ![c] = [id |-> 0, svc |-> "2e", arg |-> call[c].arg]]
  /\ pc' = [pc EXCEPT ![c] = "ready"] /\ UNCHANGED ret
TakeOk(c, a) ==
  /\ Expected(c, a) /\ ~(call[c].svc = "2e" /\ asked[c].svc = "10")
  /\ Return(c, "OK", a.data)

LEMMA TakeCases ==
  ASSUME TypeInv, NEW c \in Clients, Take(c)
  PROVE  \E a \in Answers :
           /\ a \in Elems(down) /\ a = Head(down) /\ pc[c] = "waiting" /\ down # <<>>
           /\ late' = [late EXCEPT ![c] = @ \/ a.id # asked[c].id]
           /\ TakeRefused(c, a) \/ TakeOn(c, a) \/ TakeOk(c, a)
           /\ lock' = None /\ down' = Tail(down)
           /\ UNCHANGED <<call, up, ecu, seen, timeouts, asks, calls, events>>
<1> DEFINE a == Head(down)
<1>1. a \in Answers /\ a \in Elems(down)
      BY ElemsTail DEF Take, TypeInv
<1>2. TakeRefused(c, a) \/ TakeOn(c, a) \/ TakeOk(c, a)
      BY DEF Take, TakeRefused, TakeOn, TakeOk
<1>3. QED
      BY <1>1, <1>2 DEF Take

LEMMA TakeType ==
  ASSUME TypeInv, NEW c \in Clients, Take(c)
  PROVE  TypeInv' /\ Elems(down') \subseteq Elems(down) /\ Len(down') = Len(down) - 1
<1> USE UdsAssumption, CallsTyped DEF TypeInv
<1>1. PICK a \in Answers :
           /\ a \in Elems(down) /\ a = Head(down) /\ pc[c] = "waiting" /\ down # <<>>
           /\ late' = [late EXCEPT ![c] = @ \/ a.id # asked[c].id]
           /\ TakeRefused(c, a) \/ TakeOn(c, a) \/ TakeOk(c, a)
           /\ lock' = None /\ down' = Tail(down)
           /\ UNCHANGED <<call, up, ecu, seen, timeouts, asks, calls, events>>
      BY TakeCases
<1>2. ret' \in [Clients -> [code : Codes, got : Reports]]
  <2>1. CASE TakeOk(c, a)
        BY <2>1 DEF TakeOk, Return, Codes, Answers
  <2>2. CASE TakeRefused(c, a)
        BY <2>2 DEF TakeRefused, Return, Codes, Reports
  <2>3. CASE TakeOn(c, a)
        BY <2>3 DEF TakeOn
  <2>4. QED
        BY <1>1, <2>1, <2>2, <2>3
<1>3. /\ pc' \in [Clients -> {"idle", "ready", "waiting"}] /\ pc'[c] # "waiting"
      /\ \A d \in Clients \ {c} : pc'[d] = pc[d]
      BY <1>1 DEF TakeOk, TakeRefused, TakeOn, Return
<1>4. \A d \in Clients : (pc'[d] = "waiting") <=> (lock' = d)
      BY <1>1, <1>3
<1>5. asked' \in [Clients -> Requests]
  <2>1. CASE TakeOn(c, a)
    <3> DEFINE r == [id |-> 0, svc |-> "2e", arg |-> call[c].arg]
    <3>1. call[c] \in Calls /\ call[c].svc = "2e"
          BY <2>1 DEF TakeOn
    <3>2. r \in Requests
          BY <3>1, RequestTyped
    <3>3. asked' = [asked EXCEPT ![c] = r]
          BY <2>1 DEF TakeOn
    <3> HIDE DEF r
    <3>4. QED
          BY <3>2, <3>3
  <2>2. CASE TakeRefused(c, a) \/ TakeOk(c, a)
        BY <2>2 DEF TakeOk, TakeRefused, Return
  <2>3. QED
        BY <1>1, <2>1, <2>2
<1>6. /\ down' \in Seq(Answers) /\ Elems(down') \subseteq Elems(down)
      /\ Len(down') = Len(down) - 1
      BY <1>1, ElemsTail
<1>7. /\ call' \in [Clients -> Calls] /\ up' \in Seq(Requests)
      /\ session' \in Sessions /\ state' \in States /\ sensor' \in States
      /\ active' \in SUBSET Faults /\ stored' \in SUBSET Faults
      BY <1>1 DEF ecu
<1>8. late' \in [Clients -> BOOLEAN]
      BY <1>1
<1>9. /\ DOMAIN done' = Clients /\ DOMAIN saw' = Clients /\ timeouts' \in BOOLEAN
      /\ asks' \in Nat /\ calls' \in 0..MaxCalls /\ events' \in 0..MaxEvents
      BY <1>1 DEF seen
<1>10. lock' \in Clients \cup {None}
      BY <1>1
<1>11. QED
      BY <1>2, <1>3, <1>4, <1>5, <1>6, <1>7, <1>8, <1>9, <1>10

(* The ECU's own state.                                                      *)
EcuType ==
  /\ session \in Sessions /\ state \in States /\ sensor \in States
  /\ active \in SUBSET Faults /\ stored \in SUBSET Faults
EcuWhole ==
  /\ sensor = state /\ active = (IF state = "normal" THEN {} ELSE {state})
  /\ active \subseteq stored

(* apply_ecu_state leaves data that belong together.                         *)
LEMMA ApplyWhole ==
  ASSUME NEW s \in States, NEW before \in SUBSET Faults, Apply(s, before)
  PROVE  /\ state' \in States /\ sensor' \in States
         /\ active' \in SUBSET Faults /\ stored' \in SUBSET Faults
         /\ EcuWhole'
BY DEF Apply, EcuWhole, StoredAfter, States

(* What the reading services say of data that belong together does as well.  *)
LEMMA ViewWhole ==
  ASSUME EcuType, EcuWhole, NEW svc \in Reads
  PROVE  View(svc, Snapshot) \in Reports /\ Belongs(svc, View(svc, Snapshot))
<1>1. Snapshot \in Snapshots
      BY DEF Snapshot, Snapshots, EcuType
<1>2. View(svc, Snapshot) \in Reports
      BY <1>1 DEF Reports
<1>3. svc \in {"22", "19", "01", "03"}
      BY UdsAssumption
<1>4. CASE svc = "22"
  <2>1. View(svc, Snapshot) = [state |-> state, sensor |-> sensor,
                               active |-> active # {}, stored |-> stored]
        BY <1>4 DEF View, StatusOf, Snapshot
  <2> DEFINE got == View(svc, Snapshot)
  <2>2. /\ got.state = state /\ got.sensor = sensor /\ got.stored = stored
        /\ got.active = (active # {})
        BY <2>1
  <2> HIDE DEF got
  <2>3. (active # {}) <=> state # "normal"
        BY DEF EcuWhole
  <2>4. got.active <=> got.state # "normal"
        BY <2>2, <2>3, Zenon
  <2>5. got.state \in got.stored \cup {"normal"} /\ got.sensor = got.state
        BY <2>2 DEF EcuWhole
  <2>6. Belongs(svc, got)
        BY <1>4, <2>4, <2>5 DEF Belongs
  <2>7. QED
        BY <1>2, <2>6 DEF got
<1>5. CASE svc = "19"
  <2>1. View(svc, Snapshot) = [active |-> active, stored |-> stored]
        BY <1>5 DEF View, CodesOf, Snapshot
  <2>2. QED
        BY <1>2, <1>5, <2>1 DEF Belongs, EcuWhole
<1>6. CASE svc \notin {"22", "19"}
      BY <1>2, <1>6 DEF Belongs
<1>7. QED
      BY <1>4, <1>5, <1>6

(* What the ECU does with the request q, which it answers with a.            *)
After == [state |-> state', sensor |-> sensor', active |-> active', stored |-> stored']
ServeDone(q, a) ==
  /\ a.positive /\ Record([svc |-> q.svc, arg |-> q.arg])
  /\ q.svc \in Reads => a.data = View(q.svc, After)
  /\ session' = IF q.svc = "10" THEN q.arg ELSE session
ServeRefused(q, a) ==
  /\ ~a.positive /\ q.svc = "2e" /\ session # "extended" /\ UNCHANGED <<ecu, seen>>

LEMMA ServeCases ==
  ASSUME TypeInv, EcuInv, Serve
  PROVE  \E q \in Requests, a \in Answers :
           /\ up # <<>> /\ q = Head(up) /\ up' = Tail(up) /\ down' = Append(down, a)
           /\ a.id = q.id /\ a.svc = q.svc /\ a.arg = q.arg /\ Belongs(a.svc, a.data)
           /\ EcuType' /\ EcuWhole'
           /\ ServeDone(q, a) \/ ServeRefused(q, a)
           /\ UNCHANGED <<client, late, timeouts, asks, calls, events>>
<1> DEFINE q == Head(up)
           W(data) == [id |-> q.id, svc |-> q.svc, arg |-> q.arg,
                       positive |-> TRUE, data |-> data]
           N == [id |-> q.id, svc |-> q.svc, arg |-> q.arg,
                 positive |-> FALSE, data |-> NoArg]
<1>1. q \in Requests /\ up # <<>>
      BY ElemsTail DEF Serve, TypeInv
<1>2. EcuType /\ EcuWhole
      BY DEF TypeInv, EcuInv, EcuType, EcuWhole
<1>3. /\ up' = Tail(up) /\ UNCHANGED <<client, late, timeouts, asks, calls, events>>
      /\ \/ /\ ServeSession(q) \/ ServeWrite(q) \/ ServeClear(q) \/ ServeRead(q)
            /\ Record([svc |-> q.svc, arg |-> q.arg])
         \/ Refuse(q) /\ UNCHANGED seen
      BY DEF Serve
<1> HIDE DEF q
<1>4. /\ \A data \in Reports : W(data) \in Answers
      /\ N \in Answers /\ NoArg \in Reports
      /\ q.svc = "2e" => q.arg \in States
      /\ q.svc = "10" => q.arg \in Sessions
  <2>1. /\ q.id \in Nat /\ q.svc \in Services /\ q.arg \in Args
        /\ q.svc = "2e" => q.arg \in States
        /\ q.svc = "10" => q.arg \in Sessions
        BY <1>1, RequestFields
  <2>2. NoArg \in Reports
        BY DEF Reports
  <2>3. QED
        BY <2>1, <2>2 DEF Answers
<1> DEFINE Goal(a) ==
             /\ a.id = q.id /\ a.svc = q.svc /\ a.arg = q.arg /\ Belongs(a.svc, a.data)
             /\ EcuType' /\ EcuWhole' /\ down' = Append(down, a)
             /\ ServeDone(q, a) \/ ServeRefused(q, a)
<1>5. CASE ServeSession(q) /\ Record([svc |-> q.svc, arg |-> q.arg])
  <2>1. down' = Append(down, W(NoArg)) /\ session' = q.arg /\ q.svc = "10"
        /\ UNCHANGED <<state, sensor, active, stored>>
        BY <1>5 DEF ServeSession, Answer
  <2>2. EcuType' /\ EcuWhole'
        BY <1>2, <1>4, <2>1 DEF EcuType, EcuWhole
  <2>3. Belongs(q.svc, NoArg) /\ q.svc \notin Reads
        BY <2>1, UdsAssumption DEF Belongs
  <2>4. ServeDone(q, W(NoArg))
        BY <1>5, <2>1, <2>3 DEF ServeDone
  <2>5. Goal(W(NoArg))
        BY <2>1, <2>2, <2>3, <2>4
  <2>6. QED
        BY <1>1, <1>3, <1>4, <2>5 DEF q
<1>6. CASE ServeWrite(q) /\ Record([svc |-> q.svc, arg |-> q.arg])
  <2>1. down' = Append(down, W(NoArg)) /\ session' = session /\ q.svc = "2e"
        /\ Apply(q.arg, stored)
        BY <1>6 DEF ServeWrite, Answer
  <2>2. EcuType' /\ EcuWhole'
        BY <1>2, <1>4, <2>1, ApplyWhole DEF EcuType
  <2>3. Belongs(q.svc, NoArg) /\ q.svc \notin Reads
        BY <2>1, UdsAssumption DEF Belongs
  <2>4. ServeDone(q, W(NoArg))
        BY <1>6, <2>1, <2>3 DEF ServeDone
  <2>5. Goal(W(NoArg))
        BY <2>1, <2>2, <2>3, <2>4
  <2>6. QED
        BY <1>1, <1>3, <1>4, <2>5 DEF q
<1>7. CASE ServeClear(q) /\ Record([svc |-> q.svc, arg |-> q.arg])
  <2>1. down' = Append(down, W(NoArg)) /\ session' = session /\ q.svc \in Clears
        /\ Apply(state, {})
        BY <1>7 DEF ServeClear, Answer, Clear
  <2>2. EcuType' /\ EcuWhole'
        BY <1>2, <2>1, ApplyWhole DEF EcuType
  <2>3. Belongs(q.svc, NoArg) /\ q.svc \notin Reads /\ q.svc # "10"
        BY <2>1, UdsAssumption DEF Belongs
  <2>4. ServeDone(q, W(NoArg))
        BY <1>7, <2>1, <2>3 DEF ServeDone
  <2>5. Goal(W(NoArg))
        BY <2>1, <2>2, <2>3, <2>4
  <2>6. QED
        BY <1>1, <1>3, <1>4, <2>5 DEF q
<1>8. CASE ServeRead(q) /\ Record([svc |-> q.svc, arg |-> q.arg])
  <2> DEFINE v == View(q.svc, Snapshot)
  <2>1. down' = Append(down, W(v)) /\ UNCHANGED ecu /\ q.svc \in Reads
        BY <1>8 DEF ServeRead, Answer
  <2>2. EcuType' /\ EcuWhole'
        BY <1>2, <2>1 DEF EcuType, EcuWhole, ecu
  <2>3. v \in Reports /\ Belongs(q.svc, v) /\ q.svc # "10"
        BY <1>2, <2>1, ViewWhole, UdsAssumption
  <2>4. View(q.svc, After) = v
        BY <2>1 DEF Snapshot, After, ecu
  <2> HIDE DEF v
  <2>5. session' = session
        BY <2>1 DEF ecu
  <2>6. ServeDone(q, W(v))
        BY <1>8, <2>3, <2>4, <2>5 DEF ServeDone
  <2>7. Goal(W(v))
        BY <2>1, <2>2, <2>3, <2>6
  <2>8. QED
        BY <1>1, <1>3, <1>4, <2>3, <2>7 DEF q
<1>9. CASE Refuse(q) /\ UNCHANGED seen
  <2>1. down' = Append(down, N) /\ UNCHANGED ecu /\ q.svc = "2e" /\ session # "extended"
        BY <1>9 DEF Refuse, Answer
  <2>2. EcuType' /\ EcuWhole'
        BY <1>2, <2>1 DEF EcuType, EcuWhole, ecu
  <2>3. Belongs(q.svc, NoArg)
        BY <2>1 DEF Belongs
  <2>4. ServeRefused(q, N)
        BY <1>9, <2>1 DEF ServeRefused
  <2>5. Goal(N)
        BY <2>1, <2>2, <2>3, <2>4
  <2>6. QED
        BY <1>1, <1>3, <1>4, <2>5 DEF q
<1>10. QED
      BY <1>3, <1>5, <1>6, <1>7, <1>8, <1>9

(* A step of the ECU or of the wire leaves the clients alone.                *)
LEMMA OutsideType ==
  ASSUME TypeInv, UNCHANGED <<client, late, timeouts, asks, calls>>, EcuType',
         up' \in Seq(Requests), down' \in Seq(Answers),
         DOMAIN done' = Clients, DOMAIN saw' = Clients, events' \in 0..MaxEvents
  PROVE  TypeInv'
BY DEF TypeInv, EcuType, client

LEMMA RecordType ==
  ASSUME NEW what, Record(what)
  PROVE  DOMAIN done' = Clients /\ DOMAIN saw' = Clients
BY DEF Record

LEMMA ServeType ==
  ASSUME TypeInv, EcuInv, Serve PROVE TypeInv'
<1>1. PICK q \in Requests, a \in Answers :
           /\ up # <<>> /\ q = Head(up) /\ up' = Tail(up) /\ down' = Append(down, a)
           /\ a.id = q.id /\ a.svc = q.svc /\ a.arg = q.arg /\ Belongs(a.svc, a.data)
           /\ EcuType' /\ EcuWhole'
           /\ ServeDone(q, a) \/ ServeRefused(q, a)
           /\ UNCHANGED <<client, late, timeouts, asks, calls, events>>
      BY ServeCases
<1>2. up \in Seq(Requests) /\ down \in Seq(Answers)
      BY DEF TypeInv
<1>3. up' \in Seq(Requests) /\ down' \in Seq(Answers)
      BY <1>1, <1>2, ElemsTail, ElemsAppend
<1>4. DOMAIN done' = Clients /\ DOMAIN saw' = Clients
      BY <1>1, RecordType DEF ServeDone, ServeRefused, seen, TypeInv
<1>5. events' \in 0..MaxEvents
      BY <1>1 DEF TypeInv
<1>6. QED
      BY <1>1, <1>3, <1>4, <1>5, OutsideType

(* The console and a restart: what they do to the ECU and to the wire.       *)
LEMMA EventCases ==
  ASSUME TypeInv, EcuInv, Console \/ Restart
  PROVE  /\ EcuType' /\ EcuWhole' /\ UNCHANGED down /\ events' \in 0..MaxEvents
         /\ UNCHANGED <<client, late, timeouts, asks, calls>>
         /\ \/ /\ UNCHANGED <<session, up>>
               /\ Record([svc |-> "console", arg |-> NoArg])
            \/ up' = <<>> /\ Record([svc |-> "restart", arg |-> NoArg])
<1>1. UNCHANGED <<client, late, timeouts, asks, calls>> /\ events' \in 0..MaxEvents
  <2>1. Event /\ events \in 0..MaxEvents /\ MaxEvents \in Nat
        BY UdsAssumption DEF TypeInv, Console, Restart
  <2>2. QED
        BY <2>1 DEF Event
<1>2. state \in States /\ stored \in SUBSET Faults /\ session \in Sessions
      /\ "normal" \in States /\ "default" \in Sessions
      BY DEF TypeInv, States, Sessions
<1>3. CASE Console
  <2>1. (\E s \in States : Apply(s, stored)) \/ Apply(state, {})
        BY <1>3 DEF Console, Clear
  <2>2. /\ state' \in States /\ sensor' \in States
        /\ active' \in SUBSET Faults /\ stored' \in SUBSET Faults
        /\ EcuWhole'
        BY <1>2, <2>1, ApplyWhole
  <2>3. UNCHANGED <<session, up, down>> /\ Record([svc |-> "console", arg |-> NoArg])
        BY <1>3 DEF Console, wire
  <2>4. QED
        BY <1>1, <1>2, <2>2, <2>3 DEF EcuType
<1>4. CASE Restart
  <2>1. /\ session' = "default" /\ Apply("normal", {}) /\ up' = <<>> /\ UNCHANGED down
        /\ Record([svc |-> "restart", arg |-> NoArg])
        BY <1>4 DEF Restart
  <2>2. /\ state' \in States /\ sensor' \in States
        /\ active' \in SUBSET Faults /\ stored' \in SUBSET Faults
        /\ EcuWhole'
        BY <1>2, <2>1, ApplyWhole
  <2>3. QED
        BY <1>1, <1>2, <2>1, <2>2 DEF EcuType
<1>5. QED
      BY <1>3, <1>4

LEMMA EventType ==
  ASSUME TypeInv, EcuInv, Console \/ Restart PROVE TypeInv'
<1>1. up' \in Seq(Requests) /\ down' \in Seq(Answers)
  <2>1. (up' = up \/ up' = <<>>) /\ down' = down
        BY EventCases
  <2>2. up \in Seq(Requests) /\ down \in Seq(Answers) /\ <<>> \in Seq(Requests)
        BY DEF TypeInv
  <2>3. QED
        BY <2>1, <2>2, Zenon
<1>2. DOMAIN done' = Clients /\ DOMAIN saw' = Clients
      BY EventCases, RecordType
<1>3. QED
      BY <1>1, <1>2, EventCases, OutsideType

LEMMA DropOne ==
  ASSUME NEW S, NEW q \in Seq(S), NEW p, p = q \/ (q # <<>> /\ p = Tail(q))
  PROVE  p \in Seq(S) /\ Elems(p) \subseteq Elems(q) /\ Len(p) <= Len(q)
<1>1. CASE p = q
      BY <1>1, ElemsTyped
<1>2. CASE q # <<>> /\ p = Tail(q)
  <2>1. Tail(q) \in Seq(S) /\ Len(Tail(q)) = Len(q) - 1 /\ Len(q) \in Nat
        /\ Elems(Tail(q)) \subseteq Elems(q)
        BY <1>2, ElemsTail
  <2> HIDE DEF Elems
  <2>2. Len(Tail(q)) <= Len(q)
        BY <2>1
  <2>3. QED
        BY <1>2, <2>1, <2>2, Zenon
<1>3. QED
      BY <1>1, <1>2

(* A message that is dropped, and a step that changes nothing.               *)
LEMMA DropCases ==
  ASSUME TypeInv, Miss \/ Lose \/ UNCHANGED vars
  PROVE  /\ UNCHANGED <<client, ecu, seen, late, timeouts, asks, calls>>
         /\ up' \in Seq(Requests) /\ down' \in Seq(Answers) /\ events' \in 0..MaxEvents
         /\ Elems(up') \subseteq Elems(up) /\ Elems(down') \subseteq Elems(down)
         /\ Len(up') <= Len(up) /\ Len(down') <= Len(down)
<1>1. up \in Seq(Requests) /\ down \in Seq(Answers) /\ events \in 0..MaxEvents
      /\ MaxEvents \in Nat /\ Len(up) \in Nat /\ Len(down) \in Nat
      BY UdsAssumption, ElemsTyped DEF TypeInv
<1>2. /\ UNCHANGED <<client, ecu, seen, late, timeouts, asks, calls>>
      /\ events' \in {events, events + 1} /\ (events' # events => events < MaxEvents)
      /\ up' = up \/ (up # <<>> /\ up' = Tail(up))
      /\ down' = down \/ (down # <<>> /\ down' = Tail(down))
  <2>1. CASE Miss
        BY <2>1 DEF Miss
  <2>2. CASE Lose
        BY <2>2 DEF Lose, Event
  <2>3. CASE UNCHANGED vars
        BY <2>3 DEF vars, wire
  <2>4. QED
        BY <2>1, <2>2, <2>3
<1>3. events' \in 0..MaxEvents
      BY <1>1, <1>2
<1>4. up' \in Seq(Requests) /\ Elems(up') \subseteq Elems(up) /\ Len(up') <= Len(up)
      BY <1>1, <1>2, DropOne
<1>5. down' \in Seq(Answers) /\ Elems(down') \subseteq Elems(down) /\ Len(down') <= Len(down)
      BY <1>1, <1>2, DropOne
<1>6. QED
      BY <1>2, <1>3, <1>4, <1>5

LEMMA DropType ==
  ASSUME TypeInv, Miss \/ Lose \/ UNCHANGED vars PROVE TypeInv'
<1>1. EcuType' /\ DOMAIN done' = Clients /\ DOMAIN saw' = Clients
      BY DropCases DEF TypeInv, EcuType, ecu, seen
<1>2. QED
      BY <1>1, DropCases, OutsideType

LEMMA NextCases ==
  ASSUME [Next]_vars
  PROVE  \/ \E c \in Clients : Begin(c) \/ Ask(c) \/ GiveUp(c) \/ Take(c)
         \/ Serve \/ Console \/ Restart
         \/ Miss \/ Lose \/ UNCHANGED vars
BY DEF Next, Client, Ecu

LEMMA NextType ==
  ASSUME TypeInv, EcuInv, [Next]_vars PROVE TypeInv'
BY NextCases, BeginType, AskType, GiveUpType, TakeType, ServeType, EventType, DropType

-----------------------------------------------------------------------------
(* The number of requests.                                                   *)

LEMMA NoMore ==
  ASSUME NEW S, NEW T, IsFiniteSet(S), T \subseteq S
  PROVE  IsFiniteSet(T) /\ Cardinality(T) \in Nat /\ Cardinality(S) \in Nat
         /\ Cardinality(T) <= Cardinality(S)
<1>1. IsFiniteSet(T) /\ Cardinality(T) <= Cardinality(S)
      BY FS_Subset, Zenon
<1>2. QED
      BY <1>1, FS_CardinalityType, Zenon

LEMMA OneMore ==
  ASSUME NEW S, NEW T, NEW x, IsFiniteSet(S), T \subseteq S \cup {x}
  PROVE  IsFiniteSet(T) /\ Cardinality(T) \in Nat /\ Cardinality(S) \in Nat
         /\ Cardinality(T) <= Cardinality(S) + 1
<1> DEFINE U == S \cup {x}
<1>1. /\ IsFiniteSet(U)
      /\ Cardinality(U) = IF x \in S THEN Cardinality(S) ELSE Cardinality(S) + 1
      BY FS_AddElement, Zenon
<1>2. Cardinality(S) \in Nat
      BY FS_CardinalityType, Zenon
<1> HIDE DEF U
<1>3. T \subseteq U
      BY DEF U
<1>4. IsFiniteSet(T) /\ Cardinality(T) \in Nat /\ Cardinality(T) <= Cardinality(U)
      BY <1>1, <1>3, NoMore, Zenon
<1>5. QED
      BY <1>1, <1>2, <1>4

LEMMA OneFewer ==
  ASSUME NEW S, NEW T, NEW x \in S, IsFiniteSet(S), T \subseteq S \ {x}
  PROVE  IsFiniteSet(T) /\ Cardinality(T) \in Nat /\ Cardinality(S) \in Nat
         /\ Cardinality(T) <= Cardinality(S) - 1
<1> DEFINE U == S \ {x}
<1>1. /\ IsFiniteSet(U)
      /\ Cardinality(U) = IF x \in S THEN Cardinality(S) - 1 ELSE Cardinality(S)
      BY FS_RemoveElement, Zenon
<1>2. Cardinality(S) \in Nat
      BY FS_CardinalityType, Zenon
<1> HIDE DEF U
<1>3. T \subseteq U
      BY DEF U
<1>4. IsFiniteSet(T) /\ Cardinality(T) \in Nat /\ Cardinality(T) <= Cardinality(U)
      BY <1>1, <1>3, NoMore, Zenon
<1>5. QED
      BY <1>1, <1>2, <1>4

(* What a step may do to the clients that may still ask.                     *)
LEMMA CountStep ==
  ASSUME CountInv, NEW c, calls \in Nat, asks \in Nat,
         \/ /\ asks' = asks /\ calls' = calls
            /\ Owing' \subseteq Owing /\ Second' \subseteq Second
         \/ /\ asks' = asks /\ calls' = calls + 1
            /\ Owing' \subseteq Owing \cup {c} /\ Second' \subseteq Second \cup {c}
         \/ /\ asks' = asks + 1 /\ calls' = calls
            /\ c \in Owing /\ Owing' \subseteq Owing \ {c} /\ Second' \subseteq Second
         \/ /\ asks' = asks + 1 /\ calls' = calls
            /\ c \in Second /\ Owing' \subseteq Owing /\ Second' \subseteq Second \ {c}
  PROVE  CountInv'
<1>1. /\ IsFiniteSet(Owing) /\ IsFiniteSet(Second)
      /\ asks + Cardinality(Owing) + Cardinality(Second) <= 2 * calls
      BY DEF CountInv
<1>2. SUFFICES /\ IsFiniteSet(Owing') /\ IsFiniteSet(Second')
               /\ asks' + Cardinality(Owing') + Cardinality(Second') <= 2 * calls'
      BY DEF CountInv
<1>3. CASE /\ asks' = asks /\ calls' = calls
           /\ Owing' \subseteq Owing /\ Second' \subseteq Second
  <2>1. /\ IsFiniteSet(Owing') /\ Cardinality(Owing') \in Nat /\ Cardinality(Owing) \in Nat
        /\ Cardinality(Owing') <= Cardinality(Owing)
        BY <1>1, <1>3, NoMore, Zenon
  <2>2. /\ IsFiniteSet(Second') /\ Cardinality(Second') \in Nat /\ Cardinality(Second) \in Nat
        /\ Cardinality(Second') <= Cardinality(Second)
        BY <1>1, <1>3, NoMore, Zenon
  <2>3. asks' + Cardinality(Owing') + Cardinality(Second') <= 2 * calls'
        BY <1>1, <1>3, <2>1, <2>2
  <2>4. QED
        BY <2>1, <2>2, <2>3
<1>4. CASE /\ asks' = asks /\ calls' = calls + 1
           /\ Owing' \subseteq Owing \cup {c} /\ Second' \subseteq Second \cup {c}
  <2>1. /\ IsFiniteSet(Owing') /\ Cardinality(Owing') \in Nat /\ Cardinality(Owing) \in Nat
        /\ Cardinality(Owing') <= Cardinality(Owing) + 1
        BY <1>1, <1>4, OneMore, Zenon
  <2>2. /\ IsFiniteSet(Second') /\ Cardinality(Second') \in Nat /\ Cardinality(Second) \in Nat
        /\ Cardinality(Second') <= Cardinality(Second) + 1
        BY <1>1, <1>4, OneMore, Zenon
  <2>3. asks' + Cardinality(Owing') + Cardinality(Second') <= 2 * calls'
        BY <1>1, <1>4, <2>1, <2>2
  <2>4. QED
        BY <2>1, <2>2, <2>3
<1>5. CASE /\ asks' = asks + 1 /\ calls' = calls
           /\ c \in Owing /\ Owing' \subseteq Owing \ {c} /\ Second' \subseteq Second
  <2>1. /\ IsFiniteSet(Owing') /\ Cardinality(Owing') \in Nat /\ Cardinality(Owing) \in Nat
        /\ Cardinality(Owing') <= Cardinality(Owing) - 1
        BY <1>1, <1>5, OneFewer, Zenon
  <2>2. /\ IsFiniteSet(Second') /\ Cardinality(Second') \in Nat /\ Cardinality(Second) \in Nat
        /\ Cardinality(Second') <= Cardinality(Second)
        BY <1>1, <1>5, NoMore, Zenon
  <2>3. asks' + Cardinality(Owing') + Cardinality(Second') <= 2 * calls'
        BY <1>1, <1>5, <2>1, <2>2
  <2>4. QED
        BY <2>1, <2>2, <2>3
<1>6. CASE /\ asks' = asks + 1 /\ calls' = calls
           /\ c \in Second /\ Owing' \subseteq Owing /\ Second' \subseteq Second \ {c}
  <2>1. /\ IsFiniteSet(Owing') /\ Cardinality(Owing') \in Nat /\ Cardinality(Owing) \in Nat
        /\ Cardinality(Owing') <= Cardinality(Owing)
        BY <1>1, <1>6, NoMore, Zenon
  <2>2. /\ IsFiniteSet(Second') /\ Cardinality(Second') \in Nat /\ Cardinality(Second) \in Nat
        /\ Cardinality(Second') <= Cardinality(Second) - 1
        BY <1>1, <1>6, OneFewer, Zenon
  <2>3. asks' + Cardinality(Owing') + Cardinality(Second') <= 2 * calls'
        BY <1>1, <1>6, <2>1, <2>2
  <2>4. QED
        BY <2>1, <2>2, <2>3
<1>7. QED
      BY <1>3, <1>4, <1>5, <1>6

LEMMA InitCount == Init => CountInv
<1> SUFFICES ASSUME Init PROVE CountInv
    OBVIOUS
<1>1. Owing = {} /\ Second = {} /\ asks = 0 /\ calls = 0
      BY DEF Init, Owing, Second
<1>2. QED
      BY <1>1, FS_EmptySet DEF CountInv

LEMMA NextCount ==
  ASSUME TypeInv, CountInv, AskedInv, EcuInv, [Next]_vars
  PROVE  CountInv'
<1>1. calls \in Nat /\ asks \in Nat
      BY UdsAssumption DEF TypeInv
<1>2. ASSUME NEW c \in Clients, Begin(c) PROVE CountInv'
  <2>1. Owing' \subseteq Owing \cup {c} /\ Second' \subseteq Second \cup {c}
    <3>1. \A d \in Clients \ {c} : pc'[d] = pc[d] /\ asked'[d] = asked[d] /\ call'[d] = call[d]
          BY <1>2 DEF Begin, TypeInv
    <3>2. QED
          BY <3>1 DEF Owing, Second
  <2>2. asks' = asks /\ calls' = calls + 1
        BY <1>2 DEF Begin
  <2>3. QED
        BY <1>1, <2>1, <2>2, CountStep
<1>3. ASSUME NEW c \in Clients, Ask(c) PROVE CountInv'
  <2>1. /\ asks' = asks + 1 /\ calls' = calls /\ call' = call
        /\ pc[c] = "ready" /\ pc'[c] = "waiting" /\ asked'[c].svc = asked[c].svc
        /\ \A d \in Clients \ {c} : pc'[d] = pc[d] /\ asked'[d] = asked[d]
        BY <1>3, AskType DEF Ask, TypeInv
  <2>2. CASE asked[c].svc # "2e"
    <3>1. c \in Owing /\ Owing' \subseteq Owing \ {c} /\ Second' \subseteq Second
          BY <2>1, <2>2 DEF Owing, Second
    <3>2. QED
          BY <1>1, <2>1, <3>1, CountStep
  <2>3. CASE asked[c].svc = "2e"
    <3>1. call[c].svc = "2e"
          BY <2>1, <2>3 DEF AskedInv
    <3>2. c \in Second /\ Second' \subseteq Second \ {c} /\ Owing' \subseteq Owing
          BY <2>1, <2>3, <3>1 DEF Owing, Second
    <3>3. QED
          BY <1>1, <2>1, <3>2, CountStep
  <2>4. QED
        BY <2>2, <2>3
<1>4. ASSUME NEW c \in Clients, GiveUp(c) \/ Take(c) PROVE CountInv'
  <2>1. /\ asks' = asks /\ calls' = calls /\ call' = call /\ pc[c] = "waiting"
        /\ \A d \in Clients \ {c} : pc'[d] = pc[d] /\ asked'[d] = asked[d]
        /\ pc'[c] = "idle" \/ (pc'[c] = "ready" /\ asked'[c].svc = "2e" /\ asked[c].svc = "10")
    <3>1. CASE GiveUp(c)
          BY <3>1 DEF GiveUp, Return, TypeInv
    <3>2. CASE Take(c)
          BY <3>2, TakeCases DEF TakeRefused, TakeOn, TakeOk, Return, TypeInv
    <3>3. QED
          BY <1>4, <3>1, <3>2
  <2>2. Owing' \subseteq Owing /\ Second' \subseteq Second
        BY <2>1 DEF Owing, Second
  <2>3. QED
        BY <1>1, <2>1, <2>2, CountStep
<1>5. ASSUME UNCHANGED <<client, asks, calls>> PROVE CountInv'
      BY <1>5 DEF CountInv, Owing, Second, client
<1>6. Serve \/ Console \/ Restart => UNCHANGED <<client, asks, calls>>
      BY DEF Serve, Console, Restart, Event
<1>7. Miss \/ Lose \/ UNCHANGED vars => UNCHANGED <<client, asks, calls>>
      BY DropCases
<1>8. QED
      BY <1>2, <1>3, <1>4, <1>5, <1>6, <1>7, NextCases

-----------------------------------------------------------------------------
(* A waiting client's request is the newest and belongs to its call.         *)
LEMMA InitAsked == Init => AskedInv
BY DEF Init, AskedInv

LEMMA NextAsked ==
  ASSUME TypeInv, AskedInv, EcuInv, [Next]_vars
  PROVE  AskedInv'
<1>1. ASSUME NEW c \in Clients, Begin(c) PROVE AskedInv'
  <2>1. /\ \A d \in Clients \ {c} : pc'[d] = pc[d] /\ asked'[d] = asked[d] /\ call'[d] = call[d]
        /\ asks' = asks /\ pc'[c] = "ready"
        BY <1>1 DEF Begin, TypeInv
  <2>2. PICK k \in Calls :
          /\ call' = [call EXCEPT ![c] = k]
          /\ asked' = [asked EXCEPT ![c] =
               IF k.svc = "2e" THEN [id |-> 0, svc |-> "10", arg |-> "extended"]
               ELSE [id |-> 0, svc |-> k.svc, arg |-> k.arg]]
        BY <1>1 DEF Begin
  <2>3. \/ call'[c].svc = "2e" /\ asked'[c].svc = "10" /\ asked'[c].arg = "extended"
        \/ asked'[c].svc = call'[c].svc /\ asked'[c].arg = call'[c].arg
        BY <2>2 DEF TypeInv
  <2>4. QED
        BY <2>1, <2>3 DEF AskedInv
<1>2. ASSUME NEW c \in Clients, Ask(c) PROVE AskedInv'
  <2>1. /\ asks' = asks + 1 /\ call' = call /\ lock = None
        /\ pc[c] = "ready" /\ pc'[c] = "waiting"
        /\ asked'[c].id = asks + 1 /\ asked'[c].svc = asked[c].svc /\ asked'[c].arg = asked[c].arg
        /\ \A d \in Clients \ {c} : pc'[d] = pc[d] /\ asked'[d] = asked[d]
        BY <1>2, AskType DEF Ask, TypeInv
  <2>2. \A d \in Clients : pc[d] # "waiting"
        BY <2>1, UdsAssumption DEF TypeInv
  <2>3. QED
        BY <2>1, <2>2 DEF AskedInv
<1>3. ASSUME NEW c \in Clients, GiveUp(c) PROVE AskedInv'
      BY <1>3 DEF GiveUp, Return, AskedInv, TypeInv
<1>4. ASSUME NEW c \in Clients, Take(c) PROVE AskedInv'
  <2>1. /\ asks' = asks /\ call' = call /\ pc'[c] # "waiting"
        /\ \A d \in Clients \ {c} : pc'[d] = pc[d] /\ asked'[d] = asked[d]
        /\ \/ pc'[c] = "idle"
           \/ asked'[c].svc = "2e" /\ call[c].svc = "2e" /\ asked'[c].arg = call[c].arg
        BY <1>4, TakeCases DEF TakeRefused, TakeOn, TakeOk, Return, TypeInv
  <2>2. QED
        BY <2>1 DEF AskedInv
<1>5. ASSUME UNCHANGED <<client, asks>> PROVE AskedInv'
      BY <1>5 DEF AskedInv, client
<1>6. Serve \/ Console \/ Restart => UNCHANGED <<client, asks>>
      BY DEF Serve, Console, Restart, Event
<1>7. Miss \/ Lose \/ UNCHANGED vars => UNCHANGED <<client, asks>>
      BY DropCases
<1>8. QED
      BY <1>1, <1>2, <1>3, <1>4, <1>5, <1>6, <1>7, NextCases

-----------------------------------------------------------------------------
(* What is on the wire.                                                      *)

(* What is recorded of a call under way only grows, and what ended a session *)
(* stays recorded.                                                           *)
Grown(c) == /\ done[c] \subseteq done'[c] /\ saw[c] \subseteq saw'[c]
            /\ Held(c) => Held(c)'

LEMMA EndedStays ==
  ASSUME NEW c \in Clients, done[c] \subseteq done'[c], Ended(c) PROVE Ended(c)'
BY DEF Ended

LEMMA ConfirmsStays ==
  ASSUME NEW c \in Clients, NEW m, Grown(c), Confirms(c, m) PROVE Confirms(c, m)'
<1>1. [svc |-> m.svc, arg |-> m.arg] \in done'[c]
      BY DEF Confirms, Grown
<1>2. m.svc \in Reads => m.data \in {View(m.svc, s) : s \in saw'[c]}
      BY DEF Confirms, Grown
<1>3. m.svc = "10" /\ m.arg = "extended" => Held(c)'
      BY DEF Confirms, Grown
<1>4. QED
      BY <1>1, <1>2, <1>3 DEF Confirms

LEMMA DeniesStays ==
  ASSUME NEW c \in Clients, NEW m, Grown(c), late'[c] = late[c], Denies(c, m)
  PROVE  Denies(c, m)'
BY EndedStays DEF Denies, Grown

(* A step of the ECU or of the wire may take messages away and add an answer *)
(* that fits.                                                                *)
Fits(c, m) == lock = c /\ m.id = asks =>
  /\ m.svc = asked[c].svc /\ m.arg = asked[c].arg
  /\ IF m.positive THEN Confirms(c, m)' ELSE Denies(c, m)'

LEMMA OutsideWire ==
  ASSUME TypeInv, WireInv, UNCHANGED <<client, late, asks>>,
         \A c \in Clients : pc[c] # "idle" => Grown(c),
         Elems(up') \subseteq Elems(up),
         \A m \in Elems(down') \ Elems(down) :
           m.id \in 1..asks /\ \A c \in Clients : Fits(c, m)
  PROVE  WireInv'
<1>1. /\ lock' = lock /\ pc' = pc /\ asked' = asked /\ late' = late /\ asks' = asks
      BY DEF client
<1>2. Numbered'
      BY <1>1 DEF WireInv, Numbered
<1>3. Repeated'
      BY <1>1 DEF WireInv, Repeated, Fits
<1>4. Answered'
  <2>1. SUFFICES ASSUME NEW c \in Clients, NEW m \in Elems(down)', lock' = c, m.id = asks'
                 PROVE  IF m.positive THEN Confirms(c, m)' ELSE Denies(c, m)'
        BY DEF Answered
  <2>2. lock = c /\ m.id = asks /\ Grown(c)
        BY <1>1, <2>1 DEF TypeInv
  <2>3. CASE m \in Elems(down)
    <3>1. IF m.positive THEN Confirms(c, m) ELSE Denies(c, m)
          BY <2>2, <2>3 DEF WireInv, Answered
    <3>2. CASE m.positive
          BY <2>2, <3>1, <3>2, ConfirmsStays
    <3>3. CASE ~m.positive
          BY <1>1, <2>2, <3>1, <3>3, DeniesStays
    <3>4. QED
          BY <3>2, <3>3
  <2>4. CASE m \notin Elems(down)
        BY <2>1, <2>2, <2>4 DEF Fits
  <2>5. QED
        BY <2>3, <2>4
<1>5. Opened'
      BY <1>1 DEF WireInv, Opened, Grown
<1>6. QED
      BY <1>2, <1>3, <1>4, <1>5 DEF WireInv

LEMMA InitWire == Init => WireInv
<1> SUFFICES ASSUME Init PROVE WireInv
    OBVIOUS
<1>1. up = <<>> /\ down = <<>> /\ \A c \in Clients : pc[c] = "idle"
      BY DEF Init
<1>2. Elems(up) = {} /\ Elems(down) = {}
      BY <1>1, ElemsEmpty
<1>3. QED
      BY <1>1, <1>2 DEF WireInv, Numbered, Repeated, Answered, Opened

LEMMA BeginWire ==
  ASSUME TypeInv, WireInv, NEW c \in Clients, Begin(c) PROVE WireInv'
<1>1. /\ lock' = lock /\ lock # c /\ asks' = asks /\ up' = up /\ down' = down
      /\ session' = session
      /\ \A d \in Clients \ {c} : /\ pc'[d] = pc[d] /\ asked'[d] = asked[d]
                                  /\ done'[d] = done[d] /\ saw'[d] = saw[d] /\ late'[d] = late[d]
      BY DEF Begin, TypeInv, wire, ecu
<1>2. asked'[c].svc # "2e"
      BY DEF Begin, TypeInv
<1>3. \A d \in Clients \ {c} : (Held(d) => Held(d)') /\ (Ended(d) => Ended(d)')
      BY <1>1 DEF Held, Ended
<1>4. Numbered' /\ Repeated'
      BY <1>1 DEF WireInv, Numbered, Repeated
<1>5. Answered'
  <2>1. SUFFICES ASSUME NEW d \in Clients, NEW m \in Elems(down), lock = d, m.id = asks
                 PROVE  IF m.positive THEN Confirms(d, m)' ELSE Denies(d, m)'
        BY <1>1 DEF Answered
  <2>2. d # c /\ Grown(d) /\ late'[d] = late[d]
        BY <1>1, <1>3, <2>1 DEF Grown
  <2>3. IF m.positive THEN Confirms(d, m) ELSE Denies(d, m)
        BY <2>1 DEF WireInv, Answered
  <2>4. QED
        BY <2>2, <2>3, ConfirmsStays, DeniesStays
<1>6. Opened'
      BY <1>1, <1>2, <1>3 DEF WireInv, Opened
<1>7. QED
      BY <1>4, <1>5, <1>6 DEF WireInv

LEMMA AskWire ==
  ASSUME TypeInv, WireInv, NEW c \in Clients, Ask(c) PROVE WireInv'
<1>1. /\ lock' = c /\ asks' = asks + 1 /\ asks \in Nat /\ down' = down /\ session' = session
      /\ done' = done /\ saw' = saw /\ late' = late /\ pc[c] = "ready"
      /\ \A d \in Clients \ {c} : pc'[d] = pc[d] /\ asked'[d] = asked[d]
      BY DEF Ask, TypeInv, seen, ecu
<1>2. /\ asked'[c] = [id |-> asks + 1, svc |-> asked[c].svc, arg |-> asked[c].arg]
      /\ Elems(up') = Elems(up) \cup {asked'[c]}
      BY AskType
<1>3. \A m \in Elems(up) \cup Elems(down) : m.id \in 1..asks
      BY DEF WireInv, Numbered
<1>4. \A m \in Elems(up) \cup Elems(down) : m.id # asks'
      BY <1>1, <1>3
<1>5. Numbered'
      BY <1>1, <1>2, <1>3 DEF Numbered
<1>6. Repeated'
      BY <1>1, <1>2, <1>4 DEF Repeated
<1>7. Answered'
      BY <1>1, <1>4 DEF Answered
<1>8. Opened'
      BY <1>1, <1>2 DEF WireInv, Opened, Held, Ended
<1>9. QED
      BY <1>5, <1>6, <1>7, <1>8 DEF WireInv

LEMMA GiveUpWire ==
  ASSUME TypeInv, WireInv, NEW c \in Clients, GiveUp(c) PROVE WireInv'
<1>1. /\ lock' = None /\ asks' = asks /\ up' = up /\ down' = down /\ session' = session
      /\ asked' = asked /\ done' = done /\ late' = late /\ pc'[c] = "idle"
      /\ \A d \in Clients \ {c} : pc'[d] = pc[d]
      BY DEF GiveUp, Return, TypeInv, wire, seen, ecu
<1>2. \A d \in Clients : lock' # d
      BY <1>1, UdsAssumption
<1>3. Numbered' /\ Repeated' /\ Answered'
      BY <1>1, <1>2 DEF WireInv, Numbered, Repeated, Answered
<1>4. Opened'
      BY <1>1 DEF WireInv, Opened, Held, Ended
<1>5. QED
      BY <1>3, <1>4 DEF WireInv

LEMMA TakeWire ==
  ASSUME TypeInv, AskedInv, WireInv, NEW c \in Clients, Take(c) PROVE WireInv'
<1>1. PICK a \in Answers :
           /\ a \in Elems(down) /\ a = Head(down) /\ pc[c] = "waiting" /\ down # <<>>
           /\ late' = [late EXCEPT ![c] = @ \/ a.id # asked[c].id]
           /\ TakeRefused(c, a) \/ TakeOn(c, a) \/ TakeOk(c, a)
           /\ lock' = None /\ down' = Tail(down)
           /\ UNCHANGED <<call, up, ecu, seen, timeouts, asks, calls, events>>
      BY TakeCases
<1>2. /\ lock = c /\ asks' = asks /\ up' = up /\ session' = session /\ done' = done
      /\ Elems(down') \subseteq Elems(down)
      BY <1>1, TakeType DEF TypeInv, ecu, seen
<1>3. \A d \in Clients : lock' # d
      BY <1>1, UdsAssumption
<1>4. Numbered' /\ Repeated' /\ Answered'
      BY <1>2, <1>3 DEF WireInv, Numbered, Repeated, Answered
<1>5. \A d \in Clients : Held(d)' <=> Held(d)
      BY <1>2 DEF Held, Ended
<1>6. /\ \A d \in Clients \ {c} : pc'[d] = pc[d] /\ asked'[d] = asked[d] /\ late'[d] = late[d]
      /\ pc'[c] = "idle" \/ TakeOn(c, a)
      /\ ~late'[c] => a.id = asked[c].id
      BY <1>1 DEF TakeRefused, TakeOn, TakeOk, Return, TypeInv
<1>7. ASSUME TakeOn(c, a), ~late'[c] PROVE Held(c)
  <2>1. a.positive /\ a.svc = "10" /\ asked[c].svc = "10" /\ call[c].svc = "2e" /\ a.arg = asked[c].arg
        BY <1>7 DEF TakeOn, Expected
  <2>2. asked[c].arg = "extended" /\ asked[c].id = asks
        BY <1>1, <2>1 DEF AskedInv
  <2>3. Confirms(c, a)
        BY <1>1, <1>2, <1>6, <1>7, <2>1, <2>2 DEF WireInv, Answered
  <2>4. QED
        BY <2>1, <2>2, <2>3 DEF Confirms
<1>8. Opened'
      BY <1>5, <1>6, <1>7 DEF WireInv, Opened
<1>9. QED
      BY <1>4, <1>8 DEF WireInv

(* What Record adds to the records of the calls under way, and only to them. *)
LEMMA RecordAdds ==
  ASSUME TypeInv, NEW what, Record(what), NEW c \in Clients
  PROVE  /\ pc[c] # "idle" => /\ done'[c] = done[c] \cup {what}
                              /\ saw'[c] = saw[c] \cup {After}
         /\ pc[c] = "idle" => done'[c] = done[c] /\ saw'[c] = saw[c]
BY DEF Record, InCall, After, TypeInv

LEMMA ServeGrows ==
  ASSUME TypeInv, NEW q \in Requests, NEW a, ServeDone(q, a) \/ ServeRefused(q, a),
         NEW c \in Clients, pc[c] # "idle"
  PROVE  Grown(c)
<1>1. CASE ServeDone(q, a)
  <2>1. /\ done'[c] = done[c] \cup {[svc |-> q.svc, arg |-> q.arg]}
        /\ saw'[c] = saw[c] \cup {After}
        /\ session' = IF q.svc = "10" THEN q.arg ELSE session
        BY <1>1, RecordAdds DEF ServeDone
  <2>2. q.svc = "10" => q.arg \in {"default", "extended"}
        BY RequestFields DEF Sessions
  <2>3. Held(c) => Held(c)'
        BY <2>1, <2>2 DEF Held, Ended
  <2>4. QED
        BY <2>1, <2>3 DEF Grown
<1>2. CASE ServeRefused(q, a)
      BY <1>2 DEF ServeRefused, ecu, seen, Grown, Held, Ended
<1>3. QED
      BY <1>1, <1>2

LEMMA ServeWire ==
  ASSUME TypeInv, EcuInv, WireInv, Serve PROVE WireInv'
<1>1. PICK q \in Requests, a \in Answers :
           /\ up # <<>> /\ q = Head(up) /\ up' = Tail(up) /\ down' = Append(down, a)
           /\ a.id = q.id /\ a.svc = q.svc /\ a.arg = q.arg /\ Belongs(a.svc, a.data)
           /\ EcuType' /\ EcuWhole'
           /\ ServeDone(q, a) \/ ServeRefused(q, a)
           /\ UNCHANGED <<client, late, timeouts, asks, calls, events>>
      BY ServeCases
<1>2. /\ Elems(up') \subseteq Elems(up) /\ q \in Elems(up)
      /\ Elems(down') = Elems(down) \cup {a}
  <2>1. up \in Seq(Requests) /\ down \in Seq(Answers)
        BY DEF TypeInv
  <2>2. QED
        BY <1>1, <2>1, ElemsTail, ElemsAppend
<1>3. \A c \in Clients : pc[c] # "idle" => Grown(c)
      BY <1>1, ServeGrows
<1>4. a.id \in 1..asks
      BY <1>1, <1>2 DEF WireInv, Numbered
<1>5. ASSUME NEW c \in Clients, lock = c, a.id = asks
      PROVE  /\ a.svc = asked[c].svc /\ a.arg = asked[c].arg
             /\ IF a.positive THEN Confirms(c, a)' ELSE Denies(c, a)'
  <2>1. a.svc = asked[c].svc /\ a.arg = asked[c].arg
        BY <1>1, <1>2, <1>5 DEF WireInv, Repeated
  <2>2. pc[c] # "idle" /\ late'[c] = late[c] /\ asked' = asked /\ pc' = pc
        BY <1>1, <1>5 DEF TypeInv, client
  <2>3. CASE ServeDone(q, a)
    <3>1. /\ done'[c] = done[c] \cup {[svc |-> q.svc, arg |-> q.arg]}
          /\ saw'[c] = saw[c] \cup {After} /\ a.positive
          /\ session' = (IF q.svc = "10" THEN q.arg ELSE session)
          /\ q.svc \in Reads => a.data = View(q.svc, After)
          BY <2>2, <2>3, RecordAdds DEF ServeDone
    <3>2. [svc |-> a.svc, arg |-> a.arg] \in done'[c]
          BY <1>1, <3>1
    <3>3. a.svc \in Reads => a.data \in {View(a.svc, s) : s \in saw'[c]}
          BY <1>1, <3>1
    <3>4. a.svc = "10" /\ a.arg = "extended" => Held(c)'
          BY <1>1, <3>1 DEF Held
    <3>5. Confirms(c, a)'
          BY <3>2, <3>3, <3>4 DEF Confirms
    <3>6. QED
          BY <2>1, <3>1, <3>5
  <2>4. CASE ServeRefused(q, a)
    <3>1. ~a.positive /\ a.svc = "2e" /\ session # "extended" /\ done' = done
          BY <1>1, <2>4 DEF ServeRefused, seen
    <3>2. ~late[c] => Held(c)
          BY <2>1, <2>2, <3>1 DEF WireInv, Opened
    <3>3. Denies(c, a)'
          BY <2>2, <3>1, <3>2 DEF Denies, Held, Ended
    <3>4. QED
          BY <2>1, <3>1, <3>3
  <2>5. QED
        BY <1>1, <2>3, <2>4
<1>6. \A c \in Clients : Fits(c, a)
      BY <1>5 DEF Fits
<1>7. \A m \in Elems(down') \ Elems(down) :
           m.id \in 1..asks /\ \A c \in Clients : Fits(c, m)
  <2>1. \A m \in Elems(down') \ Elems(down) : m = a
        BY <1>2
  <2>2. QED
        BY <2>1, <1>4, <1>6
<1>8. UNCHANGED <<client, late, asks>>
      BY <1>1
<1>9. QED
      BY <1>2, <1>3, <1>7, <1>8, OutsideWire

LEMMA EventWire ==
  ASSUME TypeInv, EcuInv, WireInv, Console \/ Restart PROVE WireInv'
<1>1. /\ UNCHANGED <<client, late, timeouts, asks, calls>> /\ UNCHANGED down
      /\ \/ /\ UNCHANGED <<session, up>>
            /\ Record([svc |-> "console", arg |-> NoArg])
         \/ up' = <<>> /\ Record([svc |-> "restart", arg |-> NoArg])
      BY EventCases
<1>2. Elems(up') \subseteq Elems(up) /\ Elems(down') = Elems(down)
      BY <1>1, ElemsEmpty
<1>3. ASSUME NEW c \in Clients, pc[c] # "idle" PROVE Grown(c)
  <2>1. CASE UNCHANGED <<session, up>> /\ Record([svc |-> "console", arg |-> NoArg])
    <3>1. /\ done'[c] = done[c] \cup {[svc |-> "console", arg |-> NoArg]}
          /\ saw'[c] = saw[c] \cup {After} /\ session' = session
          BY <1>3, <2>1, RecordAdds
    <3>2. QED
          BY <3>1 DEF Grown, Held, Ended
  <2>2. CASE up' = <<>> /\ Record([svc |-> "restart", arg |-> NoArg])
    <3>1. /\ done'[c] = done[c] \cup {[svc |-> "restart", arg |-> NoArg]}
          /\ saw'[c] = saw[c] \cup {After}
          BY <1>3, <2>2, RecordAdds
    <3>2. QED
          BY <3>1 DEF Grown, Held, Ended
  <2>3. QED
        BY <1>1, <2>1, <2>2
<1>4. QED
      BY <1>1, <1>2, <1>3, OutsideWire

LEMMA DropWire ==
  ASSUME TypeInv, WireInv, Miss \/ Lose \/ UNCHANGED vars PROVE WireInv'
<1>1. /\ UNCHANGED <<client, late, asks>>
      /\ Elems(up') \subseteq Elems(up) /\ Elems(down') \subseteq Elems(down)
      /\ done' = done /\ saw' = saw /\ session' = session
      BY DropCases DEF seen, ecu
<1>2. \A c \in Clients : Grown(c)
      BY <1>1 DEF Grown, Held, Ended
<1>3. QED
      BY <1>1, <1>2, OutsideWire

LEMMA NextWire ==
  ASSUME TypeInv, AskedInv, EcuInv, WireInv, [Next]_vars PROVE WireInv'
BY NextCases, BeginWire, AskWire, GiveUpWire, TakeWire, ServeWire, EventWire, DropWire

-----------------------------------------------------------------------------
(* The ECU's data and what it says of them.                                  *)
LEMMA InitEcu == Init => EcuInv
<1> SUFFICES ASSUME Init PROVE EcuInv
    OBVIOUS
<1>1. Elems(down) = {}
      BY ElemsEmpty DEF Init
<1>2. QED
      BY <1>1 DEF Init, EcuInv

LEMMA NextEcu ==
  ASSUME TypeInv, EcuInv, [Next]_vars PROVE EcuInv'
<1>1. ASSUME UNCHANGED ecu, Elems(down') \subseteq Elems(down) PROVE EcuInv'
      BY <1>1 DEF EcuInv, ecu
<1>2. ASSUME NEW c \in Clients, Begin(c) \/ Ask(c) \/ GiveUp(c) PROVE EcuInv'
  <2>1. UNCHANGED ecu /\ down' = down
        BY <1>2 DEF Begin, Ask, GiveUp, wire
  <2>2. QED
        BY <1>1, <2>1
<1>3. ASSUME NEW c \in Clients, Take(c) PROVE EcuInv'
  <2>1. UNCHANGED ecu
        BY <1>3 DEF Take
  <2>2. QED
        BY <1>1, <1>3, <2>1, TakeType
<1>4. CASE Serve
  <2>1. PICK q \in Requests, a \in Answers :
             /\ down' = Append(down, a) /\ Belongs(a.svc, a.data) /\ EcuWhole'
        BY <1>4, ServeCases
  <2>2. Elems(down') = Elems(down) \cup {a}
        BY <2>1, ElemsAppend DEF TypeInv
  <2>3. QED
        BY <2>1, <2>2 DEF EcuInv, EcuWhole
<1>5. CASE Console \/ Restart
      BY <1>5, EventCases DEF EcuInv, EcuWhole
<1>6. CASE Miss \/ Lose \/ UNCHANGED vars
      BY <1>1, <1>6, DropCases
<1>7. QED
      BY <1>2, <1>3, <1>4, <1>5, <1>6, NextCases

-----------------------------------------------------------------------------
(* As long as nobody has stopped waiting.                                    *)
LEMMA InitOnTime == Init => OnTimeInv
<1> SUFFICES ASSUME Init PROVE OnTimeInv
    OBVIOUS
<1>1. /\ Elems(up) = {} /\ Len(up) = 0 /\ Elems(down) = {} /\ Len(down) = 0
      BY ElemsEmpty DEF Init
<1>2. QED
      BY <1>1 DEF Init, OnTimeInv

LEMMA NextOnTime ==
  ASSUME TypeInv, AskedInv, EcuInv, OnTimeInv, [Next]_vars PROVE OnTimeInv'
<1>1. /\ Len(up) \in Nat /\ Len(down) \in Nat /\ asks \in Nat
      /\ Len(up) = 0 => Elems(up) = {}
      /\ Len(down) = 0 => Elems(down) = {}
      BY ElemsTyped DEF TypeInv
<1>2. ASSUME NEW c \in Clients, Begin(c) PROVE OnTimeInv'
  <2>1. /\ lock' = lock /\ asks' = asks /\ up' = up /\ down' = down /\ timeouts' = timeouts
        /\ late'[c] = FALSE /\ \A d \in Clients \ {c} : late'[d] = late[d]
        BY <1>2 DEF Begin, TypeInv, wire
  <2>2. QED
        BY <2>1 DEF OnTimeInv
<1>3. ASSUME NEW c \in Clients, Ask(c) PROVE OnTimeInv'
  <2>1. /\ lock = None /\ lock' = c /\ asks' = asks + 1 /\ down' = down
        /\ timeouts' = timeouts /\ late' = late /\ c # None
        BY <1>3, UdsAssumption DEF Ask
  <2>2. /\ asked'[c].id = asks + 1
        /\ Elems(up') = Elems(up) \cup {asked'[c]} /\ Len(up') = Len(up) + 1
    <3>1. /\ asked'[c] = [id |-> asks + 1, svc |-> asked[c].svc, arg |-> asked[c].arg]
          /\ Elems(up') = Elems(up) \cup {asked'[c]} /\ Len(up') = Len(up) + 1
          BY <1>3, AskType
    <3>2. asked'[c].id = asks + 1
          BY <3>1
    <3>3. QED
          BY <3>1, <3>2
  <2>3. CASE timeouts
        BY <2>1, <2>3 DEF OnTimeInv
  <2>4. CASE ~timeouts
    <3>1. Len(up) = 0 /\ Len(down) = 0 /\ Elems(up) = {} /\ Elems(down) = {}
          BY <1>1, <2>1, <2>4 DEF OnTimeInv
    <3>2. QED
          BY <2>1, <2>2, <3>1 DEF OnTimeInv
  <2>5. QED
        BY <2>3, <2>4 DEF TypeInv
<1>4. ASSUME NEW c \in Clients, GiveUp(c) PROVE OnTimeInv'
      BY <1>4 DEF GiveUp, OnTimeInv
<1>5. ASSUME NEW c \in Clients, Take(c) PROVE OnTimeInv'
  <2>1. PICK a \in Answers :
           /\ a \in Elems(down) /\ a = Head(down) /\ pc[c] = "waiting" /\ down # <<>>
           /\ late' = [late EXCEPT ![c] = @ \/ a.id # asked[c].id]
           /\ TakeRefused(c, a) \/ TakeOn(c, a) \/ TakeOk(c, a)
           /\ lock' = None /\ down' = Tail(down)
           /\ UNCHANGED <<call, up, ecu, seen, timeouts, asks, calls, events>>
        BY <1>5, TakeCases
  <2>2. Elems(down') \subseteq Elems(down) /\ Len(down') = Len(down) - 1
        BY <1>5, TakeType
  <2>3. CASE timeouts
        BY <2>1, <2>3 DEF OnTimeInv
  <2>4. CASE ~timeouts
    <3>1. a.id = asks /\ asked[c].id = asks
          BY <2>1, <2>4 DEF OnTimeInv, AskedInv
    <3>2. \A d \in Clients : late'[d] <=> late[d]
          BY <2>1, <3>1 DEF TypeInv
    <3>3. Len(up) + Len(down) <= 1 /\ Len(down) # 0
          BY <1>1, <2>1, <2>4 DEF OnTimeInv
    <3>4. Len(up) + (Len(down) - 1) = 0
          BY <1>1, <3>3
    <3>5. QED
          BY <2>1, <2>2, <2>4, <3>2, <3>4 DEF OnTimeInv
  <2>5. QED
        BY <2>3, <2>4 DEF TypeInv
<1>6. CASE Serve
  <2>1. PICK q \in Requests, a \in Answers :
           /\ up # <<>> /\ q = Head(up) /\ up' = Tail(up) /\ down' = Append(down, a)
           /\ a.id = q.id
           /\ UNCHANGED <<client, late, timeouts, asks, calls, events>>
        BY <1>6, ServeCases
  <2>2. up \in Seq(Requests) /\ down \in Seq(Answers)
        BY DEF TypeInv
  <2>3. /\ Elems(up') \subseteq Elems(up) /\ q \in Elems(up) /\ Len(up') = Len(up) - 1
        /\ Elems(down') = Elems(down) \cup {a} /\ Len(down') = Len(down) + 1
        BY <2>1, <2>2, ElemsTail, ElemsAppend
  <2>4. Len(up') + Len(down') = Len(up) + Len(down)
        BY <1>1, <2>3
  <2>5. QED
        BY <2>1, <2>3, <2>4 DEF OnTimeInv, client
<1>7. ASSUME UNCHANGED <<client, late, timeouts, asks>>,
             Elems(up') \subseteq Elems(up), Elems(down') \subseteq Elems(down),
             Len(up') \in Nat, Len(down') \in Nat,
             Len(up') <= Len(up), Len(down') <= Len(down)
      PROVE  OnTimeInv'
  <2>1. Len(up') + Len(down') <= Len(up) + Len(down) /\ Len(up') + Len(down') \in Nat
        /\ (Len(up) + Len(down) = 0 => Len(up') + Len(down') = 0)
        /\ (Len(up) + Len(down) <= 1 => Len(up') + Len(down') <= 1)
        BY <1>1, <1>7
  <2>2. QED
        BY <1>7, <2>1 DEF OnTimeInv, client
<1>8. CASE Console \/ Restart
  <2>1. /\ UNCHANGED <<client, late, timeouts, asks>>
        /\ down' = down /\ (up' = up \/ up' = <<>>)
        BY <1>8, EventCases
  <2>2. Elems(up') \subseteq Elems(up) /\ Len(up') \in Nat /\ Len(up') <= Len(up)
        BY <1>1, <2>1, ElemsEmpty
  <2>3. QED
        BY <1>1, <1>7, <2>1, <2>2
<1>9. CASE Miss \/ Lose \/ UNCHANGED vars
  <2>1. Len(up') \in Nat /\ Len(down') \in Nat
        BY <1>9, DropCases, ElemsTyped
  <2>2. QED
        BY <1>7, <1>9, <2>1, DropCases
<1>10. QED
      BY <1>2, <1>3, <1>4, <1>5, <1>6, <1>8, <1>9, NextCases

-----------------------------------------------------------------------------
(* The results of the calls.                                                 *)
LEMMA InitResult == Init => ResultInv
<1> SUFFICES ASSUME Init, NEW c \in Clients PROVE Kept(c)
    BY DEF ResultInv
<1>1. ret[c].code = "none"
      BY DEF Init
<1>2. QED
      BY <1>1 DEF Kept, Succeeded

(* Nothing touches the result of a client that stays idle.                   *)
LEMMA KeptStays ==
  ASSUME NEW c \in Clients, Kept(c), pc'[c] = pc[c], ret'[c] = ret[c], call'[c] = call[c],
         late'[c] = late[c], pc[c] = "idle" => done'[c] = done[c] /\ saw'[c] = saw[c]
  PROVE  Kept(c)'
BY DEF Kept, Succeeded, Ended

LEMMA BusyKept ==
  ASSUME NEW c \in Clients, pc'[c] # "idle" PROVE Kept(c)'
BY DEF Kept, Succeeded

LEMMA TakeResult ==
  ASSUME TypeInv, AskedInv, WireInv, EcuInv, NEW c \in Clients, Take(c) PROVE Kept(c)'
<1>1. PICK a \in Answers :
           /\ a \in Elems(down) /\ a = Head(down) /\ pc[c] = "waiting" /\ down # <<>>
           /\ late' = [late EXCEPT ![c] = @ \/ a.id # asked[c].id]
           /\ TakeRefused(c, a) \/ TakeOn(c, a) \/ TakeOk(c, a)
           /\ lock' = None /\ down' = Tail(down)
           /\ UNCHANGED <<call, up, ecu, seen, timeouts, asks, calls, events>>
      BY TakeCases
<1>2. /\ lock = c /\ asked[c].id = asks /\ done' = done /\ saw' = saw /\ call' = call
      /\ ~late'[c] => a.id = asks /\ ~late[c]
      BY <1>1 DEF TypeInv, AskedInv, seen
<1>3. ~late'[c] => /\ a.svc = asked[c].svc /\ a.arg = asked[c].arg
                   /\ IF a.positive THEN Confirms(c, a) ELSE Denies(c, a)
      BY <1>1, <1>2 DEF WireInv, Repeated, Answered
<1>4. Belongs(a.svc, a.data)
      BY <1>1 DEF EcuInv
<1>5. CASE TakeOk(c, a)
  <2>1. /\ a.positive /\ a.svc = asked[c].svc /\ a.arg = asked[c].arg
        /\ ~(call[c].svc = "2e" /\ asked[c].svc = "10")
        /\ pc'[c] = "idle" /\ ret'[c] = [code |-> "OK", got |-> a.data]
        BY <1>5 DEF TakeOk, Expected, Return, TypeInv
  <2>2. a.svc = call[c].svc /\ a.arg = call[c].arg
        BY <1>1, <2>1 DEF AskedInv
  <2>3. call[c] = [svc |-> a.svc, arg |-> a.arg]
        BY <2>2, CallsTyped DEF TypeInv
  <2>4. ~late'[c] => call'[c] \in done'[c]
        BY <1>2, <1>3, <2>1, <2>3 DEF Confirms
  <2>5. ~late'[c] /\ call[c].svc \in Reads => a.data \in {View(call[c].svc, s) : s \in saw[c]}
        BY <1>3, <2>1, <2>2 DEF Confirms
  <2>6. QED
        BY <1>2, <1>4, <2>1, <2>2, <2>4, <2>5 DEF Kept
<1>6. CASE TakeRefused(c, a)
  <2>1. /\ ~Expected(c, a) /\ pc'[c] = "idle" /\ ret'[c] = [code |-> "EPROTO", got |-> NoArg]
        BY <1>6 DEF TakeRefused, Return, TypeInv
  <2>2. ASSUME ~late'[c] PROVE call[c].svc = "2e" /\ Ended(c)
    <3>1. ~a.positive
          BY <1>3, <2>1, <2>2 DEF Expected
    <3>2. Denies(c, a) /\ ~late[c] /\ a.svc = asked[c].svc
          BY <1>2, <1>3, <2>2, <3>1
    <3>3. asked[c].svc = "2e" /\ Ended(c)
          BY <3>2 DEF Denies
    <3>4. call[c].svc = "2e"
          BY <1>1, <3>3 DEF AskedInv
    <3>5. QED
          BY <3>3, <3>4
  <2>3. Ended(c) => Ended(c)'
        BY <1>2 DEF Ended
  <2>4. QED
        BY <1>2, <2>1, <2>2, <2>3 DEF Kept, Succeeded
<1>7. CASE TakeOn(c, a)
  <2>1. pc'[c] # "idle"
        BY <1>7 DEF TakeOn, TypeInv
  <2>2. QED
        BY <2>1, BusyKept
<1>8. QED
      BY <1>1, <1>5, <1>6, <1>7

LEMMA NextResult ==
  ASSUME TypeInv, AskedInv, WireInv, EcuInv, ResultInv, [Next]_vars PROVE ResultInv'
<1> USE DEF ResultInv
<1>1. ASSUME NEW c \in Clients, Begin(c) \/ Ask(c) \/ GiveUp(c) \/ Take(c),
             NEW d \in Clients \ {c}
      PROVE  Kept(d)'
  <2>1. /\ pc'[d] = pc[d] /\ ret'[d] = ret[d] /\ call'[d] = call[d] /\ late'[d] = late[d]
        /\ done'[d] = done[d] /\ saw'[d] = saw[d]
    <3>1. CASE Begin(c)
          BY <3>1 DEF Begin, TypeInv
    <3>2. CASE Ask(c)
          BY <3>2 DEF Ask, TypeInv, seen
    <3>3. CASE GiveUp(c)
          BY <3>3 DEF GiveUp, Return, TypeInv, seen
    <3>4. CASE Take(c)
          BY <3>4, TakeCases DEF TakeRefused, TakeOn, TakeOk, Return, TypeInv, seen
    <3>5. QED
          BY <1>1, <3>1, <3>2, <3>3, <3>4
  <2>2. QED
        BY <2>1, KeptStays
<1>2. ASSUME NEW c \in Clients, Begin(c) \/ Ask(c) PROVE Kept(c)'
  <2>1. pc'[c] # "idle"
        BY <1>2 DEF Begin, Ask, TypeInv
  <2>2. QED
        BY <2>1, BusyKept
<1>3. ASSUME NEW c \in Clients, GiveUp(c) PROVE Kept(c)'
  <2>1. ret'[c].code = "ETIMEDOUT"
        BY <1>3 DEF GiveUp, Return, TypeInv
  <2>2. QED
        BY <2>1 DEF Kept, Succeeded
<1>4. ASSUME UNCHANGED <<client, late>>,
             \A c \in Clients : pc[c] = "idle" => done'[c] = done[c] /\ saw'[c] = saw[c]
      PROVE  ResultInv'
      BY <1>4, KeptStays DEF client
<1>5. CASE Serve
  <2>1. PICK q \in Requests, a \in Answers :
           /\ ServeDone(q, a) \/ ServeRefused(q, a)
           /\ UNCHANGED <<client, late, timeouts, asks, calls, events>>
        BY <1>5, ServeCases
  <2>2. \A c \in Clients : pc[c] = "idle" => done'[c] = done[c] /\ saw'[c] = saw[c]
        BY <2>1, RecordAdds DEF ServeDone, ServeRefused, seen
  <2>3. QED
        BY <1>4, <2>1, <2>2
<1>6. CASE Console \/ Restart
  <2>1. \A c \in Clients : pc[c] = "idle" => done'[c] = done[c] /\ saw'[c] = saw[c]
        BY <1>6, EventCases, RecordAdds
  <2>2. QED
        BY <1>4, <1>6, <2>1, EventCases
<1>7. CASE Miss \/ Lose \/ UNCHANGED vars
      BY <1>4, <1>7, DropCases DEF seen
<1>8. QED
      BY <1>1, <1>2, <1>3, <1>5, <1>6, <1>7, NextCases, TakeResult

-----------------------------------------------------------------------------
(* The theorems.                                                             *)

LEMMA Invariance == Spec => []IInv
<1>1. Init => IInv
      BY InitType, InitCount, InitAsked, InitWire, InitEcu, InitOnTime, InitResult DEF IInv
<1>2. IInv /\ [Next]_vars => IInv'
      BY NextType, NextCount, NextAsked, NextWire, NextEcu, NextOnTime, NextResult DEF IInv
<1>3. QED
      BY <1>1, <1>2, PTL DEF Spec

(* The client and the ECU stay in the states the code knows, the holder of   *)
(* g_isotp_lock is the client that waits, and no call makes more than two    *)
(* requests.                                                                 *)
THEOREM UdsTypeCorrect == Spec => []TypeOK
<1>1. ASSUME IInv PROVE TypeOK
  <2>1. TypeInv /\ CountInv /\ MaxCalls \in Nat
        BY <1>1, UdsAssumption DEF IInv
  <2>2. asks \in 0..2 * MaxCalls
    <3>1. Cardinality(Owing) \in Nat /\ Cardinality(Second) \in Nat
          BY <2>1, FS_CardinalityType DEF CountInv
    <3>2. /\ asks + Cardinality(Owing) + Cardinality(Second) <= 2 * calls
          /\ asks \in Nat /\ calls \in 0..MaxCalls
          BY <2>1 DEF CountInv, TypeInv
    <3>3. QED
          BY <2>1, <3>1, <3>2
  <2>3. \A c \in Clients : [svc |-> asked[c].svc, arg |-> asked[c].arg] \in Calls
        BY <2>1, RequestFields DEF TypeInv
  <2>4. QED
        BY <2>1, <2>2, <2>3 DEF TypeInv, TypeOK, Codes
<1>2. QED
      BY <1>1, Invariance, PTL

(* A diagnostic call that returned OK was carried out between its beginning  *)
(* and its end, unless it took the answer to another request for its own;    *)
(* and that happens only once somebody has stopped waiting.                  *)
THEOREM CallsAreDone == Spec => []DoneWithinCall
<1>1. IInv => DoneWithinCall
      BY DEF IInv, ResultInv, Kept, OnTimeInv, DoneWithinCall
<1>2. QED
      BY <1>1, Invariance, PTL

(* What a reading call returned was true, all of it, at one moment of the    *)
(* call, and its parts belong together even in an answer that came late.     *)
THEOREM ReadingsAreTrue == Spec => []ReadsAreTrue
<1>1. IInv => ReadsAreTrue
      BY DEF IInv, ResultInv, Kept, Belongs, ReadsAreTrue
<1>2. QED
      BY <1>1, Invariance, PTL

(* The ECU refuses a call that got its own answers only when the session the *)
(* call opened was closed by another task or a restart before its second     *)
(* request was served.                                                       *)
THEOREM RefusalsHaveReasons == Spec => []RefusedForAReason
<1>1. IInv => RefusedForAReason
      BY DEF IInv, ResultInv, Kept, Ended, RefusedForAReason
<1>2. QED
      BY <1>1, Invariance, PTL
=============================================================================
