-------------------------- MODULE CanService_proofs --------------------------
(* Theorems about CanService for any number of clients and daemons.          *)
EXTENDS CanService, FiniteSetTheorems, TLAPS

(* Only callers of send and recover reach the command mailbox.               *)
AtMailbox == {"lock", "fill", "wait", "unlock"}

MailboxUsers ==
  \A c \in Clients : pc[c] \in AtMailbox => call[c] \in {"send", "recover"}

TypeInv == TypeOK /\ MailboxUsers

USE DEF flags, mailbox, client, daemon

LEMMA InitType == Init => TypeInv
<1> SUFFICES ASSUME Init PROVE TypeInv
    OBVIOUS
<1> USE ClientsAssumption DEF Init
<1>1. FirstDaemon \in Daemons
      BY DEF FirstDaemon
<1>2. TypeOK
      BY <1>1 DEF TypeOK, NoAnswer, NoJob, ClientLabels, DaemonLabels, Types,
                  Codes, CallNames, FlagNames
<1>3. MailboxUsers
      BY DEF MailboxUsers, AtMailbox
<1>4. QED BY <1>2, <1>3 DEF TypeInv

(* A client's step outside the mailbox.                                      *)
LEMMA StartType ==
  ASSUME TypeInv, NEW c \in Clients, Start(c)
  PROVE  TypeInv'
<1> USE ClientsAssumption DEF TypeInv, TypeOK, MailboxUsers, AtMailbox, ClientLabels, FlagNames,
      DaemonLabels, CallNames, Codes, Types, Move, Goto, Return, Set, NoAnswer
<1>1. CASE StartCheck(c)
  <2>1. CASE Started(c, "checkready")
        BY <1>1, <2>1 DEF StartCheck, Started, AfterStart
  <2>2. CASE \E from \in {"check", "checkready"}, to \in {"checkready", "claim"} : Goto(c, from, to)
        BY <1>1, <2>2 DEF StartCheck
  <2>3. QED
        BY <1>1, <2>1, <2>2 DEF StartCheck
<1>2. CASE StartClaim(c)
      BY <1>2 DEF StartClaim
<1>3. CASE StartSemInit(c)
      BY <1>3 DEF StartSemInit
<1>4. CASE StartClearType(c)
      BY <1>4 DEF StartClearType
<1>5. CASE StartStore(c)
  <2>1. CASE Goto(c, "stop", "ready") /\ Set("stop", FALSE)
        BY <1>5, <2>1 DEF StartStore
  <2>2. CASE Goto(c, "ready", "starting") /\ Set("ready", FALSE)
        BY <1>5, <2>2 DEF StartStore
  <2>3. CASE Goto(c, "starting", "create") /\ Set("starting", TRUE)
        BY <1>5, <2>3 DEF StartStore
  <2>4. QED
        BY <1>5, <2>1, <2>2, <2>3 DEF StartStore
<1>6. CASE StartCreate(c)
      BY <1>6 DEF StartCreate
<1>7. CASE StartCreateFails(c)
      BY <1>7 DEF StartCreateFails
<1>8. CASE StartAwait(c)
  <2>1. CASE Return(c, "awaitready", "ETIMEDOUT")
        BY <1>8, <2>1 DEF StartAwait
  <2>2. CASE \E from \in {"await", "awaitready"}, to \in {"await", "awaitready", "verdict"} :
               Goto(c, from, to)
        BY <1>8, <2>2 DEF StartAwait
  <2>3. QED
        BY <1>8, <2>1, <2>2 DEF StartAwait
<1>9. CASE StartVerdict(c)
  <2>1. CASE Started(c, "verdictready")
        BY <1>9, <2>1 DEF StartVerdict, Started, AfterStart
  <2>2. CASE \E from \in {"verdict", "verdictready"} : Return(c, from, "EIO")
        BY <1>9, <2>2 DEF StartVerdict
  <2>3. CASE Goto(c, "verdict", "verdictready")
        BY <1>9, <2>3 DEF StartVerdict
  <2>4. QED
        BY <1>9, <2>1, <2>2, <2>3 DEF StartVerdict
<1>10. QED
      BY <1>1, <1>2, <1>3, <1>4, <1>5, <1>6, <1>7, <1>8, <1>9 DEF Start

LEMMA StopType ==
  ASSUME TypeInv, NEW c \in Clients, Stop(c)
  PROVE  TypeInv'
<1> USE ClientsAssumption DEF TypeInv, TypeOK, MailboxUsers, AtMailbox, ClientLabels,
      FlagNames, DaemonLabels, CallNames, Codes, Types, Move, Goto, Return, Set, NoAnswer
<1>1. CASE StopCheck(c)
  <2>1. CASE Goto(c, "running", "scan")
        BY <1>1, <2>1 DEF StopCheck
  <2>2. CASE Return(c, "running", "OK")
        BY <1>1, <2>2 DEF StopCheck
  <2>3. QED
        BY <1>1, <2>1, <2>2 DEF StopCheck
<1>2. CASE StopScan(c)
  <2>1. CASE Goto(c, "scan", "haltlock")
        BY <1>2, <2>1 DEF StopScan
  <2>2. CASE Return(c, "scan", "EBUSY")
        BY <1>2, <2>2 DEF StopScan
  <2>3. QED
        BY <1>2, <2>1, <2>2 DEF StopScan
<1>3. CASE StopLock(c)
      BY <1>3 DEF StopLock
<1>4. CASE StopSet(c)
      BY <1>4 DEF StopSet
<1>5. CASE StopRelease(c)
      BY <1>5 DEF StopRelease
<1>6. CASE StopDrain(c)
  <2>1. CASE Return(c, "drain", "OK")
        BY <1>6, <2>1 DEF StopDrain
  <2>2. CASE Return(c, "drain", "ETIMEDOUT")
        BY <1>6, <2>2 DEF StopDrain
  <2>3. QED
        BY <1>6, <2>1, <2>2 DEF StopDrain
<1>7. QED
      BY <1>1, <1>2, <1>3, <1>4, <1>5, <1>6 DEF Stop

LEMMA CallType ==
  ASSUME TypeInv, NEW c \in Clients,
         \/ \E name \in CallNames : Enter(c, name)
         \/ Register(c) \/ Unregister(c) \/ Send(c)
  PROVE  TypeInv'
<1> USE ClientsAssumption DEF TypeInv, TypeOK, MailboxUsers, AtMailbox, ClientLabels,
      FlagNames, DaemonLabels, CallNames, Codes, Types, Move, Goto, Return, Set, NoAnswer
<1>1. CASE \E name \in CallNames : Enter(c, name)
      BY <1>1 DEF Enter, FirstLabel
<1>2. CASE Register(c)
  <2>1. CASE Return(c, "register", "OK")
        BY <1>2, <2>1 DEF Register
  <2>2. CASE Return(c, "register", "ENOSPC")
        BY <1>2, <2>2 DEF Register
  <2>3. QED
        BY <1>2, <2>1, <2>2 DEF Register
<1>3. CASE Unregister(c)
      BY <1>3 DEF Unregister
<1>4. CASE SendLock(c)
      BY <1>4 DEF SendLock
<1>5. CASE SendFill(c)
      BY <1>5 DEF SendFill
<1>6. CASE SendWait(c)
      BY <1>6 DEF SendWait
<1>7. CASE SendUnlock(c)
      BY <1>7 DEF SendUnlock
<1>8. QED
      BY <1>1, <1>2, <1>3, <1>4, <1>5, <1>6, <1>7 DEF Send

LEMMA DaemonType ==
  ASSUME TypeInv, NEW d \in Daemons, Daemon(d)
  PROVE  TypeInv'
<1> USE ClientsAssumption DEF TypeInv, TypeOK, MailboxUsers, AtMailbox, ClientLabels,
      FlagNames, DaemonLabels, CallNames, Codes, Types, DGoto, NoJob, Outcomes
<1>1. CASE Open(d)
      BY <1>1 DEF Open
<1>2. CASE DaemonStore(d)
  <2>1. PICK name \in FlagNames, value \in BOOLEAN, from \in DaemonLabels, to \in DaemonLabels :
          DGoto(d, from, to) /\ Set(name, value)
        BY <1>2 DEF DaemonStore
  <2>2. QED
        BY <1>2, <2>1 DEF DaemonStore, Set
<1>3. CASE Loop(d)
      BY <1>3 DEF Loop
<1>4. CASE Fetch(d)
      BY <1>4 DEF Fetch
<1>5. CASE Exec(d)
      BY <1>5 DEF Exec
<1>6. CASE PutResult(d)
      BY <1>6 DEF PutResult
<1>7. CASE ClearType(d)
      BY <1>7 DEF ClearType
<1>8. CASE Post(d)
      BY <1>8 DEF Post
<1>9. CASE Poll(d)
      BY <1>9 DEF Poll
<1>10. CASE Close(d)
      BY <1>10 DEF Close
<1>11. QED
      BY <1>1, <1>2, <1>3, <1>4, <1>5, <1>6, <1>7, <1>8, <1>9, <1>10 DEF Daemon

LEMMA NextType == TypeInv /\ [Next]_vars => TypeInv'
<1> SUFFICES ASSUME TypeInv, [Next]_vars PROVE TypeInv'
    OBVIOUS
<1>1. CASE UNCHANGED vars
      BY <1>1 DEF TypeInv, TypeOK, MailboxUsers, vars
<1>2. CASE Next
      BY <1>2, StartType, StopType, CallType, DaemonType DEF Next, Client
<1>3. QED
      BY <1>1, <1>2

(* Every shared variable keeps its type in every behaviour, with any number  *)
(* of callers, starts, stops and daemons; in particular g_command.done is    *)
(* never taken below zero.                                                   *)
THEOREM TypeCorrect == Spec => []TypeOK
<1>1. Spec => []TypeInv
      BY InitType, NextType, PTL DEF Spec
<1>2. TypeInv => TypeOK
      BY DEF TypeInv
<1>3. QED
      BY <1>1, <1>2, PTL
-----------------------------------------------------------------------------
(* The service in use: it was started before its clients run and no client   *)
(* calls stop.                                                               *)
Steady == Up /\ \A c \in Clients : "stop" \notin Calls[c]

Server == FirstDaemon

(* One daemon serves for ever, so start always returns at its first test.    *)
Serves ==
  /\ flag["running"] /\ flag["ready"] /\ ~flag["stop"]
  /\ \A d \in Daemons \ {Server} : dpc[d] = "gone"
  /\ dpc[Server] \in {"loop", "fetch", "poll"} \cup Executing
  /\ \A c \in Clients :
       pc[c] \in {"idle", "check", "checkready", "register", "unregister"} \cup AtMailbox

LockHeld == \A c \in Clients : pc[c] \in {"fill", "wait", "unlock"} => txLock = c

(* What the mailbox holds at each stage of one command.                      *)
Empty == command.type = "none" /\ done = 0 /\ ~Answering(Server)

HandedOver(c) ==
  \/ ~Answering(Server) /\ command.type # "none" /\ command.by = c /\ done = 0
  \/ dpc[Server] = "exec" /\ command.by = c /\ done = 0
  \/ dpc[Server] = "result" /\ job[Server].by = c /\ done = 0
  \/ dpc[Server] = "none" /\ result.by = c /\ done = 0
  \/ dpc[Server] = "post" /\ result.by = c /\ done = 0 /\ command.type = "none"
  \/ ~Answering(Server) /\ command.type = "none" /\ result.by = c /\ done = 1

Stages ==
  /\ (\A c \in Clients : ~Waiting(c)) => Empty
  /\ \A c \in Clients : Waiting(c) => HandedOver(c)
  /\ \A c \in Clients : pc[c] = "unlock" => result.by = c

HandshakeInv == TypeInv /\ Serves /\ LockHeld /\ Stages /\ AnswerIsMine

LEMMA ServerIsDaemon == Server \in Daemons
BY ClientsAssumption DEF Server, FirstDaemon

LEMMA InitHandshake == ASSUME Steady PROVE Init => HandshakeInv
<1> SUFFICES ASSUME Init PROVE HandshakeInv
    OBVIOUS
<1> USE ServerIsDaemon DEF Init, Server
<1>1. TypeInv
      BY InitType
<1>2. Serves
      BY DEF Serves, FlagNames, Steady
<1>3. LockHeld /\ Stages
      BY <1>2 DEF LockHeld, Stages, Empty, Waiting, Answering, Executing, Serves, Steady
<1>4. AnswerIsMine
      BY DEF AnswerIsMine
<1>5. QED
      BY <1>1, <1>2, <1>3, <1>4 DEF HandshakeInv

(* Steps that leave the mailbox and the daemon alone, by clients outside it. *)
MailboxIdle(c) ==
  /\ pc[c] \notin {"fill", "wait", "unlock"} /\ pc'[c] \notin {"fill", "wait", "unlock"}
  /\ \A b \in Clients \ {c} : pc'[b] = pc[b] /\ call'[b] = call[b] /\ ret'[b] = ret[b]
  /\ UNCHANGED <<command, result, done, txLock, dpc, job>>

LEMMA OutsideMailbox ==
  ASSUME HandshakeInv, NEW c \in Clients, MailboxIdle(c)
  PROVE  (LockHeld /\ Stages)'
<1>1. \A b \in Clients : pc'[b] \in {"fill", "wait", "unlock"} => pc[b] = pc'[b]
      BY DEF MailboxIdle
<1>2. \A b \in Clients : Waiting(b)' <=> Waiting(b)
      BY DEF MailboxIdle, Waiting
<1>3. Answering(Server)' <=> Answering(Server)
      BY DEF MailboxIdle, Answering
<1>4. LockHeld'
      BY <1>1 DEF LockHeld, HandshakeInv, MailboxIdle
<1>5. Empty => Empty'
      BY <1>3 DEF Empty, MailboxIdle
<1>6. \A b \in Clients : HandedOver(b) => HandedOver(b)'
      BY <1>3 DEF HandedOver, MailboxIdle
<1>7. \A b \in Clients : pc'[b] = "unlock" => result'.by = b
      BY <1>1 DEF HandshakeInv, Stages, MailboxIdle
<1>8. QED
      BY <1>2, <1>4, <1>5, <1>6, <1>7 DEF HandshakeInv, Stages

LEMMA ClientHandshake ==
  ASSUME Steady, HandshakeInv, NEW c \in Clients,
         Client(c) \/ \E name \in CallNames : Enter(c, name)
  PROVE  (Serves /\ LockHeld /\ Stages /\ AnswerIsMine)'
<1> USE ServerIsDaemon
<1>0. /\ pc \in [Clients -> ClientLabels] /\ call \in [Clients -> CallNames]
      /\ ret \in [Clients -> [code : Codes, by : Clients \cup {None}]]
      /\ done \in Nat
      /\ command \in [type : Types, by : Clients \cup {None}]
      /\ result \in [code : Codes, by : Clients \cup {None}]
      BY DEF HandshakeInv, TypeInv, TypeOK
<1> DEFINE Outcome == (Serves /\ LockHeld /\ Stages /\ AnswerIsMine)'
<1>1. CASE \E name \in CallNames : Enter(c, name)
  <2>1. PICK name \in CallNames : Enter(c, name)
        BY <1>1
  <2>2. MailboxIdle(c)
        BY <1>0, <2>1 DEF Enter, FirstLabel, Move, MailboxIdle
  <2>3. Serves'
        BY <1>0, <2>1 DEF Enter, FirstLabel, Move, Serves, HandshakeInv, Steady, CallNames,
                          AtMailbox
  <2>4. AnswerIsMine'
        BY <1>0, <2>1 DEF Enter, FirstLabel, Move, AnswerIsMine, HandshakeInv, NoAnswer,
                          Outcomes
  <2>5. QED
        BY <2>2, <2>3, <2>4, OutsideMailbox
<1>2. CASE StartCheck(c)
  <2>1. /\ Goto(c, "check", "checkready") \/ Started(c, "checkready")
        /\ UNCHANGED <<flags, mailbox, txLock, subs, daemon>>
        BY <1>2 DEF StartCheck, HandshakeInv, Serves
  <2>2. CASE Goto(c, "check", "checkready")
    <3>1. MailboxIdle(c)
          BY <1>0, <2>1, <2>2 DEF Goto, Move, MailboxIdle
    <3>2. Serves'
          BY <1>0, <2>1, <2>2 DEF Goto, Move, Serves, HandshakeInv, AtMailbox
    <3>3. AnswerIsMine'
          BY <1>0, <2>1, <2>2 DEF Goto, Move, AnswerIsMine, HandshakeInv
    <3>4. QED
          BY <3>1, <3>2, <3>3, OutsideMailbox
  <2>3. CASE Started(c, "checkready")
    <3>1. MailboxIdle(c)
          BY <1>0, <2>1, <2>3 DEF Started, AfterStart, Move, MailboxIdle
    <3>2. Serves'
          BY <1>0, <2>1, <2>3 DEF Started, AfterStart, Move, Serves, HandshakeInv, AtMailbox
    <3>3. AnswerIsMine'
          BY <1>0, <2>1, <2>3 DEF Started, AfterStart, Move, AnswerIsMine, HandshakeInv
    <3>4. QED
          BY <3>1, <3>2, <3>3, OutsideMailbox
  <2>4. QED
        BY <2>1, <2>2, <2>3
<1>3. CASE Register(c) \/ Unregister(c)
  <2>1. PICK from \in {"register", "unregister"}, code \in {"OK", "ENOSPC"} :
          Return(c, from, code) /\ UNCHANGED <<flags, mailbox, txLock, daemon>>
        BY <1>3 DEF Register, Unregister
  <2>2. MailboxIdle(c)
        BY <1>0, <2>1 DEF Return, Move, MailboxIdle
  <2>3. Serves'
        BY <1>0, <2>1 DEF Return, Move, Serves, HandshakeInv, AtMailbox
  <2>4. AnswerIsMine'
        BY <1>0, <2>1 DEF Return, Move, AnswerIsMine, HandshakeInv
  <2>5. QED
        BY <2>2, <2>3, <2>4, OutsideMailbox
<1>4. CASE SendLock(c)
  <2>1. Serves' /\ AnswerIsMine'
        BY <1>0, <1>4 DEF SendLock, Goto, Move, Serves, AnswerIsMine, HandshakeInv, AtMailbox
  <2>2. \A b \in Clients : ~Waiting(b) /\ pc[b] # "unlock" /\ pc[b] # "fill"
        BY <1>0, <1>4, ClientsAssumption DEF SendLock, HandshakeInv, LockHeld, Waiting
  <2>3. LockHeld'
        BY <1>0, <1>4, <2>2 DEF SendLock, Goto, Move, LockHeld, Waiting
  <2>4. \A b \in Clients : ~Waiting(b)' /\ pc'[b] # "unlock"
        BY <1>0, <1>4, <2>2 DEF SendLock, Goto, Move, Waiting
  <2>5. Empty'
        BY <1>4, <2>2 DEF SendLock, HandshakeInv, Stages, Empty, Answering
  <2>6. QED
        BY <2>1, <2>3, <2>4, <2>5 DEF Stages
<1>5. CASE SendFill(c)
  <2>1. Serves' /\ AnswerIsMine'
        BY <1>0, <1>5 DEF SendFill, Goto, Move, Serves, AnswerIsMine, HandshakeInv, AtMailbox
  <2>2. LockHeld'
        BY <1>0, <1>5 DEF SendFill, Goto, Move, LockHeld, HandshakeInv
  <2>3. \A b \in Clients \ {c} : pc[b] \notin {"fill", "wait", "unlock"}
        BY <1>0, <1>5 DEF SendFill, Goto, Move, HandshakeInv, LockHeld
  <2>4. Empty
        BY <1>0, <1>5, <2>3 DEF SendFill, Goto, Move, HandshakeInv, Stages, Waiting
  <2>5. call[c] \in {"send", "recover"}
        BY <1>0, <1>5 DEF SendFill, Goto, Move, HandshakeInv, TypeInv, MailboxUsers, AtMailbox
  <2>6. HandedOver(c)'
        BY <1>5, <2>4, <2>5 DEF SendFill, Goto, Move, HandedOver, Empty, Answering
  <2>7. \A b \in Clients \ {c} : pc'[b] \notin {"fill", "wait", "unlock"}
        BY <1>0, <1>5, <2>3 DEF SendFill, Goto, Move
  <2>8. pc'[c] = "wait"
        BY <1>0, <1>5 DEF SendFill, Goto, Move
  <2>9. QED
        BY <2>1, <2>2, <2>6, <2>7, <2>8 DEF Stages, Waiting
<1>6. CASE SendWait(c)
  <2>1. Serves' /\ AnswerIsMine'
        BY <1>0, <1>6 DEF SendWait, Goto, Move, Serves, AnswerIsMine, HandshakeInv, AtMailbox
  <2>2. LockHeld'
        BY <1>0, <1>6 DEF SendWait, Goto, Move, LockHeld, HandshakeInv
  <2>3. \A b \in Clients \ {c} : pc[b] \notin {"fill", "wait", "unlock"}
        BY <1>0, <1>6 DEF SendWait, Goto, Move, HandshakeInv, LockHeld
  <2>4. HandedOver(c) /\ done > 0
        BY <1>0, <1>6 DEF SendWait, Goto, Move, HandshakeInv, Stages, Waiting
  <2>5. ~Answering(Server) /\ command.type = "none" /\ result.by = c /\ done = 1
        BY <2>4 DEF HandedOver, Answering, Executing
  <2>6. Empty' /\ result'.by = c
        BY <1>6, <2>5 DEF SendWait, Empty, Answering
  <2>7. \A b \in Clients \ {c} : pc'[b] \notin {"fill", "wait", "unlock"}
        BY <1>0, <1>6, <2>3 DEF SendWait, Goto, Move
  <2>8. pc'[c] = "unlock"
        BY <1>0, <1>6 DEF SendWait, Goto, Move
  <2>9. QED
        BY <2>1, <2>2, <2>6, <2>7, <2>8 DEF Stages, Waiting
<1>7. CASE SendUnlock(c)
  <2>1. Serves'
        BY <1>0, <1>7 DEF SendUnlock, Move, Serves, HandshakeInv, AtMailbox
  <2>2. result.by = c
        BY <1>0, <1>7 DEF SendUnlock, Move, HandshakeInv, Stages
  <2>3. AnswerIsMine'
        BY <1>0, <1>7, <2>2 DEF SendUnlock, Move, AnswerIsMine, HandshakeInv
  <2>4. \A b \in Clients \ {c} : pc[b] \notin {"fill", "wait", "unlock"}
        BY <1>0, <1>7 DEF SendUnlock, Move, HandshakeInv, LockHeld
  <2>5. \A b \in Clients : pc'[b] \notin {"fill", "wait", "unlock"}
        BY <1>0, <1>7, <2>4 DEF SendUnlock, Move
  <2>6. Empty'
        BY <1>0, <1>7, <2>4 DEF SendUnlock, Move, HandshakeInv, Stages, Waiting, Empty, Answering
  <2>7. QED
        BY <2>1, <2>3, <2>5, <2>6 DEF LockHeld, Stages, Waiting
<1>8. QED
  <2>1. ~Stop(c) /\ ~(Start(c) /\ ~StartCheck(c))
        BY <1>0 DEF Stop, Start, StopCheck, StopScan, StopLock, StopSet, StopRelease, StopDrain,
           StartClaim, StartSemInit, StartClearType, StartStore, StartCreate, StartCreateFails,
           StartAwait, StartVerdict, Started, Goto, Return, Move, HandshakeInv, Serves, AtMailbox
  <2>2. QED
        BY <1>1, <1>2, <1>3, <1>4, <1>5, <1>6, <1>7, <2>1 DEF Client, Send

LEMMA DaemonHandshake ==
  ASSUME Steady, HandshakeInv, NEW d \in Daemons, Daemon(d)
  PROVE  (Serves /\ LockHeld /\ Stages /\ AnswerIsMine)'
<1> USE ServerIsDaemon, ClientsAssumption
    DEF HandshakeInv, TypeInv, TypeOK, Serves, LockHeld, Stages, AnswerIsMine, Empty,
        HandedOver, Waiting, AtMailbox, DGoto, Answering, Executing
<1>1. CASE Loop(d)
      BY <1>1 DEF Loop
<1>2. CASE Fetch(d)
      BY <1>2 DEF Fetch
<1>3. CASE Exec(d)
      BY <1>3 DEF Exec
<1>4. CASE PutResult(d)
      BY <1>4 DEF PutResult
<1>5. CASE ClearType(d)
      BY <1>5 DEF ClearType
<1>6. CASE Post(d)
      BY <1>6 DEF Post
<1>7. CASE Poll(d)
      BY <1>7 DEF Poll
<1>8. QED
  <2>1. ~Open(d) /\ ~DaemonStore(d) /\ ~Close(d)
        BY DEF Open, DaemonStore, Close
  <2>2. QED
        BY <1>1, <1>2, <1>3, <1>4, <1>5, <1>6, <1>7, <2>1 DEF Daemon

LEMMA NextHandshake == ASSUME Steady PROVE HandshakeInv /\ [Next]_vars => HandshakeInv'
<1> SUFFICES ASSUME HandshakeInv, [Next]_vars PROVE HandshakeInv'
    OBVIOUS
<1>1. TypeInv'
      BY NextType DEF HandshakeInv
<1>2. CASE UNCHANGED vars
      BY <1>1, <1>2 DEF HandshakeInv, Serves, LockHeld, Stages, AnswerIsMine, Empty,
         HandedOver, Waiting, Answering, vars
<1>3. CASE Next
      BY <1>1, <1>3, ClientHandshake, DaemonHandshake DEF Next, HandshakeInv
<1>4. QED
      BY <1>2, <1>3

(* While the service stays up, every send and recover returns with the       *)
(* answer to its own request, for any number of concurrent callers.          *)
THEOREM AnswersBelong == ASSUME Steady PROVE Spec => []AnswerIsMine
<1>1. Spec => []HandshakeInv
      BY InitHandshake, NextHandshake, PTL DEF Spec
<1>2. HandshakeInv => AnswerIsMine
      BY DEF HandshakeInv
<1>3. QED
      BY <1>1, <1>2, PTL

(* While the service stays up, a caller waits exactly as long as its one     *)
(* command is unread, executing or answered: no lost and no spare token.     *)
THEOREM HandOverExact == ASSUME Steady PROVE Spec => []OneCommandInFlight
<1>1. Spec => []HandshakeInv
      BY InitHandshake, NextHandshake, PTL DEF Spec
<1>2. HandshakeInv => OneCommandInFlight
  <2> SUFFICES ASSUME HandshakeInv PROVE OneCommandInFlight
      OBVIOUS
  <2> USE ServerIsDaemon DEF HandshakeInv
  <2>1. \A d \in Daemons : Answering(d) => d = Server
        BY DEF Serves, Answering, Executing
  <2>2. \A c, b \in Clients : Waiting(c) /\ Waiting(b) => c = b
        BY DEF LockHeld, Waiting
  <2>3. CASE \A c \in Clients : ~Waiting(c)
        BY <2>1, <2>3 DEF Stages, Empty, OneCommandInFlight, Unread, Busy, Answered
  <2>4. ASSUME NEW c \in Clients, Waiting(c) PROVE OneCommandInFlight
    <3>1. HandedOver(c)
          BY <2>4 DEF Stages
    <3>2. done <= 1 /\ (Unread \/ Busy \/ Answered)
          BY <2>1, <3>1 DEF HandedOver, Answering, Executing, Unread, Busy, Answered
    <3>3. ~(Unread /\ Answered) /\ ~(Busy /\ Answered)
          BY <2>1, <3>1 DEF HandedOver, Answering, Executing, Unread, Busy, Answered
    <3>4. QED
          BY <2>1, <2>2, <2>4, <3>2, <3>3 DEF OneCommandInFlight
  <2>5. QED
        BY <2>3, <2>4
<1>3. QED
      BY <1>1, <1>2, PTL
-----------------------------------------------------------------------------
(* The service under any number of callers that start, stop and use it, with *)
(* a daemon that preempts them; two starts do not claim at once (ApartSpec). *)
Opening   == {"open", "nofd", "failed", "running", "starting", "ready"}
Looping   == {"loop", "fetch", "poll"} \cup Executing
Stopping  == {"close", "closed", "unrunning", "unready", "unstop"}

(* What the flags and g_fd hold at each stage of a daemon's life, and when   *)
(* there is no daemon.                                                       *)
AtStage(d) ==
  /\ flag["starting"] <=> dpc[d] \in {"open", "nofd", "running", "starting"}
  /\ flag["running"] <=>
       dpc[d] \in {"starting", "ready", "close", "closed", "unrunning"} \cup Looping
  /\ flag["ready"] <=> dpc[d] \in {"close", "closed", "unrunning", "unready"} \cup Looping
  /\ fd = IF dpc[d] \in {"running", "starting", "ready", "close", "closed"} \cup Looping
            THEN d ELSE None
  /\ dpc[d] \in Stopping => flag["stop"]

AtRest ==
  /\ fd = None /\ ~flag["running"] /\ ~flag["ready"]
  /\ flag["starting"] <=> \E c \in Clients : pc[c] = "create"

(* A caller inside a call has no result yet, and a start passes its test     *)
(* only when no daemon is left.                                              *)
CallersAt ==
  /\ \A c \in Clients : pc[c] # "idle" => ret[c].code = "none"
  /\ \A c \in Clients : pc[c] \in Claiming => Alive = {}

DaemonAt ==
  /\ \A d, e \in Alive : d = e
  /\ \A d \in Alive : AtStage(d)
  /\ Alive = {} => AtRest

ServiceInv == TypeInv /\ StartsApart /\ CallersAt /\ DaemonAt

LEMMA InitService == Init => ServiceInv
<1> SUFFICES ASSUME Init PROVE ServiceInv
    OBVIOUS
<1> USE ClientsAssumption DEF Init
<1>1. FirstDaemon \in Daemons
      BY DEF FirstDaemon
<1>2. TypeInv
      BY InitType
<1>3. CallersAt /\ StartsApart
      BY DEF CallersAt, StartsApart, NoAnswer, Claiming
<1>4. DaemonAt
  <2>1. CASE Up
    <3>1. Alive = {FirstDaemon} /\ dpc[FirstDaemon] = "loop"
          BY <1>1, <2>1 DEF Alive
    <3>2. AtStage(FirstDaemon)
          BY <2>1, <3>1 DEF AtStage, Stopping, Looping, FlagNames
    <3>3. QED
          BY <3>1, <3>2 DEF DaemonAt
  <2>2. CASE ~Up
    <3>1. Alive = {}
          BY <2>2 DEF Alive
    <3>2. AtRest
          BY <2>2 DEF AtRest, FlagNames
    <3>3. QED
          BY <3>1, <3>2 DEF DaemonAt
  <2>3. QED
        BY <2>1, <2>2
<1>5. QED
      BY <1>2, <1>3, <1>4 DEF ServiceInv

-----------------------------------------------------------------------------
(* A client runs only while the daemon, if there is one, serves.             *)
LEMMA DaemonServes ==
  ASSUME DaemonFirst, ServiceInv, MayRun, NEW d \in Alive
  PROVE  /\ dpc[d] \in {"exec", "poll", "close"}
         /\ flag["running"] /\ flag["ready"] /\ ~flag["starting"] /\ fd = d
<1>1. d \in Daemons /\ dpc[d] \in {"exec", "poll", "close"}
      BY DEF MayRun, Alive, Blocking
<1>2. AtStage(d)
      BY DEF ServiceInv, DaemonAt
<1>3. QED
      BY <1>1, <1>2 DEF AtStage, Looping, Executing

LEMMA ClientMayRun ==
  ASSUME TypeInv, NEW c \in Clients, Client(c) \/ \E name \in CallNames : Enter(c, name)
  PROVE  MayRun /\ \A b \in Clients \ {c} : pc'[b] = pc[b]
<1>1. MayRun /\ \E to : pc' = [pc EXCEPT ![c] = to]
      BY DEF Client, Start, Stop, Send, Enter, Register, Unregister, StartCheck, StartClaim,
         StartSemInit, StartClearType, StartStore, StartCreate, StartCreateFails, StartAwait,
         StartVerdict, Started, StopCheck, StopScan, StopLock, StopSet, StopRelease, StopDrain,
         SendLock, SendFill, SendWait, SendUnlock, Goto, Return, Move
<1>2. pc \in [Clients -> ClientLabels]
      BY DEF TypeInv, TypeOK
<1>3. QED
      BY <1>1, <1>2

(* A step of a client that leaves the flags and the daemon alone.            *)
Passes(c, from, to) ==
  /\ pc[c] = from
  /\ pc' = [pc EXCEPT ![c] = to]
  /\ UNCHANGED <<flag, fd, dpc>>
  /\ \A b \in Clients \ {c} : ret'[b] = ret[b]
  /\ to # "idle" => ret'[c].code = "none"

LEMMA PassesService ==
  ASSUME ServiceInv, NEW c \in Clients,
         NEW from \in ClientLabels, NEW to \in ClientLabels, Passes(c, from, to),
         from # "create", to # "create",
         to \in Claiming => Alive = {}
  PROVE  CallersAt' /\ DaemonAt'
<1>1. pc \in [Clients -> ClientLabels]
      BY DEF ServiceInv, TypeInv, TypeOK
<1>2. pc'[c] = to /\ \A b \in Clients \ {c} : pc'[b] = pc[b]
      BY <1>1 DEF Passes
<1>3. Alive' = Alive
      BY DEF Alive, Passes
<1>4. CallersAt'
      BY <1>2, <1>3 DEF ServiceInv, CallersAt, Passes
<1>5. \A d \in Alive : AtStage(d)'
      BY DEF ServiceInv, DaemonAt, AtStage, Passes
<1>6. AtRest => AtRest'
      BY <1>2 DEF AtRest, Passes
<1>7. QED
      BY <1>3, <1>4, <1>5, <1>6 DEF ServiceInv, DaemonAt

LEMMA GotoPasses ==
  ASSUME ServiceInv, NEW c \in Clients, NEW from, NEW to, Goto(c, from, to), from # "idle",
         UNCHANGED <<flag, fd, dpc>>
  PROVE  Passes(c, from, to)
BY DEF Goto, Move, Passes, ServiceInv, CallersAt

LEMMA ReturnPasses ==
  ASSUME TypeInv, NEW c \in Clients, NEW from, NEW code, Return(c, from, code),
         UNCHANGED <<flag, fd, dpc>>
  PROVE  Passes(c, from, "idle")
<1>1. ret \in [Clients -> [code : Codes, by : Clients \cup {None}]]
      BY DEF TypeInv, TypeOK
<1>2. QED
      BY <1>1 DEF Return, Move, Passes

LEMMA StartedPasses ==
  ASSUME ServiceInv, NEW c \in Clients, NEW from, Started(c, from), from # "idle",
         UNCHANGED <<flag, fd, dpc>>
  PROVE  \E to \in {"register", "lock", "idle"} : Passes(c, from, to)
<1>1. /\ ret \in [Clients -> [code : Codes, by : Clients \cup {None}]]
      /\ AfterStart(c) \in {"register", "lock", "idle"}
      /\ call[c] = "start" => AfterStart(c) = "idle"
      BY DEF ServiceInv, TypeInv, TypeOK, AfterStart
<1>2. ret[c].code = "none"
      BY DEF ServiceInv, CallersAt, Started, Move
<1>3. Passes(c, from, AfterStart(c))
      BY <1>1, <1>2 DEF Started, Move, Passes
<1>4. QED
      BY <1>1, <1>3

-----------------------------------------------------------------------------
(* The steps of start, by what they do to the service.                       *)
LEMMA CheckService ==
  ASSUME DaemonFirst, ServiceInv, NEW c \in Clients, StartCheck(c)
  PROVE  CallersAt' /\ DaemonAt'
<1>1. MayRun /\ UNCHANGED <<flag, fd, dpc>>
      BY DEF StartCheck, Started, Goto, Move
<1>2. CASE Started(c, "checkready")
  <2>1. PICK to \in {"register", "lock", "idle"} : Passes(c, "checkready", to)
        BY <1>1, <1>2, StartedPasses
  <2>2. QED
        BY <2>1, PassesService DEF ClientLabels, Claiming
<1>3. CASE Goto(c, "check", "checkready")
  <2>1. Passes(c, "check", "checkready")
        BY <1>1, <1>3, GotoPasses
  <2>2. QED
        BY <2>1, PassesService DEF ClientLabels, Claiming
<1>4. CASE ~(flag["running"] /\ flag["ready"])
           /\ \E from \in {"check", "checkready"} : Goto(c, from, "claim")
  <2>1. PICK from \in {"check", "checkready"} : Passes(c, from, "claim")
        BY <1>1, <1>4, GotoPasses
  <2>2. Alive = {}
        BY <1>1, <1>4, DaemonServes
  <2>3. QED
        BY <2>1, <2>2, PassesService DEF ClientLabels
<1>5. QED
      BY <1>2, <1>3, <1>4 DEF StartCheck

LEMMA ClaimService ==
  ASSUME ServiceInv, NEW c \in Clients, StartClaim(c) \/ StartSemInit(c) \/ StartClearType(c)
  PROVE  CallersAt' /\ DaemonAt'
<1>1. PICK from \in {"claim", "seminit", "type"}, to \in {"await", "seminit", "type", "stop"} :
        Passes(c, from, to)
      BY GotoPasses DEF StartClaim, StartSemInit, StartClearType
<1>2. Alive = {}
      BY <1>1 DEF Passes, Claiming, ServiceInv, CallersAt
<1>3. QED
      BY <1>1, <1>2, PassesService DEF ClientLabels

LEMMA AwaitService ==
  ASSUME ServiceInv, NEW c \in Clients, StartAwait(c) \/ StartVerdict(c)
  PROVE  CallersAt' /\ DaemonAt'
<1>1. UNCHANGED <<flag, fd, dpc>>
      BY DEF StartAwait, StartVerdict
<1>2. PICK from \in {"await", "awaitready", "verdict", "verdictready"} :
        \/ \E to \in {"await", "awaitready", "verdict", "verdictready"} : Goto(c, from, to)
        \/ \E code \in {"ETIMEDOUT", "EIO"} : Return(c, from, code)
        \/ Started(c, from)
      BY DEF StartAwait, StartVerdict
<1>3. TypeInv
      BY DEF ServiceInv
<1>4. PICK to \in {"await", "awaitready", "verdict", "verdictready", "idle", "register", "lock"} :
        Passes(c, from, to)
  <2>1. CASE \E to \in {"await", "awaitready", "verdict", "verdictready"} : Goto(c, from, to)
        BY <1>1, <2>1, GotoPasses
  <2>2. CASE \E code \in {"ETIMEDOUT", "EIO"} : Return(c, from, code)
        BY <1>1, <1>3, <2>2, ReturnPasses
  <2>3. CASE Started(c, from)
        BY <1>1, <2>3, StartedPasses
  <2>4. QED
        BY <1>2, <2>1, <2>2, <2>3
<1>5. QED
      BY <1>4, PassesService DEF ClientLabels, Claiming

(* With no daemon left, start may clear the flags and create the next one.   *)
LEMMA StoreService ==
  ASSUME ServiceInv, NEW c \in Clients,
         StartStore(c) \/ StartCreate(c) \/ StartCreateFails(c)
  PROVE  CallersAt' /\ DaemonAt'
<1>0. /\ pc \in [Clients -> ClientLabels] /\ dpc \in [Daemons -> DaemonLabels]
      /\ flag \in [FlagNames -> BOOLEAN]
      /\ ret \in [Clients -> [code : Codes, by : Clients \cup {None}]]
      BY DEF ServiceInv, TypeInv, TypeOK
<1>1. pc[c] \in {"stop", "ready", "starting", "create"}
      BY DEF StartStore, StartCreate, StartCreateFails, Goto, Return, Move
<1>2. Alive = {} /\ fd = None /\ ~flag["running"] /\ ~flag["ready"]
      BY <1>1 DEF ServiceInv, CallersAt, DaemonAt, AtRest, Claiming
<1>3. \A b \in Clients \ {c} : pc[b] \notin Claiming
      BY <1>1 DEF ServiceInv, StartsApart, Claiming
<1>4. flag["starting"] <=> pc[c] = "create"
      BY <1>2, <1>3 DEF ServiceInv, DaemonAt, AtRest, Claiming
<1>5. \A b \in Clients : pc[b] # "idle" => ret[b].code = "none"
      BY DEF ServiceInv, CallersAt
<1>6. CASE StartStore(c)
  <2>1. UNCHANGED <<dpc, fd, ret>>
        BY <1>6 DEF StartStore, Goto, Set
  <2>2. Alive' = {}
        BY <1>2, <2>1 DEF Alive
  <2>3. PICK name \in {"stop", "ready", "starting"}, value \in BOOLEAN, to \in ClientLabels :
          /\ flag' = [flag EXCEPT ![name] = value] /\ pc' = [pc EXCEPT ![c] = to]
          /\ \/ name = "stop" /\ value = FALSE /\ pc[c] = "stop" /\ to = "ready"
             \/ name = "ready" /\ value = FALSE /\ pc[c] = "ready" /\ to = "starting"
             \/ name = "starting" /\ value = TRUE /\ pc[c] = "starting" /\ to = "create"
        BY <1>6 DEF StartStore, Goto, Move, Set, ClientLabels
  <2>4. /\ pc'[c] = to /\ \A b \in Clients \ {c} : pc'[b] = pc[b]
        /\ flag'[name] = value /\ \A f \in FlagNames \ {name} : flag'[f] = flag[f]
        BY <1>0, <2>3 DEF FlagNames
  <2>5. CallersAt'
        BY <1>5, <2>1, <2>2, <2>3, <2>4 DEF CallersAt
  <2>6. AtRest'
        BY <1>2, <1>3, <1>4, <2>1, <2>3, <2>4 DEF AtRest, FlagNames, Claiming
  <2>7. QED
        BY <2>2, <2>5, <2>6 DEF DaemonAt
<1>7. CASE StartCreate(c)
  <2>1. PICK d \in Daemons : dpc[d] = "gone" /\ dpc' = [dpc EXCEPT ![d] = "open"]
        BY <1>7 DEF StartCreate
  <2>2. /\ pc[c] = "create" /\ pc' = [pc EXCEPT ![c] = "await"]
        /\ UNCHANGED <<flag, fd, ret>>
        BY <1>7 DEF StartCreate, Goto, Move
  <2>3. Alive' = {d} /\ dpc'[d] = "open"
        BY <1>0, <1>2, <2>1 DEF Alive
  <2>4. pc'[c] = "await" /\ \A b \in Clients \ {c} : pc'[b] = pc[b]
        BY <1>0, <2>2
  <2>5. CallersAt'
        BY <1>3, <1>5, <2>2, <2>4 DEF CallersAt, Claiming
  <2>6. AtStage(d)'
        BY <1>2, <1>4, <2>2, <2>3 DEF AtStage, Looping, Executing, Stopping
  <2>7. QED
        BY <2>3, <2>5, <2>6 DEF DaemonAt
<1>8. CASE StartCreateFails(c)
  <2>1. /\ pc[c] = "create" /\ pc' = [pc EXCEPT ![c] = "idle"]
        /\ flag' = [flag EXCEPT !["starting"] = FALSE] /\ UNCHANGED <<dpc, fd>>
        /\ \A b \in Clients \ {c} : ret'[b] = ret[b]
        BY <1>0, <1>8 DEF StartCreateFails, Return, Move, Set
  <2>2. pc'[c] = "idle" /\ \A b \in Clients \ {c} : pc'[b] = pc[b]
        BY <1>0, <2>1
  <2>3. Alive' = {} /\ ~flag'["starting"] /\ ~flag'["running"] /\ ~flag'["ready"]
        BY <1>0, <1>2, <2>1 DEF Alive, FlagNames
  <2>4. CallersAt'
        BY <1>5, <2>1, <2>2, <2>3 DEF CallersAt
  <2>5. AtRest'
        BY <1>2, <1>3, <2>1, <2>2, <2>3 DEF AtRest, Claiming
  <2>6. QED
        BY <2>3, <2>4, <2>5 DEF DaemonAt
<1>9. QED
      BY <1>6, <1>7, <1>8

-----------------------------------------------------------------------------
(* The steps of stop, of the mailbox and of the subscriptions.               *)
LEMMA StopService ==
  ASSUME DaemonFirst, ServiceInv, NEW c \in Clients, StopSet(c)
  PROVE  CallersAt' /\ DaemonAt'
<1>0. pc \in [Clients -> ClientLabels] /\ flag \in [FlagNames -> BOOLEAN]
      BY DEF ServiceInv, TypeInv, TypeOK
<1>1. /\ pc[c] = "halt" /\ pc' = [pc EXCEPT ![c] = "release"]
      /\ flag' = [flag EXCEPT !["stop"] = TRUE] /\ UNCHANGED <<dpc, fd, ret>>
      BY DEF StopSet, Goto, Move, Set
<1>2. /\ pc'[c] = "release" /\ \A b \in Clients \ {c} : pc'[b] = pc[b]
      /\ flag'["stop"] /\ flag'["running"] = flag["running"]
      /\ flag'["ready"] = flag["ready"] /\ flag'["starting"] = flag["starting"]
      BY <1>0, <1>1 DEF FlagNames
<1>3. Alive' = Alive
      BY <1>1 DEF Alive
<1>4. CallersAt'
      BY <1>1, <1>2, <1>3 DEF ServiceInv, CallersAt, Claiming
<1>5. \A d \in Alive : AtStage(d)'
      BY <1>1, <1>2 DEF AtStage, ServiceInv, DaemonAt
<1>6. AtRest => AtRest'
      BY <1>1, <1>2 DEF AtRest
<1>7. QED
      BY <1>3, <1>4, <1>5, <1>6 DEF ServiceInv, DaemonAt

LEMMA UseService ==
  ASSUME ServiceInv, NEW c \in Clients,
         \/ StopCheck(c) \/ StopScan(c) \/ StopLock(c) \/ StopRelease(c) \/ StopDrain(c)
         \/ Register(c) \/ Unregister(c) \/ Send(c)
  PROVE  CallersAt' /\ DaemonAt'
<1> DEFINE From == {"running", "scan", "haltlock", "release", "drain", "register", "unregister",
                    "lock", "fill", "wait", "unlock"}
           To   == {"scan", "haltlock", "halt", "drain", "fill", "wait", "unlock", "idle"}
<1>1. ret \in [Clients -> [code : Codes, by : Clients \cup {None}]] /\ TypeInv
      BY DEF ServiceInv, TypeInv, TypeOK
<1>2. \E from \in From, to \in To : Passes(c, from, to)
  <2>1. CASE StopCheck(c) \/ StopScan(c) \/ StopDrain(c)
        BY <1>1, <2>1, GotoPasses, ReturnPasses DEF StopCheck, StopScan, StopDrain
  <2>2. CASE StopLock(c) \/ StopRelease(c) \/ SendLock(c) \/ SendFill(c) \/ SendWait(c)
        BY <2>2, GotoPasses DEF StopLock, StopRelease, SendLock, SendFill, SendWait
  <2>3. CASE Register(c) \/ Unregister(c)
        BY <1>1, <2>3, ReturnPasses DEF Register, Unregister
  <2>4. CASE SendUnlock(c)
        BY <1>1, <2>4 DEF SendUnlock, Move, Passes
  <2>5. QED
        BY <2>1, <2>2, <2>3, <2>4 DEF Send
<1>3. PICK from \in From, to \in To : Passes(c, from, to)
      BY <1>2
<1>4. QED
      BY <1>3, PassesService DEF ClientLabels, Claiming

LEMMA EnterService ==
  ASSUME ServiceInv, NEW c \in Clients, NEW name \in CallNames, Enter(c, name)
  PROVE  CallersAt' /\ DaemonAt'
<1>1. ret \in [Clients -> [code : Codes, by : Clients \cup {None}]]
      BY DEF ServiceInv, TypeInv, TypeOK
<1>2. FirstLabel(name) \in {"running", "unregister", "check"}
      BY DEF FirstLabel
<1>3. Passes(c, "idle", FirstLabel(name))
      BY <1>1 DEF Enter, Move, Passes, NoAnswer
<1>4. QED
      BY <1>2, <1>3, PassesService DEF ClientLabels, Claiming

LEMMA ClientService ==
  ASSUME DaemonFirst, ServiceInv, NEW c \in Clients,
         Client(c) \/ \E name \in CallNames : Enter(c, name)
  PROVE  CallersAt' /\ DaemonAt'
BY CheckService, ClaimService, AwaitService, StoreService, StopService, UseService, EnterService
   DEF Client, Start, Stop

-----------------------------------------------------------------------------
(* A step of the daemon, from one stage of its life to the next.             *)
LEMMA DaemonService ==
  ASSUME ServiceInv, NEW d \in Daemons, Daemon(d)
  PROVE  CallersAt' /\ DaemonAt'
<1>0. /\ dpc \in [Daemons -> DaemonLabels] /\ flag \in [FlagNames -> BOOLEAN]
      BY DEF ServiceInv, TypeInv, TypeOK
<1>1. d \in Alive /\ UNCHANGED <<pc, ret>>
      BY DEF Daemon, Open, DaemonStore, Loop, Fetch, Exec, PutResult, ClearType, Post, Poll,
             Close, DGoto, Alive
<1>2. AtStage(d) /\ (\A c \in Clients : pc[c] \notin Claiming) /\ \A e \in Daemons \ {d} : dpc[e] = "gone"
      BY <1>1 DEF ServiceInv, CallersAt, DaemonAt, Alive
<1>3. PICK to \in DaemonLabels : dpc' = [dpc EXCEPT ![d] = to]
  <2>1. TypeInv'
        BY DaemonType DEF ServiceInv
  <2>2. \E to : dpc' = [dpc EXCEPT ![d] = to]
        BY DEF Daemon, Open, DaemonStore, Loop, Fetch, Exec, PutResult, ClearType, Post, Poll,
               Close, DGoto
  <2>3. dpc'[d] \in DaemonLabels
        BY <2>1 DEF TypeInv, TypeOK
  <2>4. QED
        BY <1>0, <2>2, <2>3
<1>4. dpc'[d] = to /\ \A e \in Daemons \ {d} : dpc'[e] = "gone"
      BY <1>0, <1>2, <1>3
<1>6. CallersAt'
      BY <1>1, <1>2 DEF ServiceInv, CallersAt
<1>7. IF to = "gone" THEN AtRest' ELSE AtStage(d)'
  <2>1. CASE Open(d)
        BY <1>0, <1>1, <1>2, <1>4, <2>1
        DEF Open, DGoto, AtStage, Opening, Looping, Executing, Stopping
  <2>2. CASE Loop(d)
        BY <1>1, <1>2, <1>4, <2>2
        DEF Loop, DGoto, AtStage, Opening, Looping, Executing, Stopping
  <2>3. CASE Fetch(d)
        BY <1>1, <1>2, <1>4, <2>3 DEF Fetch, AtStage, Opening, Looping, Executing, Stopping
  <2>4. CASE Exec(d) \/ PutResult(d) \/ ClearType(d) \/ Post(d) \/ Poll(d)
    <3>1. /\ dpc[d] \in Looping /\ to \in Looping
          /\ UNCHANGED <<flag, fd>>
          BY <1>0, <1>4, <2>4
          DEF Exec, PutResult, ClearType, Post, Poll, DGoto, Looping, Executing
    <3>2. QED
          BY <1>1, <1>2, <1>4, <3>1 DEF AtStage, Opening, Looping, Executing, Stopping
  <2>5. CASE Close(d)
        BY <1>0, <1>1, <1>2, <1>4, <2>5
        DEF Close, DGoto, AtStage, Opening, Looping, Executing, Stopping
  <2>6. CASE DaemonStore(d)
    <3> DEFINE Stores(from, next, name, value) ==
                 /\ dpc[d] = from /\ to = next /\ fd' = fd /\ flag'[name] = value
                 /\ \A f \in FlagNames \ {name} : flag'[f] = flag[f]
    <3>1. \A from, next \in DaemonLabels, name \in FlagNames, value \in BOOLEAN :
            DGoto(d, from, next) /\ Set(name, value) => Stores(from, next, name, value)
          BY <1>0, <1>4 DEF DGoto, Set
    <3>2. \/ Stores("nofd", "failed", "starting", FALSE)
          \/ Stores("failed", "gone", "ready", FALSE)
          \/ Stores("running", "starting", "running", TRUE)
          \/ Stores("starting", "ready", "starting", FALSE)
          \/ Stores("ready", "loop", "ready", TRUE)
          \/ Stores("unrunning", "unready", "running", FALSE)
          \/ Stores("unready", "unstop", "ready", FALSE)
          \/ Stores("unstop", "gone", "stop", FALSE)
      <4> HIDE DEF Stores
      <4>1. QED
            BY <2>6, <3>1 DEF DaemonStore, DaemonLabels, FlagNames
    <3>3. QED
          BY <1>1, <1>2, <1>4, <3>2
          DEF AtStage, AtRest, Claiming, Opening, Looping, Executing, Stopping, FlagNames
  <2>7. QED
        BY <2>1, <2>2, <2>3, <2>4, <2>5, <2>6 DEF Daemon
<1>8. DaemonAt'
  <2>1. CASE to = "gone"
    <3>1. Alive' = {}
          BY <1>4, <2>1 DEF Alive
    <3>2. QED
          BY <1>7, <2>1, <3>1 DEF DaemonAt
  <2>2. CASE to # "gone"
    <3>1. Alive' = {d}
          BY <1>4, <2>2 DEF Alive
    <3>2. QED
          BY <1>7, <2>2, <3>1 DEF DaemonAt
  <2>3. QED
        BY <2>1, <2>2
<1>9. QED
      BY <1>6, <1>8

LEMMA NextService ==
  ASSUME DaemonFirst PROVE ServiceInv /\ [Next /\ StartsApart']_vars => ServiceInv'
<1> SUFFICES ASSUME ServiceInv, [Next /\ StartsApart']_vars PROVE ServiceInv'
    OBVIOUS
<1>1. TypeInv'
      BY NextType DEF ServiceInv
<1>2. CASE UNCHANGED vars
      BY <1>1, <1>2
      DEF ServiceInv, StartsApart, CallersAt, DaemonAt, AtStage, AtRest, Alive, vars
<1>3. CASE Next /\ StartsApart'
  <2>1. CallersAt' /\ DaemonAt'
        BY <1>3, ClientService, DaemonService DEF Next
  <2>2. QED
        BY <1>1, <1>3, <2>1 DEF ServiceInv
<1>4. QED
      BY <1>2, <1>3

-----------------------------------------------------------------------------
(* However many tasks start, stop and use the service, and whatever open()   *)
(* returns, no second task ever works on /dev/can0, as long as no two        *)
(* callers are inside start's unlocked test and store of g_starting at once. *)
THEOREM OneDaemonAtATime ==
  ASSUME DaemonFirst PROVE ApartSpec => []SingleDaemon
<1>1. ServiceInv => SingleDaemon
  <2> SUFFICES ASSUME ServiceInv PROVE SingleDaemon
      OBVIOUS
  <2>1. CASE Alive = {}
        BY <2>1, FS_EmptySet DEF SingleDaemon
  <2>2. CASE Alive # {}
    <3>1. PICK d \in Alive : Alive = {d}
          BY <2>2 DEF ServiceInv, DaemonAt
    <3>2. Cardinality(Alive) = 1
          BY <3>1, FS_Singleton
    <3>3. QED
          BY <3>2 DEF SingleDaemon
  <2>3. QED
        BY <2>1, <2>2
<1>2. QED
      BY <1>1, InitService, NextService, PTL DEF ApartSpec

(* A caller inside a call has no result yet, so only a step of its own can   *)
(* give it one.                                                              *)
LEMMA OwnStep ==
  ASSUME ServiceInv, [Next /\ StartsApart']_vars, NEW c \in Clients,
         pc[c] # "idle", pc'[c] # pc[c]
  PROVE  MayRun /\ Client(c)
<1>1. \A d \in Daemons : ~Daemon(d)
      BY DEF Daemon, Open, DaemonStore, Loop, Fetch, Exec, PutResult, ClearType, Post, Poll, Close
<1>2. PICK b \in Clients : Client(b) \/ \E name \in CallNames : Enter(b, name)
      BY <1>1 DEF Next, vars
<1>3. b = c /\ MayRun
      BY <1>2, ClientMayRun DEF ServiceInv
<1>4. ~\E name \in CallNames : Enter(c, name)
      BY DEF Enter, Move
<1>5. QED
      BY <1>2, <1>3, <1>4

LEMMA NoneServing ==
  ASSUME DaemonFirst, ServiceInv, MayRun, ~(flag["running"] /\ flag["ready"])
  PROVE  /\ Alive = {} /\ fd = None /\ ~flag["running"] /\ ~flag["ready"]
         /\ flag["starting"] => \E b \in Clients : pc[b] = "create"
<1>1. Alive = {}
      BY DaemonServes
<1>2. QED
      BY <1>1 DEF ServiceInv, DaemonAt, AtRest

(* A stop that returns OK after its wait leaves no task, no descriptor and   *)
(* no flag behind that the next start could trip over, for any number of     *)
(* callers.                                                                  *)
THEOREM StopsLeaveClean ==
  ASSUME DaemonFirst PROVE ApartSpec => StopLeavesClean
<1> DEFINE Clean ==
      \A c \in Clients :
        pc[c] = "drain" /\ ret'[c].code = "OK"
          => /\ Alive = {} /\ fd = None
             /\ ~flag["running"] /\ ~flag["ready"]
             /\ flag["starting"] => \E b \in Clients : pc[b] = "create"
<1>1. ServiceInv /\ ServiceInv' /\ [Next /\ StartsApart']_vars => [Clean]_vars
  <2> SUFFICES ASSUME ServiceInv, ServiceInv', [Next /\ StartsApart']_vars,
                      NEW c \in Clients, pc[c] = "drain", ret'[c].code = "OK"
               PROVE  /\ Alive = {} /\ fd = None
                      /\ ~flag["running"] /\ ~flag["ready"]
                      /\ flag["starting"] => \E b \in Clients : pc[b] = "create"
      OBVIOUS
  <2>1. pc'[c] = "idle"
        BY DEF ServiceInv, CallersAt
  <2>2. MayRun /\ Client(c)
        BY <2>1, OwnStep
  <2>3. StopDrain(c)
        BY <2>2 DEF Client, Start, Stop, Send, Register, Unregister, StartCheck, StartClaim,
           StartSemInit, StartClearType, StartStore, StartCreate, StartCreateFails, StartAwait,
           StartVerdict, Started, StopCheck, StopScan, StopLock, StopSet, StopRelease,
           SendLock, SendFill, SendWait, SendUnlock, Goto, Return, Move
  <2>4. ret \in [Clients -> [code : Codes, by : Clients \cup {None}]]
        BY DEF ServiceInv, TypeInv, TypeOK
  <2>5. ~flag["running"]
        BY <2>3, <2>4 DEF StopDrain, Return
  <2>6. QED
        BY <2>2, <2>5, NoneServing
<1>2. QED
      BY <1>1, InitService, NextService, PTL DEF ApartSpec, StopLeavesClean

(* Every start answers with what has become of the daemon, for any number of *)
(* callers: an error when none is left, success when one holds the device    *)
(* and serves, or was told to stop and has not closed it yet.                *)
THEOREM StartsTellTruth ==
  ASSUME DaemonFirst PROVE ApartSpec => StartTellsTruth
<1> DEFINE Truth ==
      \A c \in Clients :
        /\ SaysFailed(c) => Alive = {} /\ fd = None
        /\ SaysOK(c) =>
             \E d \in Alive :
               /\ fd = d
               /\ dpc[d] \in {"loop", "fetch", "poll"} \cup Executing \/ flag["stop"]
<1>1. ServiceInv /\ ServiceInv' /\ [Next /\ StartsApart']_vars => [Truth]_vars
  <2> SUFFICES ASSUME ServiceInv, ServiceInv', [Next /\ StartsApart']_vars, NEW c \in Clients
               PROVE  /\ SaysFailed(c) => Alive = {} /\ fd = None
                      /\ SaysOK(c) =>
                           \E d \in Alive :
                             /\ fd = d
                             /\ dpc[d] \in {"loop", "fetch", "poll"} \cup Executing \/ flag["stop"]
      OBVIOUS
  <2> USE DEF StartCheck, StartVerdict
  <2>0. ret \in [Clients -> [code : Codes, by : Clients \cup {None}]]
        BY DEF ServiceInv, TypeInv, TypeOK
  <2>1. ASSUME SaysFailed(c) PROVE Alive = {} /\ fd = None
    <3>1. pc'[c] = "idle" /\ pc[c] \in {"verdict", "verdictready"}
          BY <2>1 DEF SaysFailed, ServiceInv, CallersAt
    <3>2. MayRun /\ Client(c)
          BY <3>1, OwnStep
    <3>3. StartVerdict(c)
          BY <3>1, <3>2 DEF Client, Start, Stop, Send, Register, Unregister, StartClaim,
             StartSemInit, StartClearType, StartStore, StartCreate, StartCreateFails, StartAwait,
             Started, StopCheck, StopScan, StopLock, StopSet, StopRelease, StopDrain,
             SendLock, SendFill, SendWait, SendUnlock, Goto, Return, Move
    <3>4. ~(flag["running"] /\ flag["ready"])
      <4>1. ~Started(c, "verdictready")
            BY <2>0, <2>1 DEF SaysFailed, Started, Move, ServiceInv, CallersAt
      <4>2. ~Goto(c, "verdict", "verdictready")
            BY <3>1 DEF Goto, Move, ServiceInv, TypeInv, TypeOK
      <4>3. QED
            BY <3>3, <4>1, <4>2
    <3>5. QED
          BY <3>2, <3>4, NoneServing
  <2>2. ASSUME SaysOK(c)
        PROVE  \E d \in Alive :
                 /\ fd = d
                 /\ dpc[d] \in {"loop", "fetch", "poll"} \cup Executing \/ flag["stop"]
    <3>1. pc'[c] \in {"register", "lock", "idle"} /\ pc[c] \in {"checkready", "verdictready"}
          BY <2>2 DEF SaysOK, AfterStart
    <3>2. MayRun /\ Client(c)
          BY <3>1, OwnStep
    <3>3. StartCheck(c) \/ StartVerdict(c)
          BY <3>1, <3>2 DEF Client, Start, Stop, Send, Register, Unregister, StartClaim,
             StartSemInit, StartClearType, StartStore, StartCreate, StartCreateFails, StartAwait,
             Started, StopCheck, StopScan, StopLock, StopSet, StopRelease, StopDrain,
             SendLock, SendFill, SendWait, SendUnlock, Goto, Return, Move
    <3>4. flag["ready"]
      <4>1. ~Goto(c, "checkready", "claim") /\ ~Goto(c, "check", "claim")
            /\ ~Goto(c, "check", "checkready") /\ ~Goto(c, "verdict", "verdictready")
            BY <3>1 DEF Goto, Move, ServiceInv, TypeInv, TypeOK
      <4>2. ~Return(c, "verdictready", "EIO") /\ ~Return(c, "verdict", "EIO")
            BY <2>0, <2>2 DEF SaysOK, Return
      <4>3. QED
            BY <3>3, <4>1, <4>2
    <3>5. PICK d \in Alive : TRUE
          BY <3>4 DEF ServiceInv, DaemonAt, AtRest
    <3>6. fd = d /\ dpc[d] \in {"exec", "poll", "close"}
          BY <3>2, DaemonServes
    <3>7. dpc[d] = "close" => flag["stop"]
          BY DEF ServiceInv, DaemonAt, AtStage, Stopping
    <3>8. QED
          BY <3>6, <3>7 DEF Executing
  <2>3. QED
        BY <2>1, <2>2
<1>2. QED
      BY <1>1, InitService, NextService, PTL DEF ApartSpec, StartTellsTruth
=============================================================================
