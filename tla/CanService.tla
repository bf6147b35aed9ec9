----------------------------- MODULE CanService -----------------------------
(* The task structure of the shared CAN service (ok8mp_can_service_main.c):  *)
(* client tasks call start, stop, subscribe, unsubscribe, send and recover;  *)
(* a daemon task owns /dev/can0 and executes one command at a time, handed   *)
(* over through g_command and the semaphore g_command.done.                  *)
(*                                                                           *)
(* Every access to a shared variable is a step of its own, except where the  *)
(* code holds g_lock over a section.  What a frame contains, which result    *)
(* the driver returns and the receive queues (module CanRouter) are left out.*)
EXTENDS Naturals, FiniteSets

CONSTANTS
  Clients,      \* tasks that call the service: NSH commands, agent tools
  Daemons,      \* identities for the tasks task_create() can still give
  None,         \* no client, no daemon, no lock holder
  MaxSubscribers, \* CAN_SERVICE_MAX_SUBSCRIBERS
  Calls,        \* Calls[c]: the entry points client c uses
  Up,           \* TRUE: the service was started before the clients run
  DaemonFirst   \* TRUE: the daemon has a higher priority than every client

CallNames == {"start", "stop", "subscribe", "unsubscribe", "send", "recover"}
FlagNames == {"running", "starting", "ready", "stop"}

ASSUME ClientsAssumption ==
  /\ None \notin Clients \cup Daemons
  /\ Daemons # {}
  /\ MaxSubscribers \in Nat
  /\ Calls \in [Clients -> SUBSET CallNames]
  /\ Up \in BOOLEAN
  /\ DaemonFirst \in BOOLEAN

VARIABLES
  flag,     \* g_running, g_starting, g_ready, g_stop
  fd,       \* g_fd: the daemon whose open() it holds, None for -1
  command,  \* g_command.type and .msg, as [type, by]: by wrote the request
  result,   \* g_command.result, as [code, by]: by is the request it answers
  semInit,  \* g_command_sem_initialized
  done,     \* the count of g_command.done
  txLock,   \* holder of g_tx_lock
  subs,     \* the clients whose subscription is active
  pc,       \* where each client is
  call,     \* the entry point each client last entered
  ret,      \* what that call returned, [code, by]; code "none" while it runs
  dpc,      \* where each daemon is
  job       \* the request a daemon has read, and its outcome, [type, by, code]

flags   == <<flag, fd>>
mailbox == <<command, result, semInit, done>>
client  == <<pc, call, ret>>
daemon  == <<dpc, job>>
vars    == <<flags, mailbox, txLock, subs, client, daemon>>

ClientLabels ==
  {"idle",
   "check", "checkready", "claim", "seminit", "type", "stop", "ready", "starting",
   "create", "await", "awaitready", "verdict", "verdictready",   \* start
   "running", "scan", "haltlock", "halt", "release", "drain",    \* stop
   "register", "unregister",
   "lock", "fill", "wait", "unlock"}                             \* send, recover

DaemonLabels ==
  {"gone", "open", "nofd", "failed", "running", "starting", "ready", "loop",
   "fetch", "exec", "result", "none", "post", "poll", "close", "closed",
   "unrunning", "unready", "unstop"}

(* Where a daemon may sleep: in close(), which drains the transmit queue, in *)
(* the retry loop of a write and in the usleep that ends a poll.  open()     *)
(* waits only for a task that is opening or closing the device.              *)
Blocking == {"gone", "exec", "poll", "close"}

Types   == {"none", "send", "recover"}
Codes   == {"none", "OK", "EIO", "ETIMEDOUT", "EBUSY", "ENOSPC", "ENOENT", "ENOMEM"}
Outcomes == {"OK", "EIO", "ETIMEDOUT"}

NoAnswer == [code |-> "none", by |-> None]
NoJob    == [type |-> "none", by |-> None, code |-> "none"]

TypeOK ==
  /\ flag \in [FlagNames -> BOOLEAN]
  /\ fd \in Daemons \cup {None}
  /\ command \in [type : Types, by : Clients \cup {None}]
  /\ result \in [code : Codes, by : Clients \cup {None}]
  /\ semInit \in BOOLEAN
  /\ done \in Nat
  /\ txLock \in Clients \cup {None}
  /\ subs \subseteq Clients
  /\ pc \in [Clients -> ClientLabels]
  /\ call \in [Clients -> CallNames]
  /\ ret \in [Clients -> [code : Codes, by : Clients \cup {None}]]
  /\ dpc \in [Daemons -> DaemonLabels]
  /\ job \in [Daemons -> [type : Types, by : Clients \cup {None}, code : Codes]]

(* Either nothing has run since boot, or one `can_service start` has         *)
(* completed and its daemon is serving.                                      *)
FirstDaemon == CHOOSE d \in Daemons : TRUE

Init ==
  /\ flag = [f \in FlagNames |-> Up /\ f \in {"running", "ready"}]
  /\ fd = IF Up THEN FirstDaemon ELSE None
  /\ command = [type |-> "none", by |-> None]
  /\ result = NoAnswer
  /\ semInit = Up
  /\ done = 0
  /\ txLock = None
  /\ subs = {}
  /\ pc = [c \in Clients |-> "idle"]
  /\ call \in [Clients -> {"start"}]
  /\ ret = [c \in Clients |-> NoAnswer]
  /\ dpc = [d \in Daemons |-> IF Up /\ d = FirstDaemon THEN "loop" ELSE "gone"]
  /\ job = [d \in Daemons |-> NoJob]

-----------------------------------------------------------------------------
(* A client runs only when no daemon can, if the daemon has the higher       *)
(* priority on the single core.                                              *)
MayRun == DaemonFirst => \A d \in Daemons : dpc[d] \in Blocking

Move(c, from, to) ==
  /\ MayRun
  /\ pc[c] = from
  /\ pc' = [pc EXCEPT ![c] = to]

Goto(c, from, to) == Move(c, from, to) /\ UNCHANGED <<call, ret>>

Return(c, from, code) ==
  /\ Move(c, from, "idle")
  /\ ret' = [ret EXCEPT ![c] = [code |-> code, by |-> None]]
  /\ UNCHANGED call

Set(name, value) == flag' = [flag EXCEPT ![name] = value] /\ UNCHANGED fd

-----------------------------------------------------------------------------
(* A client enters one of its entry points.                                  *)
FirstLabel(name) ==
  CASE name = "stop" -> "running"
    [] name = "unsubscribe" -> "unregister"
    [] OTHER -> "check"

Enter(c, name) ==
  /\ name \in Calls[c]
  /\ name = "unsubscribe" <=> c \in subs   \* a client holds one handle at most
  /\ Move(c, "idle", FirstLabel(name))
  /\ call' = [call EXCEPT ![c] = name]
  /\ ret' = [ret EXCEPT ![c] = NoAnswer]
  /\ UNCHANGED <<flags, mailbox, txLock, subs, daemon>>

-----------------------------------------------------------------------------
(* ok8mp_can_service_start, also the prologue of subscribe, send, recover.   *)

(* What the caller of start does when it returned OK.                        *)
AfterStart(c) ==
  CASE call[c] = "subscribe" -> "register"
    [] call[c] \in {"send", "recover"} -> "lock"
    [] OTHER -> "idle"

Started(c, from) ==
  /\ Move(c, from, AfterStart(c))
  /\ ret' = IF call[c] = "start" THEN [ret EXCEPT ![c].code = "OK"] ELSE ret
  /\ UNCHANGED call

StartCheck(c) ==
  /\ \/ flag["running"] /\ Goto(c, "check", "checkready")
     \/ ~flag["running"] /\ Goto(c, "check", "claim")
     \/ flag["ready"] /\ Started(c, "checkready")
     \/ ~flag["ready"] /\ Goto(c, "checkready", "claim")
  /\ UNCHANGED <<flags, mailbox, txLock, subs, daemon>>

StartClaim(c) ==
  /\ Goto(c, "claim", IF flag["starting"] THEN "await" ELSE "seminit")
  /\ UNCHANGED <<flags, mailbox, txLock, subs, daemon>>

StartSemInit(c) ==
  /\ Goto(c, "seminit", "type")
  /\ semInit' = TRUE
  /\ done' = IF semInit THEN done ELSE 0
  /\ UNCHANGED <<flags, command, result, txLock, subs, daemon>>

StartClearType(c) ==
  /\ Goto(c, "type", "stop")
  /\ command' = [command EXCEPT !.type = "none"]
  /\ UNCHANGED <<flags, result, semInit, done, txLock, subs, daemon>>

StartStore(c) ==
  /\ \/ Goto(c, "stop", "ready") /\ Set("stop", FALSE)
     \/ Goto(c, "ready", "starting") /\ Set("ready", FALSE)
     \/ Goto(c, "starting", "create") /\ Set("starting", TRUE)
  /\ UNCHANGED <<mailbox, txLock, subs, daemon>>

StartCreate(c) ==
  /\ Goto(c, "create", "await")
  /\ \E d \in Daemons :
       /\ dpc[d] = "gone"
       /\ dpc' = [dpc EXCEPT ![d] = "open"]
  /\ UNCHANGED <<flags, mailbox, txLock, subs, job>>

StartCreateFails(c) ==
  /\ Return(c, "create", "ENOMEM")
  /\ Set("starting", FALSE)
  /\ UNCHANGED <<mailbox, txLock, subs, daemon>>

StartAwait(c) ==
  /\ \/ flag["starting"] /\ Goto(c, "await", "awaitready")
     \/ ~flag["starting"] /\ Goto(c, "await", "verdict")
     \/ flag["ready"] /\ Goto(c, "awaitready", "verdict")
     \/ ~flag["ready"] /\ Goto(c, "awaitready", "await")
     \/ ~flag["ready"] /\ Return(c, "awaitready", "ETIMEDOUT")
  /\ UNCHANGED <<flags, mailbox, txLock, subs, daemon>>

StartVerdict(c) ==
  /\ \/ flag["running"] /\ Goto(c, "verdict", "verdictready")
     \/ ~flag["running"] /\ Return(c, "verdict", "EIO")
     \/ flag["ready"] /\ Started(c, "verdictready")
     \/ ~flag["ready"] /\ Return(c, "verdictready", "EIO")
  /\ UNCHANGED <<flags, mailbox, txLock, subs, daemon>>

Start(c) ==
  \/ StartCheck(c) \/ StartClaim(c) \/ StartSemInit(c) \/ StartClearType(c)
  \/ StartStore(c) \/ StartCreate(c) \/ StartCreateFails(c)
  \/ StartAwait(c) \/ StartVerdict(c)

-----------------------------------------------------------------------------
(* ok8mp_can_service_stop.                                                   *)
StopCheck(c) ==
  /\ \/ flag["running"] /\ Goto(c, "running", "scan")
     \/ ~flag["running"] /\ Return(c, "running", "OK")
  /\ UNCHANGED <<flags, mailbox, txLock, subs, daemon>>

StopScan(c) ==
  /\ \/ subs = {} /\ Goto(c, "scan", "haltlock")
     \/ subs # {} /\ Return(c, "scan", "EBUSY")
  /\ UNCHANGED <<flags, mailbox, txLock, subs, daemon>>

StopLock(c) ==
  /\ Goto(c, "haltlock", "halt")
  /\ txLock = None
  /\ txLock' = c
  /\ UNCHANGED <<flags, mailbox, subs, daemon>>

StopSet(c) ==
  /\ Goto(c, "halt", "release")
  /\ Set("stop", TRUE)
  /\ UNCHANGED <<mailbox, txLock, subs, daemon>>

StopRelease(c) ==
  /\ Goto(c, "release", "drain")
  /\ txLock' = None
  /\ UNCHANGED <<flags, mailbox, subs, daemon>>

StopDrain(c) ==
  /\ \/ ~flag["running"] /\ Return(c, "drain", "OK")
     \/ flag["running"] /\ Return(c, "drain", "ETIMEDOUT")
  /\ UNCHANGED <<flags, mailbox, txLock, subs, daemon>>

Stop(c) ==
  \/ StopCheck(c) \/ StopScan(c) \/ StopLock(c)
  \/ StopSet(c) \/ StopRelease(c) \/ StopDrain(c)

-----------------------------------------------------------------------------
(* ok8mp_can_service_subscribe, after start, and _unsubscribe: each is one   *)
(* section under g_lock.                                                     *)
Register(c) ==
  /\ \/ /\ Cardinality(subs) < MaxSubscribers
        /\ subs' = subs \cup {c}
        /\ Return(c, "register", "OK")
     \/ /\ Cardinality(subs) >= MaxSubscribers
        /\ UNCHANGED subs
        /\ Return(c, "register", "ENOSPC")
  /\ UNCHANGED <<flags, mailbox, txLock, daemon>>

Unregister(c) ==
  /\ Return(c, "unregister", "OK")
  /\ subs' = subs \ {c}
  /\ UNCHANGED <<flags, mailbox, txLock, daemon>>

-----------------------------------------------------------------------------
(* ok8mp_can_service_send and _recover, after start.                         *)
(* Mutant of SendLock: g_tx_lock is not waited for.                          *)
SendWithoutLock(c) ==
  /\ Goto(c, "lock", "fill")
  /\ txLock' = c
  /\ UNCHANGED <<flags, mailbox, subs, daemon>>

SendLock(c) ==
  /\ Goto(c, "lock", "fill")
  /\ txLock = None
  /\ txLock' = c
  /\ UNCHANGED <<flags, mailbox, subs, daemon>>

SendFill(c) ==
  /\ Goto(c, "fill", "wait")
  /\ command' = [type |-> call[c], by |-> c]
  /\ UNCHANGED <<flags, result, semInit, done, txLock, subs, daemon>>

(* Mutant of SendWait: the wait is interrupted and taken for a post.         *)
SendWaitInterrupted(c) ==
  /\ Goto(c, "wait", "unlock")
  /\ done' = done - 1
  /\ UNCHANGED <<flags, command, result, semInit, txLock, subs, daemon>>

SendWait(c) ==
  /\ Goto(c, "wait", "unlock")
  /\ done > 0
  /\ done' = done - 1
  /\ UNCHANGED <<flags, command, result, semInit, txLock, subs, daemon>>

(* Mutant of SendUnlock: an error return leaves g_tx_lock held.              *)
SendLeaksLock(c) ==
  /\ Move(c, "unlock", "idle")
  /\ ret' = [ret EXCEPT ![c] = result]
  /\ txLock' = IF result.code = "OK" THEN None ELSE txLock
  /\ UNCHANGED <<flags, mailbox, subs, call, daemon>>

SendUnlock(c) ==
  /\ Move(c, "unlock", "idle")
  /\ ret' = [ret EXCEPT ![c] = result]
  /\ txLock' = None
  /\ UNCHANGED <<flags, mailbox, subs, call, daemon>>

Send(c) == SendLock(c) \/ SendFill(c) \/ SendWait(c) \/ SendUnlock(c)

-----------------------------------------------------------------------------
(* can_service_daemon.                                                       *)
DGoto(d, from, to) ==
  /\ dpc[d] = from
  /\ dpc' = [dpc EXCEPT ![d] = to]
  /\ UNCHANGED job

Open(d) ==
  /\ \/ DGoto(d, "open", "running") /\ fd' = d
     \/ DGoto(d, "open", "nofd") /\ fd' = None
  /\ UNCHANGED <<flag, mailbox, txLock, subs, client>>

(* Mutant of DaemonStore: g_ready is never set.                              *)
DaemonNeverReady(d) ==
  /\ \/ DGoto(d, "nofd", "failed") /\ Set("starting", FALSE)
     \/ DGoto(d, "failed", "gone") /\ Set("ready", FALSE)
     \/ DGoto(d, "running", "starting") /\ Set("running", TRUE)
     \/ DGoto(d, "starting", "loop") /\ Set("starting", FALSE)
     \/ DGoto(d, "unrunning", "unready") /\ Set("running", FALSE)
     \/ DGoto(d, "unready", "unstop") /\ Set("ready", FALSE)
     \/ DGoto(d, "unstop", "gone") /\ Set("stop", FALSE)
  /\ UNCHANGED <<mailbox, txLock, subs, client>>

(* The stores after open() and those before the task exits.                  *)
DaemonStore(d) ==
  /\ \/ DGoto(d, "nofd", "failed") /\ Set("starting", FALSE)
     \/ DGoto(d, "failed", "gone") /\ Set("ready", FALSE)
     \/ DGoto(d, "running", "starting") /\ Set("running", TRUE)
     \/ DGoto(d, "starting", "ready") /\ Set("starting", FALSE)
     \/ DGoto(d, "ready", "loop") /\ Set("ready", TRUE)
     \/ DGoto(d, "unrunning", "unready") /\ Set("running", FALSE)
     \/ DGoto(d, "unready", "unstop") /\ Set("ready", FALSE)
     \/ DGoto(d, "unstop", "gone") /\ Set("stop", FALSE)
  /\ UNCHANGED <<mailbox, txLock, subs, client>>

(* Mutant of Loop: the task leaves without closing the device.               *)
LoopLeavesOpen(d) ==
  /\ DGoto(d, "loop", IF flag["stop"] THEN "unrunning" ELSE "fetch")
  /\ UNCHANGED <<flags, mailbox, txLock, subs, client>>

Loop(d) ==
  /\ DGoto(d, "loop", IF flag["stop"] THEN "close" ELSE "fetch")
  /\ UNCHANGED <<flags, mailbox, txLock, subs, client>>

Fetch(d) ==
  /\ dpc[d] = "fetch"
  /\ dpc' = [dpc EXCEPT ![d] = IF command.type = "none" THEN "poll" ELSE "exec"]
  /\ job' = [job EXCEPT ![d].type = command.type]
  /\ UNCHANGED <<flags, mailbox, txLock, subs, client>>

(* can_service_send_fd or can_service_recover_fd: g_command.msg is read here.*)
Exec(d) ==
  /\ dpc[d] = "exec"
  /\ dpc' = [dpc EXCEPT ![d] = "result"]
  /\ \E code \in Outcomes :
       job' = [job EXCEPT ![d] = [type |-> @.type, by |-> command.by, code |-> code]]
  /\ UNCHANGED <<flags, mailbox, txLock, subs, client>>

PutResult(d) ==
  /\ DGoto(d, "result", "none")
  /\ result' = [code |-> job[d].code, by |-> job[d].by]
  /\ UNCHANGED <<flags, command, semInit, done, txLock, subs, client>>

(* Mutant of ClearType: the command is left in g_command after its answer.   *)
ClearTypeForgotten(d) ==
  /\ DGoto(d, "none", "post")
  /\ UNCHANGED <<flags, mailbox, txLock, subs, client>>

ClearType(d) ==
  /\ DGoto(d, "none", "post")
  /\ command' = [command EXCEPT !.type = "none"]
  /\ UNCHANGED <<flags, result, semInit, done, txLock, subs, client>>

Post(d) ==
  /\ dpc[d] = "post"
  /\ dpc' = [dpc EXCEPT ![d] = "poll"]
  /\ job' = [job EXCEPT ![d] = NoJob]
  /\ done' = done + 1
  /\ UNCHANGED <<flags, command, result, semInit, txLock, subs, client>>

(* Reads, dispatch, status, automatic recovery and usleep.                   *)
Poll(d) ==
  /\ DGoto(d, "poll", "loop")
  /\ UNCHANGED <<flags, mailbox, txLock, subs, client>>

Close(d) ==
  /\ \/ DGoto(d, "close", "closed") /\ UNCHANGED fd
     \/ DGoto(d, "closed", "unrunning") /\ fd' = None
  /\ UNCHANGED <<flag, mailbox, txLock, subs, client>>

Daemon(d) ==
  \/ Open(d) \/ DaemonStore(d) \/ Loop(d) \/ Fetch(d) \/ Exec(d)
  \/ PutResult(d) \/ ClearType(d) \/ Post(d) \/ Poll(d) \/ Close(d)

-----------------------------------------------------------------------------
Client(c) == Start(c) \/ Stop(c) \/ Register(c) \/ Unregister(c) \/ Send(c)

Next ==
  \/ \E c \in Clients : Client(c) \/ \E name \in CallNames : Enter(c, name)
  \/ \E d \in Daemons : Daemon(d)

Spec == Init /\ [][Next]_vars

(* Every runnable task gets the processor (RR_INTERVAL is configured), and a *)
(* NuttX mutex is handed to its longest waiter of the highest priority.      *)
Fairness ==
  /\ \A c \in Clients : WF_vars(Client(c)) /\ SF_vars(SendLock(c) \/ StopLock(c))
  /\ \A d \in Daemons : WF_vars(Daemon(d))

FairSpec == Spec /\ Fairness

(* start tests g_starting (line 367) and stores it (383) without a lock: two *)
(* callers between the failed test of g_running and task_create() make two   *)
(* daemons.  Any number of tasks may start, stop and use the service in any  *)
(* order; only a second caller inside that stretch is left out here.         *)
Claiming == {"claim", "seminit", "type", "stop", "ready", "starting", "create"}

StartsApart ==
  \A c, b \in Clients : pc[c] \in Claiming /\ pc[b] \in Claiming => c = b

ApartSpec == Init /\ [][Next /\ StartsApart']_vars

-----------------------------------------------------------------------------
(* A caller that has handed over a command waits for this daemon's answer.   *)
Waiting(c) == pc[c] = "wait"
Executing == {"exec", "result", "none", "post"}
Answering(d) == dpc[d] \in Executing
Alive == {d \in Daemons : dpc[d] # "gone"}

(* An answer belongs to the call it is returned from: no caller of send or   *)
(* recover leaves with the result of a request somebody else made, the       *)
(* mix-up that a second command in g_command would cause.                    *)
AnswerIsMine ==
  \A c \in Clients :
    pc[c] = "idle" /\ call[c] \in {"send", "recover"} /\ ret[c].code \in Outcomes
      => ret[c].by \in {c, None}

(* The hand-over is one-at-a-time and exact: a caller waits in nxsem_wait    *)
(* exactly while its request is unread, or being executed, or answered by    *)
(* one token not yet taken, never two of these.  A spare token would let a   *)
(* later caller return before its frame was written, a missing one hang it.  *)
Unread   == command.type # "none" /\ \A d \in Daemons : ~Answering(d)
Busy     == \E d \in Daemons : Answering(d)
Answered == done > 0

OneCommandInFlight ==
  /\ (\E c \in Clients : Waiting(c)) <=> Unread \/ Busy \/ Answered
  /\ ~(Unread /\ Answered) /\ ~(Busy /\ Answered)
  /\ done <= 1
  /\ \A c, b \in Clients : Waiting(c) /\ Waiting(b) => c = b
  /\ \A d, e \in Daemons : Answering(d) /\ Answering(e) => d = e

(* The service is the single owner of /dev/can0: never two daemon tasks at   *)
(* work on it.                                                               *)
SingleDaemon == Cardinality(Alive) <= 1

(* Shutdown is serialised against callers that wait for a daemon command: a  *)
(* caller in nxsem_wait on g_command.done always has a daemon to answer it.  *)
CallerHasDaemon == (\E c \in Clients : Waiting(c) /\ done = 0) => Alive # {}

(* When stop has waited for the daemon and returns OK, the task is gone with *)
(* its descriptor, and none of the stores it makes on its way out is still   *)
(* to come: the next start cannot be undone by the last daemon.  What is set *)
(* then was set by the next start; g_stop may be, by a stop repeated.        *)
StopLeavesClean ==
  [][\A c \in Clients :
       pc[c] = "drain" /\ ret'[c].code = "OK"
         => /\ Alive = {} /\ fd = None
            /\ ~flag["running"] /\ ~flag["ready"]
            /\ flag["starting"] => \E b \in Clients : pc[b] = "create"]_vars

(* Whatever start answers is true, on its early return too: -EIO only when   *)
(* no daemon is left, and OK only while a daemon holds the device, and is in *)
(* its loop unless a stop has told it to leave.                              *)
SaysFailed(c) ==
  pc[c] \in {"verdict", "verdictready"} /\ ret'[c].code = "EIO"

SaysOK(c) ==
  /\ pc[c] \in {"checkready", "verdictready"}
  /\ pc'[c] = AfterStart(c) /\ ret'[c].code # "EIO"

StartTellsTruth ==
  [][\A c \in Clients :
       /\ SaysFailed(c) => Alive = {} /\ fd = None
       /\ SaysOK(c) =>
            \E d \in Alive :
              /\ fd = d
              /\ dpc[d] \in {"loop", "fetch", "poll"} \cup Executing \/ flag["stop"]]_vars

(* Every send and every recover returns: once a caller is past start, it     *)
(* gets the lock, its answer, and leaves.                                    *)
CallsReturn == \A c \in Clients : pc[c] = "lock" ~> pc[c] = "idle"
=============================================================================
