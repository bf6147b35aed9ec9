# TLA+ models of the OK8MP M7 services

This directory is a verification development for the firmware of the OK8MP M7
core: the CAN service and its ISO-TP client, the ESP32 that plays the vehicle's
ECU on the other end of the bus, the CAN and Ethernet drivers underneath, and the
AI agent that runs beside them. It holds
TLA+ modules, TLC configurations and TLAPS proofs. `PROJECT.json` is the index:
it gives the source lines of every definition, the hazards with the properties
that cover them, and the runs and theorems.

Contents: 1 the system, 2 its components, 3 the modules, 4 the runs, 5 fairness,
6 the proofs, 7 where code and comments disagree, 8 what is left out, 9 the plan.

To run it, for example:

    tlc -workers 2 -config CanServiceSteady.cfg MCCanService
    tlapm CanService_proofs.tla

Short paths: `can_service/` is
`src/app/ok8mp_m7_services/overlays/apps/examples/ok8mp_can_service/`, `ecu/` is
`src/app/ok8mp_m7_services/esp32_can_ecu/src/`, `agent/` is
`src/app/ok8mp_m7_services/overlays/packages/ai_agent/src/`, `board/` is
`src/board/ok8mp_m7_openvela/src/`.

## 1. The system

    NSH commands, diagnostics, agent tools            sources: NSH, WebSocket, Feishu,
        | start stop subscribe receive send ...       voice, quickapp, cron
        v                                                 | push           ^ dispatch
    CAN service: client side (any task)                   v                |
        | g_command, g_tx_lock   ^ rings, semaphores   inbound queue   outbound queue
        v                        |                        |                ^
    CAN service: daemon (one task) owns /dev/can0         v                |
        | write, ioctl           | read                agent loop  ->  LLM, tools
        v                        ^                        (the CAN tools are clients
    FlexCAN driver (interrupts, mailboxes)                 of the CAN service)
        |                        ^
        ===========  CAN bus  ============
                 ESP32 ECU (one loop): ISO-TP, UDS, OBD

Everything on the M7 runs in one address space on one core under NuttX with
preemptive priorities: the CAN daemon at 110 (`can_service/Kconfig`), the CAN
applications at 100, the agent's threads between 30 and 60; round robin among
equals. Interleaving is therefore real between tasks at any shared access, and
priorities forbid some of it. The CAN side and the agent side meet in the agent's
CAN tool, which calls the ordinary client interface.

## 2. Components

For each: the state it keeps; its operations; what is hard; what makes it right.
"M" modelled, "P" partly, "-" not modelled.

**CAN service (M)**, `can_service/ok8mp_can_service_main.c`.
State: four flags (`g_running`, `g_starting`, `g_ready`, `g_stop`), the descriptor,
one command slot with its result and its semaphore, `g_tx_lock`, and under `g_lock`
a table of subscriptions, each with a filter, a ring of 16 frames and a semaphore.
Operations: start, stop, subscribe, unsubscribe, receive, send, recover; the
daemon's loop. Hard: flags stored one after another by one task and polled by
another; a hand-over without a timeout; start and stop racing with each other and
with callers; rings that overflow, semaphores that have to agree with them, slots
taken again. Right: an answer reaches the call that asked; every call returns;
one daemon; stop leaves nothing behind; start tells the truth; a subscription
is a mailbox that loses only its oldest frames.

**ISO-TP client (P)**, `can_service/ok8mp_can_isotp.c`. State: one lock and, per
request, a subscription, an assembly buffer, a sequence number, a deadline.
One operation: request and wait for the answer. Hard: two sides that wait for each
other's frames, lost frames, late answers to earlier requests, 4-bit sequence
numbers. Right: no payload is mixed from two messages; the answer is to this request.

**UDS and OBD client (P)**, `can_service/ok8mp_can_diag.c`. Stateless sequences of
ISO-TP requests: read the status, set the state (two requests: a session, then a
write), read and clear trouble codes, the OBD services. Hard: one request of
several fails; two tasks, whose requests alternate, change the one session
the ECU has; requests carry no identification. Right: what is reported is what the
ECU held during the call, what succeeded was done during the call, a refusal has a reason.

**ESP32 ECU (P)**, `ecu/main.cpp`. State: reception context, session, stored
trouble codes, simulated state. Operations: one per CAN frame and UDS service, the
console, a periodic status frame. Hard: a reception left open by a client that gave up;
codes, state and sensors that must agree through clearing and the console. Right:
only requests some client sent are served, in order, at most once.

**FlexCAN driver (P)**, `board/ok8mp_flexcan.c`. State: eight receive mailboxes and
one for transmission with their flags and masks, shared by the controller, the
interrupt and tasks. Operations: setup, rxint, send, txready, the handler,
recovery, shutdown. Hard: mailboxes are read in the order of their index, whatever
order they were filled in; a mailbox is emptied and its flag cleared in two writes; the
handler may itself send, which waits up to a millisecond; a send clears a completion
nobody served; recovery with frames in flight. Right: frames in order or visibly lost, what
waits has an interrupt to come, and the exceptions are these and no more.

**FEC Ethernet driver (P)**, `board/ok8mp_fec.c`. State: two descriptor rings shared
with the DMA, the heads of the driver, the positions of the DMA. Operations: ifup,
ifdown, a worker that polls every 10 ms, replies, a raw probe. Hard: the DMA goes to
rest between any two steps of the worker; replies and polled frames compete for two
descriptors, and the controller may do nothing more once both are READY; the probe knows nothing of the driver's lock. Right: no descriptor is
used by both sides, frames in order, the DMA always woken again.

**CAN applications (-)**: monitor, ECU simulator, diagnostic; command-line users
of the CAN service, whose behaviour as clients is in CanService and CanRouter.

**HTTPS client and network proxy (-)**: one socket, one request, in sequence.

**Board test tools (P)**: of these, `fec_probe`, which shares the Ethernet rings.

**Voice board support, board bring-up, MX8MP chip port (-)**: register access and
initialisation that runs once.

**Agent message bus (P)**, `agent/core/message_bus.c`, `message_bus_tap.c`.
State: two bounded queues, each with a mutex and two condition variables, a
shutdown flag, a list of taps. Operations: push (waits at most 5 s for room), pop
(inbound for ever, outbound 1 s), wakeup, destroy. Hard: signals that go to a thread
whose timeout is about to strike, threads that barge in, shutdown at any moment,
ownership of the text from malloc to free. Right: one owner per message, nobody
waits for what is there, order is kept, shutdown ends.

**Agent loop (P)**, `agent/core/agent_loop.c`. State: of a turn, the round, the last
tool calls, the text it would send. Takes a request, says "working", runs up to ten
rounds of LLM and tools, answers. Hard: a turn that times out, is retried on another
backend, asks a better model, repeats itself or is cut off, with something worth
keeping at each of these moments. Right: status before answer, answers in the
order of the requests; what the model said last is what the user gets.

**Agent main (P)**, `agent/agent_main.c`. Start-up (the agent loop only once the network is
connected), the outbound dispatcher, shutdown (flag, wakeup, half a second, destroy). Hard:
sources push before the loop runs. Right: nobody is in the bus when it is destroyed.

**LLM router, proxy and cache (P)**, `agent/llm/`. State: slots of backends with their
priority and tier, failures and back-off; the backend applied to the proxy; cached answers. Operations:
select, apply, report, the shell's commands that change slots and profile; get and put.
Hard: the shell changes what a turn has selected; time moves on between selection
and report. Right: a backend that failed is let alone, then comes back; a cached
answer is the last one and young enough.

**Cron and heartbeat (P)**, `agent/infra/cron_service.c`, `heartbeat.c`. State: a
table of 16 jobs under one lock, a copy of it in a file, a thread each, the wall
clock. Operations: add, remove, start, stop, load; a pass over what is due. The
file lies in a file system in memory (`/data` on this board), so it outlives the
program but not a reset. Hard: the table is changed while it is walked; time is
read before the lock is taken and the clock is set while jobs wait; the lock is
held while a job's action runs, which may want it; stop followed by start; intervals
that are truncated to 0; a file that is written at any size and read up to 8 KB. Right: a
one-shot job fires at most once, what is due fires, what was missed does not, the
file says what the table says.

**Agent memory and sessions (-)**: ring of turns per session, files.

**Network manager (-)**, `agent/infra/network_manager.c`. On this board a test whether an
interface has an address and a wait that repeats it; only with `CONFIG_AI_AGENT_NET_RPMSG`, which
the board's configuration does not set, also a thread that polls and a limit of connections.

**Agent transport and configuration (-)**: TLS, HTTP, key-value store.

**Agent channels (-)**: adapters; in the model they are the threads that push
requests; `AgentTurn` has the shell's router commands. The SDK's local client belongs
here and is planned (section 9).

**Agent tools (-)**: bodies are I/O; the limits of `tool_guard.c` are planned.

**Agent nodes, agent voice (-)**: remote invocation with timeouts; a recording state
machine with barge-in.

## 3. Modules

| Module | What it is | Composes with |
|---|---|---|
| `CanService` | tasks, flags and the command hand-over of the CAN service | |
| `CanRouter` | subscription table, rings, tokens of the CAN service | implements `LossyMailbox` |
| `LossyMailbox` | abstract: what a subscription promises | |
| `IsoTp` | the ISO-TP client, the bus, the ECU's transport | its ring is `LossyMailbox` at one client |
| `MessageBus` | both queues, their threads, shutdown | |
| `Cron` | the table of jobs, its file, its thread, the agent and the clock | |
| `Uds` | diagnostic client and ECU above the transport | its channel is what `IsoTp` provides |
| `FlexCan` | mailboxes, interrupt, writers, recovery | the source of the frames `CanRouter` numbers |
| `Fec` | the two rings, the worker, the DMA, the probe | |
| `AgentTurn` | a turn of the agent, router, cache, shell | its answers are what `MessageBus` carries |
| `MC...` | instances for TLC | |
| `..._proofs` | theorems; `Agent_proofs` those of `Cron` and `AgentTurn` | |

A module states the properties; the definitions whose comment begins "Mutant of"
are plausible wrong versions of a definition next to them. They are never part of
a specification; each property is known to fail when one of them is put in place
of what it mutates.

**CanService.** Every access to a shared variable is a step, except under `g_lock`.
`flag`, `fd`, `command`, `result`, `done`, `txLock`, `subs` are the globals;
`pc[c]` and `dpc[d]` say at which access a client or a daemon is. The code path of
start is check - checkready - claim - seminit - type - stop - ready - starting - create -
await - awaitready - verdict - verdictready, one label per access, in the code's order, so
that `g_running && g_ready` and `g_starting && !g_ready` are two steps each; those of stop,
send/recover and of the daemon are read the same way. `by` in a command and in a result is the
request it stems from, which the C code does not record: it is what lets the model
see a mix-up. Results are reduced to OK, -EIO, -ETIMEDOUT. `task_create` and
`open` may fail, a stop may time out at any poll. `DaemonFirst` says whether the
daemon has priority: a client then moves only while every daemon is somewhere it
can sleep. `ApartSpec` is the service without one thing only: a second caller between the test
of `g_starting` (367) and its store (383, or the failure of `task_create`), which section 7 is about (`StartsApart`).
Everything else of any number of callers overlaps freely, starts that wait for another's start included.

**CanRouter.** Each `g_lock` section is one step; the wait on `available` is apart
from the section that takes the frame, as in the code, so an arrival, an overflow or
a timeout may come in between. Frames are numbered by `rx_frames`. A zero-timeout
receive is a wait that may give up at once.

**LossyMailbox.** One sequence per client, of length at most `Depth`; arrival drops
the oldest. Nothing of slots, heads, tails and tokens.

**IsoTp.** A payload is a sequence of pieces `[n, k]`, piece k of request or answer n;
sequence numbers are `k % Modulus`. Time is left out: a timeout may strike wherever
the code looks at the clock. The bus may lose any frame; the client's ring loses
its oldest when full. `fresh`, `clean` and `lost` are history that the properties
refer to.

**MessageBus.** What a queue does between lock and unlock is one step; a thread that
waits on a condition variable is at "full" or "empty" and a signal sends one such
thread, chosen freely, back to test. A signalled thread competes with others. The
agent's turn is reduced to what it pushes: nothing, an answer, or a status and an
answer, with any delay between them. Images are left out: no source makes them.
A message that a full queue refuses still belongs to its pusher. Most pushers free it; the sources in
`Careless` ignore the result, as five of the repository do (section 7), and what they made is in
`leaked`. The agent loop starts "off" and is started at any time or never (`AgentStarts`), while the
sources push already.

**Cron.** The thread's pass is a step per job and per firing, with `s_cron_lock` held
from "scan" to its end (`Locked`), while time passes and the clock may be set; what
others do under the lock is one step. `now` is the time read before the lock was
taken. Of a job, its schedule, what is due next and `last_run` are kept. The clock is
the true time less `lag`, until somebody sets it. `Ask` and `Add` are apart
because the schedule is made before the lock is taken. `interval_s` is truncated to an integer, so a
job may have interval 0 (`Restless`) and be due again in the second in which it fired. `Restart` is the
program run again: it loads the file after the old threads have ended, or leaves the table empty
if the file is over 8 KB, as that of more than `Fits` jobs may be; `refused` is what was in such a
file, `served` what has fired in the present pass. What a firing does (push a message, call a tool) is left out.

**Uds.** A request or an answer is one message, in order or lost: `IsoTp` shows how it
travels and when one is taken for another. Its number `id` is not part of it, so a
client takes the head of `down` whatever it answers, and `late` remembers that it did.
`set_state` is two requests, with the lock free between them. `Snapshot` is all the
ECU's data, `View` what one service reports of it; `done` and `saw` record, for the
calls under way, what the ECU did and held. The console may set any state or
clear the codes, and a restart forgets everything, between any two messages.

**FlexCan.** The flags, masks and mailboxes are registers: the controller fills a
mailbox (`Arrive`) or completes a transmission beside everything else, also between any two
accesses of the handler. That copies the flags once (`Enter`) and takes a mailbox in three
steps: it reads the frame (`Look`), writes EMPTY (`Empty`), clears the flag (`Clear`). A task runs only
while the handler has nothing to do (`TaskRuns`), one core. `task` cuts a
write, a recovery and a shutdown where the controller's progress matters, with
interrupts masked. The upper half of the CAN device is not in the repository: it is
modelled as its caller sees it, a queue that asks `txready`, hands over one message,
hands over the next on completion, and is flushed before a recovery. The handler's completion may so
send, and send may wait up to a millisecond (`irq = "settle"`). One assumption is about time: at most
one frame arrives between two looks at the flags, except while interrupts are held off or the
handler settles, when any number may. The shortest frame of the bus takes 94 us at 500 kbit/s, the rest of
the handler a few. `raced`, `stuck` and `erased` record what went wrong with frames in the three
windows that the code leaves open (section 7), so that the properties can except those frames and no others.

**Fec.** Frame k of a direction since the interface came up goes through descriptor
k - 1 modulo the size of the ring. The DMA (`Store`, `Send`) is the controller as the
driver relies on it: it stops at a descriptor that is not its own and looks again when
RDAR or TDAR is written. The worker's steps are the accesses to descriptors and to
these registers. The contents of a transmit buffer are apart from the descriptor,
because the stack writes the buffer before READY is looked at. `fec_probe` may
initialise, send and reclaim at any moment; the properties speak of an interface that
has come up and not met it since (`disturbed`).

**AgentTurn.** One message after the other. A slot in use has a priority and a tier (`offer`), from the configuration
(`Loaded`, any numbers) or from a shell command (`Presets`); its score may be negative, and then it is never
chosen, since the search starts from -1. A step is one call to the model with what
follows from it: the answer, the tools it asks for, or its failure, which may be a
time-out. The backend selected by one step is applied in the next, so that the
shell may come in between. An answer is known by its turn and its kind: a text of
the model, a report of a time-out, an error. Health of a backend is kept in
seconds, as the code does; `blame` and `given` are the history the properties go by.

## 4. Runs

| Run | Instance | Asks |
|---|---|---|
| `can_steady` | 3 clients, service up, no stop, any relative speed | Can callers mix up or lose answers? Does every call return? |
| `can_shell` | 2 clients, one with all six calls, one that starts, stops, sends and subscribes, 2 daemon identities, failures and timeouts | Do start and stop keep their word through every sequence of commands of two tasks? |
| `can_hang` | 2 clients | section 7 |
| `can_router` | 3 clients, 2 slots, rings of 2, 2 identifiers, 3 frames | Do rings, tokens and slots amount to mailboxes? |
| `isotp` | lengths 0 and 3, numbers modulo 2, rings of 2, 3 calls | What survives lost frames and late answers? |
| `uds` | 2 clients, 2 faults, 3 calls, 1 event | Is what is read true, what succeeded done, what was refused refused for a reason? |
| `flexcan` | 3 mailboxes, 6 frames, 4 writes, 3 resets | Can a frame overtake, vanish or get stuck? |
| `fec` | rings of 2, 3 frames each way, 2 ups, 1 probe | Do worker and DMA stay together, and wake each other? |
| `agent_bus` | 2 sources, one careless, 1 notifier, queues of 1, 3 messages | Ownership, lost wakeups, order, late start, shutdown |
| `bus_destroy` | the same without the assumption `Prompt` | section 7 |
| `agent_turn` | 2 backends, 3 questions, 4 messages, 3 rounds, 3 ticks | Does an answer that was got survive? Is a failed backend let alone? |
| `cron` | table of 2, 3 jobs with intervals 0 and 1, 4 instants, clock 1 behind, files of 1 job always fit, 1 restart | Does every job fire when it should, and only then? |

What they show:

- **can_steady** `AnswerIsMine`: no send or recover returns another request's result.
  `OneCommandInFlight`: a caller waits exactly while its command is unread, executing
  or answered by one token. `CallsReturn`: past start, every call returns.
- **can_shell** `SingleDaemon`, `StopLeavesClean` (after a stop that waited returns OK
  the task, its descriptor and its pending stores are gone, and only another caller's start may
  have begun) and `StartTellsTruth` (-EIO only when no daemon is left; OK, also of a start
  that finds the service up, only while a daemon holds the device and is in its loop, or has been told
  to leave it: that is the start after a stop that timed out, whose OK is good for the
  flags and no more). They need the daemon's priority: with `DaemonFirst = FALSE` TLC finds a
  start that reads the daemon's flags while they are half stored. They hold for two tasks that
  overlap in any way but one, two in the stretch where `g_starting` is tested and stored: the run
  explores the behaviours of `ApartSpec`, by the constraint `StartsApart` (section 7).
- **can_router** `BooksBalance`, in three parts: tokens equal frames and a taker
  still has one (`TokensMatchFrames`), no -EAGAIN after a successful wait
  (`TokenIsHonoured`), a slot and its owner know each other (`SlotsOwned`); and
  `ImplementsMailbox`, the refinement of `LossyMailbox`.
- **isotp** `NothingMixed`: payloads are never mixed and requests served in their order,
  unless a First Frame in that direction was lost. `AnswerIsMine`: a call that begins
  with nothing in flight returns the answer to its own request.
  `UndisturbedCallsSucceed`. The two conditions are limits of the protocol, found by
  TLC: Consecutive Frames after a lost First Frame can continue an open
  reception when the numbers agree, and requests carry no identification, so a late
  answer is taken for the present one.
- **uds** `DoneWithinCall`: what succeeds was carried out by the ECU during the call,
  unless the call took a late answer, which needs an earlier time-out of somebody.
  `ReadsAreTrue`: all of what a read returns was true at one moment of the call, and
  state, sensors and codes agree even in a late answer. `RefusedForAReason`: a write is
  refused only when another task or a restart ended the extended session between the two
  requests of the call; that it can be, without either caller's doing wrong, is a limit
  of the client.
- **flexcan** `FramesAccountedFor`: whatever mailboxes they go through, frames are passed on
  once and in the order they arrived, except that one that came while the handler settled in
  send may pass earlier ones; and one that is not passed on is seen in the count of overruns or
  in a reset, except one that ran over a mailbox between its reading and its emptying.
  `NothingStalls`: a frame in a mailbox has an interrupt to come, except one that was stored
  between the write of EMPTY and the clearing of the flag, and so has
  the message behind a completion that a send erased. TLC reaches all three exceptions.
- **fec** `FramesInOrder`: across wraps, full rings and restarts of the interface, frames
  are taken and sent once and in order. One frame may leave with the contents of the one
  that follows it in the same buffer, when replies have filled both descriptors (section 7).
  `NothingStuck`: the DMA rests only with nothing to do or with the
  worker about to wake it. `EveryFrameServed`: what was stored is taken, and what
  was handed over leaves unless both descriptors become READY, which `ok8mp_fec.c:1271` says
  the controller does not recover from and `dispatch` does not avoid.
- **agent_bus** `OneOwner` (a message is in one place until it is given up, and what is given
  up without being freed is a request of a careless source, never an answer or a notice),
  `NobodyForgotten` (no thread waits for messages or room
  that are there), `AnswersInOrder`, `RequestsTaken` (once the agent loop has been started, a queued request
  is taken unless shutdown; before that, or if it never is, nothing is claimed because nothing holds), `ShutdownEnds`.
- **agent_turn** `AnswerKept`: when the last call of a turn brought a text, the session keeps
  it and nothing else is sent, whatever timed out before. A turn whose last call failed keeps one of two things, and
  sends what it keeps: the message that it timed out, which `dispatch_response` stores like an answer, or
  an answer that an earlier call had brought; with neither it keeps nothing. A time-out is never
  told by a turn whose last call worked. `CacheTruthful`: an answer from the cache is the last one given to
  that question, at most 300 seconds ago, and is no report of a time-out. `FailedOnesRest`: a
  backend with two or three counted failures in a row is not selected before its time
  while another, whose score is not negative, has not failed since it last worked.
- **cron** `FiresInTime` (a one-shot job fires at most once, also over a restart; a recurring
  one only when its interval is over; what was due while the scheduler was
  down stays silent), `PassComplete` (a pass leaves nothing that was due, though jobs move up when
  one is deleted; what is due again at its end has fired in it and has interval 0), `FileFollows` (between
  passes the file is the table, or it is one that was too large to load and the table is empty),
  `DueFires` (what is due fires or is removed while the scheduler runs).

Bounds, and why they are enough. Two slots for three clients make the table full and
make a slot pass from one client to another; rings of two overflow at the third
frame and wrap at the next, the smallest ring in which head and tail differ. Three
clients at the command slot give one that executes, one that waits and one that
arrives. Two daemon identities are enough to have a second daemon beside the first;
`task_create` fails when both live, and identities are used again. A
payload of three Consecutive Frames with numbers modulo two wraps the numbers and
exceeds the ring, as 18 frames do with sixteen. Three calls give a stale answer, a
call that meets it and one after it. Queues of one make every push and pop a change
between full and empty, the only places where a signal matters; two
sources wait for room together, a third pusher barges in. A table of two with three jobs is
full for the third, and has two jobs due in one pass, the first of which may be
deleted under the second; four instants let a job fire, rest and fire again, with
the clock set before, between or after; one restart finds jobs that are pending,
missed or done, and a file of one job that fits or of two that may not. Intervals of 0 and 1 are one
that is due for ever and one that rests. Two callers of start are one that starts and one that
finds it under way, finished, failed or overtaken by a stop, which either may call.

For `uds`: two clients are one whose two requests are separated and one that comes
between them; three calls give a time-out, a call that takes the late answer, and one
after it; one event is a loss, a restart or a hand at the console, and timing out needs
none. Two faults replace one another, which one could not. Three mailboxes are the fewest
with one before, one between and one that runs over; six frames fill them twice, and
several can come while the handler settles; three
resets are an opening, a recovery and an opening after it. Rings of two wrap at the third
frame, and two descriptors are what the board has for replies and polls to fill
together. In `agent_turn` three rounds give a first, a middle and a last; two repeats
trip the limit within them; one cache slot is overwritten by the second question; the pauses
of 5 and 300 seconds lie on the edges of the debounce, of the recovery and of the time to live;
a call that takes 61 seconds is one over the limit. `MaxTicks` bounds pauses, slow calls, tool rounds and shell
commands together; three are enough for three counted failures and the end of the rest that follows: the first costs none, as
the clock has run since boot, the two others a slow call or a pause each, and the third tick is a pause of 300
seconds, at whose end, to the second, the slot may be chosen again. Of two backends one is cheap and one dear, whose
priority makes its score negative for all but complex questions; the shell adds or changes one with a third tier.
The largest instances are `uds` with 11.0 and `agent_turn` with 3.1 million
states. What does not depend on
these numbers is proved for all of them (section 6).

Deadlock is checked in `can_steady`, which runs for ever. Elsewhere the system really
stops: in `can_shell` a send after a timed-out stop waits for a daemon that has
gone; `can_router`, `isotp`, `uds`, `flexcan`, `fec`, `agent_turn` and `agent_bus` come to
an end when their bound is used
up, `agent_bus` after shutdown, and `cron` after the program ended or when time does.

`Prompt = TRUE` in `agent_bus` assumes that the half second before the tear-down
is long enough for everybody; then `ShutdownEnds` says that the code needs no more
than finite waits to get there. `bus_destroy` drops the assumption.

## 5. Fairness

- CanService: weak fairness of each task (every runnable task gets the processor;
  the round-robin interval is configured and no task spins without sleeping), strong
  fairness of acquiring `g_tx_lock`: a NuttX mutex is handed to its longest waiter
  of the highest priority. `can_steady` gives the daemon no priority, so
  `CallsReturn` does not depend on it. Nothing is fair about entering a call.
- MessageBus: weak fairness of each thread and of the timers of 5 s and 1 s.
  Nothing is fair about making messages, about quitting or about the network, without which the
  agent loop is not started. A turn of the agent ends
  because calls of the LLM and of tools have timeouts.
- Cron: weak fairness of the cron thread, whose wait is timed and whose actions end.
  Nothing is fair about the agent, the main thread or the clock.
- Fec: weak fairness of the worker, which wakes by a timer, and of the transmitting DMA as long as at most
  one descriptor is READY (`SendLone`): with two it may go on or stop for ever, as the comment
  in `txpoll` reports of this board.
  Frames need not arrive, nobody is fair about the interface or the probe.
- CanRouter, IsoTp, Uds, FlexCan and AgentTurn state safety only. In FlexCan
  `NothingStalls` takes the place of liveness: an interrupt that is pending or will be.

## 6. Proofs

All are checked by tlapm to the last leaf, for every value of the constants allowed
by `ClientsAssumption`, `RouterAssumption`, `CronAssumption`, `FlexCanAssumption`,
`FecAssumption`, `MessageBusAssumption`, `IsoTpAssumption`, `UdsAssumption` and
`AgentTurnAssumption`. These say
what the C code fixes at compile time: sizes are positive, sets of threads are finite, a
name for nobody is nobody's name.

**CanService_proofs.** `TypeCorrect`: `Spec => []TypeOK`, with or without a start or
stop. TypeOK is not inductive, because a result is copied only by callers of send and
recover; `TypeInv` adds `MailboxUsers`, that only those are at the mailbox.
`AnswersBelong` and `HandOverExact` prove `AnswerIsMine` and `OneCommandInFlight` of
a service in use (`Steady`: it was started before, and no client calls stop), for
any number of clients. The invariant `HandshakeInv` says which task the service
consists of (`Serves`), that whoever is between lock and unlock holds `g_tx_lock`
(`LockHeld`), and, in `Stages`, what the mailbox holds at each of the six stages
of one command: the properties alone do not say whose the result is while the token
is on its way. `Steady` cannot be dropped: two clients that start the
service at the same moment can create two daemons (section 7), which take the same command.
`OneDaemonAtATime`, `StopsLeaveClean` and `StartsTellTruth` prove what `can_shell` checks of start
and stop (`SingleDaemon`, `StopLeavesClean`, `StartTellsTruth`), for any number of
callers, each with any of the six calls, of daemon identities and of subscriptions. Two hypotheses:
`DaemonFirst`, the priority the daemon is created with, without which a start reads flags that are
half stored; and `ApartSpec`, that no second caller comes between the test and the store of
`g_starting`, for two that do make two daemons (section 7). What starts, stops and sends of other
callers do at every other moment is covered. The invariant `ServiceInv` says that a caller past the
test finds no daemon and one inside a call has no result yet (`CallersAt`), what
the flags and `g_fd` hold at each stage of a daemon's life (`AtStage`), and when there is none (`AtRest`). A
lemma, `DaemonServes`, says that callers run only while the daemon, if there is
one, serves or is about to close: that is what a stop waits for and a start reports.

**CanRouter_proofs.** `RouterTypeCorrect`, `SlotsHaveOwners`, `TokensAgree`,
`TokensHonoured` and their conjunction `BooksAlwaysBalance` follow from the inductive `RouterInv`, the conjunction of the
properties with `RingFilled`: the `count` entries from the head are frames, without
which a received frame has no type. `TokenIsHonoured` is inductive only beside
`SlotsOwned` and `TokensMatchFrames`. Lemmas about `Enqueue` and `Dequeue` say what they do to the contents of a
ring, modular arithmetic included, for any depth. `RefinesMailbox` proves that the
module implements `LossyMailbox` under the mapping in `CanRouter`: the ring is read
as a sequence from its head, a client without a handle has an empty box. Dispatch
maps to Arrive, TakeFrame to Receive, and taking a token, timing out and a
failed subscribe to stuttering. The bound `MaxFrames` is a parameter like the
others, so the theorems hold for any number of frames.

**Agent_proofs, the scheduler.** `CronTypeCorrect`, `PassesComplete`, `FileFollowsTable`, and
`FiringsInTime` (of the parts `StaleSilent` and `FiringsPaced`) prove all safety properties of `cron` for tables of any size and
any number of jobs, instants and restarts, intervals from 0 and files that fit or do not, from the
inductive `IInv`. Beside the properties it needs that ids are unique and a job that waits for the lock has
a new one (`Distinct`), else firing one job would count for another; that the thread
is gone whenever the scheduler is started and goes by a time no earlier than the
start (`Begun`); and, for each job in the table, that what is enabled has a time
after the start, or in its second if its interval is 0 (`Awaited`, `After`), that what has fired and is enabled rests for its
interval (`Rested`, except the job that is firing), and that what lies below the index
of a pass is not due, or has fired in it and has interval 0 (`Table`, `Passed`). `File` says the file may lag only in a pass that has
noted a change, or be one that was refused while the table is empty; then `Reloads` says that its jobs
obey the invariant should a later run load them. `RemoveAtSeq` and `LeftIn` say which jobs a removal leaves.

**Agent_proofs, the turn.** The two specifications of the agent that share no state are
proved in one module, which is why those of AgentTurn are called `TurnSpec` and
`TurnTypeOK`. The assumption allows one to four slots, as the code
does, any priority and tier of each, from the configuration or the shell, any questions, classes, tools,
limits, pauses and sizes of the cache.
`TurnTypeCorrect`, `AnswersAlwaysKept`, `CacheTellsTruth` and `FailedAlwaysRest` prove
everything `agent_turn` checks, from `TurnInv`. `Sound` is its heart: it relates what the
router remembers of a slot (`fails`, `until`, `at`) to what it was told, the history
`blame`. A failure within five seconds of the one before changes the time but counts
nothing, so that `fails` is at least the number of failures that count, and at most one
more than the time that passed in calls and pauses allows; the router forgives after 300
seconds, a shell command at once. That a resting slot is chosen only when every other one
is out or has a negative score (`Chosen`) holds for any tiers and priorities. `Course` says a turn's limits are not reached where
it goes on, `Saying` what it has to say at each stage (after a failed call the message
of the time-out, an earlier answer or nothing), and `Stored` that an entry of the
cache is the last answer to its key, which needs that no two entries have the same key.

**FlexCan_proofs.** `FlexCanTypeCorrect`, `FramesAlwaysAccountedFor` and
`NothingEverStalls` prove everything `flexcan` checks, for any number of mailboxes, frames,
messages and resets. That mailboxes may be read by index is what needs an argument,
and the invariant is that argument. `InTurn` orders two frames by age, except that one that
came while the handler settled may pass those before it (`raced`). Outside the
passes the mailboxes were filled in turn, since each frame takes the first empty one (`Outside`);
while interrupts are held off they fill from the first (`Piled`); in a pass at most one
frame is new, it is younger than all that are to be served and the others follow in turn (`Inside`);
while send waits, whatever is younger than a frame that is to be served is `raced` (`Settling`).
`Turns` puts what was delivered, what the handler has read (`got`) and what waits in one line; `Shown`
follows each frame through the mailbox that is being emptied. The others say
when the controller is alive (`Life`), that full mailboxes have their flags unless they are `stuck`
(`Flagged`), that the masks are open while the device is (`Armed`), and that a transmission that is under
way or done will be noticed (`Going`).

**Fec_proofs.** `FecTypeCorrect`, `FramesAlwaysInOrder` and `NothingEverStuck` prove the safety
properties of `fec` for rings of any size. `RxRing` and `TxRing` say which frame lies where:
frame k + 1 at place k modulo the size, the filled places exactly those between the worker's
head and the DMA's position, and how many are READY. That no place holds two frames is a lemma about
remainders (`OnePlace`), proved from `Divide`, since the numbers differ by less than the size. Both hold
only while the probe has not interfered, and ifup restores them whatever it did.

**MessageBus_proofs.** `BusTypeCorrect`, `NobodyEverForgotten` and `AnswersAlwaysInOrder` prove
`TypeOK`, `NobodyForgotten` and `AnswersInOrder` of `agent_bus` for any finite set of threads, any
number of messages and queues of any length, with the shutdown at any moment and with either
value of `Prompt`. Types need `Hands`: who pushes or has popped holds a message. That no
wakeup is lost is counted queue by queue (`Told`): a push uses up one place and one
pusher on its way, a pop makes one place and wakes one pusher if any waits; threads that
barge in only add to those on their way, and a pusher whose time runs out was not among
them. The sets of threads are finite because they are counted. Order needs two
invariants. `Numbers`: wherever a request is, in the hands of its source, in the queue, with
the agent or taken, its number is there once. `Line`: the agent's messages stand in a
line of five sets, delivered, with the dispatcher, queued, in the agent's hands, still to push, and
every message of a set has a smaller rank than those of the sets behind it; a rank is the place
of the request among those taken, and taking another one changes none (`RankKept`).

`AlwaysOneOwner` proves `OneOwner`, with which all that `agent_bus`
checks of the bus, other than liveness, holds for every size, for any set of careless sources and whether
or not the agent loop is ever started. `OneOwner` counts the places of a message, of which `leaked` is
one, and says that only requests of careless sources get there (`LeaksForever`); with `Careless` empty it is empty. Each
step moves one message from one place to another and leaves the sum (`KeptOnPush`,
`KeptOnPop`, `KeptOnFree`, ...), making one and announcing one apart. Beside the count it needs that
hands a step fills were empty (`Free`), that the agent has said nothing about a request that it did not
take (in `Owned`), and `Numbers`: it takes no request twice. Lemmas about `Append` and
`Tail` say how often a message is in a sequence (`AppendCount`, `TailCount`).

**IsoTp_proofs.** `IsoTpTypeCorrect`, `AnswersToTheCall`, `MessagesStayApart` and
`UndisturbedCallsEnd` prove everything `isotp` checks, for payloads of any lengths,
rings of any depth and any number of calls. `AnswerIsMine` rests on `FreshInv`: of a call that
began with nothing in flight, every frame on its way from the ECU is of this call
(`Own`), since the ECU answers only what it was sent. `NothingMixed` rests on an order kept
along each direction, on the bus, in the ring and in the reception: the numbers of
the messages never decrease, the pieces of one message come in rising order and behind its First
Frame, and what a reception holds is an unbroken beginning of one message
(`UpOrder`, `UpWhole`, `ServedWhole`; `DownOrder`, `DownWhole`). The theorem holds for `Modulus` = 1, where
all sequence numbers agree: while no First Frame is lost, each begins its reception anew and a message
that lost another frame stays too short, so the numbers matter only beside a lost First
Frame. `UndisturbedCallsSucceed` needs `CleanInv`: a call that nothing disturbs is in one of five stages
(`Calling`, `Opening`, `Requesting`, `Answered`, `Collecting`), and at each
the two sides and what is under way fit exactly. `IsoTpAssumption` bounds the lengths, as the
12 bits of a First Frame do.

**Uds_proofs.** `UdsTypeCorrect`, `CallsAreDone`, `ReadingsAreTrue` and `RefusalsHaveReasons` prove everything
`uds` checks, for any number of clients, faults, calls and events. `DoneWithinCall` and
`ReadsAreTrue` speak of what was true at some moment of a call, and the invariant says where
that is remembered while the answer travels: `WireInv` numbers the requests, so that a message with
the newest number is one of the client that holds the lock, and its answer tells what
`done` and `saw` recorded since that call began. `OnTimeInv` says that until somebody stops waiting there
is at most one message on the wire, which is why `late` needs a time-out.
`CountInv` bounds the numbers by two requests a call, `EcuInv` keeps the ECU's state and its fault codes together.

**Only model-checked.** Liveness (`CallsReturn`, `RequestsTaken`, `ShutdownEnds`, `DueFires`,
`EveryFrameServed`), which is out of the prover's reach. Every safety property of a passing run is a theorem.

## 7. Where code and comments disagree

With a run each:

| Run | Says | Does |
|---|---|---|
| `can_hang` | "Serialize shutdown against a caller waiting for a daemon command", `ok8mp_can_service_main.c:441` | The caller tests that the service runs before it takes the lock; a stop in between leaves it waiting without a timeout for a daemon that has gone. |
| `bus_destroy` | "Give threads a moment to notice and exit", `agent_main.c:739` | A producer waits up to five seconds for room and the agent longer for the LLM; both use mutexes destroyed after half a second. |

Seen while modelling, without a run of their own. The first three, and the two about
`cmd_router_model` and `set_llm`, were found by TLC with
the models as they are and a property of a few lines; the others are read off the code.

- `ok8mp_can_service_main.c:420`, "Do not close /dev/can0 while a monitor or diagnostic client
  still owns a subscription": the scan and the store of `g_stop` are apart; a
  subscription made between them is in use when the device is closed.
- `ok8mp_can_service_main.c:6`, "Single-owner CAN receive router": two tasks that find the
  service stopped both pass the test of `g_starting` before either stores it.
- `cron_service.h:63`, "Call after network is connected and time is synced":
  `agent_main.c:635` starts the scheduler before the thread that waits for the network
  exists; a job asked for before the clock is set (the board begins in 2014) becomes due
  at the moment it is.
- `llm_router.h:33`, "Automatic failover on backend failure": after a first failure the selection may return the
  same backend, as one failure lowers its rank but excludes nothing, and `agent_loop.c:1113` then
  gives up; the outcome of the retry and of the forced last call is not reported to the router.
- `cmd_router_model` writes back a copy of the slot through `llm_router_set_backend`, which sets `fail_count` to 0
  and keeps `backoff_until`: a slot with a new model goes on backing off although the router
  has no failure of it. `FailedOnesRest` therefore takes such a slot for one that failed (`bad`).
- `set_llm` applies slot 0 at once, also in mid-turn; `agent_loop.c:1118` then reports the outcome of the call
  to the slot it selected before. That slot is charged with a failure of the other one, and its
  own next failure within five seconds is not counted. `FailedOnesRest` counts what was reported.
- `llm_cache.h`, "TTL: 300 seconds": a hit stores the answer again at the end of the turn, so
  that a question asked every four minutes is answered from the cache for ever. `CacheTruthful`
  therefore counts from the last time the answer was given.
- The prompt says that CAN diagnosis is live and never to be reused (`context_builder.c`); only a list of keywords in
  `agent_loop.c:348` keeps a question from the cache, and a turn that ran tools is cached like
  any other.
- An apology that replaces an answer of nothing but markup is cached as an answer, and the
  cascade to a better model loses the cheap answer when the better one times out.
- `ok8mp_fec.c:1271`: a poll submits one frame only, since two "back-to-back leaves both READY on
  this FEC"; but `ok8mp_fec_dispatch` sends the reply to each frame received (1314), so two frames in
  one pass, or one and the poll, fill both descriptors. The controller may then stop, which is why
  `SendLone` is fair to a lone descriptor only; and the next poll writes into a buffer
  in flight (the `i + TxCount` of `SentInOrder`). A probe on a live interface leaves driver and DMA at different descriptors until
  the next ifup.
- `ok8mp_flexcan.c:882`, the millisecond in send "prevents that reply from racing the next upper-half
  action". When can_txdone sends, the wait is in the interrupt handler: replies fill mailboxes that the
  pass has emptied, below older frames that it has not, and are delivered first (`raced`).
- A mailbox is given back by two writes, EMPTY (594) and its flag (596). A frame stored between them has no flag, so no
  interrupt, until another runs over it or the controller is reset (`stuck`). One that runs over a mailbox
  between the reading of its code and the write of EMPTY is lost and not counted (`erased`).
- After a recovery of the CAN controller that failed, its interrupts stay masked until the device
  is opened again or a recovery succeeds.
- `message_bus.h:56`, "On failure (queue full / timeout) the caller still owns them": the result of the push is ignored in
  `agent_main.c:277`, `voice_channel.c:543`, 817 and 1187, `nsh_commands.c:594`, `ws_server.c:465` and
  `feishu_recv.c:1008`; a refused text leaks, and the shell and the voice channel report it as sent. These are `Careless`.
- The agent loop is started by the thread that has waited for the network (`agent_main.c:155`), after 30 seconds
  without it not at all, and a failure to start it is only logged. The queue is filled
  from the shell and by voice before that, so a request may wait for ever and later ones are
  refused. The thread does not look at the shutdown flag before it starts the loop.
- `tool_cron.c:79` says "'every' requires positive 'interval_s'" and then truncates: 0.5 becomes 0, as any such value
  in the file does (`cron_service.c:130`), and the job fires in every pass.
- `cron_load_jobs` (`cron_service.c:183`) takes a file of more than 8 KB for no jobs, and reports OK;
  `cron_save_jobs` writes 16 jobs of any length. The next save overwrites the file.
- `llm_router.c:398`, "All backends in backoff": a slot that is fine and whose score is negative is not
  chosen either (the search begins at -1), and the fallback is a slot that is resting.
- A turn that timed out stores its message as the assistant's answer in the session
  (`agent_loop.c:881`); an error does not.
- `agent_loop.c:1528`, 1545 and 1566 go on to the next message without freeing `msg.image_b64`. No source sets it.
- `network_manager.c:719` calls `network_get_iob_usage` with `g_net_mutex` held, which locks it again (546). The function
  is only built with `CONFIG_AI_AGENT_NET_RPMSG`, which this board does not set.

The CAN service's are rare on the board: the daemon outranks its clients, and the
window is between two accesses of one task.

## 8. What is left out

- CanService: counters, the status command, automatic recovery of the bus (a
  part of Poll that changes no shared flag), what the driver returns beyond success,
  error and timeout.
- IsoTp: WAIT and OVERFLOW answers and block sizes: the code handles them, the repository's ECU never sends
  them, and the buffers of 128 bytes never overflow a 12-bit length. Separation times (both sides
  ask for 5 ms, `main.cpp:284`, `isotp.c:271`), since time is left out. `AnswerIsMine` speaks of calls that begin with
  nothing in flight; one that begins with an answer of an earlier call still to come may
  return it, and the protocol has nothing to tell them apart by.
- Uds: tester present, echo and identification, which have no state; lengths and
  encodings; the health probe; the ECU's periodic status frame.
- FlexCan: bit timing, error counters, snapshots; a second frame between two looks of the handler where
  it does not settle (section 3).
- Fec: MDIO and the link, headers of frames, the ARP and ICMP tests, diagnosis; what a DMA
  error does, which the driver does not handle.
- MessageBus: taps, images, wording.
- AgentTurn: status messages on the way, the session file, the list of messages with its
  budget of tokens, tools' results, parsing of requests and answers. What the average latency of a
  backend adds to its score is any number from 0 to 9; priorities so large that a score overflows are left
  out. The proxy's configuration changes as a whole.
- Cron: the heartbeat; what an action does, so also an action that is itself a cron
  tool and wants the lock its thread holds (what the mutex then does is not in
  the repository); a restart while the old thread still sleeps; failing writes of the
  file; a clock that is set back. Names, time zones and the syntax of schedules.

Components marked "-" in section 2, and why:

- The chip port, board bring-up, voice board support and most test tools are sequences
  of register writes that run once, in one task, with nothing to interleave with.
- TLS, HTTP, the proxy, channels and tools, about half of the code, convert formats and wait for
  sockets; what they keep is local to a call.
- The network manager is, as built for this board, a test for an address and a wait that repeats it.
- Voice, nodes, memory and the local client do have state worth a model (section 9).

The models stand for about a tenth of the lines of the implementation: the
part in which tasks, interrupts, hardware and time meet.

Hazards of these parts are listed in `PROJECT.json` with a note each.

## 9. Plan

In order of importance. Each step is one module with its instance, properties and
map. The number of runs stays at a dozen: related questions
share a run, and a run that shows a disagreement gives way to one that shows more.

1. `LocalClient`: the SDK's local client with the taps, over the bus. An ask takes
   the first outbound message of its channel for its answer: a status or an earlier
   answer will do; a listener may be called after it unregistered. Abstract
   specification: one answer per ask, to that ask.
2. `Cron` with the heartbeat, the choice of what a second lock by one thread does, and a
   restart that overlaps the old thread.
3. In `IsoTp`, a peer that uses WAIT and block sizes.
4. `Voice`: recording, recognition and playback with barge-in; then the nodes' invocations
   with their timeouts.

Proofs: every safety property of a passing run is proved; what a module of this list adds is to
be proved with it.
