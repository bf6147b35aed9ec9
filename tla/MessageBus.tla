----------------------------- MODULE MessageBus -----------------------------
(* The bus of the AI agent (ai_agent/src/core/message_bus.c) with the threads*)
(* on it: sources that put requests on the inbound queue, the agent loop     *)
(* that takes them and puts its answers on the outbound queue, notifiers     *)
(* (cron, nodes) that put notices there, the dispatcher that takes what is   *)
(* outbound, and the main thread that shuts all of it down (agent_main.c).   *)
(* The agent loop is started only once the network is connected: until then, *)
(* which may be for ever, nobody takes the requests.                         *)
(*                                                                           *)
(* What a queue does between lock and unlock is one step.  A waiting thread  *)
(* is in the "full" or "empty" wait of its queue; a signal makes one of them *)
(* test its condition again.  The ring of a queue is a sequence here.        *)
EXTENDS Naturals, Sequences, FiniteSets, SequencesExt

CONSTANTS
  Sources,      \* threads that push requests
  Notifiers,    \* threads that push notices
  Careless,     \* the sources that ignore the result of their push
  Length,       \* AGENT_BUS_QUEUE_LEN
  MaxMessages,  \* bound: requests and notices in one behaviour
  Prompt        \* TRUE: the pause before the tear-down is always long enough

ASSUME MessageBusAssumption ==
  /\ "agent" \notin Sources \cup Notifiers /\ "dispatch" \notin Sources \cup Notifiers
  /\ Careless \subseteq Sources
  /\ Sources \cap Notifiers = {} /\ IsFiniteSet(Sources \cup Notifiers)
  /\ Length \in Nat \ {0} /\ MaxMessages \in Nat
  /\ Prompt \in BOOLEAN

VARIABLES
  queue,      \* g_inbound_queue and g_outbound_queue
  pc,         \* where each thread is
  hold,       \* the message in each thread's hands, if any
  work,       \* the request the agent handles
  todo,       \* what it has still to push for it
  mpc,        \* where the main thread is
  requested,  \* g_shutdown_requested
  busDown,    \* g_bus_shutdown
  made,       \* history: the number of requests and notices made
  taken,      \* history: the requests the agent took, in order
  delivered,  \* history: the agent's answers that were delivered, in order
  gone,       \* history: the messages that are in nobody's hands any more
  leaked      \* history: those of them that nobody has freed

agent == <<work, todo>>
bus  == <<queue, pc, hold, agent>>
down == <<mpc, requested, busDown>>
past == <<made, taken, delivered, gone, leaked>>
vars == <<bus, down, past>>

Queues  == {"in", "out"}
Threads == Sources \cup Notifiers \cup {"agent", "dispatch"}
None    == [kind |-> "none", no |-> 0]
Message == [kind : {"request", "status", "reply", "notice"}, no : 1..MaxMessages]

(* The queue a thread pushes to, and the one a consumer pops from.           *)
Target(t) == IF t \in Sources THEN "in" ELSE "out"
Consumer  == [q \in Queues |-> IF q = "in" THEN "agent" ELSE "dispatch"]
Pushers(q) == {t \in Threads \ {"dispatch"} : Target(t) = q}

TypeOK ==
  /\ queue \in [Queues -> Seq(Message)] /\ \A q \in Queues : Len(queue[q]) <= Length
  /\ pc \in [Threads -> {"idle", "push", "full", "top", "pop", "empty", "got",
                         "answer", "exit", "off"}]
  /\ hold \in [Threads -> Message \cup {None}]
  /\ work \in Message \cup {None} /\ todo \in Seq(Message)
  /\ mpc \in {"up", "flag", "wake in", "wake out", "settle", "destroyed"}
  /\ {requested, busDown} \subseteq BOOLEAN
  /\ made \in 0..MaxMessages
  /\ taken \in Seq(1..MaxMessages) /\ delivered \in Seq(Message)
  /\ gone \subseteq Message /\ leaked \subseteq Message

Init ==
  /\ queue = [q \in Queues |-> <<>>]
  /\ pc = [t \in Threads |-> IF t = "agent" THEN "off"
                              ELSE IF t = "dispatch" THEN "top" ELSE "idle"]
  /\ hold = [t \in Threads |-> None]
  /\ work = None /\ todo = <<>>
  /\ mpc = "up" /\ requested = FALSE /\ busDown = FALSE
  /\ made = 0 /\ taken = <<>> /\ delivered = <<>> /\ gone = {} /\ leaked = {}

-----------------------------------------------------------------------------
(* msg_queue_push and msg_queue_pop.                                         *)
Goto(t, label) == pc' = [pc EXCEPT ![t] = label]

(* Mutant of SignalNotFull: nobody is signalled.                             *)
ForgetNotFull(t, q, label) == Goto(t, label)

(* pthread_cond_signal(&queue->not_full), while t goes on to label.          *)
SignalNotFull(t, q, label) ==
  LET waiting == {w \in Pushers(q) : pc[w] = "full"} IN
    IF waiting = {} THEN Goto(t, label)
    ELSE \E w \in waiting : pc' = [pc EXCEPT ![t] = label, ![w] = "push"]

(* Mutant of SignalNotEmpty: nobody is signalled.                            *)
ForgetNotEmpty(t, q, label) == Goto(t, label)

(* pthread_cond_signal(&queue->not_empty), while t goes on to label.         *)
SignalNotEmpty(t, q, label) ==
  pc' = [pc EXCEPT ![t] = label,
                   ![Consumer[q]] = IF @ = "empty" THEN "pop" ELSE @]

(* What a thread does after a push, whether the message was taken or not.    *)
AfterPush(t) == IF t = "agent" THEN "answer" ELSE "idle"

(* Mutant of Push: one message more than there is room for.                  *)
PushOneMore(t) ==
  /\ pc[t] = "push"
  /\ LET q == Target(t) IN
       IF Len(queue[q]) <= Length
         THEN /\ queue' = [queue EXCEPT ![q] = Append(@, hold[t])]
              /\ hold' = [hold EXCEPT ![t] = None]
              /\ SignalNotEmpty(t, q, AfterPush(t))
         ELSE Goto(t, "full") /\ UNCHANGED <<queue, hold>>
  /\ UNCHANGED <<agent, down, past>>

(* Mutant of Push: the pusher frees what the queue has taken.                *)
PushAndFree(t) ==
  /\ pc[t] = "push"
  /\ LET q == Target(t) IN
       IF Len(queue[q]) < Length
         THEN /\ queue' = [queue EXCEPT ![q] = Append(@, hold[t])]
              /\ hold' = [hold EXCEPT ![t] = None]
              /\ gone' = gone \cup {hold[t]}
              /\ SignalNotEmpty(t, q, AfterPush(t))
         ELSE Goto(t, "full") /\ UNCHANGED <<queue, hold, gone>>
  /\ UNCHANGED <<agent, down, made, taken, delivered, leaked>>

Push(t) ==
  /\ pc[t] = "push"
  /\ LET q == Target(t) IN
       IF Len(queue[q]) < Length
         THEN /\ queue' = [queue EXCEPT ![q] = Append(@, hold[t])]
              /\ hold' = [hold EXCEPT ![t] = None]
              /\ SignalNotEmpty(t, q, AfterPush(t))
         ELSE Goto(t, "full") /\ UNCHANGED <<queue, hold>>
  /\ UNCHANGED <<agent, down, past>>

(* Five seconds without room: the message is refused and still belongs to    *)
(* the thread.  Most free it; a careless source does not look at the result, *)
(* and nobody has the message any more.                                      *)
PushTimeout(t) ==
  /\ pc[t] = "full"
  /\ Goto(t, AfterPush(t))
  /\ hold' = [hold EXCEPT ![t] = None]
  /\ gone' = gone \cup {hold[t]}
  /\ leaked' = leaked \cup (IF t \in Careless THEN {hold[t]} ELSE {})
  /\ UNCHANGED <<queue, agent, down, made, taken, delivered>>

(* Mutant of Pop: the shutdown flag is not tested.                           *)
PopUnaware(t, q) ==
  /\ pc[t] = "pop"
  /\ \/ /\ queue[q] # <<>>
        /\ hold' = [hold EXCEPT ![t] = Head(queue[q])]
        /\ queue' = [queue EXCEPT ![q] = Tail(@)]
        /\ SignalNotFull(t, q, "got")
     \/ /\ queue[q] = <<>>
        /\ Goto(t, "empty")
        /\ UNCHANGED <<queue, hold>>
  /\ UNCHANGED <<agent, down, past>>

Pop(t, q) ==
  /\ pc[t] = "pop"
  /\ \/ /\ queue[q] # <<>>
        /\ hold' = [hold EXCEPT ![t] = Head(queue[q])]
        /\ queue' = [queue EXCEPT ![q] = Tail(@)]
        /\ SignalNotFull(t, q, "got")
     \/ /\ queue[q] = <<>>
        /\ Goto(t, IF busDown THEN "top" ELSE "empty")
        /\ UNCHANGED <<queue, hold>>
  /\ UNCHANGED <<agent, down, past>>

-----------------------------------------------------------------------------
(* Sources and notifiers make a message and push it, until they are stopped. *)
Make(t, kind) ==
  /\ pc[t] = "idle" /\ made < MaxMessages
  /\ mpc # "destroyed"
  /\ made' = made + 1
  /\ hold' = [hold EXCEPT ![t] = [kind |-> kind, no |-> made + 1]]
  /\ Goto(t, "push")
  /\ UNCHANGED <<queue, agent, down, taken, delivered, gone, leaked>>

Producer(t) ==
  \/ Make(t, IF t \in Sources THEN "request" ELSE "notice")
  \/ Push(t)

-----------------------------------------------------------------------------
(* network_watch_task starts the agent loop when the network is connected,   *)
(* at any time or never.  It does not look at the shutdown flag.             *)
AgentStarts ==
  /\ pc["agent"] = "off"
  /\ Goto("agent", "top")
  /\ UNCHANGED <<queue, hold, agent, down, past>>

(* agent_loop_task and outbound_dispatch_task: the head of their loops.      *)
Top(t) ==
  /\ pc[t] = "top"
  /\ Goto(t, IF requested THEN "exit" ELSE "pop")
  /\ UNCHANGED <<queue, hold, agent, down, past>>

(* A request that is taken after the shutdown was requested is freed.        *)
AgentQuits ==
  /\ pc["agent"] = "got" /\ requested
  /\ Goto("agent", "exit")
  /\ hold' = [hold EXCEPT !["agent"] = None]
  /\ gone' = gone \cup {hold["agent"]}
  /\ UNCHANGED <<queue, agent, down, made, taken, delivered, leaked>>

(* Mutant of Answers: the status is pushed when the reply is there.          *)
LateStatus(no) ==
  LET status == [kind |-> "status", no |-> no]
      reply  == [kind |-> "reply", no |-> no]
  IN  {<<>>, <<reply>>, <<reply, status>>}

(* What the agent says about request no: nothing (no memory for an answer),  *)
(* an answer, or, when the LLM is asked, a working status first.  A message  *)
(* there is no memory for is like one that is refused.                       *)
Answers(no) ==
  LET status == [kind |-> "status", no |-> no]
      reply  == [kind |-> "reply", no |-> no]
  IN  {<<>>, <<reply>>, <<status, reply>>}

AgentTakes ==
  /\ pc["agent"] = "got" /\ ~requested
  /\ work' = hold["agent"]
  /\ todo' \in Answers(hold["agent"].no)
  /\ taken' = Append(taken, hold["agent"].no)
  /\ Goto("agent", "answer")
  /\ hold' = [hold EXCEPT !["agent"] = None]
  /\ UNCHANGED <<queue, down, made, delivered, gone, leaked>>

(* Any amount of time passes in calls of the LLM and of tools before the     *)
(* next answer is there.                                                     *)
AgentAnswers ==
  /\ pc["agent"] = "answer" /\ todo # <<>>
  /\ hold' = [hold EXCEPT !["agent"] = Head(todo)]
  /\ todo' = Tail(todo)
  /\ Goto("agent", "push")
  /\ UNCHANGED <<queue, work, down, past>>

AgentDone ==
  /\ pc["agent"] = "answer" /\ todo = <<>>
  /\ work' = None
  /\ gone' = gone \cup {work}
  /\ Goto("agent", "top")
  /\ UNCHANGED <<queue, hold, todo, down, made, taken, delivered, leaked>>

Agent ==
  \/ Top("agent") \/ Pop("agent", "in") \/ AgentQuits \/ AgentTakes
  \/ AgentAnswers \/ AgentDone \/ Push("agent")

(* One second without a message.                                             *)
PopTimeout ==
  /\ pc["dispatch"] = "empty"
  /\ Goto("dispatch", "top")
  /\ UNCHANGED <<queue, hold, agent, down, past>>

Deliver ==
  /\ pc["dispatch"] = "got"
  /\ delivered' = IF hold["dispatch"].kind = "notice" THEN delivered
                  ELSE Append(delivered, hold["dispatch"])
  /\ Goto("dispatch", "top")
  /\ hold' = [hold EXCEPT !["dispatch"] = None]
  /\ gone' = gone \cup {hold["dispatch"]}
  /\ UNCHANGED <<queue, agent, down, made, taken, leaked>>

Dispatcher == Top("dispatch") \/ Pop("dispatch", "out") \/ Deliver

-----------------------------------------------------------------------------
(* Shutdown.  The command "quit" sets the flag at any time.                  *)
Quit ==
  /\ ~requested
  /\ requested' = TRUE
  /\ UNCHANGED <<bus, mpc, busDown, past>>

(* The main thread sees it and enters message_bus_wakeup.                    *)
MainWakes ==
  /\ mpc = "up" /\ requested
  /\ mpc' = "flag"
  /\ UNCHANGED <<bus, requested, busDown, past>>

WakeFlag ==
  /\ mpc = "flag"
  /\ busDown' = TRUE
  /\ mpc' = "wake in"
  /\ UNCHANGED <<bus, requested, past>>

Broadcast(q, from, to) ==
  /\ mpc = from
  /\ mpc' = to
  /\ pc' = [pc EXCEPT ![Consumer[q]] = IF @ = "empty" THEN "pop" ELSE @]
  /\ UNCHANGED <<queue, hold, agent, requested, busDown, past>>

(* Who uses the bus, and who is about to take a step that takes no time.     *)
Users == {t \in Threads : pc[t] \in {"push", "full", "pop", "empty"}}
Busy  == {t \in Threads : pc[t] \in {"push", "pop", "top"}}

(* message_bus_destroy, half a second later.  That is enough for steps which *)
(* take no time, but neither for a wait of five seconds nor for an answer of *)
(* the LLM.                                                                  *)
Destroy ==
  /\ mpc = "settle"
  /\ Busy = {}
  /\ Prompt => Users = {} /\ pc["agent"] \in {"off", "exit"} /\ pc["dispatch"] = "exit"
  /\ mpc' = "destroyed"
  /\ UNCHANGED <<bus, requested, busDown, past>>

Main ==
  \/ MainWakes \/ WakeFlag
  \/ Broadcast("in", "wake in", "wake out") \/ Broadcast("out", "wake out", "settle")
  \/ Destroy

Next ==
  \/ \E t \in Sources \cup Notifiers : Producer(t)
  \/ \E t \in Threads : PushTimeout(t)
  \/ AgentStarts \/ Agent \/ PopTimeout \/ Dispatcher
  \/ Quit \/ Main

Spec == Init /\ [][Next]_vars

(* Every thread runs when it can; the timers of the waits run out.  Nothing  *)
(* says that the network ever comes, or that anybody quits.                  *)
Fairness ==
  /\ \A t \in Sources \cup Notifiers : WF_vars(Push(t)) /\ WF_vars(PushTimeout(t))
  /\ WF_vars(Agent) /\ WF_vars(PushTimeout("agent"))
  /\ WF_vars(Dispatcher) /\ WF_vars(PopTimeout)
  /\ WF_vars(Main)

FairSpec == Spec /\ Fairness

-----------------------------------------------------------------------------
(* A message has one owner from malloc until it is given up: the thread that *)
(* makes it, its queue, the thread that took it; it is never freed while     *)
(* somebody has it, and it does not get lost on the way.  The only ones that *)
(* are given up without being freed are requests, of the sources that ignore *)
(* a refused push: no answer and no notice ever leaks.                       *)
Places(m) ==
  Cardinality({t \in Threads : hold[t] = m})
  + (IF work = m THEN 1 ELSE 0)
  + Cardinality({i \in DOMAIN todo : todo[i] = m})
  + Cardinality({i \in DOMAIN queue["in"] : queue["in"][i] = m})
  + Cardinality({i \in DOMAIN queue["out"] : queue["out"][i] = m})
  + (IF m \in gone THEN 1 ELSE 0)

Owners ==
  \A no \in 1..MaxMessages :
    /\ \A kind \in {"status", "reply"} : Places([kind |-> kind, no |-> no]) <= 1
    /\ Places([kind |-> "request", no |-> no]) + Places([kind |-> "notice", no |-> no])
         = (IF no <= made THEN 1 ELSE 0)
LeaksAreRequests ==
  /\ \A m \in leaked : m.kind = "request" /\ m \in gone
  /\ Careless = {} => leaked = {}
OneOwner == Owners /\ LeaksAreRequests

(* Nobody waits for what is there: a consumer that waits has an empty queue, *)
(* and there is never more room than threads about to use it while others    *)
(* wait for room, through timeouts, threads that come in between and wakeups.*)
NobodyForgotten ==
  \A q \in Queues :
    /\ pc[Consumer[q]] = "empty" => queue[q] = <<>>
    /\ (\E t \in Pushers(q) : pc[t] = "full") =>
         Length - Len(queue[q]) <= Cardinality({t \in Pushers(q) : pc[t] = "push"})

(* What the users see of the agent is in the order in which it took their    *)
(* requests, and a working status comes before the reply it announces.       *)
Rank(m) == 2 * (CHOOSE i \in DOMAIN taken : taken[i] = m.no)
             + (IF m.kind = "reply" THEN 1 ELSE 0)
AnswersInOrder ==
  \A i, j \in DOMAIN delivered : i < j => Rank(delivered[i]) < Rank(delivered[j])

(* Once the agent loop has been started, a request that has got a place in   *)
(* the queue, before or after that, is taken, unless there is a shutdown.    *)
RequestsTaken ==
  \A no \in 1..MaxMessages :
    Contains(queue["in"], [kind |-> "request", no |-> no]) /\ pc["agent"] # "off" ~>
      (Contains(taken, no) \/ requested)

(* Once a shutdown is requested, both loops end, wherever they wait and      *)
(* whichever queue is full, and the tear-down is reached.                    *)
ShutdownEnds == requested ~> mpc = "destroyed"

(* message_bus_destroy comes when nobody waits in the bus, and nobody enters *)
(* it afterwards.                                                            *)
NobodyUsesDestroyedBus == mpc = "destroyed" => Users = {}
=============================================================================
