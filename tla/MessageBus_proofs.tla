-------------------------- MODULE MessageBus_proofs --------------------------
(* Theorems about MessageBus for any number of threads and messages and      *)
(* queues of any length.                                                     *)
EXTENDS MessageBus, FiniteSetTheorems, TLAPS

Labels == {"idle", "push", "full", "top", "pop", "empty", "got", "answer", "exit", "off"}

(* Whoever pushes or has popped has a message in its hands, and the agent    *)
(* has its request until it is done with it.                                 *)
Hands ==
  /\ \A t \in Threads : pc[t] \in {"push", "full", "got"} => hold[t] \in Message
  /\ pc["agent"] \in {"answer", "push", "full"} => work \in Message

TypeInv == TypeOK /\ Hands

(* No two requests have one number, wherever they are.                       *)
Holding == {t \in Sources : pc[t] \in {"push", "full"}}
New(no, n, s) == no <= n /\ \A i \in DOMAIN s : s[i] # no
Apart(no, n, s, q) == New(no, n, s) /\ \A i \in DOMAIN q : q[i].no # no

Numbers ==
  /\ \A i \in DOMAIN taken : taken[i] <= made
  /\ \A i, j \in DOMAIN taken : taken[i] = taken[j] => i = j
  /\ \A i \in DOMAIN queue["in"] : New(queue["in"][i].no, made, taken)
  /\ \A i, j \in DOMAIN queue["in"] : queue["in"][i].no = queue["in"][j].no => i = j
  /\ \A t \in Holding : Apart(hold[t].no, made, taken, queue["in"])
  /\ \A t, u \in Holding : hold[t].no = hold[u].no => t = u
  /\ pc["agent"] = "got" =>
       Apart(hold["agent"].no, made, taken, queue["in"]) /\ \A t \in Holding : hold[t].no # hold["agent"].no

(* The agent's messages on their way, from those delivered to those that it  *)
(* has still to push: each is in front of all that come after it.            *)
RankIn(s, m) == 2 * (CHOOSE i \in DOMAIN s : s[i] = m.no) + (IF m.kind = "reply" THEN 1 ELSE 0)

Delivered  == {delivered[i] : i \in DOMAIN delivered}
Delivering == {m \in {hold["dispatch"]} : pc["dispatch"] = "got" /\ m.kind # "notice"}
Queued     == {m \in {queue["out"][i] : i \in DOMAIN queue["out"]} : m.kind # "notice"}
Pushing    == {m \in {hold["agent"]} : pc["agent"] \in {"push", "full"}}
ToPush     == {todo[i] : i \in DOMAIN todo}

Before(S, T) == \A a \in S, b \in T : RankIn(taken, a) < RankIn(taken, b)
Sorted(s) ==
  \A i, j \in DOMAIN s :
    i < j /\ s[i].kind # "notice" /\ s[j].kind # "notice" =>
      RankIn(taken, s[i]) < RankIn(taken, s[j])
Known(S) == \A m \in S : m \in Message /\ m.kind # "notice" /\ \E i \in DOMAIN taken : taken[i] = m.no

Line ==
  /\ Before(Delivered, Delivering \cup Queued \cup Pushing \cup ToPush)
  /\ Before(Delivering, Queued \cup Pushing \cup ToPush)
  /\ Before(Queued, Pushing \cup ToPush)
  /\ Before(Pushing, ToPush)
  /\ Sorted(delivered) /\ Sorted(queue["out"]) /\ Sorted(todo)
  /\ Known(Delivered \cup Delivering \cup Queued \cup Pushing \cup ToPush)
  /\ pc["agent"] \in {"answer", "push", "full"} \/ todo = <<>>
  /\ \A t \in Notifiers : hold[t].kind \in {"notice", "none"}

OrderInv == Numbers /\ Line

(* The agent and the dispatcher are threads of their own, and who uses which *)
(* queue.                                                                    *)
LEMMA ThreadFacts ==
  /\ "agent" \in Threads /\ "dispatch" \in Threads
  /\ "agent" \notin Sources \cup Notifiers /\ "dispatch" \notin Sources \cup Notifiers
  /\ Consumer["in"] = "agent" /\ Consumer["out"] = "dispatch"
  /\ Target("agent") = "out"
  /\ \A t \in Sources : Target(t) = "in"
  /\ \A t \in Notifiers : Target(t) = "out"
BY MessageBusAssumption DEF Threads, Consumer, Queues, Target

(* The pushers of each queue: finitely many, and none of them its consumer.  *)
LEMMA PushersFacts ==
  /\ Pushers("in") = Sources
  /\ Pushers("out") = Notifiers \cup {"agent"}
  /\ \A q \in Queues : /\ IsFiniteSet(Pushers(q)) /\ Pushers(q) \subseteq Threads
                       /\ Consumer[q] \in Threads \ Pushers(q)
<1>1. Pushers("in") = Sources
      BY ThreadFacts, MessageBusAssumption DEF Pushers, Threads
<1>2. Pushers("out") = Notifiers \cup {"agent"}
      BY ThreadFacts, MessageBusAssumption DEF Pushers, Threads, Target
<1>3. IsFiniteSet(Sources) /\ IsFiniteSet(Notifiers)
      BY MessageBusAssumption, FS_Subset, Zenon
<1>4. IsFiniteSet(Notifiers \cup {"agent"})
      BY <1>3, FS_AddElement
<1>5. \A q \in Queues : Pushers(q) \subseteq Threads
      BY DEF Pushers
<1>6. QED
      BY <1>1, <1>2, <1>3, <1>4, <1>5, ThreadFacts DEF Queues

-----------------------------------------------------------------------------
(* Who moves when a message is pushed or popped.                             *)
LEMMA SignalsNotEmpty ==
  ASSUME TypeOK, NEW q \in Queues, NEW t \in Pushers(q), NEW label \in Labels,
         SignalNotEmpty(t, q, label)
  PROVE  /\ pc' \in [Threads -> Labels]
         /\ pc'[t] = label
         /\ pc[Consumer[q]] = "empty" => pc'[Consumer[q]] = "pop"
         /\ pc[Consumer[q]] # "empty" => pc'[Consumer[q]] = pc[Consumer[q]]
         /\ \A u \in Threads \ {t, Consumer[q]} : pc'[u] = pc[u]
<1>1. /\ t \in Threads /\ Consumer[q] \in Threads /\ Consumer[q] # t
      /\ pc \in [Threads -> Labels]
      BY PushersFacts DEF TypeOK, Labels
<1>2. pc' = [pc EXCEPT ![t] = label,
                       ![Consumer[q]] = IF @ = "empty" THEN "pop" ELSE @]
      BY DEF SignalNotEmpty
<1> DEFINE c == Consumer[q]
<1> HIDE DEF c
<1>3. c \in Threads /\ c # t
      BY <1>1 DEF c
<1>4. pc' = [pc EXCEPT ![t] = label, ![c] = IF @ = "empty" THEN "pop" ELSE @]
      BY <1>2 DEF c
<1>5. /\ pc' \in [Threads -> Labels]
      /\ pc'[t] = label
      /\ pc[c] = "empty" => pc'[c] = "pop"
      /\ pc[c] # "empty" => pc'[c] = pc[c]
      /\ \A u \in Threads \ {t, c} : pc'[u] = pc[u]
      BY <1>1, <1>3, <1>4 DEF Labels
<1>6. QED
      BY <1>5 DEF c

(* A pop either wakes one pusher that waits for room, or nobody waited.      *)
LEMMA SignalsNotFull ==
  ASSUME TypeOK, NEW q \in Queues, NEW t \in Threads, t = Consumer[q], NEW label \in Labels,
         pc[t] = "pop", SignalNotFull(t, q, label)
  PROVE  /\ pc' \in [Threads -> Labels]
         /\ pc'[t] = label
         /\ \/ /\ \A w \in Pushers(q) : pc[w] # "full"
               /\ \A u \in Threads \ {t} : pc'[u] = pc[u]
            \/ \E w \in Pushers(q) :
                 /\ w # t /\ pc[w] = "full" /\ pc'[w] = "push"
                 /\ \A u \in Threads \ {t, w} : pc'[u] = pc[u]
<1>1. pc \in [Threads -> Labels] /\ Pushers(q) \subseteq Threads
      BY DEF TypeOK, Labels, Pushers
<1>2. CASE {w \in Pushers(q) : pc[w] = "full"} = {}
  <2>1. pc' = [pc EXCEPT ![t] = label]
        BY <1>2 DEF SignalNotFull, Goto
  <2>2. \A w \in Pushers(q) : pc[w] # "full"
        BY <1>2
  <2>3. QED
        BY <1>1, <2>1, <2>2
<1>3. CASE {w \in Pushers(q) : pc[w] = "full"} # {}
  <2>1. PICK w \in Pushers(q) : pc[w] = "full" /\ pc' = [pc EXCEPT ![t] = label, ![w] = "push"]
        BY <1>3 DEF SignalNotFull
  <2>2. w \in Threads /\ w # t
        BY <1>1, <2>1
  <2>3. /\ pc' \in [Threads -> Labels] /\ pc'[t] = label /\ pc'[w] = "push"
        /\ \A u \in Threads \ {t, w} : pc'[u] = pc[u]
        BY <1>1, <2>1, <2>2 DEF Labels
  <2>4. QED
        BY <2>1, <2>2, <2>3
<1>4. QED
      BY <1>2, <1>3

(* Goto moves one thread.                                                    *)
LEMMA MoveOne ==
  ASSUME TypeOK, NEW t \in Threads, NEW label \in Labels, Goto(t, label)
  PROVE  /\ pc' \in [Threads -> Labels] /\ pc'[t] = label
         /\ \A u \in Threads \ {t} : pc'[u] = pc[u]
BY DEF TypeOK, Goto, Labels

(* A thread that pushes, and the queue it pushes to.                         *)
LEMMA PusherFacts ==
  ASSUME NEW t \in Sources \cup Notifiers \cup {"agent"}
  PROVE  /\ t \in Threads /\ t # "dispatch" /\ Target(t) \in Queues
         /\ t \in Pushers(Target(t)) /\ Consumer[Target(t)] # t
         /\ AfterPush(t) \in Labels
         /\ t = "agent" => AfterPush(t) = "answer"
         /\ t # "agent" => AfterPush(t) = "idle"
<1>1. t \in Threads /\ t # "dispatch" /\ Target(t) \in Queues
      BY ThreadFacts DEF Threads, Queues
<1>2. t \in Pushers(Target(t))
      BY <1>1 DEF Pushers
<1>3. QED
      BY <1>1, <1>2, PushersFacts DEF AfterPush, Labels

-----------------------------------------------------------------------------
(* What each step does, as far as it moves threads and messages.             *)
LEMMA PushType ==
  ASSUME TypeInv, NEW t \in Sources \cup Notifiers \cup {"agent"}, Push(t)
  PROVE  TypeInv'
<1> DEFINE q == Target(t)
           c == Consumer[q]
<1>1. /\ t \in Threads /\ q \in Queues /\ t \in Pushers(q) /\ c # t /\ c \in Threads
      /\ AfterPush(t) \in Labels
      /\ t = "agent" => AfterPush(t) = "answer"
      /\ t # "agent" => AfterPush(t) = "idle"
      BY PusherFacts, PushersFacts
<1>2. pc[t] = "push" /\ hold[t] \in Message /\ UNCHANGED <<agent, down, past>>
      BY <1>1 DEF Push, TypeInv, Hands
<1>3. t = "agent" => work \in Message
      BY <1>2 DEF TypeInv, Hands
<1>4. CASE Len(queue[q]) < Length
  <2>1. /\ queue' = [queue EXCEPT ![q] = Append(@, hold[t])]
        /\ hold' = [hold EXCEPT ![t] = None]
        /\ SignalNotEmpty(t, q, AfterPush(t))
        BY <1>4 DEF Push
  <2> HIDE DEF q, c
  <2>2. /\ queue' \in [Queues -> Seq(Message)]
        /\ \A r \in Queues : Len(queue'[r]) <= Length
    <3>1. queue[q] \in Seq(Message) /\ Length \in Nat
          BY <1>1, MessageBusAssumption DEF TypeInv, TypeOK
    <3>2. Append(queue[q], hold[t]) \in Seq(Message) /\ Len(Append(queue[q], hold[t])) <= Length
          BY <1>2, <1>4, <3>1
    <3>3. QED
          BY <1>1, <2>1, <3>2 DEF TypeInv, TypeOK
  <2>3. hold' \in [Threads -> Message \cup {None}]
        BY <1>1, <2>1 DEF TypeInv, TypeOK
  <2>4. /\ pc' \in [Threads -> Labels]
        /\ pc'[t] = AfterPush(t)
        /\ pc'[c] \in {"pop", pc[c]}
        /\ \A u \in Threads \ {t, c} : pc'[u] = pc[u]
        BY <1>1, <2>1, SignalsNotEmpty DEF TypeInv, c
  <2>5. TypeOK'
        BY <1>2, <2>2, <2>3, <2>4 DEF TypeInv, TypeOK, Labels, agent, down, past
  <2>6. \A u \in Threads \ {t} : hold'[u] = hold[u]
        BY <2>1 DEF TypeInv, TypeOK
  <2>7. ASSUME NEW u \in Threads, pc'[u] \in {"push", "full", "got"}
        PROVE  hold'[u] \in Message
        BY <1>1, <2>4, <2>6, <2>7 DEF TypeInv, Hands
  <2>8. pc'["agent"] \in {"answer", "push", "full"} => work' \in Message
        BY <1>1, <1>2, <1>3, <2>4, ThreadFacts DEF TypeInv, Hands, agent
  <2>9. QED
        BY <2>5, <2>7, <2>8 DEF TypeInv, Hands
<1>5. CASE ~(Len(queue[q]) < Length)
  <2>1. Goto(t, "full") /\ UNCHANGED <<queue, hold>>
        BY <1>5 DEF Push
  <2>2. /\ pc' \in [Threads -> Labels] /\ pc'[t] = "full"
        /\ \A u \in Threads \ {t} : pc'[u] = pc[u]
        BY <1>1, <2>1, MoveOne DEF TypeInv, Labels
  <2>3. TypeOK'
        BY <1>2, <2>1, <2>2 DEF TypeInv, TypeOK, Labels, agent, down, past
  <2>4. QED
        BY <1>2, <1>3, <2>1, <2>2, <2>3, ThreadFacts DEF TypeInv, Hands, agent
<1>6. QED
      BY <1>4, <1>5

(* Popping keeps the types, woken pushers included.                          *)
LEMMA PopType ==
  ASSUME TypeInv, NEW q \in Queues, Pop(Consumer[q], q)
  PROVE  TypeInv'
<1> DEFINE t == Consumer[q]
<1>1. /\ t \in Threads /\ t \notin Pushers(q)
      /\ Pop(t, q) /\ pc[t] = "pop" /\ UNCHANGED <<agent, down, past>>
      BY PushersFacts DEF Pop
<1>2. CASE queue[q] # <<>>
  <2>1. /\ hold' = [hold EXCEPT ![t] = Head(queue[q])]
        /\ queue' = [queue EXCEPT ![q] = Tail(@)]
        /\ SignalNotFull(t, q, "got")
        BY <1>1, <1>2 DEF Pop
  <2>2. queue[q] \in Seq(Message) /\ Len(queue[q]) <= Length /\ Length \in Nat
        BY MessageBusAssumption DEF TypeInv, TypeOK
  <2>3. /\ Head(queue[q]) \in Message /\ Tail(queue[q]) \in Seq(Message)
        /\ Len(Tail(queue[q])) <= Length
        BY <1>2, <2>2
  <2>4. /\ pc' \in [Threads -> Labels]
        /\ pc'[t] = "got"
        /\ \/ /\ \A w \in Pushers(q) : pc[w] # "full"
              /\ \A u \in Threads \ {t} : pc'[u] = pc[u]
           \/ \E w \in Pushers(q) :
                /\ w # t /\ pc[w] = "full" /\ pc'[w] = "push"
                /\ \A u \in Threads \ {t, w} : pc'[u] = pc[u]
        BY <1>1, <2>1, SignalsNotFull DEF TypeInv, Labels
  <2> HIDE DEF t
  <2>5. TypeOK'
        BY <1>1, <2>1, <2>3, <2>4 DEF TypeInv, TypeOK, Labels, agent, down, past
  <2>6. hold'[t] \in Message /\ \A u \in Threads \ {t} : hold'[u] = hold[u]
        BY <1>1, <2>1, <2>3 DEF TypeInv, TypeOK
  <2>7. \A u \in Threads \ {t} : pc'[u] = pc[u] \/ (pc[u] = "full" /\ pc'[u] = "push")
        BY <2>4
  <2>8. \A u \in Threads : pc'[u] \in {"push", "full", "got"} => hold'[u] \in Message
        BY <2>4, <2>6, <2>7 DEF TypeInv, Hands
  <2>9. pc'["agent"] \in {"answer", "push", "full"} => work' \in Message
        BY <1>1, <2>4, <2>7, ThreadFacts DEF TypeInv, Hands, agent
  <2>10. QED
        BY <2>5, <2>8, <2>9 DEF TypeInv, Hands
<1>3. CASE queue[q] = <<>>
  <2>1. Goto(t, IF busDown THEN "top" ELSE "empty") /\ UNCHANGED <<queue, hold>>
        BY <1>1, <1>3 DEF Pop
  <2>2. /\ pc' \in [Threads -> Labels] /\ pc'[t] \in {"top", "empty"}
        /\ \A u \in Threads \ {t} : pc'[u] = pc[u]
        BY <1>1, <2>1, MoveOne DEF TypeInv, Labels
  <2>3. TypeOK'
        BY <1>1, <2>1, <2>2 DEF TypeInv, TypeOK, Labels, agent, down, past
  <2>4. QED
        BY <1>1, <2>1, <2>2, <2>3, ThreadFacts DEF TypeInv, Hands, agent
<1>4. QED
      BY <1>2, <1>3

(* A step that moves one thread and leaves the queues alone.                 *)
LEMMA SingleType ==
  ASSUME TypeInv, NEW t \in Threads, NEW label \in Labels, Goto(t, label),
         UNCHANGED <<queue, down>>,
         hold' = hold \/ hold' = [hold EXCEPT ![t] = None] \/
           \E m \in Message : hold' = [hold EXCEPT ![t] = m],
         label \in {"push", "full", "got"} => hold'[t] \in Message,
         work' \in Message \cup {None}, todo' \in Seq(Message),
         pc'["agent"] \in {"answer", "push", "full"} => work' \in Message,
         made' \in 0..MaxMessages, taken' \in Seq(1..MaxMessages),
         delivered' \in Seq(Message), gone' \subseteq Message, leaked' \subseteq Message
  PROVE  TypeInv'
<1>1. /\ pc' \in [Threads -> Labels] /\ pc'[t] = label
      /\ \A u \in Threads \ {t} : pc'[u] = pc[u]
      BY MoveOne DEF TypeInv
<1>2. hold' \in [Threads -> Message \cup {None}]
      BY DEF TypeInv, TypeOK
<1>3. \A u \in Threads \ {t} : hold'[u] = hold[u]
      BY DEF TypeInv, TypeOK
<1>4. TypeOK'
      BY <1>1, <1>2 DEF TypeInv, TypeOK, Labels, down
<1>5. QED
      BY <1>1, <1>3, <1>4 DEF TypeInv, Hands

(* The head of a loop, or the start of the agent's.                          *)
Starts(t) == Top(t) \/ (t = "agent" /\ AgentStarts)

(* Every step keeps the types.                                               *)
LEMMA StepType ==
  ASSUME TypeInv, [Next]_vars
  PROVE  TypeInv'
<1>0. /\ pc \in [Threads -> Labels] /\ hold \in [Threads -> Message \cup {None}]
      /\ work \in Message \cup {None} /\ todo \in Seq(Message)
      /\ made \in 0..MaxMessages /\ taken \in Seq(1..MaxMessages)
      /\ delivered \in Seq(Message) /\ gone \subseteq Message /\ leaked \subseteq Message /\ MaxMessages \in Nat
      /\ \A t \in Threads : pc[t] \in {"push", "full", "got"} => hold[t] \in Message
      /\ pc["agent"] \in {"answer", "push", "full"} => work \in Message
      /\ "agent" \in Threads /\ "dispatch" \in Threads
      BY ThreadFacts, MessageBusAssumption DEF TypeInv, TypeOK, Hands, Labels
<1>1. ASSUME NEW t \in Sources \cup Notifiers, Producer(t)
      PROVE  TypeInv'
  <2>0. t \in Threads /\ t # "agent"
        BY ThreadFacts DEF Threads
  <2>1. ASSUME NEW kind \in {"request", "notice"}, Make(t, kind)
        PROVE  TypeInv'
    <3>1. made + 1 \in 1..MaxMessages /\ [kind |-> kind, no |-> made + 1] \in Message
          BY <1>0, <2>1 DEF Make, Message
    <3>2. hold'[t] \in Message
          BY <1>0, <2>0, <2>1, <3>1 DEF Make
    <3>3. pc'["agent"] = pc["agent"]
          BY <1>0, <2>0, <2>1 DEF Make, Goto
    <3>4. /\ Goto(t, "push") /\ UNCHANGED <<queue, down>>
          /\ work' = work /\ todo' = todo /\ taken' = taken
          /\ delivered' = delivered /\ leaked' = leaked /\ gone' = gone
          BY <2>1 DEF Make, agent
    <3>5. made' \in 0..MaxMessages
          BY <1>0, <2>1 DEF Make
    <3>6. PICK m \in Message : hold' = [hold EXCEPT ![t] = m]
          BY <2>1, <3>1, Zenon DEF Make
    <3>7. QED
          BY <1>0, <2>0, <3>2, <3>3, <3>4, <3>5, <3>6, SingleType DEF Labels
  <2>2. QED
        BY <1>1, <2>1, PushType DEF Producer
<1>2. ASSUME NEW t \in Threads, PushTimeout(t)
      PROVE  TypeInv'
  <2>1. /\ AfterPush(t) \in {"answer", "idle"} /\ (t # "agent" => AfterPush(t) = "idle")
        /\ pc[t] = "full" /\ hold[t] \in Message
        BY <1>0, <1>2 DEF AfterPush, PushTimeout
  <2>2. pc'["agent"] \in {"answer", "push", "full"} => work \in Message
        BY <1>0, <1>2, <2>1 DEF PushTimeout, Goto
  <2>3. /\ Goto(t, AfterPush(t)) /\ UNCHANGED <<queue, down>>
        /\ hold' = [hold EXCEPT ![t] = None]
        /\ work' = work /\ todo' = todo /\ made' = made /\ taken' = taken
        /\ delivered' = delivered /\ leaked' \subseteq leaked \cup {hold[t]} /\ gone' = gone \cup {hold[t]}
        BY <1>2 DEF PushTimeout, agent
  <2>4. QED
        BY <1>0, <2>1, <2>2, <2>3, SingleType DEF Labels
<1>3. ASSUME NEW t \in {"agent", "dispatch"}, Starts(t)
      PROVE  TypeInv'
  <2>1. /\ \E label \in {"exit", "pop", "top"} : Goto(t, label)
        /\ UNCHANGED <<queue, down>>
        /\ hold' = hold /\ work' = work /\ todo' = todo /\ made' = made /\ taken' = taken
        /\ delivered' = delivered /\ leaked' = leaked /\ gone' = gone
        BY <1>3 DEF Starts, AgentStarts, Top, agent, past
  <2>2. pc'["agent"] \in {"answer", "push", "full"} => work \in Message
        BY <1>0, <2>1 DEF Goto
  <2>3. QED
        BY <1>0, <2>1, <2>2, SingleType DEF Labels
<1>4. ASSUME AgentQuits
      PROVE  TypeInv'
  <2>1. /\ Goto("agent", "exit") /\ UNCHANGED <<queue, down>>
        /\ hold' = [hold EXCEPT !["agent"] = None]
        /\ work' = work /\ todo' = todo /\ made' = made /\ taken' = taken
        /\ delivered' = delivered /\ leaked' = leaked /\ gone' = gone \cup {hold["agent"]}
        /\ pc["agent"] = "got"
        BY <1>4 DEF AgentQuits, agent
  <2>2. pc'["agent"] = "exit"
        BY <1>0, <2>1 DEF Goto
  <2>3. QED
        BY <1>0, <2>1, <2>2, SingleType DEF Labels
<1>5. ASSUME AgentTakes
      PROVE  TypeInv'
  <2>1. /\ Goto("agent", "answer") /\ UNCHANGED <<queue, down>>
        /\ hold' = [hold EXCEPT !["agent"] = None]
        /\ work' = hold["agent"] /\ todo' \in Answers(hold["agent"].no)
        /\ made' = made /\ taken' = Append(taken, hold["agent"].no)
        /\ delivered' = delivered /\ leaked' = leaked /\ gone' = gone /\ pc["agent"] = "got"
        BY <1>5 DEF AgentTakes
  <2>2. hold["agent"] \in Message /\ hold["agent"].no \in 1..MaxMessages
        BY <1>0, <2>1 DEF Message
  <2>3. todo' \in Seq(Message)
    <3>1. PICK a \in Message, b \in Message : todo' \in {<<>>, <<b>>, <<a, b>>}
      <4>1. /\ [kind |-> "status", no |-> hold["agent"].no] \in Message
            /\ [kind |-> "reply", no |-> hold["agent"].no] \in Message
            BY <2>2 DEF Message
      <4>2. QED
            BY <2>1, <4>1 DEF Answers
    <3>2. <<>> \in Seq(Message) /\ <<b>> \in Seq(Message) /\ <<a, b>> \in Seq(Message)
          OBVIOUS
    <3>3. QED
          BY <3>1, <3>2
  <2>4. taken' \in Seq(1..MaxMessages)
        BY <1>0, <2>1, <2>2
  <2>5. QED
        BY <1>0, <2>1, <2>2, <2>3, <2>4, SingleType DEF Labels
<1>6. ASSUME AgentAnswers
      PROVE  TypeInv'
  <2>1. /\ Goto("agent", "push") /\ UNCHANGED <<queue, down>>
        /\ hold' = [hold EXCEPT !["agent"] = Head(todo)]
        /\ work' = work /\ todo' = Tail(todo) /\ made' = made /\ taken' = taken
        /\ delivered' = delivered /\ leaked' = leaked /\ gone' = gone /\ pc["agent"] = "answer" /\ todo # <<>>
        BY <1>6 DEF AgentAnswers, past
  <2>2. Head(todo) \in Message /\ Tail(todo) \in Seq(Message)
        BY <1>0, <2>1
  <2>3. hold'["agent"] \in Message
        BY <1>0, <2>1, <2>2
  <2>4. QED
        BY <1>0, <2>1, <2>2, <2>3, SingleType DEF Labels
<1>7. ASSUME AgentDone
      PROVE  TypeInv'
  <2>1. /\ Goto("agent", "top") /\ UNCHANGED <<queue, down>>
        /\ hold' = hold /\ work' = None /\ todo' = todo /\ made' = made /\ taken' = taken
        /\ delivered' = delivered /\ leaked' = leaked /\ gone' = gone \cup {work} /\ pc["agent"] = "answer"
        BY <1>7 DEF AgentDone
  <2>2. pc'["agent"] = "top"
        BY <1>0, <2>1 DEF Goto
  <2>3. QED
        BY <1>0, <2>1, <2>2, SingleType DEF Labels
<1>8. ASSUME PopTimeout
      PROVE  TypeInv'
  <2>1. /\ Goto("dispatch", "top") /\ UNCHANGED <<queue, down>>
        /\ hold' = hold /\ work' = work /\ todo' = todo /\ made' = made /\ taken' = taken
        /\ delivered' = delivered /\ leaked' = leaked /\ gone' = gone
        BY <1>8 DEF PopTimeout, agent, past
  <2>2. pc'["agent"] \in {"answer", "push", "full"} => work \in Message
        BY <1>0, <2>1 DEF Goto
  <2>3. QED
        BY <1>0, <2>1, <2>2, SingleType DEF Labels
<1>9. ASSUME Deliver
      PROVE  TypeInv'
  <2>1. /\ Goto("dispatch", "top") /\ UNCHANGED <<queue, down>>
        /\ hold' = [hold EXCEPT !["dispatch"] = None]
        /\ work' = work /\ todo' = todo /\ made' = made /\ taken' = taken
        /\ delivered' \in {delivered, Append(delivered, hold["dispatch"])}
        /\ leaked' = leaked /\ gone' = gone \cup {hold["dispatch"]} /\ pc["dispatch"] = "got"
        BY <1>9 DEF Deliver, agent
  <2>2. pc'["agent"] \in {"answer", "push", "full"} => work \in Message
        BY <1>0, <2>1 DEF Goto
  <2>3. hold["dispatch"] \in Message
        BY <1>0, <2>1
  <2>4. delivered' \in Seq(Message)
    <3>1. delivered \in Seq(Message) /\ Append(delivered, hold["dispatch"]) \in Seq(Message)
          BY <1>0, <2>3
    <3>2. QED
          BY <2>1, <3>1, ZenonT(60)
  <2>5. QED
        BY <1>0, <2>1, <2>2, <2>3, <2>4, SingleType, ZenonT(60) DEF Labels
<1>10. ASSUME NEW q \in Queues, NEW from, NEW to \in {"wake out", "settle"}, Broadcast(q, from, to)
       PROVE  TypeInv'
  <2>1. Consumer[q] \in Threads
        BY PushersFacts
  <2>2. /\ pc' \in [Threads -> Labels]
        /\ \A u \in Threads : pc'[u] = pc[u] \/ pc'[u] = "pop"
        BY <1>0, <1>10, <2>1 DEF Broadcast, Labels
  <2>3. TypeOK'
        BY <1>10, <2>2 DEF TypeInv, TypeOK, Broadcast, Labels, agent, past
  <2>4. QED
        BY <1>0, <1>10, <2>2, <2>3 DEF TypeInv, Hands, Broadcast, agent
<1>11. ASSUME UNCHANGED bus, UNCHANGED past, mpc' \in {"up", "flag", "wake in", "destroyed", mpc},
              requested' \in BOOLEAN, busDown' \in BOOLEAN
       PROVE  TypeInv'
       BY <1>11 DEF TypeInv, TypeOK, Hands, bus, past, agent
<1>12. CASE Quit \/ MainWakes \/ WakeFlag \/ Destroy
  <2>1. {requested, busDown} \subseteq BOOLEAN
        BY DEF TypeInv, TypeOK
  <2>2. QED
        BY <1>11, <1>12, <2>1 DEF Quit, MainWakes, WakeFlag, Destroy, bus
<1>13. CASE UNCHANGED vars
       BY <1>13 DEF vars, bus, down, past, agent, TypeInv, TypeOK, Hands
<1>14. Next => \/ \E t \in Sources \cup Notifiers : Producer(t)
               \/ \E t \in Threads : PushTimeout(t)
               \/ \E t \in {"agent", "dispatch"} : Starts(t)
               \/ \E q \in Queues : Pop(Consumer[q], q)
               \/ Push("agent")
               \/ AgentQuits \/ AgentTakes \/ AgentAnswers \/ AgentDone
               \/ PopTimeout \/ Deliver
               \/ \E q \in Queues : \E from, to \in {"wake in", "wake out", "settle"} :
                     to # "wake in" /\ Broadcast(q, from, to)
               \/ (Quit \/ MainWakes \/ WakeFlag \/ Destroy)
       BY ThreadFacts DEF Starts, Next, Agent, Dispatcher, Main, Queues
<1>15. QED
       BY <1>1, <1>2, <1>3, <1>4, <1>5, <1>6, <1>7, <1>8, <1>9, <1>10, <1>12, <1>13, <1>14,
          PushType, PopType

(* The steps, as the lemmas take them apart.                                 *)
LEMMA Steps ==
  ASSUME [Next]_vars
  PROVE  \/ \E t \in Sources \cup Notifiers : \E kind \in {"request", "notice"} :
              Make(t, kind) /\ kind = (IF t \in Sources THEN "request" ELSE "notice")
         \/ \E t \in Sources \cup Notifiers \cup {"agent"} : Push(t)
         \/ \E t \in Threads : PushTimeout(t)
         \/ \E t \in {"agent", "dispatch"} : Starts(t)
         \/ \E q \in Queues : Pop(Consumer[q], q)
         \/ AgentQuits \/ AgentTakes \/ AgentAnswers \/ AgentDone
         \/ PopTimeout \/ Deliver
         \/ \E q \in Queues : \E from, to \in {"wake in", "wake out", "settle"} :
               Broadcast(q, from, to)
         \/ (UNCHANGED bus /\ UNCHANGED past)
<1>1. CASE UNCHANGED vars
      BY <1>1 DEF vars, bus, past
<1>2. CASE Quit \/ MainWakes \/ WakeFlag \/ Destroy
      BY <1>2 DEF Quit, MainWakes, WakeFlag, Destroy
<1>3. ASSUME NEW t \in Sources \cup Notifiers, Producer(t)
      PROVE  \/ \E kind \in {"request", "notice"} :
                  Make(t, kind) /\ kind = (IF t \in Sources THEN "request" ELSE "notice")
             \/ Push(t)
      BY <1>3 DEF Producer
<1>4. QED
      BY <1>1, <1>2, <1>3, ThreadFacts DEF Starts, Next, Agent, Dispatcher, Main, Queues

-----------------------------------------------------------------------------
(* Nobody is forgotten, taken queue by queue.                                *)
Ready(q) == {t \in Pushers(q) : pc[t] = "push"}
Told(q) ==
  /\ pc[Consumer[q]] = "empty" => queue[q] = <<>>
  /\ (\E t \in Pushers(q) : pc[t] = "full") => Length - Len(queue[q]) <= Cardinality(Ready(q))

(* The pushers that were woken and have not yet pushed can be counted.       *)
LEMMA ReadyFinite ==
  ASSUME NEW q \in Queues
  PROVE  /\ IsFiniteSet(Ready(q)) /\ Cardinality(Ready(q)) \in Nat
         /\ IsFiniteSet(Ready(q)') /\ Cardinality(Ready(q)') \in Nat
<1>1. Ready(q) \in SUBSET Pushers(q) /\ Ready(q)' \in SUBSET Pushers(q)
      BY DEF Ready, Pushers
<1>2. IsFiniteSet(Pushers(q))
      BY PushersFacts
<1>3. IsFiniteSet(Ready(q)) /\ IsFiniteSet(Ready(q)')
      BY <1>1, <1>2, FS_Subset
<1>4. QED
      BY <1>3, FS_CardinalityType

(* A step in which nobody starts to wait and nobody gives up its turn.       *)
LEMMA ToldQuietly ==
  ASSUME TypeInv, NEW q \in Queues, Told(q), queue'[q] = queue[q],
         pc'[Consumer[q]] = "empty" => pc[Consumer[q]] = "empty",
         \A t \in Pushers(q) : /\ pc[t] = "push" => pc'[t] = "push"
                               /\ pc'[t] = "full" => pc[t] = "full"
  PROVE  Told(q)'
<1>1. Pushers(q)' = Pushers(q) /\ Consumer[q]' = Consumer[q] /\ Length' = Length
      BY DEF Pushers, Consumer, Queues
<1>2. Ready(q) \in SUBSET (Ready(q)')
      BY <1>1 DEF Ready, Pushers
<1>3. Cardinality(Ready(q)) <= Cardinality(Ready(q)')
      BY <1>2, ReadyFinite, FS_Subset
<1>4. queue[q] \in Seq(Message) /\ Length \in Nat
      BY MessageBusAssumption DEF TypeInv, TypeOK
<1>5. (\E t \in Pushers(q) : pc'[t] = "full") =>
         Length - Len(queue'[q]) <= Cardinality(Ready(q)')
  <2>1. (\E t \in Pushers(q) : pc'[t] = "full") => \E t \in Pushers(q) : pc[t] = "full"
        OBVIOUS
  <2>2. Len(queue'[q]) = Len(queue[q]) /\ Len(queue[q]) \in Nat
        BY <1>4
  <2>3. QED
        BY <1>3, <1>4, <2>1, <2>2, ReadyFinite DEF Told
<1>6. pc'[Consumer[q]] = "empty" => queue'[q] = <<>>
      BY DEF Told
<1>7. QED
      BY <1>1, <1>5, <1>6 DEF Told

(* A step of one thread that does not leave "push" or enter a wait.          *)
LEMMA ToldOnMove ==
  ASSUME TypeInv, \A q \in Queues : Told(q), queue' = queue,
         NEW t \in Threads, NEW label \in Labels \ {"full", "empty"}, Goto(t, label),
         pc[t] # "push"
  PROVE  \A q \in Queues : Told(q)'
<1>1. pc'[t] = label /\ \A u \in Threads \ {t} : pc'[u] = pc[u]
      BY MoveOne DEF TypeInv
<1>2. \A u \in Threads : /\ pc[u] = "push" => pc'[u] = "push"
                         /\ pc'[u] = "full" => pc[u] = "full"
                         /\ pc'[u] = "empty" => pc[u] = "empty"
      BY <1>1
<1>3. ASSUME NEW q \in Queues
      PROVE  Told(q)'
  <2>1. Consumer[q] \in Threads /\ \A u \in Pushers(q) : u \in Threads
        BY PushersFacts
  <2>2. pc'[Consumer[q]] = "empty" => pc[Consumer[q]] = "empty"
        BY <1>2, <2>1
  <2>3. \A u \in Pushers(q) : /\ pc[u] = "push" => pc'[u] = "push"
                              /\ pc'[u] = "full" => pc[u] = "full"
        BY <1>2, <2>1
  <2>4. QED
        BY <2>2, <2>3, ToldQuietly
<1>4. QED
      BY <1>3

(* A push uses up the room it was promised, and wakes the consumer.          *)
LEMMA ToldOnPush ==
  ASSUME TypeInv, \A q \in Queues : Told(q),
         NEW t \in Sources \cup Notifiers \cup {"agent"}, Push(t), NEW r \in Queues
  PROVE  Told(r)'
<1> DEFINE q == Target(t)
           c == Consumer[q]
<1>1. /\ t \in Threads /\ q \in Queues /\ t \in Pushers(q) /\ c # t /\ c \in Threads
      /\ AfterPush(t) \in {"answer", "idle"} /\ AfterPush(t) \in Labels
      /\ (\A u \in Pushers(q) \cup Pushers(r) : u \in Threads)
      /\ Consumer[r] \in Threads /\ c \notin Pushers(q)
      BY PusherFacts, PushersFacts
<1>2. pc[t] = "push" /\ t \in Ready(q)
      BY <1>1 DEF Push, Ready
<1>3. /\ queue \in [Queues -> Seq(Message)] /\ queue[q] \in Seq(Message)
      /\ Len(queue[q]) \in Nat /\ Length \in Nat /\ Len(queue[q]) <= Length
  <2>1. queue \in [Queues -> Seq(Message)] /\ Len(queue[q]) <= Length /\ Length \in Nat
        BY <1>1, MessageBusAssumption DEF TypeInv, TypeOK
  <2>2. queue[q] \in Seq(Message)
        BY <1>1, <2>1
  <2>3. QED
        BY <2>1, <2>2
<1>4. r # q => t \notin Pushers(r)
      BY DEF Pushers
<1>5. CASE Len(queue[q]) < Length
  <2>1. /\ queue' = [queue EXCEPT ![q] = Append(@, hold[t])]
        /\ SignalNotEmpty(t, q, AfterPush(t))
        BY <1>5 DEF Push
  <2>2. /\ pc'[t] = AfterPush(t)
        /\ pc[c] = "empty" => pc'[c] = "pop"
        /\ pc[c] # "empty" => pc'[c] = pc[c]
        /\ \A u \in Threads \ {t, c} : pc'[u] = pc[u]
        BY <1>1, <2>1, SignalsNotEmpty DEF TypeInv
  <2> HIDE DEF q, c
  <2>3. CASE r # q
    <3>1. queue'[r] = queue[r]
          BY <1>3, <2>1, <2>3
    <3>2. \A u \in Threads : /\ pc'[u] = "empty" => pc[u] = "empty"
                             /\ pc'[u] = "full" => pc[u] = "full"
                             /\ u # t /\ pc[u] = "push" => pc'[u] = "push"
          BY <1>1, <2>2
    <3>3. \A u \in Pushers(r) : /\ pc[u] = "push" => pc'[u] = "push"
                                /\ pc'[u] = "full" => pc[u] = "full"
          BY <1>1, <1>4, <2>3, <3>2
    <3>4. pc'[Consumer[r]] = "empty" => pc[Consumer[r]] = "empty"
          BY <1>1, <3>2
    <3>5. QED
          BY <3>1, <3>3, <3>4, ToldQuietly
  <2>4. CASE r = q
    <3>1. Ready(q)' = Ready(q) \ {t}
          BY <1>1, <2>2 DEF Ready, Pushers
    <3>2. Cardinality(Ready(q)') = Cardinality(Ready(q)) - 1
          BY <1>1, <1>2, <3>1, ReadyFinite, FS_RemoveElement
    <3>3. Len(queue'[q]) = Len(queue[q]) + 1
          BY <1>1, <1>3, <2>1
    <3>4. (\E u \in Pushers(q) : pc'[u] = "full") => \E u \in Pushers(q) : pc[u] = "full"
          BY <1>1, <2>2
    <3>5. (\E u \in Pushers(q) : pc'[u] = "full") =>
             Length - Len(queue'[q]) <= Cardinality(Ready(q)')
      <4>1. (\E u \in Pushers(q) : pc[u] = "full") =>
               Length - Len(queue[q]) <= Cardinality(Ready(q))
            BY <1>1 DEF Told
      <4>2. Cardinality(Ready(q)) \in Nat
            BY <1>1, ReadyFinite
      <4>3. QED
            BY <1>3, <3>2, <3>3, <3>4, <4>1, <4>2
    <3>6. pc'[c] # "empty"
          BY <2>2
    <3>7. QED
          BY <2>4, <3>5, <3>6 DEF Told, Pushers, c, Consumer
  <2>5. QED
        BY <2>3, <2>4
<1>6. CASE ~(Len(queue[q]) < Length)
  <2>1. Goto(t, "full") /\ queue' = queue
        BY <1>6 DEF Push
  <2>2. pc'[t] = "full" /\ \A u \in Threads \ {t} : pc'[u] = pc[u]
        BY <1>1, <2>1, MoveOne DEF TypeInv, Labels
  <2>3. pc'[Consumer[r]] = "empty" => pc[Consumer[r]] = "empty"
        BY <1>1, <2>2
  <2> HIDE DEF q, c
  <2>4. CASE r # q
        BY <1>1, <1>4, <2>1, <2>2, <2>3, <2>4, ToldQuietly
  <2>5. CASE r = q
    <3>1. Len(queue'[q]) = Length
          BY <1>3, <1>6, <2>1
    <3>2. Length - Len(queue'[q]) <= Cardinality(Ready(q)')
          BY <1>1, <1>3, <3>1, ReadyFinite
    <3>3. pc'[Consumer[q]] = "empty" => queue'[q] = <<>>
          BY <1>1, <2>1, <2>3, <2>5 DEF Told
    <3>4. QED
          BY <2>5, <3>2, <3>3 DEF Told, Consumer
  <2>6. QED
        BY <2>4, <2>5
<1>7. QED
      BY <1>5, <1>6

(* A pop promises the room it makes to a pusher that waits, if there is one. *)
LEMMA ToldOnPop ==
  ASSUME TypeInv, \A q \in Queues : Told(q),
         NEW q \in Queues, Pop(Consumer[q], q), NEW r \in Queues
  PROVE  Told(r)'
<1> DEFINE t == Consumer[q]
<1>1. /\ t \in Threads /\ t \notin Pushers(q) /\ IsFiniteSet(Pushers(q))
      /\ (\A u \in Pushers(q) \cup Pushers(r) : u \in Threads)
      /\ Consumer[r] \in Threads /\ (r # q => Consumer[r] # t)
      /\ Pop(t, q) /\ pc[t] = "pop"
      BY PushersFacts, ThreadFacts DEF Pop, Queues
<1>2. /\ queue \in [Queues -> Seq(Message)] /\ queue[q] \in Seq(Message)
      /\ Len(queue[q]) \in Nat /\ Length \in Nat
  <2>1. queue \in [Queues -> Seq(Message)] /\ Length \in Nat
        BY MessageBusAssumption DEF TypeInv, TypeOK
  <2>2. queue[q] \in Seq(Message)
        BY <2>1
  <2>3. QED
        BY <2>1, <2>2
<1>3. CASE queue[q] # <<>>
  <2>1. queue' = [queue EXCEPT ![q] = Tail(@)] /\ SignalNotFull(t, q, "got")
        BY <1>1, <1>3 DEF Pop
  <2>2. /\ pc'[t] = "got"
        /\ \/ /\ \A w \in Pushers(q) : pc[w] # "full"
              /\ \A u \in Threads \ {t} : pc'[u] = pc[u]
           \/ \E w \in Pushers(q) :
                /\ w # t /\ pc[w] = "full" /\ pc'[w] = "push"
                /\ \A u \in Threads \ {t, w} : pc'[u] = pc[u]
        BY <1>1, <2>1, SignalsNotFull DEF TypeInv, Labels
  <2> HIDE DEF t
  <2>3. \A u \in Threads : /\ pc[u] = "push" => pc'[u] = "push"
                           /\ pc'[u] = "full" => pc[u] = "full"
                           /\ pc'[u] = "empty" => pc[u] = "empty"
        BY <1>1, <2>2
  <2>4. CASE r # q
    <3>1. queue'[r] = queue[r]
          BY <1>2, <2>1, <2>4
    <3>2. \A u \in Pushers(r) : /\ pc[u] = "push" => pc'[u] = "push"
                                /\ pc'[u] = "full" => pc[u] = "full"
          BY <1>1, <2>3
    <3>3. pc'[Consumer[r]] = "empty" => pc[Consumer[r]] = "empty"
          BY <1>1, <2>3
    <3>4. QED
          BY <3>1, <3>2, <3>3, ToldQuietly
  <2>5. CASE r = q
    <3>1. Len(queue'[q]) = Len(queue[q]) - 1
          BY <1>2, <1>3, <2>1
    <3>2. CASE \A w \in Pushers(q) : pc[w] # "full"
      <4>1. \A w \in Pushers(q) : pc'[w] # "full"
            BY <1>1, <2>3, <3>2
      <4>2. QED
            BY <2>2, <2>5, <4>1 DEF Told, Pushers, t, Consumer
    <3>3. ASSUME NEW w \in Pushers(q), w # t, pc[w] = "full", pc'[w] = "push",
                 \A u \in Threads \ {t, w} : pc'[u] = pc[u]
          PROVE  Told(r)'
      <4>1. Ready(q)' = Ready(q) \cup {w} /\ w \notin Ready(q)
            BY <1>1, <3>3 DEF Ready, Pushers
      <4>2. Cardinality(Ready(q)') = Cardinality(Ready(q)) + 1
            BY <4>1, ReadyFinite, FS_AddElement
      <4>3. Length - Len(queue'[q]) <= Cardinality(Ready(q)')
            BY <1>2, <3>1, <3>3, <4>2, ReadyFinite DEF Told
      <4>4. QED
            BY <2>2, <2>5, <4>3 DEF Told, t, Consumer
    <3>4. QED
          BY <2>2, <3>2, <3>3
  <2>6. QED
        BY <2>4, <2>5
<1>4. CASE queue[q] = <<>>
  <2>1. Goto(t, IF busDown THEN "top" ELSE "empty") /\ queue' = queue
        BY <1>1, <1>4 DEF Pop
  <2>2. pc'[t] \in {"top", "empty"} /\ \A u \in Threads \ {t} : pc'[u] = pc[u]
        BY <1>1, <2>1, MoveOne DEF TypeInv, Labels
  <2> HIDE DEF t
  <2>3. CASE r # q
        BY <1>1, <2>1, <2>2, <2>3, ToldQuietly
  <2>4. CASE r = q
    <3>1. \A u \in Pushers(q) : pc'[u] = pc[u]
          BY <1>1, <2>2
    <3>2. Ready(q)' = Ready(q)
          BY <3>1 DEF Ready, Pushers
    <3>3. QED
          BY <1>4, <2>1, <2>4, <3>1, <3>2 DEF Told, Pushers, Consumer
  <2>5. QED
        BY <2>3, <2>4
<1>5. QED
      BY <1>3, <1>4

(* No step forgets a waiting thread.                                         *)
LEMMA ToldForever ==
  ASSUME TypeInv, \A q \in Queues : Told(q), [Next]_vars
  PROVE  (\A q \in Queues : Told(q))'
<1>0. Queues' = Queues
      BY DEF Queues
<1>1. ASSUME NEW t \in Sources \cup Notifiers, NEW kind \in {"request", "notice"}, Make(t, kind)
      PROVE  \A q \in Queues : Told(q)'
  <2>1. t \in Threads /\ pc[t] = "idle" /\ Goto(t, "push") /\ queue' = queue
        BY <1>1 DEF Threads, Make
  <2>2. QED
        BY <2>1, ToldOnMove DEF Labels
<1>2. ASSUME NEW t \in Sources \cup Notifiers \cup {"agent"}, Push(t)
      PROVE  \A q \in Queues : Told(q)'
      BY <1>2, ToldOnPush
<1>3. ASSUME NEW t \in Threads, PushTimeout(t)
      PROVE  \A q \in Queues : Told(q)'
  <2>1. pc[t] = "full" /\ Goto(t, AfterPush(t)) /\ queue' = queue
        BY <1>3 DEF PushTimeout
  <2>2. QED
        BY <2>1, ToldOnMove DEF Labels, AfterPush
<1>4. ASSUME NEW t \in {"agent", "dispatch"}, Starts(t)
      PROVE  \A q \in Queues : Told(q)'
  <2>1. /\ pc[t] \in {"top", "off"} /\ queue' = queue
        /\ \E label \in {"exit", "pop", "top"} : Goto(t, label)
        BY <1>4 DEF Starts, AgentStarts, Top
  <2>2. QED
        BY <2>1, ToldOnMove, ThreadFacts DEF Labels
<1>5. ASSUME NEW r \in Queues, Pop(Consumer[r], r)
      PROVE  \A q \in Queues : Told(q)'
      BY <1>5, ToldOnPop
<1>6. CASE AgentQuits \/ AgentTakes \/ AgentAnswers \/ AgentDone
  <2>1. /\ pc["agent"] \in {"got", "answer"} /\ queue' = queue
        /\ \E label \in {"exit", "answer", "push", "top"} : Goto("agent", label)
        BY <1>6 DEF AgentQuits, AgentTakes, AgentAnswers, AgentDone
  <2>2. QED
        BY <2>1, ToldOnMove, ThreadFacts DEF Labels
<1>7. CASE PopTimeout \/ Deliver
  <2>1. pc["dispatch"] \in {"got", "empty"} /\ queue' = queue /\ Goto("dispatch", "top")
        BY <1>7 DEF PopTimeout, Deliver
  <2>2. QED
        BY <2>1, ToldOnMove, ThreadFacts DEF Labels
<1>8. ASSUME NEW r \in Queues, NEW from, NEW to, Broadcast(r, from, to), NEW q \in Queues
      PROVE  Told(q)'
  <2>1. /\ pc \in [Threads -> Labels] /\ Consumer[r] \in Threads /\ Consumer[q] \in Threads
        /\ \A u \in Pushers(q) : u \in Threads
        BY PushersFacts DEF TypeInv, TypeOK, Labels
  <2>2. /\ queue' = queue
        /\ \A u \in Threads : pc'[u] = pc[u] \/ (pc[u] = "empty" /\ pc'[u] = "pop")
        BY <1>8, <2>1 DEF Broadcast
  <2>3. \A u \in Pushers(q) : (pc[u] = "push" => pc'[u] = "push") /\ (pc'[u] = "full" => pc[u] = "full")
        BY <2>1, <2>2
  <2>4. pc'[Consumer[q]] = "empty" => pc[Consumer[q]] = "empty"
        BY <2>1, <2>2
  <2>5. QED
        BY <2>2, <2>3, <2>4, ToldQuietly
<1>9. ASSUME UNCHANGED bus, NEW q \in Queues
      PROVE  Told(q)'
      BY <1>9, ToldQuietly DEF bus
<1>10. QED
       BY <1>0, <1>1, <1>2, <1>3, <1>4, <1>5, <1>6, <1>7, <1>8, <1>9, Steps

-----------------------------------------------------------------------------
(* All threads start with empty hands, or idle.                              *)
LEMMA InitType == Init => TypeInv
<1> SUFFICES ASSUME Init PROVE TypeInv
    OBVIOUS
<1>1. /\ queue \in [Queues -> Seq(Message)]
      /\ \A q \in Queues : Len(queue[q]) <= Length
      BY MessageBusAssumption DEF Init
<1>2. pc \in [Threads -> {"off", "top", "idle"}] /\ hold \in [Threads -> Message \cup {None}]
      BY DEF Init
<1>3. /\ work = None /\ todo = <<>> /\ taken = <<>> /\ delivered = <<>> /\ gone = {} /\ leaked = {}
      /\ mpc = "up" /\ requested = FALSE /\ busDown = FALSE /\ made = 0
      /\ MaxMessages \in Nat
      BY MessageBusAssumption DEF Init
<1>4. TypeOK
  <2>1. todo \in Seq(Message) /\ taken \in Seq(1..MaxMessages) /\ delivered \in Seq(Message)
        BY <1>3
  <2>2. pc \in [Threads -> {"idle", "push", "full", "top", "pop", "empty", "got",
                           "answer", "exit", "off"}]
        BY <1>2
  <2>3. made \in 0..MaxMessages
        BY <1>3
  <2>4. QED
        BY <1>1, <1>2, <1>3, <2>1, <2>2, <2>3 DEF TypeOK
<1>5. Hands
      BY <1>2, ThreadFacts DEF Hands
<1>6. QED
      BY <1>4, <1>5 DEF TypeInv

(* Every part of the state has its type, and messages are in the hands of    *)
(* those who push them or took them.                                         *)
LEMMA TypeAlways == Spec => []TypeInv
<1>1. TypeInv /\ [Next]_vars => TypeInv'
      BY StepType
<1>2. QED
      BY InitType, <1>1, PTL DEF Spec

(* Every part of the bus keeps its type, and no queue outgrows its length.   *)
THEOREM BusTypeCorrect == Spec => []TypeOK
<1>1. TypeInv => TypeOK
      BY DEF TypeInv
<1>2. QED
      BY TypeAlways, <1>1, PTL

(* No wakeup is lost, for any number of threads on each side and whatever    *)
(* times out: a consumer that waits has an empty queue, and while pushers    *)
(* wait for room all the room there is has been promised to others.          *)
THEOREM NobodyEverForgotten == Spec => []NobodyForgotten
<1> DEFINE Inv == \A q \in Queues : Told(q)
<1>1. Init => Inv
  <2>1. SUFFICES ASSUME Init, NEW q \in Queues PROVE Told(q)
        OBVIOUS
  <2>2. queue[q] = <<>> /\ \A u \in Threads : pc[u] \in {"off", "top", "idle"}
        BY <2>1 DEF Init
  <2>3. \A u \in Pushers(q) : pc[u] # "full"
        BY <2>2, PushersFacts
  <2>4. QED
        BY <2>2, <2>3 DEF Told
<1>2. TypeInv /\ Inv /\ [Next]_vars => Inv'
      BY ToldForever
<1>3. Inv => NobodyForgotten
      BY DEF Told, Ready, NobodyForgotten
<1>4. QED
      BY TypeAlways, <1>1, <1>2, <1>3, PTL DEF Spec

-----------------------------------------------------------------------------
(* The order of the answers.  First: requests are not mixed up.              *)
LEMMA NumberTypes ==
  ASSUME TypeInv
  PROVE  /\ made \in Nat /\ taken \in Seq(Nat)
         /\ queue["in"] \in Seq(Message) /\ queue["out"] \in Seq(Message)
         /\ \A i \in DOMAIN taken : taken[i] \in Nat
         /\ \A i \in DOMAIN queue["in"] : queue["in"][i].no \in Nat
         /\ \A t \in Holding : t \in Threads /\ hold[t] \in Message /\ hold[t].no \in Nat
         /\ pc["agent"] = "got" => hold["agent"] \in Message /\ hold["agent"].no \in Nat
<1>1. /\ made \in Nat /\ taken \in Seq(1..MaxMessages)
      /\ queue["in"] \in Seq(Message) /\ queue["out"] \in Seq(Message)
  <2>1. made \in 0..MaxMessages /\ MaxMessages \in Nat /\ taken \in Seq(1..MaxMessages)
        BY MessageBusAssumption DEF TypeInv, TypeOK
  <2>2. queue["in"] \in Seq(Message) /\ queue["out"] \in Seq(Message)
        BY DEF TypeInv, TypeOK, Queues
  <2>3. QED
        BY <2>1, <2>2
<1>2. \A m \in Message : m.no \in Nat
      BY MessageBusAssumption DEF Message
<1>3. \A i \in DOMAIN queue["in"] : queue["in"][i] \in Message
      BY <1>1
<1>4. \A t \in Holding : t \in Threads /\ hold[t] \in Message
      BY DEF TypeInv, Hands, Holding, Threads
<1>5. pc["agent"] = "got" => hold["agent"] \in Message
      BY ThreadFacts DEF TypeInv, Hands
<1>6. taken \in Seq(Nat) /\ \A i \in DOMAIN taken : taken[i] \in Nat
      BY <1>1, MessageBusAssumption
<1>7. QED
      BY <1>1, <1>2, <1>3, <1>4, <1>5, <1>6

(* A step that brings no request to another place, though it may drop one.   *)
LEMMA NumbersQuietly ==
  ASSUME TypeInv, Numbers, taken' = taken, queue'["in"] = queue["in"],
         made' \in Nat, made' >= made,
         \A t \in Sources : pc'[t] \in {"push", "full"} =>
                              pc[t] \in {"push", "full"} /\ hold'[t] = hold[t],
         pc'["agent"] = "got" => pc["agent"] = "got" /\ hold'["agent"] = hold["agent"]
  PROVE  Numbers'
<1>1. \A t \in Holding' : t \in Holding /\ hold'[t] = hold[t]
      BY DEF Holding
<1>2. \A no \in Nat : New(no, made, taken) => New(no, made', taken')
      BY NumberTypes DEF New
<1>3. \A no \in Nat : Apart(no, made, taken, queue["in"]) => Apart(no, made', taken', queue'["in"])
      BY <1>2 DEF Apart
<1>4. \A t \in Holding' : Apart(hold'[t].no, made', taken', queue'["in"])
      BY <1>1, <1>3, NumberTypes DEF Numbers
<1>5. \A t, u \in Holding' : hold'[t].no = hold'[u].no => t = u
      BY <1>1 DEF Numbers
<1>6. \A i \in DOMAIN queue'["in"] : New(queue'["in"][i].no, made', taken')
      BY <1>2, NumberTypes DEF Numbers
<1>7. pc'["agent"] = "got" =>
        Apart(hold'["agent"].no, made', taken', queue'["in"]) /\ \A t \in Holding' : hold'[t].no # hold'["agent"].no
      BY <1>1, <1>3, NumberTypes DEF Numbers
<1>8. \A i \in DOMAIN taken' : taken'[i] <= made'
      BY NumberTypes DEF Numbers
<1>9. QED
      BY <1>4, <1>5, <1>6, <1>7, <1>8 DEF Numbers

(* A new request has a number no other has.                                  *)
LEMMA NumbersOnMake ==
  ASSUME TypeInv, Numbers, NEW t \in Sources, NEW kind, Make(t, kind)
  PROVE  Numbers'
<1>1. /\ pc[t] = "idle" /\ made' = made + 1 /\ taken' = taken /\ queue' = queue
      /\ hold' = [hold EXCEPT ![t] = [kind |-> kind, no |-> made + 1]]
      /\ Goto(t, "push")
      BY DEF Make
<1>2. t \in Threads /\ t # "agent"
      BY ThreadFacts DEF Threads
<1>3. hold'[t].no = made + 1 /\ \A u \in Threads \ {t} : hold'[u] = hold[u]
      BY <1>1, <1>2 DEF TypeInv, TypeOK
<1>4. pc'[t] = "push" /\ \A u \in Threads \ {t} : pc'[u] = pc[u]
      BY <1>1, <1>2, MoveOne DEF TypeInv, Labels
<1>5. Holding' = Holding \cup {t} /\ t \notin Holding
      BY <1>1, <1>2, <1>4 DEF Holding, Threads
<1>6. \A u \in Holding : u # t /\ hold'[u] = hold[u]
      BY <1>3, <1>5, NumberTypes
<1>7. \A no \in Nat : Apart(no, made, taken, queue["in"]) => Apart(no, made', taken', queue'["in"]) /\ no < made + 1
      BY <1>1, NumberTypes DEF Apart, New
<1>8. Apart(made + 1, made', taken', queue'["in"])
  <2>1. \A i \in DOMAIN taken : taken[i] # made + 1
        BY NumberTypes DEF Numbers
  <2>2. \A i \in DOMAIN queue["in"] : queue["in"][i].no # made + 1
        BY NumberTypes DEF Numbers, New
  <2>3. QED
        BY <1>1, <2>1, <2>2, NumberTypes DEF Apart, New
<1>9. \A u \in Holding' : Apart(hold'[u].no, made', taken', queue'["in"])
      BY <1>3, <1>5, <1>6, <1>7, <1>8, NumberTypes DEF Numbers
<1>10. \A u, v \in Holding' : hold'[u].no = hold'[v].no => u = v
  <2>1. \A u \in Holding : hold'[u].no < made + 1
        BY <1>6, <1>7, NumberTypes DEF Numbers
  <2>2. QED
        BY <1>3, <1>5, <1>6, <2>1, NumberTypes DEF Numbers
<1>11. \A i \in DOMAIN taken' : taken'[i] <= made'
       BY <1>1, NumberTypes DEF Numbers
<1>12. \A i \in DOMAIN queue'["in"] : New(queue'["in"][i].no, made', taken')
       BY <1>1, NumberTypes DEF Numbers, New
<1>13. pc'["agent"] = "got" =>
         Apart(hold'["agent"].no, made', taken', queue'["in"]) /\ \A u \in Holding' : hold'[u].no # hold'["agent"].no
  <2>1. SUFFICES ASSUME pc'["agent"] = "got"
                 PROVE  Apart(hold'["agent"].no, made', taken', queue'["in"]) /\ \A u \in Holding' : hold'[u].no # hold'["agent"].no
        OBVIOUS
  <2>2. pc["agent"] = "got" /\ hold'["agent"] = hold["agent"]
        BY <1>2, <1>3, <1>4, <2>1, ThreadFacts
  <2>3. hold["agent"].no \in Nat /\ Apart(hold["agent"].no, made, taken, queue["in"]) /\ hold["agent"].no < made + 1
        BY <1>7, <2>2, NumberTypes DEF Numbers
  <2>4. QED
        BY <1>3, <1>5, <1>6, <1>7, <2>2, <2>3 DEF Numbers
<1>14. QED
       BY <1>1, <1>9, <1>10, <1>11, <1>12, <1>13 DEF Numbers

(* A request moves from the hands of its source into the queue.              *)
LEMMA NumbersOnPush ==
  ASSUME TypeInv, Numbers, NEW t \in Sources, Push(t), Len(queue["in"]) < Length
  PROVE  Numbers'
<1>1. /\ Target(t) = "in" /\ t \in Threads /\ t \in Pushers("in") /\ "in" \in Queues
      /\ t # "agent" /\ Consumer["in"] = "agent" /\ AfterPush(t) = "idle" /\ "idle" \in Labels
      BY ThreadFacts, PushersFacts DEF Threads, Queues, AfterPush, Labels
<1>2. /\ pc[t] = "push" /\ taken' = taken /\ made' = made
      /\ queue' = [queue EXCEPT !["in"] = Append(@, hold[t])]
      /\ hold' = [hold EXCEPT ![t] = None]
      /\ SignalNotEmpty(t, "in", "idle")
      BY <1>1 DEF Push, past
<1>3. /\ pc'[t] = "idle" /\ pc'["agent"] \in {"pop", pc["agent"]}
      /\ \A u \in Threads \ {t, "agent"} : pc'[u] = pc[u]
      BY <1>1, <1>2, SignalsNotEmpty DEF TypeInv
<1>4. \A u \in Threads \ {t} : hold'[u] = hold[u]
      BY <1>2 DEF TypeInv, TypeOK
<1>5. t \in Holding /\ Holding' = Holding \ {t}
      BY <1>1, <1>2, <1>3, ThreadFacts DEF Holding, Threads
<1>6. queue'["in"] = Append(queue["in"], hold[t])
      BY <1>1, <1>2 DEF TypeInv, TypeOK
<1> DEFINE s == queue["in"]
           m == hold[t]
<1>7. /\ s \in Seq(Message) /\ m \in Message /\ m.no \in Nat /\ Apart(m.no, made, taken, queue["in"])
      BY <1>5, NumberTypes DEF Numbers
<1> HIDE DEF s, m
<1>8. /\ DOMAIN Append(s, m) = 1..(Len(s) + 1) /\ Len(s) \in Nat /\ DOMAIN s = 1..Len(s)
      /\ \A i \in 1..Len(s) : Append(s, m)[i] = s[i]
      /\ Append(s, m)[Len(s) + 1] = m
      BY <1>7
<1>9. \A no \in Nat : New(no, made, taken) => New(no, made', taken')
      BY <1>2 DEF New
<1>10. \A no \in Nat : Apart(no, made, taken, queue["in"]) /\ no # m.no => Apart(no, made', taken', queue'["in"])
       BY <1>6, <1>8, <1>9 DEF Apart, s, m
<1>11. \A u \in Holding' : u \in Holding /\ u # t /\ hold'[u] = hold[u]
       BY <1>4, <1>5, NumberTypes
<1>12. \A u \in Holding' : Apart(hold'[u].no, made', taken', queue'["in"])
       BY <1>5, <1>10, <1>11, NumberTypes DEF Numbers, m
<1>13. \A i \in DOMAIN queue'["in"] : New(queue'["in"][i].no, made', taken')
  <2>1. New(m.no, made, taken)
        BY <1>7 DEF Apart
  <2>2. \A i \in 1..Len(s) : s[i].no \in Nat /\ New(s[i].no, made, taken)
        BY <1>8, NumberTypes DEF Numbers, s
  <2>3. QED
        BY <1>6, <1>7, <1>8, <1>9, <2>1, <2>2 DEF s, m
<1>14. \A i, j \in DOMAIN queue'["in"] : queue'["in"][i].no = queue'["in"][j].no => i = j
  <2>1. \A i \in 1..Len(s) : s[i].no # m.no
        BY <1>7, <1>8 DEF Apart, s
  <2>2. \A i, j \in 1..Len(s) : s[i].no = s[j].no => i = j
        BY <1>8 DEF Numbers, s
  <2>3. QED
        BY <1>6, <1>8, <2>1, <2>2 DEF s, m
<1>15. \A u, v \in Holding' : hold'[u].no = hold'[v].no => u = v
       BY <1>11 DEF Numbers
<1>16. pc'["agent"] = "got" =>
         Apart(hold'["agent"].no, made', taken', queue'["in"]) /\ \A u \in Holding' : hold'[u].no # hold'["agent"].no
  <2>1. SUFFICES ASSUME pc'["agent"] = "got"
                 PROVE  Apart(hold'["agent"].no, made', taken', queue'["in"]) /\ \A u \in Holding' : hold'[u].no # hold'["agent"].no
        OBVIOUS
  <2>2. pc["agent"] = "got" /\ hold'["agent"] = hold["agent"]
        BY <1>1, <1>3, <1>4, <2>1, ThreadFacts
  <2>3. /\ hold["agent"].no \in Nat /\ Apart(hold["agent"].no, made, taken, queue["in"])
        /\ \A u \in Holding : hold[u].no # hold["agent"].no
        BY <2>2, NumberTypes DEF Numbers
  <2>4. QED
        BY <1>5, <1>10, <1>11, <2>2, <2>3 DEF m
<1>17. QED
       BY <1>2, <1>12, <1>13, <1>14, <1>15, <1>16 DEF Numbers

(* A request moves from the queue into the hands of the agent.               *)
LEMMA NumbersOnPop ==
  ASSUME TypeInv, Numbers, Pop("agent", "in"), queue["in"] # <<>>
  PROVE  Numbers'
<1> DEFINE s == queue["in"]
<1>1. /\ "agent" \in Threads /\ "in" \in Queues /\ Consumer["in"] = "agent"
      /\ "agent" \notin Sources /\ Pushers("in") = Sources
      BY ThreadFacts, PushersFacts DEF Queues
<1>2. /\ pc["agent"] = "pop" /\ taken' = taken /\ made' = made
      /\ hold' = [hold EXCEPT !["agent"] = Head(s)]
      /\ queue' = [queue EXCEPT !["in"] = Tail(@)]
      /\ SignalNotFull("agent", "in", "got")
      BY DEF Pop, past
<1>3. s \in Seq(Message) /\ s # <<>>
      BY NumberTypes
<1>4. queue'["in"] = Tail(s)
      BY <1>1, <1>2 DEF TypeInv, TypeOK
<1>5. hold'["agent"] = Head(s) /\ \A u \in Threads \ {"agent"} : hold'[u] = hold[u]
      BY <1>1, <1>2 DEF TypeInv, TypeOK
<1>6. /\ pc'["agent"] = "got"
      /\ \A u \in Threads \ {"agent"} : pc'[u] = pc[u] \/ (pc[u] = "full" /\ pc'[u] = "push")
      BY <1>1, <1>2, SignalsNotFull DEF TypeInv, Labels
<1>7. Holding' = Holding /\ \A u \in Holding : hold'[u] = hold[u]
      BY <1>1, <1>5, <1>6 DEF Holding, Threads
<1>8. /\ DOMAIN s = 1..Len(s) /\ Len(s) \in Nat /\ Len(s) >= 1 /\ Head(s) = s[1]
      /\ DOMAIN Tail(s) = 1..(Len(s) - 1)
      /\ \A i \in 1..(Len(s) - 1) : Tail(s)[i] = s[i + 1]
      BY <1>3
<1>9. /\ \A i \in 1..Len(s) : New(s[i].no, made, taken)
      /\ \A i, j \in 1..Len(s) : s[i].no = s[j].no => i = j
      /\ \A u \in Holding : /\ New(hold[u].no, made, taken)
                            /\ \A i \in 1..Len(s) : s[i].no # hold[u].no
      BY <1>8 DEF Numbers, Apart
<1> HIDE DEF s
<1>10. \A i \in DOMAIN queue'["in"] : i + 1 \in 1..Len(s) /\ queue'["in"][i] = s[i + 1]
       BY <1>4, <1>8
<1>11. \A i \in DOMAIN queue'["in"] : New(queue'["in"][i].no, made', taken')
       BY <1>2, <1>9, <1>10
<1>12. \A i, j \in DOMAIN queue'["in"] : queue'["in"][i].no = queue'["in"][j].no => i = j
  <2>1. \A i \in DOMAIN queue'["in"] : i \in Nat
        BY <1>4, <1>8
  <2>2. QED
        BY <1>9, <1>10, <2>1
<1>13. \A u \in Holding' : Apart(hold'[u].no, made', taken', queue'["in"])
       BY <1>2, <1>7, <1>9, <1>10 DEF Apart
<1>14. \A u, v \in Holding' : hold'[u].no = hold'[v].no => u = v
       BY <1>7 DEF Numbers
<1>15. Apart(hold'["agent"].no, made', taken', queue'["in"])
  <2>1. \A i \in DOMAIN queue'["in"] : i + 1 # 1
        BY <1>4, <1>8
  <2>2. 1 \in 1..Len(s)
        BY <1>8
  <2>3. QED
        BY <1>2, <1>5, <1>8, <1>9, <1>10, <2>1, <2>2 DEF Apart
<1>16. \A u \in Holding' : hold'[u].no # hold'["agent"].no
       BY <1>5, <1>7, <1>8, <1>9
<1>17. QED
       BY <1>2, <1>11, <1>12, <1>13, <1>14, <1>15, <1>16 DEF Numbers

(* The agent takes down the number of the request in its hands.              *)
LEMMA NumbersOnTake ==
  ASSUME TypeInv, Numbers, AgentTakes
  PROVE  Numbers'
<1> DEFINE no == hold["agent"].no
<1>1. /\ pc["agent"] = "got" /\ taken' = Append(taken, no) /\ made' = made /\ queue' = queue
      /\ hold' = [hold EXCEPT !["agent"] = None] /\ Goto("agent", "answer")
      BY DEF AgentTakes
<1>2. "agent" \in Threads /\ "agent" \notin Sources
      BY ThreadFacts
<1>3. pc'["agent"] = "answer" /\ \A u \in Threads \ {"agent"} : pc'[u] = pc[u]
      BY <1>1, <1>2, MoveOne DEF TypeInv, Labels
<1>4. Holding' = Holding /\ \A u \in Holding : hold'[u] = hold[u]
      BY <1>1, <1>2, <1>3 DEF Holding, Threads, TypeInv, TypeOK
<1>5. /\ no \in Nat /\ New(no, made, taken) /\ \A u \in Holding : hold[u].no # no
      /\ \A i \in DOMAIN queue["in"] : queue["in"][i].no # no
      BY <1>1, NumberTypes DEF Numbers, Apart
<1> HIDE DEF no
<1>6. /\ DOMAIN Append(taken, no) = 1..(Len(taken) + 1) /\ Len(taken) \in Nat
      /\ DOMAIN taken = 1..Len(taken)
      /\ \A i \in 1..Len(taken) : Append(taken, no)[i] = taken[i]
      /\ Append(taken, no)[Len(taken) + 1] = no
      BY <1>5, NumberTypes
<1>7. \A i \in DOMAIN taken' : i \in DOMAIN taken \/ taken'[i] = no
      BY <1>1, <1>6
<1>8. \A n \in Nat : New(n, made, taken) /\ n # no => New(n, made', taken')
      BY <1>1, <1>6, <1>7 DEF New
<1>9. \A i \in DOMAIN taken' : taken'[i] <= made'
      BY <1>1, <1>5, <1>6, <1>7 DEF Numbers, New
<1>10. \A i, j \in DOMAIN taken' : taken'[i] = taken'[j] => i = j
  <2>1. \A i \in 1..Len(taken) : taken[i] # no
        BY <1>5, <1>6 DEF New
  <2>2. \A i, j \in 1..Len(taken) : taken[i] = taken[j] => i = j
        BY <1>6 DEF Numbers
  <2>3. QED
        BY <1>1, <1>6, <2>1, <2>2
<1>11. \A i \in DOMAIN queue'["in"] : New(queue'["in"][i].no, made', taken')
       BY <1>1, <1>5, <1>8, NumberTypes DEF Numbers
<1>12. \A u \in Holding' : Apart(hold'[u].no, made', taken', queue'["in"])
       BY <1>1, <1>4, <1>5, <1>8, NumberTypes DEF Numbers, Apart
<1>13. QED
       BY <1>1, <1>3, <1>4, <1>9, <1>10, <1>11, <1>12 DEF Numbers

(* No step mixes up requests.                                                *)
LEMMA NumbersForever ==
  ASSUME TypeInv, Numbers, [Next]_vars
  PROVE  Numbers'
<1>0. /\ pc \in [Threads -> Labels] /\ "agent" \in Threads /\ "dispatch" \in Threads
      /\ "agent" \notin Sources \cup Notifiers /\ "dispatch" \notin Sources \cup Notifiers
      /\ \A t \in Sources : t \in Threads /\ t \notin Notifiers
      /\ made \in Nat /\ hold \in [Threads -> Message \cup {None}]
      BY ThreadFacts, NumberTypes, MessageBusAssumption DEF TypeInv, TypeOK, Labels, Threads
<1>1. ASSUME NEW t \in Threads, NEW label \in Labels, Goto(t, label), taken' = taken,
             queue'["in"] = queue["in"], made' \in Nat, made' >= made,
             \A u \in Threads \ {t} : hold'[u] = hold[u],
             t \in Sources => \/ label \notin {"push", "full"}
                              \/ pc[t] \in {"push", "full"} /\ hold'[t] = hold[t],
             t = "agent" => label # "got"
      PROVE  Numbers'
  <2>1. pc'[t] = label /\ \A u \in Threads \ {t} : pc'[u] = pc[u]
        BY <1>1, MoveOne DEF TypeInv
  <2>2. \A u \in Sources : pc'[u] \in {"push", "full"} =>
                             pc[u] \in {"push", "full"} /\ hold'[u] = hold[u]
        BY <1>0, <1>1, <2>1
  <2>3. pc'["agent"] = "got" => pc["agent"] = "got" /\ hold'["agent"] = hold["agent"]
        BY <1>0, <1>1, <2>1
  <2>4. QED
        BY <1>1, <2>2, <2>3, NumbersQuietly
<1>2. ASSUME NEW t \in Sources \cup Notifiers, NEW kind \in {"request", "notice"}, Make(t, kind)
      PROVE  Numbers'
  <2>1. CASE t \in Sources
        BY <1>2, <2>1, NumbersOnMake
  <2>2. CASE t \in Notifiers
    <3>1. /\ t \in Threads /\ Goto(t, "push") /\ taken' = taken /\ queue' = queue
          /\ made' = made + 1 /\ t \notin Sources /\ t # "agent"
          /\ \A u \in Threads \ {t} : hold'[u] = hold[u]
          BY <1>0, <1>2, <2>2 DEF Make, Threads
    <3>2. QED
          BY <1>0, <1>1, <3>1 DEF Labels
  <2>3. QED
        BY <2>1, <2>2
<1>3. ASSUME NEW t \in Sources \cup Notifiers \cup {"agent"}, Push(t)
      PROVE  Numbers'
  <2>1. /\ t \in Threads /\ pc[t] = "push" /\ taken' = taken /\ made' = made
        /\ \A u \in Threads \ {t} : hold'[u] = hold[u]
        BY <1>0, <1>3, PusherFacts DEF Push, past
  <2>2. CASE ~(Len(queue[Target(t)]) < Length)
    <3>1. Goto(t, "full") /\ queue' = queue /\ hold' = hold
          BY <1>3, <2>2 DEF Push
    <3>2. QED
          BY <1>0, <1>1, <2>1, <3>1 DEF Labels
  <2>3. CASE Len(queue[Target(t)]) < Length /\ t \in Sources
    <3>1. Target(t) = "in"
          BY <2>3, ThreadFacts
    <3>2. QED
          BY <1>3, <2>3, <3>1, NumbersOnPush
  <2>4. CASE Len(queue[Target(t)]) < Length /\ t \notin Sources
    <3>1. Target(t) = "out" /\ t \in Pushers("out") /\ "out" \in Queues /\ AfterPush(t) \in Labels
          BY <2>4, PusherFacts, ThreadFacts DEF Queues
    <3>2. /\ queue' = [queue EXCEPT !["out"] = Append(@, hold[t])]
          /\ SignalNotEmpty(t, "out", AfterPush(t))
          BY <1>3, <2>4, <3>1 DEF Push
    <3>3. queue'["in"] = queue["in"]
          BY <3>2 DEF TypeInv, TypeOK, Queues
    <3>4. /\ pc'[t] = AfterPush(t) /\ pc'["dispatch"] \in {"pop", pc["dispatch"]}
          /\ \A u \in Threads \ {t, "dispatch"} : pc'[u] = pc[u]
          BY <3>1, <3>2, SignalsNotEmpty, ThreadFacts DEF TypeInv
    <3>5. \A u \in Sources : u # t /\ pc'[u] = pc[u] /\ hold'[u] = hold[u]
          BY <1>0, <2>1, <2>4, <3>4
    <3>6. AfterPush(t) # "got"
          BY DEF AfterPush
    <3>7. pc'["agent"] = "got" => pc["agent"] = "got" /\ hold'["agent"] = hold["agent"]
          BY <1>0, <2>1, <3>4, <3>6
    <3>8. QED
          BY <1>0, <2>1, <3>3, <3>5, <3>7, NumbersQuietly
  <2>5. QED
        BY <2>2, <2>3, <2>4
<1>4. ASSUME NEW t \in Threads, PushTimeout(t)
      PROVE  Numbers'
  <2>1. /\ Goto(t, AfterPush(t)) /\ taken' = taken /\ queue' = queue /\ made' = made
        /\ \A u \in Threads \ {t} : hold'[u] = hold[u]
        BY <1>0, <1>4 DEF PushTimeout
  <2>2. PICK label \in {"answer", "idle"} : Goto(t, label)
        BY <2>1 DEF AfterPush
  <2>3. label \in Labels /\ label # "push" /\ label # "full" /\ label # "got"
        BY <2>2 DEF Labels
  <2>4. queue'["in"] = queue["in"] /\ made' \in Nat /\ made' >= made
        BY <1>0, <2>1
  <2>5. pc'[t] = label /\ \A u \in Threads \ {t} : pc'[u] = pc[u]
        BY <2>2, <2>3, MoveOne DEF TypeInv
  <2>6. \A u \in Sources : pc'[u] \in {"push", "full"} =>
                             pc[u] \in {"push", "full"} /\ hold'[u] = hold[u]
        BY <1>0, <2>1, <2>3, <2>5
  <2>7. pc'["agent"] = "got" => pc["agent"] = "got" /\ hold'["agent"] = hold["agent"]
        BY <1>0, <2>1, <2>3, <2>5
  <2>8. QED
        BY <2>1, <2>4, <2>6, <2>7, NumbersQuietly
<1>5. ASSUME NEW t \in {"agent", "dispatch"}, Starts(t)
      PROVE  Numbers'
  <2>1. /\ \E label \in {"exit", "pop", "top"} : Goto(t, label)
        /\ taken' = taken /\ queue' = queue /\ made' = made /\ hold' = hold
        BY <1>5 DEF Starts, AgentStarts, Top, past
  <2>2. QED
        BY <1>0, <1>1, <2>1 DEF Labels
<1>6. ASSUME Pop("agent", "in")
      PROVE  Numbers'
  <2>1. CASE queue["in"] # <<>>
        BY <1>6, <2>1, NumbersOnPop
  <2>2. CASE queue["in"] = <<>>
    <3>1. /\ Goto("agent", IF busDown THEN "top" ELSE "empty") /\ taken' = taken
          /\ queue' = queue /\ made' = made /\ hold' = hold
          BY <1>6, <2>2 DEF Pop, past
    <3>2. QED
          BY <1>0, <1>1, <3>1 DEF Labels
  <2>3. QED
        BY <2>1, <2>2
<1>7. ASSUME Pop("dispatch", "out")
      PROVE  Numbers'
  <2>1. pc["dispatch"] = "pop" /\ taken' = taken /\ made' = made
        BY <1>7 DEF Pop, past
  <2>2. CASE queue["out"] # <<>>
    <3>1. /\ queue' = [queue EXCEPT !["out"] = Tail(@)]
          /\ hold' = [hold EXCEPT !["dispatch"] = Head(queue["out"])]
          /\ SignalNotFull("dispatch", "out", "got")
          BY <1>7, <2>2 DEF Pop
    <3>2. queue'["in"] = queue["in"] /\ \A u \in Threads \ {"dispatch"} : hold'[u] = hold[u]
          BY <1>0, <3>1 DEF TypeInv, TypeOK, Queues
    <3>3. \A u \in Threads \ {"dispatch"} : pc'[u] = pc[u] \/ (pc[u] = "full" /\ pc'[u] = "push")
      <4>1. "out" \in Queues /\ Consumer["out"] = "dispatch" /\ "got" \in Labels
            BY ThreadFacts DEF Queues, Labels
      <4>2. QED
            BY <1>0, <2>1, <3>1, <4>1, SignalsNotFull DEF TypeInv
    <3>4. \A u \in Sources : pc'[u] \in {"push", "full"} =>
                               pc[u] \in {"push", "full"} /\ hold'[u] = hold[u]
          BY <1>0, <3>2, <3>3
    <3>5. pc'["agent"] = "got" => pc["agent"] = "got" /\ hold'["agent"] = hold["agent"]
          BY <1>0, <3>2, <3>3
    <3>6. QED
          BY <1>0, <2>1, <3>2, <3>4, <3>5, NumbersQuietly
  <2>3. CASE queue["out"] = <<>>
    <3>1. /\ Goto("dispatch", IF busDown THEN "top" ELSE "empty")
          /\ queue' = queue /\ hold' = hold
          BY <1>7, <2>3 DEF Pop
    <3>2. QED
          BY <1>0, <1>1, <2>1, <3>1 DEF Labels
  <2>4. QED
        BY <2>2, <2>3
<1>8. CASE AgentQuits \/ AgentAnswers \/ AgentDone
  <2>1. /\ queue' = queue /\ taken' = taken /\ made' = made
        /\ \A u \in Threads \ {"agent"} : hold'[u] = hold[u]
        BY <1>0, <1>8 DEF AgentQuits, AgentAnswers, AgentDone, past
  <2>2. PICK label \in {"exit", "push", "top"} : Goto("agent", label)
        BY <1>8 DEF AgentQuits, AgentAnswers, AgentDone
  <2>3. QED
        BY <1>0, <1>1, <2>1, <2>2 DEF Labels
<1>9. CASE PopTimeout \/ Deliver
  <2>1. /\ queue' = queue /\ taken' = taken /\ made' = made /\ Goto("dispatch", "top")
        /\ \A u \in Threads \ {"dispatch"} : hold'[u] = hold[u]
        BY <1>0, <1>9 DEF PopTimeout, Deliver, past
  <2>2. QED
        BY <1>0, <1>1, <2>1 DEF Labels
<1>10. ASSUME NEW r \in Queues, NEW from, NEW to, Broadcast(r, from, to)
       PROVE  Numbers'
  <2>1. /\ queue' = queue /\ taken' = taken /\ made' = made /\ hold' = hold
        /\ \A u \in Threads : pc'[u] = pc[u] \/ (pc[u] = "empty" /\ pc'[u] = "pop")
        BY <1>0, <1>10, PushersFacts DEF Broadcast, past
  <2>2. QED
        BY <1>0, <2>1, NumbersQuietly
<1>11. CASE UNCHANGED bus /\ UNCHANGED past
       BY <1>0, <1>11, NumbersQuietly DEF bus, past
<1>12. \A q \in Queues : Pop(Consumer[q], q) => Pop("agent", "in") \/ Pop("dispatch", "out")
       BY ThreadFacts DEF Queues
<1>13. QED
       BY <1>2, <1>3, <1>4, <1>5, <1>6, <1>7, <1>8, <1>9, <1>10, <1>11, <1>12, NumbersOnTake, Steps

-----------------------------------------------------------------------------
(* The rank of a message, and that requests taken later do not change it.    *)
LEMMA RankAt ==
  ASSUME NEW s \in Seq(Nat), \A i, j \in DOMAIN s : s[i] = s[j] => i = j,
         NEW i \in DOMAIN s, NEW m, s[i] = m.no
  PROVE  RankIn(s, m) = 2 * i + (IF m.kind = "reply" THEN 1 ELSE 0)
<1>1. (CHOOSE j \in DOMAIN s : s[j] = m.no) \in DOMAIN s
      OBVIOUS
<1>2. s[CHOOSE j \in DOMAIN s : s[j] = m.no] = m.no
      OBVIOUS
<1>3. (CHOOSE j \in DOMAIN s : s[j] = m.no) = i
      BY <1>1, <1>2
<1>4. QED
      BY <1>3 DEF RankIn

LEMMA Appended ==
  ASSUME NEW s \in Seq(Nat), NEW no \in Nat
  PROVE  /\ Append(s, no) \in Seq(Nat) /\ Len(s) \in Nat
         /\ DOMAIN Append(s, no) = 1..(Len(s) + 1) /\ DOMAIN s = 1..Len(s)
         /\ Append(s, no)[Len(s) + 1] = no
         /\ \A i \in 1..Len(s) : Append(s, no)[i] = s[i]
OBVIOUS

(* A request taken later ranks above all that were taken before.             *)
LEMMA RankKept ==
  ASSUME NEW s \in Seq(Nat), NEW no \in Nat,
         \A i, j \in DOMAIN s : s[i] = s[j] => i = j,
         \A i \in DOMAIN s : s[i] # no
  PROVE  /\ \A m : (\E i \in DOMAIN s : s[i] = m.no) =>
               /\ RankIn(s, m) \in Nat /\ RankIn(s, m) < 2 * (Len(s) + 1)
               /\ RankIn(Append(s, no), m) = RankIn(s, m)
         /\ \A m : m.no = no =>
               RankIn(Append(s, no), m) = 2 * (Len(s) + 1) + (IF m.kind = "reply" THEN 1 ELSE 0)
<1> DEFINE z == Append(s, no)
<1>1. /\ z \in Seq(Nat) /\ DOMAIN z = 1..(Len(s) + 1) /\ DOMAIN s = 1..Len(s) /\ Len(s) \in Nat
      /\ z[Len(s) + 1] = no /\ \A i \in 1..Len(s) : z[i] = s[i]
      BY Appended
<1> HIDE DEF z
<1>2. \A i, j \in DOMAIN z : z[i] = z[j] => i = j
      BY <1>1
<1>3. ASSUME NEW m, NEW i \in DOMAIN s, s[i] = m.no
      PROVE  /\ RankIn(s, m) \in Nat /\ RankIn(s, m) < 2 * (Len(s) + 1)
             /\ RankIn(z, m) = RankIn(s, m)
  <2>1. RankIn(s, m) = 2 * i + (IF m.kind = "reply" THEN 1 ELSE 0)
        BY <1>3, RankAt
  <2>2. i \in DOMAIN z /\ z[i] = m.no /\ i \in Nat /\ i <= Len(s)
        BY <1>1, <1>3, SMTT(60)
  <2>3. RankIn(z, m) = 2 * i + (IF m.kind = "reply" THEN 1 ELSE 0)
        BY <1>1, <1>2, <2>2, RankAt, ZenonT(60)
  <2>4. QED
        BY <1>1, <2>1, <2>2, <2>3
<1>4. ASSUME NEW m, m.no = no
      PROVE  RankIn(z, m) = 2 * (Len(s) + 1) + (IF m.kind = "reply" THEN 1 ELSE 0)
  <2>1. PICK i \in DOMAIN z : i = Len(s) + 1 /\ z[i] = m.no
        BY <1>1, <1>4, SMTT(60)
  <2>2. RankIn(z, m) = 2 * i + (IF m.kind = "reply" THEN 1 ELSE 0)
        BY <1>1, <1>2, <2>1, RankAt, ZenonT(60)
  <2>3. QED
        BY <2>1, <2>2
<1>5. QED
      BY <1>3, <1>4 DEF z

-----------------------------------------------------------------------------
(* Then: the answers stay in line.                                           *)
Working == {"answer", "push", "full"}

(* A step that brings no answer to another place, though it may drop one.    *)
LEMMA LineQuietly ==
  ASSUME Line, taken' = taken, delivered' = delivered, queue'["out"] = queue["out"], todo' = todo,
         pc'["dispatch"] = "got" => pc["dispatch"] = "got" /\ hold'["dispatch"] = hold["dispatch"],
         pc'["agent"] \in {"push", "full"} =>
           pc["agent"] \in {"push", "full"} /\ hold'["agent"] = hold["agent"],
         pc'["agent"] \in Working \/ todo = <<>>,
         \A t \in Notifiers : hold'[t].kind \in {"notice", "none"}
  PROVE  Line'
<1>1. Delivered' = Delivered /\ Queued' = Queued /\ ToPush' = ToPush
      BY DEF Delivered, Queued, ToPush
<1>2. Delivering' \subseteq Delivering /\ Pushing' \subseteq Pushing
      BY DEF Delivering, Pushing
<1>3. Sorted(delivered)' /\ Sorted(queue["out"])' /\ Sorted(todo)'
      BY DEF Line, Sorted
<1>4. Known(Delivered \cup Delivering \cup Queued \cup Pushing \cup ToPush)'
      BY <1>1, <1>2 DEF Line, Known
<1>5. /\ Before(Delivered, Delivering \cup Queued \cup Pushing \cup ToPush)'
      /\ Before(Delivering, Queued \cup Pushing \cup ToPush)'
      /\ Before(Queued, Pushing \cup ToPush)'
      /\ Before(Pushing, ToPush)'
      BY <1>1, <1>2 DEF Line, Before
<1>6. QED
      BY <1>3, <1>4, <1>5 DEF Line, Working

(* The agent's message in hand joins the queue behind what it pushed before. *)
LEMMA LineOnPush ==
  ASSUME TypeInv, Line, Push("agent"), Len(queue["out"]) < Length
  PROVE  Line'
<1>1. /\ "agent" \in Threads /\ "dispatch" \in Threads /\ "agent" # "dispatch"
      /\ "agent" \notin Notifiers /\ "agent" \in Pushers("out") /\ "out" \in Queues
      /\ Target("agent") = "out" /\ Consumer["out"] = "dispatch"
      /\ AfterPush("agent") = "answer" /\ "answer" \in Labels
      /\ \A t \in Notifiers : t \in Threads
      BY ThreadFacts, PushersFacts DEF Queues, AfterPush, Labels, Threads
<1> DEFINE s == queue["out"]
           m == hold["agent"]
<1>2. /\ pc["agent"] = "push" /\ taken' = taken /\ delivered' = delivered /\ todo' = todo
      /\ queue' = [queue EXCEPT !["out"] = Append(@, m)]
      /\ hold' = [hold EXCEPT !["agent"] = None]
      /\ SignalNotEmpty("agent", "out", "answer")
      BY <1>1 DEF Push, past, agent
<1>3. queue'["out"] = Append(s, m)
      BY <1>1, <1>2 DEF TypeInv, TypeOK
<1>4. /\ pc'["agent"] = "answer"
      /\ pc'["dispatch"] = "got" => pc["dispatch"] = "got"
      BY <1>1, <1>2, SignalsNotEmpty DEF TypeInv
<1>5. \A u \in Threads \ {"agent"} : hold'[u] = hold[u]
      BY <1>2 DEF TypeInv, TypeOK
<1>6. s \in Seq(Message) /\ m \in Message
      BY <1>1, <1>2, NumberTypes DEF TypeInv, Hands
<1>7. /\ DOMAIN Append(s, m) = 1..(Len(s) + 1) /\ Len(s) \in Nat /\ DOMAIN s = 1..Len(s)
      /\ \A i \in 1..Len(s) : Append(s, m)[i] = s[i]
      /\ Append(s, m)[Len(s) + 1] = m
      BY <1>6
<1>8. Pushing = {m} /\ m.kind # "notice"
      BY <1>2 DEF Line, Known, Pushing
<1> HIDE DEF s, m
<1>9. Queued' \subseteq Queued \cup {m}
      BY <1>3, <1>7 DEF Queued, s
<1>10. Delivered' = Delivered /\ ToPush' = ToPush /\ Pushing' = {} /\ Delivering' \subseteq Delivering
       BY <1>1, <1>2, <1>4, <1>5 DEF Delivered, ToPush, Pushing, Delivering
<1>11. Sorted(queue["out"])'
  <2>1. ASSUME NEW i \in 1..(Len(s) + 1), NEW j \in 1..(Len(s) + 1), i < j,
               queue'["out"][i].kind # "notice", queue'["out"][j].kind # "notice"
        PROVE  RankIn(taken, queue'["out"][i]) < RankIn(taken, queue'["out"][j])
    <3>1. i \in 1..Len(s) /\ queue'["out"][i] = s[i]
          BY <1>3, <1>7, <2>1
    <3>2. CASE j \in 1..Len(s)
      <4>1. queue'["out"][j] = s[j]
            BY <1>3, <1>7, <3>2
      <4>2. QED
            BY <1>7, <2>1, <3>1, <3>2, <4>1 DEF Line, Sorted, s
    <3>3. CASE j \notin 1..Len(s)
      <4>1. j = Len(s) + 1 /\ queue'["out"][j] = m
            BY <1>3, <1>7, <2>1, <3>3
      <4>2. s[i] \in Queued
            BY <1>7, <2>1, <3>1 DEF Queued, s
      <4>3. QED
            BY <1>8, <3>1, <4>1, <4>2 DEF Line, Before
    <3>4. QED
          BY <3>2, <3>3
  <2>2. QED
        BY <1>2, <1>3, <1>7, <2>1 DEF Sorted
<1>12. Sorted(delivered)' /\ Sorted(todo)'
       BY <1>2 DEF Line, Sorted
<1>13. Known(Delivered \cup Delivering \cup Queued \cup Pushing \cup ToPush)'
       BY <1>2, <1>8, <1>9, <1>10 DEF Line, Known
<1>14. /\ Before(Delivered, Delivering \cup Queued \cup Pushing \cup ToPush)'
       /\ Before(Delivering, Queued \cup Pushing \cup ToPush)'
       /\ Before(Queued, Pushing \cup ToPush)'
       /\ Before(Pushing, ToPush)'
       BY <1>2, <1>8, <1>9, <1>10 DEF Line, Before
<1>15. \A t \in Notifiers : hold'[t].kind \in {"notice", "none"}
       BY <1>1, <1>5 DEF Line
<1>16. QED
       BY <1>4, <1>11, <1>12, <1>13, <1>14, <1>15 DEF Line

(* A notice takes a place between the answers.                               *)
LEMMA LineOnNotice ==
  ASSUME TypeInv, Line, NEW t \in Notifiers, Push(t), Len(queue["out"]) < Length
  PROVE  Line'
<1>1. /\ t \in Threads /\ "agent" \in Threads /\ "dispatch" \in Threads
      /\ t # "agent" /\ t # "dispatch" /\ "agent" # "dispatch"
      /\ t \in Pushers("out") /\ "out" \in Queues
      /\ Target(t) = "out" /\ Consumer["out"] = "dispatch"
      /\ AfterPush(t) = "idle" /\ "idle" \in Labels /\ \A u \in Notifiers : u \in Threads
      BY ThreadFacts, PushersFacts DEF Queues, AfterPush, Labels, Threads
<1> DEFINE s == queue["out"]
           m == hold[t]
<1>2. /\ pc[t] = "push" /\ taken' = taken /\ delivered' = delivered /\ todo' = todo
      /\ queue' = [queue EXCEPT !["out"] = Append(@, m)]
      /\ hold' = [hold EXCEPT ![t] = None]
      /\ SignalNotEmpty(t, "out", "idle")
      BY <1>1 DEF Push, past, agent
<1>3. queue'["out"] = Append(s, m)
      BY <1>1, <1>2 DEF TypeInv, TypeOK
<1>4. /\ pc'["agent"] = pc["agent"]
      /\ pc'["dispatch"] = "got" => pc["dispatch"] = "got"
      BY <1>1, <1>2, SignalsNotEmpty DEF TypeInv
<1>5. hold'[t] = None /\ \A u \in Threads \ {t} : hold'[u] = hold[u]
      BY <1>1, <1>2 DEF TypeInv, TypeOK
<1>6. s \in Seq(Message) /\ m \in Message /\ m.kind = "notice"
  <2>1. s \in Seq(Message) /\ m \in Message
        BY <1>1, <1>2, NumberTypes DEF TypeInv, Hands
  <2>2. QED
        BY <2>1 DEF Line, Message
<1>7. /\ DOMAIN Append(s, m) = 1..(Len(s) + 1) /\ Len(s) \in Nat /\ DOMAIN s = 1..Len(s)
      /\ \A i \in 1..Len(s) : Append(s, m)[i] = s[i]
      /\ Append(s, m)[Len(s) + 1] = m
      BY <1>6
<1> HIDE DEF s, m
<1>8. Queued' \subseteq Queued
      BY <1>3, <1>6, <1>7 DEF Queued, s
<1>9. /\ Delivered' = Delivered /\ ToPush' = ToPush /\ Pushing' = Pushing
      /\ Delivering' \subseteq Delivering
      BY <1>1, <1>2, <1>4, <1>5 DEF Delivered, ToPush, Pushing, Delivering
<1>10. Sorted(queue["out"])'
  <2>1. ASSUME NEW i \in 1..(Len(s) + 1), NEW j \in 1..(Len(s) + 1), i < j,
               queue'["out"][i].kind # "notice", queue'["out"][j].kind # "notice"
        PROVE  RankIn(taken, queue'["out"][i]) < RankIn(taken, queue'["out"][j])
    <3>1. i # Len(s) + 1 /\ j # Len(s) + 1
          BY <1>3, <1>6, <1>7, <2>1
    <3>2. i \in 1..Len(s) /\ j \in 1..Len(s)
          BY <1>7, <3>1
    <3>3. queue'["out"][i] = s[i] /\ queue'["out"][j] = s[j]
          BY <1>3, <1>7, <3>2
    <3>4. QED
          BY <1>7, <2>1, <3>2, <3>3 DEF Line, Sorted, s
  <2>2. QED
        BY <1>2, <1>3, <1>7, <2>1 DEF Sorted
<1>11. Sorted(delivered)' /\ Sorted(todo)'
       BY <1>2 DEF Line, Sorted
<1>12. Known(Delivered \cup Delivering \cup Queued \cup Pushing \cup ToPush)'
       BY <1>2, <1>8, <1>9 DEF Line, Known
<1>13. /\ Before(Delivered, Delivering \cup Queued \cup Pushing \cup ToPush)'
       /\ Before(Delivering, Queued \cup Pushing \cup ToPush)'
       /\ Before(Queued, Pushing \cup ToPush)'
       /\ Before(Pushing, ToPush)'
       BY <1>2, <1>8, <1>9 DEF Line, Before
<1>14. \A u \in Notifiers : hold'[u].kind \in {"notice", "none"}
       BY <1>1, <1>5 DEF Line, None
<1>15. QED
       BY <1>2, <1>4, <1>10, <1>11, <1>12, <1>13, <1>14 DEF Line

(* The first message of the queue passes into the dispatcher's hands.        *)
LEMMA LineOnPop ==
  ASSUME TypeInv, Line, Pop("dispatch", "out"), queue["out"] # <<>>
  PROVE  Line'
<1>1. /\ "agent" \in Threads /\ "dispatch" \in Threads /\ "agent" # "dispatch"
      /\ "out" \in Queues /\ Consumer["out"] = "dispatch" /\ "dispatch" \notin Notifiers
      /\ "got" \in Labels /\ \A u \in Notifiers : u \in Threads
      BY ThreadFacts DEF Queues, Labels, Threads
<1> DEFINE s == queue["out"]
<1>2. /\ pc["dispatch"] = "pop" /\ taken' = taken /\ delivered' = delivered /\ todo' = todo
      /\ hold' = [hold EXCEPT !["dispatch"] = Head(s)]
      /\ queue' = [queue EXCEPT !["out"] = Tail(@)]
      /\ SignalNotFull("dispatch", "out", "got")
      BY DEF Pop, past, agent
<1>3. queue'["out"] = Tail(s)
      BY <1>1, <1>2 DEF TypeInv, TypeOK
<1>4. /\ pc'["dispatch"] = "got"
      /\ \A u \in Threads \ {"dispatch"} : pc'[u] = pc[u] \/ (pc[u] = "full" /\ pc'[u] = "push")
      BY <1>1, <1>2, SignalsNotFull DEF TypeInv
<1>5. hold'["dispatch"] = Head(s) /\ \A u \in Threads \ {"dispatch"} : hold'[u] = hold[u]
      BY <1>1, <1>2 DEF TypeInv, TypeOK
<1>6. s \in Seq(Message) /\ s # <<>>
      BY NumberTypes
<1>7. /\ DOMAIN s = 1..Len(s) /\ Len(s) \in Nat /\ Len(s) >= 1 /\ Head(s) = s[1] /\ 1 \in 1..Len(s)
      /\ DOMAIN Tail(s) = 1..(Len(s) - 1)
      /\ \A i \in 1..(Len(s) - 1) : Tail(s)[i] = s[i + 1] /\ i + 1 \in 1..Len(s) /\ 1 < i + 1
      BY <1>6
<1> HIDE DEF s
<1>8. Delivering = {} /\ Delivering' \subseteq Queued
  <2>1. Delivering = {}
        BY <1>2 DEF Delivering
  <2>2. Delivering' \subseteq {m \in {s[1]} : m.kind # "notice"}
        BY <1>5, <1>7 DEF Delivering
  <2>3. QED
        BY <1>7, <2>1, <2>2 DEF Queued, s
<1>9. Queued' \subseteq Queued
      BY <1>3, <1>7 DEF Queued, s
<1>10. Delivered' = Delivered /\ ToPush' = ToPush /\ Pushing' = Pushing
       BY <1>1, <1>2, <1>4, <1>5 DEF Delivered, ToPush, Pushing
<1>11. Before(Delivering, Queued)'
  <2>1. ASSUME NEW a \in Delivering', NEW b \in Queued'
        PROVE  RankIn(taken, a) < RankIn(taken, b)
    <3>1. a = s[1] /\ a.kind # "notice"
          BY <1>5, <1>7 DEF Delivering
    <3>2. PICK i \in 1..(Len(s) - 1) : b = s[i + 1] /\ b.kind # "notice"
          BY <1>3, <1>7 DEF Queued
    <3>3. QED
          BY <1>7, <3>1, <3>2 DEF Line, Sorted, s
  <2>2. QED
        BY <1>2, <2>1 DEF Before
<1>12. Sorted(queue["out"])'
  <2>1. ASSUME NEW i \in 1..(Len(s) - 1), NEW j \in 1..(Len(s) - 1), i < j,
               Tail(s)[i].kind # "notice", Tail(s)[j].kind # "notice"
        PROVE  RankIn(taken, Tail(s)[i]) < RankIn(taken, Tail(s)[j])
    <3>1. i + 1 < j + 1
          BY <2>1
    <3>2. QED
          BY <1>7, <2>1, <3>1 DEF Line, Sorted, s
  <2>2. QED
        BY <1>2, <1>3, <1>7, <2>1 DEF Sorted
<1>13. Sorted(delivered)' /\ Sorted(todo)'
       BY <1>2 DEF Line, Sorted
<1>14. Known(Delivered \cup Delivering \cup Queued \cup Pushing \cup ToPush)'
       BY <1>2, <1>8, <1>9, <1>10 DEF Line, Known
<1>15. /\ Before(Delivered, Delivering \cup Queued \cup Pushing \cup ToPush)'
       /\ Before(Delivering, Queued \cup Pushing \cup ToPush)'
       /\ Before(Queued, Pushing \cup ToPush)'
       /\ Before(Pushing, ToPush)'
       BY <1>2, <1>8, <1>9, <1>10, <1>11 DEF Line, Before
<1>16. \A u \in Notifiers : hold'[u].kind \in {"notice", "none"}
       BY <1>1, <1>5 DEF Line
<1>17. pc'["agent"] \in Working \/ todo' = <<>>
       BY <1>1, <1>2, <1>4 DEF Line, Working
<1>18. QED
       BY <1>12, <1>13, <1>14, <1>15, <1>16, <1>17 DEF Line, Working

(* The dispatcher delivers the message in its hands, or drops it.            *)
LEMMA LineOnDeliver ==
  ASSUME TypeInv, Line, Deliver
  PROVE  Line'
<1>1. /\ "agent" \in Threads /\ "dispatch" \in Threads /\ "agent" # "dispatch"
      /\ "dispatch" \notin Notifiers /\ "top" \in Labels /\ \A u \in Notifiers : u \in Threads
      BY ThreadFacts DEF Labels, Threads
<1> DEFINE m == hold["dispatch"]
<1>2. /\ pc["dispatch"] = "got" /\ taken' = taken /\ todo' = todo /\ queue' = queue
      /\ hold' = [hold EXCEPT !["dispatch"] = None] /\ Goto("dispatch", "top")
      /\ delivered' = IF m.kind = "notice" THEN delivered ELSE Append(delivered, m)
      BY DEF Deliver, agent
<1>3. m \in Message /\ delivered \in Seq(Message)
      BY <1>1, <1>2 DEF TypeInv, TypeOK, Hands
<1>4. pc'["dispatch"] = "top" /\ \A u \in Threads \ {"dispatch"} : pc'[u] = pc[u]
      BY <1>1, <1>2, MoveOne DEF TypeInv
<1>5. \A u \in Threads \ {"dispatch"} : hold'[u] = hold[u]
      BY <1>2 DEF TypeInv, TypeOK
<1>6. Delivering' = {} /\ Queued' = Queued /\ ToPush' = ToPush /\ Pushing' = Pushing
      BY <1>1, <1>2, <1>4, <1>5 DEF Delivering, Queued, ToPush, Pushing
<1>7. \A u \in Notifiers : hold'[u].kind \in {"notice", "none"}
      BY <1>1, <1>5 DEF Line
<1>8. Sorted(queue["out"])' /\ Sorted(todo)'
      BY <1>2 DEF Line, Sorted
<1>9. CASE m.kind = "notice"
  <2>1. delivered' = delivered /\ Delivered' = Delivered /\ Sorted(delivered)'
        BY <1>2, <1>9 DEF Delivered, Line, Sorted
  <2>2. Known(Delivered \cup Delivering \cup Queued \cup Pushing \cup ToPush)'
        BY <1>2, <1>6, <2>1 DEF Line, Known
  <2>3. /\ Before(Delivered, Delivering \cup Queued \cup Pushing \cup ToPush)'
        /\ Before(Delivering, Queued \cup Pushing \cup ToPush)'
        /\ Before(Queued, Pushing \cup ToPush)'
        /\ Before(Pushing, ToPush)'
        BY <1>2, <1>6, <2>1 DEF Line, Before
  <2>4. QED
        BY <1>1, <1>2, <1>4, <1>7, <1>8, <2>1, <2>2, <2>3 DEF Line
<1>10. CASE m.kind # "notice"
  <2> DEFINE d == delivered
  <2>1. /\ DOMAIN Append(d, m) = 1..(Len(d) + 1) /\ Len(d) \in Nat /\ DOMAIN d = 1..Len(d)
        /\ \A i \in 1..Len(d) : Append(d, m)[i] = d[i]
        /\ Append(d, m)[Len(d) + 1] = m
        BY <1>3
  <2>2. delivered' = Append(d, m) /\ Delivering = {m}
        BY <1>2, <1>10 DEF Delivering
  <2> HIDE DEF d, m
  <2>3. Delivered' \subseteq Delivered \cup Delivering
        BY <2>1, <2>2 DEF Delivered, d
  <2>4. Sorted(delivered)'
    <3>1. ASSUME NEW i \in 1..(Len(d) + 1), NEW j \in 1..(Len(d) + 1), i < j,
                 delivered'[i].kind # "notice", delivered'[j].kind # "notice"
          PROVE  RankIn(taken, delivered'[i]) < RankIn(taken, delivered'[j])
      <4>1. i \in 1..Len(d) /\ delivered'[i] = d[i] /\ d[i] \in Delivered
            BY <2>1, <2>2, <3>1 DEF Delivered, d
      <4>2. CASE j \in 1..Len(d)
            BY <2>1, <2>2, <3>1, <4>1, <4>2 DEF Line, Sorted, d
      <4>3. CASE j \notin 1..Len(d)
        <5>1. j = Len(d) + 1 /\ delivered'[j] = m
              BY <2>1, <2>2, <3>1, <4>3
        <5>2. QED
              BY <2>2, <4>1, <5>1 DEF Line, Before
      <4>4. QED
            BY <4>2, <4>3
    <3>2. QED
          BY <1>2, <2>1, <2>2, <3>1 DEF Sorted
  <2>5. Known(Delivered \cup Delivering \cup Queued \cup Pushing \cup ToPush)'
        BY <1>2, <1>6, <2>3 DEF Line, Known
  <2>6. /\ Before(Delivered, Delivering \cup Queued \cup Pushing \cup ToPush)'
        /\ Before(Delivering, Queued \cup Pushing \cup ToPush)'
        /\ Before(Queued, Pushing \cup ToPush)'
        /\ Before(Pushing, ToPush)'
        BY <1>2, <1>6, <2>3 DEF Line, Before
  <2>7. QED
        BY <1>1, <1>2, <1>4, <1>7, <1>8, <2>4, <2>5, <2>6 DEF Line
<1>11. QED
       BY <1>9, <1>10

(* The agent picks the next message it has to push.                          *)
LEMMA LineOnAnswers ==
  ASSUME TypeInv, Line, AgentAnswers
  PROVE  Line'
<1>1. /\ "agent" \in Threads /\ "dispatch" \in Threads /\ "agent" # "dispatch"
      /\ "agent" \notin Notifiers /\ "push" \in Labels /\ \A u \in Notifiers : u \in Threads
      BY ThreadFacts DEF Labels, Threads
<1>2. /\ pc["agent"] = "answer" /\ taken' = taken /\ delivered' = delivered /\ queue' = queue
      /\ hold' = [hold EXCEPT !["agent"] = Head(todo)] /\ Goto("agent", "push")
      /\ todo' = Tail(todo) /\ todo # <<>>
      BY DEF AgentAnswers, past
<1>3. pc'["agent"] = "push" /\ \A u \in Threads \ {"agent"} : pc'[u] = pc[u]
      BY <1>1, <1>2, MoveOne DEF TypeInv
<1>4. hold'["agent"] = Head(todo) /\ \A u \in Threads \ {"agent"} : hold'[u] = hold[u]
      BY <1>1, <1>2 DEF TypeInv, TypeOK
<1>5. todo \in Seq(Message)
      BY DEF TypeInv, TypeOK
<1>6. /\ DOMAIN todo = 1..Len(todo) /\ Len(todo) \in Nat /\ Head(todo) = todo[1]
      /\ 1 \in 1..Len(todo) /\ DOMAIN Tail(todo) = 1..(Len(todo) - 1)
      /\ \A i \in 1..(Len(todo) - 1) :
           Tail(todo)[i] = todo[i + 1] /\ i + 1 \in 1..Len(todo) /\ 1 < i + 1
      BY <1>2, <1>5
<1>7. /\ Delivered' = Delivered /\ Delivering' = Delivering /\ Queued' = Queued
      /\ Pushing = {} /\ Pushing' = {todo[1]} /\ Pushing' \subseteq ToPush
      BY <1>1, <1>2, <1>3, <1>4, <1>6 DEF Delivered, Delivering, Queued, Pushing, ToPush
<1>8. ToPush' \subseteq ToPush
      BY <1>2, <1>6 DEF ToPush
<1>9. \A i \in DOMAIN todo : todo[i].kind # "notice"
      BY DEF Line, Known, ToPush
<1>10. Before(Pushing, ToPush)'
  <2>1. ASSUME NEW b \in ToPush'
        PROVE  RankIn(taken, todo[1]) < RankIn(taken, b)
    <3>1. PICK i \in 1..(Len(todo) - 1) : b = todo[i + 1]
          BY <1>2, <1>6 DEF ToPush
    <3>2. QED
          BY <1>6, <1>9, <3>1 DEF Line, Sorted
  <2>2. QED
        BY <1>2, <1>7, <2>1 DEF Before
<1>11. Sorted(todo)'
  <2>1. ASSUME NEW i \in 1..(Len(todo) - 1), NEW j \in 1..(Len(todo) - 1), i < j
        PROVE  RankIn(taken, Tail(todo)[i]) < RankIn(taken, Tail(todo)[j])
    <3>1. i + 1 < j + 1
          BY <2>1
    <3>2. QED
          BY <1>6, <1>9, <2>1, <3>1 DEF Line, Sorted
  <2>2. QED
        BY <1>2, <1>6, <2>1 DEF Sorted
<1>12. Sorted(delivered)' /\ Sorted(queue["out"])'
       BY <1>2 DEF Line, Sorted
<1>13. Known(Delivered \cup Delivering \cup Queued \cup Pushing \cup ToPush)'
       BY <1>2, <1>7, <1>8 DEF Line, Known
<1>14. /\ Before(Delivered, Delivering \cup Queued \cup Pushing \cup ToPush)'
       /\ Before(Delivering, Queued \cup Pushing \cup ToPush)'
       /\ Before(Queued, Pushing \cup ToPush)'
       BY <1>2, <1>7, <1>8 DEF Line, Before
<1>15. \A u \in Notifiers : hold'[u].kind \in {"notice", "none"}
       BY <1>1, <1>4 DEF Line
<1>16. QED
       BY <1>3, <1>10, <1>11, <1>12, <1>13, <1>14, <1>15 DEF Line

(* The agent takes a request only when it has nothing left to push, and what *)
(* it says about the new one ranks above all that came before.               *)
LEMMA LineOnTake ==
  ASSUME TypeInv, Numbers, Line, AgentTakes
  PROVE  Line'
<1> DEFINE no == hold["agent"].no
           old == Delivered \cup Delivering \cup Queued
<1>1. /\ "agent" \in Threads /\ "dispatch" \in Threads /\ "agent" # "dispatch"
      /\ "agent" \notin Notifiers /\ "answer" \in Labels /\ \A u \in Notifiers : u \in Threads
      BY ThreadFacts DEF Labels, Threads
<1>2. /\ pc["agent"] = "got" /\ taken' = Append(taken, no) /\ delivered' = delivered
      /\ queue' = queue /\ hold' = [hold EXCEPT !["agent"] = None] /\ Goto("agent", "answer")
      /\ todo' \in Answers(no)
      BY DEF AgentTakes
<1>3. pc'["agent"] = "answer" /\ \A u \in Threads \ {"agent"} : pc'[u] = pc[u]
      BY <1>1, <1>2, MoveOne DEF TypeInv
<1>4. \A u \in Threads \ {"agent"} : hold'[u] = hold[u]
      BY <1>2 DEF TypeInv, TypeOK
<1>5. /\ no \in Nat /\ taken \in Seq(Nat) /\ \A i \in DOMAIN taken : taken[i] # no
      /\ \A i, j \in DOMAIN taken : taken[i] = taken[j] => i = j
      BY <1>2, NumberTypes DEF Numbers, Apart, New
<1>6. no \in 1..MaxMessages
      BY <1>1, <1>2 DEF TypeInv, Hands, Message
<1> HIDE DEF no
<1>7. /\ \A m : (\E i \in DOMAIN taken : taken[i] = m.no) =>
                  /\ RankIn(taken, m) \in Nat /\ RankIn(taken, m) < 2 * (Len(taken) + 1)
                  /\ RankIn(taken', m) = RankIn(taken, m)
      /\ \A m : m.no = no =>
            RankIn(taken', m) = 2 * (Len(taken) + 1) + (IF m.kind = "reply" THEN 1 ELSE 0)
      BY <1>2, <1>5, RankKept
<1>8. /\ DOMAIN taken' = 1..(Len(taken) + 1) /\ Len(taken) \in Nat
      /\ DOMAIN taken = 1..Len(taken)
      /\ \A i \in DOMAIN taken : taken'[i] = taken[i]
      /\ taken'[Len(taken) + 1] = no
      BY <1>2, <1>5
<1>9. /\ Delivered' = Delivered /\ Delivering' = Delivering /\ Queued' = Queued
      /\ Pushing' = {}
      BY <1>1, <1>2, <1>3, <1>4 DEF Delivered, Delivering, Queued, Pushing
<1>10. \A m \in old : /\ RankIn(taken', m) = RankIn(taken, m) /\ RankIn(taken, m) \in Nat
                      /\ RankIn(taken', m) < 2 * (Len(taken) + 1)
                      /\ m \in Message /\ m.kind # "notice"
                      /\ \E i \in DOMAIN taken : taken[i] = m.no
       BY <1>7 DEF Line, Known
<1> DEFINE status == [kind |-> "status", no |-> no]
           reply == [kind |-> "reply", no |-> no]
<1>11. /\ status \in Message /\ reply \in Message
       /\ status.kind = "status" /\ reply.kind = "reply" /\ status.no = no /\ reply.no = no
       BY <1>6 DEF Message
<1>12. todo' \in {<<>>, <<reply>>, <<status, reply>>}
       BY <1>2 DEF Answers
<1> HIDE DEF status, reply
<1>13. /\ RankIn(taken', status) = 2 * (Len(taken) + 1)
       /\ RankIn(taken', reply) = 2 * (Len(taken) + 1) + 1
       BY <1>7, <1>11
<1>14. ToPush' \subseteq {status, reply}
  <2>1. \A i \in DOMAIN todo' : todo'[i] \in {status, reply}
        BY <1>12
  <2>2. QED
        BY <2>1 DEF ToPush
<1>15. Sorted(todo)'
  <2>1. ASSUME NEW i \in DOMAIN todo', NEW j \in DOMAIN todo', i < j
        PROVE  todo'[i] = status /\ todo'[j] = reply
        BY <1>12, <2>1
  <2>2. ASSUME NEW i \in DOMAIN todo', NEW j \in DOMAIN todo', i < j
        PROVE  RankIn(taken', todo'[i]) < RankIn(taken', todo'[j])
        BY <1>8, <1>13, <2>1, <2>2
  <2>3. QED
        BY <2>2 DEF Sorted
<1>16. Sorted(delivered)'
  <2>1. \A i \in DOMAIN delivered : delivered[i] \in old
        BY DEF Delivered
  <2>2. \A i \in DOMAIN delivered : RankIn(taken', delivered[i]) = RankIn(taken, delivered[i])
        BY <1>10, <2>1
  <2>3. QED
        BY <1>2, <2>2 DEF Line, Sorted
<1>17. Sorted(queue["out"])'
  <2>1. \A i \in DOMAIN queue["out"] : queue["out"][i].kind # "notice" => queue["out"][i] \in old
        BY DEF Queued
  <2>2. \A i \in DOMAIN queue["out"] : queue["out"][i].kind # "notice" =>
          RankIn(taken', queue["out"][i]) = RankIn(taken, queue["out"][i])
        BY <1>10, <2>1
  <2>3. QED
        BY <1>2, <2>2 DEF Line, Sorted
<1>18. Known(Delivered \cup Delivering \cup Queued \cup Pushing \cup ToPush)'
  <2>1. \A m \in {status, reply} :
          m \in Message /\ m.kind # "notice" /\ \E i \in DOMAIN taken' : taken'[i] = m.no
        BY <1>8, <1>11
  <2>2. \A m \in old : m \in Message /\ m.kind # "notice" /\ \E i \in DOMAIN taken' : taken'[i] = m.no
        BY <1>8, <1>10
  <2>3. QED
        BY <1>9, <1>14, <2>1, <2>2 DEF Known
<1>19. Before(old, ToPush)'
  <2>1. \A a \in old, b \in {status, reply} : RankIn(taken', a) < RankIn(taken', b)
        BY <1>8, <1>10, <1>13
  <2>2. QED
        BY <1>9, <1>14, <2>1 DEF Before
<1>20. Before(Delivered, Delivering \cup Queued)' /\ Before(Delivering, Queued)'
  <2>1. \A a \in Delivered, b \in Delivering \cup Queued : RankIn(taken, a) < RankIn(taken, b)
        BY DEF Line, Before
  <2>2. \A a \in Delivering, b \in Queued : RankIn(taken, a) < RankIn(taken, b)
        BY DEF Line, Before
  <2>3. QED
        BY <1>9, <1>10, <2>1, <2>2 DEF Before
<1>21. /\ Before(Delivered, Delivering \cup Queued \cup Pushing \cup ToPush)'
       /\ Before(Delivering, Queued \cup Pushing \cup ToPush)'
       /\ Before(Queued, Pushing \cup ToPush)'
       /\ Before(Pushing, ToPush)'
       BY <1>9, <1>19, <1>20 DEF Before
<1>22. \A u \in Notifiers : hold'[u].kind \in {"notice", "none"}
       BY <1>1, <1>4 DEF Line
<1>23. QED
       BY <1>3, <1>15, <1>16, <1>17, <1>18, <1>21, <1>22 DEF Line

(* No step lets an answer overtake another.                                  *)
LEMMA LineForever ==
  ASSUME TypeInv, Numbers, Line, [Next]_vars
  PROVE  Line'
<1>0. /\ pc \in [Threads -> Labels] /\ "agent" \in Threads /\ "dispatch" \in Threads
      /\ "agent" \notin Sources \cup Notifiers /\ "dispatch" \notin Sources \cup Notifiers
      /\ "agent" # "dispatch" /\ \A u \in Notifiers : u \in Threads /\ u \notin Sources
      /\ hold \in [Threads -> Message \cup {None}] /\ None.kind = "none"
      BY ThreadFacts, MessageBusAssumption DEF TypeInv, TypeOK, Labels, Threads, None
<1>1. ASSUME NEW t \in Threads, NEW label \in Labels, Goto(t, label),
             taken' = taken, delivered' = delivered, queue'["out"] = queue["out"], todo' = todo,
             \A u \in Threads \ {t} : hold'[u] = hold[u],
             t \in Notifiers => hold'[t].kind \in {"notice", "none"},
             t = "dispatch" => label # "got",
             t = "agent" => /\ label \in {"push", "full"} =>
                                 pc["agent"] \in {"push", "full"} /\ hold'["agent"] = hold["agent"]
                            /\ label \in Working \/ todo = <<>>
      PROVE  Line'
  <2>1. pc'[t] = label /\ \A u \in Threads \ {t} : pc'[u] = pc[u]
        BY <1>1, MoveOne DEF TypeInv
  <2>2. pc'["dispatch"] = "got" => pc["dispatch"] = "got" /\ hold'["dispatch"] = hold["dispatch"]
        BY <1>0, <1>1, <2>1
  <2>3. pc'["agent"] \in {"push", "full"} =>
          pc["agent"] \in {"push", "full"} /\ hold'["agent"] = hold["agent"]
        BY <1>0, <1>1, <2>1
  <2>4. pc'["agent"] \in Working \/ todo = <<>>
        BY <1>0, <1>1, <2>1 DEF Line, Working
  <2>5. \A u \in Notifiers : hold'[u].kind \in {"notice", "none"}
        BY <1>0, <1>1 DEF Line
  <2>6. QED
        BY <1>1, <2>2, <2>3, <2>4, <2>5, LineQuietly
<1>2. ASSUME NEW t \in Sources \cup Notifiers, NEW kind \in {"request", "notice"}, Make(t, kind),
             kind = (IF t \in Sources THEN "request" ELSE "notice")
      PROVE  Line'
  <2>1. /\ t \in Threads /\ t # "agent" /\ t # "dispatch" /\ Goto(t, "push") /\ "push" \in Labels
        /\ taken' = taken /\ queue' = queue /\ delivered' = delivered /\ todo' = todo
        /\ \A u \in Threads \ {t} : hold'[u] = hold[u]
        BY <1>0, <1>2 DEF Make, Threads, agent, Labels
  <2>2. t \in Notifiers => hold'[t].kind = "notice"
        BY <1>0, <1>2, <2>1 DEF Make
  <2>3. QED
        BY <1>1, <2>1, <2>2
<1>3. ASSUME NEW t \in Sources \cup Notifiers \cup {"agent"}, Push(t)
      PROVE  Line'
  <2>1. /\ t \in Threads /\ t # "dispatch" /\ pc[t] = "push" /\ taken' = taken
        /\ delivered' = delivered /\ todo' = todo
        /\ \A u \in Threads \ {t} : hold'[u] = hold[u]
        BY <1>0, <1>3, PusherFacts DEF Push, past, agent
  <2>2. CASE ~(Len(queue[Target(t)]) < Length)
    <3>1. Goto(t, "full") /\ queue' = queue /\ hold' = hold /\ "full" \in Labels
          BY <1>3, <2>2 DEF Push, Labels
    <3>2. t \in Notifiers => hold'[t].kind \in {"notice", "none"}
          BY <3>1 DEF Line
    <3>3. QED
          BY <1>1, <2>1, <3>1, <3>2 DEF Working
  <2>3. CASE Len(queue[Target(t)]) < Length /\ t = "agent"
        BY <1>3, <2>3, LineOnPush, ThreadFacts
  <2>4. CASE Len(queue[Target(t)]) < Length /\ t \in Notifiers
        BY <1>3, <2>4, LineOnNotice, ThreadFacts
  <2>5. CASE Len(queue[Target(t)]) < Length /\ t \in Sources
    <3>1. /\ Target(t) = "in" /\ t \in Pushers("in") /\ "in" \in Queues /\ "idle" \in Labels
          /\ Consumer["in"] = "agent" /\ AfterPush(t) = "idle" /\ t # "agent"
          BY <1>0, <2>5, ThreadFacts, PushersFacts DEF Queues, Labels, AfterPush
    <3>2. /\ queue' = [queue EXCEPT !["in"] = Append(@, hold[t])]
          /\ SignalNotEmpty(t, "in", "idle")
          BY <1>3, <2>5, <3>1 DEF Push
    <3>3. queue'["out"] = queue["out"]
          BY <3>2 DEF TypeInv, TypeOK, Queues
    <3>4. /\ pc["agent"] = "empty" => pc'["agent"] = "pop"
          /\ pc["agent"] # "empty" => pc'["agent"] = pc["agent"]
          /\ pc'["dispatch"] = pc["dispatch"]
          BY <1>0, <2>1, <3>1, <3>2, SignalsNotEmpty DEF TypeInv
    <3>5. pc'["agent"] \in Working \/ todo = <<>>
          BY <3>4 DEF Line, Working
    <3>6. \A u \in Notifiers : hold'[u].kind \in {"notice", "none"}
          BY <1>0, <2>1, <2>5 DEF Line
    <3>7. hold'["agent"] = hold["agent"] /\ hold'["dispatch"] = hold["dispatch"]
          BY <1>0, <2>1, <3>1
    <3>8. QED
          BY <2>1, <3>3, <3>4, <3>5, <3>6, <3>7, LineQuietly
  <2>6. QED
        BY <2>2, <2>3, <2>4, <2>5
<1>4. ASSUME NEW t \in Threads, PushTimeout(t)
      PROVE  Line'
  <2>1. /\ taken' = taken /\ queue' = queue /\ delivered' = delivered /\ todo' = todo
        /\ hold' = [hold EXCEPT ![t] = None] /\ pc[t] = "full"
        BY <1>4 DEF PushTimeout, agent
  <2>2. PICK label \in {"answer", "idle"} : Goto(t, label) /\ (t = "agent" => label = "answer")
        BY <1>4 DEF PushTimeout, AfterPush
  <2>3. hold'[t] = None /\ \A u \in Threads \ {t} : hold'[u] = hold[u]
        BY <1>0, <2>1
  <2>4. label \in Labels /\ label # "got" /\ label \notin {"push", "full"}
        BY <2>2 DEF Labels
  <2>5. pc'[t] = label /\ \A u \in Threads \ {t} : pc'[u] = pc[u]
        BY <2>2, <2>4, MoveOne DEF TypeInv
  <2>6. pc'["dispatch"] = "got" => pc["dispatch"] = "got" /\ hold'["dispatch"] = hold["dispatch"]
        BY <1>0, <2>3, <2>4, <2>5
  <2>7. pc'["agent"] \in {"push", "full"} =>
          pc["agent"] \in {"push", "full"} /\ hold'["agent"] = hold["agent"]
        BY <1>0, <2>3, <2>4, <2>5
  <2>8. pc'["agent"] \in Working \/ todo = <<>>
        BY <1>0, <2>2, <2>5 DEF Line, Working
  <2>9. \A u \in Notifiers : hold'[u].kind \in {"notice", "none"}
        BY <1>0, <2>3 DEF Line
  <2>10. QED
        BY <2>1, <2>6, <2>7, <2>8, <2>9, LineQuietly
<1>5. ASSUME NEW t \in {"agent", "dispatch"}, Starts(t)
      PROVE  Line'
  <2>1. /\ taken' = taken /\ queue' = queue /\ delivered' = delivered /\ todo' = todo
        /\ hold' = hold /\ pc[t] \in {"top", "off"}
        BY <1>5 DEF Starts, AgentStarts, Top, past, agent
  <2>2. PICK label \in {"exit", "pop", "top"} : Goto(t, label)
        BY <1>5 DEF Starts, AgentStarts, Top
  <2>3. t = "agent" => todo = <<>>
        BY <2>1 DEF Line
  <2>4. QED
        BY <1>0, <1>1, <2>1, <2>2, <2>3 DEF Labels
<1>6. ASSUME Pop("agent", "in")
      PROVE  Line'
  <2>1. /\ pc["agent"] = "pop" /\ taken' = taken /\ delivered' = delivered /\ todo' = todo
        /\ todo = <<>>
        BY <1>6 DEF Pop, past, agent, Line
  <2>2. CASE queue["in"] # <<>>
    <3>1. /\ "in" \in Queues /\ Consumer["in"] = "agent" /\ Pushers("in") = Sources
          /\ "got" \in Labels
          BY ThreadFacts, PushersFacts DEF Queues, Labels
    <3>2. /\ queue' = [queue EXCEPT !["in"] = Tail(@)]
          /\ hold' = [hold EXCEPT !["agent"] = Head(queue["in"])]
          /\ SignalNotFull("agent", "in", "got")
          BY <1>6, <2>2 DEF Pop
    <3>3. queue'["out"] = queue["out"] /\ \A u \in Threads \ {"agent"} : hold'[u] = hold[u]
          BY <1>0, <3>2 DEF TypeInv, TypeOK, Queues
    <3>4. pc'["agent"] = "got" /\ pc'["dispatch"] = pc["dispatch"]
          BY <1>0, <2>1, <3>1, <3>2, SignalsNotFull DEF TypeInv
    <3>5. hold'["dispatch"] = hold["dispatch"]
          BY <1>0, <3>3
    <3>6. \A u \in Notifiers : hold'[u].kind \in {"notice", "none"}
          BY <1>0, <3>3 DEF Line
    <3>7. QED
          BY <2>1, <3>3, <3>4, <3>5, <3>6, LineQuietly
  <2>3. CASE queue["in"] = <<>>
    <3>1. queue' = queue /\ hold' = hold
          BY <1>6, <2>3 DEF Pop
    <3>2. PICK label \in {"top", "empty"} : Goto("agent", label)
          BY <1>6, <2>3 DEF Pop
    <3>3. QED
          BY <1>0, <1>1, <2>1, <3>1, <3>2 DEF Labels
  <2>4. QED
        BY <2>2, <2>3
<1>7. ASSUME Pop("dispatch", "out")
      PROVE  Line'
  <2>1. CASE queue["out"] # <<>>
        BY <1>7, <2>1, LineOnPop
  <2>2. CASE queue["out"] = <<>>
    <3>1. /\ taken' = taken /\ delivered' = delivered /\ todo' = todo
          /\ queue' = queue /\ hold' = hold
          BY <1>7, <2>2 DEF Pop, past, agent
    <3>2. PICK label \in {"top", "empty"} : Goto("dispatch", label)
          BY <1>7, <2>2 DEF Pop
    <3>3. QED
          BY <1>0, <1>1, <3>1, <3>2 DEF Labels
  <2>3. QED
        BY <2>1, <2>2
<1>8. CASE AgentQuits \/ AgentDone
  <2>1. /\ queue' = queue /\ taken' = taken /\ delivered' = delivered /\ todo' = todo
        /\ todo = <<>> /\ \A u \in Threads \ {"agent"} : hold'[u] = hold[u]
        BY <1>0, <1>8 DEF AgentQuits, AgentDone, agent, Line
  <2>2. PICK label \in {"exit", "top"} : Goto("agent", label)
        BY <1>8 DEF AgentQuits, AgentDone
  <2>3. QED
        BY <1>0, <1>1, <2>1, <2>2 DEF Labels
<1>9. CASE PopTimeout
  <2>1. /\ queue' = queue /\ taken' = taken /\ delivered' = delivered /\ todo' = todo
        /\ hold' = hold /\ Goto("dispatch", "top")
        BY <1>9 DEF PopTimeout, past, agent
  <2>2. QED
        BY <1>0, <1>1, <2>1 DEF Labels
<1>10. ASSUME NEW r \in Queues, NEW from, NEW to, Broadcast(r, from, to)
       PROVE  Line'
  <2>1. /\ queue' = queue /\ taken' = taken /\ delivered' = delivered /\ todo' = todo
        /\ hold' = hold
        /\ \A u \in Threads : pc'[u] = pc[u] \/ (pc[u] = "empty" /\ pc'[u] = "pop")
        BY <1>0, <1>10, PushersFacts DEF Broadcast, past, agent
  <2>2. pc'["agent"] \in Working \/ todo = <<>>
        BY <1>0, <2>1 DEF Line, Working
  <2>3. \A u \in Notifiers : hold'[u].kind \in {"notice", "none"}
        BY <2>1 DEF Line
  <2>4. QED
        BY <1>0, <2>1, <2>2, <2>3, LineQuietly
<1>11. CASE UNCHANGED bus /\ UNCHANGED past
       BY <1>11, LineQuietly DEF bus, past, agent, Line, Working
<1>12. \A q \in Queues : Pop(Consumer[q], q) => Pop("agent", "in") \/ Pop("dispatch", "out")
       BY ThreadFacts DEF Queues
<1>13. QED
       BY <1>2, <1>3, <1>4, <1>5, <1>6, <1>7, <1>8, <1>9, <1>10, <1>11, <1>12,
          LineOnTake, LineOnAnswers, LineOnDeliver, Steps

(* In the beginning there is nothing to order.                               *)
LEMMA InitOrder == Init => OrderInv
<1> SUFFICES ASSUME Init PROVE OrderInv
    OBVIOUS
<1>1. /\ queue["in"] = <<>> /\ queue["out"] = <<>> /\ taken = <<>> /\ delivered = <<>>
      /\ todo = <<>> /\ "agent" \in Threads /\ "dispatch" \in Threads
      /\ \A u \in Threads : pc[u] \in {"off", "top", "idle"} /\ hold[u] = None
      /\ \A u \in Sources \cup Notifiers : u \in Threads
      BY ThreadFacts DEF Init, Queues, Threads
<1>2. Holding = {} /\ Delivering = {} /\ Pushing = {}
      BY <1>1 DEF Holding, Delivering, Pushing
<1>3. Delivered = {} /\ Queued = {} /\ ToPush = {}
      BY <1>1 DEF Delivered, Queued, ToPush
<1>4. Numbers
      BY <1>1, <1>2 DEF Numbers
<1>5. Line
      BY <1>1, <1>2, <1>3 DEF Line, Before, Sorted, Known, None
<1>6. QED
      BY <1>4, <1>5 DEF OrderInv

(* The answers the users see are in the order in which the agent took their  *)
(* requests, and no status follows the reply it announces: whatever pushes   *)
(* time out, whichever notices come in between, for queues of any length.    *)
THEOREM AnswersAlwaysInOrder == Spec => []AnswersInOrder
<1>1. TypeInv /\ OrderInv /\ [Next]_vars => OrderInv'
      BY NumbersForever, LineForever DEF OrderInv
<1>2. OrderInv => AnswersInOrder
  <2>1. SUFFICES ASSUME OrderInv, NEW i \in DOMAIN delivered, NEW j \in DOMAIN delivered, i < j
                 PROVE  Rank(delivered[i]) < Rank(delivered[j])
        BY DEF AnswersInOrder
  <2>2. delivered[i].kind # "notice" /\ delivered[j].kind # "notice"
    <3>1. delivered[i] \in Delivered /\ delivered[j] \in Delivered
          BY <2>1 DEF Delivered
    <3>2. Known(Delivered \cup Delivering \cup Queued \cup Pushing \cup ToPush)
          BY <2>1 DEF OrderInv, Line
    <3>3. QED
          BY <3>1, <3>2 DEF Known
  <2>3. RankIn(taken, delivered[i]) < RankIn(taken, delivered[j])
        BY <2>1, <2>2 DEF OrderInv, Line, Sorted
  <2>4. QED
        BY <2>3 DEF Rank, RankIn
<1>3. QED
      BY TypeAlways, InitOrder, <1>1, <1>2, PTL DEF Spec
-----------------------------------------------------------------------------
(* Every message on the bus has one owner: how many places a message is in,  *)
(* and what each step does to that number.                                   *)

(* How often a message is in hands, in a sequence, or in a set.              *)
Is(x, m) == IF x = m THEN 1 ELSE 0
Of(S, m) == IF m \in S THEN 1 ELSE 0
InHands(f, m) == Cardinality({t \in Threads : f[t] = m})
In(s, m) == Cardinality({i \in DOMAIN s : s[i] = m})

(* Empty hands are empty, and the agent has work only while it answers.      *)
Free ==
  /\ \A t \in Threads : pc[t] \notin {"push", "full", "got"} => hold[t] = None
  /\ pc["agent"] \notin {"answer", "push", "full"} => work = None /\ todo = <<>>

Msg(kind, no) == [kind |-> kind, no |-> no]

(* Nothing is in two places, nothing that was made is nowhere, and the agent *)
(* has said nothing about a request it did not take.                         *)
Owned ==
  \A no \in 1..MaxMessages :
    /\ \A kind \in {"status", "reply"} :
         /\ Places(Msg(kind, no)) <= 1
         /\ (\A i \in DOMAIN taken : taken[i] # no) => Places(Msg(kind, no)) = 0
    /\ Places(Msg("request", no)) + Places(Msg("notice", no)) = Of(1..made, no)

(* The threads can be counted.                                               *)
LEMMA ThreadsFinite == IsFiniteSet(Threads)
<1>1. IsFiniteSet((Sources \cup Notifiers) \cup {"agent"})
      BY MessageBusAssumption, FS_AddElement
<1>2. IsFiniteSet(((Sources \cup Notifiers) \cup {"agent"}) \cup {"dispatch"})
      BY <1>1, FS_AddElement
<1>3. Threads = ((Sources \cup Notifiers) \cup {"agent"}) \cup {"dispatch"}
      BY DEF Threads
<1>4. QED
      BY <1>2, <1>3

(* What changes when one pair of hands changes.                              *)
LEMMA HandsCount ==
  ASSUME NEW f \in [Threads -> Message \cup {None}], NEW g \in [Threads -> Message \cup {None}],
         NEW t \in Threads, \A u \in Threads \ {t} : g[u] = f[u], NEW m
  PROVE  /\ InHands(f, m) \in Nat
         /\ f[t] = m => InHands(f, m) >= 1
         /\ InHands(g, m) = InHands(f, m) - Is(f[t], m) + Is(g[t], m)
<1> DEFINE S == {u \in Threads : f[u] = m}
           T == {u \in Threads : g[u] = m}
<1>1. IsFiniteSet(S) /\ Cardinality(S) \in Nat
      BY ThreadsFinite, FS_Subset, FS_CardinalityType
<1>2. f[t] = m => t \in S
      OBVIOUS
<1>3. f[t] # m => t \notin S
      OBVIOUS
<1>4. g[t] = m => T = S \cup {t}
      OBVIOUS
<1>5. g[t] # m => T = S \ {t}
      OBVIOUS
<1>6. /\ Cardinality(S \cup {t}) = IF t \in S THEN Cardinality(S) ELSE Cardinality(S) + 1
      /\ Cardinality(S \ {t}) = IF t \in S THEN Cardinality(S) - 1 ELSE Cardinality(S)
      BY <1>1, FS_AddElement, FS_RemoveElement
<1>7. t \in S => Cardinality(S) >= 1
      BY <1>1, FS_EmptySet
<1> HIDE DEF S, T
<1>8. /\ Cardinality(S) \in Nat
      /\ f[t] = m => Cardinality(S) >= 1
      /\ Cardinality(T) = Cardinality(S) - Is(f[t], m) + Is(g[t], m)
  <2>1. CASE g[t] = m
    <3>1. Cardinality(T) = (IF t \in S THEN Cardinality(S) ELSE Cardinality(S) + 1) /\ Is(g[t], m) = 1
          BY <1>4, <1>6, <2>1 DEF Is, Of
    <3>2. QED
          BY <1>1, <1>2, <1>3, <1>7, <3>1 DEF Is, Of
  <2>2. CASE g[t] # m
    <3>1. Cardinality(T) = (IF t \in S THEN Cardinality(S) - 1 ELSE Cardinality(S)) /\ Is(g[t], m) = 0
          BY <1>5, <1>6, <2>2 DEF Is, Of
    <3>2. QED
          BY <1>1, <1>2, <1>3, <1>7, <3>1 DEF Is, Of
  <2>3. QED
        BY <2>1, <2>2
<1>9. InHands(f, m) = Cardinality(S) /\ InHands(g, m) = Cardinality(T)
      BY DEF InHands, S, T
<1>10. QED
       BY <1>8, <1>9

(* The places of m in a sequence are finitely many.                          *)
LEMMA InFinite ==
  ASSUME NEW s \in Seq(Message), NEW m
  PROVE  IsFiniteSet({i \in DOMAIN s : s[i] = m}) /\ In(s, m) \in Nat
<1>1. DOMAIN s = 1..Len(s) /\ Len(s) \in Int
      OBVIOUS
<1>2. IsFiniteSet(DOMAIN s)
      BY <1>1, FS_Interval
<1>3. IsFiniteSet({i \in DOMAIN s : s[i] = m})
      BY <1>2, FS_Subset
<1>4. QED
      BY <1>3, FS_CardinalityType DEF In

(* What changes when x is appended.                                          *)
LEMMA AppendCount ==
  ASSUME NEW s \in Seq(Message), NEW x \in Message, NEW m
  PROVE  In(Append(s, x), m) = In(s, m) + Is(x, m)
<1> DEFINE S == {i \in DOMAIN s : s[i] = m}
           z == Append(s, x)
           T == {i \in DOMAIN z : z[i] = m}
           n == Len(s) + 1
<1>1. IsFiniteSet(S) /\ In(s, m) = Cardinality(S) /\ In(s, m) \in Nat
      BY InFinite DEF In
<1>2. /\ DOMAIN z = 1..n /\ DOMAIN s = 1..Len(s) /\ Len(s) \in Nat
      /\ z[n] = x /\ \A i \in 1..Len(s) : z[i] = s[i]
      BY SMTT(60)
<1> HIDE DEF z
<1>3. n \notin S
      BY <1>2
<1>4. x = m => T = S \cup {n}
      BY <1>2
<1>5. x # m => T = S
      BY <1>2
<1>6. Cardinality(S \cup {n}) = Cardinality(S) + 1
      BY <1>1, <1>3, FS_AddElement, Zenon
<1>7. In(z, m) = Cardinality(T)
      BY DEF In
<1> HIDE DEF S, T
<1>8. In(z, m) = In(s, m) + Is(x, m)
  <2>1. CASE x = m
    <3>1. Cardinality(T) = Cardinality(S) + 1 /\ Is(x, m) = 1
          BY <1>4, <1>6, <2>1 DEF Is, Of
    <3>2. QED
          BY <1>1, <1>7, <3>1
  <2>2. CASE x # m
    <3>1. T = S /\ Is(x, m) = 0
          BY <1>5, <2>2 DEF Is, Of
    <3>2. QED
          BY <1>1, <1>7, <3>1
  <2>3. QED
        BY <2>1, <2>2
<1>9. QED
      BY <1>8 DEF z

(* What changes when the first message is taken.                             *)
LEMMA TailCount ==
  ASSUME NEW s \in Seq(Message), s # <<>>, NEW m
  PROVE  In(Tail(s), m) = In(s, m) - Is(Head(s), m)
<1> DEFINE S == {i \in DOMAIN s : s[i] = m}
           z == Tail(s)
           T == {i \in DOMAIN z : z[i] = m}
           f == [i \in T |-> i + 1]
<1>1. /\ IsFiniteSet(S) /\ In(s, m) = Cardinality(S) /\ Cardinality(S) \in Nat
      BY InFinite DEF In
<1>2. z \in Seq(Message)
      OBVIOUS
<1>3. IsFiniteSet(T) /\ In(z, m) = Cardinality(T)
      BY <1>2, InFinite DEF In
<1>4. /\ DOMAIN s = 1..Len(s) /\ Len(s) \in Nat /\ Len(s) >= 1 /\ Head(s) = s[1]
      /\ DOMAIN z = 1..(Len(s) - 1) /\ \A i \in 1..(Len(s) - 1) : z[i] = s[i + 1]
      BY SMTT(60)
<1> HIDE DEF z
<1>5. f \in Bijection(T, S \ {1})
  <2>1. \A i \in T : i + 1 \in S \ {1}
        BY <1>4
  <2>2. \A i \in S \ {1} : i - 1 \in T /\ f[i - 1] = i
        BY <1>4
  <2>3. \A i, j \in T : f[i] = f[j] => i = j
        BY <1>4
  <2>4. f \in [T -> S \ {1}]
        BY <2>1
  <2>5. \A i \in S \ {1} : \E j \in T : f[j] = i
        BY <2>2
  <2>6. QED
        BY <2>3, <2>4, <2>5 DEF Bijection, Injection, Surjection, IsInjective
<1>6. Cardinality(S \ {1}) = Cardinality(T)
      BY <1>3, <1>5, FS_Bijection, Zenon DEF ExistsBijection
<1>7. Cardinality(S \ {1}) = IF 1 \in S THEN Cardinality(S) - 1 ELSE Cardinality(S)
      BY <1>1, FS_RemoveElement, Zenon
<1>8. 1 \in S <=> Head(s) = m
      BY <1>4
<1> HIDE DEF S, T
<1>9. In(z, m) = In(s, m) - Is(Head(s), m)
      BY <1>1, <1>3, <1>6, <1>7, <1>8 DEF Is, Of
<1>10. QED
       BY <1>9 DEF z

(* The places of a message, as a sum of such numbers.                        *)
LEMMA PlacesSum ==
  ASSUME NEW m
  PROVE  /\ Places(m) = InHands(hold, m) + Is(work, m) + In(todo, m)
                         + In(queue["in"], m) + In(queue["out"], m) + Of(gone, m)
         /\ Places(m)' = InHands(hold', m) + Is(work', m) + In(todo', m)
                          + In(queue'["in"], m) + In(queue'["out"], m) + Of(gone', m)
BY DEF Places, InHands, In, Is, Of

(* The parts of the sum are numbers.                                         *)
LEMMA SumTypes ==
  ASSUME TypeInv, NEW m
  PROVE  /\ InHands(hold, m) \in Nat /\ In(todo, m) \in Nat
         /\ In(queue["in"], m) \in Nat /\ In(queue["out"], m) \in Nat
         /\ Is(work, m) \in 0..1 /\ Of(gone, m) \in 0..1
         /\ Places(m) \in Nat
<1>1. /\ hold \in [Threads -> Message \cup {None}] /\ todo \in Seq(Message)
      /\ queue["in"] \in Seq(Message) /\ queue["out"] \in Seq(Message) /\ "agent" \in Threads
      BY ThreadFacts DEF TypeInv, TypeOK, Queues
<1>2. InHands(hold, m) \in Nat
      BY <1>1, HandsCount
<1>3. In(todo, m) \in Nat /\ In(queue["in"], m) \in Nat /\ In(queue["out"], m) \in Nat
      BY <1>1, InFinite
<1>4. Is(work, m) \in 0..1 /\ Of(gone, m) \in 0..1
      BY DEF Is, Of
<1>5. QED
      BY <1>2, <1>3, <1>4, PlacesSum

(* A message is its kind and its number.                                     *)
LEMMA MsgType ==
  /\ None \notin Message
  /\ \A kind \in {"request", "status", "reply", "notice"}, no \in 1..MaxMessages :
        Msg(kind, no) \in Message
  /\ \A k, l, a, b : Msg(k, a) = Msg(l, b) => k = l /\ a = b
  /\ \A m \in Message : /\ m.kind \in {"request", "status", "reply", "notice"}
                        /\ m.no \in 1..MaxMessages /\ m = Msg(m.kind, m.no)
<1>1. \A k, a : Msg(k, a).kind = k /\ Msg(k, a).no = a
      BY DEF Msg
<1>2. None \notin Message
      BY DEF None, Message
<1>3. \A kind \in {"request", "status", "reply", "notice"}, no \in 1..MaxMessages :
        Msg(kind, no) \in Message
      BY DEF Msg, Message
<1>4. \A m \in Message : /\ m.kind \in {"request", "status", "reply", "notice"}
                        /\ m.no \in 1..MaxMessages /\ m = Msg(m.kind, m.no)
      BY DEF Msg, Message
<1>5. QED
      BY <1>1, <1>2, <1>3, <1>4

(* Nothing is in two places.                                                 *)
LEMMA AtMostOnce ==
  ASSUME TypeInv, Owned, NEW m \in Message
  PROVE  Places(m) <= 1
<1>1. /\ m.kind \in {"request", "status", "reply", "notice"}
      /\ m.no \in 1..MaxMessages /\ m = Msg(m.kind, m.no)
      BY MsgType
<1> DEFINE r == Msg("request", m.no)
           n == Msg("notice", m.no)
<1>2. Places(r) \in Nat /\ Places(n) \in Nat
      BY SumTypes
<1>3. Places(r) + Places(n) = Of(1..made, m.no)
      BY <1>1 DEF Owned
<1>4. Of(1..made, m.no) <= 1 /\ Of(1..made, m.no) \in Int
      BY DEF Is, Of
<1>5. m.kind \in {"status", "reply"} => Places(m) <= 1
      BY <1>1 DEF Owned
<1>6. m.kind \in {"request", "notice"} => m = r \/ m = n
      BY <1>1
<1> HIDE DEF r, n
<1>7. Places(r) <= 1 /\ Places(n) <= 1
      BY <1>2, <1>3, <1>4
<1>8. QED
      BY <1>1, <1>5, <1>6, <1>7

(* A step that only moves messages.                                          *)
LEMMA OwnedQuietly ==
  ASSUME Owned, \A m \in Message : Places(m)' = Places(m), made' = made, taken' = taken
  PROVE  Owned'
<1>1. \A kind \in {"request", "status", "reply", "notice"}, no \in 1..MaxMessages :
        Places(Msg(kind, no))' = Places(Msg(kind, no))
      BY MsgType
<1>2. QED
      BY <1>1 DEF Owned

(* Empty hands are filled.                                                   *)
LEMMA HandsFilled ==
  ASSUME TypeInv, NEW t \in Threads, hold[t] = None, NEW x \in Message,
         hold' \in [Threads -> Message \cup {None}], hold'[t] = x,
         \A u \in Threads \ {t} : hold'[u] = hold[u], NEW m \in Message
  PROVE  InHands(hold', m) = InHands(hold, m) + Is(x, m) /\ Is(x, m) \in 0..1
<1>1. hold \in [Threads -> Message \cup {None}] /\ None # m
      BY MsgType DEF TypeInv, TypeOK
<1>2. InHands(hold', m) = InHands(hold, m) - Is(hold[t], m) + Is(hold'[t], m) /\ InHands(hold, m) \in Nat
      BY <1>1, HandsCount
<1>3. Is(hold[t], m) = 0
      BY <1>1 DEF Is
<1>4. Is(hold'[t], m) = Is(x, m) /\ Is(x, m) \in 0..1
      BY DEF Is
<1>5. QED
      BY <1>2, <1>3, <1>4

(* Hands are emptied.                                                        *)
LEMMA HandsEmptied ==
  ASSUME TypeInv, NEW t \in Threads, NEW x \in Message, hold[t] = x,
         hold' \in [Threads -> Message \cup {None}], hold'[t] = None,
         \A u \in Threads \ {t} : hold'[u] = hold[u], NEW m \in Message
  PROVE  InHands(hold', m) = InHands(hold, m) - Is(x, m) /\ Is(x, m) \in 0..1
<1>1. hold \in [Threads -> Message \cup {None}] /\ None # m
      BY MsgType DEF TypeInv, TypeOK
<1>2. InHands(hold', m) = InHands(hold, m) - Is(x, m) + Is(hold'[t], m) /\ InHands(hold, m) \in Nat
      BY <1>1, HandsCount
<1>3. Is(hold'[t], m) = 0 /\ Is(x, m) \in 0..1
      BY <1>1 DEF Is
<1>4. QED
      BY <1>2, <1>3

(* What is in hands has not been freed, nor is it the agent's work.          *)
LEMMA HeldOnce ==
  ASSUME TypeInv, Owned, NEW t \in Threads, hold[t] \in Message
  PROVE  hold[t] \notin gone
<1> DEFINE m == hold[t]
<1>1. InHands(hold, m) >= 1
  <2>1. hold \in [Threads -> Message \cup {None}]
        BY DEF TypeInv, TypeOK
  <2>2. QED
        BY <2>1, HandsCount, Zenon
<1>2. Places(m) <= 1 /\ Places(m) \in Nat
      BY AtMostOnce, SumTypes
<1>3. /\ Places(m) = InHands(hold, m) + Is(work, m) + In(todo, m)
                      + In(queue["in"], m) + In(queue["out"], m) + Of(gone, m)
      BY PlacesSum
<1>4. /\ InHands(hold, m) \in Nat /\ In(todo, m) \in Nat
      /\ In(queue["in"], m) \in Nat /\ In(queue["out"], m) \in Nat
      /\ Is(work, m) \in 0..1 /\ Of(gone, m) \in 0..1
      BY SumTypes
<1> HIDE DEF m
<1>5. Of(gone, m) = 0
      BY <1>1, <1>2, <1>3, <1>4
<1>6. m \notin gone
      BY <1>5 DEF Is, Of
<1>7. QED
      BY <1>6 DEF m

(* A step that passes a message from hands to the free store.                *)
LEMMA KeptOnFree ==
  ASSUME TypeInv, Owned, NEW t \in Threads, hold[t] \in Message,
         hold' \in [Threads -> Message \cup {None}], hold'[t] = None,
         \A u \in Threads \ {t} : hold'[u] = hold[u],
         gone' = gone \cup {hold[t]},
         work' = work, todo' = todo, queue' = queue
  PROVE  \A m \in Message : Places(m)' = Places(m)
<1> SUFFICES ASSUME NEW m \in Message PROVE Places(m)' = Places(m)
    OBVIOUS
<1>1. hold \in [Threads -> Message \cup {None}] /\ None # m
      BY MsgType DEF TypeInv, TypeOK
<1>2. InHands(hold', m) = InHands(hold, m) - Is(hold[t], m)
      BY HandsEmptied
<1>4. Of(gone', m) = Of(gone, m) + Is(hold[t], m)
      BY HeldOnce DEF Is, Of
<1>5. Is(hold[t], m) \in 0..1
      BY DEF Is, Of
<1>6. /\ Places(m) = InHands(hold, m) + Is(work, m) + In(todo, m)
                      + In(queue["in"], m) + In(queue["out"], m) + Of(gone, m)
      /\ Places(m)' = InHands(hold', m) + Is(work', m) + In(todo', m)
                       + In(queue'["in"], m) + In(queue'["out"], m) + Of(gone', m)
      BY PlacesSum
<1>7. /\ InHands(hold, m) \in Nat /\ In(todo, m) \in Nat
      /\ In(queue["in"], m) \in Nat /\ In(queue["out"], m) \in Nat
      /\ Is(work, m) \in 0..1 /\ Of(gone, m) \in 0..1
      BY SumTypes
<1>8. QED
      BY <1>2, <1>4, <1>5, <1>6, <1>7

(* What the hands lose a queue gains, or the other way.                      *)
LEMMA ExchangeIn ==
  ASSUME TypeInv, NEW m, InHands(hold', m) \in Int, In(queue'["in"], m) \in Int,
         InHands(hold', m) + In(queue'["in"], m) = InHands(hold, m) + In(queue["in"], m),
         In(queue'["out"], m) = In(queue["out"], m), Is(work', m) = Is(work, m),
         In(todo', m) = In(todo, m), Of(gone', m) = Of(gone, m)
  PROVE  Places(m)' = Places(m)
BY PlacesSum, SumTypes

(* The same for the other queue.                                             *)
LEMMA ExchangeOut ==
  ASSUME TypeInv, NEW m, InHands(hold', m) \in Int, In(queue'["out"], m) \in Int,
         InHands(hold', m) + In(queue'["out"], m) = InHands(hold, m) + In(queue["out"], m),
         In(queue'["in"], m) = In(queue["in"], m), Is(work', m) = Is(work, m),
         In(todo', m) = In(todo, m), Of(gone', m) = Of(gone, m)
  PROVE  Places(m)' = Places(m)
BY PlacesSum, SumTypes

(* A step that passes a message from hands to a queue.                       *)
LEMMA KeptOnPush ==
  ASSUME TypeInv, NEW t \in Threads, NEW x \in Message, hold[t] = x, NEW q \in Queues,
         hold' \in [Threads -> Message \cup {None}], hold'[t] = None,
         \A u \in Threads \ {t} : hold'[u] = hold[u],
         queue'[q] = Append(queue[q], x), \A r \in Queues \ {q} : queue'[r] = queue[r],
         work' = work, todo' = todo, gone' = gone
  PROVE  \A m \in Message : Places(m)' = Places(m)
<1> SUFFICES ASSUME NEW m \in Message PROVE Places(m)' = Places(m)
    OBVIOUS
<1>1. /\ hold \in [Threads -> Message \cup {None}] /\ None # m
      /\ queue["in"] \in Seq(Message) /\ queue["out"] \in Seq(Message)
      BY MsgType DEF TypeInv, TypeOK, Queues
<1>2. InHands(hold', m) = InHands(hold, m) - Is(x, m)
      BY HandsEmptied
<1>4. Is(x, m) \in 0..1
      BY DEF Is, Of
<1>5. /\ Places(m) = InHands(hold, m) + Is(work, m) + In(todo, m)
                      + In(queue["in"], m) + In(queue["out"], m) + Of(gone, m)
      /\ Places(m)' = InHands(hold', m) + Is(work', m) + In(todo', m)
                       + In(queue'["in"], m) + In(queue'["out"], m) + Of(gone', m)
      BY PlacesSum
<1>6. /\ InHands(hold, m) \in Nat /\ In(todo, m) \in Nat
      /\ In(queue["in"], m) \in Nat /\ In(queue["out"], m) \in Nat
      /\ Is(work, m) \in 0..1 /\ Of(gone, m) \in 0..1
      BY SumTypes
<1>7. CASE q = "in"
  <2>1. queue'["in"] = Append(queue["in"], x) /\ queue'["out"] = queue["out"]
        BY <1>7 DEF TypeInv, TypeOK, Queues
  <2>2. In(queue'["in"], m) = In(queue["in"], m) + Is(x, m)
        BY <1>1, <2>1, AppendCount
  <2>3. /\ In(queue'["out"], m) = In(queue["out"], m) /\ Is(work', m) = Is(work, m)
        /\ In(todo', m) = In(todo, m) /\ Of(gone', m) = Of(gone, m)
        BY <2>1
  <2>4. InHands(hold', m) + In(queue'["in"], m) = InHands(hold, m) + In(queue["in"], m)
        BY <1>2, <1>4, <1>6, <2>2
  <2>5. InHands(hold', m) \in Int /\ In(queue'["in"], m) \in Int
        BY <1>2, <1>4, <1>6, <2>2
  <2>6. QED
        BY <2>3, <2>4, <2>5, ExchangeIn, Zenon
<1>8. CASE q = "out"
  <2>1. queue'["out"] = Append(queue["out"], x) /\ queue'["in"] = queue["in"]
        BY <1>8 DEF TypeInv, TypeOK, Queues
  <2>2. In(queue'["out"], m) = In(queue["out"], m) + Is(x, m)
        BY <1>1, <2>1, AppendCount
  <2>3. /\ In(queue'["in"], m) = In(queue["in"], m) /\ Is(work', m) = Is(work, m)
        /\ In(todo', m) = In(todo, m) /\ Of(gone', m) = Of(gone, m)
        BY <2>1
  <2>4. InHands(hold', m) + In(queue'["out"], m) = InHands(hold, m) + In(queue["out"], m)
        BY <1>2, <1>4, <1>6, <2>2
  <2>5. InHands(hold', m) \in Int /\ In(queue'["out"], m) \in Int
        BY <1>2, <1>4, <1>6, <2>2
  <2>6. QED
        BY <2>3, <2>4, <2>5, ExchangeOut, Zenon
<1>9. QED
      BY <1>7, <1>8 DEF Queues

(* A step that passes a message from a queue to empty hands.                 *)
LEMMA KeptOnPop ==
  ASSUME TypeInv, NEW t \in Threads, hold[t] = None, NEW x \in Message,
         NEW q \in Queues, queue[q] # <<>>, x = Head(queue[q]),
         hold' \in [Threads -> Message \cup {None}], hold'[t] = x,
         \A u \in Threads \ {t} : hold'[u] = hold[u],
         queue'[q] = Tail(queue[q]), \A r \in Queues \ {q} : queue'[r] = queue[r],
         work' = work, todo' = todo, gone' = gone
  PROVE  \A m \in Message : Places(m)' = Places(m)
<1> SUFFICES ASSUME NEW m \in Message PROVE Places(m)' = Places(m)
    OBVIOUS
<1>1. /\ hold \in [Threads -> Message \cup {None}] /\ None # m
      /\ queue["in"] \in Seq(Message) /\ queue["out"] \in Seq(Message)
      BY MsgType DEF TypeInv, TypeOK, Queues
<1>2. InHands(hold', m) = InHands(hold, m) + Is(x, m)
      BY HandsFilled
<1>4. Is(x, m) \in 0..1
      BY DEF Is, Of
<1>5. /\ Places(m) = InHands(hold, m) + Is(work, m) + In(todo, m)
                      + In(queue["in"], m) + In(queue["out"], m) + Of(gone, m)
      /\ Places(m)' = InHands(hold', m) + Is(work', m) + In(todo', m)
                       + In(queue'["in"], m) + In(queue'["out"], m) + Of(gone', m)
      BY PlacesSum
<1>6. /\ InHands(hold, m) \in Nat /\ In(todo, m) \in Nat
      /\ In(queue["in"], m) \in Nat /\ In(queue["out"], m) \in Nat
      /\ Is(work, m) \in 0..1 /\ Of(gone, m) \in 0..1
      BY SumTypes
<1>7. CASE q = "in"
  <2>1. queue'["in"] = Tail(queue["in"]) /\ queue'["out"] = queue["out"]
        BY <1>7 DEF TypeInv, TypeOK, Queues
  <2>2. In(queue'["in"], m) = In(queue["in"], m) - Is(x, m)
        BY <1>1, <1>7, <2>1, TailCount
  <2>3. /\ In(queue'["out"], m) = In(queue["out"], m) /\ Is(work', m) = Is(work, m)
        /\ In(todo', m) = In(todo, m) /\ Of(gone', m) = Of(gone, m)
        BY <2>1
  <2>4. InHands(hold', m) + In(queue'["in"], m) = InHands(hold, m) + In(queue["in"], m)
        BY <1>2, <1>4, <1>6, <2>2
  <2>5. InHands(hold', m) \in Int /\ In(queue'["in"], m) \in Int
        BY <1>2, <1>4, <1>6, <2>2
  <2>6. QED
        BY <2>3, <2>4, <2>5, ExchangeIn, Zenon
<1>8. CASE q = "out"
  <2>1. queue'["out"] = Tail(queue["out"]) /\ queue'["in"] = queue["in"]
        BY <1>8 DEF TypeInv, TypeOK, Queues
  <2>2. In(queue'["out"], m) = In(queue["out"], m) - Is(x, m)
        BY <1>1, <1>8, <2>1, TailCount
  <2>3. /\ In(queue'["in"], m) = In(queue["in"], m) /\ Is(work', m) = Is(work, m)
        /\ In(todo', m) = In(todo, m) /\ Of(gone', m) = Of(gone, m)
        BY <2>1
  <2>4. InHands(hold', m) + In(queue'["out"], m) = InHands(hold, m) + In(queue["out"], m)
        BY <1>2, <1>4, <1>6, <2>2
  <2>5. InHands(hold', m) \in Int /\ In(queue'["out"], m) \in Int
        BY <1>2, <1>4, <1>6, <2>2
  <2>6. QED
        BY <2>3, <2>4, <2>5, ExchangeOut, Zenon
<1>9. QED
      BY <1>7, <1>8 DEF Queues

(* What the hands gain the agent's list loses.                               *)
LEMMA ExchangeTodo ==
  ASSUME TypeInv, NEW m, InHands(hold', m) \in Int, In(todo', m) \in Int,
         InHands(hold', m) + In(todo', m) = InHands(hold, m) + In(todo, m),
         In(queue'["in"], m) = In(queue["in"], m), In(queue'["out"], m) = In(queue["out"], m),
         Is(work', m) = Is(work, m), Of(gone', m) = Of(gone, m)
  PROVE  Places(m)' = Places(m)
BY PlacesSum, SumTypes

(* The agent takes the next message it has to push.                          *)
LEMMA KeptOnAnswers ==
  ASSUME TypeInv, NEW t \in Threads, hold[t] = None, NEW x \in Message, todo # <<>>, x = Head(todo),
         hold' \in [Threads -> Message \cup {None}], hold'[t] = x,
         \A u \in Threads \ {t} : hold'[u] = hold[u],
         todo' = Tail(todo), queue' = queue, work' = work, gone' = gone
  PROVE  \A m \in Message : Places(m)' = Places(m)
<1> SUFFICES ASSUME NEW m \in Message PROVE Places(m)' = Places(m)
    OBVIOUS
<1>1. /\ hold \in [Threads -> Message \cup {None}] /\ None # m
      /\ todo \in Seq(Message)
      BY MsgType DEF TypeInv, TypeOK
<1>2. InHands(hold', m) = InHands(hold, m) + Is(x, m)
      BY HandsFilled
<1>3. In(todo', m) = In(todo, m) - Is(x, m)
      BY <1>1, TailCount
<1>4. /\ InHands(hold, m) \in Nat /\ In(todo, m) \in Nat /\ Is(x, m) \in 0..1
      BY SumTypes DEF Is
<1>5. /\ InHands(hold', m) \in Int /\ In(todo', m) \in Int
      /\ InHands(hold', m) + In(todo', m) = InHands(hold, m) + In(todo, m)
      BY <1>2, <1>3, <1>4
<1>6. QED
      BY <1>5, ExchangeTodo

(* A step that frees the request the agent is done with.                     *)
LEMMA KeptOnDone ==
  ASSUME TypeInv, Owned, work \in Message, work' = None, gone' = gone \cup {work},
         hold' = hold, todo' = todo, queue' = queue
  PROVE  \A m \in Message : Places(m)' = Places(m)
<1>1. work \notin gone
  <2>1. Places(work) <= 1 /\ Places(work) \in Nat
        BY AtMostOnce, SumTypes
  <2>2. Places(work) = InHands(hold, work) + Is(work, work) + In(todo, work)
                       + In(queue["in"], work) + In(queue["out"], work) + Of(gone, work)
        BY PlacesSum
  <2>3. /\ InHands(hold, work) \in Nat /\ In(todo, work) \in Nat
        /\ In(queue["in"], work) \in Nat /\ In(queue["out"], work) \in Nat
        /\ Is(work, work) = 1 /\ Of(gone, work) \in 0..1
        BY SumTypes DEF Is
  <2>4. Of(gone, work) = 0
        BY <2>1, <2>2, <2>3
  <2>5. QED
        BY <2>4 DEF Of
<1> SUFFICES ASSUME NEW m \in Message PROVE Places(m)' = Places(m)
    OBVIOUS
<1>2. None # m
      BY MsgType
<1>3. Of(gone', m) = Of(gone, m) + Is(work, m) /\ Is(work', m) = 0
      BY <1>1, <1>2 DEF Of, Is
<1>4. /\ Places(m) = InHands(hold, m) + Is(work, m) + In(todo, m)
                     + In(queue["in"], m) + In(queue["out"], m) + Of(gone, m)
      /\ Places(m)' = InHands(hold', m) + Is(work', m) + In(todo', m)
                      + In(queue'["in"], m) + In(queue'["out"], m) + Of(gone', m)
      BY PlacesSum
<1>5. QED
      BY <1>3, <1>4, SumTypes

(* A step that leaves all messages where they are.                           *)
LEMMA KeptStill ==
  ASSUME hold' = hold, work' = work, todo' = todo, queue' = queue, gone' = gone
  PROVE  \A m \in Message : Places(m)' = Places(m)
BY DEF Places

(* What the agent says about a request, it says once.                        *)
LEMMA AnswersCount ==
  ASSUME NEW no \in 1..MaxMessages, NEW s \in Answers(no), NEW m \in Message
  PROVE  /\ s \in Seq(Message) /\ In(s, m) \in 0..1
         /\ m.no # no \/ m.kind \in {"request", "notice"} => In(s, m) = 0
<1> DEFINE st == Msg("status", no)
           re == Msg("reply", no)
<1>1. st \in Message /\ re \in Message /\ st # re
      BY MsgType
<1>2. /\ st.kind = "status" /\ st.no = no /\ re.kind = "reply" /\ re.no = no
      BY DEF Msg
<1>3. s \in {<<>>, <<re>>, <<st, re>>}
      BY DEF Answers, Msg
<1> HIDE DEF st, re
<1>4. s \in Seq(Message)
  <2>1. <<>> \in Seq(Message)
        OBVIOUS
  <2>2. <<re>> \in Seq(Message)
        BY <1>1
  <2>3. <<st, re>> \in Seq(Message)
        BY <1>1
  <2>4. QED
        BY <1>3, <2>1, <2>2, <2>3, Zenon
<1>5. In(s, m) \in Nat
      BY <1>4, InFinite
<1> DEFINE S == {i \in DOMAIN s : s[i] = m}
<1>6. \A i, j \in S : i = j
      BY <1>1, <1>3
<1>7. m.no # no \/ m.kind \in {"request", "notice"} => S = {}
      BY <1>1, <1>2, <1>3
<1>8. In(s, m) = Cardinality(S)
      BY DEF In
<1> HIDE DEF S
<1>9. S = {} \/ \E i : S = {i}
      BY <1>6
<1>10. Cardinality(S) \in 0..1
  <2>1. CASE S = {}
        BY <2>1, FS_EmptySet
  <2>2. CASE \E i : S = {i}
    <3>1. PICK i : S = {i}
          BY <2>2
    <3>2. Cardinality({i}) = 1
          BY FS_Singleton
    <3>3. QED
          BY <3>1, <3>2
  <2>3. QED
        BY <1>9, <2>1, <2>2
<1>11. S = {} => Cardinality(S) = 0
       BY FS_EmptySet
<1>12. QED
       BY <1>4, <1>7, <1>8, <1>10, <1>11

-----------------------------------------------------------------------------
(* Hands are empty where they should be.                                     *)
LEMMA FreeOne ==
  ASSUME TypeInv, Free, NEW t \in Threads, NEW label \in Labels, Goto(t, label),
         \A u \in Threads \ {t} : hold'[u] = hold[u],
         label \in {"push", "full", "got"} \/ hold'[t] = None,
         t # "agent" => work' = work /\ todo' = todo,
         t = "agent" /\ label \notin {"answer", "push", "full"} => work' = None /\ todo' = <<>>
  PROVE  Free'
<1>1. pc'[t] = label /\ (\A u \in Threads \ {t} : pc'[u] = pc[u]) /\ "agent" \in Threads
      BY MoveOne, ThreadFacts DEF TypeInv
<1>2. \A u \in Threads : pc'[u] \notin {"push", "full", "got"} => hold'[u] = None
      BY <1>1 DEF Free
<1>3. pc'["agent"] \notin {"answer", "push", "full"} => work' = None /\ todo' = <<>>
      BY <1>1 DEF Free
<1>4. QED
      BY <1>2, <1>3 DEF Free

(* A step in which other threads may be woken.                               *)
LEMMA FreeWoken ==
  ASSUME TypeInv, Free, NEW t \in Threads,
         pc'[t] \in {"push", "full", "got"} \/ hold'[t] = None,
         \A u \in Threads \ {t} : hold'[u] = hold[u],
         \A u \in Threads \ {t} : \/ pc'[u] = pc[u]
                                  \/ pc[u] = "empty" /\ pc'[u] = "pop"
                                  \/ pc[u] = "full" /\ pc'[u] = "push",
         work' = work, todo' = todo,
         t = "agent" => \/ pc'[t] \in {"answer", "push", "full"}
                        \/ pc[t] \notin {"answer", "push", "full"}
  PROVE  Free'
<1>1. \A u \in Threads : pc'[u] \notin {"push", "full", "got"} => hold'[u] = None
      BY DEF Free
<1>2. pc'["agent"] \notin {"answer", "push", "full"} => pc["agent"] \notin {"answer", "push", "full"}
      BY ThreadFacts
<1>3. QED
      BY <1>1, <1>2 DEF Free

(* What a step does to the hands, where it leaves the types.                 *)
LEMMA Retyped == TypeInv' => /\ hold' \in [Threads -> Message \cup {None}]
                             /\ made' \in 0..MaxMessages
BY DEF TypeInv, TypeOK

(* A new message is in one place.                                            *)
LEMMA OwnedOnMake ==
  ASSUME TypeInv, Owned, NEW t \in Threads, hold[t] = None, NEW kind \in {"request", "notice"},
         made + 1 \in 1..MaxMessages, made' = made + 1,
         hold' \in [Threads -> Message \cup {None}], hold'[t] = Msg(kind, made + 1),
         \A u \in Threads \ {t} : hold'[u] = hold[u],
         work' = work, todo' = todo, queue' = queue, gone' = gone, taken' = taken
  PROVE  Owned'
<1> DEFINE x == Msg(kind, made + 1)
<1>1. x \in Message
      BY MsgType
<1> HIDE DEF x
<1>2. hold'[t] = x
      BY DEF x
<1>3. ASSUME NEW m \in Message
      PROVE  Places(m)' = Places(m) + Is(x, m)
  <2>1. InHands(hold', m) = InHands(hold, m) + Is(x, m) /\ Is(x, m) \in 0..1
        BY <1>1, <1>2, HandsFilled
  <2>2. /\ Places(m) = InHands(hold, m) + Is(work, m) + In(todo, m)
                       + In(queue["in"], m) + In(queue["out"], m) + Of(gone, m)
        /\ Places(m)' = InHands(hold', m) + Is(work', m) + In(todo', m)
                        + In(queue'["in"], m) + In(queue'["out"], m) + Of(gone', m)
        BY PlacesSum
  <2>3. /\ In(queue'["in"], m) = In(queue["in"], m) /\ In(queue'["out"], m) = In(queue["out"], m)
        /\ Is(work', m) = Is(work, m) /\ Of(gone', m) = Of(gone, m) /\ In(todo', m) = In(todo, m)
        OBVIOUS
  <2>4. QED
        BY <2>1, <2>2, <2>3, SumTypes
<1>4. ASSUME NEW no \in 1..MaxMessages, NEW k \in {"status", "reply"}
      PROVE  Places(Msg(k, no))' = Places(Msg(k, no))
  <2>1. Msg(k, no) \in Message /\ Msg(k, no) # x
        BY MsgType DEF x
  <2>2. Is(x, Msg(k, no)) = 0
        BY <2>1 DEF Is
  <2>3. Places(Msg(k, no)) \in Nat
        BY SumTypes
  <2>4. QED
        BY <1>3, <2>1, <2>2, <2>3
<1>5. ASSUME NEW no \in 1..MaxMessages
      PROVE  Places(Msg("request", no))' + Places(Msg("notice", no))' = Of(1..made', no)
  <2> DEFINE r == Msg("request", no)
             n == Msg("notice", no)
  <2>1. /\ r \in Message /\ n \in Message /\ r # n
        /\ no # made + 1 => r # x /\ n # x
        /\ no = made + 1 => r = x \/ n = x
        BY MsgType DEF x
  <2>2. Is(x, r) + Is(x, n) = IF no = made + 1 THEN 1 ELSE 0
        BY <2>1 DEF Is
  <2>3. Of(1..made', no) = Of(1..made, no) + (IF no = made + 1 THEN 1 ELSE 0)
    <3>1. made \in 0..MaxMessages /\ MaxMessages \in Nat
          BY MessageBusAssumption DEF TypeInv, TypeOK
    <3>2. QED
          BY <3>1 DEF Of
  <2>4. Places(r)' = Places(r) + Is(x, r) /\ Places(n)' = Places(n) + Is(x, n)
        BY <1>3, <2>1
  <2>5. Places(r) + Places(n) = Of(1..made, no)
        BY DEF Owned
  <2>6. /\ Places(r) \in Nat /\ Places(n) \in Nat /\ Is(x, r) \in 0..1 /\ Is(x, n) \in 0..1
        /\ Of(1..made, no) \in 0..1
        BY SumTypes DEF Is, Of
  <2> HIDE DEF r, n
  <2>7. Places(r)' + Places(n)' = Of(1..made', no)
        BY <2>2, <2>3, <2>4, <2>5, <2>6
  <2>8. QED
        BY <2>7 DEF r, n
<1>6. QED
      BY <1>4, <1>5 DEF Owned

(* The agent speaks of a request it has just taken.                          *)
LEMMA OwnedOnTake ==
  ASSUME TypeInv, Owned, NEW x \in Message, hold["agent"] = x, work = None, todo = <<>>,
         hold' \in [Threads -> Message \cup {None}], hold'["agent"] = None,
         \A u \in Threads \ {"agent"} : hold'[u] = hold[u],
         work' = x, todo' \in Answers(x.no), queue' = queue, gone' = gone, made' = made,
         taken' = Append(taken, x.no), \A i \in DOMAIN taken : taken[i] # x.no
  PROVE  Owned'
<1>1. x.no \in 1..MaxMessages /\ "agent" \in Threads /\ taken \in Seq(1..MaxMessages)
      BY MsgType, ThreadFacts DEF TypeInv, TypeOK
<1>2. ASSUME NEW m \in Message
      PROVE  Places(m)' = Places(m) + In(todo', m)
  <2>1. InHands(hold', m) = InHands(hold, m) - Is(x, m) /\ Is(x, m) \in 0..1
        BY <1>1, HandsEmptied
  <2>2. /\ Places(m) = InHands(hold, m) + Is(work, m) + In(todo, m)
                       + In(queue["in"], m) + In(queue["out"], m) + Of(gone, m)
        /\ Places(m)' = InHands(hold', m) + Is(work', m) + In(todo', m)
                        + In(queue'["in"], m) + In(queue'["out"], m) + Of(gone', m)
        BY PlacesSum
  <2>3. /\ In(queue'["in"], m) = In(queue["in"], m) /\ In(queue'["out"], m) = In(queue["out"], m)
        /\ Is(work', m) = Is(x, m) /\ Of(gone', m) = Of(gone, m)
        OBVIOUS
  <2>4. None # m
        BY MsgType
  <2>5. Is(work, m) = 0
        BY <2>4 DEF Is
  <2>6. In(todo, m) = 0
    <3>1. {i \in DOMAIN todo : todo[i] = m} = {}
          OBVIOUS
    <3>2. QED
          BY <3>1, FS_EmptySet DEF In
  <2>7. In(todo', m) \in 0..1
        BY <1>1, AnswersCount
  <2>8. /\ InHands(hold, m) \in Nat /\ In(queue["in"], m) \in Nat
        /\ In(queue["out"], m) \in Nat /\ Of(gone, m) \in 0..1
        BY SumTypes
  <2>9. InHands(hold', m) + Is(work', m) = InHands(hold, m) /\ InHands(hold', m) \in Int
        BY <2>1, <2>3, <2>8
  <2>10. QED
         BY <2>1, <2>2, <2>3, <2>5, <2>6, <2>7, <2>8, <2>9
<1>3. ASSUME NEW no \in 1..MaxMessages, NEW k \in {"request", "notice"}
      PROVE  Places(Msg(k, no))' = Places(Msg(k, no))
  <2>1. Msg(k, no) \in Message /\ Msg(k, no).kind = k
        BY MsgType DEF Msg
  <2>2. In(todo', Msg(k, no)) = 0
        BY <1>1, <2>1, AnswersCount
  <2>3. Places(Msg(k, no)) \in Nat
        BY SumTypes
  <2>4. QED
        BY <1>2, <2>1, <2>2, <2>3
<1>4. ASSUME NEW no \in 1..MaxMessages, NEW k \in {"status", "reply"}
      PROVE  /\ Places(Msg(k, no))' <= 1
             /\ (\A i \in DOMAIN taken' : taken'[i] # no) => Places(Msg(k, no))' = 0
  <2>1. Msg(k, no) \in Message /\ Msg(k, no).no = no
        BY MsgType DEF Msg
  <2>2. Places(Msg(k, no)) \in Nat /\ Places(Msg(k, no)) <= 1
        BY SumTypes DEF Owned
  <2>3. In(todo', Msg(k, no)) \in 0..1 /\ (no # x.no => In(todo', Msg(k, no)) = 0)
        BY <1>1, <2>1, AnswersCount
  <2>4. Places(Msg(k, no))' = Places(Msg(k, no)) + In(todo', Msg(k, no))
        BY <1>2, <2>1
  <2>5. (\A i \in DOMAIN taken : taken[i] # no) => Places(Msg(k, no)) = 0
        BY DEF Owned
  <2>6. CASE no = x.no
    <3>1. \E i \in DOMAIN taken' : taken'[i] = no
      <4>1. Len(taken) + 1 \in DOMAIN taken' /\ taken'[Len(taken) + 1] = x.no
            BY <1>1
      <4>2. QED
            BY <2>6, <4>1
    <3>2. Places(Msg(k, no)) = 0
          BY <2>5, <2>6
    <3>3. QED
          BY <2>3, <2>4, <3>1, <3>2
  <2>7. CASE no # x.no
    <3>1. \A i \in DOMAIN taken : i \in DOMAIN taken' /\ taken'[i] = taken[i]
          BY <1>1
    <3>2. Places(Msg(k, no))' = Places(Msg(k, no))
          BY <2>2, <2>3, <2>4, <2>7
    <3>3. QED
          BY <2>2, <2>5, <3>1, <3>2
  <2>8. QED
        BY <2>6, <2>7
<1>5. QED
      BY <1>3, <1>4 DEF Owned

-----------------------------------------------------------------------------
(* No step gives a message a second owner or loses it.                       *)
LEMMA OwnedForever ==
  ASSUME TypeInv, Numbers, Free, Owned, [Next]_vars
  PROVE  Free' /\ Owned'
<1>0. /\ pc \in [Threads -> Labels] /\ hold \in [Threads -> Message \cup {None}]
      /\ hold' \in [Threads -> Message \cup {None}] /\ made' \in 0..MaxMessages
      /\ "agent" \in Threads /\ "dispatch" \in Threads /\ "agent" # "dispatch" /\ TypeInv'
      /\ \A t \in Threads : pc[t] \in {"push", "full", "got"} => hold[t] \in Message
      /\ made \in Nat
  <2>1. TypeInv'
        BY StepType
  <2>2. hold' \in [Threads -> Message \cup {None}] /\ made' \in 0..MaxMessages
        BY <2>1, Retyped
  <2>3. QED
        BY <2>1, <2>2, ThreadFacts, NumberTypes DEF TypeInv, TypeOK, Hands, Labels
<1>1. ASSUME NEW t \in Sources \cup Notifiers, NEW kind \in {"request", "notice"}, Make(t, kind)
      PROVE  Free' /\ Owned'
  <2>1. /\ t \in Threads /\ t # "agent"
        /\ pc[t] = "idle" /\ Goto(t, "push") /\ "push" \in Labels
        /\ made' = made + 1 /\ hold' = [hold EXCEPT ![t] = [kind |-> kind, no |-> made + 1]]
        /\ work' = work /\ todo' = todo /\ queue' = queue /\ gone' = gone /\ taken' = taken
        BY <1>1, ThreadFacts DEF Make, Threads, agent, Labels
  <2>2. hold[t] = None
        BY <2>1 DEF Free
  <2>3. hold'[t] = Msg(kind, made + 1) /\ \A u \in Threads \ {t} : hold'[u] = hold[u]
        BY <1>0, <2>1 DEF Msg
  <2>4. made + 1 \in 1..MaxMessages
        BY <1>0, <2>1, MessageBusAssumption
  <2>5. Owned'
        BY <1>0, <2>1, <2>2, <2>3, <2>4, OwnedOnMake
  <2>6. Free'
        BY <2>1, <2>3, FreeOne
  <2>7. QED
        BY <2>5, <2>6
<1>2. ASSUME NEW t \in Sources \cup Notifiers \cup {"agent"}, Push(t)
      PROVE  Free' /\ Owned'
  <2> DEFINE q == Target(t)
  <2>1. /\ t \in Threads /\ t # "dispatch" /\ q \in Queues /\ t \in Pushers(q) /\ Consumer[q] # t
        /\ AfterPush(t) \in Labels /\ (t = "agent" => AfterPush(t) = "answer")
        BY PusherFacts
  <2>2. /\ pc[t] = "push" /\ hold[t] \in Message /\ work' = work /\ todo' = todo
        /\ gone' = gone /\ taken' = taken /\ made' = made
        BY <1>0, <1>2, <2>1 DEF Push, agent, past
  <2>3. CASE ~(Len(queue[q]) < Length)
    <3>1. Goto(t, "full") /\ queue' = queue /\ hold' = hold /\ "full" \in Labels
          BY <1>2, <2>3 DEF Push, Labels
    <3>2. \A m \in Message : Places(m)' = Places(m)
          BY <2>2, <3>1, KeptStill
    <3>3. Free'
          BY <2>1, <2>2, <3>1, FreeOne
    <3>4. QED
          BY <2>2, <3>2, <3>3, OwnedQuietly
  <2>4. CASE Len(queue[q]) < Length
    <3>1. /\ queue' = [queue EXCEPT ![q] = Append(@, hold[t])]
          /\ hold' = [hold EXCEPT ![t] = None]
          /\ SignalNotEmpty(t, q, AfterPush(t))
          BY <1>2, <2>4 DEF Push
    <3>2. /\ queue'[q] = Append(queue[q], hold[t]) /\ \A r \in Queues \ {q} : queue'[r] = queue[r]
          BY <2>1, <3>1 DEF TypeInv, TypeOK
    <3>3. hold'[t] = None /\ \A u \in Threads \ {t} : hold'[u] = hold[u]
          BY <1>0, <2>1, <3>1
    <3>4. \A m \in Message : Places(m)' = Places(m)
          BY <1>0, <2>1, <2>2, <3>2, <3>3, KeptOnPush
    <3>5. /\ pc'[t] = AfterPush(t) /\ \A u \in Threads \ {t, Consumer[q]} : pc'[u] = pc[u]
          /\ pc[Consumer[q]] = "empty" => pc'[Consumer[q]] = "pop"
          /\ pc[Consumer[q]] # "empty" => pc'[Consumer[q]] = pc[Consumer[q]]
          BY <2>1, <3>1, SignalsNotEmpty DEF TypeInv
    <3>6. Free'
      <4>1. \A u \in Threads \ {t} : \/ pc'[u] = pc[u]
                                     \/ pc[u] = "empty" /\ pc'[u] = "pop"
                                     \/ pc[u] = "full" /\ pc'[u] = "push"
            BY <3>5
      <4>2. t = "agent" => pc'[t] \in {"answer", "push", "full"}
            BY <2>1, <3>5
      <4>3. QED
            BY <2>1, <2>2, <3>3, <4>1, <4>2, FreeWoken
    <3>7. QED
          BY <2>2, <3>4, <3>6, OwnedQuietly
  <2>5. QED
        BY <2>3, <2>4
<1>3. ASSUME NEW t \in Threads, NEW label \in Labels, Goto(t, label), hold[t] \in Message,
             hold' = [hold EXCEPT ![t] = None], gone' = gone \cup {hold[t]},
             work' = work, todo' = todo, queue' = queue, made' = made, taken' = taken,
             t = "agent" => \/ label = "answer"
                            \/ pc[t] \notin {"answer", "push", "full"}
      PROVE  Free' /\ Owned'
  <2>1. hold'[t] = None /\ \A u \in Threads \ {t} : hold'[u] = hold[u]
        BY <1>0, <1>3
  <2>2. \A m \in Message : Places(m)' = Places(m)
        BY <1>0, <1>3, <2>1, KeptOnFree
  <2>3. t = "agent" /\ label \notin {"answer", "push", "full"} => work' = None /\ todo' = <<>>
        BY <1>3 DEF Free
  <2>4. Free'
        BY <1>3, <2>1, <2>3, FreeOne
  <2>5. QED
        BY <1>3, <2>2, <2>4, OwnedQuietly
<1>4. ASSUME NEW t \in Threads, PushTimeout(t)
      PROVE  Free' /\ Owned'
  <2>1. /\ pc[t] = "full" /\ Goto(t, AfterPush(t)) /\ hold[t] \in Message
        /\ hold' = [hold EXCEPT ![t] = None] /\ gone' = gone \cup {hold[t]}
        /\ work' = work /\ todo' = todo /\ queue' = queue /\ made' = made /\ taken' = taken
        BY <1>0, <1>4 DEF PushTimeout, agent
  <2>2. AfterPush(t) \in Labels /\ (t = "agent" => AfterPush(t) = "answer")
        BY DEF AfterPush, Labels
  <2>3. QED
        BY <1>3, <2>1, <2>2
<1>5. ASSUME NEW t \in Threads, NEW label \in Labels, Goto(t, label),
             pc[t] \in {"off", "top", "pop", "empty"}, label \in {"top", "pop", "empty", "exit"},
             UNCHANGED <<queue, hold, agent, past>>
      PROVE  Free' /\ Owned'
  <2>1. hold' = hold /\ work' = work /\ todo' = todo /\ queue' = queue /\ gone' = gone
        /\ made' = made /\ taken' = taken
        BY <1>5 DEF agent, past
  <2>2. \A m \in Message : Places(m)' = Places(m)
        BY <2>1, KeptStill
  <2>3. hold'[t] = None /\ (t = "agent" => work' = None /\ todo' = <<>>)
        BY <1>0, <1>5, <2>1 DEF Free
  <2>4. Free'
        BY <1>5, <2>1, <2>3, FreeOne
  <2>5. QED
        BY <2>1, <2>2, <2>4, OwnedQuietly
<1>6. ASSUME NEW t \in {"agent", "dispatch"}, Starts(t)
      PROVE  Free' /\ Owned'
  <2>1. /\ pc[t] \in {"top", "off"} /\ \E label \in {"exit", "pop", "top"} : Goto(t, label)
        /\ UNCHANGED <<queue, hold, agent, past>> /\ t \in Threads
        BY <1>0, <1>6 DEF Starts, AgentStarts, Top
  <2>2. QED
        BY <1>5, <2>1 DEF Labels
<1>7. CASE PopTimeout
  <2>1. /\ pc["dispatch"] = "empty" /\ Goto("dispatch", "top")
        /\ UNCHANGED <<queue, hold, agent, past>>
        BY <1>7 DEF PopTimeout
  <2>2. QED
        BY <1>0, <1>5, <2>1 DEF Labels
<1>8. ASSUME NEW q \in Queues, Pop(Consumer[q], q)
      PROVE  Free' /\ Owned'
  <2> DEFINE t == Consumer[q]
  <2>1. t \in Threads /\ t \notin Pushers(q) /\ t \in {"agent", "dispatch"}
        BY PushersFacts, ThreadFacts DEF Queues
  <2>2. pc[t] = "pop" /\ UNCHANGED <<agent, down, past>>
        BY <1>8 DEF Pop
  <2>3. CASE queue[q] = <<>>
    <3>1. Goto(t, IF busDown THEN "top" ELSE "empty") /\ UNCHANGED <<queue, hold>>
          BY <1>8, <2>3 DEF Pop
    <3>2. QED
          BY <1>5, <2>1, <2>2, <3>1 DEF Labels
  <2>4. CASE queue[q] # <<>>
    <3>1. /\ queue' = [queue EXCEPT ![q] = Tail(@)]
          /\ hold' = [hold EXCEPT ![t] = Head(queue[q])]
          /\ SignalNotFull(t, q, "got")
          BY <1>8, <2>4 DEF Pop
    <3>2. /\ work' = work /\ todo' = todo /\ gone' = gone /\ taken' = taken /\ made' = made
          BY <2>2 DEF agent, past
    <3>3. queue'[q] = Tail(queue[q]) /\ \A r \in Queues \ {q} : queue'[r] = queue[r]
          BY <3>1 DEF TypeInv, TypeOK
    <3>4. Head(queue[q]) \in Message
      <4>1. queue[q] \in Seq(Message)
            BY DEF TypeInv, TypeOK
      <4>2. QED
            BY <2>4, <4>1
    <3>5. hold'[t] = Head(queue[q]) /\ \A u \in Threads \ {t} : hold'[u] = hold[u]
          BY <1>0, <2>1, <3>1
    <3>6. hold[t] = None
          BY <2>1, <2>2 DEF Free
    <3>7. \A m \in Message : Places(m)' = Places(m)
          BY <1>0, <2>1, <2>4, <3>2, <3>3, <3>4, <3>5, <3>6, KeptOnPop
    <3>8. /\ pc'[t] = "got"
          /\ \/ /\ \A w \in Pushers(q) : pc[w] # "full"
                /\ \A u \in Threads \ {t} : pc'[u] = pc[u]
             \/ \E w \in Pushers(q) :
                  /\ w # t /\ pc[w] = "full" /\ pc'[w] = "push"
                  /\ \A u \in Threads \ {t, w} : pc'[u] = pc[u]
          BY <2>1, <2>2, <3>1, SignalsNotFull DEF TypeInv, Labels
    <3>9. Free'
      <4>1. \A u \in Threads \ {t} : \/ pc'[u] = pc[u]
                                     \/ pc[u] = "empty" /\ pc'[u] = "pop"
                                     \/ pc[u] = "full" /\ pc'[u] = "push"
            BY <3>8
      <4>2. pc'[t] \in {"push", "full", "got"} /\ pc[t] \notin {"answer", "push", "full"}
            BY <2>2, <3>8
      <4>3. QED
            BY <2>1, <3>2, <3>5, <4>1, <4>2, FreeWoken
    <3>10. QED
           BY <3>2, <3>7, <3>9, OwnedQuietly
  <2>5. QED
        BY <2>3, <2>4
<1>9. CASE AgentQuits
  <2>1. /\ pc["agent"] = "got" /\ Goto("agent", "exit") /\ hold["agent"] \in Message
        /\ hold' = [hold EXCEPT !["agent"] = None] /\ gone' = gone \cup {hold["agent"]}
        /\ work' = work /\ todo' = todo /\ queue' = queue /\ made' = made /\ taken' = taken
        BY <1>0, <1>9 DEF AgentQuits, agent
  <2>2. QED
        BY <1>0, <1>3, <2>1 DEF Labels
<1>10. CASE Deliver
  <2>1. /\ pc["dispatch"] = "got" /\ Goto("dispatch", "top") /\ hold["dispatch"] \in Message
        /\ hold' = [hold EXCEPT !["dispatch"] = None] /\ gone' = gone \cup {hold["dispatch"]}
        /\ work' = work /\ todo' = todo /\ queue' = queue /\ made' = made /\ taken' = taken
        BY <1>0, <1>10 DEF Deliver, agent
  <2>2. QED
        BY <1>0, <1>3, <2>1 DEF Labels
<1>11. CASE AgentTakes
  <2>1. /\ pc["agent"] = "got" /\ Goto("agent", "answer") /\ hold["agent"] \in Message
        /\ work' = hold["agent"] /\ todo' \in Answers(hold["agent"].no)
        /\ taken' = Append(taken, hold["agent"].no)
        /\ hold' = [hold EXCEPT !["agent"] = None]
        /\ queue' = queue /\ made' = made /\ gone' = gone
        BY <1>0, <1>11 DEF AgentTakes
  <2>2. hold'["agent"] = None /\ \A u \in Threads \ {"agent"} : hold'[u] = hold[u]
        BY <1>0, <2>1
  <2>3. work = None /\ todo = <<>>
        BY <2>1 DEF Free
  <2>4. \A i \in DOMAIN taken : taken[i] # hold["agent"].no
        BY <2>1 DEF Numbers, Apart, New
  <2>5. Owned'
        BY <1>0, <2>1, <2>2, <2>3, <2>4, OwnedOnTake
  <2>6. Free'
        BY <1>0, <2>1, <2>2, FreeOne DEF Labels
  <2>7. QED
        BY <2>5, <2>6
<1>12. CASE AgentAnswers
  <2>1. /\ pc["agent"] = "answer" /\ todo # <<>> /\ Goto("agent", "push")
        /\ hold' = [hold EXCEPT !["agent"] = Head(todo)] /\ todo' = Tail(todo)
        /\ work' = work /\ queue' = queue /\ made' = made /\ taken' = taken /\ gone' = gone
        BY <1>12 DEF AgentAnswers, past
  <2>2. hold'["agent"] = Head(todo) /\ \A u \in Threads \ {"agent"} : hold'[u] = hold[u]
        BY <1>0, <2>1
  <2>3. Head(todo) \in Message
    <3>1. todo \in Seq(Message)
          BY DEF TypeInv, TypeOK
    <3>2. QED
          BY <2>1, <3>1
  <2>4. hold["agent"] = None
        BY <1>0, <2>1 DEF Free
  <2>5. \A m \in Message : Places(m)' = Places(m)
        BY <1>0, <2>1, <2>2, <2>3, <2>4, KeptOnAnswers
  <2>6. Free'
        BY <1>0, <2>1, <2>2, FreeOne DEF Labels
  <2>7. QED
        BY <2>1, <2>5, <2>6, OwnedQuietly
<1>13. CASE AgentDone
  <2>1. /\ pc["agent"] = "answer" /\ todo = <<>> /\ Goto("agent", "top")
        /\ work' = None /\ gone' = gone \cup {work}
        /\ hold' = hold /\ todo' = todo /\ queue' = queue /\ made' = made /\ taken' = taken
        BY <1>13 DEF AgentDone
  <2>2. work \in Message /\ hold["agent"] = None
        BY <1>0, <2>1 DEF TypeInv, Hands, Free
  <2>3. \A m \in Message : Places(m)' = Places(m)
        BY <2>1, <2>2, KeptOnDone
  <2>4. Free'
        BY <1>0, <2>1, <2>2, FreeOne DEF Labels
  <2>5. QED
        BY <2>1, <2>3, <2>4, OwnedQuietly
<1>14. ASSUME NEW q \in Queues, NEW from, NEW to, Broadcast(q, from, to)
       PROVE  Free' /\ Owned'
  <2>1. /\ queue' = queue /\ hold' = hold /\ work' = work /\ todo' = todo
        /\ gone' = gone /\ made' = made /\ taken' = taken
        /\ \A u \in Threads : pc'[u] = pc[u] \/ (pc[u] = "empty" /\ pc'[u] = "pop")
        BY <1>0, <1>14 DEF Broadcast, past, agent
  <2>2. \A m \in Message : Places(m)' = Places(m)
        BY <2>1, KeptStill
  <2>3. Free'
        BY <1>0, <2>1 DEF Free
  <2>4. QED
        BY <2>1, <2>2, <2>3, OwnedQuietly
<1>15. CASE UNCHANGED bus /\ UNCHANGED past
  <2>1. /\ queue' = queue /\ hold' = hold /\ work' = work /\ todo' = todo
        /\ gone' = gone /\ made' = made /\ taken' = taken /\ pc' = pc
        BY <1>15 DEF bus, past, agent
  <2>2. \A m \in Message : Places(m)' = Places(m)
        BY <2>1, KeptStill
  <2>3. Free'
        BY <2>1 DEF Free
  <2>4. QED
        BY <2>1, <2>2, <2>3, OwnedQuietly
<1>16. QED
       BY <1>1, <1>2, <1>4, <1>6, <1>7, <1>8, <1>9, <1>10, <1>11, <1>12, <1>13, <1>14, <1>15, Steps

(* In the beginning there is nothing to own.                                 *)
LEMMA InitOwned == Init => Free /\ Owned
<1> SUFFICES ASSUME Init PROVE Free /\ Owned
    OBVIOUS
<1>1. /\ queue["in"] = <<>> /\ queue["out"] = <<>> /\ work = None /\ todo = <<>>
      /\ gone = {} /\ made = 0 /\ "agent" \in Threads
      /\ \A t \in Threads : hold[t] = None
      BY ThreadFacts DEF Init, Queues
<1>2. Free
      BY <1>1 DEF Free
<1>3. ASSUME NEW m \in Message
      PROVE  Places(m) = 0
  <2>1. None # m
        BY MsgType
  <2>2. {t \in Threads : hold[t] = m} = {}
        BY <1>1, <2>1
  <2>3. /\ {i \in DOMAIN todo : todo[i] = m} = {}
        /\ {i \in DOMAIN queue["in"] : queue["in"][i] = m} = {}
        /\ {i \in DOMAIN queue["out"] : queue["out"][i] = m} = {}
        BY <1>1
  <2>4. InHands(hold, m) = 0 /\ In(todo, m) = 0 /\ In(queue["in"], m) = 0 /\ In(queue["out"], m) = 0
        BY <2>2, <2>3, FS_EmptySet DEF InHands, In
  <2>5. Is(work, m) = 0 /\ Of(gone, m) = 0
        BY <1>1, <2>1 DEF Is, Of
  <2>6. QED
        BY <2>4, <2>5, PlacesSum
<1>4. ASSUME NEW no \in 1..MaxMessages
      PROVE  Of(1..made, no) = 0
      BY <1>1 DEF Of
<1>5. \A kind \in {"request", "status", "reply", "notice"}, no \in 1..MaxMessages :
        Places(Msg(kind, no)) = 0
      BY <1>3, MsgType
<1>6. Owned
      BY <1>4, <1>5 DEF Owned
<1>7. QED
      BY <1>2, <1>6

(* What the sources have in their hands are requests; so only requests leak. *)
Kinds == \A t \in Sources : hold[t].kind \in {"request", "none"}

LEMMA LeaksForever ==
  ASSUME TypeInv, Kinds, LeaksAreRequests, [Next]_vars
  PROVE  Kinds' /\ LeaksAreRequests'
<1>0. /\ hold \in [Threads -> Message \cup {None}] /\ Sources \subseteq Threads
      /\ "agent" \notin Sources /\ "dispatch" \notin Sources /\ Careless \subseteq Sources
      /\ None.kind = "none"
      BY ThreadFacts, MessageBusAssumption DEF TypeInv, TypeOK, Threads, None
<1>1. ASSUME UNCHANGED <<leaked, gone>>
      PROVE  LeaksAreRequests'
      BY <1>1 DEF LeaksAreRequests
<1>2. ASSUME NEW t \in Sources \cup Notifiers, NEW kind \in {"request", "notice"}, Make(t, kind),
             kind = (IF t \in Sources THEN "request" ELSE "notice")
      PROVE  Kinds' /\ LeaksAreRequests'
  <2>1. /\ hold' = [hold EXCEPT ![t] = [kind |-> kind, no |-> made + 1]]
        /\ UNCHANGED <<leaked, gone>>
        BY <1>2 DEF Make
  <2>2. Kinds'
        BY <1>0, <1>2, <2>1 DEF Kinds
  <2>3. QED
        BY <1>1, <2>1, <2>2
<1>3. ASSUME NEW t \in Threads, hold' = [hold EXCEPT ![t] = None] \/ hold' = hold
      PROVE  Kinds'
      BY <1>0, <1>3 DEF Kinds
<1>4. ASSUME NEW t \in {"agent", "dispatch"}, NEW m, hold' = [hold EXCEPT ![t] = m]
      PROVE  Kinds'
      BY <1>0, <1>4 DEF Kinds
<1>5. ASSUME NEW t \in Sources \cup Notifiers \cup {"agent"}, Push(t)
      PROVE  Kinds' /\ LeaksAreRequests'
  <2>1. /\ hold' = [hold EXCEPT ![t] = None] \/ hold' = hold
        /\ UNCHANGED <<leaked, gone>>
        BY <1>5 DEF Push, past
  <2>2. QED
        BY <1>1, <1>3, <2>1, PusherFacts
<1>6. ASSUME NEW t \in Threads, PushTimeout(t)
      PROVE  Kinds' /\ LeaksAreRequests'
  <2>1. /\ pc[t] = "full" /\ hold' = [hold EXCEPT ![t] = None]
        /\ gone' = gone \cup {hold[t]}
        /\ leaked' = leaked \cup (IF t \in Careless THEN {hold[t]} ELSE {})
        BY <1>6 DEF PushTimeout
  <2>2. CASE t \in Careless
    <3>1. hold[t].kind = "request"
      <4>1. hold[t] \in Message /\ hold[t].kind \in {"request", "none"}
            BY <1>0, <2>1, <2>2 DEF TypeInv, Hands, Kinds
      <4>2. QED
            BY <4>1 DEF Message
    <3>2. leaked' = leaked \cup {hold[t]} /\ Careless # {}
          BY <2>1, <2>2
    <3>3. LeaksAreRequests'
          BY <2>1, <3>1, <3>2 DEF LeaksAreRequests
    <3>4. QED
          BY <1>3, <2>1, <3>3
  <2>3. CASE t \notin Careless
    <3>1. leaked' = leaked
          BY <2>1, <2>3
    <3>2. LeaksAreRequests'
          BY <2>1, <3>1 DEF LeaksAreRequests
    <3>3. QED
          BY <1>3, <2>1, <3>2
  <2>4. QED
        BY <2>2, <2>3
<1>7. ASSUME NEW q \in Queues, Pop(Consumer[q], q)
      PROVE  Kinds' /\ LeaksAreRequests'
  <2>1. Consumer[q] \in {"agent", "dispatch"}
        BY DEF Consumer, Queues
  <2>2. /\ hold' = hold \/ hold' = [hold EXCEPT ![Consumer[q]] = Head(queue[q])]
        /\ UNCHANGED <<leaked, gone>>
        BY <1>7 DEF Pop, past
  <2>3. QED
        BY <1>1, <1>3, <1>4, <2>1, <2>2, ThreadFacts
<1>8. CASE AgentQuits \/ AgentTakes \/ AgentAnswers \/ AgentDone
  <2>1. /\ leaked' = leaked /\ gone \subseteq gone'
        /\ \/ hold' = [hold EXCEPT !["agent"] = None] \/ hold' = hold
           \/ hold' = [hold EXCEPT !["agent"] = Head(todo)]
        BY <1>8 DEF AgentQuits, AgentTakes, AgentAnswers, AgentDone, past
  <2>2. LeaksAreRequests'
        BY <2>1 DEF LeaksAreRequests
  <2>3. QED
        BY <1>3, <1>4, <2>1, <2>2, ThreadFacts
<1>9. CASE PopTimeout \/ Deliver
  <2>1. /\ leaked' = leaked /\ gone \subseteq gone'
        /\ hold' = [hold EXCEPT !["dispatch"] = None] \/ hold' = hold
        BY <1>9 DEF PopTimeout, Deliver, past
  <2>2. LeaksAreRequests'
        BY <2>1 DEF LeaksAreRequests
  <2>3. QED
        BY <1>3, <2>1, <2>2, ThreadFacts
<1>10. ASSUME UNCHANGED <<hold, leaked, gone>>
       PROVE  Kinds' /\ LeaksAreRequests'
       BY <1>1, <1>3, <1>10, ThreadFacts
<1>11. ASSUME NEW t \in {"agent", "dispatch"}, Starts(t)
       PROVE  UNCHANGED <<hold, leaked, gone>>
       BY <1>11 DEF Starts, AgentStarts, Top, past
<1>12. ASSUME NEW q, NEW from, NEW to, Broadcast(q, from, to)
       PROVE  UNCHANGED <<hold, leaked, gone>>
       BY <1>12 DEF Broadcast, past
<1>13. CASE UNCHANGED bus /\ UNCHANGED past
       BY <1>10, <1>13 DEF bus, past
<1>14. QED
       BY <1>2, <1>5, <1>6, <1>7, <1>8, <1>9, <1>10, <1>11, <1>12, <1>13, Steps

(* From malloc until it is given up a message has one owner: it is never in  *)
(* two places, never freed while somebody has it, and never lost, whatever   *)
(* times out and whenever the program is shut down; what nobody frees are    *)
(* refused requests of careless sources, and nothing if there are none.      *)
THEOREM AlwaysOneOwner == Spec => []OneOwner
<1>1. TypeInv /\ Numbers /\ Free /\ Owned /\ [Next]_vars => (Numbers /\ Free /\ Owned)'
      BY NumbersForever, OwnedForever
<1>2. TypeInv /\ Kinds /\ LeaksAreRequests /\ [Next]_vars => (Kinds /\ LeaksAreRequests)'
      BY LeaksForever
<1>3. TypeInv /\ Owned => Owners
  <2>1. ASSUME TypeInv, NEW no \in 1..MaxMessages
        PROVE  Of(1..made, no) = IF no <= made THEN 1 ELSE 0
    <3>1. made \in 0..MaxMessages /\ MaxMessages \in Nat
          BY <2>1, MessageBusAssumption DEF TypeInv, TypeOK
    <3>2. QED
          BY <3>1 DEF Of
  <2>2. QED
        BY <2>1 DEF Owned, Owners, Msg
<1>4. Init => Numbers /\ Free /\ Owned
      BY InitOrder, InitOwned DEF OrderInv
<1>5. Init => Kinds /\ LeaksAreRequests
      BY DEF Init, Kinds, LeaksAreRequests, None, Threads
<1>6. QED
      BY TypeAlways, <1>1, <1>2, <1>3, <1>4, <1>5, PTL DEF Spec, OneOwner
=============================================================================
