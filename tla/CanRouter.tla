----------------------------- MODULE CanRouter ------------------------------
(* The receive side of the CAN service (ok8mp_can_service_main.c): the table *)
(* g_subscribers, the daemon's dispatch into the per-subscriber rings, and   *)
(* the clients' subscribe, receive and unsubscribe.  Each section under      *)
(* g_lock is one step; the semaphore `available` is taken outside the lock.  *)
(* A subscription is used by the task that made it, as every caller in the   *)
(* repository does.                                                          *)
EXTENDS Naturals, Sequences, FiniteSets

CONSTANTS
  Clients,         \* tasks that subscribe
  MaxSubscribers,  \* CAN_SERVICE_MAX_SUBSCRIBERS
  QueueDepth,      \* CAN_SERVICE_QUEUE_DEPTH
  Ids,             \* CAN identifiers on the bus
  Filters,         \* the identifier sets that (id, mask, extended) can select
  NoFrame,         \* a zeroed queue entry
  NoHandle,
  MaxFrames        \* bound: frames read from the bus in one behaviour

ASSUME RouterAssumption ==
  /\ MaxSubscribers \in Nat
  /\ QueueDepth \in Nat \ {0}
  /\ Filters \subseteq SUBSET Ids
  /\ {} \notin Filters
  /\ MaxFrames \in Nat
  /\ NoHandle \notin 0..(MaxSubscribers - 1)

Slots == 0..(MaxSubscribers - 1)
Index == 0..(QueueDepth - 1)
Frame == [n : Nat, id : Ids]

VARIABLES
  sub,        \* g_subscribers[s]: active, accept, head, count, queue
  available,  \* the semaphore of each slot
  rxFrames,   \* g_stats.rx_frames, which also numbers the frames
  rxDropped,  \* g_stats.rx_dropped
  pc,         \* where each client is
  handle,     \* its ok8mp_can_subscription_t
  ret,        \* what its last call returned
  got         \* history: the frames its subscription has received

clients == <<pc, handle, ret, got>>
vars == <<sub, available, rxFrames, rxDropped, clients>>

Codes == {"none", "OK", "ENOSPC", "ENOENT", "ETIMEDOUT", "EAGAIN"}

Cleared == [active |-> FALSE, accept |-> {}, head |-> 0, count |-> 0,
            queue |-> [i \in Index |-> NoFrame]]

(* struct can_service_subscriber_s, the semaphore kept apart.                *)
Slot == [active : BOOLEAN, accept : SUBSET Ids, head : Index, count : 0..QueueDepth,
         queue : [Index -> Frame \cup {NoFrame}]]

TypeOK ==
  /\ sub \in [Slots -> Slot]
  /\ available \in [Slots -> Nat]
  /\ rxFrames \in Nat
  /\ rxDropped \in Nat
  /\ pc \in [Clients -> {"out", "ready", "waiting", "holding"}]
  /\ handle \in [Clients -> Slots \cup {NoHandle}]
  /\ ret \in [Clients -> Codes]
  /\ got \in [Clients -> Seq(Frame)]

Init ==
  /\ sub = [s \in Slots |-> Cleared]
  /\ available = [s \in Slots |-> 0]
  /\ rxFrames = 0
  /\ rxDropped = 0
  /\ pc = [c \in Clients |-> "out"]
  /\ handle = [c \in Clients |-> NoHandle]
  /\ ret = [c \in Clients |-> "none"]
  /\ got = [c \in Clients |-> <<>>]

-----------------------------------------------------------------------------
Matches(s, id) == sub[s].active /\ id \in sub[s].accept

(* Mutant of Enqueue: an overwritten ring keeps its head.                    *)
EnqueueKeepsHead(slot, frame) ==
  LET full  == slot.count = QueueDepth
      count == IF full THEN slot.count ELSE slot.count + 1
      tail  == (slot.head + count - 1) % QueueDepth
  IN  [slot EXCEPT !.count = count, !.queue[tail] = frame]

(* One matching subscriber in can_service_dispatch: a full ring gives up its *)
(* oldest frame and posts nothing, any other grows by one and posts.         *)
Enqueue(slot, frame) ==
  LET full  == slot.count = QueueDepth
      head  == IF full THEN (slot.head + 1) % QueueDepth ELSE slot.head
      count == IF full THEN slot.count ELSE slot.count + 1
      tail  == (head + count - 1) % QueueDepth
  IN  [slot EXCEPT !.head = head, !.count = count, !.queue[tail] = frame]

(* Mutant of Full: an overwritten frame posts its token all the same.        *)
NeverFull(s) == FALSE

Full(s) == sub[s].count = QueueDepth

Dispatch(id) ==
  /\ rxFrames < MaxFrames
  /\ rxFrames' = rxFrames + 1
  /\ sub' = [s \in Slots |->
               IF Matches(s, id) THEN Enqueue(sub[s], [n |-> rxFrames + 1, id |-> id])
                                 ELSE sub[s]]
  /\ available' = [s \in Slots |->
               IF Matches(s, id) /\ ~Full(s) THEN available[s] + 1 ELSE available[s]]
  /\ rxDropped' = rxDropped + Cardinality({s \in Slots : Matches(s, id) /\ Full(s)})
  /\ UNCHANGED clients

-----------------------------------------------------------------------------
Return(c, from, to, code) ==
  /\ pc[c] = from
  /\ pc' = [pc EXCEPT ![c] = to]
  /\ ret' = [ret EXCEPT ![c] = code]

Subscribe(c) ==
  /\ Return(c, "out", "ready", "OK")
  /\ \E s \in Slots, f \in Filters :
       /\ ~sub[s].active
       /\ \A t \in Slots : t < s => sub[t].active
       /\ sub' = [sub EXCEPT ![s] = [Cleared EXCEPT !.active = TRUE, !.accept = f]]
       /\ available' = [available EXCEPT ![s] = 0]
       /\ handle' = [handle EXCEPT ![c] = s]
  /\ got' = [got EXCEPT ![c] = <<>>]
  /\ UNCHANGED <<rxFrames, rxDropped>>

SubscribeFull(c) ==
  /\ Return(c, "out", "out", "ENOSPC")
  /\ \A s \in Slots : sub[s].active
  /\ UNCHANGED <<sub, available, rxFrames, rxDropped, handle, got>>

Unsubscribe(c) ==
  /\ Return(c, "ready", "out", "OK")
  /\ sub' = [sub EXCEPT ![handle[c]].active = FALSE,
                        ![handle[c]].count = 0, ![handle[c]].head = 0]
  /\ available' = [available EXCEPT ![handle[c]] = 0]    \* nxsem_destroy
  /\ handle' = [handle EXCEPT ![c] = NoHandle]
  /\ UNCHANGED <<rxFrames, rxDropped, got>>

-----------------------------------------------------------------------------
(* ok8mp_can_service_receive: test `active`, take a token, then lock.        *)
Receive(c) ==
  /\ \/ Return(c, "ready", "waiting", "none") /\ sub[handle[c]].active
     \/ Return(c, "ready", "ready", "ENOENT") /\ ~sub[handle[c]].active
  /\ UNCHANGED <<sub, available, rxFrames, rxDropped, handle, got>>

TakeToken(c) ==
  /\ Return(c, "waiting", "holding", "none")
  /\ available[handle[c]] > 0
  /\ available' = [available EXCEPT ![handle[c]] = @ - 1]
  /\ UNCHANGED <<sub, rxFrames, rxDropped, handle, got>>

(* nxsem_trywait or nxsem_tickwait gives up without a token.                 *)
TimedOut(c) ==
  /\ Return(c, "waiting", "ready", "ETIMEDOUT")
  /\ available[handle[c]] = 0
  /\ UNCHANGED <<sub, available, rxFrames, rxDropped, handle, got>>

(* Mutant of Dequeue: the head is advanced past the end of the ring.         *)
DequeueNoWrap(slot) ==
  [slot EXCEPT !.head = slot.head + 1, !.count = slot.count - 1]

Dequeue(slot) ==
  [slot EXCEPT !.head = (slot.head + 1) % QueueDepth, !.count = slot.count - 1]

TakeFrame(c) ==
  LET slot == sub[handle[c]] IN
  /\ \/ /\ Return(c, "holding", "ready", "OK")
        /\ slot.active /\ slot.count > 0
        /\ got' = [got EXCEPT ![c] = Append(@, slot.queue[slot.head])]
        /\ sub' = [sub EXCEPT ![handle[c]] = Dequeue(slot)]
     \/ /\ Return(c, "holding", "ready", "EAGAIN")
        /\ ~slot.active \/ slot.count = 0
        /\ UNCHANGED <<got, sub>>
  /\ UNCHANGED <<available, rxFrames, rxDropped, handle>>

Reader(c) ==
  \/ Subscribe(c) \/ SubscribeFull(c) \/ Unsubscribe(c) \/ Receive(c)
  \/ TakeToken(c) \/ TimedOut(c) \/ TakeFrame(c)

Next ==
  \/ \E c \in Clients : Reader(c)
  \/ \E id \in Ids : Dispatch(id)

Spec == Init /\ [][Next]_vars

-----------------------------------------------------------------------------
(* Subscriptions do not share a slot and a slot in use has an owner, so that *)
(* a slot freed and taken again never serves two handles.                    *)
SlotsOwned ==
  /\ \A c, b \in Clients : handle[c] = handle[b] /\ handle[c] # NoHandle => c = b
  /\ \A s \in Slots : sub[s].active <=> \E c \in Clients : handle[c] = s
  /\ \A c \in Clients : pc[c] = "out" <=> handle[c] = NoHandle

(* The semaphore and the ring agree across lock releases and ring overflows: *)
(* the tokens not taken, plus the one its reader has taken and not yet used, *)
(* are exactly the frames queued.  Then a reader that got a token always     *)
(* finds a frame, and no queued frame waits without a token.                 *)
TokensMatchFrames ==
  \A c \in Clients : pc[c] # "out" =>
    sub[handle[c]].count =
      available[handle[c]] + (IF pc[c] = "holding" THEN 1 ELSE 0)

(* Once a reader has been given a token, receive does not come back empty    *)
(* handed: -EAGAIN after a successful wait never happens.                    *)
TokenIsHonoured == \A c \in Clients : ret[c] # "EAGAIN"

(* The bookkeeping of the table, through overflow, timeout, unsubscribe and  *)
(* reuse of a slot: one owner per slot, as many tokens as frames, and no     *)
(* token that buys nothing.                                                  *)
BooksBalance == SlotsOwned /\ TokensMatchFrames /\ TokenIsHonoured

(* A ring read as the sequence of its entries, oldest first, and what each   *)
(* client has waiting through its handle.                                    *)
At(slot, i) == slot.queue[(slot.head + i - 1) % QueueDepth]
Content(slot) == [i \in 1..slot.count |-> At(slot, i)]
Accept(c) == IF handle[c] = NoHandle THEN {} ELSE sub[handle[c]].accept
Box(c) == IF handle[c] = NoHandle THEN <<>> ELSE Content(sub[handle[c]])

(* The rings, semaphores and slots together implement one lossy mailbox per  *)
(* subscriber.                                                               *)
Mailbox == INSTANCE LossyMailbox WITH
  Depth   <- QueueDepth,
  arrived <- rxFrames,
  accept  <- [c \in Clients |-> Accept(c)],
  box     <- [c \in Clients |-> Box(c)],
  got     <- got

ImplementsMailbox == Mailbox!Spec
=============================================================================
