---------------------------- MODULE LossyMailbox ----------------------------
(* What the CAN service promises a subscriber: from the moment it subscribes *)
(* it has a mailbox that holds the newest Depth frames its filter accepts    *)
(* and that it has not yet received; frames come out oldest first, and only  *)
(* a frame with Depth newer ones behind it is ever lost.                     *)
EXTENDS Naturals, Sequences

CONSTANTS Clients, Ids, Filters, Depth

VARIABLES
  arrived,  \* frames read from the bus so far; numbers them
  accept,   \* accept[c]: the identifiers c subscribed to, {} without one
  box,      \* box[c]: the frames waiting for c, oldest first
  got       \* got[c]: the frames c has received from its subscription

vars == <<arrived, accept, box, got>>

Newest(s) == IF Len(s) > Depth THEN Tail(s) ELSE s

Init ==
  /\ arrived = 0
  /\ accept = [c \in Clients |-> {}]
  /\ box = [c \in Clients |-> <<>>]
  /\ got = [c \in Clients |-> <<>>]

Subscribe(c) ==
  /\ accept[c] = {}
  /\ \E f \in Filters : accept' = [accept EXCEPT ![c] = f]
  /\ got' = [got EXCEPT ![c] = <<>>]
  /\ UNCHANGED <<arrived, box>>

Unsubscribe(c) ==
  /\ accept' = [accept EXCEPT ![c] = {}]
  /\ box' = [box EXCEPT ![c] = <<>>]
  /\ UNCHANGED <<arrived, got>>

Arrive(id) ==
  /\ arrived' = arrived + 1
  /\ box' = [c \in Clients |->
               IF id \in accept[c]
                 THEN Newest(Append(box[c], [n |-> arrived + 1, id |-> id]))
                 ELSE box[c]]
  /\ UNCHANGED <<accept, got>>

Receive(c) ==
  /\ box[c] # <<>>
  /\ got' = [got EXCEPT ![c] = Append(@, Head(box[c]))]
  /\ box' = [box EXCEPT ![c] = Tail(box[c])]
  /\ UNCHANGED <<arrived, accept>>

Next ==
  \/ \E c \in Clients : Subscribe(c) \/ Unsubscribe(c) \/ Receive(c)
  \/ \E id \in Ids : Arrive(id)

Spec == Init /\ [][Next]_vars
=============================================================================
