--------------------------- MODULE DeliveryLedger ---------------------------
(***************************************************************************)
(* What the outbox promises to the owner of a webhook: every event is      *)
(* entered together with one obligation per destination, an obligation is  *)
(* settled as delivered only after the destination has received the event  *)
(* as it is stored, and it is settled as dead or reopened only as a whole. *)
(***************************************************************************)
CONSTANTS EventIDs,     \* event identities
          Destinations, \* webhook destinations
          Contents,     \* what an event can say: its block and payload
          NoEvent       \* the event is not stored

VARIABLES event,   \* event[e]: the stored contents of e, or NoEvent
          status,  \* status[k]: the state of obligation k = <<e, d>>
          received \* the pairs <<k, c>> some destination has received

Keys == EventIDs \X Destinations

Init ==
    /\ event = [e \in EventIDs |-> NoEvent]
    /\ status = [k \in Keys |-> "none"]
    /\ received = {}

Enter(e, c, D) ==
    /\ event[e] = NoEvent
    /\ event' = [event EXCEPT ![e] = c]
    /\ status' = [k \in Keys |-> IF k[1] = e /\ k[2] \in D
                                 THEN "pending" ELSE status[k]]
    /\ UNCHANGED received

\* Events leave together with their obligations.
Withdraw(E) ==
    /\ event' = [e \in EventIDs |-> IF e \in E THEN NoEvent ELSE event[e]]
    /\ status' = [k \in Keys |-> IF k[1] \in E THEN "none" ELSE status[k]]
    /\ UNCHANGED received

Receive ==
    /\ received \subseteq received'
    /\ UNCHANGED <<event, status>>

Deliver(k) ==
    /\ status[k] = "pending" /\ <<k, event[k[1]]>> \in received
    /\ status' = [status EXCEPT ![k] = "delivered"]
    /\ UNCHANGED <<event, received>>

Bury(k) ==
    /\ status[k] = "pending"
    /\ status' = [status EXCEPT ![k] = "dead"]
    /\ UNCHANGED <<event, received>>

Reopen(K) ==
    /\ \A k \in K : status[k] = "dead"
    /\ status' = [k \in Keys |-> IF k \in K THEN "pending" ELSE status[k]]
    /\ UNCHANGED <<event, received>>

Next ==
    \/ \E e \in EventIDs, c \in Contents, D \in SUBSET Destinations : Enter(e, c, D)
    \/ \E E \in SUBSET EventIDs : Withdraw(E)
    \/ Receive
    \/ \E k \in Keys : Deliver(k) \/ Bury(k)
    \/ \E K \in SUBSET Keys : Reopen(K)

Spec == Init /\ [][Next]_<<event, status, received>>
=============================================================================
