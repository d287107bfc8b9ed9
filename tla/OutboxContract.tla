--------------------------- MODULE OutboxContract ---------------------------
(***************************************************************************)
(* What the outbox promises the code that enqueues: an accepted event is   *)
(* handed to its queue any number of times, and is taken off the books     *)
(* only after at least one hand-off ("Delivery is at-least-once",          *)
(* models/OutboxEvent.go).                                                 *)
(***************************************************************************)
CONSTANT Events

VARIABLES accepted, delivered, settled

Init ==
    /\ accepted \in SUBSET Events
    /\ delivered = {}
    /\ settled = {}

Accept(e) ==
    /\ accepted' = accepted \cup {e}
    /\ UNCHANGED <<delivered, settled>>

Deliver(e) ==
    /\ e \in accepted
    /\ delivered' = delivered \cup {e}
    /\ UNCHANGED <<accepted, settled>>

Settle(e) ==
    /\ e \in delivered \ settled
    /\ settled' = settled \cup {e}
    /\ UNCHANGED <<accepted, delivered>>

Next == \E e \in Events : Accept(e) \/ Deliver(e) \/ Settle(e)

Spec == Init /\ [][Next]_<<accepted, delivered, settled>>
=============================================================================
