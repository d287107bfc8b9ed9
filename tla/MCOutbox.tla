------------------------------ MODULE MCOutbox ------------------------------
(***************************************************************************)
(* TLC instance of Outbox: lane 1 has two rows, every other lane one.      *)
(***************************************************************************)
EXTENDS Outbox, TLC

MCLaneOf == [e \in Events |-> IF e <= 2 THEN 1 ELSE e - 1]
MCDelays == [n \in 1..4 |-> IF n < 4 THEN 1 ELSE 2]
Replicas == Permutations(Dispatchers)
=============================================================================
