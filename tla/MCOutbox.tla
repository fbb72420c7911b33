------------------------------ MODULE MCOutbox ------------------------------
(* Instances of Outbox for TLC. *)
EXTENDS Outbox, TLC

MCBackoff == [n \in 1..MaxAttempts |-> n]
=============================================================================
