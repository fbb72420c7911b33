------------------------------ MODULE MCUsers ------------------------------
(* Instances of Users for TLC. *)
EXTENDS Users, TLC

MCSymmetry == Permutations(UserIDs) \cup Permutations(Handlers)
=============================================================================
