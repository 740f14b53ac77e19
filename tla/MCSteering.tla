------------------------------ MODULE MCSteering ------------------------------
(* An instance of Steering for TLC: one archive request. *)
EXTENDS Steering, TLC

MCArchiveFlag == [a \in Archives |-> TRUE]

MCSymmetry == Permutations(Runs) \cup Permutations(Requests) \cup Permutations(Copies)
================================================================================
