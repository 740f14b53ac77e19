---------------------------- MODULE MCRunSupervisor ----------------------------
(***************************************************************************)
(* Instances of RunSupervisor for TLC, without local commands and archive  *)
(* requests.                                                               *)
(***************************************************************************)
EXTENDS RunSupervisor

CONSTANT
  MainSession       \* the session of every run

MCSessionOf == [r \in Runs |-> MainSession]

MCArchiveFlag == [a \in {} |-> FALSE]
================================================================================
