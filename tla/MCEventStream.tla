----------------------------- MODULE MCEventStream -----------------------------
(***************************************************************************)
(* Instances of EventStream for TLC.  Subscribers only share the store and *)
(* the channel, which none of them changes, so one of them is enough.      *)
(***************************************************************************)
EXTENDS EventStream
================================================================================
