---------------------------- MODULE MCConnection ----------------------------
(***************************************************************************)
(* One client with its companion, a server started by hand that contends   *)
(* with the companion, and a server of an earlier time.                    *)
(***************************************************************************)
EXTENDS Connection

MCCompanion == [c \in Clients |-> "s1"]
=============================================================================
