------------------------------ MODULE MCClient ------------------------------
(***************************************************************************)
(* Two sessions of which one exists and has two entries, a window of one    *)
(* entry that may grow to two, and of the initial queries the one for the  *)
(* list of sessions.                                                       *)
(***************************************************************************)
EXTENDS Client

MCQueries == <<"Sessions">>
=============================================================================
