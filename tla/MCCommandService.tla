--------------------------- MODULE MCCommandService ----------------------------
(***************************************************************************)
(* Instances of CommandService for TLC: no runs and no archive requests;   *)
(* the commands of Elsewhere are in a session of their own.                *)
(***************************************************************************)
EXTENDS CommandService

CONSTANTS
  MainSession,      \* the session of every command
  OtherSession,     \* but those
  Elsewhere         \* of this set

MCSessionOf == [c \in Commands |-> IF c \in Elsewhere THEN OtherSession ELSE MainSession]

MCArchiveFlag == [a \in {} |-> FALSE]
================================================================================
