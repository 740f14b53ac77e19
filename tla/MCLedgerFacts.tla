----------------------------- MODULE MCLedgerFacts -----------------------------
(***************************************************************************)
(* An instance of LedgerFacts for TLC: runs and commands of one session.   *)
(***************************************************************************)
EXTENDS LedgerFacts

CONSTANT MainSession      \* the session of every run and command

MCSessionOf == [x \in Runs \cup Commands \cup Archives |-> MainSession]

MCArchiveFlag == [a \in Archives |-> TRUE]
================================================================================
