------------------------------ MODULE RunContract ------------------------------
(***************************************************************************)
(* What a client is promised about runs, with no table, task or process in *)
(* sight: a session works on one run at a time, a run ends once, and its   *)
(* outcome respects a cancellation that was accepted before it.            *)
(* The ledger implements this (SessionLedger!ImplementsContract).          *)
(***************************************************************************)
CONSTANTS
  Runs,       \* the runs
  SessionOf   \* the session of each

VARIABLES
  status,     \* "new", "live" or the outcome of the run
  intent      \* TRUE once a cancellation of the run was accepted

Outcomes == {"succeeded", "failed", "cancelled", "interrupted", "uncertain"}

ContractInit ==
  /\ status = [r \in Runs |-> "new"]
  /\ intent = [r \in Runs |-> FALSE]

Submit(r) ==
  /\ status[r] = "new"
  /\ \A q \in Runs : SessionOf[q] = SessionOf[r] => status[q] # "live"
  /\ status' = [status EXCEPT ![r] = "live"]
  /\ UNCHANGED intent

Cancel(r) ==
  /\ status[r] = "live"
  /\ intent' = [intent EXCEPT ![r] = TRUE]
  /\ UNCHANGED status

\* A cancelled run may still fail, or stop at an uncertain effect.
Finish(r, outcome) ==
  /\ status[r] = "live"
  /\ outcome \in {"succeeded", "interrupted"} => ~intent[r]
  /\ outcome = "cancelled" => intent[r]
  /\ status' = [status EXCEPT ![r] = outcome]
  /\ UNCHANGED intent

ContractNext ==
  \E r \in Runs :
    \/ Submit(r)
    \/ Cancel(r)
    \/ \E outcome \in Outcomes : Finish(r, outcome)

ContractSpec == ContractInit /\ [][ContractNext]_<<status, intent>>
================================================================================
