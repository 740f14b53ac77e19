--------------------------- MODULE MCSessionCatalog ---------------------------
(* An instance of SessionCatalog for TLC: every request is about one session. *)
EXTENDS SessionCatalog, TLC

CONSTANTS s1

MCSessionOf == [q \in Renames \cup Archives \cup Unarchives \cup Deletes |-> s1]

MCSymmetry == Permutations(Archives) \cup Permutations(Deletes) \cup Permutations(Stops)
================================================================================
