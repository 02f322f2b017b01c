----------------------------- MODULE MCEntries -----------------------------
(* Small instances of AirfiEntries.  The symmetry is for runs without *)
(* liveness properties. *)
EXTENDS AirfiEntries, TLC

Symmetry == Permutations(Entries) \cup Permutations(Flows)
=============================================================================
