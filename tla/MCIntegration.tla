--------------------------- MODULE MCIntegration ---------------------------
(* Small instances of AirfiIntegration. *)
EXTENDS AirfiIntegration

MCTasks == {Poller} \cup Callers \cup Probers
=============================================================================
