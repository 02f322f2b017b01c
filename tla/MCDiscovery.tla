---------------------------- MODULE MCDiscovery ----------------------------
(* Small instances of AirfiDiscovery. *)
EXTENDS AirfiDiscovery
=============================================================================
