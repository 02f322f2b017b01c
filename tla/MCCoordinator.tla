--------------------------- MODULE MCCoordinator ---------------------------
(***************************************************************************)
(* Small instances of AirfiCoordinator: one ordinary input register, two   *)
(* extension registers, and three holding registers in two batches.        *)
(***************************************************************************)
EXTENDS AirfiCoordinator

CONSTANTS i3, i50, i51, h1, h2, h3

MCRegs == {i3, i50, i51, h1, h2, h3}
MCTasks == Pollers \cup Writers \cup Probers
MCVersions == {330, 340, 350}
MCPresent == [v \in MCVersions |->
  {i3, h1, h2, h3} \cup (IF v >= 340 THEN {i50} ELSE {}) \cup (IF v >= 350 THEN {i51} ELSE {})]
MCInputBatches == <<{i3}>>
MCHoldingBatches == <<{h1, h2}, {h3}>>
MCExtensionBatches == <<[min |-> 350, regs |-> {i50, i51}], [min |-> 340, regs |-> {i50}]>>
MCProbeBatch == {i3}
=============================================================================
