---------------------------- MODULE MCRegisters ----------------------------
(***************************************************************************)
(* AirfiRegisters with the contents and distances around which sign, error *)
(* bits, rounding and limits change.                                       *)
(***************************************************************************)
EXTENDS AirfiRegisters

MCVersions == {330, 339, 340, 349, 350, 360}
MCReported == {0, 1, 2, 5, 170, 215, 260, 261, 341, 511, 512, 32767, 32768, 32769, 65486, 65535}
MCOffsets == {-151, -150, -50, -49, -6, -5, -4, 0, 4, 5, 6, 49, 50, 51, 150}
=============================================================================
