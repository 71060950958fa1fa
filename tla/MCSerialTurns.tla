---------------------------- MODULE MCSerialTurns ----------------------------
(* Instances of SerialTurns for TLC. *)
EXTENDS SerialTurns, TLC

CONSTANTS s1, s2

TwoSends       == {s1, s2}
Symmetry       == Permutations(Sends)
DegradedFaults == FaultKinds \ LeaseFaults
=============================================================================
