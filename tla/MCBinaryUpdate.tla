--------------------------- MODULE MCBinaryUpdate ---------------------------
(* An instance of BinaryUpdate: three sound builds, of which the first does  *)
(* not have the metrics table yet, and one that migrates and never serves.   *)
EXTENDS BinaryUpdate

CONSTANTS v1, v2, v3, x3

MCBinary == {v1, v2, v3, x3}
MCSound  == {v1, v2, v3}
MCLevel  == [b \in MCBinary |-> CASE b = v1 -> 1 [] b = v2 -> 2 [] OTHER -> 3]

=============================================================================
