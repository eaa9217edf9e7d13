--------------------------- MODULE MCCalibration ---------------------------
(* Small instances of Calibration for TLC.                                 *)
EXTENDS Calibration, TLC

CONSTANT Long       \* the signals of the second dimension
TwoDims == {1, 2}
MCDim == [s \in Signals |-> IF s \in Long THEN 2 ELSE 1]

Symmetry == Permutations(Stories) \cup Permutations(Signals \ Long)
=============================================================================
