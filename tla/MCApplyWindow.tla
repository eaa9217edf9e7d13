--------------------------- MODULE MCApplyWindow ---------------------------
(* A small instance of ApplyWindow for TLC: signals of two dimensions, of  *)
(* which those in Zero cannot be normalised.                               *)
EXTENDS ApplyWindow

CONSTANT Odd            \* the signals of the other dimension

MCDim == [s \in Signals |-> IF s \in Odd THEN 2 ELSE 1]
=============================================================================
