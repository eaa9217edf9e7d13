-------------------------- MODULE MCFacetPlacement --------------------------
(* Small instances of FacetPlacement for TLC.                              *)
EXTENDS FacetPlacement, TLC

CONSTANT Reshaped     \* the signals delivered with any number of facets
MixedFacets == [s \in Signals |-> IF s \in Reshaped THEN Facets ELSE {MaxFacets}]
TwoFacets == [s \in Signals |-> {MaxFacets}]
AnyFacets == [s \in Signals |-> Facets]

ShapeSymmetry == Permutations(Stories) \cup Permutations(Signals \ Reshaped)
Symmetry == Permutations(Signals) \cup Permutations(Stories) \cup Permutations(Callers)
=============================================================================
