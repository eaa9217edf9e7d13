---------------------------- MODULE MCMaintenance ----------------------------
(* A small instance of Maintenance for TLC: five facets of four signals on  *)
(* six places.  The thresholds are to each other nearly as the defaults.    *)
EXTENDS Maintenance

MCOwner == <<1, 1, 2, 3, 4>>
MCAt == <<2, 2, 1, 4, 3>>
MCSpots == {60 * i : i \in 0..5}

\* A new ID may come before or after the IDs of older stories.
UpAndDown == {<<2, 1, 4, 3>>}
=============================================================================
