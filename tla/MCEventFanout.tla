--------------------------- MODULE MCEventFanout ---------------------------
(* Small instances of EventFanout for TLC.                                 *)
EXTENDS EventFanout

BothWays == BOOLEAN
=============================================================================
