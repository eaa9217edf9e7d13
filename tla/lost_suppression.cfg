CONSTANTS
    Stories = {S1, S2}
    Callers = {c1}
    Clients = {k1}
    Absent = Absent
    Idle = Idle
    Overlaps <- BesideBatch
SPECIFICATION Spec
SYMMETRY Symmetry
INVARIANT SuppressionStands
