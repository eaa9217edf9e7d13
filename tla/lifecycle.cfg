CONSTANTS
    Stories = {S1, S2, S3}
    Callers = {c1}
    Clients = {k1, k2}
    Absent = Absent
    Idle = Idle
    Overlaps <- BesideIngest
SPECIFICATION Spec
SYMMETRY Symmetry
CONSTRAINT ThirdForMerges
INVARIANTS
    TypeOK
    SuppressionStands
    SuppressionExact
    ViewsAgree
PROPERTIES
    FlagKept
    MergeKeepsHistory
