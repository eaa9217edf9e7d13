SPECIFICATION Spec
SYMMETRY Symmetry
CONSTANTS
    Signals = {s1, s2, s3}
    Stories = {A, B, C}
    Callers = {c1, c2}
    Shapes <- AnyFacets
    Redeliver = FALSE
    Reshaped = {}
    MaxFacets = 2
    MinStorySize = 2
    Outlier = Outlier
    Nowhere = Nowhere
    NoCall = NoCall
INVARIANTS
    RecordsReachable
