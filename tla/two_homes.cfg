SPECIFICATION Spec
SYMMETRY Symmetry
CONSTANTS
    Signals = {s1, s2, s3}
    Stories = {A, B}
    Callers = {c1}
    Shapes <- TwoFacets
    Redeliver = TRUE
    Reshaped = {}
    MaxFacets = 2
    MinStorySize = 2
    Outlier = Outlier
    Nowhere = Nowhere
    NoCall = NoCall
INVARIANTS
    OneHome
