SPECIFICATION Spec
SYMMETRY ShapeSymmetry
CONSTANTS
    Signals = {s1, s2}
    Stories = {A, B, C}
    Callers = {c1}
    Shapes <- MixedFacets
    Redeliver = TRUE
    Reshaped = {s1}
    MaxFacets = 2
    MinStorySize = 2
    Outlier = Outlier
    Nowhere = Nowhere
    NoCall = NoCall
INVARIANTS
    LocBacked
    RecordHasMarker
PROPERTIES
    DraftNeverRevises
    RecordOutlives
