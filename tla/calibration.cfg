CONSTANTS
    Signals = {s1, s2, s3}
    Long = {s3}
    Stories = {A, B}
    Dims <- TwoDims
    Dim <- MCDim
    OutlierTTL = 1
    MaxTime = 3
    Outlier = Outlier
    Absent = Absent
SPECIFICATION Spec
SYMMETRY Symmetry
INVARIANTS
    TypeOK
    
    
    OneDimension
PROPERTIES
    NoMassEviction
