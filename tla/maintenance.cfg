CONSTANTS
    Facets = {1, 2, 3, 4, 5}
    Owner <- MCOwner
    At <- MCAt
    AssignThreshold = 32400
    MergeThreshold = 28800
    SplitThreshold = 39600
    MinStorySize = 2
    Unit = 60
    Spots <- MCSpots
    Stories = {1, 2, 3, 4}
    IdOrders <- UpAndDown
    Reaches = {14400, 32400}
    Outlier = Outlier
    Absent = Absent
SPECIFICATION Spec
INVARIANTS
    StoriesOfMany
    GroupsCompact
    GatesMissNothing
PROPERTIES
    NothingUndone
    RetiredIntoOlder
