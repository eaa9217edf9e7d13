CONSTANTS
    Emitters = {e1, e2}
    Subscribers = {r1, r2}
    EventBufferSize = 2
    Event = Event
    Overflow = Overflow
    Closer = Closer
    Nobody = Nobody
    Overlaps <- BothWays
SPECIFICATION FairSpec
INVARIANTS
    TypeOK
    NeverSendClosed
    NoneLeftOpen
    LossMarked
PROPERTIES
    CallsReturn
