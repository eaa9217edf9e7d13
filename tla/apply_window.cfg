CONSTANTS
    Callers = {c1, c2, c3}
    Signals = {s1, s2, s3, s4, s5, s6}
    Odd = {s5, s6}
    NoSignal = NoSignal
    Zero = {s6}
    Dim <- MCDim
    IngestBufferCap = 3
SPECIFICATION FairSpec
INVARIANTS
    TypeOK
    NothingAfterClose
    AcceptedInOnePlace
    SameDimension
    LateCallsHaveRoom
PROPERTIES
    CallsReturn
    CloseReturns
    AcceptedSettles
