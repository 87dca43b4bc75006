SPECIFICATION FairCommandSpec
CONSTANTS
    Requests = {p1, p2}
    Monitor = {}
    NoCaller = NoCaller
    Tries = 3
    MinInterval = 1
    Threshold = 2
    ResetTimeout = 2
INVARIANTS CommandTypeOK WritesSerialised SlotsApart
PROPERTIES ImplementsBreaker WriteLockReleased
