SPECIFICATION FairSpec
CONSTANTS
    Requests = {p1, p2, p3}
    Monitor = {p3}
    Threshold = 3
    ResetTimeout = 3
INVARIANTS TypeOK ClosedBelowThreshold
PROPERTIES NoRetryStorm NeverWedged
