CONSTANTS
    Node <- CoreAndClient
    Learners <- TheCore
    Conn = {c1, c2}
    NoConn = NoConn
    LastSlot = 2
    Agreed <- ThreeRequests
    Names = {"a", "b"}
    MaxChanges = 12
    Pasts <- AllAtStart
    MaxAhead = 0
    MaxFaults = 0
SPECIFICATION Spec
INVARIANTS
    WaitingIdempotent
SYMMETRY ConnSymmetry
\* The bounds stop every behavior.
CHECK_DEADLOCK FALSE
