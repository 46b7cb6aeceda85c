CONSTANTS
    Node <- CoreAndClient
    Learners <- TheCore
    Conn = {c1, c2}
    NoConn = NoConn
    LastSlot = 2
    Agreed <- ThreeRequests
    Names = {"a", "b"}
    MaxChanges = 12
    Pasts <- CoreAhead
    MaxAhead = 0
    MaxFaults = 1
SPECIFICATION Spec
INVARIANTS
    BurstOnlyDegraded
    BurstFramed
PROPERTIES
    CaughtUp
\* The bounds stop every behavior.
CHECK_DEADLOCK FALSE
