CONSTANTS
    Node <- TwoCoresAndClient
    Learners <- TheCore
    Conn = {c1, c2}
    NoConn = NoConn
    LastSlot = 2
    Agreed <- DetachedThenRenamed
    Names = {"a", "b"}
    MaxChanges = 12
    Pasts <- CoresAhead
    MaxAhead = 0
    MaxFaults = 0
SPECIFICATION Spec
PROPERTIES
    ImplementsReplicatedState
SYMMETRY ConnSymmetry
\* The bounds stop every behavior.
CHECK_DEADLOCK FALSE
