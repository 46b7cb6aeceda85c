CONSTANTS
    Me = 8193
    Others = {8194}
    Conn = {c1, c2}
    Names = {"a", "Guest-b"}
    Guests = {"Guest-b"}
    MaxChanges = 12
    MaxRequests = 3
    MaxElsewhere = 1
    MaxDegrades = 1
    DeliverCap = 1
SPECIFICATION Spec
INVARIANTS
    SessionOwned
    ConnectedToExisting
    WaitersAnswered
    NamesUnique
    IdempotentForm
SYMMETRY ConnSymmetry
\* The bounds stop every behavior.
CHECK_DEADLOCK FALSE
