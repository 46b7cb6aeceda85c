CONSTANTS
    CoreNodes <- ThreeCores
    ClientNodes <- OneClient
    Request = {r1}
    RequestNode <- MadeByClient
    MaxProposal = 0
    MaxLosses = 2
    MaxInFlight = 2
SPECIFICATION Spec
INVARIANTS
    TypeOK
PROPERTIES
    WaitsForLastTarget
\* Everything stops once no request is left to retry.
CHECK_DEADLOCK FALSE
