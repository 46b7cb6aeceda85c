CONSTANTS
    CoreNodes <- TwoCores
    ClientNodes <- NoClients
    Request = {r1, r2}
    RequestNode <- MadeByLast
    MaxProposal = 1
    MaxLosses = 0
    MaxInFlight = 1
SPECIFICATION Spec
INVARIANTS
    TransactionsContinue
SYMMETRY RequestSymmetry
\* Everything stops once no request is left to retry.
CHECK_DEADLOCK FALSE
