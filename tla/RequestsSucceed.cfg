CONSTANTS
    CoreNodes <- TwoCores
    ClientNodes <- NoClients
    Request = {r1}
    RequestNode <- MadeByLast
    MaxProposal = 1
    MaxLosses = 1
    MaxInFlight = 1
SPECIFICATION FairSpec
INVARIANTS
    CandidateFound
PROPERTIES
    RetriesStop
    RequestsSucceed
\* Everything stops once no request is left to retry.
CHECK_DEADLOCK FALSE
