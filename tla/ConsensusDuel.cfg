CONSTANTS
    CoreNodes <- ThreeNodes
    Request = {r1, r2}
    None = None
    LastSlot = 1
    SlotCap = 1
    AgedSlots <- FirstSlot
    Entry <- TwoNodes
    Connections <- ThirdToSecond
    Follows <- FollowTheSecond
    MaxProposal = 1
    MaxDeliveries = 1
SPECIFICATION Spec
INVARIANTS
    TypeOK
    LeaderOwnsProposal
    OneProposalPerSlot
    ChosenByMajority
    ProposalsWatched
    AppliedUpToGap
    DiscardedAppliedByMajority
    BallotsInOrder
PROPERTIES
    PromisesKept
    ProposalsRise
    ChosenForever
SYMMETRY RequestSymmetry
\* The bounds stop every behavior.
CHECK_DEADLOCK FALSE
