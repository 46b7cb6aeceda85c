CONSTANTS
    CoreNodes <- TwoNodes
    Request = {r1}
    None = None
    LastSlot = 1
    SlotCap = 1
    AgedSlots <- NoSlots
    Entry <- TwoNodes
    Connections <- AllPairs
    Follows <- NoFollows
    MaxProposal = 1
    MaxDeliveries = 2
SPECIFICATION FairSpec
PROPERTIES
    AttemptsEnd
\* The bounds stop every behavior.
CHECK_DEADLOCK FALSE
