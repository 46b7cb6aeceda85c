CONSTANTS
    CoreNodes <- ThreeNodes
    Request = {r1}
    None = None
    LastSlot = 1
    SlotCap = 1
    AgedSlots <- NoSlots
    Entry <- OneNode
    Connections <- AllPairs
    Follows <- NoFollows
    MaxProposal = 1
    MaxDeliveries = 2
SPECIFICATION Spec
INVARIANTS
    NoRequestTwice
\* The bounds stop every behavior.
CHECK_DEADLOCK FALSE
