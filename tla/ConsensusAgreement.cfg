CONSTANTS
    CoreNodes <- ThreeNodes
    Request = {r1, r2}
    None = None
    LastSlot = 0
    SlotCap = 1
    AgedSlots <- NoSlots
    Entry <- TwoNodes
    Connections <- AllPairs
    Follows <- NoFollows
    MaxProposal = 1
    MaxDeliveries = 1
SPECIFICATION Spec
INVARIANTS
    Agreement
SYMMETRY RequestSymmetry
\* The bounds stop every behavior.
CHECK_DEADLOCK FALSE
