SPECIFICATION MemorySpec
CONSTANTS
    Spares <- MCSpares
    Amounts <- MCAmounts
INVARIANTS
    MemoryTypeOK
    GrowthLeavesReserve
PROPERTIES
    SafeMoves
