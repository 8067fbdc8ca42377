SPECIFICATION Spec
CONSTANTS
    Order <- MCOrder
    Placeholders <- MCPlaceholders
    OtcSymbols = {"TQ"}
    LongSymbols = {"TQ"}
    Worlds <- MCWorlds
    MaxRounds = 3
    MaxLost = 1
INVARIANTS
    OneHolder
    ErasKeepTheirCusips
    DegradedIsFlagged
    RenamesLeadToLines
CHECK_DEADLOCK FALSE
