SPECIFICATION Spec
CONSTANTS
    None = None
    MaxBlocks = 10
    MaxShort = 4
    MaxLong = 0
    Programs <- MCConditionals
INVARIANTS EdgesConservative
CHECK_DEADLOCK FALSE
