SPECIFICATION MCSpec
CONSTANTS
    None = None
    MaxBlocks = 8
    MaxShort = 0
    MaxLong = 0
    Limits = {1}
    Programs <- MCPrograms
INVARIANTS LimitKept
\* The analyses return.
CHECK_DEADLOCK FALSE
