SPECIFICATION MCSpec
CONSTANTS
    None = None
    MaxBlocks = 8
    MaxShort = 0
    MaxLong = 0
    Limits = {100}
    Programs <- MCPrograms
INVARIANTS RootsTracked
\* The analyses return.
CHECK_DEADLOCK FALSE
