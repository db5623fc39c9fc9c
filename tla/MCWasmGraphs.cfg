SPECIFICATION MCSpec
CONSTANTS
    None = None
    MaxBlocks = 8
    MaxShort = 4
    MaxLong = 6
    Limits = {2, 100}
    Programs <- MCPrograms
INVARIANTS EdgesExact IdomsExact MeasuresExact MustPass ComponentsExact CyclesExact CallGraphTrue
PROPERTIES Terminates
\* The analyses return.
CHECK_DEADLOCK FALSE
