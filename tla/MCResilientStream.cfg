SPECIFICATION FairSpec
CONSTANTS
    Now = Now
    Undefined = Undefined
    N = 6
    MaxFaults = 3
    Variants <- MCVariants
\* The run ends: its process exits.
CHECK_DEADLOCK FALSE
INVARIANTS OneWayForward NothingLeft CountHolds NoGap ReportIsFinal
PROPERTIES RecordsArrive RunReturns
