SPECIFICATION FairSpec
CONSTANTS
    e1 = e1
    e2 = e2
    e3 = e3
    Unknown = unknown
    Examples <- MCExamples
    Stubborn <- MCObedient
INVARIANTS OneAtATime Truthful ReportComplete
PROPERTIES Concludes
CHECK_DEADLOCK FALSE
