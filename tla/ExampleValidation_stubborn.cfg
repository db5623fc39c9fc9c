SPECIFICATION FairSpec
CONSTANTS
    e1 = e1
    e2 = e2
    e3 = e3
    Unknown = unknown
    Examples <- MCExamples
    Stubborn <- MCStubborn
PROPERTIES TimedOutIsFailed
CHECK_DEADLOCK FALSE
