SPECIFICATION MCSpec
CONSTANTS
    Callers = {r1, r2}
    Initial = 1
    MaxChain = 5
    MaxTx = 3
    Habits = {{"orderly", "quiescent"}, {"orderly"}, {"abandoning"}}
    Idle = Idle
    Asked = Asked
    Fees = {1, 2, 3}
    OpsMayFail = FALSE
    InitialInterval = 2
    Multiplier = 2
    MaxInterval = 4
    Timeout = 13
    MaxRetries = 2
    MaxRetryAfter = 5
    Latency = 1
    Late = 1
    N = 7
    PageSize = 2
    MaxRecords = 5
    MaxPages = 3
    Wanted = {1, 2, 4, 6, 7}
    MaxFaults = 3
INVARIANTS Anchored PaidAtMostOnce ReturnMeansPaid Paced MissedOnlyLate GivesUpLate Overrun Unbroken Truthful
PROPERTIES NeverReissued Resynchronised NothingAfterCancel Ends
\* Each of them stops.
CHECK_DEADLOCK FALSE
