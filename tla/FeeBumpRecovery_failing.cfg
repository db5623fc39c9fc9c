SPECIFICATION RecoverySpec
CONSTANTS
    Fees = {1, 2, 3}
    OpsMayFail = TRUE
INVARIANTS ReturnMeansPaid
CHECK_DEADLOCK FALSE
