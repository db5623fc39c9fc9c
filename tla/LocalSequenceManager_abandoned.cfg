SPECIFICATION SequenceSpec
CONSTANTS
    Callers = {r1, r2}
    Initial = 1
    MaxChain = 4
    MaxTx = 2
    Habits = {{"orderly", "quiescent", "abandoning"}}
    Idle = Idle
    Asked = Asked
PROPERTIES ResynchronisedAfterAbandoning
CHECK_DEADLOCK FALSE
