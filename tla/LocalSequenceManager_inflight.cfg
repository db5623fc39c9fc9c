SPECIFICATION SequenceSpec
CONSTANTS
    Callers = {r1}
    Initial = 1
    MaxChain = 4
    MaxTx = 3
    Habits = {{"orderly"}}
    Idle = Idle
    Asked = Asked
INVARIANTS NoLiveDuplicate
CHECK_DEADLOCK FALSE
