SPECIFICATION Spec
CONSTANTS
    Calls = {c1, c2}
    Retrying = {c1}
    MaxAttempts = 3
    Soft = 2
    Hard = 3
    MaxCost = 2
    MaxMonth = 1
INVARIANT AnswersRecorded
CHECK_DEADLOCK FALSE
