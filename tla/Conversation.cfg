SPECIFICATION Spec
CONSTANTS
    MaxThreads = 2
    MaxOffers = 2
    MaxTurns = 4
    MaxSweeps = 1
    MaxUpsets = 1
INVARIANTS
    AppliedOnce
    OffersMatchAnswers
CHECK_DEADLOCK FALSE
