SPECIFICATION Spec
CONSTANTS
    MaxThreads = 1
    MaxOffers = 2
    MaxTurns = 3
    MaxSweeps = 1
    MaxUpsets = 0
PROPERTIES
    ProbeKeepsOffers
CHECK_DEADLOCK FALSE
