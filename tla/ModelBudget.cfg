SPECIFICATION Spec
CONSTANTS
    Calls = {c1, c2, c3}
    Retrying = {c1, c2}
    MaxAttempts = 3
    Soft = 2
    Hard = 3
    MaxCost = 2
    MaxMonth = 2
INVARIANTS
    TypeOK
    OneReservationPerMonth
    ReservationHoldsTheCap
    OvershootBound
CHECK_DEADLOCK FALSE
