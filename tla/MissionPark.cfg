SPECIFICATION Spec
CONSTANTS
    Criteria <- MCCriteria
    OwnerJudged <- MCOwnerJudged
    Offers <- MCOffers
    Costs <- MCCosts
    Claims <- MCClaims
    Budget = 1
    MaxRechecks = 2
    MaxAttempts = 2
    MaxRequests = 0
INVARIANT
    ParkIsHonest
CHECK_DEADLOCK FALSE
