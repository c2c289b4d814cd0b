SPECIFICATION Spec
CONSTANTS
    Reached = {"running", "waiting_user", "blocked", "failed"}
    Ticks = {t1}
    MaxMoves = 2
    MaxQueue = 1
    MaxUpsets = 1
INVARIANTS
    HeldConditionStaysRaised
PROPERTIES
    OwnerAnswerStands
    NewsIsQueued
    StaleItemsClose
CHECK_DEADLOCK FALSE
