SPECIFICATION RemindersSpec
CONSTANTS
    Reminders = {r1}
    Ticks = {t1, t2}
    ClockHours = {6, 15, 20}
    DueHours = {3, 15}
    LastDay = 2
    WorkdayStart = 9
    ProbeTime = 15
    ProbeOffset = 3
    ProbeLatest = 20
    QuietStart = 22
    QuietEnd = 7
    NudgeCap = 2
    MaxTurns = 2
    MaxUpsets = 1
SYMMETRY Symmetry
INVARIANTS
    FollowUpsAreBounded
    ArmedHasATouch
PROPERTIES
    PromisesOnlyMoveOn
CHECK_DEADLOCK FALSE
