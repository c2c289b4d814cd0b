SPECIFICATION RemindersSpec
CONSTANTS
    Reminders = {r1}
    Ticks = {t1}
    ClockHours = {6, 15, 18}
    DueHours = {3, 18}
    LastDay = 2
    WorkdayStart = 9
    ProbeTime = 15
    ProbeOffset = 3
    ProbeLatest = 20
    QuietStart = 22
    QuietEnd = 7
    NudgeCap = 2
    MaxTurns = 3
    MaxUpsets = 1
INVARIANTS
    DoneMeetsTheTodo
CHECK_DEADLOCK FALSE
