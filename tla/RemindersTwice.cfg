SPECIFICATION RemindersSpec
CONSTANTS
    Reminders = {r1}
    Ticks = {t1, t2}
    ClockHours = {15}
    DueHours = {15}
    LastDay = 1
    WorkdayStart = 9
    ProbeTime = 15
    ProbeOffset = 3
    ProbeLatest = 20
    QuietStart = 22
    QuietEnd = 7
    NudgeCap = 2
    MaxTurns = 2
    MaxUpsets = 1
INVARIANTS
    AnnouncedOnce
CHECK_DEADLOCK FALSE
