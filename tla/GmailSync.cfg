SPECIFICATION Spec
CONSTANTS
    Ticks = {cron, retry}
    Cron = cron
    MaxMessages = 4
    Kinds = {"bill", "other"}
    MaxRecord = 2
    MaxOthers = 1
    PageSize = 2
    Cap = 2
    DailyCap = 1
    MaxUpsets = 1
INVARIANTS
    NothingIsStranded
    EventsCarryContent
    CandidateOvershoot
PROPERTIES
    MailIsTakenIn
CHECK_DEADLOCK FALSE
