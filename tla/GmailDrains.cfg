SPECIFICATION Spec
CONSTANTS
    Ticks = {cron, retry}
    Cron = cron
    MaxMessages = 3
    Kinds = {"inbox", "other"}
    MaxRecord = 2
    MaxOthers = 2
    PageSize = 2
    Cap = 2
    DailyCap = 1
    MaxUpsets = 0
PROPERTIES
    BootstrapDrains
CHECK_DEADLOCK FALSE
