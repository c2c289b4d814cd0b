SPECIFICATION Spec
CONSTANTS
    MaxMessages = 3
    BatchCap = 2
    DriftThreshold = 2
    MaxUpsets = 2
    Acks = {1, 3}
INVARIANTS
    ExactlyOnce
PROPERTIES
    BacklogIsForwarded
CHECK_DEADLOCK FALSE
