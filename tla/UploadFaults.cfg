CONSTANTS
    Sessions = {"s1", "s2"}
    Slots = {"q1", "q2"}
    Size = 3
    Ceiling = 2
    MinChunk = 1
    MaxOpen = 2
    Retries = 2
    Older = TRUE
    MaxFaults = 2
    MaxAttempts = 2
SPECIFICATION Spec
CHECK_DEADLOCK FALSE
INVARIANTS BytesIntact UploadKept
PROPERTIES Settles Reclaimed
