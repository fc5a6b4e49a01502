SPECIFICATION Safety
CONSTANTS
    MaxChunks = 1
    Limit = 1
INVARIANT
    TimeoutRecorded
