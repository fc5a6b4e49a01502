\* One observed response and two more records; two failed writes or restarts.
SPECIFICATION TSpec
CONSTANTS
    MaxLimit = 4
    DefaultMaxBodyBytes = 7
    Window = 3
    MaxWrite = 3
    MaxTotal = 6
    None = None
    Observed = o
    Requests = {o, r1, r2}
    Responses <- MCResponses
    MaxFaults = 2
INVARIANTS
    HeadIsPrefix
    UsageIsLast
    UsageFound
    DamageIsLocal
PROPERTY HistoryKept
CHECK_DEADLOCK FALSE
SYMMETRY Symmetry
