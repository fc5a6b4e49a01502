\* Two keys, two clients, two requests, reloads and health calls at any time.
SPECIFICATION Spec
CONSTANTS
    Keys = {k1, k2}
    ClientIds = {c1, c2}
    Requests = {r1, r2}
    Nil = Nil
INVARIANTS
    ActiveCountsHolders
    NeverAcquireDraining
    NoOrphan
    DrainedIsClosed
    StatsCoversMap
PROPERTIES
    ImplementsPool
    DrainingClosesEventually
