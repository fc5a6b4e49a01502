\* Three requests of one session or of none.
SPECIFICATION Spec
CONSTANTS
    Sessions = {s}
    NoSession = NoSession
    Originals = {x, y}
    Placeholders = {p1, p2}
    Requests = {r1, r2, r3}
SYMMETRY Symmetry
INVARIANTS
    ScannedIsMasked
    MappingsOneToOne
    SteadySessionMasked
    OneTimeMappingsGone
PROPERTY PlaceholdersStable
CHECK_DEADLOCK FALSE
