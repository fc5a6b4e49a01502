\* A session whose requests hold any texts, take both paths, or overlap.
SPECIFICATION Spec
CONSTANTS
    Sessions = {s}
    NoSession = NoSession
    Originals = {x, y}
    Placeholders = {p1, p2}
    Requests = {r1, r2, r3}
SYMMETRY Symmetry
INVARIANT NothingUnmasked
CHECK_DEADLOCK FALSE
