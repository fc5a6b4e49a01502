\* Requests should leave the snapshot alone.
SPECIFICATION Spec
CONSTANTS
    Conversations = {c1, c2}
    Openings <- MCOpenings
    Exchanges <- MCExchanges
    Policies <- MCPolicies
    UrlModel <- MCUrlModel
    Names <- MCNames
    Texts <- MCTexts
    MaxTurns = 2
INVARIANT SnapshotImmutable
CHECK_DEADLOCK FALSE
SYMMETRY Symmetry
