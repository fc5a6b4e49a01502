\* Two conversations of up to two requests each, for some 30 sets of rules.
SPECIFICATION Spec
CONSTANTS
    Conversations = {c1, c2}
    Openings <- MCOpenings
    Exchanges <- MCExchanges
    Policies <- MCPolicies
    UrlModel <- MCUrlModel
    Names <- MCNames
    Texts <- MCTexts
    MaxTurns = 2
INVARIANTS
    RewrittenAsIntended
    HeadersAsIntended
    SnapshotKept
    SessionsFollowConversations
CHECK_DEADLOCK FALSE
SYMMETRY Symmetry
