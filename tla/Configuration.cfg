\* Every short configuration and every request to it.
SPECIFICATION Spec
CONSTANTS
    k1 = k1
    k2 = k2
    short = short
    tool = tool
    spaces = spaces
    m1 = m1
    m2 = m2
    chA = chA
    chB = chB
    Keys = {k1, k2, short}
    ShortKeys = {short}
    Labels <- MCLabels
    Blank = spaces
    Models = {m1, m2}
    NoModel = NoModel
    Malformed = Malformed
    Nil = Nil
    Channels = {chA, chB}
    Configs <- MCConfigs
INVARIANTS
    NeverUnplannable
    KeysKeepTheirLabels
    PlanFollowsConfig
CHECK_DEADLOCK FALSE
