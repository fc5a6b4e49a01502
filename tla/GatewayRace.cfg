\* Two reloads race; the processor should follow the snapshot.
SPECIFICATION Spec
CONSTANTS
    cA = cA  cB = cB  cN = cN  k1 = k1  k2 = k2
    Configs = {cA, cB}
    InitConfig = cA
    HasPrivacy = {cA, cB}
    Protected = {cA, cB}
    KeyOf <- MCKeyOf
    Keys = {k1, k2}
    ClientIds = {c1, c2}
    Requests = {p1}
    Nil = Nil
    Reloads = {r1, r2}
SYMMETRY Symmetry
INVARIANT ProcessorMatchesSnapshot
