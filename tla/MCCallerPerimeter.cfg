\* Two calls of two callers, one of them without a complete identity.
CONSTANTS
    n1 = n1
    n2 = n2
    byName = byName
    byId = byId
    Callers = {c1, c2, x}
    Stable = {c1, c2}
    Requests = {q1, q2}
    Nodes = {n1, n2}
    Refs = {byName, byId}
    ById <- MCById
    Named <- MCNamed
    Alike <- MCAlike
    InSvid <- MCInSvid
    None = None
SPECIFICATION Spec
SYMMETRY Symmetry
INVARIANTS
    SentIsAudited
    StatusIsHonest
    OutputToOwner
