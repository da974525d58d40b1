\* Our node and one of another tenant, two connections, a caller, and the
\* revocation poll as the only refresher.
CONSTANTS
    Nodes = {n1, n2}
    Foreign = {n2}
    Conns = {c1, c2}
    Callers = {a}
    Refreshers = {poll}
    Poll = poll
    None = None
SPECIFICATION Spec
SYMMETRY Symmetry
INVARIANTS
    TypeOK
    OnlyApprovedRegistered
    RegisteredIsWatched
PROPERTIES
    ImplementsRegistry
