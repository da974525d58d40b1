\* One node that reconnects once.  The heartbeat and the revocation poll refresh
\* at the same time: the poll's fetch may fail, and either may install an older
\* list after the other's newer one.
CONSTANTS
    Nodes = {n1}
    Foreign = {}
    Conns = {c1, c2}
    Callers = {}
    Refreshers = {heartbeat, poll}
    Poll = poll
    None = None
SPECIFICATION UngreetedSpec
PROPERTIES
    RevokedStaysDropped
    DeadIsUnregistered
