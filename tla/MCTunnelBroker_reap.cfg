\* One node; the heartbeat and the revocation poll refresh at the same time.
CONSTANTS
    Nodes = {n1}
    Foreign = {}
    Conns = {c1, c2}
    Callers = {}
    Refreshers = {heartbeat, poll}
    Poll = poll
    None = None
SPECIFICATION FairSpec
PROPERTIES
    ReapsOwnEntry
