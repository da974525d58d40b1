\* Two calls and a knowledge call, so up to five events, through a buffer of
\* two.
CONSTANTS
    Calls = {a, b, k}
    Anonymous = {k}
    Shippers = {fast, heartbeat}
    Fast = fast
    Capacity = 2
SPECIFICATION FairSpec
CHECK_DEADLOCK FALSE
INVARIANTS
    BufferSound
PROPERTIES
    ImplementsTrail
    NothingStuck
