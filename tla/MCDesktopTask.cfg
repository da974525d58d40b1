\* Two operations of two owners, tasks of two steps among them, over a cache of
\* two frames: while one grounds, the other may fill the cache.
CONSTANTS
    Ops = {o1, o2}
    Owners = {w1, w2}
    Nodes = {n1, n2}
    Steps = 2
    MaxFrames = 2
    TTL = 2
    Deadline = 2
SPECIFICATION Spec
SYMMETRY Symmetry
CHECK_DEADLOCK FALSE
INVARIANTS
    CacheKeepsNewest
    TaskFrameKept
    NothingAfterDoubt
    WithdrawnStopsInput
