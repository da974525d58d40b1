CONSTANTS
    Ids = {i1, i2, i3}
    Owners = {o1, o2}
    Clients = {p1, p2}
    Sizes = {1, 2}
    MaxEntries = 3
    MaxBytes = 4
    MaxOwnerEntries = 2
    MaxOwnerBytes = 3
    MaxIndividualBytes = 2
    TTL = 2
    MaxClock = 3
SPECIFICATION Spec
SYMMETRY Symmetry
INVARIANTS
    BytesAccounted
    WithinQuotas
PROPERTIES
    OthersEvictedOnlyWhenFull
