\* A login while everything it depends on comes and goes.
CONSTANTS
    Logins = {a1}
    KeyFiles = {k1, k2}
    Unmapped = Unmapped
SPECIFICATION LoginFairSpec
INVARIANTS
    HonestReceipt
PROPERTIES
    UnmappedStopsGrant
    WithdrawnStopsGrant
