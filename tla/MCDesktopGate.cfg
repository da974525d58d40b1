\* Two handlers serving requests without end, of two owners, who may name a
\* lease that is shorter than the one before by more than the slack; interactions
\* that follow each other have the same id.
CONSTANTS
    Owners = {o1, o2}
    Requests = {q1, q2}
    Ids = {i1}
    Leases = {1, 4}
    Slack = 2
    Think = 4
    Receipt = 3
    Delay = 1
    Exec = 1
    Steps = 2
    MaxEnded = 1
    None = None
SPECIFICATION FairSpec
INVARIANTS
    GateHeldForReceipt
    HeldIsReserved
    EndedIsOver
PROPERTIES
    NoInputIntoInteraction
    ReservationNotTaken
    GateOpens
