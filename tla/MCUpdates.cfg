\* A greeting and a job that lags behind it, while the target moves forth and
\* back between two versions.
CONSTANTS
    Versions = {1, 2}
    Jobs = {j1, j2}
    MaxMoves = 2
SPECIFICATION UpdatesFairSpec
INVARIANTS
    RacesAreRepaired
PROPERTIES
    Converges
    ReportCatchesUp
