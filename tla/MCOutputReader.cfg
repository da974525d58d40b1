\* Up to four lines, matching or not, short or long, in requests that fit one
\* line, two, or not even one.
CONSTANTS
    MaxLines = 4
    Lengths = {0, 3}
    Prefix = 3
    Limits = {2, 7, 20}
    Contexts = {0, 1, 2}
    MatchCaps = {1, 2, 9}
SPECIFICATION FairSpec
CHECK_DEADLOCK FALSE
INVARIANTS
    CursorIsExact
    ContentIsContext
PROPERTIES
    ReadingEnds
