\* Two certificates' lives; a reconnect, a sweep and an administrator race.
CONSTANTS
    Workers = {w1, w2}
    Admins = {a}
    Life = 4
    Window = 3
    Cooldown = 2
    MaxClock = 5
    Never = Never
SPECIFICATION RenewalFairSpec
INVARIANTS
    RenewalTypeOK
    OneScheduledRenewal
PROPERTIES
    NoStorm
    DueIsReissued
