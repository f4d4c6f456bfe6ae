\* In units of half a second, with the silences shortened.
SPECIFICATION Spec
CONSTANTS
    Badges = {b1, b2}
    Interval = 2
    Timeout = 11
    Blackout = 13
    Budget = 7
    Hold = 1
    Backoff = 1
    Latency = 1
    MaxAttempts = 3
SYMMETRY Symmetry
INVARIANTS TypeOK OneLiveBadge VerdictIsFinal SingleMissCostsNothing
PROPERTIES CrashLosesQuestion
