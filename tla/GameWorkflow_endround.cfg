\* An extension accepted after the operator ended the round.
SPECIFICATION FairSpec
CONSTANTS
    Badges = {b1}
    Rust <- MCRust
    Inputs <- OneBadgeInputs
    Duration = 3
    ChaosDuration = 3
    Extension = 2
    TickLength = 2
    ActivityTimeout = 7
    Answers = {"correct"}
    MaxScheduled = 2
    MaxPowerups = 2
    MaxAttempt = 0
    MaxSignals = 0
    MaxLag = 1
PROPERTY EndRoundCloses
