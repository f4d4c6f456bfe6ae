\* An Activity that ends without a choice leaves its question on screen.
SPECIFICATION Spec
CONSTANTS
    PanicHold = 1
    Samples <- UpSamples
    QueueSize = 1
    SleepHold = 2
    StorageFails = FALSE
    MaxActivities = 1
    MaxGames = 1
    MaxPowerups = 0
INVARIANTS RoundLeavesScreen
