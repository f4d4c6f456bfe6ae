\* A choice made on one question, taken by the Activity of the next.
SPECIFICATION Spec
CONSTANTS
    PanicHold = 1
    Samples <- UpSamples
    QueueSize = 1
    SleepHold = 2
    StorageFails = FALSE
    MaxActivities = 2
    MaxGames = 1
    MaxPowerups = 0
INVARIANTS AnswersItsQuestion
