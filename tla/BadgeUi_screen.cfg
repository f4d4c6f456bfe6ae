\* Two questions over two rounds, with sleep, side buttons and one overlay.
SPECIFICATION Spec
CONSTANTS
    PanicHold = 1
    Samples <- SleepSamples
    QueueSize = 1
    SleepHold = 2
    StorageFails = TRUE
    MaxActivities = 2
    MaxGames = 2
    MaxPowerups = 1
INVARIANTS TypeOK ChoicesAreOfTheScreen NoPressCarriesOver OneHoldOneCrash QuestionOwnsScreen
