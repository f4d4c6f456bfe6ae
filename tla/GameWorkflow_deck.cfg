\* Dealing under every kind of input, one badge, no Signals; and that the round ends.
SPECIFICATION FairSpec
CONSTANTS
    Badges = {b1}
    Rust <- MCRust
    Inputs <- DeckInputs
    Duration = 4
    ChaosDuration = 3
    Extension = 3
    TickLength = 2
    ActivityTimeout = 9
    Answers = {"wrong"}
    MaxScheduled = 4
    MaxPowerups = 2
    MaxAttempt = 0
    MaxSignals = 0
    MaxLag = 1
INVARIANTS TypeOK ModifiersExclusive ModifiersSwept UniqueActivityIds NoCardLost FieldFed OneLateAnswer
PROPERTIES KeepsPromise RoundFinishes
