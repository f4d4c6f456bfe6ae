\* Scoring, panics and Signals in any order, in rounds of today and recorded
\* histories of every patch level: two badges, up to two slots, three answers.
SPECIFICATION Spec
CONSTANTS
    Badges = {b1, b2}
    Rust <- MCRust
    Inputs <- ScoreInputs
    Duration = 2
    ChaosDuration = 1
    Extension = 1
    TickLength = 1
    ActivityTimeout = 9
    Answers = {"correct", "wrong", "malformed"}
    MaxScheduled = 4
    MaxPowerups = 1
    MaxAttempt = 1
    MaxSignals = 1
    MaxLag = 0
SYMMETRY Symmetry
INVARIANTS QuestionsAccounted ScoresAddUp FinalStandings
PROPERTIES ClosesForAReason
