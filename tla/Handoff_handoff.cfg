\* Two badges, two questions of which one was scheduled after an extension.
SPECIFICATION Spec
CONSTANTS
    Badges = {b1, b2}
    Questions = {q1, q2}
    Nobody = Nobody
    Extended = {q2}
    Verdicts = {TRUE}
    LateSignals = FALSE
    MaxAttempts <- TwoRounds
SYMMETRY Symmetry
INVARIANTS CrashedStaysAway AttemptsAligned NewestOnRecord HandoffsAreAttempts
