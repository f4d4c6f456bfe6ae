\* Two rounds, two requests at a time, any number of restarts.
SPECIFICATION FairSpec
CONSTANTS
    Games = {g1, g2}
    NoGame = NoGame
    Requests = {r1, r2}
    MaxVersion = 2
INVARIANTS SlotOwned RunningRoundKnown BoardNeverAhead ClaimBacked
PROPERTIES SlotFreed
