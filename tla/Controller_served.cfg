\* The one Query of the resume fails.
SPECIFICATION Spec
CONSTANTS
    Games = {g1, g2}
    NoGame = NoGame
    Requests = {r1, r2}
    MaxVersion = 2
PROPERTIES ServesRestoredState
