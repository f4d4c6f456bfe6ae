\* The late answer of an Update against the frozen final board.
SPECIFICATION Spec
CONSTANTS
    Games = {g1, g2}
    NoGame = NoGame
    Requests = {r1, r2}
    MaxVersion = 2
PROPERTIES FinalBoardFreezes
