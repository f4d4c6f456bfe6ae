\* The panel's own sizes, a window of three events, three entries of a database.
SPECIFICATION Spec
CONSTANTS
    EVENT_WINDOW = 3
    MaxPushed = 8
    Sources <- ThreeEntries
    AuthoredDecks <- MCAuthored
    Maxima = {0, 1, 4, 7, 9}
    Pattern <- MCPattern
    AnswerPanels = 2
    Texts <- MCTexts
    MAX_ANSWER_CHARS = 20
    ANSWER_LABEL_CHARS = 11
    ANSWER_LABEL_LINES = 2
    PULSE = 1
    GAP = 2
    THUMP = 3
    MaxPlayed = 4
    FIRST_OFF = 2
    SECOND_ON = 3
    SECOND_OFF = 5
    MaxFeedback = 3
CHECK_DEADLOCK FALSE
INVARIANTS WindowTellsTheStory GeneralIsFirstOfEach DeckOrNothing WeightsKept NothingSkipped PatternIsFelt
PROPERTIES MotorStops LedsGoDark
