\* Three rows of talk, eight messages, one step that displaces the frame.
SPECIFICATION ScreenSpec
CONSTANTS
    Height = 3
    MaxMessages = 8
    MaxStrays = 1
INVARIANTS
    IndexSafe
    Ordered
    EndShowsNewest
    ScreenTypeOK
    Placed
    ErasesOwn
    FillsFit
PROPERTIES
    PagerSteps
CHECK_DEADLOCK FALSE
