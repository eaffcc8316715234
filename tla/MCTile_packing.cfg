\* The tile with an unlock() that may answer anything, and calls that fail.
SPECIFICATION Spec
CONSTANTS
    t1 = t1
    x1 = x1
    x2 = x2
    Tiles = {t1}
    Texts = {x1, x2}
    Blank = blank
    Empty = empty
INVARIANTS
    TypeOK
    NothingLeftBehind
    FinishedHandsOver
    TitleIsLastAnswer
PROPERTIES
    CodeTypedAgain
