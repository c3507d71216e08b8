SPECIFICATION Spec
CONSTANTS
    Width = 3
    Height = 4
    TabStop = 2
    Digits = 3
    Levels = 2
    Texts <- MCTexts
    Numbers <- MCNumbers
    MaxCalls = 2
INVARIANTS
    ShowsTheText
    CursorBounded
    NumbersReadBack
CHECK_DEADLOCK FALSE
