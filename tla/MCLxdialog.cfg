\* Every box with all its keys, opened again and again.
SPECIFICATION LxSpec
CONSTANTS
    Letter <- MCLetter
    HotKeys = {"a", "b", "s"}
    Counts = {0, 2, 6}
    Heights = {3, 4}
    ResizeAfterScroll = FALSE
    ListCounts = {0, 2, 5}
    ListHeight = 3
    MaxEmpty = 4
    Chars = {"p", "q"}
    Blank = Blank
    Texts <- MCTexts
    BoxWidth = 2
    MaxLen = 4
    Lengths = {1, 2, 5, 8}
    TextHeights = {1, 2, 4}
    JumpAt = {1, 2, 3, 5}
    JUMP_NB = 2
INVARIANTS
    OnScreen
    FieldTrue
    PageTrue
PROPERTIES
    Selects
