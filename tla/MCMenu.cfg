\* Every small file of four languages.
SPECIFICATION Spec
CONSTANTS
    Type <- MCType
    Digit = 0
    Order <- MCOrder
    NoSym = NoSym
    ChoiceSym = "Ch"
    OptionalChoice = FALSE
    Modules = "n"
    Languages <- MCLanguages
INVARIANTS
    ConditionsKept
    InOrder
    Reachable
    RecursionFound
CHECK_DEADLOCK FALSE
