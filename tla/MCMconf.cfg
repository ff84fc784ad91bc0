\* Two files; the process may end in any box.
SPECIFICATION Spec
CONSTANTS
    A = A
    B = B
    C = C
    D = D
    I = I
    V1 = V1
    V2 = V2
    NoSym = NoSym
    Sym <- MCSym
    Entries <- MCEntries
    Root = "root"
    Kids <- MCKids
    SymOf <- MCSymOf
    Kind <- MCKind
    Choice = {C}
    Strings = {I}
    Values <- MCValues
    Dep <- MCDep
    Open <- MCOpen
    Paths = {"config", "profile"}
    DotConfig = "config"
    Default <- MCDefault
    Absent = Absent
    MaxDepth = 4
    MaxEdits = 2
INVARIANTS
    NothingLost
    JumpShown
CHECK_DEADLOCK FALSE
