\* The symbol engine on a menu of bools, a select and an int with a range.
SPECIFICATION Spec
CONSTANTS
    A = A
    L = L
    N = N
    D = D
    NoSym = NoSym
    Modules = NoSym
    Sym <- MCSym
    Tristate = {}
    Ints = {N}
    Choice = {}
    Optional = {}
    Members <- MCMembers
    Uses <- MCUses
    Attr <- MCAttr
    MaxInt = 3
    Files <- MCFiles
    Faults = {}
INVARIANTS
    TypeOK
    UpToDate
    RequestHonoured
    NoLostEdits
    RoundTrip
