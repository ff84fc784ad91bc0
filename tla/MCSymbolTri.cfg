\* Modules, a tristate and an imply, with failing reads and writes.
SPECIFICATION Spec
CONSTANTS
    M = M
    T = T
    U = U
    C = C
    V = V
    W = W
    NoSym = NoSym
    Modules = M
    Sym <- MCSymImply
    Tristate = {T, U}
    Ints = {}
    Choice = {}
    Optional = {}
    Members <- MCMembers
    Uses <- MCUses
    Attr <- MCAttr
    MaxInt = 2
    Files <- MCFiles
    Faults = {"rename", "missing"}
INVARIANTS
    UpToDate
    RequestHonoured
    Bounded
