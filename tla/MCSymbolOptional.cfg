\* A tristate choice that is optional, with modules.
SPECIFICATION Spec
CONSTANTS
    M = M
    T = T
    U = U
    C = C
    V = V
    W = W
    NoSym = NoSym
    Modules = M
    Sym <- MCSymChoice
    Tristate = {T, C, V, W}
    Ints = {}
    Choice = {C}
    Optional = {C}
    Members <- MCMembers
    Uses <- MCUses
    Attr <- MCAttr
    MaxInt = 2
    Files <- MCFiles
    Faults = {}
INVARIANTS
    UpToDate
