\* The same menu, and a file whose int lies outside its range.
SPECIFICATION Spec
CONSTANTS
    A = A
    L = L
    N = N
    D = D
    NoSym = NoSym
    Modules = NoSym
    Sym <- MCSym
    Tristate = {}
    Ints = {N}
    Choice = {}
    Optional = {}
    Members <- MCMembers
    Uses <- MCUses
    Attr <- MCAttr
    MaxInt = 3
    Files <- MCFilesOutside
    Faults = {}
INVARIANTS
    UpToDate
