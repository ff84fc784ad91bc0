\* An int with two defaults, hidden while it has the one: entering that one later
\* is accepted and changes nothing, because conf_read has kept its string.
SPECIFICATION Spec
CONSTANTS
    A = A
    L = L
    N = N
    D = D
    NoSym = NoSym
    Modules = NoSym
    Sym <- MCSym
    Tristate = {}
    Ints = {N}
    Choice = {}
    Optional = {}
    Members <- MCMembers
    Uses <- MCUses
    Attr <- MCAttrTwo
    MaxInt = 3
    Files <- MCFilesKept
    Faults = {}
INVARIANTS
    NoLostEdits
    UpToDate
    RequestHonoured
