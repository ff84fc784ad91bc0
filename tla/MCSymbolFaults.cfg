\* The same menu, with a conf_write whose rename fails and a conf_read of a file
\* that does not exist: either alone loses an edit.
SPECIFICATION Spec
CONSTANTS
    A = A
    L = L
    N = N
    D = D
    NoSym = NoSym
    Modules = NoSym
    Sym <- MCSym
    Tristate = {}
    Ints = {N}
    Choice = {}
    Optional = {}
    Members <- MCMembers
    Uses <- MCUses
    Attr <- MCAttr
    MaxInt = 3
    Files <- MCFiles
    Faults = {"rename", "missing"}
INVARIANTS
    NoLostEdits
