\* oldconfig asks for W without asking for it.
SPECIFICATION LoopSpec
CONSTANTS
    C = C
    V1 = V1
    V2 = V2
    W = W
    NoSym = NoSym
    Modules = NoSym
    Sym <- MCSym
    Tristate = {}
    Ints = {}
    Choice = {C}
    Optional = {}
    Members <- MCMembers
    Uses <- MCUses
    Attr <- MCAttr
    MaxInt = 2
    Files <- MCFiles
    Faults = {}
    Entries <- MCEntries
    Root = "root"
    Kids <- MCKids
    SymOf <- MCSymOf
    Kind <- MCKind
    Shown <- MCShown
    HashOrder <- MCHashOrder
    AllNoY = {}
    Modes = {"oldconfig"}
    Seeds = {}
PROPERTY
    Ends
