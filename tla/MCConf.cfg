\* Processes of conf one after the other, a choice that must have a value.
SPECIFICATION ConfSpec
CONSTANTS
    A = A
    B = B
    C = C
    D = D
    I = I
    O = O
    V1 = V1
    V2 = V2
    W = W
    NoSym = NoSym
    Modules = NoSym
    Sym <- MCSym
    Tristate = {}
    Ints = {I}
    Choice = {C, O}
    Optional = {O}
    Members <- MCMembers
    Uses <- MCUses
    Attr <- MCAttr
    MaxInt = 3
    Files <- MCFiles
    Faults = {}
    Entries <- MCEntries
    Root = "root"
    Kids <- MCKids
    SymOf <- MCSymOf
    Kind <- MCKind
    Shown <- MCShown
    HashOrder <- MCHashOrder
    AllNoY = {D}
    Modes = {"oldaskconfig", "oldconfig", "syncconfig", "nosilentupdate", "listnewconfig", "olddefconfig", "savedefconfig", "defconfig", "allnoconfig", "allyesconfig", "allmodconfig", "alldefconfig", "randconfig"}
    Seeds <- MCSeeds
INVARIANTS
    Complete
    NotSilently
    MinimalSuffices
    Answered
PROPERTIES
    Ends
