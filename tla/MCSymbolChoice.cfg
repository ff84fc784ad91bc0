\* The symbol engine on a menu with a bool choice that is not optional.
SPECIFICATION Spec
CONSTANTS
    A = A
    C = C
    V1 = V1
    V2 = V2
    E = E
    NoSym = NoSym
    Modules = NoSym
    Sym <- MCSym
    Tristate = {}
    Ints = {}
    Choice = {C}
    Optional = {}
    Members <- MCMembers
    Uses <- MCUses
    Attr <- MCAttr
    MaxInt = 2
    Files <- MCFiles
    Faults = {}
INVARIANTS
    RequestHonoured
    RoundTrip
    OneOfChoice
