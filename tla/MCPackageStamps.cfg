SPECIFICATION Spec
CONSTANTS
    Pkg <- MCPkg
    Deps <- MCDeps
    Installs <- MCInstalls
    Override <- MCOverride
    Goals <- MCGoals
    ByHand = {"target"}
    Breakable <- Steps
INVARIANTS
    StampsTrue
    Delivered
    DepsFirst
