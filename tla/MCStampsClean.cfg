SPECIFICATION Spec
CONSTANTS
    Pkg <- MCPkg
    Deps <- MCDeps
    Installs <- MCInstalls
    Override = {}
    Goals <- CleanGoals
    ByHand = {}
    Breakable = {"cleaned"}
INVARIANTS
    StampsTrue
