SPECIFICATION Spec
CONSTANTS
    Pkg <- MCPkg
    Deps <- MCDeps
    Installs <- MCInstalls
    Override = {}
    Goals <- HandGoals
    ByHand = {"configured"}
    Breakable = {}
INVARIANTS
    Recompiled
