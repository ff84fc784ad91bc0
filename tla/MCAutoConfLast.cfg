SPECIFICATION Spec
CONSTANTS
    Sym <- MCSym
    Bool <- MCBool
    Val <- MCVal
    Settle <- MCSettle
    MaxCrashes = 2
INVARIANTS
    LastStep
