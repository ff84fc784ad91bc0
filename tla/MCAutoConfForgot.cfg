\* make, ended by a signal, removes the auto.conf that a rename has changed: what
\* loses its line then is passed over, though it was built with one.
SPECIFICATION Spec
CONSTANTS
    Sym <- MCSym
    Bool <- MCBool
    Val <- MCVal
    Settle <- MCSettle
    MaxCrashes = 2
INVARIANTS
    NeitherOldNorNew
