\* Where the code goes another way than its documents: the source after the one
\* whose helper failed is not tried, and source-check passes over what is there.
SPECIFICATION Spec
CONSTANTS
    Files = 2
    Methods = {"git", "http"}
    Primaries = {"none"}
    MaxCleans = 1
INVARIANTS
    InTurn
    ChecksAll
