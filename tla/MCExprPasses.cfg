\* Every pass over conditions of up to three operands.
SPECIFICATION Spec
CONSTANTS
    Type <- MCType
    Digit <- MCDigit
    Exprs <- MCExprs
    Others <- MCOthers
    Valuations <- MCValuations
INVARIANTS
    SameMeaning
    SupersetImplies
    Compared
    Printed
CHECK_DEADLOCK FALSE
