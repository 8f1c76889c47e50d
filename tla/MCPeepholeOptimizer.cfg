SPECIFICATION Spec
CONSTANTS
    Codes <- MCCodes
    Stacks <- MCStacks
    MaxSTSLICECONST = 6
    CellBitLength = 12
INVARIANTS
    TypeOK
    SameEffect
    NeverUndone
CHECK_DEADLOCK FALSE
