SPECIFICATION Spec
CONSTANTS
    Letter <- MCLetter
    MAXFLVL = 10
    CREC = 4
INVARIANTS
    ScanExact
    TablesFit
