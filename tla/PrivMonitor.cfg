SPECIFICATION FairSpec
CONSTANTS
    BUFSIZ = 3
    Known = {2, 4}
INVARIANTS
    InStep
PROPERTY LookupAnswered
