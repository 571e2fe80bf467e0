SPECIFICATION Spec
CONSTANTS
    Chars <- MCChars
    Depend <- MCDepend
    Clauses <- MCClauses
    Words <- MCWords
    Gram = {1}
    MaxText = 4
    AreaLen = 30
    Step = 128
INVARIANTS LookupExact FileFollows
PROPERTY OldestGo
