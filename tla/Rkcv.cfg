SPECIFICATION Spec
CONSTANTS
    Letters <- MCLetters
    Files <- MCFiles
    MaxScreen = 4
    MaxLines = 2
CHECK_DEADLOCK FALSE
INVARIANTS KeysAgreeWithString LookupExact
PROPERTIES UndoExact
