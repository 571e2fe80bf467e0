CONSTANTS
    Line <- MCLine
    Text <- MCText
    MaxLines = 5
    SegLen = 28
    IdxLen = 8
    MaxKnjAsk = 2
    MaxYomiAsk = 2
    MaxAskBytes = 255
    MaxYomi = 3
    MaxKanji = 6
    MaxHinsi = 2
    Tankan = 2
    Kata = 10
    Depend = {3}
    MaxWdYomiLen = 3
SPECIFICATION Spec
INVARIANTS SearchExact EstimateHolds
PROPERTY SearchEnds
CHECK_DEADLOCK FALSE
