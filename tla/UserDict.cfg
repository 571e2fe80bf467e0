SPECIFICATION Spec
CONSTANTS
    Word <- MCWord
    SegLen = 8
    MaxUnit = 3
    IdxLen = 8
    MaxKouho = 3
    StudyMax = 3
    MainOfs <- MCMain
INVARIANTS
    RegisteredFound
    ListingExact
PROPERTIES
    StudyTable
