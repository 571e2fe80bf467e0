SPECIFICATION Spec
CONSTANTS
    Fd = {4, 5}
    ListenFd = 3
    Dict = {d1, d2}
    Stdy = {}
    NoStdy = NoStdy
    ReadOnly = {d1}
    PreOpened = {d1}
    PreLoaded = {}
    MaxClient = 2
    MaxRefcnt = 2
    MaxBacklog = 1
INVARIANTS
    TypeOK
    RefcntCoversHolders
    NoStaleLock
PROPERTY LockedDictionaryUnchanged
