SPECIFICATION FairSpec
CONSTANTS
    Fd = {4, 5, 6}
    ListenFd = 3
    Dict = {}
    Stdy = {s1}
    NoStdy = NoStdy
    ReadOnly = {}
    PreOpened = {}
    PreLoaded = {}
    MaxClient = 2
    MaxRefcnt = 2
    MaxBacklog = 1
INVARIANTS
    ClientTable
    NoBlockingRead
PROPERTIES
    ClientServed
    ConnectionTaken
