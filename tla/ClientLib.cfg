SPECIFICATION Spec
CONSTANTS
    User <- MCUser
    NoUser = NoUser
    NoSess = NoSess
    MainDict = 10
    Private <- MCPrivate
    DictLists <- MCLists
    AppFd <- MCAppFd
    MaxFd = 3
INVARIANTS
    OpenReady
    CloseDisconnects
    RequestsReportDown
    LiveDescriptor
