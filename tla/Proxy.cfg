CONSTANTS
    c1 = c1
    c2 = c2
    Conns <- MCConns
    Addrs <- MCAddrs
    None = None
    CAP = 2
    UCAP = 1
    BUFSIZ = 2
    REQ = 3
    ANS = 3
    REQUESTS <- MCRequests
    FAULTS = 1
SPECIFICATION Spec
PROPERTIES Streams Answered Reaped
CHECK_DEADLOCK FALSE
