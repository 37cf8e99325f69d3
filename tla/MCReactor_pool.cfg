CONSTANTS
    c1 = c1
    c2 = c2
    c3 = c3
    w1 = w1
    w2 = w2
    Listen = Listen
    Epoll = Epoll
    NoFile = NoFile
    NoJob = NoJob
    Workers = {w1, w2}
    Clients = {c1}
    Gets = {c1}
    Parts = 2
    MaxSegments = 2
    MayClose = {c1}
    MaySignal = TRUE
    MaxFaults = 0
    MaxEvents = 2
    Fds = {3, 4, 5, 6}
    ServerFd = 3
    EpollFd = 4
SPECIFICATION FairSpec
INVARIANTS TypeOK UnreadIsScheduled OrderLostInOverlap EndHasReason
PROPERTIES ServiceSafe RequestAnswered SignalEndsAtConnection
CHECK_DEADLOCK FALSE
