CONSTANTS
    c1 = c1
    c2 = c2
    c3 = c3
    w1 = w1
    w2 = w2
    Listen = Listen
    Epoll = Epoll
    NoFile = NoFile
    NoJob = NoJob
    Workers = {w1, w2}
    Clients = {c1, c2, c3}
    Gets = {c1, c2}
    Parts = 1
    MaxSegments = 1
    MayClose = {}
    MaySignal = TRUE
    MaxFaults = 1
    MaxEvents = 2
    Fds = {3, 4, 5, 6}
    ServerFd = 3
    EpollFd = 4
SPECIFICATION Spec
INVARIANTS UnreadIsScheduled NoUseAfterFree WaitingIsMerged
PROPERTY ServiceSafe
CHECK_DEADLOCK FALSE
