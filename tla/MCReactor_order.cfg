CONSTANTS
    c1 = c1
    c2 = c2
    c3 = c3
    w1 = w1
    w2 = w2
    Listen = Listen
    Epoll = Epoll
    NoFile = NoFile
    NoJob = NoJob
    Workers = {w1, w2}
    Clients = {c1}
    Gets = {c1}
    Parts = 2
    MaxSegments = 2
    MayClose = {}
    MaySignal = FALSE
    MaxFaults = 0
    MaxEvents = 1
    Fds = {3, 4, 5, 6}
    ServerFd = 3
    EpollFd = 4
SPECIFICATION Spec
INVARIANT FedInOrder
CHECK_DEADLOCK FALSE
