SPECIFICATION BusySpec
CONSTANTS
    w1 = w1
    w2 = w2
    w3 = w3
    fd1 = fd1
    fd2 = fd2
    NoFd = NoFd
    Workers <- MCWorkers
    Fds <- MCFds
    MAX_REQUESTS <- MCCapacity
PROPERTIES FullQueueDrains
