SPECIFICATION Spec
CONSTANTS
    w1 = w1
    w2 = w2
    NoFd = NoFd
    Workers <- MCWorkers
    Fds <- MCFds
    Mortal <- MCMortal
    SocketFd <- MCSocketFd
    PipeFd <- MCPipeFd
    MaxRequests <- MCMaxRequests
    MaxPending <- MCMaxPending
CHECK_DEADLOCK FALSE
INVARIANTS TypeOK OnePlace InStep Watched
PROPERTIES ImplementsRounds
