SPECIFICATION Spec
CONSTANTS
    w1 = w1
    w2 = w2
    NoFd = NoFd
    Workers <- MCOneWorker
    Fds <- MCFds
    Mortal <- MCMortal
    SocketFd <- MCSocketFd
    PipeFd <- MCPipeFd
    MaxRequests <- MCMoreRequests
    MaxPending <- MCMaxPending
CHECK_DEADLOCK FALSE
PROPERTIES Served HardExitEnds
