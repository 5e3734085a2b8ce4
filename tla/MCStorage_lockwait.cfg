SPECIFICATION Spec
CONSTANTS
    p1 = p1
    p2 = p2
    p3 = p3
    p4 = p4
    NoPath = NoPath
    NoWrite = NoWrite
    Clients <- MCSharingClients
    Paths <- MCSharingPaths
    MaxFiles <- MCSharingFiles
    MaxSize <- MCMaxSize
    Sizes <- MCSizes
    Counts <- MCCounts
    MaxOpens <- MCMaxOpens
CHECK_DEADLOCK FALSE
INVARIANTS LockWaitersWait
