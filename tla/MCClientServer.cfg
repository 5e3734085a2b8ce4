SPECIFICATION ClientsSpec
CONSTANTS
    p1 = p1
    p2 = p2
    NoPath = NoPath
    NoWrite = NoWrite
    NoJob = NoJob
    OptionsOf <- MCOptionsOf
    Clients <- MCClients
    Paths <- MCPaths
    MaxFiles <- MCMaxFiles
    MaxSize <- MCMaxSize
    Sizes <- MCSizes
    Counts <- MCCounts
    MaxOpens <- MCMaxOpens
CHECK_DEADLOCK FALSE
INVARIANTS ClientsTypeOK CarefulClientsClose
PROPERTIES WriteOnlyRefusedIfTaken OrphansStay
SYMMETRY MCSymmetry
VIEW MCView
