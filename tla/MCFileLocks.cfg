SPECIFICATION Spec
CONSTANTS
    w1 = w1
    w2 = w2
    w3 = w3
    f1 = f1
    f2 = f2
    f3 = f3
    Nobody = Nobody
    NoFile = NoFile
    Left = Left
    Workers <- MCWorkers
    Files <- MCFiles
CHECK_DEADLOCK FALSE
INVARIANTS TypeOK StorageExclusive LocksAccounted ReadersCounted RemovedUnused  DeadlocksKnown
PROPERTIES SleepersStay JammedForGood 
SYMMETRY MCSymmetry
