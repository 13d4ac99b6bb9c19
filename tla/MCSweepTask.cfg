CONSTANTS
    w1 = w1
    w2 = w2
    w3 = w3
    Worker <- MCWorker3
    Slot <- MCSlot3
    RelPages <- MCRelPages4
    MaxErrors = 1
SPECIFICATION FairSpec
INVARIANTS
    TypeOK
    WorkersCounted
    NoDoubleSweep
    SweepComplete
PROPERTIES
    Termination
    SweepRefinesPages
