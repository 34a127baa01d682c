SPECIFICATION BackendSpec
CONSTANTS
    Requests = {r1, r2}
    NoTx = NoTx
    MaxDay = 2
    FaultSets = {{}, {"crash", "lostReply", "dbError"}, {"slow", "revert"}}
    Refreshes = {k1, k2}
    MaxSignals = 1
    MaxFailures = 2
    MaxStarts = 2
CHECK_DEADLOCK FALSE
INVARIANTS
    BackendTypeOK
    OneTransferWithoutFaults
    BooksBackedByChain
    PaidMeansBooked
    ActiveSnapshotIsNewest
PROPERTIES
    PaidIsFinal
    ImplementsDailyBonus
    RequestsFinish
    ServicesBecomeReady
    ShutdownEnds
