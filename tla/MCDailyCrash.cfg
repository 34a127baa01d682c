SPECIFICATION DailySpec
CONSTANTS
    Requests = {r1, r2}
    NoTx = NoTx
    MaxDay = 1
    FaultSets = {{"crash"}}
CHECK_DEADLOCK FALSE
INVARIANT
    OneTransferPerDay
