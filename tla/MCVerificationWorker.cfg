SPECIFICATION WorkerSpec
CONSTANTS
    Workers = {w1, w2}
    Quests = {q1, q2}
    Proofs = {p1, p2, p3}
    NoProof = NoProof
    Scenarios <- SomeScenarios
    Valid = {p1}
    BatchSize = 2
    MaxSubmissions = 2
    p1 = p1
    p2 = p2
    p3 = p3
    q1 = q1
    q2 = q2
CHECK_DEADLOCK FALSE
INVARIANTS
    WorkerTypeOK
    OnlyValidProofsAccepted
    CountedOnce
    DecidedAsOnChain
PROPERTIES
    VerdictIsFinal
    QueuedProofIsDecided
