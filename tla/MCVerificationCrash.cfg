SPECIFICATION WorkerSpec
CONSTANTS
    Workers = {w1}
    Quests = {q1}
    Proofs = {p1}
    NoProof = NoProof
    Scenarios <- OneProof
    Valid = {p1}
    BatchSize = 1
    MaxSubmissions = 1
    p1 = p1
    p2 = p2
    p3 = p3
    q1 = q1
    q2 = q2
CHECK_DEADLOCK FALSE
PROPERTY
    EveryQueuedProofIsDecided
