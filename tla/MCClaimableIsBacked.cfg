SPECIFICATION Spec
CONSTANTS
    Treasuries = {treasury1}
    Manager = manager
    Callers = {manager}
    Players = {alice}
    NoPlayer = NoPlayer
    OwnersSwitch = FALSE
    QuestIds = {0, 1, 2}
    MaxQuests = 2
    Amounts = {1}
    CapChoices = {}
    InitialCap = 1
    MaxBalance = 2
    XpGains = {}
    XpPerLevel = 1
    DayLength = 1
    MaxXp = 0
    MaxTime = 1
    Verifiers = {verifier}
    Proofs = {proof1, proof2}
    NoProof = NoProof
    NoHash = NoHash
    MaxSingleReward = 1
    AcceptanceFee = 1
    ClaimAmount = 1
    CreateValues = {0, 2}
    Durations = {1}
    MaxQuestDuration = 1
    MaxClaims = 2
INVARIANT
    ClaimableIsBacked
