SPECIFICATION InstancesSpec
CONSTANTS
    Treasuries = {treasury1, treasury2}
    Manager = manager
    Callers = {manager}
    Players = {alice, bob}
    NoPlayer = NoPlayer
    FirstPlayer = alice
    FirstProof = proof1
    OwnersSwitch = TRUE
    QuestIds = {0, 1, 2}
    MaxQuests = 2
    Amounts = {1}
    CapChoices = {}
    InitialCap = 1
    MaxBalance = 2
    XpGains = {}
    XpPerLevel = 1
    DayLength = 1
    MaxXp = 0
    MaxTime = 1
    Verifiers = {verifier}
    Proofs = {proof1, proof2}
    NoProof = NoProof
    NoHash = NoHash
    MaxSingleReward = 1
    AcceptanceFee = 1
    ClaimAmount = 1
    CreateValues = {0, 1}
    Durations = {1}
    MaxQuestDuration = 1
    MaxClaims = 1
INVARIANTS
    ProofBelongsToOneQuest
    IInv
    ReservationFollowsQuest
PROPERTIES
    QuestTermsAreFixed
    ReservationClosedByItsQuest
