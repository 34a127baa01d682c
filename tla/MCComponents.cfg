SPECIFICATION ComponentsSpec
CONSTANTS
    Treasuries = {treasury1}
    Callers = {manager, stranger}
    Players = {alice}
    NoPlayer = NoPlayer
    OwnersSwitch = TRUE
    QuestIds = {0, 1, 2}
    Amounts = {1, 2}
    CapChoices = {1, 2}
    InitialCap = 2
    MaxBalance = 4
    XpGains = {1, 2}
    XpPerLevel = 2
    DayLength = 2
    MaxXp = 2
    MaxTime = 2
    Users = {u1, u2}
    NoUser = NoUser
    Quests = {q1}
    ChainIds = {c1}
    NoChainId = NoChainId
    Requests = {r1, r2}
    DailyLimit = 1
    LastDay = 1
    PlayerLevels = {0, 1, 2, 3, 4, 5, 6, 7, 8, 9, 10, 11, 12, 13, 14, 15, 30}
    Streaks = {0, 2, 3, 5, 7, 8}
    WorldMultipliers = {1000, 1001, 1125, 1150, 1500}
    MaxGenerated = 2
    MaxCommands = 2
    PageAccounts = {a1}
    NoPageAccount = NoPageAccount
    PageQuests = {q1, q2}
    NoPageQuest = NoPageQuest
    Handlers = {h1, h2}
CHECK_DEADLOCK FALSE
INVARIANTS
    ComponentsTypeOK
    Solvent
    TotalIsSumOfReservations
    DailyOverrunIsBounded
    PayoutBackedByItsCreator
    ValidatorKeepsTheDraft
    ObjectiveStatesTheMinimum
    OutcomeCountedOnce
    ResolvedMeansProjected
    ShownWasServed
PROPERTIES
    ImplementsEscrow
    ProgressIsNeverLost
    ReplayRestoresRows
