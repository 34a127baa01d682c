SPECIFICATION QuestBackendSpec
CONSTANTS
    Users = {u1, u2}
    NoUser = NoUser
    Quests = {q1}
    ChainIds = {c1}
    NoChainId = NoChainId
    Requests = {r1, r2}
    DailyLimit = 1
    LastDay = 0
CHECK_DEADLOCK FALSE
PROPERTY
    NobodyIsReplaced
