SPECIFICATION SessionsSpec
CONSTANTS
    Tabs = {one, two}
    Challenges = {left, right}
    NoChallenge = NoChallenge
    Sessions = {s1, s2}
    NoSession = NoSession
    Tokens = {k1, k2, k3}
    NoToken = NoToken
    Faults = TRUE
    Accounts = {left, right}
    NoAccount = NoAccount
    Syncs = {one, two}
    MaxSwitches = 2
SYMMETRY Interchangeable
CHECK_DEADLOCK FALSE
INVARIANTS
    SessionsTypeOK
    ChallengeOpensOneSession
    TokenRedeemedOnce
    EndedSessionServesNobody
    WaitingIsServed
PROPERTIES
    RevokedIsFinal
