SPECIFICATION AuthSpec
CONSTANTS
    Tabs = {tab1, tab2}
    Challenges = {c1, c2}
    NoChallenge = NoChallenge
    Sessions = {s1, s2}
    NoSession = NoSession
    Tokens = {k1, k2, k3}
    NoToken = NoToken
    Faults = FALSE
CHECK_DEADLOCK FALSE
INVARIANT
    LogoutEndsSession
