SPECIFICATION WalletSessionSpec
CONSTANTS
    Accounts = {left, right}
    NoAccount = NoAccount
    Syncs = {one, two}
    MaxSwitches = 2
CHECK_DEADLOCK FALSE
INVARIANT
    AuthenticatedAsConnected
