---------------------------- MODULE WalletSession ----------------------------
(***************************************************************************)
(* frontend/src/context/WalletContext.tsx over the requests of lib/api.ts, *)
(* in one tab: the accounts of the wallet extension are read again at      *)
(* every change, sessions are restored, opened and ended by requests that  *)
(* answer later, and what an answer does depends on what was captured when *)
(* its request began.                                                      *)
(***************************************************************************)
EXTENDS Naturals

CONSTANTS
    Accounts, NoAccount,
    Syncs,        \* runs of syncWalletState that may be under way at once
    MaxSwitches   \* bound on events of the wallet extension

ASSUME WalletSessionAssumption ==
    /\ NoAccount \notin Accounts
    /\ MaxSwitches \in Nat

VARIABLES
    exposed,      \* the account the wallet extension exposes
    address,      \* activeAddressRef
    connected,    \* the status is connected, and the address shown
    authStatus,
    accessToken,  \* the wallet of the access token in memory
    cookieWallet, \* the wallet of the session of the refresh cookie
    sync,         \* sync[s]: a run of syncWalletState
    restoring,    \* restorePromiseRef: the wallet a session is restored for
    refresh,      \* refreshPromise of the API client
    signIn,       \* authenticatePromiseRef
    logout,       \* logout[p]: the logout request sent for a purpose
    switchesLeft

clientVars == <<exposed, address, connected, authStatus, accessToken, cookieWallet, sync,
                restoring, refresh, signIn, logout, switchesLeft>>

MaybeAccount == Accounts \cup {NoAccount}

AuthStatuses == {"idle", "restoring", "authenticating", "authenticated",
                 "unauthenticated", "expired", "error"}

\* Who waits for a logout: a change of wallet, a session of another wallet, the
\* disconnect button, and nobody when the extension exposes no account.
Purposes == {"changed", "mismatch", "disconnect", "gone"}

Sync == [step : {"idle", "read", "apply", "changed", "restore"}, account : MaybeAccount,
         asks : BOOLEAN]

NoSync == [step |-> "idle", account |-> NoAccount, asks |-> FALSE]
NoRefresh == [step |-> "idle", wallet |-> NoAccount]
NoSignIn == [step |-> "idle", account |-> NoAccount]

WalletSessionTypeOK ==
    /\ exposed \in MaybeAccount
    /\ address \in MaybeAccount
    /\ connected \in BOOLEAN
    /\ authStatus \in AuthStatuses
    /\ accessToken \in MaybeAccount
    /\ cookieWallet \in MaybeAccount
    /\ sync \in [Syncs -> Sync]
    /\ restoring \in MaybeAccount
    /\ refresh \in [step : {"idle", "sent", "answered"}, wallet : MaybeAccount]
    /\ signIn \in [step : {"idle", "sign", "verify", "answered"}, account : MaybeAccount]
    /\ logout \in [Purposes -> {"idle", "sent", "answered"}]
    /\ switchesLeft \in 0..MaxSwitches

WalletSessionInit ==
    /\ exposed \in MaybeAccount
    /\ address = NoAccount
    /\ connected = FALSE
    /\ authStatus = "idle"
    /\ accessToken = NoAccount
    /\ cookieWallet \in MaybeAccount
    /\ sync = [s \in Syncs |-> NoSync]
    /\ restoring = NoAccount
    /\ refresh = NoRefresh
    /\ signIn = NoSignIn
    /\ logout = [p \in Purposes |-> "idle"]
    /\ switchesLeft = MaxSwitches

-----------------------------------------------------------------------------

\* accountsChanged, chainChanged, the first load, and the connect and switch
\* buttons, which ask for a signature when there is no session to restore.
WalletEvent(s, account, asks) ==
    /\ switchesLeft > 0
    /\ switchesLeft' = switchesLeft - 1
    /\ exposed' = account
    /\ sync[s].step = "idle"
    /\ sync' = [sync EXCEPT ![s] = [NoSync EXCEPT !.step = "read", !.asks = asks]]
    /\ UNCHANGED <<address, connected, authStatus, accessToken, cookieWallet, restoring,
                   refresh, signIn, logout>>

AskLogout(p) == logout' = [logout EXCEPT ![p] = "sent"]

ReadAccounts(s) ==
    /\ sync[s].step = "read"
    /\ exposed # NoAccount
    /\ sync' = [sync EXCEPT ![s].step = "apply", ![s].account = exposed]
    /\ UNCHANGED <<exposed, address, connected, authStatus, accessToken, cookieWallet, restoring, refresh,
                   signIn, logout, switchesLeft>>

\* The logout is not waited for.
ReadNoAccounts(s) ==
    /\ sync[s].step = "read"
    /\ exposed = NoAccount
    /\ IF address # NoAccount THEN AskLogout("gone") ELSE UNCHANGED logout
    /\ address' = NoAccount
    /\ connected' = FALSE
    /\ authStatus' = "unauthenticated"
    /\ sync' = [sync EXCEPT ![s] = NoSync]
    /\ UNCHANGED <<exposed, accessToken, cookieWallet, restoring, refresh, signIn, switchesLeft>>

\* A read of the wallet fails: the page shows no address, the ref keeps it.
SyncFails(s) ==
    /\ sync[s].step \in {"read", "apply"}
    /\ sync' = [sync EXCEPT ![s] = NoSync]
    /\ connected' = FALSE
    /\ authStatus' = "error"
    /\ UNCHANGED <<exposed, address, accessToken, cookieWallet, restoring, refresh, signIn, logout,
                   switchesLeft>>

\* The signer, the chain and the balance have been read since the accounts were.
ApplyChangedAccount(s) ==
    /\ sync[s].step = "apply"
    /\ address \notin {NoAccount, sync[s].account}
    /\ address' = sync[s].account
    /\ connected' = TRUE
    /\ sync' = [sync EXCEPT ![s].step = "changed"]
    /\ AskLogout("changed")
    /\ UNCHANGED <<exposed, authStatus, accessToken, cookieWallet, restoring, refresh, signIn,
                   switchesLeft>>

\* restoreAuthSession shares a refresh that is under way.
AskRefresh == refresh' = IF refresh.step = "idle"
                          THEN [step |-> "sent", wallet |-> NoAccount]
                          ELSE refresh

ApplyAccount(s) ==
    /\ sync[s].step = "apply"
    /\ address \in {NoAccount, sync[s].account}
    /\ restoring = NoAccount
    /\ address' = sync[s].account
    /\ connected' = TRUE
    /\ restoring' = sync[s].account
    /\ authStatus' = "restoring"
    /\ AskRefresh
    /\ sync' = [sync EXCEPT ![s].step = "restore"]
    /\ UNCHANGED <<exposed, accessToken, cookieWallet, signIn, logout, switchesLeft>>

\* restoreSessionForWallet answers with the restore that is under way, whichever
\* wallet that is for.
JoinRestore(s) ==
    /\ sync[s].step = "apply"
    /\ address \in {NoAccount, sync[s].account}
    /\ restoring # NoAccount
    /\ address' = sync[s].account
    /\ connected' = TRUE
    /\ sync' = [sync EXCEPT ![s].step = "restore"]
    /\ UNCHANGED <<exposed, authStatus, accessToken, cookieWallet, restoring, refresh, signIn,
                   logout, switchesLeft>>

-----------------------------------------------------------------------------
(* Restoring *)

\* restoreSessionForWallet is between its request and the answer.
RestoreWaits == restoring # NoAccount /\ logout["mismatch"] = "idle"

RefreshServed ==
    /\ refresh.step = "sent"
    /\ refresh' = [step |-> "answered", wallet |-> cookieWallet]
    /\ UNCHANGED <<exposed, address, connected, authStatus, accessToken, cookieWallet, sync, restoring,
                   signIn, logout, switchesLeft>>

RestoreEnds ==
    /\ restoring' = NoAccount
    /\ sync' = [s \in Syncs |-> IF sync[s].step = "restore" THEN NoSync ELSE sync[s]]

\* onSessionChanged, and the restore that waits for the refresh.
RefreshSucceeds ==
    /\ refresh.step = "answered"
    /\ refresh.wallet # NoAccount
    /\ refresh' = NoRefresh
    /\ accessToken' = refresh.wallet
    /\ authStatus' = IF refresh.wallet = address \/ (RestoreWaits /\ refresh.wallet = restoring)
                     THEN "authenticated"
                     ELSE authStatus
    /\ CASE ~RestoreWaits ->
              UNCHANGED <<sync, restoring, logout>>
         [] RestoreWaits /\ refresh.wallet = restoring ->
              RestoreEnds /\ UNCHANGED logout
         [] RestoreWaits /\ refresh.wallet # restoring ->
              AskLogout("mismatch") /\ UNCHANGED <<sync, restoring>>
    /\ UNCHANGED <<exposed, address, connected, cookieWallet, signIn, switchesLeft>>

\* No cookie, a refused one, or an answer that never arrives. The restore sets
\* the status, or the failure event of a refresh begun for a call does.
RefusedStatus == {"unauthenticated", "expired", "error"}

\* Mutant: a refused restore leaves the status alone.
RefreshFailsQuietly ==
    /\ refresh.step # "idle"
    /\ refresh' = NoRefresh
    /\ accessToken' = NoAccount
    /\ authStatus' = authStatus
    /\ IF RestoreWaits THEN RestoreEnds ELSE UNCHANGED <<sync, restoring>>
    /\ UNCHANGED <<exposed, address, connected, cookieWallet, signIn, logout, switchesLeft>>

RefreshFails ==
    /\ refresh.step # "idle"
    /\ refresh' = NoRefresh
    /\ accessToken' = NoAccount
    /\ authStatus' \in (IF RestoreWaits \/ address # NoAccount
                        THEN RefusedStatus
                        ELSE {authStatus})
    /\ IF RestoreWaits THEN RestoreEnds ELSE UNCHANGED <<sync, restoring>>
    /\ UNCHANGED <<exposed, address, connected, cookieWallet, signIn, logout, switchesLeft>>

\* There was no cookie: a sync that asks goes on to authenticateWallet with the
\* account it read.
RefreshMissingAsks(s) ==
    /\ refresh.step = "answered"
    /\ refresh.wallet = NoAccount
    /\ RestoreWaits
    /\ sync[s].step = "restore"
    /\ sync[s].asks
    /\ refresh' = NoRefresh
    /\ accessToken' = NoAccount
    /\ RestoreEnds
    /\ IF signIn.step = "idle"
       THEN /\ signIn' = [step |-> "sign", account |-> sync[s].account]
            /\ authStatus' = "authenticating"
       ELSE /\ authStatus' = "unauthenticated"
            /\ UNCHANGED signIn
    /\ UNCHANGED <<exposed, address, connected, cookieWallet, logout, switchesLeft>>

\* A call is refused for its token, or for having none, and the client refreshes.
CallRefused ==
    /\ refresh.step = "idle"
    /\ AskRefresh
    /\ UNCHANGED <<exposed, address, connected, authStatus, accessToken, cookieWallet, sync, restoring,
                   signIn, logout, switchesLeft>>

-----------------------------------------------------------------------------
(* Signing in *)

AuthenticateWallet ==
    /\ signIn.step = "idle"
    /\ connected
    /\ authStatus \notin {"restoring", "authenticated"}
    /\ authStatus' = "authenticating"
    /\ signIn' = [step |-> "sign", account |-> address]
    /\ UNCHANGED <<exposed, address, connected, accessToken, cookieWallet, sync, restoring, refresh, logout,
                   switchesLeft>>

Sign ==
    /\ signIn.step = "sign"
    /\ signIn' = [signIn EXCEPT !.step = "verify"]
    /\ UNCHANGED <<exposed, address, connected, authStatus, accessToken, cookieWallet, sync, restoring,
                   refresh, logout, switchesLeft>>

VerifyServed ==
    /\ signIn.step = "verify"
    /\ cookieWallet' = signIn.account
    /\ signIn' = [signIn EXCEPT !.step = "answered"]
    /\ UNCHANGED <<exposed, address, connected, authStatus, accessToken, sync, restoring, refresh,
                   logout, switchesLeft>>

\* The session is compared with the wallet that asked for it.
SignedInAs ==
    /\ signIn.step = "answered"
    /\ accessToken' = signIn.account
    /\ authStatus' = "authenticated"
    /\ signIn' = NoSignIn
    /\ UNCHANGED <<exposed, address, connected, cookieWallet, sync, restoring, refresh, logout, switchesLeft>>

\* A rejected signature, a refused one, or an answer that is lost.
SignInFails ==
    /\ signIn.step # "idle"
    /\ signIn' = NoSignIn
    /\ authStatus' \in RefusedStatus
    /\ UNCHANGED <<exposed, address, connected, accessToken, cookieWallet, sync, restoring, refresh, logout,
                   switchesLeft>>

-----------------------------------------------------------------------------
(* Ending a session *)

DisconnectWallet ==
    /\ connected
    /\ logout["disconnect"] = "idle"
    /\ AskLogout("disconnect")
    /\ UNCHANGED <<exposed, address, connected, authStatus, accessToken, cookieWallet, sync, restoring,
                   refresh, signIn, switchesLeft>>

LogoutServed(p) ==
    /\ logout[p] = "sent"
    /\ logout' = [logout EXCEPT ![p] = "answered"]
    /\ cookieWallet' = NoAccount
    /\ UNCHANGED <<exposed, address, connected, authStatus, accessToken, sync, restoring, refresh,
                   signIn, switchesLeft>>

\* onSessionChanged without a session.
SessionGone ==
    IF address = NoAccount \/ authStatus \in {"restoring", "authenticating"}
    THEN authStatus
    ELSE "unauthenticated"

\* The token is dropped and the waiting task goes on, whether or not the request
\* arrived.
LogoutReturns(p) ==
    /\ logout[p] # "idle"
    /\ logout' = [logout EXCEPT ![p] = "idle"]
    /\ accessToken' = NoAccount
    /\ CASE p = "changed" ->
              /\ authStatus' = "expired"
              /\ sync' = [s \in Syncs |-> IF sync[s].step = "changed" THEN NoSync ELSE sync[s]]
              /\ UNCHANGED <<address, connected, restoring>>
         [] p = "mismatch" ->
              /\ authStatus' = "expired"
              /\ RestoreEnds
              /\ UNCHANGED <<address, connected>>
         [] p = "disconnect" ->
              /\ authStatus' = "unauthenticated"
              /\ address' = NoAccount
              /\ connected' = FALSE
              /\ UNCHANGED <<sync, restoring>>
         [] p = "gone" ->
              /\ authStatus' = SessionGone
              /\ UNCHANGED <<address, connected, sync, restoring>>
    /\ UNCHANGED <<exposed, cookieWallet, refresh, signIn, switchesLeft>>

WalletSessionNext ==
    \/ \E s \in Syncs, a \in MaybeAccount, asks \in BOOLEAN : WalletEvent(s, a, asks)
    \/ \E s \in Syncs : ReadAccounts(s)
    \/ \E s \in Syncs : ReadNoAccounts(s)
    \/ \E s \in Syncs : SyncFails(s)
    \/ \E s \in Syncs : ApplyChangedAccount(s)
    \/ \E s \in Syncs : ApplyAccount(s)
    \/ \E s \in Syncs : JoinRestore(s)
    \/ RefreshServed
    \/ RefreshSucceeds
    \/ RefreshFails
    \/ \E s \in Syncs : RefreshMissingAsks(s)
    \/ CallRefused
    \/ AuthenticateWallet
    \/ Sign
    \/ VerifyServed
    \/ SignedInAs
    \/ SignInFails
    \/ DisconnectWallet
    \/ \E p \in Purposes : LogoutServed(p)
    \/ \E p \in Purposes : LogoutReturns(p)

WalletSessionSpec == WalletSessionInit /\ [][WalletSessionNext]_clientVars
-----------------------------------------------------------------------------
(* Properties *)

\* The page waits while a session is restored or a signature verified
\* (isAuthReady), and wallet changes, refreshes and logouts set the status in any
\* order meanwhile: it never waits with nothing under way to end it.
WaitingIsServed ==
    /\ authStatus = "restoring" => restoring # NoAccount
    /\ authStatus = "authenticating" => signIn.step # "idle"
    /\ restoring # NoAccount =>
          refresh.step # "idle" \/ logout["mismatch"] # "idle"

Settled ==
    /\ \A s \in Syncs : sync[s].step = "idle"
    /\ restoring = NoAccount
    /\ refresh.step = "idle"
    /\ signIn.step = "idle"
    /\ \A p \in Purposes : logout[p] = "idle"

\* authenticateWallet refuses a session that does not match the connected wallet
\* (line 501), and a changed wallet has to sign in again (line 359): once nothing
\* is under way, the token of a page that says authenticated is not that of another
\* wallet than the connected one.
AuthenticatedAsConnected ==
    Settled /\ connected /\ authStatus = "authenticated" =>
        accessToken \in {NoAccount, address}
=============================================================================
