---------------------------- MODULE AuthSessions ----------------------------
(***************************************************************************)
(* backend/src/services/auth.ts and controllers/authController.ts: wallet  *)
(* sign-in by a signed challenge, refresh tokens that rotate, logout and   *)
(* calls with an access token, for one wallet used in several tabs of a    *)
(* browser.  The tabs share the refresh cookie; each keeps its own access  *)
(* token and has one request under way.  Every awaited statement is a step *)
(* of its own, and so is the delivery of a response to the browser.        *)
(*                                                                         *)
(* Challenges, sessions and tokens are random and never drawn twice.       *)
(***************************************************************************)
EXTENDS Naturals

CONSTANTS
    Tabs,
    Challenges, NoChallenge,   \* nonces, with the message built from each
    Sessions, NoSession,
    Tokens, NoToken,           \* refresh tokens; a token stands for its hash
    Faults                     \* whether the storage and the network may fail

ASSUME AuthAssumption ==
    /\ NoChallenge \notin Challenges
    /\ NoSession \notin Sessions
    /\ NoToken \notin Tokens
    /\ Faults \in BOOLEAN

VARIABLES
    challenge,   \* challenge[c]: the state of the AuthChallenge row
    session,     \* session[s]: the AuthSession row
    issued,      \* refresh tokens drawn so far
    rotations,   \* history: how often a token was exchanged for a new one
    cookie,      \* the browser's refresh cookie
    tab          \* tab[t]: the memory of a tab and its request

authVars == <<challenge, session, issued, rotations, cookie, tab>>

\* A spent challenge was consumed or its row deleted: both are refused.
ChallengeStates == {"none", "open", "expired", "spent"}

\* from: history, the challenge that opened the session
SessionRow == [state : {"none", "active", "expired", "revoked"},
               token : Tokens \cup {NoToken}, from : Challenges \cup {NoChallenge}]

Steps == {"idle", "nonceRead", "replace", "insert", "consume", "open",
          "load", "rotate", "signedIn", "refused", "revoke", "loggedOut",
          "call", "served"}

\* nonce: the challenge the tab signed; access: the session of its access token.
\* Of the request: token: the cookie it carried or the token it drew; sid: the
\* session it found or names; victims: rows its transaction deletes; ended:
\* history, whether the session had ended when the call was sent.
Tab == [step : Steps, nonce : Challenges \cup {NoChallenge},
        access : Sessions \cup {NoSession}, token : Tokens \cup {NoToken},
        sid : Sessions \cup {NoSession}, victims : SUBSET Challenges, ended : BOOLEAN]

AuthTypeOK ==
    /\ challenge \in [Challenges -> ChallengeStates]
    /\ session \in [Sessions -> SessionRow]
    /\ issued \subseteq Tokens
    /\ rotations \in [Tokens -> Nat]
    /\ cookie \in Tokens \cup {NoToken}
    /\ tab \in [Tabs -> Tab]

AuthInit ==
    /\ challenge = [c \in Challenges |-> "none"]
    /\ session = [s \in Sessions |-> [state |-> "none", token |-> NoToken,
                                      from |-> NoChallenge]]
    /\ issued = {}
    /\ rotations = [k \in Tokens |-> 0]
    /\ cookie = NoToken
    /\ tab = [t \in Tabs |-> [step |-> "idle", nonce |-> NoChallenge, access |-> NoSession,
                              token |-> NoToken, sid |-> NoSession, victims |-> {},
                              ended |-> FALSE]]

-----------------------------------------------------------------------------

At(t, step) == tab[t].step = step

Go(t, step) == tab' = [tab EXCEPT ![t].step = step]

\* The request is over; the tab goes on with the session of access token a.
Over(t, a) == tab' = [tab EXCEPT ![t] = [@ EXCEPT !.step = "idle", !.access = a,
                                                  !.token = NoToken, !.sid = NoSession,
                                                  !.victims = {}, !.ended = FALSE]]

sessionVars == <<session, issued, rotations, cookie>>

Active(s) == session[s].state = "active"

Unconsumed(c) == challenge[c] \in {"open", "expired"}

\* A transaction that has deleted the row has not committed.
Locked(c) == \E t \in Tabs : At(t, "insert") /\ c \in tab[t].victims

(* issueWalletChallenge *)

\* Expired and consumed challenges of the wallet are deleted.
NonceDelete(t) ==
    /\ At(t, "idle")
    /\ \A c \in Challenges : challenge[c] = "expired" => ~Locked(c)
    /\ challenge' = [c \in Challenges |->
                        IF challenge[c] = "expired" THEN "spent" ELSE challenge[c]]
    /\ Go(t, "nonceRead")
    /\ UNCHANGED sessionVars

\* An open challenge is handed out again, by the clock the deletion used: one
\* that has expired since is handed out too.
NonceRead(t) ==
    /\ At(t, "nonceRead")
    /\ \/ \E c \in Challenges :
             /\ Unconsumed(c)
             /\ tab' = [tab EXCEPT ![t].step = "idle", ![t].nonce = c]
       \/ (\A c \in Challenges : ~Unconsumed(c)) /\ Go(t, "replace")
    /\ UNCHANGED <<challenge, sessionVars>>

\* The transaction deletes the challenges it sees when its DELETE starts, which
\* stay locked until it commits; one that waits for another's lock does not see
\* what that one inserts.
Replace(t) ==
    /\ At(t, "replace")
    /\ tab' = [tab EXCEPT ![t].step = "insert",
                          ![t].victims = {c \in Challenges : Unconsumed(c)}]
    /\ UNCHANGED <<challenge, sessionVars>>

\* It commits with the new challenge.
Insert(t) ==
    /\ At(t, "insert")
    /\ \E new \in Challenges :
          /\ challenge[new] = "none"
          /\ challenge' = [c \in Challenges |->
                              IF c = new THEN "open"
                              ELSE IF c \in tab[t].victims THEN "spent"
                              ELSE challenge[c]]
          /\ tab' = [tab EXCEPT ![t].step = "idle", ![t].nonce = new, ![t].victims = {}]
    /\ UNCHANGED sessionVars

-----------------------------------------------------------------------------
(* verifyWalletChallenge, for a message the wallet has signed *)

VerifyRead(t) ==
    /\ At(t, "idle")
    /\ tab[t].nonce # NoChallenge
    /\ \/ challenge[tab[t].nonce] = "open" /\ Go(t, "consume")
       \/ challenge[tab[t].nonce] # "open" /\ Over(t, tab[t].access)
    /\ UNCHANGED <<challenge, sessionVars>>

\* Mutant: the challenge is marked without looking at it again.
ConsumeUnchecked(t) ==
    /\ At(t, "consume")
    /\ ~Locked(tab[t].nonce)
    /\ challenge' = [challenge EXCEPT ![tab[t].nonce] = "spent"]
    /\ Go(t, "open")
    /\ UNCHANGED sessionVars

\* UPDATE ... WHERE "consumedAt" IS NULL, which waits for a lock on the row and
\* does not look at the expiry again.
Consume(t) ==
    /\ At(t, "consume")
    /\ ~Locked(tab[t].nonce)
    /\ \/ /\ Unconsumed(tab[t].nonce)
          /\ challenge' = [challenge EXCEPT ![tab[t].nonce] = "spent"]
          /\ Go(t, "open")
       \/ /\ ~Unconsumed(tab[t].nonce)
          /\ Over(t, tab[t].access)
          /\ UNCHANGED challenge
    /\ UNCHANGED sessionVars

\* createPersistentSession, in a transaction of its own
Open(t) ==
    /\ At(t, "open")
    /\ \E s \in Sessions, k \in Tokens \ issued :
          /\ session[s].state = "none"
          /\ session' = [session EXCEPT ![s] = [state |-> "active", token |-> k,
                                                from |-> tab[t].nonce]]
          /\ issued' = issued \cup {k}
          /\ tab' = [tab EXCEPT ![t].step = "signedIn", ![t].sid = s, ![t].token = k]
    /\ UNCHANGED <<challenge, rotations, cookie>>

-----------------------------------------------------------------------------
(* refreshAuthSession *)

SendRefresh(t) ==
    /\ At(t, "idle")
    /\ tab' = [tab EXCEPT ![t].token = cookie,
                          ![t].step = IF cookie = NoToken THEN "refused" ELSE "load"]
    /\ UNCHANGED <<challenge, sessionVars>>

Load(t) ==
    /\ At(t, "load")
    /\ \/ \E s \in Sessions :
             /\ session[s].token = tab[t].token
             /\ Active(s)
             /\ tab' = [tab EXCEPT ![t].step = "rotate", ![t].sid = s]
       \/ /\ ~\E s \in Sessions : session[s].token = tab[t].token /\ Active(s)
          /\ Go(t, "refused")
    /\ UNCHANGED <<challenge, sessionVars>>

\* Mutant: the token is not compared again.
CanRotateAnyToken(t) == Active(tab[t].sid)

\* Mutant: a session revoked since it was loaded is renewed.
CanRotateRevoked(t) == session[tab[t].sid].token = tab[t].token

\* The WHERE clause of the update
CanRotate(t) == session[tab[t].sid].token = tab[t].token /\ Active(tab[t].sid)

Rotate(t) ==
    /\ At(t, "rotate")
    /\ \/ /\ CanRotate(t)
          /\ \E k \in Tokens \ issued :
                /\ session' = [session EXCEPT ![tab[t].sid].token = k]
                /\ issued' = issued \cup {k}
                /\ tab' = [tab EXCEPT ![t].step = "signedIn", ![t].token = k]
          /\ rotations' = [rotations EXCEPT ![tab[t].token] = @ + 1]
       \/ /\ ~CanRotate(t)
          /\ Go(t, "refused")
          /\ UNCHANGED <<session, issued, rotations>>
    /\ UNCHANGED <<challenge, cookie>>

\* Mutant: the id of the session is sent as its cookie.
SignedInById(t) ==
    /\ At(t, "signedIn")
    /\ cookie' = tab[t].sid
    /\ Over(t, tab[t].sid)
    /\ UNCHANGED <<challenge, session, issued, rotations>>

\* The response of a sign-in or a refresh sets the cookie ...
SignedIn(t) ==
    /\ At(t, "signedIn")
    /\ cookie' = tab[t].token
    /\ Over(t, tab[t].sid)
    /\ UNCHANGED <<challenge, session, issued, rotations>>

\* ... and that of a failed refresh clears it.
Refused(t) ==
    /\ At(t, "refused")
    /\ cookie' = NoToken
    /\ Over(t, NoSession)
    /\ UNCHANGED <<challenge, session, issued, rotations>>

-----------------------------------------------------------------------------
(* logoutSession *)

\* The access token is only looked at when there is no cookie; the frontend
\* does not send it.
SendLogout(t) ==
    /\ At(t, "idle")
    /\ \E bearer \in {NoSession, tab[t].access} :
          tab' = [tab EXCEPT ![t].step = "revoke", ![t].token = cookie, ![t].sid = bearer]
    /\ UNCHANGED <<challenge, sessionVars>>

Revoke(t) ==
    /\ At(t, "revoke")
    /\ session' = [s \in Sessions |->
                      IF /\ session[s].state \in {"active", "expired"}
                         /\ IF tab[t].token # NoToken THEN session[s].token = tab[t].token
                                                      ELSE s = tab[t].sid
                      THEN [session[s] EXCEPT !.state = "revoked"]
                      ELSE session[s]]
    /\ Go(t, "loggedOut")
    /\ UNCHANGED <<challenge, issued, rotations, cookie>>

LoggedOut(t) ==
    /\ At(t, "loggedOut")
    /\ cookie' = NoToken
    /\ Over(t, NoSession)
    /\ UNCHANGED <<challenge, session, issued, rotations>>

-----------------------------------------------------------------------------
(* requireAuth, for a call with an access token that has not expired *)

SendCall(t) ==
    /\ At(t, "idle")
    /\ tab[t].access # NoSession
    /\ tab' = [tab EXCEPT ![t].step = "call", ![t].sid = tab[t].access,
                          ![t].ended = ~Active(tab[t].access)]
    /\ UNCHANGED <<challenge, sessionVars>>

\* Mutant: the signed token is trusted without looking at its session.
MayServeTrusting(t) == tab[t].sid # NoSession

MayServe(t) == Active(tab[t].sid)

Authenticate(t) ==
    /\ At(t, "call")
    /\ \/ MayServe(t) /\ Go(t, "served")
       \/ ~MayServe(t) /\ Over(t, tab[t].access)
    /\ UNCHANGED <<challenge, sessionVars>>

Served(t) ==
    /\ At(t, "served")
    /\ Over(t, tab[t].access)
    /\ UNCHANGED <<challenge, sessionVars>>

-----------------------------------------------------------------------------
(* The clock and the network *)

ExpireChallenge(c) ==
    /\ challenge[c] = "open"
    /\ challenge' = [challenge EXCEPT ![c] = "expired"]
    /\ UNCHANGED <<sessionVars, tab>>

ExpireSession(s) ==
    /\ Active(s)
    /\ session' = [session EXCEPT ![s].state = "expired"]
    /\ UNCHANGED <<challenge, issued, rotations, cookie, tab>>

\* A query fails: a refresh is refused all the same, and a logout answered.
StorageError(t) ==
    /\ Faults
    /\ \/ (At(t, "load") \/ At(t, "rotate")) /\ Go(t, "refused")
       \/ At(t, "revoke") /\ Go(t, "loggedOut")
    /\ UNCHANGED <<challenge, sessionVars>>

\* The process or the connection dies: no further step, or no response.  For the
\* other requests a failing query is no different.
Drop(t) ==
    /\ Faults
    /\ ~At(t, "idle")
    /\ Over(t, tab[t].access)
    /\ UNCHANGED <<challenge, sessionVars>>

AuthNext ==
    \/ \E t \in Tabs :
          \/ NonceDelete(t) \/ NonceRead(t) \/ Replace(t) \/ Insert(t)
          \/ VerifyRead(t) \/ Consume(t) \/ Open(t)
          \/ SendRefresh(t) \/ Load(t) \/ Rotate(t) \/ SignedIn(t) \/ Refused(t)
          \/ SendLogout(t) \/ Revoke(t) \/ LoggedOut(t)
          \/ SendCall(t) \/ Authenticate(t) \/ Served(t)
          \/ StorageError(t) \/ Drop(t)
    \/ \E c \in Challenges : ExpireChallenge(c)
    \/ \E s \in Sessions : ExpireSession(s)

AuthSpec == AuthInit /\ [][AuthNext]_authVars

-----------------------------------------------------------------------------
(* Properties *)

\* A signed message opens one session, however many tabs or retries send it.
ChallengeOpensOneSession ==
    \A s1, s2 \in Sessions :
        s1 # s2 /\ session[s1].from # NoChallenge => session[s1].from # session[s2].from

\* A refresh token is exchanged once: of two concurrent refreshes with the same
\* cookie one is refused.
TokenRedeemedOnce == \A k \in Tokens : rotations[k] <= 1

\* A refresh that is under way when the session is revoked does not bring it
\* back, nor does anything else.
RevokedIsFinal ==
    [][\A s \in Sessions : session[s].state = "revoked" => session'[s] = session[s]]_authVars

\* A call sent after its session was revoked or had expired is not served,
\* although its access token is still valid.
EndedSessionServesNobody == \A t \in Tabs : At(t, "served") => ~tab[t].ended

\* "Logout clears session and auth state" (AUTH_DEBUGGING_AND_FIXES.md): when a
\* logout is answered, the session the tab was signed in with is over.
LogoutEndsSession ==
    \A t \in Tabs : At(t, "loggedOut") /\ tab[t].access # NoSession => ~Active(tab[t].access)
=============================================================================
