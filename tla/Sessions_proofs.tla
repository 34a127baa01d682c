--------------------------- MODULE Sessions_proofs ---------------------------
(* The sessions on either side.  For any number of tabs, challenges, sessions *)
(* and tokens: what the server never grants twice, and what stays revoked.    *)
(* For any number of accounts, syncs and switches: whatever the page waits    *)
(* for is under way.                                                          *)
EXTENDS MCSessions, TLAPS

-----------------------------------------------------------------------------
(* AuthSessions *)

\* What is known of a tab's request from its step: the rows it names exist, a
\* challenge it has consumed has opened no session, and a session that had ended
\* when a call was sent has not come back.
RequestOK(t) ==
    /\ At(t, "consume") => tab[t].nonce \in Challenges
    /\ At(t, "open") =>
          /\ tab[t].nonce \in Challenges
          /\ challenge[tab[t].nonce] = "spent"
          /\ \A s \in Sessions : session[s].from # tab[t].nonce
    /\ At(t, "rotate") => tab[t].sid \in Sessions
    /\ At(t, "call") =>
          /\ tab[t].sid \in Sessions
          /\ tab[t].ended => session[tab[t].sid].state \in {"expired", "revoked"}
    /\ At(t, "served") => ~tab[t].ended

\* A challenge is consumed by one tab only.
ConsumedApart ==
    \A t1, t2 \in Tabs :
        t1 # t2 /\ At(t1, "open") /\ At(t2, "open") => tab[t1].nonce # tab[t2].nonce

\* Tabs know sessions that exist.
KnownSessionsExist ==
    \A t \in Tabs, s \in Sessions :
        tab[t].access = s \/ tab[t].sid = s => session[s].state # "none"

\* The challenge of a session is spent.
OriginsSpent ==
    \A s \in Sessions : session[s].from # NoChallenge => challenge[session[s].from] = "spent"

\* Sessions hold issued tokens, no two the same.
TokensApart ==
    /\ \A s \in Sessions : session[s].state = "none" => session[s].token = NoToken
    /\ \A s \in Sessions : session[s].state # "none" => session[s].token \in issued
    /\ \A s1, s2 \in Sessions :
          s1 # s2 /\ session[s1].state # "none" => session[s1].token # session[s2].token

\* A token that was exchanged was issued, and no session holds it any more.
ExchangedGone ==
    \A k \in Tokens : rotations[k] # 0 => /\ k \in issued
                                          /\ \A s \in Sessions : session[s].token # k

AuthInv ==
    /\ AuthTypeOK
    /\ \A t \in Tabs : RequestOK(t)
    /\ ConsumedApart
    /\ KnownSessionsExist
    /\ OriginsSpent
    /\ ChallengeOpensOneSession
    /\ TokensApart
    /\ ExchangedGone
    /\ TokenRedeemedOnce

-----------------------------------------------------------------------------
(* Steps of one request *)

\* A step that changes no session, issues no token, leaves spent challenges spent
\* and tab t with request r.
LEMMA ChallengeStep ==
    ASSUME AuthInv, NEW t \in Tabs, NEW r \in Tab,
           tab' = [tab EXCEPT ![t] = r],
           challenge' \in [Challenges -> ChallengeStates],
           \A c \in Challenges : challenge[c] = "spent" => challenge'[c] = "spent",
           UNCHANGED <<session, issued, rotations>>,
           cookie' \in Tokens \cup {NoToken},
           r.step = "consume" => r.nonce \in Challenges,
           r.step = "open" =>
              /\ r.nonce \in Challenges
              /\ challenge'[r.nonce] = "spent"
              /\ \A s \in Sessions : session[s].from # r.nonce
              /\ \A u \in Tabs : At(u, "open") => tab[u].nonce # r.nonce,
           r.step = "rotate" => r.sid \in Sessions,
           r.step = "call" =>
              /\ r.sid \in Sessions
              /\ r.ended => session[r.sid].state \in {"expired", "revoked"},
           r.step = "served" => ~r.ended,
           \A s \in Sessions : r.access = s \/ r.sid = s => session[s].state # "none"
    PROVE  AuthInv'
<1>1. AuthTypeOK'
    BY DEF AuthInv, AuthTypeOK
<1>2. ASSUME NEW u \in Tabs PROVE tab'[u] = IF u = t THEN r ELSE tab[u]
    BY DEF AuthInv, AuthTypeOK
<1>3. (\A u \in Tabs : RequestOK(u))'
  <2>1. SUFFICES ASSUME NEW u \in Tabs PROVE RequestOK(u)'
      OBVIOUS
  <2>2. RequestOK(u)
      BY DEF AuthInv
  <2>3. CASE u = t
      BY <1>2, <2>3 DEF RequestOK, At
  <2>4. CASE u # t
      BY <1>2, <2>2, <2>4 DEF RequestOK, At
  <2>5. QED
      BY <2>3, <2>4
<1>4. ConsumedApart'
    BY <1>2 DEF AuthInv, ConsumedApart, At
<1>5. KnownSessionsExist'
    BY <1>2 DEF AuthInv, KnownSessionsExist
<1>6. OriginsSpent'
    BY DEF AuthInv, OriginsSpent, AuthTypeOK, SessionRow
<1>7. (ChallengeOpensOneSession /\ TokensApart /\ ExchangedGone /\ TokenRedeemedOnce)'
    BY DEF AuthInv, ChallengeOpensOneSession, TokensApart, ExchangedGone, TokenRedeemedOnce
<1>8. QED
    BY <1>1, <1>3, <1>4, <1>5, <1>6, <1>7 DEF AuthInv

\* A step that changes no row, issues no token and leaves tab t with request r.
LEMMA TabStep ==
    ASSUME AuthInv, NEW t \in Tabs, NEW r \in Tab,
           tab' = [tab EXCEPT ![t] = r],
           UNCHANGED <<challenge, session, issued, rotations>>,
           cookie' \in Tokens \cup {NoToken},
           r.step # "open",
           r.step = "consume" => r.nonce \in Challenges,
           r.step = "rotate" => r.sid \in Sessions,
           r.step = "call" =>
              /\ r.sid \in Sessions
              /\ r.ended => session[r.sid].state \in {"expired", "revoked"},
           r.step = "served" => ~r.ended,
           \A s \in Sessions : r.access = s \/ r.sid = s => session[s].state # "none"
    PROVE  AuthInv'
<1>1. challenge' \in [Challenges -> ChallengeStates]
    BY DEF AuthInv, AuthTypeOK
<1>2. QED
    BY <1>1, ChallengeStep

\* What the action of tab t on its own request gives TabStep.
LEMMA RequestTyped ==
    ASSUME AuthInv, NEW t \in Tabs
    PROVE  /\ tab[t] \in Tab
           /\ cookie \in Tokens \cup {NoToken}
           /\ \A s \in Sessions :
                 tab[t].access = s \/ tab[t].sid = s => session[s].state # "none"
BY DEF AuthInv, AuthTypeOK, KnownSessionsExist

\* The end of a request: the tab is idle, with access token a.
LEMMA OverPreserves ==
    ASSUME AuthInv, AuthAssumption, NEW t \in Tabs, NEW a \in Sessions \cup {NoSession},
           \A s \in Sessions : a = s => session[s].state # "none",
           Over(t, a),
           UNCHANGED <<challenge, session, issued, rotations>>,
           cookie' \in Tokens \cup {NoToken}
    PROVE  AuthInv'
<1> DEFINE r == [tab[t] EXCEPT !.step = "idle", !.access = a, !.token = NoToken,
                               !.sid = NoSession, !.victims = {}, !.ended = FALSE]
<1>1. tab[t] \in Tab
    BY RequestTyped
<1>2. r \in Tab /\ r.step = "idle" /\ r.access = a /\ r.sid = NoSession
    BY <1>1 DEF Tab, Steps
<1>3. tab' = [tab EXCEPT ![t] = r]
    BY DEF Over
<1>4. \A s \in Sessions : r.access = s \/ r.sid = s => session[s].state # "none"
    BY <1>2 DEF AuthAssumption
<1> HIDE DEF r
<1>5. QED
    BY <1>2, <1>3, <1>4, TabStep

\* A request that only goes on.
LEMMA GoPreserves ==
    ASSUME AuthInv, NEW t \in Tabs, NEW step \in Steps \ {"open", "rotate", "call"},
           step = "consume" => tab[t].nonce \in Challenges,
           step = "served" => ~tab[t].ended,
           Go(t, step),
           UNCHANGED <<challenge, session, issued, rotations, cookie>>
    PROVE  AuthInv'
<1> DEFINE r == [tab[t] EXCEPT !.step = step]
<1>1. tab[t] \in Tab
    BY RequestTyped
<1>2. r \in Tab /\ r = [tab[t] EXCEPT !.step = step] /\ r.step = step
    BY <1>1 DEF Tab, Steps
<1>3. tab' = [tab EXCEPT ![t] = r]
    BY DEF Go
<1>4. /\ r.access = tab[t].access /\ r.sid = tab[t].sid /\ r.nonce = tab[t].nonce
      /\ r.ended = tab[t].ended
    BY <1>1, <1>2 DEF Tab
<1>5. \A s \in Sessions : r.access = s \/ r.sid = s => session[s].state # "none"
    BY <1>4, RequestTyped
<1>6. cookie' \in Tokens \cup {NoToken}
    BY RequestTyped
<1> HIDE DEF r
<1>7. QED
    BY <1>2, <1>3, <1>4, <1>5, <1>6, TabStep

LEMMA NonceReadPreserves ==
    ASSUME AuthInv, AuthAssumption, NEW t \in Tabs, NonceRead(t)
    PROVE  AuthInv'
<1>1. tab[t] \in Tab /\ cookie' \in Tokens \cup {NoToken}
    BY RequestTyped DEF NonceRead, sessionVars
<1>2. ASSUME NEW c \in Challenges, tab' = [tab EXCEPT ![t].step = "idle", ![t].nonce = c]
      PROVE  AuthInv'
  <2> DEFINE r == [tab[t] EXCEPT !.step = "idle", !.nonce = c]
  <2>1. r \in Tab /\ r.step = "idle" /\ r.access = tab[t].access /\ r.sid = tab[t].sid
      BY <1>1 DEF Tab, Steps
  <2>2. tab' = [tab EXCEPT ![t] = r]
      BY <1>2, <1>1 DEF AuthInv, AuthTypeOK, Tab
  <2>3. \A s \in Sessions : r.access = s \/ r.sid = s => session[s].state # "none"
      BY <2>1, RequestTyped
  <2>4. UNCHANGED <<challenge, session, issued, rotations>>
      BY DEF NonceRead, sessionVars
  <2> HIDE DEF r
  <2>5. QED
      BY <1>1, <2>1, <2>2, <2>3, <2>4, TabStep
<1>3. ASSUME Go(t, "replace") PROVE AuthInv'
  BY <1>1, <1>3, GoPreserves DEF NonceRead, sessionVars, Steps
<1>4. QED
    BY <1>2, <1>3 DEF NonceRead

LEMMA ReplacePreserves ==
    ASSUME AuthInv, NEW t \in Tabs, Replace(t)
    PROVE  AuthInv'
<1> DEFINE r == [tab[t] EXCEPT !.step = "insert",
                               !.victims = {c \in Challenges : Unconsumed(c)}]
<1>1. tab[t] \in Tab /\ cookie' \in Tokens \cup {NoToken}
    BY RequestTyped DEF Replace, sessionVars
<1>2. r \in Tab /\ r.step = "insert" /\ r.access = tab[t].access /\ r.sid = tab[t].sid
    BY <1>1 DEF Tab, Steps
<1>3. tab' = [tab EXCEPT ![t] = r]
    BY <1>1 DEF Replace, Tab, AuthInv, AuthTypeOK
<1>4. \A s \in Sessions : r.access = s \/ r.sid = s => session[s].state # "none"
    BY <1>2, RequestTyped
<1>5. UNCHANGED <<challenge, session, issued, rotations>>
    BY DEF Replace, sessionVars
<1> HIDE DEF r
<1>6. QED
    BY <1>1, <1>2, <1>3, <1>4, <1>5, TabStep

LEMMA VerifyReadPreserves ==
    ASSUME AuthInv, AuthAssumption, NEW t \in Tabs, VerifyRead(t)
    PROVE  AuthInv'
<1>1. tab[t] \in Tab /\ tab[t].access \in Sessions \cup {NoSession}
    BY RequestTyped DEF Tab
<1>2. CASE Go(t, "consume")
  <2>1. tab[t].nonce \in Challenges
      BY <1>1 DEF VerifyRead, Tab
  <2>2. QED
      BY <1>2, <2>1, GoPreserves DEF VerifyRead, sessionVars, Steps
<1>3. CASE Over(t, tab[t].access)
    BY <1>1, <1>3, OverPreserves, RequestTyped DEF VerifyRead, sessionVars
<1>4. QED
    BY <1>2, <1>3 DEF VerifyRead

LEMMA SendRefreshPreserves ==
    ASSUME AuthInv, NEW t \in Tabs, SendRefresh(t)
    PROVE  AuthInv'
<1> DEFINE step == IF cookie = NoToken THEN "refused" ELSE "load"
           r == [tab[t] EXCEPT !.token = cookie, !.step = step]
<1>1. tab[t] \in Tab /\ cookie' \in Tokens \cup {NoToken} /\ cookie \in Tokens \cup {NoToken}
    BY RequestTyped DEF SendRefresh, sessionVars
<1>2. /\ r \in Tab /\ r.step \in {"refused", "load"}
      /\ r.access = tab[t].access /\ r.sid = tab[t].sid
    BY <1>1 DEF Tab, Steps
<1>3. tab' = [tab EXCEPT ![t] = r]
    BY <1>1 DEF SendRefresh, Tab, AuthInv, AuthTypeOK
<1>4. \A s \in Sessions : r.access = s \/ r.sid = s => session[s].state # "none"
    BY <1>2, RequestTyped
<1>5. UNCHANGED <<challenge, session, issued, rotations>>
    BY DEF SendRefresh, sessionVars
<1> HIDE DEF r
<1>6. QED
    BY <1>1, <1>2, <1>3, <1>4, <1>5, TabStep

LEMMA LoadPreserves ==
    ASSUME AuthInv, NEW t \in Tabs, Load(t)
    PROVE  AuthInv'
<1>1. tab[t] \in Tab /\ cookie' \in Tokens \cup {NoToken}
    BY RequestTyped DEF Load, sessionVars
<1>2. ASSUME NEW s \in Sessions, Active(s),
             tab' = [tab EXCEPT ![t].step = "rotate", ![t].sid = s]
      PROVE  AuthInv'
  <2> DEFINE r == [tab[t] EXCEPT !.step = "rotate", !.sid = s]
  <2>1. r \in Tab /\ r.step = "rotate" /\ r.access = tab[t].access /\ r.sid = s
      BY <1>1 DEF Tab, Steps
  <2>2. tab' = [tab EXCEPT ![t] = r]
      BY <1>2, <1>1 DEF AuthInv, AuthTypeOK, Tab
  <2>3. session[s].state # "none"
      BY <1>2 DEF Active
  <2>4. \A v \in Sessions : r.access = v \/ r.sid = v => session[v].state # "none"
      BY <2>1, <2>3, RequestTyped
  <2>5. UNCHANGED <<challenge, session, issued, rotations>>
      BY DEF Load, sessionVars
  <2> HIDE DEF r
  <2>6. QED
      BY <1>1, <2>1, <2>2, <2>4, <2>5, TabStep
<1>3. CASE Go(t, "refused")
    BY <1>3, GoPreserves DEF Load, sessionVars, Steps
<1>4. QED
    BY <1>2, <1>3 DEF Load

\* The answers to a sign-in, a refresh and a logout, and a request that is lost.
LEMMA AnswerPreserves ==
    ASSUME AuthInv, AuthAssumption, NEW t \in Tabs,
           SignedIn(t) \/ Refused(t) \/ LoggedOut(t) \/ Served(t) \/ Drop(t)
    PROVE  AuthInv'
<1>1. /\ tab[t].access \in Sessions \cup {NoSession}
      /\ tab[t].sid \in Sessions \cup {NoSession}
      /\ tab[t].token \in Tokens \cup {NoToken}
      /\ cookie \in Tokens \cup {NoToken}
    BY RequestTyped DEF Tab
<1>2. CASE SignedIn(t)
    BY <1>1, <1>2, OverPreserves, RequestTyped DEF SignedIn
<1>3. CASE Refused(t) \/ LoggedOut(t)
    BY <1>1, <1>3, OverPreserves DEF Refused, LoggedOut, AuthAssumption
<1>4. CASE Served(t) \/ Drop(t)
    BY <1>1, <1>4, OverPreserves, RequestTyped DEF Served, Drop, sessionVars
<1>5. QED
    BY <1>2, <1>3, <1>4

LEMMA SendLogoutPreserves ==
    ASSUME AuthInv, AuthAssumption, NEW t \in Tabs, SendLogout(t)
    PROVE  AuthInv'
<1>1. PICK bearer \in {NoSession, tab[t].access} :
         tab' = [tab EXCEPT ![t].step = "revoke", ![t].token = cookie, ![t].sid = bearer]
    BY DEF SendLogout
<1> DEFINE r == [tab[t] EXCEPT !.step = "revoke", !.token = cookie, !.sid = bearer]
<1>2. tab[t] \in Tab /\ cookie' \in Tokens \cup {NoToken} /\ cookie \in Tokens \cup {NoToken}
    BY RequestTyped DEF SendLogout, sessionVars
<1>3. /\ r \in Tab /\ r.step = "revoke"
      /\ r.access = tab[t].access /\ r.sid \in {NoSession, tab[t].access}
    BY <1>2 DEF Tab, Steps
<1>4. tab' = [tab EXCEPT ![t] = r]
    BY <1>1, <1>2 DEF Tab, AuthInv, AuthTypeOK
<1>5. \A s \in Sessions : r.access = s \/ r.sid = s => session[s].state # "none"
    BY <1>3, RequestTyped DEF AuthAssumption
<1>6. UNCHANGED <<challenge, session, issued, rotations>>
    BY DEF SendLogout, sessionVars
<1> HIDE DEF r
<1>7. QED
    BY <1>2, <1>3, <1>4, <1>5, <1>6, TabStep

\* A session that exists and is not active has expired or was revoked.
LEMMA SendCallPreserves ==
    ASSUME AuthInv, NEW t \in Tabs, SendCall(t)
    PROVE  AuthInv'
<1> DEFINE r == [tab[t] EXCEPT !.step = "call", !.sid = tab[t].access,
                               !.ended = ~Active(tab[t].access)]
<1>1. tab[t] \in Tab /\ cookie' \in Tokens \cup {NoToken}
    BY RequestTyped DEF SendCall, sessionVars
<1>2. tab[t].access \in Sessions
    BY <1>1 DEF SendCall, Tab
<1>3. /\ r \in Tab /\ r.step = "call"
      /\ r.access = tab[t].access /\ r.sid = tab[t].access
      /\ r.ended <=> ~Active(tab[t].access)
    BY <1>1 DEF Tab, Steps
<1>4. tab' = [tab EXCEPT ![t] = r]
    BY <1>1 DEF SendCall, Tab, AuthInv, AuthTypeOK
<1>5. session[tab[t].access].state # "none"
    BY <1>2, RequestTyped
<1>6. r.ended => session[tab[t].access].state \in {"expired", "revoked"}
    BY <1>2, <1>3, <1>5 DEF Active, AuthInv, AuthTypeOK, SessionRow
<1>7. \A s \in Sessions : r.access = s \/ r.sid = s => session[s].state # "none"
    BY <1>3, RequestTyped
<1>8. UNCHANGED <<challenge, session, issued, rotations>>
    BY DEF SendCall, sessionVars
<1> HIDE DEF r
<1>9. QED
    BY <1>1, <1>2, <1>3, <1>4, <1>6, <1>7, <1>8, TabStep

LEMMA AuthenticatePreserves ==
    ASSUME AuthInv, AuthAssumption, NEW t \in Tabs, Authenticate(t)
    PROVE  AuthInv'
<1>1. CASE MayServe(t) /\ Go(t, "served")
  <2>1. ~tab[t].ended
      BY <1>1 DEF AuthInv, RequestOK, Authenticate, MayServe, Active, At
  <2>2. QED
      BY <1>1, <2>1, GoPreserves DEF Authenticate, sessionVars, Steps
<1>2. CASE Over(t, tab[t].access)
    BY <1>2, OverPreserves, RequestTyped DEF Authenticate, sessionVars, Tab
<1>3. QED
    BY <1>1, <1>2 DEF Authenticate

-----------------------------------------------------------------------------
(* Steps that change challenges *)

LEMMA NonceDeletePreserves ==
    ASSUME AuthInv, NEW t \in Tabs, NonceDelete(t)
    PROVE  AuthInv'
<1> DEFINE r == [tab[t] EXCEPT !.step = "nonceRead"]
<1>1. tab[t] \in Tab /\ cookie' \in Tokens \cup {NoToken}
    BY RequestTyped DEF NonceDelete, sessionVars
<1>2. r \in Tab /\ r.step = "nonceRead" /\ r.access = tab[t].access /\ r.sid = tab[t].sid
    BY <1>1 DEF Tab, Steps
<1>3. tab' = [tab EXCEPT ![t] = r]
    BY DEF NonceDelete, Go
<1>4. /\ challenge' \in [Challenges -> ChallengeStates]
      /\ \A c \in Challenges : challenge[c] = "spent" => challenge'[c] = "spent"
    BY DEF NonceDelete, AuthInv, AuthTypeOK, ChallengeStates
<1>5. \A s \in Sessions : r.access = s \/ r.sid = s => session[s].state # "none"
    BY <1>2, RequestTyped
<1>6. UNCHANGED <<session, issued, rotations>>
    BY DEF NonceDelete, sessionVars
<1> HIDE DEF r
<1>7. QED
    BY <1>1, <1>2, <1>3, <1>4, <1>5, <1>6, ChallengeStep

LEMMA InsertPreserves ==
    ASSUME AuthInv, NEW t \in Tabs, Insert(t)
    PROVE  AuthInv'
<1>1. PICK new \in Challenges :
         /\ challenge[new] = "none"
         /\ challenge' = [c \in Challenges |->
                             IF c = new THEN "open"
                             ELSE IF c \in tab[t].victims THEN "spent"
                             ELSE challenge[c]]
         /\ tab' = [tab EXCEPT ![t].step = "idle", ![t].nonce = new, ![t].victims = {}]
    BY DEF Insert
<1> DEFINE r == [tab[t] EXCEPT !.step = "idle", !.nonce = new, !.victims = {}]
<1>2. tab[t] \in Tab /\ cookie' \in Tokens \cup {NoToken}
    BY RequestTyped DEF Insert, sessionVars
<1>3. r \in Tab /\ r.step = "idle" /\ r.access = tab[t].access /\ r.sid = tab[t].sid
    BY <1>2 DEF Tab, Steps
<1>4. tab' = [tab EXCEPT ![t] = r]
    BY <1>1, <1>2 DEF Tab, AuthInv, AuthTypeOK
<1>5. /\ challenge' \in [Challenges -> ChallengeStates]
      /\ \A c \in Challenges : challenge[c] = "spent" => challenge'[c] = "spent"
    BY <1>1 DEF AuthInv, AuthTypeOK, ChallengeStates
<1>6. \A s \in Sessions : r.access = s \/ r.sid = s => session[s].state # "none"
    BY <1>3, RequestTyped
<1>7. UNCHANGED <<session, issued, rotations>>
    BY DEF Insert, sessionVars
<1> HIDE DEF r
<1>8. QED
    BY <1>2, <1>3, <1>4, <1>5, <1>6, <1>7, ChallengeStep

\* No session comes from an unconsumed challenge, and no other tab has consumed it.
LEMMA ConsumePreserves ==
    ASSUME AuthInv, AuthAssumption, NEW t \in Tabs, Consume(t)
    PROVE  AuthInv'
<1>1. tab[t] \in Tab /\ cookie' \in Tokens \cup {NoToken} /\ tab[t].nonce \in Challenges
    BY RequestTyped DEF Consume, sessionVars, AuthInv, RequestOK
<1>2. UNCHANGED <<session, issued, rotations>>
    BY DEF Consume, sessionVars
<1>3. ASSUME Unconsumed(tab[t].nonce),
             challenge' = [challenge EXCEPT ![tab[t].nonce] = "spent"],
             Go(t, "open")
      PROVE  AuthInv'
  <2> DEFINE r == [tab[t] EXCEPT !.step = "open"]
  <2>1. /\ r \in Tab /\ r.step = "open" /\ r.nonce = tab[t].nonce
        /\ r.access = tab[t].access /\ r.sid = tab[t].sid
      BY <1>1 DEF Tab, Steps
  <2>2. tab' = [tab EXCEPT ![t] = r]
      BY <1>3 DEF Go
  <2>3. /\ challenge' \in [Challenges -> ChallengeStates]
        /\ challenge'[tab[t].nonce] = "spent"
        /\ \A c \in Challenges : challenge[c] = "spent" => challenge'[c] = "spent"
      BY <1>1, <1>3 DEF AuthInv, AuthTypeOK, ChallengeStates
  <2>4. \A s \in Sessions : session[s].from # tab[t].nonce
      BY <1>1, <1>3 DEF AuthInv, OriginsSpent, Unconsumed, AuthAssumption
  <2>5. \A u \in Tabs : At(u, "open") => tab[u].nonce # tab[t].nonce
      BY <1>3 DEF AuthInv, RequestOK, Unconsumed
  <2>6. \A s \in Sessions : r.access = s \/ r.sid = s => session[s].state # "none"
      BY <2>1, RequestTyped
  <2> HIDE DEF r
  <2>7. QED
      BY <1>1, <1>2, <2>1, <2>2, <2>3, <2>4, <2>5, <2>6, ChallengeStep
<1>4. ASSUME UNCHANGED challenge, Over(t, tab[t].access) PROVE AuthInv'
    BY <1>1, <1>2, <1>4, OverPreserves, RequestTyped DEF Tab
<1>5. QED
    BY <1>3, <1>4 DEF Consume

LEMMA ExpireChallengePreserves ==
    ASSUME AuthInv, NEW c \in Challenges, ExpireChallenge(c)
    PROVE  AuthInv'
<1>1. \A d \in Challenges : challenge[d] = "spent" => challenge'[d] = "spent"
    BY DEF ExpireChallenge, AuthInv, AuthTypeOK
<1>2. AuthTypeOK'
    BY DEF ExpireChallenge, sessionVars, AuthInv, AuthTypeOK, ChallengeStates
<1>3. (\A t \in Tabs : RequestOK(t))'
    BY <1>1 DEF ExpireChallenge, sessionVars, AuthInv, RequestOK, At
<1>4. (ConsumedApart /\ KnownSessionsExist)'
    BY DEF ExpireChallenge, sessionVars, AuthInv, ConsumedApart, KnownSessionsExist, At
<1>5. OriginsSpent'
    BY <1>1 DEF ExpireChallenge, sessionVars, AuthInv, OriginsSpent, AuthTypeOK, SessionRow
<1>6. (ChallengeOpensOneSession /\ TokensApart /\ ExchangedGone /\ TokenRedeemedOnce)'
    BY DEF ExpireChallenge, sessionVars, AuthInv, ChallengeOpensOneSession, TokensApart,
           ExchangedGone, TokenRedeemedOnce
<1>7. QED
    BY <1>2, <1>3, <1>4, <1>5, <1>6 DEF AuthInv

-----------------------------------------------------------------------------
(* Steps that change sessions *)

\* Sessions that end keep their token and their origin; a request goes on with
\* what it knew, or is answered.
LEMMA EndPreserves ==
    ASSUME AuthInv,
           session' \in [Sessions -> SessionRow],
           \A s \in Sessions :
              /\ session'[s].from = session[s].from /\ session'[s].token = session[s].token
              /\ session'[s].state = "none" <=> session[s].state = "none"
              /\ session[s].state \in {"expired", "revoked"} =>
                    session'[s].state \in {"expired", "revoked"},
           tab' \in [Tabs -> Tab],
           \A t \in Tabs :
              /\ tab'[t].step = tab[t].step \/ tab'[t].step = "loggedOut"
              /\ tab'[t].nonce = tab[t].nonce /\ tab'[t].access = tab[t].access
              /\ tab'[t].sid = tab[t].sid /\ tab'[t].ended = tab[t].ended,
           UNCHANGED <<challenge, issued, rotations, cookie>>
    PROVE  AuthInv'
<1>1. AuthTypeOK'
    BY DEF AuthInv, AuthTypeOK
<1>2. (\A t \in Tabs : RequestOK(t))'
  <2>1. SUFFICES ASSUME NEW t \in Tabs PROVE RequestOK(t)'
      OBVIOUS
  <2>2. RequestOK(t)
      BY DEF AuthInv
  <2>3. CASE tab'[t].step = tab[t].step
      BY <2>2, <2>3 DEF RequestOK, At
  <2>4. CASE tab'[t].step = "loggedOut"
      BY <2>4 DEF RequestOK, At
  <2>5. QED
      BY <2>3, <2>4
<1>3. ConsumedApart'
    BY DEF AuthInv, ConsumedApart, At
<1>4. KnownSessionsExist'
    BY DEF AuthInv, KnownSessionsExist
<1>5. (OriginsSpent /\ ChallengeOpensOneSession)'
    BY DEF AuthInv, OriginsSpent, ChallengeOpensOneSession
<1>6. (TokensApart /\ ExchangedGone /\ TokenRedeemedOnce)'
    BY DEF AuthInv, TokensApart, ExchangedGone, TokenRedeemedOnce
<1>7. QED
    BY <1>1, <1>2, <1>3, <1>4, <1>5, <1>6 DEF AuthInv

LEMMA RevokePreserves ==
    ASSUME AuthInv, NEW t \in Tabs, Revoke(t)
    PROVE  AuthInv'
<1>1. /\ session' \in [Sessions -> SessionRow]
      /\ \A s \in Sessions :
            \/ session'[s] = session[s]
            \/ /\ session[s].state \in {"active", "expired"}
               /\ session'[s] = [session[s] EXCEPT !.state = "revoked"]
    BY DEF Revoke, AuthInv, AuthTypeOK, SessionRow
<1>2. \A s \in Sessions :
         /\ session'[s].from = session[s].from /\ session'[s].token = session[s].token
         /\ session'[s].state = "none" <=> session[s].state = "none"
         /\ session[s].state \in {"expired", "revoked"} =>
               session'[s].state \in {"expired", "revoked"}
    BY <1>1 DEF AuthInv, AuthTypeOK, SessionRow
<1>3. tab' \in [Tabs -> Tab]
    BY DEF Revoke, Go, AuthInv, AuthTypeOK, Tab, Steps
<1>4. \A u \in Tabs :
         /\ tab'[u].step = tab[u].step \/ tab'[u].step = "loggedOut"
         /\ tab'[u].nonce = tab[u].nonce /\ tab'[u].access = tab[u].access
         /\ tab'[u].sid = tab[u].sid /\ tab'[u].ended = tab[u].ended
    BY DEF Revoke, Go, AuthInv, AuthTypeOK, Tab
<1>5. QED
    BY <1>1, <1>2, <1>3, <1>4, EndPreserves DEF Revoke

LEMMA ExpireSessionPreserves ==
    ASSUME AuthInv, NEW s \in Sessions, ExpireSession(s)
    PROVE  AuthInv'
<1>1. session' \in [Sessions -> SessionRow]
    BY DEF ExpireSession, AuthInv, AuthTypeOK, SessionRow
<1>2. \A v \in Sessions :
         /\ session'[v].from = session[v].from /\ session'[v].token = session[v].token
         /\ session'[v].state = "none" <=> session[v].state = "none"
         /\ session[v].state \in {"expired", "revoked"} =>
               session'[v].state \in {"expired", "revoked"}
    BY DEF ExpireSession, Active, AuthInv, AuthTypeOK, SessionRow
<1>3. QED
    BY <1>1, <1>2, EndPreserves DEF ExpireSession, AuthInv, AuthTypeOK

\* The consumed challenge has opened no session, and the token is new.
LEMMA OpenPreserves ==
    ASSUME AuthInv, AuthAssumption, NEW t \in Tabs, Open(t)
    PROVE  AuthInv'
<1>1. PICK s \in Sessions, k \in Tokens \ issued :
         /\ session[s].state = "none"
         /\ session' = [session EXCEPT ![s] = [state |-> "active", token |-> k,
                                               from |-> tab[t].nonce]]
         /\ issued' = issued \cup {k}
         /\ tab' = [tab EXCEPT ![t].step = "signedIn", ![t].sid = s, ![t].token = k]
    BY DEF Open
<1>2. UNCHANGED <<challenge, rotations, cookie>>
    BY DEF Open
<1>3. /\ At(t, "open") /\ tab[t].nonce \in Challenges
      /\ challenge[tab[t].nonce] = "spent"
      /\ \A v \in Sessions : session[v].from # tab[t].nonce
    BY DEF Open, AuthInv, RequestOK
<1>4. \A v \in Sessions :
         session'[v] = IF v = s THEN [state |-> "active", token |-> k, from |-> tab[t].nonce]
                                ELSE session[v]
    BY <1>1 DEF AuthInv, AuthTypeOK
<1>5. \A u \in Tabs :
         tab'[u] = IF u = t THEN [tab[t] EXCEPT !.step = "signedIn", !.sid = s, !.token = k]
                            ELSE tab[u]
    BY <1>1 DEF AuthInv, AuthTypeOK, Tab
<1> DEFINE r == [tab[t] EXCEPT !.step = "signedIn", !.sid = s, !.token = k]
<1>6. tab[t] \in Tab
    BY RequestTyped
<1>7. /\ r \in Tab /\ r.step = "signedIn" /\ r.sid = s
      /\ r.access = tab[t].access
    BY <1>6 DEF Tab, Steps
<1>8. tab'[t].step = "signedIn" /\ tab'[t].sid = s /\ tab'[t].access = tab[t].access
    BY <1>5, <1>7
<1>9. AuthTypeOK'
  <2>1. session' \in [Sessions -> SessionRow]
      BY <1>1, <1>3 DEF AuthInv, AuthTypeOK, SessionRow
  <2>2. tab' \in [Tabs -> Tab]
      BY <1>1, <1>5, <1>7 DEF AuthInv, AuthTypeOK
  <2>3. issued' \subseteq Tokens
      BY <1>1 DEF AuthInv, AuthTypeOK
  <2>4. QED
      BY <1>2, <2>1, <2>2, <2>3 DEF AuthInv, AuthTypeOK
<1>10. (\A u \in Tabs : RequestOK(u))'
  <2>1. SUFFICES ASSUME NEW u \in Tabs PROVE RequestOK(u)'
      OBVIOUS
  <2>2. CASE u = t
      BY <1>8, <2>2 DEF RequestOK, At
  <2>3. CASE u # t
    <3>1. tab'[u] = tab[u] /\ RequestOK(u)
        BY <1>5, <2>3 DEF AuthInv
    <3>2. At(u, "open") =>
             /\ tab[u].nonce \in Challenges
             /\ challenge'[tab[u].nonce] = "spent"
             /\ \A v \in Sessions : session'[v].from # tab[u].nonce
        BY <1>2, <1>3, <1>4, <2>3, <3>1 DEF RequestOK, AuthInv, ConsumedApart
    <3>3. At(u, "call") =>
             /\ tab[u].sid \in Sessions
             /\ tab[u].ended => session'[tab[u].sid].state \in {"expired", "revoked"}
        BY <1>1, <1>4, <3>1 DEF RequestOK
    <3>4. QED
        BY <3>1, <3>2, <3>3 DEF RequestOK, At
  <2>4. QED
      BY <2>2, <2>3
<1>11. ConsumedApart'
    BY <1>5, <1>8 DEF AuthInv, ConsumedApart, At
<1>12. KnownSessionsExist'
  <2>1. SUFFICES ASSUME NEW u \in Tabs, NEW v \in Sessions,
                        tab'[u].access = v \/ tab'[u].sid = v
                 PROVE  session'[v].state # "none"
      BY DEF KnownSessionsExist
  <2>2. CASE v = s
      BY <1>4, <2>2
  <2>3. CASE v # s
    <3>1. tab[u].access = v \/ tab[u].sid = v
        BY <1>5, <1>8, <2>1, <2>3
    <3>2. session[v].state # "none"
        BY <3>1 DEF AuthInv, KnownSessionsExist
    <3>3. QED
        BY <1>4, <2>3, <3>2
  <2>4. QED
      BY <2>2, <2>3
<1>13. (OriginsSpent /\ ChallengeOpensOneSession)'
    BY <1>2, <1>3, <1>4 DEF AuthInv, OriginsSpent, ChallengeOpensOneSession
<1>14. TokensApart'
    BY <1>1, <1>4 DEF AuthInv, TokensApart, AuthAssumption
<1>15. (ExchangedGone /\ TokenRedeemedOnce)'
    BY <1>1, <1>2, <1>4 DEF AuthInv, ExchangedGone, TokenRedeemedOnce
<1>16. QED
    BY <1>9, <1>10, <1>11, <1>12, <1>13, <1>14, <1>15 DEF AuthInv

\* The session still holds the old token, which no other session does: with the
\* new token nobody holds it.
LEMMA RotatePreserves ==
    ASSUME AuthInv, AuthAssumption, NEW t \in Tabs, Rotate(t)
    PROVE  AuthInv'
<1>1. tab[t].sid \in Sessions
    BY DEF AuthInv, RequestOK, Rotate
<1>2. CASE CanRotate(t)
  <2> DEFINE sid == tab[t].sid
             old == tab[t].token
  <2>1. PICK k \in Tokens \ issued :
           /\ session' = [session EXCEPT ![sid].token = k]
           /\ issued' = issued \cup {k}
           /\ tab' = [tab EXCEPT ![t].step = "signedIn", ![t].token = k]
      BY <1>2 DEF Rotate
  <2>2. /\ rotations' = [rotations EXCEPT ![old] = @ + 1]
        /\ UNCHANGED <<challenge, cookie>>
      BY <1>2 DEF Rotate
  <2>3. /\ session[sid].token = old /\ session[sid].state = "active"
        /\ old \in issued /\ old \in Tokens
      BY <1>1, <1>2 DEF CanRotate, Active, AuthInv, TokensApart, AuthTypeOK
  <2>4. \A v \in Sessions :
           /\ session'[v].state = session[v].state /\ session'[v].from = session[v].from
           /\ session'[v].token = IF v = sid THEN k ELSE session[v].token
      BY <1>1, <2>1 DEF AuthInv, AuthTypeOK, SessionRow
  <2>5. \A u \in Tabs :
           /\ tab'[u].nonce = tab[u].nonce /\ tab'[u].access = tab[u].access
           /\ tab'[u].sid = tab[u].sid /\ tab'[u].ended = tab[u].ended
           /\ tab'[u].step = IF u = t THEN "signedIn" ELSE tab[u].step
      BY <2>1 DEF AuthInv, AuthTypeOK, Tab
  <2>6. rotations[old] = 0
      BY <1>1, <2>3 DEF AuthInv, ExchangedGone
  <2>7. AuthTypeOK'
    <3>1. session' \in [Sessions -> SessionRow]
        BY <1>1, <2>1 DEF AuthInv, AuthTypeOK, SessionRow
    <3>2. tab[t] \in Tab
        BY RequestTyped
    <3>3. [tab[t] EXCEPT !.step = "signedIn", !.token = k] \in Tab
        BY <3>2 DEF Tab, Steps
    <3>4. tab' \in [Tabs -> Tab]
      <4>1. tab' = [tab EXCEPT ![t] = [tab[t] EXCEPT !.step = "signedIn", !.token = k]]
          BY <2>1, <3>2 DEF AuthInv, AuthTypeOK, Tab
      <4>2. QED
          BY <3>3, <4>1 DEF AuthInv, AuthTypeOK
    <3>5. issued' \subseteq Tokens
        BY <2>1 DEF AuthInv, AuthTypeOK
    <3>6. rotations' \in [Tokens -> Nat]
        BY <2>2, <2>3 DEF AuthInv, AuthTypeOK
    <3>7. QED
        BY <2>2, <3>1, <3>4, <3>5, <3>6 DEF AuthInv, AuthTypeOK
  <2> HIDE DEF sid, old
  <2>8. (\A u \in Tabs : RequestOK(u))'
    <3>1. SUFFICES ASSUME NEW u \in Tabs PROVE RequestOK(u)'
        OBVIOUS
    <3>2. RequestOK(u)
        BY DEF AuthInv
    <3>3. CASE u = t
        BY <2>5, <3>3 DEF RequestOK, At
    <3>4. CASE u # t
        BY <2>2, <2>4, <2>5, <3>2, <3>4 DEF RequestOK, At
    <3>5. QED
        BY <3>3, <3>4
  <2>9. ConsumedApart'
      BY <2>5 DEF AuthInv, ConsumedApart, At
  <2>10. KnownSessionsExist'
      BY <2>4, <2>5 DEF AuthInv, KnownSessionsExist
  <2>11. (OriginsSpent /\ ChallengeOpensOneSession)'
      BY <2>2, <2>4 DEF AuthInv, OriginsSpent, ChallengeOpensOneSession
  <2>12. TokensApart'
    <3>1. sid \in Sessions /\ k \in issued' /\ k \notin issued /\ k # NoToken
        BY <1>1, <2>1 DEF AuthAssumption, sid
    <3>2. \A v \in Sessions : session[v].token # k
        BY <3>1 DEF AuthInv, TokensApart
    <3>3. QED
        BY <2>1, <2>3, <2>4, <3>1, <3>2 DEF AuthInv, TokensApart
  <2>13. ExchangedGone'
    <3>1. \A v \in Sessions : v # sid => session[v].token # old
        BY <1>1, <2>3 DEF AuthInv, TokensApart, sid
    <3>2. SUFFICES ASSUME NEW j \in Tokens, rotations'[j] # 0
                   PROVE  j \in issued' /\ \A v \in Sessions : session'[v].token # j
        BY DEF ExchangedGone
    <3>3. CASE j = old
        BY <2>1, <2>3, <2>4, <3>1, <3>3
    <3>4. CASE j # old
      <4>1. rotations[j] # 0
          BY <2>2, <2>3, <3>2, <3>4 DEF AuthInv, AuthTypeOK
      <4>2. QED
          BY <2>1, <2>4, <4>1 DEF AuthInv, ExchangedGone
    <3>5. QED
        BY <3>3, <3>4
  <2>14. TokenRedeemedOnce'
      BY <2>2, <2>3, <2>6 DEF AuthInv, AuthTypeOK, TokenRedeemedOnce
  <2>15. QED
      BY <2>7, <2>8, <2>9, <2>10, <2>11, <2>12, <2>13, <2>14 DEF AuthInv
<1>3. CASE ~CanRotate(t)
    BY <1>3, GoPreserves DEF Rotate, Steps
<1>4. QED
    BY <1>2, <1>3

-----------------------------------------------------------------------------
(* The theorems *)

LEMMA AuthInvInit == AuthAssumption /\ AuthInit => AuthInv
BY DEF AuthInit, AuthInv, AuthTypeOK, ChallengeStates, SessionRow, Tab, Steps, RequestOK, At,
       ConsumedApart, KnownSessionsExist, OriginsSpent, ChallengeOpensOneSession,
       TokensApart, ExchangedGone, TokenRedeemedOnce, AuthAssumption

LEMMA AuthInvStep == AuthAssumption /\ AuthInv /\ [AuthNext]_authVars => AuthInv'
<1> SUFFICES ASSUME AuthAssumption, AuthInv, [AuthNext]_authVars
             PROVE  AuthInv'
    OBVIOUS
<1>1. ASSUME NEW t \in Tabs,
             \/ NonceDelete(t) \/ NonceRead(t) \/ Replace(t) \/ Insert(t)
             \/ VerifyRead(t) \/ Consume(t) \/ Open(t)
      PROVE  AuthInv'
    BY <1>1, NonceDeletePreserves, NonceReadPreserves, ReplacePreserves, InsertPreserves,
       VerifyReadPreserves, ConsumePreserves, OpenPreserves
<1>2. ASSUME NEW t \in Tabs,
             \/ SendRefresh(t) \/ Load(t) \/ Rotate(t) \/ SendLogout(t) \/ Revoke(t)
             \/ SendCall(t) \/ Authenticate(t)
      PROVE  AuthInv'
    BY <1>2, SendRefreshPreserves, LoadPreserves, RotatePreserves, SendLogoutPreserves,
       RevokePreserves, SendCallPreserves, AuthenticatePreserves
<1>3. ASSUME NEW t \in Tabs,
             SignedIn(t) \/ Refused(t) \/ LoggedOut(t) \/ Served(t) \/ Drop(t)
      PROVE  AuthInv'
    BY <1>3, AnswerPreserves
<1>4. ASSUME NEW c \in Challenges, ExpireChallenge(c) PROVE AuthInv'
    BY <1>4, ExpireChallengePreserves
<1>5. ASSUME NEW s \in Sessions, ExpireSession(s) PROVE AuthInv'
    BY <1>5, ExpireSessionPreserves
<1>6. ASSUME NEW t \in Tabs, StorageError(t) PROVE AuthInv'
    BY <1>6, GoPreserves DEF StorageError, sessionVars, Steps
<1>7. CASE UNCHANGED authVars
    BY <1>7 DEF authVars, AuthInv, AuthTypeOK, RequestOK, At, ConsumedApart,
                KnownSessionsExist, OriginsSpent, ChallengeOpensOneSession, TokensApart,
                ExchangedGone, TokenRedeemedOnce
<1>8. QED
    BY <1>1, <1>2, <1>3, <1>4, <1>5, <1>6, <1>7 DEF AuthNext

LEMMA AuthInvariant == AuthSpec => []AuthInv
<1>1. AuthInit => AuthInv
    BY AuthInvInit, AuthAssumption
<1>2. AuthInv /\ [AuthNext]_authVars => AuthInv'
    BY AuthInvStep, AuthAssumption
<1>3. QED
    BY <1>1, <1>2, PTL DEF AuthSpec

\* The rows, the tokens and the requests of the sign-in service have their types.
THEOREM AuthTypeCorrect == AuthSpec => []AuthTypeOK
<1>1. AuthInv => AuthTypeOK
    BY DEF AuthInv
<1>2. QED
    BY <1>1, AuthInvariant, PTL

\* verifyWalletChallenge: however many tabs and retries send a signed message,
\* it opens one session.
THEOREM OneSessionPerChallenge == AuthSpec => []ChallengeOpensOneSession
<1>1. AuthInv => ChallengeOpensOneSession
    BY DEF AuthInv
<1>2. QED
    BY <1>1, AuthInvariant, PTL

\* refreshAuthSession: however refreshes interleave, a token is exchanged once.
THEOREM OneExchangePerToken == AuthSpec => []TokenRedeemedOnce
<1>1. AuthInv => TokenRedeemedOnce
    BY DEF AuthInv
<1>2. QED
    BY <1>1, AuthInvariant, PTL

\* requireAuth: a call sent when its session had ended is not served.
THEOREM EndedSessionRefused == AuthSpec => []EndedSessionServesNobody
<1>1. AuthInv => EndedSessionServesNobody
    BY DEF AuthInv, RequestOK, EndedSessionServesNobody
<1>2. QED
    BY <1>1, AuthInvariant, PTL

\* No step changes a revoked session: not a refresh that loaded it before.
THEOREM RevocationIsFinal == AuthSpec => RevokedIsFinal
<1> DEFINE Kept(s) == session[s].state = "revoked" => session'[s] = session[s]
<1>1. AuthInv /\ [AuthNext]_authVars => \A s \in Sessions : Kept(s)
  <2> SUFFICES ASSUME AuthInv, [AuthNext]_authVars, NEW s \in Sessions PROVE Kept(s)
      OBVIOUS
  <2>1. ASSUME NEW t \in Tabs, Open(t) PROVE Kept(s)
      BY <2>1 DEF Open, AuthInv, AuthTypeOK
  <2>2. ASSUME NEW t \in Tabs, Rotate(t) PROVE Kept(s)
      BY <2>2 DEF Rotate, CanRotate, Active, AuthInv, AuthTypeOK
  <2>3. ASSUME NEW t \in Tabs, Revoke(t) PROVE Kept(s)
      BY <2>3 DEF Revoke
  <2>4. ASSUME NEW v \in Sessions, ExpireSession(v) PROVE Kept(s)
      BY <2>4 DEF ExpireSession, Active, AuthInv, AuthTypeOK
  <2>5. CASE UNCHANGED session
      BY <2>5
  <2>6. QED
      BY <2>1, <2>2, <2>3, <2>4, <2>5
      DEF AuthNext, NonceDelete, NonceRead, Replace, Insert, VerifyRead, Consume, SendRefresh,
          Load, SignedIn, Refused, SendLogout, LoggedOut, SendCall, Authenticate, Served,
          ExpireChallenge, StorageError, Drop, sessionVars, authVars
<1>2. QED
    BY <1>1, AuthInvariant, PTL DEF AuthSpec, RevokedIsFinal

-----------------------------------------------------------------------------
(* WalletSession *)

SyncOK(x) == x \in Sync /\ (x.step = "apply" => x.account # NoAccount)

\* A sync that applies an account has read one.
SyncsOK == sync \in [Syncs -> Sync] /\ \A s \in Syncs : SyncOK(sync[s])

WaitInv ==
    /\ WalletSessionTypeOK
    /\ SyncsOK
    /\ WaitingIsServed

\* The values besides sync that keep their types.
OthersTyped ==
    /\ exposed \in MaybeAccount
    /\ address \in MaybeAccount
    /\ connected \in BOOLEAN
    /\ authStatus \in AuthStatuses
    /\ accessToken \in MaybeAccount
    /\ cookieWallet \in MaybeAccount
    /\ restoring \in MaybeAccount
    /\ refresh \in [step : {"idle", "sent", "answered"}, wallet : MaybeAccount]
    /\ signIn \in [step : {"idle", "sign", "verify", "answered"}, account : MaybeAccount]
    /\ logout \in [Purposes -> {"idle", "sent", "answered"}]
    /\ switchesLeft \in 0..MaxSwitches

LEMMA TypeSplit == WaitInv <=> OthersTyped /\ SyncsOK /\ WaitingIsServed
BY DEF WaitInv, OthersTyped, WalletSessionTypeOK, SyncsOK

-----------------------------------------------------------------------------
(* What a step may do to the syncs *)

LEMMA NoSyncOK == NoSync \in Sync /\ SyncOK(NoSync)
BY DEF NoSync, Sync, SyncOK, MaybeAccount

\* One of them takes a step.
LEMMA OneSyncKeeps ==
    ASSUME SyncsOK, NEW s \in Syncs, NEW x, SyncOK(x), sync' = [sync EXCEPT ![s] = x]
    PROVE  SyncsOK'
BY DEF SyncsOK, SyncOK

\* Those at a step are over.
LEMMA SyncsEndKeep ==
    ASSUME SyncsOK, NEW step,
           sync' = [s \in Syncs |-> IF sync[s].step = step THEN NoSync ELSE sync[s]]
    PROVE  SyncsOK'
BY NoSyncOK DEF SyncsOK

\* One of them goes on with the account it has.
LEMMA SyncGoesOn ==
    ASSUME SyncsOK, NEW s \in Syncs, NEW step \in {"changed", "restore"},
           sync' = [sync EXCEPT ![s].step = step]
    PROVE  SyncsOK'
<1>1. sync[s] \in Sync
  BY DEF SyncsOK
<1>2. SyncOK([sync[s] EXCEPT !.step = step])
  BY <1>1 DEF SyncOK, Sync
<1> QED BY <1>2, OneSyncKeeps DEF SyncsOK

LEMMA SyncsKept ==
    WaitInv /\ [WalletSessionNext]_clientVars => SyncsOK'
<1> SUFFICES ASSUME WaitInv, [WalletSessionNext]_clientVars PROVE SyncsOK'
  OBVIOUS
<1>0. SyncsOK /\ exposed \in MaybeAccount
  BY DEF WaitInv, WalletSessionTypeOK
<1>1. ASSUME NEW s \in Syncs, NEW a \in MaybeAccount, NEW asks \in BOOLEAN,
             WalletEvent(s, a, asks)
      PROVE  SyncsOK'
  <2>1. SyncOK([NoSync EXCEPT !.step = "read", !.asks = asks])
    BY DEF NoSync, Sync, SyncOK, MaybeAccount
  <2> QED BY <1>0, <1>1, <2>1, OneSyncKeeps DEF WalletEvent
<1>2. ASSUME NEW s \in Syncs, ReadAccounts(s) PROVE SyncsOK'
  <2> DEFINE x == [sync[s] EXCEPT !.step = "apply", !.account = exposed]
  <2>1. sync[s] \in Sync /\ exposed # NoAccount
    BY <1>0, <1>2 DEF ReadAccounts, SyncsOK
  <2>2. SyncOK(x)
    BY <1>0, <2>1 DEF SyncOK, Sync
  <2>3. sync' = [sync EXCEPT ![s] = x]
    BY <1>0, <1>2 DEF ReadAccounts, SyncsOK
  <2> QED BY <1>0, <2>2, <2>3, OneSyncKeeps
<1>3. ASSUME NEW s \in Syncs, ReadNoAccounts(s) \/ SyncFails(s) PROVE SyncsOK'
  <2>1. sync' = [sync EXCEPT ![s] = NoSync]
    BY <1>3 DEF ReadNoAccounts, SyncFails
  <2> QED BY <1>0, <2>1, NoSyncOK, OneSyncKeeps
<1>4. ASSUME NEW s \in Syncs, ApplyChangedAccount(s) PROVE SyncsOK'
  BY <1>0, <1>4, SyncGoesOn DEF ApplyChangedAccount
<1>5. ASSUME NEW s \in Syncs, ApplyAccount(s) \/ JoinRestore(s) PROVE SyncsOK'
  BY <1>0, <1>5, SyncGoesOn DEF ApplyAccount, JoinRestore
<1>6. ASSUME RestoreEnds PROVE SyncsOK'
  BY <1>0, <1>6, SyncsEndKeep DEF RestoreEnds
<1>7. ASSUME NEW s \in Syncs, RefreshMissingAsks(s) PROVE SyncsOK'
  BY <1>6, <1>7 DEF RefreshMissingAsks
<1>8. CASE UNCHANGED sync
  BY <1>0, <1>8 DEF SyncsOK
<1>9. CASE RefreshSucceeds
  BY <1>6, <1>8, <1>9 DEF RefreshSucceeds
<1>10. CASE RefreshFails
  BY <1>6, <1>8, <1>10 DEF RefreshFails
<1>11. ASSUME NEW p \in Purposes, LogoutReturns(p) PROVE SyncsOK'
  <2>1. CASE p = "changed"
    BY <1>0, <1>11, <2>1, SyncsEndKeep DEF LogoutReturns
  <2>2. CASE p = "mismatch"
    BY <1>6, <1>11, <2>2 DEF LogoutReturns
  <2>3. CASE p \in {"disconnect", "gone"}
    BY <1>8, <1>11, <2>3 DEF LogoutReturns
  <2> QED BY <2>1, <2>2, <2>3 DEF Purposes
<1>12. ASSUME \/ RefreshServed \/ CallRefused
              \/ AuthenticateWallet \/ Sign \/ VerifyServed \/ SignedInAs \/ SignInFails
              \/ DisconnectWallet
              \/ \E p \in Purposes : LogoutServed(p)
              \/ UNCHANGED clientVars
       PROVE  UNCHANGED sync
  BY <1>12 DEF RefreshServed, CallRefused, AuthenticateWallet, Sign, VerifyServed, SignedInAs,
               SignInFails, DisconnectWallet, LogoutServed, clientVars
<1> QED
  BY <1>1, <1>2, <1>3, <1>4, <1>5, <1>7, <1>8, <1>9, <1>10, <1>11, <1>12 DEF WalletSessionNext

-----------------------------------------------------------------------------
(* Types *)

LEMMA OthersKept == WaitInv /\ [WalletSessionNext]_clientVars => OthersTyped'
<1> SUFFICES ASSUME WaitInv, [WalletSessionNext]_clientVars PROVE OthersTyped'
  OBVIOUS
<1>0. OthersTyped /\ SyncsOK
  BY TypeSplit
<1> USE <1>0, WalletSessionAssumption DEF OthersTyped, MaybeAccount, AuthStatuses
<1>1. ASSUME NEW s \in Syncs, NEW a \in MaybeAccount, NEW asks \in BOOLEAN,
             WalletEvent(s, a, asks)
      PROVE  OthersTyped'
  BY <1>1 DEF WalletEvent
<1>2. ASSUME NEW s \in Syncs, ReadAccounts(s) \/ SyncFails(s) PROVE OthersTyped'
  BY <1>2 DEF ReadAccounts, SyncFails
<1>3. ASSUME NEW s \in Syncs, ReadNoAccounts(s) PROVE OthersTyped'
  BY <1>3 DEF ReadNoAccounts, AskLogout
<1>4. ASSUME NEW s \in Syncs, ApplyChangedAccount(s) \/ ApplyAccount(s) \/ JoinRestore(s)
      PROVE  OthersTyped'
  <2>1. sync[s].account \in MaybeAccount
    BY DEF SyncsOK, SyncOK, Sync
  <2>2. CASE ApplyChangedAccount(s)
    <3>1. logout' \in [Purposes -> {"idle", "sent", "answered"}]
      BY <2>2 DEF ApplyChangedAccount, AskLogout
    <3> QED BY <2>1, <2>2, <3>1 DEF ApplyChangedAccount
  <2>3. CASE ApplyAccount(s)
    BY <2>1, <2>3 DEF ApplyAccount, AskRefresh
  <2>4. CASE JoinRestore(s)
    BY <2>1, <2>4 DEF JoinRestore
  <2> QED BY <1>4, <2>2, <2>3, <2>4
<1>5. CASE RefreshServed \/ CallRefused
  BY <1>5 DEF RefreshServed, CallRefused, AskRefresh
<1>6. CASE RefreshSucceeds
  <2>1. restoring' \in MaybeAccount /\ logout' \in [Purposes -> {"idle", "sent", "answered"}]
    BY <1>6 DEF RefreshSucceeds, RestoreEnds, AskLogout
  <2>2. authStatus' \in AuthStatuses
    BY <1>6 DEF RefreshSucceeds
  <2> QED BY <1>6, <2>1, <2>2 DEF RefreshSucceeds, NoRefresh
<1>7. CASE RefreshFails
  <2>1. restoring' \in MaybeAccount
    BY <1>7 DEF RefreshFails, RestoreEnds
  <2>2. authStatus' \in AuthStatuses
    BY <1>7 DEF RefreshFails, RefusedStatus
  <2> QED BY <1>7, <2>1, <2>2 DEF RefreshFails, NoRefresh
<1>8. ASSUME NEW s \in Syncs, RefreshMissingAsks(s) PROVE OthersTyped'
  <2>1. sync[s].account \in MaybeAccount
    BY DEF SyncsOK, SyncOK, Sync
  <2>2. /\ signIn' \in [step : {"idle", "sign", "verify", "answered"}, account : MaybeAccount]
        /\ authStatus' \in AuthStatuses
    BY <1>8, <2>1 DEF RefreshMissingAsks
  <2> QED BY <1>8, <2>2 DEF RefreshMissingAsks, RestoreEnds, NoRefresh
<1>9. CASE AuthenticateWallet \/ Sign
  BY <1>9 DEF AuthenticateWallet, Sign
<1>10. CASE VerifyServed \/ SignedInAs
  BY <1>10 DEF VerifyServed, SignedInAs, NoSignIn
<1>11. CASE SignInFails
  BY <1>11 DEF SignInFails, NoSignIn, RefusedStatus
<1>12. ASSUME NEW p \in Purposes, LogoutServed(p) PROVE OthersTyped'
  BY <1>12 DEF LogoutServed
<1>13. CASE DisconnectWallet
  <2>1. logout' \in [Purposes -> {"idle", "sent", "answered"}]
    BY <1>13 DEF DisconnectWallet, AskLogout
  <2> QED BY <1>13, <2>1 DEF DisconnectWallet
<1>14. ASSUME NEW p \in Purposes, LogoutReturns(p) PROVE OthersTyped'
  <2>1. /\ logout' \in [Purposes -> {"idle", "sent", "answered"}]
        /\ accessToken' \in MaybeAccount
        /\ UNCHANGED <<exposed, cookieWallet, refresh, signIn, switchesLeft>>
    BY <1>14 DEF LogoutReturns
  <2>2. CASE p = "changed"
    BY <1>14, <2>1, <2>2 DEF LogoutReturns
  <2>3. CASE p = "mismatch"
    BY <1>14, <2>1, <2>3 DEF LogoutReturns, RestoreEnds
  <2>4. CASE p = "disconnect"
    BY <1>14, <2>1, <2>4 DEF LogoutReturns
  <2>5. CASE p = "gone"
    BY <1>14, <2>1, <2>5 DEF LogoutReturns, SessionGone
  <2> QED BY <2>2, <2>3, <2>4, <2>5 DEF Purposes
<1>15. CASE UNCHANGED clientVars
  BY <1>15 DEF clientVars
<1> QED
  BY <1>1, <1>2, <1>3, <1>4, <1>5, <1>6, <1>7, <1>8, <1>9, <1>10, <1>11, <1>12, <1>13, <1>14,
     <1>15
  DEF WalletSessionNext

-----------------------------------------------------------------------------
(* What the page waits for *)

LEMMA WaitingKept == WaitInv /\ [WalletSessionNext]_clientVars => WaitingIsServed'
<1> SUFFICES ASSUME WaitInv, [WalletSessionNext]_clientVars PROVE WaitingIsServed'
  OBVIOUS
<1>0. OthersTyped /\ SyncsOK /\ WaitingIsServed
  BY TypeSplit
<1> USE <1>0 DEF WaitingIsServed
<1>1. ASSUME NEW s \in Syncs, NEW a \in MaybeAccount, NEW asks \in BOOLEAN,
             WalletEvent(s, a, asks)
      PROVE  WaitingIsServed'
  BY <1>1 DEF WalletEvent
<1>2. ASSUME NEW s \in Syncs, ReadAccounts(s) \/ SyncFails(s) \/ JoinRestore(s)
      PROVE  WaitingIsServed'
  BY <1>2 DEF ReadAccounts, SyncFails, JoinRestore
<1>3. ASSUME NEW s \in Syncs, ReadNoAccounts(s) \/ ApplyChangedAccount(s)
      PROVE  WaitingIsServed'
  BY <1>3 DEF ReadNoAccounts, ApplyChangedAccount, AskLogout, OthersTyped, Purposes
<1>4. ASSUME NEW s \in Syncs, ApplyAccount(s) PROVE WaitingIsServed'
  <2>1. sync[s].account # NoAccount
    BY <1>4 DEF ApplyAccount, SyncsOK, SyncOK
  <2>2. refresh'.step # "idle"
    BY <1>4 DEF ApplyAccount, AskRefresh
  <2> QED BY <1>4, <2>1, <2>2 DEF ApplyAccount
<1>5. CASE RefreshServed \/ CallRefused
  BY <1>5 DEF RefreshServed, CallRefused, AskRefresh
<1>6. CASE RefreshSucceeds
  <2>1. CASE ~RestoreWaits
    BY <1>6, <2>1 DEF RefreshSucceeds, RestoreWaits
  <2>2. CASE RestoreWaits /\ refresh.wallet = restoring
    BY <1>6, <2>2 DEF RefreshSucceeds, RestoreEnds
  <2>3. CASE RestoreWaits /\ refresh.wallet # restoring
    <3>1. /\ restoring' = restoring
          /\ signIn' = signIn
          /\ authStatus' \in {authStatus, "authenticated"}
      BY <1>6, <2>3 DEF RefreshSucceeds
    <3>2. logout'["mismatch"] = "sent"
      BY <1>6, <2>3 DEF RefreshSucceeds, AskLogout, OthersTyped, Purposes
    <3> QED BY <3>1, <3>2
  <2> QED BY <2>1, <2>2, <2>3
<1>7. CASE RefreshFails
  <2>1. CASE RestoreWaits
    BY <1>7, <2>1 DEF RefreshFails, RestoreEnds, RefusedStatus
  <2>2. CASE ~RestoreWaits
    BY <1>7, <2>2 DEF RefreshFails, RestoreWaits, RefusedStatus
  <2> QED BY <2>1, <2>2
<1>8. ASSUME NEW s \in Syncs, RefreshMissingAsks(s) PROVE WaitingIsServed'
  BY <1>8 DEF RefreshMissingAsks, RestoreEnds
<1>9. CASE AuthenticateWallet \/ Sign \/ VerifyServed
  BY <1>9 DEF AuthenticateWallet, Sign, VerifyServed, OthersTyped
<1>10. CASE SignedInAs \/ SignInFails
  BY <1>10 DEF SignedInAs, SignInFails, RefusedStatus
<1>11. ASSUME NEW p \in Purposes, LogoutServed(p) PROVE WaitingIsServed'
  BY <1>11 DEF LogoutServed, OthersTyped, Purposes
<1>12. CASE DisconnectWallet
  BY <1>12 DEF DisconnectWallet, AskLogout, OthersTyped, Purposes
<1>13. ASSUME NEW p \in Purposes, LogoutReturns(p) PROVE WaitingIsServed'
  <2>1. CASE p = "mismatch"
    BY <1>13, <2>1 DEF LogoutReturns, RestoreEnds
  <2>2. ASSUME p # "mismatch" PROVE logout'["mismatch"] = logout["mismatch"]
    BY <1>13, <2>2 DEF LogoutReturns, OthersTyped, Purposes
  <2>3. CASE p = "changed"
    BY <1>13, <2>2, <2>3 DEF LogoutReturns
  <2>4. CASE p = "disconnect"
    BY <1>13, <2>2, <2>4 DEF LogoutReturns
  <2>5. CASE p = "gone"
    BY <1>13, <2>2, <2>5 DEF LogoutReturns, SessionGone
  <2> QED BY <2>1, <2>3, <2>4, <2>5 DEF Purposes
<1>14. CASE UNCHANGED clientVars
  BY <1>14 DEF clientVars
<1> QED
  BY <1>1, <1>2, <1>3, <1>4, <1>5, <1>6, <1>7, <1>8, <1>9, <1>10, <1>11, <1>12, <1>13, <1>14
  DEF WalletSessionNext

LEMMA WaitInvHolds == WalletSessionSpec => []WaitInv
<1>1. WalletSessionInit => WaitInv
  <2> SUFFICES ASSUME WalletSessionInit PROVE OthersTyped /\ SyncsOK /\ WaitingIsServed
    BY TypeSplit
  <2>1. OthersTyped
    <3>1. /\ refresh \in [step : {"idle", "sent", "answered"}, wallet : MaybeAccount]
          /\ signIn \in [step : {"idle", "sign", "verify", "answered"}, account : MaybeAccount]
          /\ logout \in [Purposes -> {"idle", "sent", "answered"}]
      BY DEF WalletSessionInit, MaybeAccount, NoRefresh, NoSignIn
    <3>2. switchesLeft \in 0..MaxSwitches /\ authStatus \in AuthStatuses /\ connected = FALSE
      BY WalletSessionAssumption DEF WalletSessionInit, AuthStatuses
    <3> QED BY <3>1, <3>2 DEF WalletSessionInit, OthersTyped, MaybeAccount
  <2>2. SyncsOK
    BY NoSyncOK DEF WalletSessionInit, SyncsOK
  <2>3. WaitingIsServed
    BY DEF WalletSessionInit, WaitingIsServed
  <2> QED BY <2>1, <2>2, <2>3
<1>2. WaitInv /\ [WalletSessionNext]_clientVars => WaitInv'
  <2> SUFFICES ASSUME WaitInv, [WalletSessionNext]_clientVars PROVE WaitInv'
    OBVIOUS
  <2>1. OthersTyped' /\ SyncsOK' /\ WaitingIsServed'
    BY OthersKept, SyncsKept, WaitingKept
  <2> QED BY <2>1 DEF WaitInv, OthersTyped, WalletSessionTypeOK, SyncsOK
<1> QED BY <1>1, <1>2, PTL DEF WalletSessionSpec

\* The account, the token, the statuses and the requests of the page keep their types.
THEOREM WalletTypeCorrect == WalletSessionSpec => []WalletSessionTypeOK
<1>1. WaitInv => WalletSessionTypeOK
  BY DEF WaitInv
<1> QED BY <1>1, WaitInvHolds, PTL

\* In whatever order syncs, refreshes, signatures and logouts answer and however
\* often the wallet changes (WalletContext): a page that says it restores or signs
\* in has the request under way that ends it.
THEOREM WaitingServed == WalletSessionSpec => []WaitingIsServed
<1>1. WaitInv => WaitingIsServed
  BY DEF WaitInv
<1> QED BY <1>1, WaitInvHolds, PTL

-----------------------------------------------------------------------------
(* The behaviours of MCSessions *)

\* Each behaviour is one of the server's sessions and one of the page's, so that
\* what is proved of a side holds of the specification whose runs check it.
THEOREM SessionsBehave == SessionsSpec => AuthSpec /\ WalletSessionSpec
<1>1. SessionsInit => AuthInit /\ WalletSessionInit
  BY DEF SessionsInit
<1>2. [SessionsNext]_<<running, authVars, clientVars>> =>
        [AuthNext]_authVars /\ [WalletSessionNext]_clientVars
  BY DEF SessionsNext
<1> QED BY <1>1, <1>2, PTL DEF SessionsSpec, AuthSpec, WalletSessionSpec

\* Rows, tokens and cookies, and the memory of the tabs and of the page.
THEOREM SessionsTypeCorrect == SessionsSpec => []SessionsTypeOK
<1>1. AuthTypeOK /\ WalletSessionTypeOK => SessionsTypeOK
  BY DEF SessionsTypeOK
<1> QED BY <1>1, SessionsBehave, AuthTypeCorrect, WalletTypeCorrect, PTL

=============================================================================
