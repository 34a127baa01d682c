----------------------------- MODULE MCSessions -----------------------------
(* The sessions as the server keeps them, for two tabs of a browser, and as *)
(* the page of one tab keeps them, each on an instance of its own.  Every   *)
(* property is one of safety, and tabs, runs of a sync, challenges,         *)
(* accounts, sessions and tokens are each interchangeable.                  *)
EXTENDS AuthSessions, WalletSession, TLC

VARIABLE running  \* the side of this behaviour

SessionsInit ==
    /\ running \in {"server", "client"}
    /\ AuthInit
    /\ WalletSessionInit
    /\ running = "server" => exposed = NoAccount /\ cookieWallet = NoAccount

SessionsNext ==
    \/ running = "server" /\ AuthNext /\ UNCHANGED <<running, clientVars>>
    \/ running = "client" /\ WalletSessionNext /\ UNCHANGED <<running, authVars>>

SessionsSpec == SessionsInit /\ [][SessionsNext]_<<running, authVars, clientVars>>

SessionsTypeOK == AuthTypeOK /\ WalletSessionTypeOK

\* The tabs of the one side are also the syncs of the other, and the challenges
\* the accounts, so that one group of permutations does for both.
Interchangeable ==
    Permutations(Tabs) \cup Permutations(Challenges)
        \cup Permutations(Sessions) \cup Permutations(Tokens)
=============================================================================
