--------------------------- MODULE MCBackendProcess ---------------------------
(* Two parts of the backend process that share no state, each on a small    *)
(* instance of its own: requests of one player for the daily bonus, and the  *)
(* process that starts, refreshes the world state and stops.  The initial    *)
(* state picks one, and the other stays where it starts.                     *)
EXTENDS DailyReward, Startup

VARIABLE part  \* the part of this behaviour

backendVars == <<dailyVars, startupVars, part>>

BackendInit ==
    /\ part \in {"daily", "startup"}
    /\ DailyInit
    /\ StartupInit

Daily(A) == part = "daily" /\ A /\ UNCHANGED <<startupVars, part>>
Process(A) == part = "startup" /\ A /\ UNCHANGED <<dailyVars, part>>

BackendNext == Daily(DailyNext) \/ Process(StartupNext)

\* The fairness of either part.
BackendSpec ==
    /\ BackendInit
    /\ [][BackendNext]_backendVars
    /\ \A r \in Requests : /\ WF_backendVars(Daily(RequestStep(r)))
                           /\ WF_backendVars(Daily(Mine(r)))
    /\ WF_backendVars(Process(InitStep))
    /\ WF_backendVars(Process(Retry))
    /\ \A k \in Refreshes : WF_backendVars(Process(RefreshStep(k)))
    /\ WF_backendVars(Process(ForceExit))

BackendTypeOK == DailyTypeOK /\ StartupTypeOK

=============================================================================
