------------------------------ MODULE Startup ------------------------------
(***************************************************************************)
(* The start and stop of the backend process (backend/src/index.ts) and    *)
(* the snapshots of services/worldStateCoordinator.ts.  A step that timed  *)
(* out goes on in the background while the initialization is retried, and  *)
(* requests and projected events refresh the world state meanwhile.  The   *)
(* database keeps the snapshots when a process ends.                       *)
(***************************************************************************)
EXTENDS Naturals

CONSTANTS
    Refreshes,    \* calls of refreshWorldState that may be under way at once
    MaxSignals,   \* bound on the events that refresh the world state
    MaxFailures,  \* bound on failing queries and on steps that time out
    MaxStarts     \* bound on the processes started

ASSUME StartupAssumption ==
    /\ Refreshes # {}
    /\ MaxSignals \in Nat
    /\ MaxFailures \in Nat
    /\ MaxStarts \in Nat

VARIABLES
    process,       \* isShuttingDown, or gone
    shutdown,      \* where gracefulShutdown is
    init,          \* the startup step initializeBackgroundServices waits for
    retryTimer,
    servicesReady,
    workerTimer,   \* the timer of the proof verification worker
    initialized,   \* of the coordinator
    refresh,       \* refresh[k]: a call of refreshWorldState
    snapshots,     \* versions of the WorldStateSnapshot rows
    active,        \* those with isActive
    signalsLeft, failuresLeft, startsLeft

memoryVars == <<process, shutdown, init, retryTimer, servicesReady, workerTimer,
                initialized, refresh>>
tables == <<snapshots, active>>
bounds == <<signalsLeft, failuresLeft, startsLeft>>
startupVars == <<memoryVars, tables, bounds>>

NoRefreshCall == [step |-> "idle", starter |-> "nobody", latest |-> 0]

StartupTypeOK ==
    /\ process \in {"running", "stopping", "exited"}
    /\ shutdown \in {"none", "server", "worker", "database"}
    /\ init \in {"idle", "database", "worldState", "worker"}
    /\ retryTimer \in BOOLEAN
    /\ servicesReady \in BOOLEAN
    /\ workerTimer \in BOOLEAN
    /\ initialized \in BOOLEAN
    /\ refresh \in [Refreshes -> [step : {"idle", "read", "store"},
                                  starter : {"nobody", "init", "late", "request"},
                                  latest : Nat]]
    /\ snapshots \subseteq Nat
    /\ active \subseteq Nat
    /\ signalsLeft \in Nat
    /\ failuresLeft \in Nat
    /\ startsLeft \in Nat

StartupInit ==
    /\ process = "exited"
    /\ shutdown = "none"
    /\ init = "idle"
    /\ retryTimer = FALSE
    /\ servicesReady = FALSE
    /\ workerTimer = FALSE
    /\ initialized = FALSE
    /\ refresh = [k \in Refreshes |-> NoRefreshCall]
    /\ snapshots = {}
    /\ active = {}
    /\ signalsLeft = MaxSignals
    /\ failuresLeft = MaxFailures
    /\ startsLeft = MaxStarts

-----------------------------------------------------------------------------
(* initializeBackgroundServices *)

Alive == process # "exited"

SpendFailure ==
    /\ failuresLeft > 0
    /\ failuresLeft' = failuresLeft - 1
    /\ UNCHANGED <<signalsLeft, startsLeft>>

\* Mutant: no retry is scheduled.
InitFailsForGood ==
    /\ init' = "idle"
    /\ servicesReady' = FALSE
    /\ UNCHANGED retryTimer

\* The catch block: scheduleServiceRetry does nothing during a shutdown.
InitFails ==
    /\ init' = "idle"
    /\ servicesReady' = FALSE
    /\ retryTimer' = (retryTimer \/ process = "running")

RefreshStarts(k, starter) ==
    /\ refresh[k].step = "idle"
    /\ refresh' = [refresh EXCEPT ![k] = [step |-> "read", starter |-> starter, latest |-> 0]]

DatabaseReady ==
    /\ Alive
    /\ init = "database"
    /\ IF initialized
       THEN init' = "worker" /\ UNCHANGED refresh
       ELSE init' = "worldState" /\ \E k \in Refreshes : RefreshStarts(k, "init")
    /\ UNCHANGED <<process, shutdown, retryTimer, servicesReady, workerTimer, initialized,
                   tables, bounds>>

DatabaseFails ==
    /\ Alive
    /\ init = "database"
    /\ SpendFailure
    /\ InitFails
    /\ UNCHANGED <<process, shutdown, workerTimer, initialized, refresh, tables>>

\* withTimeout gives the step up, and the refresh goes on.
WorldStateTimesOut ==
    /\ Alive
    /\ init = "worldState"
    /\ SpendFailure
    /\ InitFails
    /\ refresh' = [k \in Refreshes |-> IF refresh[k].starter = "init"
                                       THEN [refresh[k] EXCEPT !.starter = "late"]
                                       ELSE refresh[k]]
    /\ UNCHANGED <<process, shutdown, workerTimer, initialized, tables>>

\* isShuttingDown is not looked at between the steps.
StartWorker ==
    /\ Alive
    /\ init = "worker"
    /\ init' = "idle"
    /\ servicesReady' = TRUE
    /\ workerTimer' = TRUE
    /\ UNCHANGED <<process, shutdown, retryTimer, initialized, refresh, tables, bounds>>

\* The timer calls initializeBackgroundServices, which returns if it is running
\* or has succeeded.
Retry ==
    /\ Alive
    /\ retryTimer
    /\ retryTimer' = FALSE
    /\ init' = IF init = "idle" /\ ~servicesReady THEN "database" ELSE init
    /\ UNCHANGED <<process, shutdown, servicesReady, workerTimer, initialized, refresh,
                   tables, bounds>>

-----------------------------------------------------------------------------
(* refreshWorldState *)

\* getCurrentWorldState refreshes only while there is no active snapshot.
RequestRefreshes(k) ==
    /\ process = "running"
    /\ active = {}
    /\ RefreshStarts(k, "request")
    /\ UNCHANGED <<process, shutdown, init, retryTimer, servicesReady, workerTimer,
                   initialized, tables, bounds>>

\* handleGameplaySignal, for every projected event.
SignalRefreshes(k) ==
    /\ process = "running"
    /\ signalsLeft > 0
    /\ signalsLeft' = signalsLeft - 1
    /\ RefreshStarts(k, "request")
    /\ UNCHANGED <<process, shutdown, init, retryTimer, servicesReady, workerTimer,
                   initialized, tables, failuresLeft, startsLeft>>

Newest(versions) == IF versions = {} THEN 0
                    ELSE CHOOSE v \in versions : \A w \in versions : w <= v

\* findLatestSnapshot
ReadLatest(k) ==
    /\ Alive
    /\ refresh[k].step = "read"
    /\ refresh' = [refresh EXCEPT ![k].step = "store", ![k].latest = Newest(active)]
    /\ UNCHANGED <<process, shutdown, init, retryTimer, servicesReady, workerTimer,
                   initialized, tables, bounds>>

\* The call returns, to initialize if that began it.  The hash of a state holds
\* its version and its time, so that no refresh finds the state unchanged.
Returns(k) ==
    /\ refresh' = [refresh EXCEPT ![k] = NoRefreshCall]
    /\ initialized' = (initialized \/ refresh[k].starter \in {"init", "late"})
    /\ init' = IF refresh[k].starter = "init" THEN "worker" ELSE init
    /\ UNCHANGED <<process, shutdown, retryTimer, servicesReady, workerTimer>>

\* An error reaches the startup step only if that still waits.
Throws(k) ==
    /\ refresh' = [refresh EXCEPT ![k] = NoRefreshCall]
    /\ IF refresh[k].starter = "init"
       THEN InitFails
       ELSE UNCHANGED <<init, servicesReady, retryTimer>>
    /\ UNCHANGED <<process, shutdown, workerTimer, initialized>>

\* The transaction: every active row is deactivated, if the call has read one, and
\* the next version inserted, which is unique.
Insert(k) ==
    LET next == refresh[k].latest + 1
    IN  /\ next \notin snapshots
        /\ snapshots' = snapshots \cup {next}
        /\ active' = IF refresh[k].latest = 0 THEN active \cup {next} ELSE {next}

StoreSnapshot(k) ==
    /\ Alive
    /\ refresh[k].step = "store"
    /\ Insert(k)
    /\ Returns(k)
    /\ UNCHANGED bounds

\* Mutant: the rows are deactivated outside of the transaction.
VersionTakenDeactivated(k) ==
    /\ Alive
    /\ refresh[k].step = "store"
    /\ refresh[k].latest + 1 \in snapshots
    /\ active' = IF refresh[k].latest = 0 THEN active ELSE {}
    /\ Throws(k)
    /\ UNCHANGED <<snapshots, bounds>>

\* The unique version is taken: the transaction is rolled back.
VersionTaken(k) ==
    /\ Alive
    /\ refresh[k].step = "store"
    /\ refresh[k].latest + 1 \in snapshots
    /\ Throws(k)
    /\ UNCHANGED <<tables, bounds>>

\* A query fails, or the answer of a transaction that was committed is lost.
RefreshThrows(k) ==
    /\ Alive
    /\ refresh[k].step # "idle"
    /\ SpendFailure
    /\ Throws(k)
    /\ UNCHANGED tables \/ (refresh[k].step = "store" /\ Insert(k))

-----------------------------------------------------------------------------
(* gracefulShutdown *)

\* A signal, or an uncaught exception.
BeginShutdown ==
    /\ process = "running"
    /\ process' = "stopping"
    /\ shutdown' = "server"
    /\ retryTimer' = FALSE
    /\ UNCHANGED <<init, servicesReady, workerTimer, initialized, refresh, tables, bounds>>

ServerClosed ==
    /\ process = "stopping"
    /\ shutdown = "server"
    /\ shutdown' = "worker"
    /\ workerTimer' = FALSE
    /\ UNCHANGED <<process, init, retryTimer, servicesReady, initialized, refresh, tables,
                   bounds>>

\* stopProofVerificationWorker has waited for the proofs in progress.
WorkerStopped ==
    /\ process = "stopping"
    /\ shutdown = "worker"
    /\ shutdown' = "database"
    /\ UNCHANGED <<process, init, retryTimer, servicesReady, workerTimer, initialized,
                   refresh, tables, bounds>>

Gone ==
    /\ process' = "exited"
    /\ shutdown' = "none"
    /\ init' = "idle"
    /\ retryTimer' = FALSE
    /\ servicesReady' = FALSE
    /\ workerTimer' = FALSE
    /\ initialized' = FALSE
    /\ refresh' = [k \in Refreshes |-> NoRefreshCall]
    /\ UNCHANGED <<tables, bounds>>

DatabaseClosed ==
    /\ process = "stopping"
    /\ shutdown = "database"
    /\ Gone

\* Mutant: the timer is cleared before the services are stopped.
ForceExitCleared ==
    /\ process = "stopping"
    /\ shutdown = "server"
    /\ Gone

\* forceExitTimer: whatever the shutdown waits for.
ForceExit ==
    /\ process = "stopping"
    /\ Gone

Killed == process = "running" /\ Gone

\* The supervisor starts a process, which calls initializeBackgroundServices when its
\* server listens.
StartProcess ==
    /\ process = "exited"
    /\ startsLeft > 0
    /\ startsLeft' = startsLeft - 1
    /\ process' = "running"
    /\ init' = "database"
    /\ UNCHANGED <<shutdown, retryTimer, servicesReady, workerTimer, initialized, refresh,
                   tables, signalsLeft, failuresLeft>>

\* What the event loop and the timers of a process go on with.
InitStep == DatabaseReady \/ StartWorker
RefreshStep(k) == ReadLatest(k) \/ StoreSnapshot(k) \/ VersionTaken(k)

StartupNext ==
    \/ InitStep
    \/ DatabaseFails
    \/ WorldStateTimesOut
    \/ Retry
    \/ \E k \in Refreshes : RequestRefreshes(k)
    \/ \E k \in Refreshes : SignalRefreshes(k)
    \/ \E k \in Refreshes : RefreshStep(k)
    \/ \E k \in Refreshes : RefreshThrows(k)
    \/ BeginShutdown
    \/ ServerClosed
    \/ WorkerStopped
    \/ DatabaseClosed
    \/ ForceExit
    \/ Killed
    \/ StartProcess

\* Queries are answered and timers elapse.  Nothing says that connections end or
\* that the proofs in progress do: of a shutdown only the timer is sure.
StartupFairness ==
    /\ WF_startupVars(InitStep)
    /\ WF_startupVars(Retry)
    /\ \A k \in Refreshes : WF_startupVars(RefreshStep(k))
    /\ WF_startupVars(ForceExit)

StartupSpec == StartupInit /\ [][StartupNext]_startupVars /\ StartupFairness

-----------------------------------------------------------------------------
(* Properties *)

\* Refreshes of requests, of events, of a startup step that was given up and of
\* the one that follows it read the latest version and store the next one later
\* (refreshWorldState): whatever their order and whichever fails, the active
\* snapshot is always one, the newest, and a ready process has it.
ActiveSnapshotIsNewest ==
    /\ snapshots # {} => active = {Newest(snapshots)}
    /\ servicesReady => snapshots # {}

\* However the steps fail and time out, late refreshes take versions away from the
\* retry's own, and timers and steps overlap (scheduleServiceRetry): a process that
\* is not stopped gets ready.
ServicesBecomeReady == process = "running" ~> (servicesReady \/ process # "running")

\* A shutdown that waits for a connection, for a proof that is being verified or
\* for the database ends all the same.
ShutdownEnds == process = "stopping" ~> process = "exited"
=============================================================================
