# QuestForge: specifications, model checking and proofs

QuestForge is a quest game whose rewards are paid in CELO. Three contracts
(`contracts/contracts/`) hold the money and the life cycle of quests, an Express
backend (`backend/src/`) generates quests, verifies proofs, projects chain events
into PostgreSQL and pays a daily bonus, and a React frontend signs the player's
transactions. This directory holds TLA+ models of that code, the TLC runs that
check them and the TLAPS proofs about them. `PROJECT.json` maps every definition
to the lines it models and lists runs, mutants, hazards, findings and theorems.

## 1. Inventory

| Component | State | Operations | Hard behaviour | What makes it correct | Modelled |
|---|---|---|---|---|---|
| `ForgeQuestManager.sol` | quests, nonces, proof registry, treasury in use, roles, switches | create, accept, submit, verify, claim, cancel; owner calls | resubmission after a failed verdict, treasury switched under running quests, proofs competing between quests | quest and reservation agree; a proof, a nonce and a verdict belong to one quest | all but `transferOwnership` |
| `Treasury.sol` | native balance, running total, one fund per quest, caps, pause | reserve, settle, refund; deposit, caps, pause, emergency withdrawal | a running total stands for the sum of reservations | the balance always covers the reservations; each fund is held once and closed once | all but `transferOwnership` |
| `Reputation.sol` | profile per player | initialize, rewardXP | repeated initialisation, level and day boundaries | progress is never lost | calls; the roles are not state |
| `RewardNFT.sol` | minted quest ids | mint | called by nobody in the repository | one token per quest | as the event the projector reads |
| Daily bonus (`dailyRewardService.ts`) | claim row per user and UTC day, user totals, broadcast transfers | claim: look up, resume, reserve, send, store hash, wait, finalise | concurrent requests, crash between send and store, ten-minute lock, midnight, late failure updates | one payment per day; books and chain agree | the claim of one player |
| Quest controller (`questController.ts`) | quest, payout and counter rows | generate, accept, register on chain, submit proof, link | read, await, unconditional update | one acceptance per quest; a payout belongs to its creator | the writing handlers |
| Anti-abuse (`antiAbuse.ts`) | daily counters | check, increment | check then act | limits hold under concurrency | counters and bounds |
| Rule engine (`ruleBasedQuestEngine.ts`, `questValidationEngine.ts`) | none that survives a request | generate a quest, validate it | two tables and two roundings that must agree | the validator keeps the draft | yes, without prose |
| Verification worker (`verification.ts`) | proof submissions, quest status, stats | poll, claim, verify on chain, write back | timeout of a transaction that still lands, crash while processing, failure after success on chain | database and chain agree on the verdict | yes |
| Event projector (`authoritativeEventProjector.ts` and projections) | read models, cursor, dead letters | one handler per event, replay, recovery | replay and reordering of events, recovery that stops half way | replay counts nothing twice and restores the rows | one quest |
| Wallet authentication (`auth.ts`, `authController.ts`) | challenges, sessions, refresh tokens | challenge, verify, refresh, revoke | concurrent verification, refresh races revocation | a challenge and a refresh token are used once | yes |
| Start and stop (`index.ts`) | step results, timers | startup steps with timeouts, retries, shutdown | a timed-out step goes on in the background | services get ready, shutdown ends | yes, without validation and routes |
| World state (`worldStateCoordinator.ts`) | versioned snapshots | refresh | version read outside the transaction that stores the next | one active snapshot, the newest | versions, not contents |
| Wallet session of the page (`WalletContext.tsx`, `lib/api.ts`) | address, statuses, promises in flight | sync, restore, sign in, log out | answers after the wallet has changed | nobody waits for nothing; authenticated as connected | one tab |
| Quest flow of the page (`CommandCenter.tsx`) | the last quest, handlers under way | generate, accept, submit | handlers show their answer on what they captured | what is shown was served | one tab |
| RPC providers | health, backoff | retry, failover, chunked log queries | no caller in the repository | | no |
| Scripts, remaining frontend, generated code | none | | | | no |

**Interaction.** The manager calls Treasury and Reputation inside its own
transactions (a revert of one reverts all); the backend's verifier account calls
`verifyQuest`; the projector reads what the contracts emit; the daily bonus is
paid by the backend's own signer, outside the contracts. The page creates quests
on chain with the player's wallet and then tells the quest controller, which
reads the receipt. The worker refreshes nothing it did not read itself: database
rows are the only state that requests, workers and projector share.

## 2. Modules

| Module | Models |
|---|---|
| `Accounts` | addresses, and the bound `OwnersSwitch` shared by the contracts |
| `Escrow` | abstract: what a treasury promises, with the obligation recomputed from its items instead of a running total |
| `Treasury` | `Treasury.sol`; every variable is a function of the deployed contract, because `setTreasury` points the manager from one to another |
| `Reputation` | `Reputation.sol` |
| `ForgeQuestManager` | `ForgeQuestManager.sol`, composed with the two above |
| `DailyBonus` | abstract: what the daily bonus promises, a payment a day and books that follow it |
| `DailyReward` | `dailyRewardService.ts`, with the signer's transfers, the clock and the process |
| `VerificationWorker` | `verification.ts`, with the part of `ForgeQuestManager.sol` its verdicts reach |
| `AuthSessions` | `auth.ts`, `authController.ts` and `requireAuth`, with the browser's tabs and their cookie |
| `QuestBackend` | `questController.ts` with the daily counters: requests that check in one step and write in another |
| `QuestRules` | the engine, the validator and the template tables as operators; its one action generates a quest for some profile |
| `EventProjector` | the event handlers, `replayFromEventStore` and `recoverDeadLetters`, for a quest whose events the contracts of the model emit |
| `Startup` | `index.ts` and the snapshots of the world state |
| `WalletSession` | `WalletContext.tsx` over the requests of `api.ts` |
| `QuestPage` | the three handlers of `CommandCenter.tsx` with the rows of the server they reach |
| `MCComponents`, `MCSessions`, `MCBackendProcess` | components that share no state, run side by side |
| `MCForgeQuestManager`, `MCVerificationWorker` | instances of the two modules they extend |
| `DataInduction` | induction over the naturals and sums over finite sets, for the proofs |
| `Contracts_proofs` | theorems about `Treasury` and `Reputation` |
| `QuestServices_proofs` | theorems about `QuestBackend`, `QuestRules` and `EventProjector` |
| `Components_proofs` | theorems about `QuestPage` and `MCComponents` |
| `Sessions_proofs` | theorems about `AuthSessions`, `WalletSession` and `MCSessions` |
| `BackendProcess_proofs` | theorems about `DailyReward`, `Startup` and `MCBackendProcess` |
| `ForgeQuestManager_proofs`, `VerificationWorker_proofs` | theorems about the module of that name and, of the first, `MCForgeQuestManager` |

**Correspondence, on chain.** A transaction is one step. A `require` that fails
reverts everything, so it is a conjunct of the action's guard. Caller roles are
guards where the model keeps the role as state (`QUEST_MANAGER_ROLE`,
`VERIFIER_ROLE`); owner, guardian, withdrawer and REWARD_ROLE holders may act at
any time. Hashes are injective: a proof stands for its hash and a verification
hash for the tuple it is computed from. Title, metadata, xpReward and the events
are data no property depends on. The mapping `quests` returns a zero record for
an unknown id; that record is `NoQuest` with the status "None" here, because the
code tells it from a quest by `questId != 0`. `ReserveReward` and
`InitializePlayer` leave `balance` and `now` to the transaction they are part of.

**Correspondence, off chain.** Node interleaves requests at `await` only, so that
a step is the code from one awaited statement to the next; a statement of
PostgreSQL (READ COMMITTED) is atomic, a transaction is one step unless the
locks it holds between its statements matter (`Locked` in `AuthSessions`). A
`WHERE` clause of an UPDATE is looked at when the statement takes effect. Each
request, poll or tab is a process with its own program counter; a request that
has ended may be sent again. A crash loses the program counters and local
variables and keeps the rows and the transactions already broadcast. Random
identifiers, nonces and tokens are drawn fresh. Rows no property reads (profile
totals in the daily bonus, the reward, NFT and history rows of a verification)
are one step that may fail.

Per module:

- `QuestBackend`: the reads and refusals of a handler are one step
  (`GenerateCheck`, `AcceptCheck`, ...), because they change nothing, and its
  writes another (`Save`, `Accept`, ...); `Receipt` stands for the calls to the
  node in between. `Abandon` loses any request.
- `QuestRules`: CELO in units of 0.0001, the engine's rounding; where the code
  rounds a double the model takes either neighbour of a tie. Only the
  `native_transfer` templates of levels 1 and 2 are ever selected, which is why
  the two minima agree: the Achievement template of difficulty 4 would state
  0.0175 CELO but ask for 0.024.
- `VerificationWorker`: under `rpc` a call to the node may fail before it did
  anything or after (the lost reply of a broadcast verdict), the wait for a receipt
  may end with an error, and the block of a receipt may be out of reach. The last is
  queried (`verification.ts:359`) when the verdict is mined, the row VERIFIED and the
  activity credited, inside the `try`: the accepted proof is then settled as a failure
  too. `LateFailure` names the faults that do this, and the properties say what holds
  in spite of them. `GivenUp` adds the late receipts.
- `EventProjector`: the log grows by what the contracts emit, in their order, and
  each event names a wallet, which becomes the row's player: the creator in a
  payment, since the treasury reserves for the creator (`Treasury.sol:88`), the
  accepter in a refund or a verdict, and in a mint whoever the minter says; the
  wallets belong to users of one clan. A command projects a range, or the unresolved
  letters from the oldest update on; any event may fail, and a crash may fall between
  the transaction and the cursor.
- `Startup`: `init` is the step that is awaited; a step that times out leaves a
  refresh behind that still stores its version. The world-state hash contains the
  version and the time, so that its comparison never saves an insert.
- `WalletSession` and `QuestPage`: every React callback is a step up to its next
  `await`; what it captured is part of the request's record.

Facts about the code met while modelling, which shape the models:
`queueProofVerification` has no caller since `submitProof` accepts proofs itself
(the worker is modelled with it as its entry point); the live event pipeline is
disabled in `indexer.ts`, so that the projector is reached through replay and
recovery only; `validateQuestAttempt` is never called, so that the cooldowns and
decay factors the worker writes limit nobody; the page's claim handler passes the
UUID of the quest to `claimReward(uint256)` and cannot succeed; the page never
reads a quest again whose answer was lost; `stopProofVerificationWorker` waits for
the batch under way, so that the exit relies on the forced one after 15 seconds;
a production process without `VERIFIER_PRIVATE_KEY` retries its initialization
for ever (the model assumes it configured).

## 3. Runs

- `components` (`MCComponents.cfg`, passes): Components that share no state, each on an instance of its own: treasury and reputation under arbitrary calls of an authorised and an unauthorised caller, the owner, the guardian and depositors; two overlapping requests of two players on one quest and one chain quest over a day's end; every template, level, streak and multiplier at a boundary of the quest rules; one quest's events on the chain with up to two replays, recoveries and materialisations; two handlers of a page with two quests. Checks `ComponentsTypeOK`, `Solvent`, `TotalIsSumOfReservations`, `DailyOverrunIsBounded`, `PayoutBackedByItsCreator`, `ValidatorKeepsTheDraft`, `ObjectiveStatesTheMinimum`, `OutcomeCountedOnce`, `ResolvedMeansProjected`, `ShownWasServed`, `ImplementsEscrow`, `ProgressIsNeverLost`, `ReplayRestoresRows`.
- `manager` (`MCForgeQuestManager.cfg`, passes): Two instances of the composed contracts: two players and two quests on one treasury, with proofs competing between quests, expiry, failed and repeated submissions; and one quest on two treasuries while the owners switch treasuries, pause every contract and grant and revoke roles. Checks `ProofBelongsToOneQuest`, `IInv`, `ReservationFollowsQuest`, `QuestTermsAreFixed`, `ReservationClosedByItsQuest`.
- `second_claim` (`MCRewardClaimedAtMostOnce.cfg`, violated): The tests expect a second claim of a quest's reward to revert; the contract pays it. Checks `RewardClaimedAtMostOnce`.
- `claimable_backed` (`MCClaimableIsBacked.cfg`, violated): The documented treasury flow keeps the reward reserved until the claim; a resubmission after a failed verdict succeeds with nothing reserved. Checks `ClaimableIsBacked`.
- `backend_process` (`MCBackendProcess.cfg`, passes): Two parts that share no state, each on an instance of its own. Two connections of one player that send one request after the other over two days, without faults, with crashes, lost replies and failing updates, or with slow requests and reverts: without faults a day is paid and booked at most once; whatever fails, every request is answered and nothing is booked that was not mined; and unless a request writes late, a paid day stays paid and the total counts its transfer once. Two processes one after the other with two refreshes of the world state at once, an event and two failures or time-outs: one snapshot is active and it is the newest, a process that is left alone gets ready, and a shutdown ends. Checks `BackendTypeOK`, `OneTransferWithoutFaults`, `BooksBackedByChain`, `PaidMeansBooked`, `ActiveSnapshotIsNewest`, `PaidIsFinal`, `ImplementsDailyBonus`, `RequestsFinish`, `ServicesBecomeReady`, `ShutdownEnds`.
- `daily_crash` (`MCDailyCrash.cfg`, violated): A crash between the broadcast and the update that stores its hash: after the lock window the day is paid again. Checks `OneTransferPerDay`.
- `verification` (`MCVerificationWorker.cfg`, passes): Two processes and three proofs, one of them valid, of one or of two quests, each submitted and queued up to twice; without faults, with failing calls to the node only, with crashes, with late receipts, or with every fault. VERIFIED and credited are always backed by the chain and each counter counts a proof once; a proof is decided twice, or counted on both sides, only where a call fails after the mined verdict; a verdict mined late accepts no other proof; without faults every queued proof is decided until a second proof of a failed quest is taken up. Checks `WorkerTypeOK`, `OnlyValidProofsAccepted`, `CountedOnce`, `DecidedAsOnChain`, `VerdictIsFinal`, `QueuedProofIsDecided`.
- `verification_crash` (`MCVerificationCrash.cfg`, violated): A process that dies after claiming a proof: the row stays 'processing' and is selected by nobody. Checks `EveryQueuedProofIsDecided`.
- `sessions` (`MCSessions.cfg`, passes): On the server two tabs of one wallet sign in, refresh, call and log out in every order, with expiries, failing queries and lost requests: a challenge opens one session, a refresh token is exchanged once, and a session that has ended stays ended and serves no call. In a page two overlapping changes of wallet race restores, sign-ins and logouts: the page never waits for something that is not under way. Checks `SessionsTypeOK`, `ChallengeOpensOneSession`, `TokenRedeemedOnce`, `EndedSessionServesNobody`, `WaitingIsServed`, `RevokedIsFinal`.
- `auth_logout` (`MCAuthLogout.cfg`, violated): A logout answered with success while the session it was meant for stays active, without any fault: a refused refresh of another tab has cleared the cookie in between. Checks `LogoutEndsSession`.
- `accept_race` (`MCAcceptRace.cfg`, violated): Two players pass the check of acceptQuest before either writes: the second takes the quest from the first. Checks `NobodyIsReplaced`.
- `wallet_switch` (`MCWalletSwitch.cfg`, violated): A restore for the wallet that was connected answers after another wallet was connected: the page says authenticated and keeps the token of the first wallet. Checks `AuthenticatedAsConnected`.

**Side by side.** Components that share no state are checked in one run: the
initial state picks one of them, the others stay where they start, and the run
explores the sum of their state spaces, not the product. Every property is
checked over all behaviours and is about one of them. `manager` does the same
with two instances of one module (`instance`).

**Bounds.** `MaxQuests`, `MaxBalance`, `MaxXp`, `MaxTime`, `MaxClaims` cut the
counters of the contracts; two quests and two proofs are enough for
every competition between quests on chain; two players for acceptance races; one
unit of reward makes a single reservation exhaust the pool, so that the liquidity check
matters; one tick of the clock separates live from expired quests. `components`
uses two amounts, so that partial amounts exist. The second instance of
`manager` has one quest, two treasuries and owners who use every switch.

Off chain, two requests, processes, handlers, syncs or tabs are enough for the
races, which are between two statements of two of them, with one exception that
is named: in `DailyReward` three requests can make a late write reopen a paid row
so that one transfer is counted twice. `BooksBackedByChain` therefore makes its
promise about the total only for behaviours without late writes (`LateWrites`),
and with that it is proved for any number of requests (section 4); with three
requests TLC confirms the same invariant, in a state space too large to keep
(3.7 million states). A proof may be submitted and queued twice, which a
resubmission needs. The worker has three proofs in batches of two: the second failing
verdict of a quest reverts and leaves the loop with the rest of its batch, which two
proofs cannot show (a third one, claimed in that batch, stays `processing` for ever).
`QueuedProofIsDecided` therefore ends its promise where such a proof is taken up
(`Unrefundable`), and without faults that is the only way a proof is stranded. Two
quests separate the stranded proof from the failing ones; the faults are checked where
the proofs meet in one quest, and failing calls to the node alone, over two quests.
Two challenges and two sessions allow a second sign-in while the first is under way,
and three refresh tokens a rotation after each or two of one session. `LastDay = 1` gives the daily counter one reset. `QuestRules` is run
on every template, every level up to the last that changes anything and one
beyond, every streak at a step of the multiplier, and world multipliers at both
ends and at values that round differently. `MaxCommands = 2` allows a replay
after a recovery and a recovery after a replay. `MaxFailures = 2` lets a step
time out and its retry fail; `MaxStarts = 2` a second process find the snapshots
of the first. `MaxSwitches = 2` lets the wallet change while the session of the
previous wallet is restored, and change back.

`Scenarios` of the verification runs and `FaultSets` of the daily runs are chosen
in the initial state, so that one run checks the promise with and without faults;
each property names the faults under which it holds.

**Fairness.** On chain none is assumed: nobody has to call anything, and every
property there is one of safety. In `DailyReward` each request that is under way
takes its next step (the event loop runs every ready callback), and a broadcast
transfer is mined when nothing keeps it from it; nobody has to ask for a bonus,
and no call has to fail. In `VerificationWorker` the timer polls, the worker takes
its next step (a receipt that never comes is a fault) and broadcast transactions are mined; nobody has to submit a proof.
In `Startup` queries that were sent are answered and timers elapse (`InitStep`,
`Retry`, `RefreshStep`, `ForceExit`); nothing says that a connection closes or
that a proof being verified ends, which is why the shutdown needs its forced exit.
The other modules claim no liveness.

**Deadlock** is checked in `manager` and the two runs about the manager, where a
deposit or an owner's call is always possible. The others say
`CHECK_DEADLOCK FALSE`: when the bounded number of requests, commands, events or
tokens is used up, the system has nothing left to do. **Symmetry** is used in the
`sessions` run only, whose properties are of safety and treat tabs, challenges,
sessions and tokens alike; the tabs and challenges of the server side are the
syncs and accounts of the client side, so that one group of permutations is sound
for both.

## 4. Proofs

Eight modules hold theorems, one for each group of components that the runs check
together, and `DataInduction`, which they share.

`DataInduction` makes up for the induction theorems of the library, which take an
operator as a parameter and cannot be used here. That `<` is well founded on the
naturals is a statement about sets; from it follows that a set that holds 0 and the
successor of each of its numbers holds them all (`NaturalsBySuccessor`), and a claim
about all lengths is proved as a claim about the set of the lengths it holds for. The
module also proves that a sum over a finite set exists, that it depends on the terms
in the set only, and that one more term adds its value, so that running totals can be
compared with sums.

`Contracts_proofs` proves for any set of treasuries, callers, quest ids, players
and amounts that a treasury stays solvent (`TreasurySolvency`). The invariant is
`TreasuryInv`: types, `Solvent`, and `FundMatchesState`. One lemma per kind of
call shows that the call keeps it; the lemmas allow a step that deposits money
at the same time, because `createAndAcceptQuest` pays its fee in the transaction
that reserves, and are reused by the composition. `BooksAddUp` says that the running
total of a treasury is the sum of its open reservations; a reservation adds a term to
the sum and a payment or a refund drops one. From both it follows that a treasury
implements `Escrow` (`TreasuryImplementsEscrow`): initial states map to initial
states, and each call opens a reservation, closes one, changes what is free, or is a
stutter of the treasuries it is not about (`EscrowStep`). For Reputation, with its
rewards, the module proves that a profile never shrinks; `ReputationInv` adds that a
level was reached with the experience there is, so that the level computed anew is no
lower, and that a profile that `initializePlayer` may overwrite has earned nothing.

`ForgeQuestManager_proofs` proves `Spec => []IInv`. `IInv` adds to the
treasuries' invariant `QuestConsistent` for each quest, `NonceIdentifiesQuest`
and `ReservationFollowsQuest`. The properties alone are not inductive:
`ProofBelongsToOneQuest` needs that a held proof is registered for its holder
(`proofHashToQuestId`), which is what `submitQuest` compares with; distinct
nonces need that a quest's nonce is smaller than its player's counter; and a
reservation for a new quest needs that no fund exists for ids from `nextQuestId`
on, which follows from "status None iff unused id" together with "no fund iff
None". Frame lemmas state what a call leaves alone, then there is one lemma per
call. Failed verdicts and cancellations share `RefundingCallKeepsIInv`.
The two action properties follow from the same invariant: `StepKeepsBooks` says what
a step does to quests and reservations, and a new quest had status None because its
id was unused. The composition also implements the escrow of each treasury
(`ManagedTreasuriesAreEscrows`), call by call with the lemmas of `Contracts_proofs`,
and every call is a step of the reputation contract or leaves it alone
(`ManagerKeepsReputation`), so that profiles do not shrink under it either.

`Sessions_proofs` proves for any number of tabs, challenges, sessions and
tokens that a challenge opens one session, a refresh token is exchanged once, a
revoked session stays as it is and an ended one serves no call. The invariant
`AuthInv` adds to the properties what makes them inductive: a challenge that a
tab has consumed is spent, has opened no session and belongs to no other tab
(`RequestOK`, `ConsumedApart`); sessions hold issued tokens, no two the same, and
a token that was exchanged is held by none (`TokensApart`, `ExchangedGone`); tabs
only know sessions that exist, so that a session which is not active when a call
is sent has ended and not yet to begin (`KnownSessionsExist`). `ChallengeStep` and
`EndPreserves` state once what most steps do to the state; then there is a lemma
per action. For the wallet session of the page it proves that waiting is served,
together with the types and with the fact that a sync which applies an account has
read one (`WaitInv`).

`BackendProcess_proofs` proves for any number of requests and days that nothing is
booked that was not mined, that a day's row is PAID exactly when its transfer is
booked, that a paid row stays paid, that without faults a day is paid at most
once, and that the service then implements `DailyBonus`. `DailyInv` has two
parts. `MinedInv` holds under every fault: a request names its own transfer only
after broadcasting it, and finalises only what was mined. `OwnInv` holds unless a
request writes late: a request that is about to write to its row either already
has its transfer there or holds the lock (`Holds`), no two hold the same row, and
a row names a transfer of its own day (`RowOK`). `OwnMoves`, `OwnWrites` and
`OwnPays` state what a step without a write, a write by the holder and a
finalisation keep; for the refinement, `TransfersStep` and `BooksStep` say of
every step what it mines and what it books. Of the process it proves that the active
snapshot is the newest: the rows hold the versions 1 to n, the active one is n
(`VersionsInOrder`), and no refresh has read a later one (`LatestIsStored`), so that a
version that is free to be stored is n + 1.

`QuestServices_proofs` proves that the daily count exceeds the limit by fewer than
the requests under way at once. The bound alone is not inductive: `OverrunInv`
adds to each player's count the requests that passed the check and are not
counted yet (`Uncounted`). `RegistrationInv` carries the creator that a
registration has checked, and the event it has read, to the payout it writes;
it needs that rows and chain quests keep their creators (`CreatorsKept`).

For the rules it proves what TLC checks at the boundaries for every level, every
streak, every multiplier of the world and either way of rounding a tie. Each table of
templates is shown to hold good templates only, whose reward is between 0.01 and 0.065
CELO and half of it, for a transfer, within what the verification template states
(`GoodTemplates`), and between them the tables offer every difficulty
(`TableIsGood`); so the pool of a level is never empty and the turn picks a member of
it (`RankTaken`, `SelectedIsGood`). The reward lies within the draft's bounds whatever
its multipliers are (`DraftIsBounded`), and such bounds survive the validator
(`BoundsAreKept`).

For the projector it proves that an event is counted once and that a whole replay
restores the rows, for any number of commands and a log of any length. `ProjectorInv`
needs to know the log: how the contracts let it begin, that a verdict which completes
the quest is the only one and that no failure follows it, that there is one token, and
that every failure names the player and every payment the creator (`LogInv`), so that
each of these events is recorded once or not at all (`RecordedOnce`). Then
the history says which outcomes were counted (`OutcomeInv`), commands work on events of
the log and resolve only what is recorded (`CommandInv`), and in a replay of the whole
log the row agrees with the first projection of what has been replayed so far
(`ReplayInv`, `Follows`), except for a completion date that the row may have kept from
before; at the end of the log the first projection has that date too
(`CompletedStays`).

`Components_proofs` proves for the page that what is shown was served. A handler
knows of the quest it captured what was shown when it was pressed, and of its own
call that it was carried out (`Knows`); so what it shows on top of it was served as
well.

`VerificationWorker_proofs` proves for any number of processes, quests and proofs
all the invariants and the action property of the worker. `WorkerInv` has two parts.
The first holds under every fault: a proof that a worker has claimed or holds is held
by no other (`HeldApart`), a worker that has seen its verdict mined holds an accepted
proof (`KnowsSoFar`), verdicts on their way that say success are about valid proofs
(`ChainInv`), and the row of a held proof stays `processing`, and uncounted, until its
worker decides it (`DecidesOnce`). A worker in the failure branch may hold a proof
that is VERIFIED or credited already, but only where a call can fail after the mined
verdict (`LateFailure`); it has not penalised it yet, which is why each counter still
counts once (`CountInv`). The second part, `AgreeInv`, holds unless verdicts are given
up (`GivenUp`), because a receipt is late, a reply is lost or a later call fails: a
worker whose success is under way waits for it, so that it cannot reject what is or
will be accepted (`FollowsChain`), and there is one such verdict for a proof at most
(`ProofsInv`). `WorkerMoves` and `GoInHand` state what a step of one worker keeps
that writes no row and sends nothing; claims, verdicts, decisions, counters and
mined transactions have a lemma each.

The runs explore components side by side, and the theorems above are about each
component's own specification. `ComponentsBehave`, `SessionsBehave`,
`BackendInvariant` and `InstancesBehave` close that gap: a behaviour of the
specification that a run checks is a behaviour of every component in it. With that,
every invariant and every action property that a passing run checks is a theorem; what
is left to TLC is liveness.

Assumptions used: those named `...Assumption` in the modules. They say that the
absent value of a set (`NoPlayer`, `NoTx`, `NoSession`, ...) is not in it, that
bounds and amounts are naturals, that quest ids are `0..MaxQuests` and the manager
is one of the callers, that there is a refresh that may run and that finitely many
requests are under way at once.

Only model-checked:

- Liveness (`RequestsFinish`, `QueuedProofIsDecided`, `ServicesBecomeReady`,
  `ShutdownEnds`) and with it the `ENABLED` in its fairness conditions, which are
  beyond the prover. Deadlock freedom is TLC's as well.

## 5. Disagreements found

- `second_claim` (contracts/contracts/ForgeQuestManager.sol:357): claimReward pays 0.01 CELO of the manager's own balance to any caller and records nothing about the quest; contracts/test/ForgeQuestManager.security.test.ts:124 'prevents a second payout after a successful verification' expects the second claimReward to revert with 'Reward not claimable' (:136). The run claims the same quest id twice.
- `claimable_backed` (contracts/contracts/ForgeQuestManager.sol:454): _failQuest refunds the reservation and lets the player resubmit, and nothing reserves again, so that the later success makes the quest Claimable with its fund Refunded; FINAL_COMPLETION_SUMMARY.md:185 says 'Quest Creation → Reserve Reward → Submit Proof → Verify Proof → Claim Reward (reserve in escrow) (settlement via treasury)'. The run finds the failed verdict, the resubmission and the success.
- `daily_crash` (backend/src/services/dailyRewardService.ts:586): sendTransaction returns before the hash is stored (586-601); a crash in between leaves a PROCESSING row without a hash, which reserveDailyClaim takes over after ten minutes and pays again. ONLINE_FORGEQUEST_BUG_ELIMINATION_AUDIT.md:427 says "If daily reward claim crashes, can resume from last known state" and :241 "Daily Reward Flow (1 transaction max per UTC day)".
- `verification_crash` (backend/src/services/verification.ts:598): Rows are claimed by setting 'processing' and only 'pending' rows are ever selected, so a proof claimed by a process that dies is never verified. ONLINE_FORGEQUEST_BUG_ELIMINATION_AUDIT.md:426 says "If proof verification crashes, quest state recovers".
- `auth_logout` (backend/src/controllers/authController.ts:323): logoutSession revokes the session of the cookie it is sent and answers success whatever that was; a refresh refused in another tab clears the cookie, or a successful one replaces it, and the session stays active. AUTH_DEBUGGING_AND_FIXES.md:477 says "Logout clears session and auth state".
- `accept_race` (backend/src/controllers/questController.ts:490): acceptQuest reads the quest, refuses it if playerId is set ('Verify quest hasn't already been accepted by another player', questController.ts:475), awaits upsertUser and then updates by id alone: two requests that both read the quest while it was free are both answered with success, and the second player replaces the first.
- `wallet_switch` (frontend/src/context/WalletContext.tsx:255): restoreSessionForWallet and authenticateWallet compare the session with the wallet they were called for, not with activeAddressRef; after a switch, a late answer sets 'authenticated' for the old wallet and stays. WalletContext.tsx:122 promises 'Connected wallet changed. Sign in again to continue.' and :506 refuses a session that 'does not match the connected wallet'.

## 6. Plan

Done, in this order: the on-chain core, the daily bonus, the verification worker,
wallet authentication, the quest controller with the daily limits, the rules, the
projector, start and stop with the world state, the wallet session and the quest
flow of the page; theorems for each of them.

Left:

1. `Ownership`: `transferOwnership` of the three contracts with the roles it moves.
   A transfer to the present owner grants the roles and then revokes them
   (`ForgeQuestManager.sol:436`), after which nobody holds `DEFAULT_ADMIN_ROLE`.
2. A second manager on one treasury, and RewardNFT as a module of its own.
3. The verdict that is delayed past a failed one (`ForgeQuestManager.sol:348`) on
   the composed contracts, driven by `VerificationWorker`.
4. The clan totals and proof rows of the projector, which the model has and no
   property reads (`authoritativeEventProjector.ts:663`).
5. `lastDailyClaimAt` as the time of payment (`dailyRewardService.ts:690`): a run
   that exhibits the refused claim of a new day.

## 7. Not modelled

- Generated artifacts and typechain bindings (some 18,000 of the repository's
  lines) and OpenZeppelin, which is external: its pause flag and roles are
  modelled from how the contracts use them.
- Pages, components, animations and styles of the frontend other than the wallet
  session and the quest flow; prompt, lore and narrative text; NPC trust and
  memories; logging and the realtime feed: no state another part depends on.
- `rpcFailoverManager.ts`, which nothing imports, and of `rpcProvider.ts` all but
  `getProvider()`: the retries, the failover and the chunked log queries have no
  caller. A failing provider is a failing call in the models of its callers.
- The validation of the environment, routes and rate limits (a library's), and
  the one-shot deployment, audit and validation scripts: sequential, and they
  keep no state.

What remains unmapped in the mapped files is for the most part reading handlers,
parsing, formatting and logging. The share of mapped lines is held down by the
generated code, the scripts and the presentation, none of which has behaviour to
specify.
