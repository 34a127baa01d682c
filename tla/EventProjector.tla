--------------------------- MODULE EventProjector ---------------------------
(***************************************************************************)
(* backend/src/services/authoritativeEventProjector.ts, with the effects of *)
(* gameStateProjector.ts and the dead letters of aiMemoryGraph.ts, for one  *)
(* quest of the contract and the wallets its events name, users of one clan. *)
(* An operator replays stored events or recovers dead letters, one command  *)
(* at a time (services/indexer.ts); any event may fail, and the process may  *)
(* die.                                                                     *)
(***************************************************************************)
EXTENDS Integers, Sequences, FiniteSets

CONSTANT MaxCommands  \* bound on the commands an operator gives

ASSUME EventProjectorAssumption == MaxCommands \in Nat

VARIABLES
    onchainQuest,  \* the quest in the contract
    eventLog,      \* its ChainEvent rows, by block and log index
    questRow,      \* its Quest and TreasuryPayout rows
    proofRows,     \* its ProofSubmission rows
    outcome,       \* what was counted and granted for it
    recorded,      \* events with a Transaction row
    letters,       \* unresolved ProjectionDeadLetter rows, oldest update first
    resolved,      \* events whose dead letter is resolved
    command,       \* the events the command is working through; whole is how
                   \* many it began with, if from the first
    commandsLeft

projectorVars == <<onchainQuest, eventLog, questRow, proofRows, outcome, recorded,
                   letters, resolved, command, commandsLeft>>

onchainVars == <<onchainQuest, eventLog>>
tableVars == <<questRow, proofRows, outcome, recorded>>

QuestProofs == 1..2

EventTypes == {"reserved", "created", "started", "submitted", "verified", "failed",
               "refunded", "released", "paid", "minted"}

OnchainStatus == {"None", "Available", "Accepted", "Completed", "Claimable", "Cancelled"}
RowStatus == {"none", "AVAILABLE", "ACCEPTED", "COMPLETED", "CLAIMABLE", "REWARDED"}
Wallets == {"nobody", "creator", "other"}

\* proof numbers the submission of a "submitted" or "verified"; a failed verdict
\* is emitted after the contract has cleared its proof hash.  player is the wallet
\* the event names: who reserved, created, accepted, is paid, refunded or minted to.
ProofEvent(type, proof, player) == [type |-> type, proof |-> proof, player |-> player]
Event(type, player) == ProofEvent(type, 0, player)

Events == [type : EventTypes, proof : 0..2, player : Wallets]

NoQuestRow == [status |-> "none", player |-> "nobody", completedAt |-> FALSE,
               payout |-> "none"]

NoOutcome == [history |-> {}, attempted |-> 0, completed |-> 0, failed |-> 0,
              rewards |-> 0, nfts |-> 0, clanQuest |-> "none", clanTotal |-> 0,
              standing |-> [w \in Wallets |-> 0]]

NoCommand == [mode |-> "none", whole |-> 0, events |-> <<>>, step |-> "idle"]

EventProjectorTypeOK ==
    /\ onchainQuest \in [status : OnchainStatus, player : Wallets, submissions : 0..2]
    /\ eventLog \in Seq(Events)
    /\ questRow \in [status : RowStatus, player : Wallets, completedAt : BOOLEAN,
                     payout : {"none", "RESERVED", "RELEASED", "PAID", "REFUNDED"}]
    /\ proofRows \in [QuestProofs -> {"none", "pending", "VERIFIED"}]
    /\ outcome \in [history : SUBSET {"STARTED", "SUBMITTED", "COMPLETED", "FAILED"},
                    attempted : Nat, completed : Nat, failed : Nat, rewards : Nat,
                    nfts : Nat, clanQuest : {"none", "active", "completed", "failed"},
                    clanTotal : Nat, standing : [Wallets -> 0..100]]
    /\ recorded \subseteq Events
    /\ letters \in Seq(Events)
    /\ resolved \subseteq Events
    /\ command \in [mode : {"none", "replay", "recovery"}, whole : 0..Len(eventLog),
                    events : Seq(Events), step : {"idle", "rows", "influence", "cursor", "resolve"}]
    /\ commandsLeft \in 0..MaxCommands

EventProjectorInit ==
    /\ onchainQuest = [status |-> "None", player |-> "nobody", submissions |-> 0]
    /\ eventLog = <<>>
    /\ questRow = NoQuestRow
    /\ proofRows = [p \in QuestProofs |-> "none"]
    /\ outcome = NoOutcome
    /\ recorded = {}
    /\ letters = <<>>
    /\ resolved = {}
    /\ command = NoCommand
    /\ commandsLeft = MaxCommands

-----------------------------------------------------------------------------
(* What the contracts do to the quest, and the events that are stored for it *)

Emitted(events) ==
    /\ eventLog' = eventLog \o events
    /\ UNCHANGED <<tableVars, letters, resolved, command, commandsLeft>>

QuestIsCreated ==
    /\ onchainQuest.status = "None"
    /\ onchainQuest' = [onchainQuest EXCEPT !.status = "Available"]
    /\ Emitted(<<Event("reserved", "creator"), Event("created", "creator")>>)

QuestIsAccepted(player) ==
    /\ onchainQuest.status = "Available"
    /\ onchainQuest' = [onchainQuest EXCEPT !.status = "Accepted", !.player = player]
    /\ Emitted(<<Event("started", player)>>)

ProofIsSubmitted ==
    /\ onchainQuest.status = "Accepted"
    /\ onchainQuest' = [onchainQuest EXCEPT !.status = "Completed", !.submissions = @ + 1]
    /\ Emitted(<<ProofEvent("submitted", onchainQuest.submissions + 1, onchainQuest.player)>>)

QuestIsVerified ==
    /\ onchainQuest.status = "Completed"
    /\ onchainQuest' = [onchainQuest EXCEPT !.status = "Claimable"]
    /\ Emitted(<<ProofEvent("verified", onchainQuest.submissions, onchainQuest.player)>>)

\* The reservation is refunded, which it can be once.
QuestIsFailed ==
    /\ onchainQuest.status = "Completed"
    /\ onchainQuest.submissions = 1
    /\ onchainQuest' = [onchainQuest EXCEPT !.status = "Accepted"]
    /\ Emitted(<<Event("refunded", onchainQuest.player), Event("failed", onchainQuest.player)>>)

QuestIsCancelled ==
    /\ onchainQuest.status = "Accepted"
    /\ onchainQuest.submissions = 0
    /\ onchainQuest' = [onchainQuest EXCEPT !.status = "Cancelled"]
    /\ Emitted(<<Event("refunded", onchainQuest.player)>>)

\* settleQuestPayout, by whoever holds the treasury's role.  The treasury pays the
\* wallet it reserved the reward for, and that is the creator's.
RewardIsSettled ==
    /\ onchainQuest.status = "Claimable"
    /\ onchainQuest.submissions = 1
    /\ \A i \in DOMAIN eventLog : eventLog[i].type # "paid"
    /\ UNCHANGED onchainQuest
    /\ Emitted(<<Event("released", "creator"), Event("paid", "creator")>>)

\* mintQuestReward, once for a quest, to the wallet the minter says.
RewardIsMinted(player) ==
    /\ onchainQuest.status = "Claimable"
    /\ \A i \in DOMAIN eventLog : eventLog[i].type # "minted"
    /\ UNCHANGED onchainQuest
    /\ Emitted(<<Event("minted", player)>>)

-----------------------------------------------------------------------------
(* materializeChainState: the rows after an event, in one transaction *)

\* STATUS_BY_INDEX has no Cancelled, and what it lacks is AVAILABLE.
SnapshotStatus ==
    CASE onchainQuest.status = "Accepted"  -> "ACCEPTED"
      [] onchainQuest.status = "Completed" -> "COMPLETED"
      [] onchainQuest.status = "Claimable" -> "CLAIMABLE"
      [] OTHER                             -> "AVAILABLE"

ForcedStatus(e) ==
    CASE e.type \in {"reserved", "created", "started", "failed"} -> "ACCEPTED"
      [] e.type = "submitted"                                    -> "COMPLETED"
      [] e.type \in {"verified", "released"}                     -> "CLAIMABLE"
      [] e.type \in {"paid", "minted"}                           -> "REWARDED"
      [] e.type = "refunded"                                     -> SnapshotStatus

\* Every handler but the reservation's writes the user of the event's wallet.
PlayerAfter(row, e) == IF e.type = "reserved" THEN row.player ELSE e.player

CompletedAfter(row, e) ==
    \/ e.type \in {"verified", "released", "paid"}
    \/ row.completedAt /\ e.type # "failed"

PayoutAfter(row, e) ==
    CASE e.type = "reserved" -> "RESERVED"
      [] e.type = "released" -> "RELEASED"
      [] e.type = "paid"     -> "PAID"
      [] e.type = "refunded" -> "REFUNDED"
      [] OTHER               -> row.payout

\* applyQuestSnapshot and upsertTreasuryPayout.
RowAfter(row, e) ==
    [status |-> ForcedStatus(e), player |-> PlayerAfter(row, e),
     completedAt |-> CompletedAfter(row, e), payout |-> PayoutAfter(row, e)]

\* A submission is stored while the contract has a proof of the quest.
ProofRowsAfter(e) ==
    CASE e.type = "submitted" /\ onchainQuest.status \in {"Completed", "Claimable"} ->
            [proofRows EXCEPT ![e.proof] = "pending"]
      [] e.type = "verified" /\ proofRows[e.proof] # "none" ->
            [proofRows EXCEPT ![e.proof] = "VERIFIED"]
      [] OTHER -> proofRows

\* ensureQuestHistoryRecord says whether it created the row.
ActionOf(e) ==
    CASE e.type = "started"   -> {"STARTED"}
      [] e.type = "submitted" -> {"SUBMITTED"}
      [] e.type = "verified"  -> {"COMPLETED"}
      [] e.type = "failed"    -> {"FAILED"}
      [] OTHER                -> {}

FirstOutcome(o, e) ==
    e.type \in {"verified", "failed"} /\ ActionOf(e) \cap o.history = {}

\* materializeClanState.
ClanQuestAfter(o, e) ==
    CASE e.type = "started"              -> "active"
      [] e.type \in {"verified", "paid"} -> "completed"
      [] e.type = "failed"               -> "failed"
      [] OTHER                           -> o.clanQuest

One(condition) == IF condition THEN 1 ELSE 0

\* A reward row is looked up by its transaction and an NFT by its token, which the
\* event shares with its Transaction row.
NewReward(e) == e.type = "paid" /\ e \notin recorded
NewNft(e) == e.type = "minted" /\ e \notin recorded

\* Mutant: the statistics are updated whether or not the history was there.
OutcomeAfterCountingAgain(o, e) ==
    [history   |-> o.history \cup ActionOf(e),
     attempted |-> o.attempted + One(e.type = "started"),
     completed |-> o.completed + One(e.type = "verified"),
     failed    |-> o.failed + One(e.type = "failed"),
     rewards   |-> o.rewards + One(NewReward(e)),
     nfts      |-> o.nfts + One(NewNft(e)),
     clanQuest |-> ClanQuestAfter(o, e),
     clanTotal |-> o.clanTotal
                     + One(ClanQuestAfter(o, e) = "completed" /\ o.clanQuest # "completed"),
     standing  |-> o.standing]

OutcomeAfter(o, e) ==
    [history   |-> o.history \cup ActionOf(e),
     attempted |-> o.attempted + One(e.type = "started"),
     completed |-> o.completed + One(e.type = "verified" /\ FirstOutcome(o, e)),
     failed    |-> o.failed + One(e.type = "failed" /\ FirstOutcome(o, e)),
     rewards   |-> o.rewards + One(NewReward(e)),
     nfts      |-> o.nfts + One(NewNft(e)),
     clanQuest |-> ClanQuestAfter(o, e),
     clanTotal |-> o.clanTotal
                     + One(ClanQuestAfter(o, e) = "completed" /\ o.clanQuest # "completed"),
     standing  |-> o.standing]

-----------------------------------------------------------------------------
(* Commands *)

Working(step) == command.step = step

Current == Head(command.events)

\* Mutant: the latest events are taken first.
ReplayedNewestFirst(first, last) == [i \in 1..(last + 1 - first) |-> eventLog[last + 1 - i]]

\* Stored events of a range of blocks, in the order of the chain.
Replayed(first, last) == SubSeq(eventLog, first, last)

BeginCommand(mode, whole, events) ==
    /\ Working("idle")
    /\ commandsLeft > 0
    /\ commandsLeft' = commandsLeft - 1
    /\ events # <<>>
    /\ command' = [mode |-> mode, whole |-> whole, events |-> events, step |-> "rows"]
    /\ UNCHANGED <<onchainVars, tableVars, letters, resolved>>

\* From a block on, or the first so many.
ReplayFromEventStore(first, last) ==
    /\ first = 1 \/ last = Len(eventLog)
    /\ BeginCommand("replay", IF first = 1 THEN last ELSE 0, Replayed(first, last))

RecoverDeadLetters == BeginCommand("recovery", 0, letters)

MaterializeChainState ==
    /\ Working("rows")
    /\ questRow' = RowAfter(questRow, Current)
    /\ proofRows' = ProofRowsAfter(Current)
    /\ outcome' = OutcomeAfter(outcome, Current)
    /\ recorded' = recorded \cup {Current}
    /\ command' = [command EXCEPT !.step = "influence"]
    /\ UNCHANGED <<onchainVars, letters, resolved, commandsLeft>>

\* factionStanding of memoryEffectForEvent, for an event with a playerWallet: a
\* refund has a recipient instead, and quest_verified has no effect.
StandingEffect(e) ==
    CASE e.type = "started"   -> 4
      [] e.type = "submitted" -> 3
      [] e.type = "minted"    -> 5
      [] OTHER                -> 0

AtMostFull(score) == IF score > 100 THEN 100 ELSE score

\* gameStateProjector: applied outside the transaction, at every projection.
ApplyInfluence ==
    /\ Working("influence")
    /\ outcome' = [outcome EXCEPT !.standing[Current.player] =
                      AtMostFull(@ + StandingEffect(Current))]
    /\ command' = [command EXCEPT !.step = "cursor"]
    /\ UNCHANGED <<onchainVars, questRow, proofRows, recorded, letters, resolved,
                   commandsLeft>>

NextEvent ==
    IF Tail(command.events) = <<>>
    THEN NoCommand
    ELSE [command EXCEPT !.events = Tail(@), !.step = "rows"]

\* The cursor of the projection is stored.
Projected ==
    /\ Working("cursor")
    /\ command' = IF command.mode = "recovery"
                  THEN [command EXCEPT !.step = "resolve"]
                  ELSE NextEvent
    /\ UNCHANGED <<onchainVars, tableVars, letters, resolved, commandsLeft>>

\* One row per event: the sequence without it.
Without(events, e) ==
    IF \A i \in DOMAIN events : events[i] # e
    THEN events
    ELSE LET i == CHOOSE i \in DOMAIN events : events[i] = e
         IN  SubSeq(events, 1, i - 1) \o SubSeq(events, i + 1, Len(events))

Resolve ==
    /\ Working("resolve")
    /\ letters' = Without(letters, Current)
    /\ resolved' = resolved \cup {Current}
    /\ command' = NextEvent
    /\ UNCHANGED <<onchainVars, tableVars, commandsLeft>>

\* Mutant: recovery takes a failed event for done and goes on.
FailAndResolve ==
    /\ command.step \in {"rows", "influence", "cursor"}
    /\ letters' = Without(letters, Current)
    /\ resolved' = resolved \cup {Current}
    /\ command' = NextEvent
    /\ UNCHANGED <<onchainVars, tableVars, commandsLeft>>

\* recordDeadLetter keeps one row per event and never reopens a resolved one; the
\* error ends the command.
Fail ==
    /\ command.step \in {"rows", "influence", "cursor"}
    /\ letters' = IF Current \in resolved
                  THEN letters
                  ELSE Append(Without(letters, Current), Current)
    /\ command' = NoCommand
    /\ UNCHANGED <<onchainVars, tableVars, resolved, commandsLeft>>

ProjectorCrash ==
    /\ ~Working("idle")
    /\ command' = NoCommand
    /\ UNCHANGED <<onchainVars, tableVars, letters, resolved, commandsLeft>>

EventProjectorNext ==
    \/ QuestIsCreated
    \/ \E player \in Wallets \ {"nobody"} : QuestIsAccepted(player)
    \/ ProofIsSubmitted
    \/ QuestIsVerified
    \/ QuestIsFailed
    \/ QuestIsCancelled
    \/ RewardIsSettled
    \/ \E player \in Wallets \ {"nobody"} : RewardIsMinted(player)
    \/ \E first, last \in DOMAIN eventLog : ReplayFromEventStore(first, last)
    \/ RecoverDeadLetters
    \/ MaterializeChainState
    \/ ApplyInfluence
    \/ Projected
    \/ Resolve
    \/ Fail
    \/ ProjectorCrash

EventProjectorSpec == EventProjectorInit /\ [][EventProjectorNext]_projectorVars
-----------------------------------------------------------------------------
(* Properties *)

Recorded(type) == {e \in recorded : e.type = type}

\* Ranges of events are replayed any number of times, dead letters recovered out of
\* their order, and commands broken off between the transaction and the cursor:
\* the statistics, rewards and NFTs still count every projected event once
\* (applyUserOutcomeStats, createRewardIfMissing, handleRewardMinted).
OutcomeCountedOnce ==
    /\ outcome.completed = Cardinality(Recorded("verified"))
    /\ outcome.failed = Cardinality(Recorded("failed"))
    /\ outcome.rewards = Cardinality(Recorded("paid"))
    /\ outcome.nfts = Cardinality(Recorded("minted"))

\* The rows after the first so many events of the log, projected into empty tables.
FirstProjection[n \in 0..Len(eventLog)] ==
    IF n = 0 THEN NoQuestRow ELSE RowAfter(FirstProjection[n - 1], eventLog[n])

\* A recovered dead letter or a partial replay puts an old status over a newer
\* one, since the handlers force the status of their event.  Replaying the whole
\* log repairs that: when the command ends and nothing was stored meanwhile, the
\* rows are those of a first projection of the log into empty tables.
ReplayRestoresRows ==
    [][(/\ command.mode = "replay"
        /\ command.whole = Len(eventLog)
        /\ Projected
        /\ command' = NoCommand) =>
           questRow = FirstProjection[Len(eventLog)]]_projectorVars

\* recoverDeadLetters goes through several letters and stops at the first that
\* fails again: a letter is resolved only if the rows of its event were written.
ResolvedMeansProjected == resolved \subseteq recorded
=============================================================================
