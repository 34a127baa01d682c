-------------------------- MODULE ForgeQuestManager --------------------------
(***************************************************************************)
(* contracts/contracts/ForgeQuestManager.sol: the quest life cycle on the  *)
(* chain, composed with the treasuries it reserves rewards in and the      *)
(* reputation contract it initialises players in.  A transaction is one    *)
(* step, whatever contracts it calls: if any of them reverts, all of it    *)
(* does.                                                                   *)
(*                                                                         *)
(* Hash functions are injective: a proof is identified with its hash, and  *)
(* a verification hash with the tuple it is computed from.                 *)
(***************************************************************************)
EXTENDS Treasury, Reputation

CONSTANTS
    Manager,            \* the address of this contract
    Verifiers,          \* accounts that can hold VERIFIER_ROLE
    Proofs,             \* proof URIs
    NoProof,            \* the empty proof, bytes32(0)
    NoHash,             \* bytes32(0) as a verification hash
    MaxSingleReward,    \* MAX_SINGLE_REWARD
    AcceptanceFee,      \* ACCEPTANCE_FEE
    ClaimAmount,        \* what claimReward transfers, 0.01 CELO
    CreateValues,       \* native value a createQuest call may carry
    Durations,          \* durations a creation may ask for
    MaxQuestDuration,   \* MAX_QUEST_DURATION
    MaxQuests,          \* bound: quests created
    MaxClaims           \* bound: claims counted per quest

QuestStatus == {"None", "Available", "Accepted", "Completed", "Claimable",
                "Rewarded", "Cancelled"}

\* keccak256(player, proof, playerNonce)
VerificationHashes == Players \X Proofs \X Nat

ASSUME ManagerAssumption ==
    /\ Manager \in Callers
    /\ NoProof \notin Proofs
    /\ NoHash \notin VerificationHashes
    /\ QuestIds = 0..MaxQuests
    /\ MaxQuests \in Nat
    /\ MaxSingleReward \in Nat
    /\ AcceptanceFee \in Nat \ {0}
    /\ ClaimAmount \in Nat \ {0}
    /\ CreateValues \subseteq Nat
    /\ Durations \subseteq Nat
    /\ MaxQuestDuration \in Nat
    /\ MaxClaims \in Nat

VARIABLES
    quests,                \* quests[questId]
    nextQuestId,
    playerNonces,          \* playerNonces[player]
    proofHashToQuestId,    \* 0 when usedProofHashes is false
    treasury,              \* the treasury in use
    managerBalance,        \* native balance of this contract
    managerPaused,         \* Pausable's flag
    rewardSystemHealthy,
    verifiers,             \* holders of VERIFIER_ROLE
    rewardClaims           \* history: RewardClaimed events per quest id

managerVars == <<quests, nextQuestId, playerNonces, proofHashToQuestId, treasury,
                 managerBalance, managerPaused, rewardSystemHealthy, verifiers,
                 rewardClaims>>

vars == <<treasuryVars, reputationVars, managerVars>>

Quest == [status : QuestStatus,
          creator : Players \cup {NoPlayer},
          player : Players \cup {NoPlayer},
          rewardAmount : Nat,
          expiresAt : Nat,
          playerNonce : Nat,
          proofHash : Proofs \cup {NoProof},
          proofVerificationHash : VerificationHashes \cup {NoHash}]

NoQuest == [status |-> "None", creator |-> NoPlayer, player |-> NoPlayer,
            rewardAmount |-> 0, expiresAt |-> 0, playerNonce |-> 0,
            proofHash |-> NoProof, proofVerificationHash |-> NoHash]

ManagerTypeOK ==
    /\ quests \in [QuestIds -> Quest]
    /\ nextQuestId \in 1..(MaxQuests + 1)
    /\ playerNonces \in [Players -> Nat]
    /\ proofHashToQuestId \in [Proofs -> QuestIds]
    /\ treasury \in Treasuries
    /\ managerBalance \in Nat
    /\ managerPaused \in BOOLEAN
    /\ rewardSystemHealthy \in BOOLEAN
    /\ verifiers \in SUBSET Verifiers
    /\ rewardClaims \in [QuestIds -> Nat]

TypeOK == TreasuryTypeOK /\ ReputationTypeOK /\ ManagerTypeOK

\* The deployment: contracts created, roles granted, pool still empty.
Init ==
    /\ TreasuryInit
    /\ ReputationInit
    /\ quests = [q \in QuestIds |-> NoQuest]
    /\ nextQuestId = 1
    /\ playerNonces = [p \in Players |-> 0]
    /\ proofHashToQuestId = [h \in Proofs |-> 0]
    /\ treasury \in Treasuries
    /\ managerBalance = 0
    /\ managerPaused = FALSE
    /\ rewardSystemHealthy = TRUE
    /\ verifiers = Verifiers
    /\ rewardClaims = [q \in QuestIds |-> 0]

-----------------------------------------------------------------------------
(* Creation and acceptance *)

Running == ~managerPaused /\ rewardSystemHealthy

AdminUnchanged == UNCHANGED <<treasury, managerPaused, rewardSystemHealthy, verifiers>>

NewQuest(sender, rewardAmount, duration) ==
    [NoQuest EXCEPT !.status = "Available",
                    !.creator = sender,
                    !.rewardAmount = rewardAmount,
                    !.expiresAt = now + duration]

AcceptedBy(quest, sender) ==
    [quest EXCEPT !.status = "Accepted",
                  !.player = sender,
                  !.playerNonce = playerNonces[sender]]

\* What createQuest and the create phase of createAndAcceptQuest share: the
\* checks, the reservation and the initialisation of the player.
Creation(sender, rewardAmount, duration) ==
    /\ Running
    /\ nextQuestId <= MaxQuests
    /\ 0 < rewardAmount /\ rewardAmount <= MaxSingleReward
    /\ 0 < duration /\ duration <= MaxQuestDuration
    /\ ReserveReward(treasury, Manager, nextQuestId, sender, rewardAmount)
    /\ InitializePlayer(sender)
    /\ nextQuestId' = nextQuestId + 1
    /\ UNCHANGED <<now, proofHashToQuestId, rewardClaims>>
    /\ AdminUnchanged

\* createQuest is payable and keeps whatever value the call carries.
CreateQuest(sender, rewardAmount, duration, value) ==
    /\ Creation(sender, rewardAmount, duration)
    /\ quests' = [quests EXCEPT ![nextQuestId] = NewQuest(sender, rewardAmount, duration)]
    /\ managerBalance' = managerBalance + value
    /\ UNCHANGED <<balance, playerNonces>>

\* The acceptance fee goes to the treasury in use, paused or not.
PayFee == ReceiveNative(treasury, AcceptanceFee)

TakeNonce(sender) == playerNonces' = [playerNonces EXCEPT ![sender] = @ + 1]

\* Mutant: an accepted quest can be taken over.
CanAcceptTaken(questId) ==
    /\ quests[questId].status \in {"Available", "Accepted"}
    /\ now <= quests[questId].expiresAt

CanAccept(questId) ==
    /\ quests[questId].status = "Available"
    /\ now <= quests[questId].expiresAt
    /\ quests[questId].player = NoPlayer

AcceptQuest(sender, questId) ==
    /\ Running
    /\ CanAccept(questId)
    /\ PayFee
    /\ TakeNonce(sender)
    /\ quests' = [quests EXCEPT ![questId] = AcceptedBy(@, sender)]
    /\ BooksUnchanged
    /\ UNCHANGED <<rewardReserveCap, payoutCap, treasuryPaused, questManagers,
                   reputationVars, nextQuestId, proofHashToQuestId,
                   managerBalance, rewardClaims>>
    /\ AdminUnchanged

CreateAndAcceptQuest(sender, rewardAmount, duration) ==
    /\ Creation(sender, rewardAmount, duration)
    /\ quests' = [quests EXCEPT ![nextQuestId] =
                     AcceptedBy(NewQuest(sender, rewardAmount, duration), sender)]
    /\ PayFee
    /\ TakeNonce(sender)
    /\ UNCHANGED managerBalance

-----------------------------------------------------------------------------
(* Proof, verification, claim, cancellation *)

\* Mutant: proofs are not compared with those of other quests.
ProofUsableAnywhere(proofHash, questId) == proofHash \in Proofs

\* A used proof can only be submitted again for the quest it was used for.
ProofUsable(proofHash, questId) == proofHashToQuestId[proofHash] \in {0, questId}

SubmitQuest(sender, questId, proofHash) ==
    LET quest == quests[questId] IN
    /\ Running
    /\ quest.player = sender
    /\ quest.status = "Accepted"
    /\ now <= quest.expiresAt
    /\ ProofUsable(proofHash, questId)
    /\ quests' = [quests EXCEPT ![questId] =
                     [quest EXCEPT
                         !.status = "Completed",
                         !.proofHash = proofHash,
                         !.proofVerificationHash = <<sender, proofHash, quest.playerNonce>>]]
    /\ proofHashToQuestId' = [proofHashToQuestId EXCEPT ![proofHash] = questId]
    /\ UNCHANGED <<treasuryVars, reputationVars, nextQuestId, playerNonces,
                   managerBalance, rewardClaims>>
    /\ AdminUnchanged

QuestOnlyUnchanged ==
    /\ UNCHANGED <<reputationVars, nextQuestId, playerNonces, proofHashToQuestId,
                   managerBalance, rewardClaims>>
    /\ AdminUnchanged

Refund(questId) == RefundQuest(treasury, Manager, questId, quests[questId].rewardAmount)

CompleteQuest(questId) ==
    /\ quests' = [quests EXCEPT ![questId].status = "Claimable"]
    /\ UNCHANGED treasuryVars

\* Mutant: the failed proof stays in the quest.
FailQuestKeepsProof(questId) ==
    /\ Refund(questId)
    /\ quests' = [quests EXCEPT ![questId].status = "Accepted"]

\* Mutant: the quest stays Completed.
FailQuestKeepsStatus(questId) ==
    /\ Refund(questId)
    /\ quests' = [quests EXCEPT ![questId].proofHash = NoProof,
                                ![questId].proofVerificationHash = NoHash]

\* The reservation is released and the player may submit another proof.
FailQuest(questId) ==
    /\ Refund(questId)
    /\ quests' = [quests EXCEPT ![questId].status = "Accepted",
                                ![questId].proofHash = NoProof,
                                ![questId].proofVerificationHash = NoHash]

VerifyQuest(sender, questId, success, proofVerificationHash) ==
    /\ Running
    /\ sender \in verifiers
    /\ quests[questId].status = "Completed"
    /\ quests[questId].player # NoPlayer
    /\ quests[questId].proofVerificationHash # NoHash
    /\ quests[questId].proofVerificationHash = proofVerificationHash
    /\ IF success THEN CompleteQuest(questId) ELSE FailQuest(questId)
    /\ QuestOnlyUnchanged

\* claimReward looks at no quest and calls no treasury: it pays a fixed
\* amount out of this contract's own balance to whoever calls it.
ClaimReward(questId) ==
    /\ Running
    /\ questId # 0
    /\ managerBalance >= ClaimAmount
    /\ rewardClaims[questId] < MaxClaims
    /\ managerBalance' = managerBalance - ClaimAmount
    /\ rewardClaims' = [rewardClaims EXCEPT ![questId] = @ + 1]
    /\ UNCHANGED <<treasuryVars, reputationVars, quests, nextQuestId, playerNonces,
                   proofHashToQuestId>>
    /\ AdminUnchanged

\* Mutant: the reservation is left in the treasury.
CancelQuestKeepsReservation(sender, questId) ==
    /\ Running
    /\ quests[questId].player = sender
    /\ quests[questId].status = "Accepted"
    /\ quests' = [quests EXCEPT ![questId].status = "Cancelled"]
    /\ UNCHANGED treasuryVars
    /\ QuestOnlyUnchanged

CancelQuest(sender, questId) ==
    /\ Running
    /\ quests[questId].player = sender
    /\ quests[questId].status = "Accepted"
    /\ Refund(questId)
    /\ quests' = [quests EXCEPT ![questId].status = "Cancelled"]
    /\ QuestOnlyUnchanged

-----------------------------------------------------------------------------
(* Owner calls *)

QuestsUnchanged ==
    UNCHANGED <<treasuryVars, reputationVars, quests, nextQuestId, playerNonces,
                proofHashToQuestId, managerBalance, rewardClaims>>

\* Quests in progress are not moved: their funds stay where they were reserved.
SetTreasury(newTreasury) ==
    /\ treasury' = newTreasury
    /\ QuestsUnchanged
    /\ UNCHANGED <<managerPaused, rewardSystemHealthy, verifiers>>

GrantVerifier(verifier) ==
    /\ verifiers' = verifiers \cup {verifier}
    /\ QuestsUnchanged
    /\ UNCHANGED <<treasury, managerPaused, rewardSystemHealthy>>

RevokeVerifier(verifier) ==
    /\ verifiers' = verifiers \ {verifier}
    /\ QuestsUnchanged
    /\ UNCHANGED <<treasury, managerPaused, rewardSystemHealthy>>

\* pauseRewardSystem and unpauseRewardSystem
SetRewardSystemHealthy(healthy) ==
    /\ rewardSystemHealthy' = healthy
    /\ QuestsUnchanged
    /\ UNCHANGED <<treasury, managerPaused, verifiers>>

\* pause and unpause
SetManagerPaused(paused) ==
    /\ managerPaused # paused
    /\ managerPaused' = paused
    /\ QuestsUnchanged
    /\ UNCHANGED <<treasury, rewardSystemHealthy, verifiers>>

-----------------------------------------------------------------------------

PlayerCall ==
    \E sender \in Players :
        \/ \E rewardAmount \in Amounts, duration \in Durations :
              \/ \E value \in CreateValues : CreateQuest(sender, rewardAmount, duration, value)
              \/ CreateAndAcceptQuest(sender, rewardAmount, duration)
        \/ \E questId \in QuestIds :
              \/ AcceptQuest(sender, questId)
              \/ \E proofHash \in Proofs : SubmitQuest(sender, questId, proofHash)
              \/ CancelQuest(sender, questId)

\* A verifier can only present a hash that some submission produced.
VerifierCall ==
    \E sender \in Verifiers, questId \in QuestIds, success \in BOOLEAN :
        \E proofVerificationHash \in {quests[q].proofVerificationHash : q \in QuestIds} :
            VerifyQuest(sender, questId, success, proofVerificationHash)

OwnerCall ==
    \/ \E newTreasury \in Treasuries : SetTreasury(newTreasury)
    \/ /\ OwnersSwitch
       /\ \/ \E verifier \in Verifiers : GrantVerifier(verifier) \/ RevokeVerifier(verifier)
          \/ \E healthy \in BOOLEAN : SetRewardSystemHealthy(healthy)
          \/ \E paused \in BOOLEAN : SetManagerPaused(paused)

\* The other contracts' own calls, and the block clock.
OtherContracts ==
    \/ /\ \E t \in Treasuries : TreasuryAdmin(t)
       /\ UNCHANGED <<reputationVars, managerVars>>
    \/ /\ \/ OwnersSwitch /\ \E paused \in BOOLEAN : SetReputationPaused(paused)
          \/ Tick
       /\ UNCHANGED <<treasuryVars, managerVars>>

Next ==
    \/ PlayerCall
    \/ VerifierCall
    \/ \E questId \in QuestIds : ClaimReward(questId)
    \/ OwnerCall
    \/ OtherContracts

Spec == Init /\ [][Next]_vars

-----------------------------------------------------------------------------
(* Properties *)

\* A proof belongs to one quest: while a quest holds a proof no other quest
\* holds it, however submissions, failures and resubmissions interleave.
ProofBelongsToOneQuest ==
    \A q1, q2 \in QuestIds :
        (q1 # q2 /\ quests[q1].proofHash # NoProof)
            => quests[q1].proofHash # quests[q2].proofHash

\* A verdict fits one submission only: two quests never wait for the same
\* verification hash, so that a verdict cannot settle another quest.
VerificationHashUnique ==
    \A q1, q2 \in QuestIds :
        (q1 # q2 /\ quests[q1].proofVerificationHash # NoHash)
            => quests[q1].proofVerificationHash # quests[q2].proofVerificationHash

\* The nonces a player's quests were accepted with are all different, also
\* when acceptances of created and of directly accepted quests interleave.
NonceIdentifiesQuest ==
    \A q1, q2 \in QuestIds :
        (q1 # q2 /\ quests[q1].player # NoPlayer /\ quests[q1].player = quests[q2].player)
            => quests[q1].playerNonce # quests[q2].playerNonce

FundsOf(questId) == {t \in Treasuries : questFunds[t][questId].state # "None"}

ReservationMatches(q) ==
    LET quest == quests[q] IN
    /\ \A t1, t2 \in FundsOf(q) : t1 = t2
    /\ quest.status = "None" <=> FundsOf(q) = {}
    /\ \A t \in FundsOf(q) :
          LET fund == questFunds[t][q] IN
          /\ quest.status = "Available" => fund.state = "Reserved"
          /\ quest.status = "Cancelled" => fund.state = "Refunded"
          /\ fund.state = "Reserved" => /\ fund.reservedReward = quest.rewardAmount
                                        /\ fund.player = quest.creator

\* Quest and reservation agree across the two contracts, also after the owner
\* has switched treasuries: a quest has funds in at most one treasury, an
\* Available quest is backed by its full reward, a Cancelled one by nothing,
\* and whatever is reserved is exactly the quest's reward for its creator.
ReservationFollowsQuest == \A q \in QuestIds : ReservationMatches(q)

LifecycleEdges ==
    {<<"None", "Available">>, <<"None", "Accepted">>, <<"Available", "Accepted">>,
     <<"Accepted", "Completed">>, <<"Completed", "Accepted">>,
     <<"Completed", "Claimable">>, <<"Accepted", "Cancelled">>}

\* A quest moves along the life cycle only, its terms never change, and once
\* it has a player it keeps that player.
QuestTermsAreFixed ==
    [][\A q \in QuestIds :
          LET old == quests[q]
              new == quests'[q]
          IN /\ old.status # new.status => <<old.status, new.status>> \in LifecycleEdges
             /\ old.status # "None" => /\ new.rewardAmount = old.rewardAmount
                                       /\ new.expiresAt = old.expiresAt
                                       /\ new.creator = old.creator
             /\ old.player # NoPlayer => new.player = old.player]_vars

\* A reservation is closed only by the verdict or the cancellation of its own
\* quest: no other call, of the owner or of another player, releases it.
ReservationClosedByItsQuest ==
    [][\A t \in Treasuries, q \in QuestIds :
          (questFunds[t][q].state = "Reserved" /\ questFunds'[t][q].state # "Reserved")
              => /\ quests[q].status \in {"Accepted", "Completed"}
                 /\ quests'[q].status \in {"Accepted", "Cancelled"}
                 /\ quests'[q].status # quests[q].status]_vars

\* Expected by the contract tests: a reward is claimed at most once per quest.
RewardClaimedAtMostOnce == \A q \in QuestIds : rewardClaims[q] <= 1

\* Expected by the documented treasury flow: the reward of a verified quest
\* stays reserved until it is paid.
ClaimableIsBacked ==
    \A q \in QuestIds :
        quests[q].status = "Claimable"
            => \E t \in Treasuries : questFunds[t][q].state \in {"Reserved", "Paid"}

-----------------------------------------------------------------------------
(* Why the properties hold: what every call preserves *)

\* A quest's fields agree with its status, its nonce was taken from its
\* player, and its proof is registered for it.
QuestConsistent(q) ==
    LET quest == quests[q] IN
    /\ quest.status # "Rewarded"
    /\ quest.status = "None" <=> (q = 0 \/ q >= nextQuestId)
    /\ quest.status \in {"None", "Available"} <=> quest.player = NoPlayer
    /\ quest.player # NoPlayer => quest.playerNonce < playerNonces[quest.player]
    /\ quest.status \in {"Completed", "Claimable"} =>
          /\ quest.proofHash \in Proofs
          /\ quest.proofVerificationHash = <<quest.player, quest.proofHash, quest.playerNonce>>
          /\ proofHashToQuestId[quest.proofHash] = q
    /\ quest.status \notin {"Completed", "Claimable"} =>
          /\ quest.proofHash = NoProof
          /\ quest.proofVerificationHash = NoHash

\* The inductive invariant: together these parts imply every invariant above.
IInv ==
    /\ TypeOK
    /\ Solvent
    /\ FundMatchesState
    /\ \A q \in QuestIds : QuestConsistent(q)
    /\ NonceIdentifiesQuest
    /\ ReservationFollowsQuest
=============================================================================
