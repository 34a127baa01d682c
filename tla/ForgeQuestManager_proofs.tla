----------------------- MODULE ForgeQuestManager_proofs -----------------------
(***************************************************************************)
(* The invariants of the quest contracts for any number of players, quests,*)
(* proofs, verifiers and treasuries and for any amounts and durations.     *)
(* IInv is inductive: one lemma per call shows that the call preserves it. *)
(***************************************************************************)
EXTENDS MCForgeQuestManager, Contracts_proofs

\* The part of the invariant that is about the manager's own books.
QuestInv ==
    /\ \A q \in QuestIds : QuestConsistent(q)
    /\ NonceIdentifiesQuest

LEMMA IInvParts ==
    IInv <=> /\ TreasuryInv /\ ReputationTypeOK /\ ManagerTypeOK
             /\ QuestInv /\ ReservationFollowsQuest
BY DEF IInv, TypeOK, TreasuryInv, QuestInv

LEMMA InitIInv == Init => IInv
<1> SUFFICES ASSUME Init PROVE IInv
  OBVIOUS
<1> USE ManagerAssumption, AccountsAssumption DEF Init
<1>1. TreasuryInv
  BY TreasuryInitInv
<1>2. ReputationTypeOK
  BY DEF ReputationInit, ReputationTypeOK, PlayerProfile, NoProfile
<1>3. NoQuest \in Quest
  BY DEF NoQuest, Quest, QuestStatus
<1>4. ManagerTypeOK
  <2>1. quests \in [QuestIds -> Quest] /\ treasury \in Treasuries /\ verifiers \in SUBSET Verifiers
    BY <1>3
  <2>2. 0 \in QuestIds /\ nextQuestId \in 1..(MaxQuests + 1)
    OBVIOUS
  <2>3. /\ playerNonces \in [Players -> Nat]
        /\ proofHashToQuestId \in [Proofs -> QuestIds]
        /\ rewardClaims \in [QuestIds -> Nat]
    BY <2>2
  <2> QED BY <2>1, <2>2, <2>3 DEF ManagerTypeOK
<1>5. QuestInv
  BY DEF QuestInv, QuestConsistent, NonceIdentifiesQuest, NoQuest
<1>6. ReservationFollowsQuest
  <2>1. \A q \in QuestIds : FundsOf(q) = {}
    BY DEF FundsOf, TreasuryInit, EmptyFund
  <2> QED BY <2>1 DEF ReservationFollowsQuest, ReservationMatches, NoQuest
<1> QED BY <1>1, <1>2, <1>4, <1>5, <1>6, IInvParts

-----------------------------------------------------------------------------
(* Frame lemmas: what a call leaves alone *)

\* The fields of a quest have their types.
LEMMA QuestFields ==
  ASSUME ManagerTypeOK, NEW q \in QuestIds
  PROVE  /\ quests[q] \in Quest
         /\ quests[q].status \in QuestStatus
         /\ quests[q].player \in Players \cup {NoPlayer}
         /\ quests[q].rewardAmount \in Nat
         /\ quests[q].playerNonce \in Nat
         /\ q \in Nat
BY ManagerAssumption DEF ManagerTypeOK, Quest

\* A quest that a call does not touch stays consistent, as long as nonces
\* only grow, its proof stays registered and no identifier is reused.
LEMMA QuestConsistentFrame ==
  ASSUME ManagerTypeOK, NEW i \in QuestIds, QuestConsistent(i),
         quests'[i] = quests[i],
         playerNonces' \in [Players -> Nat],
         \A p \in Players : playerNonces'[p] >= playerNonces[p],
         quests[i].status \in {"Completed", "Claimable"}
            => proofHashToQuestId'[quests[i].proofHash] = i,
         (i = 0 \/ i >= nextQuestId) <=> (i = 0 \/ i >= nextQuestId')
  PROVE  QuestConsistent(i)'
<1>1. quests[i].player # NoPlayer => quests[i].playerNonce < playerNonces'[quests[i].player]
  BY QuestFields DEF QuestConsistent, ManagerTypeOK
<1> QED BY <1>1 DEF QuestConsistent

\* Nonces stay distinct when players and nonces of quests do not change.
LEMMA NonceFrame ==
  ASSUME NonceIdentifiesQuest,
         \A i \in QuestIds : /\ quests'[i].player = quests[i].player
                             /\ quests'[i].playerNonce = quests[i].playerNonce
  PROVE  NonceIdentifiesQuest'
BY DEF NonceIdentifiesQuest

\* They also stay distinct when one quest gets a player and that player's
\* next nonce.
LEMMA NonceFresh ==
  ASSUME ManagerTypeOK, \A i \in QuestIds : QuestConsistent(i), NonceIdentifiesQuest,
         NEW q \in QuestIds, NEW sender \in Players,
         quests'[q].player = sender,
         quests'[q].playerNonce = playerNonces[sender],
         \A i \in QuestIds \ {q} : quests'[i] = quests[i]
  PROVE  NonceIdentifiesQuest'
<1>1. ASSUME NEW i \in QuestIds \ {q}, quests[i].player = sender
      PROVE  quests[i].playerNonce # playerNonces[sender]
  <2>1. quests[i].playerNonce < playerNonces[sender]
    BY <1>1, AccountsAssumption DEF QuestConsistent
  <2> QED BY <2>1, QuestFields DEF ManagerTypeOK
<1> QED BY <1>1 DEF NonceIdentifiesQuest

\* Quest and reservation stay in step when funds do not change and every
\* quest keeps its terms and does not become Available, Cancelled or None.
LEMMA ReservationFrame ==
  ASSUME ReservationFollowsQuest, questFunds' = questFunds,
         \A i \in QuestIds :
            \/ quests'[i] = quests[i]
            \/ /\ quests'[i].rewardAmount = quests[i].rewardAmount
               /\ quests'[i].creator = quests[i].creator
               /\ quests[i].status # "None"
               /\ quests'[i].status \notin {"None", "Available", "Cancelled"}
  PROVE  ReservationFollowsQuest'
<1>1. \A i \in QuestIds : FundsOf(i)' = FundsOf(i)
  BY DEF FundsOf
<1> QED BY <1>1 DEF ReservationFollowsQuest, ReservationMatches


\* A call on one quest leaves the reservations of the others in step.
LEMMA ReservationStep ==
  ASSUME ReservationFollowsQuest, NEW q \in QuestIds,
         \A i \in QuestIds \ {q} :
            /\ quests'[i] = quests[i]
            /\ \A t \in Treasuries : questFunds'[t][i] = questFunds[t][i],
         ReservationMatches(q)'
  PROVE  ReservationFollowsQuest'
<1>1. ASSUME NEW i \in QuestIds \ {q} PROVE ReservationMatches(i)'
  <2>1. FundsOf(i)' = FundsOf(i)
    BY DEF FundsOf
  <2> QED BY <2>1 DEF ReservationFollowsQuest, ReservationMatches, FundsOf
<1> QED BY <1>1 DEF ReservationFollowsQuest

-----------------------------------------------------------------------------
(* Players *)

\* The acceptance fee only adds to balances.
LEMMA FeeFacts ==
  ASSUME IInv, PayFee
  PROVE  /\ balance' \in [Treasuries -> Nat]
         /\ \A u \in Treasuries : balance'[u] >= balance[u]
<1>1. balance \in [Treasuries -> Nat] /\ treasury \in Treasuries /\ AcceptanceFee \in Nat
  BY IInvParts, ManagerAssumption DEF TreasuryInv, TreasuryTypeOK, ManagerTypeOK
<1>2. balance' = [balance EXCEPT ![treasury] = @ + AcceptanceFee]
  BY DEF PayFee, ReceiveNative
<1>3. /\ balance'[treasury] = balance[treasury] + AcceptanceFee
      /\ \A u \in Treasuries \ {treasury} : balance'[u] = balance[u]
  BY <1>1, <1>2
<1>4. \A u \in Treasuries : balance[u] \in Nat
  BY <1>1
<1>5. \A u \in Treasuries : balance'[u] >= balance[u]
  BY <1>1, <1>3, <1>4
<1> QED BY <1>1, <1>2, <1>5

\* Acceptance: the fee only adds to the balance, and the nonce is fresh.
LEMMA AcceptQuestKeepsIInv ==
  ASSUME IInv, NEW sender \in Players, NEW q \in QuestIds, AcceptQuest(sender, q)
  PROVE  IInv'
<1> USE ManagerAssumption, AccountsAssumption, IInvParts DEF QuestInv
<1>q. /\ quests' = [quests EXCEPT ![q] = AcceptedBy(quests[q], sender)]
      /\ playerNonces' = [playerNonces EXCEPT ![sender] = @ + 1]
      /\ UNCHANGED <<nextQuestId, proofHashToQuestId>>
      /\ quests[q].status = "Available"
  BY DEF AcceptQuest, TakeNonce, CanAccept
<1>a. /\ AcceptedBy(quests[q], sender) \in Quest
      /\ quests'[q] = AcceptedBy(quests[q], sender)
      /\ \A i \in QuestIds \ {q} : quests'[i] = quests[i]
      /\ playerNonces[sender] \in Nat
  <2>1. quests[q] \in Quest /\ playerNonces[sender] \in Nat
    BY DEF ManagerTypeOK
  <2> QED BY <1>q, <2>1 DEF AcceptedBy, ManagerTypeOK, Quest, QuestStatus
<1>n. /\ playerNonces' \in [Players -> Nat]
      /\ \A p \in Players : playerNonces'[p] >= playerNonces[p]
      /\ playerNonces'[sender] = playerNonces[sender] + 1
  BY <1>q DEF ManagerTypeOK
<1>1. TreasuryInv'
  <2>0. PayFee /\ BooksUnchanged
        /\ UNCHANGED <<rewardReserveCap, payoutCap, treasuryPaused, questManagers>>
    BY DEF AcceptQuest
  <2>1. TreasuryTypeOK'
    BY <2>0, FeeFacts DEF BooksUnchanged, TreasuryInv, TreasuryTypeOK
  <2>2. Solvent'
    <3> SUFFICES ASSUME NEW u \in Treasuries PROVE isSolvent(u)'
      BY DEF Solvent
    <3>1. balance'[u] >= balance[u] /\ balance[u] >= totalReservedRewards[u]
      BY <2>0, FeeFacts DEF TreasuryInv, Solvent, isSolvent, obligations
    <3>2. balance'[u] \in Nat /\ balance[u] \in Nat /\ totalReservedRewards[u] \in Nat
      BY <2>0, FeeFacts DEF TreasuryInv, TreasuryTypeOK
    <3> QED BY <2>0, <3>1, <3>2 DEF isSolvent, obligations, BooksUnchanged
  <2> QED BY <2>0, <2>1, <2>2, BooksUnchangedKeepsInv
<1>2. ReputationTypeOK'
  BY DEF AcceptQuest, reputationVars, ReputationTypeOK
<1>3. ManagerTypeOK'
  BY <1>q, <1>a, <1>n DEF ManagerTypeOK, AcceptQuest, AdminUnchanged
<1>4. QuestInv'
  <2>1. ASSUME NEW i \in QuestIds \ {q} PROVE QuestConsistent(i)'
    BY <1>q, <1>a, <1>n, QuestConsistentFrame DEF QuestConsistent
  <2>2. QuestConsistent(q)'
    <3>1. /\ quests'[q].status = "Accepted"
          /\ quests'[q].player = sender
          /\ quests'[q].playerNonce = playerNonces[sender]
          /\ quests'[q].proofHash = quests[q].proofHash
          /\ quests'[q].proofVerificationHash = quests[q].proofVerificationHash
      BY <1>a DEF AcceptedBy, ManagerTypeOK, Quest
    <3>2. quests[q].proofHash = NoProof /\ quests[q].proofVerificationHash = NoHash
          /\ ~(q = 0 \/ q >= nextQuestId)
      BY <1>q DEF QuestConsistent
    <3>3. /\ sender \in Players /\ sender # NoPlayer
          /\ playerNonces[sender] < playerNonces'[sender]
          /\ nextQuestId' = nextQuestId
      BY <1>q, <1>a, <1>n
    <3> HIDE DEF QuestInv
    <3> QED BY <3>1, <3>2, <3>3 DEF QuestConsistent
  <2>3. NonceIdentifiesQuest'
    <3>1. /\ quests'[q].player = sender
          /\ quests'[q].playerNonce = playerNonces[sender]
      BY <1>a DEF AcceptedBy, Quest
    <3>2. NonceIdentifiesQuest /\ \A i \in QuestIds : QuestConsistent(i)
      OBVIOUS
    <3> HIDE DEF QuestInv
    <3> QED BY <1>a, <3>1, <3>2, NonceFresh
  <2> QED BY <2>1, <2>2, <2>3
<1>5. ReservationFollowsQuest'
  BY <1>q, <1>a, ReservationFrame DEF AcceptedBy, AcceptQuest, BooksUnchanged, ManagerTypeOK, Quest
<1> QED BY <1>1, <1>2, <1>3, <1>4, <1>5 DEF IInv, TypeOK, TreasuryInv

\* What the two ways of creating a quest have in common: the new reservation
\* is covered and belongs to a quest identifier nothing was known of.
LEMMA CreationFacts ==
  ASSUME IInv, NEW sender \in Players, NEW a \in Nat, NEW d \in Nat,
         NEW q, q = nextQuestId,
         Creation(sender, a, d),
         balance' \in [Treasuries -> Nat],
         \A u \in Treasuries : balance'[u] >= balance[u]
  PROVE  /\ q \in QuestIds \ {0}
         /\ TreasuryInv'
         /\ ReputationTypeOK'
         /\ nextQuestId' = q + 1
         /\ nextQuestId' \in 1..(MaxQuests + 1)
         /\ FundsOf(q)' = {treasury}
         /\ questFunds'[treasury][q] =
               [reservedReward |-> a, player |-> sender, state |-> "Reserved"]
         /\ \A i \in QuestIds \ {q}, t \in Treasuries :
               questFunds'[t][i] = questFunds[t][i]
         /\ NewQuest(sender, a, d) \in Quest
<1> USE ManagerAssumption, AccountsAssumption, IInvParts
<1>1. q \in QuestIds \ {0} /\ nextQuestId' = q + 1
      /\ nextQuestId' \in 1..(MaxQuests + 1)
  BY DEF Creation, ManagerTypeOK
<1>2. ReserveReward(treasury, Manager, q, sender, a) /\ treasury \in Treasuries
  BY DEF Creation, ManagerTypeOK
<1>3. TreasuryInv'
  BY <1>1, <1>2, ReserveRewardKeepsInv
<1>4. ReputationTypeOK'
  BY DEF Creation, InitializePlayer, ReputationTypeOK, PlayerProfile, NoProfile
<1>5. FundsOf(q) = {}
  BY <1>1 DEF QuestInv, QuestConsistent, ReservationFollowsQuest, ReservationMatches
<1>6. /\ questFunds'[treasury][q] =
            [reservedReward |-> a, player |-> sender, state |-> "Reserved"]
      /\ \A i \in QuestIds, t \in Treasuries :
            (i # q \/ t # treasury) => questFunds'[t][i] = questFunds[t][i]
  <2>1. questFunds \in [Treasuries -> [QuestIds -> QuestFund]]
    BY DEF TreasuryInv, TreasuryTypeOK
  <2> QED BY <1>1, <1>2, <2>1 DEF ReserveReward
<1>7. FundsOf(q)' = {treasury}
  BY <1>1, <1>2, <1>5, <1>6 DEF FundsOf
<1>8. NewQuest(sender, a, d) \in Quest
  <2>1. now + d \in Nat
    BY DEF ReputationTypeOK
  <2>2. NoQuest \in Quest /\ "Available" \in QuestStatus
    BY DEF NoQuest, Quest, QuestStatus
  <2> QED BY <2>1, <2>2 DEF NewQuest, Quest
<1> QED BY <1>1, <1>3, <1>4, <1>6, <1>7, <1>8

LEMMA CreateQuestKeepsIInv ==
  ASSUME IInv, NEW sender \in Players, NEW a \in Nat, NEW d \in Nat, NEW v \in Nat,
         NEW q, q = nextQuestId,
         CreateQuest(sender, a, d, v)
  PROVE  IInv'
<1> USE ManagerAssumption, AccountsAssumption, IInvParts DEF QuestInv
<1>b. balance' \in [Treasuries -> Nat] /\ \A u \in Treasuries : balance'[u] >= balance[u]
  BY DEF CreateQuest, TreasuryInv, TreasuryTypeOK
<1>c. Creation(sender, a, d)
  BY DEF CreateQuest
<1>1. q \in QuestIds \ {0} /\ TreasuryInv' /\ ReputationTypeOK'
  BY <1>b, <1>c, CreationFacts
<1>a. /\ quests'[q] = NewQuest(sender, a, d)
      /\ \A i \in QuestIds \ {q} : quests'[i] = quests[i]
      /\ NewQuest(sender, a, d) \in Quest
  <2>1. NewQuest(sender, a, d) \in Quest
    BY <1>b, <1>c, CreationFacts
  <2>2. quests' = [quests EXCEPT ![q] = NewQuest(sender, a, d)]
    BY DEF CreateQuest
  <2> QED BY <2>1, <2>2, <1>1 DEF ManagerTypeOK
<1>f. /\ quests'[q].status = "Available"
      /\ quests'[q].player = NoPlayer
      /\ quests'[q].rewardAmount = a
      /\ quests'[q].creator = sender
      /\ quests'[q].proofHash = NoProof
      /\ quests'[q].proofVerificationHash = NoHash
  BY <1>a DEF NewQuest, NoQuest
<1>u. /\ UNCHANGED <<proofHashToQuestId, playerNonces>>
      /\ nextQuestId' = q + 1 /\ nextQuestId' \in 1..(MaxQuests + 1) /\ q \in Nat
  BY <1>b, <1>c, <1>1, CreationFacts DEF CreateQuest, Creation
<1>3. ManagerTypeOK'
  <2>1. quests' \in [QuestIds -> Quest]
    BY <1>a, <1>1 DEF ManagerTypeOK, CreateQuest
  <2>2. managerBalance' \in Nat
    BY DEF ManagerTypeOK, CreateQuest
  <2> QED BY <1>u, <2>1, <2>2 DEF ManagerTypeOK, CreateQuest, Creation, AdminUnchanged
<1>4. QuestInv'
  <2>1. ASSUME NEW i \in QuestIds \ {q} PROVE QuestConsistent(i)'
    <3>1. \A p \in Players : playerNonces'[p] >= playerNonces[p] /\ playerNonces[p] \in Nat
      BY <1>u DEF ManagerTypeOK
    <3>2. (i = 0 \/ i >= q) <=> (i = 0 \/ i >= q + 1)
      BY <1>u
    <3>3. playerNonces' \in [Players -> Nat]
      BY <1>u DEF ManagerTypeOK
    <3> QED BY <1>u, <1>a, <3>1, <3>2, <3>3, QuestConsistentFrame DEF QuestConsistent
  <2>2. QuestConsistent(q)'
    BY <1>f, <1>u, <1>1 DEF QuestConsistent
  <2>3. NonceIdentifiesQuest'
    BY <1>a, <1>f DEF NonceIdentifiesQuest
  <2> QED BY <2>1, <2>2, <2>3
<1>5. ReservationFollowsQuest'
  <2>1. /\ FundsOf(q)' = {treasury}
        /\ questFunds'[treasury][q] =
              [reservedReward |-> a, player |-> sender, state |-> "Reserved"]
        /\ \A i \in QuestIds \ {q}, t \in Treasuries :
              questFunds'[t][i] = questFunds[t][i]
    BY <1>b, <1>c, CreationFacts
  <2>2. ReservationMatches(q)'
    BY <1>f, <2>1 DEF ReservationMatches
  <2> QED BY <1>a, <1>1, <2>1, <2>2, ReservationStep
<1> QED BY <1>1, <1>3, <1>4, <1>5 DEF IInv, TypeOK, TreasuryInv

LEMMA CreateAndAcceptQuestKeepsIInv ==
  ASSUME IInv, NEW sender \in Players, NEW a \in Nat, NEW d \in Nat,
         NEW q, q = nextQuestId,
         CreateAndAcceptQuest(sender, a, d)
  PROVE  IInv'
<1> USE ManagerAssumption, AccountsAssumption, IInvParts DEF QuestInv
<1>b. balance' \in [Treasuries -> Nat] /\ \A u \in Treasuries : balance'[u] >= balance[u]
  BY FeeFacts DEF CreateAndAcceptQuest
<1>c. Creation(sender, a, d)
  BY DEF CreateAndAcceptQuest
<1>1. q \in QuestIds \ {0} /\ TreasuryInv' /\ ReputationTypeOK'
      /\ NewQuest(sender, a, d) \in Quest
  BY <1>b, <1>c, CreationFacts
<1> DEFINE accepted == AcceptedBy(NewQuest(sender, a, d), sender)
<1>a. /\ quests'[q] = accepted
      /\ \A i \in QuestIds \ {q} : quests'[i] = quests[i]
      /\ accepted \in Quest
  <2>1. playerNonces[sender] \in Nat /\ "Accepted" \in QuestStatus
    BY DEF ManagerTypeOK, QuestStatus
  <2>2. accepted \in Quest
    BY <1>1, <2>1 DEF AcceptedBy, Quest
  <2> QED BY <1>1, <2>2 DEF CreateAndAcceptQuest, ManagerTypeOK
<1>f. /\ quests'[q].status = "Accepted"
      /\ quests'[q].player = sender
      /\ quests'[q].playerNonce = playerNonces[sender]
      /\ quests'[q].rewardAmount = a
      /\ quests'[q].creator = sender
      /\ quests'[q].proofHash = NoProof
      /\ quests'[q].proofVerificationHash = NoHash
  <2> DEFINE new == NewQuest(sender, a, d)
  <2>1. /\ new.rewardAmount = a /\ new.creator = sender
        /\ new.proofHash = NoProof /\ new.proofVerificationHash = NoHash
    BY DEF NewQuest, NoQuest
  <2> HIDE DEF new
  <2>2. new \in Quest /\ quests'[q] = AcceptedBy(new, sender)
    BY <1>1, <1>a DEF new
  <2> QED BY <2>1, <2>2 DEF AcceptedBy, Quest
<1>u. /\ UNCHANGED proofHashToQuestId
      /\ nextQuestId' = q + 1 /\ nextQuestId' \in 1..(MaxQuests + 1) /\ q \in Nat
  BY <1>b, <1>c, <1>1, CreationFacts DEF Creation
<1>n. /\ playerNonces' \in [Players -> Nat]
      /\ \A p \in Players : playerNonces'[p] >= playerNonces[p]
      /\ playerNonces'[sender] = playerNonces[sender] + 1
      /\ playerNonces[sender] \in Nat
  BY DEF ManagerTypeOK, CreateAndAcceptQuest, TakeNonce
<1>3. ManagerTypeOK'
  <2>1. quests' \in [QuestIds -> Quest]
    BY <1>a, <1>1 DEF ManagerTypeOK, CreateAndAcceptQuest
  <2> QED BY <1>u, <1>n, <2>1 DEF ManagerTypeOK, CreateAndAcceptQuest, Creation, AdminUnchanged
<1>4. QuestInv'
  <2>1. ASSUME NEW i \in QuestIds \ {q} PROVE QuestConsistent(i)'
    <3>1. (i = 0 \/ i >= q) <=> (i = 0 \/ i >= q + 1)
      BY <1>u
    <3>2. /\ QuestConsistent(i) /\ quests'[i] = quests[i] /\ i \in QuestIds
          /\ (i = 0 \/ i >= nextQuestId) <=> (i = 0 \/ i >= nextQuestId')
      BY <1>u, <1>a, <3>1
    <3>3. quests[i].status \in {"Completed", "Claimable"}
             => proofHashToQuestId'[quests[i].proofHash] = i
      BY <1>u, <3>2 DEF QuestConsistent
    <3> HIDE DEF QuestInv
    <3> QED BY <1>n, <3>2, <3>3, QuestConsistentFrame
  <2>2. QuestConsistent(q)'
    BY <1>f, <1>u, <1>n, <1>1 DEF QuestConsistent
  <2>3. NonceIdentifiesQuest'
    BY <1>1, <1>a, <1>f, NonceFresh
  <2> QED BY <2>1, <2>2, <2>3
<1>5. ReservationFollowsQuest'
  <2>1. /\ FundsOf(q)' = {treasury}
        /\ questFunds'[treasury][q] =
              [reservedReward |-> a, player |-> sender, state |-> "Reserved"]
        /\ \A i \in QuestIds \ {q}, t \in Treasuries :
              questFunds'[t][i] = questFunds[t][i]
    BY <1>b, <1>c, CreationFacts
  <2>2. ReservationMatches(q)'
    BY <1>f, <2>1 DEF ReservationMatches
  <2> QED BY <1>a, <1>1, <2>1, <2>2, ReservationStep
<1> QED BY <1>1, <1>3, <1>4, <1>5 DEF IInv, TypeOK, TreasuryInv

\* A proof that another quest holds is registered for that quest, so that
\* registering it for this one never takes it away from its holder.
LEMMA SubmitQuestKeepsIInv ==
  ASSUME IInv, NEW sender \in Players, NEW q \in QuestIds, NEW h \in Proofs,
         SubmitQuest(sender, q, h)
  PROVE  IInv'
<1> USE ManagerAssumption, AccountsAssumption, IInvParts DEF QuestInv
<1> DEFINE hash == <<sender, h, quests[q].playerNonce>>
<1>1. TreasuryInv'
  BY DEF SubmitQuest, treasuryVars, TreasuryInv, TreasuryTypeOK, Solvent, isSolvent,
         obligations, FundMatchesState
<1>2. ReputationTypeOK'
  BY DEF SubmitQuest, reputationVars, ReputationTypeOK
<1>g. /\ quests[q].status = "Accepted" /\ quests[q].player = sender
      /\ proofHashToQuestId[h] \in {0, q}
      /\ proofHashToQuestId' = [proofHashToQuestId EXCEPT ![h] = q]
      /\ UNCHANGED <<nextQuestId, playerNonces>>
      /\ ~(q = 0 \/ q >= nextQuestId)
  BY DEF SubmitQuest, ProofUsable, QuestConsistent
<1>a. /\ quests'[q] = [quests[q] EXCEPT !.status = "Completed", !.proofHash = h,
                                        !.proofVerificationHash = hash]
      /\ \A i \in QuestIds \ {q} : quests'[i] = quests[i]
      /\ quests' \in [QuestIds -> Quest]
  <2>1. quests[q] \in Quest /\ hash \in VerificationHashes /\ "Completed" \in QuestStatus
    BY QuestFields DEF VerificationHashes, QuestStatus
  <2>2. [quests[q] EXCEPT !.status = "Completed", !.proofHash = h,
                          !.proofVerificationHash = hash] \in Quest
    BY <2>1 DEF Quest
  <2> QED BY <2>2 DEF SubmitQuest, ManagerTypeOK
<1>f. /\ quests'[q].status = "Completed"
      /\ quests'[q].player = sender
      /\ quests'[q].playerNonce = quests[q].playerNonce
      /\ quests'[q].rewardAmount = quests[q].rewardAmount
      /\ quests'[q].creator = quests[q].creator
      /\ quests'[q].proofHash = h
      /\ quests'[q].proofVerificationHash = hash
  BY <1>a, <1>g, QuestFields DEF Quest
<1>3. ManagerTypeOK'
  BY <1>a, <1>g DEF ManagerTypeOK, SubmitQuest, AdminUnchanged
<1>4. QuestInv'
  <2>1. ASSUME NEW i \in QuestIds \ {q} PROVE QuestConsistent(i)'
    <3>1. quests[i].status \in {"Completed", "Claimable"}
             => proofHashToQuestId'[quests[i].proofHash] = i
      <4>1. quests[i].status \in {"Completed", "Claimable"} => i # 0
        BY DEF QuestConsistent
      <4> QED BY <1>g, <4>1 DEF QuestConsistent, ManagerTypeOK
    <3>2. \A p \in Players : playerNonces'[p] >= playerNonces[p]
      BY <1>g DEF ManagerTypeOK
    <3> QED BY <1>g, <1>a, <3>1, <3>2, QuestConsistentFrame DEF ManagerTypeOK
  <2>2. QuestConsistent(q)'
    BY <1>f, <1>g DEF QuestConsistent, ManagerTypeOK
  <2>3. NonceIdentifiesQuest'
    BY <1>a, <1>f, <1>g, NonceFrame
  <2> QED BY <2>1, <2>2, <2>3
<1>5. ReservationFollowsQuest'
  BY <1>a, <1>f, <1>g, ReservationFrame DEF SubmitQuest, treasuryVars
<1> QED BY <1>1, <1>2, <1>3, <1>4, <1>5 DEF IInv, TypeOK, TreasuryInv

-----------------------------------------------------------------------------
(* Verdicts, cancellation, claims *)

\* What refunding a quest's reservation does to the books.
LEMMA RefundFacts ==
  ASSUME IInv, NEW q \in QuestIds, Refund(q)
  PROVE  /\ TreasuryInv'
         /\ questFunds[treasury][q].state = "Reserved"
         /\ treasury \in FundsOf(q)
         /\ FundsOf(q)' = FundsOf(q)
         /\ questFunds'[treasury][q] = EmptyFund("Refunded")
         /\ \A i \in QuestIds \ {q}, t \in Treasuries :
               questFunds'[t][i] = questFunds[t][i]
<1> USE ManagerAssumption, IInvParts
<1>1. /\ RefundQuest(treasury, Manager, q, quests[q].rewardAmount)
      /\ treasury \in Treasuries
      /\ quests[q].rewardAmount \in Nat
  BY QuestFields DEF Refund, ManagerTypeOK
<1>2. TreasuryInv'
  BY <1>1, RefundQuestKeepsInv
<1>3. /\ questFunds[treasury][q].state = "Reserved"
      /\ questFunds' = [questFunds EXCEPT ![treasury][q] = EmptyFund("Refunded")]
  BY <1>1 DEF RefundQuest, CloseFund
<1>4. /\ questFunds'[treasury][q] = EmptyFund("Refunded")
      /\ \A i \in QuestIds, t \in Treasuries :
            (i # q \/ t # treasury) => questFunds'[t][i] = questFunds[t][i]
  BY <1>1, <1>3 DEF TreasuryInv, TreasuryTypeOK
<1>5. treasury \in FundsOf(q) /\ FundsOf(q)' = FundsOf(q)
  BY <1>1, <1>3, <1>4 DEF FundsOf, EmptyFund
<1> QED BY <1>2, <1>3, <1>4, <1>5

\* A quest that loses its proof together with its reservation, and keeps
\* everything else, becomes Accepted or Cancelled.
LEMMA RefundingCallKeepsIInv ==
  ASSUME IInv, NEW q \in QuestIds, NEW status \in {"Accepted", "Cancelled"},
         Refund(q), QuestOnlyUnchanged,
         quests[q].status \in {"Accepted", "Completed"},
         quests' = [quests EXCEPT ![q] = [quests[q] EXCEPT !.status = status,
                                             !.proofHash = NoProof,
                                             !.proofVerificationHash = NoHash]]
  PROVE  IInv'
<1> USE ManagerAssumption, AccountsAssumption, IInvParts DEF QuestInv
<1>1. TreasuryInv'
  BY RefundFacts
<1>2. ReputationTypeOK'
  BY DEF QuestOnlyUnchanged, reputationVars, ReputationTypeOK
<1>u. UNCHANGED <<nextQuestId, playerNonces, proofHashToQuestId, managerBalance, rewardClaims,
                  treasury, managerPaused, rewardSystemHealthy, verifiers>>
  BY DEF QuestOnlyUnchanged, AdminUnchanged
<1>a. /\ quests'[q] = [quests[q] EXCEPT !.status = status, !.proofHash = NoProof,
                                        !.proofVerificationHash = NoHash]
      /\ \A i \in QuestIds \ {q} : quests'[i] = quests[i]
      /\ quests' \in [QuestIds -> Quest]
  <2>1. quests[q] \in Quest /\ status \in QuestStatus
    BY QuestFields DEF QuestStatus
  <2>2. [quests[q] EXCEPT !.status = status, !.proofHash = NoProof,
                          !.proofVerificationHash = NoHash] \in Quest
    BY <2>1 DEF Quest
  <2> QED BY <2>2 DEF ManagerTypeOK
<1>f. /\ quests'[q].status = status
      /\ quests'[q].player = quests[q].player
      /\ quests'[q].playerNonce = quests[q].playerNonce
      /\ quests'[q].rewardAmount = quests[q].rewardAmount
      /\ quests'[q].creator = quests[q].creator
      /\ quests'[q].proofHash = NoProof
      /\ quests'[q].proofVerificationHash = NoHash
  BY <1>a, QuestFields DEF Quest
<1>3. ManagerTypeOK'
  BY <1>a, <1>u DEF ManagerTypeOK
<1>4. QuestInv'
  <2>1. ASSUME NEW i \in QuestIds \ {q} PROVE QuestConsistent(i)'
    <3>1. \A p \in Players : playerNonces'[p] >= playerNonces[p]
      BY <1>u DEF ManagerTypeOK
    <3>2. /\ QuestConsistent(i) /\ quests'[i] = quests[i] /\ i \in QuestIds
          /\ playerNonces' \in [Players -> Nat]
          /\ (i = 0 \/ i >= nextQuestId) <=> (i = 0 \/ i >= nextQuestId')
      BY <1>u, <1>a DEF ManagerTypeOK
    <3>3. quests[i].status \in {"Completed", "Claimable"}
             => proofHashToQuestId'[quests[i].proofHash] = i
      BY <1>u, <3>2 DEF QuestConsistent
    <3> HIDE DEF QuestInv
    <3> QED BY <3>1, <3>2, <3>3, QuestConsistentFrame
  <2>2. QuestConsistent(q)'
    BY <1>f, <1>u DEF QuestConsistent
  <2>3. NonceIdentifiesQuest'
    BY <1>a, <1>f, NonceFrame
  <2> QED BY <2>1, <2>2, <2>3
<1>5. ReservationFollowsQuest'
  <2>1. ReservationMatches(q)'
    <3>1. \A t \in FundsOf(q)' : questFunds'[t][q].state = "Refunded"
      BY RefundFacts DEF ReservationFollowsQuest, ReservationMatches, EmptyFund
    <3>2. /\ \A t1, t2 \in FundsOf(q)' : t1 = t2
          /\ FundsOf(q)' # {}
      BY RefundFacts DEF ReservationFollowsQuest, ReservationMatches
    <3> QED BY <1>f, <3>1, <3>2 DEF ReservationMatches
  <2> QED BY <1>a, <2>1, RefundFacts, ReservationStep
<1> QED BY <1>1, <1>2, <1>3, <1>4, <1>5 DEF IInv, TypeOK, TreasuryInv

LEMMA CancelQuestKeepsIInv ==
  ASSUME IInv, NEW sender \in Players, NEW q \in QuestIds, CancelQuest(sender, q)
  PROVE  IInv'
<1>1. quests[q] \in Quest /\ QuestConsistent(q) /\ quests[q].status = "Accepted"
  BY IInvParts, QuestFields DEF CancelQuest, QuestInv
<1>2. quests[q].proofHash = NoProof /\ quests[q].proofVerificationHash = NoHash
  BY <1>1 DEF QuestConsistent
<1>3. quests' = [quests EXCEPT ![q] = [quests[q] EXCEPT !.status = "Cancelled",
                                          !.proofHash = NoProof,
                                          !.proofVerificationHash = NoHash]]
  <2>1. [quests[q] EXCEPT !.status = "Cancelled"]
          = [quests[q] EXCEPT !.status = "Cancelled", !.proofHash = NoProof,
                              !.proofVerificationHash = NoHash]
    BY <1>1, <1>2 DEF Quest
  <2> QED BY <2>1 DEF CancelQuest
<1> QED BY <1>1, <1>3, RefundingCallKeepsIInv DEF CancelQuest

\* A verdict for success changes the status only.
LEMMA CompleteQuestKeepsIInv ==
  ASSUME IInv, NEW q \in QuestIds, quests[q].status = "Completed",
         CompleteQuest(q), QuestOnlyUnchanged
  PROVE  IInv'
<1> USE ManagerAssumption, AccountsAssumption, IInvParts DEF QuestInv
<1>1. TreasuryInv'
  BY DEF CompleteQuest, treasuryVars, TreasuryInv, TreasuryTypeOK, Solvent, isSolvent,
         obligations, FundMatchesState
<1>2. ReputationTypeOK'
  BY DEF QuestOnlyUnchanged, reputationVars, ReputationTypeOK
<1>u. UNCHANGED <<nextQuestId, playerNonces, proofHashToQuestId, managerBalance, rewardClaims,
                  treasury, managerPaused, rewardSystemHealthy, verifiers, questFunds>>
  BY DEF CompleteQuest, treasuryVars, QuestOnlyUnchanged, AdminUnchanged
<1>a. /\ quests'[q] = [quests[q] EXCEPT !.status = "Claimable"]
      /\ \A i \in QuestIds \ {q} : quests'[i] = quests[i]
      /\ quests' \in [QuestIds -> Quest]
  <2>1. [quests[q] EXCEPT !.status = "Claimable"] \in Quest
    <3>1. quests[q] \in Quest
      BY DEF ManagerTypeOK
    <3> HIDE ManagerAssumption, AccountsAssumption
    <3> QED BY ONLY <3>1 DEF Quest, QuestStatus
  <2> QED BY <2>1 DEF CompleteQuest, ManagerTypeOK
<1>f. /\ quests'[q].status = "Claimable"
      /\ quests'[q].player = quests[q].player
      /\ quests'[q].playerNonce = quests[q].playerNonce
      /\ quests'[q].rewardAmount = quests[q].rewardAmount
      /\ quests'[q].creator = quests[q].creator
      /\ quests'[q].proofHash = quests[q].proofHash
      /\ quests'[q].proofVerificationHash = quests[q].proofVerificationHash
  BY <1>a, QuestFields DEF Quest
<1>3. ManagerTypeOK'
  BY <1>a, <1>u DEF ManagerTypeOK
<1>4. QuestInv'
  <2>1. ASSUME NEW i \in QuestIds \ {q} PROVE QuestConsistent(i)'
    <3>1. \A p \in Players : playerNonces'[p] >= playerNonces[p]
      BY <1>u DEF ManagerTypeOK
    <3>2. quests[i].status \in {"Completed", "Claimable"}
             => proofHashToQuestId'[quests[i].proofHash] = i
      BY <1>u DEF QuestConsistent
    <3>3. playerNonces' \in [Players -> Nat]
      BY <1>u DEF ManagerTypeOK
    <3> QED BY <1>u, <1>a, <3>1, <3>2, <3>3, QuestConsistentFrame
  <2>2. QuestConsistent(q)'
    BY <1>f, <1>u DEF QuestConsistent
  <2>3. NonceIdentifiesQuest'
    BY <1>a, <1>f, NonceFrame
  <2> QED BY <2>1, <2>2, <2>3
<1>5. ReservationFollowsQuest'
  BY <1>a, <1>f, <1>u, ReservationFrame
<1> QED BY <1>1, <1>2, <1>3, <1>4, <1>5 DEF IInv, TypeOK, TreasuryInv

LEMMA VerifyQuestKeepsIInv ==
  ASSUME IInv, NEW sender \in Verifiers, NEW q \in QuestIds, NEW success \in BOOLEAN,
         NEW hash, VerifyQuest(sender, q, success, hash)
  PROVE  IInv'
<1>1. quests[q].status = "Completed" /\ QuestOnlyUnchanged
  BY DEF VerifyQuest
<1>2. CASE success
  BY <1>1, <1>2, CompleteQuestKeepsIInv DEF VerifyQuest
<1>3. CASE ~success
  <2>1. FailQuest(q)
    BY <1>3 DEF VerifyQuest
  <2>2. quests[q] \in Quest /\ quests \in [QuestIds -> Quest]
    BY IInvParts DEF ManagerTypeOK
  <2>3. quests' = [quests EXCEPT ![q] = [quests[q] EXCEPT !.status = "Accepted",
                                            !.proofHash = NoProof,
                                            !.proofVerificationHash = NoHash]]
    BY <2>1, <2>2 DEF FailQuest
  <2> QED BY <1>1, <2>1, <2>3, RefundingCallKeepsIInv DEF FailQuest
<1> QED BY <1>2, <1>3

\* Calls that change neither a quest nor a reservation.
LEMMA QuestsUntouchedKeepsIInv ==
  ASSUME IInv, TreasuryInv', ReputationTypeOK', ManagerTypeOK',
         UNCHANGED <<quests, questFunds, nextQuestId, playerNonces, proofHashToQuestId>>
  PROVE  IInv'
<1>1. QuestInv'
  BY IInvParts DEF QuestInv, QuestConsistent, NonceIdentifiesQuest
<1>2. ReservationFollowsQuest'
  BY IInvParts DEF ReservationFollowsQuest, ReservationMatches, FundsOf
<1> QED BY <1>1, <1>2 DEF IInv, TypeOK, TreasuryInv, QuestInv

LEMMA ClaimRewardKeepsIInv ==
  ASSUME IInv, NEW q \in QuestIds, ClaimReward(q)
  PROVE  IInv'
<1>1. TreasuryInv'
  BY IInvParts DEF ClaimReward, treasuryVars, TreasuryInv, TreasuryTypeOK, Solvent, isSolvent,
         obligations, FundMatchesState
<1>2. ReputationTypeOK'
  BY IInvParts DEF ClaimReward, reputationVars, ReputationTypeOK
<1>3. ManagerTypeOK'
  <2>1. managerBalance' \in Nat
    BY IInvParts, ManagerAssumption DEF ClaimReward, ManagerTypeOK
  <2>2. rewardClaims' \in [QuestIds -> Nat]
    BY IInvParts DEF ClaimReward, ManagerTypeOK
  <2> QED BY <2>1, <2>2, IInvParts DEF ClaimReward, AdminUnchanged, ManagerTypeOK
<1> QED BY <1>1, <1>2, <1>3, QuestsUntouchedKeepsIInv DEF ClaimReward, treasuryVars

LEMMA OwnerCallKeepsIInv ==
  ASSUME IInv, OwnerCall
  PROVE  IInv'
<1>0. QuestsUnchanged
  BY DEF OwnerCall, SetTreasury, GrantVerifier, RevokeVerifier, SetRewardSystemHealthy,
         SetManagerPaused
<1>1. TreasuryInv'
  BY <1>0, IInvParts DEF QuestsUnchanged, treasuryVars, TreasuryInv, TreasuryTypeOK, Solvent,
         isSolvent, obligations, FundMatchesState
<1>2. ReputationTypeOK'
  BY <1>0, IInvParts DEF QuestsUnchanged, reputationVars, ReputationTypeOK
<1>3. ManagerTypeOK'
  <2>1. /\ treasury' \in Treasuries
        /\ managerPaused' \in BOOLEAN
        /\ rewardSystemHealthy' \in BOOLEAN
        /\ verifiers' \in SUBSET Verifiers
    BY IInvParts DEF OwnerCall, SetTreasury, GrantVerifier, RevokeVerifier,
       SetRewardSystemHealthy, SetManagerPaused, ManagerTypeOK
  <2> QED BY <1>0, <2>1, IInvParts DEF QuestsUnchanged, ManagerTypeOK
<1> QED BY <1>0, <1>1, <1>2, <1>3, QuestsUntouchedKeepsIInv DEF QuestsUnchanged, treasuryVars

LEMMA OtherContractsKeepsIInv ==
  ASSUME IInv, OtherContracts
  PROVE  IInv'
<1>1. ASSUME NEW t \in Treasuries, TreasuryAdmin(t),
             UNCHANGED <<reputationVars, managerVars>>
      PROVE  IInv'
  <2>1. TreasuryInv'
    BY <1>1, IInvParts, TreasuryAdminKeepsInv
  <2>2. UNCHANGED questFunds
    BY <1>1 DEF TreasuryAdmin, FundNativeRewardPool, Receive, EmergencyWithdrawNative,
       SetPayoutCaps, GrantQuestManager, PauseTreasury, UnpauseTreasury, RevokeQuestManager,
       BooksUnchanged
  <2>3. ReputationTypeOK' /\ ManagerTypeOK'
    BY <1>1, IInvParts DEF reputationVars, managerVars, ReputationTypeOK, ManagerTypeOK
  <2> QED BY <1>1, <2>1, <2>2, <2>3, QuestsUntouchedKeepsIInv DEF managerVars
<1>2. ASSUME UNCHANGED <<treasuryVars, managerVars>>, ReputationTypeOK'
      PROVE  IInv'
  <2>1. TreasuryInv'
    BY <1>2, IInvParts DEF treasuryVars, TreasuryInv, TreasuryTypeOK, Solvent, isSolvent,
           obligations, FundMatchesState
  <2>2. ManagerTypeOK'
    BY <1>2, IInvParts DEF managerVars, ManagerTypeOK
  <2> QED BY <1>2, <2>1, <2>2, QuestsUntouchedKeepsIInv DEF managerVars, treasuryVars
<1>3. ASSUME NEW paused \in BOOLEAN, SetReputationPaused(paused)
      PROVE  ReputationTypeOK'
  BY <1>3, IInvParts DEF SetReputationPaused, ReputationTypeOK
<1>4. ASSUME Tick PROVE ReputationTypeOK'
  BY <1>4, IInvParts DEF Tick, ReputationTypeOK
<1> QED BY <1>1, <1>2, <1>3, <1>4 DEF OtherContracts

-----------------------------------------------------------------------------
(* The invariant and its consequences *)

LEMMA NextIInv == IInv /\ [Next]_vars => IInv'
<1> SUFFICES ASSUME IInv, [Next]_vars PROVE IInv'
  OBVIOUS
<1> USE TreasuryAssumption, ManagerAssumption
<1>1. CASE UNCHANGED vars
  <2>1. UNCHANGED <<treasuryVars, reputationVars, managerVars>>
    BY <1>1 DEF vars
  <2>2. TreasuryInv'
    BY <2>1, IInvParts DEF treasuryVars, TreasuryInv, TreasuryTypeOK, Solvent, isSolvent,
           obligations, FundMatchesState
  <2>3. ReputationTypeOK' /\ ManagerTypeOK'
    BY <2>1, IInvParts DEF reputationVars, managerVars, ReputationTypeOK, ManagerTypeOK
  <2> QED BY <2>1, <2>2, <2>3, QuestsUntouchedKeepsIInv DEF managerVars, treasuryVars
<1>2. CASE PlayerCall
  BY <1>2, CreateQuestKeepsIInv, CreateAndAcceptQuestKeepsIInv, AcceptQuestKeepsIInv,
     SubmitQuestKeepsIInv, CancelQuestKeepsIInv DEF PlayerCall
<1>3. CASE VerifierCall
  BY <1>3, VerifyQuestKeepsIInv DEF VerifierCall
<1>4. CASE \E q \in QuestIds : ClaimReward(q)
  BY <1>4, ClaimRewardKeepsIInv
<1>5. CASE OwnerCall
  BY <1>5, OwnerCallKeepsIInv
<1>6. CASE OtherContracts
  BY <1>6, OtherContractsKeepsIInv
<1> QED BY <1>1, <1>2, <1>3, <1>4, <1>5, <1>6 DEF Next

\* The invariant holds in every reachable state.
THEOREM InvariantHolds == Spec => []IInv
BY InitIInv, NextIInv, PTL DEF Spec

\* Every variable of the three contracts keeps its type.
THEOREM TypeCorrect == Spec => []TypeOK
<1>1. IInv => TypeOK
  BY DEF IInv
<1> QED BY <1>1, InvariantHolds, PTL

\* The treasuries stay solvent under the manager's calls and their owners'.
THEOREM ManagedTreasuriesSolvent == Spec => []Solvent
<1>1. IInv => Solvent
  BY DEF IInv
<1> QED BY <1>1, InvariantHolds, PTL

\* However many treasuries the owner switches between, quest and reservation
\* agree.
THEOREM ReservationsFollowQuests == Spec => []ReservationFollowsQuest
<1>1. IInv => ReservationFollowsQuest
  BY DEF IInv
<1> QED BY <1>1, InvariantHolds, PTL

\* No two quests of a player were accepted with the same nonce.
THEOREM NoncesIdentifyQuests == Spec => []NonceIdentifiesQuest
<1>1. IInv => NonceIdentifiesQuest
  BY DEF IInv
<1> QED BY <1>1, InvariantHolds, PTL

\* No two quests hold the same proof.
THEOREM ProofsBelongToOneQuest == Spec => []ProofBelongsToOneQuest
<1>1. IInv => ProofBelongsToOneQuest
  <2> SUFFICES ASSUME IInv, NEW q1 \in QuestIds, NEW q2 \in QuestIds, q1 # q2,
                      quests[q1].proofHash # NoProof
               PROVE  quests[q1].proofHash # quests[q2].proofHash
    BY DEF ProofBelongsToOneQuest
  <2>1. QuestConsistent(q1) /\ QuestConsistent(q2)
    BY DEF IInv
  <2> QED BY <2>1 DEF QuestConsistent
<1> QED BY <1>1, InvariantHolds, PTL

\* No verdict fits two submissions: the nonce in the hash tells the quests of
\* one player apart.
THEOREM VerificationHashesUnique == Spec => []VerificationHashUnique
<1>1. IInv => VerificationHashUnique
  <2> SUFFICES ASSUME IInv, NEW q1 \in QuestIds, NEW q2 \in QuestIds, q1 # q2,
                      quests[q1].proofVerificationHash # NoHash
               PROVE  quests[q1].proofVerificationHash # quests[q2].proofVerificationHash
    BY DEF VerificationHashUnique
  <2>1. QuestConsistent(q1) /\ QuestConsistent(q2)
    BY DEF IInv
  <2>2. quests[q1].proofVerificationHash
          = <<quests[q1].player, quests[q1].proofHash, quests[q1].playerNonce>>
    BY <2>1 DEF QuestConsistent
  <2>3. quests[q2].proofVerificationHash \in
          {NoHash, <<quests[q2].player, quests[q2].proofHash, quests[q2].playerNonce>>}
    BY <2>1 DEF QuestConsistent
  <2>4. quests[q1].proofHash # quests[q2].proofHash \/ quests[q2].proofHash = NoProof
    BY <2>1 DEF QuestConsistent
  <2>5. quests[q1].proofHash # NoProof
    BY <2>1, <2>2, ManagerAssumption DEF QuestConsistent
  <2> QED BY <2>2, <2>3, <2>4, <2>5
<1> QED BY <1>1, InvariantHolds, PTL

-----------------------------------------------------------------------------
(* What a step may do to quests and reservations *)

TermsKept(q) ==
    LET old == quests[q]
        new == quests'[q]
    IN /\ old.status # new.status => <<old.status, new.status>> \in LifecycleEdges
       /\ old.status # "None" => /\ new.rewardAmount = old.rewardAmount
                                 /\ new.expiresAt = old.expiresAt
                                 /\ new.creator = old.creator
       /\ old.player # NoPlayer => new.player = old.player

ClosedByItsQuest(t, q) ==
    (questFunds[t][q].state = "Reserved" /\ questFunds'[t][q].state # "Reserved")
        => /\ quests[q].status \in {"Accepted", "Completed"}
           /\ quests'[q].status \in {"Accepted", "Cancelled"}
           /\ quests'[q].status # quests[q].status

StepKeepsBooks ==
    /\ \A q \in QuestIds : TermsKept(q)
    /\ \A t \in Treasuries, q \in QuestIds : ClosedByItsQuest(t, q)

LEMMA NothingMoved ==
  ASSUME UNCHANGED <<quests, questFunds>>
  PROVE  StepKeepsBooks
BY DEF StepKeepsBooks, TermsKept, ClosedByItsQuest

\* One quest changes and no reservation is closed.
LEMMA OneQuestMoved ==
  ASSUME ManagerTypeOK, NEW q \in QuestIds, NEW new,
         quests' = [quests EXCEPT ![q] = new], TermsKept(q),
         \A t \in Treasuries, i \in QuestIds :
            questFunds[t][i].state = "Reserved" => questFunds'[t][i].state = "Reserved"
  PROVE  StepKeepsBooks
<1>1. \A i \in QuestIds \ {q} : quests'[i] = quests[i]
  BY DEF ManagerTypeOK
<1> QED BY <1>1 DEF StepKeepsBooks, TermsKept, ClosedByItsQuest

\* A creation takes the next unused id and adds a reservation.
LEMMA CreationKeepsBooks ==
  ASSUME IInv, NEW sender \in Players, NEW rewardAmount \in Amounts, NEW duration \in Durations,
         Creation(sender, rewardAmount, duration), NEW new,
         quests' = [quests EXCEPT ![nextQuestId] = new],
         new.status \in {"Available", "Accepted"}
  PROVE  StepKeepsBooks
<1> USE ManagerAssumption
<1>1. ManagerTypeOK /\ TreasuryTypeOK /\ nextQuestId \in QuestIds
  BY IInvParts DEF TreasuryInv, Creation, ManagerTypeOK
<1>2. quests[nextQuestId].status = "None" /\ quests[nextQuestId].player = NoPlayer
  BY <1>1, IInvParts DEF QuestInv, QuestConsistent, ManagerTypeOK
<1>3. quests'[nextQuestId] = new
  BY <1>1 DEF ManagerTypeOK
<1>4. TermsKept(nextQuestId)
  BY <1>2, <1>3 DEF TermsKept, LifecycleEdges
<1>5. ASSUME NEW t \in Treasuries, NEW i \in QuestIds, questFunds[t][i].state = "Reserved"
      PROVE  questFunds'[t][i].state = "Reserved"
  BY <1>1, <1>5 DEF Creation, ReserveReward, TreasuryTypeOK
<1> QED BY <1>1, <1>4, <1>5, OneQuestMoved

\* Acceptance and submission move a quest along, with its terms.
LEMMA PlayerStepKeepsBooks ==
  ASSUME IInv, NEW sender \in Players, NEW q \in QuestIds,
         \/ AcceptQuest(sender, q)
         \/ \E proofHash \in Proofs : SubmitQuest(sender, q, proofHash)
  PROVE  StepKeepsBooks
<1>1. ManagerTypeOK /\ QuestConsistent(q) /\ quests[q] \in Quest
  BY IInvParts DEF QuestInv, ManagerTypeOK
<1>2. UNCHANGED questFunds
  BY DEF AcceptQuest, BooksUnchanged, SubmitQuest, treasuryVars
<1>3. CASE AcceptQuest(sender, q)
  <2> DEFINE new == AcceptedBy(quests[q], sender)
  <2>1. quests' = [quests EXCEPT ![q] = new] /\ quests'[q] = new
    BY <1>1, <1>3 DEF AcceptQuest, ManagerTypeOK
  <2>2. quests[q].status = "Available" /\ quests[q].player = NoPlayer
    BY <1>3 DEF AcceptQuest, CanAccept
  <2>3. /\ new.status = "Accepted" /\ new.rewardAmount = quests[q].rewardAmount
        /\ new.expiresAt = quests[q].expiresAt /\ new.creator = quests[q].creator
    BY <1>1 DEF AcceptedBy, Quest
  <2> HIDE DEF new
  <2>4. TermsKept(q)
    BY <2>1, <2>2, <2>3 DEF TermsKept, LifecycleEdges
  <2> QED BY <1>1, <1>2, <2>1, <2>4, OneQuestMoved
<1>4. ASSUME NEW proofHash \in Proofs, SubmitQuest(sender, q, proofHash) PROVE StepKeepsBooks
  <2> DEFINE new == [quests[q] EXCEPT !.status = "Completed", !.proofHash = proofHash,
                       !.proofVerificationHash = <<sender, proofHash, quests[q].playerNonce>>]
  <2>1. quests' = [quests EXCEPT ![q] = new] /\ quests'[q] = new
    BY <1>1, <1>4 DEF SubmitQuest, ManagerTypeOK
  <2>2. /\ new.status = "Completed" /\ new.rewardAmount = quests[q].rewardAmount
        /\ new.expiresAt = quests[q].expiresAt /\ new.creator = quests[q].creator
        /\ new.player = quests[q].player /\ quests[q].status = "Accepted"
    BY <1>1, <1>4 DEF SubmitQuest, Quest
  <2> HIDE DEF new
  <2>3. TermsKept(q)
    BY <2>1, <2>2 DEF TermsKept, LifecycleEdges
  <2> QED BY <1>1, <1>2, <2>1, <2>3, OneQuestMoved
<1> QED BY <1>3, <1>4

\* A verdict or a cancellation closes the reservation of its quest only.
LEMMA SettlementKeepsBooks ==
  ASSUME IInv, NEW q \in QuestIds, NEW new,
         quests' = [quests EXCEPT ![q] = new],
         new.rewardAmount = quests[q].rewardAmount, new.expiresAt = quests[q].expiresAt,
         new.creator = quests[q].creator, new.player = quests[q].player,
         \/ quests[q].status = "Completed" /\ new.status = "Claimable"
               /\ UNCHANGED questFunds
         \/ quests[q].status = "Completed" /\ new.status = "Accepted" /\ Refund(q)
         \/ quests[q].status = "Accepted" /\ new.status = "Cancelled" /\ Refund(q)
  PROVE  StepKeepsBooks
<1>1. ManagerTypeOK /\ TreasuryTypeOK
  BY IInvParts DEF TreasuryInv
<1>2. quests'[q] = new /\ \A i \in QuestIds \ {q} : quests'[i] = quests[i]
  BY <1>1 DEF ManagerTypeOK
<1>3. TermsKept(q)
  BY <1>2 DEF TermsKept, LifecycleEdges
<1>4. CASE UNCHANGED questFunds
  BY <1>1, <1>3, <1>4, OneQuestMoved
<1>5. CASE Refund(q) /\ new.status \in {"Accepted", "Cancelled"} /\ quests[q].status # new.status
                     /\ quests[q].status \in {"Accepted", "Completed"}
  <2>1. \A t \in Treasuries, i \in QuestIds \ {q} : questFunds'[t][i] = questFunds[t][i]
    BY <1>1, <1>5 DEF Refund, RefundQuest, CloseFund, TreasuryTypeOK
  <2> QED BY <1>2, <1>3, <1>5, <2>1 DEF StepKeepsBooks, TermsKept, ClosedByItsQuest
<1> QED BY <1>4, <1>5

LEMMA NextKeepsBooks == IInv /\ [Next]_vars => StepKeepsBooks
<1> SUFFICES ASSUME IInv, [Next]_vars PROVE StepKeepsBooks
  OBVIOUS
<1>0. ManagerTypeOK /\ quests \in [QuestIds -> Quest]
  BY IInvParts DEF ManagerTypeOK
<1>1. CASE UNCHANGED <<quests, questFunds>>
  BY <1>1, NothingMoved
<1>2. ASSUME NEW sender \in Players, NEW rewardAmount \in Amounts, NEW duration \in Durations,
             \/ \E value \in CreateValues : CreateQuest(sender, rewardAmount, duration, value)
             \/ CreateAndAcceptQuest(sender, rewardAmount, duration)
      PROVE  StepKeepsBooks
  <2> DEFINE made == NewQuest(sender, rewardAmount, duration)
  <2>1. made.status = "Available" /\ AcceptedBy(made, sender).status = "Accepted"
    BY DEF NewQuest, NoQuest, AcceptedBy
  <2>2. Creation(sender, rewardAmount, duration)
    BY <1>2 DEF CreateQuest, CreateAndAcceptQuest
  <2>3. \/ quests' = [quests EXCEPT ![nextQuestId] = made]
        \/ quests' = [quests EXCEPT ![nextQuestId] = AcceptedBy(made, sender)]
    BY <1>2 DEF CreateQuest, CreateAndAcceptQuest
  <2> HIDE DEF made
  <2> QED BY <2>1, <2>2, <2>3, CreationKeepsBooks
<1>3. ASSUME NEW sender \in Players, NEW q \in QuestIds, CancelQuest(sender, q)
      PROVE  StepKeepsBooks
  <2> DEFINE new == [quests[q] EXCEPT !.status = "Cancelled"]
  <2>1. quests' = [quests EXCEPT ![q] = new] /\ Refund(q) /\ quests[q].status = "Accepted"
    BY <1>3 DEF CancelQuest
  <2>2. /\ new.status = "Cancelled" /\ new.rewardAmount = quests[q].rewardAmount
        /\ new.expiresAt = quests[q].expiresAt /\ new.creator = quests[q].creator
        /\ new.player = quests[q].player
    BY <1>0 DEF Quest
  <2> HIDE DEF new
  <2> QED BY <2>1, <2>2, SettlementKeepsBooks
<1>4. ASSUME NEW sender, NEW q \in QuestIds, NEW success \in BOOLEAN, NEW hash,
             VerifyQuest(sender, q, success, hash)
      PROVE  StepKeepsBooks
  <2>1. quests[q].status = "Completed"
    BY <1>4 DEF VerifyQuest
  <2>2. CASE success
    <3> DEFINE new == [quests[q] EXCEPT !.status = "Claimable"]
    <3>1. quests' = [quests EXCEPT ![q] = new] /\ UNCHANGED questFunds
      BY <1>4, <2>2 DEF VerifyQuest, CompleteQuest, treasuryVars
    <3>2. /\ new.status = "Claimable" /\ new.rewardAmount = quests[q].rewardAmount
          /\ new.expiresAt = quests[q].expiresAt /\ new.creator = quests[q].creator
          /\ new.player = quests[q].player
      BY <1>0 DEF Quest
    <3> HIDE DEF new
    <3> QED BY <2>1, <3>1, <3>2, SettlementKeepsBooks
  <2>3. CASE ~success
    <3> DEFINE new == [quests[q] EXCEPT !.status = "Accepted", !.proofHash = NoProof,
                                        !.proofVerificationHash = NoHash]
    <3>1. Refund(q) /\ quests' = [quests EXCEPT ![q].status = "Accepted",
                                                ![q].proofHash = NoProof,
                                                ![q].proofVerificationHash = NoHash]
      BY <1>4, <2>3 DEF VerifyQuest, FailQuest
    <3>2. quests' = [quests EXCEPT ![q] = new]
      BY <1>0, <3>1 DEF Quest
    <3>3. /\ new.status = "Accepted" /\ new.rewardAmount = quests[q].rewardAmount
          /\ new.expiresAt = quests[q].expiresAt /\ new.creator = quests[q].creator
          /\ new.player = quests[q].player
      BY <1>0 DEF Quest
    <3> HIDE DEF new
    <3> QED BY <2>1, <3>1, <3>2, <3>3, SettlementKeepsBooks
  <2> QED BY <2>2, <2>3
<1>5. CASE PlayerCall
  BY <1>2, <1>3, <1>5, PlayerStepKeepsBooks DEF PlayerCall
<1>6. CASE VerifierCall
  BY <1>4, <1>6 DEF VerifierCall
<1>7. CASE \E q \in QuestIds : ClaimReward(q)
  BY <1>1, <1>7 DEF ClaimReward, treasuryVars
<1>8. CASE OwnerCall
  BY <1>1, <1>8 DEF OwnerCall, SetTreasury, GrantVerifier, RevokeVerifier,
                    SetRewardSystemHealthy, SetManagerPaused, QuestsUnchanged, treasuryVars
<1>9. CASE OtherContracts
  <2>1. ASSUME NEW t \in Treasuries, TreasuryAdmin(t) PROVE UNCHANGED questFunds
    BY <2>1
    DEF TreasuryAdmin, FundNativeRewardPool, Receive, EmergencyWithdrawNative, SetPayoutCaps,
        GrantQuestManager, RevokeQuestManager, PauseTreasury, UnpauseTreasury, BooksUnchanged
  <2> QED BY <1>1, <1>9, <2>1 DEF OtherContracts, managerVars, treasuryVars
<1>10. CASE UNCHANGED vars
  BY <1>1, <1>10 DEF vars, treasuryVars, managerVars
<1> QED BY <1>5, <1>6, <1>7, <1>8, <1>9, <1>10 DEF Next

\* Whoever calls, a quest moves along its life cycle only and keeps its terms
\* and its player.
THEOREM TermsAreFixed == Spec => QuestTermsAreFixed
<1>1. IInv /\ [Next]_vars =>
        [\A q \in QuestIds :
          LET old == quests[q]
              new == quests'[q]
          IN /\ old.status # new.status => <<old.status, new.status>> \in LifecycleEdges
             /\ old.status # "None" => /\ new.rewardAmount = old.rewardAmount
                                       /\ new.expiresAt = old.expiresAt
                                       /\ new.creator = old.creator
             /\ old.player # NoPlayer => new.player = old.player]_vars
  BY NextKeepsBooks DEF StepKeepsBooks, TermsKept
<1> QED BY <1>1, InvariantHolds, PTL DEF Spec, QuestTermsAreFixed

\* However many treasuries the owner switches between, a reservation is closed
\* only by the failed verdict or the cancellation of its own quest.
THEOREM ReservationsClosedByQuests == Spec => ReservationClosedByItsQuest
<1>1. IInv /\ [Next]_vars =>
        [\A t \in Treasuries, q \in QuestIds :
          (questFunds[t][q].state = "Reserved" /\ questFunds'[t][q].state # "Reserved")
              => /\ quests[q].status \in {"Accepted", "Completed"}
                 /\ quests'[q].status \in {"Accepted", "Cancelled"}
                 /\ quests'[q].status # quests[q].status]_vars
  BY NextKeepsBooks DEF StepKeepsBooks, ClosedByItsQuest
<1> QED BY <1>1, InvariantHolds, PTL DEF Spec, ReservationClosedByItsQuest

-----------------------------------------------------------------------------
(* The treasuries under the manager's calls *)

LEMMA CreationIsEscrowStep ==
  ASSUME IInv, BooksAddUp,
         NEW sender \in Players, NEW a \in Amounts, NEW d \in Nat,
         Creation(sender, a, d), PayFee \/ UNCHANGED balance
  PROVE  EscrowStep /\ BooksAddUp'
<1>1. TreasuryInv /\ balance \in [Treasuries -> Nat] /\ a \in Nat /\ AcceptanceFee \in Nat
  BY IInvParts, ManagerAssumption, TreasuryAssumption DEF TreasuryInv, TreasuryTypeOK
<1>2. /\ nextQuestId \in QuestIds /\ treasury \in Treasuries /\ Manager \in Callers
      /\ ReserveReward(treasury, Manager, nextQuestId, sender, a)
  BY IInvParts, ManagerAssumption DEF Creation, ManagerTypeOK
<1>3. /\ balance'[treasury] >= balance[treasury]
      /\ \A u \in Treasuries \ {treasury} : balance'[u] = balance[u]
  BY <1>1, <1>2 DEF PayFee, ReceiveNative
<1> QED BY <1>1, <1>2, <1>3, ReservationIsEscrowStep, ReservationAddsUp

\* The acceptance fee is a deposit.
LEMMA AcceptanceIsEscrowStep ==
  ASSUME IInv, BooksAddUp, NEW sender \in Players, NEW q \in QuestIds, AcceptQuest(sender, q)
  PROVE  EscrowStep /\ BooksAddUp'
<1>1. TreasuryInv /\ BooksUnchanged /\ PayFee
  BY IInvParts DEF AcceptQuest
<1>2. ASSUME NEW u \in Treasuries
      PROVE  balance'[u] \in Nat /\ balance'[u] >= totalReservedRewards[u]
  <2>1. balance'[u] \in Nat /\ balance'[u] >= balance[u]
    BY <1>1, FeeFacts
  <2>2. /\ balance[u] \in Nat /\ totalReservedRewards[u] \in Nat
        /\ balance[u] >= totalReservedRewards[u]
    BY <1>1 DEF TreasuryInv, TreasuryTypeOK, Solvent, isSolvent, obligations
  <2> QED BY <2>1, <2>2
<1> QED BY <1>1, <1>2, MoneyMoves, BooksUnchangedAddUp DEF EscrowStep

\* A failed verdict and a cancellation release what was held for the quest.
LEMMA RefundIsEscrowStep ==
  ASSUME IInv, BooksAddUp, NEW q \in QuestIds, Refund(q)
  PROVE  EscrowStep /\ BooksAddUp'
<1> DEFINE a == quests[q].rewardAmount
<1>1. TreasuryInv /\ treasury \in Treasuries /\ Manager \in Callers /\ a \in Nat
  BY IInvParts, QuestFields, ManagerAssumption DEF ManagerTypeOK
<1>2. RefundQuest(treasury, Manager, q, a)
  BY DEF Refund
<1> HIDE DEF a
<1> QED BY <1>1, <1>2, ClosingIsEscrowStep, ClosingAddsUp DEF RefundQuest

LEMMA TreasuriesAtRest ==
  ASSUME BooksAddUp, UNCHANGED treasuryVars
  PROVE  EscrowStep /\ BooksAddUp'
BY EscrowStutters, BooksUnchangedAddUp DEF treasuryVars, BooksUnchanged, EscrowStep

LEMMA NextIsEscrowStep ==
  IInv /\ BooksAddUp /\ [Next]_vars => EscrowStep /\ BooksAddUp'
<1> SUFFICES ASSUME IInv, BooksAddUp, [Next]_vars PROVE EscrowStep /\ BooksAddUp'
  OBVIOUS
<1>1. CASE PlayerCall
  <2>1. ASSUME NEW sender \in Players, NEW a \in Amounts, NEW d \in Durations,
               \/ \E value \in CreateValues : CreateQuest(sender, a, d, value)
               \/ CreateAndAcceptQuest(sender, a, d)
        PROVE  EscrowStep /\ BooksAddUp'
    <3>1. d \in Nat /\ Creation(sender, a, d) /\ (PayFee \/ UNCHANGED balance)
      BY <2>1, ManagerAssumption DEF CreateQuest, CreateAndAcceptQuest
    <3> QED BY <3>1, CreationIsEscrowStep
  <2>2. ASSUME NEW sender \in Players, NEW q \in QuestIds, CancelQuest(sender, q)
        PROVE  EscrowStep /\ BooksAddUp'
    BY <2>2, RefundIsEscrowStep DEF CancelQuest
  <2>3. ASSUME NEW sender \in Players, NEW q \in QuestIds, NEW proofHash \in Proofs,
               SubmitQuest(sender, q, proofHash)
        PROVE  EscrowStep /\ BooksAddUp'
    BY <2>3, TreasuriesAtRest DEF SubmitQuest
  <2> QED BY <1>1, <2>1, <2>2, <2>3, AcceptanceIsEscrowStep DEF PlayerCall
<1>2. CASE VerifierCall
  BY <1>2, RefundIsEscrowStep, TreasuriesAtRest
  DEF VerifierCall, VerifyQuest, CompleteQuest, FailQuest
<1>3. CASE \E q \in QuestIds : ClaimReward(q)
  BY <1>3, TreasuriesAtRest DEF ClaimReward
<1>4. CASE OwnerCall
  BY <1>4, TreasuriesAtRest
  DEF OwnerCall, SetTreasury, GrantVerifier, RevokeVerifier, SetRewardSystemHealthy,
      SetManagerPaused, QuestsUnchanged
<1>5. CASE OtherContracts
  BY <1>5, IInvParts, AdminCallIsEscrowStep, BooksUnchangedAddUp, TreasuriesAtRest
  DEF OtherContracts
<1>6. CASE UNCHANGED vars
  BY <1>6, TreasuriesAtRest DEF vars
<1> QED BY <1>1, <1>2, <1>3, <1>4, <1>5, <1>6 DEF Next

LEMMA ManagedBooksAddUp == Spec => [](IInv /\ BooksAddUp)
BY InitIInv, NextIInv, TreasuryInitAddsUp, NextIsEscrowStep, PTL DEF Spec, Init

\* Under the calls of the manager too, where the fee of an acceptance arrives in
\* the transaction that reserves the reward, each running total is the sum of the
\* open reservations of its treasury.
THEOREM ManagedTotalsAreSums == Spec => []TotalIsSumOfReservations
<1>1. BooksAddUp => TotalIsSumOfReservations
  BY ObligationIsSum DEF BooksAddUp, TotalIsSumOfReservations
<1> QED BY <1>1, ManagedBooksAddUp, PTL

\* However the calls of players, verifiers and owners interleave, and however
\* often the owner switches treasuries, every treasury implements the escrow.
THEOREM ManagedTreasuriesAreEscrows == Spec => ImplementsEscrow
<1>1. Spec => \A t \in Treasuries : Escrow(t)!EscrowInit
  BY EscrowStarts DEF Spec, Init
<1>2. IInv /\ BooksAddUp /\ [Next]_vars =>
        [\A t \in Treasuries :
            Escrow(t)!EscrowNext \/ UNCHANGED Escrow(t)!escrowVars]_treasuryVars
  BY NextIsEscrowStep DEF EscrowStep
<1> QED BY <1>1, <1>2, ManagedBooksAddUp, PTL DEF Spec, ImplementsEscrow

-----------------------------------------------------------------------------
(* The players' profiles under the manager's calls *)

LEMMA NextIsReputationStep == [Next]_vars => [ReputationNext]_reputationVars
<1> SUFFICES ASSUME [Next]_vars PROVE ReputationNext \/ UNCHANGED reputationVars
  OBVIOUS
<1>1. CASE PlayerCall
  <2>1. ASSUME NEW sender \in Players, NEW a \in Amounts, NEW d \in Durations,
               \/ \E value \in CreateValues : CreateQuest(sender, a, d, value)
               \/ CreateAndAcceptQuest(sender, a, d)
        PROVE  ReputationNext
    <3>1. InitializePlayer(sender) /\ UNCHANGED now
      BY <2>1 DEF CreateQuest, CreateAndAcceptQuest, Creation
    <3> QED BY <3>1 DEF ReputationNext
  <2>2. ASSUME NEW sender \in Players, NEW q \in QuestIds,
               \/ AcceptQuest(sender, q)
               \/ CancelQuest(sender, q)
               \/ \E proofHash \in Proofs : SubmitQuest(sender, q, proofHash)
        PROVE  UNCHANGED reputationVars
    BY <2>2 DEF AcceptQuest, CancelQuest, SubmitQuest, QuestOnlyUnchanged
  <2> QED BY <1>1, <2>1, <2>2 DEF PlayerCall
<1>2. CASE VerifierCall
  BY <1>2 DEF VerifierCall, VerifyQuest, QuestOnlyUnchanged
<1>3. CASE \E q \in QuestIds : ClaimReward(q)
  BY <1>3 DEF ClaimReward
<1>4. CASE OwnerCall
  BY <1>4 DEF OwnerCall, SetTreasury, GrantVerifier, RevokeVerifier, SetRewardSystemHealthy,
              SetManagerPaused, QuestsUnchanged
<1>5. CASE OtherContracts
  BY <1>5 DEF OtherContracts, ReputationNext
<1>6. CASE UNCHANGED vars
  BY <1>6 DEF vars
<1> QED BY <1>1, <1>2, <1>3, <1>4, <1>5, <1>6 DEF Next

\* The manager uses the reputation contract only as that contract allows.
THEOREM ManagerKeepsReputation == Spec => ReputationSpec
<1>1. Init => ReputationInit
  BY DEF Init
<1> QED BY <1>1, NextIsReputationStep, PTL DEF Spec, ReputationSpec

\* However many quests a player creates, and each creation initialises the player
\* again: experience, level and quest count are never lost.
THEOREM ManagedProgressKept == Spec => ProgressIsNeverLost
BY ManagerKeepsReputation, ProgressKept, PTL

-----------------------------------------------------------------------------
(* The behaviours of MCForgeQuestManager *)

\* Both instances behave as the contracts do, so that what is proved here holds of
\* what the run explores.
THEOREM InstancesBehave == InstancesSpec => Spec
<1>1. InstancesInit => Init
  BY DEF InstancesInit
<1>2. [InstancesNext]_<<vars, instance>> => [Next]_vars
  BY DEF InstancesNext
<1> QED BY <1>1, <1>2, PTL DEF InstancesSpec, Spec

=============================================================================
