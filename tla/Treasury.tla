------------------------------ MODULE Treasury ------------------------------
(***************************************************************************)
(* contracts/contracts/Treasury.sol: the contract that holds the native    *)
(* reward pool and reserves, pays and refunds the reward of each quest.    *)
(*                                                                         *)
(* Every external call is one atomic step: a call whose `require' fails    *)
(* reverts and changes nothing, so it is a step that is not taken.  All    *)
(* variables are functions of the deployed contract t, because the quest   *)
(* manager can be pointed from one treasury to another.                    *)
(*                                                                         *)
(* Owner, guardian and withdrawer are accounts that may act at any time;   *)
(* only QUEST_MANAGER_ROLE, which decides who may move quest funds, is     *)
(* kept as state.                                                          *)
(***************************************************************************)
EXTENDS Integers, FiniteSets, Accounts

CONSTANTS
    Treasuries,     \* deployed Treasury contracts
    Callers,        \* accounts that can hold QUEST_MANAGER_ROLE
    QuestIds,       \* quest identifiers, 0 being the invalid one
    Amounts,        \* amounts a call may carry
    CapChoices,     \* caps the owner may set
    InitialCap,     \* 0.5 ether, both caps of a new contract
    MaxBalance      \* bound: no deposit takes a balance beyond it

ASSUME TreasuryAssumption ==
    /\ QuestIds \subseteq Nat
    /\ Amounts \subseteq Nat
    /\ CapChoices \subseteq Nat
    /\ InitialCap \in Nat
    /\ MaxBalance \in Nat

VARIABLES
    balance,              \* balance[t]: native balance of the contract
    totalReservedRewards, \* totalReservedRewards[t]
    questFunds,           \* questFunds[t][questId]
    rewardReserveCap,     \* rewardReserveCap[t]
    payoutCap,            \* payoutCap[t]
    treasuryPaused,       \* treasuryPaused[t]: Pausable's flag
    questManagers         \* questManagers[t]: holders of QUEST_MANAGER_ROLE

treasuryVars == <<balance, totalReservedRewards, questFunds, rewardReserveCap,
                  payoutCap, treasuryPaused, questManagers>>

QuestFundState == {"None", "Reserved", "Paid", "Refunded"}

QuestFund == [reservedReward : Nat,
              player : Players \cup {NoPlayer},
              state : QuestFundState]

EmptyFund(state) == [reservedReward |-> 0, player |-> NoPlayer, state |-> state]

TreasuryTypeOK ==
    /\ balance \in [Treasuries -> Nat]
    /\ totalReservedRewards \in [Treasuries -> Nat]
    /\ questFunds \in [Treasuries -> [QuestIds -> QuestFund]]
    /\ rewardReserveCap \in [Treasuries -> Nat]
    /\ payoutCap \in [Treasuries -> Nat]
    /\ treasuryPaused \in [Treasuries -> BOOLEAN]
    /\ questManagers \in [Treasuries -> SUBSET Callers]

TreasuryInit ==
    /\ balance = [t \in Treasuries |-> 0]
    /\ totalReservedRewards = [t \in Treasuries |-> 0]
    /\ questFunds = [t \in Treasuries |-> [q \in QuestIds |-> EmptyFund("None")]]
    /\ rewardReserveCap = [t \in Treasuries |-> InitialCap]
    /\ payoutCap = [t \in Treasuries |-> InitialCap]
    /\ treasuryPaused = [t \in Treasuries |-> FALSE]
    /\ questManagers = [t \in Treasuries |-> {}]

-----------------------------------------------------------------------------
(* Views *)

obligations(t) == totalReservedRewards[t]

isSolvent(t) == balance[t] >= obligations(t)

\* Mutant: everything in the contract counts as available.
availableRewardLiquidityWhole(t) == balance[t]

availableRewardLiquidity(t) ==
    IF balance[t] <= obligations(t) THEN 0 ELSE balance[t] - obligations(t)

\* Mutant: the new reward alone is compared with the balance.
HasRewardLiquidityForgetsObligations(t, rewardAmount) == balance[t] >= rewardAmount

HasRewardLiquidity(t, rewardAmount) == balance[t] >= obligations(t) + rewardAmount

-----------------------------------------------------------------------------
(* Calls of the quest manager.  ReserveReward leaves the balance to the    *)
(* transaction it is part of: createAndAcceptQuest also pays a fee.        *)

ReserveReward(t, caller, questId, creator, rewardAmount) ==
    /\ caller \in questManagers[t]
    /\ ~treasuryPaused[t]
    /\ questId # 0
    /\ 0 < rewardAmount /\ rewardAmount <= rewardReserveCap[t]
    /\ questFunds[t][questId].state = "None"
    /\ HasRewardLiquidity(t, rewardAmount)
    /\ questFunds' = [questFunds EXCEPT ![t][questId] =
                        [reservedReward |-> rewardAmount,
                         player |-> creator,
                         state |-> "Reserved"]]
    /\ totalReservedRewards' = [totalReservedRewards EXCEPT ![t] = @ + rewardAmount]
    /\ UNCHANGED <<rewardReserveCap, payoutCap, treasuryPaused, questManagers>>

\* Mutant: any amount up to the reserved one closes the fund.
CloseFundPartial(t, questId, expectedRewardAmount, state) ==
    /\ questFunds[t][questId].state = "Reserved"
    /\ expectedRewardAmount <= questFunds[t][questId].reservedReward
    /\ totalReservedRewards' = [totalReservedRewards EXCEPT ![t] = @ - expectedRewardAmount]
    /\ questFunds' = [questFunds EXCEPT ![t][questId] = EmptyFund(state)]
    /\ UNCHANGED <<rewardReserveCap, payoutCap, treasuryPaused, questManagers>>

\* The reservation is closed; the checked subtraction reverts on underflow.
CloseFund(t, questId, expectedRewardAmount, state) ==
    /\ questFunds[t][questId].state = "Reserved"
    /\ questFunds[t][questId].reservedReward = expectedRewardAmount
    /\ totalReservedRewards[t] >= expectedRewardAmount
    /\ totalReservedRewards' = [totalReservedRewards EXCEPT ![t] = @ - expectedRewardAmount]
    /\ questFunds' = [questFunds EXCEPT ![t][questId] = EmptyFund(state)]
    /\ UNCHANGED <<rewardReserveCap, payoutCap, treasuryPaused, questManagers>>

SettleQuestPayout(t, caller, questId, player, expectedRewardAmount) ==
    /\ caller \in questManagers[t]
    /\ ~treasuryPaused[t]
    /\ questFunds[t][questId].player = player
    /\ expectedRewardAmount <= payoutCap[t]
    /\ isSolvent(t)
    /\ CloseFund(t, questId, expectedRewardAmount, "Paid")
    /\ balance[t] >= expectedRewardAmount
    /\ balance' = [balance EXCEPT ![t] = @ - expectedRewardAmount]

\* Works while the contract is paused, and moves no money.
RefundQuest(t, caller, questId, expectedRewardAmount) ==
    /\ caller \in questManagers[t]
    /\ CloseFund(t, questId, expectedRewardAmount, "Refunded")
    /\ UNCHANGED balance

-----------------------------------------------------------------------------
(* Calls of the owner, the guardian and the withdrawer, and plain deposits *)

ReceiveNative(t, amount) ==
    balance' = [balance EXCEPT ![t] = @ + amount]

BooksUnchanged == UNCHANGED <<totalReservedRewards, questFunds>>

FundNativeRewardPool(t, amount) ==
    /\ ~treasuryPaused[t]
    /\ amount > 0
    /\ balance[t] + amount <= MaxBalance
    /\ ReceiveNative(t, amount)
    /\ BooksUnchanged
    /\ UNCHANGED <<rewardReserveCap, payoutCap, treasuryPaused, questManagers>>

\* receive(): anyone may send native coins, whether the contract is paused or not.
Receive(t, amount) ==
    /\ amount > 0
    /\ balance[t] + amount <= MaxBalance
    /\ ReceiveNative(t, amount)
    /\ BooksUnchanged
    /\ UNCHANGED <<rewardReserveCap, payoutCap, treasuryPaused, questManagers>>

SetPayoutCaps(t, newRewardReserveCap, newPayoutCap) ==
    /\ newRewardReserveCap > 0
    /\ newPayoutCap >= newRewardReserveCap
    /\ rewardReserveCap' = [rewardReserveCap EXCEPT ![t] = newRewardReserveCap]
    /\ payoutCap' = [payoutCap EXCEPT ![t] = newPayoutCap]
    /\ BooksUnchanged
    /\ UNCHANGED <<balance, treasuryPaused, questManagers>>

\* pause() and tripCircuitBreaker() change the same flag.
PauseTreasury(t) ==
    /\ ~treasuryPaused[t]
    /\ treasuryPaused' = [treasuryPaused EXCEPT ![t] = TRUE]
    /\ BooksUnchanged
    /\ UNCHANGED <<balance, rewardReserveCap, payoutCap, questManagers>>

UnpauseTreasury(t) ==
    /\ treasuryPaused[t]
    /\ treasuryPaused' = [treasuryPaused EXCEPT ![t] = FALSE]
    /\ BooksUnchanged
    /\ UNCHANGED <<balance, rewardReserveCap, payoutCap, questManagers>>

\* Mutant: the amount is not compared with what is available.
EmergencyWithdrawNativeUnchecked(t, amount) ==
    /\ treasuryPaused[t]
    /\ amount > 0
    /\ balance' = [balance EXCEPT ![t] = @ - amount]
    /\ BooksUnchanged
    /\ UNCHANGED <<rewardReserveCap, payoutCap, treasuryPaused, questManagers>>

EmergencyWithdrawNative(t, amount) ==
    /\ treasuryPaused[t]
    /\ amount > 0
    /\ availableRewardLiquidity(t) >= amount
    /\ balance' = [balance EXCEPT ![t] = @ - amount]
    /\ BooksUnchanged
    /\ UNCHANGED <<rewardReserveCap, payoutCap, treasuryPaused, questManagers>>

GrantQuestManager(t, account) ==
    /\ questManagers' = [questManagers EXCEPT ![t] = @ \cup {account}]
    /\ BooksUnchanged
    /\ UNCHANGED <<balance, rewardReserveCap, payoutCap, treasuryPaused>>

RevokeQuestManager(t, account) ==
    /\ questManagers' = [questManagers EXCEPT ![t] = @ \ {account}]
    /\ BooksUnchanged
    /\ UNCHANGED <<balance, rewardReserveCap, payoutCap, treasuryPaused>>

-----------------------------------------------------------------------------

QuestManagerCall(t) ==
    \E caller \in Callers, questId \in QuestIds, player \in Players, amount \in Amounts :
        \/ ReserveReward(t, caller, questId, player, amount) /\ UNCHANGED balance
        \/ SettleQuestPayout(t, caller, questId, player, amount)
        \/ RefundQuest(t, caller, questId, amount)

TreasuryAdmin(t) ==
    \/ \E amount \in Amounts :
          \/ FundNativeRewardPool(t, amount)
          \/ Receive(t, amount)
          \/ EmergencyWithdrawNative(t, amount)
    \/ \E reserveCap, payCap \in CapChoices : SetPayoutCaps(t, reserveCap, payCap)
    \/ \E account \in Callers : GrantQuestManager(t, account)
    \/ /\ OwnersSwitch
       /\ \/ PauseTreasury(t)
          \/ UnpauseTreasury(t)
          \/ \E account \in Callers : RevokeQuestManager(t, account)

TreasuryNext == \E t \in Treasuries : QuestManagerCall(t) \/ TreasuryAdmin(t)

TreasurySpec == TreasuryInit /\ [][TreasuryNext]_treasuryVars

-----------------------------------------------------------------------------
(* Properties *)

\* A treasury can always cover what it has reserved: no interleaving of
\* reservations, refunds, cap changes, deposits, pay-outs and emergency
\* withdrawals lets the native balance fall under totalReservedRewards.
Solvent == \A t \in Treasuries : isSolvent(t)

\* The books of one fund agree with its state: money and a beneficiary while
\* it is reserved, neither before nor after.
FundMatchesState ==
    \A t \in Treasuries, q \in QuestIds :
        LET fund == questFunds[t][q]
        IN IF fund.state = "Reserved"
           THEN fund.reservedReward > 0 /\ fund.player \in Players
           ELSE fund = EmptyFund(fund.state)

\* The escrow a treasury promises, read off its state: the total it keeps is
\* forgotten, and the obligation is the sum over the quests.
Escrow(t) == INSTANCE Escrow WITH
    Items <- QuestIds,
    pool <- balance[t],
    phase <- [q \in QuestIds |->
                CASE questFunds[t][q].state = "None" -> "never"
                  [] questFunds[t][q].state = "Reserved" -> "held"
                  [] OTHER -> "closed"],
    amount <- [q \in QuestIds |-> questFunds[t][q].reservedReward]

\* Every treasury implements the escrow: it reserves for a quest at most once,
\* closes the reservation at most once, and its running total never lets a
\* reservation or a withdrawal eat into money held for another quest.
ImplementsEscrow ==
    /\ \A t \in Treasuries : Escrow(t)!EscrowInit
    /\ [][\A t \in Treasuries :
              Escrow(t)!EscrowNext \/ UNCHANGED Escrow(t)!escrowVars]_treasuryVars

\* The running total is the sum of the open reservations, so that the
\* liquidity and solvency checks, which read the total only, mean what they say.
TotalIsSumOfReservations ==
    \A t \in Treasuries : totalReservedRewards[t] = Escrow(t)!Obligation
=============================================================================
