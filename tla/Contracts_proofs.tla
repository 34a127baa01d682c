-------------------------- MODULE Contracts_proofs ---------------------------
(***************************************************************************)
(* The two contracts the quest manager calls.  For any number of           *)
(* treasuries, quests, callers and any amounts: type correctness, solvency *)
(* and the agreement of a fund's entry with its state, the running total   *)
(* as the sum of the reservations, and the escrow that a treasury          *)
(* implements.  For any number of players: progress is never lost.         *)
(***************************************************************************)
EXTENDS Treasury, Reputation, DataInduction

TreasuryInv == TreasuryTypeOK /\ Solvent /\ FundMatchesState

LEMMA TreasuryInitInv == TreasuryInit => TreasuryInv
  BY TreasuryAssumption, AccountsAssumption
  DEF TreasuryInit, TreasuryInv, TreasuryTypeOK, Solvent, isSolvent, obligations,
      FundMatchesState, EmptyFund, QuestFund, QuestFundState

\* A reservation, alone or in a transaction that also deposits money.
LEMMA ReserveRewardKeepsInv ==
  ASSUME TreasuryInv,
         NEW t \in Treasuries, NEW caller \in Callers, NEW q \in QuestIds,
         NEW p \in Players, NEW a \in Nat,
         ReserveReward(t, caller, q, p, a),
         balance' \in [Treasuries -> Nat],
         \A u \in Treasuries : balance'[u] >= balance[u]
  PROVE  TreasuryInv'
<1> USE DEF TreasuryInv, QuestFund, QuestFundState
<1>1. TreasuryTypeOK'
  <2>1. totalReservedRewards' \in [Treasuries -> Nat]
    BY DEF TreasuryTypeOK, ReserveReward
  <2>2. [reservedReward |-> a, player |-> p, state |-> "Reserved"] \in QuestFund
    OBVIOUS
  <2>3. questFunds' \in [Treasuries -> [QuestIds -> QuestFund]]
    BY <2>2 DEF TreasuryTypeOK, ReserveReward
  <2> QED BY <2>1, <2>3 DEF TreasuryTypeOK, ReserveReward
<1>2. Solvent'
  <2> SUFFICES ASSUME NEW u \in Treasuries PROVE balance'[u] >= totalReservedRewards'[u]
    BY DEF Solvent, isSolvent, obligations
  <2>1. /\ balance[u] >= totalReservedRewards[u] /\ balance[u] \in Nat
        /\ balance'[u] \in Nat /\ totalReservedRewards[u] \in Nat
    BY DEF TreasuryTypeOK, Solvent, isSolvent, obligations
  <2>2. CASE u = t
    <3>1. totalReservedRewards'[u] = totalReservedRewards[u] + a
      BY <2>2 DEF ReserveReward, TreasuryTypeOK
    <3>2. balance[u] >= totalReservedRewards[u] + a
      BY <2>2 DEF ReserveReward, HasRewardLiquidity, obligations
    <3> QED BY <2>1, <3>1, <3>2
  <2>3. CASE u # t
    <3>1. totalReservedRewards'[u] = totalReservedRewards[u]
      BY <2>3 DEF ReserveReward, TreasuryTypeOK
    <3> QED BY <2>1, <3>1
  <2> QED BY <2>2, <2>3
<1>3. FundMatchesState'
  BY DEF TreasuryTypeOK, ReserveReward, FundMatchesState, EmptyFund
<1> QED BY <1>1, <1>2, <1>3

\* Closing a fund frees exactly its reservation, whatever pays for it.
LEMMA CloseFundKeepsInv ==
  ASSUME TreasuryInv,
         NEW t \in Treasuries, NEW q \in QuestIds, NEW a \in Nat,
         NEW state \in {"Paid", "Refunded"},
         CloseFund(t, q, a, state),
         balance' \in [Treasuries -> Nat],
         \A u \in Treasuries \ {t} : balance'[u] = balance[u],
         balance'[t] >= balance[t] - a
  PROVE  TreasuryInv'
<1> USE DEF TreasuryInv, QuestFund, QuestFundState
<1>1. TreasuryTypeOK'
  <2>1. totalReservedRewards' \in [Treasuries -> Nat]
    BY DEF TreasuryTypeOK, CloseFund
  <2>2. EmptyFund(state) \in QuestFund
    BY DEF EmptyFund
  <2>3. questFunds' \in [Treasuries -> [QuestIds -> QuestFund]]
    BY <2>2 DEF TreasuryTypeOK, CloseFund
  <2> QED BY <2>1, <2>3 DEF TreasuryTypeOK, CloseFund
<1>2. Solvent'
  <2> SUFFICES ASSUME NEW u \in Treasuries PROVE balance'[u] >= totalReservedRewards'[u]
    BY DEF Solvent, isSolvent, obligations
  <2>1. balance[u] >= totalReservedRewards[u] /\ balance[u] \in Nat /\ balance'[u] \in Nat
        /\ totalReservedRewards[u] \in Nat
    BY DEF TreasuryTypeOK, Solvent, isSolvent, obligations
  <2>2. CASE u = t
    <3>1. totalReservedRewards'[u] = totalReservedRewards[u] - a
      BY <2>2 DEF CloseFund, TreasuryTypeOK
    <3> QED BY <2>1, <2>2, <3>1
  <2>3. CASE u # t
    <3>1. totalReservedRewards'[u] = totalReservedRewards[u]
      BY <2>3 DEF CloseFund, TreasuryTypeOK
    <3> QED BY <2>1, <2>3, <3>1
  <2> QED BY <2>2, <2>3
<1>3. FundMatchesState'
  BY DEF TreasuryTypeOK, CloseFund, FundMatchesState, EmptyFund
<1> QED BY <1>1, <1>2, <1>3

LEMMA RefundQuestKeepsInv ==
  ASSUME TreasuryInv,
         NEW t \in Treasuries, NEW caller \in Callers, NEW q \in QuestIds, NEW a \in Nat,
         RefundQuest(t, caller, q, a)
  PROVE  TreasuryInv'
<1>1. balance' \in [Treasuries -> Nat] /\ balance'[t] >= balance[t] - a
  BY DEF RefundQuest, TreasuryInv, TreasuryTypeOK
<1>2. \A u \in Treasuries \ {t} : balance'[u] = balance[u]
  BY DEF RefundQuest
<1> QED BY <1>1, <1>2, CloseFundKeepsInv DEF RefundQuest

LEMMA SettleQuestPayoutKeepsInv ==
  ASSUME TreasuryInv,
         NEW t \in Treasuries, NEW caller \in Callers, NEW q \in QuestIds,
         NEW p \in Players, NEW a \in Nat,
         SettleQuestPayout(t, caller, q, p, a)
  PROVE  TreasuryInv'
<1>1. balance' \in [Treasuries -> Nat] /\ balance'[t] >= balance[t] - a
  BY DEF SettleQuestPayout, TreasuryInv, TreasuryTypeOK
<1>2. \A u \in Treasuries \ {t} : balance'[u] = balance[u]
  BY DEF SettleQuestPayout, TreasuryInv, TreasuryTypeOK
<1> QED BY <1>1, <1>2, CloseFundKeepsInv DEF SettleQuestPayout

\* A step that leaves the books alone keeps the invariant as long as the
\* balance still covers them.
LEMMA BooksUnchangedKeepsInv ==
  ASSUME TreasuryInv, BooksUnchanged, TreasuryTypeOK', Solvent'
  PROVE  TreasuryInv'
BY DEF TreasuryInv, BooksUnchanged, FundMatchesState

LEMMA TreasuryAdminKeepsInv ==
  ASSUME TreasuryInv, NEW t \in Treasuries, TreasuryAdmin(t)
  PROVE  TreasuryInv'
<1> USE TreasuryAssumption DEF TreasuryInv
<1> DEFINE Rest == UNCHANGED <<rewardReserveCap, payoutCap, treasuryPaused, questManagers>>
<1>1. ASSUME NEW a \in Amounts, a > 0, ReceiveNative(t, a), BooksUnchanged, Rest
      PROVE  TreasuryInv'
  BY <1>1, BooksUnchangedKeepsInv
  DEF TreasuryTypeOK, Solvent, isSolvent, obligations, ReceiveNative, BooksUnchanged
<1>2. ASSUME NEW a \in Amounts, EmergencyWithdrawNative(t, a) PROVE TreasuryInv'
  <2>1. balance[t] >= totalReservedRewards[t] + a
    BY <1>2 DEF EmergencyWithdrawNative, availableRewardLiquidity, obligations, TreasuryTypeOK
  <2> QED BY <1>2, <2>1, BooksUnchangedKeepsInv
      DEF TreasuryTypeOK, Solvent, isSolvent, obligations, EmergencyWithdrawNative, BooksUnchanged
<1>3. ASSUME NEW c1 \in CapChoices, NEW c2 \in CapChoices, SetPayoutCaps(t, c1, c2)
      PROVE  TreasuryInv'
  BY <1>3, BooksUnchangedKeepsInv
  DEF SetPayoutCaps, TreasuryTypeOK, Solvent, isSolvent, obligations, BooksUnchanged
<1>4. ASSUME PauseTreasury(t) \/ UnpauseTreasury(t) PROVE TreasuryInv'
  BY <1>4, BooksUnchangedKeepsInv
  DEF PauseTreasury, UnpauseTreasury, TreasuryTypeOK, Solvent, isSolvent, obligations, BooksUnchanged
<1>5. ASSUME NEW c \in Callers, GrantQuestManager(t, c) \/ RevokeQuestManager(t, c)
      PROVE  TreasuryInv'
  BY <1>5, BooksUnchangedKeepsInv
  DEF GrantQuestManager, RevokeQuestManager, TreasuryTypeOK, Solvent, isSolvent, obligations, BooksUnchanged
<1> QED
  BY <1>1, <1>2, <1>3, <1>4, <1>5 DEF TreasuryAdmin, FundNativeRewardPool, Receive

LEMMA TreasuryNextInv == TreasuryInv /\ [TreasuryNext]_treasuryVars => TreasuryInv'
<1> SUFFICES ASSUME TreasuryInv, [TreasuryNext]_treasuryVars PROVE TreasuryInv'
  OBVIOUS
<1> USE TreasuryAssumption
<1>1. CASE UNCHANGED treasuryVars
  BY <1>1 DEF treasuryVars, TreasuryInv, TreasuryTypeOK, Solvent, isSolvent, obligations,
              FundMatchesState
<1>2. ASSUME NEW t \in Treasuries, TreasuryAdmin(t) PROVE TreasuryInv'
  BY <1>2, TreasuryAdminKeepsInv
<1>3. ASSUME NEW t \in Treasuries, NEW caller \in Callers, NEW q \in QuestIds,
             NEW p \in Players, NEW a \in Amounts,
             ReserveReward(t, caller, q, p, a), UNCHANGED balance
      PROVE  TreasuryInv'
  <2>1. balance' \in [Treasuries -> Nat] /\ \A u \in Treasuries : balance'[u] >= balance[u]
    BY <1>3 DEF TreasuryInv, TreasuryTypeOK
  <2> QED BY <1>3, <2>1, ReserveRewardKeepsInv
<1>4. ASSUME NEW t \in Treasuries, NEW caller \in Callers, NEW q \in QuestIds,
             NEW p \in Players, NEW a \in Amounts,
             SettleQuestPayout(t, caller, q, p, a) \/ RefundQuest(t, caller, q, a)
      PROVE  TreasuryInv'
  BY <1>4, SettleQuestPayoutKeepsInv, RefundQuestKeepsInv
<1> QED BY <1>1, <1>2, <1>3, <1>4 DEF TreasuryNext, QuestManagerCall

-----------------------------------------------------------------------------
(* The running total, as the sum of the open reservations *)

ReservedIn(funds) == {q \in QuestIds : funds[q].state = "Reserved"}

RewardsIn(funds) == [q \in QuestIds |-> funds[q].reservedReward]

Owed(funds) == SumOver(RewardsIn(funds), ReservedIn(funds))

\* There may be any number of quests, but only so many have been reserved.
BooksAddUp ==
    \A t \in Treasuries :
        /\ IsFiniteSet(ReservedIn(questFunds[t]))
        /\ totalReservedRewards[t] = Owed(questFunds[t])

LEMMA ObligationIsSum ==
  ASSUME NEW t \in Treasuries
  PROVE  Escrow(t)!Obligation = Owed(questFunds[t])
<1>1. Escrow(t)!Held = ReservedIn(questFunds[t])
  BY DEF Escrow!Held, ReservedIn
<1>2. Escrow(t)!Obligation = SumOver(RewardsIn(questFunds[t]), Escrow(t)!Held)
  BY DEF Escrow!Obligation, Escrow!MapThenSumSet, Escrow!MapThenFoldSet,
         SumOver, Sums, SumStep, Chosen, RewardsIn
<1> QED BY <1>1, <1>2 DEF Owed

LEMMA OneMoreIsOwed ==
  ASSUME NEW funds, NEW after, NEW q, IsFiniteSet(ReservedIn(funds)),
         q \notin ReservedIn(funds), ReservedIn(after) = ReservedIn(funds) \cup {q},
         NaturalOn(RewardsIn(after), ReservedIn(funds) \cup {q}),
         \A r \in ReservedIn(funds) : RewardsIn(funds)[r] = RewardsIn(after)[r]
  PROVE  /\ IsFiniteSet(ReservedIn(after))
         /\ Owed(after) = Owed(funds) + RewardsIn(after)[q]
<1>1. IsFiniteSet(ReservedIn(funds) \cup {q})
  BY FS_AddElement
<1>2. SumOver(RewardsIn(after), ReservedIn(funds) \cup {q})
        = SumOver(RewardsIn(funds), ReservedIn(funds)) + RewardsIn(after)[q]
  BY SumWithOneMore
<1> QED BY <1>1, <1>2 DEF Owed

\* A fund that is reserved adds its reward.
LEMMA ReservingAdds ==
  ASSUME NEW funds \in [QuestIds -> QuestFund], IsFiniteSet(ReservedIn(funds)),
         NEW q \in QuestIds, funds[q].state # "Reserved",
         NEW fund \in QuestFund, fund.state = "Reserved",
         NEW after, after = [funds EXCEPT ![q] = fund]
  PROVE  /\ IsFiniteSet(ReservedIn(after))
         /\ Owed(after) = Owed(funds) + fund.reservedReward
<1>1. ReservedIn(after) = ReservedIn(funds) \cup {q} /\ q \notin ReservedIn(funds)
  BY DEF ReservedIn
<1>2. /\ RewardsIn(after)[q] = fund.reservedReward
      /\ \A r \in ReservedIn(funds) : RewardsIn(funds)[r] = RewardsIn(after)[r]
  BY <1>1 DEF RewardsIn, ReservedIn
<1>3. NaturalOn(RewardsIn(after), ReservedIn(funds) \cup {q})
  <2>1. after \in [QuestIds -> QuestFund] /\ ReservedIn(funds) \cup {q} \subseteq QuestIds
    BY DEF ReservedIn
  <2> QED BY <2>1 DEF NaturalOn, RewardsIn, QuestFund
<1>4. IsFiniteSet(ReservedIn(funds))
  OBVIOUS
<1>5. /\ IsFiniteSet(ReservedIn(after))
      /\ Owed(after) = Owed(funds) + RewardsIn(after)[q]
  BY ONLY <1>1, <1>2, <1>3, <1>4, OneMoreIsOwed
<1> QED BY <1>2, <1>5

\* A fund that is closed takes it away again.
LEMMA ClosingSubtracts ==
  ASSUME NEW funds \in [QuestIds -> QuestFund], IsFiniteSet(ReservedIn(funds)),
         NEW q \in QuestIds, funds[q].state = "Reserved",
         NEW fund \in QuestFund, fund.state # "Reserved",
         NEW after, after = [funds EXCEPT ![q] = fund]
  PROVE  /\ IsFiniteSet(ReservedIn(after))
         /\ Owed(after) = Owed(funds) - funds[q].reservedReward
<1>1. /\ after \in [QuestIds -> QuestFund] /\ after[q] = fund
      /\ \A r \in QuestIds \ {q} : after[r] = funds[r]
  OBVIOUS
<1>2. funds = [after EXCEPT ![q] = funds[q]] /\ funds[q] \in QuestFund
  OBVIOUS
<1>3. ReservedIn(after) = ReservedIn(funds) \ {q}
  BY <1>1 DEF ReservedIn
<1>4. IsFiniteSet(ReservedIn(after))
  <2>1. IsFiniteSet(ReservedIn(funds) \ {q})
    BY FS_RemoveElement
  <2> QED BY <1>3, <2>1
<1>5. Owed(funds) = Owed(after) + funds[q].reservedReward
  BY <1>1, <1>2, <1>4, ReservingAdds
<1>6. NaturalOn(RewardsIn(after), ReservedIn(after))
  BY <1>1 DEF NaturalOn, RewardsIn, ReservedIn, QuestFund
<1>7. Owed(after) \in Nat /\ funds[q].reservedReward \in Nat
  BY <1>4, <1>6, SumIsNatural DEF Owed, QuestFund
<1> QED BY <1>4, <1>5, <1>7

LEMMA BooksUnchangedAddUp ==
  ASSUME BooksAddUp, BooksUnchanged
  PROVE  BooksAddUp'
BY DEF BooksAddUp, BooksUnchanged

LEMMA ReservationAddsUp ==
  ASSUME TreasuryInv, BooksAddUp,
         NEW t \in Treasuries, NEW caller \in Callers, NEW q \in QuestIds,
         NEW p \in Players, NEW a \in Nat,
         ReserveReward(t, caller, q, p, a)
  PROVE  BooksAddUp'
<1> DEFINE fund == [reservedReward |-> a, player |-> p, state |-> "Reserved"]
           after == [questFunds[t] EXCEPT ![q] = fund]
<1>1. fund \in QuestFund /\ fund.state = "Reserved" /\ fund.reservedReward = a
  BY DEF QuestFund, QuestFundState
<1>2. /\ questFunds' = [questFunds EXCEPT ![t] = after]
      /\ totalReservedRewards' = [totalReservedRewards EXCEPT ![t] = @ + a]
      /\ questFunds[t][q].state = "None"
  BY DEF ReserveReward
<1>3. /\ questFunds \in [Treasuries -> [QuestIds -> QuestFund]]
      /\ totalReservedRewards \in [Treasuries -> Nat]
  BY DEF TreasuryInv, TreasuryTypeOK
<1> HIDE DEF fund
<1>4. IsFiniteSet(ReservedIn(after)) /\ Owed(after) = Owed(questFunds[t]) + a
  BY <1>1, <1>2, <1>3, ReservingAdds DEF BooksAddUp
<1> HIDE DEF after
<1> QED BY <1>2, <1>3, <1>4 DEF BooksAddUp

LEMMA ClosingAddsUp ==
  ASSUME TreasuryInv, BooksAddUp,
         NEW t \in Treasuries, NEW q \in QuestIds, NEW a \in Nat,
         NEW state \in {"Paid", "Refunded"},
         CloseFund(t, q, a, state)
  PROVE  BooksAddUp'
<1> DEFINE fund == EmptyFund(state)
           after == [questFunds[t] EXCEPT ![q] = fund]
<1>1. fund \in QuestFund /\ fund.state # "Reserved"
  BY DEF EmptyFund, QuestFund, QuestFundState
<1>2. /\ questFunds' = [questFunds EXCEPT ![t] = after]
      /\ totalReservedRewards' = [totalReservedRewards EXCEPT ![t] = @ - a]
      /\ questFunds[t][q].state = "Reserved"
      /\ questFunds[t][q].reservedReward = a
  BY DEF CloseFund
<1>3. /\ questFunds \in [Treasuries -> [QuestIds -> QuestFund]]
      /\ totalReservedRewards \in [Treasuries -> Nat]
  BY DEF TreasuryInv, TreasuryTypeOK
<1> HIDE DEF fund
<1>4. IsFiniteSet(ReservedIn(after)) /\ Owed(after) = Owed(questFunds[t]) - a
  <2>1. questFunds[t] \in [QuestIds -> QuestFund] /\ IsFiniteSet(ReservedIn(questFunds[t]))
    BY <1>3 DEF BooksAddUp
  <2>2. /\ IsFiniteSet(ReservedIn(after))
        /\ Owed(after) = Owed(questFunds[t]) - questFunds[t][q].reservedReward
    BY <1>1, <1>2, <2>1, ClosingSubtracts
  <2> QED BY <1>2, <2>2
<1> HIDE DEF after
<1> QED BY <1>2, <1>3, <1>4 DEF BooksAddUp

LEMMA TreasuryNextAddsUp ==
  TreasuryInv /\ BooksAddUp /\ [TreasuryNext]_treasuryVars => BooksAddUp'
<1> SUFFICES ASSUME TreasuryInv, BooksAddUp, [TreasuryNext]_treasuryVars PROVE BooksAddUp'
  OBVIOUS
<1>1. ASSUME NEW t \in Treasuries, NEW caller \in Callers, NEW q \in QuestIds,
             NEW p \in Players, NEW a \in Amounts,
             \/ ReserveReward(t, caller, q, p, a)
             \/ SettleQuestPayout(t, caller, q, p, a)
             \/ RefundQuest(t, caller, q, a)
      PROVE  BooksAddUp'
  <2>1. a \in Nat
    BY TreasuryAssumption
  <2> QED BY <1>1, <2>1, ReservationAddsUp, ClosingAddsUp DEF SettleQuestPayout, RefundQuest
<1>2. ASSUME NEW t \in Treasuries, TreasuryAdmin(t) PROVE BooksUnchanged
  BY <1>2 DEF TreasuryAdmin, FundNativeRewardPool, Receive, EmergencyWithdrawNative,
              SetPayoutCaps, PauseTreasury, UnpauseTreasury, GrantQuestManager,
              RevokeQuestManager
<1>3. CASE UNCHANGED treasuryVars
  BY <1>3, BooksUnchangedAddUp DEF treasuryVars, BooksUnchanged
<1> QED BY <1>1, <1>2, <1>3, BooksUnchangedAddUp DEF TreasuryNext, QuestManagerCall

LEMMA TreasuryInitAddsUp == TreasuryInit => BooksAddUp
<1> SUFFICES ASSUME TreasuryInit, NEW t \in Treasuries
             PROVE  /\ IsFiniteSet(ReservedIn(questFunds[t]))
                    /\ totalReservedRewards[t] = Owed(questFunds[t])
  BY DEF BooksAddUp
<1>1. ReservedIn(questFunds[t]) = {} /\ totalReservedRewards[t] = 0
  BY DEF TreasuryInit, ReservedIn, EmptyFund
<1> QED BY <1>1, FS_EmptySet, SumOfNone DEF Owed

LEMMA TreasuryAlways == TreasurySpec => [](TreasuryInv /\ BooksAddUp)
BY TreasuryInitInv, TreasuryNextInv, TreasuryInitAddsUp, TreasuryNextAddsUp, PTL
DEF TreasurySpec

-----------------------------------------------------------------------------
(* Each treasury as an escrow *)

LEMMA EscrowStarts ==
  TreasuryInit => \A t \in Treasuries : Escrow(t)!EscrowInit
BY DEF TreasuryInit, EmptyFund, Escrow!EscrowInit

LEMMA EscrowStutters ==
  ASSUME NEW t \in Treasuries,
         questFunds'[t] = questFunds[t], balance'[t] = balance[t]
  PROVE  UNCHANGED Escrow(t)!escrowVars
BY DEF Escrow!escrowVars

\* A reservation is covered by what the escrow holds beyond the sum of the others.
LEMMA ReservationHolds ==
  ASSUME TreasuryInv, BooksAddUp,
         NEW t \in Treasuries, NEW caller \in Callers, NEW q \in QuestIds,
         NEW p \in Players, NEW a \in Nat,
         ReserveReward(t, caller, q, p, a),
         balance'[t] >= balance[t]
  PROVE  Escrow(t)!Hold(q, a)
<1> DEFINE fund == [reservedReward |-> a, player |-> p, state |-> "Reserved"]
<1>1. /\ questFunds[t] \in [QuestIds -> QuestFund]
      /\ questFunds'[t] = [questFunds[t] EXCEPT ![q] = fund]
      /\ questFunds[t][q].state = "None" /\ a > 0
      /\ balance[t] >= totalReservedRewards[t] + a
  BY DEF TreasuryInv, TreasuryTypeOK, ReserveReward, HasRewardLiquidity, obligations
<1>2. balance[t] >= Escrow(t)!Obligation + a
  BY <1>1, ObligationIsSum DEF BooksAddUp
<1>3. \A i \in QuestIds : questFunds'[t][i] = IF i = q THEN fund ELSE questFunds[t][i]
  BY <1>1
<1>4. \A i \in QuestIds : questFunds'[t][i].reservedReward
                            = IF i = q THEN a ELSE questFunds[t][i].reservedReward
  BY <1>3
<1>5. /\ questFunds'[t][q].state = "Reserved"
      /\ \A i \in QuestIds \ {q} : questFunds'[t][i].state = questFunds[t][i].state
  BY <1>3
<1> HIDE DEF fund
<1> QED BY <1>1, <1>2, <1>4, <1>5 DEF Escrow!Hold

LEMMA ClosingCloses ==
  ASSUME TreasuryInv,
         NEW t \in Treasuries, NEW q \in QuestIds, NEW a \in Nat,
         NEW state \in {"Paid", "Refunded"},
         CloseFund(t, q, a, state)
  PROVE  Escrow(t)!Close(q) /\ questFunds[t][q].reservedReward = a
<1>1. /\ questFunds[t] \in [QuestIds -> QuestFund]
      /\ questFunds'[t] = [questFunds[t] EXCEPT ![q] = EmptyFund(state)]
      /\ questFunds[t][q].state = "Reserved"
      /\ questFunds[t][q].reservedReward = a
  BY DEF TreasuryInv, TreasuryTypeOK, CloseFund
<1>2. \A i \in QuestIds : questFunds'[t][i] = IF i = q THEN EmptyFund(state)
                                                  ELSE questFunds[t][i]
  BY <1>1
<1>3. /\ EmptyFund(state).reservedReward = 0
      /\ EmptyFund(state).state \notin {"None", "Reserved"}
  BY DEF EmptyFund
<1>4. \A i \in QuestIds : questFunds'[t][i].reservedReward
                            = IF i = q THEN 0 ELSE questFunds[t][i].reservedReward
  BY <1>2, <1>3
<1>5. /\ questFunds'[t][q].state \notin {"None", "Reserved"}
      /\ \A i \in QuestIds \ {q} : questFunds'[t][i].state = questFunds[t][i].state
  BY <1>2, <1>3
<1> QED BY <1>1, <1>4, <1>5 DEF Escrow!Close

\* A pay-out and a refund end the hold, and only the pay-out takes the money.
LEMMA SettlementPaysOut ==
  ASSUME TreasuryInv,
         NEW t \in Treasuries, NEW caller \in Callers, NEW q \in QuestIds,
         NEW p \in Players, NEW a \in Nat,
         SettleQuestPayout(t, caller, q, p, a)
  PROVE  Escrow(t)!PayOut(q)
<1>1. balance'[t] = balance[t] - a
  BY DEF SettleQuestPayout, TreasuryInv, TreasuryTypeOK
<1>2. Escrow(t)!Close(q) /\ questFunds[t][q].reservedReward = a
  BY ClosingCloses DEF SettleQuestPayout
<1> QED BY <1>1, <1>2 DEF Escrow!PayOut

LEMMA RefundReleases ==
  ASSUME TreasuryInv,
         NEW t \in Treasuries, NEW caller \in Callers, NEW q \in QuestIds, NEW a \in Nat,
         RefundQuest(t, caller, q, a)
  PROVE  Escrow(t)!Release(q)
<1>1. Escrow(t)!Close(q)
  BY ClosingCloses DEF RefundQuest
<1> QED BY <1>1 DEF RefundQuest, Escrow!Release

\* A step that leaves the books alone deposits money or withdraws the surplus.
LEMMA MoneyMoves ==
  ASSUME TreasuryInv, BooksAddUp, BooksUnchanged, NEW t \in Treasuries,
         balance'[t] \in Nat, balance'[t] >= totalReservedRewards[t]
  PROVE  Escrow(t)!EscrowNext \/ UNCHANGED Escrow(t)!escrowVars
<1>1. questFunds' = questFunds /\ balance[t] \in Nat
  BY DEF BooksUnchanged, TreasuryInv, TreasuryTypeOK
<1>2. CASE balance'[t] = balance[t]
  BY <1>1, <1>2, EscrowStutters
<1>3. CASE balance'[t] > balance[t]
  BY <1>1, <1>3 DEF Escrow!EscrowNext, Escrow!Deposit
<1>4. CASE balance'[t] < balance[t]
  <2>1. balance'[t] >= Escrow(t)!Obligation
    BY ObligationIsSum DEF BooksAddUp
  <2> QED BY <1>1, <1>4, <2>1 DEF Escrow!EscrowNext, Escrow!WithdrawSurplus
<1> QED BY <1>1, <1>2, <1>3, <1>4

EscrowStep ==
    \A t \in Treasuries : Escrow(t)!EscrowNext \/ UNCHANGED Escrow(t)!escrowVars

\* A call of the manager is a step of its treasury's escrow, and of no other.
LEMMA ReservationIsEscrowStep ==
  ASSUME TreasuryInv, BooksAddUp,
         NEW t \in Treasuries, NEW caller \in Callers, NEW q \in QuestIds,
         NEW p \in Players, NEW a \in Amounts,
         ReserveReward(t, caller, q, p, a), balance'[t] >= balance[t],
         \A u \in Treasuries \ {t} : balance'[u] = balance[u]
  PROVE  EscrowStep
<1>1. Escrow(t)!Hold(q, a)
  BY TreasuryAssumption, ReservationHolds
<1>2. Escrow(t)!EscrowNext
  BY <1>1 DEF Escrow!EscrowNext
<1>3. \A u \in Treasuries \ {t} : questFunds'[u] = questFunds[u]
  BY DEF ReserveReward, TreasuryInv, TreasuryTypeOK
<1> QED BY <1>2, <1>3, EscrowStutters DEF EscrowStep

LEMMA ClosingIsEscrowStep ==
  ASSUME TreasuryInv,
         NEW t \in Treasuries, NEW caller \in Callers, NEW q \in QuestIds, NEW a \in Nat,
         \/ \E p \in Players : SettleQuestPayout(t, caller, q, p, a)
         \/ RefundQuest(t, caller, q, a)
  PROVE  EscrowStep
<1>1. Escrow(t)!PayOut(q) \/ Escrow(t)!Release(q)
  BY SettlementPaysOut, RefundReleases
<1>2. Escrow(t)!EscrowNext
  BY <1>1 DEF Escrow!EscrowNext
<1>3. \A u \in Treasuries \ {t} : questFunds'[u] = questFunds[u] /\ balance'[u] = balance[u]
  BY DEF SettleQuestPayout, RefundQuest, CloseFund, TreasuryInv, TreasuryTypeOK
<1> QED BY <1>2, <1>3, EscrowStutters DEF EscrowStep

LEMMA AdminCallIsEscrowStep ==
  ASSUME TreasuryInv, BooksAddUp, NEW t \in Treasuries, TreasuryAdmin(t)
  PROVE  EscrowStep /\ BooksUnchanged
<1>1. BooksUnchanged
  BY DEF TreasuryAdmin, FundNativeRewardPool, Receive, EmergencyWithdrawNative,
         SetPayoutCaps, PauseTreasury, UnpauseTreasury, GrantQuestManager,
         RevokeQuestManager
<1>2. TreasuryInv'
  BY TreasuryAdminKeepsInv
<1>3. \A u \in Treasuries : balance'[u] \in Nat /\ balance'[u] >= totalReservedRewards[u]
  BY <1>1, <1>2 DEF TreasuryInv, TreasuryTypeOK, Solvent, isSolvent, obligations,
                    BooksUnchanged
<1> QED BY <1>1, <1>3, MoneyMoves DEF EscrowStep

LEMMA TreasuryNextIsEscrowStep ==
  TreasuryInv /\ BooksAddUp /\ [TreasuryNext]_treasuryVars => [EscrowStep]_treasuryVars
<1> SUFFICES ASSUME TreasuryInv, BooksAddUp, TreasuryNext PROVE EscrowStep
  OBVIOUS
<1>1. ASSUME NEW t \in Treasuries, QuestManagerCall(t) PROVE EscrowStep
  <2> SUFFICES ASSUME NEW caller \in Callers, NEW q \in QuestIds, NEW p \in Players,
                      NEW a \in Amounts,
                      \/ ReserveReward(t, caller, q, p, a) /\ UNCHANGED balance
                      \/ SettleQuestPayout(t, caller, q, p, a)
                      \/ RefundQuest(t, caller, q, a)
               PROVE  EscrowStep
    BY <1>1 DEF QuestManagerCall
  <2>1. a \in Nat /\ balance \in [Treasuries -> Nat]
    BY TreasuryAssumption DEF TreasuryInv, TreasuryTypeOK
  <2> QED BY <2>1, ReservationIsEscrowStep, ClosingIsEscrowStep
<1> QED BY <1>1, AdminCallIsEscrowStep DEF TreasuryNext

-----------------------------------------------------------------------------
(* The theorems about a treasury *)

\* The state of a treasury always has its type, whatever its callers do.
THEOREM TreasuryTypeCorrect == TreasurySpec => []TreasuryTypeOK
<1>1. TreasuryInv => TreasuryTypeOK
  BY DEF TreasuryInv
<1> QED BY <1>1, TreasuryInitInv, TreasuryNextInv, PTL DEF TreasurySpec

\* A treasury can always cover its reservations: the balance never falls
\* under the total, by any sequence of reservations, refunds, pay-outs,
\* deposits, cap changes and emergency withdrawals.
THEOREM TreasurySolvency == TreasurySpec => []Solvent
<1>1. TreasuryInv => Solvent
  BY DEF TreasuryInv
<1> QED BY <1>1, TreasuryInitInv, TreasuryNextInv, PTL DEF TreasurySpec

\* A fund carries money and a beneficiary exactly while it is reserved.
THEOREM TreasuryFundsMatch == TreasurySpec => []FundMatchesState
<1>1. TreasuryInv => FundMatchesState
  BY DEF TreasuryInv
<1> QED BY <1>1, TreasuryInitInv, TreasuryNextInv, PTL DEF TreasurySpec

\* The running total is the sum of the open reservations after any sequence of
\* reservations, refunds and pay-outs, so that the checks of liquidity and
\* solvency, which read the total only, mean what they say.
THEOREM TotalIsTheSum == TreasurySpec => []TotalIsSumOfReservations
<1>1. BooksAddUp => TotalIsSumOfReservations
  BY ObligationIsSum DEF BooksAddUp, TotalIsSumOfReservations
<1> QED BY <1>1, TreasuryAlways, PTL

\* Every treasury implements the escrow: a quest is reserved for at most once, a
\* reservation is closed at most once, and no reservation or withdrawal eats into
\* money that is held for another quest.
THEOREM TreasuryImplementsEscrow == TreasurySpec => ImplementsEscrow
<1>1. TreasurySpec => \A t \in Treasuries : Escrow(t)!EscrowInit
  BY EscrowStarts DEF TreasurySpec
<1>2. TreasuryInv /\ BooksAddUp /\ [TreasuryNext]_treasuryVars =>
        [\A t \in Treasuries :
            Escrow(t)!EscrowNext \/ UNCHANGED Escrow(t)!escrowVars]_treasuryVars
  BY TreasuryNextIsEscrowStep DEF EscrowStep
<1> QED BY <1>1, <1>2, TreasuryAlways, PTL DEF TreasurySpec, ImplementsEscrow

-----------------------------------------------------------------------------
(* Reputation on its own, with the rewards that no call of the manager makes *)

LEMMA DivMonotone ==
  ASSUME NEW a \in Nat, NEW b \in Nat, a <= b, NEW c \in Nat \ {0}
  PROVE  /\ a \div c \in Nat /\ b \div c \in Nat
         /\ a \div c <= b \div c
<1> DEFINE x == a \div c
           y == b \div c
<1>1. x \in Int /\ y \in Int /\ x >= 0 /\ y >= 0
  OBVIOUS
<1>2. c * x <= a /\ b < c * y + c
  OBVIOUS
<1> HIDE DEF x, y
<1>3. ASSUME y < x PROVE FALSE
  <2>1. c * (y + 1) <= c * x
    <3>1. x - (y + 1) >= 0 /\ x - (y + 1) \in Int
      BY <1>1, <1>3
    <3>2. c * (x - (y + 1)) >= 0
      BY <3>1
    <3> QED BY <1>1, <3>2
  <2>2. c * (y + 1) = c * y + c
    BY <1>1
  <2> QED BY <1>1, <1>2, <2>1, <2>2
<1>4. x <= y
  BY <1>1, <1>3
<1> QED BY <1>1, <1>4 DEF x, y

\* A level was reached with the experience there is, and there is none before
\* the first level.
Earned(profile) ==
    /\ profile.level <= LevelOf(profile.xp)
    /\ profile.level = 0 => profile.xp = 0 /\ profile.questCount = 0

ReputationInv == ReputationTypeOK /\ \A p \in Players : Earned(profiles[p])

ProfilesGrow ==
    \A p \in Players :
          /\ profiles'[p].xp >= profiles[p].xp
          /\ profiles'[p].level >= profiles[p].level
          /\ profiles'[p].questCount >= profiles[p].questCount

LEMMA LevelType ==
  ASSUME NEW xp \in Nat
  PROVE  LevelOf(xp) \in Nat /\ LevelOf(xp) >= 1
<1>1. xp \div XpPerLevel \in Nat
  BY DivMonotone, ReputationAssumption
<1> QED BY <1>1 DEF LevelOf

LEMMA ProfileFields ==
  ASSUME ReputationTypeOK, NEW p \in Players
  PROVE  /\ profiles[p] \in PlayerProfile
         /\ profiles[p].xp \in Nat /\ profiles[p].level \in Nat
         /\ profiles[p].questCount \in Nat /\ profiles[p].streak \in Nat
         /\ now \in Nat
BY DEF ReputationTypeOK, PlayerProfile

LEMMA ProfileReplaced ==
  ASSUME ReputationInv, NEW p \in Players, NEW new \in PlayerProfile,
         profiles' = [profiles EXCEPT ![p] = new], UNCHANGED <<now, reputationPaused>>,
         Earned(new),
         new.xp >= profiles[p].xp, new.level >= profiles[p].level,
         new.questCount >= profiles[p].questCount
  PROVE  ReputationInv' /\ ProfilesGrow
<1>1. profiles'[p] = new /\ \A x \in Players \ {p} : profiles'[x] = profiles[x]
  BY DEF ReputationInv, ReputationTypeOK
<1>2. ReputationTypeOK'
  BY DEF ReputationInv, ReputationTypeOK
<1>3. \A x \in Players : Earned(profiles[x])'
  BY <1>1 DEF ReputationInv, Earned, LevelOf
<1>4. \A x \in Players : /\ profiles[x].xp \in Nat /\ profiles[x].level \in Nat
                         /\ profiles[x].questCount \in Nat
  BY ProfileFields DEF ReputationInv
<1>5. ProfilesGrow
  BY <1>1, <1>4 DEF ProfilesGrow
<1> QED BY <1>2, <1>3, <1>5 DEF ReputationInv

LEMMA ReputationStep ==
  ReputationInv /\ [ReputationNext]_reputationVars => ReputationInv' /\ ProfilesGrow
<1> SUFFICES ASSUME ReputationInv, [ReputationNext]_reputationVars
             PROVE  ReputationInv' /\ ProfilesGrow
  OBVIOUS
<1>0. ReputationTypeOK
  BY DEF ReputationInv
<1>1. CASE UNCHANGED profiles /\ now' \in Nat /\ reputationPaused' \in BOOLEAN
  <2>1. ReputationInv'
    BY <1>1 DEF ReputationInv, ReputationTypeOK, Earned, LevelOf
  <2>2. ProfilesGrow
    BY <1>0, <1>1, ProfileFields DEF ProfilesGrow
  <2> QED BY <2>1, <2>2
<1>2. ASSUME NEW p \in Players, InitializePlayer(p), UNCHANGED now
      PROVE  ReputationInv' /\ ProfilesGrow
  <2>1. CASE profiles[p].level # 0
    BY <1>0, <1>1, <1>2, <2>1 DEF InitializePlayer, ReputationTypeOK
  <2>2. CASE profiles[p].level = 0
    <3> DEFINE new == [NoProfile EXCEPT !.level = 1, !.lastQuestAt = now]
    <3>1. new \in PlayerProfile /\ new.level = 1 /\ new.xp = 0 /\ new.questCount = 0
      BY <1>0, ProfileFields DEF NoProfile, PlayerProfile
    <3>2. Earned(new)
      BY <3>1, LevelType DEF Earned
    <3>3. profiles[p].xp = 0 /\ profiles[p].questCount = 0
      BY <2>2 DEF ReputationInv, Earned
    <3>4. profiles' = [profiles EXCEPT ![p] = new] /\ UNCHANGED <<now, reputationPaused>>
      BY <1>2, <2>2 DEF InitializePlayer
    <3> HIDE DEF new
    <3>5. /\ new.xp >= profiles[p].xp /\ new.level >= profiles[p].level
          /\ new.questCount >= profiles[p].questCount
      BY <2>2, <3>1, <3>3
    <3> QED BY <3>1, <3>2, <3>4, <3>5, ProfileReplaced
  <2> QED BY <2>1, <2>2
<1>3. ASSUME NEW p \in Players, NEW xpGain \in XpGains, RewardXP(p, xpGain)
      PROVE  ReputationInv' /\ ProfilesGrow
  <2> DEFINE new == RewardedProfile(profiles[p], xpGain)
  <2>1. /\ profiles[p].xp \in Nat /\ profiles[p].level \in Nat
        /\ profiles[p].questCount \in Nat /\ profiles[p].streak \in Nat /\ now \in Nat
        /\ xpGain \in Nat
    BY <1>0, ProfileFields, ReputationAssumption
  <2>2. /\ new.xp = profiles[p].xp + xpGain /\ new.level = LevelOf(profiles[p].xp + xpGain)
        /\ new.questCount = profiles[p].questCount + 1
    BY DEF RewardedProfile
  <2>3. LevelOf(profiles[p].xp + xpGain) \in Nat /\ LevelOf(profiles[p].xp + xpGain) >= 1
    BY <2>1, LevelType
  <2>4. NextStreak(profiles[p]) \in Nat
    BY <2>1 DEF NextStreak
  <2>5. new \in PlayerProfile
    BY <2>1, <2>3, <2>4 DEF RewardedProfile, PlayerProfile
  <2>6. LevelOf(profiles[p].xp) <= LevelOf(profiles[p].xp + xpGain)
    <3>1. profiles[p].xp <= profiles[p].xp + xpGain /\ profiles[p].xp + xpGain \in Nat
      BY <2>1
    <3>2. /\ profiles[p].xp \div XpPerLevel \in Nat
          /\ (profiles[p].xp + xpGain) \div XpPerLevel \in Nat
          /\ profiles[p].xp \div XpPerLevel <= (profiles[p].xp + xpGain) \div XpPerLevel
      BY <2>1, <3>1, DivMonotone, ReputationAssumption
    <3> QED BY <3>2 DEF LevelOf
  <2>7. Earned(new)
    BY <2>2, <2>3 DEF Earned
  <2>8. profiles[p].level <= LevelOf(profiles[p].xp) /\ LevelOf(profiles[p].xp) \in Nat
    BY <2>1, LevelType DEF ReputationInv, Earned
  <2>9. /\ new.xp >= profiles[p].xp /\ new.level >= profiles[p].level
        /\ new.questCount >= profiles[p].questCount
    BY <2>1, <2>2, <2>3, <2>6, <2>8
  <2>10. profiles' = [profiles EXCEPT ![p] = new] /\ UNCHANGED <<now, reputationPaused>>
    BY <1>3 DEF RewardXP
  <2> HIDE DEF new
  <2> QED BY <2>5, <2>7, <2>9, <2>10, ProfileReplaced
<1>4. ASSUME NEW paused \in BOOLEAN, SetReputationPaused(paused)
      PROVE  ReputationInv' /\ ProfilesGrow
  BY <1>0, <1>1, <1>4 DEF SetReputationPaused, ReputationTypeOK
<1>5. CASE Tick
  BY <1>0, <1>1, <1>5 DEF Tick, ReputationTypeOK
<1>6. CASE UNCHANGED reputationVars
  BY <1>0, <1>1, <1>6 DEF reputationVars, ReputationTypeOK
<1> QED BY <1>2, <1>3, <1>4, <1>5, <1>6 DEF ReputationNext

LEMMA ReputationInitInv == ReputationInit => ReputationInv
<1> SUFFICES ASSUME ReputationInit PROVE ReputationInv
  OBVIOUS
<1>1. ReputationTypeOK
  BY DEF ReputationInit, ReputationTypeOK, NoProfile, PlayerProfile
<1>2. 0 <= LevelOf(0)
  BY LevelType
<1>3. \A p \in Players : Earned(profiles[p])
  BY <1>2 DEF ReputationInit, NoProfile, Earned
<1> QED BY <1>1, <1>3 DEF ReputationInv

\* However often a player is initialised and rewarded, experience, level and
\* quest count are never lost.
THEOREM ProgressKept == ReputationSpec => ProgressIsNeverLost
<1>1. ReputationInv /\ [ReputationNext]_reputationVars => ReputationInv'
  BY ReputationStep
<1>2. ReputationInv /\ [ReputationNext]_reputationVars =>
        [\A p \in Players :
          /\ profiles'[p].xp >= profiles[p].xp
          /\ profiles'[p].level >= profiles[p].level
          /\ profiles'[p].questCount >= profiles[p].questCount]_reputationVars
  BY ReputationStep DEF ProfilesGrow
<1> QED BY <1>1, <1>2, ReputationInitInv, PTL DEF ReputationSpec, ProgressIsNeverLost

\* A profile is made of naturals, and the time does not run backwards.
THEOREM ReputationTypeCorrect == ReputationSpec => []ReputationTypeOK
<1>1. ReputationInv => ReputationTypeOK
  BY DEF ReputationInv
<1>2. ReputationInv /\ [ReputationNext]_reputationVars => ReputationInv'
  BY ReputationStep
<1> QED BY <1>1, <1>2, ReputationInitInv, PTL DEF ReputationSpec

=============================================================================
