------------------------- MODULE MCForgeQuestManager -------------------------
(* Two small instances of the composed contracts, in one run: players who    *)
(* compete on a single treasury whose owners only fund it, and a single      *)
(* quest while the owners switch between two treasuries, pause every         *)
(* contract and grant and revoke roles.                                      *)
EXTENDS ForgeQuestManager

CONSTANTS FirstPlayer, FirstProof

VARIABLE instance

Idle(t) ==
    /\ balance'[t] = balance[t]
    /\ questManagers'[t] = questManagers[t]

PlayersCompete ==
    /\ \A t \in Treasuries \ {treasury} : Idle(t)
    /\ questManagers[treasury] \subseteq questManagers'[treasury]
    /\ UNCHANGED <<treasury, treasuryPaused, reputationPaused, managerPaused,
                   rewardSystemHealthy, verifiers>>

OwnersAct ==
    /\ nextQuestId' <= 2
    /\ \A q \in QuestIds : quests'[q].creator \in {FirstPlayer, NoPlayer}
    /\ \A q \in QuestIds : quests'[q].player \in {FirstPlayer, NoPlayer}
    /\ \A q \in QuestIds \ {1} : rewardClaims'[q] = 0
    /\ \A h \in Proofs \ {FirstProof} : proofHashToQuestId'[h] = 0
    /\ UNCHANGED now

InstancesInit == Init /\ instance \in {"players", "owners"}

InstancesNext ==
    \/ instance = "players" /\ Next /\ PlayersCompete /\ UNCHANGED instance
    \/ instance = "owners" /\ Next /\ OwnersAct /\ UNCHANGED instance

InstancesSpec == InstancesInit /\ [][InstancesNext]_<<vars, instance>>
=============================================================================
