---------------------------- MODULE MCComponents ----------------------------
(* The components that share no state with another one, each on a small     *)
(* instance of its own: a behaviour is one of the component that the initial *)
(* state picks, and the others stay where they start.                       *)
EXTENDS Treasury, Reputation, QuestBackend, QuestRules, EventProjector,
        QuestPage

VARIABLE running  \* the component of this behaviour

componentVars == <<treasuryVars, reputationVars, questBackendVars, questRulesVars,
                   projectorVars, pageVars, running>>

Components == {"contracts", "backend", "rules", "projector", "page"}

ComponentsInit ==
    /\ running \in Components
    /\ TreasuryInit
    /\ ReputationInit
    /\ QuestBackendInit
    /\ QuestRulesInit
    /\ EventProjectorInit
    /\ QuestPageInit

\* The treasury and the reputation contract before a quest manager is deployed.
ContractsNext ==
    \/ TreasuryNext /\ UNCHANGED reputationVars
    \/ ReputationNext /\ UNCHANGED treasuryVars

\* Exactly the variables of component c may change.
Only(c) ==
    /\ running = c
    /\ UNCHANGED running
    /\ c # "contracts" => UNCHANGED <<treasuryVars, reputationVars>>
    /\ c # "backend" => UNCHANGED questBackendVars
    /\ c # "rules" => UNCHANGED questRulesVars
    /\ c # "projector" => UNCHANGED projectorVars
    /\ c # "page" => UNCHANGED pageVars

ComponentsNext ==
    \/ Only("contracts") /\ ContractsNext
    \/ Only("backend") /\ QuestBackendNext
    \/ Only("rules") /\ QuestRulesNext
    \/ Only("projector") /\ EventProjectorNext
    \/ Only("page") /\ QuestPageNext

ComponentsSpec == ComponentsInit /\ [][ComponentsNext]_componentVars

ComponentsTypeOK ==
    /\ TreasuryTypeOK
    /\ ReputationTypeOK
    /\ QuestBackendTypeOK
    /\ QuestRulesTypeOK
    /\ EventProjectorTypeOK
    /\ QuestPageTypeOK
=============================================================================
