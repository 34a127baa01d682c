----------------------------- MODULE QuestRules -----------------------------
(***************************************************************************)
(* backend/src/services/ruleBasedQuestEngine.ts, questValidationEngine.ts  *)
(* and questTemplates.ts: which template a player's level selects, how the *)
(* reward is computed and bounded, and what the validator and the          *)
(* ForgeQuestManager contract make of the draft.                           *)
(*                                                                         *)
(* CELO is counted in units of 0.0001, the engine's rounding; prose, XP    *)
(* and the decoration of a quest are left out.                             *)
(***************************************************************************)
EXTENDS Integers, Sequences, FiniteSets

CONSTANTS
    PlayerLevels,      \* levels a profile may report
    Streaks,           \* streaks a profile may report
    WorldMultipliers,  \* of the world state, in thousandths
    MaxGenerated       \* bound on the quests generated

ASSUME QuestRulesAssumption ==
    /\ PlayerLevels \subseteq Nat
    /\ Streaks \subseteq Nat
    /\ WorldMultipliers \subseteq 1000..1500
    /\ MaxGenerated \in Nat

VARIABLES
    generated,         \* the last quest generated, or NoQuest
    generatedCount     \* diagnostics.generatedCount

questRulesVars == <<generated, generatedCount>>

-----------------------------------------------------------------------------
(* Numbers *)

\* toFixed: the nearest multiple; a tie goes either way, as the double falls.
Rounded(n, d) == {k \in {n \div d, n \div d + 1} : 2 * k * d - 2 * n \in -d..d}

AtLeast(a, b) == IF a < b THEN b ELSE a
AtMost(a, b) == IF a < b THEN a ELSE b

-----------------------------------------------------------------------------
(* Templates, in the order of the engine's table *)

Template(difficulty, celoReward, objectiveType) ==
    [difficulty |-> difficulty, celoReward |-> celoReward, objectiveType |-> objectiveType]

DailyTemplates == <<
    Template(1, 100, "native_transfer"), Template(1, 120, "native_transfer"),
    Template(1, 100, "contract_call"), Template(2, 150, "contract_call"),
    Template(2, 160, "native_transfer") >>

CommunityTemplates == <<
    Template(2, 180, "contract_call"), Template(2, 170, "contract_call"),
    Template(3, 240, "native_transfer"), Template(3, 260, "contract_call"),
    Template(3, 250, "token_approval") >>

LearningTemplates == <<
    Template(2, 180, "contract_call"), Template(2, 190, "contract_call"),
    Template(3, 300, "token_approval"), Template(3, 320, "contract_call"),
    Template(4, 400, "contract_call") >>

SocialTemplates == <<
    Template(2, 180, "native_transfer"), Template(3, 240, "contract_call"),
    Template(3, 270, "token_approval"), Template(4, 410, "contract_call") >>

WalletTemplates == <<
    Template(1, 100, "contract_call"), Template(1, 110, "native_transfer"),
    Template(3, 280, "token_approval"), Template(3, 300, "native_transfer"),
    Template(4, 450, "contract_call") >>

ExplorerTemplates == <<
    Template(2, 200, "contract_call"), Template(3, 280, "native_transfer"),
    Template(4, 450, "contract_call"), Template(4, 500, "token_approval"),
    Template(5, 600, "contract_call") >>

AchievementTemplates == <<
    Template(1, 120, "native_transfer"), Template(3, 320, "contract_call"),
    Template(4, 480, "native_transfer"), Template(4, 500, "contract_call"),
    Template(5, 650, "token_approval") >>

QuestTemplates == DailyTemplates \o CommunityTemplates \o LearningTemplates
    \o SocialTemplates \o WalletTemplates \o ExplorerTemplates \o AchievementTemplates

DifficultyFromLevel(level) ==
    IF level >= 12 THEN 5 ELSE IF level >= 9 THEN 4
    ELSE IF level >= 6 THEN 3 ELSE IF level >= 3 THEN 2 ELSE 1

\* Where the templates of a difficulty stand in the table.
Pool(difficulty) == {i \in DOMAIN QuestTemplates : QuestTemplates[i].difficulty = difficulty}

\* The pool of the level's difficulty, taken in turn as the level rises.
SelectedTemplate(level) ==
    LET pool == Pool(DifficultyFromLevel(level))
        turn == (level - 1) % Cardinality(pool)
    IN  QuestTemplates[CHOOSE i \in pool : Cardinality({j \in pool : j < i}) = turn]

-----------------------------------------------------------------------------
(* Reward *)

\* QUEST_CONFIG.MAX_SINGLE_REWARD_CELO, the engine's treasury cap
RewardCap == 5000

LeastReward == 100

\* calculateStreakMultiplier, in hundredths; the engine passes no decay factor.
StreakMultiplier(n) == IF n < 3 THEN 100 ELSE 100 + 3 * AtMost(n - 2, 5)

RewardBounds(template) ==
    {[min |-> AtLeast(LeastReward, low),
      max |-> AtLeast(AtLeast(LeastReward, low), high)] :
        low \in Rounded(85 * template.celoReward, 100),
        high \in Rounded(140 * template.celoReward, 100)}

\* Mutant: the upper bound is forgotten.
RewardAmountsUnbounded(template, bounds, streak, world) ==
    {AtLeast(bounds.min, amount) :
        amount \in Rounded(AtLeast(bounds.min, template.celoReward)
                             * StreakMultiplier(streak) * world, 100000)}

\* buildRewardProfile: base times multipliers, kept within the bounds.
RewardAmounts(template, bounds, streak, world) ==
    LET base == AtLeast(bounds.min, template.celoReward)
        most == AtMost(bounds.max, RewardCap)
    IN  {AtLeast(bounds.min, AtMost(amount, most)) :
            amount \in Rounded(base * StreakMultiplier(streak) * world, 100000)}

-----------------------------------------------------------------------------
(* Verification *)

\* TEMPLATE_ALLOWLIST and buildQuestTemplateForType
MinimumStated(objectiveType, difficulty) ==
    IF objectiveType = "native_transfer" THEN AtMost(500, 100 + (difficulty - 1) * 50) ELSE 0

\* Mutant: the whole reward.
MinimumAskedWhole(template) == AtLeast(LeastReward, template.celoReward)

MinimumAsked(template) == AtLeast(LeastReward, template.celoReward \div 2)

\* buildChainInteraction
Interaction(template) ==
    CASE template.objectiveType = "native_transfer" ->
            [primary |-> "native_transfer", targets |-> {"wallet"},
             minValue |-> MinimumAsked(template),
             requireCall |-> FALSE, requireApproval |-> FALSE]
      [] template.objectiveType = "token_approval" ->
            [primary |-> "token_approval", targets |-> {"token", "contract"},
             minValue |-> 0, requireCall |-> TRUE, requireApproval |-> TRUE]
      [] OTHER ->
            [primary |-> "contract_call", targets |-> {"contract"},
             minValue |-> 0, requireCall |-> TRUE, requireApproval |-> FALSE]

\* buildTxRequirements asks one transaction of each stage.
TxRequirements ==
    [stage \in {"createQuest", "completeQuest", "gameplay", "submitProof",
                "verifierSettlement", "rewardPayout", "nftMint"} |->
        [minimumCount |-> 1, verifierCompatible |-> TRUE]]

\* buildNarrative, as far as the validator counts its parts
Narrative(template) ==
    [objectives |-> <<"createQuest", "gameplay", "submitProof">>, chapters |-> 2,
     branchingHooks |-> 2, loreContinuity |-> 2,
     txRequirements |-> TxRequirements, chainInteraction |-> Interaction(template)]

-----------------------------------------------------------------------------
(* The validator *)

RequiredStages == {"createQuest", "completeQuest", "gameplay", "submitProof",
                   "verifierSettlement", "rewardPayout", "nftMint"}

NormalizedBounds(bounds, cap, least, most) ==
    LET max == AtLeast(0, AtMost(bounds.max, AtMost(cap, most)))
    IN  [min |-> AtMost(AtLeast(LeastReward, AtLeast(bounds.min, least)), max), max |-> max]

ValidateRewardBounds(stake, reward) ==
    /\ stake = 0 \/ stake \in 10..100000
    /\ reward \in 1..RewardCap
    /\ stake <= 2 * reward

ValidateMission(narrative) ==
    /\ Len(narrative.objectives) >= 3
    /\ narrative.chapters >= 2
    /\ narrative.branchingHooks >= 1
    /\ \E i \in DOMAIN narrative.objectives : narrative.objectives[i] = "gameplay"
    /\ narrative.loreContinuity >= 1

ValidateInteraction(interaction, verifierType) ==
    /\ interaction.targets \subseteq {"wallet", "contract", "token"}
    /\ interaction.primary = verifierType
    /\ interaction.primary = "native_transfer" =>
          /\ ~interaction.requireCall
          /\ ~interaction.requireApproval
          /\ "wallet" \in interaction.targets
    /\ interaction.primary = "token_approval" => interaction.requireApproval
    /\ interaction.primary # "native_transfer" => interaction.requireCall

ValidateStages(requirements) ==
    \A stage \in RequiredStages :
        /\ stage \in DOMAIN requirements
        /\ requirements[stage].minimumCount >= 1
        /\ requirements[stage].verifierCompatible

-----------------------------------------------------------------------------
(* A generated quest *)

\* buildDifficultyProfile, buildRewardProfile and buildNarrative: what the engine
\* hands to the validator.
Draft(template, level, bounds, reward) ==
    [difficulty |-> AtLeast(template.difficulty, DifficultyFromLevel(level)),
     bounds |-> [bounds EXCEPT !.max = AtMost(@, RewardCap)],
     reward |-> reward, narrative |-> Narrative(template)]

\* validateGeneratedQuest: the quest that is stored, or a QuestValidationError.
Validated(draft, level) ==
    LET type == draft.narrative.chainInteraction.primary
        stated == MinimumStated(type, draft.difficulty)
        kept == NormalizedBounds(draft.bounds, RewardCap, draft.bounds.min, draft.bounds.max)
        reward == AtLeast(kept.min, AtMost(draft.reward, kept.max))
    IN  [valid |-> /\ ValidateRewardBounds(0, reward)
                   /\ ValidateMission(draft.narrative)
                   /\ ValidateInteraction(draft.narrative.chainInteraction, type)
                   /\ ValidateStages(draft.narrative.txRequirements),
         level |-> level, difficulty |-> draft.difficulty,
         reward |-> reward, asDrafted |-> reward = draft.reward /\ kept = draft.bounds,
         stated |-> stated,
         minValue |-> IF type = "native_transfer"
                      THEN AtLeast(stated, draft.narrative.chainInteraction.minValue)
                      ELSE stated]

NoQuest == [valid |-> TRUE, level |-> 1, difficulty |-> 1, reward |-> LeastReward,
            asDrafted |-> TRUE, stated |-> 0, minValue |-> 0]

GeneratedQuest == [valid : BOOLEAN, level : Nat, difficulty : 1..5, reward : Nat,
                   asDrafted : BOOLEAN, stated : Nat, minValue : Nat]

QuestRulesTypeOK ==
    /\ generated \in GeneratedQuest
    /\ generatedCount \in 0..MaxGenerated

QuestRulesInit == generated = NoQuest /\ generatedCount = 0

\* A profile without a level counts as level 1.
GenerateQuest(reported, streak, world) ==
    /\ generatedCount < MaxGenerated
    /\ LET level == AtLeast(1, reported)
           template == SelectedTemplate(level)
       IN  \E bounds \in RewardBounds(template) :
              \E reward \in RewardAmounts(template, bounds, streak, world) :
                 generated' = Validated(Draft(template, level, bounds, reward), level)
    /\ generatedCount' = IF generated'.valid THEN generatedCount + 1 ELSE generatedCount

QuestRulesNext ==
    \E level \in PlayerLevels, streak \in Streaks, world \in WorldMultipliers :
        GenerateQuest(level, streak, world)

QuestRulesSpec == QuestRulesInit /\ [][QuestRulesNext]_questRulesVars

-----------------------------------------------------------------------------
(* Properties *)

\* Engine and validator bound the reward separately, with separate roundings:
\* for every level, streak and world multiplier the validator accepts the draft
\* and changes neither the reward nor its bounds, so that the amount reasoned
\* about is the amount stored and a player is never refused a quest for it.
ValidatorKeepsTheDraft == generated.valid /\ generated.asDrafted

\* The objective shown to the player states the minimum of the verification
\* template; the proof is verified against the greater of that and half the
\* template's reward.  The two tables agree: who sends what the objective says
\* passes.
ObjectiveStatesTheMinimum == generated.minValue <= generated.stated
=============================================================================
