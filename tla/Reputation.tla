----------------------------- MODULE Reputation -----------------------------
(***************************************************************************)
(* contracts/contracts/Reputation.sol: experience, level and streak of     *)
(* every player.  initializePlayer may be called by anyone; rewardXP only  *)
(* by holders of REWARD_ROLE.                                              *)
(***************************************************************************)
EXTENDS Integers, Accounts

CONSTANTS
    XpGains,      \* experience a reward may carry
    XpPerLevel,   \* 1500
    DayLength,    \* 1 days, in ticks of the block clock
    MaxXp,        \* bound: no reward takes a profile beyond it
    MaxTime       \* bound of the block clock

ASSUME ReputationAssumption ==
    /\ XpGains \subseteq Nat
    /\ XpPerLevel \in Nat \ {0}
    /\ DayLength \in Nat \ {0}
    /\ MaxXp \in Nat
    /\ MaxTime \in Nat

VARIABLES
    now,               \* block.timestamp
    profiles,          \* profiles[player]; level 0 when there is none
    reputationPaused   \* Pausable's flag

reputationVars == <<now, profiles, reputationPaused>>

PlayerProfile == [xp : Nat, level : Nat, questCount : Nat, streak : Nat,
                  lastQuestAt : Nat]

NoProfile == [xp |-> 0, level |-> 0, questCount |-> 0, streak |-> 0,
              lastQuestAt |-> 0]

ReputationTypeOK ==
    /\ now \in Nat
    /\ profiles \in [Players -> PlayerProfile]
    /\ reputationPaused \in BOOLEAN

ReputationInit ==
    /\ now = 0
    /\ profiles = [p \in Players |-> NoProfile]
    /\ reputationPaused = FALSE

\* Mutant: an existing profile is overwritten.
InitializePlayerAgain(player) ==
    /\ ~reputationPaused
    /\ profiles' = [profiles EXCEPT ![player] =
                       [NoProfile EXCEPT !.level = 1, !.lastQuestAt = now]]
    /\ UNCHANGED reputationPaused

\* Leaves the clock to the transaction it is part of.
InitializePlayer(player) ==
    /\ ~reputationPaused
    /\ profiles' = IF profiles[player].level = 0
                   THEN [profiles EXCEPT ![player] =
                            [NoProfile EXCEPT !.level = 1, !.lastQuestAt = now]]
                   ELSE profiles
    /\ UNCHANGED reputationPaused

LevelOf(xp) == 1 + xp \div XpPerLevel

NextStreak(profile) ==
    IF now - profile.lastQuestAt < DayLength THEN profile.streak + 1 ELSE 1

RewardedProfile(profile, xpGain) ==
    [xp |-> profile.xp + xpGain,
     level |-> LevelOf(profile.xp + xpGain),
     questCount |-> profile.questCount + 1,
     streak |-> NextStreak(profile),
     lastQuestAt |-> now]

RewardXP(player, xpGain) ==
    /\ ~reputationPaused
    /\ xpGain > 0
    /\ profiles[player].level > 0
    /\ profiles[player].xp + xpGain <= MaxXp
    /\ profiles' = [profiles EXCEPT ![player] = RewardedProfile(@, xpGain)]
    /\ UNCHANGED <<now, reputationPaused>>

SetReputationPaused(paused) ==
    /\ reputationPaused # paused
    /\ reputationPaused' = paused
    /\ UNCHANGED <<now, profiles>>

\* The block clock moves on.
Tick ==
    /\ now < MaxTime
    /\ now' = now + 1
    /\ UNCHANGED <<profiles, reputationPaused>>

ReputationNext ==
    \/ \E player \in Players :
          \/ InitializePlayer(player) /\ UNCHANGED now
          \/ \E xpGain \in XpGains : RewardXP(player, xpGain)
    \/ \E paused \in BOOLEAN : SetReputationPaused(paused)
    \/ Tick

ReputationSpec == ReputationInit /\ [][ReputationNext]_reputationVars

-----------------------------------------------------------------------------
(* Properties *)

\* Experience, level and quest count are never lost: no call, in particular
\* not a repeated initializePlayer (every quest creation makes one), resets a
\* profile.
ProgressIsNeverLost ==
    [][\A p \in Players :
          /\ profiles'[p].xp >= profiles[p].xp
          /\ profiles'[p].level >= profiles[p].level
          /\ profiles'[p].questCount >= profiles[p].questCount]_reputationVars
=============================================================================
