---------------------------- MODULE QuestBackend ----------------------------
(***************************************************************************)
(* backend/src/controllers/questController.ts with the daily counters of   *)
(* services/antiAbuse.ts: requests that read a row, check what they read   *)
(* and write later.  A request passes its checks in one step, since a      *)
(* refused one changes nothing, and writes in another; any request may die *)
(* in between.                                                             *)
(***************************************************************************)
EXTENDS Naturals, FiniteSets

CONSTANTS
    Users, NoUser,
    Quests,              \* Quest rows that may be generated, by random id
    ChainIds, NoChainId, \* quests of the ForgeQuestManager contract
    Requests,            \* how many requests are under way at once
    DailyLimit,          \* QUEST_CONFIG.MAX_QUESTS_PER_DAY
    LastDay              \* bound on the days that pass

ASSUME QuestBackendAssumption ==
    /\ NoUser \notin Users
    /\ NoChainId \notin ChainIds
    /\ IsFiniteSet(Requests)
    /\ DailyLimit \in Nat \ {0}
    /\ LastDay \in Nat

VARIABLES
    row,        \* row[q]: the Quest row
    payout,     \* payout[q]: the TreasuryPayout row, by its chain quest
    onchain,    \* onchain[c]: the creator in the QuestCreated event of c
    attempted,  \* attempted[p]: DailyActivity.questsAttempted of today
    today,
    request     \* request[r]: what the request has read and will write

questBackendVars == <<row, payout, onchain, attempted, today, request>>

Days == 0..LastDay

QuestRow == [status : {"none", "AVAILABLE", "ACCEPTED", "CLAIMABLE"},
             creator : Users \cup {NoUser}, player : Users \cup {NoUser},
             chainId : ChainIds \cup {NoChainId}]

NoRow == [status |-> "none", creator |-> NoUser, player |-> NoUser,
          chainId |-> NoChainId]

PayoutRow == [status : {"none", "RESERVED"}, wallet : Users \cup {NoUser},
              chainId : ChainIds \cup {NoChainId}]

RequestSteps == {"idle", "count", "save", "accept", "receipt", "register", "submit", "link"}

Request == [step : RequestSteps, who : Users \cup {NoUser}, quest : Quests \cup {"none"},
            chainId : ChainIds \cup {NoChainId}]

NoRequest == [step |-> "idle", who |-> NoUser, quest |-> "none",
              chainId |-> NoChainId]

QuestBackendTypeOK ==
    /\ row \in [Quests -> QuestRow]
    /\ payout \in [Quests -> PayoutRow]
    /\ onchain \in [ChainIds -> Users \cup {NoUser}]
    /\ attempted \in [Users -> Nat]
    /\ today \in Days
    /\ request \in [Requests -> Request]

QuestBackendInit ==
    /\ row = [q \in Quests |-> NoRow]
    /\ payout = [q \in Quests |-> [status |-> "none", wallet |-> NoUser,
                                   chainId |-> NoChainId]]
    /\ onchain = [c \in ChainIds |-> NoUser]
    /\ attempted = [p \in Users |-> 0]
    /\ today = 0
    /\ request = [r \in Requests |-> NoRequest]

-----------------------------------------------------------------------------

Handling(r, step) == request[r].step = step

\* Request r passes its checks for player p and goes on to the given step.
Passed(r, p, q, c, step) ==
    /\ Handling(r, "idle")
    /\ request' = [request EXCEPT ![r] = [@ EXCEPT !.step = step, !.who = p,
                                                   !.quest = q, !.chainId = c]]

Answered(r) == request' = [request EXCEPT ![r] = NoRequest]

(* generateQuest *)

\* Mutant: the limit is not looked at.
GenerateUnchecked(r, p) ==
    /\ Passed(r, p, "none", NoChainId, "count")
    /\ UNCHANGED <<row, payout, onchain, attempted, today>>

\* checkDailyLimits: the day's counter is read, and counted up later.
GenerateCheck(r, p) ==
    /\ attempted[p] < DailyLimit
    /\ Passed(r, p, "none", NoChainId, "count")
    /\ UNCHANGED <<row, payout, onchain, attempted, today>>

\* incrementDailyActivity adds in the database, to the row of the day it runs on.
Count(r) ==
    /\ Handling(r, "count")
    /\ attempted' = [attempted EXCEPT ![request[r].who] = @ + 1]
    /\ request' = [request EXCEPT ![r].step = "save"]
    /\ UNCHANGED <<row, payout, onchain, today>>

\* The quest is stored under a random id that no row has.
Save(r, q) ==
    /\ Handling(r, "save")
    /\ row[q].status = "none"
    /\ row' = [row EXCEPT ![q] = [@ EXCEPT !.status = "AVAILABLE",
                                           !.creator = request[r].who]]
    /\ Answered(r)
    /\ UNCHANGED <<payout, onchain, attempted, today>>

(* acceptQuest *)

AcceptCheck(r, p, q) ==
    /\ row[q].status = "AVAILABLE"
    /\ row[q].player = NoUser
    /\ Passed(r, p, q, NoChainId, "accept")
    /\ UNCHANGED <<row, payout, onchain, attempted, today>>

\* The update names the row by its id alone.
Accept(r) ==
    /\ Handling(r, "accept")
    /\ row' = [row EXCEPT ![request[r].quest] = [@ EXCEPT !.status = "ACCEPTED",
                                                          !.player = request[r].who]]
    /\ Answered(r)
    /\ UNCHANGED <<payout, onchain, attempted, today>>

(* registerOnchainQuest *)

RegisterCheck(r, p, q, c) ==
    /\ row[q].status # "none"
    /\ row[q].creator = p
    /\ row[q].chainId \in {NoChainId, c}
    /\ Passed(r, p, q, c, "receipt")
    /\ UNCHANGED <<row, payout, onchain, attempted, today>>

\* Mutant: the creator in the event is not compared.
ReceiptOfAnyone(r) ==
    /\ Handling(r, "receipt")
    /\ onchain[request[r].chainId] # NoUser
    /\ request' = [request EXCEPT ![r].step = "register"]
    /\ UNCHANGED <<row, payout, onchain, attempted, today>>

\* The receipt must hold a QuestCreated event of this quest by this wallet.
Receipt(r) ==
    /\ Handling(r, "receipt")
    /\ onchain[request[r].chainId] = request[r].who
    /\ request' = [request EXCEPT ![r].step = "register"]
    /\ UNCHANGED <<row, payout, onchain, attempted, today>>

\* One transaction: whatever the quest has become, it is accepted by the caller
\* and its payout is reserved.
Register(r) ==
    /\ Handling(r, "register")
    /\ LET me == request[r] IN
          /\ row' = [row EXCEPT ![me.quest] = [@ EXCEPT !.status = "ACCEPTED",
                                                        !.player = me.who,
                                                        !.chainId = me.chainId]]
          /\ payout' = [payout EXCEPT ![me.quest] = [status |-> "RESERVED",
                                                     wallet |-> me.who,
                                                     chainId |-> me.chainId]]
    /\ Answered(r)
    /\ UNCHANGED <<onchain, attempted, today>>

(* submitProof; an expired quest is refused, which is no step *)

SubmitCheck(r, p, q) ==
    /\ row[q].player = p
    /\ row[q].status = "ACCEPTED"
    /\ Passed(r, p, q, NoChainId, "submit")
    /\ UNCHANGED <<row, payout, onchain, attempted, today>>

Submit(r) ==
    /\ Handling(r, "submit")
    /\ row' = [row EXCEPT ![request[r].quest].status = "CLAIMABLE"]
    /\ Answered(r)
    /\ UNCHANGED <<payout, onchain, attempted, today>>

(* updateChainQuestId: the player names any chain quest *)

LinkCheck(r, p, q, c) ==
    /\ row[q].player = p
    /\ Passed(r, p, q, c, "link")
    /\ UNCHANGED <<row, payout, onchain, attempted, today>>

Link(r) ==
    /\ Handling(r, "link")
    /\ row' = [row EXCEPT ![request[r].quest].chainId = request[r].chainId]
    /\ Answered(r)
    /\ UNCHANGED <<payout, onchain, attempted, today>>

-----------------------------------------------------------------------------

\* A request dies: a refused receipt, a lost connection, a process that stops.
Abandon(r) ==
    /\ ~Handling(r, "idle")
    /\ Answered(r)
    /\ UNCHANGED <<row, payout, onchain, attempted, today>>

\* createAndAcceptQuest of the contract, by the player's own wallet.
CreateOnchain(c, p) ==
    /\ onchain[c] = NoUser
    /\ onchain' = [onchain EXCEPT ![c] = p]
    /\ UNCHANGED <<row, payout, attempted, today, request>>

\* Midnight UTC: DailyActivity rows of the new day do not exist yet.
NextDay ==
    /\ today < LastDay
    /\ today' = today + 1
    /\ attempted' = [p \in Users |-> 0]
    /\ UNCHANGED <<row, payout, onchain, request>>

QuestBackendNext ==
    \/ \E r \in Requests, p \in Users : GenerateCheck(r, p)
    \/ \E r \in Requests : Count(r)
    \/ \E r \in Requests, q \in Quests : Save(r, q)
    \/ \E r \in Requests, p \in Users, q \in Quests : AcceptCheck(r, p, q)
    \/ \E r \in Requests : Accept(r)
    \/ \E r \in Requests, p \in Users, q \in Quests, c \in ChainIds :
          RegisterCheck(r, p, q, c)
    \/ \E r \in Requests : Receipt(r)
    \/ \E r \in Requests : Register(r)
    \/ \E r \in Requests, p \in Users, q \in Quests : SubmitCheck(r, p, q)
    \/ \E r \in Requests : Submit(r)
    \/ \E r \in Requests, p \in Users, q \in Quests, c \in ChainIds : LinkCheck(r, p, q, c)
    \/ \E r \in Requests : Link(r)
    \/ \E r \in Requests : Abandon(r)
    \/ \E c \in ChainIds, p \in Users : CreateOnchain(c, p)
    \/ NextDay

QuestBackendSpec == QuestBackendInit /\ [][QuestBackendNext]_questBackendVars
-----------------------------------------------------------------------------
(* Properties *)

\* checkDailyLimits reads the counter and incrementDailyActivity adds to it after
\* the world state was loaded and the quest generated: the limit is exceeded,
\* but by no more than the other requests that can be under way.
DailyOverrunIsBounded ==
    \A p \in Users : attempted[p] + 1 <= DailyLimit + Cardinality(Requests)

\* registerOnchainQuest checks the creator of the row before, and the event of
\* the receipt after, its calls to the node; whatever happens to the row in
\* between, a reserved payout names a chain quest that the creator of its own
\* quest created.
PayoutBackedByItsCreator ==
    \A q \in Quests :
        payout[q].status = "RESERVED" =>
            /\ payout[q].wallet = row[q].creator
            /\ onchain[payout[q].chainId] = payout[q].wallet

\* acceptQuest checks that no other player has accepted the quest (line 475) before
\* it creates the user and updates the row by its id: when the acceptance is written
\* the quest still has no other player.
NobodyIsReplaced ==
    [][\A r \in Requests :
          Accept(r) => row[request[r].quest].player \in {NoUser, request[r].who}]_questBackendVars
=============================================================================
