------------------------------ MODULE QuestPage ------------------------------
(***************************************************************************)
(* The quest of the page frontend/src/pages/CommandCenter.tsx, in one tab. *)
(* The page keeps one quest, lastGeneratedQuest, and never reads it again  *)
(* from the server: what it shows are the answers of its own handlers,     *)
(* each of which works with the quest it captured when it was pressed and  *)
(* waits for a signature and for the server before it writes.              *)
(***************************************************************************)
EXTENDS Naturals

CONSTANTS
    PageAccounts, NoPageAccount,
    PageQuests, NoPageQuest,
    Handlers      \* handlers that may be under way at once

ASSUME QuestPageAssumption ==
    /\ NoPageAccount \notin PageAccounts
    /\ NoPageQuest \notin PageQuests

VARIABLES
    stored,             \* stored[q]: the Quest row of the server
    servedCalls,        \* history: the calls of this page the server carried out
    pageAccount,        \* address of the wallet context
    lastGeneratedQuest,
    handler,            \* handler[h]: a press of a button under way
    loading

pageVars == <<stored, servedCalls, pageAccount, lastGeneratedQuest, handler, loading>>

StoredQuest == [status : {"none", "AVAILABLE", "ACCEPTED", "CLAIMABLE"},
                player : PageAccounts \cup {NoPageAccount}]

NothingShown == [quest |-> NoPageQuest, status |-> "none"]

Handler == [kind : {"generate", "accept", "submit"},
            step : {"idle", "auth", "sent", "checked", "served"},
            quest : PageQuests \cup {NoPageQuest},
            wallet : PageAccounts \cup {NoPageAccount}]

NoHandler == [kind |-> "generate", step |-> "idle", quest |-> NoPageQuest,
              wallet |-> NoPageAccount]

QuestPageTypeOK ==
    /\ stored \in [PageQuests -> StoredQuest]
    /\ servedCalls \subseteq {"generate", "accept", "submit"} \X PageQuests
    /\ pageAccount \in PageAccounts \cup {NoPageAccount}
    /\ lastGeneratedQuest \in [quest : PageQuests \cup {NoPageQuest},
                               status : {"none", "AVAILABLE", "ACCEPTED", "CLAIMABLE"}]
    /\ handler \in [Handlers -> Handler]
    /\ loading \in BOOLEAN

QuestPageInit ==
    /\ stored = [q \in PageQuests |-> [status |-> "none", player |-> NoPageAccount]]
    /\ servedCalls = {}
    /\ pageAccount \in PageAccounts
    /\ lastGeneratedQuest = NothingShown
    /\ handler = [h \in Handlers |-> NoHandler]
    /\ loading = FALSE

-----------------------------------------------------------------------------
(* The buttons *)

\* A button works while nothing loads, but loading is set only once the handler
\* has its signature: a second press in between begins a second handler.
Press(h, kind) ==
    /\ ~loading
    /\ pageAccount # NoPageAccount
    /\ handler[h].step = "idle"
    /\ handler' = [handler EXCEPT ![h] = [kind |-> kind, step |-> "auth",
                                          quest |-> lastGeneratedQuest.quest,
                                          wallet |-> NoPageAccount]]
    /\ UNCHANGED <<stored, servedCalls, pageAccount, lastGeneratedQuest, loading>>

PressGenerate(h) ==
    /\ lastGeneratedQuest.status \in {"none", "CLAIMABLE"}
    /\ Press(h, "generate")

PressAccept(h) ==
    /\ lastGeneratedQuest.status = "AVAILABLE"
    /\ Press(h, "accept")

PressSubmit(h) ==
    /\ lastGeneratedQuest.status = "ACCEPTED"
    /\ Press(h, "submit")

\* requireReadyAuth: the session that is then open need not be the account that
\* pressed.
AuthPasses(h, wallet) ==
    /\ handler[h].step = "auth"
    /\ handler' = [handler EXCEPT ![h].step = "sent", ![h].wallet = wallet]
    /\ loading' = TRUE
    /\ UNCHANGED <<stored, servedCalls, pageAccount, lastGeneratedQuest>>

AuthRefused(h) ==
    /\ handler[h].step = "auth"
    /\ handler' = [handler EXCEPT ![h] = NoHandler]
    /\ UNCHANGED <<stored, servedCalls, pageAccount, lastGeneratedQuest, loading>>

-----------------------------------------------------------------------------
(* The server: acceptQuest and submitProof check the row, then write it *)

Sent(h, kind) == handler[h].kind = kind /\ handler[h].step = "sent"

CarriedOut(h, kind, q) ==
    /\ handler' = [handler EXCEPT ![h].step = "served", ![h].quest = q]
    /\ servedCalls' = servedCalls \cup {<<kind, q>>}
    /\ UNCHANGED <<pageAccount, lastGeneratedQuest, loading>>

GenerateServed(h, q) ==
    /\ Sent(h, "generate")
    /\ stored[q].status = "none"
    /\ stored' = [stored EXCEPT ![q].status = "AVAILABLE"]
    /\ CarriedOut(h, "generate", q)

AcceptReads(h) ==
    /\ Sent(h, "accept")
    /\ stored[handler[h].quest].status = "AVAILABLE"
    /\ handler' = [handler EXCEPT ![h].step = "checked"]
    /\ UNCHANGED <<stored, servedCalls, pageAccount, lastGeneratedQuest, loading>>

SubmitReads(h) ==
    /\ Sent(h, "submit")
    /\ stored[handler[h].quest] = [status |-> "ACCEPTED", player |-> handler[h].wallet]
    /\ handler' = [handler EXCEPT ![h].step = "checked"]
    /\ UNCHANGED <<stored, servedCalls, pageAccount, lastGeneratedQuest, loading>>

AcceptWrites(h) ==
    /\ handler[h].kind = "accept"
    /\ handler[h].step = "checked"
    /\ stored' = [stored EXCEPT ![handler[h].quest] =
                     [status |-> "ACCEPTED", player |-> handler[h].wallet]]
    /\ CarriedOut(h, "accept", handler[h].quest)

SubmitWrites(h) ==
    /\ handler[h].kind = "submit"
    /\ handler[h].step = "checked"
    /\ stored' = [stored EXCEPT ![handler[h].quest].status = "CLAIMABLE"]
    /\ CarriedOut(h, "submit", handler[h].quest)

\* A player elsewhere accepts a quest, having read it while it was available.
OthersAccept(q) ==
    /\ stored[q].status # "none"
    /\ stored' = [stored EXCEPT ![q] = [status |-> "ACCEPTED", player |-> NoPageAccount]]
    /\ UNCHANGED <<servedCalls, pageAccount, lastGeneratedQuest, handler, loading>>

-----------------------------------------------------------------------------
(* The answers *)

Ends(h) ==
    /\ handler' = [handler EXCEPT ![h] = NoHandler]
    /\ loading' = FALSE
    /\ UNCHANGED <<stored, servedCalls, pageAccount>>

\* What a handler shows when its call succeeds; patchQuest compares with the
\* quest captured together with the handler, so that it always writes.
StatusShown == [generate |-> "AVAILABLE", accept |-> "ACCEPTED", submit |-> "CLAIMABLE"]

ShowAnswer(h) ==
    lastGeneratedQuest' = [quest |-> handler[h].quest, status |-> StatusShown[handler[h].kind]]

\* Mutant: the page moves on before the server has answered.
AnswerAssumed(h) ==
    /\ handler[h].step \in {"sent", "checked", "served"}
    /\ handler[h].kind = "generate" => handler[h].step = "served"
    /\ ShowAnswer(h)
    /\ Ends(h)

AnswerArrives(h) ==
    /\ handler[h].step = "served"
    /\ ShowAnswer(h)
    /\ Ends(h)

\* The call is refused or lost, before it was carried out or after.
CallFails(h) ==
    /\ handler[h].step \in {"sent", "checked", "served"}
    /\ UNCHANGED lastGeneratedQuest
    /\ Ends(h)

-----------------------------------------------------------------------------

\* The quest stays when the wallet changes to another account.
ChangePageAccount(a) ==
    /\ a # pageAccount
    /\ pageAccount' = a
    /\ UNCHANGED <<stored, servedCalls, lastGeneratedQuest, handler, loading>>

\* status disconnected clears it; the handlers go on.
DisconnectPage ==
    /\ pageAccount # NoPageAccount
    /\ pageAccount' = NoPageAccount
    /\ lastGeneratedQuest' = NothingShown
    /\ UNCHANGED <<stored, servedCalls, handler, loading>>

QuestPageNext ==
    \/ \E h \in Handlers : PressGenerate(h)
    \/ \E h \in Handlers : PressAccept(h)
    \/ \E h \in Handlers : PressSubmit(h)
    \/ \E h \in Handlers, a \in PageAccounts : AuthPasses(h, a)
    \/ \E h \in Handlers : AuthRefused(h)
    \/ \E h \in Handlers, q \in PageQuests : GenerateServed(h, q)
    \/ \E h \in Handlers : AcceptReads(h)
    \/ \E h \in Handlers : SubmitReads(h)
    \/ \E h \in Handlers : AcceptWrites(h)
    \/ \E h \in Handlers : SubmitWrites(h)
    \/ \E q \in PageQuests : OthersAccept(q)
    \/ \E h \in Handlers : AnswerArrives(h)
    \/ \E h \in Handlers : CallFails(h)
    \/ \E a \in PageAccounts : ChangePageAccount(a)
    \/ DisconnectPage

QuestPageSpec == QuestPageInit /\ [][QuestPageNext]_pageVars
-----------------------------------------------------------------------------
(* Properties *)

\* The page never reads a quest back, answers arrive late, out of order, after the
\* account has changed or the quest was cleared, or not at all: the status it shows
\* of a quest, and the buttons that go with it, is one the server has carried out
\* for this quest, with every step before it.
ShownWasServed ==
    /\ lastGeneratedQuest.status = "AVAILABLE" =>
          <<"generate", lastGeneratedQuest.quest>> \in servedCalls
    /\ lastGeneratedQuest.status = "ACCEPTED" =>
          {<<"generate", lastGeneratedQuest.quest>>, <<"accept", lastGeneratedQuest.quest>>}
             \subseteq servedCalls
    /\ lastGeneratedQuest.status = "CLAIMABLE" =>
          {<<"generate", lastGeneratedQuest.quest>>, <<"accept", lastGeneratedQuest.quest>>,
           <<"submit", lastGeneratedQuest.quest>>} \subseteq servedCalls
=============================================================================
