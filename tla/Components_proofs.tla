-------------------------- MODULE Components_proofs --------------------------
(* The page, and the behaviours of MCComponents.  For any number of handlers, *)
(* quests and accounts: a handler works with a quest that was shown when it   *)
(* was pressed, so that what it shows next was carried out on top of what was *)
(* shown before.                                                              *)
EXTENDS MCComponents, Contracts_proofs, QuestServices_proofs

-----------------------------------------------------------------------------
(* QuestPage *)

Shown(shown) ==
    /\ shown.status = "AVAILABLE" => <<"generate", shown.quest>> \in servedCalls
    /\ shown.status = "ACCEPTED" =>
          /\ <<"generate", shown.quest>> \in servedCalls
          /\ <<"accept", shown.quest>> \in servedCalls
    /\ shown.status = "CLAIMABLE" =>
          /\ <<"generate", shown.quest>> \in servedCalls
          /\ <<"accept", shown.quest>> \in servedCalls
          /\ <<"submit", shown.quest>> \in servedCalls

\* What a handler that is under way has seen of the quest it captured, and what the
\* server has carried out for it since.
Knows(me) ==
    me.step # "idle" =>
        /\ me.kind \in {"accept", "submit"} => <<"generate", me.quest>> \in servedCalls
        /\ me.kind = "submit" => <<"accept", me.quest>> \in servedCalls
        /\ me.step = "served" => <<me.kind, me.quest>> \in servedCalls

PageInv ==
    /\ QuestPageTypeOK
    /\ Shown(lastGeneratedQuest)
    /\ \A h \in Handlers : Knows(handler[h])

-----------------------------------------------------------------------------

LEMMA PageInitEstablishesInv == QuestPageInit => PageInv
<1> SUFFICES ASSUME QuestPageInit PROVE PageInv
  OBVIOUS
<1>1. QuestPageTypeOK
  <2>1. /\ [status |-> "none", player |-> NoPageAccount] \in StoredQuest
        /\ pageAccount \in PageAccounts /\ loading = FALSE /\ servedCalls = {}
    BY DEF QuestPageInit, StoredQuest
  <2> QED BY <2>1 DEF QuestPageInit, QuestPageTypeOK, NothingShown, NoHandler, Handler
<1>2. Shown(lastGeneratedQuest) /\ \A h \in Handlers : Knows(handler[h])
  BY DEF QuestPageInit, Shown, Knows, NothingShown, NoHandler
<1> QED BY <1>1, <1>2 DEF PageInv

\* What the server has carried out stays carried out.
LEMMA ServedStays ==
    ASSUME PageInv, QuestPageTypeOK', servedCalls \subseteq servedCalls',
           \/ UNCHANGED lastGeneratedQuest
           \/ Shown(lastGeneratedQuest)',
           \A h \in Handlers : \/ handler'[h] = handler[h]
                               \/ Knows(handler[h])'
    PROVE  PageInv'
<1>1. Shown(lastGeneratedQuest)'
  BY DEF PageInv, Shown
<1>2. ASSUME NEW h \in Handlers PROVE Knows(handler[h])'
  BY DEF PageInv, Knows
<1> QED BY <1>1, <1>2 DEF PageInv

\* An answer shows what was carried out, and ends its handler.
LEMMA AnswerKeepsInv ==
    ASSUME PageInv, NEW h \in Handlers, AnswerArrives(h)
    PROVE  PageInv'
<1> DEFINE me == handler[h]
<1>1. /\ me.step = "served"
      /\ me.kind \in {"generate", "accept", "submit"}
      /\ me.quest \in PageQuests \cup {NoPageQuest}
      /\ Knows(me)
  BY DEF AnswerArrives, PageInv, QuestPageTypeOK, Handler
<1>2. /\ lastGeneratedQuest' = [quest |-> me.quest, status |-> StatusShown[me.kind]]
      /\ handler' = [handler EXCEPT ![h] = NoHandler]
      /\ loading' = FALSE
      /\ UNCHANGED <<stored, servedCalls, pageAccount>>
  BY DEF AnswerArrives, ShowAnswer, Ends
<1>3. StatusShown[me.kind] = CASE me.kind = "generate" -> "AVAILABLE"
                               [] me.kind = "accept" -> "ACCEPTED"
                               [] me.kind = "submit" -> "CLAIMABLE"
  BY <1>1 DEF StatusShown
<1>4. Shown(lastGeneratedQuest)'
  BY <1>1, <1>2, <1>3 DEF Shown, Knows
<1>5. QuestPageTypeOK'
  <2>1. lastGeneratedQuest' \in [quest : PageQuests \cup {NoPageQuest},
                                 status : {"none", "AVAILABLE", "ACCEPTED", "CLAIMABLE"}]
    BY <1>1, <1>2, <1>3
  <2> QED BY <1>2, <2>1 DEF PageInv, QuestPageTypeOK, NoHandler, Handler
<1>6. \A h2 \in Handlers : handler'[h2] = handler[h2] \/ Knows(handler[h2])'
  BY <1>2 DEF PageInv, QuestPageTypeOK, Knows, NoHandler
<1> QED BY <1>2, <1>4, <1>5, <1>6, ServedStays

\* A button that works was shown with the status it asks for.
LEMMA PressKeepsInv ==
    ASSUME PageInv, NEW h \in Handlers, PressGenerate(h) \/ PressAccept(h) \/ PressSubmit(h)
    PROVE  PageInv'
<1>1. PICK kind \in {"generate", "accept", "submit"} :
        /\ Press(h, kind)
        /\ kind = "accept" => lastGeneratedQuest.status = "AVAILABLE"
        /\ kind = "submit" => lastGeneratedQuest.status = "ACCEPTED"
  BY DEF PressGenerate, PressAccept, PressSubmit
<1>2. /\ handler' = [handler EXCEPT ![h] = [kind |-> kind, step |-> "auth",
                                            quest |-> lastGeneratedQuest.quest,
                                            wallet |-> NoPageAccount]]
      /\ UNCHANGED <<stored, servedCalls, pageAccount, lastGeneratedQuest, loading>>
  BY <1>1 DEF Press
<1>3. QuestPageTypeOK'
  BY <1>2 DEF PageInv, QuestPageTypeOK, Handler
<1>4. Knows(handler[h])'
  BY <1>1, <1>2 DEF PageInv, QuestPageTypeOK, Shown, Knows
<1>5. \A h2 \in Handlers : handler'[h2] = handler[h2] \/ Knows(handler[h2])'
  BY <1>2, <1>4 DEF PageInv, QuestPageTypeOK
<1> QED BY <1>2, <1>3, <1>5, ServedStays

\* The server carries a call out for the quest of its handler.
LEMMA CarriedOutKeepsInv ==
    ASSUME PageInv, NEW h \in Handlers, NEW kind \in {"generate", "accept", "submit"},
           NEW q \in PageQuests, CarriedOut(h, kind, q), handler[h].kind = kind,
           handler[h].step # "idle", stored' \in [PageQuests -> StoredQuest],
           kind # "generate" => handler[h].quest = q
    PROVE  PageInv'
<1>1. /\ handler' = [handler EXCEPT ![h] = [@ EXCEPT !.step = "served", !.quest = q]]
      /\ servedCalls' = servedCalls \cup {<<kind, q>>}
      /\ UNCHANGED <<pageAccount, lastGeneratedQuest, loading>>
  BY DEF CarriedOut, PageInv, QuestPageTypeOK
<1>2. QuestPageTypeOK'
  <2>1. <<kind, q>> \in {"generate", "accept", "submit"} \X PageQuests
    OBVIOUS
  <2>2. servedCalls' \subseteq {"generate", "accept", "submit"} \X PageQuests
    BY <1>1, <2>1 DEF PageInv, QuestPageTypeOK
  <2>3. handler' \in [Handlers -> Handler]
    <3>1. handler[h] \in Handler
      BY DEF PageInv, QuestPageTypeOK
    <3>2. [handler[h] EXCEPT !.step = "served", !.quest = q] \in Handler
      BY <3>1 DEF Handler
    <3> QED BY <1>1, <3>2 DEF PageInv, QuestPageTypeOK
  <2> QED BY <1>1, <2>2, <2>3 DEF PageInv, QuestPageTypeOK
<1>3. Knows(handler[h])'
  BY <1>1 DEF PageInv, QuestPageTypeOK, Knows
<1>4. \A h2 \in Handlers : handler'[h2] = handler[h2] \/ Knows(handler[h2])'
  BY <1>1, <1>3 DEF PageInv, QuestPageTypeOK
<1> QED BY <1>1, <1>2, <1>4, ServedStays

\* A handler that goes on, or gives up, knows no less.
LEMMA OtherStepsKeepInv ==
    ASSUME PageInv, NEW h \in Handlers,
           \/ \E a \in PageAccounts : AuthPasses(h, a)
           \/ AuthRefused(h) \/ AcceptReads(h) \/ SubmitReads(h) \/ CallFails(h)
    PROVE  PageInv'
<1>1. ASSUME NEW a \in PageAccounts, AuthPasses(h, a) PROVE PageInv'
  <2>1. QuestPageTypeOK' /\ UNCHANGED <<servedCalls, lastGeneratedQuest>>
    <3>1. [handler[h] EXCEPT !.step = "sent", !.wallet = a] \in Handler
      BY DEF PageInv, QuestPageTypeOK, Handler
    <3>2. handler' = [handler EXCEPT ![h] = [@ EXCEPT !.step = "sent", !.wallet = a]]
      BY <1>1 DEF AuthPasses, PageInv, QuestPageTypeOK
    <3> QED BY <1>1, <3>1, <3>2 DEF AuthPasses, PageInv, QuestPageTypeOK
  <2>2. \A h2 \in Handlers : handler'[h2] = handler[h2] \/ Knows(handler[h2])'
    BY <1>1 DEF AuthPasses, PageInv, QuestPageTypeOK, Knows, Handler
  <2> QED BY <2>1, <2>2, ServedStays
<1>2. CASE AcceptReads(h) \/ SubmitReads(h)
  <2>1. /\ handler' = [handler EXCEPT ![h].step = "checked"]
        /\ handler[h].step = "sent"
        /\ UNCHANGED <<stored, servedCalls, pageAccount, lastGeneratedQuest, loading>>
    BY <1>2 DEF AcceptReads, SubmitReads, Sent
  <2>2. QuestPageTypeOK'
    BY <2>1 DEF PageInv, QuestPageTypeOK, Handler
  <2>3. \A h2 \in Handlers : handler'[h2] = handler[h2] \/ Knows(handler[h2])'
    BY <2>1 DEF PageInv, QuestPageTypeOK, Knows, Handler
  <2> QED BY <2>1, <2>2, <2>3, ServedStays
<1>3. CASE AuthRefused(h) \/ CallFails(h)
  <2>1. /\ handler' = [handler EXCEPT ![h] = NoHandler]
        /\ loading' \in BOOLEAN
        /\ UNCHANGED <<stored, servedCalls, pageAccount, lastGeneratedQuest>>
    BY <1>3 DEF AuthRefused, CallFails, Ends, PageInv, QuestPageTypeOK
  <2>2. QuestPageTypeOK'
    BY <2>1 DEF PageInv, QuestPageTypeOK, NoHandler, Handler
  <2>3. \A h2 \in Handlers : handler'[h2] = handler[h2] \/ Knows(handler[h2])'
    BY <2>1 DEF PageInv, QuestPageTypeOK, Knows, NoHandler
  <2> QED BY <2>1, <2>2, <2>3, ServedStays
<1> QED BY <1>1, <1>2, <1>3

LEMMA PageNextKeepsInv == PageInv /\ [QuestPageNext]_pageVars => PageInv'
<1> SUFFICES ASSUME PageInv, [QuestPageNext]_pageVars PROVE PageInv'
  OBVIOUS
<1>0. QuestPageTypeOK /\ \A h \in Handlers : Knows(handler[h])
  BY DEF PageInv
<1>1. ASSUME NEW h \in Handlers, PressGenerate(h) \/ PressAccept(h) \/ PressSubmit(h)
      PROVE  PageInv'
  BY <1>1, PressKeepsInv
<1>2. ASSUME NEW h \in Handlers, NEW q \in PageQuests, GenerateServed(h, q) PROVE PageInv'
  <2>1. stored' \in [PageQuests -> StoredQuest]
    BY <1>0, <1>2 DEF GenerateServed, QuestPageTypeOK, StoredQuest
  <2> QED BY <1>2, <2>1, CarriedOutKeepsInv DEF GenerateServed, Sent
<1>3. ASSUME NEW h \in Handlers, AcceptWrites(h) PROVE PageInv'
  <2>1. handler[h].quest \in PageQuests
    BY <1>0, <1>3 DEF AcceptWrites, QuestPageTypeOK, Knows
  <2>2. stored' \in [PageQuests -> StoredQuest]
    BY <1>0, <1>3, <2>1 DEF AcceptWrites, QuestPageTypeOK, StoredQuest, Handler
  <2> QED BY <1>3, <2>1, <2>2, CarriedOutKeepsInv DEF AcceptWrites
<1>4. ASSUME NEW h \in Handlers, SubmitWrites(h) PROVE PageInv'
  <2>1. handler[h].quest \in PageQuests
    BY <1>0, <1>4 DEF SubmitWrites, QuestPageTypeOK, Knows
  <2>2. stored' \in [PageQuests -> StoredQuest]
    BY <1>0, <1>4, <2>1 DEF SubmitWrites, QuestPageTypeOK, StoredQuest
  <2> QED BY <1>4, <2>1, <2>2, CarriedOutKeepsInv DEF SubmitWrites
<1>5. ASSUME NEW h \in Handlers, AnswerArrives(h) PROVE PageInv'
  BY <1>5, AnswerKeepsInv
<1>6. ASSUME NEW h \in Handlers,
             \/ \E a \in PageAccounts : AuthPasses(h, a)
             \/ AuthRefused(h) \/ AcceptReads(h) \/ SubmitReads(h) \/ CallFails(h)
      PROVE  PageInv'
  BY <1>6, OtherStepsKeepInv
<1>7. CASE \/ \E q \in PageQuests : OthersAccept(q)
           \/ \E a \in PageAccounts : ChangePageAccount(a)
           \/ UNCHANGED pageVars
  <2>1. QuestPageTypeOK' /\ UNCHANGED <<servedCalls, lastGeneratedQuest, handler>>
    BY <1>0, <1>7 DEF OthersAccept, ChangePageAccount, pageVars, QuestPageTypeOK, StoredQuest
  <2> QED BY <2>1, ServedStays
<1>8. CASE DisconnectPage
  <2>1. QuestPageTypeOK' /\ UNCHANGED <<servedCalls, handler>>
    BY <1>0, <1>8 DEF DisconnectPage, QuestPageTypeOK, NothingShown
  <2>2. Shown(lastGeneratedQuest)'
    BY <1>8 DEF DisconnectPage, NothingShown, Shown
  <2> QED BY <2>1, <2>2, ServedStays
<1> QED BY <1>1, <1>2, <1>3, <1>4, <1>5, <1>6, <1>7, <1>8 DEF QuestPageNext

\* However many handlers overlap, whatever account is connected when they are
\* answered and whoever else takes the quest (CommandCenter): the status the page
\* shows of a quest is one the server has carried out for it, with every step before.
THEOREM ShownServed == QuestPageSpec => []ShownWasServed
<1>1. QuestPageInit => PageInv
  BY PageInitEstablishesInv
<1>2. PageInv /\ [QuestPageNext]_pageVars => PageInv'
  BY PageNextKeepsInv
<1>3. PageInv => ShownWasServed
  BY DEF PageInv, Shown, ShownWasServed
<1> QED BY <1>1, <1>2, <1>3, PTL DEF QuestPageSpec

\* What the page shows and has under way keeps its type.
THEOREM QuestPageTypeCorrect == QuestPageSpec => []QuestPageTypeOK
<1>1. QuestPageInit => PageInv
  BY PageInitEstablishesInv
<1>2. PageInv /\ [QuestPageNext]_pageVars => PageInv'
  BY PageNextKeepsInv
<1>3. PageInv => QuestPageTypeOK
  BY DEF PageInv
<1> QED BY <1>1, <1>2, <1>3, PTL DEF QuestPageSpec

-----------------------------------------------------------------------------
(* The behaviours of MCComponents *)

LEMMA ComponentSteps ==
  [ComponentsNext]_componentVars =>
    /\ [TreasuryNext]_treasuryVars
    /\ [ReputationNext]_reputationVars
    /\ [QuestBackendNext]_questBackendVars
    /\ [QuestRulesNext]_questRulesVars
    /\ [EventProjectorNext]_projectorVars
    /\ [QuestPageNext]_pageVars
<1> SUFFICES ASSUME [ComponentsNext]_componentVars
             PROVE  /\ TreasuryNext \/ UNCHANGED treasuryVars
                    /\ ReputationNext \/ UNCHANGED reputationVars
                    /\ QuestBackendNext \/ UNCHANGED questBackendVars
                    /\ QuestRulesNext \/ UNCHANGED questRulesVars
                    /\ EventProjectorNext \/ UNCHANGED projectorVars
                    /\ QuestPageNext \/ UNCHANGED pageVars
  OBVIOUS
<1>1. CASE Only("contracts") /\ ContractsNext
  BY <1>1 DEF Only, ContractsNext
<1>2. CASE Only("backend") /\ QuestBackendNext
  BY <1>2 DEF Only
<1>3. CASE Only("rules") /\ QuestRulesNext
  BY <1>3 DEF Only
<1>4. CASE Only("projector") /\ EventProjectorNext
  BY <1>4 DEF Only
<1>5. CASE Only("page") /\ QuestPageNext
  BY <1>5 DEF Only
<1>6. CASE UNCHANGED componentVars
  BY <1>6 DEF componentVars
<1> QED BY <1>1, <1>2, <1>3, <1>4, <1>5, <1>6 DEF ComponentsNext

\* Each behaviour is one of every component, moving or at rest, so that what is
\* proved of a component holds of the specification whose runs check it.
THEOREM ComponentsBehave ==
  ComponentsSpec =>
    /\ TreasurySpec /\ ReputationSpec /\ QuestBackendSpec
    /\ QuestRulesSpec /\ EventProjectorSpec /\ QuestPageSpec
<1>1. ComponentsInit =>
        /\ TreasuryInit /\ ReputationInit /\ QuestBackendInit
        /\ QuestRulesInit /\ EventProjectorInit /\ QuestPageInit
  BY DEF ComponentsInit
<1> QED BY <1>1, ComponentSteps, PTL
        DEF ComponentsSpec, TreasurySpec, ReputationSpec, QuestBackendSpec, QuestRulesSpec,
            EventProjectorSpec, QuestPageSpec

\* Every variable of the six components keeps its type.
THEOREM ComponentsTypeCorrect == ComponentsSpec => []ComponentsTypeOK
<1>1. TreasuryTypeOK /\ ReputationTypeOK /\ QuestBackendTypeOK /\ QuestRulesTypeOK
        /\ EventProjectorTypeOK /\ QuestPageTypeOK => ComponentsTypeOK
  BY DEF ComponentsTypeOK
<1> QED BY <1>1, ComponentsBehave, TreasuryTypeCorrect, ReputationTypeCorrect,
           QuestBackendTypeCorrect, QuestRulesTypeCorrect, EventProjectorTypeCorrect,
           QuestPageTypeCorrect, PTL

=============================================================================
