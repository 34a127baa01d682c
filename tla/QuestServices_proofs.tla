------------------------ MODULE QuestServices_proofs -------------------------
(* Three services of the backend.  For any number of users, quests and         *)
(* requests under way: the daily limit is exceeded by the other requests at    *)
(* most, and a payout belongs to the creator of its quest.  For every level,   *)
(* streak and world multiplier: the validator keeps the draft.  For any number *)
(* of commands: what an event is counted for, and what a replay restores.      *)
EXTENDS QuestBackend, QuestRules, EventProjector, DataInduction, SequenceTheorems

-----------------------------------------------------------------------------
(* QuestBackend *)

\* Requests of p that passed the daily limit and are not counted yet.
Uncounted(p) == {r \in Requests : request[r].step = "count" /\ request[r].who = p}

OverrunInv ==
    \A p \in Users :
        attempted[p] + 1 + Cardinality(Uncounted(p)) <= DailyLimit + Cardinality(Requests)

\* A registration has checked the creator of the row it names.
OwnsRow(me) ==
    /\ me.who \in Users
    /\ me.quest \in Quests
    /\ me.chainId \in ChainIds
    /\ row[me.quest].status # "none"
    /\ row[me.quest].creator = me.who

RegistrationInv ==
    \A r \in Requests :
        /\ request[r].step \in {"receipt", "register"} => OwnsRow(request[r])
        /\ request[r].step = "register" => onchain[request[r].chainId] = request[r].who

PayoutInv ==
    \A q \in Quests :
        payout[q].status = "RESERVED" =>
            /\ payout[q].wallet \in Users
            /\ payout[q].chainId \in ChainIds
            /\ row[q].status # "none"
            /\ payout[q].wallet = row[q].creator
            /\ onchain[payout[q].chainId] = payout[q].wallet

QuestBackendInv ==
    /\ QuestBackendTypeOK
    /\ OverrunInv
    /\ RegistrationInv
    /\ PayoutInv

\* Rows keep their creator and chain quests theirs.
CreatorsKept ==
    /\ \A q \in Quests : row[q].status # "none" =>
          row'[q].status # "none" /\ row'[q].creator = row[q].creator
    /\ \A c \in ChainIds : onchain[c] # NoUser => onchain'[c] = onchain[c]

-----------------------------------------------------------------------------

LEMMA UncountedFinite ==
    ASSUME NEW p
    PROVE  /\ IsFiniteSet(Uncounted(p))
           /\ Cardinality(Uncounted(p)) \in Nat
           /\ Cardinality(Requests) \in Nat
           /\ Cardinality(Uncounted(p)) <= Cardinality(Requests)
BY FS_Subset, FS_CardinalityType, QuestBackendAssumption DEF Uncounted

LEMMA BackendInitEstablishesInv == QuestBackendInit => QuestBackendInv
<1> SUFFICES ASSUME QuestBackendInit PROVE QuestBackendInv
  OBVIOUS
<1>1. QuestBackendTypeOK
  BY QuestBackendAssumption
  DEF QuestBackendInit, QuestBackendTypeOK, QuestRow, NoRow, PayoutRow, Request, NoRequest,
      RequestSteps, Days
<1>2. OverrunInv
  <2> SUFFICES ASSUME NEW p \in Users
               PROVE  attempted[p] + 1 + Cardinality(Uncounted(p))
                        <= DailyLimit + Cardinality(Requests)
    BY DEF OverrunInv
  <2> QED BY UncountedFinite, QuestBackendAssumption DEF QuestBackendInit
<1>3. RegistrationInv /\ PayoutInv
  BY DEF QuestBackendInit, RegistrationInv, PayoutInv, NoRequest
<1> QED BY <1>1, <1>2, <1>3 DEF QuestBackendInv

\* A request that passes its checks, or is answered, keeps its type.
LEMMA PassedType ==
    ASSUME request \in [Requests -> Request], NEW r \in Requests, NEW p \in Users,
           NEW q \in Quests \cup {"none"}, NEW c \in ChainIds \cup {NoChainId},
           NEW step \in RequestSteps, Passed(r, p, q, c, step)
    PROVE  request' \in [Requests -> Request]
<1>1. [request[r] EXCEPT !.step = step, !.who = p, !.quest = q, !.chainId = c] \in Request
  BY DEF Request
<1> QED BY <1>1 DEF Passed

LEMMA AnsweredType ==
    ASSUME request \in [Requests -> Request], NEW r \in Requests, Answered(r)
    PROVE  request' \in [Requests -> Request]
<1>1. NoRequest \in Request
  BY DEF NoRequest, Request, RequestSteps
<1> QED BY <1>1 DEF Answered

LEMMA BackendTypeKept ==
    QuestBackendTypeOK /\ [QuestBackendNext]_questBackendVars => QuestBackendTypeOK'
<1> SUFFICES ASSUME QuestBackendTypeOK, [QuestBackendNext]_questBackendVars
             PROVE  QuestBackendTypeOK'
  OBVIOUS
<1> USE DEF QuestBackendTypeOK
<1>0. RequestSteps =
        {"idle", "count", "save", "accept", "receipt", "register", "submit", "link"}
  BY DEF RequestSteps
<1>1. ASSUME NEW r \in Requests, NEW p \in Users, GenerateCheck(r, p)
      PROVE  QuestBackendTypeOK'
  BY <1>0, <1>1, PassedType DEF GenerateCheck
<1>2. ASSUME NEW r \in Requests, NEW p \in Users, NEW q \in Quests,
             AcceptCheck(r, p, q) \/ SubmitCheck(r, p, q)
      PROVE  QuestBackendTypeOK'
  BY <1>0, <1>2, PassedType DEF AcceptCheck, SubmitCheck
<1>3. ASSUME NEW r \in Requests, NEW p \in Users, NEW q \in Quests, NEW c \in ChainIds,
             RegisterCheck(r, p, q, c) \/ LinkCheck(r, p, q, c)
      PROVE  QuestBackendTypeOK'
  <2>1. request' \in [Requests -> Request]
    BY <1>0, <1>3, PassedType DEF RegisterCheck, LinkCheck
  <2>2. UNCHANGED <<row, payout, onchain, attempted, today>>
    BY <1>3 DEF RegisterCheck, LinkCheck
  <2> QED BY <2>1, <2>2
<1>4. ASSUME NEW r \in Requests, Count(r) PROVE QuestBackendTypeOK'
  <2>1. request' \in [Requests -> Request]
    BY <1>0, <1>4 DEF Count, Request
  <2>2. attempted' \in [Users -> Nat]
    <3>1. attempted' = [p \in Users |-> IF p = request[r].who THEN attempted[p] + 1
                                                             ELSE attempted[p]]
      BY <1>4 DEF Count
    <3> QED BY <3>1
  <2> QED BY <1>4, <2>1, <2>2 DEF Count
<1>5. ASSUME NEW r \in Requests, Receipt(r) PROVE QuestBackendTypeOK'
  <2>1. request' \in [Requests -> Request]
    BY <1>0, <1>5 DEF Receipt, Request
  <2> QED BY <1>5, <2>1 DEF Receipt
<1>6. ASSUME NEW r \in Requests,
             \/ \E q \in Quests : Save(r, q)
             \/ Accept(r) \/ Submit(r) \/ Link(r) \/ Abandon(r)
      PROVE  QuestBackendTypeOK'
  <2>1. request' \in [Requests -> Request]
    BY <1>6, AnsweredType DEF Save, Accept, Submit, Link, Abandon
  <2>2. row' \in [Quests -> QuestRow]
    <3>1. request[r].who \in Users \cup {NoUser} /\ request[r].chainId \in ChainIds \cup {NoChainId}
      BY DEF Request
    <3>2. ASSUME NEW q \in Quests, Save(r, q) PROVE row' \in [Quests -> QuestRow]
      BY <3>1, <3>2 DEF Save, QuestRow
    <3>5. CASE Abandon(r)
      BY <3>5 DEF Abandon
    <3>3. CASE Accept(r)
      <4>1. \A q \in Quests : [row[q] EXCEPT !.status = "ACCEPTED", !.player = request[r].who]
                               \in QuestRow
        BY <3>1 DEF QuestRow
      <4> QED BY <3>3, <4>1 DEF Accept
    <3>4. CASE Submit(r) \/ Link(r)
      BY <3>1, <3>4 DEF Submit, Link, QuestRow
    <3> QED BY <1>6, <3>2, <3>3, <3>4, <3>5
  <2> QED BY <1>6, <2>1, <2>2 DEF Save, Accept, Submit, Link, Abandon
<1>7. ASSUME NEW r \in Requests, Register(r) PROVE QuestBackendTypeOK'
  <2>1. request' \in [Requests -> Request]
    BY <1>7, AnsweredType DEF Register
  <2>2. request[r].who \in Users \cup {NoUser} /\ request[r].chainId \in ChainIds \cup {NoChainId}
    BY DEF Request
  <2>3. row' \in [Quests -> QuestRow]
    <3>1. \A q \in Quests : [row[q] EXCEPT !.status = "ACCEPTED", !.player = request[r].who,
                                           !.chainId = request[r].chainId] \in QuestRow
      BY <2>2 DEF QuestRow
    <3> QED BY <1>7, <3>1 DEF Register
  <2>4. payout' \in [Quests -> PayoutRow]
    BY <1>7, <2>2 DEF Register, PayoutRow
  <2> QED BY <1>7, <2>1, <2>3, <2>4 DEF Register
<1>8. ASSUME NEW c \in ChainIds, NEW p \in Users, CreateOnchain(c, p)
      PROVE  QuestBackendTypeOK'
  BY <1>8 DEF CreateOnchain
<1>9. CASE NextDay
  BY <1>9, QuestBackendAssumption DEF NextDay, Days
<1>10. CASE UNCHANGED questBackendVars
  BY <1>10 DEF questBackendVars
<1> QED
  BY <1>1, <1>2, <1>3, <1>4, <1>5, <1>6, <1>7, <1>8, <1>9, <1>10 DEF QuestBackendNext

-----------------------------------------------------------------------------
(* The daily limit *)

\* Nobody gets counted, and whoever passes the check finds the limit not reached.
LEMMA OverrunKeptWithoutCount ==
    ASSUME QuestBackendInv, QuestBackendTypeOK', UNCHANGED attempted,
           \A p \in Users : \/ Uncounted(p)' \subseteq Uncounted(p)
                            \/ attempted[p] < DailyLimit
    PROVE  OverrunInv'
<1> SUFFICES ASSUME NEW p \in Users
             PROVE  attempted'[p] + 1 + Cardinality(Uncounted(p)')
                      <= DailyLimit + Cardinality(Requests)
  BY DEF OverrunInv, Uncounted
<1>1. /\ Cardinality(Uncounted(p)) \in Nat
      /\ IsFiniteSet(Uncounted(p))
      /\ Cardinality(Requests) \in Nat
  BY UncountedFinite
<1>2. /\ Cardinality(Uncounted(p)') \in Nat
      /\ Cardinality(Uncounted(p)') <= Cardinality(Requests)
  BY FS_Subset, FS_CardinalityType, QuestBackendAssumption DEF Uncounted
<1>3. attempted[p] \in Nat /\ attempted'[p] = attempted[p]
  BY DEF QuestBackendInv, QuestBackendTypeOK
<1>4. DailyLimit \in Nat \ {0}
  BY QuestBackendAssumption
<1>5. CASE Uncounted(p)' \subseteq Uncounted(p)
  <2>1. Cardinality(Uncounted(p)') <= Cardinality(Uncounted(p))
    BY <1>1, <1>5, FS_Subset
  <2>2. attempted[p] + 1 + Cardinality(Uncounted(p)) <= DailyLimit + Cardinality(Requests)
    BY DEF QuestBackendInv, OverrunInv
  <2> QED BY <1>1, <1>2, <1>3, <1>4, <2>1, <2>2
<1>6. CASE attempted[p] < DailyLimit
  BY <1>1, <1>2, <1>3, <1>4, <1>6
<1> QED BY <1>5, <1>6

\* Whoever is counted is one less of the uncounted.
LEMMA OverrunKeptByCount ==
    ASSUME QuestBackendInv, NEW r \in Requests, Count(r)
    PROVE  OverrunInv'
<1> SUFFICES ASSUME NEW p \in Users
             PROVE  attempted'[p] + 1 + Cardinality(Uncounted(p)')
                      <= DailyLimit + Cardinality(Requests)
  BY DEF OverrunInv, Uncounted
<1>1. /\ Cardinality(Uncounted(p)) \in Nat
      /\ IsFiniteSet(Uncounted(p))
      /\ Cardinality(Requests) \in Nat
  BY UncountedFinite
<1>2. attempted[p] + 1 + Cardinality(Uncounted(p)) <= DailyLimit + Cardinality(Requests)
  BY DEF QuestBackendInv, OverrunInv
<1>3. attempted[p] \in Nat /\ DailyLimit \in Nat
  BY QuestBackendAssumption DEF QuestBackendInv, QuestBackendTypeOK
<1>4. Uncounted(p)' = Uncounted(p) \ {r}
  BY DEF Count, Handling, Uncounted, QuestBackendInv, QuestBackendTypeOK
<1>5. CASE request[r].who = p
  <2>1. r \in Uncounted(p)
    BY <1>5 DEF Count, Handling, Uncounted
  <2>2. Cardinality(Uncounted(p)') = Cardinality(Uncounted(p)) - 1
    BY <1>1, <1>4, <2>1, FS_RemoveElement
  <2>3. attempted'[p] = attempted[p] + 1
    BY <1>5 DEF Count, QuestBackendInv, QuestBackendTypeOK
  <2> QED BY <1>1, <1>2, <1>3, <2>2, <2>3
<1>6. CASE request[r].who # p
  <2>1. Uncounted(p)' = Uncounted(p)
    BY <1>4, <1>6 DEF Uncounted
  <2>2. attempted'[p] = attempted[p]
    BY <1>6 DEF Count, QuestBackendInv, QuestBackendTypeOK
  <2> QED BY <1>1, <1>2, <1>3, <2>1, <2>2
<1> QED BY <1>5, <1>6

LEMMA OverrunKept ==
    QuestBackendInv /\ QuestBackendTypeOK' /\ [QuestBackendNext]_questBackendVars
        => OverrunInv'
<1> SUFFICES ASSUME QuestBackendInv, QuestBackendTypeOK', [QuestBackendNext]_questBackendVars
             PROVE  OverrunInv'
  OBVIOUS
<1> USE DEF Uncounted, Handling, Passed, Answered, NoRequest
<1>0. request \in [Requests -> Request]
  BY DEF QuestBackendInv, QuestBackendTypeOK
<1>1. ASSUME NEW r \in Requests, NEW p \in Users, GenerateCheck(r, p) PROVE OverrunInv'
  <2>1. \A p2 \in Users : \/ Uncounted(p2)' \subseteq Uncounted(p2)
                          \/ attempted[p2] < DailyLimit
    BY <1>0, <1>1 DEF GenerateCheck, Request
  <2> QED BY <1>1, <2>1, OverrunKeptWithoutCount DEF GenerateCheck
<1>2. ASSUME NEW r \in Requests, Count(r) PROVE OverrunInv'
  BY <1>2, OverrunKeptByCount
<1>3. ASSUME NEW r \in Requests,
             \/ \E q \in Quests : Save(r, q)
             \/ Accept(r) \/ Receipt(r) \/ Register(r) \/ Submit(r) \/ Link(r) \/ Abandon(r)
      PROVE  OverrunInv'
  <2>1. UNCHANGED attempted
    BY <1>3 DEF Save, Accept, Receipt, Register, Submit, Link, Abandon
  <2>2. \A p2 \in Users : Uncounted(p2)' \subseteq Uncounted(p2)
    <3>1. CASE Answered(r)
      BY <1>0, <3>1 DEF Request
    <3>2. CASE Receipt(r)
      BY <1>0, <3>2 DEF Receipt, Request
    <3> QED BY <1>3, <3>1, <3>2 DEF Save, Accept, Register, Submit, Link, Abandon
  <2> QED BY <2>1, <2>2, OverrunKeptWithoutCount
<1>4. ASSUME NEW r \in Requests, NEW p \in Users, NEW q \in Quests,
             \/ AcceptCheck(r, p, q) \/ SubmitCheck(r, p, q)
             \/ \E c \in ChainIds : RegisterCheck(r, p, q, c) \/ LinkCheck(r, p, q, c)
      PROVE  OverrunInv'
  <2>1. UNCHANGED attempted
    BY <1>4 DEF AcceptCheck, SubmitCheck, RegisterCheck, LinkCheck
  <2>2. \A p2 \in Users : Uncounted(p2)' \subseteq Uncounted(p2)
    <3>1. PICK c \in ChainIds \cup {NoChainId}, step \in RequestSteps :
            step # "count" /\ Passed(r, p, q, c, step)
      BY <1>4 DEF AcceptCheck, SubmitCheck, RegisterCheck, LinkCheck, RequestSteps
    <3> QED BY <1>0, <3>1 DEF Request
  <2> QED BY <2>1, <2>2, OverrunKeptWithoutCount
<1>5. CASE \/ \E c \in ChainIds, p \in Users : CreateOnchain(c, p)
           \/ UNCHANGED questBackendVars
  <2>1. UNCHANGED <<attempted, request>>
    BY <1>5 DEF CreateOnchain, questBackendVars
  <2>2. \A p2 \in Users : Uncounted(p2)' \subseteq Uncounted(p2)
    BY <2>1
  <2> QED BY <2>1, <2>2, OverrunKeptWithoutCount
<1>6. CASE NextDay
  <2> SUFFICES ASSUME NEW p \in Users
               PROVE  attempted'[p] + 1 + Cardinality(Uncounted(p)')
                        <= DailyLimit + Cardinality(Requests)
    BY DEF OverrunInv
  <2>1. /\ Cardinality(Uncounted(p)') \in Nat
        /\ Cardinality(Requests) \in Nat
        /\ Cardinality(Uncounted(p)') <= Cardinality(Requests)
    BY FS_Subset, FS_CardinalityType, QuestBackendAssumption
  <2>2. attempted'[p] = 0
    BY <1>6 DEF NextDay
  <2> QED BY <2>1, <2>2, QuestBackendAssumption
<1> QED BY <1>1, <1>2, <1>3, <1>4, <1>5, <1>6 DEF QuestBackendNext

-----------------------------------------------------------------------------
(* The payout *)

\* No step takes a row or a chain quest from its creator.
LEMMA CreatorsAreKept ==
    QuestBackendTypeOK /\ [QuestBackendNext]_questBackendVars => CreatorsKept
<1> SUFFICES ASSUME QuestBackendTypeOK, [QuestBackendNext]_questBackendVars
             PROVE  CreatorsKept
  OBVIOUS
<1> USE DEF QuestBackendTypeOK, CreatorsKept, QuestRow
<1>1. ASSUME NEW r \in Requests,
             \/ \E q \in Quests : Save(r, q)
             \/ Accept(r) \/ Register(r) \/ Submit(r) \/ Link(r)
      PROVE  CreatorsKept
  <2>1. ASSUME NEW q \in Quests, Save(r, q) PROVE CreatorsKept
    BY <2>1 DEF Save
  <2>2. CASE Accept(r)
    BY <2>2 DEF Accept
  <2>3. CASE Register(r)
    BY <2>3 DEF Register
  <2>4. CASE Submit(r)
    BY <2>4 DEF Submit
  <2>5. CASE Link(r)
    BY <2>5 DEF Link
  <2> QED BY <1>1, <2>1, <2>2, <2>3, <2>4, <2>5
<1>2. ASSUME NEW c \in ChainIds, NEW p \in Users, CreateOnchain(c, p) PROVE CreatorsKept
  BY <1>2 DEF CreateOnchain
<1>3. CASE UNCHANGED <<row, onchain>>
  BY <1>3
<1> QED
  BY <1>1, <1>2, <1>3
  DEF QuestBackendNext, questBackendVars, GenerateCheck, Count, AcceptCheck, RegisterCheck,
      Receipt, SubmitCheck, LinkCheck, Abandon, NextDay

\* A request that is new to its step has checked what the invariant says of it.
LEMMA RegistrationKept ==
    ASSUME QuestBackendInv, QuestBackendTypeOK', [QuestBackendNext]_questBackendVars
    PROVE  RegistrationInv'
<1> SUFFICES ASSUME NEW r2 \in Requests, request'[r2].step \in {"receipt", "register"}
             PROVE  /\ OwnsRow(request[r2])'
                    /\ request'[r2].step = "register" =>
                          onchain'[request'[r2].chainId] = request'[r2].who
  BY DEF RegistrationInv
<1>0. request \in [Requests -> Request] /\ CreatorsKept /\ NoUser \notin Users
  BY CreatorsAreKept, QuestBackendAssumption DEF QuestBackendInv, QuestBackendTypeOK
<1>1. ASSUME request'[r2] = request[r2]
      PROVE  /\ OwnsRow(request[r2])'
             /\ request'[r2].step = "register" =>
                   onchain'[request'[r2].chainId] = request'[r2].who
  BY <1>0, <1>1 DEF QuestBackendInv, RegistrationInv, OwnsRow, CreatorsKept
<1>2. ASSUME NEW p \in Users, NEW q \in Quests, NEW c \in ChainIds, RegisterCheck(r2, p, q, c)
      PROVE  OwnsRow(request[r2])' /\ request'[r2].step # "register"
  BY <1>0, <1>2 DEF RegisterCheck, Passed, OwnsRow, Request
<1>3. ASSUME Receipt(r2)
      PROVE  /\ OwnsRow(request[r2])'
             /\ onchain'[request'[r2].chainId] = request'[r2].who
  BY <1>0, <1>3 DEF Receipt, Handling, OwnsRow, Request, QuestBackendInv, RegistrationInv
<1>4. \/ request'[r2] = request[r2]
      \/ \E p \in Users, q \in Quests, c \in ChainIds : RegisterCheck(r2, p, q, c)
      \/ Receipt(r2)
  <2> USE DEF Passed, Answered, NoRequest, Request
  <2>1. ASSUME NEW r \in Requests, NEW p \in Users, GenerateCheck(r, p)
        PROVE  request'[r2] = request[r2]
    BY <1>0, <2>1 DEF GenerateCheck
  <2>2. ASSUME NEW r \in Requests, Count(r) PROVE request'[r2] = request[r2]
    BY <1>0, <2>2 DEF Count
  <2>3. ASSUME NEW r \in Requests,
               \/ \E q \in Quests : Save(r, q)
               \/ Accept(r) \/ Register(r) \/ Submit(r) \/ Link(r) \/ Abandon(r)
        PROVE  request'[r2] = request[r2]
    <3>1. Answered(r)
      BY <2>3 DEF Save, Accept, Register, Submit, Link, Abandon
    <3> QED BY <1>0, <3>1
  <2>4. ASSUME NEW r \in Requests, NEW p \in Users, NEW q \in Quests,
               \/ AcceptCheck(r, p, q) \/ SubmitCheck(r, p, q)
               \/ \E c \in ChainIds : LinkCheck(r, p, q, c)
        PROVE  request'[r2] = request[r2]
    <3>1. PICK c \in ChainIds \cup {NoChainId}, step \in {"accept", "submit", "link"} :
            Passed(r, p, q, c, step)
      BY <2>4 DEF AcceptCheck, SubmitCheck, LinkCheck
    <3> QED BY <1>0, <3>1
  <2>5. ASSUME NEW r \in Requests, r # r2,
               \/ Receipt(r)
               \/ \E p \in Users, q \in Quests, c \in ChainIds : RegisterCheck(r, p, q, c)
        PROVE  request'[r2] = request[r2]
    BY <1>0, <2>5 DEF Receipt, RegisterCheck
  <2>6. CASE \/ \E c \in ChainIds, p \in Users : CreateOnchain(c, p)
             \/ NextDay
             \/ UNCHANGED questBackendVars
    BY <2>6 DEF CreateOnchain, NextDay, questBackendVars
  <2> QED BY <2>1, <2>2, <2>3, <2>4, <2>5, <2>6 DEF QuestBackendNext
<1> QED BY <1>1, <1>2, <1>3, <1>4

\* Only a registration reserves a payout, for the creator it has checked.
LEMMA PayoutKept ==
    ASSUME QuestBackendInv, QuestBackendTypeOK', [QuestBackendNext]_questBackendVars
    PROVE  PayoutInv'
<1>0. CreatorsKept /\ NoUser \notin Users
  BY CreatorsAreKept, QuestBackendAssumption DEF QuestBackendInv
<1>1. ASSUME NEW r \in Requests, Register(r) PROVE PayoutInv'
  <2> DEFINE me == request[r]
  <2>1. OwnsRow(me) /\ onchain[me.chainId] = me.who
    BY <1>1 DEF Register, Handling, QuestBackendInv, RegistrationInv
  <2>2. /\ payout' = [payout EXCEPT ![me.quest] = [status |-> "RESERVED", wallet |-> me.who,
                                                   chainId |-> me.chainId]]
        /\ onchain' = onchain
    BY <1>1 DEF Register
  <2> SUFFICES ASSUME NEW q \in Quests, payout'[q].status = "RESERVED"
               PROVE  /\ payout'[q].wallet \in Users
                      /\ payout'[q].chainId \in ChainIds
                      /\ row'[q].status # "none"
                      /\ payout'[q].wallet = row'[q].creator
                      /\ onchain'[payout'[q].chainId] = payout'[q].wallet
    BY DEF PayoutInv
  <2>3. CASE q = me.quest
    BY <1>0, <2>1, <2>2, <2>3 DEF OwnsRow, CreatorsKept, QuestBackendInv, QuestBackendTypeOK
  <2>4. CASE q # me.quest
    <3>1. payout'[q] = payout[q]
      BY <2>2, <2>4 DEF QuestBackendInv, QuestBackendTypeOK
    <3> QED BY <1>0, <2>2, <3>1 DEF CreatorsKept, QuestBackendInv, PayoutInv
  <2> QED BY <2>3, <2>4
<1>2. ASSUME UNCHANGED payout PROVE PayoutInv'
  BY <1>0, <1>2 DEF QuestBackendInv, PayoutInv, CreatorsKept
<1> QED
  BY <1>1, <1>2
  DEF QuestBackendNext, questBackendVars, GenerateCheck, Count, Save, AcceptCheck, Accept,
      RegisterCheck, Receipt, SubmitCheck, Submit, LinkCheck, Link, Abandon, CreateOnchain,
      NextDay

-----------------------------------------------------------------------------

LEMMA QuestBackendInvHolds == QuestBackendSpec => []QuestBackendInv
<1>1. QuestBackendInit => QuestBackendInv
  BY BackendInitEstablishesInv
<1>2. QuestBackendInv /\ [QuestBackendNext]_questBackendVars => QuestBackendInv'
  <2> SUFFICES ASSUME QuestBackendInv, [QuestBackendNext]_questBackendVars
               PROVE  QuestBackendInv'
    OBVIOUS
  <2>1. QuestBackendTypeOK'
    BY BackendTypeKept DEF QuestBackendInv
  <2>2. OverrunInv' /\ RegistrationInv' /\ PayoutInv'
    BY <2>1, OverrunKept, RegistrationKept, PayoutKept
  <2> QED BY <2>1, <2>2 DEF QuestBackendInv
<1> QED BY <1>1, <1>2, PTL DEF QuestBackendSpec

\* The rows, the counters and what the requests have read keep their types.
THEOREM QuestBackendTypeCorrect == QuestBackendSpec => []QuestBackendTypeOK
<1>1. QuestBackendInv => QuestBackendTypeOK
  BY DEF QuestBackendInv
<1> QED BY <1>1, QuestBackendInvHolds, PTL

\* However many requests overlap and whenever the day ends (checkDailyLimits and
\* incrementDailyActivity): the limit is exceeded by the other requests at most.
THEOREM OverrunBounded == QuestBackendSpec => []DailyOverrunIsBounded
<1>1. QuestBackendInv => DailyOverrunIsBounded
  <2> SUFFICES ASSUME QuestBackendInv, NEW p \in Users
               PROVE  attempted[p] + 1 <= DailyLimit + Cardinality(Requests)
    BY DEF DailyOverrunIsBounded
  <2>1. attempted[p] + 1 + Cardinality(Uncounted(p)) <= DailyLimit + Cardinality(Requests)
    BY DEF QuestBackendInv, OverrunInv
  <2>2. attempted[p] \in Nat /\ DailyLimit \in Nat
    BY QuestBackendAssumption DEF QuestBackendInv, QuestBackendTypeOK
  <2> QED BY <2>1, <2>2, UncountedFinite
<1> QED BY <1>1, QuestBackendInvHolds, PTL

\* Whatever becomes of a quest while its registration waits for the node
\* (registerOnchainQuest): a reserved payout names the creator of its quest and a
\* chain quest that this wallet created.
THEOREM PayoutsBacked == QuestBackendSpec => []PayoutBackedByItsCreator
<1>1. QuestBackendInv => PayoutBackedByItsCreator
  BY DEF QuestBackendInv, PayoutInv, PayoutBackedByItsCreator
<1> QED BY <1>1, QuestBackendInvHolds, PTL

-----------------------------------------------------------------------------
(* QuestRules *)

\* What the proofs need of an entry of the table: half the reward of a transfer is
\* no more than the verification template states at the entry's difficulty.
GoodTemplates ==
    {t \in [difficulty : 1..5, celoReward : 100..650,
            objectiveType : {"native_transfer", "token_approval", "contract_call"}] :
        t.objectiveType = "native_transfer" =>
            MinimumAsked(t) <= MinimumStated("native_transfer", t.difficulty)}

Offers(templates, difficulty) ==
    \E i \in DOMAIN templates : templates[i].difficulty = difficulty

LEMMA GoodTemplate ==
  ASSUME NEW difficulty \in 1..5, NEW celoReward \in 100..650,
         NEW objectiveType \in {"native_transfer", "token_approval", "contract_call"},
         objectiveType = "native_transfer" =>
            AtLeast(LeastReward, celoReward \div 2) <= AtMost(500, 100 + (difficulty - 1) * 50)
  PROVE  Template(difficulty, celoReward, objectiveType) \in GoodTemplates
<1> DEFINE t == Template(difficulty, celoReward, objectiveType)
<1>1. /\ t.difficulty = difficulty /\ t.celoReward = celoReward
      /\ t.objectiveType = objectiveType
      /\ t \in [difficulty : 1..5, celoReward : 100..650,
                objectiveType : {"native_transfer", "token_approval", "contract_call"}]
  BY DEF Template
<1> HIDE DEF t
<1>2. MinimumAsked(t) = AtLeast(LeastReward, celoReward \div 2)
  BY <1>1 DEF MinimumAsked
<1>3. MinimumStated("native_transfer", t.difficulty)
        = AtMost(500, 100 + (difficulty - 1) * 50)
  BY <1>1 DEF MinimumStated
<1>4. t \in GoodTemplates
  BY <1>1, <1>2, <1>3 DEF GoodTemplates
<1> QED BY <1>4 DEF t

LEMMA DailyGood == DailyTemplates \in Seq(GoodTemplates)
BY GoodTemplate DEF DailyTemplates, AtLeast, AtMost, LeastReward

LEMMA CommunityGood == CommunityTemplates \in Seq(GoodTemplates)
BY GoodTemplate DEF CommunityTemplates, AtLeast, AtMost, LeastReward

LEMMA LearningGood == LearningTemplates \in Seq(GoodTemplates)
BY GoodTemplate DEF LearningTemplates, AtLeast, AtMost, LeastReward

LEMMA SocialGood == SocialTemplates \in Seq(GoodTemplates)
BY GoodTemplate DEF SocialTemplates, AtLeast, AtMost, LeastReward

LEMMA WalletGood == WalletTemplates \in Seq(GoodTemplates)
BY GoodTemplate DEF WalletTemplates, AtLeast, AtMost, LeastReward

LEMMA ExplorerGood == ExplorerTemplates \in Seq(GoodTemplates)
BY GoodTemplate DEF ExplorerTemplates, AtLeast, AtMost, LeastReward

LEMMA AchievementGood == AchievementTemplates \in Seq(GoodTemplates)
BY GoodTemplate DEF AchievementTemplates, AtLeast, AtMost, LeastReward

LEMMA Joined ==
  ASSUME NEW s \in Seq(GoodTemplates), NEW t \in Seq(GoodTemplates)
  PROVE  /\ s \o t \in Seq(GoodTemplates)
         /\ \A d : Offers(s, d) \/ Offers(t, d) => Offers(s \o t, d)
<1>1. /\ s \o t \in Seq(GoodTemplates) /\ Len(s \o t) = Len(s) + Len(t)
      /\ \A i \in 1..Len(s) + Len(t) :
            (s \o t)[i] = IF i <= Len(s) THEN s[i] ELSE t[i - Len(s)]
  BY ConcatProperties
<1>2. /\ DOMAIN s = 1..Len(s) /\ DOMAIN t = 1..Len(t) /\ Len(s) \in Nat /\ Len(t) \in Nat
      /\ DOMAIN (s \o t) = 1..(Len(s) + Len(t))
  BY <1>1
<1>3. ASSUME NEW d, NEW i \in DOMAIN s, s[i].difficulty = d PROVE Offers(s \o t, d)
  BY <1>1, <1>2, <1>3 DEF Offers
<1>4. ASSUME NEW d, NEW i \in DOMAIN t, t[i].difficulty = d PROVE Offers(s \o t, d)
  <2>1. /\ i + Len(s) \in DOMAIN (s \o t) /\ ~(i + Len(s) <= Len(s))
        /\ i + Len(s) - Len(s) = i
    BY <1>2
  <2>2. (s \o t)[i + Len(s)] = t[i]
    BY <1>1, <1>2, <2>1
  <2> QED BY <1>4, <2>1, <2>2 DEF Offers
<1> QED BY <1>1, <1>3, <1>4 DEF Offers

LEMMA TableIsGood ==
  /\ QuestTemplates \in Seq(GoodTemplates)
  /\ \A d \in 1..5 : Offers(QuestTemplates, d)
<1> DEFINE t2 == DailyTemplates \o CommunityTemplates
           t3 == t2 \o LearningTemplates
           t4 == t3 \o SocialTemplates
           t5 == t4 \o WalletTemplates
           t6 == t5 \o ExplorerTemplates
           t7 == t6 \o AchievementTemplates
<1>1. QuestTemplates = t7
  BY DEF QuestTemplates
<1>2. /\ Offers(DailyTemplates, 1) /\ Offers(DailyTemplates, 2)
  <2>1. /\ 1 \in DOMAIN DailyTemplates /\ DailyTemplates[1].difficulty = 1
        /\ 4 \in DOMAIN DailyTemplates /\ DailyTemplates[4].difficulty = 2
    BY DEF DailyTemplates, Template
  <2> QED BY <2>1 DEF Offers
<1>3. Offers(CommunityTemplates, 3)
  <2>1. 3 \in DOMAIN CommunityTemplates /\ CommunityTemplates[3].difficulty = 3
    BY DEF CommunityTemplates, Template
  <2> QED BY <2>1 DEF Offers
<1>4. Offers(LearningTemplates, 4)
  <2>1. 5 \in DOMAIN LearningTemplates /\ LearningTemplates[5].difficulty = 4
    BY DEF LearningTemplates, Template
  <2> QED BY <2>1 DEF Offers
<1>5. Offers(ExplorerTemplates, 5)
  <2>1. 5 \in DOMAIN ExplorerTemplates /\ ExplorerTemplates[5].difficulty = 5
    BY DEF ExplorerTemplates, Template
  <2> QED BY <2>1 DEF Offers
<1>6. t2 \in Seq(GoodTemplates) /\ Offers(t2, 1) /\ Offers(t2, 2) /\ Offers(t2, 3)
  BY <1>2, <1>3, Joined, DailyGood, CommunityGood
<1> HIDE DEF t2
<1>7. /\ t3 \in Seq(GoodTemplates) /\ Offers(t3, 1) /\ Offers(t3, 2) /\ Offers(t3, 3)
      /\ Offers(t3, 4)
  BY <1>4, <1>6, Joined, LearningGood
<1> HIDE DEF t3
<1>8. /\ t4 \in Seq(GoodTemplates) /\ Offers(t4, 1) /\ Offers(t4, 2) /\ Offers(t4, 3)
      /\ Offers(t4, 4)
  BY <1>7, Joined, SocialGood
<1> HIDE DEF t4
<1>9. /\ t5 \in Seq(GoodTemplates) /\ Offers(t5, 1) /\ Offers(t5, 2) /\ Offers(t5, 3)
      /\ Offers(t5, 4)
  BY <1>8, Joined, WalletGood
<1> HIDE DEF t5
<1>10. /\ t6 \in Seq(GoodTemplates) /\ Offers(t6, 1) /\ Offers(t6, 2) /\ Offers(t6, 3)
       /\ Offers(t6, 4) /\ Offers(t6, 5)
  BY <1>5, <1>9, Joined, ExplorerGood
<1> HIDE DEF t6
<1>11. /\ t7 \in Seq(GoodTemplates) /\ Offers(t7, 1) /\ Offers(t7, 2) /\ Offers(t7, 3)
       /\ Offers(t7, 4) /\ Offers(t7, 5)
  BY <1>10, Joined, AchievementGood
<1> HIDE DEF t7
<1>12. \A d \in 1..5 : d = 1 \/ d = 2 \/ d = 3 \/ d = 4 \/ d = 5
  OBVIOUS
<1> QED BY <1>1, <1>11, <1>12

\* In a finite set of indices there is one with exactly k smaller ones.
LEMMA RankTaken ==
  ASSUME NEW n \in Nat, NEW S \in SUBSET (1..n), NEW k \in Nat, k < Cardinality(S)
  PROVE  \E i \in S : Cardinality({j \in S : j < i}) = k
<1> DEFINE Smaller(m) == {j \in S : j < m}
           T == {m \in Nat : Cardinality(Smaller(m)) > k}
<1>0. \A j \in S : j \in Nat /\ 1 <= j /\ j < n + 1
  OBVIOUS
<1>1. \A m : IsFiniteSet(Smaller(m)) /\ Cardinality(Smaller(m)) \in Nat
  <2>1. IsFiniteSet(1..n)
    BY FS_Interval
  <2>2. ASSUME NEW m PROVE Smaller(m) \in SUBSET (1..n)
    OBVIOUS
  <2> QED BY <2>1, <2>2, FS_Subset, FS_CardinalityType
<1>2. n + 1 \in T
  <2>1. Smaller(n + 1) = S
    BY <1>0
  <2> QED BY <2>1
<1>3. PICK m \in T : \A other \in T : m <= other
  BY <1>2, LeastNatural
<1>4. m # 0
  <2>1. \A j \in S : ~(j < 0)
    BY <1>0
  <2>2. Smaller(0) = {}
    BY <2>1
  <2>3. Cardinality(Smaller(0)) = 0
    BY <2>2, FS_EmptySet
  <2> QED BY <2>3
<1>5. m - 1 \in Nat /\ m \in Nat /\ m - 1 \notin T
  BY <1>3, <1>4
<1>6. Cardinality(Smaller(m - 1)) <= k /\ Cardinality(Smaller(m)) > k
  BY <1>1, <1>5
<1>7. m - 1 \in S
  <2> SUFFICES ASSUME m - 1 \notin S PROVE FALSE
    OBVIOUS
  <2>1. \A j \in S : j < m <=> j < m - 1
    BY <1>0, <1>5
  <2>2. Smaller(m) = Smaller(m - 1)
    BY <2>1
  <2> QED BY <1>1, <1>6, <2>2
<1>8. Smaller(m) = Smaller(m - 1) \cup {m - 1} /\ m - 1 \notin Smaller(m - 1)
  <2>1. \A j \in S : j < m <=> j < m - 1 \/ j = m - 1
    BY <1>0, <1>5
  <2>2. ~(m - 1 < m - 1)
    BY <1>5
  <2> QED BY <1>7, <2>1, <2>2
<1>9. Cardinality(Smaller(m)) = Cardinality(Smaller(m - 1)) + 1
  <2>1. /\ IsFiniteSet(Smaller(m - 1)) /\ Smaller(m) = Smaller(m - 1) \cup {m - 1}
        /\ m - 1 \notin Smaller(m - 1)
    BY <1>1, <1>8
  <2> HIDE DEF Smaller
  <2> QED BY <2>1, FS_AddElement
<1>10. Cardinality(Smaller(m - 1)) = k
  BY <1>1, <1>6, <1>9
<1> QED BY <1>7, <1>10

LEMMA SelectedIsGood ==
  ASSUME NEW level \in Nat, level >= 1
  PROVE  SelectedTemplate(level) \in GoodTemplates
<1> DEFINE pool == Pool(DifficultyFromLevel(level))
           turn == (level - 1) % Cardinality(pool)
           n == Len(QuestTemplates)
<1>1. n \in Nat /\ DOMAIN QuestTemplates = 1..n
  BY TableIsGood
<1>2. pool \in SUBSET (1..n) /\ pool # {}
  <2>1. DifficultyFromLevel(level) \in 1..5
    BY DEF DifficultyFromLevel
  <2>2. PICK i \in DOMAIN QuestTemplates :
           QuestTemplates[i].difficulty = DifficultyFromLevel(level)
    BY <2>1, TableIsGood DEF Offers
  <2>3. i \in pool
    BY <2>2 DEF Pool
  <2>4. pool \subseteq DOMAIN QuestTemplates
    BY DEF Pool
  <2> QED BY <1>1, <2>3, <2>4
<1> HIDE DEF pool, n
<1>3. Cardinality(pool) \in Nat /\ Cardinality(pool) # 0
  <2>1. IsFiniteSet(1..n)
    BY <1>1, FS_Interval
  <2>2. IsFiniteSet(pool)
    BY <1>2, <2>1, FS_Subset
  <2> QED BY <1>2, <2>2, FS_CardinalityType, FS_EmptySet
<1>4. turn \in Nat /\ turn < Cardinality(pool)
  BY <1>3
<1> HIDE DEF turn
<1>5. \E i \in pool : Cardinality({j \in pool : j < i}) = turn
  BY <1>1, <1>2, <1>4, RankTaken
<1> DEFINE i == CHOOSE i \in pool : Cardinality({j \in pool : j < i}) = turn
<1>6. i \in pool
  BY <1>5
<1>7. SelectedTemplate(level) = QuestTemplates[i]
  BY DEF SelectedTemplate, pool, turn
<1> HIDE DEF i
<1>8. i \in 1..n
  BY <1>2, <1>6
<1> QED BY <1>1, <1>7, <1>8, TableIsGood

LEMMA RoundedIsClose ==
  ASSUME NEW n \in Int, NEW d \in Nat, d > 0, NEW k \in Rounded(n, d)
  PROVE  k \in Int /\ n \div d <= k /\ k <= n \div d + 1
BY DEF Rounded

\* What the engine asks the validator for: bounds in which the reward lies, under
\* the cap.
LEMMA DraftIsBounded ==
  ASSUME NEW t \in GoodTemplates, NEW bounds \in RewardBounds(t),
         NEW streak, streak \in Nat, NEW world, world \in 1000..1500,
         NEW reward \in RewardAmounts(t, bounds, streak, world)
  PROVE  /\ bounds = [min |-> bounds.min, max |-> bounds.max]
         /\ bounds.min \in Nat /\ bounds.max \in Nat
         /\ LeastReward <= bounds.min /\ bounds.min <= AtMost(bounds.max, RewardCap)
         /\ reward \in Nat
         /\ bounds.min <= reward /\ reward <= AtMost(bounds.max, RewardCap)
<1>1. t.celoReward \in 100..650
  BY DEF GoodTemplates
<1>2. PICK low \in Rounded(85 * t.celoReward, 100), high \in Rounded(140 * t.celoReward, 100) :
         bounds = [min |-> AtLeast(LeastReward, low),
                   max |-> AtLeast(AtLeast(LeastReward, low), high)]
  BY DEF RewardBounds
<1>3. low \in Int /\ low <= 600 /\ high \in Int
  <2>1. 85 * t.celoReward \in Int /\ 140 * t.celoReward \in Int
        /\ (85 * t.celoReward) \div 100 + 1 <= 600
    BY <1>1
  <2> QED BY <2>1, RoundedIsClose
<1>4. /\ bounds.min = AtLeast(LeastReward, low)
      /\ bounds.max = AtLeast(AtLeast(LeastReward, low), high)
      /\ bounds = [min |-> bounds.min, max |-> bounds.max]
  BY <1>2
<1>5. /\ bounds.min \in Nat /\ bounds.max \in Nat
      /\ LeastReward <= bounds.min /\ bounds.min <= AtMost(bounds.max, RewardCap)
  BY <1>3, <1>4 DEF AtLeast, AtMost, LeastReward, RewardCap
<1> DEFINE base == AtLeast(bounds.min, t.celoReward)
           product == base * StreakMultiplier(streak) * world
           most == AtMost(bounds.max, RewardCap)
<1>6. product \in Int
  <2>1. base \in Int
    BY <1>1, <1>5 DEF AtLeast
  <2>2. StreakMultiplier(streak) \in Int
    BY DEF StreakMultiplier, AtMost
  <2>3. \A m, n \in Int : m * n \in Int
    OBVIOUS
  <2> HIDE DEF base
  <2>4. base * StreakMultiplier(streak) \in Int
    BY <2>1, <2>2, <2>3
  <2>5. world \in Int
    OBVIOUS
  <2> QED BY <2>3, <2>4, <2>5
<1>7. PICK amount \in Rounded(product, 100000) :
         reward = AtLeast(bounds.min, AtMost(amount, most))
  BY DEF RewardAmounts
<1> HIDE DEF product
<1>8. amount \in Int
  BY <1>6, RoundedIsClose
<1>9. most \in Nat /\ bounds.min <= most
  BY <1>5 DEF AtMost, RewardCap
<1>10. reward \in Nat /\ bounds.min <= reward /\ reward <= most
  BY <1>5, <1>7, <1>8, <1>9 DEF AtLeast, AtMost
<1> QED BY <1>4, <1>5, <1>10

\* The validator's bounds are the draft's.
LEMMA BoundsAreKept ==
  ASSUME NEW low \in Nat, NEW high \in Nat, NEW reward \in Nat,
         LeastReward <= low, low <= high, high <= RewardCap, low <= reward, reward <= high
  PROVE  LET kept == NormalizedBounds([min |-> low, max |-> high], RewardCap, low, high)
         IN  /\ kept = [min |-> low, max |-> high]
             /\ AtLeast(kept.min, AtMost(reward, kept.max)) = reward
             /\ ValidateRewardBounds(0, reward)
BY DEF NormalizedBounds, ValidateRewardBounds, AtLeast, AtMost, LeastReward, RewardCap

LEMMA NarrativeIsValid ==
  ASSUME NEW t \in GoodTemplates
  PROVE  /\ ValidateMission(Narrative(t))
         /\ ValidateInteraction(Interaction(t), Interaction(t).primary)
         /\ ValidateStages(TxRequirements)
<1>1. ValidateMission(Narrative(t))
  BY DEF ValidateMission, Narrative
<1>2. ValidateInteraction(Interaction(t), Interaction(t).primary)
  BY DEF ValidateInteraction, Interaction
<1>3. ValidateStages(TxRequirements)
  BY DEF ValidateStages, TxRequirements, RequiredStages
<1> QED BY <1>1, <1>2, <1>3

GoodQuests ==
    {quest \in GeneratedQuest :
        quest.valid /\ quest.asDrafted /\ quest.minValue <= quest.stated}

QuestRulesInv ==
    /\ QuestRulesTypeOK
    /\ ValidatorKeepsTheDraft
    /\ ObjectiveStatesTheMinimum

\* A profile as the engine reads it.
Profile(level, streak, world) ==
    level \in Nat /\ level >= 1 /\ streak \in Nat /\ world \in 1000..1500

\* Whatever is drawn for a template and a profile, the quest is good.
DrawsAreGood(t, level, streak, world) ==
    \A bounds \in RewardBounds(t) :
       \A reward \in RewardAmounts(t, bounds, streak, world) :
          Validated(Draft(t, level, bounds, reward), level) \in GoodQuests

LEMMA QuestIsGood ==
  ASSUME NEW t \in GoodTemplates, NEW level, NEW streak, NEW world,
         Profile(level, streak, world)
  PROVE  DrawsAreGood(t, level, streak, world)
<1> SUFFICES ASSUME NEW bounds \in RewardBounds(t),
                    NEW reward \in RewardAmounts(t, bounds, streak, world)
             PROVE  Validated(Draft(t, level, bounds, reward), level) \in GoodQuests
  BY DEF DrawsAreGood
<1> USE DEF Profile
<1>0. /\ bounds = [min |-> bounds.min, max |-> bounds.max]
      /\ bounds.min \in Nat /\ bounds.max \in Nat
      /\ LeastReward <= bounds.min /\ bounds.min <= AtMost(bounds.max, RewardCap)
      /\ reward \in Nat
      /\ bounds.min <= reward /\ reward <= AtMost(bounds.max, RewardCap)
  BY DraftIsBounded
<1> DEFINE draft == Draft(t, level, bounds, reward)
           quest == Validated(draft, level)
           low == bounds.min
           high == AtMost(bounds.max, RewardCap)
           type == Interaction(t).primary
           difficulty == AtLeast(t.difficulty, DifficultyFromLevel(level))
           stated == MinimumStated(type, difficulty)
           kept == NormalizedBounds(draft.bounds, RewardCap, draft.bounds.min, draft.bounds.max)
           given == AtLeast(kept.min, AtMost(draft.reward, kept.max))
<1>1. /\ bounds = [min |-> low, max |-> bounds.max] /\ low \in Nat /\ bounds.max \in Nat
      /\ LeastReward <= low /\ low <= high /\ reward \in Nat
      /\ low <= reward /\ reward <= high
  BY <1>0
<1>2. high \in Nat /\ high <= RewardCap
  BY <1>1 DEF AtMost, RewardCap
<1>3. /\ draft.difficulty = difficulty /\ draft.reward = reward
      /\ draft.narrative = Narrative(t)
      /\ draft.bounds = [min |-> low, max |-> high]
  BY <1>1 DEF Draft
<1>4. /\ draft.narrative.chainInteraction = Interaction(t)
      /\ draft.narrative.txRequirements = TxRequirements
  BY <1>3 DEF Narrative
<1>5. draft.bounds.min = low /\ draft.bounds.max = high
  BY <1>3
<1> HIDE DEF low, high
<1>6. kept = draft.bounds /\ given = draft.reward /\ ValidateRewardBounds(0, given)
  BY <1>1, <1>2, <1>3, <1>5, BoundsAreKept
<1> DEFINE valid == /\ ValidateRewardBounds(0, given)
                    /\ ValidateMission(draft.narrative)
                    /\ ValidateInteraction(Interaction(t), type)
                    /\ ValidateStages(draft.narrative.txRequirements)
           asDrafted == given = draft.reward /\ kept = draft.bounds
<1>7. quest = [valid |-> valid, level |-> level, difficulty |-> draft.difficulty,
               reward |-> given, asDrafted |-> asDrafted, stated |-> stated,
               minValue |-> IF type = "native_transfer"
                            THEN AtLeast(stated, Interaction(t).minValue)
                            ELSE stated]
  BY <1>3, <1>4 DEF Validated
<1> HIDE DEF draft, quest, kept, given
<1>8. quest.valid /\ quest.asDrafted
  <2>1. (valid = TRUE) /\ (asDrafted = TRUE)
    BY <1>3, <1>4, <1>6, NarrativeIsValid
  <2> HIDE DEF valid, asDrafted
  <2>2. quest.valid = valid /\ quest.asDrafted = asDrafted
    BY <1>7
  <2> QED BY <2>1, <2>2
<1> HIDE DEF valid, asDrafted
<1>9. difficulty \in 1..5 /\ t.difficulty <= difficulty /\ t.difficulty \in 1..5
  BY DEF GoodTemplates, DifficultyFromLevel, AtLeast
<1> HIDE DEF difficulty
<1>10. stated \in Nat
  BY <1>9 DEF MinimumStated, AtMost
<1>11. type = "native_transfer" =>
         /\ t.objectiveType = "native_transfer"
         /\ Interaction(t).minValue = MinimumAsked(t)
  BY DEF Interaction
<1>12. type = "native_transfer" => MinimumAsked(t) \in Int /\ MinimumAsked(t) <= stated
  <2> SUFFICES ASSUME type = "native_transfer"
               PROVE  MinimumAsked(t) \in Int /\ MinimumAsked(t) <= stated
    OBVIOUS
  <2>1. MinimumAsked(t) <= MinimumStated("native_transfer", t.difficulty)
    BY <1>11 DEF GoodTemplates
  <2>2. t.celoReward \in Int
    BY DEF GoodTemplates
  <2>3. MinimumAsked(t) \in Int
    BY <2>2 DEF MinimumAsked, AtLeast, LeastReward
  <2>4. /\ MinimumStated("native_transfer", t.difficulty) \in Int
        /\ MinimumStated("native_transfer", t.difficulty) <= stated
    BY <1>9 DEF MinimumStated, AtMost
  <2> HIDE DEF stated
  <2> QED BY <1>10, <2>1, <2>3, <2>4
<1> HIDE DEF type, stated
<1>13. quest.minValue = stated /\ quest.stated = stated
  BY <1>7, <1>10, <1>11, <1>12 DEF AtLeast
<1>14. quest \in GeneratedQuest
  <2>1. /\ quest.level \in Nat /\ quest.difficulty \in 1..5 /\ quest.reward \in Nat
        /\ quest.stated \in Nat /\ quest.minValue \in Nat
    BY <1>1, <1>3, <1>6, <1>7, <1>9, <1>10, <1>13
  <2>2. quest.valid \in BOOLEAN /\ quest.asDrafted \in BOOLEAN
    BY <1>8
  <2>3. quest = [valid |-> quest.valid, level |-> quest.level,
                 difficulty |-> quest.difficulty, reward |-> quest.reward,
                 asDrafted |-> quest.asDrafted, stated |-> quest.stated,
                 minValue |-> quest.minValue]
    BY <1>7
  <2> QED BY <2>1, <2>2, <2>3 DEF GeneratedQuest
<1> QED BY <1>8, <1>10, <1>13, <1>14 DEF quest, draft, GoodQuests

LEMMA QuestRulesInitEstablishesInv == QuestRulesInit => QuestRulesInv
BY QuestRulesAssumption
   DEF QuestRulesInit, QuestRulesInv, QuestRulesTypeOK, GeneratedQuest, NoQuest,
       ValidatorKeepsTheDraft, ObjectiveStatesTheMinimum, LeastReward

LEMMA QuestRulesNextKeepsInv ==
  QuestRulesInv /\ [QuestRulesNext]_questRulesVars => QuestRulesInv'
<1> SUFFICES ASSUME QuestRulesInv, [QuestRulesNext]_questRulesVars PROVE QuestRulesInv'
  OBVIOUS
<1>1. CASE UNCHANGED questRulesVars
  BY <1>1 DEF QuestRulesInv, questRulesVars, QuestRulesTypeOK, ValidatorKeepsTheDraft,
              ObjectiveStatesTheMinimum
<1>2. ASSUME NEW reported \in PlayerLevels, NEW streak \in Streaks,
             NEW world \in WorldMultipliers, GenerateQuest(reported, streak, world)
      PROVE  QuestRulesInv'
  <2> DEFINE level == AtLeast(1, reported)
             template == SelectedTemplate(level)
  <2>1. level \in Nat /\ level >= 1 /\ Profile(level, streak, world)
    BY QuestRulesAssumption DEF AtLeast, Profile
  <2>2. PICK bounds \in RewardBounds(template) :
           \E reward \in RewardAmounts(template, bounds, streak, world) :
              generated' = Validated(Draft(template, level, bounds, reward), level)
    BY <1>2 DEF GenerateQuest
  <2>3. PICK reward \in RewardAmounts(template, bounds, streak, world) :
           generated' = Validated(Draft(template, level, bounds, reward), level)
    BY <2>2
  <2> HIDE DEF level
  <2>4. template \in GoodTemplates
    BY <2>1, SelectedIsGood
  <2> HIDE DEF template
  <2>5. generated' \in GoodQuests
    <3>1. DrawsAreGood(template, level, streak, world)
      BY <2>1, <2>4, QuestIsGood
    <3>2. Validated(Draft(template, level, bounds, reward), level) \in GoodQuests
      BY <3>1 DEF DrawsAreGood
    <3> QED BY <2>3, <3>2
  <2>6. generatedCount' \in 0..MaxGenerated
    <3>1. generatedCount' = generatedCount + 1 /\ generatedCount < MaxGenerated
      BY <1>2, <2>5 DEF GenerateQuest, GoodQuests
    <3>2. generatedCount \in 0..MaxGenerated /\ MaxGenerated \in Nat
      BY QuestRulesAssumption DEF QuestRulesInv, QuestRulesTypeOK
    <3> QED BY ONLY <3>1, <3>2
  <2> QED BY <2>5, <2>6 DEF QuestRulesInv, QuestRulesTypeOK, ValidatorKeepsTheDraft,
                            ObjectiveStatesTheMinimum, GoodQuests
<1> QED BY <1>1, <1>2 DEF QuestRulesNext

LEMMA QuestRulesInvHolds == QuestRulesSpec => []QuestRulesInv
BY QuestRulesInitEstablishesInv, QuestRulesNextKeepsInv, PTL DEF QuestRulesSpec

\* What is generated is a quest of five difficulties with amounts in Nat.
THEOREM QuestRulesTypeCorrect == QuestRulesSpec => []QuestRulesTypeOK
<1>1. QuestRulesInv => QuestRulesTypeOK
  BY DEF QuestRulesInv
<1> QED BY <1>1, QuestRulesInvHolds, PTL

\* For every level, every streak, every multiplier of the world and either way a
\* tie is rounded: the validator accepts the draft and changes nothing of it.
THEOREM DraftsAreKept == QuestRulesSpec => []ValidatorKeepsTheDraft
<1>1. QuestRulesInv => ValidatorKeepsTheDraft
  BY DEF QuestRulesInv
<1> QED BY <1>1, QuestRulesInvHolds, PTL

\* For every level: who sends what the objective states meets what is verified.
THEOREM ObjectivesSuffice == QuestRulesSpec => []ObjectiveStatesTheMinimum
<1>1. QuestRulesInv => ObjectiveStatesTheMinimum
  BY DEF QuestRulesInv
<1> QED BY <1>1, QuestRulesInvHolds, PTL

-----------------------------------------------------------------------------
(* EventProjector *)

Stored == {eventLog[i] : i \in DOMAIN eventLog}

AllStored(events) == \A i \in DOMAIN events : events[i] \in Stored

\* The events that complete a quest.
Completing == {"verified", "released", "paid"}

\* The events the contracts emit once for a quest; a failure and a payment name the
\* same wallet each time.
EmittedOnce == {"verified", "minted"}

\* What the contracts let the log look like.
LogInv ==
    /\ eventLog = <<>> <=> onchainQuest.status = "None"
    /\ eventLog # <<>> => /\ Len(eventLog) >= 2
                          /\ eventLog[1].type = "reserved"
                          /\ eventLog[2].type = "created"
    /\ \A i \in DOMAIN eventLog :
          /\ i > 2 => eventLog[i].type \notin {"reserved", "created"}
          /\ eventLog[i].type \in Completing => onchainQuest.status = "Claimable"
          /\ eventLog[i].type \in {"failed", "paid"} => eventLog[i].proof = 0
          /\ eventLog[i].type = "failed" => /\ eventLog[i].player = onchainQuest.player
                                            /\ onchainQuest.status # "Available"
          /\ eventLog[i].type = "paid" => eventLog[i].player = "creator"
          /\ \A j \in DOMAIN eventLog :
                /\ i < j /\ eventLog[i].type \in Completing => eventLog[j].type # "failed"
                /\ eventLog[i].type \in EmittedOnce /\ eventLog[j].type = eventLog[i].type
                      => i = j
    /\ onchainQuest.status \in {"None", "Available", "Accepted"}
          => onchainQuest.submissions <= 1

\* Commands work on events of the log, and what is past the first step is recorded.
CommandInv ==
    /\ AllStored(command.events)
    /\ AllStored(letters)
    /\ recorded \subseteq Stored
    /\ command.step = "idle" => command.mode = "none"
    /\ command.step # "idle" => command.events # <<>>
    /\ command.step \in {"influence", "cursor", "resolve"} => Current \in recorded
    /\ resolved \subseteq recorded
    /\ questRow.completedAt => \E e \in Stored : e.type \in Completing

OutcomeInv ==
    /\ OutcomeCountedOnce
    /\ "COMPLETED" \in outcome.history <=> Recorded("verified") # {}
    /\ "FAILED" \in outcome.history <=> Recorded("failed") # {}

\* How many events of the log a replay of all of it has put into the rows.
Done == command.whole - Len(command.events) + (IF command.step = "rows" THEN 0 ELSE 1)

\* The row is the first projection's, but for what it held before.
Follows(n) ==
    LET first == FirstProjection[n] IN
    /\ questRow.status = first.status
    /\ questRow.payout = first.payout
    /\ n >= 2 => questRow.player = first.player
    /\ first.completedAt => questRow.completedAt

ReplayInv ==
    (command.mode = "replay" /\ command.whole = Len(eventLog)) =>
        /\ Len(command.events) <= command.whole
        /\ \A i \in DOMAIN command.events :
              command.events[i] = eventLog[command.whole - Len(command.events) + i]
        /\ Done >= 1 => Follows(Done)

ProjectorInv == EventProjectorTypeOK /\ LogInv /\ CommandInv /\ OutcomeInv /\ ReplayInv

-----------------------------------------------------------------------------
(* The contracts' side of the log *)

\* An event that the log may get in a step.
Fits(e) ==
    /\ e.type \notin {"reserved", "created"}
    /\ e.type \in Completing => onchainQuest'.status = "Claimable"
    /\ e.type \in {"failed", "paid"} => e.proof = 0
    /\ e.type = "failed" => e.player = onchainQuest'.player
    /\ e.type = "paid" => e.player = "creator"
    /\ e.type \in {"failed", "verified"} => onchainQuest.status # "Claimable"
    /\ e.type = "minted" => \A i \in DOMAIN eventLog : eventLog[i].type # "minted"

LEMMA LogGrows ==
  ASSUME LogInv, eventLog \in Seq(Events), eventLog # <<>>,
         NEW new \in Seq(Events), eventLog' = eventLog \o new,
         onchainQuest.status = "Claimable" => onchainQuest'.status = "Claimable",
         onchainQuest'.status \notin {"None", "Available"},
         onchainQuest.status # "Available" => onchainQuest'.player = onchainQuest.player,
         onchainQuest'.status \in {"Available", "Accepted"} => onchainQuest'.submissions <= 1,
         \A k \in DOMAIN new :
            /\ Fits(new[k])
            /\ new[k].type = "failed" => \A j \in DOMAIN new : new[j].type \notin Completing
            /\ new[k].type \in EmittedOnce => new = <<new[k]>>
  PROVE  LogInv'
<1> DEFINE n == Len(eventLog)
<1>1. /\ n \in Nat /\ n >= 2 /\ Len(new) \in Nat /\ Len(eventLog') = n + Len(new)
      /\ \A i \in 1..n : eventLog'[i] = eventLog[i]
      /\ \A i \in DOMAIN eventLog' : i > n => i - n \in DOMAIN new /\ eventLog'[i] = new[i - n]
      /\ DOMAIN eventLog = 1..n /\ DOMAIN eventLog' = 1..(n + Len(new))
      /\ DOMAIN new = 1..Len(new)
  BY DEF LogInv
<1>2. eventLog' # <<>> /\ eventLog'[1] = eventLog[1] /\ eventLog'[2] = eventLog[2]
  BY <1>1
<1>3. ASSUME NEW i \in DOMAIN eventLog'
      PROVE  /\ i > 2 => eventLog'[i].type \notin {"reserved", "created"}
             /\ eventLog'[i].type \in Completing => onchainQuest'.status = "Claimable"
             /\ eventLog'[i].type \in {"failed", "paid"} => eventLog'[i].proof = 0
             /\ eventLog'[i].type = "failed" => eventLog'[i].player = onchainQuest'.player
             /\ eventLog'[i].type = "paid" => eventLog'[i].player = "creator"
  <2>1. CASE i <= n
    BY <1>1, <2>1 DEF LogInv
  <2>2. CASE i > n
    BY <1>1, <2>2 DEF Fits
  <2> QED BY <1>1, <2>1, <2>2
<1>4. ASSUME NEW i \in DOMAIN eventLog', NEW j \in DOMAIN eventLog', i < j,
             eventLog'[i].type \in Completing
      PROVE  eventLog'[j].type # "failed"
  <2>1. CASE j <= n
    BY <1>1, <1>4, <2>1 DEF LogInv
  <2>2. CASE i <= n /\ j > n
    <3>1. onchainQuest.status = "Claimable"
      BY <1>1, <1>4, <2>2 DEF LogInv
    <3> QED BY <1>1, <2>2, <3>1 DEF Fits
  <2>3. CASE i > n
    BY <1>1, <1>4, <2>3
  <2> QED BY <1>1, <1>4, <2>1, <2>2, <2>3
<1>5. ASSUME NEW i \in DOMAIN eventLog', NEW j \in DOMAIN eventLog',
             eventLog'[i].type \in EmittedOnce, eventLog'[j].type = eventLog'[i].type, i < j
      PROVE  FALSE
  <2>1. CASE j <= n
    BY <1>1, <1>5, <2>1 DEF LogInv
  <2>2. CASE i <= n /\ j > n
    <3>1. CASE eventLog'[i].type = "verified"
      <4>1. onchainQuest.status = "Claimable"
        BY <1>1, <2>2, <3>1 DEF LogInv, Completing
      <4> QED BY <1>1, <1>5, <2>2, <3>1, <4>1 DEF Fits
    <3>2. CASE eventLog'[i].type = "minted"
      BY <1>1, <1>5, <2>2, <3>2 DEF Fits
    <3> QED BY <1>5, <3>1, <3>2 DEF EmittedOnce
  <2>3. CASE i > n
    <3>1. new = <<new[i - n]>> /\ i - n \in DOMAIN new /\ j - n \in DOMAIN new
      BY <1>1, <1>5, <2>3
    <3>2. Len(new) = 1
      BY <3>1
    <3> QED BY <1>1, <1>5, <3>1, <3>2
  <2> QED BY <1>1, <1>5, <2>1, <2>2, <2>3
<1>6. \A i, j \in DOMAIN eventLog' :
         eventLog'[i].type \in EmittedOnce /\ eventLog'[j].type = eventLog'[i].type => i = j
  <2> SUFFICES ASSUME NEW i \in DOMAIN eventLog', NEW j \in DOMAIN eventLog',
                      eventLog'[i].type \in EmittedOnce, eventLog'[j].type = eventLog'[i].type,
                      i # j
               PROVE  FALSE
    OBVIOUS
  <2>1. i < j \/ j < i
    BY <1>1
  <2> QED BY <1>5, <2>1
<1> QED BY <1>2, <1>1, <1>3, <1>4, <1>6 DEF LogInv

LEMMA OneLogged ==
  ASSUME LogInv, eventLog \in Seq(Events), eventLog # <<>>,
         NEW e \in Events, eventLog' = eventLog \o <<e>>, Fits(e),
         onchainQuest.status = "Claimable" => onchainQuest'.status = "Claimable",
         onchainQuest'.status \notin {"None", "Available"},
         onchainQuest.status # "Available" => onchainQuest'.player = onchainQuest.player,
         onchainQuest'.status \in {"Available", "Accepted"} => onchainQuest'.submissions <= 1
  PROVE  LogInv'
<1> DEFINE new == <<e>>
<1>1. new \in Seq(Events) /\ \A k \in DOMAIN new : new[k] = e
  OBVIOUS
<1>2. e.type = "failed" => e.type \notin Completing
  BY DEF Completing
<1>3. eventLog' = eventLog \o new /\ new = <<e>>
  OBVIOUS
<1> HIDE DEF new
<1> QED BY <1>1, <1>2, <1>3, LogGrows

LEMMA TwoLogged ==
  ASSUME LogInv, eventLog \in Seq(Events), eventLog # <<>>,
         NEW e1 \in Events, NEW e2 \in Events, eventLog' = eventLog \o <<e1, e2>>,
         Fits(e1), Fits(e2), e1.type \notin EmittedOnce, e2.type \notin EmittedOnce,
         e1.type \notin {"failed"}, e2.type = "failed" => e1.type \notin Completing,
         onchainQuest.status = "Claimable" => onchainQuest'.status = "Claimable",
         onchainQuest'.status \notin {"None", "Available"},
         onchainQuest.status # "Available" => onchainQuest'.player = onchainQuest.player,
         onchainQuest'.status \in {"Available", "Accepted"} => onchainQuest'.submissions <= 1
  PROVE  LogInv'
<1> DEFINE new == <<e1, e2>>
<1>1. new \in Seq(Events) /\ \A k \in DOMAIN new : new[k] \in {e1, e2}
  OBVIOUS
<1>2. e2.type = "failed" => e2.type \notin Completing
  BY DEF Completing
<1>3. eventLog' = eventLog \o new
  OBVIOUS
<1> HIDE DEF new
<1> QED BY <1>1, <1>2, <1>3, LogGrows

LEMMA OnchainTypes ==
  ASSUME EventProjectorTypeOK
  PROVE  /\ eventLog \in Seq(Events)
         /\ onchainQuest \in [status : OnchainStatus, player : Wallets, submissions : 0..2]
BY DEF EventProjectorTypeOK

OnchainTyped ==
    onchainQuest \in [status : OnchainStatus, player : Wallets, submissions : 0..2]

LEMMA EventTyped ==
  ASSUME NEW type \in EventTypes, NEW proof \in 0..2, NEW player \in Wallets
  PROVE  /\ Event(type, player) \in Events /\ ProofEvent(type, proof, player) \in Events
         /\ Event(type, player).type = type /\ Event(type, player).proof = 0
         /\ Event(type, player).player = player
         /\ ProofEvent(type, proof, player).type = type
BY DEF Event, ProofEvent, Events

ContractStep ==
    \/ QuestIsCreated
    \/ \E player \in Wallets \ {"nobody"} : QuestIsAccepted(player)
    \/ ProofIsSubmitted
    \/ QuestIsVerified
    \/ QuestIsFailed
    \/ QuestIsCancelled
    \/ RewardIsSettled
    \/ \E player \in Wallets \ {"nobody"} : RewardIsMinted(player)

LogKept ==
    /\ \E new \in Seq(Events) : new # <<>> /\ Emitted(new)
    /\ OnchainTyped'
    /\ LogInv'

\* Every contract step appends to the log, and keeps what the log looks like.
LEMMA ContractStepLogs ==
  ASSUME EventProjectorTypeOK, LogInv, ContractStep
  PROVE  LogKept
<1> USE OnchainTypes
<1>1. CASE QuestIsCreated
  <2> DEFINE new == <<Event("reserved", "creator"), Event("created", "creator")>>
  <2>p. onchainQuest.player \in Wallets /\ "creator" \in Wallets
    BY OnchainTypes DEF Wallets
  <2>1. Event("reserved", "creator") \in Events /\ Event("created", "creator") \in Events
    BY EventTyped, <2>p DEF EventTypes
  <2>2. new \in Seq(Events) /\ new # <<>> /\ Emitted(new) /\ eventLog = <<>>
    BY <1>1, <2>1 DEF QuestIsCreated, LogInv
  <2>3. eventLog' = new
    BY <2>2 DEF Emitted
  <2>4. /\ OnchainTyped' /\ onchainQuest'.status = "Available"
        /\ onchainQuest'.submissions <= 1
    BY <1>1 DEF QuestIsCreated, OnchainTyped, OnchainStatus, LogInv
  <2>5. /\ Event("reserved", "creator").type = "reserved"
        /\ Event("created", "creator").type = "created"
    BY DEF Event, ProofEvent
  <2>6. /\ Len(new) = 2 /\ DOMAIN new = 1..2
        /\ new[1] = Event("reserved", "creator") /\ new[2] = Event("created", "creator")
    OBVIOUS
  <2>7. \A i \in DOMAIN new : i <= 2 /\ new[i].type \in {"reserved", "created"}
    BY <2>5, <2>6
  <2> HIDE DEF new
  <2>8. LogInv'
    BY <2>2, <2>3, <2>4, <2>5, <2>6, <2>7 DEF LogInv, Completing
  <2> QED BY <2>2, <2>4, <2>8 DEF LogKept
<1>2. ASSUME NEW player \in Wallets \ {"nobody"}, QuestIsAccepted(player) PROVE LogKept
  <2> DEFINE new == <<Event("started", player)>>
  <2>p. onchainQuest.player \in Wallets /\ "creator" \in Wallets
    BY OnchainTypes DEF Wallets
  <2>1. /\ Event("started", player) \in Events /\ Event("started", player).type = "started"
    BY EventTyped, <2>p DEF EventTypes
  <2>2. new \in Seq(Events) /\ new # <<>> /\ Emitted(new) /\ eventLog # <<>>
    BY <1>2, <2>1 DEF QuestIsAccepted, LogInv
  <2>3. /\ OnchainTyped' /\ onchainQuest'.status = "Accepted"
        /\ onchainQuest.status = "Available"
        /\ onchainQuest'.status \in {"Available", "Accepted"} => onchainQuest'.submissions <= 1
        /\ onchainQuest.status # "Available" => onchainQuest'.player = onchainQuest.player
    BY <1>2 DEF QuestIsAccepted, OnchainTyped, OnchainStatus, LogInv
  <2>4. eventLog' = eventLog \o new
    BY <2>2 DEF Emitted
  <2>5. Fits(Event("started", player))
    BY <2>1, <2>3 DEF Fits, Completing
  <2>6. LogInv'
    BY <2>1, <2>2, <2>3, <2>4, <2>5, OneLogged
  <2> QED BY <2>2, <2>3, <2>6 DEF LogKept
<1>3. CASE ProofIsSubmitted
  <2> DEFINE new == <<ProofEvent("submitted", onchainQuest.submissions + 1,
                                  onchainQuest.player)>>
  <2>p. onchainQuest.player \in Wallets /\ "creator" \in Wallets
    BY OnchainTypes DEF Wallets
  <2>0. onchainQuest.submissions + 1 \in 0..2
    BY <1>3 DEF ProofIsSubmitted, LogInv
  <2>1. /\ ProofEvent("submitted", onchainQuest.submissions + 1, onchainQuest.player) \in Events
        /\ ProofEvent("submitted", onchainQuest.submissions + 1, onchainQuest.player).type
             = "submitted"
    BY EventTyped, <2>p, <2>0 DEF EventTypes
  <2>2. new \in Seq(Events) /\ new # <<>> /\ Emitted(new) /\ eventLog # <<>>
    BY <1>3, <2>1 DEF ProofIsSubmitted, LogInv
  <2>3. /\ OnchainTyped' /\ onchainQuest'.status = "Completed"
        /\ onchainQuest.status = "Accepted"
        /\ onchainQuest'.status \in {"Available", "Accepted"} => onchainQuest'.submissions <= 1
        /\ onchainQuest.status # "Available" => onchainQuest'.player = onchainQuest.player
    BY <1>3, <2>0 DEF ProofIsSubmitted, OnchainTyped, OnchainStatus
  <2>4. eventLog' = eventLog \o new
    BY <2>2 DEF Emitted
  <2>5. Fits(ProofEvent("submitted", onchainQuest.submissions + 1, onchainQuest.player))
    BY <2>1, <2>3 DEF Fits, Completing
  <2>6. LogInv'
    BY <2>1, <2>2, <2>3, <2>4, <2>5, OneLogged
  <2> QED BY <2>2, <2>3, <2>6 DEF LogKept
<1>4. CASE QuestIsVerified
  <2> DEFINE new == <<ProofEvent("verified", onchainQuest.submissions, onchainQuest.player)>>
  <2>p. onchainQuest.player \in Wallets /\ "creator" \in Wallets
    BY OnchainTypes DEF Wallets
  <2>0. onchainQuest.submissions \in 0..2
    BY <1>4 DEF QuestIsVerified, LogInv
  <2>1. /\ ProofEvent("verified", onchainQuest.submissions, onchainQuest.player) \in Events
        /\ ProofEvent("verified", onchainQuest.submissions, onchainQuest.player).type = "verified"
    BY EventTyped, <2>p, <2>0 DEF EventTypes
  <2>2. new \in Seq(Events) /\ new # <<>> /\ Emitted(new) /\ eventLog # <<>>
    BY <1>4, <2>1 DEF QuestIsVerified, LogInv
  <2>3. /\ OnchainTyped' /\ onchainQuest'.status = "Claimable"
        /\ onchainQuest.status = "Completed"
        /\ onchainQuest'.status \in {"Available", "Accepted"} => onchainQuest'.submissions <= 1
        /\ onchainQuest.status # "Available" => onchainQuest'.player = onchainQuest.player
    BY <1>4 DEF QuestIsVerified, OnchainTyped, OnchainStatus, LogInv
  <2>4. eventLog' = eventLog \o new
    BY <2>2 DEF Emitted
  <2>5. Fits(ProofEvent("verified", onchainQuest.submissions, onchainQuest.player))
    BY <2>1, <2>3 DEF Fits, Completing
  <2>6. LogInv'
    BY <2>1, <2>2, <2>3, <2>4, <2>5, OneLogged
  <2> QED BY <2>2, <2>3, <2>6 DEF LogKept
<1>5. CASE QuestIsFailed
  <2> DEFINE new == <<Event("refunded", onchainQuest.player),
                      Event("failed", onchainQuest.player)>>
  <2>p. onchainQuest.player \in Wallets /\ "creator" \in Wallets
    BY OnchainTypes DEF Wallets
  <2>1. /\ Event("refunded", onchainQuest.player) \in Events
        /\ Event("refunded", onchainQuest.player).type = "refunded"
        /\ Event("failed", onchainQuest.player) \in Events
        /\ Event("failed", onchainQuest.player).type = "failed"
        /\ Event("failed", onchainQuest.player).proof = 0
        /\ Event("failed", onchainQuest.player).player = onchainQuest.player
    BY EventTyped, <2>p DEF EventTypes
  <2>2. new \in Seq(Events) /\ new # <<>> /\ Emitted(new) /\ eventLog # <<>>
    BY <1>5, <2>1 DEF QuestIsFailed, LogInv
  <2>3. /\ OnchainTyped' /\ onchainQuest'.status = "Accepted"
        /\ onchainQuest.status = "Completed"
        /\ onchainQuest'.status \in {"Available", "Accepted"} => onchainQuest'.submissions <= 1
        /\ onchainQuest.status # "Available" => onchainQuest'.player = onchainQuest.player
    BY <1>5 DEF QuestIsFailed, OnchainTyped, OnchainStatus, LogInv
  <2>4. eventLog' = eventLog \o new
    BY <2>2 DEF Emitted
  <2>5. /\ Fits(Event("refunded", onchainQuest.player))
        /\ Fits(Event("failed", onchainQuest.player))
    BY <2>1, <2>3 DEF Fits, Completing
  <2>6. LogInv'
    BY <2>1, <2>2, <2>3, <2>4, <2>5, TwoLogged DEF Completing, EmittedOnce
  <2> QED BY <2>2, <2>3, <2>6 DEF LogKept
<1>6. CASE QuestIsCancelled
  <2> DEFINE new == <<Event("refunded", onchainQuest.player)>>
  <2>p. onchainQuest.player \in Wallets /\ "creator" \in Wallets
    BY OnchainTypes DEF Wallets
  <2>1. /\ Event("refunded", onchainQuest.player) \in Events
        /\ Event("refunded", onchainQuest.player).type = "refunded"
    BY EventTyped, <2>p DEF EventTypes
  <2>2. new \in Seq(Events) /\ new # <<>> /\ Emitted(new) /\ eventLog # <<>>
    BY <1>6, <2>1 DEF QuestIsCancelled, LogInv
  <2>3. /\ OnchainTyped' /\ onchainQuest'.status = "Cancelled"
        /\ onchainQuest.status = "Accepted"
        /\ onchainQuest'.status \in {"Available", "Accepted"} => onchainQuest'.submissions <= 1
        /\ onchainQuest.status # "Available" => onchainQuest'.player = onchainQuest.player
    BY <1>6 DEF QuestIsCancelled, OnchainTyped, OnchainStatus, LogInv
  <2>4. eventLog' = eventLog \o new
    BY <2>2 DEF Emitted
  <2>5. Fits(Event("refunded", onchainQuest.player))
    BY <2>1, <2>3 DEF Fits, Completing
  <2>6. LogInv'
    BY <2>1, <2>2, <2>3, <2>4, <2>5, OneLogged
  <2> QED BY <2>2, <2>3, <2>6 DEF LogKept
<1>7. CASE RewardIsSettled
  <2> DEFINE new == <<Event("released", "creator"), Event("paid", "creator")>>
  <2>p. onchainQuest.player \in Wallets /\ "creator" \in Wallets
    BY OnchainTypes DEF Wallets
  <2>1. /\ Event("released", "creator") \in Events
        /\ Event("released", "creator").type = "released"
        /\ Event("paid", "creator") \in Events
        /\ Event("paid", "creator").type = "paid"
        /\ Event("paid", "creator").proof = 0
        /\ Event("paid", "creator").player = "creator"
    BY EventTyped, <2>p DEF EventTypes
  <2>2. new \in Seq(Events) /\ new # <<>> /\ Emitted(new) /\ eventLog # <<>>
    BY <1>7, <2>1 DEF RewardIsSettled, LogInv
  <2>3. /\ OnchainTyped' /\ onchainQuest'.status = "Claimable"
        /\ onchainQuest.status = "Claimable"
        /\ onchainQuest'.status \in {"Available", "Accepted"} => onchainQuest'.submissions <= 1
        /\ onchainQuest.status # "Available" => onchainQuest'.player = onchainQuest.player
    BY <1>7 DEF RewardIsSettled, OnchainTyped, OnchainStatus, LogInv
  <2>4. eventLog' = eventLog \o new
    BY <2>2 DEF Emitted
  <2>5. /\ Fits(Event("released", "creator"))
        /\ Fits(Event("paid", "creator"))
    BY <2>1, <2>3 DEF Fits, Completing
  <2>6. LogInv'
    BY <2>1, <2>2, <2>3, <2>4, <2>5, TwoLogged DEF Completing, EmittedOnce
  <2> QED BY <2>2, <2>3, <2>6 DEF LogKept
<1>8. ASSUME NEW player \in Wallets \ {"nobody"}, RewardIsMinted(player) PROVE LogKept
  <2> DEFINE new == <<Event("minted", player)>>
  <2>p. onchainQuest.player \in Wallets /\ "creator" \in Wallets
    BY OnchainTypes DEF Wallets
  <2>1. /\ Event("minted", player) \in Events
        /\ Event("minted", player).type = "minted"
        /\ Event("minted", player).proof = 0
    BY EventTyped, <2>p DEF EventTypes
  <2>2. new \in Seq(Events) /\ new # <<>> /\ Emitted(new) /\ eventLog # <<>>
    BY <1>8, <2>1 DEF RewardIsMinted, LogInv
  <2>3. /\ OnchainTyped' /\ onchainQuest'.status = "Claimable"
        /\ onchainQuest.status = "Claimable"
        /\ onchainQuest'.status \in {"Available", "Accepted"} => onchainQuest'.submissions <= 1
        /\ onchainQuest.status # "Available" => onchainQuest'.player = onchainQuest.player
    BY <1>8 DEF RewardIsMinted, OnchainTyped, OnchainStatus, LogInv
  <2>4. eventLog' = eventLog \o new
    BY <2>2 DEF Emitted
  <2>5. Fits(Event("minted", player))
    BY <1>8, <2>1, <2>3 DEF RewardIsMinted, Fits, Completing
  <2>6. LogInv'
    BY <2>1, <2>2, <2>3, <2>4, <2>5, OneLogged
  <2> QED BY <2>2, <2>3, <2>6 DEF LogKept
<1> QED BY <1>1, <1>2, <1>3, <1>4, <1>5, <1>6, <1>7, <1>8 DEF ContractStep

\* The log only grows, so that what refers to it still does.
LEMMA ContractStepKeepsInv ==
  ASSUME ProjectorInv, ContractStep
  PROVE  ProjectorInv'
<1>1. /\ EventProjectorTypeOK /\ LogInv /\ CommandInv /\ OutcomeInv
      /\ LogKept
  BY ContractStepLogs DEF ProjectorInv
<1>2. PICK new \in Seq(Events) : new # <<>> /\ Emitted(new)
  BY <1>1 DEF LogKept
<1>3. /\ eventLog' = eventLog \o new
      /\ UNCHANGED <<questRow, proofRows, outcome, recorded, letters, resolved, command,
                     commandsLeft>>
  BY <1>2 DEF Emitted, tableVars
<1>4. /\ eventLog' \in Seq(Events) /\ Len(eventLog') > Len(eventLog) /\ Len(eventLog) \in Nat
      /\ DOMAIN eventLog \subseteq DOMAIN eventLog'
      /\ \A i \in DOMAIN eventLog : eventLog'[i] = eventLog[i]
  BY <1>1, <1>2, <1>3, OnchainTypes
<1>5. EventProjectorTypeOK'
  <2>1. command.whole \in 0..Len(eventLog')
    BY <1>1, <1>4 DEF EventProjectorTypeOK
  <2> QED BY <1>1, <1>3, <1>4, <2>1 DEF EventProjectorTypeOK, LogKept, OnchainTyped
<1>6. Stored \subseteq Stored'
  BY <1>4 DEF Stored
<1>7. CommandInv'
  BY <1>1, <1>3, <1>6 DEF CommandInv, AllStored, Current
<1>8. OutcomeInv'
  BY <1>1, <1>3 DEF OutcomeInv, OutcomeCountedOnce, Recorded
<1>9. ReplayInv'
  <2>1. command.whole \in 0..Len(eventLog)
    BY <1>1 DEF EventProjectorTypeOK
  <2>2. command'.whole # Len(eventLog')
    BY <1>3, <1>4, <2>1
  <2> QED BY <2>2 DEF ReplayInv
<1> QED BY <1>1, <1>5, <1>7, <1>8, <1>9 DEF ProjectorInv, LogKept

-----------------------------------------------------------------------------
(* Commands leave the contracts alone *)

\* The event at work.
LEMMA AtWork ==
  ASSUME EventProjectorTypeOK, CommandInv, command.step # "idle"
  PROVE  /\ command.events \in Seq(Events) /\ command.events # <<>>
         /\ Len(command.events) \in Nat \ {0}
         /\ Current = command.events[1] /\ Current \in Events /\ Current \in Stored
         /\ Tail(command.events) \in Seq(Events)
         /\ AllStored(Tail(command.events))
         /\ Len(Tail(command.events)) = Len(command.events) - 1
         /\ \A i \in DOMAIN Tail(command.events) :
               Tail(command.events)[i] = command.events[i + 1]
<1>1. command.events \in Seq(Events) /\ command.events # <<>>
  BY DEF EventProjectorTypeOK, CommandInv
<1>2. /\ Len(command.events) \in Nat \ {0} /\ 1 \in DOMAIN command.events
      /\ Current = command.events[1]
      /\ Tail(command.events) \in Seq(Events)
      /\ Len(Tail(command.events)) = Len(command.events) - 1
      /\ \A i \in DOMAIN Tail(command.events) :
            /\ i + 1 \in DOMAIN command.events
            /\ Tail(command.events)[i] = command.events[i + 1]
  BY <1>1 DEF Current
<1>3. Current \in Events /\ Current \in Stored
  BY <1>1, <1>2 DEF CommandInv, AllStored
<1>4. AllStored(Tail(command.events))
  BY <1>2 DEF CommandInv, AllStored
<1> QED BY <1>1, <1>2, <1>3, <1>4

LEMMA LogStays ==
  ASSUME LogInv, UNCHANGED onchainVars
  PROVE  LogInv' /\ Stored' = Stored
BY DEF LogInv, Stored, onchainVars

\* A sequence without an event has the others.
LEMMA WithoutTyped ==
  ASSUME NEW events \in Seq(Events), NEW e
  PROVE  /\ Without(events, e) \in Seq(Events)
         /\ \A k \in DOMAIN Without(events, e) :
               \E i \in DOMAIN events : Without(events, e)[k] = events[i]
<1>1. CASE \A i \in DOMAIN events : events[i] # e
  BY <1>1 DEF Without
<1>2. CASE ~ \A i \in DOMAIN events : events[i] # e
  <2> DEFINE i == CHOOSE i \in DOMAIN events : events[i] = e
             before == SubSeq(events, 1, i - 1)
             after == SubSeq(events, i + 1, Len(events))
  <2>1. i \in DOMAIN events /\ Without(events, e) = before \o after
    BY <1>2 DEF Without
  <2> HIDE DEF i
  <2>2. i \in 1..Len(events) /\ Len(events) \in Nat
    BY <2>1
  <2>3. /\ before \in Seq(Events) /\ Len(before) = i - 1
        /\ \A k \in DOMAIN before : k \in DOMAIN events /\ before[k] = events[k]
    BY <2>2, SubSeqProperties
  <2>4. /\ after \in Seq(Events) /\ Len(after) = Len(events) - i
        /\ \A k \in DOMAIN after : i + k \in DOMAIN events /\ after[k] = events[i + k]
    BY <2>2, SubSeqProperties
  <2> HIDE DEF before, after
  <2>5. \A k \in DOMAIN (before \o after) :
           \/ k \in DOMAIN before /\ (before \o after)[k] = before[k]
           \/ k - Len(before) \in DOMAIN after
                /\ (before \o after)[k] = after[k - Len(before)]
    BY <2>3, <2>4
  <2> QED BY <2>1, <2>3, <2>4, <2>5
<1> QED BY <1>1, <1>2

-----------------------------------------------------------------------------
(* The first projection of the log *)

\* The rows after n of the events, given the rows after fewer.
ProjectionStep(f, n) == IF n = 0 THEN NoQuestRow ELSE RowAfter(f[n - 1], eventLog[n])

\* The projection of the log exists: of its first n events, by induction on n.
LEMMA ProjectionExists ==
  ASSUME eventLog \in Seq(Events)
  PROVE  FirstProjection = [n \in 0..Len(eventLog) |-> ProjectionStep(FirstProjection, n)]
<1> DEFINE Of(g, m) == g = [n \in 0..m |-> ProjectionStep(g, n)]
           I == {m \in Nat : m <= Len(eventLog) => \E g : Of(g, m)}
<1>1. 0 \in I
  <2> DEFINE g == [n \in 0..0 |-> NoQuestRow]
  <2>1. Of(g, 0)
    BY DEF ProjectionStep
  <2> QED BY <2>1
<1>2. ASSUME NEW m \in Nat, m \in I PROVE m + 1 \in I
  <2> SUFFICES ASSUME m + 1 <= Len(eventLog) PROVE \E g : Of(g, m + 1)
    OBVIOUS
  <2>1. Len(eventLog) \in Nat
    OBVIOUS
  <2>2. PICK g : Of(g, m)
    BY <1>2, <2>1
  <2> DEFINE h == [n \in 0..(m + 1) |->
                      IF n <= m THEN g[n] ELSE RowAfter(g[m], eventLog[m + 1])]
  <2>3. \A n \in 0..m : h[n] = g[n] /\ g[n] = ProjectionStep(g, n)
    <3>1. \A n \in 0..m : n \in 0..(m + 1) /\ n <= m
      OBVIOUS
    <3>2. \A n \in 0..m : h[n] = g[n]
      BY <3>1
    <3> HIDE DEF h
    <3>3. \A n \in 0..m : g[n] = ProjectionStep(g, n)
      BY <2>2
    <3> QED BY <3>2, <3>3
  <2>4. h[m + 1] = RowAfter(h[m], eventLog[m + 1])
    BY <2>3
  <2>5. ASSUME NEW n \in 0..(m + 1) PROVE h[n] = ProjectionStep(h, n)
    <3>1. CASE n = m + 1
      BY <2>4, <3>1 DEF ProjectionStep
    <3>2. CASE n <= m
      <4>1. n # 0 => n - 1 \in 0..m
        BY <3>2
      <4> HIDE DEF h
      <4> QED BY <2>3, <3>2, <4>1 DEF ProjectionStep
    <3> QED BY <3>1, <3>2
  <2>6. DOMAIN h = 0..(m + 1) /\ h = [n \in 0..(m + 1) |-> h[n]]
    OBVIOUS
  <2> HIDE DEF h
  <2>7. Of(h, m + 1)
    BY <2>5, <2>6
  <2> QED BY <2>7
<1> HIDE DEF I
<1>3. \A m \in Nat : m \in I
  BY <1>1, <1>2, NaturalsBySuccessor
<1>4. \E g : Of(g, Len(eventLog))
  BY <1>3 DEF I
<1> QED BY <1>4 DEF FirstProjection, ProjectionStep

\* Stated of the log and the quest in the contract, so that it can be said of the
\* next state too.
LEMMA ProjectionUnfolds ==
  eventLog \in Seq(Events) =>
    \A n \in 0..Len(eventLog) :
       FirstProjection[n] = IF n = 0 THEN NoQuestRow
                            ELSE RowAfter(FirstProjection[n - 1], eventLog[n])
BY ProjectionExists DEF ProjectionStep

\* It depends on the log and the quest in the contract only.
LEMMA ProjectionStays ==
  ASSUME eventLog \in Seq(Events), UNCHANGED onchainVars
  PROVE  \A n \in 0..Len(eventLog) : FirstProjection'[n] = FirstProjection[n]
<1> DEFINE I == {n \in Nat : n <= Len(eventLog) => FirstProjection'[n] = FirstProjection[n]}
<1>1. /\ eventLog' = eventLog /\ onchainQuest' = onchainQuest /\ Len(eventLog) \in Nat
      /\ eventLog' \in Seq(Events)
  BY DEF onchainVars
<1>2. \A r, e : RowAfter(r, e)' = RowAfter(r, e)
  BY <1>1 DEF RowAfter, ForcedStatus, SnapshotStatus, PlayerAfter, CompletedAfter, PayoutAfter
<1>3. (eventLog \in Seq(Events) =>
         \A n \in 0..Len(eventLog) :
            FirstProjection[n] = IF n = 0 THEN NoQuestRow
                                 ELSE RowAfter(FirstProjection[n - 1], eventLog[n]))'
  BY ProjectionUnfolds, PTL
<1>4. \A n \in 0..Len(eventLog) :
         FirstProjection'[n] = IF n = 0 THEN NoQuestRow
                               ELSE RowAfter(FirstProjection'[n - 1], eventLog[n])
  BY <1>1, <1>2, <1>3
<1>5. 0 \in I
  BY <1>1, <1>4, ProjectionUnfolds
<1>6. ASSUME NEW n \in Nat, n \in I PROVE n + 1 \in I
  BY <1>1, <1>4, <1>6, ProjectionUnfolds
<1> HIDE DEF I
<1>7. \A n \in Nat : n \in I
  BY <1>5, <1>6, NaturalsBySuccessor
<1> QED BY <1>1, <1>7 DEF I

\* Projecting the next event of the log keeps the row with the first projection.
LEMMA FollowsOn ==
  ASSUME LogInv, eventLog \in Seq(Events), NEW n \in Nat, n + 1 <= Len(eventLog),
         n >= 1 => Follows(n)
  PROVE  LET after == RowAfter(questRow, eventLog[n + 1])
             first == FirstProjection[n + 1]
         IN /\ after.status = first.status
            /\ after.payout = first.payout
            /\ n + 1 >= 2 => after.player = first.player
            /\ first.completedAt => after.completedAt
<1> DEFINE e == eventLog[n + 1]
           past == FirstProjection[n]
<1>1. /\ Len(eventLog) \in Nat /\ eventLog # <<>> /\ n + 1 \in DOMAIN eventLog
      /\ FirstProjection[n + 1] = RowAfter(past, e)
      /\ n = 0 => past = NoQuestRow
  BY ProjectionUnfolds
<1>2. /\ n = 0 => e.type = "reserved"
      /\ n = 1 => e.type = "created"
      /\ n >= 2 => e.type \notin {"reserved", "created"}
  BY <1>1 DEF LogInv
<1> HIDE DEF e
<1>3. RowAfter(questRow, e).status = RowAfter(past, e).status
  BY DEF RowAfter
<1>4. RowAfter(questRow, e).payout = RowAfter(past, e).payout
  <2>1. e.type = "reserved" \/ questRow.payout = past.payout
    BY <1>2 DEF Follows
  <2>2. PayoutAfter(questRow, e) = PayoutAfter(past, e)
    BY <2>1 DEF PayoutAfter
  <2> QED BY <2>2 DEF RowAfter
<1>5. n + 1 >= 2 => RowAfter(questRow, e).player = RowAfter(past, e).player
  <2>1. n + 1 >= 2 => e.type # "reserved"
    BY <1>2
  <2>2. n + 1 >= 2 => PlayerAfter(questRow, e) = PlayerAfter(past, e)
    BY <2>1 DEF PlayerAfter
  <2> QED BY <2>2 DEF RowAfter
<1>6. RowAfter(past, e).completedAt => RowAfter(questRow, e).completedAt
  BY <1>1 DEF RowAfter, CompletedAfter, Follows, NoQuestRow
<1> QED BY <1>1, <1>3, <1>4, <1>5, <1>6 DEF e

\* Once an event completes the quest, the first projection keeps it completed.
LEMMA CompletedStays ==
  ASSUME LogInv, eventLog \in Seq(Events), NEW i \in DOMAIN eventLog,
         eventLog[i].type \in Completing
  PROVE  FirstProjection[Len(eventLog)].completedAt
<1> DEFINE I == {k \in Nat : i + k <= Len(eventLog) => FirstProjection[i + k].completedAt}
<1>1. Len(eventLog) \in Nat /\ i \in 1..Len(eventLog)
  OBVIOUS
<1>2. ASSUME NEW n \in 1..Len(eventLog)
      PROVE  FirstProjection[n].completedAt
                = CompletedAfter(FirstProjection[n - 1], eventLog[n])
  <2>1. n \in 0..Len(eventLog) /\ n # 0
    BY <1>1
  <2>2. FirstProjection[n] = RowAfter(FirstProjection[n - 1], eventLog[n])
    BY <2>1, ProjectionUnfolds
  <2> QED BY <2>2 DEF RowAfter
<1>3. 0 \in I
  <2>1. FirstProjection[i].completedAt
    BY <1>1, <1>2 DEF CompletedAfter, Completing
  <2> QED BY <1>1, <2>1
<1>4. ASSUME NEW k \in Nat, k \in I PROVE k + 1 \in I
  <2> SUFFICES ASSUME i + (k + 1) <= Len(eventLog)
               PROVE  FirstProjection[i + (k + 1)].completedAt
    OBVIOUS
  <2>1. FirstProjection[i + k].completedAt
    BY <1>1, <1>4
  <2>2. eventLog[i + (k + 1)].type # "failed"
    BY <1>1 DEF LogInv
  <2>3. /\ i + (k + 1) \in 1..Len(eventLog) /\ (i + (k + 1)) - 1 = i + k
    BY <1>1
  <2> QED BY <1>2, <2>1, <2>2, <2>3 DEF CompletedAfter
<1> HIDE DEF I
<1>5. Len(eventLog) - i \in I
  BY <1>1, <1>3, <1>4, NaturalsBySuccessor
<1>6. i + (Len(eventLog) - i) = Len(eventLog)
  BY <1>1
<1> QED BY <1>1, <1>5, <1>6 DEF I

\* A row that has followed the whole log is the first projection's.
LEMMA FollowedIsFirst ==
  ASSUME EventProjectorTypeOK, LogInv, CommandInv, eventLog # <<>>, Follows(Len(eventLog))
  PROVE  questRow = FirstProjection[Len(eventLog)]
<1> DEFINE n == Len(eventLog)
           first == FirstProjection[n]
<1>1. eventLog \in Seq(Events) /\ n \in Nat /\ n >= 2
  BY DEF EventProjectorTypeOK, LogInv
<1>2. first = RowAfter(FirstProjection[n - 1], eventLog[n])
  BY <1>1, ProjectionUnfolds
<1>3. questRow.completedAt => first.completedAt
  <2> SUFFICES ASSUME questRow.completedAt PROVE first.completedAt
    OBVIOUS
  <2>1. PICK i \in DOMAIN eventLog : eventLog[i].type \in Completing
    BY DEF CommandInv, Stored
  <2> QED BY <1>1, <2>1, CompletedStays
<1>4. /\ questRow.status = first.status /\ questRow.player = first.player
      /\ questRow.payout = first.payout
      /\ first.completedAt => questRow.completedAt
  BY <1>1 DEF Follows
<1>5. first.completedAt \in BOOLEAN /\ questRow.completedAt \in BOOLEAN
  <2>1. questRow.completedAt \in BOOLEAN
    BY DEF EventProjectorTypeOK
  <2>2. first.completedAt = CompletedAfter(FirstProjection[n - 1], eventLog[n])
    BY <1>2 DEF RowAfter
  <2> QED BY <2>1, <2>2 DEF CompletedAfter
<1>6. questRow.completedAt = first.completedAt
  BY ONLY <1>3, <1>4, <1>5, Zenon
<1>7. questRow = [status |-> questRow.status, player |-> questRow.player,
                  completedAt |-> questRow.completedAt, payout |-> questRow.payout]
  BY DEF EventProjectorTypeOK
<1>8. first = [status |-> first.status, player |-> first.player,
               completedAt |-> first.completedAt, payout |-> first.payout]
  BY <1>2 DEF RowAfter
<1> QED BY <1>4, <1>6, <1>7, <1>8

-----------------------------------------------------------------------------
(* The steps of a command *)

\* A step that touches neither the contracts nor the tables keeps the counts.
LEMMA OutcomeStays ==
  ASSUME OutcomeInv, outcome' = outcome, recorded' = recorded
  PROVE  OutcomeInv'
BY DEF OutcomeInv, OutcomeCountedOnce, Recorded

LEMMA InvParts ==
  ASSUME ProjectorInv
  PROVE  /\ EventProjectorTypeOK /\ LogInv /\ CommandInv /\ OutcomeInv /\ ReplayInv
         /\ eventLog \in Seq(Events) /\ Len(eventLog) \in Nat
         /\ command.events \in Seq(Events) /\ Len(command.events) \in Nat
         /\ command.whole \in 0..Len(eventLog)
         /\ letters \in Seq(Events)
BY DEF ProjectorInv, EventProjectorTypeOK

CommandType ==
    [mode : {"none", "replay", "recovery"}, whole : 0..Len(eventLog),
     events : Seq(Events), step : {"idle", "rows", "influence", "cursor", "resolve"}]

LEMMA BeginCommandKeepsInv ==
  ASSUME ProjectorInv, NEW mode \in {"replay", "recovery"}, NEW whole \in 0..Len(eventLog),
         NEW events \in Seq(Events), AllStored(events),
         BeginCommand(mode, whole, events),
         mode = "replay" /\ whole = Len(eventLog) => events = eventLog
  PROVE  ProjectorInv'
<1>1. /\ command' = [mode |-> mode, whole |-> whole, events |-> events, step |-> "rows"]
      /\ UNCHANGED <<onchainVars, tableVars, letters, resolved>>
      /\ commandsLeft' = commandsLeft - 1 /\ commandsLeft > 0 /\ events # <<>>
  BY DEF BeginCommand
<1>2. LogInv' /\ Stored' = Stored /\ OutcomeInv'
  BY <1>1, InvParts, LogStays, OutcomeStays DEF tableVars
<1>3. EventProjectorTypeOK'
  <2>1. command' \in CommandType
    BY <1>1 DEF CommandType
  <2>2. commandsLeft' \in 0..MaxCommands
    BY <1>1, InvParts, EventProjectorAssumption DEF EventProjectorTypeOK
  <2> QED BY <1>1, <2>1, <2>2, InvParts
          DEF EventProjectorTypeOK, onchainVars, tableVars, CommandType
<1>4. CommandInv'
  BY <1>1, <1>2, InvParts DEF CommandInv, AllStored, tableVars
<1>5. ReplayInv'
  <2>1. /\ command'.mode = mode /\ command'.whole = whole /\ command'.events = events
        /\ command'.step = "rows" /\ eventLog' = eventLog
    BY <1>1 DEF onchainVars
  <2>2. mode = "replay" /\ whole = Len(eventLog) =>
           /\ Len(events) = whole
           /\ \A i \in DOMAIN events : events[i] = eventLog[whole - Len(events) + i]
    BY InvParts
  <2>3. mode = "replay" /\ whole = Len(eventLog) => ~(Done' >= 1)
    BY <2>1, <2>2, InvParts DEF Done
  <2> QED BY <2>1, <2>2, <2>3 DEF ReplayInv
<1> QED BY <1>2, <1>3, <1>4, <1>5 DEF ProjectorInv

\* A command that ends leaves nothing to be done.
LEMMA EndedKeepsInv ==
  ASSUME ProjectorInv, command' = NoCommand,
         UNCHANGED <<onchainVars, tableVars, commandsLeft>>,
         letters' \in Seq(Events), AllStored(letters'), 
         resolved' \subseteq recorded
  PROVE  ProjectorInv'
<1>1. LogInv' /\ Stored' = Stored /\ OutcomeInv'
  BY InvParts, LogStays, OutcomeStays DEF tableVars
<1>2. EventProjectorTypeOK'
  <2>1. NoCommand \in CommandType /\ resolved' \subseteq Events
    BY InvParts DEF NoCommand, CommandType, EventProjectorTypeOK
  <2> QED BY <2>1, InvParts DEF EventProjectorTypeOK, onchainVars, tableVars, CommandType
<1>3. CommandInv'
  <2>1. NoCommand.step = "idle" /\ NoCommand.mode = "none" /\ NoCommand.events = <<>>
    BY DEF NoCommand
  <2> QED BY <1>1, <2>1, InvParts DEF CommandInv, AllStored, tableVars
<1>4. ReplayInv'
  BY DEF ReplayInv, NoCommand
<1> QED BY <1>1, <1>2, <1>3, <1>4 DEF ProjectorInv

LEMMA FailKeepsInv ==
  ASSUME ProjectorInv, Fail
  PROVE  ProjectorInv'
<1>1. command.step # "idle" /\ letters \in Seq(Events)
  BY InvParts DEF Fail
<1>2. /\ Without(letters, Current) \in Seq(Events)
      /\ AllStored(Without(letters, Current))
  BY <1>1, WithoutTyped, InvParts DEF CommandInv, AllStored
<1>3. Current \in Events /\ Current \in Stored
  BY <1>1, InvParts, AtWork
<1>4. letters' \in Seq(Events) /\ AllStored(letters')
  <2>1. /\ Append(Without(letters, Current), Current) \in Seq(Events)
        /\ AllStored(Append(Without(letters, Current), Current))
    BY <1>2, <1>3 DEF AllStored
  <2> QED BY <1>1, <2>1, InvParts DEF Fail, CommandInv, AllStored
<1> QED BY <1>4, EndedKeepsInv, InvParts DEF Fail, CommandInv

LEMMA CrashKeepsInv ==
  ASSUME ProjectorInv, ProjectorCrash
  PROVE  ProjectorInv'
BY EndedKeepsInv, InvParts DEF ProjectorCrash, CommandInv, AllStored

LEMMA FollowsStays ==
  ASSUME eventLog \in Seq(Events), UNCHANGED onchainVars, questRow' = questRow,
         NEW n \in 0..Len(eventLog), Follows(n)
  PROVE  Follows(n)'
BY ProjectionStays DEF Follows

\* The next event is taken up; a replay of the whole log has gone one further.
LEMMA NextEventKeepsInv ==
  ASSUME ProjectorInv, command.step \in {"cursor", "resolve"}, command' = NextEvent,
         UNCHANGED <<onchainVars, tableVars, commandsLeft>>,
         letters' \in Seq(Events), AllStored(letters'),
         resolved' \subseteq recorded
  PROVE  ProjectorInv'
<1> DEFINE rest == Tail(command.events)
<1>1. CASE rest = <<>>
  BY <1>1, EndedKeepsInv DEF NextEvent
<1>2. CASE rest # <<>>
  <2>1. /\ command.events # <<>> /\ Len(command.events) >= 1
        /\ rest \in Seq(Events) /\ AllStored(rest) /\ Len(rest) = Len(command.events) - 1
        /\ \A k \in DOMAIN rest : k + 1 \in DOMAIN command.events
                                  /\ rest[k] = command.events[k + 1]
    BY InvParts, AtWork
  <2> HIDE DEF rest
  <2>2. /\ command' \in CommandType /\ command'.mode = command.mode
        /\ command'.whole = command.whole /\ command'.events = rest
        /\ command'.step = "rows"
    <3>1. command \in CommandType
      BY InvParts DEF EventProjectorTypeOK, CommandType
    <3>2. command' = [command EXCEPT !.events = rest, !.step = "rows"]
      BY <1>2 DEF NextEvent, rest
    <3> QED BY <2>1, <3>1, <3>2 DEF CommandType
  <2>3. LogInv' /\ Stored' = Stored /\ OutcomeInv'
    BY InvParts, LogStays, OutcomeStays DEF tableVars
  <2>4. EventProjectorTypeOK'
    <3>1. resolved' \subseteq Events
      BY InvParts DEF EventProjectorTypeOK
    <3> QED BY <2>2, <3>1, InvParts
            DEF EventProjectorTypeOK, onchainVars, tableVars, CommandType
  <2>5. CommandInv'
    BY <1>2, <2>1, <2>2, <2>3, InvParts DEF CommandInv, AllStored, tableVars
  <2>6. ReplayInv'
    <3> SUFFICES ASSUME command'.mode = "replay", command'.whole = Len(eventLog')
                 PROVE  /\ Len(command'.events) <= command'.whole
                        /\ \A k \in DOMAIN command'.events :
                              command'.events[k]
                                = eventLog'[command'.whole - Len(command'.events) + k]
                        /\ Done' >= 1 => Follows(Done)'
      BY DEF ReplayInv
    <3>1. /\ eventLog' = eventLog /\ command.mode = "replay"
          /\ command.whole = Len(eventLog)
      BY <2>2 DEF onchainVars
    <3>2. /\ Len(command.events) <= command.whole
          /\ \A k \in DOMAIN command.events :
                command.events[k] = eventLog[command.whole - Len(command.events) + k]
          /\ Done >= 1 => Follows(Done)
      BY <3>1, InvParts DEF ReplayInv
    <3>3. Len(command'.events) <= command'.whole
      BY <2>1, <2>2, <3>2, InvParts
    <3>4. ASSUME NEW k \in DOMAIN command'.events
          PROVE  command'.events[k] = eventLog'[command'.whole - Len(command'.events) + k]
      <4>1. /\ k + 1 \in DOMAIN command.events /\ rest[k] = command.events[k + 1]
            /\ k \in Nat
        BY <2>1, <2>2
      <4>2. command.whole - Len(command.events) + (k + 1)
              = command'.whole - Len(command'.events) + k
        <5>1. /\ command.whole \in Int /\ Len(command.events) \in Int /\ k \in Int
              /\ Len(rest) = Len(command.events) - 1
          BY <2>1, <4>1, InvParts
        <5>2. command'.whole = command.whole /\ command'.events = rest
          BY <2>2
        <5>3. \A whole, long, i \in Int : whole - long + (i + 1) = whole - (long - 1) + i
          OBVIOUS
        <5>4. command.whole - Len(command.events) + (k + 1)
                = command.whole - (Len(command.events) - 1) + k
          BY ONLY <5>1, <5>3
        <5> QED BY ONLY <5>1, <5>2, <5>4
      <4>3. command.events[k + 1]
              = eventLog[command.whole - Len(command.events) + (k + 1)]
        BY <3>2, <4>1
      <4>4. command'.events[k] = rest[k] /\ eventLog' = eventLog
        BY <2>2, <3>1
      <4> QED BY ONLY <4>1, <4>2, <4>3, <4>4
    <3>5. Done' = Done /\ Done \in 0..Len(eventLog)
      <4>1. /\ Done = command.whole - Len(command.events) + 1
            /\ Done' = command.whole - Len(rest) + 0
        BY <2>2 DEF Done
      <4>2. /\ command.whole \in Nat /\ Len(command.events) \in Nat /\ Len(eventLog) \in Nat
            /\ command.whole = Len(eventLog) /\ Len(command.events) <= command.whole
            /\ Len(rest) = Len(command.events) - 1 /\ Len(command.events) >= 1
        BY <2>1, <3>1, <3>2, InvParts
      <4> QED BY ONLY <4>1, <4>2
    <3>6. ASSUME NEW n, n = Done, Done' >= 1 PROVE Follows(n)'
      BY <3>2, <3>5, <3>6, InvParts, FollowsStays DEF tableVars
    <3>7. Done' >= 1 => Follows(Done)'
      BY <3>5, <3>6 DEF Follows
    <3> QED BY <3>3, <3>4, <3>7
  <2> QED BY <2>3, <2>4, <2>5, <2>6 DEF ProjectorInv
<1> QED BY <1>1, <1>2

LEMMA ProjectedKeepsInv ==
  ASSUME ProjectorInv, Projected
  PROVE  ProjectorInv'
<1> USE InvParts
<1>1. CASE command.mode # "recovery"
  BY <1>1, NextEventKeepsInv DEF Projected, Working, CommandInv
<1>2. CASE command.mode = "recovery"
  <2>1. /\ command' \in CommandType /\ command'.mode = "recovery"
        /\ command'.events = command.events /\ command'.step = "resolve"
    <3>1. command \in CommandType
      BY DEF EventProjectorTypeOK, CommandType
    <3> QED BY <1>2, <3>1 DEF Projected, CommandType
  <2>2. LogInv' /\ Stored' = Stored /\ OutcomeInv'
    BY LogStays, OutcomeStays DEF Projected, tableVars
  <2>3. EventProjectorTypeOK'
    BY <2>1 DEF Projected, EventProjectorTypeOK, onchainVars, tableVars, CommandType
  <2>4. CommandInv'
    BY <2>1, <2>2 DEF Projected, Working, CommandInv, AllStored, Current, tableVars
  <2>5. ReplayInv'
    BY <2>1 DEF ReplayInv
  <2> QED BY <2>2, <2>3, <2>4, <2>5 DEF ProjectorInv
<1> QED BY <1>1, <1>2

LEMMA ResolveKeepsInv ==
  ASSUME ProjectorInv, Resolve
  PROVE  ProjectorInv'
<1> USE InvParts
<1>1. /\ Without(letters, Current) \in Seq(Events)
      /\ AllStored(Without(letters, Current))
  BY WithoutTyped DEF CommandInv, AllStored
<1>2. Current \in recorded /\ resolved \subseteq recorded
  BY DEF Resolve, Working, CommandInv
<1> QED BY <1>1, <1>2, NextEventKeepsInv DEF Resolve, Working

OutcomeType ==
    [history : SUBSET {"STARTED", "SUBMITTED", "COMPLETED", "FAILED"},
     attempted : Nat, completed : Nat, failed : Nat, rewards : Nat, nfts : Nat,
     clanQuest : {"none", "active", "completed", "failed"}, clanTotal : Nat,
     standing : [Wallets -> 0..100]]

\* The step of the command is all that the next two steps change in it.
LEMMA StepTaken ==
  ASSUME EventProjectorTypeOK,
         NEW step \in {"idle", "rows", "influence", "cursor", "resolve"},
         command' = [command EXCEPT !.step = step],
         UNCHANGED onchainVars
  PROVE  /\ command' \in CommandType /\ command' \in CommandType'
         /\ command'.mode = command.mode /\ command'.whole = command.whole
         /\ command'.events = command.events /\ command'.step = step
         /\ Current' = Current
<1>1. command \in CommandType
  BY DEF EventProjectorTypeOK, CommandType
<1> QED BY <1>1 DEF CommandType, Current, onchainVars

LEMMA ScoreInRange == ASSUME NEW score \in Nat PROVE AtMostFull(score) \in 0..100
BY DEF AtMostFull

LEMMA ApplyInfluenceKeepsInv ==
  ASSUME ProjectorInv, ApplyInfluence
  PROVE  ProjectorInv'
<1> USE InvParts
<1>1. /\ command'.mode = command.mode /\ command'.whole = command.whole
      /\ command'.events = command.events /\ command'.step = "cursor"
      /\ command' \in CommandType' /\ Current' = Current
      /\ command.step = "influence"
  BY StepTaken DEF ApplyInfluence, Working
<1>2. /\ UNCHANGED <<onchainVars, questRow, proofRows, recorded, letters, resolved,
                     commandsLeft>>
  BY DEF ApplyInfluence
<1>3. LogInv' /\ Stored' = Stored
  BY <1>2, LogStays
<1>4. /\ outcome' \in OutcomeType
      /\ outcome'.history = outcome.history /\ outcome'.completed = outcome.completed
      /\ outcome'.failed = outcome.failed /\ outcome'.rewards = outcome.rewards
      /\ outcome'.nfts = outcome.nfts
  <2>1. outcome \in OutcomeType
    BY DEF EventProjectorTypeOK, OutcomeType
  <2> DEFINE held == outcome.standing
             raised == AtMostFull(held[Current.player] + StandingEffect(Current))
             standing == [held EXCEPT ![Current.player] = raised]
  <2>2. raised \in 0..100 /\ held \in [Wallets -> 0..100]
    <3>1. held \in [Wallets -> 0..100] /\ Current.player \in Wallets
      BY <2>1, <1>1, AtWork DEF OutcomeType, Events
    <3>2. StandingEffect(Current) \in Nat
      BY DEF StandingEffect
    <3>3. held[Current.player] \in 0..100
      BY ONLY <3>1
    <3>4. held[Current.player] + StandingEffect(Current) \in Nat
      BY ONLY <3>2, <3>3
    <3> QED BY <3>1, <3>4, ScoreInRange
  <2>3. standing \in [Wallets -> 0..100]
    BY ONLY <2>2
  <2>4. outcome' = [outcome EXCEPT !.standing = standing]
    BY DEF ApplyInfluence
  <2> HIDE DEF held, raised, standing
  <2> QED BY <2>1, <2>3, <2>4 DEF OutcomeType
<1>5. EventProjectorTypeOK'
  BY <1>1, <1>2, <1>4 DEF EventProjectorTypeOK, onchainVars, CommandType, OutcomeType
<1>6. CommandInv'
  BY <1>1, <1>2, <1>3 DEF CommandInv, AllStored
<1>7. OutcomeInv'
  BY <1>2, <1>4 DEF OutcomeInv, OutcomeCountedOnce, Recorded
<1>8. ReplayInv'
  <2> SUFFICES ASSUME command'.mode = "replay", command'.whole = Len(eventLog')
               PROVE  /\ Len(command'.events) <= command'.whole
                      /\ \A k \in DOMAIN command'.events :
                            command'.events[k]
                              = eventLog'[command'.whole - Len(command'.events) + k]
                      /\ Done' >= 1 => Follows(Done)'
    BY DEF ReplayInv
  <2>1. eventLog' = eventLog /\ command.mode = "replay" /\ command.whole = Len(eventLog)
    BY <1>1, <1>2 DEF onchainVars
  <2>2. /\ Len(command.events) <= command.whole
        /\ \A k \in DOMAIN command.events :
              command.events[k] = eventLog[command.whole - Len(command.events) + k]
        /\ Done >= 1 => Follows(Done)
    BY <2>1 DEF ReplayInv
  <2>3. Done' = Done /\ Done \in 0..Len(eventLog)
    <3>1. /\ Done = command.whole - Len(command.events) + 1
          /\ Done' = command.whole - Len(command.events) + 1
      BY <1>1 DEF Done
    <3>2. /\ command.whole \in Nat /\ Len(command.events) \in Nat /\ Len(eventLog) \in Nat
          /\ command.whole = Len(eventLog) /\ Len(command.events) <= command.whole
          /\ Len(command.events) >= 1
      BY <1>1, <2>1, <2>2, AtWork
    <3> QED BY ONLY <3>1, <3>2
  <2>4. ASSUME NEW n, n = Done, Done' >= 1 PROVE Follows(n)'
    BY <1>2, <2>2, <2>3, <2>4, FollowsStays
  <2>5. Done' >= 1 => Follows(Done)'
    BY <2>3, <2>4 DEF Follows
  <2> QED BY <1>1, <2>1, <2>2, <2>5
<1> QED BY <1>3, <1>5, <1>6, <1>7, <1>8 DEF ProjectorInv

-----------------------------------------------------------------------------
(* materializeChainState *)

\* An event that is counted is recorded at most once: there is one verdict that
\* completes the quest and one token, and all failures and all payments carry no
\* proof and name the same wallet.
LEMMA RecordedOnce ==
  ASSUME LogInv, eventLog \in Seq(Events), recorded \subseteq Stored,
         NEW e \in Stored, e.type \in {"verified", "failed", "paid", "minted"},
         NEW other \in Recorded(e.type)
  PROVE  other = e
<1>1. PICK i \in DOMAIN eventLog : e = eventLog[i]
  BY DEF Stored
<1>2. PICK j \in DOMAIN eventLog : other = eventLog[j]
  BY DEF Stored, Recorded
<1>3. other.type = e.type /\ e \in Events /\ other \in Events
  BY <1>1, <1>2 DEF Recorded
<1>4. CASE e.type \in EmittedOnce
  BY <1>1, <1>2, <1>3, <1>4 DEF LogInv
<1>5. CASE e.type \in {"failed", "paid"}
  <2>1. e.proof = 0 /\ other.proof = 0
    BY <1>1, <1>2, <1>3, <1>5 DEF LogInv
  <2>2. e.player = other.player
    BY <1>1, <1>2, <1>3, <1>5 DEF LogInv
  <2> QED BY <1>3, <2>1, <2>2 DEF Events
<1> QED BY <1>4, <1>5 DEF EmittedOnce

\* So its count is one more exactly when none was recorded before.
LEMMA CountedOnce ==
  ASSUME LogInv, eventLog \in Seq(Events), recorded \subseteq Stored,
         NEW e \in Stored, recorded' = recorded \cup {e},
         NEW type \in {"verified", "failed", "paid", "minted"},
         NEW n \in Nat, n = Cardinality(Recorded(type)),
         NEW counts \in BOOLEAN, counts <=> (e.type = type /\ Recorded(type) = {})
  PROVE  n + One(counts) = Cardinality(Recorded(type)')
<1>1. CASE e.type # type
  <2>1. Recorded(type)' = Recorded(type)
    BY <1>1 DEF Recorded
  <2>2. One(counts) = 0
    BY <1>1 DEF One
  <2> QED BY <2>1, <2>2
<1>2. CASE e.type = type
  <2>1. Recorded(type)' = {e} /\ (Recorded(type) = {} \/ Recorded(type) = {e})
    <3>1. Recorded(type)' = Recorded(type) \cup {e}
      BY <1>2 DEF Recorded
    <3>2. \A other \in Recorded(type) : other = e
      BY <1>2, RecordedOnce
    <3> QED BY <3>1, <3>2
  <2>2. Cardinality({}) = 0 /\ Cardinality({e}) = 1
    BY FS_EmptySet, FS_Singleton
  <2>3. CASE Recorded(type) = {}
    BY <1>2, <2>1, <2>2, <2>3 DEF One
  <2>4. CASE Recorded(type) = {e}
    BY <1>2, <2>1, <2>2, <2>4 DEF One
  <2> QED BY <2>1, <2>3, <2>4
<1> QED BY <1>1, <1>2

LEMMA OutcomeKept ==
  ASSUME LogInv, eventLog \in Seq(Events), recorded \subseteq Stored, OutcomeInv,
         outcome \in OutcomeType,
         NEW e \in Stored, recorded' = recorded \cup {e}, outcome' = OutcomeAfter(outcome, e)
  PROVE  OutcomeInv'
<1>1. /\ outcome'.history = outcome.history \cup ActionOf(e)
      /\ outcome'.completed
           = outcome.completed + One(e.type = "verified" /\ FirstOutcome(outcome, e))
      /\ outcome'.failed
           = outcome.failed + One(e.type = "failed" /\ FirstOutcome(outcome, e))
      /\ outcome'.rewards = outcome.rewards + One(NewReward(e))
      /\ outcome'.nfts = outcome.nfts + One(NewNft(e))
  BY DEF OutcomeAfter
<1>2. /\ "COMPLETED" \in ActionOf(e) <=> e.type = "verified"
      /\ "FAILED" \in ActionOf(e) <=> e.type = "failed"
  BY DEF ActionOf
<1>3. /\ "COMPLETED" \in outcome'.history <=> Recorded("verified")' # {}
      /\ "FAILED" \in outcome'.history <=> Recorded("failed")' # {}
  BY <1>1, <1>2 DEF OutcomeInv, Recorded
<1>4. e.type = "verified" /\ FirstOutcome(outcome, e)
        <=> e.type = "verified" /\ Recorded("verified") = {}
  BY DEF FirstOutcome, ActionOf, OutcomeInv
<1>5. e.type = "failed" /\ FirstOutcome(outcome, e)
        <=> e.type = "failed" /\ Recorded("failed") = {}
  BY DEF FirstOutcome, ActionOf, OutcomeInv
<1>6. NewReward(e) <=> e.type = "paid" /\ Recorded("paid") = {}
  BY RecordedOnce DEF NewReward, Recorded
<1>7. NewNft(e) <=> e.type = "minted" /\ Recorded("minted") = {}
  BY RecordedOnce DEF NewNft, Recorded
<1>8. /\ outcome'.completed = Cardinality(Recorded("verified")')
      /\ outcome'.failed = Cardinality(Recorded("failed")')
      /\ outcome'.rewards = Cardinality(Recorded("paid")')
      /\ outcome'.nfts = Cardinality(Recorded("minted")')
  <2>0. /\ outcome.completed \in Nat /\ outcome.failed \in Nat
        /\ outcome.rewards \in Nat /\ outcome.nfts \in Nat
    BY DEF OutcomeType
  <2>1. outcome'.completed = Cardinality(Recorded("verified")')
    BY <2>0, <1>1, <1>4, CountedOnce DEF OutcomeInv, OutcomeCountedOnce
  <2>2. outcome'.failed = Cardinality(Recorded("failed")')
    BY <2>0, <1>1, <1>5, CountedOnce DEF OutcomeInv, OutcomeCountedOnce
  <2>3. outcome'.rewards = Cardinality(Recorded("paid")')
    BY <2>0, <1>1, <1>6, CountedOnce DEF OutcomeInv, OutcomeCountedOnce, NewReward
  <2>4. outcome'.nfts = Cardinality(Recorded("minted")')
    BY <2>0, <1>1, <1>7, CountedOnce DEF OutcomeInv, OutcomeCountedOnce, NewNft
  <2> QED BY <2>1, <2>2, <2>3, <2>4
<1> QED BY <1>3, <1>8 DEF OutcomeInv, OutcomeCountedOnce

RowType ==
    [status : RowStatus, player : Wallets, completedAt : BOOLEAN,
     payout : {"none", "RESERVED", "RELEASED", "PAID", "REFUNDED"}]

LEMMA RowAfterTyped ==
  ASSUME OnchainTyped, NEW before \in RowType, NEW e \in Events
  PROVE  RowAfter(before, e) \in RowType
<1>1. /\ before.player \in Wallets /\ before.completedAt \in BOOLEAN
      /\ before.payout \in {"none", "RESERVED", "RELEASED", "PAID", "REFUNDED"}
      /\ e.player \in Wallets /\ e.type \in EventTypes
  BY DEF RowType, OnchainTyped, Events
<1>2. ForcedStatus(e) \in RowStatus
  BY <1>1 DEF ForcedStatus, SnapshotStatus, RowStatus, EventTypes
<1>3. PlayerAfter(before, e) \in Wallets
  BY <1>1 DEF PlayerAfter, Wallets
<1>4. CompletedAfter(before, e) \in BOOLEAN
  BY DEF CompletedAfter
<1>5. PayoutAfter(before, e) \in {"none", "RESERVED", "RELEASED", "PAID", "REFUNDED"}
  BY <1>1 DEF PayoutAfter
<1> QED BY <1>2, <1>3, <1>4, <1>5 DEF RowAfter, RowType

LEMMA ProofRowsAfterTyped ==
  ASSUME proofRows \in [QuestProofs -> {"none", "pending", "VERIFIED"}], NEW e \in Events
  PROVE  ProofRowsAfter(e) \in [QuestProofs -> {"none", "pending", "VERIFIED"}]
BY DEF ProofRowsAfter

LEMMA OneMore == ASSUME NEW n \in Nat, NEW counts PROVE n + One(counts) \in Nat
BY DEF One

LEMMA OutcomeAfterTyped ==
  ASSUME NEW o \in OutcomeType, NEW e \in Events
  PROVE  OutcomeAfter(o, e) \in OutcomeType
<1>1. /\ o.history \subseteq {"STARTED", "SUBMITTED", "COMPLETED", "FAILED"}
      /\ o.attempted \in Nat /\ o.completed \in Nat /\ o.failed \in Nat /\ o.rewards \in Nat
      /\ o.nfts \in Nat /\ o.clanTotal \in Nat /\ o.standing \in [Wallets -> 0..100]
      /\ o.clanQuest \in {"none", "active", "completed", "failed"}
  BY DEF OutcomeType
<1>2. o.history \cup ActionOf(e) \in SUBSET {"STARTED", "SUBMITTED", "COMPLETED", "FAILED"}
  BY <1>1 DEF ActionOf
<1>3. ClanQuestAfter(o, e) \in {"none", "active", "completed", "failed"}
  BY <1>1 DEF ClanQuestAfter
<1> DEFINE started == One(e.type = "started")
           completed == One(e.type = "verified" /\ FirstOutcome(o, e))
           failed == One(e.type = "failed" /\ FirstOutcome(o, e))
           rewarded == One(NewReward(e))
           minted == One(NewNft(e))
           clan == One(ClanQuestAfter(o, e) = "completed" /\ o.clanQuest # "completed")
<1>4. /\ o.attempted + started \in Nat /\ o.completed + completed \in Nat
      /\ o.failed + failed \in Nat /\ o.rewards + rewarded \in Nat
      /\ o.nfts + minted \in Nat /\ o.clanTotal + clan \in Nat
  BY <1>1, OneMore, Zenon
<1>5. OutcomeAfter(o, e) =
        [history   |-> o.history \cup ActionOf(e),
         attempted |-> o.attempted + started,
         completed |-> o.completed + completed,
         failed    |-> o.failed + failed,
         rewards   |-> o.rewards + rewarded,
         nfts      |-> o.nfts + minted,
         clanQuest |-> ClanQuestAfter(o, e),
         clanTotal |-> o.clanTotal + clan,
         standing  |-> o.standing]
  BY DEF OutcomeAfter
<1> HIDE DEF started, completed, failed, rewarded, minted, clan
<1> QED BY <1>1, <1>2, <1>3, <1>4, <1>5 DEF OutcomeType

\* The tables after an event, in one transaction.
LEMMA MaterializeKeepsInv ==
  ASSUME ProjectorInv, MaterializeChainState
  PROVE  ProjectorInv'
<1> USE InvParts
<1> DEFINE e == Current
<1>1. /\ command'.mode = command.mode /\ command'.whole = command.whole
      /\ command'.events = command.events /\ command'.step = "influence"
      /\ command' \in CommandType' /\ Current' = Current
      /\ command.step = "rows"
  BY StepTaken DEF MaterializeChainState, Working
<1>2. /\ questRow' = RowAfter(questRow, e) /\ proofRows' = ProofRowsAfter(e)
      /\ outcome' = OutcomeAfter(outcome, e) /\ recorded' = recorded \cup {e}
      /\ UNCHANGED <<onchainVars, letters, resolved, commandsLeft>>
  BY DEF MaterializeChainState
<1>3. /\ e \in Events /\ e \in Stored /\ e = command.events[1]
      /\ Len(command.events) >= 1 /\ 1 \in DOMAIN command.events
  BY <1>1, AtWork
<1>4. LogInv' /\ Stored' = Stored
  BY <1>2, LogStays
<1>5. /\ questRow \in RowType /\ outcome \in OutcomeType /\ OnchainTyped
      /\ proofRows \in [QuestProofs -> {"none", "pending", "VERIFIED"}]
      /\ recorded \subseteq Events
  BY DEF EventProjectorTypeOK, RowType, OutcomeType, OnchainTyped
<1> HIDE DEF e
<1>6. EventProjectorTypeOK'
  <2>1. /\ questRow' \in RowType /\ outcome' \in OutcomeType /\ recorded' \subseteq Events
        /\ proofRows' \in [QuestProofs -> {"none", "pending", "VERIFIED"}]
    BY <1>2, <1>3, <1>5, RowAfterTyped, OutcomeAfterTyped, ProofRowsAfterTyped
  <2> QED BY <1>1, <1>2, <2>1
          DEF EventProjectorTypeOK, onchainVars, CommandType, RowType, OutcomeType
<1>7. CommandInv'
  <2>1. questRow'.completedAt => questRow.completedAt \/ e.type \in Completing
    BY <1>2 DEF RowAfter, CompletedAfter, Completing
  <2>2. Current' \in recorded'
    BY <1>1, <1>2 DEF e
  <2> QED BY <1>1, <1>2, <1>3, <1>4, <2>1, <2>2 DEF CommandInv, AllStored
<1>8. OutcomeInv'
  BY <1>2, <1>3, <1>5, OutcomeKept DEF CommandInv
<1>9. ReplayInv'
  <2> SUFFICES ASSUME command'.mode = "replay", command'.whole = Len(eventLog')
               PROVE  /\ Len(command'.events) <= command'.whole
                      /\ \A k \in DOMAIN command'.events :
                            command'.events[k]
                              = eventLog'[command'.whole - Len(command'.events) + k]
                      /\ Done' >= 1 => Follows(Done)'
    BY DEF ReplayInv
  <2>1. eventLog' = eventLog /\ command.mode = "replay" /\ command.whole = Len(eventLog)
    BY <1>1, <1>2 DEF onchainVars
  <2>2. /\ Len(command.events) <= command.whole
        /\ \A k \in DOMAIN command.events :
              command.events[k] = eventLog[command.whole - Len(command.events) + k]
        /\ Done >= 1 => Follows(Done)
    BY <2>1 DEF ReplayInv
  <2>3. /\ Done' = Done + 1 /\ Done \in Nat /\ Done + 1 <= Len(eventLog)
        /\ Done + 1 = command.whole - Len(command.events) + 1
    <3>1. /\ Done = command.whole - Len(command.events) + 0
          /\ Done' = command.whole - Len(command.events) + 1
      BY <1>1 DEF Done
    <3>2. /\ command.whole \in Nat /\ Len(command.events) \in Nat /\ Len(eventLog) \in Nat
          /\ command.whole = Len(eventLog) /\ Len(command.events) <= command.whole
          /\ Len(command.events) >= 1
      BY <1>3, <2>1, <2>2
    <3> QED BY ONLY <3>1, <3>2
  <2>4. e = eventLog[Done + 1]
    BY <1>3, <2>2, <2>3
  <2>5. ASSUME NEW n, n = Done PROVE Follows(n + 1)'
    <3>1. n \in Nat /\ n + 1 <= Len(eventLog) /\ n + 1 \in 0..Len(eventLog)
      <4>1. Len(eventLog) \in Nat /\ Done \in Nat /\ Done + 1 <= Len(eventLog)
        BY <2>3
      <4> QED BY ONLY <2>5, <4>1
    <3>3. n >= 1 => Follows(n)
      BY <2>2, <2>5 DEF Follows
    <3>4. questRow' = RowAfter(questRow, eventLog[n + 1])
      BY <1>2, <2>4, <2>5
    <3>2. FirstProjection'[n + 1] = FirstProjection[n + 1]
      BY <1>2, <3>1, ProjectionStays
    <3> QED BY <3>1, <3>2, <3>3, <3>4, FollowsOn DEF Follows
  <2>6. Done' >= 1 => Follows(Done)'
    BY <2>3, <2>5 DEF Follows
  <2> QED BY <1>1, <2>1, <2>2, <2>6
<1> QED BY <1>4, <1>6, <1>7, <1>8, <1>9 DEF ProjectorInv

-----------------------------------------------------------------------------
(* The theorems about the projector *)

LEMMA ProjectorInitEstablishesInv == EventProjectorInit => ProjectorInv
<1> SUFFICES ASSUME EventProjectorInit PROVE ProjectorInv
  OBVIOUS
<1> USE EventProjectorAssumption DEF EventProjectorInit
<1>1. EventProjectorTypeOK
  BY DEF EventProjectorTypeOK, OnchainStatus, RowStatus, Wallets, NoQuestRow, NoOutcome,
         NoCommand
<1>2. LogInv
  BY DEF LogInv
<1>3. CommandInv
  BY DEF CommandInv, AllStored, NoCommand, NoQuestRow
<1>4. OutcomeInv
  <2>1. \A type : Recorded(type) = {}
    BY DEF Recorded
  <2> QED BY <2>1, FS_EmptySet DEF OutcomeInv, OutcomeCountedOnce, NoOutcome
<1>5. ReplayInv
  BY DEF ReplayInv, NoCommand
<1> QED BY <1>1, <1>2, <1>3, <1>4, <1>5 DEF ProjectorInv

LEMMA ReplayStays ==
  ASSUME ProjectorInv, UNCHANGED onchainVars, questRow' = questRow, command' = command
  PROVE  ReplayInv'
<1>1. eventLog' = eventLog /\ Done' = Done
  BY DEF onchainVars, Done
<1> SUFFICES ASSUME command.mode = "replay", command.whole = Len(eventLog)
             PROVE  /\ Len(command.events) <= command.whole
                    /\ \A k \in DOMAIN command.events :
                          command.events[k] = eventLog[command.whole - Len(command.events) + k]
                    /\ Done >= 1 => Follows(Done)'
  BY <1>1 DEF ReplayInv
<1>2. /\ Len(command.events) <= command.whole
      /\ \A k \in DOMAIN command.events :
            command.events[k] = eventLog[command.whole - Len(command.events) + k]
      /\ Done >= 1 => Follows(Done)
  BY InvParts DEF ReplayInv
<1>3. Done >= 1 => Done \in 0..Len(eventLog)
  <2>1. command.events # <<>> /\ Len(command.events) >= 1
    BY InvParts, AtWork DEF CommandInv
  <2>2. /\ Len(command.events) \in Nat /\ Len(eventLog) \in Nat
        /\ Len(command.events) <= Len(eventLog)
    BY <1>2, InvParts
  <2>3. CASE command.step = "rows"
    <3>1. Done = Len(eventLog) - Len(command.events) + 0
      BY <2>3 DEF Done
    <3>2. Done \in 0..Len(eventLog)
      BY ONLY <2>1, <2>2, <3>1
    <3> QED BY <3>2
  <2>4. CASE command.step # "rows"
    <3>1. Done = Len(eventLog) - Len(command.events) + 1
      BY <2>4 DEF Done
    <3>2. Done \in 0..Len(eventLog)
      BY ONLY <2>1, <2>2, <3>1
    <3> QED BY <3>2
  <2> QED BY <2>3, <2>4
<1>4. ASSUME NEW n, n = Done, Done >= 1 PROVE Follows(n)'
  BY <1>2, <1>3, <1>4, InvParts, FollowsStays
<1>5. Done >= 1 => Follows(Done)'
  BY <1>1, <1>4 DEF Follows
<1> QED BY <1>2, <1>5

LEMMA ProjectorNextKeepsInv ==
  ProjectorInv /\ [EventProjectorNext]_projectorVars => ProjectorInv'
<1> SUFFICES ASSUME ProjectorInv, [EventProjectorNext]_projectorVars PROVE ProjectorInv'
  OBVIOUS
<1>1. ASSUME NEW first \in DOMAIN eventLog, NEW last \in DOMAIN eventLog,
             ReplayFromEventStore(first, last)
      PROVE  ProjectorInv'
  <2> DEFINE whole == IF first = 1 THEN last ELSE 0
             events == SubSeq(eventLog, first, last)
  <2>1. BeginCommand("replay", whole, events)
    BY <1>1 DEF ReplayFromEventStore, Replayed
  <2>2. /\ eventLog \in Seq(Events) /\ Len(eventLog) \in Nat
        /\ first \in 1..Len(eventLog) /\ last \in 1..Len(eventLog)
    BY InvParts
  <2>3. whole \in 0..Len(eventLog) /\ (whole = Len(eventLog) => first = 1 /\ last = whole)
    BY <2>2
  <2>4. /\ events \in Seq(Events)
        /\ \A k \in DOMAIN events : events[k] \in Stored
    BY <2>2, SubSeqProperties DEF Stored
  <2>5. whole = Len(eventLog) => events = eventLog
    BY <2>2, <2>3, SubSeqFull
  <2> HIDE DEF whole, events
  <2> QED BY <2>1, <2>3, <2>4, <2>5, BeginCommandKeepsInv DEF AllStored
<1>2. CASE RecoverDeadLetters
  BY <1>2, InvParts, BeginCommandKeepsInv DEF RecoverDeadLetters, CommandInv
<1>3. CASE UNCHANGED projectorVars
  <2>1. UNCHANGED onchainVars /\ UNCHANGED <<questRow, proofRows, outcome, recorded, letters,
                                            resolved, command, commandsLeft>>
    BY <1>3 DEF projectorVars, onchainVars
  <2>2. LogInv' /\ Stored' = Stored /\ OutcomeInv' /\ EventProjectorTypeOK'
    BY <2>1, InvParts, LogStays, OutcomeStays DEF EventProjectorTypeOK, onchainVars
  <2>3. CommandInv'
    BY <2>1, <2>2, InvParts DEF CommandInv, AllStored, Current
  <2>4. ReplayInv'
    BY <2>1, InvParts, ReplayStays
  <2> QED BY <2>2, <2>3, <2>4 DEF ProjectorInv
<1> QED BY <1>1, <1>2, <1>3, ContractStepKeepsInv, MaterializeKeepsInv,
           ApplyInfluenceKeepsInv, ProjectedKeepsInv, ResolveKeepsInv, FailKeepsInv,
           CrashKeepsInv
        DEF EventProjectorNext, ContractStep

LEMMA ProjectorInvHolds == EventProjectorSpec => []ProjectorInv
BY ProjectorInitEstablishesInv, ProjectorNextKeepsInv, PTL DEF EventProjectorSpec

\* The state of the projector has its type, whatever is replayed or recovered.
THEOREM EventProjectorTypeCorrect == EventProjectorSpec => []EventProjectorTypeOK
<1>1. ProjectorInv => EventProjectorTypeOK
  BY DEF ProjectorInv
<1> QED BY <1>1, ProjectorInvHolds, PTL

\* Any number of replays of any ranges, recoveries, failures and crashes: every
\* projected event is counted once.
THEOREM OutcomesCountedOnce == EventProjectorSpec => []OutcomeCountedOnce
<1>1. ProjectorInv => OutcomeCountedOnce
  BY DEF ProjectorInv, OutcomeInv
<1> QED BY <1>1, ProjectorInvHolds, PTL

\* A dead letter is resolved only when the rows of its event are written.
THEOREM ResolvedAreProjected == EventProjectorSpec => []ResolvedMeansProjected
<1>1. ProjectorInv => ResolvedMeansProjected
  BY DEF ProjectorInv, CommandInv, ResolvedMeansProjected
<1> QED BY <1>1, ProjectorInvHolds, PTL

\* Whatever statuses partial replays and recoveries have put back, a replay of the
\* whole log, however long, that ends before another event is stored leaves the
\* rows of a first projection.
THEOREM ReplayRestores == EventProjectorSpec => ReplayRestoresRows
<1>1. ProjectorInv /\ [EventProjectorNext]_projectorVars =>
        [(/\ command.mode = "replay"
          /\ command.whole = Len(eventLog)
          /\ Projected
          /\ command' = NoCommand) =>
             questRow = FirstProjection[Len(eventLog)]]_projectorVars
  <2> SUFFICES ASSUME ProjectorInv, command.mode = "replay",
                      command.whole = Len(eventLog), Projected, command' = NoCommand
               PROVE  questRow = FirstProjection[Len(eventLog)]
    OBVIOUS
  <2> USE InvParts
  <2>1. /\ command.step = "cursor" /\ command' = NextEvent
        /\ command.events # <<>> /\ Len(command.events) >= 1
        /\ Tail(command.events) \in Seq(Events)
        /\ Len(Tail(command.events)) = Len(command.events) - 1
    BY AtWork DEF Projected, Working
  <2>2. Tail(command.events) = <<>>
    <3> SUFFICES ASSUME Tail(command.events) # <<>> PROVE FALSE
      OBVIOUS
    <3>1. command' = [command EXCEPT !.events = Tail(command.events), !.step = "rows"]
      BY <2>1 DEF NextEvent
    <3>2. command'.step = "rows"
      BY <3>1 DEF EventProjectorTypeOK
    <3> QED BY <3>2 DEF NoCommand
  <2>3. Len(command.events) = 1
    <3>1. Len(command.events) - 1 = 0 /\ Len(command.events) \in Nat
      BY ONLY <2>1, <2>2, InvParts, ProjectorInv
    <3> QED BY ONLY <3>1
  <2>4. Done = Len(eventLog) /\ Done >= 1 /\ eventLog # <<>>
    <3>1. Done = Len(eventLog) - 1 + 1
      BY <2>1, <2>3 DEF Done
    <3>2. Len(eventLog) \in Nat /\ 1 <= Len(eventLog)
      BY <2>3 DEF ReplayInv
    <3>3. Done = Len(eventLog) /\ Done >= 1
      BY ONLY <3>1, <3>2
    <3> QED BY <3>2, <3>3
  <2>5. Follows(Len(eventLog))
    BY <2>4 DEF ReplayInv, Follows
  <2> QED BY <2>4, <2>5, FollowedIsFirst
<1> QED BY <1>1, ProjectorInvHolds, PTL DEF EventProjectorSpec, ReplayRestoresRows

=============================================================================
