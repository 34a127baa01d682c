----------------------- MODULE BackendProcess_proofs ------------------------
(* The two parts of the backend process.  For any number of requests and days *)
(* of the daily bonus: nothing is booked that was not mined, a day's row is   *)
(* PAID exactly when its transfer is booked, a paid row stays paid, and       *)
(* without faults the service implements DailyBonus.  For any number of       *)
(* refreshes, failures and processes: the rows hold the versions 1 to n, the  *)
(* active one is n, and no refresh knows a later one.                         *)
EXTENDS MCBackendProcess, FiniteSetTheorems, TLAPS

-----------------------------------------------------------------------------
(* What holds under every fault *)

Unsent == {"lookup", "receipt", "reset", "readUser", "resumeFinalize", "reserve", "send"}

\* A request names its own transfer only after broadcasting it, finalises what
\* was mined, and remembers a user row that the present one is ahead of.
RequestRemembers(r) ==
    LET me == request[r] IN
    /\ me.hash \in {NoTx, r}
    /\ me.hash = r => transfers[r] # "none"
    /\ me.step \in Unsent => transfers[r] = "none"
    /\ me.step \in {"storeHash", "wait", "confirmFailed", "finalize"} => me.hash = r
    /\ me.step = "finalize" => transfers[r] = "mined"
    /\ me.step = "receipt" => me.seenTx \in Requests
    /\ me.step \in {"readUser", "resumeFinalize"} =>
          me.seenTx \in Requests /\ transfers[me.seenTx] = "mined"
    /\ me.seenUser.streak <= me.seenUser.total
    /\ me.seenUser.total <= user.total

MinedInv ==
    /\ \A r \in booked : transfers[r] = "mined"
    /\ user.streak <= user.total
    /\ \A r \in Requests : RequestRemembers(r)

-----------------------------------------------------------------------------
(* What holds unless a request writes late *)

\* r has the reservation of its row and has not stored its transfer there.
Holds(r) == request[r].step \in {"send", "storeHash", "markFailed"} /\ RowOf(r).tx # r

RequestOwns(r) ==
    /\ transfers[r] # "reverted"
    /\ request[r].step \notin {"reset", "confirmFailed"}
    /\ request[r].step \in {"wait", "finalize"} => RowOf(r).tx = r
    /\ Holds(r) => Locked(RowOf(r))
    /\ r \in booked => RowOf(r).tx = r
    /\ faults = {} /\ transfers[r] # "none" => RowOf(r).tx = r \/ request[r].step = "storeHash"

RowOK(d) ==
    /\ claims[d].status = "none" => claims[d].tx = NoTx
    /\ claims[d].tx # NoTx => request[claims[d].tx].date = d
                              /\ request[claims[d].tx].hash = claims[d].tx
    /\ claims[d].status = "PAID" <=> claims[d].tx \in booked

OwnInv ==
    /\ \A r \in Requests : RequestOwns(r)
    /\ \A r, s \in Requests :
          Holds(r) /\ Holds(s) /\ request[r].date = request[s].date => r = s
    /\ \A d \in Days : RowOK(d)
    /\ IsFiniteSet(booked)
    /\ user.total = Cardinality(booked)

DailyInv ==
    /\ DailyTypeOK
    /\ MinedInv
    /\ ~LateWrites => OwnInv

-----------------------------------------------------------------------------
(* Types *)

LEMMA RequestTypes ==
    ASSUME DailyTypeOK, NEW r \in Requests
    PROVE  /\ \A step \in Steps : Go(r, step) => request' \in [Requests -> Request]
           /\ \A outcome \in Outcomes : Finish(r, outcome) => request' \in [Requests -> Request]
<1>1. request[r] \in Request
  BY DEF DailyTypeOK
<1>2. ASSUME NEW step \in Steps, Go(r, step) PROVE request' \in [Requests -> Request]
  <2>1. [request[r] EXCEPT !.step = step] \in Request
    BY <1>1 DEF Request
  <2> QED
    BY <1>2, <2>1 DEF Go, DailyTypeOK
<1>3. ASSUME NEW outcome \in Outcomes, Finish(r, outcome)
      PROVE  request' \in [Requests -> Request]
  <2>1. [request[r] EXCEPT !.step = "done", !.outcome = outcome] \in Request
    BY <1>1 DEF Request, Steps
  <2> QED
    BY <1>3, <2>1 DEF Finish, DailyTypeOK
<1> QED
  BY <1>2, <1>3

LEMMA RowTypes ==
    ASSUME DailyTypeOK, NEW r \in Requests
    PROVE  /\ RowOf(r) \in Claim
           /\ request[r] \in Request
           /\ \A row \in Claim : SetRow(r, row) => claims' \in [Days -> Claim]
<1>1. request[r] \in Request /\ request[r].date \in Days
  BY DEF DailyTypeOK, Request
<1> QED
  BY <1>1 DEF DailyTypeOK, RowOf, SetRow

LEMMA PayTypes ==
    ASSUME DailyTypeOK, NEW r \in Requests, NEW tx \in Requests,
           NEW oldUser \in UserRow, NEW paidOn \in Days,
           Pay(r, tx, oldUser, paidOn), UNCHANGED <<faults, day, transfers>>
    PROVE  DailyTypeOK'
<1>1. NextStreak(oldUser, request[r].date) \in Nat
  BY DEF NextStreak, UserRow
<1>2. user' \in UserRow
  BY <1>1, DailyRewardAssumption DEF Pay, DailyTypeOK, UserRow, Days
<1>3. [RowOf(r) EXCEPT !.status = "PAID"] \in Claim
  BY RowTypes DEF Claim, ClaimStatus
<1>4. claims' \in [Days -> Claim]
  BY <1>3, RowTypes DEF Pay
<1>5. request' \in [Requests -> Request]
  BY RequestTypes DEF Pay, Outcomes
<1> QED
  BY <1>2, <1>4, <1>5 DEF Pay, DailyTypeOK

LEMMA TypeStep ==
    ASSUME DailyTypeOK, MinedInv, [DailyNext]_dailyVars
    PROVE  DailyTypeOK'
<1>0. /\ \A r \in Requests : request[r] \in Request
      /\ {"receipt", "reset", "readUser", "resumeFinalize", "reserve", "send", "storeHash",
          "wait", "confirmFailed", "finalize", "markFailed", "done"} \subseteq Steps
      /\ {"paid", "alreadyClaimed", "pending", "error"} \subseteq Outcomes
  BY DEF DailyTypeOK, Steps, Outcomes
<1>1. ASSUME NEW r \in Requests, Start(r) PROVE DailyTypeOK'
  <2>1. [NoRequest EXCEPT !.step = "lookup", !.date = day] \in Request
    <3>1. NewUser \in UserRow /\ 1 \in Days
      BY DailyRewardAssumption DEF NewUser, UserRow, Days
    <3>2. NoRequest \in Request
      BY <3>1 DEF NoRequest, Request, Steps, Outcomes
    <3>3. "lookup" \in Steps /\ day \in Days
      BY DEF Steps, DailyTypeOK
    <3> HIDE DEF NoRequest
    <3> QED
      BY <3>2, <3>3 DEF Request
  <2> QED
    BY <1>1, <2>1 DEF Start, DailyTypeOK
<1>2. ASSUME NEW r \in Requests, Lookup(r) PROVE DailyTypeOK'
  <2>1. request' \in [Requests -> Request]
    <3>1. RowOf(r).tx \in Requests \cup {NoTx}
      BY RowTypes DEF Claim
    <3>2. [request[r] EXCEPT !.step = "receipt", !.seenTx = RowOf(r).tx] \in Request
      BY <1>0, <3>1 DEF Request
    <3>3. CASE request' = [request EXCEPT ![r].step = "receipt", ![r].seenTx = RowOf(r).tx]
      BY <3>2, <3>3 DEF DailyTypeOK
    <3>4. CASE Finish(r, "alreadyClaimed") \/ Finish(r, "pending") \/ Go(r, "reserve")
      BY <1>0, <3>4, RequestTypes
    <3> QED
      BY <1>2, <3>3, <3>4 DEF Lookup
  <2> QED
    BY <1>2, <2>1 DEF Lookup, DailyTypeOK
<1>3. ASSUME NEW r \in Requests, Receipt(r) PROVE DailyTypeOK'
  BY <1>0, <1>3, RequestTypes DEF Receipt, DailyTypeOK
<1>4. ASSUME NEW r \in Requests, Reset(r) PROVE DailyTypeOK'
  <2>1. [RowOf(r) EXCEPT !.status = "FAILED", !.tx = NoTx] \in Claim
    BY RowTypes DEF Claim, ClaimStatus
  <2> QED
    BY <1>0, <1>4, <2>1, RequestTypes, RowTypes DEF Reset, DailyTypeOK
<1>5. ASSUME NEW r \in Requests, ReadUser(r) PROVE DailyTypeOK'
  <2>1. [request[r] EXCEPT !.step = "resumeFinalize", !.seenUser = user, !.seenDay = day]
           \in Request
    BY <1>0 DEF Request, DailyTypeOK
  <2> QED
    BY <1>5, <2>1 DEF ReadUser, DailyTypeOK
<1>6. ASSUME NEW r \in Requests, ResumeFinalize(r) PROVE DailyTypeOK'
  <2>1. request[r].seenTx \in Requests /\ request[r].seenUser \in UserRow
        /\ request[r].seenDay \in Days
    BY <1>0, <1>6 DEF ResumeFinalize, At, MinedInv, RequestRemembers, Request
  <2>2. CASE Pay(r, request[r].seenTx, request[r].seenUser, request[r].seenDay)
    BY <1>6, <2>1, <2>2, PayTypes DEF ResumeFinalize
  <2>3. CASE (Finish(r, "error") \/ Finish(r, "alreadyClaimed")) /\ UNCHANGED <<claims, user, booked>>
    BY <1>0, <1>6, <2>3, RequestTypes DEF ResumeFinalize, DailyTypeOK
  <2> QED
    BY <1>6, <2>2, <2>3 DEF ResumeFinalize
<1>7. ASSUME NEW r \in Requests, Reserve(r) PROVE DailyTypeOK'
  <2>1. [status |-> "PROCESSING", tx |-> NoTx, stale |-> FALSE] \in Claim
    BY DEF Claim, ClaimStatus
  <2> QED
    BY <1>0, <1>7, <2>1, RequestTypes, RowTypes DEF Reserve, DailyTypeOK
<1>8. ASSUME NEW r \in Requests, Send(r) PROVE DailyTypeOK'
  <2>1. [request[r] EXCEPT !.step = "storeHash", !.hash = r] \in Request
    BY <1>0 DEF Request
  <2>2. request' \in [Requests -> Request]
    BY <1>0, <1>8, <2>1, RequestTypes DEF Send, DailyTypeOK
  <2> QED
    BY <1>8, <2>2 DEF Send, DailyTypeOK, TransferState
<1>9. ASSUME NEW r \in Requests, StoreHash(r) PROVE DailyTypeOK'
  <2>1. [RowOf(r) EXCEPT !.tx = request[r].hash] \in Claim
    BY <1>0, RowTypes DEF Claim, Request
  <2> QED
    BY <1>0, <1>9, <2>1, RequestTypes, RowTypes DEF StoreHash, DailyTypeOK
<1>10. ASSUME NEW r \in Requests, Wait(r) \/ WaitFails(r) PROVE DailyTypeOK'
  BY <1>0, <1>10, RequestTypes DEF Wait, WaitFails, DailyTypeOK
<1>11. ASSUME NEW r \in Requests, ConfirmFailed(r) PROVE DailyTypeOK'
  <2>1. [RowOf(r) EXCEPT !.status = "FAILED", !.tx = NoTx] \in Claim
    BY RowTypes DEF Claim, ClaimStatus
  <2> QED
    BY <1>0, <1>11, <2>1, RequestTypes, RowTypes DEF ConfirmFailed, DailyTypeOK
<1>12. ASSUME NEW r \in Requests, Finalize(r) PROVE DailyTypeOK'
  <2>1. request[r].hash = r
    BY <1>12 DEF Finalize, At, MinedInv, RequestRemembers
  <2>2. CASE Pay(r, request[r].hash, user, day)
    BY <1>12, <2>1, <2>2, PayTypes DEF Finalize, DailyTypeOK
  <2>3. CASE Go(r, "markFailed") /\ UNCHANGED <<claims, user, booked>>
    BY <1>0, <1>12, <2>3, RequestTypes DEF Finalize, DailyTypeOK
  <2> QED
    BY <1>12, <2>2, <2>3 DEF Finalize
<1>13. ASSUME NEW r \in Requests, MarkFailed(r) PROVE DailyTypeOK'
  <2>1. /\ [RowOf(r) EXCEPT !.status = "FAILED", !.tx = NoTx] \in Claim
        /\ [RowOf(r) EXCEPT !.tx = request[r].hash] \in Claim
    BY <1>0, RowTypes DEF Claim, ClaimStatus, Request
  <2> QED
    BY <1>0, <1>13, <2>1, RequestTypes, RowTypes DEF MarkFailed, DailyTypeOK
<1>14. ASSUME NEW r \in Requests, DbError(r) PROVE DailyTypeOK'
  BY <1>0, <1>14, RequestTypes DEF DbError, DailyTypeOK
<1>15. ASSUME NEW r \in Requests, Mine(r) PROVE DailyTypeOK'
  BY <1>15 DEF Mine, DailyTypeOK, TransferState
<1>16. ASSUME NEW d \in Days, WindowElapses(d) PROVE DailyTypeOK'
  <2>1. [claims[d] EXCEPT !.stale = TRUE] \in Claim
    BY DEF DailyTypeOK, Claim
  <2> QED
    BY <1>16, <2>1 DEF WindowElapses, DailyTypeOK
<1>17. CASE Midnight
  BY <1>17, DailyRewardAssumption DEF Midnight, DailyTypeOK, Days
<1>18. CASE Crash
  <2>1. \A r \in Requests : [request[r] EXCEPT !.step = "done", !.outcome = "error"] \in Request
    BY <1>0 DEF Request
  <2> QED
    BY <1>18, <2>1 DEF Crash, DailyTypeOK
<1>19. CASE UNCHANGED dailyVars
  BY <1>19 DEF dailyVars, DailyTypeOK
<1> QED
  BY <1>1, <1>2, <1>3, <1>4, <1>5, <1>6, <1>7, <1>8, <1>9, <1>10, <1>11, <1>12,
     <1>13, <1>14, <1>15, <1>16, <1>17, <1>18, <1>19
  DEF DailyNext, RequestStep

-----------------------------------------------------------------------------
(* Mined transfers *)

\* Transfers only advance, the total only grows, and a request that has
\* changed remembers what it should.
LEMMA MinedAdvances ==
    ASSUME DailyTypeOK, DailyTypeOK', MinedInv,
           \A s \in Requests : /\ transfers[s] # "none" => transfers'[s] # "none"
                               /\ transfers[s] = "mined" => transfers'[s] = "mined",
           \A s \in booked' : transfers'[s] = "mined",
           user.total <= user'.total,
           user'.streak <= user'.total,
           \A s \in Requests :
               (request'[s] = request[s] /\ (transfers[s] # "none" \/ transfers'[s] = "none"))
               \/ RequestRemembers(s)'
    PROVE  MinedInv'
<1>1. user.total \in Nat /\ user'.total \in Nat
  BY DEF DailyTypeOK, UserRow
<1>2. ASSUME NEW s \in Requests, request'[s] = request[s],
             transfers[s] # "none" \/ transfers'[s] = "none"
      PROVE  RequestRemembers(s)'
  <2>1. RequestRemembers(s)
    BY DEF MinedInv
  <2>2. request[s].seenUser.total \in Nat
    BY DEF DailyTypeOK, Request, UserRow
  <2>3. request[s].seenUser.total <= user'.total
    BY <1>1, <2>1, <2>2 DEF RequestRemembers, Unsent
  <2>4. request[s].step \in {"readUser", "resumeFinalize"} =>
           request[s].seenTx \in Requests /\ transfers'[request[s].seenTx] = "mined"
    BY <2>1 DEF RequestRemembers, Unsent
  <2> QED
    BY <1>2, <2>1, <2>3, <2>4 DEF RequestRemembers, Unsent
<1> QED
  BY <1>2 DEF MinedInv

\* A request goes to another step.
LEMMA MinedMoves ==
    ASSUME DailyTypeOK, DailyTypeOK', MinedInv, NEW r \in Requests, NEW step \in Steps,
           UNCHANGED <<user, booked, transfers>>,
           Go(r, step),
           step \in {"wait", "confirmFailed", "finalize"} => request[r].hash = r,
           step = "finalize" => transfers[r] = "mined",
           step \in Unsent => request[r].step \in Unsent,
           step = "readUser" => request[r].seenTx \in Requests
                                /\ transfers[request[r].seenTx] = "mined",
           step \notin {"storeHash", "receipt", "resumeFinalize"}
    PROVE  MinedInv'
<1>1. RequestRemembers(r)
  BY DEF MinedInv
<1>2. request \in [Requests -> Request]
  BY DEF DailyTypeOK
<1>3. request' = [request EXCEPT ![r].step = step]
  BY DEF Go
<1>4. RequestRemembers(r)'
  BY <1>1, <1>2, <1>3 DEF RequestRemembers
<1> QED
  BY <1>2, <1>3, <1>4, MinedAdvances DEF MinedInv, DailyTypeOK, UserRow

\* A request is answered.
LEMMA MinedEnds ==
    ASSUME DailyTypeOK, DailyTypeOK', MinedInv, NEW r \in Requests, NEW outcome \in Outcomes,
           UNCHANGED <<user, booked, transfers>>, Finish(r, outcome)
    PROVE  MinedInv'
<1>1. RequestRemembers(r)
  BY DEF MinedInv
<1>2. request \in [Requests -> Request]
  BY DEF DailyTypeOK
<1>3. request' = [request EXCEPT ![r].step = "done", ![r].outcome = outcome]
  BY DEF Finish
<1>4. RequestRemembers(r)'
  BY <1>1, <1>2, <1>3 DEF RequestRemembers, Unsent
<1> QED
  BY <1>2, <1>3, <1>4, MinedAdvances DEF MinedInv, DailyTypeOK, UserRow

LEMMA MinedPays ==
    ASSUME DailyTypeOK, DailyTypeOK', MinedInv, NEW r \in Requests, NEW tx \in Requests,
           NEW oldUser \in UserRow, NEW paidOn \in Days,
           Pay(r, tx, oldUser, paidOn), UNCHANGED transfers,
           transfers[tx] = "mined",
           oldUser.streak <= oldUser.total, oldUser.total <= user.total
    PROVE  MinedInv'
<1>1. /\ oldUser.streak \in Nat /\ oldUser.total \in Nat /\ user.total \in Nat
      /\ user'.total = user.total + 1
      /\ user'.streak = NextStreak(oldUser, request[r].date)
  BY DEF Pay, DailyTypeOK, UserRow
<1>2. NextStreak(oldUser, request[r].date) \in {oldUser.streak + 1, 1}
  BY DEF NextStreak
<1>3. user.total <= user'.total /\ user'.streak <= user'.total
  BY <1>1, <1>2
<1>4. \A s \in booked' : transfers'[s] = "mined"
  BY DEF Pay, MinedInv
<1>5. request \in [Requests -> Request]
  BY DEF DailyTypeOK
<1>6. request' = [request EXCEPT ![r].step = "done", ![r].outcome = "paid"]
  BY DEF Pay, Finish
<1>7. RequestRemembers(r)'
  <2>1. RequestRemembers(r) /\ request[r].seenUser.total \in Nat
    BY DEF MinedInv, DailyTypeOK, Request, UserRow
  <2>2. request[r].seenUser.total <= user'.total
    BY <1>1, <2>1 DEF RequestRemembers, Unsent
  <2> QED
    BY <1>5, <1>6, <2>1, <2>2 DEF RequestRemembers, Unsent
<1> QED
  BY <1>3, <1>4, <1>5, <1>6, <1>7, MinedAdvances

LEMMA MinedStep ==
    ASSUME DailyTypeOK, MinedInv, [DailyNext]_dailyVars
    PROVE  MinedInv'
<1> USE DEF At, Unsent
<1>0. /\ DailyTypeOK'
      /\ request \in [Requests -> Request]
      /\ \A r \in Requests : RequestRemembers(r) /\ request[r] \in Request
      /\ user.total \in Nat /\ user.total <= user.total /\ user.streak <= user.total
      /\ \A r \in booked : transfers[r] = "mined"
      /\ {"receipt", "reset", "readUser", "resumeFinalize", "reserve", "send", "storeHash",
          "wait", "confirmFailed", "finalize", "markFailed", "done"} \subseteq Steps
      /\ {"paid", "alreadyClaimed", "pending", "error"} \subseteq Outcomes
  BY TypeStep DEF DailyTypeOK, MinedInv, UserRow, Steps, Outcomes
<1>1. ASSUME NEW r \in Requests, Start(r) PROVE MinedInv'
  <2>1. RequestRemembers(r)'
    BY <1>0, <1>1 DEF Start, RequestRemembers, NoRequest, NewUser, DailyTypeOK, UserRow
  <2> QED
    BY <1>0, <1>1, <2>1, MinedAdvances DEF Start
<1>2. ASSUME NEW r \in Requests, Lookup(r) PROVE MinedInv'
  <2>1. CASE request' = [request EXCEPT ![r].step = "receipt", ![r].seenTx = RowOf(r).tx]
             /\ RowOf(r).tx # NoTx
    <3>1. RowOf(r).tx \in Requests
      BY <2>1, RowTypes DEF Claim
    <3>2. RequestRemembers(r)'
      BY <1>0, <1>2, <2>1, <3>1 DEF Lookup, RequestRemembers
    <3> QED
      BY <1>0, <1>2, <2>1, <3>2, MinedAdvances DEF Lookup
  <2>2. CASE Finish(r, "alreadyClaimed") \/ Finish(r, "pending") \/ Go(r, "reserve")
    BY <1>0, <1>2, <2>2, MinedMoves, MinedEnds DEF Lookup
  <2> QED
    BY <1>2, <2>1, <2>2 DEF Lookup
<1>3. ASSUME NEW r \in Requests, Receipt(r) PROVE MinedInv'
  <2>1. request[r].seenTx \in Requests
    BY <1>0, <1>3 DEF Receipt, At, RequestRemembers
  <2> QED
    BY <1>0, <1>3, <2>1, MinedMoves, MinedEnds DEF Receipt
<1>4. ASSUME NEW r \in Requests, Reset(r) PROVE MinedInv'
  BY <1>0, <1>4, MinedMoves, MinedEnds DEF Reset
<1>5. ASSUME NEW r \in Requests, ReadUser(r) PROVE MinedInv'
  <2>1. RequestRemembers(r)'
    BY <1>0, <1>5 DEF ReadUser, At, RequestRemembers
  <2> QED
    BY <1>0, <1>5, <2>1, MinedAdvances DEF ReadUser
<1>6. ASSUME NEW r \in Requests, ResumeFinalize(r) PROVE MinedInv'
  <2>1. request[r].seenTx \in Requests /\ transfers[request[r].seenTx] = "mined"
        /\ request[r].seenUser \in UserRow /\ request[r].seenDay \in Days
        /\ request[r].seenUser.streak <= request[r].seenUser.total
        /\ request[r].seenUser.total <= user.total
    BY <1>0, <1>6 DEF ResumeFinalize, At, RequestRemembers, Request
  <2>2. CASE Pay(r, request[r].seenTx, request[r].seenUser, request[r].seenDay)
    BY <1>0, <1>6, <2>1, <2>2, MinedPays DEF ResumeFinalize
  <2>3. CASE (Finish(r, "error") \/ Finish(r, "alreadyClaimed")) /\ UNCHANGED <<claims, user, booked>>
    BY <1>0, <1>6, <2>3, MinedMoves, MinedEnds DEF ResumeFinalize
  <2> QED
    BY <1>6, <2>2, <2>3 DEF ResumeFinalize
<1>7. ASSUME NEW r \in Requests, Reserve(r) PROVE MinedInv'
  BY <1>0, <1>7, MinedMoves, MinedEnds DEF Reserve
<1>8. ASSUME NEW r \in Requests, Send(r) PROVE MinedInv'
  <2>0. RequestRemembers(r) /\ transfers \in [Requests -> TransferState]
    BY <1>0 DEF DailyTypeOK
  <2>1. RequestRemembers(r)'
    <3>1. CASE /\ transfers' = [transfers EXCEPT ![r] = "pending"]
               /\ request' = [request EXCEPT ![r].step = "storeHash", ![r].hash = r]
      BY <1>0, <1>8, <2>0, <3>1 DEF Send, RequestRemembers
    <3>2. CASE /\ transfers' = [transfers EXCEPT ![r] = "pending"]
               /\ Go(r, "markFailed")
      BY <1>0, <1>8, <2>0, <3>2 DEF Send, Go, RequestRemembers
    <3>3. CASE UNCHANGED transfers /\ Go(r, "markFailed")
      BY <1>0, <1>8, <2>0, <3>3 DEF Send, Go, RequestRemembers
    <3> QED
      BY <1>8, <3>1, <3>2, <3>3 DEF Send
  <2>2. \A s \in Requests : transfers'[s] = transfers[s] \/ (s = r /\ transfers'[s] = "pending")
    BY <1>8 DEF Send, DailyTypeOK
  <2>3. \A s \in Requests : request'[s] = request[s] \/ s = r
    BY <1>0, <1>8 DEF Send, Go
  <2>4. transfers[r] = "none" /\ UNCHANGED <<user, booked>>
    BY <1>8, <2>0 DEF Send, RequestRemembers
  <2>5. \A s \in booked' : transfers'[s] = "mined"
    BY <1>0, <2>2, <2>4 DEF DailyTypeOK
  <2> QED
    BY <1>0, <2>1, <2>2, <2>3, <2>4, <2>5, MinedAdvances
<1>9. ASSUME NEW r \in Requests, StoreHash(r) PROVE MinedInv'
  BY <1>0, <1>9, MinedMoves, MinedEnds DEF StoreHash, At, RequestRemembers
<1>10. ASSUME NEW r \in Requests, Wait(r) \/ WaitFails(r) PROVE MinedInv'
  BY <1>0, <1>10, MinedMoves, MinedEnds DEF Wait, WaitFails, At, RequestRemembers
<1>11. ASSUME NEW r \in Requests, ConfirmFailed(r) PROVE MinedInv'
  BY <1>0, <1>11, MinedMoves, MinedEnds DEF ConfirmFailed
<1>12. ASSUME NEW r \in Requests, Finalize(r) PROVE MinedInv'
  <2>1. request[r].hash = r /\ transfers[r] = "mined"
    BY <1>0, <1>12 DEF Finalize, At, RequestRemembers
  <2>2. CASE Pay(r, request[r].hash, user, day)
    BY <1>0, <1>12, <2>1, <2>2, MinedPays DEF Finalize, DailyTypeOK
  <2>3. CASE Go(r, "markFailed") /\ UNCHANGED <<claims, user, booked>>
    BY <1>0, <1>12, <2>3, MinedMoves, MinedEnds DEF Finalize
  <2> QED
    BY <1>12, <2>2, <2>3 DEF Finalize
<1>13. ASSUME NEW r \in Requests, MarkFailed(r) PROVE MinedInv'
  BY <1>0, <1>13, MinedMoves, MinedEnds DEF MarkFailed
<1>14. ASSUME NEW r \in Requests, DbError(r) PROVE MinedInv'
  BY <1>0, <1>14, MinedMoves, MinedEnds DEF DbError
<1>15. ASSUME NEW r \in Requests, Mine(r) PROVE MinedInv'
  <2>1. \A s \in Requests : transfers'[s] = transfers[s]
                           \/ (transfers[s] = "pending" /\ transfers'[s] # "none")
    BY <1>15 DEF Mine, DailyTypeOK
  <2> QED
    BY <1>0, <1>15, <2>1, MinedAdvances DEF Mine, DailyTypeOK
<1>16. ASSUME NEW d \in Days, WindowElapses(d) PROVE MinedInv'
  BY <1>0, <1>16, MinedAdvances DEF WindowElapses
<1>17. CASE Midnight
  BY <1>0, <1>17, MinedAdvances DEF Midnight
<1>18. CASE Crash
  <2>1. \A s \in Requests : request'[s] = request[s] \/ RequestRemembers(s)'
    <3> SUFFICES ASSUME NEW s \in Requests, request'[s] # request[s]
                 PROVE  RequestRemembers(s)'
      OBVIOUS
    <3>1. request'[s] = [request[s] EXCEPT !.step = "done", !.outcome = "error"]
      BY <1>18 DEF Crash
    <3>2. RequestRemembers(s) /\ request[s] \in Request
      BY <1>0
    <3> QED
      BY <1>18, <3>1, <3>2 DEF Crash, RequestRemembers, Request
  <2> QED
    BY <1>0, <1>18, <2>1, MinedAdvances DEF Crash
<1>19. CASE UNCHANGED dailyVars
  BY <1>0, <1>19, MinedAdvances DEF dailyVars
<1> QED
  BY <1>1, <1>2, <1>3, <1>4, <1>5, <1>6, <1>7, <1>8, <1>9, <1>10, <1>11, <1>12,
     <1>13, <1>14, <1>15, <1>16, <1>17, <1>18, <1>19
  DEF DailyNext, RequestStep

-----------------------------------------------------------------------------
(* Rows and their holders *)

\* A step that writes no row: requests only go on, and none of them takes a
\* reservation or a stored transfer it does not have.
LEMMA OwnMoves ==
    ASSUME DailyTypeOK, DailyTypeOK', OwnInv,
           UNCHANGED <<faults, claims, transfers, booked, user>>,
           \A s \in Requests :
               /\ request'[s].date = request[s].date
               /\ request'[s].hash = request[s].hash
               /\ request'[s].step \notin {"reset", "confirmFailed"}
               /\ request'[s].step \in {"wait", "finalize"} => RowOf(s).tx = s
               /\ request'[s].step \in {"send", "storeHash", "markFailed"} =>
                     RowOf(s).tx = s \/ Holds(s)
               /\ faults = {} /\ request[s].step = "storeHash" =>
                     request'[s].step = "storeHash" \/ RowOf(s).tx = s
    PROVE  OwnInv'
<1>1. \A s \in Requests : RowOf(s)' = RowOf(s) /\ (Holds(s)' => Holds(s))
  BY DEF RowOf, Holds
<1>2. ASSUME NEW s \in Requests PROVE RequestOwns(s)'
  <2>1. RequestOwns(s)
    BY DEF OwnInv
  <2> QED
    BY <1>1, <2>1 DEF RequestOwns
<1>3. \A r, s \in Requests :
          Holds(r)' /\ Holds(s)' /\ request'[r].date = request'[s].date => r = s
  BY <1>1 DEF OwnInv
<1>4. ASSUME NEW d \in Days PROVE RowOK(d)'
  <2>1. RowOK(d) /\ (claims[d].tx # NoTx => claims[d].tx \in Requests)
    BY DEF OwnInv, DailyTypeOK, Claim
  <2> QED
    BY <2>1 DEF RowOK
<1> QED
  BY <1>2, <1>3, <1>4 DEF OwnInv

\* A step that writes a row without a transfer, held by nobody else.
LEMMA OwnWrites ==
    ASSUME DailyTypeOK, DailyTypeOK', OwnInv, NEW r \in Requests, NEW row \in Claim,
           UNCHANGED <<faults, transfers, booked, user>>,
           SetRow(r, row),
           RowOf(r).tx = NoTx,
           \A s \in Requests : Holds(s) /\ request[s].date = request[r].date => s = r,
           \A s \in Requests \ {r} : request'[s] = request[s],
           request'[r].date = request[r].date,
           request'[r].hash = request[r].hash,
           row.tx \in {NoTx, r},
           row.tx = r => request[r].hash = r,
           row.status \in {"PROCESSING", "FAILED"},
           request'[r].step \notin {"reset", "confirmFailed", "storeHash", "markFailed", "finalize"},
           request'[r].step = "wait" => row.tx = r,
           request'[r].step = "send" => Locked(row),
           faults = {} /\ transfers[r] # "none" => row.tx = r
    PROVE  OwnInv'
<1> DEFINE d == request[r].date
<1>1. /\ d \in Days
      /\ claims' = [claims EXCEPT ![d] = row]
      /\ claims \in [Days -> Claim]
      /\ \A s \in Requests : request[s].date \in Days /\ request'[s].date = request[s].date
  BY DEF DailyTypeOK, Request, SetRow
<1>2. /\ RowOf(r)' = row
      /\ \A s \in Requests : request[s].date = d => RowOf(s).tx = NoTx /\ RowOf(s)' = row
      /\ \A s \in Requests : request[s].date # d => RowOf(s)' = RowOf(s)
  BY <1>1 DEF RowOf
<1>3. NoTx \notin Requests /\ NoTx \notin booked /\ booked \subseteq Requests
  BY DailyRewardAssumption DEF DailyTypeOK
<1>4. ASSUME NEW s \in Requests PROVE RequestOwns(s)'
  <2>1. RequestOwns(s)
    BY DEF OwnInv
  <2>2. CASE s = r
    BY <1>2, <1>3, <2>1, <2>2 DEF RequestOwns, Holds
  <2>3. CASE s # r /\ request[s].date = d
    <3>1. ~Holds(s) /\ RowOf(s).tx = NoTx /\ RowOf(s).tx # s
      BY <1>2, <1>3, <2>3
    <3>2. request[s].step \notin {"send", "storeHash", "markFailed", "wait", "finalize"}
      BY <2>1, <3>1 DEF RequestOwns, Holds
    <3> QED
      BY <2>1, <2>3, <3>1, <3>2 DEF RequestOwns, Holds
  <2>4. CASE s # r /\ request[s].date # d
    BY <1>2, <2>1, <2>4 DEF RequestOwns, Holds
  <2> QED
    BY <2>2, <2>3, <2>4
<1>5. ASSUME NEW s \in Requests, NEW t \in Requests,
             Holds(s)', Holds(t)', request'[s].date = request'[t].date
      PROVE  s = t
  <2>1. \A u \in Requests : u # r /\ Holds(u)' => request[u].date # d /\ Holds(u)
    <3> SUFFICES ASSUME NEW u \in Requests, u # r, Holds(u)'
                 PROVE  request[u].date # d /\ Holds(u)
      OBVIOUS
    <3>1. request'[u] = request[u]
      OBVIOUS
    <3>2. CASE request[u].date = d
      BY <1>2, <1>3, <3>1, <3>2 DEF Holds
    <3>3. CASE request[u].date # d
      BY <1>2, <3>1, <3>3 DEF Holds
    <3> QED
      BY <3>2, <3>3
  <2> QED
    BY <1>1, <1>5, <2>1 DEF OwnInv
<1>6. ASSUME NEW e \in Days PROVE RowOK(e)'
  <2>1. RowOK(e) /\ RowOK(d) /\ claims[d].tx = NoTx
    BY <1>1 DEF OwnInv, RowOf
  <2>2. CASE e = d
    <3>1. claims'[e] = row
      BY <1>1, <2>2
    <3>2. r \notin booked
      BY <1>3, <2>1 DEF OwnInv, RequestOwns, RowOf
    <3> QED
      BY <1>1, <1>3, <2>2, <3>1, <3>2 DEF RowOK
  <2>3. CASE e # d
    <3>1. claims'[e] = claims[e] /\ (claims[e].tx # NoTx => claims[e].tx \in Requests)
      BY <1>1, <2>3 DEF Claim
    <3>2. claims[e].tx # r
      BY <1>3, <2>1, <2>3 DEF RowOK
    <3> QED
      BY <2>1, <3>1, <3>2 DEF RowOK
  <2> QED
    BY <2>2, <2>3
<1> QED
  BY <1>4, <1>5, <1>6 DEF OwnInv

\* A row whose transfer was not booked is paid.
LEMMA OwnPays ==
    ASSUME DailyTypeOK, DailyTypeOK', OwnInv, NEW r \in Requests, NEW tx \in Requests,
           NEW oldUser, NEW paidOn,
           Pay(r, tx, oldUser, paidOn), CanFinalize(RowOf(r), tx),
           UNCHANGED <<faults, transfers>>,
           request[r].step \in {"resumeFinalize", "finalize"}
    PROVE  OwnInv'
<1> DEFINE d == request[r].date
           paidRow == [RowOf(r) EXCEPT !.status = "PAID"]
<1>1. /\ d \in Days
      /\ claims' = [claims EXCEPT ![d] = paidRow]
      /\ claims \in [Days -> Claim]
      /\ request \in [Requests -> Request]
      /\ request' = [request EXCEPT ![r].step = "done", ![r].outcome = "paid"]
      /\ \A s \in Requests : request[s].date \in Days /\ request[s] \in Request
  BY DEF DailyTypeOK, Request, SetRow, Pay, Finish
<1>2. /\ \A s \in Requests :
             /\ request'[s].date = request[s].date
             /\ request'[s].hash = request[s].hash
             /\ s # r => request'[s] = request[s]
      /\ request'[r].step = "done"
  BY <1>1 DEF Request
<1>3. /\ claims[d] = RowOf(r) /\ RowOf(r) \in Claim
      /\ paidRow.tx = tx /\ paidRow.status = "PAID"
      /\ claims[d].tx = tx /\ claims[d].status \in {"PROCESSING", "FAILED"}
  BY <1>1 DEF RowOf, CanFinalize, Claim
<1>4. tx \notin booked /\ request[tx].date = d /\ NoTx \notin Requests /\ booked' = booked \cup {tx}
  BY <1>1, <1>3, DailyRewardAssumption DEF OwnInv, RowOK, Pay
<1>5. \A s \in Requests : RowOf(s).tx = RowOf(s)'.tx /\ (request[s].date # d => RowOf(s)' = RowOf(s))
  BY <1>1, <1>2, <1>3 DEF RowOf
<1>6. ASSUME NEW s \in Requests PROVE Holds(s)' => Holds(s) /\ request[s].date # d
  <2> SUFFICES ASSUME Holds(s)' PROVE Holds(s) /\ request[s].date # d
    OBVIOUS
  <2>1. s # r
    BY <1>2 DEF Holds
  <2>2. Holds(s)
    BY <1>2, <1>5, <2>1 DEF Holds
  <2>3. RowOf(s).tx = NoTx
    BY <2>2 DEF OwnInv, RequestOwns, Locked
  <2> QED
    BY <1>3, <1>4, <2>2, <2>3 DEF RowOf
<1>7. ASSUME NEW s \in Requests PROVE RequestOwns(s)'
  <2>1. RequestOwns(s)
    BY DEF OwnInv
  <2>2. s = tx => RowOf(s).tx = s
    BY <1>3, <1>4 DEF RowOf
  <2>3. request'[s].step = "storeHash" \/ request[s].step # "storeHash"
    BY <1>2
  <2>4. request'[s].step = request[s].step \/ request'[s].step = "done"
    BY <1>2
  <2> QED
    BY <1>4, <1>5, <1>6, <2>1, <2>2, <2>3, <2>4 DEF RequestOwns
<1>8. ASSUME NEW e \in Days PROVE RowOK(e)'
  <2>1. RowOK(e) /\ (claims[e].tx # NoTx => claims[e].tx \in Requests)
    BY <1>1 DEF OwnInv, Claim
  <2>2. CASE e = d
    BY <1>1, <1>2, <1>3, <1>4, <2>1, <2>2 DEF RowOK
  <2>3. CASE e # d
    BY <1>1, <1>2, <1>3, <1>4, <2>1, <2>3 DEF RowOK
  <2> QED
    BY <2>2, <2>3
<1>9. IsFiniteSet(booked') /\ user'.total = Cardinality(booked')
  <2>1. user'.total = user.total + 1
    BY DEF Pay
  <2>2. IsFiniteSet(booked) /\ user.total = Cardinality(booked)
    BY DEF OwnInv
  <2> QED
    BY <1>4, <2>1, <2>2, FS_AddElement
<1> QED
  BY <1>2, <1>6, <1>7, <1>8, <1>9 DEF OwnInv

\* A connection sends its next request.
LEMMA OwnStarts ==
    ASSUME DailyTypeOK, DailyTypeOK', MinedInv, OwnInv, NEW r \in Requests, Start(r)
    PROVE  OwnInv'
<1>1. /\ request[r].hash # r /\ transfers[r] = "none" /\ r \notin booked
      /\ request \in [Requests -> Request]
  BY DEF Start, MinedInv, RequestRemembers, DailyTypeOK
<1>2. /\ request'[r].step = "lookup"
      /\ \A s \in Requests : s # r => request'[s] = request[s]
      /\ UNCHANGED <<faults, claims, transfers, booked, user>>
  BY <1>1 DEF Start, NoRequest
<1>3. \A s \in Requests : (Holds(s)' => Holds(s) /\ s # r) /\ (s # r => RowOf(s)' = RowOf(s))
  BY <1>2 DEF Holds, RowOf
<1>4. ASSUME NEW s \in Requests PROVE RequestOwns(s)'
  <2>1. RequestOwns(s)
    BY DEF OwnInv
  <2>2. CASE s = r
    BY <1>1, <1>2, <1>3, <2>1, <2>2 DEF RequestOwns
  <2>3. CASE s # r
    BY <1>2, <1>3, <2>1, <2>3 DEF RequestOwns
  <2> QED
    BY <2>2, <2>3
<1>5. \A s, t \in Requests : Holds(s)' /\ Holds(t)' /\ request'[s].date = request'[t].date => s = t
  BY <1>2, <1>3 DEF OwnInv
<1>6. ASSUME NEW d \in Days PROVE RowOK(d)'
  <2>1. RowOK(d) /\ (claims[d].tx # NoTx => claims[d].tx \in Requests)
    BY DEF OwnInv, DailyTypeOK, Claim
  <2>2. claims[d].tx # r
    BY <1>1, <2>1, DailyRewardAssumption DEF RowOK
  <2> QED
    BY <1>2, <2>1, <2>2 DEF RowOK
<1> QED
  BY <1>2, <1>4, <1>5, <1>6 DEF OwnInv

\* The transfer is broadcast, whether the node's answer arrives or not.
LEMMA OwnSends ==
    ASSUME DailyTypeOK, DailyTypeOK', MinedInv, OwnInv, NEW r \in Requests, Send(r)
    PROVE  OwnInv'
<1>1. /\ request[r].hash # r /\ transfers[r] = "none"
      /\ request \in [Requests -> Request] /\ transfers \in [Requests -> TransferState]
      /\ request[r].step = "send"
  BY DEF Send, At, MinedInv, RequestRemembers, Unsent, DailyTypeOK
<1>2. /\ \A d \in Days : claims[d].tx # r
      /\ RowOf(r).tx # r /\ Holds(r)
  <2>1. \A d \in Days : claims[d].tx # r
    BY <1>1, DailyRewardAssumption DEF OwnInv, RowOK
  <2> QED
    BY <1>1, <2>1, RowTypes DEF Holds, RowOf, Request
<1>3. /\ request'[r].step \in {"storeHash", "markFailed"}
      /\ transfers'[r] \in {"none", "pending"}
      /\ faults = {} /\ transfers'[r] # "none" => request'[r].step = "storeHash"
      /\ \A s \in Requests : s # r => request'[s] = request[s] /\ transfers'[s] = transfers[s]
      /\ \A s \in Requests : request'[s].date = request[s].date
      /\ UNCHANGED <<faults, claims, booked, user>>
  <2>1. UNCHANGED <<faults, claims, booked, user>>
    BY DEF Send
  <2>2. CASE /\ transfers' = [transfers EXCEPT ![r] = "pending"]
             /\ request' = [request EXCEPT ![r].step = "storeHash", ![r].hash = r]
    BY <1>1, <2>1, <2>2
  <2>3. CASE Go(r, "markFailed") /\ UNCHANGED transfers
    BY <1>1, <2>1, <2>3 DEF Go
  <2>4. CASE /\ "lostReply" \in faults
             /\ transfers' = [transfers EXCEPT ![r] = "pending"]
             /\ Go(r, "markFailed")
    BY <1>1, <2>1, <2>4 DEF Go
  <2> QED
    BY <2>2, <2>3, <2>4 DEF Send
<1>4. \A s \in Requests : RowOf(s)' = RowOf(s) /\ (Holds(s)' => Holds(s))
  BY <1>2, <1>3 DEF Holds, RowOf
<1>5. ASSUME NEW s \in Requests PROVE RequestOwns(s)'
  <2>1. RequestOwns(s)
    BY DEF OwnInv
  <2>2. CASE s = r
    BY <1>3, <1>4, <2>1, <2>2 DEF RequestOwns
  <2>3. CASE s # r
    BY <1>3, <1>4, <2>1, <2>3 DEF RequestOwns
  <2> QED
    BY <2>2, <2>3
<1>6. ASSUME NEW d \in Days PROVE RowOK(d)'
  <2>1. RowOK(d) /\ (claims[d].tx # NoTx => claims[d].tx \in Requests)
    BY DEF OwnInv, DailyTypeOK, Claim
  <2> QED
    BY <1>2, <1>3, <2>1 DEF RowOK
<1> QED
  BY <1>3, <1>4, <1>5, <1>6 DEF OwnInv

LEMMA OwnMines ==
    ASSUME DailyTypeOK, DailyTypeOK', OwnInv, ~LateWrites, NEW r \in Requests, Mine(r)
    PROVE  OwnInv'
<1>1. /\ \A s \in Requests : /\ transfers'[s] # "reverted" \/ transfers'[s] = transfers[s]
                             /\ transfers'[s] # "none" => transfers[s] # "none"
      /\ UNCHANGED <<faults, claims, booked, user, request>>
  BY DEF Mine, LateWrites, DailyTypeOK
<1>2. \A s \in Requests : RowOf(s)' = RowOf(s) /\ Holds(s)' = Holds(s)
  BY <1>1 DEF RowOf, Holds
<1>3. ASSUME NEW s \in Requests PROVE RequestOwns(s)'
  BY <1>1, <1>2 DEF OwnInv, RequestOwns
<1>4. \A d \in Days : RowOK(d)'
  BY <1>1 DEF OwnInv, RowOK
<1> QED
  BY <1>1, <1>2, <1>3, <1>4 DEF OwnInv

\* The window elapses for a row that no request holds.
LEMMA OwnElapses ==
    ASSUME DailyTypeOK, DailyTypeOK', OwnInv, ~LateWrites, NEW d \in Days, WindowElapses(d)
    PROVE  OwnInv'
<1>1. /\ claims \in [Days -> Claim]
      /\ claims' = [claims EXCEPT ![d].stale = TRUE]
      /\ UNCHANGED <<faults, transfers, booked, user, request>>
      /\ \A s \in Requests : request[s].date = d =>
             request[s].step \notin {"send", "storeHash", "markFailed"}
      /\ \A s \in Requests : request[s].date \in Days
  BY DEF WindowElapses, Holding, LateWrites, DailyTypeOK, Request
<1>2. \A e \in Days : /\ claims'[e].tx = claims[e].tx /\ claims'[e].status = claims[e].status
                      /\ e # d => claims'[e] = claims[e]
  BY <1>1 DEF Claim
<1>3. \A s \in Requests : /\ RowOf(s)'.tx = RowOf(s).tx
                          /\ Holds(s)' <=> Holds(s)
                          /\ Holds(s) => RowOf(s)' = RowOf(s)
  BY <1>1, <1>2 DEF RowOf, Holds
<1>4. ASSUME NEW s \in Requests PROVE RequestOwns(s)'
  <2>1. RequestOwns(s)
    BY DEF OwnInv
  <2> QED
    BY <1>1, <1>3, <2>1 DEF RequestOwns
<1>5. \A s, t \in Requests : Holds(s)' /\ Holds(t)' /\ request'[s].date = request'[t].date => s = t
  BY <1>1, <1>3 DEF OwnInv
<1>6. ASSUME NEW e \in Days PROVE RowOK(e)'
  <2>1. RowOK(e)
    BY DEF OwnInv
  <2> QED
    BY <1>1, <1>2, <2>1 DEF RowOK
<1> QED
  BY <1>1, <1>4, <1>5, <1>6 DEF OwnInv

\* A request that is answered, or goes to a step that owns nothing.
LEMMA OwnLeaves ==
    ASSUME DailyTypeOK, DailyTypeOK', OwnInv, NEW r \in Requests, NEW step \in Steps,
           UNCHANGED <<faults, claims, transfers, booked, user>>,
           Go(r, step) \/ \E outcome \in Outcomes : step = "done" /\ Finish(r, outcome),
           step \notin {"send", "storeHash", "reset", "confirmFailed"},
           step \in {"wait", "finalize"} => RowOf(r).tx = r,
           step = "markFailed" => RowOf(r).tx = r \/ Holds(r),
           faults # {} \/ request[r].step # "storeHash" \/ RowOf(r).tx = r
    PROVE  OwnInv'
<1>1. request \in [Requests -> Request] /\ request[r] \in Request
  BY DEF DailyTypeOK
<1>2. /\ request'[r].date = request[r].date
      /\ request'[r].hash = request[r].hash
      /\ request'[r].step = step
      /\ \A s \in Requests : s # r => request'[s] = request[s]
  <2>1. CASE Go(r, step)
    BY <1>1, <2>1 DEF Go, Request
  <2>2. ASSUME NEW outcome \in Outcomes, step = "done", Finish(r, outcome)
        PROVE  /\ request'[r] = [request[r] EXCEPT !.step = step, !.outcome = outcome]
               /\ \A s \in Requests : s # r => request'[s] = request[s]
    BY <1>1, <2>2 DEF Finish
  <2>3. ASSUME NEW outcome
        PROVE  LET me == [request[r] EXCEPT !.step = step, !.outcome = outcome] IN
               me.date = request[r].date /\ me.hash = request[r].hash /\ me.step = step
    BY <1>1 DEF Request
  <2>4. CASE \E outcome \in Outcomes : step = "done" /\ Finish(r, outcome)
    <3>1. PICK outcome \in Outcomes : step = "done" /\ Finish(r, outcome)
      BY <2>4
    <3>2. request'[r] = [request[r] EXCEPT !.step = step, !.outcome = outcome]
      BY <2>2, <3>1
    <3>3. \A s \in Requests : s # r => request'[s] = request[s]
      BY <2>2, <3>1
    <3> QED
      BY <2>3, <3>2, <3>3
  <2> QED
    BY <2>1, <2>4
<1>3. ASSUME NEW s \in Requests, s # r
      PROVE  /\ request[s].step \notin {"reset", "confirmFailed"}
             /\ request[s].step \in {"wait", "finalize"} => RowOf(s).tx = s
             /\ request[s].step \in {"send", "storeHash", "markFailed"} => RowOf(s).tx = s \/ Holds(s)
  BY DEF OwnInv, RequestOwns, Holds
<1> QED
  BY <1>2, <1>3, OwnMoves

\* A row that already names the transfer is left as it is.
LEMMA SameRow ==
    ASSUME DailyTypeOK, NEW r \in Requests, RowOf(r).tx = r,
           SetRow(r, [RowOf(r) EXCEPT !.tx = r])
    PROVE  UNCHANGED claims
<1>1. RowOf(r) \in Claim /\ request[r].date \in Days /\ claims \in [Days -> Claim]
  BY RowTypes DEF DailyTypeOK, Request
<1>2. [RowOf(r) EXCEPT !.tx = r] = RowOf(r)
  BY <1>1 DEF Claim
<1> QED
  BY <1>1, <1>2 DEF SetRow, RowOf

LEMMA OwnStep ==
    ASSUME DailyTypeOK, DailyTypeOK', MinedInv, OwnInv, ~LateWrites, [DailyNext]_dailyVars
    PROVE  OwnInv'
<1> USE DEF At
<1>0. /\ \A r \in Requests : RequestOwns(r) /\ RequestRemembers(r) /\ RowOf(r) \in Claim
      /\ request \in [Requests -> Request]
      /\ {"receipt", "reset", "readUser", "resumeFinalize", "reserve", "send", "storeHash",
          "wait", "confirmFailed", "finalize", "markFailed", "done"} \subseteq Steps
      /\ {"paid", "alreadyClaimed", "pending", "error"} \subseteq Outcomes
  BY RowTypes DEF OwnInv, MinedInv, DailyTypeOK, Steps, Outcomes
<1>1. ASSUME NEW r \in Requests, Start(r) PROVE OwnInv'
  BY <1>1, OwnStarts
<1>2. ASSUME NEW r \in Requests, Lookup(r) PROVE OwnInv'
  <2>1. CASE request' = [request EXCEPT ![r].step = "receipt", ![r].seenTx = RowOf(r).tx]
    <3>1. \A s \in Requests : /\ request'[s].date = request[s].date
                              /\ request'[s].hash = request[s].hash
                              /\ request'[s].step = request[s].step \/ s = r
      BY <1>0, <2>1
    <3>2. request'[r].step = "receipt" /\ request[r].step = "lookup"
      BY <1>0, <1>2, <2>1 DEF Lookup
    <3> QED
      BY <1>0, <1>2, <3>1, <3>2, OwnMoves DEF Lookup, RequestOwns, Holds
  <2>2. CASE Finish(r, "alreadyClaimed") \/ Finish(r, "pending") \/ Go(r, "reserve")
    BY <1>0, <1>2, <2>2, OwnLeaves DEF Lookup
  <2> QED
    BY <1>2, <2>1, <2>2 DEF Lookup
<1>3. ASSUME NEW r \in Requests, Receipt(r) PROVE OwnInv'
  <2>1. transfers[request[r].seenTx] # "reverted"
    BY <1>0, <1>3 DEF Receipt, RequestOwns, RequestRemembers
  <2> QED
    BY <1>0, <1>3, <2>1, OwnLeaves DEF Receipt
<1>4. ASSUME NEW r \in Requests, Reset(r) \/ ConfirmFailed(r) PROVE FALSE
  BY <1>0, <1>4 DEF Reset, ConfirmFailed, RequestOwns
<1>5. ASSUME NEW r \in Requests, ReadUser(r) PROVE OwnInv'
  <2>1. \A s \in Requests : /\ request'[s].date = request[s].date
                            /\ request'[s].hash = request[s].hash
                            /\ request'[s].step = request[s].step \/ s = r
    BY <1>0, <1>5 DEF ReadUser
  <2>2. request'[r].step = "resumeFinalize" /\ request[r].step = "readUser"
    BY <1>0, <1>5 DEF ReadUser
  <2> QED
    BY <1>0, <1>5, <2>1, <2>2, OwnMoves DEF ReadUser, RequestOwns, Holds
<1>6. ASSUME NEW r \in Requests, ResumeFinalize(r) PROVE OwnInv'
  <2>1. request[r].seenTx \in Requests
    BY <1>0, <1>6 DEF ResumeFinalize, RequestRemembers
  <2>2. CASE /\ CanFinalize(RowOf(r), request[r].seenTx)
             /\ Pay(r, request[r].seenTx, request[r].seenUser, request[r].seenDay)
    BY <1>6, <2>1, <2>2, OwnPays DEF ResumeFinalize
  <2>3. CASE (Finish(r, "error") \/ Finish(r, "alreadyClaimed")) /\ UNCHANGED <<claims, user, booked>>
    BY <1>0, <1>6, <2>3, OwnLeaves DEF ResumeFinalize
  <2> QED
    BY <1>6, <2>2, <2>3 DEF ResumeFinalize
<1>7. ASSUME NEW r \in Requests, Reserve(r) PROVE OwnInv'
  <2>1. CASE (Finish(r, "error") \/ Finish(r, "alreadyClaimed")) /\ UNCHANGED claims
    BY <1>0, <1>7, <2>1, OwnLeaves DEF Reserve
  <2>2. CASE /\ Reservable(RowOf(r))
             /\ SetRow(r, [status |-> "PROCESSING", tx |-> NoTx, stale |-> FALSE])
             /\ Go(r, "send")
    <3>1. request[r].date \in Days /\ RowOf(r) = claims[request[r].date]
      BY <1>0 DEF Request, RowOf
    <3>2. RowOf(r).tx = NoTx
      BY <2>2, <3>1 DEF Reservable, OwnInv, RowOK
    <3>3. ASSUME NEW s \in Requests, Holds(s), request[s].date = request[r].date PROVE FALSE
      <4>1. Locked(RowOf(s))
        BY <1>0, <3>3 DEF RequestOwns
      <4>2. RowOf(s) = RowOf(r)
        BY <3>3 DEF RowOf
      <4> QED
        BY <2>2, <4>1, <4>2 DEF Reservable, Locked
    <3>4. PICK row \in Claim : /\ SetRow(r, row)
                              /\ row = [status |-> "PROCESSING", tx |-> NoTx, stale |-> FALSE]
      BY <2>2 DEF Claim, ClaimStatus
    <3>5. transfers[r] = "none"
      BY <1>0, <1>7 DEF Reserve, RequestRemembers, Unsent
    <3>6. /\ request'[r].date = request[r].date /\ request'[r].hash = request[r].hash
          /\ request'[r].step = "send"
          /\ \A s \in Requests \ {r} : request'[s] = request[s]
      BY <1>0, <2>2 DEF Go
    <3>7. UNCHANGED <<faults, transfers, booked, user>>
      BY <1>7 DEF Reserve
    <3>8. row.tx = NoTx /\ row.status = "PROCESSING" /\ NoTx # r /\ Locked(row)
      BY <3>4, DailyRewardAssumption DEF Locked
    <3> QED
      BY <3>2, <3>3, <3>4, <3>5, <3>6, <3>7, <3>8, OwnWrites
  <2> QED
    BY <1>7, <2>1, <2>2 DEF Reserve
<1>8. ASSUME NEW r \in Requests, Send(r) PROVE OwnInv'
  BY <1>8, OwnSends
<1>9. ASSUME NEW r \in Requests, StoreHash(r) PROVE OwnInv'
  <2>1. request[r].hash = r /\ request[r].step = "storeHash"
    BY <1>0, <1>9 DEF StoreHash, RequestRemembers
  <2>2. CASE RowOf(r).tx = r
    <3>1. UNCHANGED claims
      BY <1>9, <2>1, <2>2, SameRow DEF StoreHash
    <3> QED
      BY <1>0, <1>9, <2>2, <3>1, OwnLeaves DEF StoreHash
  <2>3. CASE Holds(r)
    <3>1. RowOf(r).status = "PROCESSING"
      BY <1>0, <2>3 DEF RequestOwns, Locked
    <3>2. PICK row \in Claim : SetRow(r, row) /\ row.tx = r /\ row.status = "PROCESSING"
      <4>1. /\ [RowOf(r) EXCEPT !.tx = r] \in Claim
            /\ [RowOf(r) EXCEPT !.tx = r].tx = r
            /\ [RowOf(r) EXCEPT !.tx = r].status = "PROCESSING"
        BY <1>0, <3>1 DEF Claim
      <4> QED
        BY <1>9, <2>1, <4>1 DEF StoreHash
    <3>3. /\ request'[r].date = request[r].date /\ request'[r].hash = request[r].hash
          /\ request'[r].step = "wait"
          /\ \A s \in Requests \ {r} : request'[s] = request[s]
      BY <1>0, <1>9 DEF StoreHash, Go
    <3>4. RowOf(r).tx = NoTx
      BY <1>0, <2>3 DEF RequestOwns, Locked
    <3>5. \A s \in Requests : Holds(s) /\ request[s].date = request[r].date => s = r
      BY <2>3 DEF OwnInv
    <3>6. UNCHANGED <<faults, transfers, booked, user>>
      BY <1>9 DEF StoreHash
    <3> QED
      BY <2>1, <3>2, <3>3, <3>4, <3>5, <3>6, OwnWrites
  <2> QED
    BY <2>1, <2>2, <2>3 DEF Holds
<1>10. ASSUME NEW r \in Requests, Wait(r) \/ WaitFails(r) PROVE OwnInv'
  BY <1>0, <1>10, OwnLeaves DEF Wait, WaitFails, RequestOwns
<1>11. ASSUME NEW r \in Requests, Finalize(r) PROVE OwnInv'
  <2>1. request[r].hash = r
    BY <1>0, <1>11 DEF Finalize, RequestRemembers
  <2>2. CASE CanFinalize(RowOf(r), request[r].hash) /\ Pay(r, request[r].hash, user, day)
    BY <1>11, <2>1, <2>2, OwnPays DEF Finalize
  <2>3. CASE Go(r, "markFailed") /\ UNCHANGED <<claims, user, booked>>
    BY <1>0, <1>11, <2>3, OwnLeaves DEF Finalize, RequestOwns
  <2> QED
    BY <1>11, <2>2, <2>3 DEF Finalize
<1>12. ASSUME NEW r \in Requests, MarkFailed(r) PROVE OwnInv'
  <2>1. request[r].step = "markFailed" /\ request[r].hash \in {NoTx, r} /\ Finish(r, "error")
        /\ UNCHANGED <<faults, transfers, booked, user>>
    BY <1>0, <1>12 DEF MarkFailed, RequestRemembers
  <2>2. CASE RowOf(r).tx = r
    <3>1. request[r].hash = r
      BY <1>0, <2>2, DailyRewardAssumption DEF OwnInv, RowOK, RowOf, Request, DailyTypeOK
    <3>2. UNCHANGED claims
      BY <1>12, <2>2, <3>1, SameRow, DailyRewardAssumption DEF MarkFailed
    <3> QED
      BY <1>0, <2>1, <2>2, <3>2, OwnLeaves
  <2>3. CASE Holds(r)
    <3>1. RowOf(r).status = "PROCESSING" /\ RowOf(r).tx = NoTx
      BY <1>0, <2>3 DEF RequestOwns, Locked
    <3>2. PICK row \in Claim : /\ SetRow(r, row)
                              /\ row.status \in {"PROCESSING", "FAILED"}
                              /\ row.tx = request[r].hash
      <4>1. RowOf(r) \in Claim /\ RowOf(r).status = "PROCESSING"
        BY <3>1, RowTypes
      <4>2. /\ [RowOf(r) EXCEPT !.tx = r] \in Claim
            /\ [RowOf(r) EXCEPT !.tx = r].tx = r
            /\ [RowOf(r) EXCEPT !.tx = r].status = "PROCESSING"
        BY <4>1 DEF Claim
      <4>3. /\ [RowOf(r) EXCEPT !.status = "FAILED", !.tx = NoTx] \in Claim
            /\ [RowOf(r) EXCEPT !.status = "FAILED", !.tx = NoTx].tx = NoTx
            /\ [RowOf(r) EXCEPT !.status = "FAILED", !.tx = NoTx].status = "FAILED"
        BY <4>1 DEF Claim, ClaimStatus
      <4>4. CASE request[r].hash = NoTx
        BY <1>12, <4>4, <4>3 DEF MarkFailed
      <4>5. CASE request[r].hash = r
        BY <1>12, <4>2, <4>5, DailyRewardAssumption DEF MarkFailed
      <4> QED
        BY <2>1, <4>4, <4>5
    <3>3. /\ request'[r].date = request[r].date /\ request'[r].hash = request[r].hash
          /\ request'[r].step = "done"
          /\ \A s \in Requests \ {r} : request'[s] = request[s]
      BY <1>0, <2>1 DEF Finish
    <3>4. \A s \in Requests : Holds(s) /\ request[s].date = request[r].date => s = r
      BY <2>3 DEF OwnInv
    <3>5. ~(faults = {} /\ transfers[r] # "none")
      BY <1>0, <2>1, <2>3 DEF RequestOwns, Holds
    <3> QED
      BY <2>1, <3>1, <3>2, <3>3, <3>4, <3>5, OwnWrites
  <2> QED
    BY <2>1, <2>2, <2>3 DEF Holds
<1>13. ASSUME NEW r \in Requests, DbError(r) PROVE OwnInv'
  BY <1>0, <1>13, OwnLeaves DEF DbError, RequestOwns, Holds
<1>14. ASSUME NEW r \in Requests, Mine(r) PROVE OwnInv'
  BY <1>14, OwnMines
<1>15. ASSUME NEW d \in Days, WindowElapses(d) PROVE OwnInv'
  BY <1>15, OwnElapses
<1>16. CASE Midnight \/ UNCHANGED dailyVars
  BY <1>0, <1>16, OwnMoves DEF Midnight, dailyVars, RequestOwns, Holds
<1>17. CASE Crash
  <2>1. ASSUME NEW s \in Requests
        PROVE  /\ request'[s].date = request[s].date
               /\ request'[s].hash = request[s].hash
               /\ request'[s].step \in {"idle", "done"}
    BY <1>0, <1>17 DEF Crash, Request
  <2>2. faults # {} /\ UNCHANGED <<faults, claims, transfers, booked, user>>
    BY <1>17 DEF Crash
  <2> QED
    BY <2>1, <2>2, OwnMoves
<1> QED
  BY <1>1, <1>2, <1>3, <1>4, <1>5, <1>6, <1>7, <1>8, <1>9, <1>10, <1>11, <1>12,
     <1>13, <1>14, <1>15, <1>16, <1>17
  DEF DailyNext, RequestStep

-----------------------------------------------------------------------------
(* What a step books and what it transfers *)

\* The row of day d becomes PAID, and nothing else does.
Books(d) ==
    /\ claims[d].status # "PAID" /\ claims'[d].status = "PAID"
    /\ \A e \in Days \ {d} : claims'[e] = claims[e]
    /\ user'.total = user.total + 1
    /\ claims[d].tx \in Requests
    /\ request[claims[d].tx].date = d
    /\ transfers[claims[d].tx] = "mined"
    /\ UNCHANGED transfers
    /\ \A s \in Requests : request'[s].date = request[s].date

BooksNothing ==
    /\ \A d \in Days : claims[d].status = "PAID" \/ claims'[d].status = "PAID" =>
                       claims'[d] = claims[d]
    /\ UNCHANGED user

LEMMA PayBooks ==
    ASSUME DailyTypeOK, OwnInv, NEW r \in Requests, NEW tx \in Requests,
           NEW oldUser, NEW paidOn,
           Pay(r, tx, oldUser, paidOn), CanFinalize(RowOf(r), tx),
           UNCHANGED transfers, transfers[tx] = "mined"
    PROVE  \E d \in Days : Books(d)
<1>1. /\ request[r].date \in Days /\ RowOf(r) \in Claim
      /\ claims \in [Days -> Claim] /\ request \in [Requests -> Request]
  BY RowTypes DEF DailyTypeOK, Request
<1>2. /\ claims' = [claims EXCEPT ![request[r].date] = [RowOf(r) EXCEPT !.status = "PAID"]]
      /\ request' = [request EXCEPT ![r].step = "done", ![r].outcome = "paid"]
      /\ user'.total = user.total + 1
  BY DEF Pay, SetRow, Finish
<1>3. claims[request[r].date].tx = tx /\ claims[request[r].date].status # "PAID"
  BY DEF CanFinalize, RowOf
<1>4. request[tx].date = request[r].date
  BY <1>1, <1>3, DailyRewardAssumption DEF OwnInv, RowOK
<1>5. claims'[request[r].date].status = "PAID"
  BY <1>1, <1>2 DEF Claim
<1>6. \A s \in Requests : request'[s].date = request[s].date
  BY <1>1, <1>2 DEF Request
<1> QED
  BY <1>1, <1>2, <1>3, <1>4, <1>5, <1>6 DEF Books

\* Only a finalisation makes a row PAID, and no other step touches a PAID row.
LEMMA BooksStep ==
    ASSUME DailyTypeOK, MinedInv, OwnInv, ~LateWrites, [DailyNext]_dailyVars
    PROVE  BooksNothing \/ \E d \in Days : Books(d)
<1> USE DEF At
<1>0. /\ claims \in [Days -> Claim]
      /\ \A r \in Requests : /\ RequestOwns(r) /\ RequestRemembers(r)
                             /\ RowOf(r) \in Claim /\ request[r].date \in Days
                             /\ RowOf(r) = claims[request[r].date]
  BY RowTypes DEF OwnInv, MinedInv, DailyTypeOK, Request, RowOf
<1>1. ASSUME NEW r \in Requests, NEW row, SetRow(r, row), UNCHANGED user,
             RowOf(r).status # "PAID", row.status # "PAID"
      PROVE  BooksNothing
  BY <1>0, <1>1 DEF SetRow, BooksNothing
<1>2. ASSUME UNCHANGED <<claims, user>> PROVE BooksNothing
  BY <1>2 DEF BooksNothing
<1>3. ASSUME NEW r \in Requests, ResumeFinalize(r) PROVE BooksNothing \/ \E d \in Days : Books(d)
  <2>1. request[r].seenTx \in Requests /\ transfers[request[r].seenTx] = "mined"
    BY <1>0, <1>3 DEF ResumeFinalize, RequestRemembers
  <2> QED
    BY <1>2, <1>3, <2>1, PayBooks DEF ResumeFinalize
<1>4. ASSUME NEW r \in Requests, Finalize(r) PROVE BooksNothing \/ \E d \in Days : Books(d)
  <2>1. request[r].hash = r /\ transfers[r] = "mined"
    BY <1>0, <1>4 DEF Finalize, RequestRemembers
  <2> QED
    BY <1>2, <1>4, <2>1, PayBooks DEF Finalize
<1>5. ASSUME NEW r \in Requests, Reserve(r) PROVE BooksNothing
  <2>1. CASE UNCHANGED claims
    BY <1>2, <1>5, <2>1 DEF Reserve
  <2>2. CASE /\ Reservable(RowOf(r))
             /\ SetRow(r, [status |-> "PROCESSING", tx |-> NoTx, stale |-> FALSE])
    BY <1>1, <1>5, <2>2 DEF Reserve, Reservable
  <2> QED
    BY <1>5, <2>1, <2>2 DEF Reserve
<1>6. ASSUME NEW r \in Requests, Reset(r) \/ ConfirmFailed(r) PROVE FALSE
  BY <1>0, <1>6 DEF Reset, ConfirmFailed, RequestOwns
<1>7. ASSUME NEW r \in Requests, StoreHash(r) PROVE BooksNothing
  <2>1. request[r].hash = r
    BY <1>0, <1>7 DEF StoreHash, RequestRemembers
  <2>2. CASE RowOf(r).tx = r
    BY <1>2, <1>7, <2>1, <2>2, SameRow DEF StoreHash
  <2>3. CASE Holds(r)
    <3>1. RowOf(r).status = "PROCESSING" /\ [RowOf(r) EXCEPT !.tx = r].status = "PROCESSING"
      BY <1>0, <2>3 DEF RequestOwns, Locked, Claim
    <3> QED
      BY <1>1, <1>7, <2>1, <3>1 DEF StoreHash
  <2> QED
    BY <1>7, <2>2, <2>3 DEF Holds, StoreHash
<1>8. ASSUME NEW r \in Requests, MarkFailed(r) PROVE BooksNothing
  <2>1. request[r].hash \in {NoTx, r}
    BY <1>0 DEF RequestRemembers
  <2>2. CASE RowOf(r).tx = r
    <3>1. request[r].hash = r
      BY <1>0, <2>2, DailyRewardAssumption DEF OwnInv, RowOK
    <3> QED
      BY <1>2, <1>8, <2>2, <3>1, SameRow, DailyRewardAssumption DEF MarkFailed
  <2>3. CASE Holds(r)
    <3>1. RowOf(r).status = "PROCESSING" /\ RowOf(r) \in Claim
      BY <1>0, <2>3 DEF RequestOwns, Locked
    <3>2. /\ [RowOf(r) EXCEPT !.tx = r].status = "PROCESSING"
          /\ [RowOf(r) EXCEPT !.status = "FAILED", !.tx = NoTx].status = "FAILED"
      BY <3>1 DEF Claim
    <3>3. CASE request[r].hash = NoTx
      BY <1>1, <1>8, <3>1, <3>2, <3>3 DEF MarkFailed
    <3>4. CASE request[r].hash = r
      BY <1>1, <1>8, <3>1, <3>2, <3>4, DailyRewardAssumption DEF MarkFailed
    <3> QED
      BY <2>1, <3>3, <3>4
  <2> QED
    BY <1>8, <2>2, <2>3 DEF Holds, MarkFailed
<1>9. ASSUME NEW d \in Days, WindowElapses(d) PROVE BooksNothing
  <2>1. [claims[d] EXCEPT !.stale = TRUE].status # "PAID" /\ claims[d].status # "PAID"
    BY <1>0, <1>9 DEF WindowElapses, Locked, Claim
  <2> QED
    BY <1>0, <1>9, <2>1 DEF WindowElapses, BooksNothing
<1>10. ASSUME NEW r \in Requests,
              Start(r) \/ Lookup(r) \/ Receipt(r) \/ ReadUser(r) \/ Send(r) \/ Wait(r)
              \/ WaitFails(r) \/ DbError(r) \/ Mine(r)
       PROVE  BooksNothing
  BY <1>2, <1>10 DEF Start, Lookup, Receipt, ReadUser, Send, Wait, WaitFails, DbError, Mine
<1>11. CASE Midnight \/ Crash \/ UNCHANGED dailyVars
  BY <1>2, <1>11 DEF Midnight, Crash, dailyVars
<1> QED
  BY <1>3, <1>4, <1>5, <1>6, <1>7, <1>8, <1>9, <1>10, <1>11 DEF DailyNext, RequestStep

\* A transfer that is mined stays mined for its day, and only mining adds one.
LEMMA TransfersStep ==
    ASSUME DailyTypeOK, MinedInv, ~LateWrites, [DailyNext]_dailyVars
    PROVE  \/ \E r \in Requests : /\ transfers[r] = "pending"
                                  /\ transfers' = [transfers EXCEPT ![r] = "mined"]
                                  /\ UNCHANGED <<claims, user, request>>
           \/ \A s \in Requests :
                 /\ transfers'[s] = "mined" <=> transfers[s] = "mined"
                 /\ transfers[s] = "mined" => request'[s].date = request[s].date
<1> USE DEF At
<1>0. /\ transfers \in [Requests -> TransferState] /\ request \in [Requests -> Request]
      /\ \A r \in Requests : RequestRemembers(r)
  BY DEF DailyTypeOK, MinedInv
<1>1. ASSUME NEW r \in Requests, Start(r)
      PROVE  \A s \in Requests : /\ transfers'[s] = transfers[s]
                                 /\ transfers[s] = "mined" => request'[s] = request[s]
  BY <1>0, <1>1 DEF Start
<1>2. ASSUME NEW r \in Requests, Send(r)
      PROVE  \A s \in Requests : /\ transfers'[s] = "mined" <=> transfers[s] = "mined"
                                 /\ request'[s].date = request[s].date
  <2>1. transfers[r] = "none"
    BY <1>0, <1>2 DEF Send, RequestRemembers, Unsent
  <2>2. \A s \in Requests : /\ s # r => transfers'[s] = transfers[s]
                            /\ s = r => transfers'[s] \in {"none", "pending"}
    BY <1>0, <1>2, <2>1 DEF Send
  <2>3. \A s \in Requests : request'[s].date = request[s].date
    BY <1>0, <1>2 DEF Send, Go, Request
  <2> QED
    BY <2>1, <2>2, <2>3
<1>3. ASSUME NEW r \in Requests,
             Lookup(r) \/ Receipt(r) \/ Reset(r) \/ ReadUser(r) \/ Reserve(r) \/ StoreHash(r)
             \/ Wait(r) \/ WaitFails(r) \/ ConfirmFailed(r) \/ MarkFailed(r) \/ DbError(r)
      PROVE  UNCHANGED transfers /\ \A s \in Requests : request'[s].date = request[s].date
  BY <1>0, <1>3 DEF Lookup, Receipt, Reset, ReadUser, Reserve, StoreHash, Wait, WaitFails,
                    ConfirmFailed, MarkFailed, DbError, Go, Finish, Request
<1>4. ASSUME NEW r \in Requests, ResumeFinalize(r) \/ Finalize(r)
      PROVE  UNCHANGED transfers /\ \A s \in Requests : request'[s].date = request[s].date
  BY <1>0, <1>4 DEF ResumeFinalize, Finalize, Pay, Go, Finish, Request
<1>5. ASSUME NEW r \in Requests, Mine(r)
      PROVE  /\ transfers[r] = "pending"
             /\ transfers' = [transfers EXCEPT ![r] = "mined"]
             /\ UNCHANGED <<claims, user, request>>
  BY <1>5 DEF Mine, LateWrites
<1>6. ASSUME \/ Midnight \/ UNCHANGED dailyVars \/ Crash
             \/ \E d \in Days : WindowElapses(d)
      PROVE  UNCHANGED transfers /\ \A s \in Requests : request'[s].date = request[s].date
  BY <1>0, <1>6 DEF Midnight, dailyVars, Crash, WindowElapses, Request
<1> QED
  BY <1>1, <1>2, <1>3, <1>4, <1>5, <1>6 DEF DailyNext, RequestStep

-----------------------------------------------------------------------------
(* Theorems *)

LEMMA DailyInitEstablishesInv == DailyInit => DailyInv
<1> SUFFICES ASSUME DailyInit PROVE DailyInv
  OBVIOUS
<1>1. /\ NewUser \in UserRow /\ 1 \in Days /\ NoClaim \in Claim
      /\ NewUser.streak = 0 /\ NewUser.total = 0
  BY DailyRewardAssumption DEF NewUser, UserRow, Days, NoClaim, Claim, ClaimStatus
<1>2. NoRequest \in Request
  BY <1>1 DEF NoRequest, Request, Steps, Outcomes
<1>3. DailyTypeOK
  BY <1>1, <1>2 DEF DailyInit, DailyTypeOK, TransferState
<1>4. MinedInv
  BY <1>1, DailyRewardAssumption
  DEF DailyInit, MinedInv, RequestRemembers, Unsent, NoRequest
<1>5. OwnInv
  <2>1. \A r \in Requests : ~Holds(r)
    BY DEF DailyInit, Holds, NoRequest
  <2>2. \A r \in Requests : RequestOwns(r)
    BY <2>1 DEF DailyInit, RequestOwns, NoRequest
  <2>3. \A d \in Days : RowOK(d)
    BY DEF DailyInit, RowOK, NoClaim
  <2>4. IsFiniteSet(booked) /\ user.total = Cardinality(booked)
    BY <1>1, FS_EmptySet DEF DailyInit
  <2> QED
    BY <2>1, <2>2, <2>3, <2>4 DEF OwnInv
<1> QED
  BY <1>3, <1>4, <1>5 DEF DailyInv

LEMMA FaultsStay == [DailyNext]_dailyVars => UNCHANGED faults
BY DEF DailyNext, RequestStep, Start, Lookup, Receipt, Reset, ReadUser, ResumeFinalize,
       Reserve, Send, StoreHash, Wait, WaitFails, ConfirmFailed, Finalize, MarkFailed,
       DbError, Mine, WindowElapses, Midnight, Crash, dailyVars

LEMMA DailyStepKeepsInv == DailyInv /\ [DailyNext]_dailyVars => DailyInv'
<1> SUFFICES ASSUME DailyInv, [DailyNext]_dailyVars PROVE DailyInv'
  OBVIOUS
<1>1. DailyTypeOK' /\ MinedInv'
  BY TypeStep, MinedStep DEF DailyInv
<1>2. UNCHANGED faults
  BY FaultsStay
<1>3. ASSUME ~LateWrites' PROVE OwnInv'
  <2>1. ~LateWrites
    BY <1>2, <1>3 DEF LateWrites
  <2> QED
    BY <1>1, <2>1, OwnStep DEF DailyInv
<1> QED
  BY <1>1, <1>3 DEF DailyInv

\* The invariant above holds of every reachable state of the daily bonus, for any
\* number of requests and days and under every fault.
THEOREM DailyInvariant == DailySpec => []DailyInv
<1> QED
  BY DailyInitEstablishesInv, DailyStepKeepsInv, PTL DEF DailySpec

\* Every variable of the daily bonus keeps its type.
THEOREM DailyTypeCorrect == DailySpec => []DailyTypeOK
<1>1. DailyInv => DailyTypeOK
  BY DEF DailyInv
<1> QED
  BY <1>1, DailyInvariant, PTL

\* Under every fault, and for any number of requests: what is booked was mined;
\* and unless a request writes late, the total counts it once.
THEOREM BooksNeverAhead == DailySpec => []BooksBackedByChain
<1>1. DailyInv => BooksBackedByChain
  BY DEF DailyInv, MinedInv, OwnInv, BooksBackedByChain
<1> QED
  BY <1>1, DailyInvariant, PTL

\* Unless a request writes late, a day's row is PAID exactly when its transfer
\* is booked.
THEOREM PaidIffBooked == DailySpec => []PaidMeansBooked
<1>1. DailyInv => PaidMeansBooked
  BY DEF DailyInv, OwnInv, RowOK, PaidMeansBooked
<1> QED
  BY <1>1, DailyInvariant, PTL

\* Any two transfers of a day are the one its row names or is about to name.
LEMMA OneSent ==
    ASSUME DailyInv, faults = {}, NEW d \in Days,
           NEW r \in SentFor(d), NEW s \in SentFor(d)
    PROVE  r = s
<1>1. OwnInv /\ DailyTypeOK
  BY DEF DailyInv, LateWrites
<1>2. /\ r \in Requests /\ s \in Requests
      /\ transfers[r] # "none" /\ transfers[s] # "none"
      /\ RowOf(r) = claims[d] /\ RowOf(s) = claims[d]
      /\ request[r].date = request[s].date
  BY DEF SentFor, RowOf
<1>3. ASSUME NEW q \in {r, s} PROVE claims[d].tx = q \/ (Holds(q) /\ claims[d].tx = NoTx)
  BY <1>1, <1>2 DEF OwnInv, RequestOwns, Holds, Locked
<1> QED
  BY <1>1, <1>2, <1>3, DailyRewardAssumption DEF OwnInv

LEMMA AtMostOneSent ==
    ASSUME DailyInv, faults = {}, NEW d \in Days
    PROVE  Cardinality(SentFor(d)) <= 1
<1>1. CASE SentFor(d) = {}
  BY <1>1, FS_EmptySet
<1>2. ASSUME NEW r \in SentFor(d) PROVE Cardinality(SentFor(d)) <= 1
  <2>1. SentFor(d) = {r}
    BY OneSent
  <2> QED
    BY <2>1, FS_Singleton
<1> QED
  BY <1>1, <1>2

\* Without faults a day is paid at most once, however many requests overlap.
THEOREM PaidOnce == DailySpec => []OneTransferWithoutFaults
<1>1. DailyInv => OneTransferWithoutFaults
  BY AtMostOneSent DEF OneTransferWithoutFaults, OneTransferPerDay
<1> QED
  BY <1>1, DailyInvariant, PTL

\* Unless a request writes late, no step touches the row of a paid day.
THEOREM PaidStaysPaid == DailySpec => PaidIsFinal
<1>1. DailyInv /\ [DailyNext]_dailyVars =>
         [\A d \in Days : claims[d].status = "PAID" /\ ~LateWrites => claims'[d] = claims[d]]_dailyVars
  <2> SUFFICES ASSUME DailyInv, [DailyNext]_dailyVars, NEW d \in Days,
                      claims[d].status = "PAID", ~LateWrites
               PROVE  claims'[d] = claims[d]
    OBVIOUS
  <2> QED
    BY BooksStep DEF DailyInv, BooksNothing, Books
<1> QED
  BY <1>1, DailyInvariant, PTL DEF DailySpec, PaidIsFinal
-----------------------------------------------------------------------------
(* The refinement of DailyBonus *)

Mined(d) == \E r \in Requests : transfers[r] = "mined" /\ request[r].date = d

\* A step that mines no transfer either books a mined day or changes nothing
\* that DailyBonus sees.
LEMMA BookOrStutter ==
    ASSUME DailyInv, [DailyNext]_dailyVars, faults = {}, faults' = {},
           \A s \in Requests :
              /\ transfers'[s] = "mined" <=> transfers[s] = "mined"
              /\ transfers[s] = "mined" => request'[s].date = request[s].date
    PROVE  [Bonus!BonusNext]_(Bonus!bonusVars)
<1>1. DailyTypeOK /\ MinedInv /\ OwnInv /\ ~LateWrites
  BY DEF DailyInv, LateWrites
<1>2. \A d \in Days : Mined(d)' <=> Mined(d)
  BY DEF Mined
<1>3. UNCHANGED {d \in Days : faults = {} /\ \E r \in SentFor(d) : transfers[r] = "mined"}
  <2>1. UNCHANGED {d \in Days : Mined(d)}
    BY <1>2
  <2>2. \A d \in Days : /\ (\E r \in SentFor(d) : transfers[r] = "mined") <=> Mined(d)
                        /\ (\E r \in SentFor(d) : transfers[r] = "mined")' <=> Mined(d)'
    BY DEF SentFor, Mined
  <2> QED
    BY <2>1, <2>2
<1>4. CASE BooksNothing
  <2>1. UNCHANGED {d \in Days : faults = {} /\ claims[d].status = "PAID"}
    BY <1>4 DEF BooksNothing
  <2>2. UNCHANGED (IF faults = {} THEN user.total ELSE 0)
    BY <1>4 DEF BooksNothing
  <2> QED
    BY <1>3, <2>1, <2>2 DEF Bonus!bonusVars
<1>5. ASSUME NEW d \in Days, Books(d) PROVE Bonus!Book(d)
  <2>1. Mined(d)
    BY <1>5 DEF Books, Mined
  <2>2. d \in {e \in Days : faults = {} /\ \E r \in SentFor(e) : transfers[r] = "mined"}
    BY <2>1 DEF Mined, SentFor
  <2>3. d \notin {e \in Days : faults = {} /\ claims[e].status = "PAID"}
    BY <1>5 DEF Books
  <2>4. {e \in Days : faults = {} /\ claims[e].status = "PAID"}'
           = {e \in Days : faults = {} /\ claims[e].status = "PAID"} \cup {d}
    BY <1>5 DEF Books
  <2>5. (IF faults = {} THEN user.total ELSE 0)' = (IF faults = {} THEN user.total ELSE 0) + 1
    BY <1>5 DEF Books
  <2> QED
    BY <1>3, <2>2, <2>3, <2>4, <2>5 DEF Bonus!Book
<1> QED
  BY <1>1, <1>4, <1>5, BooksStep DEF Bonus!BonusNext

\* The first transfer of a day to be mined pays the day.
LEMMA MiningPays ==
    ASSUME DailyInv, faults = {}, faults' = {}, NEW r \in Requests,
           transfers[r] = "pending", transfers' = [transfers EXCEPT ![r] = "mined"],
           UNCHANGED <<claims, user, request>>
    PROVE  Bonus!Pay(request[r].date)
<1> DEFINE today == request[r].date
<1>1. /\ today \in Days
      /\ \A s \in Requests : transfers'[s] = IF s = r THEN "mined" ELSE transfers[s]
  BY DEF DailyInv, DailyTypeOK, Request
<1>2. ~Mined(today)
  <2> SUFFICES ASSUME NEW s \in Requests, transfers[s] = "mined", request[s].date = today
               PROVE  FALSE
    BY DEF Mined
  <2>1. r \in SentFor(today) /\ s \in SentFor(today)
    BY DEF SentFor
  <2> QED
    BY <1>1, <2>1, OneSent
<1>3. \A d \in Days : /\ (\E s \in SentFor(d) : transfers[s] = "mined") <=> Mined(d)
                      /\ (\E s \in SentFor(d) : transfers[s] = "mined")' <=> Mined(d)'
  BY DEF SentFor, Mined
<1>4. \A d \in Days : Mined(d)' <=> Mined(d) \/ d = today
  BY <1>1 DEF Mined
<1>5. today \notin {d \in Days : faults = {} /\ \E s \in SentFor(d) : transfers[s] = "mined"}
  BY <1>2, <1>3
<1>6. {d \in Days : faults = {} /\ \E s \in SentFor(d) : transfers[s] = "mined"}'
         = {d \in Days : faults = {} /\ \E s \in SentFor(d) : transfers[s] = "mined"} \cup {today}
  BY <1>1, <1>3, <1>4
<1> QED
  BY <1>5, <1>6 DEF Bonus!Pay

LEMMA DailyInitMaps == DailyInit => Bonus!BonusInit
<1> SUFFICES ASSUME DailyInit PROVE Bonus!BonusInit
  OBVIOUS
<1>1. user.total = 0 /\ \A d \in Days : claims[d].status = "none"
  BY DEF DailyInit, NewUser, NoClaim
<1>2. \A d \in Days : SentFor(d) = {}
  BY DEF DailyInit, SentFor
<1> QED
  BY <1>1, <1>2 DEF Bonus!BonusInit

LEMMA DailyStepMaps ==
    DailyInv /\ [DailyNext]_dailyVars => [Bonus!BonusNext]_(Bonus!bonusVars)
<1> SUFFICES ASSUME DailyInv, [DailyNext]_dailyVars
             PROVE  [Bonus!BonusNext]_(Bonus!bonusVars)
  OBVIOUS
<1>1. UNCHANGED faults
  BY FaultsStay
<1>2. CASE faults # {}
  <2>1. /\ UNCHANGED {d \in Days : faults = {} /\ \E r \in SentFor(d) : transfers[r] = "mined"}
        /\ UNCHANGED {d \in Days : faults = {} /\ claims[d].status = "PAID"}
        /\ UNCHANGED (IF faults = {} THEN user.total ELSE 0)
    BY <1>1, <1>2
  <2> QED
    BY <2>1 DEF Bonus!bonusVars
<1>3. CASE faults = {}
  <2>1. DailyTypeOK /\ MinedInv /\ ~LateWrites /\ faults' = {}
    BY <1>1, <1>3 DEF DailyInv, LateWrites
  <2>2. \A r \in Requests : request[r].date \in Days
    BY <2>1 DEF DailyTypeOK, Request
  <2>3. ASSUME NEW r \in Requests, transfers[r] = "pending",
               transfers' = [transfers EXCEPT ![r] = "mined"], UNCHANGED <<claims, user, request>>
        PROVE  Bonus!BonusNext
    <3>1. PICK d \in Days : d = request[r].date
      BY <2>2
    <3>2. Bonus!Pay(request[r].date)
      BY <1>3, <2>1, <2>3, MiningPays
    <3>3. Bonus!Pay(d)
      BY <3>1, <3>2 DEF Bonus!Pay
    <3> QED
      BY <3>3 DEF Bonus!BonusNext
  <2>4. ASSUME \A s \in Requests : /\ transfers'[s] = "mined" <=> transfers[s] = "mined"
                                   /\ transfers[s] = "mined" => request'[s].date = request[s].date
        PROVE  [Bonus!BonusNext]_(Bonus!bonusVars)
    BY <1>3, <2>1, <2>4, BookOrStutter
  <2> QED
    BY <2>1, <2>3, <2>4, TransfersStep
<1> QED
  BY <1>2, <1>3

\* Without faults the service does what DailyBonus promises, however many
\* requests overlap: a day is paid once, and booked once after it was paid.
THEOREM DailyImplementsBonus == DailySpec => ImplementsDailyBonus
<1> QED
  BY DailyInitMaps, DailyStepMaps, DailyInvariant, PTL
  DEF DailySpec, ImplementsDailyBonus, Bonus!BonusSpec

-----------------------------------------------------------------------------
(* Startup, shutdown and the world state *)

VersionsUpTo(n) ==
    /\ snapshots = 1..n
    /\ active = IF n = 0 THEN {} ELSE {n}

VersionsInOrder == \E n \in Nat : VersionsUpTo(n)

\* What a refresh has read is a version that is stored, if there was one.
LatestIsStored ==
    \A k \in Refreshes : refresh[k].latest = 0 \/ refresh[k].latest \in snapshots

\* A startup step that comes after the refresh comes after a snapshot.
ReadyAfterSnapshot == init = "worker" \/ initialized \/ servicesReady => snapshots # {}

StartupInv ==
    /\ StartupTypeOK
    /\ VersionsInOrder
    /\ LatestIsStored
    /\ ReadyAfterSnapshot

-----------------------------------------------------------------------------

LEMMA NewestOfOne == ASSUME NEW n \in Nat PROVE Newest({n}) = n
BY DEF Newest

\* What the active rows name is stored.
LEMMA NewestIsStored ==
    ASSUME VersionsInOrder
    PROVE  /\ Newest(active) \in Nat
           /\ Newest(active) = 0 \/ Newest(active) \in snapshots
<1> PICK n \in Nat : VersionsUpTo(n)
  BY DEF VersionsInOrder
<1>1. CASE n = 0
  BY <1>1 DEF VersionsUpTo, Newest
<1>2. CASE n # 0
  <2>1. Newest(active) = n
    BY <1>2, NewestOfOne DEF VersionsUpTo
  <2> QED BY <1>2, <2>1 DEF VersionsUpTo
<1> QED BY <1>1, <1>2

\* A version that is not taken is the next one, and replaces the active row.
LEMMA InsertInOrder ==
    ASSUME StartupInv, NEW k \in Refreshes, Insert(k)
    PROVE  /\ VersionsInOrder'
           /\ snapshots \subseteq snapshots'
           /\ snapshots' # {}
           /\ snapshots' \subseteq Nat
           /\ active' \subseteq Nat
<1> DEFINE m == refresh[k].latest
<1>1. PICK n \in Nat : VersionsUpTo(n)
  BY DEF StartupInv, VersionsInOrder
<1>2. m \in Nat /\ (m = 0 \/ m \in snapshots)
  BY DEF StartupInv, StartupTypeOK, LatestIsStored
<1>3. m = n
  BY <1>1, <1>2 DEF Insert, VersionsUpTo
<1>4. snapshots' = 1..(n + 1)
  BY <1>1, <1>3 DEF Insert, VersionsUpTo
<1>5. active' = {n + 1}
  BY <1>1, <1>3 DEF Insert, VersionsUpTo
<1>6. VersionsUpTo(n + 1)'
  BY <1>4, <1>5 DEF VersionsUpTo
<1>7. VersionsInOrder'
  BY <1>6 DEF VersionsInOrder
<1>8. snapshots = 1..n
  BY <1>1 DEF VersionsUpTo
<1>9. n + 1 \in snapshots' /\ snapshots \subseteq snapshots'
  BY <1>4, <1>8
<1>10. snapshots' \subseteq Nat /\ active' \subseteq Nat
  BY <1>4, <1>5
<1> QED BY <1>7, <1>9, <1>10

LEMMA InitFailsType ==
    ASSUME retryTimer \in BOOLEAN, InitFails
    PROVE  /\ init' = "idle"
           /\ servicesReady' \in BOOLEAN
           /\ retryTimer' \in BOOLEAN
BY Zenon DEF InitFails

LEMMA SpendFailureType ==
    ASSUME StartupTypeOK, SpendFailure
    PROVE  signalsLeft' \in Nat /\ failuresLeft' \in Nat /\ startsLeft' \in Nat
BY DEF SpendFailure, StartupTypeOK

LEMMA InitEstablishesInv == StartupInit => StartupInv
<1> SUFFICES ASSUME StartupInit PROVE StartupInv
  OBVIOUS
<1>1. StartupTypeOK
  BY StartupAssumption DEF StartupInit, StartupTypeOK, NoRefreshCall
<1>2. VersionsUpTo(0)
  BY DEF StartupInit, VersionsUpTo
<1>3. VersionsInOrder
  BY <1>2 DEF VersionsInOrder
<1>4. LatestIsStored /\ ReadyAfterSnapshot
  BY DEF StartupInit, LatestIsStored, ReadyAfterSnapshot, NoRefreshCall
<1> QED BY <1>1, <1>3, <1>4 DEF StartupInv

\* Steps that leave the rows alone keep the invariant if what they make a call
\* know is stored and nothing gets ready by them.
LEMMA TablesKeptKeepInv ==
    ASSUME StartupInv, StartupTypeOK', UNCHANGED tables,
           \A k \in Refreshes : \/ refresh'[k].latest = 0
                                \/ refresh'[k].latest \in snapshots,
           \/ init' # "worker" /\ ~initialized' /\ ~servicesReady'
           \/ snapshots # {}
    PROVE  StartupInv'
<1>1. VersionsInOrder'
  BY DEF StartupInv, VersionsInOrder, VersionsUpTo, tables
<1>2. LatestIsStored' /\ ReadyAfterSnapshot'
  BY DEF LatestIsStored, ReadyAfterSnapshot, tables
<1> QED BY <1>1, <1>2 DEF StartupInv

LEMMA NextKeepsInv == StartupInv /\ [StartupNext]_startupVars => StartupInv'
<1> SUFFICES ASSUME StartupInv, [StartupNext]_startupVars PROVE StartupInv'
  OBVIOUS
<1> USE DEF memoryVars, tables, bounds, NoRefreshCall
<1> StartupTypeOK /\ VersionsInOrder /\ LatestIsStored /\ ReadyAfterSnapshot
  BY DEF StartupInv
<1>1. CASE DatabaseReady
  <2>1. StartupTypeOK'
    BY <1>1 DEF DatabaseReady, RefreshStarts, StartupTypeOK
  <2>2. \A k \in Refreshes : \/ refresh'[k].latest = 0
                             \/ refresh'[k].latest \in snapshots
    BY <1>1 DEF DatabaseReady, RefreshStarts, StartupTypeOK, LatestIsStored
  <2> QED BY <1>1, <2>1, <2>2, TablesKeptKeepInv DEF DatabaseReady, ReadyAfterSnapshot
<1>2. CASE DatabaseFails
  <2>1. StartupTypeOK'
    BY <1>2, InitFailsType, SpendFailureType DEF DatabaseFails, StartupTypeOK
  <2> QED BY <1>2, <2>1, TablesKeptKeepInv
          DEF DatabaseFails, InitFails, LatestIsStored, ReadyAfterSnapshot
<1>3. CASE WorldStateTimesOut
  <2>1. StartupTypeOK'
    BY <1>3, InitFailsType, SpendFailureType DEF WorldStateTimesOut, StartupTypeOK
  <2>2. \A k \in Refreshes : \/ refresh'[k].latest = 0
                             \/ refresh'[k].latest \in snapshots
    BY <1>3 DEF WorldStateTimesOut, StartupTypeOK, LatestIsStored
  <2> QED BY <1>3, <2>1, <2>2, TablesKeptKeepInv
          DEF WorldStateTimesOut, InitFails, ReadyAfterSnapshot
<1>4. CASE StartWorker
  <2>1. StartupTypeOK'
    BY <1>4 DEF StartWorker, StartupTypeOK
  <2> QED BY <1>4, <2>1, TablesKeptKeepInv DEF StartWorker, LatestIsStored, ReadyAfterSnapshot
<1>5. CASE Retry
  <2>1. StartupTypeOK'
    BY <1>5 DEF Retry, StartupTypeOK
  <2> QED BY <1>5, <2>1, TablesKeptKeepInv DEF Retry, LatestIsStored, ReadyAfterSnapshot
<1>6. ASSUME NEW k \in Refreshes, RequestRefreshes(k) \/ SignalRefreshes(k) PROVE StartupInv'
  <2>1. StartupTypeOK'
    <3>1. CASE RequestRefreshes(k)
      BY <3>1 DEF RequestRefreshes, RefreshStarts, StartupTypeOK
    <3>2. CASE SignalRefreshes(k)
      BY <3>2 DEF SignalRefreshes, RefreshStarts, StartupTypeOK
    <3> QED BY <1>6, <3>1, <3>2
  <2>2. \A k2 \in Refreshes : \/ refresh'[k2].latest = 0
                              \/ refresh'[k2].latest \in snapshots
    BY <1>6 DEF RequestRefreshes, SignalRefreshes, RefreshStarts, StartupTypeOK, LatestIsStored
  <2> QED BY <1>6, <2>1, <2>2, TablesKeptKeepInv
          DEF RequestRefreshes, SignalRefreshes, ReadyAfterSnapshot
<1>7. ASSUME NEW k \in Refreshes, ReadLatest(k) PROVE StartupInv'
  <2>1. StartupTypeOK'
    BY <1>7, NewestIsStored DEF ReadLatest, StartupTypeOK
  <2>2. \A k2 \in Refreshes : \/ refresh'[k2].latest = 0
                              \/ refresh'[k2].latest \in snapshots
    BY <1>7, NewestIsStored DEF ReadLatest, StartupTypeOK, LatestIsStored
  <2> QED BY <1>7, <2>1, <2>2, TablesKeptKeepInv DEF ReadLatest, ReadyAfterSnapshot
<1>8. ASSUME NEW k \in Refreshes, StoreSnapshot(k) PROVE StartupInv'
  <2>1. Insert(k)
    BY <1>8 DEF StoreSnapshot
  <2>2. /\ VersionsInOrder'
        /\ snapshots \subseteq snapshots'
        /\ snapshots' # {}
        /\ snapshots' \subseteq Nat
        /\ active' \subseteq Nat
    BY <2>1, InsertInOrder
  <2>3. StartupTypeOK'
    BY <1>8, <2>2 DEF StoreSnapshot, Returns, StartupTypeOK
  <2>4. LatestIsStored'
    BY <1>8, <2>2 DEF StoreSnapshot, Returns, StartupTypeOK, LatestIsStored
  <2> QED BY <2>2, <2>3, <2>4 DEF StartupInv, ReadyAfterSnapshot
<1>9. ASSUME NEW k \in Refreshes, VersionTaken(k) PROVE StartupInv'
  <2>1. StartupTypeOK'
    BY <1>9, InitFailsType DEF VersionTaken, Throws, StartupTypeOK
  <2>2. \A k2 \in Refreshes : \/ refresh'[k2].latest = 0
                              \/ refresh'[k2].latest \in snapshots
    BY <1>9 DEF VersionTaken, Throws, StartupTypeOK, LatestIsStored
  <2> QED BY <1>9, <2>1, <2>2, TablesKeptKeepInv
          DEF VersionTaken, Throws, InitFails, ReadyAfterSnapshot
<1>10. ASSUME NEW k \in Refreshes, RefreshThrows(k) PROVE StartupInv'
  <2>1. CASE UNCHANGED tables
    <3>1. StartupTypeOK'
      <4>1. /\ init' \in {"idle", "database", "worldState", "worker"}
            /\ servicesReady' \in BOOLEAN
            /\ retryTimer' \in BOOLEAN
        BY <1>10, InitFailsType DEF RefreshThrows, Throws, StartupTypeOK
      <4> QED BY <1>10, <2>1, <4>1, SpendFailureType DEF RefreshThrows, Throws, StartupTypeOK
    <3>2. \A k2 \in Refreshes : \/ refresh'[k2].latest = 0
                                \/ refresh'[k2].latest \in snapshots
      BY <1>10 DEF RefreshThrows, Throws, StartupTypeOK, LatestIsStored
    <3> QED BY <1>10, <2>1, <3>1, <3>2, TablesKeptKeepInv
            DEF RefreshThrows, Throws, InitFails, ReadyAfterSnapshot
  <2>2. CASE Insert(k)
    <3>1. /\ VersionsInOrder'
          /\ snapshots \subseteq snapshots'
          /\ snapshots' # {}
          /\ snapshots' \subseteq Nat
          /\ active' \subseteq Nat
      BY <2>2, InsertInOrder
    <3>2. StartupTypeOK'
      <4>1. /\ init' \in {"idle", "database", "worldState", "worker"}
            /\ servicesReady' \in BOOLEAN
            /\ retryTimer' \in BOOLEAN
        BY <1>10, InitFailsType DEF RefreshThrows, Throws, StartupTypeOK
      <4> QED BY <1>10, <3>1, <4>1, SpendFailureType DEF RefreshThrows, Throws, StartupTypeOK
    <3>3. LatestIsStored'
      BY <1>10, <3>1 DEF RefreshThrows, Throws, StartupTypeOK, LatestIsStored
    <3> QED BY <3>1, <3>2, <3>3 DEF StartupInv, ReadyAfterSnapshot
  <2> QED BY <1>10, <2>1, <2>2 DEF RefreshThrows
<1>11. CASE BeginShutdown \/ ServerClosed \/ WorkerStopped
  <2>1. StartupTypeOK'
    BY <1>11 DEF BeginShutdown, ServerClosed, WorkerStopped, StartupTypeOK
  <2> QED BY <1>11, <2>1, TablesKeptKeepInv
          DEF BeginShutdown, ServerClosed, WorkerStopped, LatestIsStored, ReadyAfterSnapshot
<1>12. CASE DatabaseClosed \/ ForceExit \/ Killed
  <2>1. Gone
    BY <1>12 DEF DatabaseClosed, ForceExit, Killed
  <2>2. StartupTypeOK'
    BY <2>1 DEF Gone, StartupTypeOK
  <2> QED BY <2>1, <2>2, TablesKeptKeepInv DEF Gone
<1>13. CASE StartProcess
  <2>1. StartupTypeOK'
    BY <1>13 DEF StartProcess, StartupTypeOK
  <2> QED BY <1>13, <2>1, TablesKeptKeepInv DEF StartProcess, LatestIsStored, ReadyAfterSnapshot
<1>14. CASE UNCHANGED startupVars
  BY <1>14 DEF startupVars, StartupInv, StartupTypeOK, VersionsInOrder, VersionsUpTo,
               LatestIsStored, ReadyAfterSnapshot
<1> QED
  BY <1>1, <1>2, <1>3, <1>4, <1>5, <1>6, <1>7, <1>8, <1>9, <1>10, <1>11, <1>12, <1>13, <1>14
  DEF StartupNext, InitStep, RefreshStep

LEMMA StartupInvHolds == StartupSpec => []StartupInv
<1>1. StartupInit => StartupInv
  BY InitEstablishesInv
<1>2. StartupInv /\ [StartupNext]_startupVars => StartupInv'
  BY NextKeepsInv
<1> QED BY <1>1, <1>2, PTL DEF StartupSpec

\* The variables of a process, its refreshes and the rows keep their types.
THEOREM StartupTypeCorrect == StartupSpec => []StartupTypeOK
<1>1. StartupInv => StartupTypeOK
  BY DEF StartupInv
<1> QED BY <1>1, StartupInvHolds, PTL

\* However many refreshes read and store at once and whichever of them fail, in
\* any number of processes one after the other (refreshWorldState): the active
\* snapshot is one, the newest, and a ready process has it.
THEOREM NewestIsActive == StartupSpec => []ActiveSnapshotIsNewest
<1>1. StartupInv => ActiveSnapshotIsNewest
  <2> SUFFICES ASSUME StartupInv PROVE ActiveSnapshotIsNewest
    OBVIOUS
  <2>1. PICK n \in Nat : VersionsUpTo(n)
    BY DEF StartupInv, VersionsInOrder
  <2>2. ASSUME snapshots # {} PROVE active = {Newest(snapshots)}
    <3>1. n \in snapshots /\ \A w \in snapshots : w <= n /\ w \in Nat
      BY <2>1, <2>2 DEF VersionsUpTo
    <3>2. Newest(snapshots) = n
      <4>1. \A v \in snapshots : (\A w \in snapshots : w <= v) => v = n
        BY <3>1
      <4> QED BY <2>2, <3>1, <4>1 DEF Newest
    <3> QED BY <2>1, <2>2, <3>2 DEF VersionsUpTo
  <2> QED BY <2>2 DEF StartupInv, ReadyAfterSnapshot, ActiveSnapshotIsNewest
<1> QED BY <1>1, StartupInvHolds, PTL

-----------------------------------------------------------------------------
(* The behaviours of MCBackendProcess *)

LEMMA PartSteps ==
  [BackendNext]_backendVars => [DailyNext]_dailyVars /\ [StartupNext]_startupVars
BY DEF BackendNext, Daily, Process, backendVars

\* The invariants of the two parts hold of the specification whose run checks
\* them: neither takes a step that it could not take alone.
THEOREM BackendInvariant == BackendSpec => [](DailyInv /\ StartupInv)
<1>1. BackendInit => DailyInv /\ StartupInv
  BY DailyInitEstablishesInv, InitEstablishesInv DEF BackendInit
<1>2. DailyInv /\ StartupInv /\ [BackendNext]_backendVars => DailyInv' /\ StartupInv'
  BY PartSteps, DailyStepKeepsInv, NextKeepsInv
<1> QED BY <1>1, <1>2, PTL DEF BackendSpec

\* Claims, requests and transfers, and the process with its refreshes and rows.
THEOREM BackendTypeCorrect == BackendSpec => []BackendTypeOK
<1>1. DailyInv /\ StartupInv => BackendTypeOK
  BY DEF DailyInv, StartupInv, BackendTypeOK
<1> QED BY <1>1, BackendInvariant, PTL

=============================================================================
