----------------------------- MODULE DailyReward -----------------------------
(***************************************************************************)
(* backend/src/services/dailyRewardService.ts: the daily CELO bonus of one *)
(* player, claimed by concurrent requests of the same account.  A request  *)
(* is a sequence of awaited calls, and every await is a step of its own:   *)
(* another request, the chain, midnight or a crash may come in between.    *)
(* Requests are the player's connections: one sends a request after the    *)
(* other until one of them has broadcast a transfer.  So a connection also *)
(* names its transfer, and a stored transaction hash is a connection.      *)
(*                                                                         *)
(* Rejections by the database (serialisation conflicts) and failing calls  *)
(* to the chain are part of normal operation; what only happens under a    *)
(* fault is chosen at the start (faults).                                  *)
(***************************************************************************)
EXTENDS Integers, FiniteSets

CONSTANTS
    Requests,   \* connections of the player sending POST /player/daily-bonus
    NoTx,       \* a NULL transaction hash
    MaxDay,     \* bound: days the clock runs
    FaultSets   \* sets of faults: a behaviour meets those of one of them

\* crash: the process dies; slow: a request holds its reservation for longer
\* than the lock window; lostReply: a broadcast transfer is reported as
\* failed; revert: a transfer reverts on chain; dbError: a single update fails.
AllFaults == {"crash", "slow", "lostReply", "revert", "dbError"}

ASSUME DailyRewardAssumption ==
    /\ NoTx \notin Requests
    /\ MaxDay \in Nat \ {0}
    /\ FaultSets \subseteq SUBSET AllFaults

Days == 1..MaxDay

VARIABLES
    faults,     \* what may go wrong
    day,        \* the UTC day
    claims,     \* claims[d]: the DailyRewardClaim row of day d
    user,       \* the player's User row
    transfers,  \* transfers[r]: what became of the transfer of request r
    booked,     \* transfers entered in the Reward and Transaction tables
    request     \* request[r]: where request r is and what it remembers

dailyVars == <<faults, day, claims, user, transfers, booked, request>>

ClaimStatus == {"none", "PROCESSING", "PAID", "FAILED"}
TransferState == {"none", "pending", "mined", "reverted"}
Steps == {"idle", "lookup", "receipt", "reset", "readUser", "resumeFinalize",
          "reserve", "send", "storeHash", "wait", "confirmFailed", "finalize",
          "markFailed", "done"}
Outcomes == {"none", "paid", "alreadyClaimed", "pending", "error"}

\* stale: processingStartedAt is older than the lock window
Claim == [status : ClaimStatus, tx : Requests \cup {NoTx}, stale : BOOLEAN]

UserRow == [lastDay : 0..MaxDay, streak : Nat, total : Nat]

\* seen...: what the resumption read; hash: txHash, undefined until the
\* transfer was broadcast
Request == [step : Steps, date : Days, seenTx : Requests \cup {NoTx},
            seenUser : UserRow, seenDay : Days, hash : Requests \cup {NoTx},
            outcome : Outcomes]

NoClaim == [status |-> "none", tx |-> NoTx, stale |-> FALSE]
NewUser == [lastDay |-> 0, streak |-> 0, total |-> 0]
NoRequest == [step |-> "idle", date |-> 1, seenTx |-> NoTx, seenUser |-> NewUser,
              seenDay |-> 1, hash |-> NoTx, outcome |-> "none"]

DailyTypeOK ==
    /\ faults \in FaultSets
    /\ day \in Days
    /\ claims \in [Days -> Claim]
    /\ user \in UserRow
    /\ transfers \in [Requests -> TransferState]
    /\ booked \subseteq Requests
    /\ request \in [Requests -> Request]

DailyInit ==
    /\ faults \in FaultSets
    /\ day = 1
    /\ claims = [d \in Days |-> NoClaim]
    /\ user = NewUser
    /\ transfers = [r \in Requests |-> "none"]
    /\ booked = {}
    /\ request = [r \in Requests |-> NoRequest]

-----------------------------------------------------------------------------
(* One request *)

At(r, step) == request[r].step = step

Go(r, step) == request' = [request EXCEPT ![r].step = step]

Finish(r, outcome) == request' = [request EXCEPT ![r].step = "done", ![r].outcome = outcome]

RowOf(r) == claims[request[r].date]

SetRow(r, row) == claims' = [claims EXCEPT ![request[r].date] = row]

\* The claim date is fixed before anything is read.
Start(r) ==
    /\ At(r, "idle") \/ At(r, "done")
    /\ transfers[r] = "none"
    /\ request' = [request EXCEPT ![r] = [NoRequest EXCEPT !.step = "lookup", !.date = day]]
    /\ UNCHANGED <<faults, day, claims, user, transfers, booked>>

Locked(row) == row.status = "PROCESSING" /\ row.tx = NoTx /\ ~row.stale

\* findDailyRewardClaim, and what follows from the row without another await.
Lookup(r) ==
    /\ At(r, "lookup")
    /\ LET row == RowOf(r) IN
       \/ row.status = "PAID" /\ Finish(r, "alreadyClaimed")
       \/ Locked(row) /\ Finish(r, "pending")
       \/ row.status \in {"PROCESSING", "FAILED"} /\ row.tx # NoTx
             /\ request' = [request EXCEPT ![r].step = "receipt", ![r].seenTx = row.tx]
       \/ row.status # "PAID" /\ row.tx = NoTx /\ ~Locked(row) /\ Go(r, "reserve")
    /\ UNCHANGED <<faults, day, claims, user, transfers, booked>>

\* The receipt of the stored transfer; the call itself may fail.
Receipt(r) ==
    /\ At(r, "receipt")
    /\ LET state == transfers[request[r].seenTx] IN
       \/ state = "pending" /\ Finish(r, "pending")
       \/ state = "reverted" /\ Go(r, "reset")
       \/ state = "mined" /\ Go(r, "readUser")
       \/ Finish(r, "error")
    /\ UNCHANGED <<faults, day, claims, user, transfers, booked>>

\* markClaimFailed with a confirmed failure: the row is reset by its id, no
\* matter what it holds by now.
Reset(r) ==
    /\ At(r, "reset")
    /\ SetRow(r, [RowOf(r) EXCEPT !.status = "FAILED", !.tx = NoTx])
    /\ Go(r, "reserve")
    /\ UNCHANGED <<faults, day, user, transfers, booked>>

\* The user and the time of payment are taken before the transaction begins.
ReadUser(r) ==
    /\ At(r, "readUser")
    /\ request' = [request EXCEPT ![r].step = "resumeFinalize", ![r].seenUser = user,
                                  ![r].seenDay = day]
    /\ UNCHANGED <<faults, day, claims, user, transfers, booked>>

\* Mutant: a row that is paid can be finalised again.
CanFinalizeAgain(row, tx) == row.tx = tx

CanFinalize(row, tx) == row.tx = tx /\ row.status \in {"PROCESSING", "FAILED"}

\* Mutant: missed days are subtracted, today included.
NextStreakNegative(old, date) == IF old.lastDay = 0 THEN 1 ELSE old.streak - (date + 1 - old.lastDay)

\* wasYesterdayUtc compares the day of the previous claim with the claim date.
NextStreak(old, date) ==
    IF old.lastDay # 0 /\ old.lastDay = date - 1 THEN old.streak + 1 ELSE 1

\* The claim, the user and the bookings change in one transaction.  The day of
\* payment, not the claim date, becomes the day of the last claim.
Pay(r, tx, oldUser, paidOn) ==
    /\ SetRow(r, [RowOf(r) EXCEPT !.status = "PAID"])
    /\ user' = [lastDay |-> paidOn, streak |-> NextStreak(oldUser, request[r].date),
                total |-> user.total + 1]
    /\ booked' = booked \cup {tx}
    /\ Finish(r, "paid")

ResumeFinalize(r) ==
    /\ At(r, "resumeFinalize")
    /\ \/ /\ CanFinalize(RowOf(r), request[r].seenTx)
          /\ Pay(r, request[r].seenTx, request[r].seenUser, request[r].seenDay)
       \/ /\ \/ Finish(r, "error")  \* also a serialisation conflict
             \/ RowOf(r).status = "PAID" /\ Finish(r, "alreadyClaimed")
          /\ UNCHANGED <<claims, user, booked>>
    /\ UNCHANGED <<faults, day, transfers>>

\* Mutant: a row that is being processed is taken over at once.
ReservableAtOnce(row) ==
    \/ row.status = "none"
    \/ row.tx = NoTx /\ row.status \in {"FAILED", "PROCESSING"}

\* INSERT ... ON CONFLICT DO UPDATE WHERE
Reservable(row) ==
    \/ row.status = "none"
    \/ row.tx = NoTx /\ (row.status = "FAILED" \/ (row.status = "PROCESSING" /\ row.stale))

Reserve(r) ==
    /\ At(r, "reserve")
    /\ \/ /\ user.lastDay # request[r].date
          /\ Reservable(RowOf(r))
          /\ SetRow(r, [status |-> "PROCESSING", tx |-> NoTx, stale |-> FALSE])
          /\ Go(r, "send")
       \/ /\ user.lastDay = request[r].date \/ ~Reservable(RowOf(r))
          /\ Finish(r, "alreadyClaimed")
          /\ UNCHANGED claims
       \/ Finish(r, "error") /\ UNCHANGED claims  \* a serialisation conflict
    /\ UNCHANGED <<faults, day, user, transfers, booked>>

\* The balance check and sendTransaction, either of which may fail.
Send(r) ==
    /\ At(r, "send")
    /\ \/ /\ transfers' = [transfers EXCEPT ![r] = "pending"]
          /\ request' = [request EXCEPT ![r].step = "storeHash", ![r].hash = r]
       \/ Go(r, "markFailed") /\ UNCHANGED transfers
       \/ /\ "lostReply" \in faults
          /\ transfers' = [transfers EXCEPT ![r] = "pending"]
          /\ Go(r, "markFailed")
    /\ UNCHANGED <<faults, day, claims, user, booked>>

\* By the id of the row, no matter what it holds by now.
StoreHash(r) ==
    /\ At(r, "storeHash")
    /\ SetRow(r, [RowOf(r) EXCEPT !.tx = request[r].hash])
    /\ Go(r, "wait")
    /\ UNCHANGED <<faults, day, user, transfers, booked>>

\* Mutant: finalised as soon as the transfer is broadcast.
WaitForNothing(r) ==
    /\ At(r, "wait")
    /\ Go(r, "finalize")
    /\ UNCHANGED <<faults, day, claims, user, transfers, booked>>

\* tx.wait(1) has no timeout: it returns a receipt, or reports or throws a revert.
Wait(r) ==
    /\ At(r, "wait")
    /\ \/ transfers[r] = "mined" /\ Go(r, "finalize")
       \/ transfers[r] = "reverted" /\ (Go(r, "confirmFailed") \/ Go(r, "markFailed"))
    /\ UNCHANGED <<faults, day, claims, user, transfers, booked>>

\* ... or fails with the connection.
WaitFails(r) ==
    /\ At(r, "wait")
    /\ Go(r, "markFailed")
    /\ UNCHANGED <<faults, day, claims, user, transfers, booked>>

ConfirmFailed(r) ==
    /\ At(r, "confirmFailed")
    /\ SetRow(r, [RowOf(r) EXCEPT !.status = "FAILED", !.tx = NoTx])
    /\ Finish(r, "error")
    /\ UNCHANGED <<faults, day, user, transfers, booked>>

\* Mutant: a row that cannot be finalised is waited for again.
FinalizeRetries(r) ==
    /\ At(r, "finalize")
    /\ \/ CanFinalize(RowOf(r), request[r].hash) /\ Pay(r, request[r].hash, user, day)
       \/ Go(r, "wait") /\ UNCHANGED <<claims, user, booked>>
    /\ UNCHANGED <<faults, day, transfers>>

\* A row that cannot be finalised, or a conflict, goes to the catch block.
Finalize(r) ==
    /\ At(r, "finalize")
    /\ \/ CanFinalize(RowOf(r), request[r].hash) /\ Pay(r, request[r].hash, user, day)
       \/ Go(r, "markFailed") /\ UNCHANGED <<claims, user, booked>>
    /\ UNCHANGED <<faults, day, transfers>>

\* Mutant: the row is released although the transfer is known.
MarkFailedForgetsHash(r) ==
    /\ At(r, "markFailed")
    /\ SetRow(r, [RowOf(r) EXCEPT !.status = "FAILED", !.tx = NoTx])
    /\ Finish(r, "error")
    /\ UNCHANGED <<faults, day, user, transfers, booked>>

\* The catch block: without a hash the row is released for a retry, with one
\* it only keeps the hash.
MarkFailed(r) ==
    /\ At(r, "markFailed")
    /\ SetRow(r, IF request[r].hash = NoTx
                 THEN [RowOf(r) EXCEPT !.status = "FAILED", !.tx = NoTx]
                 ELSE [RowOf(r) EXCEPT !.tx = request[r].hash])
    /\ Finish(r, "error")
    /\ UNCHANGED <<faults, day, user, transfers, booked>>

\* A single update fails: inside the try block the catch block follows.
DbError(r) ==
    /\ "dbError" \in faults
    /\ \/ request[r].step \in {"lookup", "reset", "readUser", "markFailed"} /\ Finish(r, "error")
       \/ request[r].step \in {"storeHash", "confirmFailed"} /\ Go(r, "markFailed")
    /\ UNCHANGED <<faults, day, claims, user, transfers, booked>>

RequestStep(r) ==
    \/ Lookup(r) \/ Receipt(r) \/ Reset(r) \/ ReadUser(r) \/ ResumeFinalize(r)
    \/ Reserve(r) \/ Send(r) \/ StoreHash(r) \/ Wait(r) \/ ConfirmFailed(r)
    \/ Finalize(r) \/ MarkFailed(r) \/ DbError(r)

-----------------------------------------------------------------------------
(* The chain, the clock and the process *)

\* A broadcast transfer is mined, or reverts when the wallet is a contract
\* that refuses it.
Mine(r) ==
    /\ transfers[r] = "pending"
    /\ \/ transfers' = [transfers EXCEPT ![r] = "mined"]
       \/ "revert" \in faults /\ transfers' = [transfers EXCEPT ![r] = "reverted"]
    /\ UNCHANGED <<faults, day, claims, user, booked, request>>

Midnight ==
    /\ day < MaxDay
    /\ day' = day + 1
    /\ UNCHANGED <<faults, claims, user, transfers, booked, request>>

\* A request of day d has reserved the row and has not stored a hash yet.
Holding(d) == \E r \in Requests : /\ request[r].date = d
                                  /\ request[r].step \in {"send", "storeHash", "markFailed"}

WindowElapses(d) ==
    /\ Locked(claims[d])
    /\ ~Holding(d) \/ "slow" \in faults
    /\ claims' = [claims EXCEPT ![d].stale = TRUE]
    /\ UNCHANGED <<faults, day, user, transfers, booked, request>>

\* Every request in progress is lost.
Crash ==
    /\ "crash" \in faults
    /\ request' = [r \in Requests |->
                      IF At(r, "idle") \/ At(r, "done") THEN request[r]
                      ELSE [request[r] EXCEPT !.step = "done", !.outcome = "error"]]
    /\ UNCHANGED <<faults, day, claims, user, transfers, booked>>

DailyNext ==
    \/ \E r \in Requests : Start(r) \/ RequestStep(r) \/ WaitFails(r) \/ Mine(r)
    \/ \E d \in Days : WindowElapses(d)
    \/ Midnight
    \/ Crash

\* The event loop goes on with the requests, and the chain mines transfers;
\* nobody has to send a request, and no call has to fail.
DailySpec ==
    /\ DailyInit
    /\ [][DailyNext]_dailyVars
    /\ \A r \in Requests : WF_dailyVars(RequestStep(r)) /\ WF_dailyVars(Mine(r))

-----------------------------------------------------------------------------
(* Properties *)

SentFor(d) == {r \in Requests : transfers[r] \in {"pending", "mined"} /\ request[r].date = d}

OneTransferPerDay == \A d \in Days : Cardinality(SentFor(d)) <= 1

\* Without faults at most one transfer of a day's bonus is under way or mined,
\* however many requests of the player overlap and whatever they read before.
OneTransferWithoutFaults == faults = {} => OneTransferPerDay

\* A request can then write late to a row that is no longer its own.
LateWrites == faults \cap {"slow", "revert"} # {}

\* The books never say more than the chain.  Whatever fails, what is booked was
\* mined and the streak is not longer than the total; and unless a request
\* writes late, the total counts every booked transfer once.  A late write can
\* reopen a paid row that another request then gives its hash back, so that
\* with three requests one transfer is counted twice.
BooksBackedByChain ==
    /\ \A r \in booked : transfers[r] = "mined"
    /\ user.streak <= user.total
    /\ ~LateWrites => user.total = Cardinality(booked)

\* Unless a request outlives its reservation or a transfer reverts, a row is
\* PAID exactly when the transfer it names is booked, so that a later request
\* neither pays a paid day again nor reports an unpaid day as paid.
PaidMeansBooked ==
    ~LateWrites =>
        \A d \in Days : claims[d].status = "PAID" <=> claims[d].tx \in booked

\* Nor does then a late update of another request reopen a day that was paid.
PaidIsFinal ==
    [][\A d \in Days : claims[d].status = "PAID" /\ ~LateWrites
                         => claims'[d] = claims[d]]_dailyVars

\* The promise behind the books: paid once, booked once.  It is made for
\* behaviours without faults; one with faults counts as doing nothing.
Bonus == INSTANCE DailyBonus WITH
    paid <- {d \in Days : faults = {} /\ \E r \in SentFor(d) : transfers[r] = "mined"},
    booked <- {d \in Days : faults = {} /\ claims[d].status = "PAID"},
    total <- IF faults = {} THEN user.total ELSE 0

ImplementsDailyBonus == Bonus!BonusSpec

\* Every request that is served ends with an answer, whatever fails.
RequestsFinish == \A r \in Requests : At(r, "lookup") ~> At(r, "done")
=============================================================================
