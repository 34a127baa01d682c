-------------------------- MODULE VerificationWorker --------------------------
(***************************************************************************)
(* backend/src/services/verification.ts: the queue of submitted proofs and *)
(* the workers (one per backend process) that verify them and send the     *)
(* verdict to ForgeQuestManager.  Every awaited call is a step of its own. *)
(* The chain is the part of ForgeQuestManager and Treasury a verdict       *)
(* depends on.  Quests are accepted and registered, so that no proof lacks *)
(* its quest context.                                                      *)
(***************************************************************************)
EXTENDS Integers, FiniteSets

CONSTANTS
    Workers,         \* processes that run the worker
    Quests,
    Proofs,          \* proof references; a proof stands for its hash
    NoProof,         \* NULL, the empty proof
    Valid,           \* proofs whose gameplay transaction passes the rules
    BatchSize,       \* VERIFICATION_BATCH_SIZE
    MaxSubmissions,  \* bound: submissions of each proof, and API calls for it
    Scenarios        \* the choices of faults and questOf a behaviour may start with

\* crash: a process dies; rpc: a call to the node fails, which may have done
\* what it was asked; timeout: a receipt takes longer than TX_WAIT_TIMEOUT_MS;
\* dbError: an update fails.
AllFaults == {"crash", "rpc", "timeout", "dbError"}

ASSUME WorkerAssumption ==
    /\ NoProof \notin Proofs
    /\ Valid \subseteq Proofs
    /\ BatchSize \in Nat \ {0}
    /\ MaxSubmissions \in Nat
    /\ Scenarios \subseteq [faults : SUBSET AllFaults, questOf : [Proofs -> Quests]]

VARIABLES
    faults,       \* what may go wrong
    questOf,      \* questOf[p]: the quest the player submits proof p for
    row,          \* row[p]: verificationResult of the ProofSubmission of p
    quest,        \* the Quest rows
    chain,        \* the quests on chain
    mempool,      \* verdict transactions that are broadcast and not mined
    api,          \* api[p]: where queueProofVerification is for p
    worker,       \* the workers
    credited,     \* credited[p]: how often p counted as a completed quest
    penalised,    \* penalised[p]: how often p decayed the player's streak
    submissions,  \* counters of the bound MaxSubmissions
    requests

workerVars == <<faults, questOf, row, quest, chain, mempool, api, worker, credited, penalised,
                submissions, requests>>

inputs == <<faults, questOf>>

Results == {"none", "pending", "processing", "VERIFIED", "REJECTED"}
QuestRow == [status : {"ACCEPTED", "COMPLETED", "CLAIMABLE"}, proofTx : Proofs \cup {NoProof}]
ChainQuest == [status : {"Accepted", "Completed", "Claimable"},
               proof : Proofs \cup {NoProof}, reserved : BOOLEAN]
Verdict == [worker : Workers, proof : Proofs, hash : Proofs, success : BOOLEAN]
Steps == {"idle", "select", "claim", "load", "check", "sendTrue", "waitTrue", "markVerified",
          "markClaimable", "credit", "artifacts", "fail", "sendFalse", "waitFalse",
          "markRejected", "markAccepted", "penalise"}

\* todo: selected rows; claimed: rows of the batch that are ours; proof: the
\* one in hand; seenTx: proofTx of its quest when it was loaded.
Worker == [step : Steps, todo : SUBSET Proofs, claimed : SUBSET Proofs,
           proof : Proofs \cup {NoProof}, seenTx : Proofs \cup {NoProof},
           tx : {"none", "mined", "reverted"}]

Resting == [step |-> "idle", todo |-> {}, claimed |-> {}, proof |-> NoProof,
            seenTx |-> NoProof, tx |-> "none"]

WorkerTypeOK ==
    /\ [faults |-> faults, questOf |-> questOf] \in Scenarios
    /\ row \in [Proofs -> Results]
    /\ quest \in [Quests -> QuestRow]
    /\ chain \in [Quests -> ChainQuest]
    /\ mempool \subseteq Verdict
    /\ api \in [Proofs -> {"idle", "read", "insert", "update"}]
    /\ worker \in [Workers -> Worker]
    /\ credited \in [Proofs -> Nat]
    /\ penalised \in [Proofs -> Nat]
    /\ submissions \in [Proofs -> 0..MaxSubmissions]
    /\ requests \in [Proofs -> 0..MaxSubmissions]

WorkerInit ==
    /\ \E s \in Scenarios : faults = s.faults /\ questOf = s.questOf
    /\ row = [p \in Proofs |-> "none"]
    /\ quest = [q \in Quests |-> [status |-> "ACCEPTED", proofTx |-> NoProof]]
    /\ chain = [q \in Quests |-> [status |-> "Accepted", proof |-> NoProof, reserved |-> TRUE]]
    /\ mempool = {}
    /\ api = [p \in Proofs |-> "idle"]
    /\ worker = [w \in Workers |-> Resting]
    /\ credited = [p \in Proofs |-> 0]
    /\ penalised = [p \in Proofs |-> 0]
    /\ submissions = [p \in Proofs |-> 0]
    /\ requests = [p \in Proofs |-> 0]

-----------------------------------------------------------------------------
(* The chain *)

\* submitQuest
SubmitQuest(p) ==
    /\ submissions[p] < MaxSubmissions
    /\ chain[questOf[p]].status = "Accepted"
    /\ chain' = [chain EXCEPT ![questOf[p]].status = "Completed", ![questOf[p]].proof = p]
    /\ submissions' = [submissions EXCEPT ![p] = @ + 1]
    /\ UNCHANGED <<inputs, row, quest, mempool, api, worker, credited, penalised, requests>>

\* Mutant: the verdict is not tied to the submitted proof.
VerdictFitsAnyProof(t) ==
    LET q == chain[questOf[t.proof]] IN q.status = "Completed" /\ (t.success \/ q.reserved)

\* verifyQuest goes through: the hash must be that of the submitted proof, and
\* a failed verdict must find the reward reserved in the treasury.
VerdictFits(t) ==
    LET q == chain[questOf[t.proof]] IN
    /\ q.status = "Completed"
    /\ q.proof = t.hash
    /\ t.success \/ q.reserved

\* Nobody waits any more for a transaction whose receipt was late.
Awaits(w, t) ==
    /\ t.worker = w
    /\ worker[w].proof = t.proof
    /\ worker[w].step = IF t.success THEN "waitTrue" ELSE "waitFalse"
    /\ worker[w].tx = "none"

Mine(t) ==
    /\ mempool' = mempool \ {t}
    /\ chain' = [chain EXCEPT ![questOf[t.proof]] =
                   IF ~VerdictFits(t) THEN @
                   ELSE IF t.success THEN [@ EXCEPT !.status = "Claimable"]
                   ELSE [status |-> "Accepted", proof |-> NoProof, reserved |-> FALSE]]
    /\ worker' = [w \in Workers |->
                    IF Awaits(w, t)
                    THEN [worker[w] EXCEPT !.tx = IF VerdictFits(t) THEN "mined" ELSE "reverted"]
                    ELSE worker[w]]
    /\ UNCHANGED <<inputs, row, quest, api, credited, penalised, submissions, requests>>

-----------------------------------------------------------------------------
(* queueProofVerification, for a proof that was submitted on chain *)

chainVars == <<inputs, chain, mempool, submissions>>

QueueRequest(p) ==
    /\ api[p] = "idle"
    /\ requests[p] < submissions[p]
    /\ requests' = [requests EXCEPT ![p] = @ + 1]
    /\ api' = [api EXCEPT ![p] = "read"]
    /\ UNCHANGED <<row, quest, worker, credited, penalised, chainVars>>

\* A proof that was decided is refused.
QueueRead(p) ==
    /\ api[p] = "read"
    /\ api' = [api EXCEPT ![p] = CASE row[p] = "none" -> "insert"
                                   [] row[p] \in {"pending", "processing"} -> "update"
                                   [] OTHER -> "idle"]
    /\ UNCHANGED <<row, quest, worker, credited, penalised, requests, chainVars>>

QueueInsert(p) ==
    /\ api[p] = "insert"
    /\ row' = [row EXCEPT ![p] = "pending"]
    /\ api' = [api EXCEPT ![p] = "update"]
    /\ UNCHANGED <<quest, worker, credited, penalised, requests, chainVars>>

\* The quest row follows in a statement of its own.
QueueUpdate(p) ==
    /\ api[p] = "update"
    /\ quest' = [quest EXCEPT ![questOf[p]] = [status |-> "COMPLETED", proofTx |-> p]]
    /\ api' = [api EXCEPT ![p] = "idle"]
    /\ UNCHANGED <<row, worker, credited, penalised, requests, chainVars>>

QueueStep(p) == QueueRead(p) \/ QueueInsert(p) \/ QueueUpdate(p)

-----------------------------------------------------------------------------
(* claimPendingProofs *)

At(w, step) == worker[w].step = step

Go(w, step) == worker' = [worker EXCEPT ![w].step = step]

queueVars == <<inputs, api, requests, submissions>>

\* The timer, or a request that was queued; a running batch is left alone.
Poll(w) ==
    /\ At(w, "idle")
    /\ Go(w, "select")
    /\ UNCHANGED <<row, quest, chain, mempool, credited, penalised, queueVars>>

Select(w) ==
    /\ At(w, "select")
    /\ LET pending == {p \in Proofs : row[p] = "pending"} IN
       \E todo \in SUBSET pending :
          /\ \/ Cardinality(todo) = BatchSize
             \/ todo = pending /\ Cardinality(pending) < BatchSize
          /\ worker' = [worker EXCEPT ![w] = [Resting EXCEPT !.todo = todo,
                            !.step = IF todo = {} THEN "idle" ELSE "claim"]]
    /\ UNCHANGED <<row, quest, chain, mempool, credited, penalised, queueVars>>

\* Mutant: a selected row is claimed without looking at it again.
ClaimUnchecked(w) ==
    /\ At(w, "claim")
    /\ \E p \in worker[w].todo :
          /\ row' = [row EXCEPT ![p] = "processing"]
          /\ worker' = [worker EXCEPT ![w].todo = @ \ {p}, ![w].claimed = @ \cup {p},
                           ![w].step = IF worker[w].todo = {p} THEN "load" ELSE @]
    /\ UNCHANGED <<quest, chain, mempool, credited, penalised, queueVars>>

\* UPDATE ... WHERE "verificationResult" = 'pending', row by row.
Claim(w) ==
    /\ At(w, "claim")
    /\ \E p \in worker[w].todo :
          LET won == row[p] = "pending" IN
          /\ row' = IF won THEN [row EXCEPT ![p] = "processing"] ELSE row
          /\ worker' = [worker EXCEPT ![w].todo = @ \ {p},
                           ![w].claimed = IF won THEN @ \cup {p} ELSE @,
                           ![w].step = IF worker[w].todo = {p} THEN "load" ELSE @]
    /\ UNCHANGED <<quest, chain, mempool, credited, penalised, queueVars>>

-----------------------------------------------------------------------------
(* verifyQueuedProof *)

\* The next proof of the batch is loaded with its quest; a batch of which
\* nothing was claimed ends the loop, a finished one asks for more.
Load(w) ==
    /\ At(w, "load")
    /\ \/ \E p \in worker[w].claimed :
            worker' = [worker EXCEPT ![w] = [worker[w] EXCEPT !.step = "check",
                          !.claimed = @ \ {p}, !.proof = p, !.seenTx = quest[questOf[p]].proofTx, !.tx = "none"]]
       \/ /\ worker[w].claimed = {}
          /\ worker' = [worker EXCEPT ![w] = [Resting EXCEPT
                            !.step = IF worker[w].proof = NoProof THEN "idle" ELSE "select"]]
    /\ UNCHANGED <<row, quest, chain, mempool, credited, penalised, queueVars>>

restVars == <<row, quest, chain, mempool, credited, penalised, queueVars>>

\* The submission named by the quest row must be that of this proof, the
\* gameplay must satisfy the rules, and the quest on chain must wait for it.
ChecksPass(w) ==
    LET p == worker[w].proof IN
    /\ worker[w].seenTx = p
    /\ p \in Valid
    /\ chain[questOf[p]].proof = p
    /\ chain[questOf[p]].status = "Completed"

\* A query that fails counts like a check that fails.
Check(w) ==
    /\ At(w, "check")
    /\ \/ ChecksPass(w) /\ Go(w, "sendTrue")
       \/ (~ChecksPass(w) \/ "rpc" \in faults) /\ Go(w, "fail")
    /\ UNCHANGED restVars

\* verifyQuest(.., true, ..): the estimation of gas already reverts when the
\* call would; a broadcast verdict may lack its reply.
SendTrue(w) ==
    /\ At(w, "sendTrue")
    /\ LET t == [worker |-> w, proof |-> worker[w].proof, hash |-> worker[w].proof,
                 success |-> TRUE] IN
       \/ /\ VerdictFits(t)
          /\ mempool' = mempool \cup {t}
          /\ Go(w, "waitTrue") \/ ("rpc" \in faults /\ Go(w, "fail"))
       \/ (~VerdictFits(t) \/ "rpc" \in faults) /\ Go(w, "fail") /\ UNCHANGED mempool
    /\ UNCHANGED <<row, quest, chain, credited, penalised, queueVars>>

\* Mutant: a broadcast verdict counts as given.
WaitTrueNot(w) == At(w, "waitTrue") /\ Go(w, "markVerified") /\ UNCHANGED restVars

\* The receipt may stay away, whatever becomes of the transaction.
WaitFails == faults \cap {"timeout", "rpc"} # {}

\* waitForTransaction
WaitTrue(w) ==
    /\ At(w, "waitTrue")
    /\ \/ worker[w].tx = "mined" /\ Go(w, "markVerified")
       \/ (worker[w].tx = "reverted" \/ WaitFails) /\ Go(w, "fail")
    /\ UNCHANGED restVars

\* settleVerificationSuccess after the receipt: markProofResult in two
\* statements, then the player's record, then payouts, cooldown and profile.
MarkVerified(w) ==
    /\ At(w, "markVerified")
    /\ row' = [row EXCEPT ![worker[w].proof] = "VERIFIED"]
    /\ Go(w, "markClaimable")
    /\ UNCHANGED <<quest, chain, mempool, credited, penalised, queueVars>>

MarkClaimable(w) ==
    /\ At(w, "markClaimable")
    /\ quest' = [quest EXCEPT ![questOf[worker[w].proof]].status = "CLAIMABLE"]
    /\ Go(w, "credit")
    /\ UNCHANGED <<row, chain, mempool, credited, penalised, queueVars>>

Credit(w) ==
    /\ At(w, "credit")
    /\ credited' = [credited EXCEPT ![worker[w].proof] = @ + 1]
    /\ Go(w, "artifacts")
    /\ UNCHANGED <<row, quest, chain, mempool, penalised, queueVars>>

\* The time of the receipt's block is queried first, inside the try block: a
\* failing query settles the accepted proof as a failure.
Artifacts(w) ==
    /\ At(w, "artifacts")
    /\ Go(w, "load") \/ ("rpc" \in faults /\ Go(w, "fail"))
    /\ UNCHANGED restVars

-----------------------------------------------------------------------------
(* settleVerificationFailure: an error here leaves the loop, and the claimed *)
(* rest of the batch with it                                                 *)

Abort(w) == worker' = [worker EXCEPT ![w] = Resting]

\* Mutant: a quest that does not wait on chain is an error.
FailReadOrAbort(w) ==
    /\ At(w, "fail")
    /\ IF worker[w].seenTx # NoProof /\ chain[questOf[worker[w].proof]].status = "Completed"
       THEN Go(w, "sendFalse")
       ELSE Abort(w)
    /\ UNCHANGED restVars

\* Without a stored proof only the rows are updated; with one a quest that
\* still waits on chain is failed there first.  No receipt yet.
FailRead(w) ==
    /\ At(w, "fail")
    /\ LET seen == worker[w].seenTx
           waiting == chain[questOf[worker[w].proof]].status = "Completed" IN
       \/ worker' = [worker EXCEPT ![w].tx = "none",
                ![w].step = IF seen # NoProof /\ waiting THEN "sendFalse" ELSE "markRejected"]
       \/ seen # NoProof /\ "rpc" \in faults /\ Abort(w)
    /\ UNCHANGED restVars

SendFalse(w) ==
    /\ At(w, "sendFalse")
    /\ LET t == [worker |-> w, proof |-> worker[w].proof, hash |-> worker[w].seenTx,
                 success |-> FALSE] IN
       \/ /\ VerdictFits(t)
          /\ mempool' = mempool \cup {t}
          /\ Go(w, "waitFalse") \/ ("rpc" \in faults /\ Abort(w))
       \/ (~VerdictFits(t) \/ "rpc" \in faults) /\ Abort(w) /\ UNCHANGED mempool
    /\ UNCHANGED <<row, quest, chain, credited, penalised, queueVars>>

WaitFalse(w) ==
    /\ At(w, "waitFalse")
    /\ \/ worker[w].tx = "mined" /\ Go(w, "markRejected")
       \/ (worker[w].tx = "reverted" \/ WaitFails) /\ Abort(w)
    /\ UNCHANGED restVars

MarkRejected(w) ==
    /\ At(w, "markRejected")
    /\ row' = [row EXCEPT ![worker[w].proof] = "REJECTED"]
    /\ Go(w, "markAccepted")
    /\ UNCHANGED <<quest, chain, mempool, credited, penalised, queueVars>>

\* Mutant: the verdict is written into the quest's status.
MarkAcceptedAsRejected(w) ==
    /\ At(w, "markAccepted")
    /\ quest' = [quest EXCEPT ![questOf[worker[w].proof]].status = row[worker[w].proof]]
    /\ Go(w, IF worker[w].seenTx = NoProof THEN "load" ELSE "penalise")
    /\ UNCHANGED <<row, chain, mempool, credited, penalised, queueVars>>

MarkAccepted(w) ==
    /\ At(w, "markAccepted")
    /\ quest' = [quest EXCEPT ![questOf[worker[w].proof]].status = "ACCEPTED"]
    /\ Go(w, IF worker[w].seenTx = NoProof THEN "load" ELSE "penalise")
    /\ UNCHANGED <<row, chain, mempool, credited, penalised, queueVars>>

\* applyStreakDecay, then cooldown and payout, which may still fail; with a
\* receipt the time of its block is queried.
Penalise(w) ==
    /\ At(w, "penalise")
    /\ penalised' = [penalised EXCEPT ![worker[w].proof] = @ + 1]
    /\ \/ Go(w, "load")
       \/ "dbError" \in faults /\ Abort(w)
       \/ "rpc" \in faults /\ worker[w].tx = "mined" /\ Abort(w)
    /\ UNCHANGED <<row, quest, chain, mempool, credited, queueVars>>

\* Inside the try block of verifyQueuedProof an error leads to the failure
\* settlement, whatever was settled before.
DbError(w) ==
    /\ "dbError" \in faults
    /\ \/ worker[w].step \in {"markVerified", "markClaimable", "credit", "artifacts"}
             /\ Go(w, "fail")
       \/ worker[w].step \in {"select", "claim", "load", "markRejected", "markAccepted", "penalise"}
             /\ Abort(w)
    /\ UNCHANGED restVars

\* A process dies with its batch and the requests it served.
Crash(w) ==
    /\ "crash" \in faults
    /\ Abort(w)
    /\ \E lost \in {{p \in Proofs : api[p] # "idle"}, {}} :
          api' = [p \in Proofs |-> IF p \in lost THEN "idle" ELSE api[p]]
    /\ UNCHANGED <<inputs, row, quest, chain, mempool, credited, penalised, submissions, requests>>

BatchStep(w) ==
    \/ Select(w) \/ Claim(w) \/ Load(w)
    \/ Check(w) \/ SendTrue(w) \/ WaitTrue(w)
    \/ MarkVerified(w) \/ MarkClaimable(w) \/ Credit(w) \/ Artifacts(w)
    \/ FailRead(w) \/ SendFalse(w) \/ WaitFalse(w)
    \/ MarkRejected(w) \/ MarkAccepted(w) \/ Penalise(w)

WorkerNext ==
    \/ \E p \in Proofs : SubmitQuest(p) \/ QueueRequest(p) \/ QueueStep(p)
    \/ \E t \in mempool : Mine(t)
    \/ \E w \in Workers : \/ Poll(w) \/ BatchStep(w)
                          \/ DbError(w) \/ Crash(w)

\* The timers fire, the event loops go on and transactions are mined; players
\* have to do nothing.
WorkerSpec ==
    /\ WorkerInit
    /\ [][WorkerNext]_workerVars
    /\ \A w \in Workers : WF_workerVars(Poll(w)) /\ WF_workerVars(BatchStep(w))
    /\ \A p \in Proofs : WF_workerVars(QueueStep(p))
    /\ WF_workerVars(\E t \in mempool : Mine(t))

-----------------------------------------------------------------------------
(* Properties *)

Accepted(p) == LET q == chain[questOf[p]] IN q.status = "Claimable" /\ q.proof = p

Decided(p) == row[p] \in {"VERIFIED", "REJECTED"}

\* Only a proof that passed the rules makes its quest claimable, also when the
\* verdict on an earlier proof of the quest is mined late.
OnlyValidProofsAccepted == \A p \in Proofs : Accepted(p) => p \in Valid

\* A call that fails after the verdict was mined and the row is VERIFIED: the
\* catch block of verifyQueuedProof settles the proof as a failure as well.
LateFailure == faults \cap {"rpc", "dbError"} # {}

\* A proof that is given up may have been accepted, or be accepted later.
GivenUp == LateFailure \/ "timeout" \in faults

\* With several workers, retried requests, overlapping batches and every fault
\* a decided proof is never decided again, but for a VERIFIED one that a late
\* failure rejects; a rejected proof stays rejected.
VerdictIsFinal ==
    [][\A p \in Proofs : Decided(p) /\ row'[p] # row[p] =>
            row[p] = "VERIFIED" /\ row'[p] = "REJECTED" /\ LateFailure]_workerVars

\* Under every fault a proof counts at most once as a completed quest and at
\* most once as a failure, and as both only after a late failure.
CountedOnce ==
    \A p \in Proofs :
        /\ credited[p] <= 1 /\ penalised[p] <= 1
        /\ credited[p] + penalised[p] = 2 => LateFailure

\* The database never promises more than the chain, whatever fails: a proof is
\* VERIFIED or counted as a completed quest only when its quest is claimable
\* on chain by this very proof.  A rejected proof is no success on chain,
\* unless the worker gave up a verdict that was accepted.
DecidedAsOnChain ==
    \A p \in Proofs :
        /\ row[p] = "VERIFIED" \/ credited[p] > 0 => Accepted(p)
        /\ row[p] = "REJECTED" /\ ~GivenUp => ~Accepted(p)

\* The quest waits for a verdict on p and has nothing reserved to refund, since
\* an earlier proof of it failed: a failing verdict on p reverts.
Unrefundable(p) ==
    /\ row[p] = "processing"
    /\ chain[questOf[p]] = [status |-> "Completed", proof |-> p, reserved |-> FALSE]

\* Without faults every queued proof gets a verdict, until a worker takes up a
\* second proof of a quest whose first one failed: the verdict on it reverts,
\* the error leaves the loop, and what the batch had claimed stays behind.
QueuedProofIsDecided ==
    faults = {} => \A p \in Proofs :
        row[p] = "pending" ~> Decided(p) \/ \E p2 \in Proofs : Unrefundable(p2)

\* "If proof verification crashes, quest state recovers" (the bug elimination
\* audit): every queued proof gets a verdict, also across crashes.
EveryQueuedProofIsDecided == \A p \in Proofs : row[p] = "pending" ~> Decided(p)
=============================================================================
