---------------------- MODULE VerificationWorker_proofs ----------------------
(* For any number of processes, quests and proofs, and under every fault:    *)
(* only valid proofs are accepted, a proof is VERIFIED or counted as a         *)
(* completed quest only if it was accepted, a rejected proof is never verified *)
(* and each counter counts it once.  Unless a call fails after the mined       *)
(* verdict, a proof is decided once and counted on one side only; and unless   *)
(* verdicts are given up, what is rejected is not accepted later.              *)
EXTENDS VerificationWorker, TLAPS

-----------------------------------------------------------------------------
(* What a worker holds and knows; me is the record of worker w *)

Trying == {"check", "sendTrue", "waitTrue", "markVerified"}
Succeeded == {"markClaimable", "credit", "artifacts"}
Failing == {"fail", "sendFalse", "waitFalse", "markRejected"}
Failed == {"markAccepted", "penalise"}
InHand == Trying \cup Succeeded \cup Failing \cup Failed

\* Proof p is in its batch, or in its hand.
Holds(me, p) == p \in me.claimed \/ (me.step \in InHand /\ me.proof = p)

\* What a worker in each step knows, under every fault.
KnowsSoFar(me) ==
    /\ me.step \in InHand => me.proof \in Proofs /\ me.proof \notin me.claimed
    /\ me.step = "sendFalse" => me.seenTx \in Proofs
    /\ me.step \in {"check", "sendTrue"} => me.tx = "none"
    /\ me.step = "sendTrue" => me.proof \in Valid
    /\ me.step = "waitTrue" /\ me.tx = "mined" => Accepted(me.proof)
    /\ me.step = "markVerified" => Accepted(me.proof)

Knowing == \A w \in Workers : KnowsSoFar(worker[w])

\* What is held was claimed, by one worker.
HeldApart ==
    /\ \A w \in Workers, p \in Proofs : Holds(worker[w], p) => row[p] \notin {"none", "pending"}
    /\ \A w, v \in Workers, p \in Proofs : Holds(worker[w], p) /\ Holds(worker[v], p) => w = v

ChainInv ==
    /\ \A t \in mempool : t.success => t.hash = t.proof /\ t.proof \in Valid
    /\ \A p \in Proofs : row[p] = "VERIFIED" => Accepted(p)
    /\ \A p \in Proofs : api[p] = "insert" => row[p] = "none"
    /\ OnlyValidProofsAccepted

\* Neither counted as a completed quest nor as a failure.
Uncounted(p) == credited[p] = 0 /\ penalised[p] = 0

\* A held proof is being processed and is not counted until its worker has
\* decided it; it fails once, and after a success only by a late failure.
DecidesOnce(me) ==
    /\ \A p \in me.claimed : row[p] = "processing" /\ Uncounted(p)
    /\ me.step \in Trying => row[me.proof] = "processing" /\ Uncounted(me.proof)
    /\ me.step \in {"markClaimable", "credit"} =>
          row[me.proof] = "VERIFIED" /\ Uncounted(me.proof)
    /\ me.step = "artifacts" => row[me.proof] = "VERIFIED" /\ penalised[me.proof] = 0
    /\ me.step \in Failing =>
          /\ row[me.proof] \in {"processing", "VERIFIED"} /\ penalised[me.proof] = 0
          /\ row[me.proof] = "VERIFIED" \/ credited[me.proof] # 0 => LateFailure
    /\ me.step \in Failed =>
          /\ row[me.proof] = "REJECTED" /\ penalised[me.proof] = 0
          /\ credited[me.proof] # 0 => LateFailure

CountInv ==
    /\ \A w \in Workers : DecidesOnce(worker[w])
    /\ \A p \in Proofs : row[p] \in {"none", "pending"} => Uncounted(p)
    /\ \A p \in Proofs : credited[p] # 0 => Accepted(p)
    /\ CountedOnce

-----------------------------------------------------------------------------
(* What holds unless verdicts are given up *)

\* A worker that holds a proof whose success is under way waits for it, and one
\* that holds an accepted proof goes on to say so.
FollowsChain(w, me) ==
    /\ \A t \in mempool : t.success /\ Holds(me, t.proof) =>
          t.worker = w /\ me.step = "waitTrue" /\ me.proof = t.proof /\ me.tx = "none"
    /\ \A p \in Proofs : Accepted(p) /\ Holds(me, p) =>
          /\ me.step \in {"waitTrue", "markVerified"} \cup Succeeded
          /\ me.proof = p
          /\ me.step = "waitTrue" => me.tx = "mined"

ProofsInv ==
    /\ \A t \in mempool : t.success => row[t.proof] = "processing"
    /\ \A t, u \in mempool : t.success /\ u.success /\ t.proof = u.proof => t = u
    /\ \A p \in Proofs : Accepted(p) => row[p] \in {"processing", "VERIFIED"}

AgreeInv ==
    /\ \A w \in Workers : FollowsChain(w, worker[w])
    /\ ProofsInv

WorkerInv ==
    /\ WorkerTypeOK
    /\ Knowing
    /\ HeldApart
    /\ ChainInv
    /\ CountInv
    /\ ~GivenUp => AgreeInv

-----------------------------------------------------------------------------

LEMMA WorkerInitEstablishesInv == WorkerInit => WorkerInv
<1> SUFFICES ASSUME WorkerInit PROVE WorkerInv
  OBVIOUS
<1>1. WorkerTypeOK
  <2>1. Resting \in Worker
    BY DEF Resting, Worker, Steps
  <2>2. [faults |-> faults, questOf |-> questOf] \in Scenarios
    <3>1. PICK s \in Scenarios : faults = s.faults /\ questOf = s.questOf
      BY DEF WorkerInit
    <3>2. s = [faults |-> s.faults, questOf |-> s.questOf]
      BY WorkerAssumption
    <3> QED BY <3>1, <3>2
  <2>3. MaxSubmissions \in Nat
    BY WorkerAssumption
  <2> QED BY <2>1, <2>2, <2>3 DEF WorkerInit, WorkerTypeOK, Results, QuestRow, ChainQuest
<1>2. questOf \in [Proofs -> Quests]
  BY WorkerAssumption, <1>1 DEF WorkerTypeOK
<1>3. \A p \in Proofs : ~Accepted(p)
  BY <1>2 DEF WorkerInit, Accepted
<1>4. \A w \in Workers : worker[w].step = "idle" /\ worker[w].claimed = {}
  BY DEF WorkerInit, Resting
<1>5. Knowing /\ HeldApart
  BY <1>4 DEF Knowing, KnowsSoFar, HeldApart, Holds, InHand, Trying, Succeeded, Failing, Failed
<1>6. ChainInv
  BY <1>3 DEF ChainInv, OnlyValidProofsAccepted, WorkerInit
<1>7. CountInv
  BY <1>4
  DEF CountInv, DecidesOnce, Uncounted, CountedOnce, Trying, Succeeded, Failing, Failed,
      WorkerInit
<1>8. AgreeInv
  <2>1. \A w \in Workers : FollowsChain(w, worker[w])
    BY <1>3, <1>4
    DEF FollowsChain, Holds, InHand, Trying, Succeeded, Failing, Failed, WorkerInit
  <2>2. ProofsInv
    BY <1>3 DEF ProofsInv, WorkerInit
  <2> QED BY <2>1, <2>2 DEF AgreeInv
<1> QED BY <1>1, <1>5, <1>6, <1>7, <1>8 DEF WorkerInv

LEMMA QuestOfType == WorkerTypeOK => questOf \in [Proofs -> Quests]
BY WorkerAssumption DEF WorkerTypeOK

\* A step of worker w leaves the others as they are.
LEMMA OneWorkerMoves ==
    ASSUME WorkerTypeOK, NEW w \in Workers, NEW new \in Worker,
           worker' = [worker EXCEPT ![w] = new]
    PROVE  /\ worker'[w] = new
           /\ \A v \in Workers \ {w} : worker'[v] = worker[v]
           /\ worker' \in [Workers -> Worker]
BY DEF WorkerTypeOK

\* No verdict is sent but failing ones.
OnlyFailuresSent == mempool \subseteq mempool' /\ \A t \in mempool' \ mempool : ~t.success

\* A worker goes on or gives up and nothing else changes but requests, rows of
\* quests and failing verdicts: what remains to be shown is about this worker.
LEMMA WorkerMoves ==
    ASSUME WorkerInv, WorkerTypeOK',
           NEW w \in Workers, NEW new \in Worker, worker' = [worker EXCEPT ![w] = new],
           UNCHANGED <<inputs, row, chain, credited, penalised>>, OnlyFailuresSent,
           \A p \in Proofs : api'[p] = "insert" => api[p] = "insert",
           \A p \in Proofs : Holds(new, p) => Holds(worker[w], p),
           KnowsSoFar(new),
           DecidesOnce(new),
           ~GivenUp => FollowsChain(w, new)
    PROVE  WorkerInv'
<1>1. /\ worker'[w] = new
      /\ \A v \in Workers \ {w} : worker'[v] = worker[v]
  BY OneWorkerMoves DEF WorkerInv
<1> USE DEF inputs
<1>2. /\ \A p : Accepted(p)' = Accepted(p)
      /\ \A p : Uncounted(p)' = Uncounted(p)
      /\ LateFailure' = LateFailure
      /\ GivenUp' = GivenUp
  BY DEF Accepted, Uncounted, LateFailure, GivenUp
<1>3. \A p \in Proofs, v \in Workers : Holds(worker[v], p)' => Holds(worker[v], p)
  BY <1>1 DEF Holds
<1>4. \A t \in mempool' : t.success => t \in mempool
  BY DEF OnlyFailuresSent
<1>5. Knowing'
  BY <1>1, <1>2 DEF Knowing, KnowsSoFar, WorkerInv
<1>6. HeldApart'
  BY <1>3 DEF HeldApart, WorkerInv
<1>7. ChainInv'
  BY <1>2, <1>4 DEF ChainInv, OnlyValidProofsAccepted, WorkerInv
<1>8. CountInv'
  <2>1. \A v \in Workers \ {w} : DecidesOnce(worker[v])'
    BY <1>1, <1>2 DEF DecidesOnce, WorkerInv, CountInv
  <2>2. DecidesOnce(worker[w])'
    BY <1>1, <1>2 DEF DecidesOnce
  <2> QED BY <1>2, <2>1, <2>2 DEF CountInv, CountedOnce, WorkerInv
<1>9. ASSUME ~GivenUp' PROVE AgreeInv'
  <2>1. ~GivenUp /\ AgreeInv
    BY <1>2, <1>9 DEF WorkerInv
  <2>2. \A v \in Workers \ {w} : FollowsChain(v, worker[v])'
    BY <1>1, <1>2, <1>4, <2>1 DEF AgreeInv, FollowsChain, Holds
  <2>3. FollowsChain(w, worker[w])'
    BY <1>1, <1>2, <1>4, <2>1 DEF FollowsChain, Holds
  <2>4. ProofsInv'
    BY <1>2, <1>4, <2>1 DEF ProofsInv, AgreeInv
  <2> QED BY <2>2, <2>3, <2>4 DEF AgreeInv
<1> QED BY <1>5, <1>6, <1>7, <1>8, <1>9 DEF WorkerInv

-----------------------------------------------------------------------------
(* Types *)

\* A worker that only goes to another step keeps its type, and one that gives up.
LEMMA StepType ==
    ASSUME WorkerTypeOK, NEW w \in Workers
    PROVE  /\ worker[w] \in Worker
           /\ Resting \in Worker
           /\ Resting.step = "idle" /\ Resting.claimed = {}
           /\ \A s \in Steps : [worker[w] EXCEPT !.step = s] \in Worker
<1>1. worker[w] \in Worker
  BY DEF WorkerTypeOK
<1>2. Resting \in Worker /\ Resting.step = "idle" /\ Resting.claimed = {}
  BY DEF Worker, Resting, Steps
<1>3. \A s \in Steps : [worker[w] EXCEPT !.step = s] \in Worker
  BY <1>1 DEF Worker
<1> QED BY <1>1, <1>2, <1>3

LEMMA GoType ==
    ASSUME WorkerTypeOK, NEW w \in Workers, NEW s \in Steps, Go(w, s)
    PROVE  worker' \in [Workers -> Worker]
<1>1. worker' = [worker EXCEPT ![w] = [worker[w] EXCEPT !.step = s]]
  BY DEF Go
<1> QED BY <1>1, StepType, OneWorkerMoves

LEMMA AbortType ==
    ASSUME WorkerTypeOK, NEW w \in Workers, Abort(w)
    PROVE  worker' \in [Workers -> Worker]
BY StepType, OneWorkerMoves DEF Abort

\* Claim, of the row of p
LEMMA ClaimType ==
    ASSUME WorkerTypeOK, NEW w \in Workers, NEW p \in Proofs
    PROVE  [worker[w] EXCEPT !.todo = @ \ {p},
                             !.claimed = IF row[p] = "pending" THEN @ \cup {p} ELSE @,
                             !.step = IF worker[w].todo = {p} THEN "load" ELSE @] \in Worker
<1>1. worker[w] \in Worker
  BY DEF WorkerTypeOK
<1>2. \A todo, claimed \in SUBSET Proofs, s \in Steps :
         [worker[w] EXCEPT !.todo = todo, !.claimed = claimed, !.step = s] \in Worker
  BY <1>1 DEF Worker
<1> DEFINE claimed == IF row[p] = "pending" THEN worker[w].claimed \cup {p}
                      ELSE worker[w].claimed
           s == IF worker[w].todo = {p} THEN "load" ELSE worker[w].step
<1>3. worker[w].todo \ {p} \in SUBSET Proofs /\ claimed \in SUBSET Proofs
  BY <1>1 DEF Worker
<1>4. s \in Steps
  <2>1. "load" \in Steps
    BY DEF Steps
  <2> QED BY <1>1, <2>1 DEF Worker
<1> HIDE DEF claimed, s
<1>5. [worker[w] EXCEPT !.todo = worker[w].todo \ {p}, !.claimed = claimed, !.step = s]
          \in Worker
  BY <1>2, <1>3, <1>4
<1> QED BY <1>5 DEF claimed, s

\* FailRead forgets the receipt of a success.
LEMMA FailReadType ==
    ASSUME WorkerTypeOK, NEW w \in Workers, NEW s \in Steps,
           worker' = [worker EXCEPT ![w].tx = "none", ![w].step = s]
    PROVE  /\ worker' = [worker EXCEPT ![w] = [worker[w] EXCEPT !.tx = "none", !.step = s]]
           /\ [worker[w] EXCEPT !.tx = "none", !.step = s] \in Worker
<1>1. worker[w] \in Worker
  BY DEF WorkerTypeOK
<1>2. [worker[w] EXCEPT !.tx = "none", !.step = s] \in Worker
  BY <1>1 DEF Worker
<1>3. worker' = [worker EXCEPT ![w] = [worker[w] EXCEPT !.tx = "none", !.step = s]]
  BY <1>1 DEF WorkerTypeOK, Worker
<1> QED BY <1>2, <1>3

LEMMA WorkerTypeKept == WorkerInv /\ [WorkerNext]_workerVars => WorkerTypeOK'
<1> SUFFICES ASSUME WorkerInv, [WorkerNext]_workerVars PROVE WorkerTypeOK'
  OBVIOUS
<1>0. WorkerTypeOK /\ MaxSubmissions \in Nat /\ questOf \in [Proofs -> Quests]
  BY QuestOfType, WorkerAssumption DEF WorkerInv
<1>1. Steps = {"idle", "select", "claim", "load", "check", "sendTrue", "waitTrue",
               "markVerified", "markClaimable", "credit", "artifacts", "fail", "sendFalse",
               "waitFalse", "markRejected", "markAccepted", "penalise"}
  BY DEF Steps
<1>2. ASSUME NEW w \in Workers PROVE
        worker[w].step \in InHand => worker[w].proof \in Proofs
  BY DEF WorkerInv, Knowing, KnowsSoFar
<1>3. ASSUME NEW w \in Workers, NEW s, At(w, s), s \in InHand PROVE worker[w].proof \in Proofs
  BY <1>2, <1>3 DEF At
<1>4. CASE UNCHANGED workerVars
  BY <1>0, <1>4 DEF workerVars, WorkerTypeOK
<1>5. ASSUME NEW p \in Proofs, SubmitQuest(p) PROVE WorkerTypeOK'
  <2>1. chain' \in [Quests -> ChainQuest]
    BY <1>0, <1>5 DEF SubmitQuest, WorkerTypeOK, ChainQuest
  <2>2. submissions' \in [Proofs -> 0..MaxSubmissions]
    BY <1>0, <1>5 DEF SubmitQuest, WorkerTypeOK
  <2> QED BY <1>0, <1>5, <2>1, <2>2 DEF SubmitQuest, WorkerTypeOK, inputs
<1>6. ASSUME NEW p \in Proofs, QueueRequest(p) PROVE WorkerTypeOK'
  <2>1. requests' \in [Proofs -> 0..MaxSubmissions]
    BY <1>0, <1>6 DEF QueueRequest, WorkerTypeOK
  <2> QED BY <1>0, <1>6, <2>1 DEF QueueRequest, WorkerTypeOK, inputs, chainVars
<1>7. ASSUME NEW p \in Proofs, QueueStep(p) PROVE WorkerTypeOK'
  <2>1. CASE QueueRead(p)
    BY <1>0, <2>1 DEF QueueRead, WorkerTypeOK, inputs, chainVars, Results
  <2>2. CASE QueueInsert(p)
    BY <1>0, <2>2 DEF QueueInsert, WorkerTypeOK, inputs, chainVars, Results
  <2>3. CASE QueueUpdate(p)
    <3>1. quest' \in [Quests -> QuestRow]
      BY <1>0, <2>3 DEF QueueUpdate, WorkerTypeOK, QuestRow
    <3> QED BY <1>0, <2>3, <3>1 DEF QueueUpdate, WorkerTypeOK, inputs, chainVars
  <2> QED BY <1>7, <2>1, <2>2, <2>3 DEF QueueStep
<1>8. ASSUME NEW t \in mempool, Mine(t) PROVE WorkerTypeOK'
  <2>1. t.proof \in Proofs /\ questOf[t.proof] \in Quests
    BY <1>0 DEF WorkerTypeOK, Verdict
  <2>2. chain' \in [Quests -> ChainQuest]
    <3>1. [chain[questOf[t.proof]] EXCEPT !.status = "Claimable"] \in ChainQuest
      <4>1. chain[questOf[t.proof]] \in ChainQuest
        BY <1>0, <2>1 DEF WorkerTypeOK
      <4> QED BY <4>1 DEF ChainQuest
    <3>2. [status |-> "Accepted", proof |-> NoProof, reserved |-> FALSE] \in ChainQuest
      BY DEF ChainQuest
    <3> QED BY <1>0, <1>8, <2>1, <3>1, <3>2 DEF Mine, WorkerTypeOK
  <2>3. worker' \in [Workers -> Worker]
    <3>1. \A w \in Workers, x \in {"mined", "reverted"} :
             [worker[w] EXCEPT !.tx = x] \in Worker
      BY <1>0 DEF WorkerTypeOK, Worker
    <3> QED BY <1>0, <1>8, <3>1 DEF Mine, WorkerTypeOK
  <2> QED BY <1>0, <1>8, <2>2, <2>3 DEF Mine, WorkerTypeOK, inputs
<1>9. ASSUME NEW w \in Workers, Poll(w) PROVE WorkerTypeOK'
  BY <1>0, <1>1, <1>9, GoType DEF Poll, WorkerTypeOK, inputs, queueVars
<1>10. ASSUME NEW w \in Workers, BatchStep(w) PROVE WorkerTypeOK'
  <2>1. CASE Select(w)
    <3>1. worker' \in [Workers -> Worker]
      <4>1. \A todo \in SUBSET Proofs, s \in {"idle", "claim"} :
               [Resting EXCEPT !.todo = todo, !.step = s] \in Worker
        BY <1>1 DEF Resting, Worker
      <4>2. PICK todo \in SUBSET Proofs :
              worker' = [worker EXCEPT ![w] = [Resting EXCEPT !.todo = todo,
                            !.step = IF todo = {} THEN "idle" ELSE "claim"]]
        BY <2>1 DEF Select
      <4>3. CASE todo = {}
        BY <1>0, <4>1, <4>2, <4>3, OneWorkerMoves
      <4>4. CASE todo # {}
        BY <1>0, <4>1, <4>2, <4>4, OneWorkerMoves
      <4> QED BY <4>3, <4>4
    <3> QED BY <1>0, <2>1, <3>1 DEF Select, WorkerTypeOK, inputs, queueVars
  <2>2. CASE Claim(w)
    <3>1. PICK p \in worker[w].todo :
            /\ row' = IF row[p] = "pending" THEN [row EXCEPT ![p] = "processing"] ELSE row
            /\ worker' = [worker EXCEPT ![w].todo = @ \ {p},
                           ![w].claimed = IF row[p] = "pending" THEN @ \cup {p} ELSE @,
                           ![w].step = IF worker[w].todo = {p} THEN "load" ELSE @]
      BY <2>2 DEF Claim
    <3>2. p \in Proofs
      BY <1>0 DEF WorkerTypeOK, Worker
    <3>3. row' \in [Proofs -> Results]
      BY <1>0, <3>1, <3>2 DEF WorkerTypeOK, Results
    <3>4. worker' \in [Workers -> Worker]
      <4> DEFINE new == [worker[w] EXCEPT !.todo = @ \ {p},
                           !.claimed = IF row[p] = "pending" THEN @ \cup {p} ELSE @,
                           !.step = IF worker[w].todo = {p} THEN "load" ELSE @]
      <4>1. worker' = [worker EXCEPT ![w] = new]
        BY <3>1
      <4>2. new \in Worker
        BY <1>0, <3>2, ClaimType
      <4> QED BY <1>0, <4>1, <4>2, OneWorkerMoves
    <3> QED BY <1>0, <2>2, <3>3, <3>4 DEF Claim, WorkerTypeOK, inputs, queueVars
  <2>3. CASE Load(w)
    <3>1. worker' \in [Workers -> Worker]
      <4>1. \A p \in worker[w].claimed : p \in Proofs /\ quest[questOf[p]].proofTx
                                           \in Proofs \cup {NoProof}
        BY <1>0 DEF WorkerTypeOK, Worker, QuestRow
      <4>2. \A p \in worker[w].claimed :
              [worker[w] EXCEPT !.step = "check", !.claimed = worker[w].claimed \ {p},
                 !.proof = p, !.seenTx = quest[questOf[p]].proofTx, !.tx = "none"] \in Worker
        <5>1. worker[w] \in Worker /\ "check" \in Steps
          BY <1>0, <1>1 DEF WorkerTypeOK
        <5> QED BY <4>1, <5>1 DEF Worker
      <4>3. \A s \in {"idle", "select"} : [Resting EXCEPT !.step = s] \in Worker
        BY <1>1 DEF Resting, Worker
      <4>4. CASE \E p \in worker[w].claimed :
                  worker' = [worker EXCEPT ![w] = [worker[w] EXCEPT !.step = "check",
                     !.claimed = @ \ {p}, !.proof = p, !.seenTx = quest[questOf[p]].proofTx,
                     !.tx = "none"]]
        <5>1. PICK p \in worker[w].claimed :
                worker' = [worker EXCEPT ![w] = [worker[w] EXCEPT !.step = "check",
                   !.claimed = worker[w].claimed \ {p}, !.proof = p,
                   !.seenTx = quest[questOf[p]].proofTx, !.tx = "none"]]
          BY <4>4
        <5> QED BY <1>0, <4>2, <5>1, OneWorkerMoves
      <4>5. CASE worker' = [worker EXCEPT ![w] = [Resting EXCEPT
                            !.step = IF worker[w].proof = NoProof THEN "idle" ELSE "select"]]
        <5>1. CASE worker[w].proof = NoProof
          BY <1>0, <4>3, <4>5, <5>1, OneWorkerMoves
        <5>2. CASE worker[w].proof # NoProof
          BY <1>0, <4>3, <4>5, <5>2, OneWorkerMoves
        <5> QED BY <5>1, <5>2
      <4> QED BY <2>3, <4>4, <4>5 DEF Load
    <3> QED BY <1>0, <2>3, <3>1 DEF Load, WorkerTypeOK, inputs, queueVars
  <2>4. CASE Check(w) \/ WaitTrue(w) \/ Artifacts(w) \/ FailRead(w) \/ WaitFalse(w)
    <3>1. worker' \in [Workers -> Worker]
      <4>1. ASSUME NEW s \in Steps, worker' = [worker EXCEPT ![w].tx = "none", ![w].step = s]
            PROVE  worker' \in [Workers -> Worker]
        BY <1>0, <4>1, FailReadType, OneWorkerMoves
      <4>2. CASE FailRead(w)
        BY <1>0, <1>1, <2>4, <4>1, <4>2, AbortType DEF FailRead
      <4>3. CASE ~FailRead(w)
        BY <1>0, <1>1, <2>4, <4>3, GoType, AbortType DEF Check, WaitTrue, Artifacts, WaitFalse
      <4> QED BY <4>2, <4>3
    <3>2. UNCHANGED restVars
      BY <2>4 DEF Check, WaitTrue, Artifacts, FailRead, WaitFalse
    <3> QED BY <1>0, <3>1, <3>2 DEF restVars, WorkerTypeOK, inputs, queueVars
  <2>5. CASE SendTrue(w)
    <3>1. worker' \in [Workers -> Worker]
      BY <1>0, <1>1, <2>5, GoType DEF SendTrue
    <3>2. mempool' \subseteq Verdict
      <4>1. worker[w].proof \in Proofs
        BY <1>3, <2>5 DEF SendTrue, InHand, Trying
      <4>2. [worker |-> w, proof |-> worker[w].proof, hash |-> worker[w].proof,
             success |-> TRUE] \in Verdict
        BY <4>1 DEF Verdict
      <4>3. \/ mempool' = mempool
            \/ mempool' = mempool \cup {[worker |-> w, proof |-> worker[w].proof,
                                         hash |-> worker[w].proof, success |-> TRUE]}
        BY <2>5 DEF SendTrue
      <4> QED BY <1>0, <4>2, <4>3 DEF WorkerTypeOK
    <3> QED BY <1>0, <2>5, <3>1, <3>2 DEF SendTrue, WorkerTypeOK, inputs, queueVars
  <2>6. CASE SendFalse(w)
    <3>1. worker' \in [Workers -> Worker]
      BY <1>0, <1>1, <2>6, GoType, AbortType DEF SendFalse
    <3>2. mempool' \subseteq Verdict
      <4>1. worker[w].proof \in Proofs
        BY <1>3, <2>6 DEF SendFalse, InHand, Failing
      <4>2. worker[w].seenTx \in Proofs
        BY <2>6 DEF SendFalse, At, WorkerInv, Knowing, KnowsSoFar
      <4>3. [worker |-> w, proof |-> worker[w].proof, hash |-> worker[w].seenTx,
             success |-> FALSE] \in Verdict
        BY <4>1, <4>2 DEF Verdict
      <4>4. \/ mempool' = mempool
            \/ mempool' = mempool \cup {[worker |-> w, proof |-> worker[w].proof,
                                         hash |-> worker[w].seenTx, success |-> FALSE]}
        BY <2>6 DEF SendFalse
      <4> QED BY <1>0, <4>3, <4>4 DEF WorkerTypeOK
    <3> QED BY <1>0, <2>6, <3>1, <3>2 DEF SendFalse, WorkerTypeOK, inputs, queueVars
  <2>7. CASE MarkVerified(w) \/ MarkRejected(w)
    <3>1. worker' \in [Workers -> Worker]
      BY <1>0, <1>1, <2>7, GoType DEF MarkVerified, MarkRejected
    <3>2. row' \in [Proofs -> Results]
      BY <1>0, <2>7 DEF MarkVerified, MarkRejected, WorkerTypeOK, Results
    <3> QED BY <1>0, <2>7, <3>1, <3>2
            DEF MarkVerified, MarkRejected, WorkerTypeOK, inputs, queueVars
  <2>8. CASE MarkClaimable(w) \/ MarkAccepted(w)
    <3>1. worker' \in [Workers -> Worker]
      BY <1>0, <1>1, <2>8, GoType DEF MarkClaimable, MarkAccepted
    <3>2. quest' \in [Quests -> QuestRow]
      <4>1. \A q \in Quests, x \in {"CLAIMABLE", "ACCEPTED"} :
               [quest[q] EXCEPT !.status = x] \in QuestRow
        BY <1>0 DEF WorkerTypeOK, QuestRow
      <4>2. \A q, x : quest' = [quest EXCEPT ![q].status = x]
                        => quest' = [quest EXCEPT ![q] = [quest[q] EXCEPT !.status = x]]
        OBVIOUS
      <4> QED BY <1>0, <2>8, <4>1, <4>2 DEF MarkClaimable, MarkAccepted, WorkerTypeOK
    <3> QED BY <1>0, <2>8, <3>1, <3>2
            DEF MarkClaimable, MarkAccepted, WorkerTypeOK, inputs, queueVars
  <2>9. CASE Credit(w) \/ Penalise(w)
    <3>1. worker' \in [Workers -> Worker]
      BY <1>0, <1>1, <2>9, GoType, AbortType DEF Credit, Penalise
    <3>2. credited' \in [Proofs -> Nat] /\ penalised' \in [Proofs -> Nat]
      BY <1>0, <2>9 DEF Credit, Penalise, WorkerTypeOK
    <3> QED BY <1>0, <2>9, <3>1, <3>2 DEF Credit, Penalise, WorkerTypeOK, inputs, queueVars
  <2> QED BY <1>10, <2>1, <2>2, <2>3, <2>4, <2>5, <2>6, <2>7, <2>8, <2>9 DEF BatchStep
<1>11. ASSUME NEW w \in Workers, DbError(w) PROVE WorkerTypeOK'
  <2>1. worker' \in [Workers -> Worker]
    BY <1>0, <1>1, <1>11, GoType, AbortType DEF DbError
  <2>2. UNCHANGED restVars
    BY <1>11 DEF DbError
  <2> QED BY <1>0, <2>1, <2>2 DEF restVars, WorkerTypeOK, inputs, queueVars
<1>12. ASSUME NEW w \in Workers, Crash(w) PROVE WorkerTypeOK'
  <2>1. worker' \in [Workers -> Worker]
    BY <1>0, <1>12, AbortType DEF Crash
  <2>2. api' \in [Proofs -> {"idle", "read", "insert", "update"}]
    BY <1>0, <1>12 DEF Crash, WorkerTypeOK
  <2> QED BY <1>0, <1>12, <2>1, <2>2 DEF Crash, WorkerTypeOK, inputs
<1> QED
  BY <1>4, <1>5, <1>6, <1>7, <1>8, <1>9, <1>10, <1>11, <1>12 DEF WorkerNext

-----------------------------------------------------------------------------
(* Steps of one worker that leave rows, chain and counters alone *)

\* The process dies or leaves the loop.
LEMMA AbortKeepsInv ==
    ASSUME WorkerInv, WorkerTypeOK', NEW w \in Workers, Abort(w),
           UNCHANGED <<inputs, row, chain, credited, penalised>>, OnlyFailuresSent,
           \A p \in Proofs : api'[p] = "insert" => api[p] = "insert"
    PROVE  WorkerInv'
<1> USE DEF InHand, Trying, Succeeded, Failing, Failed
<1>1. Resting \in Worker /\ Resting.step = "idle" /\ Resting.claimed = {}
  BY StepType DEF WorkerInv
<1>2. \A p \in Proofs : ~Holds(Resting, p)
  BY <1>1 DEF Holds
<1>3. KnowsSoFar(Resting)
  BY <1>1 DEF KnowsSoFar
<1>4. DecidesOnce(Resting)
  BY <1>1 DEF DecidesOnce
<1>5. FollowsChain(w, Resting)
  BY <1>2 DEF FollowsChain, WorkerInv, WorkerTypeOK, Verdict
<1> QED BY <1>1, <1>2, <1>3, <1>4, <1>5, WorkerMoves DEF Abort

\* The worker goes to step s with what it holds.
LEMMA GoKeepsInv ==
    ASSUME WorkerInv, WorkerTypeOK', NEW w \in Workers, NEW s \in Steps, Go(w, s),
           UNCHANGED <<inputs, row, chain, credited, penalised, api>>, OnlyFailuresSent,
           s \in InHand => worker[w].step \in InHand,
           KnowsSoFar([worker[w] EXCEPT !.step = s]),
           DecidesOnce([worker[w] EXCEPT !.step = s]),
           ~GivenUp => FollowsChain(w, [worker[w] EXCEPT !.step = s])
    PROVE  WorkerInv'
<1> DEFINE new == [worker[w] EXCEPT !.step = s]
<1>1. new \in Worker /\ worker' = [worker EXCEPT ![w] = new]
  BY StepType DEF Go, WorkerInv
<1>2. new.step = s /\ new.claimed = worker[w].claimed /\ new.proof = worker[w].proof
  BY StepType DEF Worker, WorkerInv
<1>3. \A p \in Proofs : Holds(new, p) => Holds(worker[w], p)
  BY <1>2 DEF Holds
<1> QED BY <1>1, <1>3, WorkerMoves

\* What the worker of a step knows, with its record and that after Go.
LEMMA StepKnows ==
    ASSUME WorkerInv, NEW w \in Workers, NEW s \in Steps
    PROVE  LET me == worker[w]
               new == [worker[w] EXCEPT !.step = s] IN
           /\ new.step = s
           /\ new.claimed = me.claimed
           /\ new.proof = me.proof
           /\ new.seenTx = me.seenTx
           /\ new.tx = me.tx
           /\ me \in Worker
           /\ KnowsSoFar(me)
           /\ DecidesOnce(me)
           /\ ~GivenUp => FollowsChain(w, me) /\ ProofsInv
BY StepType DEF WorkerInv, Worker, Knowing, CountInv, AgreeInv

LEMMA GoInHand ==
    ASSUME WorkerInv, WorkerTypeOK', NEW w \in Workers, NEW s \in Steps, Go(w, s),
           UNCHANGED <<inputs, row, chain, credited, penalised, api>>, OnlyFailuresSent,
           \/ At(w, "idle") /\ s = "select"
           \/ At(w, "check") /\ s = "sendTrue" /\ worker[w].proof \in Valid
           \/ At(w, "check") /\ s = "fail"
           \/ At(w, "sendTrue") /\ s = "fail"
           \/ At(w, "waitTrue") /\ worker[w].tx = "mined" /\ s = "markVerified"
           \/ At(w, "waitTrue") /\ (worker[w].tx = "reverted" \/ GivenUp) /\ s = "fail"
           \/ At(w, "markVerified") /\ s = "fail" /\ GivenUp
           \/ worker[w].step \in Succeeded /\ s = "fail" /\ LateFailure
           \/ At(w, "markClaimable") /\ s = "credit"
           \/ At(w, "artifacts") /\ s = "load"
           \/ At(w, "sendFalse") /\ s = "waitFalse"
           \/ At(w, "waitFalse") /\ s = "markRejected"
           \/ At(w, "markAccepted") /\ s \in {"load", "penalise"}
    PROVE  WorkerInv'
<1> DEFINE me == worker[w]
           new == [worker[w] EXCEPT !.step = s]
<1>1. /\ new.step = s /\ new.claimed = me.claimed /\ new.proof = me.proof
      /\ new.seenTx = me.seenTx /\ new.tx = me.tx
      /\ me \in Worker /\ KnowsSoFar(me) /\ DecidesOnce(me)
      /\ ~GivenUp => FollowsChain(w, me)
  BY StepKnows
<1> HIDE DEF new
<1> USE DEF At, InHand, Trying, Succeeded, Failing, Failed
<1>2. s \in InHand => me.step \in InHand
  OBVIOUS
<1>3. KnowsSoFar(new)
  BY <1>1 DEF KnowsSoFar
<1>4. DecidesOnce(new)
  BY <1>1 DEF DecidesOnce, Uncounted
<1>5. ASSUME ~GivenUp PROVE FollowsChain(w, new)
  <2>0. ~LateFailure
    BY <1>5 DEF GivenUp
  <2>1. \A p : Holds(new, p) => Holds(me, p)
    BY <1>1, <1>2 DEF Holds
  <2>2. ASSUME NEW t \in mempool, t.success, Holds(new, t.proof) PROVE FALSE
    <3>1. me.step = "waitTrue" /\ me.proof = t.proof /\ me.tx = "none"
      BY <1>1, <1>5, <2>1, <2>2 DEF FollowsChain
    <3> QED BY <1>5, <3>1
  <2>3. ASSUME NEW p \in Proofs, Accepted(p), Holds(new, p)
        PROVE  new.step \in {"waitTrue", "markVerified"} \cup Succeeded /\ new.proof = p
    <3>1. /\ me.step \in {"waitTrue", "markVerified"} \cup Succeeded
          /\ me.proof = p
          /\ me.step = "waitTrue" => me.tx = "mined"
      BY <1>1, <1>5, <2>1, <2>3 DEF FollowsChain
    <3>2. s = "load" => FALSE
      BY <1>1, <2>3, <3>1 DEF Holds, KnowsSoFar
    <3> QED BY <1>1, <1>5, <2>0, <3>1, <3>2
  <2>4. s # "waitTrue"
    OBVIOUS
  <2> QED BY <1>1, <2>2, <2>3, <2>4 DEF FollowsChain
<1> QED BY <1>2, <1>3, <1>4, <1>5, GoKeepsInv DEF new

\* The failure settlement of a proof, from its first query on.
LEMMA FailReadKeepsInv ==
    ASSUME WorkerInv, WorkerTypeOK', NEW w \in Workers, FailRead(w)
    PROVE  WorkerInv'
<1> USE DEF InHand, Trying, Succeeded, Failing, Failed
<1>1. UNCHANGED <<inputs, row, chain, credited, penalised, api>> /\ OnlyFailuresSent
  BY DEF FailRead, restVars, queueVars, OnlyFailuresSent
<1>2. CASE Abort(w)
  BY <1>1, <1>2, AbortKeepsInv
<1>3. ASSUME NEW s \in {"sendFalse", "markRejected"},
             s = "sendFalse" => worker[w].seenTx # NoProof,
             worker' = [worker EXCEPT ![w].tx = "none", ![w].step = s]
      PROVE  WorkerInv'
  <2> DEFINE new == [worker[w] EXCEPT !.tx = "none", !.step = s]
  <2>1. /\ worker[w] \in Worker /\ KnowsSoFar(worker[w]) /\ DecidesOnce(worker[w])
        /\ ~GivenUp => FollowsChain(w, worker[w])
        /\ worker[w].step = "fail"
    BY StepKnows DEF Steps, FailRead, At
  <2>2. worker' = [worker EXCEPT ![w] = new] /\ new \in Worker
    <3>1. s \in Steps
      BY DEF Steps
    <3> QED BY <1>3, <3>1, FailReadType DEF WorkerInv
  <2>3. /\ new.step = s /\ new.claimed = worker[w].claimed /\ new.proof = worker[w].proof
        /\ new.seenTx = worker[w].seenTx
    BY <2>1 DEF Worker
  <2> HIDE DEF new
  <2>4. \A p \in Proofs : Holds(new, p) <=> Holds(worker[w], p)
    BY <2>1, <2>3 DEF Holds
  <2>5. KnowsSoFar(new)
    BY <1>3, <2>1, <2>3 DEF KnowsSoFar, Worker
  <2>6. DecidesOnce(new)
    BY <2>1, <2>3 DEF DecidesOnce
  <2>7. ASSUME ~GivenUp PROVE FollowsChain(w, new)
    BY <2>1, <2>4, <2>7 DEF FollowsChain, WorkerInv, WorkerTypeOK, Verdict
  <2> QED BY <1>1, <2>2, <2>4, <2>5, <2>6, <2>7, WorkerMoves
<1>4. \/ Abort(w)
      \/ \E s \in {"sendFalse", "markRejected"} :
            /\ s = "sendFalse" => worker[w].seenTx # NoProof
            /\ worker' = [worker EXCEPT ![w].tx = "none", ![w].step = s]
  BY DEF FailRead
<1> QED BY <1>2, <1>3, <1>4

LEMMA SelectKeepsInv ==
    ASSUME WorkerInv, WorkerTypeOK', NEW w \in Workers, Select(w)
    PROVE  WorkerInv'
<1>1. PICK todo \in SUBSET Proofs :
        worker' = [worker EXCEPT ![w] = [Resting EXCEPT !.todo = todo,
                      !.step = IF todo = {} THEN "idle" ELSE "claim"]]
  BY DEF Select
<1> DEFINE new == [Resting EXCEPT !.todo = todo, !.step = IF todo = {} THEN "idle" ELSE "claim"]
<1>2. new \in Worker /\ new.step \in {"idle", "claim"} /\ new.claimed = {}
  BY DEF Resting, Worker, Steps
<1>3. UNCHANGED <<inputs, row, chain, mempool, credited, penalised, api>>
  BY DEF Select, queueVars
<1> HIDE DEF new
<1> USE DEF InHand, Trying, Succeeded, Failing, Failed, OnlyFailuresSent
<1>4. \A p \in Proofs : ~Holds(new, p)
  BY <1>2 DEF Holds
<1>5. KnowsSoFar(new)
  BY <1>2 DEF KnowsSoFar
<1>6. DecidesOnce(new)
  BY <1>2 DEF DecidesOnce
<1>7. FollowsChain(w, new)
  BY <1>2, <1>4 DEF FollowsChain, WorkerInv, WorkerTypeOK, Verdict
<1> QED BY <1>1, <1>2, <1>3, <1>4, <1>5, <1>6, <1>7, WorkerMoves DEF new

\* The proof in hand comes from the batch; the one before is left.
LEMMA LoadKeepsInv ==
    ASSUME WorkerInv, WorkerTypeOK', NEW w \in Workers, Load(w)
    PROVE  WorkerInv'
<1> USE DEF InHand, Trying, Succeeded, Failing, Failed, OnlyFailuresSent
<1>0. UNCHANGED <<inputs, row, chain, mempool, credited, penalised, api>>
  BY DEF Load, queueVars
<1>1. ASSUME NEW p \in worker[w].claimed,
             worker' = [worker EXCEPT ![w] = [worker[w] EXCEPT !.step = "check",
                !.claimed = @ \ {p}, !.proof = p, !.seenTx = quest[questOf[p]].proofTx,
                !.tx = "none"]]
      PROVE  WorkerInv'
  <2> DEFINE new == [worker[w] EXCEPT !.step = "check", !.claimed = @ \ {p}, !.proof = p,
                       !.seenTx = quest[questOf[p]].proofTx, !.tx = "none"]
  <2>1. /\ worker[w] \in Worker /\ KnowsSoFar(worker[w])
        /\ DecidesOnce(worker[w])
        /\ ~GivenUp => FollowsChain(w, worker[w]) /\ ProofsInv
        /\ worker[w].step = "load"
    BY StepKnows DEF Steps, Load, At
  <2>2. p \in Proofs /\ quest[questOf[p]].proofTx \in Proofs \cup {NoProof}
    BY <2>1, QuestOfType DEF Worker, WorkerInv, WorkerTypeOK, QuestRow
  <2>3. /\ new.step = "check" /\ new.claimed = worker[w].claimed \ {p} /\ new.proof = p
        /\ new.tx = "none" /\ new \in Worker
    BY <2>1, <2>2 DEF Worker, Steps
  <2> HIDE DEF new
  <2>4. \A x \in Proofs : Holds(new, x) => Holds(worker[w], x)
    BY <2>3 DEF Holds
  <2>5. KnowsSoFar(new)
    BY <2>2, <2>3 DEF KnowsSoFar
  <2>6. DecidesOnce(new)
    BY <2>1, <2>3 DEF DecidesOnce
  <2>7. ASSUME ~GivenUp PROVE FollowsChain(w, new)
    BY <2>1, <2>4, <2>7 DEF FollowsChain, WorkerInv, WorkerTypeOK, Verdict
  <2> QED BY <1>0, <1>1, <2>3, <2>4, <2>5, <2>6, <2>7, WorkerMoves DEF new
<1>2. ASSUME NEW s \in {"idle", "select"},
             worker' = [worker EXCEPT ![w] = [Resting EXCEPT !.step = s]]
      PROVE  WorkerInv'
  <2> DEFINE new == [Resting EXCEPT !.step = s]
  <2>1. new \in Worker /\ new.step = s /\ new.claimed = {}
    BY DEF Resting, Worker, Steps
  <2> HIDE DEF new
  <2>2. \A p \in Proofs : ~Holds(new, p)
    BY <2>1 DEF Holds
  <2>3. KnowsSoFar(new)
    BY <2>1 DEF KnowsSoFar
  <2>4. DecidesOnce(new)
    BY <2>1 DEF DecidesOnce
  <2>5. FollowsChain(w, new)
    BY <2>2 DEF FollowsChain, WorkerInv, WorkerTypeOK, Verdict
  <2> QED BY <1>0, <1>2, <2>1, <2>2, <2>3, <2>4, <2>5, WorkerMoves DEF new
<1> QED BY <1>1, <1>2 DEF Load

\* A pending row is held by nobody and becomes that of w.
LEMMA ClaimKeepsInv ==
    ASSUME WorkerInv, WorkerTypeOK', NEW w \in Workers, Claim(w)
    PROVE  WorkerInv'
<1> USE DEF InHand, Trying, Succeeded, Failing, Failed, OnlyFailuresSent
<1>1. PICK p \in worker[w].todo :
        /\ row' = IF row[p] = "pending" THEN [row EXCEPT ![p] = "processing"] ELSE row
        /\ worker' = [worker EXCEPT ![w].todo = @ \ {p},
                       ![w].claimed = IF row[p] = "pending" THEN @ \cup {p} ELSE @,
                       ![w].step = IF worker[w].todo = {p} THEN "load" ELSE @]
  BY DEF Claim
<1> DEFINE new == [worker[w] EXCEPT !.todo = @ \ {p},
                     !.claimed = IF row[p] = "pending" THEN @ \cup {p} ELSE @,
                     !.step = IF worker[w].todo = {p} THEN "load" ELSE @]
<1>2. /\ worker[w] \in Worker /\ KnowsSoFar(worker[w]) /\ worker[w].step = "claim"
      /\ DecidesOnce(worker[w])
      /\ ~GivenUp => FollowsChain(w, worker[w]) /\ ProofsInv
  BY StepKnows DEF Steps, Claim, At
<1>3. p \in Proofs
  BY <1>2 DEF Worker
<1>4. new \in Worker /\ worker' = [worker EXCEPT ![w] = new]
  BY <1>1, <1>3, ClaimType DEF WorkerInv
<1>5. /\ new.step \in {"claim", "load"}
      /\ new.claimed = IF row[p] = "pending" THEN worker[w].claimed \cup {p}
                       ELSE worker[w].claimed
  BY <1>2 DEF Worker
<1> HIDE DEF new
<1>6. UNCHANGED <<faults, questOf, chain, mempool, credited, penalised, api>>
  BY DEF Claim, queueVars, inputs
<1>7. CASE row[p] # "pending"
  <2>1. UNCHANGED <<inputs, row, chain, mempool, credited, penalised, api>>
    BY <1>1, <1>6, <1>7 DEF inputs
  <2>2. \A x \in Proofs : Holds(new, x) => Holds(worker[w], x)
    BY <1>5, <1>7 DEF Holds
  <2>3. KnowsSoFar(new)
    BY <1>5 DEF KnowsSoFar
  <2>4. DecidesOnce(new)
    BY <1>2, <1>5, <1>7 DEF DecidesOnce
  <2>5. ASSUME ~GivenUp PROVE FollowsChain(w, new)
    BY <1>2, <2>2, <2>5 DEF FollowsChain, WorkerInv, WorkerTypeOK, Verdict
  <2> QED BY <1>4, <2>1, <2>2, <2>3, <2>4, <2>5, WorkerMoves
<1>8. CASE row[p] = "pending"
  <2>1. row \in [Proofs -> Results] /\ row' = [row EXCEPT ![p] = "processing"]
    BY <1>1, <1>8 DEF WorkerInv, WorkerTypeOK
  <2>2. \A x \in Proofs \ {p} : row'[x] = row[x]
    BY <2>1
  <2>3. row'[p] = "processing"
    BY <1>3, <2>1
  <2>4. worker'[w] = new /\ \A v \in Workers \ {w} : worker'[v] = worker[v]
    BY <1>4, OneWorkerMoves DEF WorkerInv
  <2>5. \A v \in Workers : ~Holds(worker[v], p)
    BY <1>3, <1>8 DEF WorkerInv, HeldApart
  <2>6. \A x : Accepted(x)' = Accepted(x)
    BY <1>6 DEF Accepted
  <2>7. \A x \in Proofs \ {p}, v \in Workers : Holds(worker[v], x)' => Holds(worker[v], x)
    BY <1>5, <2>4 DEF Holds
  <2>8. \A v \in Workers : Holds(worker[v], p)' => v = w
    BY <2>4, <2>5 DEF Holds
  <2>9. Knowing'
    <3>1. KnowsSoFar(worker[w])'
      BY <1>5, <2>4 DEF KnowsSoFar
    <3>2. \A v \in Workers \ {w} : KnowsSoFar(worker[v])'
      BY <2>4, <2>6 DEF KnowsSoFar, WorkerInv, Knowing
    <3> QED BY <3>1, <3>2 DEF Knowing
  <2>10. HeldApart'
    BY <2>2, <2>3, <2>7, <2>8 DEF HeldApart, WorkerInv
  <2>11. ChainInv'
    BY <1>6, <1>8, <2>2, <2>3, <2>6 DEF ChainInv, OnlyValidProofsAccepted, WorkerInv
  <2>12. CountInv'
    <3>1. \A x \in Proofs : Uncounted(x)' = Uncounted(x)
      BY <1>6 DEF Uncounted
    <3>2. LateFailure' = LateFailure
      BY <1>6 DEF LateFailure
    <3>3. ASSUME NEW v \in Workers \ {w} PROVE DecidesOnce(worker[v])'
      <4>1. worker'[v] = worker[v] /\ DecidesOnce(worker[v]) /\ KnowsSoFar(worker[v])
        BY <2>4 DEF CountInv, WorkerInv, Knowing
      <4>2. worker[v].claimed \subseteq Proofs \ {p}
        BY <2>5 DEF Holds, WorkerInv, WorkerTypeOK, Worker
      <4>3. worker[v].step \in InHand => worker[v].proof \in Proofs \ {p}
        BY <2>5, <4>1 DEF Holds, KnowsSoFar
      <4> QED BY <1>6, <2>2, <3>1, <3>2, <4>1, <4>2, <4>3 DEF DecidesOnce
    <3>4. DecidesOnce(worker[w])'
      <4>1. \A x \in new.claimed :
              x \in Proofs /\ Uncounted(x) /\ (x = p \/ row[x] = "processing")
        BY <1>2, <1>3, <1>5, <1>8 DEF DecidesOnce, Worker, WorkerInv, CountInv
      <4> QED BY <1>5, <2>2, <2>3, <2>4, <3>1, <4>1 DEF DecidesOnce
    <3>5. \A x \in Proofs : row'[x] \in {"none", "pending"} => Uncounted(x)'
      BY <2>2, <2>3, <3>1 DEF WorkerInv, CountInv
    <3> QED BY <1>6, <2>6, <3>2, <3>3, <3>4, <3>5 DEF CountInv, CountedOnce, WorkerInv
  <2>13. ASSUME ~GivenUp' PROVE AgreeInv'
    <3>1. ~GivenUp /\ AgreeInv
      BY <1>6, <2>13 DEF GivenUp, LateFailure, WorkerInv
    <3>2. ~Accepted(p) /\ \A t \in mempool : t.success => t.proof # p
      BY <1>3, <1>8, <3>1 DEF AgreeInv, ProofsInv
    <3>3. ASSUME NEW v \in Workers PROVE FollowsChain(v, worker[v])'
      <4>1. FollowsChain(v, worker[v])
        BY <3>1 DEF AgreeInv
      <4>2. CASE v # w
        BY <1>6, <2>4, <2>6, <4>1, <4>2 DEF FollowsChain, Holds
      <4>3. CASE v = w
        <5>1. \A t \in mempool : t.success => ~Holds(new, t.proof)
          BY <1>2, <2>4, <2>7, <3>1, <3>2 DEF FollowsChain, WorkerInv, WorkerTypeOK, Verdict
        <5>2. \A x \in Proofs : Accepted(x) => ~Holds(new, x)
          BY <1>2, <2>4, <2>7, <3>1, <3>2 DEF FollowsChain
        <5> QED BY <1>6, <2>4, <2>6, <4>3, <5>1, <5>2 DEF FollowsChain
      <4> QED BY <4>2, <4>3
    <3>4. ProofsInv'
      BY <1>6, <1>8, <2>2, <2>3, <2>6, <3>1, <3>2
      DEF ProofsInv, AgreeInv, WorkerInv, WorkerTypeOK, Verdict
    <3> QED BY <3>3, <3>4 DEF AgreeInv
  <2> QED BY <2>9, <2>10, <2>11, <2>12, <2>13 DEF WorkerInv
<1> QED BY <1>7, <1>8

-----------------------------------------------------------------------------
(* Verdicts that are sent, rows that are decided and counters *)

\* A success is sent by the one worker that holds its proof.
LEMMA SendTrueKeepsInv ==
    ASSUME WorkerInv, WorkerTypeOK', NEW w \in Workers, SendTrue(w)
    PROVE  WorkerInv'
<1> USE DEF InHand, Trying, Succeeded, Failing, Failed
<1> DEFINE p == worker[w].proof
           t == [worker |-> w, proof |-> p, hash |-> p, success |-> TRUE]
<1>1. UNCHANGED <<faults, questOf, row, chain, credited, penalised, api>>
  BY DEF SendTrue, queueVars, inputs
<1>2. At(w, "sendTrue")
  BY DEF SendTrue
<1>3. ASSUME Go(w, "fail"), UNCHANGED mempool PROVE WorkerInv'
  BY <1>1, <1>2, <1>3, GoInHand DEF Steps, inputs, OnlyFailuresSent
<1>4. ASSUME NEW s \in {"waitTrue", "fail"}, s = "fail" => GivenUp,
             mempool' = mempool \cup {t}, Go(w, s)
      PROVE  WorkerInv'
  <2> DEFINE new == [worker[w] EXCEPT !.step = s]
  <2>0. s \in Steps
    BY DEF Steps
  <2>1. /\ new.step = s /\ new.claimed = worker[w].claimed /\ new.proof = p
        /\ new.tx = worker[w].tx /\ worker[w] \in Worker /\ KnowsSoFar(worker[w])
        /\ DecidesOnce(worker[w])
        /\ ~GivenUp => FollowsChain(w, worker[w]) /\ ProofsInv
    BY <2>0, StepKnows
  <2>2. worker'[w] = new /\ \A v \in Workers \ {w} : worker'[v] = worker[v]
    BY <1>4, <2>0, OneWorkerMoves, StepType DEF Go, WorkerInv
  <2>3. /\ worker[w].step = "sendTrue" /\ worker[w].tx = "none"
        /\ p \in Proofs /\ p \in Valid /\ p \notin worker[w].claimed
    BY <1>2, <2>1 DEF At, KnowsSoFar
  <2>4. t.success /\ t.proof = p /\ t.hash = p /\ t.worker = w
    OBVIOUS
  <2> HIDE DEF new, t
  <2>5. \A x : Accepted(x)' = Accepted(x)
    BY <1>1 DEF Accepted
  <2>6. \A v \in Workers, x \in Proofs : Holds(worker[v], x)' <=> Holds(worker[v], x)
    BY <2>1, <2>2, <2>3 DEF Holds
  <2>7. Knowing'
    <3>1. KnowsSoFar(worker[w])'
      BY <2>1, <2>2, <2>3 DEF KnowsSoFar
    <3>2. \A v \in Workers \ {w} : KnowsSoFar(worker[v])'
      BY <2>2, <2>5 DEF KnowsSoFar, WorkerInv, Knowing
    <3> QED BY <3>1, <3>2 DEF Knowing
  <2>8. HeldApart'
    BY <1>1, <2>6 DEF HeldApart, WorkerInv
  <2>9. ChainInv'
    BY <1>1, <1>4, <2>3, <2>4, <2>5 DEF ChainInv, OnlyValidProofsAccepted, WorkerInv
  <2>10. row[p] = "processing" /\ Uncounted(p)
    BY <2>1, <2>3 DEF DecidesOnce
  <2>11. CountInv'
    <3>1. /\ \A x : Uncounted(x)' = Uncounted(x)
          /\ LateFailure' = LateFailure
      BY <1>1 DEF Uncounted, LateFailure
    <3>2. \A v \in Workers \ {w} : DecidesOnce(worker[v])'
      BY <1>1, <2>2, <3>1 DEF DecidesOnce, WorkerInv, CountInv
    <3>3. DecidesOnce(worker[w])'
      BY <1>1, <2>1, <2>2, <2>3, <2>10, <3>1 DEF DecidesOnce, Uncounted
    <3> QED BY <1>1, <2>5, <3>1, <3>2, <3>3 DEF CountInv, CountedOnce, WorkerInv
  <2>12. ASSUME ~GivenUp' PROVE AgreeInv'
    <3>1. ~GivenUp /\ AgreeInv /\ s = "waitTrue"
      BY <1>1, <1>4, <2>12 DEF GivenUp, LateFailure, WorkerInv
    <3>2. \A u \in mempool : u.success => u.proof \in Proofs /\ ~Holds(worker[w], u.proof)
      BY <2>1, <2>3, <3>1 DEF FollowsChain, WorkerInv, WorkerTypeOK, Verdict
    <3>3. \A x \in Proofs : Accepted(x) => ~Holds(worker[w], x)
      BY <2>1, <2>3, <3>1 DEF FollowsChain
    <3>4. Holds(worker[w], p)
      BY <2>3 DEF Holds
    <3>5. ASSUME NEW v \in Workers PROVE FollowsChain(v, worker[v])'
      <4>1. FollowsChain(v, worker[v])
        BY <3>1 DEF AgreeInv
      <4>2. CASE v # w
        <5>1. ~Holds(worker[v], p)
          BY <2>3, <3>4, <4>2 DEF WorkerInv, HeldApart
        <5> QED BY <1>4, <2>2, <2>4, <2>5, <4>1, <4>2, <5>1 DEF FollowsChain
      <4>3. CASE v = w
        <5>1. \A u \in mempool : u.success => ~Holds(new, u.proof)
          BY <2>2, <2>6, <3>2
        <5>2. \A x \in Proofs : Accepted(x) => ~Holds(new, x)
          BY <2>2, <2>6, <3>3
        <5> QED BY <1>4, <2>1, <2>2, <2>3, <2>4, <2>5, <3>1, <4>3, <5>1, <5>2 DEF FollowsChain
      <4> QED BY <4>2, <4>3
    <3>6. ProofsInv'
      <4>1. \A u \in mempool : u.success => u.proof # p
        BY <3>2, <3>4
      <4> QED BY <1>1, <1>4, <2>4, <2>5, <2>10, <3>1, <4>1 DEF ProofsInv, AgreeInv
    <3> QED BY <3>5, <3>6 DEF AgreeInv
  <2> QED BY <2>7, <2>8, <2>9, <2>11, <2>12 DEF WorkerInv
<1>5. \/ Go(w, "fail") /\ UNCHANGED mempool
      \/ \E s \in {"waitTrue", "fail"} :
            (s = "fail" => GivenUp) /\ mempool' = mempool \cup {t} /\ Go(w, s)
  BY DEF SendTrue, GivenUp, LateFailure
<1> QED BY <1>3, <1>4, <1>5

\* A failing verdict proves nothing accepted.
LEMMA SendFalseKeepsInv ==
    ASSUME WorkerInv, WorkerTypeOK', NEW w \in Workers, SendFalse(w)
    PROVE  WorkerInv'
<1>1. UNCHANGED <<inputs, row, chain, credited, penalised, api>>
  BY DEF SendFalse, queueVars, inputs
<1>2. OnlyFailuresSent
  <2> DEFINE t == [worker |-> w, proof |-> worker[w].proof, hash |-> worker[w].seenTx,
                   success |-> FALSE]
  <2>1. mempool' = mempool \/ mempool' = mempool \cup {t}
    BY DEF SendFalse
  <2> QED BY <2>1 DEF OnlyFailuresSent
<1>3. CASE Abort(w)
  BY <1>1, <1>2, <1>3, AbortKeepsInv
<1>4. CASE Go(w, "waitFalse")
  <2>1. At(w, "sendFalse")
    BY DEF SendFalse
  <2> QED BY <1>1, <1>2, <1>4, <2>1, GoInHand DEF Steps
<1> QED BY <1>3, <1>4 DEF SendFalse

\* The worker that holds a proof decides its row, once.
LEMMA DecisionKeepsInv ==
    ASSUME WorkerInv, WorkerTypeOK', NEW w \in Workers, MarkVerified(w) \/ MarkRejected(w)
    PROVE  WorkerInv'
<1> USE DEF InHand, Trying, Succeeded, Failing, Failed
<1> DEFINE p == worker[w].proof
<1>1. UNCHANGED <<faults, questOf, mempool, chain, credited, penalised, api>>
  BY DEF MarkVerified, MarkRejected, queueVars, inputs
<1>2. PICK d \in {"VERIFIED", "REJECTED"}, s \in {"markClaimable", "markAccepted"} :
        /\ row' = [row EXCEPT ![p] = d]
        /\ Go(w, s)
        /\ \/ d = "VERIFIED" /\ s = "markClaimable" /\ worker[w].step = "markVerified"
           \/ d = "REJECTED" /\ s = "markAccepted" /\ worker[w].step = "markRejected"
  BY DEF MarkVerified, MarkRejected, At
<1> DEFINE new == [worker[w] EXCEPT !.step = s]
<1>3. /\ new.step = s /\ new.claimed = worker[w].claimed /\ new.proof = p
      /\ worker[w] \in Worker /\ KnowsSoFar(worker[w])
      /\ DecidesOnce(worker[w])
      /\ ~GivenUp => FollowsChain(w, worker[w]) /\ ProofsInv
  BY StepKnows DEF Steps
<1>4. worker'[w] = new /\ \A v \in Workers \ {w} : worker'[v] = worker[v]
  <2>1. s \in Steps
    BY DEF Steps
  <2> QED BY <1>2, <2>1, OneWorkerMoves, StepType DEF Go, WorkerInv
<1> HIDE DEF new
<1>5. p \in Proofs /\ p \notin worker[w].claimed
  BY <1>2, <1>3 DEF KnowsSoFar
<1>6. row'[p] = d /\ \A x \in Proofs \ {p} : row'[x] = row[x]
  BY <1>2, <1>5 DEF WorkerInv, WorkerTypeOK
<1>7. Holds(worker[w], p) /\ \A v \in Workers \ {w} : ~Holds(worker[v], p)
  BY <1>2, <1>5 DEF Holds, WorkerInv, HeldApart
<1>8. \A x : Accepted(x)' = Accepted(x)
  BY <1>1 DEF Accepted
<1>9. \A v \in Workers, x \in Proofs : Holds(worker[v], x)' <=> Holds(worker[v], x)
  BY <1>2, <1>3, <1>4 DEF Holds
<1>10. Knowing'
  <2>1. KnowsSoFar(worker[w])'
    BY <1>2, <1>3, <1>4, <1>5 DEF KnowsSoFar
  <2>2. \A v \in Workers \ {w} : KnowsSoFar(worker[v])'
    BY <1>4, <1>8 DEF KnowsSoFar, WorkerInv, Knowing
  <2> QED BY <2>1, <2>2 DEF Knowing
<1>11. HeldApart'
  BY <1>6, <1>9 DEF HeldApart, WorkerInv
<1>12. ChainInv'
  <2>1. d = "VERIFIED" => Accepted(p)
    BY <1>2, <1>3 DEF KnowsSoFar
  <2>2. api[p] # "insert"
    BY <1>5, <1>7 DEF WorkerInv, HeldApart, ChainInv
  <2> QED BY <1>1, <1>6, <1>8, <2>1, <2>2 DEF ChainInv, OnlyValidProofsAccepted, WorkerInv
<1>13. /\ \A x \in Proofs : Uncounted(x)' = Uncounted(x)
       /\ LateFailure' = LateFailure
       /\ GivenUp' = GivenUp
  BY <1>1 DEF Uncounted, LateFailure, GivenUp
<1>14. CountInv'
  <2>1. DecidesOnce(worker[w])'
    <3>1. \A x \in worker[w].claimed : x \in Proofs \ {p}
      BY <1>3, <1>5 DEF Worker
    <3> QED BY <1>1, <1>2, <1>3, <1>4, <1>6, <1>13, <3>1 DEF DecidesOnce, Uncounted
  <2>2. ASSUME NEW v \in Workers \ {w} PROVE DecidesOnce(worker[v])'
    <3>1. worker'[v] = worker[v] /\ DecidesOnce(worker[v]) /\ KnowsSoFar(worker[v])
      BY <1>4 DEF CountInv, WorkerInv, Knowing
    <3>2. worker[v].claimed \subseteq Proofs \ {p}
      BY <1>7 DEF Holds, WorkerInv, WorkerTypeOK, Worker
    <3>3. worker[v].step \in InHand => worker[v].proof \in Proofs \ {p}
      BY <1>7, <3>1 DEF Holds, KnowsSoFar
    <3> QED BY <1>1, <1>6, <1>13, <3>1, <3>2, <3>3 DEF DecidesOnce
  <2>3. \A x \in Proofs : row'[x] \in {"none", "pending"} => Uncounted(x)'
    BY <1>6, <1>13 DEF WorkerInv, CountInv
  <2> QED BY <1>1, <1>8, <1>13, <2>1, <2>2, <2>3 DEF CountInv, CountedOnce, WorkerInv
<1>15. ASSUME ~GivenUp' PROVE AgreeInv'
  <2>1. ~GivenUp /\ AgreeInv
    BY <1>13, <1>15 DEF WorkerInv
  <2>2. \A t \in mempool : t.success => t.proof \in Proofs /\ ~Holds(worker[w], t.proof)
    BY <1>2, <1>3, <2>1 DEF FollowsChain, WorkerInv, WorkerTypeOK, Verdict
  <2>3. \A v \in Workers : FollowsChain(v, worker[v])'
    <3>1. \A v \in Workers \ {w} : FollowsChain(v, worker[v])'
      BY <1>1, <1>4, <1>8, <2>1 DEF FollowsChain, AgreeInv
    <3>2. FollowsChain(w, worker[w])'
      <4>1. \A t \in mempool : t.success => ~Holds(new, t.proof)
        BY <1>4, <1>9, <2>2
      <4>2. \A x \in Proofs : Accepted(x) /\ Holds(new, x) => x = p /\ s = "markClaimable"
        BY <1>2, <1>3, <1>4, <1>9, <2>1 DEF FollowsChain
      <4> QED BY <1>1, <1>3, <1>4, <1>8, <4>1, <4>2 DEF FollowsChain
    <3> QED BY <3>1, <3>2
  <2>4. ProofsInv'
    <3>1. \A t \in mempool : t.success => t.proof # p
      BY <1>7, <2>2
    <3>2. Accepted(p) => d = "VERIFIED"
      BY <1>2, <1>3, <1>5, <1>7, <2>1 DEF FollowsChain
    <3> QED BY <1>1, <1>6, <1>8, <2>1, <2>2, <3>1, <3>2 DEF ProofsInv, AgreeInv
  <2> QED BY <2>3, <2>4 DEF AgreeInv
<1> QED BY <1>10, <1>11, <1>12, <1>14, <1>15 DEF WorkerInv

\* The record of the player counts a proof once it is decided.
LEMMA CountingKeepsInv ==
    ASSUME WorkerInv, WorkerTypeOK', NEW w \in Workers, Credit(w) \/ Penalise(w)
    PROVE  WorkerInv'
<1> USE DEF InHand, Trying, Succeeded, Failing, Failed
<1>1. UNCHANGED <<faults, questOf, mempool, chain, row, api>>
  BY DEF Credit, Penalise, queueVars, inputs
<1>2. worker[w].step \in {"credit", "penalise"}
  BY DEF Credit, Penalise, At
<1>3. PICK new \in Worker :
        /\ worker' = [worker EXCEPT ![w] = new]
        /\ \/ new.step = "artifacts" /\ worker[w].step = "credit"
                /\ new.claimed = worker[w].claimed /\ new.proof = worker[w].proof
           \/ new.step = "load" /\ worker[w].step = "penalise"
                /\ new.claimed = worker[w].claimed
           \/ new.step = "idle" /\ new.claimed = {}
  <2>1. CASE At(w, "credit") /\ Go(w, "artifacts")
    <3> DEFINE nxt == [worker[w] EXCEPT !.step = "artifacts"]
    <3>1. /\ nxt \in Worker /\ nxt.step = "artifacts"
          /\ nxt.claimed = worker[w].claimed /\ nxt.proof = worker[w].proof
      <4>1. worker[w] \in Worker /\ "artifacts" \in Steps
        BY DEF WorkerInv, WorkerTypeOK, Steps
      <4> QED BY <4>1 DEF Worker
    <3>2. worker' = [worker EXCEPT ![w] = nxt] /\ worker[w].step = "credit"
      BY <2>1 DEF Go, At
    <3> QED BY <3>1, <3>2
  <2>2. CASE At(w, "penalise") /\ Go(w, "load")
    <3> DEFINE nxt == [worker[w] EXCEPT !.step = "load"]
    <3>1. /\ nxt \in Worker /\ nxt.step = "load"
          /\ nxt.claimed = worker[w].claimed /\ nxt.proof = worker[w].proof
      <4>1. worker[w] \in Worker /\ "load" \in Steps
        BY DEF WorkerInv, WorkerTypeOK, Steps
      <4> QED BY <4>1 DEF Worker
    <3>2. worker' = [worker EXCEPT ![w] = nxt] /\ worker[w].step = "penalise"
      BY <2>2 DEF Go, At
    <3> QED BY <3>1, <3>2
  <2>3. CASE Abort(w)
    BY <2>3, StepType DEF Abort, WorkerInv
  <2> QED BY <2>1, <2>2, <2>3 DEF Credit, Penalise
<1>4. worker'[w] = new /\ \A v \in Workers \ {w} : worker'[v] = worker[v]
  BY <1>3, OneWorkerMoves DEF WorkerInv
<1>5. /\ worker[w] \in Worker /\ KnowsSoFar(worker[w])
      /\ DecidesOnce(worker[w])
      /\ ~GivenUp => FollowsChain(w, worker[w]) /\ ProofsInv
  BY StepKnows DEF Steps
<1>6. \A x : Accepted(x)' = Accepted(x)
  BY <1>1 DEF Accepted
<1>7. \A v \in Workers, x \in Proofs : Holds(worker[v], x)' => Holds(worker[v], x)
  BY <1>2, <1>3, <1>4 DEF Holds
<1>8. Knowing'
  <2>1. KnowsSoFar(worker[w])'
    BY <1>2, <1>3, <1>4, <1>5 DEF KnowsSoFar
  <2>2. \A v \in Workers \ {w} : KnowsSoFar(worker[v])'
    BY <1>4, <1>6 DEF KnowsSoFar, WorkerInv, Knowing
  <2> QED BY <2>1, <2>2 DEF Knowing
<1>9. HeldApart'
  BY <1>1, <1>7 DEF HeldApart, WorkerInv
<1>10. ChainInv'
  BY <1>1, <1>6 DEF ChainInv, OnlyValidProofsAccepted, WorkerInv
<1>11. PICK p \in Proofs : p = worker[w].proof
  BY <1>2, <1>5 DEF KnowsSoFar
<1>12. Holds(worker[w], p) /\ \A v \in Workers \ {w} : ~Holds(worker[v], p)
  BY <1>2, <1>11 DEF Holds, WorkerInv, HeldApart
<1>13. /\ \A x \in Proofs \ {p} : credited'[x] = credited[x] /\ penalised'[x] = penalised[x]
       /\ LateFailure' = LateFailure
       /\ GivenUp' = GivenUp
  BY <1>1, <1>11
  DEF Credit, Penalise, WorkerInv, WorkerTypeOK, LateFailure, GivenUp
<1>14. /\ credited[p] \in Nat /\ penalised[p] \in Nat
       /\ row[p] \in {"VERIFIED", "REJECTED"}
       /\ \/ /\ worker[w].step = "credit" /\ Uncounted(p) /\ row[p] = "VERIFIED"
             /\ credited'[p] = 1 /\ penalised'[p] = 0
          \/ /\ worker[w].step = "penalise" /\ penalised[p] = 0
             /\ credited[p] # 0 => LateFailure
             /\ credited'[p] = credited[p] /\ penalised'[p] = 1
  <2>1. credited[p] \in Nat /\ penalised[p] \in Nat
    BY DEF WorkerInv, WorkerTypeOK
  <2>2. CASE Credit(w)
    <3>1. worker[w].step = "credit" /\ Uncounted(p) /\ row[p] = "VERIFIED"
      BY <1>5, <1>11, <2>2 DEF Credit, At, DecidesOnce
    <3>2. credited'[p] = credited[p] + 1 /\ penalised'[p] = penalised[p]
      BY <1>11, <2>2 DEF Credit, WorkerInv, WorkerTypeOK
    <3> QED BY <2>1, <3>1, <3>2 DEF Uncounted
  <2>3. CASE Penalise(w)
    <3>1. /\ worker[w].step = "penalise" /\ penalised[p] = 0 /\ row[p] = "REJECTED"
          /\ credited[p] # 0 => LateFailure
      BY <1>5, <1>11, <2>3 DEF Penalise, At, DecidesOnce
    <3>2. penalised'[p] = penalised[p] + 1 /\ credited'[p] = credited[p]
      BY <1>11, <2>3 DEF Penalise, WorkerInv, WorkerTypeOK
    <3> QED BY <2>1, <3>1, <3>2
  <2> QED BY <2>2, <2>3
<1>15. CountInv'
  <2>1. DecidesOnce(worker[w])'
    <3>1. \A x \in new.claimed : x \in Proofs \ {p} /\ row[x] = "processing" /\ Uncounted(x)
      BY <1>2, <1>3, <1>5, <1>11 DEF DecidesOnce, KnowsSoFar, Worker
    <3>2. \A x \in new.claimed : row'[x] = "processing" /\ Uncounted(x)'
      BY <1>1, <1>13, <3>1 DEF Uncounted
    <3>3. new.step = "artifacts" =>
            new.proof = p /\ row'[p] = "VERIFIED" /\ penalised'[p] = 0
      BY <1>1, <1>3, <1>11, <1>14
    <3> QED BY <1>3, <1>4, <3>2, <3>3 DEF DecidesOnce
  <2>2. ASSUME NEW v \in Workers \ {w} PROVE DecidesOnce(worker[v])'
    <3>1. worker'[v] = worker[v] /\ DecidesOnce(worker[v]) /\ KnowsSoFar(worker[v])
      BY <1>4 DEF CountInv, WorkerInv, Knowing
    <3>2. worker[v].claimed \subseteq Proofs \ {p}
      BY <1>12 DEF Holds, WorkerInv, WorkerTypeOK, Worker
    <3>3. worker[v].step \in InHand => worker[v].proof \in Proofs \ {p}
      BY <1>12, <3>1 DEF Holds, KnowsSoFar
    <3> QED BY <1>1, <1>13, <3>1, <3>2, <3>3 DEF DecidesOnce, Uncounted
  <2>3. \A x \in Proofs : row'[x] \in {"none", "pending"} => Uncounted(x)'
    BY <1>1, <1>13, <1>14 DEF WorkerInv, CountInv, Uncounted
  <2>4. \A x \in Proofs : credited'[x] # 0 => Accepted(x)'
    BY <1>6, <1>13, <1>14 DEF WorkerInv, CountInv, ChainInv
  <2>5. CountedOnce'
    <3>1. ASSUME NEW x \in Proofs
          PROVE  /\ credited'[x] <= 1 /\ penalised'[x] <= 1
                 /\ credited'[x] + penalised'[x] = 2 => LateFailure
      <4>1. /\ credited[x] <= 1 /\ penalised[x] <= 1
            /\ credited[x] + penalised[x] = 2 => LateFailure
        BY DEF WorkerInv, CountInv, CountedOnce
      <4>2. CASE x # p
        BY <1>13, <4>1, <4>2
      <4>3. CASE x = p
        BY <1>14, <4>1, <4>3
      <4> QED BY <4>2, <4>3
    <3> QED BY <1>13, <3>1 DEF CountedOnce
  <2> QED BY <2>1, <2>2, <2>3, <2>4, <2>5 DEF CountInv
<1>16. ASSUME ~GivenUp' PROVE AgreeInv'
  <2>1. ~GivenUp /\ AgreeInv
    BY <1>13, <1>16 DEF WorkerInv
  <2>2. ASSUME NEW v \in Workers PROVE FollowsChain(v, worker[v])'
    <3>1. FollowsChain(v, worker[v])
      BY <2>1 DEF AgreeInv
    <3>2. CASE v # w
      BY <1>1, <1>4, <1>6, <3>1, <3>2 DEF FollowsChain
    <3>3. CASE v = w
      <4>1. \A t \in mempool : t.success => ~Holds(new, t.proof)
        BY <1>2, <1>4, <1>5, <1>7, <2>1 DEF FollowsChain, WorkerInv, WorkerTypeOK, Verdict
      <4>2. ASSUME NEW x \in Proofs, Accepted(x), Holds(new, x)
            PROVE  new.step = "artifacts" /\ new.proof = x
        <5>1. Holds(worker[w], x)
          BY <1>4, <1>7, <4>2
        <5>2. worker[w].step = "credit" /\ worker[w].proof = x
          BY <1>2, <1>5, <2>1, <4>2, <5>1 DEF FollowsChain
        <5>3. x \notin worker[w].claimed
          BY <1>5, <5>2 DEF KnowsSoFar
        <5> QED BY <1>3, <4>2, <5>2, <5>3 DEF Holds
      <4> QED BY <1>1, <1>4, <1>6, <3>3, <4>1, <4>2 DEF FollowsChain
    <3> QED BY <3>2, <3>3
  <2>3. ProofsInv'
    BY <1>1, <1>6, <2>1 DEF ProofsInv, AgreeInv
  <2> QED BY <2>2, <2>3 DEF AgreeInv
<1> QED BY <1>8, <1>9, <1>10, <1>15, <1>16 DEF WorkerInv

-----------------------------------------------------------------------------
(* The queue and the chain *)

\* Requests and rows that nobody holds.
LEMMA QueueKeepsInv ==
    ASSUME WorkerInv, WorkerTypeOK', NEW p \in Proofs, QueueRequest(p) \/ QueueStep(p)
    PROVE  WorkerInv'
<1>1. UNCHANGED <<faults, questOf, mempool, chain, worker, credited, penalised>>
  BY DEF QueueRequest, QueueStep, QueueRead, QueueInsert, QueueUpdate, chainVars, inputs
<1>2. \A x : Accepted(x)' = Accepted(x)
  BY <1>1 DEF Accepted
<1>3. Knowing'
  BY <1>1, <1>2 DEF KnowsSoFar, Knowing, WorkerInv
<1>4. \A x \in Proofs, v \in Workers : Holds(worker[v], x)' = Holds(worker[v], x)
  BY <1>1 DEF Holds
<1>5. CASE QueueRequest(p) \/ QueueRead(p) \/ QueueUpdate(p)
  <2>1. row' = row
    BY <1>5 DEF QueueRequest, QueueRead, QueueUpdate
  <2>2. \A x \in Proofs : api'[x] = "insert" => row[x] = "none"
    BY <1>5 DEF QueueRequest, QueueRead, QueueUpdate, ChainInv, WorkerInv, WorkerTypeOK
  <2>3. HeldApart' /\ ChainInv'
    BY <1>1, <1>2, <1>4, <2>1, <2>2 DEF HeldApart, ChainInv, OnlyValidProofsAccepted, WorkerInv
  <2>4. CountInv'
    BY <1>1, <1>2, <2>1
    DEF WorkerInv, CountInv, CountedOnce, DecidesOnce, Uncounted, LateFailure
  <2>5. ASSUME ~GivenUp' PROVE AgreeInv'
    <3>1. AgreeInv
      BY <1>1, <2>5 DEF GivenUp, LateFailure, WorkerInv
    <3> QED BY <1>1, <1>2, <2>1, <3>1 DEF AgreeInv, ProofsInv, FollowsChain, Holds
  <2> QED BY <1>3, <2>3, <2>4, <2>5 DEF WorkerInv
<1>6. CASE QueueInsert(p)
  <2>1. row[p] = "none" /\ row'[p] = "pending" /\ \A x \in Proofs \ {p} : row'[x] = row[x]
    BY <1>6 DEF QueueInsert, ChainInv, WorkerInv, WorkerTypeOK
  <2>2. \A v \in Workers : ~Holds(worker[v], p)
    BY <2>1 DEF WorkerInv, HeldApart
  <2>3. \A x \in Proofs : api'[x] = "insert" => x # p /\ row[x] = "none"
    BY <1>6 DEF QueueInsert, ChainInv, WorkerInv, WorkerTypeOK
  <2>4. HeldApart'
    BY <1>4, <2>1, <2>2 DEF HeldApart, WorkerInv
  <2>5. ChainInv'
    BY <1>1, <1>2, <2>1, <2>3 DEF ChainInv, OnlyValidProofsAccepted, WorkerInv
  <2>6. CountInv'
    <3>1. /\ \A x \in Proofs : Uncounted(x)' = Uncounted(x)
          /\ LateFailure' = LateFailure
      BY <1>1 DEF Uncounted, LateFailure
    <3>2. ASSUME NEW v \in Workers PROVE DecidesOnce(worker[v])'
      <4>1. DecidesOnce(worker[v]) /\ KnowsSoFar(worker[v])
        BY DEF CountInv, WorkerInv, Knowing
      <4>2. worker[v].claimed \subseteq Proofs \ {p}
        BY <2>2 DEF Holds, WorkerInv, WorkerTypeOK, Worker
      <4>3. worker[v].step \in InHand => worker[v].proof \in Proofs \ {p}
        BY <2>2, <4>1 DEF Holds, KnowsSoFar
      <4> QED BY <1>1, <2>1, <3>1, <4>1, <4>2, <4>3
              DEF DecidesOnce, InHand, Trying, Succeeded, Failing, Failed
    <3>3. \A x \in Proofs : row'[x] \in {"none", "pending"} => Uncounted(x)'
      BY <2>1, <3>1 DEF CountInv, WorkerInv
    <3> QED BY <1>1, <1>2, <3>1, <3>2, <3>3 DEF CountInv, CountedOnce, WorkerInv
  <2>7. ASSUME ~GivenUp' PROVE AgreeInv'
    <3>1. AgreeInv
      BY <1>1, <2>7 DEF GivenUp, LateFailure, WorkerInv
    <3>2. ~Accepted(p) /\ \A t \in mempool : t.success => t.proof \in Proofs \ {p}
      BY <2>1, <3>1 DEF AgreeInv, ProofsInv, WorkerInv, WorkerTypeOK, Verdict
    <3>3. \A v \in Workers : FollowsChain(v, worker[v])'
      BY <1>1, <1>2, <3>1 DEF AgreeInv, FollowsChain, Holds
    <3>4. ProofsInv'
      BY <1>1, <1>2, <2>1, <3>1, <3>2 DEF AgreeInv, ProofsInv
    <3> QED BY <3>3, <3>4 DEF AgreeInv
  <2> QED BY <1>3, <2>4, <2>5, <2>6, <2>7 DEF WorkerInv
<1> QED BY <1>5, <1>6 DEF QueueStep

LEMMA SubmitQuestKeepsInv ==
    ASSUME WorkerInv, WorkerTypeOK', NEW p \in Proofs, SubmitQuest(p)
    PROVE  WorkerInv'
<1>1. UNCHANGED <<faults, questOf, mempool, row, api, worker, credited, penalised>>
  BY DEF SubmitQuest, inputs
<1>2. \A x \in Proofs : Accepted(x)' = Accepted(x)
  <2>1. questOf \in [Proofs -> Quests] /\ chain \in [Quests -> ChainQuest]
    BY QuestOfType DEF WorkerInv, WorkerTypeOK
  <2> QED BY <1>1, <2>1 DEF Accepted, SubmitQuest, ChainQuest
<1>3. Knowing'
  BY <1>1, <1>2 DEF KnowsSoFar, Knowing, WorkerInv, InHand, Trying
<1>4. HeldApart' /\ ChainInv'
  BY <1>1, <1>2 DEF HeldApart, Holds, ChainInv, OnlyValidProofsAccepted, WorkerInv
<1>5. CountInv'
  BY <1>1, <1>2 DEF WorkerInv, CountInv, CountedOnce, DecidesOnce, Uncounted, LateFailure
<1>6. ASSUME ~GivenUp' PROVE AgreeInv'
  <2>1. AgreeInv
    BY <1>1, <1>6 DEF GivenUp, LateFailure, WorkerInv
  <2> QED BY <1>1, <1>2, <2>1 DEF AgreeInv, ProofsInv, FollowsChain, Holds
<1> QED BY <1>3, <1>4, <1>5, <1>6 DEF WorkerInv

\* A success that is mined makes its proof accepted, and its worker, if that
\* still waits, learns of it.
LEMMA MineKeepsInv ==
    ASSUME WorkerInv, WorkerTypeOK', NEW t \in mempool, Mine(t)
    PROVE  WorkerInv'
<1> USE DEF InHand, Trying, Succeeded, Failing, Failed
<1>1. UNCHANGED <<faults, questOf, row, api, credited, penalised>> /\ mempool' = mempool \ {t}
  BY DEF Mine, inputs
<1>2. /\ questOf \in [Proofs -> Quests] /\ chain \in [Quests -> ChainQuest]
      /\ t.proof \in Proofs /\ t.worker \in Workers /\ t.success \in BOOLEAN
      /\ t.success => t.hash = t.proof /\ t.proof \in Valid
  BY QuestOfType DEF WorkerInv, WorkerTypeOK, Verdict, ChainInv
<1>3. /\ \A q \in Quests \ {questOf[t.proof]} : chain'[q] = chain[q]
      /\ ~VerdictFits(t) => chain' = chain
      /\ VerdictFits(t) /\ ~t.success => chain'[questOf[t.proof]].status = "Accepted"
      /\ VerdictFits(t) /\ t.success =>
            chain'[questOf[t.proof]] = [chain[questOf[t.proof]] EXCEPT !.status = "Claimable"]
  BY <1>2 DEF Mine
<1>4. ASSUME NEW x \in Proofs
      PROVE  Accepted(x)' <=> Accepted(x) \/ (VerdictFits(t) /\ t.success /\ x = t.proof)
  <2>1. CASE ~VerdictFits(t) \/ questOf[x] # questOf[t.proof]
    BY <1>1, <1>2, <1>3, <2>1 DEF Accepted
  <2>2. CASE VerdictFits(t) /\ questOf[x] = questOf[t.proof]
    <3>1. chain[questOf[x]].status = "Completed" /\ chain[questOf[x]].proof = t.hash
      BY <2>2 DEF VerdictFits
    <3>2. CASE ~t.success
      BY <1>1, <1>3, <2>2, <3>1, <3>2 DEF Accepted
    <3>3. CASE t.success
      <4>1. /\ chain'[questOf[x]].status = "Claimable"
            /\ chain'[questOf[x]].proof = t.proof
        BY <1>2, <1>3, <2>2, <3>1, <3>3 DEF ChainQuest
      <4> QED BY <1>1, <2>2, <3>1, <3>3, <4>1 DEF Accepted
    <3> QED BY <1>2, <3>2, <3>3
  <2> QED BY <2>1, <2>2
<1>5. ASSUME NEW v \in Workers
      PROVE  /\ worker'[v].step = worker[v].step
             /\ worker'[v].proof = worker[v].proof
             /\ worker'[v].claimed = worker[v].claimed
             /\ worker'[v].seenTx = worker[v].seenTx
             /\ worker'[v].tx = IF Awaits(v, t)
                                THEN IF VerdictFits(t) THEN "mined" ELSE "reverted"
                                ELSE worker[v].tx
  BY DEF Mine, WorkerInv, WorkerTypeOK, Worker
<1>6. \A v \in Workers, x \in Proofs : Holds(worker[v], x)' <=> Holds(worker[v], x)
  BY <1>5 DEF Holds
<1>7. ASSUME NEW v \in Workers PROVE KnowsSoFar(worker[v])'
  <2>1. KnowsSoFar(worker[v])
    BY DEF WorkerInv, Knowing
  <2>2. \A x \in Proofs : Accepted(x) => Accepted(x)'
    BY <1>4
  <2>3. CASE Awaits(v, t)
    <3>1. /\ worker[v].proof = t.proof
          /\ worker[v].step = IF t.success THEN "waitTrue" ELSE "waitFalse"
      BY <2>3 DEF Awaits
    <3>2. VerdictFits(t) /\ t.success => Accepted(worker[v].proof)'
      BY <1>2, <1>4, <1>5, <3>1 DEF Accepted
    <3> QED BY <1>2, <1>5, <2>1, <2>3, <3>1, <3>2 DEF KnowsSoFar
  <2>4. CASE ~Awaits(v, t)
    <3>1. worker[v].step \in InHand /\ Accepted(worker[v].proof) => Accepted(worker[v].proof)'
      BY <1>5, <2>1, <2>2 DEF KnowsSoFar, Accepted
    <3> QED BY <1>5, <2>1, <2>4, <3>1 DEF KnowsSoFar
  <2> QED BY <2>3, <2>4
<1>8. HeldApart'
  BY <1>1, <1>6 DEF HeldApart, WorkerInv
<1>9. ChainInv'
  BY <1>1, <1>2, <1>4 DEF ChainInv, OnlyValidProofsAccepted, WorkerInv
<1>10. CountInv'
  <2>1. \A v \in Workers : DecidesOnce(worker[v])'
    BY <1>1, <1>5 DEF DecidesOnce, Uncounted, LateFailure, CountInv, WorkerInv
  <2> QED BY <1>1, <1>4, <2>1 DEF CountInv, CountedOnce, Uncounted, LateFailure, WorkerInv
<1>11. ASSUME ~GivenUp' PROVE AgreeInv'
  <2>1. ~GivenUp /\ AgreeInv
    BY <1>1, <1>11 DEF GivenUp, LateFailure, WorkerInv
  <2>2. ASSUME NEW v \in Workers PROVE FollowsChain(v, worker[v])'
    <3>1. FollowsChain(v, worker[v])
      BY <2>1 DEF AgreeInv
    <3>2. ASSUME NEW u \in mempool', u.success, Holds(worker[v], u.proof)'
          PROVE  /\ u.worker = v /\ worker'[v].step = "waitTrue"
                 /\ worker'[v].proof = u.proof /\ worker'[v].tx = "none"
      <4>1. u \in mempool /\ u # t /\ u.proof \in Proofs
        BY <1>1, <3>2 DEF WorkerInv, WorkerTypeOK, Verdict
      <4>2. Holds(worker[v], u.proof)
        BY <1>6, <3>2, <4>1
      <4>3. /\ u.worker = v /\ worker[v].step = "waitTrue"
            /\ worker[v].proof = u.proof /\ worker[v].tx = "none"
        BY <3>1, <3>2, <4>1, <4>2 DEF FollowsChain
      <4>4. ~Awaits(v, t)
        BY <2>1, <3>2, <4>1, <4>3 DEF Awaits, AgreeInv, ProofsInv
      <4> QED BY <1>5, <4>3, <4>4
    <3>3. ASSUME NEW x \in Proofs, Accepted(x)', Holds(worker[v], x)'
          PROVE  /\ worker'[v].step \in {"waitTrue", "markVerified"} \cup Succeeded
                 /\ worker'[v].proof = x
                 /\ worker'[v].step = "waitTrue" => worker'[v].tx = "mined"
      <4>1. Holds(worker[v], x)
        BY <1>6, <3>3
      <4>2. CASE Accepted(x)
        <5>1. /\ worker[v].step \in {"waitTrue", "markVerified"} \cup Succeeded
              /\ worker[v].proof = x
              /\ worker[v].step = "waitTrue" => worker[v].tx = "mined"
          BY <3>1, <4>1, <4>2 DEF FollowsChain
        <5>2. ~Awaits(v, t)
          BY <5>1 DEF Awaits
        <5> QED BY <1>5, <5>1, <5>2
      <4>3. CASE VerdictFits(t) /\ t.success /\ x = t.proof
        <5>1. /\ t.worker = v /\ worker[v].step = "waitTrue"
              /\ worker[v].proof = t.proof /\ worker[v].tx = "none"
          BY <3>1, <4>1, <4>3 DEF FollowsChain
        <5>2. Awaits(v, t)
          BY <4>3, <5>1 DEF Awaits
        <5> QED BY <1>5, <4>3, <5>1, <5>2
      <4> QED BY <1>4, <3>3, <4>2, <4>3
    <3> QED BY <3>2, <3>3 DEF FollowsChain
  <2>3. ProofsInv'
    <3>1. \A x \in Proofs : Accepted(x)' => row'[x] \in {"processing", "VERIFIED"}
      BY <1>1, <1>4, <2>1 DEF AgreeInv, ProofsInv
    <3> QED BY <1>1, <2>1, <3>1 DEF AgreeInv, ProofsInv
  <2> QED BY <2>2, <2>3 DEF AgreeInv
<1> QED BY <1>7, <1>8, <1>9, <1>10, <1>11 DEF WorkerInv, Knowing

-----------------------------------------------------------------------------
(* The invariant *)

LEMMA WorkerNextKeepsInv == WorkerInv /\ [WorkerNext]_workerVars => WorkerInv'
<1> SUFFICES ASSUME WorkerInv, [WorkerNext]_workerVars PROVE WorkerInv'
  OBVIOUS
<1> USE WorkerTypeKept
<1>0. WorkerTypeOK'
  OBVIOUS
<1>1. CASE UNCHANGED workerVars
  <2>1. \A x : Accepted(x)' = Accepted(x)
    BY <1>1 DEF workerVars, Accepted
  <2>2. Knowing' /\ HeldApart' /\ ChainInv'
    BY <1>1, <2>1 DEF workerVars, WorkerInv, Knowing, KnowsSoFar, HeldApart, Holds, ChainInv,
                      OnlyValidProofsAccepted
  <2>3. CountInv'
    BY <1>1, <2>1
    DEF workerVars, WorkerInv, CountInv, CountedOnce, DecidesOnce, Uncounted, LateFailure
  <2>4. ASSUME ~GivenUp' PROVE AgreeInv'
    <3>1. AgreeInv
      BY <1>1, <2>4 DEF workerVars, GivenUp, LateFailure, WorkerInv
    <3> QED BY <1>1, <2>1, <3>1 DEF workerVars, AgreeInv, ProofsInv, FollowsChain, Holds
  <2> QED BY <1>0, <2>2, <2>3, <2>4 DEF WorkerInv
<1>2. ASSUME NEW p \in Proofs, SubmitQuest(p) \/ QueueRequest(p) \/ QueueStep(p)
      PROVE  WorkerInv'
  BY <1>0, <1>2, SubmitQuestKeepsInv, QueueKeepsInv
<1>3. ASSUME NEW t \in mempool, Mine(t) PROVE WorkerInv'
  BY <1>0, <1>3, MineKeepsInv
<1>4. ASSUME NEW w \in Workers, Poll(w) PROVE WorkerInv'
  BY <1>0, <1>4, GoInHand DEF Poll, Steps, inputs, queueVars, OnlyFailuresSent
<1>5. ASSUME NEW w \in Workers, BatchStep(w) PROVE WorkerInv'
  <2>1. CASE Select(w) \/ Claim(w) \/ Load(w) \/ SendTrue(w) \/ SendFalse(w)
    BY <1>0, <2>1, SelectKeepsInv, ClaimKeepsInv, LoadKeepsInv, SendTrueKeepsInv,
       SendFalseKeepsInv
  <2>2. CASE MarkVerified(w) \/ MarkRejected(w)
    BY <1>0, <2>2, DecisionKeepsInv
  <2>3. CASE Credit(w) \/ Penalise(w)
    BY <1>0, <2>3, CountingKeepsInv
  <2>4. CASE Check(w)
    BY <1>0, <2>4, GoInHand
    DEF Check, ChecksPass, Steps, restVars, inputs, queueVars, OnlyFailuresSent
  <2>5. CASE WaitTrue(w)
    BY <1>0, <2>5, GoInHand
    DEF WaitTrue, WaitFails, GivenUp, LateFailure, Steps, restVars, inputs, queueVars,
        OnlyFailuresSent
  <2>6. CASE Artifacts(w)
    BY <1>0, <2>6, GoInHand
    DEF Artifacts, LateFailure, Succeeded, At, Steps, restVars, inputs, queueVars,
        OnlyFailuresSent
  <2>7. CASE MarkClaimable(w) \/ MarkAccepted(w)
    BY <1>0, <2>7, GoInHand
    DEF MarkClaimable, MarkAccepted, Steps, inputs, queueVars, OnlyFailuresSent
  <2>8. CASE FailRead(w)
    BY <1>0, <2>8, FailReadKeepsInv
  <2>9. CASE WaitFalse(w)
    BY <1>0, <2>9, GoInHand, AbortKeepsInv
    DEF WaitFalse, Steps, restVars, inputs, queueVars, OnlyFailuresSent
  <2> QED BY <1>5, <2>1, <2>2, <2>3, <2>4, <2>5, <2>6, <2>7, <2>8, <2>9 DEF BatchStep
<1>6. ASSUME NEW w \in Workers, DbError(w) PROVE WorkerInv'
  <2>1. /\ UNCHANGED <<inputs, row, chain, credited, penalised, api>> /\ OnlyFailuresSent
        /\ LateFailure /\ GivenUp
    BY <1>6 DEF DbError, LateFailure, GivenUp, restVars, queueVars, OnlyFailuresSent
  <2>2. CASE Abort(w)
    BY <1>0, <2>1, <2>2, AbortKeepsInv
  <2>3. CASE Go(w, "fail") /\ worker[w].step \in {"markVerified"} \cup Succeeded
    BY <1>0, <2>1, <2>3, GoInHand DEF Steps, At
  <2> QED BY <1>6, <2>2, <2>3 DEF DbError, Succeeded
<1>7. ASSUME NEW w \in Workers, Crash(w) PROVE WorkerInv'
  <2>1. \A p \in Proofs : api'[p] = "insert" => api[p] = "insert"
    BY <1>7 DEF Crash
  <2> QED BY <1>0, <1>7, <2>1, AbortKeepsInv DEF Crash, inputs, OnlyFailuresSent
<1> QED BY <1>1, <1>2, <1>3, <1>4, <1>5, <1>6, <1>7 DEF WorkerNext

LEMMA WorkerInvHolds == WorkerSpec => []WorkerInv
BY WorkerInitEstablishesInv, WorkerNextKeepsInv, PTL DEF WorkerSpec

-----------------------------------------------------------------------------

\* Every variable of the queue, the workers and the chain keeps its type.
THEOREM WorkerTypeCorrect == WorkerSpec => []WorkerTypeOK
<1>1. WorkerInv => WorkerTypeOK
  BY DEF WorkerInv
<1> QED BY <1>1, WorkerInvHolds, PTL

\* Under every fault only a proof that passes the rules makes its quest
\* claimable, however late a verdict is mined.
THEOREM ValidProofsAccepted == WorkerSpec => []OnlyValidProofsAccepted
<1>1. WorkerInv => OnlyValidProofsAccepted
  BY DEF WorkerInv, ChainInv
<1> QED BY <1>1, WorkerInvHolds, PTL

\* Under every fault a proof is VERIFIED in the database, or counted as a
\* completed quest, only if the chain accepted it; a REJECTED one is not
\* accepted unless a timeout or a failing call made a worker give up.
THEOREM DecisionsFollowChain == WorkerSpec => []DecidedAsOnChain
<1>1. WorkerInv => DecidedAsOnChain
  <2> SUFFICES ASSUME WorkerInv, NEW p \in Proofs
               PROVE  /\ row[p] = "VERIFIED" \/ credited[p] > 0 => Accepted(p)
                      /\ row[p] = "REJECTED" /\ ~GivenUp => ~Accepted(p)
    BY DEF DecidedAsOnChain
  <2>1. credited[p] > 0 => credited[p] # 0
    BY DEF WorkerInv, WorkerTypeOK
  <2>2. row[p] = "VERIFIED" \/ credited[p] > 0 => Accepted(p)
    BY <2>1 DEF WorkerInv, ChainInv, CountInv
  <2>3. row[p] = "REJECTED" /\ ~GivenUp => ~Accepted(p)
    BY DEF WorkerInv, AgreeInv, ProofsInv
  <2> QED BY <2>2, <2>3
<1> QED BY <1>1, WorkerInvHolds, PTL

\* Any number of processes, under every fault, count a proof at most once as a
\* completed quest and at most once as a failure, and as both only when a call
\* failed after the mined verdict.
THEOREM ProofsCountedOnce == WorkerSpec => []CountedOnce
<1>1. WorkerInv => CountedOnce
  BY DEF WorkerInv, CountInv
<1> QED BY <1>1, WorkerInvHolds, PTL

\* A row changes its result only by the insert of a new row, the claim of a
\* pending one and the decision of the worker that holds it.
LEMMA DecisionsStay ==
    WorkerInv /\ [WorkerNext]_workerVars =>
        \A p \in Proofs : Decided(p) /\ row'[p] # row[p] =>
            row[p] = "VERIFIED" /\ row'[p] = "REJECTED" /\ LateFailure
<1> DEFINE Late(p) == row[p] = "VERIFIED" /\ row'[p] = "REJECTED" /\ LateFailure
<1> SUFFICES ASSUME WorkerInv, [WorkerNext]_workerVars, NEW p \in Proofs, Decided(p),
                    row'[p] # row[p]
             PROVE  Late(p)
  OBVIOUS
<1>1. row \in [Proofs -> Results] /\ row[p] \in {"VERIFIED", "REJECTED"}
  BY DEF WorkerInv, WorkerTypeOK, Decided
<1>2. ASSUME NEW x \in Proofs, QueueInsert(x) PROVE FALSE
  BY <1>1, <1>2 DEF QueueInsert, WorkerInv, ChainInv
<1>3. ASSUME NEW w \in Workers, Claim(w) PROVE FALSE
  BY <1>1, <1>3 DEF Claim
<1>4. ASSUME NEW w \in Workers, MarkVerified(w) PROVE FALSE
  <2>1. row[worker[w].proof] = "processing"
    BY <1>4 DEF MarkVerified, At, Trying, WorkerInv, CountInv, DecidesOnce
  <2> QED BY <1>1, <1>4, <2>1 DEF MarkVerified
<1>5. ASSUME NEW w \in Workers, MarkRejected(w) PROVE Late(p)
  <2>1. /\ row[worker[w].proof] \in {"processing", "VERIFIED"}
        /\ row[worker[w].proof] = "VERIFIED" => LateFailure
    BY <1>5 DEF MarkRejected, At, Failing, WorkerInv, CountInv, DecidesOnce
  <2>2. p = worker[w].proof /\ row'[p] = "REJECTED"
    BY <1>1, <1>5 DEF MarkRejected
  <2> QED BY <1>1, <2>1, <2>2
<1>6. ASSUME NEW w \in Workers, BatchStep(w) PROVE Late(p)
  BY <1>3, <1>4, <1>5, <1>6
  DEF BatchStep, Select, Load, Check, SendTrue, WaitTrue, MarkClaimable, Credit, Artifacts,
      FailRead, SendFalse, WaitFalse, MarkAccepted, Penalise, restVars
<1>7. ~UNCHANGED workerVars
  BY DEF workerVars
<1> QED
  BY <1>2, <1>6, <1>7
  DEF WorkerNext, SubmitQuest, QueueRequest, QueueStep, QueueRead, QueueUpdate, Mine, Poll,
      DbError, Crash, restVars

\* A decided proof is never decided again, by any number of processes with
\* overlapping batches and retried requests; only a failure after the mined
\* verdict turns a VERIFIED proof into a rejected one, and nothing turns a
\* rejected one back.
THEOREM VerdictsAreFinal == WorkerSpec => VerdictIsFinal
<1>1. WorkerInv /\ [WorkerNext]_workerVars =>
          [\A p \in Proofs : Decided(p) /\ row'[p] # row[p] =>
              row[p] = "VERIFIED" /\ row'[p] = "REJECTED" /\ LateFailure]_workerVars
  BY DecisionsStay
<1> QED BY <1>1, WorkerInvHolds, PTL DEF WorkerSpec, VerdictIsFinal
=============================================================================
