------------------------- MODULE MCVerificationWorker -------------------------
(* Three proofs, two or all of them of one quest. *)
EXTENDS VerificationWorker, TLC

CONSTANTS p1, p2, p3, q1, q2

AllForOne == p1 :> q1 @@ p2 :> q1 @@ p3 :> q1

TwoForOne == p1 :> q1 @@ p2 :> q1 @@ p3 :> q2

\* The valid proof has a quest of its own: a failing verdict may strand it.
ValidApart == p1 :> q2 @@ p2 :> q1 @@ p3 :> q1

\* No faults or failing calls to the node over two quests; crashes, late
\* receipts and every fault where the proofs meet in one quest.
SomeScenarios ==
    [faults : {{}}, questOf : {TwoForOne, ValidApart}]
        \cup [faults : {{"rpc"}}, questOf : {TwoForOne}]
        \cup [faults : {{"crash"}, {"crash", "timeout"}, AllFaults}, questOf : {AllForOne}]

\* A single proof, and processes that may die.
OneProof == {[faults |-> {"crash"}, questOf |-> p1 :> q1]}

=============================================================================
