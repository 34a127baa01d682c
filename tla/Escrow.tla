------------------------------- MODULE Escrow -------------------------------
(***************************************************************************)
(* What a reward treasury promises, independently of how it keeps its      *)
(* books: money is held for an item at most once, a held amount leaves the *)
(* books at most once (paid out of the pool, or released back into it),    *)
(* and nothing but a pay-out touches money that is being held.  There is   *)
(* no running total here: the obligation is recomputed from the items.     *)
(***************************************************************************)
EXTENDS Integers, FiniteSetsExt

CONSTANTS Items,    \* what money is held for (quest identifiers)
          Amounts   \* amounts that can be held

VARIABLES pool,     \* money in the escrow
          phase,    \* phase[i]: "never", "held" or "closed"
          amount    \* amount[i]: what is held for i, 0 when nothing is

escrowVars == <<pool, phase, amount>>

Held == {i \in Items : phase[i] = "held"}

\* The sum of everything held, recomputed from the items.
Obligation == MapThenSumSet(LAMBDA i : amount[i], Held)

EscrowInit ==
    /\ pool = 0
    /\ phase = [i \in Items |-> "never"]
    /\ amount = [i \in Items |-> 0]

\* A hold may come with a deposit (a fee paid in the same transaction), but
\* it is covered by the money that was there before.
Hold(i, a) ==
    /\ phase[i] = "never"
    /\ a > 0
    /\ pool >= Obligation + a
    /\ pool' >= pool
    /\ phase' = [phase EXCEPT ![i] = "held"]
    /\ amount' = [amount EXCEPT ![i] = a]

Close(i) ==
    /\ phase[i] = "held"
    /\ phase' = [phase EXCEPT ![i] = "closed"]
    /\ amount' = [amount EXCEPT ![i] = 0]

PayOut(i) ==
    /\ Close(i)
    /\ pool' = pool - amount[i]

Release(i) ==
    /\ Close(i)
    /\ pool' = pool

Deposit ==
    /\ pool' > pool
    /\ UNCHANGED <<phase, amount>>

\* Only the surplus over what is held can be withdrawn.
WithdrawSurplus ==
    /\ pool' < pool
    /\ pool' >= Obligation
    /\ UNCHANGED <<phase, amount>>

EscrowNext ==
    \/ \E i \in Items :
          \/ \E a \in Amounts : Hold(i, a)
          \/ PayOut(i)
          \/ Release(i)
    \/ Deposit
    \/ WithdrawSurplus

EscrowSpec == EscrowInit /\ [][EscrowNext]_escrowVars
=============================================================================
