----------------------------- MODULE DailyBonus -----------------------------
(***************************************************************************)
(* What the daily bonus promises a player, whatever the requests, the      *)
(* database and the chain do in between: a day's bonus is paid at most     *)
(* once, and it is booked at most once, after it was paid.                 *)
(***************************************************************************)
EXTENDS Naturals

CONSTANT Days

VARIABLES paid,     \* days whose bonus was transferred
          booked,   \* days whose bonus is in the player's account
          total     \* bonuses the account counts

bonusVars == <<paid, booked, total>>

BonusInit == paid = {} /\ booked = {} /\ total = 0

Pay(d) ==
    /\ d \notin paid
    /\ paid' = paid \cup {d}
    /\ UNCHANGED <<booked, total>>

Book(d) ==
    /\ d \in paid \ booked
    /\ booked' = booked \cup {d}
    /\ total' = total + 1
    /\ UNCHANGED paid

BonusNext == \E d \in Days : Pay(d) \/ Book(d)

BonusSpec == BonusInit /\ [][BonusNext]_bonusVars
=============================================================================
