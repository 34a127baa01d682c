------------------------------ MODULE Accounts ------------------------------
(* The addresses the contracts of QuestForge deal with. *)

CONSTANTS
    Players,    \* quest creators and players
    NoPlayer,   \* address(0)
    OwnersSwitch \* bound: whether owners use pause switches and revoke roles

ASSUME AccountsAssumption ==
    /\ NoPlayer \notin Players
    /\ OwnersSwitch \in BOOLEAN
=============================================================================
