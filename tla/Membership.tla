----------------------------- MODULE Membership -----------------------------
(***************************************************************************)
(* What team membership promises, whatever the interleaving of the         *)
(* handlers that implement it: nobody joins a team without having asked or *)
(* having been asked, joining never rewrites the access of somebody who is *)
(* already on the team, and an access changes only because the owner       *)
(* ordered it.  Module Collaboration implements this specification.        *)
(***************************************************************************)
CONSTANTS Devs,     \* the people who are not the owner of the project
          Levels    \* the access levels a member can hold

VARIABLES team,     \* team[u] is u's access, or "none"
          asked,    \* those who have asked to join, or have been invited
          orders    \* the grants the owner has ordered and not yet seen done

vars == <<team, asked, orders>>

Init == team = [u \in Devs |-> "none"] /\ asked = {} /\ orders = {}

Ask(u) == asked' = asked \cup {u} /\ UNCHANGED <<team, orders>>

Join(u, a) ==
    /\ u \in asked /\ team[u] = "none"
    /\ team' = [team EXCEPT ![u] = a]
    /\ UNCHANGED <<asked, orders>>

Depart(u) == team' = [team EXCEPT ![u] = "none"] /\ UNCHANGED asked /\ orders' \in SUBSET orders

Order(u, a) == orders' = orders \cup {<<u, a>>} /\ UNCHANGED <<team, asked>>

Grant(u, a) ==
    /\ <<u, a>> \in orders
    /\ team[u] # "none"
    /\ team' = [team EXCEPT ![u] = a]
    /\ UNCHANGED asked
    /\ orders' \in SUBSET orders

(* A grant that no longer has a membership to change comes to nothing.     *)
Forget == orders' \in SUBSET orders /\ UNCHANGED <<team, asked>>

Next == \/ Forget
        \/ \E u \in Devs :
            \/ Ask(u)
            \/ Depart(u)
            \/ \E a \in Levels : Join(u, a) \/ Order(u, a) \/ Grant(u, a)

Spec == Init /\ [][Next]_vars
=============================================================================
