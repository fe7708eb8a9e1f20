------------------------------- MODULE Pairing -------------------------------
(***************************************************************************)
(* What direct conversations promise, without rows, sessions or locks: two *)
(* users have at most one conversation, it comes into being at once and    *)
(* for both of them, one request is told that it created it, and from then *)
(* on each of the two is either present or has left.  Conversations        *)
(* implements it.                                                          *)
(***************************************************************************)
EXTENDS Naturals

CONSTANT Users

Couples == {k \in SUBSET Users : \E u, v \in k : u # v /\ k = {u, v}}

VARIABLES
    opened,    \* how many conversations a couple has
    announced, \* how many requests were told that they created it
    present,   \* who takes part in it
    gone       \* who has left it

pairing == <<opened, announced, present, gone>>

Init ==
    /\ opened = [k \in Couples |-> 0]
    /\ announced = [k \in Couples |-> 0]
    /\ present = [k \in Couples |-> {}]
    /\ gone = [k \in Couples |-> {}]

Start(k) ==
    /\ opened[k] = 0
    /\ opened' = [opened EXCEPT ![k] = 1]
    /\ announced' = [announced EXCEPT ![k] = 1]
    /\ present' = [present EXCEPT ![k] = k]
    /\ UNCHANGED gone

Return(k, users) ==
    /\ users \subseteq gone[k]
    /\ present' = [present EXCEPT ![k] = @ \cup users]
    /\ gone' = [gone EXCEPT ![k] = @ \ users]
    /\ UNCHANGED <<opened, announced>>

Depart(k, u) ==
    /\ u \in present[k]
    /\ present' = [present EXCEPT ![k] = @ \ {u}]
    /\ gone' = [gone EXCEPT ![k] = @ \cup {u}]
    /\ UNCHANGED <<opened, announced>>

Next ==
    \E k \in Couples :
        \/ Start(k)
        \/ \E users \in SUBSET k : Return(k, users)
        \/ \E u \in k : Depart(k, u)

Spec == Init /\ [][Next]_pairing
=============================================================================
