--------------------------- MODULE ChannelRegistry ---------------------------
(***************************************************************************)
(* What channels and memberships promise to the rest of the system, without *)
(* requests, sessions or rows: a register of channels in which every change *)
(* is one atomic step on one channel and at most one user.  The owner is    *)
(* fixed when the channel is created, is the only user with that role, and  *)
(* is neither admitted, dismissed nor given another role while the channel  *)
(* exists; whoever is admitted starts as a member.  Channels implements it. *)
(***************************************************************************)
CONSTANTS Users, ChannelIds

VARIABLES
    status,   \* of each channel: unborn, public, private or deleted
    owner,    \* the user who created it
    role      \* of each user in each channel

registry == <<status, owner, role>>

Open(c) == status[c] \in {"public", "private"}

Init ==
    /\ status = [c \in ChannelIds |-> "unborn"]
    /\ owner \in [ChannelIds -> Users]
    /\ role = [c \in ChannelIds |-> [u \in Users |-> "none"]]

Create(c, u) ==
    /\ status[c] = "unborn"
    /\ \E v \in {"public", "private"} : status' = [status EXCEPT ![c] = v]
    /\ owner' = [owner EXCEPT ![c] = u]
    /\ role' = [role EXCEPT ![c] = [w \in Users |-> IF w = u THEN "owner" ELSE "none"]]

\* A user other than the owner gets, changes or loses a role.
SetRole(c, u, new) ==
    /\ Open(c) /\ u # owner[c]
    /\ new = "admin" => role[c][u] # "none"
    /\ role' = [role EXCEPT ![c][u] = new]
    /\ UNCHANGED <<status, owner>>

Expose(c) ==
    /\ Open(c)
    /\ status' = [status EXCEPT ![c] = IF status[c] = "public" THEN "private" ELSE "public"]
    /\ UNCHANGED <<owner, role>>

Close(c) ==
    /\ Open(c)
    /\ status' = [status EXCEPT ![c] = "deleted"]
    /\ role' = [role EXCEPT ![c] = [u \in Users |-> "none"]]
    /\ UNCHANGED owner

Next ==
    \E c \in ChannelIds :
        \/ \E u \in Users : Create(c, u)
        \/ \E u \in Users, new \in {"none", "member", "admin"} : SetRole(c, u, new)
        \/ Expose(c) \/ Close(c)

Spec == Init /\ [][Next]_registry
=============================================================================
