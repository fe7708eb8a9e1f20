------------------------------ MODULE Channels ------------------------------
(***************************************************************************)
(* Channels and their memberships: what channel_service and                *)
(* membership_service do to the tables channels and channel_memberships    *)
(* when several requests run at once.  A request reads the channel, then   *)
(* the caller's membership, then (for operations on a member) the target's *)
(* membership, each in a SELECT of its own under READ COMMITTED, decides   *)
(* on the rows it has seen, and commits.  The decision is never re-checked *)
(* at the commit; the database checks only its constraints.                *)
(***************************************************************************)
EXTENDS FiniteSets

CONSTANTS Users, ChannelIds, RowIds, Requests

VARIABLES
    channels,      \* the row of each channel: unborn, public, private or deleted
    owner,         \* channels.owner_id
    memberships,   \* the rows of channel_memberships
    posted,        \* the channels that messages refer to
    requests       \* the requests being served

vars == <<channels, owner, memberships, posted, requests>>

Roles == {"member", "admin", "owner"}
Membership == [id: RowIds, channel: ChannelIds, user: Users, role: Roles]

OwnerOps == {"hide", "reveal", "delete"}
RoleOps == {"promote", "demote"}
TargetOps == {"add", "remove"} \cup RoleOps
Ops == {"join", "leave"} \cup OwnerOps \cup TargetOps

Visibilities == {"public", "private"}

\* A request of user (on another user, where the operation has a target) and
\* what its session has loaded: the channel's visibility, the caller's and the
\* target's membership row, if any.
Request == [pc: {"channel", "actor", "target", "commit"}, op: Ops,
            user: Users, channel: ChannelIds, on: Users, was: Visibilities,
            actor: SUBSET Membership, target: SUBSET Membership]
NoRequest == [pc |-> "idle"]

TypeOK ==
    /\ channels \in [ChannelIds -> Visibilities \cup {"unborn", "deleted"}]
    /\ owner \in [ChannelIds -> Users]
    /\ memberships \subseteq Membership
    /\ posted \subseteq ChannelIds
    /\ requests \in [Requests -> Request \cup {NoRequest}]

Init ==
    /\ channels = [c \in ChannelIds |-> "unborn"]
    /\ owner \in [ChannelIds -> Users]
    /\ memberships = {}
    /\ posted = {}
    /\ requests = [r \in Requests |-> NoRequest]

-----------------------------------------------------------------------------
(* Rows and permissions *)

Exists(c) == channels[c] \in Visibilities

Row(c, u) == {m \in memberships : m.channel = c /\ m.user = u}

\* The session keeps the first version of a row it has loaded: a second SELECT
\* of the same row (the actor is the target) does not refresh it.
Reread(c, u, loaded) ==
    {IF \E old \in loaded : old.id = m.id
     THEN CHOOSE old \in loaded : old.id = m.id
     ELSE m : m \in Row(c, u)}

\* The rows in the session of a request.
Held(r) ==
    IF requests[r] = NoRequest THEN {} ELSE requests[r].actor \cup requests[r].target

\* A primary key is a random UUID: never one that a row or a request knows.
Fresh(i) ==
    /\ \A m \in memberships : m.id # i
    /\ \A r \in Requests : \A m \in Held(r) : m.id # i

\* Mutation: the table without its UNIQUE constraint.
CanInsert_NoUnique(c, u) == Exists(c)

\* The UNIQUE and FOREIGN KEY constraints an INSERT of (c, u) must satisfy.
CanInsert(c, u) == Exists(c) /\ Row(c, u) = {}

has_channel_role(rows, roles) == \E m \in rows : m.role \in roles
can_manage_member(actor, target) ==
    /\ has_channel_role(actor, {"admin", "owner"})
    /\ ~has_channel_role(target, {"owner"})

-----------------------------------------------------------------------------
(* Requests *)

\* The answer is sent and the session's rows are forgotten.
Finish(r) == requests' = [requests EXCEPT ![r] = NoRequest]

\* One transaction inserts the channel and its owner's membership.
CreateChannel(c, u, visibility, i) ==
    /\ channels[c] = "unborn"
    /\ Fresh(i)
    /\ channels' = [channels EXCEPT ![c] = visibility]
    /\ owner' = [owner EXCEPT ![c] = u]
    /\ memberships' = memberships \cup {[id |-> i, channel |-> c, user |-> u, role |-> "owner"]}
    /\ UNCHANGED <<posted, requests>>

Begin(r, u, c, op, v) ==
    /\ requests[r] = NoRequest
    /\ op \notin TargetOps => v = u
    /\ requests' = [requests EXCEPT ![r] = [pc |-> "channel", op |-> op, user |-> u,
                        channel |-> c, on |-> v, was |-> "public",
                        actor |-> {}, target |-> {}]]
    /\ UNCHANGED <<channels, owner, memberships, posted>>

\* get_channel; join_public also looks at is_private.
ReadChannel(r) ==
    LET q == requests[r] IN
    /\ q.pc = "channel"
    /\ IF Exists(q.channel) /\ (q.op = "join" => channels[q.channel] = "public")
       THEN requests' = [requests EXCEPT ![r].pc = "actor", ![r].was = channels[q.channel]]
       ELSE Finish(r)
    /\ UNCHANGED <<channels, owner, memberships, posted>>

\* Mutation: the owner may leave his channel.
ActorMay_OwnerLeaves(op, rows) ==
    \/ op = "join" /\ rows = {}
    \/ op = "leave" /\ rows # {}
    \/ op \in OwnerOps /\ has_channel_role(rows, {"owner"})
    \/ op \in {"add", "remove"} /\ can_manage_member(rows, {})
    \/ op \in RoleOps /\ rows # {}

\* Mutation: an admin may change the channel.
ActorMay_AdminEdits(op, rows) ==
    \/ op = "join" /\ rows = {}
    \/ op = "leave" /\ rows # {} /\ ~has_channel_role(rows, {"owner"})
    \/ op \in OwnerOps \cup {"add", "remove"} /\ has_channel_role(rows, {"admin", "owner"})
    \/ op \in RoleOps /\ rows # {}

\* What the caller's own membership must be for the request to go on.
ActorMay(op, rows) ==
    \/ op = "join" /\ rows = {}
    \/ op = "leave" /\ rows # {} /\ ~has_channel_role(rows, {"owner"})
    \/ op \in OwnerOps /\ has_channel_role(rows, {"owner"})
    \/ op \in {"add", "remove"} /\ can_manage_member(rows, {})
    \/ op \in RoleOps /\ rows # {}

ReadActor(r) ==
    LET q == requests[r]
        rows == Row(q.channel, q.user)
    IN /\ q.pc = "actor"
       /\ IF ActorMay(q.op, rows)
          THEN requests' = [requests EXCEPT
                    ![r].pc = IF q.op \in TargetOps THEN "target" ELSE "commit",
                    ![r].actor = rows]
          ELSE Finish(r)
       /\ UNCHANGED <<channels, owner, memberships, posted>>

TargetMay(op, actor, rows) ==
    \/ op = "add" /\ rows = {}
    \/ op = "remove" /\ rows # {} /\ can_manage_member(actor, rows)
    \/ op \in RoleOps /\ rows # {} /\ has_channel_role(actor, {"owner"})
                      /\ ~has_channel_role(rows, {"owner"})

ReadTarget(r) ==
    LET q == requests[r]
        rows == Reread(q.channel, q.on, q.actor)
    IN /\ q.pc = "target"
       /\ IF TargetMay(q.op, q.actor, rows)
          THEN requests' = [requests EXCEPT ![r].pc = "commit", ![r].target = rows]
          ELSE Finish(r)
       /\ UNCHANGED <<channels, owner, memberships, posted>>

Commits(r, ops) == requests[r].pc = "commit" /\ requests[r].op \in ops

\* join_public and add_member: an IntegrityError is answered ALREADY_MEMBER,
\* whichever constraint it comes from.
Insert(r, i) ==
    LET q == requests[r]
        u == IF q.op = "join" THEN q.user ELSE q.on
    IN /\ Commits(r, {"join", "add"})
       /\ Fresh(i)
       /\ memberships' = IF CanInsert(q.channel, u)
            THEN memberships \cup {[id |-> i, channel |-> q.channel, user |-> u, role |-> "member"]}
            ELSE memberships
       /\ Finish(r)
       /\ UNCHANGED <<channels, owner, posted>>

\* leave and remove_member: DELETE by primary key; no row left is no error.
Delete(r) ==
    LET q == requests[r]
        seen == IF q.op = "leave" THEN q.actor ELSE q.target
    IN /\ Commits(r, {"leave", "remove"})
       /\ memberships' = {m \in memberships : \A s \in seen : m.id # s.id}
       /\ Finish(r)
       /\ UNCHANGED <<channels, owner, posted>>

\* Mutation: a role that was not validated.
ChangeRole_Unvalidated(r) ==
    /\ Commits(r, RoleOps)
    /\ memberships' = {IF m \in requests[r].target
                       THEN [m EXCEPT !.role = "moderator"] ELSE m : m \in memberships}
    /\ Finish(r)
    /\ UNCHANGED <<channels, owner, posted>>

\* Mutation: an UPDATE of every member of the channel.
ChangeRole_Everyone(r) ==
    LET q == requests[r]
        role == IF q.op = "promote" THEN "admin" ELSE "member"
    IN /\ Commits(r, RoleOps)
       /\ memberships' = {IF m.channel = q.channel /\ m.role # "owner"
                          THEN [m EXCEPT !.role = role] ELSE m : m \in memberships}
       /\ Finish(r)
       /\ UNCHANGED <<channels, owner, posted>>

\* change_role: UPDATE by primary key.  The unit of work writes nothing when
\* the new role is the one it has read, and raises when the row is gone.
ChangeRole(r) ==
    LET q == requests[r]
        role == IF q.op = "promote" THEN "admin" ELSE "member"
    IN /\ Commits(r, RoleOps)
       /\ memberships' = {IF \E s \in q.target : s.id = m.id /\ s.role # role
                          THEN [m EXCEPT !.role = role] ELSE m : m \in memberships}
       /\ Finish(r)
       /\ UNCHANGED <<channels, owner, posted>>

\* update_channel with is_private: nothing is written when the flag is as the
\* session has read it; UPDATE of a deleted channel raises.
SetPrivacy(r) ==
    LET q == requests[r]
        visibility == IF q.op = "hide" THEN "private" ELSE "public"
    IN
    /\ Commits(r, {"hide", "reveal"})
    /\ channels' = IF Exists(q.channel) /\ q.was # visibility
                   THEN [channels EXCEPT ![q.channel] = visibility]
                   ELSE channels
    /\ Finish(r)
    /\ UNCHANGED <<owner, memberships, posted>>

\* delete_channel: the memberships cascade; a message that refers to the
\* channel makes the transaction fail as a whole.
DeleteChannel(r) ==
    LET q == requests[r] IN
    /\ Commits(r, {"delete"})
    /\ IF Exists(q.channel) /\ q.channel \notin posted
       THEN /\ channels' = [channels EXCEPT ![q.channel] = "deleted"]
            /\ memberships' = {m \in memberships : m.channel # q.channel}
       ELSE UNCHANGED <<channels, memberships>>
    /\ Finish(r)
    /\ UNCHANGED <<owner, posted>>

\* The process or the connection dies: the transaction is rolled back.
Abort(r) ==
    /\ requests[r] # NoRequest
    /\ Finish(r)
    /\ UNCHANGED <<channels, owner, memberships, posted>>

\* A message is committed in the channel (see Messages).
PostMessage(c) ==
    /\ Exists(c)
    /\ posted' = posted \cup {c}
    /\ UNCHANGED <<channels, owner, memberships, requests>>

RequestStep(r) ==
    \/ \E u \in Users, c \in ChannelIds, op \in Ops, v \in Users : Begin(r, u, c, op, v)
    \/ ReadChannel(r) \/ ReadActor(r) \/ ReadTarget(r)
    \/ \E i \in RowIds : Insert(r, i)
    \/ Delete(r) \/ ChangeRole(r) \/ SetPrivacy(r) \/ DeleteChannel(r)
    \/ Abort(r)

Next ==
    \/ \E c \in ChannelIds, u \in Users, v \in Visibilities, i \in RowIds :
            CreateChannel(c, u, v, i)
    \/ \E r \in Requests : RequestStep(r)
    \/ \E c \in ChannelIds : PostMessage(c)

Spec == Init /\ [][Next]_vars

-----------------------------------------------------------------------------
(* Properties *)

\* Every channel has exactly one owner membership at all times, and it is the
\* one of channels.owner_id: no interleaving of leave, remove_member,
\* change_role and rejoining, each deciding on rows it read earlier, removes,
\* demotes or duplicates the owner.
OneOwner ==
    \A c \in ChannelIds : Exists(c) =>
        \E m \in memberships :
            /\ m.channel = c /\ m.role = "owner" /\ m.user = owner[c]
            /\ \A n \in memberships : n.channel = c /\ n.role = "owner" => n = m

\* A user has at most one membership in a channel, though join_public and
\* add_member look for it in an earlier statement than the INSERT.
UniqueMembership ==
    \A m, n \in memberships : m.channel = n.channel /\ m.user = n.user => m = n

\* Nothing refers to a channel that does not exist: deleting one takes its
\* memberships along, and is refused while messages refer to it.
NoOrphans ==
    /\ \A m \in memberships : Exists(m.channel)
    /\ \A c \in posted : Exists(c)

\* The tables stay consistent although joining, adding, removing and deleting
\* each decide in an earlier statement than they write.
ConsistentTables == UniqueMembership /\ NoOrphans

\* What only the owner may do (privacy, deletion, roles) is done by the owner
\* of that moment, although the request looked at the membership earlier.
RoleChanges(c) ==
    \E m \in memberships, n \in memberships' :
        m.channel = c /\ m.id = n.id /\ m.role # n.role

OwnersRequest(c) ==
    \E r \in Requests :
        /\ requests[r].pc = "commit"
        /\ requests[r].channel = c
        /\ has_channel_role(Row(c, requests[r].user), {"owner"})

ByTheOwner ==
    \A c \in ChannelIds :
        (Exists(c) /\ channels'[c] # channels[c]) \/ RoleChanges(c) => OwnersRequest(c)

OwnerOnly == [][ByTheOwner]_vars

\* The role of a user in a channel, read off the table.
RoleOf(c, u) ==
    IF Row(c, u) = {} THEN "none" ELSE LET m == CHOOSE m \in Row(c, u) : TRUE IN m.role

RolesNow == [c \in ChannelIds |-> [u \in Users |-> RoleOf(c, u)]]

Registry == INSTANCE ChannelRegistry WITH status <- channels, role <- RolesNow

\* However requests interleave, and however stale the rows are that they decide
\* on, to an observer of the tables they look like a register of channels that
\* is changed atomically, one user at a time, and whose owner nobody touches.
ImplementsRegistry == Registry!Spec
=============================================================================
