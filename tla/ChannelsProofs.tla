--------------------------- MODULE ChannelsProofs ---------------------------
(***************************************************************************)
(* The owner of a channel survives every interleaving of requests, for     *)
(* any number of users, channels, membership rows and concurrent           *)
(* requests.                                                               *)
(*                                                                         *)
(* Why an induction is needed: a request commits on rows it has read       *)
(* before, and the properties say nothing of those.  The invariant adds    *)
(* that a row held by a request and the row the table now has under the    *)
(* same key agree on whether it is the owner's (no operation turns one     *)
(* into the other), and that an owner's row, once seen, stays as long as   *)
(* its channel.                                                            *)
(***************************************************************************)
EXTENDS Channels, TLAPS

\* A primary key identifies one row.
UniqueIds == \A m, n \in memberships : m.id = n.id => m = n

\* The role "owner" is given to channels.owner_id and to nobody else.
OwnerRows == \A m \in memberships : m.role = "owner" => m.user = owner[m.channel]

OwnerPresent ==
    \A c \in ChannelIds : Exists(c) =>
        \E m \in memberships : m.channel = c /\ m.role = "owner"

\* How a row s that a request has loaded relates to the table.
Agrees(s) ==
    /\ channels[s.channel] # "unborn"
    /\ s.role = "owner" /\ Exists(s.channel) => s \in memberships
    /\ \A m \in memberships : m.id = s.id =>
            m.channel = s.channel /\ m.user = s.user /\ (m.role = "owner" <=> s.role = "owner")

HeldRows ==
    \A r \in Requests : \A s \in Held(r) :
        s.channel = requests[r].channel /\ Agrees(s)

ActorIsCaller ==
    \A r \in Requests : requests[r] # NoRequest =>
        \A s \in requests[r].actor : s.user = requests[r].user

\* What the checks have established about a request that is about to commit.
DecidedBy(q) ==
    /\ q.op = "leave" => \A s \in q.actor : s.role # "owner"
    /\ q.op \in {"remove"} \cup RoleOps => \A s \in q.target : s.role # "owner"
    /\ q.op \in OwnerOps \cup RoleOps => \E s \in q.actor : s.role = "owner"

Decided == \A r \in Requests : requests[r].pc = "commit" => DecidedBy(requests[r])

Tables == UniqueIds /\ UniqueMembership /\ NoOrphans /\ OwnerRows /\ OwnerPresent
Sessions == HeldRows /\ ActorIsCaller /\ Decided
IInv == TypeOK /\ Tables /\ Sessions

\* What a request in the middle of its work looks like.
LEMMA ActiveRequest ==
    ASSUME TypeOK, NEW r \in Requests, requests[r].pc # "idle"
    PROVE  /\ requests[r] \in Request
           /\ requests[r] # NoRequest
           /\ Held(r) = requests[r].actor \cup requests[r].target
BY DEF TypeOK, NoRequest, Held

\* Sessions survive when requests only end and every row still held agrees
\* with the tables after the step.
LEMMA FinishKeepsSessions ==
    ASSUME TypeOK, Sessions, NEW r \in Requests,
           Finish(r) \/ UNCHANGED requests,
           \A p \in Requests : \A s \in Held(p) : Agrees(s) => Agrees(s)'
    PROVE  Sessions' /\ requests' \in [Requests -> Request \cup {NoRequest}]
<1>1. \A p \in Requests : requests'[p] = requests[p] \/ requests'[p] = NoRequest
  BY DEF Finish, TypeOK
<1>2. requests' \in [Requests -> Request \cup {NoRequest}]
  BY DEF Finish, TypeOK
<1>3. HeldRows'
  <2> SUFFICES ASSUME NEW p \in Requests, NEW s \in Held(p)'
               PROVE  s.channel = requests'[p].channel /\ Agrees(s)'
    BY DEF HeldRows
  <2>1. requests'[p] = requests[p] /\ s \in Held(p)
    BY <1>1 DEF Held
  <2> QED BY <2>1 DEF Sessions, HeldRows
<1>4. ActorIsCaller'
  BY <1>1 DEF Sessions, ActorIsCaller
<1>5. Decided'
  <2> SUFFICES ASSUME NEW p \in Requests, requests'[p].pc = "commit"
               PROVE  DecidedBy(requests'[p])
    BY DEF Decided, DecidedBy
  <2>1. requests'[p] # NoRequest
    BY DEF NoRequest
  <2>2. requests'[p] = requests[p]
    BY <1>1, <2>1
  <2> QED BY <2>2 DEF Sessions, Decided
<1> QED BY <1>2, <1>3, <1>4, <1>5 DEF Sessions

\* Sessions survive a step that leaves the tables alone and loads rows that
\* agree with them into one request.
LEMMA LoadKeepsSessions ==
    ASSUME TypeOK, Sessions, NEW r \in Requests, NEW q \in Request,
           requests' = [requests EXCEPT ![r] = q],
           UNCHANGED <<channels, owner, memberships, posted>>,
           \A s \in q.actor \cup q.target : s.channel = q.channel /\ Agrees(s),
           \A s \in q.actor : s.user = q.user,
           q.pc = "commit" => DecidedBy(q)
    PROVE  Sessions' /\ TypeOK'
<1>1. requests'[r] = q /\ \A p \in Requests \ {r} : requests'[p] = requests[p]
  BY DEF TypeOK
<1>2. TypeOK'
  BY DEF TypeOK
<1>3. HeldRows'
  <2> SUFFICES ASSUME NEW p \in Requests, NEW s \in Held(p)'
               PROVE  s.channel = requests'[p].channel /\ Agrees(s)'
    BY DEF HeldRows
  <2>1. Agrees(s) <=> Agrees(s)'
    BY DEF Agrees, Exists
  <2>2. CASE p = r
    BY <1>1, <2>1, <2>2 DEF Held
  <2>3. CASE p # r
    BY <1>1, <2>1, <2>3 DEF Held, Sessions, HeldRows
  <2> QED BY <2>2, <2>3
<1>4. ActorIsCaller'
  BY <1>1 DEF Sessions, ActorIsCaller
<1>5. Decided'
  BY <1>1 DEF Sessions, Decided, DecidedBy
<1> QED BY <1>2, <1>3, <1>4, <1>5 DEF Sessions

\* A row of the table agrees with the table.
LEMMA RowAgrees ==
    ASSUME TypeOK, Tables, NEW m \in memberships
    PROVE  Agrees(m)
<1>1. m.channel \in ChannelIds
  BY DEF TypeOK, Membership
<1>2. channels[m.channel] # "unborn"
  BY <1>1 DEF Tables, NoOrphans, Exists, Visibilities
<1> QED BY <1>2 DEF Agrees, Tables, UniqueIds

-----------------------------------------------------------------------------
(* The actions, one lemma each *)

LEMMA CreateStep ==
    ASSUME IInv, NEW c \in ChannelIds, NEW u \in Users, NEW v \in Visibilities,
           NEW i \in RowIds, CreateChannel(c, u, v, i)
    PROVE  IInv'
<1> DEFINE new == [id |-> i, channel |-> c, user |-> u, role |-> "owner"]
<1> USE DEF IInv
<1>1. /\ channels[c] = "unborn" /\ ~Exists(c)
      /\ channels' = [channels EXCEPT ![c] = v]
      /\ owner' = [owner EXCEPT ![c] = u]
      /\ memberships' = memberships \cup {new}
      /\ posted' = posted /\ requests' = requests
      /\ \A m \in memberships : m.id # i
      /\ \A r \in Requests : \A m \in Held(r) : m.id # i
  BY DEF CreateChannel, Fresh, Exists, Visibilities
<1>2. TypeOK'
  BY <1>1 DEF TypeOK, Membership, Roles, Visibilities
<1>3. \A m \in memberships : m.channel # c /\ m.channel \in ChannelIds
  BY <1>1 DEF Tables, NoOrphans, TypeOK, Membership
<1>4. Tables'
  <2>1. UniqueIds' /\ UniqueMembership'
    BY <1>1, <1>3 DEF Tables, UniqueIds, UniqueMembership
  <2>2. NoOrphans'
    BY <1>1, <1>3 DEF Tables, NoOrphans, Exists, TypeOK
  <2>3. OwnerRows'
    BY <1>1, <1>3 DEF Tables, OwnerRows, TypeOK
  <2>4. OwnerPresent'
    <3> SUFFICES ASSUME NEW d \in ChannelIds, Exists(d)'
                 PROVE  \E m \in memberships' : m.channel = d /\ m.role = "owner"
      BY DEF OwnerPresent
    <3>1. CASE d = c
      <4>1. new \in memberships' /\ new.channel = c /\ new.role = "owner"
        BY <1>1
      <4> QED BY <3>1, <4>1
    <3>2. CASE d # c
      <4>1. Exists(d)
        BY <1>1, <3>2 DEF Exists, TypeOK
      <4> QED BY <1>1, <4>1 DEF Tables, OwnerPresent
    <3> QED BY <3>1, <3>2
  <2> QED BY <2>1, <2>2, <2>3, <2>4 DEF Tables
<1>5. ASSUME NEW r \in Requests, NEW s \in Held(r), Agrees(s)
      PROVE  Agrees(s)'
  <2>1. s.channel \in ChannelIds /\ s.channel # c
    BY <1>1, <1>5 DEF Sessions, HeldRows, Held, TypeOK, Request, Agrees, Membership
  <2>2. channels'[s.channel] = channels[s.channel]
    BY <1>1, <2>1 DEF TypeOK
  <2>3. s.id # i
    BY <1>1
  <2> QED BY <1>1, <1>5, <2>2, <2>3 DEF Agrees, Exists
<1>6. CASE Requests = {}
  BY <1>1, <1>2, <1>4, <1>6 DEF Sessions, HeldRows, ActorIsCaller, Decided
<1>7. CASE Requests # {}
  <2>1. PICK r \in Requests : TRUE
    BY <1>7
  <2> QED BY <1>1, <1>2, <1>4, <1>5, <2>1, FinishKeepsSessions
<1> QED BY <1>6, <1>7

\* Begin and the three reads load rows of the tables and nothing else.
LEMMA ReadStep ==
    ASSUME IInv, NEW r \in Requests,
           \/ \E u \in Users, c \in ChannelIds, op \in Ops, v \in Users : Begin(r, u, c, op, v)
           \/ ReadChannel(r)
           \/ ReadActor(r)
           \/ ReadTarget(r)
    PROVE  IInv'
<1> DEFINE q == requests[r]
<1> USE DEF IInv
<1>1. UNCHANGED <<channels, owner, memberships, posted>>
  BY DEF Begin, ReadChannel, ReadActor, ReadTarget
<1>2. Tables'
  BY <1>1 DEF Tables, UniqueIds, UniqueMembership, NoOrphans, OwnerRows, OwnerPresent, Exists
<1>3. CASE Finish(r)
  <2>1. \A p \in Requests : \A s \in Held(p) : Agrees(s) => Agrees(s)'
    BY <1>1 DEF Agrees, Exists
  <2> QED BY <1>1, <1>2, <1>3, <2>1, FinishKeepsSessions DEF TypeOK
<1>4. ASSUME NEW u \in Users, NEW c \in ChannelIds, NEW op \in Ops, NEW v \in Users,
             Begin(r, u, c, op, v)
      PROVE  IInv'
  <2> DEFINE new == [pc |-> "channel", op |-> op, user |-> u, channel |-> c, on |-> v,
                     was |-> "public", actor |-> {}, target |-> {}]
  <2>1. new \in Request
    BY DEF Request, Visibilities
  <2>2. requests' = [requests EXCEPT ![r] = new]
    BY <1>4 DEF Begin
  <2>3. Sessions' /\ TypeOK'
    BY <1>1, <2>1, <2>2, LoadKeepsSessions
  <2> QED BY <1>2, <2>3
<1>5. CASE ReadChannel(r) /\ ~Finish(r)
  <2> DEFINE new == [q EXCEPT !.pc = "actor", !.was = channels[q.channel]]
  <2>1. q \in Request /\ q # NoRequest /\ Held(r) = q.actor \cup q.target
    BY <1>5, ActiveRequest DEF ReadChannel
  <2>2. channels[q.channel] \in Visibilities /\ requests' = [requests EXCEPT ![r] = new]
    BY <1>5 DEF ReadChannel, Exists, TypeOK
  <2>3. /\ new \in Request /\ new.pc = "actor"
        /\ new.actor = q.actor /\ new.target = q.target
        /\ new.channel = q.channel /\ new.user = q.user
    BY <2>1, <2>2 DEF Request
  <2> HIDE DEF new
  <2>4. \A s \in new.actor \cup new.target : s.channel = new.channel /\ Agrees(s)
    BY <2>1, <2>3 DEF Sessions, HeldRows
  <2>5. \A s \in new.actor : s.user = new.user
    BY <2>1, <2>3 DEF Sessions, ActorIsCaller
  <2>6. Sessions' /\ TypeOK'
    BY <1>1, <2>2, <2>3, <2>4, <2>5, LoadKeepsSessions
  <2> QED BY <1>2, <2>6
<1>6. CASE ReadActor(r) /\ ~Finish(r)
  <2> DEFINE rows == Row(q.channel, q.user)
             new == [q EXCEPT !.pc = IF q.op \in TargetOps THEN "target" ELSE "commit",
                              !.actor = rows]
  <2>1. q \in Request /\ q # NoRequest /\ Held(r) = q.actor \cup q.target
    BY <1>6, ActiveRequest DEF ReadActor
  <2>2. ActorMay(q.op, rows) /\ requests' = [requests EXCEPT ![r] = new]
    BY <1>6 DEF ReadActor
  <2>3. \A s \in rows : s.channel = q.channel /\ s.user = q.user /\ Agrees(s) /\ s \in Membership
    BY RowAgrees DEF Row, TypeOK
  <2>4. /\ new \in Request /\ new.actor = rows /\ new.target = q.target /\ new.op = q.op
        /\ new.channel = q.channel /\ new.user = q.user
        /\ new.pc = "commit" => q.op \notin TargetOps
    BY <2>1, <2>3 DEF Request
  <2>5. new.pc = "commit" => DecidedBy(new)
    BY <2>2, <2>4 DEF DecidedBy, ActorMay, has_channel_role, TargetOps, RoleOps, OwnerOps
  <2> HIDE DEF new
  <2>6. \A s \in new.actor \cup new.target : s.channel = new.channel /\ Agrees(s)
    BY <2>1, <2>3, <2>4 DEF Sessions, HeldRows
  <2>7. Sessions' /\ TypeOK'
    BY <1>1, <2>2, <2>3, <2>4, <2>5, <2>6, LoadKeepsSessions
  <2> QED BY <1>2, <2>7
<1>7. CASE ReadTarget(r) /\ ~Finish(r)
  <2> DEFINE rows == Reread(q.channel, q.on, q.actor)
             new == [q EXCEPT !.pc = "commit", !.target = rows]
  <2>1. q \in Request /\ q # NoRequest /\ Held(r) = q.actor \cup q.target
    BY <1>7, ActiveRequest DEF ReadTarget
  <2>2. TargetMay(q.op, q.actor, rows) /\ requests' = [requests EXCEPT ![r] = new]
    BY <1>7 DEF ReadTarget
  <2>3. \A s \in rows : s.channel = q.channel /\ Agrees(s) /\ s \in Membership
    <3>1. \A s \in rows : s \in q.actor \/ s \in Row(q.channel, q.on)
      BY DEF Reread
    <3>2. \A s \in Row(q.channel, q.on) : s.channel = q.channel /\ Agrees(s) /\ s \in Membership
      BY RowAgrees DEF Row, TypeOK
    <3>3. \A s \in q.actor : s.channel = q.channel /\ Agrees(s) /\ s \in Membership
      BY <2>1 DEF Sessions, HeldRows, Request
    <3> QED BY <3>1, <3>2, <3>3
  <2>4. /\ new \in Request /\ new.actor = q.actor /\ new.target = rows /\ new.op = q.op
        /\ new.channel = q.channel /\ new.user = q.user
    BY <2>1, <2>3 DEF Request
  <2>5. DecidedBy(new)
    BY <2>2, <2>4 DEF DecidedBy, TargetMay, has_channel_role, can_manage_member,
                      TargetOps, RoleOps, OwnerOps
  <2> HIDE DEF new
  <2>6. \A s \in new.actor \cup new.target : s.channel = new.channel /\ Agrees(s)
    BY <2>1, <2>3, <2>4 DEF Sessions, HeldRows
  <2>7. \A s \in new.actor : s.user = new.user
    BY <2>1, <2>4 DEF Sessions, ActorIsCaller
  <2>8. Sessions' /\ TypeOK'
    BY <1>1, <2>2, <2>4, <2>5, <2>6, <2>7, LoadKeepsSessions
  <2> QED BY <1>2, <2>8
<1> QED BY <1>3, <1>4, <1>5, <1>6, <1>7

\* A request at its commit, and how the rows it holds agree with the tables.
LEMMA Committing ==
    ASSUME IInv, NEW r \in Requests, requests[r].pc = "commit"
    PROVE  /\ requests[r] \in Request
           /\ DecidedBy(requests[r])
           /\ \A s \in requests[r].actor \cup requests[r].target :
                s.channel = requests[r].channel /\ Agrees(s)
           /\ \A s \in requests[r].actor : s.user = requests[r].user
BY ActiveRequest DEF IInv, Sessions, HeldRows, ActorIsCaller, Decided

LEMMA InsertStep ==
    ASSUME IInv, NEW r \in Requests, NEW i \in RowIds, Insert(r, i)
    PROVE  IInv'
<1> DEFINE c == requests[r].channel
           u == IF requests[r].op = "join" THEN requests[r].user ELSE requests[r].on
           new == [id |-> i, channel |-> c, user |-> u, role |-> "member"]
<1> USE DEF IInv
<1>1. /\ requests[r].pc = "commit"
      /\ memberships' = IF CanInsert(c, u) THEN memberships \cup {new} ELSE memberships
      /\ \A m \in memberships : m.id # i
      /\ \A p \in Requests : \A m \in Held(p) : m.id # i
      /\ Finish(r) /\ UNCHANGED <<channels, owner, posted>>
  BY DEF Insert, Commits, Fresh
<1>2. c \in ChannelIds /\ u \in Users
  BY <1>1, Committing DEF Request
<1> HIDE DEF c, u
<1>3. \A m \in memberships' : m \in memberships \/ (m = new /\ CanInsert(c, u))
  <2>1. CASE CanInsert(c, u)
    BY <1>1, <2>1
  <2>2. CASE ~CanInsert(c, u)
    BY <1>1, <2>2
  <2> QED BY <2>1, <2>2
<1>4. Tables'
  <2>1. UniqueIds'
    BY <1>1, <1>3 DEF Tables, UniqueIds
  <2>2. UniqueMembership'
    BY <1>3 DEF Tables, UniqueMembership, CanInsert, Row
  <2>3. NoOrphans'
    BY <1>1, <1>3 DEF Tables, NoOrphans, CanInsert, Exists
  <2>4. OwnerRows'
    BY <1>1, <1>3 DEF Tables, OwnerRows
  <2>5. OwnerPresent'
    BY <1>1 DEF Tables, OwnerPresent, Exists
  <2> QED BY <2>1, <2>2, <2>3, <2>4, <2>5 DEF Tables
<1>5. memberships' \subseteq Membership
  BY <1>2, <1>3 DEF TypeOK, Membership, Roles
<1>6. \A p \in Requests : \A s \in Held(p) : Agrees(s) => Agrees(s)'
  BY <1>1, <1>3 DEF Agrees, Exists
<1> QED BY <1>1, <1>4, <1>5, <1>6, FinishKeepsSessions DEF TypeOK

\* leave and remove_member only ever hold rows that are not the owner's.
LEMMA DeleteStep ==
    ASSUME IInv, NEW r \in Requests, Delete(r)
    PROVE  IInv'
<1> DEFINE q == requests[r]
           seen == IF q.op = "leave" THEN q.actor ELSE q.target
<1> USE DEF IInv
<1>1. /\ q.pc = "commit" /\ q.op \in {"leave", "remove"}
      /\ memberships' = {m \in memberships : \A s \in seen : m.id # s.id}
      /\ Finish(r) /\ UNCHANGED <<channels, owner, posted>>
  BY DEF Delete, Commits
<1>2. \A s \in seen : s.role # "owner" /\ Agrees(s)
  BY <1>1, Committing DEF DecidedBy
<1>3. \A m \in memberships : m.role = "owner" => m \in memberships'
  BY <1>1, <1>2 DEF Agrees
<1>4. memberships' \subseteq memberships
  BY <1>1
<1>5. Tables'
  <2>1. UniqueIds' /\ UniqueMembership' /\ NoOrphans' /\ OwnerRows'
    BY <1>1, <1>4 DEF Tables, UniqueIds, UniqueMembership, NoOrphans, OwnerRows, Exists
  <2>2. OwnerPresent'
    BY <1>1, <1>3 DEF Tables, OwnerPresent, Exists
  <2> QED BY <2>1, <2>2 DEF Tables
<1>6. \A p \in Requests : \A s \in Held(p) : Agrees(s) => Agrees(s)'
  BY <1>1, <1>3, <1>4 DEF Agrees, Exists
<1> QED BY <1>1, <1>4, <1>5, <1>6, FinishKeepsSessions DEF TypeOK

LEMMA WithRole ==
    ASSUME NEW m \in Membership, NEW role \in Roles, NEW n, n = [m EXCEPT !.role = role]
    PROVE  /\ n \in Membership /\ n.role = role
           /\ n.id = m.id /\ n.channel = m.channel /\ n.user = m.user
BY DEF Membership

\* change_role writes "admin" or "member", and never over an owner's row.
LEMMA RoleStep ==
    ASSUME IInv, NEW r \in Requests, ChangeRole(r)
    PROVE  /\ IInv'
           /\ \A n \in memberships' : \E m \in memberships :
                /\ m.id = n.id
                /\ m.role # n.role => m.channel = requests[r].channel
<1> DEFINE q == requests[r]
           role == IF q.op = "promote" THEN "admin" ELSE "member"
           New(m) == IF \E s \in q.target : s.id = m.id /\ s.role # role
                     THEN [m EXCEPT !.role = role] ELSE m
<1> USE DEF IInv
<1>1. /\ q.pc = "commit" /\ q.op \in RoleOps
      /\ memberships' = {New(m) : m \in memberships}
      /\ Finish(r) /\ UNCHANGED <<channels, owner, posted>>
  BY DEF ChangeRole, Commits
<1>2. \A s \in q.target : s.role # "owner" /\ Agrees(s) /\ s.channel = q.channel
  BY <1>1, Committing DEF DecidedBy
<1>3. ASSUME NEW m \in memberships
      PROVE  /\ New(m) \in Membership
             /\ New(m).id = m.id /\ New(m).channel = m.channel /\ New(m).user = m.user
             /\ \/ New(m) = m
                \/ m.role # "owner" /\ New(m).role # "owner" /\ m.channel = q.channel
  <2>1. m \in Membership
    BY DEF TypeOK
  <2>2. CASE \E s \in q.target : s.id = m.id /\ s.role # role
    <3>1. m.role # "owner" /\ m.channel = q.channel
      BY <1>2, <2>2 DEF Agrees
    <3> DEFINE n == [m EXCEPT !.role = role]
    <3>2. New(m) = n
      BY <2>2
    <3>3. role \in Roles /\ role # "owner"
      BY DEF Roles
    <3> HIDE DEF role
    <3>4. /\ n \in Membership /\ n.role # "owner"
          /\ n.id = m.id /\ n.channel = m.channel /\ n.user = m.user
      BY <2>1, <3>3, WithRole
    <3> HIDE DEF n, New
    <3> QED BY <3>1, <3>2, <3>4
  <2>3. CASE ~\E s \in q.target : s.id = m.id /\ s.role # role
    BY <2>1, <2>3
  <2> QED BY <2>2, <2>3
<1> HIDE DEF New
<1>4. \A m \in memberships : m.role = "owner" => m \in memberships'
  BY <1>1, <1>3
<1>5. Tables'
  <2>1. UniqueIds'
    BY <1>1, <1>3 DEF Tables, UniqueIds
  <2>2. UniqueMembership'
    BY <1>1, <1>3 DEF Tables, UniqueMembership
  <2>3. NoOrphans'
    BY <1>1, <1>3 DEF Tables, NoOrphans, Exists
  <2>4. OwnerRows'
    BY <1>1, <1>3 DEF Tables, OwnerRows
  <2>5. OwnerPresent'
    BY <1>1, <1>4 DEF Tables, OwnerPresent, Exists
  <2> QED BY <2>1, <2>2, <2>3, <2>4, <2>5 DEF Tables
<1>6. memberships' \subseteq Membership
  BY <1>1, <1>3
<1>7. \A p \in Requests : \A s \in Held(p) : Agrees(s) => Agrees(s)'
  <2> SUFFICES ASSUME NEW p \in Requests, NEW s \in Held(p), Agrees(s)
               PROVE  Agrees(s)'
    OBVIOUS
  <2>1. \A n \in memberships' : n.id = s.id =>
            n.channel = s.channel /\ n.user = s.user /\ (n.role = "owner" <=> s.role = "owner")
    BY <1>1, <1>3 DEF Agrees
  <2> QED BY <1>1, <1>4, <2>1 DEF Agrees, Exists
<1>8. IInv'
  BY <1>1, <1>5, <1>6, <1>7, FinishKeepsSessions DEF TypeOK
<1>9. \A n \in memberships' : \E m \in memberships :
        m.id = n.id /\ (m.role # n.role => m.channel = q.channel)
  BY <1>1, <1>3
<1> QED BY <1>8, <1>9

LEMMA PrivacyStep ==
    ASSUME IInv, NEW r \in Requests, SetPrivacy(r)
    PROVE  IInv'
<1> USE DEF IInv
<1> DEFINE c == requests[r].channel
<1>1. /\ \A d \in ChannelIds : channels'[d] = channels[d] \/ (Exists(d) /\ Exists(d)')
      /\ channels' \in [ChannelIds -> Visibilities \cup {"unborn", "deleted"}]
      /\ Finish(r) /\ UNCHANGED <<owner, memberships, posted>>
  BY DEF SetPrivacy, TypeOK, Exists, Visibilities
<1>2. \A d \in ChannelIds : Exists(d) <=> Exists(d)'
  BY <1>1 DEF Exists
<1>3. Tables'
  <2>1. UniqueIds' /\ UniqueMembership' /\ OwnerRows'
    BY <1>1 DEF Tables, UniqueIds, UniqueMembership, OwnerRows
  <2>2. NoOrphans' /\ OwnerPresent'
    BY <1>1, <1>2 DEF Tables, NoOrphans, OwnerPresent, TypeOK, Membership
  <2> QED BY <2>1, <2>2 DEF Tables
<1>4. \A p \in Requests : \A s \in Held(p) : Agrees(s) => Agrees(s)'
  <2> SUFFICES ASSUME NEW p \in Requests, NEW s \in Held(p), Agrees(s)
               PROVE  Agrees(s)'
    OBVIOUS
  <2>1. s.channel \in ChannelIds
    BY DEF Held, TypeOK, Request, Membership
  <2>2. channels'[s.channel] # "unborn"
    BY <1>1, <2>1 DEF Agrees, Exists, Visibilities
  <2> QED BY <1>1, <1>2, <2>1, <2>2 DEF Agrees
<1> QED BY <1>1, <1>3, <1>4, FinishKeepsSessions DEF TypeOK

\* The memberships cascade with the channel, so no row outlives it.
LEMMA DeleteChannelStep ==
    ASSUME IInv, NEW r \in Requests, DeleteChannel(r)
    PROVE  IInv'
<1> USE DEF IInv
<1> DEFINE c == requests[r].channel
<1>1. Finish(r) /\ UNCHANGED <<owner, posted>>
  BY DEF DeleteChannel
<1>2. CASE UNCHANGED <<channels, memberships>>
  <2>1. Tables'
    BY <1>1, <1>2 DEF Tables, UniqueIds, UniqueMembership, NoOrphans, OwnerRows, OwnerPresent, Exists
  <2>2. \A p \in Requests : \A s \in Held(p) : Agrees(s) => Agrees(s)'
    BY <1>2 DEF Agrees, Exists
  <2> QED BY <1>1, <1>2, <2>1, <2>2, FinishKeepsSessions DEF TypeOK
<1>3. CASE ~UNCHANGED <<channels, memberships>>
  <2>1. /\ c \notin posted
        /\ channels' = [channels EXCEPT ![c] = "deleted"]
        /\ memberships' = {m \in memberships : m.channel # c}
    BY <1>3 DEF DeleteChannel
  <2> HIDE DEF c
  <2>2. /\ channels' \in [ChannelIds -> Visibilities \cup {"unborn", "deleted"}]
        /\ \A d \in ChannelIds : d # c => channels'[d] = channels[d]
        /\ \A d \in ChannelIds : d = c => channels'[d] = "deleted"
    BY <2>1 DEF TypeOK
  <2>3. Tables'
    <3>1. UniqueIds' /\ UniqueMembership' /\ OwnerRows'
      BY <1>1, <2>1 DEF Tables, UniqueIds, UniqueMembership, OwnerRows
    <3>2. NoOrphans'
      BY <1>1, <2>1, <2>2 DEF Tables, NoOrphans, Exists, TypeOK, Membership
    <3>3. OwnerPresent'
      <4> SUFFICES ASSUME NEW d \in ChannelIds, Exists(d)'
                   PROVE  \E m \in memberships' : m.channel = d /\ m.role = "owner"
        BY DEF OwnerPresent
      <4>1. d # c /\ Exists(d)
        BY <2>2 DEF Exists, Visibilities
      <4> QED BY <2>1, <4>1 DEF Tables, OwnerPresent
    <3> QED BY <3>1, <3>2, <3>3 DEF Tables
  <2>4. \A p \in Requests : \A s \in Held(p) : Agrees(s) => Agrees(s)'
    <3> SUFFICES ASSUME NEW p \in Requests, NEW s \in Held(p), Agrees(s)
                 PROVE  Agrees(s)'
      OBVIOUS
    <3>1. s.channel \in ChannelIds
      BY DEF Held, TypeOK, Request, Membership
    <3>2. channels'[s.channel] # "unborn"
      BY <2>2, <3>1 DEF Agrees
    <3>3. Exists(s.channel)' => s.channel # c /\ Exists(s.channel)
      BY <2>2, <3>1 DEF Exists, Visibilities
    <3> QED BY <2>1, <3>2, <3>3 DEF Agrees
  <2> QED BY <1>1, <2>1, <2>2, <2>3, <2>4, FinishKeepsSessions DEF TypeOK
<1> QED BY <1>2, <1>3

\* Requests that end without a commit, and messages posted in a channel.
LEMMA OtherStep ==
    ASSUME IInv, (\E r \in Requests : Abort(r)) \/ (\E c \in ChannelIds : PostMessage(c))
    PROVE  IInv'
<1> USE DEF IInv
<1>1. CASE \E r \in Requests : Abort(r)
  <2>1. PICK r \in Requests : Abort(r)
    BY <1>1
  <2>2. Finish(r) /\ UNCHANGED <<channels, owner, memberships, posted>>
    BY <2>1 DEF Abort
  <2>3. Tables'
    BY <2>2 DEF Tables, UniqueIds, UniqueMembership, NoOrphans, OwnerRows, OwnerPresent, Exists
  <2>4. \A p \in Requests : \A s \in Held(p) : Agrees(s) => Agrees(s)'
    BY <2>2 DEF Agrees, Exists
  <2> QED BY <2>2, <2>3, <2>4, FinishKeepsSessions DEF TypeOK
<1>2. CASE \E c \in ChannelIds : PostMessage(c)
  <2>1. PICK c \in ChannelIds : PostMessage(c)
    BY <1>2
  <2>2. /\ Exists(c) /\ posted' = posted \cup {c}
        /\ UNCHANGED <<channels, owner, memberships, requests>>
    BY <2>1 DEF PostMessage
  <2>3. TypeOK'
    BY <2>2 DEF TypeOK
  <2>4. Tables'
    BY <2>2 DEF Tables, UniqueIds, UniqueMembership, NoOrphans, OwnerRows, OwnerPresent, Exists
  <2>5. Sessions'
    BY <2>2 DEF Sessions, HeldRows, ActorIsCaller, Decided, Held, Agrees, Exists
  <2> QED BY <2>3, <2>4, <2>5
<1> QED BY <1>1, <1>2

-----------------------------------------------------------------------------
(* The theorems *)

LEMMA Initially == Init => IInv
<1> SUFFICES ASSUME Init PROVE IInv
  OBVIOUS
<1>1. TypeOK
  BY DEF Init, TypeOK
<1>2. Tables
  BY DEF Init, Tables, UniqueIds, UniqueMembership, NoOrphans, OwnerRows, OwnerPresent,
         Exists, Visibilities
<1>3. Sessions
  BY DEF Init, Sessions, HeldRows, ActorIsCaller, Decided, Held, NoRequest
<1> QED BY <1>1, <1>2, <1>3 DEF IInv

LEMMA Inductive == IInv /\ [Next]_vars => IInv'
<1> SUFFICES ASSUME IInv, [Next]_vars
             PROVE  IInv'
  OBVIOUS
<1>1. ASSUME NEW c \in ChannelIds, NEW u \in Users, NEW v \in Visibilities, NEW i \in RowIds,
             CreateChannel(c, u, v, i)
      PROVE  IInv'
  BY <1>1, CreateStep
<1>2. ASSUME NEW r \in Requests, RequestStep(r)
      PROVE  IInv'
  BY <1>2, ReadStep, InsertStep, DeleteStep, RoleStep, PrivacyStep, DeleteChannelStep, OtherStep
     DEF RequestStep
<1>3. ASSUME NEW c \in ChannelIds, PostMessage(c)
      PROVE  IInv'
  BY <1>3, OtherStep
<1>4. CASE UNCHANGED vars
  BY <1>4 DEF vars, IInv, TypeOK, Tables, UniqueIds, UniqueMembership, NoOrphans, OwnerRows,
              OwnerPresent, Sessions, HeldRows, ActorIsCaller, Decided, DecidedBy, Held,
              Agrees, Exists
<1> QED BY <1>1, <1>2, <1>3, <1>4 DEF Next

\* The invariant that carries the three theorems below.
THEOREM InvariantHolds == Spec => []IInv
BY Initially, Inductive, PTL DEF Spec

\* The tables and the sessions of the requests stay well typed.
THEOREM TypeCorrect == Spec => []TypeOK
<1>1. IInv => TypeOK
  BY DEF IInv
<1> QED BY <1>1, InvariantHolds, PTL

\* A channel never loses its owner's membership and never gets a second one.
THEOREM OwnerIsUnique == Spec => []OneOwner
<1>1. IInv => OneOwner
  <2> SUFFICES ASSUME IInv, NEW c \in ChannelIds, Exists(c)
               PROVE  \E m \in memberships :
                        /\ m.channel = c /\ m.role = "owner" /\ m.user = owner[c]
                        /\ \A n \in memberships : n.channel = c /\ n.role = "owner" => n = m
    BY DEF OneOwner
  <2>1. PICK m \in memberships : m.channel = c /\ m.role = "owner"
    BY DEF IInv, Tables, OwnerPresent
  <2>2. \A n \in memberships : n.role = "owner" => n.user = owner[n.channel]
    BY DEF IInv, Tables, OwnerRows
  <2> QED BY <2>1, <2>2 DEF IInv, Tables, UniqueMembership
<1> QED BY <1>1, InvariantHolds, PTL

\* Memberships are unique per channel and user, and nothing refers to a
\* channel that is gone.
THEOREM TablesAreConsistent == Spec => []ConsistentTables
<1>1. IInv => ConsistentTables
  BY DEF IInv, Tables, ConsistentTables
<1> QED BY <1>1, InvariantHolds, PTL

\* A request decided by the owner's row still holds the owner's current row.
LEMMA OwnerStillOwner ==
    ASSUME IInv, NEW r \in Requests, requests[r].pc = "commit",
           requests[r].op \in OwnerOps \cup RoleOps, Exists(requests[r].channel)
    PROVE  OwnersRequest(requests[r].channel)
<1>1. PICK s \in requests[r].actor : s.role = "owner"
  BY Committing DEF DecidedBy
<1>2. s.channel = requests[r].channel /\ s.user = requests[r].user /\ s \in memberships
  BY <1>1, Committing DEF Agrees
<1> QED BY <1>1, <1>2 DEF OwnersRequest, has_channel_role, Row

\* Privacy, deletion and roles change only in a request of whoever owns the
\* channel when the change is committed.
THEOREM OwnerDecides == Spec => OwnerOnly
<1>1. IInv /\ [Next]_vars => [ByTheOwner]_vars
  <2> SUFFICES ASSUME IInv, Next, NEW c \in ChannelIds,
                      (Exists(c) /\ channels'[c] # channels[c]) \/ RoleChanges(c)
               PROVE  OwnersRequest(c)
    BY DEF ByTheOwner
  <2> USE DEF IInv
  <2>1. ASSUME memberships' = memberships
        PROVE  ~RoleChanges(c)
    BY <2>1 DEF RoleChanges, Tables, UniqueIds
  <2>2. CASE UNCHANGED <<channels, memberships>>
    BY <2>1, <2>2
  <2>3. ASSUME NEW d \in ChannelIds, NEW u \in Users, NEW v \in Visibilities, NEW i \in RowIds,
               CreateChannel(d, u, v, i)
        PROVE  FALSE
    <3>1. /\ channels[d] = "unborn"
          /\ channels' = [channels EXCEPT ![d] = v]
          /\ memberships' = memberships \cup {[id |-> i, channel |-> d, user |-> u, role |-> "owner"]}
          /\ \A m \in memberships : m.id # i
      BY <2>3 DEF CreateChannel, Fresh
    <3>2. ~(Exists(c) /\ channels'[c] # channels[c])
      BY <3>1 DEF Exists, Visibilities, TypeOK
    <3>3. ~RoleChanges(c)
      BY <3>1 DEF RoleChanges, Tables, UniqueIds
    <3> QED BY <3>2, <3>3
  <2>4. ASSUME NEW r \in Requests, NEW i \in RowIds, Insert(r, i)
        PROVE  FALSE
    <3>1. /\ channels' = channels
          /\ \A m \in memberships : m.id # i
          /\ \A n \in memberships' : n \in memberships \/ n.id = i
      BY <2>4 DEF Insert, Fresh
    <3> QED BY <3>1 DEF RoleChanges, Tables, UniqueIds
  <2>5. ASSUME NEW r \in Requests, Delete(r)
        PROVE  FALSE
    <3>1. channels' = channels /\ memberships' \subseteq memberships
      BY <2>5 DEF Delete
    <3> QED BY <3>1 DEF RoleChanges, Tables, UniqueIds
  <2>6. ASSUME NEW r \in Requests, ChangeRole(r)
        PROVE  OwnersRequest(c)
    <3>1. channels' = channels /\ requests[r].pc = "commit" /\ requests[r].op \in RoleOps
      BY <2>6 DEF ChangeRole, Commits
    <3>2. PICK m \in memberships, n \in memberships' :
            m.channel = c /\ m.id = n.id /\ m.role # n.role
      BY <3>1 DEF RoleChanges
    <3>3. PICK o \in memberships : o.id = n.id /\ (o.role # n.role => o.channel = requests[r].channel)
      BY <2>6, RoleStep
    <3>4. o = m
      BY <3>2, <3>3 DEF Tables, UniqueIds
    <3>5. c = requests[r].channel /\ Exists(c)
      BY <3>2, <3>3, <3>4 DEF Tables, NoOrphans
    <3> QED BY <3>1, <3>5, OwnerStillOwner
  <2>7. ASSUME NEW r \in Requests, SetPrivacy(r)
        PROVE  OwnersRequest(c)
    <3>1. /\ requests[r].pc = "commit" /\ requests[r].op \in OwnerOps
          /\ memberships' = memberships
          /\ c # requests[r].channel => channels'[c] = channels[c]
      BY <2>7 DEF SetPrivacy, Commits, OwnerOps, TypeOK
    <3> QED BY <2>1, <3>1, OwnerStillOwner
  <2>8. ASSUME NEW r \in Requests, DeleteChannel(r)
        PROVE  OwnersRequest(c)
    <3>1. /\ requests[r].pc = "commit" /\ requests[r].op \in OwnerOps
          /\ memberships' \subseteq memberships
          /\ c # requests[r].channel => channels'[c] = channels[c]
      BY <2>8 DEF DeleteChannel, Commits, OwnerOps, TypeOK
    <3>2. ~RoleChanges(c)
      BY <3>1 DEF RoleChanges, Tables, UniqueIds
    <3> QED BY <3>1, <3>2, OwnerStillOwner
  <2> QED
    BY <2>2, <2>3, <2>4, <2>5, <2>6, <2>7, <2>8
       DEF Next, RequestStep, Begin, ReadChannel, ReadActor, ReadTarget, Abort, PostMessage
<1> QED BY <1>1, InvariantHolds, PTL DEF Spec, OwnerOnly

-----------------------------------------------------------------------------
(***************************************************************************)
(* Channels implements ChannelRegistry: every step of a request is a step   *)
(* of the register, or leaves it as it is.  Two things are needed besides   *)
(* IInv: a session holds at most one row of the actor and one of the        *)
(* target, so that a commit touches one user; and the roles read off the    *)
(* table change only where a row does.                                      *)
(***************************************************************************)

Single(rows) == \A s, t \in rows : s = t

\* What a session has loaded of the actor, and of the target, is one row.
SingleRows ==
    \A r \in Requests : requests[r] # NoRequest =>
        Single(requests[r].actor) /\ Single(requests[r].target)

RInv == IInv /\ SingleRows

\* The row of a user in a channel is unique, before and after rereading it.
LEMMA OneRow ==
    ASSUME Tables, NEW c, NEW u
    PROVE  Single(Row(c, u))
BY DEF Single, Row, Tables, UniqueMembership

LEMMA OneRowReread ==
    ASSUME Tables, NEW c, NEW u, NEW loaded
    PROVE  Single(Reread(c, u, loaded))
<1>1. Single(Row(c, u))
  BY OneRow
<1>2. SUFFICES ASSUME NEW s \in Reread(c, u, loaded), NEW t \in Reread(c, u, loaded)
               PROVE  s = t
  BY DEF Single
<1> DEFINE Seen(m) == IF \E old \in loaded : old.id = m.id
                      THEN CHOOSE old \in loaded : old.id = m.id ELSE m
<1>3. PICK m \in Row(c, u) : s = Seen(m)
  BY DEF Reread
<1>4. PICK n \in Row(c, u) : t = Seen(n)
  BY DEF Reread
<1>5. m = n
  BY <1>1 DEF Single
<1> QED BY <1>3, <1>4, <1>5

\* Sessions load single rows, whatever else happens.
LEMMA SinglesStep ==
    ASSUME IInv, SingleRows, [Next]_vars
    PROVE  SingleRows'
<1> USE DEF IInv
<1>1. SUFFICES ASSUME NEW p \in Requests, requests'[p] # NoRequest
               PROVE  Single(requests'[p].actor) /\ Single(requests'[p].target)
  BY DEF SingleRows, Single
<1>2. CASE requests'[p] = requests[p]
  BY <1>1, <1>2 DEF SingleRows
<1>3. ASSUME NEW r \in Requests, Finish(r)
      PROVE  requests'[p] = requests[p]
  BY <1>1, <1>3 DEF Finish, TypeOK
<1>4. ASSUME NEW r \in Requests, NEW u \in Users, NEW c \in ChannelIds, NEW op \in Ops,
             NEW v \in Users, Begin(r, u, c, op, v), p = r
      PROVE  requests'[p].actor = {} /\ requests'[p].target = {}
  BY <1>4 DEF Begin, TypeOK
<1>5. ASSUME NEW r \in Requests, ReadChannel(r), p = r
      PROVE  Single(requests'[p].actor) /\ Single(requests'[p].target)
  <2>1. requests[p].pc # "idle" /\ requests[p] # NoRequest
    BY <1>5 DEF ReadChannel, NoRequest
  <2>2. requests'[p] = NoRequest \/ (requests'[p].actor = requests[p].actor
                                     /\ requests'[p].target = requests[p].target)
    BY <1>5, <2>1, ActiveRequest DEF ReadChannel, Finish, TypeOK, Request
  <2> QED BY <1>1, <2>1, <2>2 DEF SingleRows
<1>6. ASSUME NEW r \in Requests, ReadActor(r), p = r
      PROVE  Single(requests'[p].actor) /\ Single(requests'[p].target)
  <2>1. requests[p].pc # "idle" /\ requests[p] # NoRequest
    BY <1>6 DEF ReadActor, NoRequest
  <2>2. requests'[p] = NoRequest
        \/ (requests'[p].actor = Row(requests[p].channel, requests[p].user)
            /\ requests'[p].target = requests[p].target)
    BY <1>6, <2>1, ActiveRequest DEF ReadActor, Finish, TypeOK, Request
  <2>3. Single(Row(requests[p].channel, requests[p].user))
    BY OneRow
  <2> QED BY <1>1, <2>1, <2>2, <2>3 DEF SingleRows
<1>7. ASSUME NEW r \in Requests, ReadTarget(r), p = r
      PROVE  Single(requests'[p].actor) /\ Single(requests'[p].target)
  <2>1. requests[p].pc # "idle" /\ requests[p] # NoRequest
    BY <1>7 DEF ReadTarget, NoRequest
  <2>2. requests'[p] = NoRequest
        \/ (requests'[p].actor = requests[p].actor
            /\ requests'[p].target = Reread(requests[p].channel, requests[p].on, requests[p].actor))
    BY <1>7, <2>1, ActiveRequest DEF ReadTarget, Finish, TypeOK, Request
  <2>3. Single(Reread(requests[p].channel, requests[p].on, requests[p].actor))
    BY OneRowReread
  <2> QED BY <1>1, <2>1, <2>2, <2>3 DEF SingleRows
<1>8. ASSUME NEW r \in Requests,
             \/ \E u \in Users, c \in ChannelIds, op \in Ops, v \in Users : Begin(r, u, c, op, v)
             \/ ReadChannel(r) \/ ReadActor(r) \/ ReadTarget(r),
             p # r
      PROVE  requests'[p] = requests[p]
  BY <1>8 DEF Begin, ReadChannel, ReadActor, ReadTarget, Finish, TypeOK
<1>9. ASSUME NEW r \in Requests, RequestStep(r)
      PROVE  Single(requests'[p].actor) /\ Single(requests'[p].target)
  <2>1. CASE Finish(r)
    BY <1>2, <1>3, <2>1
  <2>2. CASE ~Finish(r) /\ p # r
    BY <1>2, <1>8, <1>9, <2>2
       DEF RequestStep, Insert, Delete, ChangeRole, SetPrivacy, DeleteChannel, Abort
  <2>3. CASE ~Finish(r) /\ p = r
    <3>1. ASSUME NEW u \in Users, NEW c \in ChannelIds, NEW op \in Ops, NEW v \in Users,
                 Begin(r, u, c, op, v)
          PROVE  Single(requests'[p].actor) /\ Single(requests'[p].target)
      BY <1>4, <2>3, <3>1 DEF Single
    <3> QED
      BY <1>5, <1>6, <1>7, <1>9, <2>3, <3>1
         DEF RequestStep, Insert, Delete, ChangeRole, SetPrivacy, DeleteChannel, Abort
  <2> QED BY <2>1, <2>2, <2>3
<1>10. CASE requests' = requests
  BY <1>2, <1>10
<1> QED BY <1>9, <1>10 DEF Next, vars, CreateChannel, PostMessage

\* The sessions' rows stay single.
LEMMA RegistryInvariant == Spec => []RInv
<1>1. Init => SingleRows
  BY DEF Init, SingleRows
<1>2. IInv /\ SingleRows /\ [Next]_vars => SingleRows'
  BY SinglesStep
<1> QED BY <1>1, <1>2, InvariantHolds, PTL DEF Spec, RInv

-----------------------------------------------------------------------------
(* The roles that the table stands for *)

LEMMA RoleOfRow ==
    ASSUME Tables, NEW m \in memberships
    PROVE  RoleOf(m.channel, m.user) = m.role
<1>1. Single(Row(m.channel, m.user))
  BY OneRow
<1>2. m \in Row(m.channel, m.user)
  BY DEF Row
<1> HIDE DEF Tables
<1>3. (CHOOSE n \in Row(m.channel, m.user) : TRUE) = m
  BY <1>1, <1>2 DEF Single
<1> QED BY <1>2, <1>3 DEF RoleOf

LEMMA RoleOfNobody ==
    ASSUME NEW c, NEW u, Row(c, u) = {}
    PROVE  RoleOf(c, u) = "none"
BY DEF RoleOf

LEMMA SameRole ==
    ASSUME NEW c, NEW u, Row(c, u)' = Row(c, u)
    PROVE  RoleOf(c, u)' = RoleOf(c, u)
BY DEF RoleOf

LEMMA OnlyRole ==
    ASSUME NEW c, NEW u, NEW m, Row(c, u)' = {m}
    PROVE  RoleOf(c, u)' = m.role
<1>1. (CHOOSE n \in {m} : TRUE) = m
  OBVIOUS
<1> QED BY <1>1 DEF RoleOf

\* Inserting the first row of a user changes his role only.
LEMMA AddedRow ==
    ASSUME NEW m, Row(m.channel, m.user) = {}, memberships' = memberships \cup {m}
    PROVE  /\ RoleOf(m.channel, m.user)' = m.role
           /\ \A c, u : c # m.channel \/ u # m.user => RoleOf(c, u)' = RoleOf(c, u)
<1>1. Row(m.channel, m.user)' = {m}
  BY DEF Row
<1>2. ASSUME NEW c, NEW u, c # m.channel \/ u # m.user
      PROVE  RoleOf(c, u)' = RoleOf(c, u)
  <2>1. Row(c, u)' = Row(c, u)
    BY <1>2 DEF Row
  <2> QED BY <2>1, SameRole
<1> QED BY <1>1, <1>2, OnlyRole

LEMMA SameRoles ==
    ASSUME memberships' = memberships
    PROVE  RolesNow' = RolesNow
BY DEF RolesNow, RoleOf, Row

\* The owner's row is the only one of the owner's user.
LEMMA OwnerHasRole ==
    ASSUME IInv, NEW m \in memberships, m.role # "owner"
    PROVE  m.channel \in ChannelIds /\ m.user \in Users /\ Exists(m.channel)
           /\ m.user # owner[m.channel]
<1>1. m.channel \in ChannelIds /\ m.user \in Users
  BY DEF IInv, TypeOK, Membership
<1>2. Exists(m.channel)
  BY DEF IInv, Tables, NoOrphans
<1>3. PICK n \in memberships : n.channel = m.channel /\ n.role = "owner"
  BY <1>1, <1>2 DEF IInv, Tables, OwnerPresent
<1>4. n.user = owner[m.channel]
  BY <1>3 DEF IInv, Tables, OwnerRows
<1> QED BY <1>1, <1>2, <1>3, <1>4 DEF IInv, Tables, UniqueMembership

LEMMA OneRoleChanged ==
    ASSUME NEW c \in ChannelIds, NEW u \in Users, NEW new,
           RoleOf(c, u)' = new,
           \A d \in ChannelIds, w \in Users :
                d # c \/ w # u => RoleOf(d, w)' = RoleOf(d, w)
    PROVE  RolesNow' = [RolesNow EXCEPT ![c][u] = new]
BY DEF RolesNow

\* A step that sets the role of a user other than the owner.
LEMMA SetRoleStep ==
    ASSUME NEW c \in ChannelIds, NEW u \in Users, NEW new \in {"none", "member", "admin"},
           Exists(c), u # owner[c], new = "admin" => RoleOf(c, u) # "none",
           UNCHANGED <<channels, owner>>,
           RoleOf(c, u)' = new,
           \A d \in ChannelIds, w \in Users :
                d # c \/ w # u => RoleOf(d, w)' = RoleOf(d, w)
    PROVE  Registry!Next
<1>1. RolesNow' = [RolesNow EXCEPT ![c][u] = new]
  BY OneRoleChanged
<1>2. RolesNow[c][u] = RoleOf(c, u)
  BY DEF RolesNow
<1>3. Registry!SetRole(c, u, new)
  BY <1>1, <1>2 DEF Registry!SetRole, Registry!Open, Exists, Visibilities
<1> QED BY <1>3 DEF Registry!Next

-----------------------------------------------------------------------------
(* The actions *)

LEMMA CreateImplements ==
    ASSUME IInv, NEW c \in ChannelIds, NEW u \in Users, NEW v \in Visibilities,
           NEW i \in RowIds, CreateChannel(c, u, v, i)
    PROVE  Registry!Next
<1> DEFINE new == [id |-> i, channel |-> c, user |-> u, role |-> "owner"]
<1>1. /\ channels[c] = "unborn"
      /\ channels' = [channels EXCEPT ![c] = v]
      /\ owner' = [owner EXCEPT ![c] = u]
      /\ memberships' = memberships \cup {new}
  BY DEF CreateChannel
<1>2. \A m \in memberships : m.channel # c
  BY <1>1 DEF IInv, Tables, NoOrphans, Exists, Visibilities
<1>3. ASSUME NEW d \in ChannelIds, NEW w \in Users
      PROVE  RoleOf(d, w)' = IF d = c THEN IF w = u THEN "owner" ELSE "none" ELSE RoleOf(d, w)
  <2>1. CASE d # c
    <3>1. Row(d, w)' = Row(d, w)
      BY <1>1, <2>1 DEF Row
    <3> QED BY <2>1, <3>1, SameRole
  <2>2. CASE d = c /\ w # u
    <3>1. Row(d, w)' = {}
      BY <1>1, <1>2, <2>2 DEF Row
    <3> QED BY <2>2, <3>1 DEF RoleOf
  <2>3. CASE d = c /\ w = u
    <3>1. Row(d, w)' = {new}
      BY <1>1, <1>2, <2>3 DEF Row
    <3>2. new.role = "owner"
      OBVIOUS
    <3> HIDE DEF new
    <3>3. RoleOf(d, w)' = new.role
      BY <3>1, OnlyRole
    <3> QED BY <2>3, <3>2, <3>3
  <2> QED BY <2>1, <2>2, <2>3
<1>4. RolesNow' = [RolesNow EXCEPT ![c] = [w \in Users |-> IF w = u THEN "owner" ELSE "none"]]
  BY <1>3 DEF RolesNow
<1>5. Registry!Create(c, u)
  BY <1>1, <1>4 DEF Registry!Create, Visibilities
<1> QED BY <1>5 DEF Registry!Next

LEMMA InsertImplements ==
    ASSUME IInv, NEW r \in Requests, NEW i \in RowIds, Insert(r, i)
    PROVE  Registry!Next \/ UNCHANGED <<channels, owner, RolesNow>>
<1>1. UNCHANGED <<channels, owner>>
  BY DEF Insert
<1>2. PICK c \in ChannelIds, u \in Users :
        c = requests[r].channel /\ u = IF requests[r].op = "join" THEN requests[r].user ELSE requests[r].on
  BY Committing DEF Insert, Commits, IInv, TypeOK, Request
<1>3. CASE ~CanInsert(c, u)
  BY <1>1, <1>2, <1>3, SameRoles DEF Insert
<1>4. CASE CanInsert(c, u)
  <2> DEFINE new == [id |-> i, channel |-> c, user |-> u, role |-> "member"]
  <2>1. memberships' = memberships \cup {new}
    BY <1>2, <1>4 DEF Insert
  <2>2. Exists(c) /\ Row(c, u) = {}
    BY <1>4 DEF CanInsert
  <2>3. PICK n \in memberships : n.channel = c /\ n.role = "owner"
    BY <2>2 DEF IInv, Tables, OwnerPresent
  <2>4. u # owner[c]
    BY <2>2, <2>3 DEF IInv, Tables, OwnerRows, Row
  <2>5. new.channel = c /\ new.user = u /\ new.role = "member"
    OBVIOUS
  <2> HIDE DEF new
  <2>6. /\ RoleOf(c, u)' = "member"
        /\ \A d, w : d # c \/ w # u => RoleOf(d, w)' = RoleOf(d, w)
    BY <2>1, <2>2, <2>5, AddedRow
  <2> QED BY <1>1, <2>2, <2>4, <2>6, SetRoleStep
<1> QED BY <1>3, <1>4

LEMMA DeleteImplements ==
    ASSUME IInv, SingleRows, NEW r \in Requests, Delete(r)
    PROVE  Registry!Next \/ UNCHANGED <<channels, owner, RolesNow>>
<1> DEFINE q == requests[r]
           seen == IF q.op = "leave" THEN q.actor ELSE q.target
<1>1. /\ UNCHANGED <<channels, owner>>
      /\ memberships' = {m \in memberships : \A s \in seen : m.id # s.id}
      /\ q.pc = "commit" /\ q.op \in {"leave", "remove"}
  BY DEF Delete, Commits
<1>2. Single(seen)
  BY <1>1 DEF SingleRows, NoRequest
<1>3. \A s \in seen : s.role # "owner" /\ Agrees(s)
  BY <1>1, Committing DEF DecidedBy
<1> HIDE DEF seen, q
<1>4. CASE \A m \in memberships : \A s \in seen : m.id # s.id
  <2>1. memberships' = memberships
    BY <1>1, <1>4
  <2> QED BY <1>1, <2>1, SameRoles
<1>5. ASSUME NEW m \in memberships, NEW s \in seen, m.id = s.id
      PROVE  Registry!Next
  <2>1. m.role # "owner"
    BY <1>3, <1>5 DEF Agrees
  <2>2. memberships' = memberships \ {m}
    BY <1>1, <1>2, <1>5 DEF Single, IInv, Tables, UniqueIds
  <2>3. Row(m.channel, m.user)' = {}
    BY <2>2 DEF Row, IInv, Tables, UniqueMembership
  <2>4. RoleOf(m.channel, m.user)' = "none"
    BY <2>3 DEF RoleOf
  <2>5. ASSUME NEW d \in ChannelIds, NEW w \in Users, d # m.channel \/ w # m.user
        PROVE  RoleOf(d, w)' = RoleOf(d, w)
    <3>1. Row(d, w)' = Row(d, w)
      BY <2>2, <2>5 DEF Row
    <3> QED BY <3>1, SameRole
  <2> QED BY <1>1, <2>1, <2>4, <2>5, OwnerHasRole, SetRoleStep
<1> QED BY <1>4, <1>5

LEMMA ChangeRoleImplements ==
    ASSUME IInv, SingleRows, NEW r \in Requests, ChangeRole(r)
    PROVE  Registry!Next \/ UNCHANGED <<channels, owner, RolesNow>>
<1> DEFINE target == requests[r].target
<1>1. PICK new \in {"admin", "member"} :
        memberships' = {IF \E s \in target : s.id = m.id /\ s.role # new
                        THEN [m EXCEPT !.role = new] ELSE m : m \in memberships}
  BY DEF ChangeRole
<1>2. /\ UNCHANGED <<channels, owner>>
      /\ requests[r].pc = "commit" /\ requests[r].op \in RoleOps
  BY DEF ChangeRole, Commits
<1>3. Single(target)
  BY <1>2 DEF SingleRows, NoRequest
<1>4. \A s \in target : s.role # "owner" /\ Agrees(s)
  BY <1>2, Committing DEF DecidedBy
<1> HIDE DEF target
<1>5. CASE \A m \in memberships : ~\E s \in target : s.id = m.id /\ s.role # new
  <2>1. memberships' = memberships
    BY <1>1, <1>5
  <2> QED BY <1>2, <2>1, SameRoles
<1>6. ASSUME NEW m \in memberships, NEW s \in target, s.id = m.id, s.role # new
      PROVE  Registry!Next
  <2> DEFINE n == [m EXCEPT !.role = new]
  <2>1. m.role # "owner"
    BY <1>4, <1>6 DEF Agrees
  <2>2. m \in Membership /\ new \in Roles
    BY DEF IInv, TypeOK, Roles
  <2>3. n.role = new /\ n.channel = m.channel /\ n.user = m.user
    BY <2>2, WithRole
  <2>4. memberships' = (memberships \ {m}) \cup {n}
    <3>1. \A l \in memberships : (\E t \in target : t.id = l.id /\ t.role # new) <=> l = m
      BY <1>3, <1>6 DEF Single, IInv, Tables, UniqueIds
    <3> HIDE DEF n
    <3>2. n = [m EXCEPT !.role = new]
      BY DEF n
    <3> QED BY <1>1, <3>1, <3>2
  <2> HIDE DEF n
  <2>5. Row(m.channel, m.user)' = {n}
    BY <2>3, <2>4 DEF Row, IInv, Tables, UniqueMembership
  <2>6. RoleOf(m.channel, m.user)' = new
    BY <2>3, <2>5, OnlyRole
  <2>7. ASSUME NEW d \in ChannelIds, NEW w \in Users, d # m.channel \/ w # m.user
        PROVE  RoleOf(d, w)' = RoleOf(d, w)
    <3>1. Row(d, w)' = Row(d, w)
      BY <2>3, <2>4, <2>7 DEF Row
    <3> QED BY <3>1, SameRole
  <2>8. RoleOf(m.channel, m.user) # "none"
    BY <2>2, RoleOfRow DEF IInv, Membership, Roles
  <2> QED BY <1>2, <2>1, <2>6, <2>7, <2>8, OwnerHasRole, SetRoleStep
<1> QED BY <1>5, <1>6

LEMMA SetPrivacyImplements ==
    ASSUME IInv, NEW r \in Requests, SetPrivacy(r)
    PROVE  Registry!Next \/ UNCHANGED <<channels, owner, RolesNow>>
<1>1. PICK c \in ChannelIds : c = requests[r].channel
  BY Committing DEF SetPrivacy, Commits, Request
<1>2. owner' = owner /\ RolesNow' = RolesNow
  BY SameRoles DEF SetPrivacy
<1>3. PICK v \in Visibilities :
        channels' = IF Exists(c) /\ requests[r].was # v
                    THEN [channels EXCEPT ![c] = v] ELSE channels
  BY <1>1 DEF SetPrivacy, Visibilities
<1>4. CASE ~Exists(c) \/ requests[r].was = v \/ channels[c] = v
  <2>1. channels' = channels
    BY <1>3, <1>4 DEF IInv, TypeOK
  <2> QED BY <1>2, <2>1
<1>5. CASE Exists(c) /\ requests[r].was # v /\ channels[c] # v
  <2>1. Registry!Expose(c)
    BY <1>2, <1>3, <1>5 DEF Registry!Expose, Registry!Open, Exists, Visibilities
  <2> QED BY <2>1 DEF Registry!Next
<1> QED BY <1>4, <1>5

LEMMA DeleteChannelImplements ==
    ASSUME IInv, NEW r \in Requests, DeleteChannel(r)
    PROVE  Registry!Next \/ UNCHANGED <<channels, owner, RolesNow>>
<1>1. PICK c \in ChannelIds : c = requests[r].channel
  BY Committing DEF DeleteChannel, Commits, Request
<1>2. owner' = owner
  BY DEF DeleteChannel
<1>3. CASE UNCHANGED <<channels, memberships>>
  BY <1>2, <1>3, SameRoles
<1>4. CASE ~UNCHANGED <<channels, memberships>>
  <2>1. /\ Exists(c)
        /\ channels' = [channels EXCEPT ![c] = "deleted"]
        /\ memberships' = {m \in memberships : m.channel # c}
    BY <1>1, <1>4 DEF DeleteChannel
  <2>2. ASSUME NEW d \in ChannelIds, NEW w \in Users
        PROVE  RoleOf(d, w)' = IF d = c THEN "none" ELSE RoleOf(d, w)
    <3>1. CASE d = c
      <4>1. Row(d, w)' = {}
        BY <2>1, <3>1 DEF Row
      <4> QED BY <3>1, <4>1 DEF RoleOf
    <3>2. CASE d # c
      <4>1. Row(d, w)' = Row(d, w)
        BY <2>1, <3>2 DEF Row
      <4> QED BY <3>2, <4>1, SameRole
    <3> QED BY <3>1, <3>2
  <2>3. RolesNow' = [RolesNow EXCEPT ![c] = [u \in Users |-> "none"]]
    BY <2>2 DEF RolesNow
  <2>4. Registry!Close(c)
    BY <1>2, <2>1, <2>3 DEF Registry!Close, Registry!Open, Exists, Visibilities
  <2> QED BY <2>4 DEF Registry!Next
<1> QED BY <1>3, <1>4

-----------------------------------------------------------------------------

LEMMA StepImplements ==
    ASSUME RInv, [Next]_vars
    PROVE  Registry!Next \/ UNCHANGED <<channels, owner, RolesNow>>
<1> USE DEF RInv
<1>1. ASSUME NEW c \in ChannelIds, NEW u \in Users, NEW v \in Visibilities, NEW i \in RowIds,
             CreateChannel(c, u, v, i)
      PROVE  Registry!Next
  BY <1>1, CreateImplements
<1>2. CASE UNCHANGED <<channels, owner, memberships>>
  BY <1>2, SameRoles
<1>3. ASSUME NEW r \in Requests, RequestStep(r)
      PROVE  Registry!Next \/ UNCHANGED <<channels, owner, RolesNow>>
  BY <1>2, <1>3, InsertImplements, DeleteImplements, ChangeRoleImplements,
     SetPrivacyImplements, DeleteChannelImplements
     DEF RequestStep, Begin, ReadChannel, ReadActor, ReadTarget, Abort
<1> QED BY <1>1, <1>2, <1>3 DEF Next, PostMessage, vars

\* Channels, with its requests that decide on rows they read earlier, implements
\* the atomic register: the owner is untouchable, each commit changes at most one
\* user's role in one channel, and nobody becomes an administrator unadmitted.
THEOREM ChannelsRefineRegistry == Spec => ImplementsRegistry
<1>1. Init => Registry!Init
  <2> SUFFICES ASSUME Init PROVE Registry!Init
    OBVIOUS
  <2>1. \A c \in ChannelIds, u \in Users : RoleOf(c, u) = "none"
    BY RoleOfNobody DEF Init, Row
  <2> QED BY <2>1 DEF Init, Registry!Init, RolesNow
<1>2. RInv /\ [Next]_vars => [Registry!Next]_(Registry!registry)
  BY StepImplements DEF Registry!registry
<1> QED BY <1>1, <1>2, RegistryInvariant, PTL DEF Spec, ImplementsRegistry, Registry!Spec
=============================================================================
