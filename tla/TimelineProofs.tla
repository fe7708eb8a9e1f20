--------------------------- MODULE TimelineProofs ---------------------------
(***************************************************************************)
(* The types of Timeline, and who is in a room.  The invariant follows a   *)
(* join from its two reads to its effect: between them, and before the     *)
(* socket enters the room, the caller may view the context or has been     *)
(* expelled meanwhile.  And as long as the room events of a client do not  *)
(* overlap, there is one of them at a time, and a leave in progress means  *)
(* that the client does not count on the room. The second half is about    *)
(* the history: the order list_history sorts by, what a page by cursor or  *)
(* by number returns of it, and why a client that loads page after page,   *)
(* while messages are inserted before and after its place, misses none:    *)
(* each is loaded, still ahead of it, or was broadcast to it.              *)
(***************************************************************************)
EXTENDS Timeline, FiniteSetTheorems, WellFoundedInduction, TLAPS

\* The requests of followed clients, whose users have sockets.
OfClients == \A r \in Requests : Busy(r) /\ requests[r].op # "send" => requests[r].user \in Clients

\* Who is in the room, and who is about to be: the channel was read as public, or
\* the membership was found.
MayWatch(u) == CanView(u) \/ u \in expelled
Admitted(r) ==
    /\ Busy(r) /\ requests[r].op = "join"
    /\ requests[r].pc = "room" \/ (requests[r].pc = "membership" /\ requests[r].public)
Access ==
    /\ \A u \in room : MayWatch(u)
    /\ \A r \in Requests : Admitted(r) => MayWatch(requests[r].user)

\* What a client whose room events do not overlap has been told is true.
InOrder(u) ==
    /\ \A r, p \in Requests : Serves(r, u, RoomOps) /\ Serves(p, u, RoomOps) => r = p
    /\ client[u].live => u \in room
    /\ \A r \in Requests : Serves(r, u, {"leave"}) => ~client[u].live
    /\ \A r \in Requests : Serves(r, u, {"join"}) /\ requests[r].pc = "ack" => u \in room
Told == \A u \in Clients : ~client[u].crossed => InOrder(u)

TInv == TypeOK /\ OfClients /\ Access /\ Told

-----------------------------------------------------------------------------
(* Requests *)

RoomPcs == {"channel", "membership", "room", "ack"}

\* The step a request is at tells what kind of request it is.
LEMMA Kinds ==
    ASSUME TypeOK, NEW r \in Requests, requests[r].pc # "idle"
    PROVE  /\ Busy(r) /\ requests[r] \in Request
           /\ requests[r].pc \in RoomPcs <=> requests[r].op \in RoomOps
           /\ requests[r].pc \in {"check", "select"} <=> requests[r].op = "list"
           /\ requests[r].pc \in {"commit", "emit"} <=> requests[r].op = "send"
           /\ requests[r].user \in Users
BY DEF TypeOK, NoRequest, Busy, Request, RoomOps, RoomPcs

LEMMA RoomRequest ==
    ASSUME TypeOK, NEW r \in Requests, requests[r].pc \in RoomPcs
    PROVE  requests[r] \in [op: RoomOps, pc: RoomPcs, user: Users, public: BOOLEAN]
BY Kinds DEF TypeOK, Request, RoomPcs, NoRequest, RoomOps

\* A step that touches neither the context nor the room, nor what clients believe of
\* the room, and that ends requests or moves those that are not about rooms.
LEMMA QuietStep ==
    ASSUME TInv, TypeOK', UNCHANGED <<context, room>>,
           \A u \in Clients : /\ client'[u].live = client[u].live
                              /\ client'[u].crossed = client[u].crossed,
           \A p \in Requests :
               \/ requests'[p] = requests[p] \/ requests'[p] = NoRequest
               \/ /\ requests'[p].op \notin RoomOps
                  /\ requests'[p].op # "send" => requests'[p].user \in Clients
    PROVE  TInv'
<1>1. OfClients' BY DEF TInv, OfClients, Busy
<1>2. Access'
    BY DEF TInv, Access, Admitted, MayWatch, CanView, can_view, Busy, context, RoomOps
<1>3. Told' BY DEF TInv, Told, InOrder, Serves, Busy, RoomOps
<1>. QED BY <1>1, <1>2, <1>3 DEF TInv

\* One request ends.
LEMMA Finished ==
    ASSUME TypeOK, NEW r \in Requests, Finish(r)
    PROVE  /\ requests' \in [Requests -> Request \cup {NoRequest}]
           /\ \A p \in Requests : requests'[p] = IF p = r THEN NoRequest ELSE requests[p]
BY DEF TypeOK, Finish

-----------------------------------------------------------------------------
(* Messages and pages *)

LEMMA Sends ==
    ASSUME TInv, NEW r \in Requests, NEW u \in Users, NEW m \in Ids, BeginSend(r, u, m)
    PROVE  TInv'
<1>. DEFINE q == [op |-> "send", pc |-> "commit", user |-> u, message |-> m, created_at |-> clock]
<1>1. q \in Request /\ q.op = "send" BY DEF TInv, TypeOK, Request
<1>2. requests' = [requests EXCEPT ![r] = q] /\ UNCHANGED <<context, database, room, client>>
    BY DEF BeginSend
<1>. HIDE DEF q
<1>3. TypeOK' BY <1>1, <1>2 DEF TInv, TypeOK, context, database
<1>4. \A p \in Requests : requests'[p] = IF p = r THEN q ELSE requests[p]
    BY <1>2 DEF TInv, TypeOK
<1>. QED BY <1>1, <1>2, <1>3, <1>4, QuietStep DEF RoomOps

LEMMA Moves ==
    ASSUME TypeOK, NEW r \in Requests, requests[r].pc \in {"commit", "check"},
           NEW pc, pc = IF requests[r].pc = "commit" THEN "emit" ELSE "select", Go(r, pc)
    PROVE  /\ requests' \in [Requests -> Request \cup {NoRequest}]
           /\ \A p \in Requests \ {r} : requests'[p] = requests[p]
           /\ requests'[r].op = requests[r].op /\ requests'[r].user = requests[r].user
<1>. DEFINE q == [requests[r] EXCEPT !.pc = pc]
<1>1. requests[r] \in Request BY Kinds
<1>2. q \in Request /\ q.op = requests[r].op /\ q.user = requests[r].user
    BY <1>1 DEF Request, RoomOps
<1>3. requests' = [requests EXCEPT ![r] = q] BY DEF Go
<1>. HIDE DEF q
<1>. QED BY <1>2, <1>3 DEF TypeOK

LEMMA CommitsSend ==
    ASSUME TInv, NEW r \in Requests, CommitSend(r)
    PROVE  TInv'
<1>0. TypeOK BY DEF TInv
<1>1. requests[r].pc = "commit" /\ UNCHANGED <<context, clock, room, client>> BY DEF CommitSend
<1>2. requests[r].op = "send" /\ requests[r] \in Request BY <1>0, <1>1, Kinds
<1>3. requests[r].created_at \in 1..MaxTime /\ requests[r].message \in Ids
    BY <1>1, <1>2 DEF Request, RoomOps
<1>4. rows' \in [Ids -> 0..MaxTime]
    <2>1. requests[r].created_at \in 0..MaxTime BY <1>3
    <2>. QED BY <1>0, <2>1 DEF CommitSend, TypeOK
<1>5. Finish(r) \/ Go(r, "emit") BY DEF CommitSend
<1>6. /\ requests' \in [Requests -> Request \cup {NoRequest}]
      /\ \A p \in Requests :
           \/ requests'[p] = requests[p] \/ requests'[p] = NoRequest
           \/ requests'[p].op = "send"
    BY <1>0, <1>1, <1>2, <1>5, Finished, Moves
<1>7. TypeOK' BY <1>0, <1>1, <1>4, <1>6 DEF TypeOK, context
<1>. QED BY <1>1, <1>6, <1>7, QuietStep DEF RoomOps

\* What a broadcast, or its failure, does to a client.
LEMMA Knows ==
    ASSUME NEW k \in Client, NEW m \in Ids
    PROVE  LET n == [k EXCEPT !.known = @ \cup {m}]
           IN n \in Client /\ n.live = k.live /\ n.crossed = k.crossed
BY DEF Client

LEMMA Broadcasts ==
    ASSUME TInv, NEW r \in Requests, Emit(r) \/ Fail(r)
    PROVE  TInv'
<1>0. TypeOK BY DEF TInv
<1>1. Finish(r) /\ UNCHANGED <<context, database, room>> BY DEF Emit, Fail
<1>2. requests[r].pc = "emit" => requests[r].message \in Ids
    BY <1>0, Kinds DEF Request, RoomOps
<1>3. /\ client' \in [Clients -> Client]
      /\ \A u \in Clients : client'[u].live = client[u].live /\ client'[u].crossed = client[u].crossed
    <2>. DEFINE N(u) == [client[u] EXCEPT !.known = @ \cup {requests[r].message}]
    <2>1. requests[r].pc = "emit" =>
            \A u \in Clients : /\ N(u) \in Client /\ N(u).live = client[u].live
                               /\ N(u).crossed = client[u].crossed
        BY <1>0, <1>2, Knows DEF TypeOK
    <2>2. CASE requests[r].pc = "emit"
        <3>1. PICK heard : client' = [u \in Clients |-> IF u \in heard THEN N(u) ELSE client[u]]
            <4>1. CASE Emit(r) BY <4>1 DEF Emit
            <4>2. CASE Fail(r)
                <5>1. client' = [u \in Clients |->
                          IF u \in {v \in Clients : client[v].live} THEN N(u) ELSE client[u]]
                    BY <2>2, <4>2 DEF Fail
                <5>. QED BY <5>1
            <4>. QED BY <4>1, <4>2
        <3>. HIDE DEF N
        <3>. QED BY <1>0, <2>1, <2>2, <3>1 DEF TypeOK
    <2>3. CASE requests[r].pc # "emit"
        <3>1. client' = [u \in Clients |-> client[u]] BY <2>3 DEF Emit, Fail
        <3>. QED BY <1>0, <3>1 DEF TypeOK
    <2>. QED BY <2>2, <2>3
<1>4. /\ requests' \in [Requests -> Request \cup {NoRequest}]
      /\ \A p \in Requests : requests'[p] = IF p = r THEN NoRequest ELSE requests[p]
    BY <1>0, <1>1, Finished
<1>5. TypeOK' BY <1>0, <1>1, <1>3, <1>4 DEF TypeOK, context, database
<1>. QED BY <1>1, <1>3, <1>4, <1>5, QuietStep

LEMMA Lists ==
    ASSUME TInv, NEW r \in Requests, NEW u \in Clients, BeginList(r, u)
    PROVE  TInv'
<1>. DEFINE q == [op |-> "list", pc |-> "check", user |-> u,
                  before |-> client[u].before, offset |-> client[u].offset]
<1>1. client[u] \in Client /\ u \in Users BY TimelineAssumption DEF TInv, TypeOK
<1>2. q \in Request /\ q.op = "list" /\ q.user = u BY <1>1 DEF Client, Request
<1>3. requests' = [requests EXCEPT ![r] = q] /\ UNCHANGED <<context, database, room, client>>
    BY DEF BeginList
<1>. HIDE DEF q
<1>4. TypeOK' BY <1>2, <1>3 DEF TInv, TypeOK, context, database
<1>5. \A p \in Requests : requests'[p] = IF p = r THEN q ELSE requests[p]
    BY <1>3 DEF TInv, TypeOK
<1>. QED BY <1>2, <1>3, <1>4, <1>5, QuietStep DEF RoomOps

LEMMA ChecksList ==
    ASSUME TInv, NEW r \in Requests, CheckList(r)
    PROVE  TInv'
<1>0. TypeOK BY DEF TInv
<1>1. /\ requests[r].pc = "check" /\ UNCHANGED <<context, database, room, client>>
      /\ Finish(r) \/ Go(r, "select")
    BY DEF CheckList
<1>2. requests[r].op = "list" /\ requests[r].user \in Clients
    BY <1>0, <1>1, Kinds DEF TInv, OfClients
<1>3. /\ requests' \in [Requests -> Request \cup {NoRequest}]
      /\ \A p \in Requests :
           \/ requests'[p] = requests[p] \/ requests'[p] = NoRequest
           \/ requests'[p].op = "list" /\ requests'[p].user \in Clients
    BY <1>0, <1>1, <1>2, Finished, Moves
<1>4. TypeOK' BY <1>0, <1>1, <1>3 DEF TypeOK, context, database
<1>. QED BY <1>1, <1>3, <1>4, QuietStep DEF RoomOps

LEMMA SelectsPage ==
    ASSUME TInv, NEW r \in Requests, NEW before \in Ids \cup {None}, NEW offset \in Nat,
           SelectPage(r, [before |-> before, offset |-> offset])
    PROVE  TInv'
<1>0. TypeOK BY DEF TInv
<1>. DEFINE u == requests[r].user
            page == Page(requests[r].before, requests[r].offset)
            last == ~has_more(requests[r].before, requests[r].offset)
            k == [client[u] EXCEPT !.known = @ \cup page, !.before = before,
                                   !.offset = offset, !.complete = last]
<1>1. requests[r].pc = "select" /\ Finish(r) /\ UNCHANGED <<context, database, room>>
    BY DEF SelectPage
<1>2. u \in Clients BY <1>0, <1>1, Kinds DEF TInv, OfClients
<1>3. page \subseteq Ids /\ last \in BOOLEAN BY DEF Page, Before, has_more
<1>4. client' = [client EXCEPT ![u] = k] BY DEF SelectPage
<1>. HIDE DEF u, page, last
<1>5. k \in Client /\ k.live = client[u].live /\ k.crossed = client[u].crossed
    <2>1. client[u] \in Client BY <1>0, <1>2 DEF TypeOK
    <2>. QED BY <1>3, <2>1 DEF Client
<1>. HIDE DEF k
<1>6. /\ requests' \in [Requests -> Request \cup {NoRequest}]
      /\ \A p \in Requests : requests'[p] = IF p = r THEN NoRequest ELSE requests[p]
    BY <1>0, <1>1, Finished
<1>7. TypeOK' BY <1>0, <1>1, <1>4, <1>5, <1>6 DEF TypeOK, context, database
<1>8. \A v \in Clients : client'[v].live = client[v].live /\ client'[v].crossed = client[v].crossed
    BY <1>0, <1>4, <1>5 DEF TypeOK
<1>. QED BY <1>1, <1>6, <1>7, <1>8, QuietStep

LEMMA Ticks ==
    ASSUME TInv, Tick
    PROVE  TInv'
<1>1. UNCHANGED <<context, rows, room, client, requests>> BY DEF Tick
<1>2. clock' \in 1..MaxTime BY TimelineAssumption DEF Tick, TInv, TypeOK
<1>3. TypeOK' BY <1>1, <1>2 DEF TInv, TypeOK, context
<1>. QED BY <1>1, <1>3, QuietStep

-----------------------------------------------------------------------------
(* The context *)

\* Whoever watches and may not view the context any more is remembered as expelled.
LEMMA ContextStep ==
    ASSUME TInv, TypeOK', UNCHANGED <<room, client, requests>>, RememberExpelled
    PROVE  TInv'
<1>1. OfClients' /\ Told'
    BY DEF TInv, OfClients, Told, InOrder, Serves, Busy
<1>2. ASSUME NEW u \in Clients, Watches(u), MayWatch(u) PROVE MayWatch(u)'
    BY <1>2 DEF RememberExpelled, MayWatch
<1>3. \A u \in room : u \in Clients /\ Watches(u) BY DEF TInv, TypeOK, Watches
<1>4. \A r \in Requests : Admitted(r) => requests[r].user \in Clients /\ Watches(requests[r].user)
    BY DEF TInv, OfClients, Admitted, Watches, Serves
<1>5. \A r \in Requests : Admitted(r)' <=> Admitted(r) BY DEF Admitted, Busy
<1>6. \A u \in room' : MayWatch(u)' BY <1>2, <1>3 DEF TInv, Access
<1>7. ASSUME NEW r \in Requests, Admitted(r)' PROVE MayWatch(requests[r].user)'
    <2>1. PICK u \in Clients : u = requests[r].user BY <1>4, <1>5, <1>7
    <2>2. MayWatch(u)' BY <1>2, <1>4, <1>5, <1>7, <2>1 DEF TInv, Access
    <2>. QED BY <2>1, <2>2
<1>8. Access' BY <1>6, <1>7 DEF Access
<1>. QED BY <1>1, <1>8 DEF TInv

LEMMA Changes ==
    ASSUME TInv, (\E u \in Users : ChangeMember(u)) \/ ChangeVisibility \/ DeleteChannel
    PROVE  TInv'
<1>1. /\ UNCHANGED <<database, room, client, requests>> /\ RememberExpelled
      /\ visibility' \in {"public", "private", "deleted"} /\ members' \subseteq Users
    BY DEF TInv, TypeOK, ChangeMember, ChangeVisibility, DeleteChannel
<1>2. expelled' \subseteq Clients BY <1>1 DEF RememberExpelled
<1>3. TypeOK' BY <1>1, <1>2 DEF TInv, TypeOK, database
<1>. QED BY <1>1, <1>3, ContextStep

-----------------------------------------------------------------------------
(* Rooms *)

\* A room request that goes on keeps its operation and its user.
LEMMA RoomMoves ==
    ASSUME TypeOK, NEW r \in Requests, requests[r].pc \in RoomPcs, NEW pc \in RoomPcs,
           NEW b \in BOOLEAN,
           requests' = [requests EXCEPT ![r] = [requests[r] EXCEPT !.pc = pc, !.public = b]]
    PROVE  /\ requests' \in [Requests -> Request \cup {NoRequest}]
           /\ \A p \in Requests \ {r} : requests'[p] = requests[p]
           /\ requests'[r] # NoRequest /\ requests'[r].pc = pc /\ requests'[r].public = b
           /\ requests'[r].op = requests[r].op /\ requests'[r].user = requests[r].user
<1>. DEFINE q == [requests[r] EXCEPT !.pc = pc, !.public = b]
<1>1. requests[r] \in [op: RoomOps, pc: RoomPcs, user: Users, public: BOOLEAN] BY RoomRequest
<1>2. /\ q \in Request /\ q.op = requests[r].op /\ q.user = requests[r].user
      /\ q.pc = pc /\ q.public = b
    BY <1>1 DEF Request, RoomPcs
<1>3. q # NoRequest BY <1>2 DEF NoRequest, RoomPcs
<1>4. requests' = [requests EXCEPT ![r] = q] OBVIOUS
<1>. HIDE DEF q
<1>. QED BY <1>2, <1>3, <1>4 DEF TypeOK

\* The steps before the room: what the request has read admits it, or it ends.
LEMMA Checks ==
    ASSUME TInv, NEW r \in Requests, ReadChannel(r) \/ ReadMembership(r)
    PROVE  TInv'
<1>0. TypeOK BY DEF TInv
<1>1. UNCHANGED <<context, database, room, client>> /\ requests[r].pc \in {"channel", "membership"}
    BY DEF ReadChannel, ReadMembership
<1>2. CASE Finish(r)
    <2>1. /\ requests' \in [Requests -> Request \cup {NoRequest}]
          /\ \A p \in Requests : requests'[p] = IF p = r THEN NoRequest ELSE requests[p]
        BY <1>0, <1>2, Finished
    <2>2. TypeOK' BY <1>0, <1>1, <2>1 DEF TypeOK, context, database
    <2>. QED BY <1>1, <2>1, <2>2, QuietStep
<1>3. CASE ~Finish(r)
    <2>1. PICK pc \in {"membership", "room"}, b \in BOOLEAN :
            /\ requests' = [requests EXCEPT ![r] = [requests[r] EXCEPT !.pc = pc, !.public = b]]
            /\ pc = "membership" => b = (visibility = "public")
            /\ pc = "room" => /\ requests[r].pc = "membership"
                              /\ can_view(requests[r].public, requests[r].user)
        <3>1. CASE ReadChannel(r) BY <1>3, <3>1 DEF ReadChannel
        <3>2. CASE ReadMembership(r) BY <1>3, <3>2 DEF ReadMembership
        <3>. QED BY <3>1, <3>2
    <2>2. /\ requests' \in [Requests -> Request \cup {NoRequest}]
          /\ \A p \in Requests \ {r} : requests'[p] = requests[p]
          /\ requests'[r] # NoRequest /\ requests'[r].pc = pc /\ requests'[r].public = b
          /\ requests'[r].op = requests[r].op /\ requests'[r].user = requests[r].user
        BY <1>0, <1>1, <2>1, RoomMoves DEF RoomPcs
    <2>3. /\ requests[r] # NoRequest /\ requests[r].user \in Clients
          /\ requests[r].op \in RoomOps
        BY <1>0, <1>1, Kinds DEF TInv, OfClients, Busy, RoomPcs, RoomOps
    <2>4. TypeOK' BY <1>0, <1>1, <2>2 DEF TypeOK, context, database
    <2>5. OfClients' BY <2>2, <2>3 DEF TInv, OfClients, Busy
    <2>6. MayWatch(requests[r].user) \/ ~Admitted(r)'
        <3>1. CASE pc = "membership"
            BY <2>1, <2>2, <3>1 DEF Admitted, MayWatch, CanView, can_view
        <3>2. CASE pc = "room" /\ requests[r].user \in members
            BY <3>2 DEF MayWatch, CanView, can_view
        <3>3. CASE pc = "room" /\ requests[r].public
            <4>1. requests[r].op = "join" => Admitted(r)
                BY <2>1, <2>3, <3>3 DEF Admitted, Busy
            <4>. QED BY <2>2, <4>1 DEF TInv, Access, Admitted
        <3>. QED BY <2>1, <3>1, <3>2, <3>3 DEF can_view
    <2>7. \A u : MayWatch(u)' <=> MayWatch(u)
        BY <1>1 DEF MayWatch, CanView, can_view, context
    <2>8. \A p \in Requests \ {r} : Admitted(p)' <=> Admitted(p)
        BY <2>2 DEF Admitted, Busy
    <2>9. \A p \in Requests : requests'[p].user = requests[p].user BY <2>2
    <2>10. ASSUME NEW p \in Requests, Admitted(p)' PROVE MayWatch(requests[p].user)'
        <3>1. PICK u : u = requests[p].user OBVIOUS
        <3>2. MayWatch(u) BY <2>6, <2>8, <2>10, <3>1 DEF TInv, Access
        <3>. QED BY <2>7, <2>9, <3>1, <3>2
    <2>11. \A u \in room' : MayWatch(u)' BY <1>1, <2>7 DEF TInv, Access
    <2>12. Access' BY <2>10, <2>11 DEF Access
    <2>13. \A p \in Requests, u \in Clients, ops \in {RoomOps, {"join"}, {"leave"}} :
              Serves(p, u, ops)' <=> Serves(p, u, ops)
        BY <2>2, <2>3 DEF Serves, Busy
    <2>14. Told'
        BY <1>1, <2>2, <2>13 DEF TInv, Told, InOrder
    <2>. QED BY <2>4, <2>5, <2>12, <2>14 DEF TInv
<1>. QED BY <1>2, <1>3

LEMMA ChangesRoom ==
    ASSUME TInv, NEW r \in Requests, ChangeRoom(r)
    PROVE  TInv'
<1>0. TypeOK BY DEF TInv
<1>1. /\ requests[r].pc = "room" /\ UNCHANGED <<context, database, client>>
      /\ room' = IF requests[r].op = "join" THEN room \cup {requests[r].user}
                                            ELSE room \ {requests[r].user}
      /\ requests' = [requests EXCEPT ![r].pc = "ack"]
    BY DEF ChangeRoom, Go
<1>2. requests[r] \in [op: RoomOps, pc: RoomPcs, user: Users, public: BOOLEAN]
    BY <1>0, <1>1, RoomRequest DEF RoomPcs
<1>3. requests' = [requests EXCEPT ![r] = [requests[r] EXCEPT !.pc = "ack",
                                                             !.public = requests[r].public]]
    BY <1>1, <1>2
<1>4. /\ requests' \in [Requests -> Request \cup {NoRequest}]
      /\ \A p \in Requests \ {r} : requests'[p] = requests[p]
      /\ requests'[r] # NoRequest /\ requests'[r].pc = "ack"
      /\ requests'[r].op = requests[r].op /\ requests'[r].user = requests[r].user
    BY <1>0, <1>1, <1>2, <1>3, RoomMoves DEF RoomPcs
<1>5. /\ requests[r] # NoRequest /\ requests[r].user \in Clients
      /\ requests[r].op \in RoomOps
    BY <1>0, <1>1, Kinds DEF TInv, OfClients, Busy, RoomPcs, RoomOps
<1>6. TypeOK' BY <1>0, <1>1, <1>4, <1>5 DEF TypeOK, context, database
<1>7. OfClients' BY <1>4, <1>5 DEF TInv, OfClients, Busy
<1>8. \A u : MayWatch(u)' <=> MayWatch(u)
    BY <1>1 DEF MayWatch, CanView, can_view, context
<1>9. ASSUME NEW u \in room' PROVE MayWatch(u)
    BY <1>1, <1>5 DEF TInv, Access, Admitted, Busy
<1>10. ASSUME NEW p \in Requests, Admitted(p)' PROVE MayWatch(requests[p].user)'
    <2>1. p # r BY <1>4, <1>10 DEF Admitted
    <2>2. PICK u : u = requests[p].user OBVIOUS
    <2>3. MayWatch(u) BY <1>4, <1>10, <2>1, <2>2 DEF TInv, Access, Admitted, Busy
    <2>. QED BY <1>4, <1>8, <2>1, <2>2, <2>3
<1>11. Access' BY <1>8, <1>9, <1>10 DEF Access
<1>12. \A p \in Requests, u \in Clients, ops \in {RoomOps, {"join"}, {"leave"}} :
          Serves(p, u, ops)' <=> Serves(p, u, ops)
    BY <1>4, <1>5 DEF Serves, Busy
<1>13. ASSUME NEW u \in Clients, ~client'[u].crossed PROVE InOrder(u)'
    <2>1. InOrder(u) BY <1>1, <1>13 DEF TInv, Told
    <2>2. CASE u # requests[r].user
        BY <1>1, <1>4, <1>12, <2>1, <2>2 DEF InOrder, Serves
    <2>3. CASE u = requests[r].user /\ requests[r].op = "join"
        BY <1>1, <1>4, <1>12, <2>1, <2>3 DEF InOrder
    <2>4. CASE u = requests[r].user /\ requests[r].op = "leave"
        <3>1. Serves(r, u, RoomOps) /\ Serves(r, u, {"leave"})
            BY <1>5, <2>4 DEF Serves, Busy
        <3>2. ~client[u].live BY <2>1, <3>1 DEF InOrder
        <3>3. \A p \in Requests : ~Serves(p, u, {"join"})
            BY <2>1, <2>4, <3>1 DEF InOrder, Serves, RoomOps
        <3>. QED BY <1>1, <1>12, <2>1, <3>2, <3>3 DEF InOrder
    <2>. QED BY <1>5, <2>2, <2>3, <2>4 DEF RoomOps
<1>14. Told' BY <1>13 DEF Told
<1>. QED BY <1>6, <1>7, <1>11, <1>14 DEF TInv

LEMMA Acknowledges ==
    ASSUME TInv, NEW r \in Requests, Acknowledge(r)
    PROVE  TInv'
<1>0. TypeOK BY DEF TInv
<1>. DEFINE u == requests[r].user
            k == [client[u] EXCEPT !.live = (requests[r].op = "join")]
<1>1. /\ requests[r].pc = "ack" /\ Finish(r) /\ UNCHANGED <<context, database, room>>
      /\ client' = [client EXCEPT ![u] = k]
    BY DEF Acknowledge
<1>2. /\ requests[r] # NoRequest /\ u \in Clients /\ requests[r].op \in RoomOps
    BY <1>0, <1>1, Kinds DEF TInv, OfClients, Busy, RoomPcs, RoomOps
<1>3. k \in Client /\ k.live = (requests[r].op = "join") /\ k.crossed = client[u].crossed
    <2>1. client[u] \in Client BY <1>0, <1>2 DEF TypeOK
    <2>2. (requests[r].op = "join") \in BOOLEAN OBVIOUS
    <2>. HIDE DEF u
    <2>. QED BY <2>1, <2>2 DEF Client
<1>4. Serves(r, u, RoomOps) /\ (requests[r].op = "join" => Serves(r, u, {"join"}))
    BY <1>2 DEF Serves, Busy
<1>. HIDE DEF u, k
<1>5. /\ requests' \in [Requests -> Request \cup {NoRequest}]
      /\ \A p \in Requests : requests'[p] = IF p = r THEN NoRequest ELSE requests[p]
    BY <1>0, <1>1, Finished
<1>6. TypeOK' BY <1>0, <1>1, <1>2, <1>3, <1>5 DEF TypeOK, context, database
<1>7. OfClients' BY <1>5 DEF TInv, OfClients, Busy
<1>8. Access'
    BY <1>1, <1>5 DEF TInv, Access, Admitted, MayWatch, CanView, can_view, Busy, context
<1>9. \A v \in Clients : client'[v] = IF v = u THEN k ELSE client[v] BY <1>0, <1>1 DEF TypeOK
<1>10. \A p \in Requests, v \in Clients, ops \in {RoomOps, {"join"}, {"leave"}} :
          Serves(p, v, ops)' <=> p # r /\ Serves(p, v, ops)
    BY <1>5 DEF Serves, Busy
<1>11. ASSUME NEW v \in Clients, ~client'[v].crossed PROVE InOrder(v)'
    <2>1. InOrder(v) BY <1>3, <1>9, <1>11 DEF TInv, Told
    <2>2. CASE v # u BY <1>1, <1>5, <1>9, <1>10, <2>1, <2>2 DEF InOrder
    <2>3. CASE v = u
        <3>1. \A p \in Requests : ~Serves(p, v, RoomOps)'
            BY <1>4, <1>10, <2>1, <2>3 DEF InOrder
        <3>2. \A p \in Requests : ~Serves(p, v, {"join"})' /\ ~Serves(p, v, {"leave"})'
            BY <3>1 DEF Serves, RoomOps
        <3>3. client'[v].live => v \in room
            BY <1>1, <1>3, <1>4, <1>9, <2>1, <2>3 DEF InOrder
        <3>. QED BY <1>1, <3>1, <3>2, <3>3 DEF InOrder
    <2>. QED BY <2>2, <2>3
<1>12. Told' BY <1>11 DEF Told
<1>. QED BY <1>6, <1>7, <1>8, <1>12 DEF TInv

\* The requests that are given up.
LEMMA Abandoned ==
    ASSUME TypeOK, NEW u, NEW ops
    PROVE  /\ Abandon(u, ops) \in [Requests -> Request \cup {NoRequest}]
           /\ \A p \in Requests :
                Abandon(u, ops)[p] = IF Serves(p, u, ops) THEN NoRequest ELSE requests[p]
BY DEF TypeOK, Abandon

LEMMA FreshClient ==
    /\ NewClient \in Client /\ ~NewClient.live /\ ~NewClient.crossed
    /\ \A b \in BOOLEAN : LET k == [NewClient EXCEPT !.crossed = b]
                         IN k \in Client /\ ~k.live /\ k.crossed = b
BY DEF NewClient, Client

\* A join or a leave begins: it overlaps another, or is the only one.
LEMMA BeginsRoomOp ==
    ASSUME TInv, NEW r \in Requests, NEW u \in Clients, NEW op \in RoomOps, BeginRoomOp(r, u, op)
    PROVE  TInv'
<1>0. TypeOK BY DEF TInv
<1>. DEFINE crossing == \E p \in Requests : Serves(p, u, RoomOps)
            running == IF op = "leave" THEN Abandon(u, {"list"}) ELSE requests
            q == [op |-> op, pc |-> "channel", user |-> u, public |-> FALSE]
            k == IF op = "leave" THEN [NewClient EXCEPT !.crossed = crossing]
                 ELSE [client[u] EXCEPT !.crossed = @ \/ crossing]
<1>1. /\ requests[r] = NoRequest
      /\ requests' = [running EXCEPT ![r] = q]
      /\ client' = [client EXCEPT ![u] = k]
      /\ expelled' = IF Watches(u) THEN expelled ELSE expelled \ {u}
      /\ UNCHANGED <<visibility, members, database, room>>
    BY DEF BeginRoomOp, Busy
<1>2. crossing \in BOOLEAN OBVIOUS
<1>3. /\ k \in Client /\ (k.crossed <=> crossing \/ (op # "leave" /\ client[u].crossed))
      /\ (k.live <=> op # "leave" /\ client[u].live)
    <2>1. client[u] \in Client BY <1>0 DEF TypeOK
    <2>2. CASE op = "leave" BY <1>2, <2>2, FreshClient
    <2>3. CASE op # "leave" BY <1>2, <2>1, <2>3 DEF Client
    <2>. QED BY <2>2, <2>3
<1>4. /\ running \in [Requests -> Request \cup {NoRequest}]
      /\ \A p \in Requests : running[p] = requests[p] \/
            (running[p] = NoRequest /\ requests[p] # NoRequest /\ requests[p].op = "list")
    BY <1>0, Abandoned DEF TypeOK, Serves, Busy
<1>5. u \in Users BY TimelineAssumption
<1>6. /\ q \in Request /\ q # NoRequest /\ q.op = op /\ q.pc = "channel" /\ q.user = u
    BY <1>5 DEF Request, NoRequest
<1>. HIDE DEF running, q, k
<1>7. \A p \in Requests :
        \/ p = r /\ requests'[p] = q
        \/ p # r /\ requests'[p] = requests[p]
        \/ p # r /\ requests'[p] = NoRequest /\ requests[p] # NoRequest /\ requests[p].op = "list"
    BY <1>1, <1>4
<1>8. requests' \in [Requests -> Request \cup {NoRequest}] BY <1>1, <1>4, <1>6
<1>9. TypeOK' BY <1>0, <1>1, <1>3, <1>8 DEF TypeOK, database
<1>10. OfClients' BY <1>6, <1>7 DEF TInv, OfClients, Busy
<1>11. \A v : v # u \/ Watches(u) => (MayWatch(v) => MayWatch(v)')
    BY <1>1 DEF MayWatch, CanView, can_view
<1>12. \A p \in Requests : Admitted(p)' => Admitted(p) /\ requests'[p] = requests[p]
    BY <1>6, <1>7 DEF Admitted, Busy
<1>13. \A v \in room' : MayWatch(v)'
    BY <1>1, <1>11 DEF TInv, Access, Watches
<1>14. ASSUME NEW p \in Requests, Admitted(p)' PROVE MayWatch(requests[p].user)'
    <2>1. PICK v : v = requests[p].user OBVIOUS
    <2>2. MayWatch(v) /\ (v = u => Watches(u))
        BY <1>12, <1>14, <2>1 DEF TInv, Access, Watches, Admitted, Serves
    <2>. QED BY <1>11, <1>12, <1>14, <2>1, <2>2
<1>15. Access' BY <1>13, <1>14 DEF Access
<1>16. \A p \in Requests, v \in Clients, ops \in {RoomOps, {"join"}, {"leave"}} :
          Serves(p, v, ops)' <=> (p = r /\ v = u /\ op \in ops) \/ Serves(p, v, ops)
    BY <1>1, <1>6, <1>7 DEF Serves, Busy, RoomOps
<1>17. \A v \in Clients : client'[v] = IF v = u THEN k ELSE client[v] BY <1>0, <1>1 DEF TypeOK
<1>18. \A p \in Requests, v \in Clients :
          Serves(p, v, {"join"})' /\ requests'[p].pc = "ack" =>
            Serves(p, v, {"join"}) /\ requests[p].pc = "ack"
    BY <1>6, <1>7, <1>16 DEF Serves, Busy
<1>19. ASSUME NEW v \in Clients, ~client'[v].crossed PROVE InOrder(v)'
    <2>1. CASE v # u
        <3>1. InOrder(v) BY <1>17, <1>19, <2>1 DEF TInv, Told
        <3>. QED BY <1>1, <1>16, <1>17, <1>18, <2>1, <3>1 DEF InOrder
    <2>2. CASE v = u
        <3>1. \A p \in Requests : ~Serves(p, u, RoomOps) BY <1>3, <1>17, <1>19, <2>2
        <3>2. \A p \in Requests : ~Serves(p, u, {"join"}) /\ ~Serves(p, u, {"leave"})
            BY <3>1 DEF Serves, RoomOps
        <3>3. client'[v].live => op # "leave" /\ v \in room
            BY <1>3, <1>17, <1>19, <2>2 DEF TInv, Told, InOrder
        <3>. QED BY <1>1, <1>16, <1>18, <2>2, <3>1, <3>2, <3>3 DEF InOrder
    <2>. QED BY <2>1, <2>2
<1>20. Told' BY <1>19 DEF Told
<1>. QED BY <1>9, <1>10, <1>15, <1>20 DEF TInv

-----------------------------------------------------------------------------
(* Connections *)

LEMMA Disconnects ==
    ASSUME TInv, NEW u \in Clients, Disconnect(u)
    PROVE  TInv'
<1>0. TypeOK BY DEF TInv
<1>1. /\ room' = room \ {u} /\ expelled' = expelled \ {u}
      /\ client' = [client EXCEPT ![u] = NewClient]
      /\ requests' = Abandon(u, RoomOps \cup {"list"})
      /\ UNCHANGED <<visibility, members, database>>
    BY DEF Disconnect
<1>2. /\ requests' \in [Requests -> Request \cup {NoRequest}]
      /\ \A p \in Requests : requests'[p] =
            IF Serves(p, u, RoomOps \cup {"list"}) THEN NoRequest ELSE requests[p]
    BY <1>0, <1>1, Abandoned
<1>3. TypeOK' BY <1>0, <1>1, <1>2, FreshClient DEF TypeOK, database
<1>4. OfClients' BY <1>2 DEF TInv, OfClients, Busy
<1>5. \A v : v # u => (MayWatch(v) => MayWatch(v)') BY <1>1 DEF MayWatch, CanView, can_view
<1>6. \A p \in Requests : Admitted(p)' =>
        Admitted(p) /\ requests'[p] = requests[p] /\ requests[p].user # u
    BY <1>2 DEF Admitted, Busy, Serves, RoomOps
<1>7. ASSUME NEW p \in Requests, Admitted(p)' PROVE MayWatch(requests[p].user)'
    <2>1. PICK v : v = requests[p].user OBVIOUS
    <2>. QED BY <1>5, <1>6, <1>7, <2>1 DEF TInv, Access
<1>8. \A v \in room' : MayWatch(v)' BY <1>1, <1>5 DEF TInv, Access
<1>9. Access' BY <1>7, <1>8 DEF Access
<1>10. \A p \in Requests, v \in Clients, ops \in {RoomOps, {"join"}, {"leave"}} :
          Serves(p, v, ops)' =>
            Serves(p, v, ops) /\ requests'[p] = requests[p] /\ v # u
    BY <1>2 DEF Serves, Busy, RoomOps
<1>11. \A v \in Clients : client'[v] = IF v = u THEN NewClient ELSE client[v]
    BY <1>0, <1>1 DEF TypeOK
<1>12. ASSUME NEW v \in Clients, ~client'[v].crossed PROVE InOrder(v)'
    <2>1. CASE v = u BY <1>10, <1>11, <2>1, FreshClient DEF InOrder
    <2>2. CASE v # u
        <3>1. InOrder(v) BY <1>11, <1>12, <2>2 DEF TInv, Told
        <3>. QED BY <1>1, <1>10, <1>11, <2>2, <3>1 DEF InOrder
    <2>. QED BY <2>1, <2>2
<1>13. Told' BY <1>12 DEF Told
<1>. QED BY <1>3, <1>4, <1>9, <1>13 DEF TInv

LEMMA Restarts ==
    ASSUME TInv, Restart
    PROVE  TInv'
<1>1. TypeOK' BY FreshClient DEF Restart, TInv, TypeOK, database
<1>2. OfClients' /\ Access' BY DEF Restart, OfClients, Access, Admitted, Busy
<1>3. Told' BY FreshClient DEF Restart, Told, InOrder, Serves, Busy
<1>. QED BY <1>1, <1>2, <1>3 DEF TInv

-----------------------------------------------------------------------------
(* Theorems *)

LEMMA InitTInv == Init => TInv
<1>. SUFFICES ASSUME Init PROVE TInv OBVIOUS
<1>1. TypeOK BY FreshClient, TimelineAssumption DEF Init, TypeOK, NotYet
<1>2. OfClients /\ Access BY DEF Init, OfClients, Access, Admitted, Busy
<1>3. Told BY FreshClient DEF Init, Told, InOrder, Serves, Busy
<1>. QED BY <1>1, <1>2, <1>3 DEF TInv

LEMMA NextTInv == TInv /\ [Next]_vars => TInv'
<1>. SUFFICES ASSUME TInv, [Next]_vars PROVE TInv' OBVIOUS
<1>1. CASE (\E u \in Users : ChangeMember(u)) \/ ChangeVisibility \/ DeleteChannel
    BY <1>1, Changes
<1>2. CASE Tick BY <1>2, Ticks
<1>3. ASSUME NEW r \in Requests, Begin(r) PROVE TInv'
    BY <1>3, BeginsRoomOp, Sends, Lists DEF Begin
<1>4. ASSUME NEW r \in Requests, RequestStep(r) \/ Fail(r) PROVE TInv'
    <2>1. ASSUME NEW before \in Ids \cup {None}, NEW offset \in 0..MaxMessages,
                 SelectPage(r, [before |-> before, offset |-> offset])
          PROVE  TInv'
        <3>1. offset \in Nat BY TimelineAssumption
        <3>. QED BY <2>1, <3>1, SelectsPage
    <2>. QED BY <1>4, <2>1, Checks, ChangesRoom, Acknowledges, CommitsSend, Broadcasts, ChecksList
             DEF RequestStep
<1>5. ASSUME NEW u \in Clients, Disconnect(u) PROVE TInv' BY <1>5, Disconnects
<1>6. CASE Restart BY <1>6, Restarts
<1>7. CASE UNCHANGED vars
    <2>1. TypeOK' /\ UNCHANGED <<context, room, client, requests>>
        BY <1>7 DEF vars, context, database, TInv, TypeOK
    <2>. QED BY <2>1, QuietStep
<1>. QED BY <1>1, <1>2, <1>3, <1>4, <1>5, <1>6, <1>7 DEF Next

\* The inductive invariant of Timeline.
THEOREM InvariantHolds == Spec => []TInv
BY InitTInv, NextTInv, PTL DEF Spec

\* The context, the room, the clients and the requests keep their types.
THEOREM TypeCorrect == Spec => []TypeOK
<1>1. TInv => TypeOK BY DEF TInv
<1>. QED BY <1>1, InvariantHolds, PTL

\* Whoever is in a room may view its context or was expelled from it since asking to
\* join, although the join handler checks first and enters later; and a client whose room
\* events do not overlap is in the room it was told it is in.
THEOREM RoomsHoldTheRight == Spec => []RoomsAreRight
<1>1. TInv => RoomsAreRight
    BY DEF TInv, Access, MayWatch, Told, InOrder, RoomsAreRight
<1>. QED BY <1>1, InvariantHolds, PTL

-----------------------------------------------------------------------------
(* The order of the history *)

LEMMA LeastNatural ==
    ASSUME NEW T \in SUBSET Nat, T # {}
    PROVE  \E x \in T : \A y \in T : x <= y
<1>. DEFINE L == {p \in Nat \X Nat : p[1] < p[2]}
<1>1. IsWellFoundedOn(L, Nat)
    <2>1. L = OpToRel(<, Nat) BY DEF OpToRel
    <2>. QED BY <2>1, NatLessThanWellFounded
<1>2. \A x, y \in Nat : x < y => <<x, y>> \in L OBVIOUS
<1>. HIDE DEF L
<1>3. PICK x \in T : \A y \in T : <<y, x>> \notin L BY <1>1, WFMin
<1>4. \A y \in T : ~(y < x) BY <1>2, <1>3
<1>. QED BY <1>4

\* list_history sorts the messages: any two of them have an order.
LEMMA EarlierIsAnOrder ==
    ASSUME TypeOK, NEW m \in Ids, NEW n \in Ids
    PROVE  /\ ~(Earlier(m, n) /\ Earlier(n, m))
           /\ m = n \/ Earlier(m, n) \/ Earlier(n, m)
           /\ \A o \in Ids : Earlier(m, n) /\ Earlier(n, o) => Earlier(m, o)
<1>1. \A o \in Ids : rows[o] \in Nat /\ o \in Int BY TimelineAssumption DEF TypeOK, Ids
<1>. QED BY <1>1 DEF Earlier

LEMMA FirstOf ==
    ASSUME TypeOK, NEW T \in SUBSET Ids, T # {}
    PROVE  \E m \in T : \A n \in T : n = m \/ Earlier(m, n)
<1>1. \A m \in Ids : rows[m] \in Nat /\ m \in Nat BY TimelineAssumption DEF TypeOK, Ids
<1>2. PICK t \in {rows[m] : m \in T} : \A y \in {rows[m] : m \in T} : t <= y
    <2>. DEFINE V == {rows[m] : m \in T}
    <2>1. V \in SUBSET Nat /\ V # {} BY <1>1
    <2>. HIDE DEF V
    <2>2. \E t \in V : \A y \in V : t <= y BY <2>1, LeastNatural
    <2>. QED BY <2>2 DEF V
<1>. DEFINE S == {m \in T : rows[m] = t}
<1>3. PICK m \in S : \A n \in S : m <= n BY <1>1, <1>2, LeastNatural
<1>4. ASSUME NEW n \in T PROVE n = m \/ Earlier(m, n) BY <1>1, <1>2, <1>3, <1>4 DEF Earlier
<1>. QED BY <1>3, <1>4

LEMMA LastOf ==
    ASSUME TypeOK, NEW T \in SUBSET Ids, T # {}
    PROVE  \E m \in T : \A n \in T : n = m \/ Earlier(n, m)
<1>1. \A m \in Ids : /\ rows[m] \in Nat /\ m \in Nat
                     /\ MaxTime - rows[m] \in Nat /\ MaxMessages - m \in Nat
    BY TimelineAssumption DEF TypeOK, Ids
<1>. MaxTime \in Nat /\ MaxMessages \in Nat BY TimelineAssumption
<1>2. PICK t \in {MaxTime - rows[m] : m \in T} : \A y \in {MaxTime - rows[m] : m \in T} : t <= y
    <2>. DEFINE V == {MaxTime - rows[m] : m \in T}
    <2>1. V \in SUBSET Nat /\ V # {} BY <1>1
    <2>. HIDE DEF V
    <2>2. \E t \in V : \A y \in V : t <= y BY <2>1, LeastNatural
    <2>. QED BY <2>2 DEF V
<1>. DEFINE S == {m \in T : MaxTime - rows[m] = t}
<1>3. PICK i \in {MaxMessages - m : m \in S} : \A j \in {MaxMessages - m : m \in S} : i <= j
    <2>. DEFINE V == {MaxMessages - m : m \in S}
    <2>1. V \in SUBSET Nat /\ V # {} BY <1>1, <1>2
    <2>. HIDE DEF V
    <2>2. \E j \in V : \A y \in V : j <= y BY <2>1, LeastNatural
    <2>. QED BY <2>2 DEF V
<1>4. PICK m \in S : MaxMessages - m = i BY <1>3
<1>5. ASSUME NEW n \in T PROVE n = m \/ Earlier(n, m)
    <2>1. MaxTime - rows[m] <= MaxTime - rows[n] BY <1>2, <1>4
    <2>2. rows[n] <= rows[m] BY <1>1, <2>1
    <2>3. rows[n] = rows[m] => n \in S BY <1>4
    <2>4. n \in S => MaxMessages - m <= MaxMessages - n BY <1>3, <1>4
    <2>5. rows[n] = rows[m] => n <= m BY <1>1, <2>3, <2>4
    <2>. QED BY <1>1, <2>2, <2>5 DEF Earlier
<1>. QED BY <1>4, <1>5

\* The messages of the context are finitely many.
LEMMA FiniteIds ==
    ASSUME NEW S \in SUBSET Ids
    PROVE  IsFiniteSet(S) /\ Cardinality(S) \in Nat
<1>1. IsFiniteSet(Ids) BY FS_Interval, TimelineAssumption DEF Ids
<1>2. IsFiniteSet(S) BY <1>1, FS_Subset
<1>. QED BY <1>2, FS_CardinalityType

\* What a message is sorted before, in the part of the history before a cursor; and the
\* messages that a client has still to load.
Later(m, before) == {n \in Before(before) : Earlier(m, n)}
Rank(m, before) == Cardinality(Later(m, before))
Remaining(before, offset) == {m \in Before(before) : offset <= Rank(m, before)}

LEMMA PageByRank ==
    ASSUME NEW before, NEW offset
    PROVE  Page(before, offset) =
              {m \in Before(before) : offset <= Rank(m, before) /\ Rank(m, before) < offset + Limit}
BY DEF Page, Rank, Later

LEMMA RankType ==
    ASSUME NEW before, NEW m
    PROVE  /\ Before(before) \subseteq Ids /\ Later(m, before) \in SUBSET Ids
           /\ IsFiniteSet(Later(m, before)) /\ Rank(m, before) \in Nat
           /\ IsFiniteSet(Before(before)) /\ Cardinality(Before(before)) \in Nat
<1>1. Before(before) \subseteq Ids /\ Later(m, before) \in SUBSET Ids BY DEF Before, Later
<1>. QED BY <1>1, FiniteIds DEF Rank

LEMMA RankIsMonotone ==
    ASSUME TypeOK, NEW before, NEW m \in Before(before), NEW n \in Before(before), Earlier(m, n)
    PROVE  Rank(n, before) <= Rank(m, before)
<1>1. Later(n, before) \subseteq Later(m, before)
    <2>. SUFFICES ASSUME NEW o \in Later(n, before) PROVE Earlier(m, o) BY DEF Later
    <2>1. m \in Ids /\ n \in Ids /\ o \in Ids /\ Earlier(n, o) BY DEF Later, Before
    <2>. QED BY <2>1, EarlierIsAnOrder
<1>. QED BY <1>1, RankType, FS_Subset DEF Rank

\* The messages behind the last of a set's first ones: one less than its own.
LEMMA RankOfNext ==
    ASSUME TypeOK, NEW before, NEW m \in Before(before), Later(m, before) # {}
    PROVE  \E n \in Later(m, before) : Rank(n, before) = Rank(m, before) - 1
<1>1. PICK n \in Later(m, before) : \A o \in Later(m, before) : o = n \/ Earlier(n, o)
    BY RankType, FirstOf
<1>2. m \in Ids /\ n \in Ids /\ Earlier(m, n) /\ n \in Before(before) BY DEF Later, Before
<1>3. Later(n, before) = Later(m, before) \ {n}
    <2>1. ASSUME NEW o \in Later(n, before) PROVE o \in Later(m, before) \ {n}
        <3>1. o \in Ids /\ o \in Before(before) /\ Earlier(n, o) BY DEF Later, Before
        <3>2. Earlier(m, o) /\ o # n BY <1>2, <3>1, EarlierIsAnOrder
        <3>. QED BY <3>1, <3>2 DEF Later
    <2>2. ASSUME NEW o \in Later(m, before) \ {n} PROVE o \in Later(n, before)
        BY <1>1 DEF Later
    <2>. QED BY <2>1, <2>2
<1>4. Cardinality(Later(m, before) \ {n}) = Cardinality(Later(m, before)) - 1
    BY <1>1, RankType, FS_RemoveElement
<1>. QED BY <1>3, <1>4 DEF Rank

\* The first message of all has the highest rank.
LEMMA RankOfFirst ==
    ASSUME TypeOK, NEW before, Before(before) # {}
    PROVE  \E m \in Before(before) : Rank(m, before) = Cardinality(Before(before)) - 1
<1>1. PICK m \in Before(before) : \A n \in Before(before) : n = m \/ Earlier(m, n)
    BY RankType, FirstOf
<1>2. m \in Ids BY DEF Before
<1>3. Later(m, before) = Before(before) \ {m}
    BY <1>1, <1>2, EarlierIsAnOrder DEF Later
<1>4. Cardinality(Before(before) \ {m}) = Cardinality(Before(before)) - 1
    BY <1>1, RankType, FS_RemoveElement
<1>. QED BY <1>3, <1>4 DEF Rank

\* No rank reaches the number of messages.
LEMMA RankIsBounded ==
    ASSUME TypeOK, NEW before, NEW m \in Before(before)
    PROVE  Rank(m, before) < Cardinality(Before(before))
<1>1. m \in Ids BY DEF Before
<1>2. Later(m, before) \in SUBSET (Before(before) \ {m})
    BY <1>1, EarlierIsAnOrder DEF Later
<1>3. /\ IsFiniteSet(Before(before) \ {m})
      /\ Cardinality(Before(before) \ {m}) = Cardinality(Before(before)) - 1
    BY RankType, FS_RemoveElement
<1>4. Rank(m, before) <= Cardinality(Before(before)) - 1
    BY <1>2, <1>3, FS_Subset DEF Rank
<1>. QED BY <1>4, RankType

\* If there are more messages than the page ends at, the page is not empty.
LEMMA PageIsNotEmpty ==
    ASSUME TypeOK, NEW before, NEW offset \in Nat, has_more(before, offset)
    PROVE  Page(before, offset) # {}
<1>. DEFINE X == Remaining(before, offset)
<1>. Limit \in Nat \ {0} BY TimelineAssumption
<1>1. Cardinality(Before(before)) > offset + Limit BY DEF has_more
<1>2. X # {}
    <2>1. Before(before) # {} BY <1>1, FS_EmptySet
    <2>2. PICK m \in Before(before) : Rank(m, before) = Cardinality(Before(before)) - 1
        BY <2>1, RankOfFirst
    <2>3. offset <= Rank(m, before) BY <1>1, <2>2, RankType
    <2>. QED BY <2>3 DEF Remaining
<1>3. X \in SUBSET Ids BY DEF Remaining, Before
<1>. HIDE DEF X
<1>4. PICK m \in X : \A n \in X : n = m \/ Earlier(n, m) BY <1>2, <1>3, LastOf
<1>5. m \in Before(before) /\ offset <= Rank(m, before) BY DEF X, Remaining
<1>6. Rank(m, before) < offset + Limit
    <2>1. CASE Later(m, before) = {} BY <2>1, FS_EmptySet DEF Rank
    <2>2. CASE Later(m, before) # {}
        <3>1. PICK n \in Later(m, before) : Rank(n, before) = Rank(m, before) - 1
            BY <1>5, <2>2, RankOfNext
        <3>2. n \in Ids /\ m \in Ids /\ Earlier(m, n) /\ n \in Before(before)
            BY <1>3 DEF Later, Before
        <3>3. n \notin X BY <1>4, <3>2, EarlierIsAnOrder
        <3>4. ~(offset <= Rank(n, before)) BY <3>2, <3>3 DEF X, Remaining
        <3>. QED BY <3>1, <3>4, RankType
    <2>. QED BY <2>1, <2>2
<1>. QED BY <1>5, <1>6, PageByRank

\* A page with what remains after it covers what remained before it: nothing is
\* skipped between two pages, whichever way the client goes on.
LEMMA PagesAreSeamless ==
    ASSUME TypeOK, NEW before \in Ids \cup {None}, NEW offset \in Nat,
           NEW next \in NextPages(before, offset)
    PROVE  /\ next.before # None => next.before \in Ids /\ Stored(next.before)
           /\ \A m \in Remaining(before, offset) :
                \/ m \in Page(before, offset)
                \/ has_more(before, offset) /\ m \in Remaining(next.before, next.offset)
<1>. Limit \in Nat \ {0} BY TimelineAssumption
<1>. DEFINE page == Page(before, offset)
            oldest == CHOOSE m \in page : \A n \in page : ~Earlier(n, m)
<1>1. ASSUME NEW m \in Remaining(before, offset)
      PROVE  /\ m \in Before(before) /\ m \in Ids /\ Stored(m) /\ offset <= Rank(m, before)
             /\ m \in page \/ offset + Limit <= Rank(m, before)
    <2>1. m \in Before(before) /\ offset <= Rank(m, before) BY DEF Remaining
    <2>2. Rank(m, before) \in Nat BY RankType
    <2>. QED BY <2>1, <2>2, PageByRank DEF Before
<1>2. CASE ~has_more(before, offset)
    <2>1. next.before = None BY <1>2 DEF NextPages
    <2>2. \A m \in Remaining(before, offset) : m \in page
        <3>1. Cardinality(Before(before)) <= offset + Limit BY <1>2, RankType DEF has_more
        <3>. QED BY <1>1, <3>1, RankIsBounded, RankType
    <2>. QED BY <2>1, <2>2
<1>3. CASE has_more(before, offset)
    <2>1. page # {} /\ page \in SUBSET Ids BY <1>3, PageIsNotEmpty DEF Page, Before
    <2>2. \E m \in page : \A n \in page : ~Earlier(n, m)
        <3>. HIDE DEF page
        <3>1. PICK m \in page : \A n \in page : n = m \/ Earlier(m, n) BY <2>1, FirstOf
        <3>. QED BY <2>1, <3>1, EarlierIsAnOrder
    <2>3. oldest \in page /\ \A n \in page : ~Earlier(n, oldest) BY <2>2
    <2>4. \/ next = [before |-> oldest, offset |-> 0]
          \/ next = [before |-> None, offset |-> offset + Limit] /\ before = None
        BY <1>3 DEF NextPages
    <2>. HIDE DEF oldest
    <2>5. /\ oldest \in Before(before) /\ oldest \in Ids /\ oldest # None /\ Stored(oldest)
          /\ Rank(oldest, before) < offset + Limit
        <3>1. oldest \in Before(before) /\ Rank(oldest, before) < offset + Limit
            BY <2>3, PageByRank
        <3>. QED BY <3>1, TimelineAssumption DEF Before, Ids, None
    <2>6. ASSUME NEW m \in Remaining(before, offset), m \notin page
          PROVE  m \in Remaining(next.before, next.offset)
        <3>1. m \in Before(before) /\ m \in Ids /\ Stored(m) /\ offset + Limit <= Rank(m, before)
            BY <1>1, <2>6
        <3>2. Rank(oldest, before) < Rank(m, before) BY <2>5, <3>1, RankType
        <3>3. m # oldest /\ ~Earlier(oldest, m)
            BY <2>5, <3>1, <3>2, RankIsMonotone, RankType
        <3>4. Earlier(m, oldest) BY <2>5, <3>1, <3>3, EarlierIsAnOrder
        <3>5. CASE next = [before |-> oldest, offset |-> 0]
            <4>1. m \in Before(oldest) BY <3>1, <3>4 DEF Before
            <4>. QED BY <3>5, <4>1, RankType DEF Remaining
        <3>6. CASE next = [before |-> None, offset |-> offset + Limit] /\ before = None
            BY <3>1, <3>6 DEF Remaining
        <3>. QED BY <2>4, <3>5, <3>6
    <2>. QED BY <1>3, <2>4, <2>5, <2>6
<1>. QED BY <1>2, <1>3

\* A message that is added moves others to later pages, never to earlier ones.
LEMMA InsertionKeeps ==
    ASSUME TypeOK, NEW new \in Ids, ~Stored(new),
           \A m \in Ids : m # new => rows'[m] = rows[m], rows'[new] # NotYet,
           NEW before \in Ids \cup {None}, before # None => Stored(before),
           NEW offset \in Nat, NEW m \in Remaining(before, offset)
    PROVE  m \in Remaining(before, offset)'
<1>1. before # new
    <2>1. new # None BY TimelineAssumption DEF Ids, None
    <2>. QED BY <2>1
<1>2. \A n \in Before(before) : n \in Ids /\ n # new /\ n \in Before(before)'
    BY <1>1 DEF Before, Stored, Earlier
<1>3. m \in Before(before) /\ offset <= Rank(m, before) BY DEF Remaining
<1>4. Later(m, before) \subseteq Later(m, before)'
    BY <1>2, <1>3 DEF Later, Earlier
<1>5. Later(m, before)' \in SUBSET Ids BY DEF Later, Before
<1>6. /\ IsFiniteSet(Later(m, before)')
      /\ Cardinality(Later(m, before)') \in Nat
    BY <1>5, FiniteIds
<1>7. Cardinality(Later(m, before)) <= Cardinality(Later(m, before)')
    BY <1>4, <1>6, FS_Subset
<1>8. offset <= Rank(m, before)' BY <1>3, <1>6, <1>7, RankType DEF Rank
<1>. QED BY <1>2, <1>3, <1>8 DEF Remaining

-----------------------------------------------------------------------------
(* Loading the history *)

Sending(r) == Busy(r) /\ requests[r].op = "send"
Pending(m) == \E r \in Requests : requests[r].pc = "emit" /\ requests[r].message = m
List == {"list"}

\* Each message is sent once, and committed once.
SendsApart ==
    /\ \A r, p \in Requests : Sending(r) /\ Sending(p) /\ requests[r].message = requests[p].message => r = p
    /\ \A r \in Requests : requests[r].pc = "commit" => ~Stored(requests[r].message)

\* A client loads page after page, and only while it counts on the room; what is
\* behind the pages it has loaded it knows, or will be told.
Loads(u) ==
    /\ ~client[u].live => /\ client[u].before = None /\ client[u].offset = 0
                          /\ ~client[u].complete
                          /\ \A r \in Requests : ~Serves(r, u, List)
    /\ \A r \in Requests : Serves(r, u, List) =>
          requests[r].before = client[u].before /\ requests[r].offset = client[u].offset
    /\ \A r, p \in Requests : Serves(r, u, List) /\ Serves(p, u, List) => r = p
    /\ client[u].before # None => Stored(client[u].before)
    /\ \A m \in Ids : Stored(m) =>
          \/ m \in client[u].known \/ Pending(m)
          \/ ~client[u].complete /\ m \in Remaining(client[u].before, client[u].offset)

LInv == TInv /\ SendsApart /\ (\A u \in Clients : ~client[u].crossed => Loads(u))

LEMMA StartOfHistory ==
    ASSUME NEW m \in Ids, Stored(m)
    PROVE  m \in Remaining(None, 0)
<1>1. m \in Before(None) BY DEF Before
<1>2. Rank(m, None) \in Nat BY RankType
<1>. QED BY <1>1, <1>2 DEF Remaining

\* A client that begins anew has everything to load.
LEMMA FreshLoads ==
    ASSUME NEW u \in Clients, client'[u].before = None, client'[u].offset = 0,
           ~client'[u].complete, \A r \in Requests : ~Serves(r, u, List)'
    PROVE  Loads(u)'
<1>1. \A m \in Ids : Stored(m)' => m \in Remaining(None, 0)'
    <2>. SUFFICES ASSUME NEW m \in Ids, Stored(m)' PROVE m \in Remaining(None, 0)' OBVIOUS
    <2>1. m \in Before(None)' BY DEF Before
    <2>2. Later(m, None)' \in SUBSET Ids BY DEF Later, Before
    <2>3. Cardinality(Later(m, None)') \in Nat BY <2>2, FiniteIds
    <2>4. Rank(m, None)' \in Nat BY <2>3 DEF Rank
    <2>. QED BY <2>1, <2>4 DEF Remaining
<1>2. \A m \in Ids : Stored(m)' => m \in Remaining(client[u].before, client[u].offset)'
    BY <1>1
<1>. QED BY <1>2 DEF Loads

\* What a step may do without disturbing a client that loads: its place in the history
\* stays, it knows no less, and a broadcast that ends has reached it.
LEMMA LoadsStay ==
    ASSUME NEW u \in Clients, Loads(u), UNCHANGED rows,
           client'[u].before = client[u].before, client'[u].offset = client[u].offset,
           client'[u].complete = client[u].complete, client[u].known \subseteq client'[u].known,
           ~client'[u].live => ~client[u].live,
           \A p \in Requests : Serves(p, u, List)' =>
               /\ Serves(p, u, List)
               /\ requests'[p].before = requests[p].before
               /\ requests'[p].offset = requests[p].offset,
           \A m \in Ids : Pending(m) =>
               Pending(m)' \/ m \in client'[u].known \/ ~client[u].live
    PROVE  Loads(u)'
<1>1. \A m \in Ids : Stored(m)' <=> Stored(m) BY DEF Stored
<1>2. \A m \in Ids : m \in Remaining(client[u].before, client[u].offset)
                       => m \in Remaining(client[u].before, client[u].offset)'
    <2>. PICK b, o : b = client[u].before /\ o = client[u].offset OBVIOUS
    <2>1. \A m \in Ids : m \in Remaining(b, o) => m \in Remaining(b, o)'
        BY DEF Remaining, Rank, Later, Before, Stored, Earlier
    <2>2. Remaining(client[u].before, client[u].offset)' = Remaining(b, o)' OBVIOUS
    <2>. QED BY <2>1, <2>2
<1>3. ASSUME NEW m \in Ids, Stored(m)
      PROVE  \/ m \in client'[u].known \/ Pending(m)'
             \/ ~client'[u].complete /\ m \in Remaining(client[u].before, client[u].offset)'
    <2>1. CASE ~client[u].live
        <3>1. ~client[u].complete /\ m \in Remaining(client[u].before, client[u].offset)
            BY <1>3, <2>1, StartOfHistory DEF Loads
        <3>. QED BY <1>2, <3>1
    <2>2. CASE client[u].live BY <1>2, <1>3, <2>2 DEF Loads
    <2>. QED BY <2>1, <2>2
<1>4. client'[u].before # None => Stored(client[u].before)' BY DEF Loads, Stored
<1>. QED BY <1>1, <1>3, <1>4 DEF Loads

\* A step that adds no message, ends no broadcast and moves no client's place.
LEMMA QuietLoads ==
    ASSUME LInv, UNCHANGED rows,
           \A u \in Clients : ~client'[u].crossed =>
               /\ ~client[u].crossed /\ (~client'[u].live => ~client[u].live)
               /\ client'[u].before = client[u].before /\ client'[u].offset = client[u].offset
               /\ client'[u].complete = client[u].complete
               /\ client'[u].known = client[u].known,
           \A p \in Requests :
               \/ requests'[p] = requests[p]
               \/ requests'[p] = NoRequest /\ requests[p].pc # "emit"
               \/ /\ requests'[p] # NoRequest /\ requests'[p].op \in RoomOps
                  /\ requests'[p].pc \in RoomPcs /\ requests[p].pc # "emit"
               \/ /\ requests'[p] # NoRequest /\ requests'[p].op = "list"
                  /\ requests'[p].pc \in {"check", "select"} /\ requests[p].pc # "emit"
                  /\ requests[p] # NoRequest
                  /\ requests[p].op = "list" /\ requests'[p].user = requests[p].user
                  /\ requests'[p].before = requests[p].before
                  /\ requests'[p].offset = requests[p].offset
    PROVE  SendsApart' /\ \A u \in Clients : ~client'[u].crossed => Loads(u)'
<1>1. \A p \in Requests :
          /\ Sending(p)' => Sending(p) /\ requests'[p] = requests[p]
          /\ requests'[p].pc = "commit" => requests[p].pc = "commit" /\ requests'[p] = requests[p]
          /\ requests[p].pc = "emit" => requests'[p] = requests[p]
    BY DEF Sending, Busy, NoRequest, RoomOps, RoomPcs
<1>2. SendsApart' BY <1>1 DEF LInv, SendsApart, Stored
<1>3. \A m \in Ids : Pending(m) => Pending(m)' BY <1>1 DEF Pending
<1>4. \A p \in Requests, u \in Clients : Serves(p, u, List)' =>
          /\ Serves(p, u, List)
          /\ requests'[p].before = requests[p].before
          /\ requests'[p].offset = requests[p].offset
    BY DEF Serves, Busy, List, RoomOps
<1>5. ASSUME NEW u \in Clients, ~client'[u].crossed PROVE Loads(u)'
    <2>1. Loads(u) BY <1>5 DEF LInv
    <2>. QED BY <1>3, <1>4, <1>5, <2>1, LoadsStay
<1>. QED BY <1>2, <1>5

LEMMA ContextLoads ==
    ASSUME LInv, UNCHANGED <<rows, client, requests>>, TInv'
    PROVE  LInv'
BY QuietLoads DEF LInv

LEMMA ReadsLoads ==
    ASSUME LInv, NEW r \in Requests, ReadChannel(r) \/ ReadMembership(r) \/ ChangeRoom(r)
    PROVE  LInv'
<1>0. TInv' /\ TypeOK BY Checks, ChangesRoom DEF LInv, TInv
<1>1. UNCHANGED <<rows, client>> /\ requests[r].pc \in {"channel", "membership", "room"}
    BY DEF ReadChannel, ReadMembership, ChangeRoom, database
<1>2. requests[r] \in [op: RoomOps, pc: RoomPcs, user: Users, public: BOOLEAN]
    BY <1>0, <1>1, RoomRequest DEF RoomPcs
<1>3. \A p \in Requests \ {r} : requests'[p] = requests[p]
    BY <1>0 DEF ReadChannel, ReadMembership, ChangeRoom, Finish, Go, TypeOK
<1>4. \/ requests'[r] = NoRequest
      \/ /\ requests'[r] # NoRequest /\ requests'[r].op \in RoomOps
         /\ requests'[r].pc \in RoomPcs
    <2>1. CASE Finish(r) BY <1>0, <2>1, Finished
    <2>2. ASSUME NEW pc \in RoomPcs, NEW b \in BOOLEAN,
                 requests' = [requests EXCEPT ![r].pc = pc, ![r].public = b]
          PROVE  /\ requests'[r] # NoRequest /\ requests'[r].op \in RoomOps
                 /\ requests'[r].pc \in RoomPcs
        <3>1. requests' = [requests EXCEPT ![r] = [requests[r] EXCEPT !.pc = pc, !.public = b]]
            BY <2>2
        <3>2. requests[r].op \in RoomOps /\ requests[r].pc \in RoomPcs BY <1>2
        <3>3. /\ requests'[r] # NoRequest /\ requests'[r].pc = pc
              /\ requests'[r].op = requests[r].op
            BY <1>0, <3>1, <3>2, RoomMoves, Zenon
        <3>. QED BY <2>2, <3>2, <3>3
    <2>3. CASE ReadChannel(r) /\ ~Finish(r)
        <3>1. requests' = [requests EXCEPT ![r].pc = "membership",
                                           ![r].public = (visibility = "public")]
            BY <2>3 DEF ReadChannel
        <3>. QED BY <2>2, <3>1 DEF RoomPcs
    <2>4. CASE ReadMembership(r) /\ ~Finish(r)
        <3>1. requests' = [requests EXCEPT ![r].pc = "room", ![r].public = FALSE]
            BY <2>4 DEF ReadMembership
        <3>. QED BY <2>2, <3>1 DEF RoomPcs
    <2>5. CASE ChangeRoom(r)
        <3>1. requests' = [requests EXCEPT ![r].pc = "ack", ![r].public = requests[r].public]
            <4>1. [requests[r] EXCEPT !.pc = "ack", !.public = requests[r].public]
                    = [requests[r] EXCEPT !.pc = "ack"]
                BY <1>2
            <4>2. requests' = [requests EXCEPT ![r] = [requests[r] EXCEPT !.pc = "ack"]]
                BY <2>5 DEF ChangeRoom, Go
            <4>. QED BY <4>1, <4>2
        <3>. QED BY <1>2, <2>2, <3>1 DEF RoomPcs
    <2>. QED BY <2>1, <2>3, <2>4, <2>5
<1>5. \A p \in Requests :
          \/ requests'[p] = requests[p]
          \/ requests'[p] = NoRequest /\ requests[p].pc # "emit"
          \/ /\ requests'[p] # NoRequest /\ requests'[p].op \in RoomOps
             /\ requests'[p].pc \in RoomPcs /\ requests[p].pc # "emit"
    BY <1>1, <1>3, <1>4
<1>. QED BY <1>0, <1>1, <1>5, QuietLoads DEF LInv

LEMMA AcknowledgesLoads ==
    ASSUME LInv, NEW r \in Requests, Acknowledge(r)
    PROVE  LInv'
<1>0. TInv' /\ TInv /\ TypeOK BY Acknowledges DEF LInv, TInv
<1>. DEFINE u == requests[r].user
            k == [client[u] EXCEPT !.live = (requests[r].op = "join")]
<1>1. /\ requests[r].pc = "ack" /\ Finish(r) /\ UNCHANGED rows
      /\ client' = [client EXCEPT ![u] = k]
    BY DEF Acknowledge, database
<1>2. /\ requests[r] # NoRequest /\ u \in Clients /\ requests[r].op \in RoomOps
    BY <1>0, <1>1, Kinds DEF TInv, OfClients, Busy, RoomPcs, RoomOps
<1>3. /\ k.live = (requests[r].op = "join") /\ k.crossed = client[u].crossed
      /\ k.before = client[u].before /\ k.offset = client[u].offset
      /\ k.complete = client[u].complete /\ k.known = client[u].known
    BY <1>0, <1>2 DEF TypeOK, Client
<1>4. requests[r].op # "join" => Serves(r, u, {"leave"})
    BY <1>2 DEF Serves, Busy, RoomOps
<1>. HIDE DEF u, k
<1>5. \A p \in Requests : requests'[p] = IF p = r THEN NoRequest ELSE requests[p]
    BY <1>0, <1>1, Finished
<1>6. \A v \in Clients : client'[v] = IF v = u THEN k ELSE client[v]
    BY <1>0, <1>1, <1>2 DEF TypeOK
<1>7. ASSUME NEW v \in Clients, ~client'[v].crossed
      PROVE  /\ ~client[v].crossed /\ (~client'[v].live => ~client[v].live)
             /\ client'[v].before = client[v].before /\ client'[v].offset = client[v].offset
             /\ client'[v].complete = client[v].complete /\ client'[v].known = client[v].known
    <2>1. CASE v # u BY <1>6, <1>7, <2>1
    <2>2. CASE v = u
        <3>1. InOrder(u) BY <1>0, <1>2, <1>3, <1>6, <1>7, <2>2 DEF TInv, Told
        <3>2. requests[r].op # "join" => ~client[u].live BY <1>4, <3>1 DEF InOrder
        <3>. QED BY <1>3, <1>6, <1>7, <2>2, <3>2
    <2>. QED BY <2>1, <2>2
<1>. QED BY <1>0, <1>1, <1>5, <1>7, QuietLoads DEF LInv

\* A leave starts the client over; a join leaves its place as it is.
LEMMA BeginsRoomOpLoads ==
    ASSUME LInv, NEW r \in Requests, NEW u \in Clients, NEW op \in RoomOps, BeginRoomOp(r, u, op)
    PROVE  LInv'
<1>0. TInv' /\ TInv /\ TypeOK BY BeginsRoomOp DEF LInv, TInv
<1>. DEFINE crossing == \E p \in Requests : Serves(p, u, RoomOps)
            running == IF op = "leave" THEN Abandon(u, {"list"}) ELSE requests
            q == [op |-> op, pc |-> "channel", user |-> u, public |-> FALSE]
            k == IF op = "leave" THEN [NewClient EXCEPT !.crossed = crossing]
                 ELSE [client[u] EXCEPT !.crossed = @ \/ crossing]
<1>1. /\ requests[r] = NoRequest
      /\ requests' = [running EXCEPT ![r] = q]
      /\ client' = [client EXCEPT ![u] = k]
      /\ UNCHANGED rows
    BY DEF BeginRoomOp, Busy, database
<1>2. /\ running \in [Requests -> Request \cup {NoRequest}]
      /\ \A p \in Requests : running[p] =
            IF op = "leave" /\ Serves(p, u, List) THEN NoRequest ELSE requests[p]
    BY <1>0, Abandoned DEF TypeOK, List
<1>3. q # NoRequest /\ q.op = op /\ q.pc = "channel" /\ q.user = u BY DEF NoRequest
<1>4. op = "leave" => /\ k.before = None /\ k.offset = 0 /\ ~k.complete
    BY DEF NewClient
<1>5. op # "leave" => /\ k.crossed = (client[u].crossed \/ crossing) /\ k.live = client[u].live
                      /\ k.before = client[u].before /\ k.offset = client[u].offset
                      /\ k.complete = client[u].complete /\ k.known = client[u].known
    BY <1>0 DEF TypeOK, Client
<1>. HIDE DEF running, q, k
<1>6. \A p \in Requests : requests'[p] =
          IF p = r THEN q
          ELSE IF op = "leave" /\ Serves(p, u, List) THEN NoRequest ELSE requests[p]
    BY <1>1, <1>2
<1>7. \A v \in Clients : client'[v] = IF v = u THEN k ELSE client[v] BY <1>0, <1>1 DEF TypeOK
<1>8. \A p \in Requests : Serves(p, u, List) => requests[p].pc # "emit"
    BY <1>0, Kinds DEF Serves, Busy, List
<1>9. \A p \in Requests :
          \/ requests'[p] = requests[p]
          \/ requests'[p] = NoRequest /\ requests[p].pc # "emit"
          \/ /\ requests'[p] # NoRequest /\ requests'[p].op \in RoomOps
             /\ requests'[p].pc \in RoomPcs /\ requests[p].pc # "emit"
    BY <1>1, <1>3, <1>6, <1>8 DEF RoomPcs, NoRequest
<1>10. CASE op # "leave"
    <2>1. \A v \in Clients : ~client'[v].crossed =>
              /\ ~client[v].crossed /\ (~client'[v].live => ~client[v].live)
              /\ client'[v].before = client[v].before /\ client'[v].offset = client[v].offset
              /\ client'[v].complete = client[v].complete
              /\ client'[v].known = client[v].known
        BY <1>5, <1>7, <1>10
    <2>. QED BY <1>0, <1>1, <1>9, <2>1, QuietLoads DEF LInv
<1>11. CASE op = "leave"
    <2>1. \A p \in Requests :
              /\ Sending(p)' <=> Sending(p)
              /\ Sending(p) => requests'[p] = requests[p]
        BY <1>1, <1>3, <1>6, <1>11 DEF Sending, Busy, Serves, List, RoomOps
    <2>2. \A p \in Requests : requests[p].pc \in {"emit", "commit"} => Sending(p)
        BY <1>0, Kinds DEF Sending
    <2>3. \A p \in Requests : requests'[p].pc \in {"emit", "commit"} => Sending(p)'
        BY <1>3, <1>6, <1>11, <2>1, <2>2 DEF NoRequest
    <2>4. SendsApart' BY <1>1, <2>1, <2>3 DEF LInv, SendsApart, Stored
    <2>5. \A m \in Ids : Pending(m) => Pending(m)' BY <2>1, <2>2 DEF Pending
    <2>6. ASSUME NEW v \in Clients, ~client'[v].crossed PROVE Loads(v)'
        <3>1. CASE v = u
            <4>1. \A p \in Requests : ~Serves(p, u, List)'
                BY <1>3, <1>6, <1>11 DEF Serves, Busy, List
            <4>. QED BY <1>4, <1>7, <1>11, <3>1, <4>1, FreshLoads
        <3>2. CASE v # u
            <4>1. Loads(v) /\ client'[v] = client[v] BY <1>7, <2>6, <3>2 DEF LInv
            <4>2. \A p \in Requests : Serves(p, v, List)' =>
                      /\ Serves(p, v, List)
                      /\ requests'[p].before = requests[p].before
                      /\ requests'[p].offset = requests[p].offset
                BY <1>3, <1>6, <1>11, <3>2 DEF Serves, Busy, List
            <4>. QED BY <1>1, <2>5, <4>1, <4>2, LoadsStay
        <3>. QED BY <3>1, <3>2
    <2>. QED BY <1>0, <2>4, <2>6 DEF LInv
<1>. QED BY <1>10, <1>11

LEMMA BeginsSendLoads ==
    ASSUME LInv, NEW r \in Requests, NEW u \in Users, NEW m \in Ids, BeginSend(r, u, m)
    PROVE  LInv'
<1>0. TInv' /\ TInv /\ TypeOK BY Sends DEF LInv, TInv
<1>. DEFINE q == [op |-> "send", pc |-> "commit", user |-> u, message |-> m, created_at |-> clock]
<1>1. q.op = "send" /\ q.pc = "commit" /\ q.message = m OBVIOUS
<1>2. /\ requests[r] = NoRequest /\ ~Stored(m) /\ UNCHANGED <<rows, client>>
      /\ requests' = [requests EXCEPT ![r] = q]
      /\ \A p \in Requests : Sending(p) => requests[p].message # m
    BY DEF BeginSend, Busy, Sending, database
<1>. HIDE DEF q
<1>3. \A p \in Requests : requests'[p] = IF p = r THEN q ELSE requests[p]
    BY <1>0, <1>2 DEF TypeOK
<1>4. \A p \in Requests : Sending(p)' => p = r \/ Sending(p)
    BY <1>3 DEF Sending, Busy
<1>5. SendsApart' BY <1>1, <1>2, <1>3, <1>4 DEF LInv, SendsApart, Stored
<1>6. \A n \in Ids : Pending(n) => Pending(n)'
    BY <1>2, <1>3 DEF Pending, NoRequest
<1>7. \A p \in Requests, v \in Clients : Serves(p, v, List)' =>
          Serves(p, v, List) /\ requests'[p] = requests[p]
    BY <1>1, <1>3 DEF Serves, Busy, List
<1>8. ASSUME NEW v \in Clients, ~client'[v].crossed PROVE Loads(v)'
    <2>1. Loads(v) BY <1>2, <1>8 DEF LInv
    <2>. QED BY <1>2, <1>6, <1>7, <2>1, LoadsStay
<1>. QED BY <1>0, <1>5, <1>8 DEF LInv

\* The new message may be behind a cursor: it is still to be broadcast.
LEMMA CommitsSendLoads ==
    ASSUME LInv, NEW r \in Requests, CommitSend(r)
    PROVE  LInv'
<1>0. TInv' /\ TInv /\ TypeOK BY CommitsSend DEF LInv, TInv
<1>1. requests[r].pc = "commit" /\ UNCHANGED client BY DEF CommitSend
<1>2. requests[r].op = "send" /\ requests[r] \in Request /\ Busy(r) BY <1>0, <1>1, Kinds
<1>3. PICK m \in Ids : m = requests[r].message BY <1>1, <1>2 DEF Request, RoomOps
<1>4. PICK t \in 1..MaxTime : t = requests[r].created_at
    BY <1>1, <1>2 DEF Request, RoomOps
<1>5. CASE Finish(r) /\ UNCHANGED rows
    <2>1. \A p \in Requests : requests'[p] = IF p = r THEN NoRequest ELSE requests[p]
        BY <1>0, <1>5, Finished
    <2>2. \A p \in Requests :
              \/ requests'[p] = requests[p]
              \/ requests'[p] = NoRequest /\ requests[p].pc # "emit"
        BY <1>1, <2>1
    <2>. QED BY <1>0, <1>1, <1>5, <2>2, QuietLoads DEF LInv
<1>6. CASE Go(r, "emit") /\ rows' = [rows EXCEPT ![m] = t]
    <2>. DEFINE q == [requests[r] EXCEPT !.pc = "emit"]
    <2>1. q.op = "send" /\ q.pc = "emit" /\ q.message = m /\ q # NoRequest
        BY <1>1, <1>2, <1>3 DEF Request, RoomOps, NoRequest
    <2>2. requests' = [requests EXCEPT ![r] = q] BY <1>6 DEF Go
    <2>. HIDE DEF q
    <2>3. \A p \in Requests : requests'[p] = IF p = r THEN q ELSE requests[p]
        BY <1>0, <2>2 DEF TypeOK
    <2>4. ~Stored(m) BY <1>1, <1>3 DEF LInv, SendsApart
    <2>5. /\ \A n \in Ids : n # m => rows'[n] = rows[n]
          /\ rows'[m] = t /\ t # NotYet
        BY <1>0, <1>6 DEF TypeOK, NotYet
    <2>6. \A p \in Requests : /\ Sending(p)' <=> Sending(p)
                              /\ requests'[p].message = requests[p].message
        BY <1>2, <1>3, <2>1, <2>3 DEF Sending, Busy
    <2>7. \A p \in Requests : requests'[p].pc = "commit" =>
              /\ p # r /\ requests[p].pc = "commit" /\ Sending(p) /\ requests[p].message \in Ids
              /\ requests[p].message # m
        <3>. SUFFICES ASSUME NEW p \in Requests, requests'[p].pc = "commit"
                      PROVE  /\ p # r /\ requests[p].pc = "commit" /\ Sending(p)
                             /\ requests[p].message \in Ids /\ requests[p].message # m
            OBVIOUS
        <3>1. p # r /\ requests[p].pc = "commit" BY <2>1, <2>3
        <3>2. Sending(p) /\ requests[p] \in Request BY <1>0, <3>1, Kinds DEF Sending
        <3>3. requests[p].message \in Ids BY <3>1, <3>2 DEF Request, RoomOps
        <3>4. Sending(r) BY <1>2 DEF Sending
        <3>5. requests[p].message # m BY <1>3, <3>1, <3>2, <3>4 DEF LInv, SendsApart
        <3>. QED BY <3>1, <3>2, <3>3, <3>5
    <2>8. SendsApart'
        <3>1. \A p \in Requests : requests'[p].pc = "commit" => rows'[requests'[p].message] = NotYet
            BY <2>5, <2>6, <2>7 DEF LInv, SendsApart, Stored
        <3>. QED BY <2>6, <3>1 DEF LInv, SendsApart, Stored
    <2>9. \A n \in Ids : Pending(n) \/ n = m => Pending(n)'
        BY <1>1, <2>1, <2>3 DEF Pending
    <2>10. \A p \in Requests, v \in Clients : Serves(p, v, List)' =>
               Serves(p, v, List) /\ requests'[p] = requests[p]
        BY <2>1, <2>3 DEF Serves, Busy, List
    <2>11. ASSUME NEW v \in Clients, ~client'[v].crossed PROVE Loads(v)'
        <3>1. Loads(v) BY <1>1, <2>11 DEF LInv
        <3>2. PICK b, o : b = client[v].before /\ o = client[v].offset OBVIOUS
        <3>3. b \in Ids \cup {None} /\ o \in Nat BY <1>0, <3>2 DEF TypeOK, Client
        <3>4. b # None => Stored(b) BY <3>1, <3>2 DEF Loads
        <3>5. \A n \in Ids : n \in Remaining(b, o) => n \in Remaining(b, o)'
            BY <1>0, <2>4, <2>5, <3>3, <3>4, InsertionKeeps
        <3>6. \A n \in Ids : n \in Remaining(client[v].before, client[v].offset)
                              => (n \in Remaining(client[v].before, client[v].offset))'
            <4>1. (Remaining(client[v].before, client[v].offset))' = Remaining(b, o)'
                BY <1>1, <3>2
            <4>. QED BY <3>2, <3>5, <4>1
        <3>7. (client[v].before # None => Stored(client[v].before))'
            <4>1. b # None => rows'[b] # NotYet
                BY <2>5, <3>3, <3>4 DEF Stored
            <4>. QED BY <1>1, <3>2, <4>1 DEF Stored
        <3>8. ASSUME NEW n \in Ids, Stored(n)'
              PROVE  \/ n \in client'[v].known \/ Pending(n)'
                     \/ /\ ~client'[v].complete
                        /\ (n \in Remaining(client[v].before, client[v].offset))'
            <4>1. CASE n = m BY <2>9, <4>1
            <4>2. CASE n # m
                <5>1. Stored(n) BY <2>5, <3>8, <4>2 DEF Stored
                <5>. QED BY <1>1, <2>9, <3>1, <3>6, <5>1 DEF Loads
            <4>. QED BY <4>1, <4>2
        <3>. QED BY <1>1, <2>10, <3>1, <3>7, <3>8 DEF Loads
    <2>. QED BY <1>0, <2>8, <2>11 DEF LInv
<1>. QED BY <1>3, <1>4, <1>5, <1>6 DEF CommitSend

\* A broadcast reaches every client that counts on the room; a failed one is counted
\* against nobody.
LEMMA EmitsLoads ==
    ASSUME LInv, NEW r \in Requests, Emit(r) \/ Fail(r)
    PROVE  LInv'
<1>0. TInv' /\ TInv /\ TypeOK BY Broadcasts DEF LInv, TInv
<1>1. Finish(r) /\ UNCHANGED rows BY DEF Emit, Fail, database
<1>2. \A p \in Requests : requests'[p] = IF p = r THEN NoRequest ELSE requests[p]
    BY <1>0, <1>1, Finished
<1>3. CASE requests[r].pc # "emit"
    <2>1. \A u \in Clients : client'[u] = client[u] BY <1>3 DEF Emit, Fail
    <2>2. \A p \in Requests :
              \/ requests'[p] = requests[p]
              \/ requests'[p] = NoRequest /\ requests[p].pc # "emit"
        BY <1>2, <1>3
    <2>. QED BY <1>0, <1>1, <2>1, <2>2, QuietLoads DEF LInv
<1>4. CASE requests[r].pc = "emit"
    <2>. PICK m : m = requests[r].message OBVIOUS
    <2>1. ASSUME NEW u \in Clients
          PROVE  /\ client'[u].before = client[u].before /\ client'[u].offset = client[u].offset
                 /\ client'[u].complete = client[u].complete
                 /\ client'[u].live = client[u].live /\ client'[u].crossed = client[u].crossed
                 /\ client[u].known \subseteq client'[u].known
                 /\ client[u].live /\ ~client[u].crossed => m \in client'[u].known
        <3>. DEFINE k == [client[u] EXCEPT !.known = @ \cup {m}]
        <3>1. /\ k.before = client[u].before /\ k.offset = client[u].offset
              /\ k.complete = client[u].complete
              /\ k.live = client[u].live /\ k.crossed = client[u].crossed
              /\ k.known = client[u].known \cup {m}
            BY <1>0 DEF TypeOK, Client
        <3>2. client'[u] = k \/ client'[u] = client[u] BY DEF Emit, Fail
        <3>3. client[u].live /\ ~client[u].crossed => client'[u] = k
            <4>1. client[u].live /\ ~client[u].crossed => u \in room
                BY <1>0 DEF TInv, Told, InOrder
            <4>. QED BY <1>4, <4>1 DEF Emit, Fail
        <3>. HIDE DEF k
        <3>. QED BY <3>1, <3>2, <3>3
    <2>2. \A p \in Requests : Sending(p)' => Sending(p) /\ requests'[p] = requests[p]
        BY <1>2 DEF Sending, Busy
    <2>3. SendsApart' BY <1>1, <1>2, <2>2 DEF LInv, SendsApart, Stored, NoRequest
    <2>4. \A n \in Ids : Pending(n) => Pending(n)' \/ n = m BY <1>2 DEF Pending
    <2>5. \A p \in Requests, v \in Clients : Serves(p, v, List)' =>
              Serves(p, v, List) /\ requests'[p] = requests[p]
        BY <1>2 DEF Serves, Busy
    <2>6. ASSUME NEW v \in Clients, ~client'[v].crossed PROVE Loads(v)'
        <3>1. Loads(v) BY <2>1, <2>6 DEF LInv
        <3>2. \A n \in Ids : Pending(n) =>
                  Pending(n)' \/ n \in client'[v].known \/ ~client[v].live
            BY <2>1, <2>4, <2>6
        <3>. QED BY <1>1, <2>1, <2>5, <3>1, <3>2, LoadsStay
    <2>. QED BY <1>0, <2>3, <2>6 DEF LInv
<1>. QED BY <1>3, <1>4

\* The one page a client asks for is the next one.
LEMMA BeginsListLoads ==
    ASSUME LInv, NEW r \in Requests, NEW u \in Clients, BeginList(r, u)
    PROVE  LInv'
<1>0. TInv' /\ TInv /\ TypeOK BY Lists DEF LInv, TInv
<1>. DEFINE q == [op |-> "list", pc |-> "check", user |-> u,
                  before |-> client[u].before, offset |-> client[u].offset]
<1>1. /\ q.op = "list" /\ q.pc = "check" /\ q.user = u
      /\ q.before = client[u].before /\ q.offset = client[u].offset
    OBVIOUS
<1>2. /\ requests[r] = NoRequest /\ UNCHANGED <<rows, client>>
      /\ requests' = [requests EXCEPT ![r] = q]
      /\ client[u].live /\ \A p \in Requests : ~Serves(p, u, List)
    BY DEF BeginList, Busy, database, List
<1>. HIDE DEF q
<1>3. \A p \in Requests : requests'[p] = IF p = r THEN q ELSE requests[p]
    BY <1>0, <1>2 DEF TypeOK
<1>4. \A p \in Requests : Sending(p)' => Sending(p) /\ requests'[p] = requests[p]
    BY <1>1, <1>3 DEF Sending, Busy
<1>5. SendsApart' BY <1>1, <1>2, <1>3, <1>4 DEF LInv, SendsApart, Stored
<1>6. \A n \in Ids : Pending(n) => Pending(n)' BY <1>2, <1>3 DEF Pending, NoRequest
<1>7. \A p \in Requests, v \in Clients : Serves(p, v, List)' =>
          \/ p = r /\ v = u
          \/ Serves(p, v, List) /\ requests'[p] = requests[p]
    BY <1>1, <1>3 DEF Serves, Busy, List
<1>8. ASSUME NEW v \in Clients, ~client'[v].crossed PROVE Loads(v)'
    <2>1. Loads(v) BY <1>2, <1>8 DEF LInv
    <2>2. CASE v # u
        <3>1. \A p \in Requests : Serves(p, v, List)' =>
                  Serves(p, v, List) /\ requests'[p] = requests[p]
            BY <1>7, <2>2
        <3>. QED BY <1>2, <1>6, <2>1, <3>1, LoadsStay
    <2>3. CASE v = u
        <3>1. \A p \in Requests : Serves(p, u, List)' => p = r BY <1>2, <1>7
        <3>2. requests'[r].before = client[u].before /\ requests'[r].offset = client[u].offset
            BY <1>1, <1>3
        <3>3. \A n \in Ids : Stored(n)' => Stored(n) BY <1>2 DEF Stored
        <3>4. (Remaining(client[u].before, client[u].offset))'
                = Remaining(client[u].before, client[u].offset)
            BY <1>2 DEF Remaining, Rank, Later, Before, Stored, Earlier
        <3>5. (client[u].before # None => Stored(client[u].before))'
            BY <1>2, <2>1, <2>3 DEF Loads, Stored
        <3>6. ASSUME NEW n \in Ids, Stored(n)'
              PROVE  \/ n \in client'[u].known \/ Pending(n)'
                     \/ /\ ~client'[u].complete
                        /\ (n \in Remaining(client[u].before, client[u].offset))'
            BY <1>2, <1>6, <2>1, <2>3, <3>3, <3>4, <3>6 DEF Loads
        <3>. QED BY <1>2, <2>3, <3>1, <3>2, <3>5, <3>6 DEF Loads
    <2>. QED BY <2>2, <2>3
<1>. QED BY <1>0, <1>5, <1>8 DEF LInv

LEMMA ChecksListLoads ==
    ASSUME LInv, NEW r \in Requests, CheckList(r)
    PROVE  LInv'
<1>0. TInv' /\ TInv /\ TypeOK BY ChecksList DEF LInv, TInv
<1>1. /\ requests[r].pc = "check" /\ UNCHANGED <<rows, client>>
      /\ Finish(r) \/ Go(r, "select")
    BY DEF CheckList, database
<1>2. requests[r].op = "list" /\ requests[r] \in Request /\ requests[r] # NoRequest
    BY <1>0, <1>1, Kinds DEF Busy
<1>. DEFINE q == [requests[r] EXCEPT !.pc = "select"]
<1>3. /\ q # NoRequest /\ q.op = "list" /\ q.pc = "select" /\ q.user = requests[r].user
      /\ q.before = requests[r].before /\ q.offset = requests[r].offset
    BY <1>2 DEF Request, NoRequest, RoomOps
<1>4. requests' = [requests EXCEPT ![r] = q] \/ requests' = [requests EXCEPT ![r] = NoRequest]
    BY <1>1 DEF Go, Finish
<1>. HIDE DEF q
<1>5. /\ \A p \in Requests \ {r} : requests'[p] = requests[p]
      /\ requests'[r] = q \/ requests'[r] = NoRequest
    BY <1>0, <1>4 DEF TypeOK
<1>6. \A p \in Requests :
          \/ requests'[p] = requests[p]
          \/ requests'[p] = NoRequest /\ requests[p].pc # "emit"
          \/ /\ requests'[p] # NoRequest /\ requests'[p].op = "list"
             /\ requests'[p].pc \in {"check", "select"} /\ requests[p].pc # "emit"
             /\ requests[p] # NoRequest
             /\ requests[p].op = "list" /\ requests'[p].user = requests[p].user
             /\ requests'[p].before = requests[p].before
             /\ requests'[p].offset = requests[p].offset
    BY <1>1, <1>2, <1>3, <1>5
<1>. QED BY <1>0, <1>1, <1>6, QuietLoads DEF LInv

\* The page joins what the client knows, and the next one continues where it ends.
LEMMA SelectsPageLoads ==
    ASSUME LInv, NEW r \in Requests, NEW before \in Ids \cup {None}, NEW offset \in Nat,
           SelectPage(r, [before |-> before, offset |-> offset])
    PROVE  LInv'
<1>0. TInv' /\ TInv /\ TypeOK BY SelectsPage DEF LInv, TInv
<1>1. requests[r].pc = "select" /\ Finish(r) /\ UNCHANGED rows
    BY DEF SelectPage, database
<1>2. PICK u \in Clients : u = requests[r].user
    BY <1>0, <1>1, Kinds DEF TInv, OfClients
<1>3. PICK b, o : b = requests[r].before /\ o = requests[r].offset OBVIOUS
<1>4. /\ requests[r] \in Request /\ requests[r].op = "list" /\ Serves(r, u, List)
      /\ b \in Ids \cup {None} /\ o \in Nat
    <2>1. requests[r] \in Request /\ requests[r].op = "list" /\ Busy(r) BY <1>0, <1>1, Kinds
    <2>. QED BY <1>2, <1>3, <2>1 DEF Serves, List, Request, RoomOps
<1>. DEFINE next == [before |-> before, offset |-> offset]
            k == [client[u] EXCEPT !.known = @ \cup Page(b, o), !.before = before,
                                   !.offset = offset, !.complete = ~has_more(b, o)]
<1>5. client' = [client EXCEPT ![u] = k] /\ next \in NextPages(b, o)
    BY <1>2, <1>3 DEF SelectPage
<1>6. /\ k.known = client[u].known \cup Page(b, o) /\ k.before = before /\ k.offset = offset
      /\ k.complete = ~has_more(b, o) /\ k.live = client[u].live /\ k.crossed = client[u].crossed
    BY <1>0 DEF TypeOK, Client
<1>7. next.before = before /\ next.offset = offset OBVIOUS
<1>. HIDE DEF k, next
<1>8. \A p \in Requests : requests'[p] = IF p = r THEN NoRequest ELSE requests[p]
    BY <1>0, <1>1, Finished
<1>9. \A v \in Clients : client'[v] = IF v = u THEN k ELSE client[v] BY <1>0, <1>5 DEF TypeOK
<1>10. \A p \in Requests : Sending(p)' => Sending(p) /\ requests'[p] = requests[p]
    BY <1>8 DEF Sending, Busy
<1>11. SendsApart' BY <1>1, <1>8, <1>10 DEF LInv, SendsApart, Stored, NoRequest
<1>12. \A n \in Ids : Pending(n) => Pending(n)' BY <1>1, <1>8 DEF Pending
<1>13. \A p \in Requests, v \in Clients : Serves(p, v, List)' =>
           p # r /\ Serves(p, v, List) /\ requests'[p] = requests[p]
    BY <1>8 DEF Serves, Busy
<1>14. ASSUME NEW v \in Clients, ~client'[v].crossed PROVE Loads(v)'
    <2>1. Loads(v) BY <1>6, <1>9, <1>14 DEF LInv
    <2>2. CASE v # u
        <3>1. client'[v] = client[v] BY <1>9, <2>2
        <3>. QED BY <1>1, <1>12, <1>13, <2>1, <3>1, LoadsStay
    <2>3. CASE v = u
        <3>1. \A p \in Requests : ~Serves(p, u, List)'
            BY <1>4, <1>13, <2>1, <2>3 DEF Loads
        <3>2. client[u].live /\ b = client[u].before /\ o = client[u].offset
            BY <1>3, <1>4, <2>1, <2>3 DEF Loads
        <3>3. /\ before # None => Stored(before)
              /\ \A m \in Remaining(b, o) :
                    m \in Page(b, o) \/ (has_more(b, o) /\ m \in Remaining(before, offset))
            BY <1>0, <1>4, <1>5, <1>7, PagesAreSeamless
        <3>4. (Remaining(client[u].before, client[u].offset))' = Remaining(before, offset)
            <4>1. client'[u].before = before /\ client'[u].offset = offset BY <1>6, <1>9
            <4>. QED BY <1>1, <4>1 DEF Remaining, Rank, Later, Before, Stored, Earlier
        <3>5. (client[u].before # None => Stored(client[u].before))'
            <4>1. client'[u].before = before BY <1>6, <1>9
            <4>. QED BY <1>1, <3>3, <4>1 DEF Stored
        <3>6. ASSUME NEW n \in Ids, Stored(n)'
              PROVE  \/ n \in client'[u].known \/ Pending(n)'
                     \/ /\ ~client'[u].complete
                        /\ (n \in Remaining(client[u].before, client[u].offset))'
            <4>1. Stored(n) BY <1>1, <3>6 DEF Stored
            <4>2. n \in client[u].known \/ Pending(n) \/ n \in Remaining(b, o)
                BY <2>1, <2>3, <3>2, <4>1 DEF Loads
            <4>. QED BY <1>6, <1>9, <1>12, <3>3, <3>4, <4>2
        <3>. QED BY <1>6, <1>9, <2>3, <3>1, <3>2, <3>5, <3>6 DEF Loads
    <2>. QED BY <2>2, <2>3
<1>. QED BY <1>0, <1>11, <1>14 DEF LInv

LEMMA DisconnectsLoads ==
    ASSUME LInv, NEW u \in Clients, Disconnect(u)
    PROVE  LInv'
<1>0. TInv' /\ TInv /\ TypeOK BY Disconnects DEF LInv, TInv
<1>1. /\ client' = [client EXCEPT ![u] = NewClient] /\ UNCHANGED rows
      /\ requests' = Abandon(u, RoomOps \cup {"list"})
    BY DEF Disconnect, database
<1>2. \A p \in Requests : requests'[p] =
          IF Serves(p, u, RoomOps \cup {"list"}) THEN NoRequest ELSE requests[p]
    BY <1>0, <1>1, Abandoned
<1>3. \A v \in Clients : client'[v] = IF v = u THEN NewClient ELSE client[v]
    BY <1>0, <1>1 DEF TypeOK
<1>4. \A p \in Requests : /\ Sending(p)' => Sending(p) /\ requests'[p] = requests[p]
                          /\ requests'[p] # requests[p] => requests'[p] = NoRequest
    BY <1>2 DEF Sending, Busy
<1>5. SendsApart'
    <2>1. \A p \in Requests : requests'[p].pc = "commit" => requests'[p] = requests[p]
        BY <1>4 DEF NoRequest
    <2>. QED BY <1>1, <1>4, <2>1 DEF LInv, SendsApart, Stored
<1>6. \A p \in Requests : requests[p].pc = "emit" => requests'[p] = requests[p]
    BY <1>0, <1>2, Kinds DEF Serves, RoomOps
<1>7. \A n \in Ids : Pending(n) => Pending(n)' BY <1>6 DEF Pending
<1>8. \A p \in Requests, v \in Clients : Serves(p, v, List)' =>
          v # u /\ Serves(p, v, List) /\ requests'[p] = requests[p]
    BY <1>2 DEF Serves, Busy, List
<1>9. ASSUME NEW v \in Clients, ~client'[v].crossed PROVE Loads(v)'
    <2>1. CASE v = u
        <3>1. \A p \in Requests : ~Serves(p, u, List)' BY <1>8
        <3>. QED BY <1>3, <2>1, <3>1, FreshLoads DEF NewClient
    <2>2. CASE v # u
        <3>1. Loads(v) /\ client'[v] = client[v] BY <1>3, <1>9, <2>2 DEF LInv
        <3>. QED BY <1>1, <1>7, <1>8, <3>1, LoadsStay
    <2>. QED BY <2>1, <2>2
<1>. QED BY <1>0, <1>5, <1>9 DEF LInv

LEMMA RestartsLoads ==
    ASSUME LInv, Restart
    PROVE  LInv'
<1>1. TInv' BY Restarts DEF LInv
<1>2. SendsApart' BY DEF Restart, SendsApart, Sending, Busy, NoRequest
<1>3. \A p \in Requests, u \in Clients : ~Serves(p, u, List)' BY DEF Restart, Serves, Busy
<1>4. \A u \in Clients : client'[u] = NewClient BY DEF Restart
<1>5. ASSUME NEW u \in Clients PROVE Loads(u)'
    BY <1>3, <1>4, FreshLoads DEF NewClient
<1>. QED BY <1>1, <1>2, <1>5 DEF LInv

LEMMA InitLInv == Init => LInv
<1>. SUFFICES ASSUME Init PROVE LInv OBVIOUS
<1>1. TInv BY InitTInv
<1>2. SendsApart BY DEF Init, SendsApart, Sending, Busy, NoRequest
<1>3. ASSUME NEW u \in Clients PROVE Loads(u)
    <2>1. /\ client[u].before = None /\ client[u].offset = 0 /\ ~client[u].complete
          /\ \A p \in Requests : ~Serves(p, u, List)
        BY DEF Init, NewClient, Serves, Busy
    <2>. QED BY <2>1, StartOfHistory DEF Loads
<1>. QED BY <1>1, <1>2, <1>3 DEF LInv

LEMMA NextLInv == LInv /\ [Next]_vars => LInv'
<1>. SUFFICES ASSUME LInv, [Next]_vars PROVE LInv' OBVIOUS
<1>0. TInv' BY NextTInv DEF LInv
<1>1. CASE (\E u \in Users : ChangeMember(u)) \/ ChangeVisibility \/ DeleteChannel \/ Tick
    <2>1. UNCHANGED <<rows, client, requests>>
        BY <1>1 DEF ChangeMember, ChangeVisibility, DeleteChannel, Tick, database
    <2>. QED BY <1>0, <2>1, ContextLoads
<1>2. ASSUME NEW r \in Requests, Begin(r) PROVE LInv'
    BY <1>2, BeginsRoomOpLoads, BeginsSendLoads, BeginsListLoads DEF Begin
<1>3. ASSUME NEW r \in Requests, RequestStep(r) \/ Fail(r) PROVE LInv'
    <2>1. ASSUME NEW before \in Ids \cup {None}, NEW offset \in 0..MaxMessages,
                 SelectPage(r, [before |-> before, offset |-> offset])
          PROVE  LInv'
        <3>1. offset \in Nat BY TimelineAssumption
        <3>. QED BY <2>1, <3>1, SelectsPageLoads
    <2>. QED BY <1>3, <2>1, ReadsLoads, AcknowledgesLoads, CommitsSendLoads, EmitsLoads,
                ChecksListLoads DEF RequestStep
<1>4. ASSUME NEW u \in Clients, Disconnect(u) PROVE LInv' BY <1>4, DisconnectsLoads
<1>5. CASE Restart BY <1>5, RestartsLoads
<1>6. CASE UNCHANGED vars
    <2>1. UNCHANGED <<rows, client, requests>> BY <1>6 DEF vars, database
    <2>. QED BY <1>0, <2>1, ContextLoads
<1>. QED BY <1>1, <1>2, <1>3, <1>4, <1>5, <1>6 DEF Next

\* list_history and the room together lose nothing: a client that joined and loaded the
\* history to its end, by cursors or by page numbers, knows every message whose broadcast
\* is not still to come, whatever was committed between its pages.
THEOREM NothingIsMissed == Spec => []NoGap
<1>1. LInv => NoGap BY DEF LInv, Loads, NoGap, Pending
<1>. QED BY <1>1, InitLInv, NextLInv, PTL DEF Spec
=============================================================================
