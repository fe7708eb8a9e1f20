------------------------------ MODULE Timeline ------------------------------
(***************************************************************************)
(* What a client sees of one context (a channel or a direct conversation): *)
(* it joins the context's Socket.IO room, then loads the history page by   *)
(* page, while messages are committed and broadcast, memberships change,   *)
(* sockets break and the process restarts.  A message's created_at is the  *)
(* time its transaction began, so a message may be committed after, and    *)
(* still be sorted before, one that a page has already shown.  Events of   *)
(* one socket are served by threads of their own and may overlap.          *)
(***************************************************************************)
EXTENDS Integers, FiniteSets

CONSTANTS
    Users,
    Clients,       \* the users whose client is followed, with one socket each
    MaxMessages,   \* bound: messages in the context
    MaxTime,       \* bound: moments that created_at tells apart
    Limit,         \* the page size that the clients ask for
    Requests

ASSUME TimelineAssumption ==
    /\ Clients \subseteq Users
    /\ MaxMessages \in Nat /\ MaxTime \in Nat \ {0}
    /\ Limit \in Nat \ {0}

VARIABLES
    visibility,    \* of the context; a conversation is private
    members,       \* who has a membership, or has not left the conversation
    clock,         \* the database's now()
    rows,          \* created_at of each message of the context
    room,          \* the clients whose socket is in the room
    client,        \* what each client knows and believes
    requests,
    expelled       \* history: who lost access to the context while in its room

vars == <<visibility, members, clock, rows, room, client, requests, expelled>>
context == <<visibility, members, expelled>>
database == <<clock, rows>>

\* Primary keys are random UUIDs; only their order matters.
Ids == 1..MaxMessages
None == 0
NotYet == 0
Stored(m) == rows[m] # NotYet

RoomOps == {"join", "leave"}
NoRequest == [pc |-> "idle"]
Request ==
    [op: RoomOps, pc: {"channel", "membership", "room", "ack"}, user: Users, public: BOOLEAN]
    \cup [op: {"send"}, pc: {"commit", "emit"}, user: Users, message: Ids, created_at: 1..MaxTime]
    \cup [op: {"list"}, pc: {"check", "select"}, user: Users, before: Ids \cup {None},
          offset: Nat]

\* A client: it has been told that it is in the room; it has sent room events
\* that overlap; the messages it was sent, and (history) those whose broadcast
\* failed while it counted on the room; the page it asks for next; it has seen the
\* last page.
Client == [live: BOOLEAN, crossed: BOOLEAN, known: SUBSET Ids,
           before: Ids \cup {None}, offset: Nat, complete: BOOLEAN]
NewClient == [live |-> FALSE, crossed |-> FALSE, known |-> {},
              before |-> None, offset |-> 0, complete |-> FALSE]

TypeOK ==
    /\ visibility \in {"public", "private", "deleted"}
    /\ members \subseteq Users
    /\ clock \in 1..MaxTime
    /\ rows \in [Ids -> 0..MaxTime]
    /\ room \subseteq Clients
    /\ client \in [Clients -> Client]
    /\ requests \in [Requests -> Request \cup {NoRequest}]
    /\ expelled \subseteq Clients

Init ==
    /\ visibility \in {"public", "private"}
    /\ members \in SUBSET Users
    /\ clock = 1
    /\ rows = [m \in Ids |-> NotYet]
    /\ room = {}
    /\ client = [u \in Clients |-> NewClient]
    /\ requests = [r \in Requests |-> NoRequest]
    /\ expelled = {}

-----------------------------------------------------------------------------
(* The context, as the other components change it *)

Busy(r) == requests[r] # NoRequest
Serves(r, u, ops) == Busy(r) /\ requests[r].op \in ops /\ requests[r].user = u

\* can_view_channel; for a conversation, that the user has not left it.
can_view(public, u) == public \/ u \in members
CanView(u) == can_view(visibility = "public", u)

\* u is in the room, or a handler that will let it in has begun its checks.
Watches(u) == u \in room \/ \E r \in Requests : Serves(r, u, {"join"})

\* Who may not view the context any more, but could since it began to watch.
RememberExpelled ==
    expelled' = {u \in Clients : Watches(u) /\ ~CanView(u)' /\ (CanView(u) \/ u \in expelled)}

\* join, add_member, create_or_reopen / leave, remove_member
ChangeMember(u) ==
    /\ visibility # "deleted"
    /\ members' = IF u \in members THEN members \ {u} ELSE members \cup {u}
    /\ UNCHANGED <<visibility, database, room, client, requests>>
    /\ RememberExpelled

\* update_channel with is_private
ChangeVisibility ==
    /\ visibility # "deleted"
    /\ visibility' = IF visibility = "public" THEN "private" ELSE "public"
    /\ UNCHANGED <<members, database, room, client, requests>>
    /\ RememberExpelled

\* delete_channel: refused by the foreign key while messages refer to it.
DeleteChannel ==
    /\ visibility # "deleted"
    /\ \A m \in Ids : ~Stored(m)
    /\ visibility' = "deleted"
    /\ members' = {}
    /\ UNCHANGED <<database, room, client, requests>>
    /\ RememberExpelled

Tick ==
    /\ clock < MaxTime
    /\ clock' = clock + 1
    /\ UNCHANGED <<context, rows, room, client, requests>>

-----------------------------------------------------------------------------
(* Joining and leaving the room *)

Go(r, pc) == requests' = [requests EXCEPT ![r].pc = pc]
Finish(r) == requests' = [requests EXCEPT ![r] = NoRequest]

\* The requests without those of u whose answers u will not wait for.
Abandon(u, ops) == [r \in Requests |-> IF Serves(r, u, ops) THEN NoRequest ELSE requests[r]]

\* A client that asks to leave no longer counts on the room's events, and will
\* load the history again.
BeginRoomOp(r, u, op) ==
    LET crossing == \E p \in Requests : Serves(p, u, RoomOps)
        running == IF op = "leave" THEN Abandon(u, {"list"}) ELSE requests
    IN
    /\ ~Busy(r)
    /\ requests' = [running EXCEPT ![r] =
            [op |-> op, pc |-> "channel", user |-> u, public |-> FALSE]]
    /\ client' = [client EXCEPT ![u] =
            IF op = "leave" THEN [NewClient EXCEPT !.crossed = crossing]
            ELSE [client[u] EXCEPT !.crossed = @ \/ crossing]]
    /\ expelled' = IF Watches(u) THEN expelled ELSE expelled \ {u}
    /\ UNCHANGED <<visibility, members, database, room>>

\* get_channel_for_user, get_for_user: the context and the caller's membership
\* are read one after the other.
ReadChannel(r) ==
    LET q == requests[r] IN
    /\ q.pc = "channel"
    /\ IF visibility = "deleted" THEN Finish(r)
       ELSE requests' = [requests EXCEPT ![r].pc = "membership",
                                         ![r].public = (visibility = "public")]
    /\ UNCHANGED <<context, database, room, client>>

\* Mutation: the room is open to whoever knows its name.
ReadMembership_Unchecked(r) ==
    /\ requests[r].pc = "membership"
    /\ requests' = [requests EXCEPT ![r].pc = "room", ![r].public = FALSE]
    /\ UNCHANGED <<context, database, room, client>>

ReadMembership(r) ==
    LET q == requests[r] IN
    /\ q.pc = "membership"
    /\ IF can_view(q.public, q.user)
       THEN requests' = [requests EXCEPT ![r].pc = "room", ![r].public = FALSE]
       ELSE Finish(r)
    /\ UNCHANGED <<context, database, room, client>>

ChangeRoom(r) ==
    LET q == requests[r] IN
    /\ q.pc = "room"
    /\ room' = IF q.op = "join" THEN room \cup {q.user} ELSE room \ {q.user}
    /\ Go(r, "ack")
    /\ UNCHANGED <<context, database, client>>

\* channel_joined, channel_left, conversation_joined, conversation_left
Acknowledge(r) ==
    LET q == requests[r] IN
    /\ q.pc = "ack"
    /\ client' = [client EXCEPT ![q.user].live = (q.op = "join")]
    /\ Finish(r)
    /\ UNCHANGED <<context, database, room>>

-----------------------------------------------------------------------------
(* Sending: see Messages for the notifications and the failures before the
   commit *)

\* _context passes; its first SELECT has begun the transaction.
BeginSend(r, u, m) ==
    /\ ~Busy(r)
    /\ ~Stored(m)
    /\ \A p \in Requests : Busy(p) /\ requests[p].op = "send" => requests[p].message # m
    /\ visibility # "deleted" /\ u \in members
    /\ requests' = [requests EXCEPT ![r] =
            [op |-> "send", pc |-> "commit", user |-> u, message |-> m, created_at |-> clock]]
    /\ UNCHANGED <<context, database, room, client>>

CommitSend(r) ==
    LET q == requests[r] IN
    /\ q.pc = "commit"
    /\ IF visibility = "deleted" THEN Finish(r) /\ UNCHANGED rows
       ELSE Go(r, "emit") /\ rows' = [rows EXCEPT ![q.message] = q.created_at]
    /\ UNCHANGED <<context, clock, room, client>>

\* message_created, to the sockets that are in the room now.
Emit(r) ==
    LET q == requests[r] IN
    /\ q.pc = "emit"
    /\ client' = [u \in Clients |->
            IF u \in room THEN [client[u] EXCEPT !.known = @ \cup {q.message}] ELSE client[u]]
    /\ Finish(r)
    /\ UNCHANGED <<context, database, room>>

\* A database error ends the request: after the commit of a message nothing is
\* broadcast (Messages!Fail); a page or a join is not answered and has no effect.
Fail(r) ==
    LET q == requests[r] IN
    /\ Busy(r) /\ q.pc \notin {"room", "ack"}
    /\ client' = [u \in Clients |->
            IF q.pc = "emit" /\ client[u].live THEN [client[u] EXCEPT !.known = @ \cup {q.message}]
            ELSE client[u]]
    /\ Finish(r)
    /\ UNCHANGED <<context, database, room>>

-----------------------------------------------------------------------------
(* The history *)

\* The order of list_history: by created_at, then by id.
Earlier(m, n) == rows[m] < rows[n] \/ (rows[m] = rows[n] /\ m < n)

\* Mutation: messages of one moment are not told apart.
Before_NoTieBreak(before) == {m \in Ids : Stored(m) /\ (before # None => rows[m] < rows[before])}

\* The rows of the context before the cursor.
Before(before) == {m \in Ids : Stored(m) /\ (before # None => Earlier(m, before))}

\* ORDER BY created_at DESC, id DESC OFFSET offset LIMIT limit
Page(before, offset) ==
    LET Rank(m) == Cardinality({n \in Before(before) : Earlier(m, n)})
    IN {m \in Before(before) : offset <= Rank(m) /\ Rank(m) < offset + Limit}

\* One row more than the page is fetched.
has_more(before, offset) == Cardinality(Before(before)) > offset + Limit

\* Mutation: the first page is number 0, but its offset is that of the page before.
BeginList_PageZero(r, u) ==
    /\ ~Busy(r)
    /\ client[u].live /\ ~client[u].complete
    /\ \A p \in Requests : ~Serves(p, u, {"list"})
    /\ requests' = [requests EXCEPT ![r] = [op |-> "list", pc |-> "check", user |-> u,
                        before |-> client[u].before, offset |-> client[u].offset - Limit]]
    /\ UNCHANGED <<context, database, room, client>>

\* A client starts to load once it knows that it is in the room, and waits for
\* one page before it asks for the next.
BeginList(r, u) ==
    /\ ~Busy(r)
    /\ client[u].live /\ ~client[u].complete
    /\ \A p \in Requests : ~Serves(p, u, {"list"})
    /\ requests' = [requests EXCEPT ![r] = [op |-> "list", pc |-> "check", user |-> u,
                        before |-> client[u].before, offset |-> client[u].offset]]
    /\ UNCHANGED <<context, database, room, client>>

\* _context: also in a public channel only members read the history.
CheckList(r) ==
    LET q == requests[r] IN
    /\ q.pc = "check"
    /\ IF visibility # "deleted" /\ q.user \in members THEN Go(r, "select") ELSE Finish(r)
    /\ UNCHANGED <<context, database, room, client>>

\* Where a client may go on after a page: before the oldest message it was sent,
\* or, unless it already uses a cursor, at the next page number.
NextPages(before, offset) ==
    LET page == Page(before, offset)
        oldest == CHOOSE m \in page : \A n \in page : ~Earlier(n, m)
    IN IF ~has_more(before, offset) THEN {[before |-> None, offset |-> 0]}
       ELSE {[before |-> oldest, offset |-> 0]}
            \cup (IF before = None THEN {[before |-> None, offset |-> offset + Limit]} ELSE {})

\* The page is read and answered.
SelectPage(r, next) ==
    LET q == requests[r] IN
    /\ q.pc = "select"
    /\ next \in NextPages(q.before, q.offset)
    /\ client' = [client EXCEPT ![q.user] =
            [client[q.user] EXCEPT
                !.known = @ \cup Page(q.before, q.offset),
                !.before = next.before, !.offset = next.offset,
                !.complete = ~has_more(q.before, q.offset)]]
    /\ Finish(r)
    /\ UNCHANGED <<context, database, room>>

-----------------------------------------------------------------------------
(* Connections *)

\* The socket breaks: the server takes it out of its rooms; the client will
\* connect, join and load again, and ignores answers it was waiting for.
Disconnect(u) ==
    /\ room' = room \ {u}
    /\ expelled' = expelled \ {u}
    /\ client' = [client EXCEPT ![u] = NewClient]
    /\ requests' = Abandon(u, RoomOps \cup {"list"})
    /\ UNCHANGED <<visibility, members, database>>

\* The process restarts: rooms, sockets and requests are gone.
Restart ==
    /\ room' = {} /\ expelled' = {}
    /\ client' = [u \in Clients |-> NewClient]
    /\ requests' = [r \in Requests |-> NoRequest]
    /\ UNCHANGED <<visibility, members, database>>

Begin(r) ==
    \/ \E u \in Clients, op \in RoomOps : BeginRoomOp(r, u, op)
    \/ \E u \in Users, m \in Ids : BeginSend(r, u, m)
    \/ \E u \in Clients : BeginList(r, u)

RequestStep(r) ==
    \/ ReadChannel(r) \/ ReadMembership(r) \/ ChangeRoom(r) \/ Acknowledge(r)
    \/ CommitSend(r) \/ Emit(r)
    \/ CheckList(r)
    \/ \E before \in Ids \cup {None}, offset \in 0..MaxMessages :
            SelectPage(r, [before |-> before, offset |-> offset])

Next ==
    \/ \E u \in Users : ChangeMember(u)
    \/ ChangeVisibility \/ DeleteChannel
    \/ Tick
    \/ \E r \in Requests : Begin(r) \/ RequestStep(r) \/ Fail(r)
    \/ \E u \in Clients : Disconnect(u)
    \/ Restart

Spec == Init /\ [][Next]_vars

-----------------------------------------------------------------------------
(* Properties *)

\* A client that joined the room, then loaded the history until has_more was
\* false, knows every message of the context, although messages were committed
\* and broadcast meanwhile, some of them behind a cursor it had already used.  Only
\* those are missing whose request has not broadcast them yet, or failed to while
\* the client counted on the room.
NoGap ==
    \A u \in Clients : client[u].live /\ ~client[u].crossed /\ client[u].complete =>
        \A m \in Ids : Stored(m) =>
            \/ m \in client[u].known
            \/ \E r \in Requests : requests[r].pc = "emit" /\ requests[r].message = m

\* Who listens in the room may view the context, or could at the time of joining
\* and has been expelled since: leaving or removing a member does not touch the
\* rooms.  And a client that was told it is in the room is there, unless its
\* own room events overlapped.
RoomsAreRight ==
    /\ \A u \in room : CanView(u) \/ u \in expelled
    /\ \A u \in Clients : client[u].live /\ ~client[u].crossed => u \in room
=============================================================================
