------------------------------ MODULE Presence ------------------------------
(***************************************************************************)
(* Who is online.  PresenceManager keeps, under a lock, the sockets of     *)
(* every user; the connect and disconnect handlers of Socket.IO, one       *)
(* thread each, change it, and the one that makes a user appear or         *)
(* disappear tells the users who share a channel or a conversation.  The   *)
(* lock is released between the change, the database and the emissions;    *)
(* who shares something with whom is looked up for each broadcast, while   *)
(* memberships change.                                                     *)
(***************************************************************************)
EXTENDS Naturals, FiniteSets

CONSTANTS
    Users,
    Sockets,
    MaxRunning    \* bound: handlers that run at the same time

ASSUME PresenceAssumption == MaxRunning \in Nat

VARIABLES
    connections,   \* PresenceManager._connections
    socket_users,  \* PresenceManager._socket_users, {} for an unknown socket
    shared,        \* what two users have in common: <<kind, one, the other>>
    client,        \* whose client is at the other end of a socket, {} if closed
    told,          \* the status a socket was last sent for each user
    handlers,      \* the running handlers
    \* History, for the properties only:
    disturbed,     \* users for whom two broadcasts were under way at a time, a handler
                   \* failed or the process restarted
    early,         \* sockets whose disconnect handler came before they were registered
    parted         \* <<socket, user>>: since the socket was last sent news of the user,
                   \* the two ceased to share anything, or to share something while a
                   \* broadcast about the user was looking

vars == <<connections, socket_users, shared, client, told, handlers,
          disturbed, early, parted>>
manager == <<connections, socket_users>>
history == <<disturbed, early, parted>>

Kinds == {"channel", "conversation"}

Handlers == {"connect", "disconnect"} \X Sockets
SocketOf(h) == h[2]

NoHandler == [pc |-> "done"]
Handler ==
    [pc: {"register", "unregister", "persist", "payload",
          "channels", "conversations", "sockets", "emit"},
     user: Users, status: {"none", "online", "offline"},
     ids: SUBSET Users, to: SUBSET Sockets]

TypeOK ==
    /\ connections \in [Users -> SUBSET Sockets]
    /\ socket_users \in [Sockets -> SUBSET Users]
    /\ shared \subseteq Kinds \X Users \X Users
    /\ client \in [Sockets -> SUBSET Users]
    /\ told \in [Sockets -> [Users -> {"none", "online", "offline"}]]
    /\ handlers \in [Handlers -> Handler \cup {NoHandler}]
    /\ disturbed \subseteq Users /\ early \subseteq Sockets
    /\ parted \subseteq Sockets \X Users

ToldNothing == [u \in Users |-> "none"]

Init ==
    /\ connections = [u \in Users |-> {}]
    /\ socket_users = [s \in Sockets |-> {}]
    /\ shared = {}
    /\ client = [s \in Sockets |-> {}]
    /\ told = [s \in Sockets |-> ToldNothing]
    /\ handlers = [h \in Handlers |-> NoHandler]
    /\ disturbed = {} /\ early = {} /\ parted = {}

is_online(u) == connections[u] # {}
status(u) == IF is_online(u) THEN "online" ELSE "offline"

socket_ids_for_users(users) == UNION {connections[u] : u \in users}

\* The two queries of shared_observer_ids.
SharedBy(kind, u) == {v \in Users : <<kind, u, v>> \in shared}

\* Who is at the other end of s is a user's observer, or the user.
Observes(s, u) ==
    \E v \in client[s] : v = u \/ \E kind \in Kinds : v \in SharedBy(kind, u)

-----------------------------------------------------------------------------
(* Clients and handlers *)

At(h, pc) == handlers[h].pc = pc
User(h) == handlers[h].user
Go(h, pc) == handlers' = [handlers EXCEPT ![h].pc = pc]
Done(h) == handlers' = [handlers EXCEPT ![h] = NoHandler]
Running == {h \in Handlers : handlers[h] # NoHandler}
Telling(h, u) ==
    handlers[h].pc \in {"channels", "conversations", "sockets", "emit"} /\ User(h) = u
Start(h, pc, u) ==
    /\ Cardinality(Running) < MaxRunning
    /\ handlers' = [handlers EXCEPT ![h] = [pc |-> pc, user |-> u, status |-> "none",
                                                ids |-> {}, to |-> {}]]

\* A socket id is unique: the model uses one again only when nothing is left of
\* its former use.
Unused(s) ==
    /\ client[s] = {} /\ socket_users[s] = {}
    /\ \A h \in Running : SocketOf(h) # s /\ s \notin handlers[h].to

Connect(s, u) ==
    /\ Unused(s)
    /\ client' = [client EXCEPT ![s] = {u}]
    /\ Start(<<"connect", s>>, "register", u)
    /\ UNCHANGED <<manager, shared, told, history>>

\* The client goes away; its connect handler may still be running.
Disconnect(s) ==
    /\ client[s] # {}
    /\ handlers[<<"disconnect", s>>] = NoHandler
    /\ \E u \in client[s] : Start(<<"disconnect", s>>, "unregister", u)
    /\ client' = [client EXCEPT ![s] = {}]
    /\ told' = [told EXCEPT ![s] = ToldNothing]
    /\ parted' = {n \in parted : n[1] # s}
    /\ UNCHANGED <<manager, shared, disturbed, early>>

\* The first channel or conversation two users have in common, or the end of the
\* last one: one of them joins or leaves it, or it is deleted (who joins or leaves one
\* of many does so with each of them in turn).  It sends no news of who is online.
ChangeSharing(kind, u, v) ==
    LET both == {<<kind, u, v>>, <<kind, v, u>>}
        unseen(x, y) == \/ \A k \in Kinds : <<k, y, x>> \notin shared \ both
                        \/ \E h \in Handlers : Telling(h, y)
        news(x, y) == {n \in Sockets \X Users :
                          /\ x \in client[n[1]] /\ n[2] = y /\ told[n[1]][y] # "none"
                          /\ unseen(x, y)}
    IN /\ u # v
       /\ IF <<kind, u, v>> \in shared
          THEN /\ shared' = shared \ both
               /\ parted' = parted \cup news(u, v) \cup news(v, u)
          ELSE /\ shared' = shared \cup both
               /\ UNCHANGED parted
       /\ UNCHANGED <<manager, client, told, handlers, disturbed, early>>

register(h) ==
    LET u == User(h) IN
    /\ At(h, "register")
    /\ connections' = [connections EXCEPT ![u] = @ \cup {SocketOf(h)}]
    /\ socket_users' = [socket_users EXCEPT ![SocketOf(h)] = {u}]
    /\ IF connections[u] = {} THEN Go(h, "payload") ELSE Done(h)
    /\ UNCHANGED <<shared, client, told, history>>

\* Mutation: the user is dropped with the first of the sockets.
unregister_DropsUser(h) ==
    LET s == SocketOf(h) IN
    /\ At(h, "unregister")
    /\ connections' = [u \in Users |-> IF u \in socket_users[s] THEN {} ELSE connections[u]]
    /\ socket_users' = [socket_users EXCEPT ![s] = {}]
    /\ IF socket_users[s] # {} THEN Go(h, "persist") ELSE Done(h)
    /\ early' = IF socket_users[s] = {} THEN early \cup {s} ELSE early
    /\ UNCHANGED <<shared, client, told, disturbed, parted>>

\* Mutation: the answer is not looked at.
unregister_Unchecked(h) ==
    LET s == SocketOf(h) IN
    /\ At(h, "unregister")
    /\ connections' = [u \in Users |->
            IF u \in socket_users[s] THEN connections[u] \ {s} ELSE connections[u]]
    /\ socket_users' = [socket_users EXCEPT ![s] = {}]
    /\ IF socket_users[s] = {}
       THEN handlers' = [handlers EXCEPT ![h].pc = "persist", ![h].user = "None"]
       ELSE Go(h, "persist")
    /\ early' = IF socket_users[s] = {} THEN early \cup {s} ELSE early
    /\ UNCHANGED <<shared, client, told, disturbed, parted>>

\* A socket the manager does not know (its connect handler has not registered
\* it yet) changes nothing.
unregister(h) ==
    LET s == SocketOf(h) IN
    /\ At(h, "unregister")
    /\ connections' = [u \in Users |->
            IF u \in socket_users[s] THEN connections[u] \ {s} ELSE connections[u]]
    /\ socket_users' = [socket_users EXCEPT ![s] = {}]
    /\ IF \E u \in socket_users[s] : connections[u] = {s}
       THEN Go(h, "persist")
       ELSE Done(h)
    /\ early' = IF socket_users[s] = {} THEN early \cup {s} ELSE early
    /\ UNCHANGED <<shared, client, told, disturbed, parted>>

\* last_seen_at is a time: it is committed, and only shown.
persist_last_seen(h) ==
    /\ At(h, "persist")
    /\ Go(h, "payload")
    /\ UNCHANGED <<manager, shared, client, told, history>>

\* Mutation: the payload says what the handler was started for.
payload_OfTheEvent(h) ==
    LET u == User(h) IN
    /\ At(h, "payload")
    /\ handlers' = [handlers EXCEPT ![h].pc = "channels",
                        ![h].status = IF h[1] = "connect" THEN "online" ELSE "offline"]
    /\ disturbed' = IF \E g \in Handlers \ {h} : Telling(g, u)
                    THEN disturbed \cup {u} ELSE disturbed
    /\ UNCHANGED <<manager, shared, client, told, early, parted>>

\* broadcast_presence: the status is read now, whatever the handler was for.
payload(h) ==
    LET u == User(h) IN
    /\ At(h, "payload")
    /\ handlers' = [handlers EXCEPT ![h].pc = "channels", ![h].status = status(u)]
    /\ disturbed' = IF \E g \in Handlers \ {h} : Telling(g, u)
                    THEN disturbed \cup {u} ELSE disturbed
    /\ UNCHANGED <<manager, shared, client, told, early, parted>>

\* shared_observer_ids: two queries, one after the other.
channel_users(h) ==
    /\ At(h, "channels")
    /\ handlers' = [handlers EXCEPT ![h].pc = "conversations",
                                   ![h].ids = SharedBy("channel", User(h))]
    /\ UNCHANGED <<manager, shared, client, told, history>>

conversation_users(h) ==
    /\ At(h, "conversations")
    /\ handlers' = [handlers EXCEPT ![h].pc = "sockets",
                                   ![h].ids = @ \cup SharedBy("conversation", User(h))]
    /\ UNCHANGED <<manager, shared, client, told, history>>

recipient_socket_ids(h) ==
    LET to == socket_ids_for_users(handlers[h].ids \cup {User(h)})
    IN /\ At(h, "sockets")
       /\ IF to = {} THEN Done(h)
          ELSE handlers' = [handlers EXCEPT ![h].pc = "emit", ![h].ids = {}, ![h].to = to]
       /\ UNCHANGED <<manager, shared, client, told, history>>

\* One socket after the other; what is sent to a closed one is lost.
emit(h, s) ==
    LET u == User(h)
        left == handlers[h].to \ {s}
    IN /\ At(h, "emit") /\ s \in handlers[h].to
       /\ IF client[s] = {} THEN UNCHANGED <<told, parted>>
          ELSE /\ told' = [told EXCEPT ![s][u] = handlers[h].status]
               /\ parted' = IF Observes(s, u) THEN parted \ {<<s, u>>}
                            ELSE parted \cup {<<s, u>>}
       /\ IF left = {} THEN Done(h) ELSE handlers' = [handlers EXCEPT ![h].to = left]
       /\ UNCHANGED <<manager, shared, client, disturbed, early>>

\* The database is away: the handler ends without its broadcast.
Fail(h) ==
    /\ At(h, "persist") \/ At(h, "channels") \/ At(h, "conversations")
    /\ Done(h)
    /\ disturbed' = disturbed \cup {User(h)}
    /\ UNCHANGED <<manager, shared, client, told, early, parted>>

\* Presence lives in the process: a restart drops it with every socket.
Restart ==
    /\ connections' = [u \in Users |-> {}]
    /\ socket_users' = [s \in Sockets |-> {}]
    /\ client' = [s \in Sockets |-> {}]
    /\ told' = [s \in Sockets |-> ToldNothing]
    /\ handlers' = [h \in Handlers |-> NoHandler]
    /\ disturbed' = disturbed \cup {u \in Users : is_online(u)}
                              \cup {User(h) : h \in Running}
    /\ early' = {} /\ parted' = {}
    /\ UNCHANGED shared

HandlerStep(h) ==
    \/ register(h) \/ unregister(h) \/ persist_last_seen(h)
    \/ payload(h) \/ channel_users(h) \/ conversation_users(h) \/ recipient_socket_ids(h)
    \/ \E s \in Sockets : emit(h, s)

Next ==
    \/ \E s \in Sockets, u \in Users : Connect(s, u)
    \/ \E s \in Sockets : Disconnect(s)
    \/ \E kind \in Kinds, u \in Users, v \in Users : ChangeSharing(kind, u, v)
    \/ \E h \in Handlers : HandlerStep(h) \/ Fail(h)
    \/ Restart

Spec == Init /\ [][Next]_vars

-----------------------------------------------------------------------------
(* Properties *)

\* Once the handlers of a socket are through, it counts for a user exactly if
\* that user's client is at its other end.  The one exception: a disconnect handler
\* that overtakes the connect handler leaves the user online for good.
OnlineIsTrue ==
    \A s \in Sockets : (\A h \in Running : SocketOf(h) # s) =>
        \A u \in Users :
            /\ client[s] = {u} => s \in connections[u]
            /\ s \in connections[u] => client[s] = {u} \/ s \in early

Pending(u) == \E h \in Running : User(h) = u

\* A client's last news of a user is right once the handlers of that user are
\* through.  Three things leave it wrong: two broadcasts that overlap; a failure; and,
\* as who is told is looked up for each broadcast, in two queries, the end of all that
\* the client and the user shared, or of some of it under a broadcast's eyes.
NewsIsRight ==
    \A u \in Users \ disturbed : \A s \in Sockets :
        ~Pending(u) /\ told[s][u] # "none" /\ <<s, u>> \notin parted
            => told[s][u] = status(u)
=============================================================================
