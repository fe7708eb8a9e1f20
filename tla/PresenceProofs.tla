--------------------------- MODULE PresenceProofs ---------------------------
(***************************************************************************)
(* The types of Presence, and that who is online is who has a socket.      *)
(* The invariant follows a socket from its connection to its end: the      *)
(* manager's two dictionaries agree, a connect handler registers a socket  *)
(* the manager does not know, and whenever a registered socket has no      *)
(* client any more, its disconnect handler is still to run, or has run     *)
(* too early.  A second one, on top of it, follows the news of a user from *)
(* the step that changes his status to the sockets that are told.          *)
(***************************************************************************)
EXTENDS Presence, TLAPS

Statuses == {"none", "online", "offline"}
Pcs == {"register", "unregister", "persist", "payload",
        "channels", "conversations", "sockets", "emit"}
C(s) == <<"connect", s>>
D(s) == <<"disconnect", s>>

\* The two dictionaries are each other's inverse.
Agree ==
    /\ \A s \in Sockets, u \in Users : s \in connections[u] <=> u \in socket_users[s]
    /\ \A s \in Sockets : \A u, v \in socket_users[s] : u = v

\* Each kind of handler does its own part.
Roles ==
    \A h \in Handlers : /\ At(h, "register") => h[1] = "connect"
                        /\ At(h, "unregister") => h[1] = "disconnect"

\* A socket that is about to be registered.
Registering ==
    \A s \in Sockets : At(C(s), "register") =>
        /\ socket_users[s] = {}
        /\ client[s] = {} => At(D(s), "unregister") \/ s \in early
        /\ client[s] # {} => client[s] = {User(C(s))}

\* A socket that is about to be unregistered has no client.
Leaving == \A s \in Sockets : At(D(s), "unregister") => client[s] = {}

\* A socket with a client, and a socket that is registered.
Connected ==
    \A s \in Sockets, u \in Users :
        /\ client[s] = {u} => \/ At(C(s), "register") /\ User(C(s)) = u
                              \/ s \in connections[u]
        /\ s \in connections[u] =>
              \/ client[s] = {u}
              \/ client[s] = {} /\ (At(D(s), "unregister") \/ s \in early)

PInv == TypeOK /\ Agree /\ Roles /\ Registering /\ Leaving /\ Connected

-----------------------------------------------------------------------------
(* Handlers *)

LEMMA HandlerFacts ==
    /\ \A s \in Sockets : C(s) \in Handlers /\ D(s) \in Handlers /\ C(s) # D(s)
    /\ \A h \in Handlers : SocketOf(h) \in Sockets /\ (h = C(SocketOf(h)) \/ h = D(SocketOf(h)))
    /\ \A s, t \in Sockets : s # t => C(s) # C(t) /\ D(s) # D(t) /\ C(s) # D(t)
BY DEF Handlers, C, D, SocketOf

\* A handler that is at some step is a running one, of a user.
LEMMA RunningType ==
    ASSUME TypeOK, NEW h \in Handlers, handlers[h].pc \in Pcs
    PROVE  /\ handlers[h] \in Handler /\ handlers[h] # NoHandler
           /\ User(h) \in Users /\ h \in Running
BY DEF TypeOK, Handler, NoHandler, Pcs, User, Running

\* What Go, Done and Start change.
LEMMA GoFacts ==
    ASSUME TypeOK, NEW h \in Handlers, handlers[h].pc \in Pcs, NEW pc \in Pcs, Go(h, pc)
    PROVE  /\ handlers' \in [Handlers -> Handler \cup {NoHandler}]
           /\ \A g \in Handlers \ {h} : handlers'[g] = handlers[g]
           /\ handlers'[h].pc = pc /\ handlers'[h].user = User(h)
<1>1. handlers[h] \in Handler BY RunningType
<1>. DEFINE q == [handlers[h] EXCEPT !.pc = pc]
<1>2. q \in Handler /\ q.pc = pc /\ q.user = User(h)
    BY <1>1 DEF Handler, Pcs, User
<1>3. handlers' = [handlers EXCEPT ![h] = q] BY DEF Go
<1>. HIDE DEF q
<1>. QED BY <1>2, <1>3 DEF TypeOK

LEMMA DoneFacts ==
    ASSUME TypeOK, NEW h \in Handlers, Done(h)
    PROVE  /\ handlers' \in [Handlers -> Handler \cup {NoHandler}]
           /\ \A g \in Handlers \ {h} : handlers'[g] = handlers[g]
           /\ handlers'[h].pc = "done"
BY DEF TypeOK, Done, NoHandler

LEMMA StartFacts ==
    ASSUME TypeOK, NEW h \in Handlers, NEW pc \in {"register", "unregister"},
           NEW u \in Users, Start(h, pc, u)
    PROVE  /\ handlers' \in [Handlers -> Handler \cup {NoHandler}]
           /\ \A g \in Handlers \ {h} : handlers'[g] = handlers[g]
           /\ handlers'[h].pc = pc /\ handlers'[h].user = u
<1>. DEFINE q == [pc |-> pc, user |-> u, status |-> "none", ids |-> {}, to |-> {}]
<1>1. q \in Handler /\ q.pc = pc /\ q.user = u BY DEF Handler
<1>2. handlers' = [handlers EXCEPT ![h] = q] BY DEF Start
<1>. HIDE DEF q
<1>. QED BY <1>1, <1>2 DEF TypeOK

-----------------------------------------------------------------------------
(* Steps *)

LEMMA InitPInv == Init => PInv
<1>. SUFFICES ASSUME Init PROVE PInv OBVIOUS
<1>1. TypeOK BY DEF Init, TypeOK, ToldNothing
<1>2. \A h \in Handlers : ~At(h, "register") /\ ~At(h, "unregister")
    BY DEF Init, At, NoHandler
<1>3. Agree /\ Roles BY <1>2 DEF Init, Agree, Roles
<1>4. Registering BY <1>2, HandlerFacts DEF Registering
<1>5. Leaving BY <1>2, HandlerFacts DEF Leaving
<1>6. Connected BY DEF Init, Connected
<1>. QED BY <1>1, <1>3, <1>4, <1>5, <1>6 DEF PInv

\* A step that leaves sockets alone and moves one handler on, or ends it, when it
\* is past its work on the manager.
LEMMA QuietStep ==
    ASSUME PInv, NEW h \in Handlers, handlers[h].pc \in Pcs \ {"register", "unregister"},
           UNCHANGED <<connections, socket_users, client, early>>,
           \A g \in Handlers \ {h} : handlers'[g] = handlers[g],
           handlers'[h].pc \notin {"register", "unregister"}
    PROVE  Agree' /\ Roles' /\ Registering' /\ Leaving' /\ Connected'
<1>1. \A g \in Handlers : /\ At(g, "register")' <=> At(g, "register")
                          /\ At(g, "unregister")' <=> At(g, "unregister")
                          /\ At(g, "register") => User(g)' = User(g)
    BY DEF At, User
<1>2. Agree' BY DEF PInv, Agree
<1>3. Roles' BY <1>1 DEF PInv, Roles
<1>4. Registering' BY <1>1, HandlerFacts DEF PInv, Registering
<1>5. Connected' BY <1>1, HandlerFacts DEF PInv, Connected
<1>6. Leaving' BY <1>1, HandlerFacts DEF PInv, Leaving
<1>. QED BY <1>2, <1>3, <1>4, <1>5, <1>6

\* The steps of a broadcast, and its failures.
LEMMA Broadcasts ==
    ASSUME PInv, NEW h \in Handlers,
           \/ persist_last_seen(h) \/ payload(h) \/ channel_users(h) \/ conversation_users(h)
           \/ recipient_socket_ids(h) \/ Fail(h)
           \/ \E s \in Sockets : emit(h, s)
    PROVE  PInv'
<1>0. TypeOK BY DEF PInv
<1>1. handlers[h].pc \in Pcs \ {"register", "unregister"}
    BY DEF persist_last_seen, payload, channel_users, conversation_users, recipient_socket_ids,
           Fail, emit, At, Pcs
<1>2. handlers[h] \in Handler /\ User(h) \in Users BY <1>0, <1>1, RunningType
<1>3. UNCHANGED <<connections, socket_users, client, early>>
    BY DEF persist_last_seen, payload, channel_users, conversation_users, recipient_socket_ids,
           Fail, emit, manager, history
<1>4. /\ handlers' \in [Handlers -> Handler \cup {NoHandler}]
      /\ \A g \in Handlers \ {h} : handlers'[g] = handlers[g]
      /\ handlers'[h].pc \notin {"register", "unregister"}
    <2>1. CASE Done(h) BY <1>0, <2>1, DoneFacts
    <2>2. CASE persist_last_seen(h)
        BY <1>0, <1>1, <2>2, GoFacts DEF persist_last_seen, Pcs
    <2>3. ASSUME NEW q \in Handler, q.pc \notin {"register", "unregister"},
                 handlers' = [handlers EXCEPT ![h] = q]
          PROVE  /\ handlers' \in [Handlers -> Handler \cup {NoHandler}]
                 /\ \A g \in Handlers \ {h} : handlers'[g] = handlers[g]
                 /\ handlers'[h].pc \notin {"register", "unregister"}
        BY <1>0, <2>3 DEF TypeOK
    <2>4. CASE payload(h)
        <3>. DEFINE q == [handlers[h] EXCEPT !.pc = "channels", !.status = status(User(h))]
        <3>1. q \in Handler /\ q.pc = "channels" BY <1>2 DEF Handler, status
        <3>2. handlers' = [handlers EXCEPT ![h] = q] BY <2>4 DEF payload
        <3>. HIDE DEF q
        <3>. QED BY <2>3, <3>1, <3>2
    <2>5. CASE recipient_socket_ids(h) /\ ~Done(h)
        <3>. DEFINE to == socket_ids_for_users(handlers[h].ids \cup {User(h)})
                    q == [handlers[h] EXCEPT !.pc = "emit", !.ids = {}, !.to = to]
        <3>1. to \subseteq Sockets
            BY <1>0, <1>2 DEF TypeOK, Handler, socket_ids_for_users
        <3>2. q \in Handler /\ q.pc = "emit" BY <1>2, <3>1 DEF Handler
        <3>3. handlers' = [handlers EXCEPT ![h] = q] BY <2>5 DEF recipient_socket_ids
        <3>. HIDE DEF q
        <3>. QED BY <2>3, <3>2, <3>3
    <2>6. ASSUME NEW s \in Sockets, emit(h, s), ~Done(h)
          PROVE  /\ handlers' \in [Handlers -> Handler \cup {NoHandler}]
                 /\ \A g \in Handlers \ {h} : handlers'[g] = handlers[g]
                 /\ handlers'[h].pc \notin {"register", "unregister"}
        <3>. DEFINE q == [handlers[h] EXCEPT !.to = handlers[h].to \ {s}]
        <3>1. q \in Handler /\ q.pc = handlers[h].pc BY <1>2 DEF Handler
        <3>2. handlers' = [handlers EXCEPT ![h] = q] BY <2>6 DEF emit
        <3>. HIDE DEF q
        <3>. QED BY <1>1, <2>3, <3>1, <3>2
    <2>7. ASSUME NEW ids \in SUBSET Users, NEW pc \in {"conversations", "sockets"},
                 handlers' = [handlers EXCEPT ![h].pc = pc, ![h].ids = ids]
          PROVE  /\ handlers' \in [Handlers -> Handler \cup {NoHandler}]
                 /\ \A g \in Handlers \ {h} : handlers'[g] = handlers[g]
                 /\ handlers'[h].pc \notin {"register", "unregister"}
        <3>. DEFINE q == [handlers[h] EXCEPT !.pc = pc, !.ids = ids]
        <3>1. q \in Handler /\ q.pc = pc BY <1>2 DEF Handler
        <3>2. handlers' = [handlers EXCEPT ![h] = q] BY <2>7
        <3>. HIDE DEF q
        <3>. QED BY <2>3, <3>1, <3>2
    <2>8. CASE channel_users(h)
        <3>1. SharedBy("channel", User(h)) \in SUBSET Users BY DEF SharedBy
        <3>. QED BY <2>7, <2>8, <3>1 DEF channel_users
    <2>9. CASE conversation_users(h)
        <3>. DEFINE ids == handlers[h].ids \cup SharedBy("conversation", User(h))
        <3>1. ids \in SUBSET Users BY <1>2 DEF SharedBy, Handler
        <3>2. handlers' = [handlers EXCEPT ![h].pc = "sockets", ![h].ids = ids]
            BY <2>9 DEF conversation_users
        <3>. HIDE DEF ids
        <3>. QED BY <2>7, <3>1, <3>2
    <2>. QED BY <2>1, <2>2, <2>4, <2>5, <2>6, <2>8, <2>9 DEF Fail
<1>5. Agree' /\ Roles' /\ Registering' /\ Leaving' /\ Connected' BY <1>1, <1>3, <1>4, QuietStep
<1>6. told' \in [Sockets -> [Users -> Statuses]]
    <2>1. CASE told' = told BY <1>0, <2>1 DEF TypeOK, Statuses
    <2>2. ASSUME NEW s \in Sockets, told' = [told EXCEPT ![s][User(h)] = handlers[h].status]
          PROVE  told' \in [Sockets -> [Users -> Statuses]]
        <3>1. handlers[h].status \in Statuses BY <1>2 DEF Handler, Statuses
        <3>. QED BY <1>0, <2>2, <3>1 DEF TypeOK, Statuses
    <2>. QED BY <2>1, <2>2 DEF persist_last_seen, payload, channel_users, conversation_users,
                               recipient_socket_ids, Fail, emit
<1>7. shared' = shared /\ disturbed' \subseteq Users /\ parted' \subseteq Sockets \X Users
    BY <1>0, <1>2 DEF persist_last_seen, payload, channel_users, conversation_users,
                      recipient_socket_ids, Fail, emit, history, TypeOK
<1>8. TypeOK' BY <1>0, <1>3, <1>4, <1>6, <1>7 DEF TypeOK, Statuses
<1>. QED BY <1>5, <1>8 DEF PInv

\* A socket is entered in both dictionaries; it was in neither.
LEMMA Registers ==
    ASSUME PInv, NEW h \in Handlers, register(h)
    PROVE  PInv'
<1>0. TypeOK BY DEF PInv
<1>1. PICK s \in Sockets : h = C(s) /\ SocketOf(h) = s
    BY HandlerFacts DEF PInv, Roles, register, SocketOf, C, D
<1>2. At(h, "register") /\ User(h) \in Users BY <1>0, RunningType DEF register, At, Pcs
<1>3. PICK u \in Users : u = User(h) BY <1>2
<1>4. /\ connections' = [connections EXCEPT ![u] = @ \cup {s}]
      /\ socket_users' = [socket_users EXCEPT ![s] = {u}]
      /\ UNCHANGED <<shared, client, told, disturbed, early, parted>>
    BY <1>1, <1>3 DEF register, history
<1>5. /\ handlers' \in [Handlers -> Handler \cup {NoHandler}]
      /\ \A g \in Handlers \ {h} : handlers'[g] = handlers[g]
      /\ handlers'[h].pc \notin {"register", "unregister"}
    BY <1>0, <1>2, GoFacts, DoneFacts DEF register, At, Pcs
<1>6. TypeOK' BY <1>0, <1>4, <1>5 DEF TypeOK
<1>7. /\ socket_users[s] = {}
      /\ client[s] = {} => At(D(s), "unregister") \/ s \in early
      /\ client[s] # {} => client[s] = {u}
    BY <1>1, <1>2, <1>3 DEF PInv, Registering
<1>8. Agree' BY <1>0, <1>4, <1>7 DEF PInv, Agree, TypeOK
<1>9. \A g \in Handlers \ {h} : /\ At(g, "register")' <=> At(g, "register")
                                /\ At(g, "unregister")' <=> At(g, "unregister")
                                /\ User(g)' = User(g)
    BY <1>5 DEF At, User
<1>10. ~At(h, "register")' /\ ~At(h, "unregister")' BY <1>5 DEF At
<1>11. Roles' BY <1>9, <1>10 DEF PInv, Roles
<1>12. \A t \in Sockets \ {s} : C(t) \in Handlers \ {h} /\ D(t) \in Handlers \ {h}
    BY <1>1, HandlerFacts
<1>13. D(s) \in Handlers \ {h} BY <1>1, HandlerFacts
<1>14. Registering'
    BY <1>0, <1>1, <1>4, <1>9, <1>10, <1>12 DEF PInv, Registering, TypeOK
<1>15. Connected'
    <2>. SUFFICES ASSUME NEW t \in Sockets, NEW v \in Users
                  PROVE  /\ client'[t] = {v} => \/ At(C(t), "register")' /\ User(C(t))' = v
                                                \/ t \in connections'[v]
                         /\ t \in connections'[v] =>
                               \/ client'[t] = {v}
                               \/ client'[t] = {} /\ (At(D(t), "unregister")' \/ t \in early')
        BY DEF Connected
    <2>1. CASE t = s
        <3>1. t \in connections'[v] <=> v = u
            BY <1>0, <1>4, <1>7, <2>1 DEF PInv, Agree, TypeOK
        <3>2. At(D(t), "unregister")' <=> At(D(t), "unregister") BY <1>9, <1>13, <2>1
        <3>. QED BY <1>4, <1>7, <2>1, <3>1, <3>2
    <2>2. CASE t # s
        <3>1. t \in connections'[v] <=> t \in connections[v] BY <1>0, <1>4, <2>2 DEF TypeOK
        <3>. QED BY <1>4, <1>9, <1>12, <2>2, <3>1 DEF PInv, Connected
    <2>. QED BY <2>1, <2>2
<1>16. Leaving' BY <1>4, <1>9, <1>12, <1>13 DEF PInv, Leaving
<1>. QED BY <1>6, <1>8, <1>11, <1>14, <1>15, <1>16 DEF PInv

\* A socket is taken out of both dictionaries, or was in neither.
LEMMA Unregisters ==
    ASSUME PInv, NEW h \in Handlers, unregister(h)
    PROVE  PInv'
<1>0. TypeOK BY DEF PInv
<1>1. PICK s \in Sockets : h = D(s) /\ SocketOf(h) = s
    BY HandlerFacts DEF PInv, Roles, unregister, SocketOf, C, D
<1>2. At(h, "unregister") /\ handlers[h].pc \in Pcs BY DEF unregister, At, Pcs
<1>3. /\ connections' = [u \in Users |->
            IF u \in socket_users[s] THEN connections[u] \ {s} ELSE connections[u]]
      /\ socket_users' = [socket_users EXCEPT ![s] = {}]
      /\ early' = IF socket_users[s] = {} THEN early \cup {s} ELSE early
      /\ UNCHANGED <<shared, client, told, disturbed, parted>>
    BY <1>1 DEF unregister
<1>4. /\ handlers' \in [Handlers -> Handler \cup {NoHandler}]
      /\ \A g \in Handlers \ {h} : handlers'[g] = handlers[g]
      /\ handlers'[h].pc \notin {"register", "unregister"}
    BY <1>0, <1>2, GoFacts, DoneFacts DEF unregister, Pcs
<1>5. TypeOK' BY <1>0, <1>3, <1>4 DEF TypeOK
<1>6. \A t \in Sockets, u \in Users :
          t \in connections'[u] <=> t \in connections[u] /\ t # s
    BY <1>3 DEF PInv, Agree
<1>7. \A t \in Sockets : socket_users'[t] = IF t = s THEN {} ELSE socket_users[t]
    BY <1>0, <1>3 DEF TypeOK
<1>8. Agree' BY <1>6, <1>7 DEF PInv, Agree
<1>9. \A g \in Handlers \ {h} : /\ At(g, "register")' <=> At(g, "register")
                                /\ At(g, "unregister")' <=> At(g, "unregister")
                                /\ User(g)' = User(g)
    BY <1>4 DEF At, User
<1>10. ~At(h, "register")' /\ ~At(h, "unregister")' BY <1>4 DEF At
<1>11. Roles' BY <1>9, <1>10 DEF PInv, Roles
<1>12. /\ \A t \in Sockets \ {s} : D(t) \in Handlers \ {h}
       /\ \A t \in Sockets : C(t) \in Handlers \ {h}
    BY <1>1, HandlerFacts DEF C, D
<1>13. early \subseteq early' BY <1>3
<1>14. At(C(s), "register") => s \in early'
    BY <1>3 DEF PInv, Registering
<1>15. Registering'
    BY <1>3, <1>7, <1>9, <1>12, <1>13, <1>14 DEF PInv, Registering
<1>16. Leaving' BY <1>1, <1>3, <1>9, <1>10, <1>12 DEF PInv, Leaving
<1>17. Connected'
    <2>. SUFFICES ASSUME NEW t \in Sockets, NEW v \in Users
                  PROVE  /\ client'[t] = {v} => \/ At(C(t), "register")' /\ User(C(t))' = v
                                                \/ t \in connections'[v]
                         /\ t \in connections'[v] =>
                               \/ client'[t] = {v}
                               \/ client'[t] = {} /\ (At(D(t), "unregister")' \/ t \in early')
        BY DEF Connected
    <2>1. CASE t = s
        <3>1. client[s] = {} BY <1>1, <1>2 DEF PInv, Leaving
        <3>. QED BY <1>3, <1>6, <2>1, <3>1
    <2>2. CASE t # s
        BY <1>3, <1>6, <1>9, <1>12, <1>13, <2>2 DEF PInv, Connected
    <2>. QED BY <2>1, <2>2
<1>. QED BY <1>5, <1>8, <1>11, <1>15, <1>16, <1>17 DEF PInv

\* A new client: nothing is left of the former use of its socket.
LEMMA Connects ==
    ASSUME PInv, NEW s \in Sockets, NEW u \in Users, Connect(s, u)
    PROVE  PInv'
<1>0. TypeOK BY DEF PInv
<1>1. C(s) \in Handlers /\ D(s) \in Handlers BY HandlerFacts
<1>2. /\ handlers' \in [Handlers -> Handler \cup {NoHandler}]
      /\ \A g \in Handlers \ {C(s)} : handlers'[g] = handlers[g]
      /\ handlers'[C(s)].pc = "register" /\ handlers'[C(s)].user = u
    BY <1>0, <1>1, StartFacts DEF Connect, C
<1>3. /\ client[s] = {} /\ socket_users[s] = {}
      /\ client' = [client EXCEPT ![s] = {u}]
      /\ UNCHANGED <<connections, socket_users, shared, told, disturbed, early, parted>>
    BY DEF Connect, Unused, manager, history
<1>4. D(s) \notin Running BY <1>1, HandlerFacts DEF Connect, Unused, SocketOf, D
<1>5. ~At(D(s), "unregister") BY <1>1, <1>4 DEF Running, At, NoHandler
<1>6. TypeOK' BY <1>0, <1>2, <1>3 DEF TypeOK
<1>7. Agree' BY <1>3 DEF PInv, Agree
<1>8. \A g \in Handlers \ {C(s)} : /\ At(g, "register")' <=> At(g, "register")
                                   /\ At(g, "unregister")' <=> At(g, "unregister")
                                   /\ User(g)' = User(g)
    BY <1>2 DEF At, User
<1>9. At(C(s), "register")' /\ ~At(C(s), "unregister")' /\ User(C(s))' = u
    BY <1>2 DEF At, User
<1>10. /\ \A t \in Sockets \ {s} : C(t) \in Handlers \ {C(s)}
       /\ \A t \in Sockets : D(t) \in Handlers \ {C(s)}
    BY <1>1, HandlerFacts DEF C, D
<1>11. Roles' BY <1>8, <1>9 DEF PInv, Roles, C
<1>12. \A t \in Sockets : client'[t] = IF t = s THEN {u} ELSE client[t]
    BY <1>0, <1>3 DEF TypeOK
<1>13. Registering' BY <1>3, <1>8, <1>9, <1>10, <1>12 DEF PInv, Registering
<1>14. Leaving' BY <1>5, <1>8, <1>10, <1>12 DEF PInv, Leaving
<1>15. \A v \in Users : s \notin connections[v] BY <1>3 DEF PInv, Agree
<1>16. Connected' BY <1>3, <1>8, <1>9, <1>10, <1>12, <1>15 DEF PInv, Connected
<1>. QED BY <1>6, <1>7, <1>11, <1>13, <1>14, <1>16 DEF PInv

\* A client that goes away leaves a disconnect handler behind.
LEMMA Disconnects ==
    ASSUME PInv, NEW s \in Sockets, Disconnect(s)
    PROVE  PInv'
<1>0. TypeOK BY DEF PInv
<1>1. C(s) \in Handlers /\ D(s) \in Handlers BY HandlerFacts
<1>2. /\ handlers' \in [Handlers -> Handler \cup {NoHandler}]
      /\ \A g \in Handlers \ {D(s)} : handlers'[g] = handlers[g]
      /\ handlers'[D(s)].pc = "unregister"
    <2>1. PICK u \in client[s] : Start(D(s), "unregister", u) BY DEF Disconnect, D
    <2>2. u \in Users BY <1>0 DEF TypeOK
    <2>. QED BY <1>0, <1>1, <2>1, <2>2, StartFacts
<1>3. /\ client' = [client EXCEPT ![s] = {}]
      /\ told' = [told EXCEPT ![s] = ToldNothing]
      /\ UNCHANGED <<connections, socket_users, shared, disturbed, early>>
      /\ parted' \subseteq parted
    BY DEF Disconnect, manager, history
<1>4. ToldNothing \in [Users -> Statuses] BY DEF ToldNothing, Statuses
<1>5. told' \in [Sockets -> [Users -> Statuses]] BY <1>0, <1>3, <1>4 DEF TypeOK, Statuses
<1>6. TypeOK' BY <1>0, <1>2, <1>3, <1>5 DEF TypeOK, Statuses
<1>7. Agree' BY <1>3 DEF PInv, Agree
<1>8. \A g \in Handlers \ {D(s)} : /\ At(g, "register")' <=> At(g, "register")
                                   /\ At(g, "unregister")' <=> At(g, "unregister")
                                   /\ User(g)' = User(g)
    BY <1>2 DEF At, User
<1>9. At(D(s), "unregister")' /\ ~At(D(s), "register")'
    BY <1>2 DEF At
<1>10. /\ \A t \in Sockets \ {s} : D(t) \in Handlers \ {D(s)}
       /\ \A t \in Sockets : C(t) \in Handlers \ {D(s)}
    BY <1>1, HandlerFacts DEF C, D
<1>11. Roles' BY <1>8, <1>9 DEF PInv, Roles, D
<1>12. \A t \in Sockets : client'[t] = IF t = s THEN {} ELSE client[t]
    BY <1>0, <1>3 DEF TypeOK
<1>13. Registering' BY <1>3, <1>8, <1>9, <1>10, <1>12 DEF PInv, Registering
<1>14. Leaving' BY <1>8, <1>10, <1>12 DEF PInv, Leaving
<1>15. Connected' BY <1>3, <1>8, <1>9, <1>10, <1>12 DEF PInv, Connected
<1>. QED BY <1>6, <1>7, <1>11, <1>13, <1>14, <1>15 DEF PInv

\* A restart is a new beginning, but for what is stored.
LEMMA Restarts ==
    ASSUME PInv, Restart
    PROVE  PInv'
<1>0. TypeOK BY DEF PInv
<1>1. \A h \in Running : User(h) \in Users
    BY <1>0 DEF TypeOK, Running, Handler, User
<1>2. TypeOK' BY <1>0, <1>1 DEF Restart, TypeOK, ToldNothing
<1>3. \A h \in Handlers : ~At(h, "register")' /\ ~At(h, "unregister")'
    BY DEF Restart, At, NoHandler
<1>4. Agree' /\ Roles' BY <1>3 DEF Restart, Agree, Roles
<1>5. Registering' /\ Leaving' BY <1>3, HandlerFacts DEF Registering, Leaving
<1>6. Connected' BY DEF Restart, Connected
<1>. QED BY <1>2, <1>4, <1>5, <1>6 DEF PInv

\* What users have in common is no concern of the manager.
LEMMA Shares ==
    ASSUME PInv, NEW kind \in Kinds, NEW u \in Users, NEW v \in Users, ChangeSharing(kind, u, v)
    PROVE  PInv'
<1>1. UNCHANGED <<connections, socket_users, client, told, handlers, disturbed, early>>
    BY DEF ChangeSharing, manager
<1>2. shared' \subseteq Kinds \X Users \X Users
    <2>. DEFINE both == {<<kind, u, v>>, <<kind, v, u>>}
    <2>1. shared \subseteq Kinds \X Users \X Users /\ both \subseteq Kinds \X Users \X Users
        BY DEF PInv, TypeOK
    <2>2. shared' = shared \ both \/ shared' = shared \cup both BY DEF ChangeSharing
    <2>. HIDE DEF both
    <2>. QED BY <2>1, <2>2
<1>3. parted' \subseteq Sockets \X Users BY DEF ChangeSharing, PInv, TypeOK
<1>4. TypeOK' BY <1>1, <1>2, <1>3 DEF PInv, TypeOK
<1>. QED BY <1>1, <1>4 DEF PInv, Agree, Roles, Registering, Leaving, Connected, At, User

LEMMA NextPInv == PInv /\ [Next]_vars => PInv'
<1>. SUFFICES ASSUME PInv, [Next]_vars PROVE PInv' OBVIOUS
<1>1. ASSUME NEW s \in Sockets, NEW u \in Users, Connect(s, u) PROVE PInv'
    BY <1>1, Connects
<1>2. ASSUME NEW s \in Sockets, Disconnect(s) PROVE PInv' BY <1>2, Disconnects
<1>3. ASSUME NEW h \in Handlers, HandlerStep(h) \/ Fail(h) PROVE PInv'
    BY <1>3, Registers, Unregisters, Broadcasts DEF HandlerStep
<1>4. CASE Restart BY <1>4, Restarts
<1>5. ASSUME NEW kind \in Kinds, NEW u \in Users, NEW v \in Users, ChangeSharing(kind, u, v)
      PROVE  PInv'
    BY <1>5, Shares
<1>6. CASE UNCHANGED vars
    BY <1>6 DEF vars, PInv, TypeOK, Agree, Roles, Registering, Leaving, Connected, At, User
<1>. QED BY <1>1, <1>2, <1>3, <1>4, <1>5, <1>6 DEF Next

\* The inductive invariant of Presence.
THEOREM InvariantHolds == Spec => []PInv
BY InitPInv, NextPInv, PTL DEF Spec

\* The manager, the clients' views and the handlers keep their types.
THEOREM TypeCorrect == Spec => []TypeOK
<1>1. PInv => TypeOK BY DEF PInv
<1>. QED BY <1>1, InvariantHolds, PTL

\* PresenceManager: a socket whose handlers are through counts for a user exactly
\* if his client is there, or if its disconnect handler came too early.
THEOREM OnlineMeansConnected == Spec => []OnlineIsTrue
<1>1. PInv => OnlineIsTrue
    <2>. SUFFICES ASSUME PInv, NEW s \in Sockets, \A h \in Running : SocketOf(h) # s,
                         NEW u \in Users
                  PROVE  /\ client[s] = {u} => s \in connections[u]
                         /\ s \in connections[u] => client[s] = {u} \/ s \in early
        BY DEF OnlineIsTrue
    <2>1. C(s) \notin Running /\ D(s) \notin Running
        BY HandlerFacts DEF SocketOf, C, D
    <2>2. ~At(C(s), "register") /\ ~At(D(s), "unregister")
        BY <2>1, HandlerFacts DEF Running, At, NoHandler
    <2>. QED BY <2>2 DEF PInv, Connected
<1>. QED BY <1>1, InvariantHolds, PTL

-----------------------------------------------------------------------------
(* News.  A change of a user's status starts a handler that has still to read *)
(* the status; a handler that has read it carries the present one as long as  *)
(* no other is about to, and finds every socket that was told of the user,    *)
(* unless the two have ceased to share since: the first query finds whom he   *)
(* shares a channel with, the second whom he shares only a conversation with, *)
(* and what they find is kept till the emissions.                             *)

Fresh(h, u) == (At(h, "persist") \/ At(h, "payload")) /\ User(h) = u

OneClient == \A s \in Sockets : \A u, v \in client[s] : u = v

\* A disconnect handler was started for the user whose socket it takes away.
Owners ==
    \A s \in Sockets : At(D(s), "unregister") =>
        /\ socket_users[s] \subseteq {User(D(s))}
        /\ At(C(s), "register") => User(C(s)) = User(D(s))

\* What is sent reaches sockets the manager knows, and who was told of a user is
\* still his observer, unless they ceased to share anything.
Reached ==
    /\ \A s \in Sockets, u \in Users : told[s][u] # "none" =>
          /\ client[s] # {} /\ socket_users[s] # {}
          /\ Observes(s, u) \/ <<s, u>> \in parted
    /\ \A h \in Handlers : At(h, "emit") =>
          \A s \in handlers[h].to : client[s] # {} => socket_users[s] # {}

\* No two broadcasts of a user, unless they are known to have overlapped.
Alone ==
    \A u \in Users \ disturbed : \A g, h \in Handlers :
        Telling(g, u) /\ Telling(h, u) => g = h

\* A broadcast of a user that is to reach a socket.
Finds(h, s, u) ==
    \/ At(h, "channels")
    \/ /\ At(h, "conversations")
       /\ \E v \in client[s] : v \in handlers[h].ids \cup {u} \cup SharedBy("conversation", u)
    \/ At(h, "sockets") /\ \E v \in client[s] : v \in handlers[h].ids \cup {u}
    \/ At(h, "emit") /\ s \in handlers[h].to

\* A socket's news of a user is right, or will be told again, or is excused.
Covered(s, u) ==
    \/ told[s][u] \in {"none", status(u)}
    \/ <<s, u>> \in parted
    \/ \E h \in Handlers : Telling(h, u) /\ Finds(h, s, u)

NewsOf(u) ==
    (\A h \in Handlers : ~Fresh(h, u)) =>
        /\ \A h \in Handlers : Telling(h, u) => handlers[h].status = status(u)
        /\ \A s \in Sockets : Covered(s, u)

News == \A u \in Users \ disturbed : NewsOf(u)

NInv == PInv /\ OneClient /\ Owners /\ Reached /\ Alone /\ News

LEMMA InitNInv == Init => NInv
<1>. SUFFICES ASSUME Init PROVE NInv OBVIOUS
<1>1. \A h \in Handlers, u \in Users : ~Fresh(h, u) /\ ~Telling(h, u)
    BY DEF Init, Fresh, Telling, At, NoHandler
<1>2. \A h \in Handlers : ~At(h, "emit") /\ ~At(h, "unregister")
    BY DEF Init, At, NoHandler
<1>3. \A s \in Sockets, u \in Users : told[s][u] = "none"
    BY DEF Init, ToldNothing
<1>4. Owners BY <1>2, HandlerFacts DEF Owners
<1>5. Reached BY <1>2, <1>3 DEF Reached
<1>6. Alone BY <1>1 DEF Alone
<1>7. News BY <1>1, <1>3 DEF News, NewsOf, Covered
<1>8. OneClient BY DEF Init, OneClient
<1>. QED BY <1>4, <1>5, <1>6, <1>7, <1>8, InitPInv DEF NInv

\* A socket that is known and has its client is a socket of that client.
LEMMA KnownSocket ==
    ASSUME PInv, OneClient, NEW s \in Sockets, socket_users[s] # {},
           NEW v \in client[s]
    PROVE  v \in Users /\ s \in connections[v]
<1>1. PICK w \in Users : s \in connections[w]
    BY DEF PInv, TypeOK, Agree
<1>2. client[s] = {w} BY <1>1 DEF PInv, Connected
<1>. QED BY <1>1, <1>2

\* What a handler is to reach depends on itself, the client and what is shared.
LEMMA FindsStays ==
    ASSUME NEW g \in Handlers, NEW s \in Sockets, NEW u \in Users, UNCHANGED shared,
           handlers'[g] = handlers[g], client'[s] = client[s]
    PROVE  Finds(g, s, u)' <=> Finds(g, s, u)
BY DEF Finds, At, SharedBy

\* The step takes nothing away from what covers a socket's news of a user.
StillFinds(s, u) ==
    \/ told'[s][u] = "none"
    \/ /\ told'[s][u] = told[s][u]
       /\ <<s, u>> \in parted => <<s, u>> \in parted'
       /\ \/ <<s, u>> \in parted'
          \/ \A g \in Handlers : Telling(g, u) /\ Finds(g, s, u) => Finds(g, s, u)'

\* What becomes of the news of a user whose broadcasts the step leaves alone: it is
\* enough that his status stays or that a handler is about to read it.
LEMMA NewsStays ==
    ASSUME NEW u \in Users, NewsOf(u),
           \A g \in Handlers : /\ Fresh(g, u) => Fresh(g, u)'
                               /\ Telling(g, u)' <=> Telling(g, u)
                               /\ Telling(g, u) => handlers'[g] = handlers[g],
           \A s \in Sockets : StillFinds(s, u),
           UNCHANGED status(u) \/ \E g \in Handlers : Fresh(g, u)'
    PROVE  NewsOf(u)'
<1>. SUFFICES ASSUME \A g \in Handlers : ~Fresh(g, u)'
              PROVE  /\ \A h \in Handlers : Telling(h, u)' => handlers'[h].status = status(u)'
                     /\ \A s \in Sockets : Covered(s, u)'
    BY DEF NewsOf
<1>1. /\ \A h \in Handlers : Telling(h, u) => handlers[h].status = status(u)
      /\ \A s \in Sockets : Covered(s, u)
    BY DEF NewsOf
<1>2. UNCHANGED status(u) OBVIOUS
<1>3. \A h \in Handlers : Telling(h, u)' => handlers'[h].status = status(u)'
    BY <1>1, <1>2
<1>4. ASSUME NEW s \in Sockets PROVE Covered(s, u)'
    <2>1. CASE told[s][u] \in {"none", status(u)} \/ <<s, u>> \in parted
        BY <1>2, <2>1 DEF Covered, StillFinds
    <2>2. ASSUME NEW h \in Handlers, Telling(h, u), Finds(h, s, u)
          PROVE  Covered(s, u)'
        <3>1. Telling(h, u)' BY <2>2
        <3>2. \/ told'[s][u] = "none" \/ <<s, u>> \in parted' \/ Finds(h, s, u)'
            BY <2>2 DEF StillFinds
        <3>. QED BY <3>1, <3>2 DEF Covered
    <2>. QED BY <1>1, <2>1, <2>2 DEF Covered
<1>. QED BY <1>3, <1>4

\* A handler that starts, or is at its work on the manager, disturbs no broadcast.
LEMMA BroadcastsStay ==
    ASSUME NInv, NEW h \in Handlers,
           handlers[h].pc \in {"done", "register", "unregister"},
           \A g \in Handlers \ {h} : handlers'[g] = handlers[g],
           handlers'[h].pc \in {"done", "register", "unregister", "persist", "payload"},
           UNCHANGED <<shared, disturbed>>,
           \A s \in Sockets, u \in Users :
              \/ told'[s][u] = "none"
              \/ /\ client'[s] = client[s] /\ told'[s][u] = told[s][u]
                 /\ <<s, u>> \in parted => <<s, u>> \in parted',
           \A u \in Users : UNCHANGED status(u) \/ Fresh(h, u)'
    PROVE  Alone' /\ News'
<1>1. \A u \in Users : \A g \in Handlers :
          /\ Fresh(g, u) => Fresh(g, u)'
          /\ Telling(g, u)' <=> Telling(g, u)
          /\ Telling(g, u) => handlers'[g] = handlers[g]
    BY DEF Fresh, Telling, At, User
<1>2. Alone' BY <1>1 DEF NInv, Alone
<1>3. ASSUME NEW u \in Users \ disturbed PROVE NewsOf(u)'
    <2>1. NewsOf(u) BY DEF NInv, News
    <2>2. UNCHANGED status(u) \/ \E g \in Handlers : Fresh(g, u)' OBVIOUS
    <2>3. ASSUME NEW s \in Sockets PROVE StillFinds(s, u)
        <3>1. CASE told'[s][u] = "none" BY <3>1 DEF StillFinds
        <3>2. CASE told'[s][u] # "none"
            <4>1. /\ client'[s] = client[s] /\ told'[s][u] = told[s][u]
                  /\ <<s, u>> \in parted => <<s, u>> \in parted'
                BY <3>2
            <4>2. \A g \in Handlers : Telling(g, u) /\ Finds(g, s, u) => Finds(g, s, u)'
                BY <1>1, <4>1, FindsStays
            <4>. QED BY <4>1, <4>2 DEF StillFinds
        <3>. QED BY <3>1, <3>2
    <2>. QED BY <1>1, <2>1, <2>2, <2>3, NewsStays
<1>. QED BY <1>2, <1>3 DEF News

LEMMA RegistersNews ==
    ASSUME NInv, NEW h \in Handlers, register(h)
    PROVE  NInv'
<1>0. PInv /\ TypeOK /\ PInv' BY Registers DEF NInv, PInv
<1>1. PICK s \in Sockets : h = C(s) /\ SocketOf(h) = s
    BY <1>0, HandlerFacts DEF PInv, Roles, register, SocketOf, C, D
<1>2. At(h, "register") /\ User(h) \in Users /\ handlers[h].pc \in Pcs
    BY <1>0, RunningType DEF register, At, Pcs
<1>3. PICK u \in Users : u = User(h) BY <1>2
<1>4. /\ connections' = [connections EXCEPT ![u] = @ \cup {s}]
      /\ socket_users' = [socket_users EXCEPT ![s] = {u}]
      /\ UNCHANGED <<shared, client, told, disturbed, parted>>
    BY <1>1, <1>3 DEF register, history
<1>5. /\ \A g \in Handlers \ {h} : handlers'[g] = handlers[g]
      /\ handlers'[h].pc \in {"payload", "done"}
      /\ connections[u] = {} => handlers'[h].pc = "payload" /\ handlers'[h].user = u
    BY <1>0, <1>2, <1>3, GoFacts, DoneFacts DEF register, Pcs
<1>6. \A v \in Users : UNCHANGED status(v) \/ Fresh(h, v)'
    BY <1>0, <1>4, <1>5 DEF status, is_online, Fresh, At, User, TypeOK
<1>7. Alone' /\ News' BY <1>2, <1>4, <1>5, <1>6, BroadcastsStay DEF At
<1>8. Owners'
    <2>1. \A t \in Sockets : D(t) \in Handlers \ {h} BY <1>1, HandlerFacts DEF C, D
    <2>2. \A t \in Sockets \ {s} : C(t) \in Handlers \ {h} BY <1>1, HandlerFacts
    <2>3. At(D(s), "unregister") => User(D(s)) = u
        BY <1>1, <1>2, <1>3 DEF NInv, Owners
    <2>4. \A t \in Sockets \ {s} : socket_users'[t] = socket_users[t]
        BY <1>0, <1>4 DEF TypeOK
    <2>5. socket_users'[s] = {u} BY <1>0, <1>4 DEF TypeOK
    <2>6. ~At(C(s), "register")' BY <1>1, <1>5 DEF At
    <2>. QED BY <1>5, <2>1, <2>2, <2>3, <2>4, <2>5, <2>6 DEF NInv, Owners, At, User
<1>9. Reached'
    <2>1. \A t \in Sockets : socket_users[t] # {} => socket_users'[t] # {}
        BY <1>0, <1>4 DEF TypeOK
    <2>2. \A g \in Handlers : At(g, "emit")' => At(g, "emit") /\ handlers'[g] = handlers[g]
        BY <1>5 DEF At
    <2>3. \A g \in Handlers : At(g, "emit") => handlers[g].to \subseteq Sockets
        BY <1>0, RunningType DEF At, Pcs, Handler
    <2>4. \A t \in Sockets, v \in Users : Observes(t, v)' <=> Observes(t, v)
        BY <1>4 DEF Observes, SharedBy
    <2>. QED BY <1>4, <2>1, <2>2, <2>3, <2>4 DEF NInv, Reached
<1>10. OneClient' BY <1>4 DEF NInv, OneClient
<1>. QED BY <1>0, <1>7, <1>8, <1>9, <1>10 DEF NInv

LEMMA UnregistersNews ==
    ASSUME NInv, NEW h \in Handlers, unregister(h)
    PROVE  NInv'
<1>0. PInv /\ TypeOK /\ PInv' BY Unregisters DEF NInv, PInv
<1>1. PICK s \in Sockets : h = D(s) /\ SocketOf(h) = s
    BY <1>0, HandlerFacts DEF PInv, Roles, unregister, SocketOf, C, D
<1>2. At(h, "unregister") /\ User(h) \in Users /\ handlers[h].pc \in Pcs
    BY <1>0, RunningType DEF unregister, At, Pcs
<1>3. PICK u \in Users : u = User(h) BY <1>2
<1>4. /\ connections' = [v \in Users |->
            IF v \in socket_users[s] THEN connections[v] \ {s} ELSE connections[v]]
      /\ socket_users' = [socket_users EXCEPT ![s] = {}]
      /\ UNCHANGED <<shared, client, told, disturbed, parted>>
    BY <1>1 DEF unregister
<1>5. socket_users[s] \subseteq {u} BY <1>1, <1>2, <1>3 DEF NInv, Owners
<1>6. /\ \A g \in Handlers \ {h} : handlers'[g] = handlers[g]
      /\ handlers'[h].pc \in {"persist", "done"}
      /\ u \in socket_users[s] /\ connections[u] = {s} =>
            handlers'[h].pc = "persist" /\ handlers'[h].user = u
    BY <1>0, <1>1, <1>2, <1>3, GoFacts, DoneFacts DEF unregister, Pcs
<1>7. ASSUME NEW v \in Users PROVE UNCHANGED status(v) \/ Fresh(h, v)'
    <2>1. CASE v \in socket_users[s] /\ connections[v] = {s}
        BY <1>5, <1>6, <2>1 DEF Fresh, At, User
    <2>2. CASE v \in socket_users[s] /\ connections[v] # {s}
        <3>1. s \in connections[v] BY <1>0, <2>2 DEF PInv, Agree
        <3>2. connections'[v] = connections[v] \ {s} BY <1>4, <2>2
        <3>. QED BY <2>2, <3>1, <3>2 DEF status, is_online
    <2>3. CASE v \notin socket_users[s] BY <1>4, <2>3 DEF status, is_online
    <2>. QED BY <2>1, <2>2, <2>3
<1>8. Alone' /\ News' BY <1>2, <1>4, <1>6, <1>7, BroadcastsStay DEF At
<1>9. Owners'
    <2>1. \A t \in Sockets \ {s} : D(t) \in Handlers \ {h} BY <1>1, HandlerFacts
    <2>2. \A t \in Sockets : C(t) \in Handlers \ {h} BY <1>1, HandlerFacts DEF C, D
    <2>3. ~At(D(s), "unregister")' BY <1>1, <1>6 DEF At
    <2>4. \A t \in Sockets \ {s} : socket_users'[t] = socket_users[t]
        BY <1>0, <1>4 DEF TypeOK
    <2>. QED BY <1>6, <2>1, <2>2, <2>3, <2>4 DEF NInv, Owners, At, User
<1>10. Reached'
    <2>1. client[s] = {} BY <1>0, <1>1, <1>2 DEF PInv, Leaving
    <2>2. \A t \in Sockets : client[t] # {} => socket_users'[t] = socket_users[t]
        BY <1>0, <1>4, <2>1 DEF TypeOK
    <2>3. \A g \in Handlers : At(g, "emit")' => At(g, "emit") /\ handlers'[g] = handlers[g]
        BY <1>6 DEF At
    <2>4. \A g \in Handlers : At(g, "emit") => handlers[g].to \subseteq Sockets
        BY <1>0, RunningType DEF At, Pcs, Handler
    <2>5. \A t \in Sockets, v \in Users : Observes(t, v)' <=> Observes(t, v)
        BY <1>4 DEF Observes, SharedBy
    <2>. QED BY <1>4, <2>2, <2>3, <2>4, <2>5 DEF NInv, Reached
<1>11. OneClient' BY <1>4 DEF NInv, OneClient
<1>. QED BY <1>0, <1>8, <1>9, <1>10, <1>11 DEF NInv

LEMMA ConnectsNews ==
    ASSUME NInv, NEW s \in Sockets, NEW u \in Users, Connect(s, u)
    PROVE  NInv'
<1>0. PInv /\ TypeOK /\ PInv' BY Connects DEF NInv, PInv
<1>1. C(s) \in Handlers /\ D(s) \in Handlers BY HandlerFacts
<1>2. /\ \A g \in Handlers \ {C(s)} : handlers'[g] = handlers[g]
      /\ handlers'[C(s)].pc = "register" /\ handlers'[C(s)].user = u
    BY <1>0, <1>1, StartFacts DEF Connect, C
<1>3. /\ client[s] = {} /\ socket_users[s] = {}
      /\ client' = [client EXCEPT ![s] = {u}]
      /\ UNCHANGED <<connections, socket_users, shared, told, disturbed, parted>>
    BY DEF Connect, Unused, manager, history
<1>4. C(s) \notin Running /\ D(s) \notin Running
    BY <1>1, HandlerFacts DEF Connect, Unused, SocketOf, C, D
<1>5. handlers[C(s)].pc = "done" /\ ~At(D(s), "unregister")
    BY <1>1, <1>4 DEF Running, At, NoHandler
<1>6. \A v \in Users : UNCHANGED status(v) BY <1>3 DEF status, is_online
<1>7. \A v \in Users : told[s][v] = "none" BY <1>3 DEF NInv, Reached
<1>8. \A t \in Sockets \ {s} : client'[t] = client[t] BY <1>0, <1>3 DEF TypeOK
<1>9. Alone' /\ News' BY <1>1, <1>2, <1>3, <1>5, <1>6, <1>7, <1>8, BroadcastsStay
<1>10. Owners'
    <2>1. \A t \in Sockets : D(t) \in Handlers \ {C(s)} BY <1>1, HandlerFacts DEF C, D
    <2>2. \A t \in Sockets \ {s} : C(t) \in Handlers \ {C(s)} BY <1>1, HandlerFacts
    <2>. QED BY <1>2, <1>3, <1>5, <2>1, <2>2 DEF NInv, Owners, At, User
<1>11. Reached'
    <2>1. \A t \in Sockets \ {s}, v \in Users : Observes(t, v)' <=> Observes(t, v)
        BY <1>3, <1>8 DEF Observes, SharedBy
    <2>2. ASSUME NEW g \in Handlers, At(g, "emit")'
          PROVE  At(g, "emit") /\ handlers'[g] = handlers[g] /\ s \notin handlers[g].to
        <3>1. g # C(s) BY <1>2, <2>2 DEF At
        <3>2. handlers'[g] = handlers[g] BY <1>2, <3>1
        <3>3. At(g, "emit") BY <2>2, <3>2 DEF At
        <3>4. g \in Running BY <1>0, <3>3, RunningType DEF At, Pcs
        <3>. QED BY <3>2, <3>3, <3>4 DEF Connect, Unused
    <2>3. \A g \in Handlers : At(g, "emit") => handlers[g].to \subseteq Sockets
        BY <1>0, RunningType DEF At, Pcs, Handler
    <2>. QED BY <1>3, <1>7, <1>8, <2>1, <2>2, <2>3 DEF NInv, Reached
<1>12. OneClient' BY <1>0, <1>3 DEF NInv, OneClient, TypeOK
<1>. QED BY <1>0, <1>9, <1>10, <1>11, <1>12 DEF NInv

LEMMA DisconnectsNews ==
    ASSUME NInv, NEW s \in Sockets, Disconnect(s)
    PROVE  NInv'
<1>0. PInv /\ TypeOK /\ PInv' BY Disconnects DEF NInv, PInv
<1>1. C(s) \in Handlers /\ D(s) \in Handlers BY HandlerFacts
<1>2. PICK u \in client[s] : Start(D(s), "unregister", u) BY DEF Disconnect, D
<1>3. u \in Users BY <1>0 DEF TypeOK
<1>4. /\ \A g \in Handlers \ {D(s)} : handlers'[g] = handlers[g]
      /\ handlers'[D(s)].pc = "unregister" /\ handlers'[D(s)].user = u
    BY <1>0, <1>1, <1>2, <1>3, StartFacts
<1>5. /\ client' = [client EXCEPT ![s] = {}]
      /\ told' = [told EXCEPT ![s] = ToldNothing]
      /\ UNCHANGED <<connections, socket_users, shared, disturbed>>
      /\ parted' = {n \in parted : n[1] # s}
      /\ handlers[D(s)].pc = "done"
    BY DEF Disconnect, manager, history, D, NoHandler
<1>6. \A t \in Sockets, v \in Users :
          \/ told'[t][v] = "none"
          \/ /\ client'[t] = client[t] /\ told'[t][v] = told[t][v]
             /\ <<t, v>> \in parted => <<t, v>> \in parted'
    BY <1>0, <1>5 DEF TypeOK, ToldNothing
<1>7. \A v \in Users : UNCHANGED status(v) BY <1>5 DEF status, is_online
<1>8. Alone' /\ News' BY <1>1, <1>4, <1>5, <1>6, <1>7, BroadcastsStay
<1>9. Owners'
    <2>1. \A t \in Sockets : C(t) \in Handlers \ {D(s)} BY <1>1, HandlerFacts DEF C, D
    <2>2. \A t \in Sockets \ {s} : D(t) \in Handlers \ {D(s)} BY <1>1, HandlerFacts
    <2>3. At(C(s), "register") => User(C(s)) = u /\ socket_users[s] = {}
        BY <1>0, <1>2 DEF PInv, Registering
    <2>4. ~At(C(s), "register") => s \in connections[u]
        <3>1. client[s] = {u} BY <1>2 DEF NInv, OneClient
        <3>. QED BY <1>0, <1>3, <3>1 DEF PInv, Connected
    <2>5. socket_users[s] \subseteq {u}
        BY <1>0, <1>3, <2>3, <2>4 DEF PInv, Agree
    <2>. QED BY <1>4, <1>5, <2>1, <2>2, <2>3, <2>5 DEF NInv, Owners, At, User
<1>10. Reached'
    <2>1. \A t \in Sockets \ {s}, v \in Users : Observes(t, v)' <=> Observes(t, v)
        BY <1>0, <1>5 DEF Observes, SharedBy, TypeOK
    <2>2. \A g \in Handlers : At(g, "emit")' => At(g, "emit") /\ handlers'[g] = handlers[g]
        BY <1>4 DEF At
    <2>5. \A g \in Handlers : At(g, "emit") => handlers[g].to \subseteq Sockets
        BY <1>0, RunningType DEF At, Pcs, Handler
    <2>3. \A t \in Sockets : client'[t] = IF t = s THEN {} ELSE client[t]
        BY <1>0, <1>5 DEF TypeOK
    <2>4. \A t \in Sockets, v \in Users : told'[t][v] = IF t = s THEN "none" ELSE told[t][v]
        BY <1>0, <1>5 DEF TypeOK, ToldNothing
    <2>. QED BY <1>5, <2>1, <2>2, <2>3, <2>4, <2>5 DEF NInv, Reached
<1>11. OneClient' BY <1>0, <1>5 DEF NInv, OneClient, TypeOK
<1>. QED BY <1>0, <1>8, <1>9, <1>10, <1>11 DEF NInv

\* What the steps of a broadcast leave alone.
LEMMA BroadcastFrame ==
    ASSUME NInv, NEW h \in Handlers, UNCHANGED <<socket_users, client>>,
           handlers[h].pc \notin {"register", "unregister"},
           handlers'[h].pc \notin {"register", "unregister"},
           \A g \in Handlers \ {h} : handlers'[g] = handlers[g]
    PROVE  OneClient' /\ Owners'
<1>1. \A g \in Handlers : /\ At(g, "register")' <=> At(g, "register")
                          /\ At(g, "unregister")' <=> At(g, "unregister")
                          /\ g # h => User(g)' = User(g)
    BY DEF At, User
<1>2. ~At(h, "register") /\ ~At(h, "unregister") BY DEF At
<1>3. Owners' BY <1>1, <1>2, HandlerFacts DEF NInv, Owners
<1>. QED BY <1>3 DEF NInv, OneClient

\* The broadcasts of the other users.
LEMMA OthersStay ==
    ASSUME NInv, NEW h \in Handlers,
           \A g \in Handlers \ {h} : handlers'[g] = handlers[g],
           UNCHANGED <<connections, shared, client>>,
           handlers'[h].pc = "done" \/ User(h)' = User(h),
           \A s \in Sockets, u \in Users : u # User(h) =>
              told'[s][u] = told[s][u] /\ (<<s, u>> \in parted => <<s, u>> \in parted'),
           handlers[h].pc \in Pcs,
           NEW u \in Users \ {User(h)}
    PROVE  /\ \A g \in Handlers : Telling(g, u)' <=> Telling(g, u)
           /\ u \notin disturbed => NewsOf(u)'
<1>1. \A g \in Handlers :
          /\ Fresh(g, u) => Fresh(g, u)'
          /\ Telling(g, u)' <=> Telling(g, u)
          /\ Telling(g, u) => handlers'[g] = handlers[g]
    BY DEF Fresh, Telling, At, User
<1>2. UNCHANGED status(u) BY DEF status, is_online
<1>3. u \notin disturbed => NewsOf(u) BY DEF NInv, News
<1>4. \A s \in Sockets : StillFinds(s, u)
    BY <1>1, FindsStays DEF StillFinds
<1>. QED BY <1>1, <1>2, <1>3, <1>4, NewsStays

LEMMA PersistsNews ==
    ASSUME NInv, NEW h \in Handlers, persist_last_seen(h)
    PROVE  NInv'
<1>0. PInv /\ TypeOK /\ PInv' BY Broadcasts DEF NInv, PInv
<1>1. At(h, "persist") /\ handlers[h].pc \in Pcs /\ User(h) \in Users
    BY <1>0, RunningType DEF persist_last_seen, At, Pcs
<1>2. UNCHANGED <<connections, socket_users, shared, client, told, disturbed, parted>>
    BY DEF persist_last_seen, manager, history
<1>3. /\ \A g \in Handlers \ {h} : handlers'[g] = handlers[g]
      /\ handlers'[h].pc = "payload" /\ User(h)' = User(h)
    BY <1>0, <1>1, GoFacts DEF persist_last_seen, Pcs, User
<1>4. \A u \in Users : \A g \in Handlers :
          /\ Fresh(g, u) => Fresh(g, u)'
          /\ Telling(g, u)' <=> Telling(g, u)
          /\ Telling(g, u) => handlers'[g] = handlers[g]
    BY <1>1, <1>3 DEF Fresh, Telling, At, User
<1>5. Alone' BY <1>2, <1>4 DEF NInv, Alone
<1>6. News'
    <2>. SUFFICES ASSUME NEW u \in Users \ disturbed PROVE NewsOf(u)'
        BY <1>2 DEF News
    <2>1. NewsOf(u) BY DEF NInv, News
    <2>2. UNCHANGED status(u) BY <1>2 DEF status, is_online
    <2>3. \A s \in Sockets : StillFinds(s, u) BY <1>2, <1>4, FindsStays DEF StillFinds
    <2>. QED BY <1>4, <2>1, <2>2, <2>3, NewsStays
<1>7. OneClient' /\ Owners' BY <1>1, <1>2, <1>3, BroadcastFrame DEF At
<1>8. Reached'
    <2>1. \A g \in Handlers : At(g, "emit")' => At(g, "emit") /\ handlers'[g] = handlers[g]
        BY <1>3 DEF At
    <2>. QED BY <1>2, <2>1 DEF NInv, Reached, Observes, SharedBy
<1>. QED BY <1>0, <1>5, <1>6, <1>7, <1>8 DEF NInv

LEMMA FailsNews ==
    ASSUME NInv, NEW h \in Handlers, Fail(h)
    PROVE  NInv'
<1>0. PInv /\ TypeOK /\ PInv' BY Broadcasts DEF NInv, PInv
<1>1. /\ handlers[h].pc \in {"persist", "channels", "conversations"} /\ handlers[h].pc \in Pcs
      /\ User(h) \in Users
    BY <1>0, RunningType DEF Fail, At, Pcs
<1>2. /\ UNCHANGED <<connections, socket_users, shared, client, told, parted>>
      /\ disturbed' = disturbed \cup {User(h)}
    BY DEF Fail, manager
<1>3. /\ \A g \in Handlers \ {h} : handlers'[g] = handlers[g]
      /\ handlers'[h].pc = "done"
    BY <1>0, DoneFacts DEF Fail
<1>4. ASSUME NEW u \in Users \ {User(h)}
      PROVE  /\ \A g \in Handlers : Telling(g, u)' <=> Telling(g, u)
             /\ u \notin disturbed => NewsOf(u)'
    BY <1>1, <1>2, <1>3, OthersStay
<1>5. \A g \in Handlers, u \in Users : Telling(g, u)' => Telling(g, u)
    BY <1>3 DEF Telling, At, User
<1>6. Alone' BY <1>2, <1>5 DEF NInv, Alone
<1>7. News' BY <1>2, <1>4 DEF News
<1>8. OneClient' /\ Owners' BY <1>1, <1>2, <1>3, BroadcastFrame
<1>9. Reached'
    <2>1. \A g \in Handlers : At(g, "emit")' => At(g, "emit") /\ handlers'[g] = handlers[g]
        BY <1>3 DEF At
    <2>. QED BY <1>2, <2>1 DEF NInv, Reached, Observes, SharedBy
<1>. QED BY <1>0, <1>6, <1>7, <1>8, <1>9 DEF NInv

\* The status is read: it is the present one, and no other broadcast of the user is
\* under way, or the two are known to overlap.
LEMMA PayloadsNews ==
    ASSUME NInv, NEW h \in Handlers, payload(h)
    PROVE  NInv'
<1>0. PInv /\ TypeOK /\ PInv' BY Broadcasts DEF NInv, PInv
<1>1. At(h, "payload") /\ handlers[h].pc \in Pcs /\ User(h) \in Users
      /\ handlers[h] \in Handler
    BY <1>0, RunningType DEF payload, At, Pcs
<1>2. PICK u \in Users : u = User(h) BY <1>1
<1>3. /\ UNCHANGED <<connections, socket_users, shared, client, told, parted>>
      /\ disturbed' = IF \E g \in Handlers \ {h} : Telling(g, u)
                      THEN disturbed \cup {u} ELSE disturbed
    BY <1>2 DEF payload, manager
<1>4. /\ \A g \in Handlers \ {h} : handlers'[g] = handlers[g]
      /\ handlers'[h].pc = "channels" /\ handlers'[h].status = status(u)
      /\ handlers'[h].user = u
    <2>. DEFINE q == [handlers[h] EXCEPT !.pc = "channels", !.status = status(u)]
    <2>1. q.pc = "channels" /\ q.status = status(u) /\ q.user = u
        BY <1>1, <1>2 DEF Handler, User
    <2>2. handlers' = [handlers EXCEPT ![h] = q] BY <1>2 DEF payload
    <2>. HIDE DEF q
    <2>. QED BY <1>0, <2>1, <2>2 DEF TypeOK
<1>5. \A v \in Users : UNCHANGED status(v) BY <1>3 DEF status, is_online
<1>6. Telling(h, u)' /\ At(h, "channels")' BY <1>4 DEF Telling, At, User
<1>7. ASSUME NEW v \in Users \ {u}
      PROVE  /\ \A g \in Handlers : Telling(g, v)' <=> Telling(g, v)
             /\ v \notin disturbed => NewsOf(v)'
    <2>1. User(h)' = User(h) BY <1>2, <1>4 DEF User
    <2>. QED BY <1>1, <1>2, <1>3, <1>4, <2>1, OthersStay
<1>8. ASSUME u \notin disturbed'
      PROVE  \A g \in Handlers : Telling(g, u)' <=> g = h
    <2>1. \A g \in Handlers \ {h} : ~Telling(g, u) BY <1>3, <1>8
    <2>. QED BY <1>4, <1>6, <2>1 DEF Telling, At, User
<1>9. Alone'
    <2>. SUFFICES ASSUME NEW v \in Users \ disturbed', NEW f \in Handlers, NEW g \in Handlers,
                         Telling(f, v)', Telling(g, v)'
                  PROVE  f = g
        BY DEF Alone
    <2>1. CASE v = u BY <1>8, <2>1
    <2>2. CASE v # u BY <1>3, <1>7, <2>2 DEF NInv, Alone
    <2>. QED BY <2>1, <2>2
<1>10. News'
    <2>. SUFFICES ASSUME NEW v \in Users \ disturbed' PROVE NewsOf(v)'
        BY DEF News
    <2>1. CASE v = u
        <3>1. \A g \in Handlers : Telling(g, u)' => handlers'[g].status = status(u)'
            BY <1>4, <1>5, <1>8, <2>1
        <3>2. \A s \in Sockets : Covered(s, u)' BY <1>6 DEF Covered, Finds
        <3>. QED BY <2>1, <3>1, <3>2 DEF NewsOf
    <2>2. CASE v # u BY <1>3, <1>7, <2>2
    <2>. QED BY <2>1, <2>2
<1>11. OneClient' /\ Owners' BY <1>1, <1>3, <1>4, BroadcastFrame DEF At
<1>12. Reached'
    <2>1. \A g \in Handlers : At(g, "emit")' => At(g, "emit") /\ handlers'[g] = handlers[g]
        BY <1>4 DEF At
    <2>. QED BY <1>3, <2>1 DEF NInv, Reached, Observes, SharedBy
<1>. QED BY <1>0, <1>9, <1>10, <1>11, <1>12 DEF NInv

\* The observers are read, in two queries: together they find everybody who was told
\* of the user and has lost nothing they shared.
LEMMA LooksNews ==
    ASSUME NInv, NEW h \in Handlers, channel_users(h) \/ conversation_users(h)
    PROVE  NInv'
<1>0. PInv /\ TypeOK /\ PInv' BY Broadcasts DEF NInv, PInv
<1>1. /\ handlers[h].pc \in {"channels", "conversations"}
      /\ handlers[h].pc \in Pcs /\ User(h) \in Users /\ handlers[h] \in Handler
    BY <1>0, RunningType DEF channel_users, conversation_users, At, Pcs
<1>2. PICK u \in Users : u = User(h) BY <1>1
<1>3. UNCHANGED <<connections, socket_users, shared, client, told, disturbed, parted>>
    BY DEF channel_users, conversation_users, manager, history
<1>4. /\ \A g \in Handlers \ {h} : handlers'[g] = handlers[g]
      /\ handlers'[h].status = handlers[h].status /\ handlers'[h].user = u
      /\ \/ /\ At(h, "channels") /\ handlers'[h].pc = "conversations"
            /\ handlers'[h].ids = SharedBy("channel", u)
         \/ /\ At(h, "conversations") /\ handlers'[h].pc = "sockets"
            /\ handlers'[h].ids = handlers[h].ids \cup SharedBy("conversation", u)
    <2>1. ASSUME NEW ids, NEW pc, handlers' = [handlers EXCEPT ![h].pc = pc, ![h].ids = ids]
          PROVE  /\ \A g \in Handlers \ {h} : handlers'[g] = handlers[g]
                 /\ handlers'[h].status = handlers[h].status /\ handlers'[h].user = u
                 /\ handlers'[h].pc = pc /\ handlers'[h].ids = ids
        <3>. DEFINE q == [handlers[h] EXCEPT !.pc = pc, !.ids = ids]
        <3>1. /\ q.pc = pc /\ q.ids = ids /\ q.user = u
              /\ q.status = handlers[h].status
            BY <1>1, <1>2 DEF Handler, User
        <3>2. handlers' = [handlers EXCEPT ![h] = q] BY <2>1
        <3>. HIDE DEF q
        <3>. QED BY <1>0, <3>1, <3>2 DEF TypeOK
    <2>2. CASE channel_users(h)
        <3>1. PICK ids : ids = SharedBy("channel", u) OBVIOUS
        <3>2. handlers' = [handlers EXCEPT ![h].pc = "conversations", ![h].ids = ids]
            BY <1>2, <2>2, <3>1 DEF channel_users
        <3>3. At(h, "channels") BY <2>2 DEF channel_users
        <3>. QED BY <2>1, <3>1, <3>2, <3>3
    <2>3. CASE conversation_users(h)
        <3>1. PICK ids : ids = handlers[h].ids \cup SharedBy("conversation", u) OBVIOUS
        <3>2. handlers' = [handlers EXCEPT ![h].pc = "sockets", ![h].ids = ids]
            BY <1>2, <2>3, <3>1 DEF conversation_users
        <3>3. At(h, "conversations") BY <2>3 DEF conversation_users
        <3>. QED BY <2>1, <3>1, <3>2, <3>3
    <2>. QED BY <2>2, <2>3
<1>5. \A v \in Users : UNCHANGED status(v) BY <1>3 DEF status, is_online
<1>6. \A v \in Users, g \in Handlers :
          /\ Fresh(g, v)' <=> Fresh(g, v)
          /\ Telling(g, v)' => Telling(g, v) /\ handlers'[g].status = handlers[g].status
    BY <1>1, <1>2, <1>4 DEF Fresh, Telling, At, User
<1>7. ASSUME NEW v \in Users \ {u}
      PROVE  v \notin disturbed => NewsOf(v)'
    <2>1. User(h)' = User(h) BY <1>2, <1>4 DEF User
    <2>. QED BY <1>1, <1>2, <1>3, <1>4, <2>1, OthersStay
<1>8. Alone' BY <1>3, <1>6 DEF NInv, Alone
<1>9. ASSUME u \notin disturbed PROVE NewsOf(u)'
    <2>. SUFFICES ASSUME \A g \in Handlers : ~Fresh(g, u)'
                  PROVE  /\ \A g \in Handlers :
                                Telling(g, u)' => handlers'[g].status = status(u)'
                         /\ \A s \in Sockets : Covered(s, u)'
        BY DEF NewsOf
    <2>1. /\ \A g \in Handlers : Telling(g, u) => handlers[g].status = status(u)
          /\ \A s \in Sockets : Covered(s, u)
        BY <1>6, <1>9 DEF NInv, News, NewsOf
    <2>2. Telling(h, u) /\ Telling(h, u)' BY <1>1, <1>2, <1>4 DEF Telling, User
    <2>3. ASSUME NEW s \in Sockets PROVE Covered(s, u)'
        <3>1. CASE told[s][u] \in {"none", status(u)} \/ <<s, u>> \in parted
            BY <1>3, <1>5, <3>1 DEF Covered
        <3>2. CASE told[s][u] \notin {"none", status(u)} /\ <<s, u>> \notin parted
            <4>1. PICK g \in Handlers : Telling(g, u) /\ Finds(g, s, u)
                BY <2>1, <3>2 DEF Covered
            <4>2. g = h BY <1>9, <2>2, <4>1 DEF NInv, Alone
            <4>3. Observes(s, u) BY <3>2 DEF NInv, Reached
            <4>4. CASE At(h, "channels")
                <5>1. PICK v \in client[s] :
                        \/ v = u \/ v \in SharedBy("channel", u)
                        \/ v \in SharedBy("conversation", u)
                    BY <4>3 DEF Observes, Kinds
                <5>2. v \in handlers'[h].ids \cup {u} \cup SharedBy("conversation", u)'
                    BY <1>3, <1>4, <4>4, <5>1 DEF At, SharedBy
                <5>3. At(h, "conversations")' BY <1>4, <4>4 DEF At
                <5>4. Finds(h, s, u)' BY <1>3, <5>1, <5>2, <5>3 DEF Finds
                <5>. QED BY <2>2, <5>4 DEF Covered
            <4>5. CASE At(h, "conversations")
                <5>1. PICK v \in client[s] :
                        v \in handlers[h].ids \cup {u} \cup SharedBy("conversation", u)
                    BY <4>1, <4>2, <4>5 DEF Finds, At
                <5>2. v \in handlers'[h].ids \cup {u} /\ At(h, "sockets")'
                    BY <1>4, <4>5, <5>1 DEF At
                <5>3. Finds(h, s, u)' BY <1>3, <5>1, <5>2 DEF Finds
                <5>. QED BY <2>2, <5>3 DEF Covered
            <4>. QED BY <1>1, <4>4, <4>5 DEF At
        <3>. QED BY <3>1, <3>2
    <2>. QED BY <1>5, <1>6, <2>1, <2>3
<1>10. News' BY <1>3, <1>7, <1>9 DEF News
<1>11. OneClient' /\ Owners'
    <2>1. /\ handlers[h].pc \notin {"register", "unregister"}
          /\ handlers'[h].pc \notin {"register", "unregister"}
        BY <1>1, <1>4
    <2>. QED BY <1>3, <1>4, <2>1, BroadcastFrame
<1>12. Reached'
    <2>1. \A g \in Handlers : At(g, "emit")' => At(g, "emit") /\ handlers'[g] = handlers[g]
        BY <1>4 DEF At
    <2>. QED BY <1>3, <2>1 DEF NInv, Reached, Observes, SharedBy
<1>. QED BY <1>0, <1>8, <1>10, <1>11, <1>12 DEF NInv

\* The sockets are read: those of everybody who was found are among them.
LEMMA RecipientsNews ==
    ASSUME NInv, NEW h \in Handlers, recipient_socket_ids(h)
    PROVE  NInv'
<1>0. PInv /\ TypeOK /\ PInv' BY Broadcasts DEF NInv, PInv
<1>1. /\ At(h, "sockets") /\ handlers[h].pc \in Pcs /\ User(h) \in Users
      /\ handlers[h] \in Handler
    BY <1>0, RunningType DEF recipient_socket_ids, At, Pcs
<1>2. PICK u \in Users : u = User(h) BY <1>1
<1>3. UNCHANGED <<connections, socket_users, shared, client, told, disturbed, parted>>
    BY DEF recipient_socket_ids, manager, history
<1>. DEFINE to == socket_ids_for_users(handlers[h].ids \cup {u})
<1>4. to \subseteq Sockets BY <1>0, <1>1 DEF TypeOK, Handler, socket_ids_for_users
<1>5. /\ \A g \in Handlers \ {h} : handlers'[g] = handlers[g]
      /\ \/ handlers'[h].pc = "done" /\ to = {}
         \/ /\ handlers'[h].pc = "emit" /\ handlers'[h].to = to
            /\ handlers'[h].status = handlers[h].status /\ handlers'[h].user = u
    <2>1. CASE to = {} /\ Done(h) BY <1>0, <2>1, DoneFacts
    <2>2. CASE handlers' = [handlers EXCEPT ![h].pc = "emit", ![h].ids = {}, ![h].to = to]
        <3>. DEFINE q == [handlers[h] EXCEPT !.pc = "emit", !.ids = {}, !.to = to]
        <3>1. /\ q.pc = "emit" /\ q.to = to /\ q.user = u
              /\ q.status = handlers[h].status
            BY <1>1, <1>2 DEF Handler, User
        <3>2. handlers' = [handlers EXCEPT ![h] = q] BY <2>2
        <3>. HIDE DEF q
        <3>. QED BY <1>0, <3>1, <3>2 DEF TypeOK
    <2>. QED BY <1>2, <2>1, <2>2 DEF recipient_socket_ids
<1>6. \A v \in Users : UNCHANGED status(v) BY <1>3 DEF status, is_online
<1>7. \A v \in Users, g \in Handlers :
          /\ Fresh(g, v)' <=> Fresh(g, v)
          /\ Telling(g, v)' => Telling(g, v) /\ handlers'[g].status = handlers[g].status
    BY <1>1, <1>2, <1>5 DEF Fresh, Telling, At, User
<1>8. ASSUME NEW v \in Users \ {u}
      PROVE  v \notin disturbed => NewsOf(v)'
    <2>1. handlers'[h].pc = "done" \/ User(h)' = User(h) BY <1>2, <1>5 DEF User
    <2>. QED BY <1>1, <1>2, <1>3, <1>5, <2>1, OthersStay
<1>9. Alone' BY <1>3, <1>7 DEF NInv, Alone
<1>10. ASSUME u \notin disturbed PROVE NewsOf(u)'
    <2>. SUFFICES ASSUME \A g \in Handlers : ~Fresh(g, u)'
                  PROVE  /\ \A g \in Handlers :
                                Telling(g, u)' => handlers'[g].status = status(u)'
                         /\ \A s \in Sockets : Covered(s, u)'
        BY DEF NewsOf
    <2>1. /\ \A g \in Handlers : Telling(g, u) => handlers[g].status = status(u)
          /\ \A s \in Sockets : Covered(s, u)
        BY <1>7, <1>10 DEF NInv, News, NewsOf
    <2>3. Telling(h, u) BY <1>1, <1>2 DEF Telling, At
    <2>2. ASSUME NEW s \in Sockets PROVE Covered(s, u)'
        <3>1. CASE told[s][u] \in {"none", status(u)} \/ <<s, u>> \in parted
            BY <1>3, <1>6, <3>1 DEF Covered
        <3>2. CASE told[s][u] \notin {"none", status(u)} /\ <<s, u>> \notin parted
            <4>1. PICK g \in Handlers : Telling(g, u) /\ Finds(g, s, u)
                BY <2>1, <3>2 DEF Covered
            <4>2. g = h BY <1>10, <2>3, <4>1 DEF NInv, Alone
            <4>3. PICK v \in client[s] : v \in handlers[h].ids \cup {u}
                BY <1>1, <4>1, <4>2 DEF Finds, At
            <4>4. socket_users[s] # {} BY <3>2 DEF NInv, Reached
            <4>5. v \in Users /\ s \in connections[v] BY <1>0, <4>3, <4>4, KnownSocket DEF NInv
            <4>6. s \in to BY <4>3, <4>5 DEF socket_ids_for_users
            <4>7. Telling(h, u)' /\ At(h, "emit")' /\ s \in handlers'[h].to
                BY <1>5, <4>6 DEF Telling, At, User
            <4>. QED BY <4>7 DEF Covered, Finds
        <3>. QED BY <3>1, <3>2
    <2>. QED BY <1>6, <1>7, <2>1, <2>2
<1>11. News' BY <1>3, <1>8, <1>10 DEF News
<1>12. OneClient' /\ Owners' BY <1>1, <1>3, <1>5, BroadcastFrame DEF At
<1>13. Reached'
    <2>1. \A s \in to : client[s] # {} => socket_users[s] # {}
        BY <1>0, <1>1, <1>4 DEF socket_ids_for_users, PInv, Agree, Handler
    <2>2. \A g \in Handlers : At(g, "emit")' =>
              \/ handlers'[g].to = to
              \/ At(g, "emit") /\ handlers'[g].to = handlers[g].to
        BY <1>5 DEF At
    <2>. QED BY <1>3, <2>1, <2>2 DEF NInv, Reached, Observes, SharedBy
<1>. QED BY <1>0, <1>9, <1>11, <1>12, <1>13 DEF NInv

\* One more socket is told.
LEMMA EmitsNews ==
    ASSUME NInv, NEW h \in Handlers, NEW s \in Sockets, emit(h, s)
    PROVE  NInv'
<1>0. PInv /\ TypeOK /\ PInv' BY Broadcasts DEF NInv, PInv
<1>1. /\ At(h, "emit") /\ handlers[h].pc \in Pcs /\ User(h) \in Users
      /\ handlers[h] \in Handler /\ s \in handlers[h].to
    BY <1>0, RunningType DEF emit, At, Pcs
<1>2. PICK u \in Users : u = User(h) BY <1>1
<1>. DEFINE left == handlers[h].to \ {s}
<1>3. /\ UNCHANGED <<connections, socket_users, shared, client, disturbed>>
      /\ IF client[s] = {} THEN UNCHANGED <<told, parted>>
         ELSE /\ told' = [told EXCEPT ![s][u] = handlers[h].status]
              /\ parted' = IF Observes(s, u) THEN parted \ {<<s, u>>}
                           ELSE parted \cup {<<s, u>>}
    BY <1>2 DEF emit, manager
<1>4. /\ \A g \in Handlers \ {h} : handlers'[g] = handlers[g]
      /\ \/ handlers'[h].pc = "done" /\ left = {}
         \/ /\ handlers'[h].pc = "emit" /\ handlers'[h].to = left
            /\ handlers'[h].status = handlers[h].status /\ handlers'[h].user = u
    <2>1. CASE left = {} /\ Done(h) BY <1>0, <2>1, DoneFacts
    <2>2. CASE handlers' = [handlers EXCEPT ![h].to = left]
        <3>. DEFINE q == [handlers[h] EXCEPT !.to = left]
        <3>1. /\ q.pc = "emit" /\ q.to = left /\ q.user = u
              /\ q.status = handlers[h].status
            BY <1>1, <1>2 DEF Handler, User, At
        <3>2. handlers' = [handlers EXCEPT ![h] = q] BY <2>2
        <3>. HIDE DEF q
        <3>. QED BY <1>0, <3>1, <3>2 DEF TypeOK
    <2>. QED BY <2>1, <2>2 DEF emit
<1>5. /\ \A v \in Users : UNCHANGED status(v)
      /\ \A t \in Sockets, v \in Users : Observes(t, v)' <=> Observes(t, v)
    BY <1>3 DEF status, is_online, Observes, SharedBy
<1>6. \A v \in Users, g \in Handlers :
          /\ Fresh(g, v)' <=> Fresh(g, v)
          /\ Telling(g, v)' => Telling(g, v) /\ handlers'[g].status = handlers[g].status
    BY <1>1, <1>2, <1>4 DEF Fresh, Telling, At, User
<1>7. \A t \in Sockets, v \in Users :
          told'[t][v] = IF t = s /\ v = u /\ client[s] # {} THEN handlers[h].status
                        ELSE told[t][v]
    BY <1>0, <1>3 DEF TypeOK
<1>8. \A t \in Sockets, v \in Users :
          t # s \/ v # u => (<<t, v>> \in parted' <=> <<t, v>> \in parted)
    BY <1>3
<1>9. ASSUME NEW v \in Users \ {u}
      PROVE  v \notin disturbed => NewsOf(v)'
    <2>1. handlers'[h].pc = "done" \/ User(h)' = User(h) BY <1>2, <1>4 DEF User
    <2>2. \A t \in Sockets, w \in Users : w # User(h) =>
              told'[t][w] = told[t][w] /\ (<<t, w>> \in parted => <<t, w>> \in parted')
        BY <1>2, <1>7, <1>8
    <2>. QED BY <1>1, <1>2, <1>3, <1>4, <2>1, <2>2, OthersStay
<1>10. Alone' BY <1>3, <1>6 DEF NInv, Alone
<1>11. ASSUME u \notin disturbed PROVE NewsOf(u)'
    <2>. SUFFICES ASSUME \A g \in Handlers : ~Fresh(g, u)'
                  PROVE  /\ \A g \in Handlers :
                                Telling(g, u)' => handlers'[g].status = status(u)'
                         /\ \A t \in Sockets : Covered(t, u)'
        BY DEF NewsOf
    <2>1. /\ \A g \in Handlers : Telling(g, u) => handlers[g].status = status(u)
          /\ \A t \in Sockets : Covered(t, u)
        BY <1>6, <1>11 DEF NInv, News, NewsOf
    <2>2. Telling(h, u) BY <1>1, <1>2 DEF Telling, At
    <2>3. ASSUME NEW t \in Sockets PROVE Covered(t, u)'
        <3>1. CASE told[t][u] \in {"none", status(u)}
            BY <1>5, <1>7, <2>1, <2>2, <3>1 DEF Covered
        <3>2. CASE t = s
            <4>1. told[s][u] # "none" => client[s] # {} BY DEF NInv, Reached
            <4>. QED BY <1>5, <1>7, <2>1, <2>2, <3>2, <4>1 DEF Covered
        <3>3. CASE t # s /\ <<t, u>> \in parted BY <1>8, <3>3 DEF Covered
        <3>4. CASE told[t][u] \notin {"none", status(u)} /\ t # s /\ <<t, u>> \notin parted
            <4>1. PICK g \in Handlers : Telling(g, u) /\ Finds(g, t, u)
                BY <2>1, <3>4 DEF Covered
            <4>2. g = h BY <1>11, <2>2, <4>1 DEF NInv, Alone
            <4>3. t \in left BY <1>1, <3>4, <4>1, <4>2 DEF Finds, At
            <4>4. Telling(h, u)' /\ At(h, "emit")' /\ t \in handlers'[h].to
                BY <1>4, <4>3 DEF Telling, At, User
            <4>. QED BY <4>4 DEF Covered, Finds
        <3>. QED BY <3>1, <3>2, <3>3, <3>4
    <2>. QED BY <1>5, <1>6, <2>1, <2>3
<1>12. News' BY <1>3, <1>9, <1>11 DEF News
<1>13. OneClient' /\ Owners' BY <1>1, <1>3, <1>4, BroadcastFrame DEF At
<1>14. Reached'
    <2>1. \A g \in Handlers : At(g, "emit")' =>
              At(g, "emit") /\ handlers'[g].to \subseteq handlers[g].to
        BY <1>1, <1>4 DEF At
    <2>2. client[s] # {} => socket_users[s] # {} BY <1>1 DEF NInv, Reached
    <2>3. client[s] # {} => Observes(s, u) \/ <<s, u>> \in parted' BY <1>3
    <2>4. ASSUME NEW t \in Sockets, NEW v \in Users, told'[t][v] # "none"
          PROVE  /\ client'[t] # {} /\ socket_users'[t] # {}
                 /\ Observes(t, v)' \/ <<t, v>> \in parted'
        <3>1. CASE t = s /\ v = u /\ client[s] # {} BY <1>3, <1>5, <2>2, <2>3, <3>1
        <3>2. CASE t = s /\ v = u /\ client[s] = {}
            BY <1>7, <2>4, <3>2 DEF NInv, Reached
        <3>3. CASE t # s \/ v # u
            BY <1>3, <1>5, <1>7, <1>8, <2>4, <3>3 DEF NInv, Reached
        <3>. QED BY <3>1, <3>2, <3>3
    <2>5. \A g \in Handlers : At(g, "emit")' =>
              \A t \in handlers'[g].to : client'[t] # {} => socket_users'[t] # {}
        BY <1>3, <2>1 DEF NInv, Reached
    <2>. QED BY <2>4, <2>5 DEF Reached
<1>. QED BY <1>0, <1>10, <1>12, <1>13, <1>14 DEF NInv

\* Something shared begins or ends: what a broadcast may miss is recorded.
LEMMA SharesNews ==
    ASSUME NInv, NEW kind \in Kinds, NEW x \in Users, NEW y \in Users, ChangeSharing(kind, x, y)
    PROVE  NInv'
<1>0. PInv /\ TypeOK /\ PInv' BY Shares DEF NInv, PInv
<1>1. UNCHANGED <<connections, socket_users, client, told, handlers, disturbed>>
    BY DEF ChangeSharing, manager
<1>2. parted \subseteq parted' BY DEF ChangeSharing
<1>3. ASSUME NEW s \in Sockets, NEW u \in Users, told[s][u] # "none", <<s, u>> \notin parted',
             NEW k \in Kinds, NEW v \in client[s], v \in SharedBy(k, u),
             ~(v \in SharedBy(k, u)')
      PROVE  /\ \A g \in Handlers : ~Telling(g, u)
             /\ \E j \in Kinds : v \in SharedBy(j, u)'
    <2>1. v \in Users /\ <<k, u, v>> \in shared /\ <<k, u, v>> \notin shared'
        BY <1>3 DEF SharedBy
    <2>. DEFINE both == {<<kind, x, y>>, <<kind, y, x>>}
                unseen == \/ \A j \in Kinds : <<j, u, v>> \notin shared \ both
                          \/ \E g \in Handlers : Telling(g, u)
    <2>2. shared' = shared \ both BY <2>1 DEF ChangeSharing
    <2>3. (u = x /\ v = y) \/ (u = y /\ v = x) BY <2>1, <2>2
    <2>4. <<kind, x, y>> \in shared BY <2>1 DEF ChangeSharing
    <2>5. unseen => <<s, u>> \in parted' BY <1>3, <2>3, <2>4 DEF ChangeSharing
    <2>6. ~unseen BY <1>3, <2>5
    <2>7. PICK j \in Kinds : <<j, u, v>> \in shared' BY <2>2, <2>6
    <2>8. v \in SharedBy(j, u)' BY <2>1, <2>7 DEF SharedBy
    <2>. QED BY <2>6, <2>8
<1>4. ASSUME NEW s \in Sockets, NEW u \in Users PROVE StillFinds(s, u)
    <2>1. CASE told[s][u] = "none" \/ <<s, u>> \in parted'
        BY <1>1, <1>2, <2>1 DEF StillFinds
    <2>2. CASE told[s][u] # "none" /\ <<s, u>> \notin parted'
        <3>1. ASSUME NEW g \in Handlers, Telling(g, u), NEW v \in client[s],
                     v \in SharedBy("conversation", u)
              PROVE  v \in SharedBy("conversation", u)'
            BY <1>3, <2>2, <3>1 DEF Kinds
        <3>2. \A g \in Handlers : Telling(g, u) /\ Finds(g, s, u) => Finds(g, s, u)'
            BY <1>1, <3>1 DEF Finds, At
        <3>. QED BY <1>1, <1>2, <3>2 DEF StillFinds
    <2>. QED BY <2>1, <2>2
<1>5. Alone' BY <1>1 DEF NInv, Alone, Telling, At, User
<1>6. \A u \in Users : \A g \in Handlers :
          /\ Fresh(g, u) => Fresh(g, u)'
          /\ Telling(g, u)' <=> Telling(g, u)
          /\ Telling(g, u) => handlers'[g] = handlers[g]
    BY <1>1 DEF Fresh, Telling, At, User
<1>7. News'
    <2>. SUFFICES ASSUME NEW u \in Users \ disturbed PROVE NewsOf(u)'
        BY <1>1 DEF News
    <2>1. NewsOf(u) BY DEF NInv, News
    <2>2. UNCHANGED status(u) BY <1>1 DEF status, is_online
    <2>3. \A s \in Sockets : StillFinds(s, u) BY <1>4
    <2>. QED BY <1>6, <2>1, <2>2, <2>3, NewsStays
<1>8. OneClient' /\ Owners' BY <1>1 DEF NInv, OneClient, Owners, At, User
<1>9. Reached'
    <2>1. ASSUME NEW s \in Sockets, NEW u \in Users, told[s][u] # "none",
                 <<s, u>> \notin parted'
          PROVE  Observes(s, u)'
        <3>1. Observes(s, u) BY <1>2, <2>1 DEF NInv, Reached
        <3>2. PICK v \in client[s] : v = u \/ \E k \in Kinds : v \in SharedBy(k, u)
            BY <3>1 DEF Observes
        <3>3. v = u \/ \E k \in Kinds : v \in SharedBy(k, u)' BY <1>3, <2>1, <3>2
        <3>. QED BY <1>1, <3>3 DEF Observes
    <2>. QED BY <1>1, <2>1 DEF NInv, Reached, At
<1>. QED BY <1>0, <1>5, <1>7, <1>8, <1>9 DEF NInv

LEMMA RestartsNews ==
    ASSUME NInv, Restart
    PROVE  NInv'
<1>1. PInv' BY Restarts DEF NInv
<1>2. \A h \in Handlers, u \in Users : ~Fresh(h, u)' /\ ~Telling(h, u)'
    BY DEF Restart, Fresh, Telling, At, NoHandler
<1>3. \A h \in Handlers : ~At(h, "emit")' /\ ~At(h, "unregister")'
    BY DEF Restart, At, NoHandler
<1>4. \A s \in Sockets, u \in Users : told'[s][u] = "none"
    BY DEF Restart, ToldNothing
<1>5. Owners' BY <1>3, HandlerFacts DEF Owners
<1>6. Reached' BY <1>3, <1>4 DEF Reached
<1>7. Alone' BY <1>2 DEF Alone
<1>8. News' BY <1>2, <1>4 DEF News, NewsOf, Covered
<1>9. OneClient' BY DEF Restart, OneClient
<1>. QED BY <1>1, <1>5, <1>6, <1>7, <1>8, <1>9 DEF NInv

LEMMA StutteringNews ==
    ASSUME NInv, UNCHANGED vars
    PROVE  NInv'
<1>1. PInv' BY NextPInv DEF NInv
<1>2. OneClient' /\ Owners' BY DEF vars, NInv, OneClient, Owners, At, User
<1>3. Reached' BY DEF vars, NInv, Reached, At, Observes, SharedBy
<1>4. Alone' BY DEF vars, NInv, Alone, Telling, At, User
<1>5. News'
    BY DEF vars, NInv, News, NewsOf, Covered, Finds, SharedBy, Fresh, Telling, At, User, status,
           is_online
<1>. QED BY <1>1, <1>2, <1>3, <1>4, <1>5 DEF NInv

LEMMA NextNInv == NInv /\ [Next]_vars => NInv'
<1>. SUFFICES ASSUME NInv, [Next]_vars PROVE NInv' OBVIOUS
<1>1. ASSUME NEW s \in Sockets, NEW u \in Users, Connect(s, u) PROVE NInv'
    BY <1>1, ConnectsNews
<1>2. ASSUME NEW s \in Sockets, Disconnect(s) PROVE NInv' BY <1>2, DisconnectsNews
<1>3. ASSUME NEW h \in Handlers, HandlerStep(h) \/ Fail(h) PROVE NInv'
    <2>1. ASSUME NEW s \in Sockets, emit(h, s) PROVE NInv' BY <2>1, EmitsNews
    <2>. QED BY <1>3, <2>1, RegistersNews, UnregistersNews, PersistsNews, PayloadsNews,
                LooksNews, RecipientsNews, FailsNews DEF HandlerStep
<1>4. CASE Restart BY <1>4, RestartsNews
<1>5. ASSUME NEW kind \in Kinds, NEW u \in Users, NEW v \in Users, ChangeSharing(kind, u, v)
      PROVE  NInv'
    BY <1>5, SharesNews
<1>6. CASE UNCHANGED vars BY <1>6, StutteringNews
<1>. QED BY <1>1, <1>2, <1>3, <1>4, <1>5, <1>6 DEF Next

\* broadcast_presence: once the handlers of a user are through, whoever was told of him
\* was last told the truth, whatever channels and conversations come and go, unless two
\* of his broadcasts overlapped, one failed, or the two ceased to share anything since
\* (or something while the broadcast was looking).
THEOREM NewsAreRight == Spec => []NewsIsRight
<1>1. NInv => NewsIsRight
    <2>. SUFFICES ASSUME NInv, NEW u \in Users \ disturbed, NEW s \in Sockets,
                         ~Pending(u), told[s][u] # "none", <<s, u>> \notin parted
                  PROVE  told[s][u] = status(u)
        BY DEF NewsIsRight
    <2>1. TypeOK BY DEF NInv, PInv
    <2>2. \A h \in Handlers : ~Fresh(h, u) /\ ~Telling(h, u)
        BY <2>1, RunningType DEF Pending, Fresh, Telling, At, Pcs
    <2>3. Covered(s, u) BY <2>2 DEF NInv, News, NewsOf
    <2>. QED BY <2>2, <2>3 DEF Covered
<1>. QED BY <1>1, InitNInv, NextNInv, PTL DEF Spec
=============================================================================
