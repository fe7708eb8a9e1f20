------------------------------- MODULE Typing -------------------------------
(***************************************************************************)
(* The typing indicator: the process-local TypingManager, the socket       *)
(* handlers that call it, and the threading.Timer that bounds every typing *)
(* state.  The manager's lock makes each of its methods one step; what     *)
(* comes before it (validate_context reads the database) and after it (the *)
(* event is emitted with the lock released) is a step of its own, and a    *)
(* Timer's thread runs beside them.                                        *)
(***************************************************************************)
EXTENDS Integers, FiniteSets

CONSTANTS
    Users,
    Contexts,      \* channels and conversations
    Sockets,       \* connection slots: a slot is reused once its sid is forgotten
    SocketUser,    \* the user each slot connects as
    Threads,       \* handler threads of the Socket.IO server
    Timers,        \* Timer threads that may exist at a time
    NoTimer

ASSUME TypingAssumption ==
    /\ SocketUser \in [Sockets -> Users]
    /\ NoTimer \notin Timers

Keys == Users \X Contexts

VARIABLES
    connected,     \* sockets whose disconnect handler has not been started
    access,        \* keys whose user may use the context (channel/conversation rows)
    states,        \* TypingManager._states
    timers,        \* the Timer threads
    threads,       \* what each handler thread is doing
    shown          \* history: user_typing minus user_stopped_typing events per key

vars == <<connected, access, states, timers, threads, shown>>

NoState == [sources |-> {}, timer |-> NoTimer]
IdleThread == [pc |-> "idle", socket |-> {}, keys |-> {}]

State == [sources: SUBSET Sockets, timer: Timers \cup {NoTimer}]
Timer == [status: {"idle", "armed", "fired", "expired"}, key: Keys]
Thread == [pc: {"idle", "start", "stop", "cleanup", "user_typing", "user_stopped_typing"},
           socket: SUBSET Sockets, keys: SUBSET Keys]

TypeOK ==
    /\ connected \subseteq Sockets
    /\ access \subseteq Keys
    /\ states \in [Keys -> State]
    /\ timers \in [Timers -> Timer]
    /\ threads \in [Threads -> Thread]
    /\ shown \in [Keys -> Int]

Init ==
    /\ connected = {}
    /\ access = Keys
    /\ states = [k \in Keys |-> NoState]
    /\ timers \in [Timers -> [status: {"idle"}, key: Keys]]
    /\ threads = [h \in Threads |-> IdleThread]
    /\ shown = [k \in Keys |-> 0]

-----------------------------------------------------------------------------
(* Connections and access *)

IsTyping(k) == states[k].sources # {}

Mentioned(s) ==
    \/ \E k \in Keys : s \in states[k].sources
    \/ \E h \in Threads : s \in threads[h].socket

Connect(s) ==
    /\ s \notin connected
    /\ ~Mentioned(s)
    /\ connected' = connected \cup {s}
    /\ UNCHANGED <<access, states, timers, threads, shown>>

\* A membership, a participation or a channel's privacy changes elsewhere.
ChangeAccess(k) ==
    /\ access' = IF k \in access THEN access \ {k} ELSE access \cup {k}
    /\ UNCHANGED <<connected, states, timers, threads, shown>>

-----------------------------------------------------------------------------
(* Socket handlers *)

\* The handler authenticates and validates the context before it takes the
\* manager's lock; a refused event changes nothing.
Receive(h, s, k, op) ==
    /\ threads[h].pc = "idle"
    /\ s \in connected
    /\ SocketUser[s] = k[1]
    /\ k \in access
    /\ threads' = [threads EXCEPT ![h] = [pc |-> op, socket |-> {s}, keys |-> {k}]]
    /\ UNCHANGED <<connected, access, states, timers, shown>>

\* Mutation: an event the clients do not know.
Owe_Misnamed(h, event, ks) ==
    threads' = [threads EXCEPT ![h] =
        IF ks = {} THEN IdleThread ELSE [pc |-> "typing", socket |-> {}, keys |-> ks]]

\* The thread leaves the lock with these keys' event still to be emitted.
Owe(h, event, ks) ==
    threads' = [threads EXCEPT ![h] =
        IF ks = {} THEN IdleThread ELSE [pc |-> event, socket |-> {}, keys |-> ks]]

\* Timer.cancel(): a Timer that still waits never runs its function; on one
\* that has stopped waiting it has no effect.
Cancelled(tm, cs) ==
    [t \in Timers |-> IF t \in cs /\ tm[t].status = "armed"
                      THEN [tm[t] EXCEPT !.status = "idle"] ELSE tm[t]]

Start(h, s, k, t) ==
    /\ threads[h] = [pc |-> "start", socket |-> {s}, keys |-> {k}]
    /\ timers[t].status = "idle"
    /\ states' = [states EXCEPT ![k] = [sources |-> @.sources \cup {s}, timer |-> t]]
    /\ timers' = [Cancelled(timers, {states[k].timer})
                    EXCEPT ![t] = [status |-> "armed", key |-> k]]
    /\ Owe(h, "user_typing", IF IsTyping(k) THEN {} ELSE {k})
    /\ UNCHANGED <<connected, access, shown>>

\* Mutation: a state without sources is not popped.
Without_KeepsEmpty(s, ks) ==
    [k \in Keys |-> IF k \in ks THEN [states[k] EXCEPT !.sources = @ \ {s}] ELSE states[k]]

\* What is left of the states ks when socket s no longer types in them.
Without(s, ks) ==
    [k \in Keys |->
        LET rest == states[k].sources \ {s}
        IN IF k \notin ks THEN states[k]
           ELSE IF rest = {} THEN NoState ELSE [states[k] EXCEPT !.sources = rest]]

\* Mutation: the end is announced while another device still types.
EndedBy_AnySource(s, ks) == {k \in ks : s \in states[k].sources}

\* The typing states among ks that end when socket s is discarded.
EndedBy(s, ks) == {k \in ks : IsTyping(k) /\ states[k].sources \ {s} = {}}

TimersOf(ks) == {states[k].timer : k \in ks}

Stop(h, s, k) ==
    /\ threads[h] = [pc |-> "stop", socket |-> {s}, keys |-> {k}]
    /\ states' = Without(s, {k})
    /\ timers' = Cancelled(timers, TimersOf(EndedBy(s, {k})))
    /\ Owe(h, "user_stopped_typing", EndedBy(s, {k}))
    /\ UNCHANGED <<connected, access, shown>>

\* The client is gone; its disconnect handler starts with the typing cleanup.
Disconnect(h, s) ==
    /\ threads[h].pc = "idle"
    /\ s \in connected
    /\ connected' = connected \ {s}
    /\ threads' = [threads EXCEPT ![h] = [pc |-> "cleanup", socket |-> {s}, keys |-> {}]]
    /\ UNCHANGED <<access, states, timers, shown>>

CleanupSocket(h, s) ==
    /\ threads[h] = [pc |-> "cleanup", socket |-> {s}, keys |-> {}]
    /\ states' = Without(s, Keys)
    /\ timers' = Cancelled(timers, TimersOf(EndedBy(s, Keys)))
    /\ Owe(h, "user_stopped_typing", EndedBy(s, Keys))
    /\ UNCHANGED <<connected, access, shown>>

\* One socketio.emit to the context's room, with the lock released.
Emit(h, k) ==
    /\ threads[h].pc \in {"user_typing", "user_stopped_typing"}
    /\ k \in threads[h].keys
    /\ shown' = [shown EXCEPT ![k] = IF threads[h].pc = "user_typing" THEN @ + 1 ELSE @ - 1]
    /\ Owe(h, threads[h].pc, threads[h].keys \ {k})
    /\ UNCHANGED <<connected, access, states, timers>>

-----------------------------------------------------------------------------
(* Timer threads *)

\* The wait times out: from here on the thread is bound to call _expire.
Fire(t) ==
    /\ timers[t].status = "armed"
    /\ timers' = [timers EXCEPT ![t].status = "fired"]
    /\ UNCHANGED <<connected, access, states, threads, shown>>

\* Mutation: the timeout finds the state and does not pop it.
Expire_KeepsState(t) ==
    /\ timers[t].status = "fired"
    /\ timers' = [timers EXCEPT ![t].status = "idle"]
    /\ UNCHANGED <<connected, access, states, threads, shown>>

\* _expire pops whatever state the key has now, without looking whose timer
\* it is; the popped state's own timer, if another one, is left running.
Expire(t) ==
    /\ timers[t].status = "fired"
    /\ states' = [states EXCEPT ![timers[t].key] = NoState]
    /\ timers' = [timers EXCEPT ![t].status =
                    IF IsTyping(timers[t].key) THEN "expired" ELSE "idle"]
    /\ UNCHANGED <<connected, access, threads, shown>>

\* Mutation: the timeout is not announced.
OnTimeout_Silent(t) ==
    /\ timers[t].status = "expired"
    /\ timers' = [timers EXCEPT ![t].status = "idle"]
    /\ UNCHANGED <<connected, access, states, threads, shown>>

\* on_timeout emits user_stopped_typing from the timer's thread.
OnTimeout(t) ==
    /\ timers[t].status = "expired"
    /\ shown' = [shown EXCEPT ![timers[t].key] = @ - 1]
    /\ timers' = [timers EXCEPT ![t].status = "idle"]
    /\ UNCHANGED <<connected, access, states, threads>>

-----------------------------------------------------------------------------
HandlerStep(h) ==
    \/ \E s \in Sockets, k \in Keys, t \in Timers : Start(h, s, k, t)
    \/ \E s \in Sockets, k \in Keys : Stop(h, s, k)
    \/ \E s \in Sockets : CleanupSocket(h, s)
    \/ \E k \in Keys : Emit(h, k)

TimerStep(t) == Fire(t) \/ Expire(t) \/ OnTimeout(t)

ClientStep ==
    \/ \E s \in Sockets : Connect(s)
    \/ \E k \in Keys : ChangeAccess(k)
    \/ \E h \in Threads, s \in Sockets :
        \/ Disconnect(h, s)
        \/ \E k \in Keys, op \in {"start", "stop"} : Receive(h, s, k, op)

Next ==
    \/ ClientStep
    \/ \E h \in Threads : HandlerStep(h)
    \/ \E t \in Timers : TimerStep(t)

Spec == Init /\ [][Next]_vars

\* A started handler thread and a Timer thread keep running; nothing obliges a
\* client to send anything.
FairSpec ==
    /\ Spec
    /\ \A h \in Threads : WF_vars(HandlerStep(h))
    /\ \A t \in Timers : WF_vars(TimerStep(t))

-----------------------------------------------------------------------------
(* Properties *)

\* Every typing state is held by a Timer that is running or about to expire
\* it, and by nobody else's Timer: whatever the clients do or fail to do, no
\* user stays "typing" without an end.  start, stop, cleanup_socket and _expire
\* all maintain this, across timers of other keys and orphaned timers.
EveryStateHasItsTimer ==
    \A k \in Keys :
        /\ IsTyping(k) =>
            /\ states[k].timer \in Timers
            /\ timers[states[k].timer].status \in {"armed", "fired"}
            /\ timers[states[k].timer].key = k
        /\ ~IsTyping(k) => states[k] = NoState

\* Events about k that have been decided under the lock but not yet emitted.
Owed(k, event) == {h \in Threads : threads[h].pc = event /\ k \in threads[h].keys}
OwedByTimers(k) == {t \in Timers : timers[t].status = "expired" /\ timers[t].key = k}

\* Announcements alternate: what the room has been told, plus what is still
\* owed to it, always adds up to the manager's state.  No end of typing is
\* announced twice or forgotten, whichever of stop, cleanup and timeout wins.
AnnouncementsBalance ==
    \A k \in Keys :
        shown[k] + Cardinality(Owed(k, "user_typing"))
                 - Cardinality(Owed(k, "user_stopped_typing"))
                 - Cardinality(OwedByTimers(k))
          = IF IsTyping(k) THEN 1 ELSE 0

\* A typing state ends sooner or later unless it is renewed for ever, even if
\* its client loses access, disconnects or never sends typing_stop.
TypingEnds ==
    \A k \in Keys :
        \/ []<>(~IsTyping(k))
        \/ []<><<\E h \in Threads, s \in Sockets, t \in Timers : Start(h, s, k, t)>>_vars

\* Once a user has stopped typing for good the room hears of it: as many ends
\* as beginnings.
StopIsAnnounced ==
    \A k \in Keys : <>[](~IsTyping(k)) => <>[](shown[k] = 0)

\* What the tests promise of a renewed state ("keeps user typing until all
\* sources stop"): it ends by stop, by cleanup, or by the timer of its latest
\* renewal.
OnlyOwnTimerExpires ==
    [][\A t \in Timers : Expire(t) /\ IsTyping(timers[t].key)
            => states[timers[t].key].timer = t]_vars
=============================================================================
