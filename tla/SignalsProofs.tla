---------------------------- MODULE SignalsProofs ----------------------------
(***************************************************************************)
(* What users are signalled: the typing indicator and the notifications,   *)
(* two components that share no state and no definition.                   *)
(*                                                                         *)
(* Typing: type correctness, the invariant that every typing state is held *)
(* by a running timer of its own key, and the balance of what the rooms    *)
(* are told, for any number of users, contexts, sockets, handler threads   *)
(* and timers.  The balance counts the threads that owe an event: there    *)
(* may be infinitely many threads, but those that owe are finitely many,   *)
(* because each step adds at most one.                                     *)
(*                                                                         *)
(* Notifications: type correctness, that the count a recipient was sent    *)
(* last is right, that events follow the table and that preferences are    *)
(* respected, for any recipients and requests.                             *)
(***************************************************************************)
EXTENDS Typing, Notifications, FiniteSetTheorems, TLAPS

\* Whatever a handler thread owes after it leaves the lock is well typed.
LEMMA OweType ==
    ASSUME NEW h \in Threads, NEW ks \in SUBSET Keys,
           NEW event \in {"user_typing", "user_stopped_typing"},
           threads \in [Threads -> Thread], Owe(h, event, ks)
    PROVE  threads' \in [Threads -> Thread]
BY DEF Owe, Thread, IdleThread

\* cancel() keeps the set of timers, their keys, and every timer that was not
\* asked to stop.
LEMMA CancelledFacts ==
    ASSUME NEW cs, timers \in [Timers -> Timer]
    PROVE  /\ Cancelled(timers, cs) \in [Timers -> Timer]
           /\ \A t \in Timers :
                /\ Cancelled(timers, cs)[t].key = timers[t].key
                /\ t \notin cs => Cancelled(timers, cs)[t] = timers[t]
BY DEF Cancelled, Timer

\* Discarding a socket keeps the states well typed, and a state either keeps
\* its timer or is popped.
LEMMA WithoutFacts ==
    ASSUME NEW s \in Sockets, NEW ks \in SUBSET Keys, states \in [Keys -> State]
    PROVE  /\ Without(s, ks) \in [Keys -> State]
           /\ \A k \in Keys :
                \/ Without(s, ks)[k] = NoState
                \/ /\ Without(s, ks)[k].timer = states[k].timer
                   /\ k \in ks => states[k].sources \ {s} # {}
                   /\ Without(s, ks)[k].sources # {} => states[k].sources # {}
                   /\ k \notin ks => Without(s, ks)[k] = states[k]
                   /\ k \in ks => Without(s, ks)[k].sources = states[k].sources \ {s}
BY DEF Without, State, NoState

\* Every step, whoever takes it, keeps the state well typed.
THEOREM TypeCorrect == Spec => []TypeOK
<1>1. Init => TypeOK
  BY DEF Init, TypeOK, NoState, IdleThread, State, Timer, Thread
<1>2. TypeOK /\ [Next]_vars => TypeOK'
  <2> SUFFICES ASSUME TypeOK, [Next]_vars
               PROVE  TypeOK'
    OBVIOUS
  <2> USE DEF TypeOK
  <2>1. ASSUME NEW s \in Sockets, Connect(s)
        PROVE  TypeOK'
    BY <2>1 DEF Connect
  <2>2. ASSUME NEW k \in Keys, ChangeAccess(k)
        PROVE  TypeOK'
    BY <2>2 DEF ChangeAccess
  <2>3. ASSUME NEW h \in Threads, NEW s \in Sockets, NEW k \in Keys,
               NEW op \in {"start", "stop"}, Receive(h, s, k, op)
        PROVE  TypeOK'
    BY <2>3 DEF Receive, Thread
  <2>4. ASSUME NEW h \in Threads, NEW s \in Sockets, Disconnect(h, s)
        PROVE  TypeOK'
    BY <2>4 DEF Disconnect, Thread
  <2>5. ASSUME NEW h \in Threads, NEW s \in Sockets, NEW k \in Keys, NEW t \in Timers,
               Start(h, s, k, t)
        PROVE  TypeOK'
    <3>1. threads' \in [Threads -> Thread]
      BY <2>5, OweType DEF Start
    <3>2. states' \in [Keys -> State]
      BY <2>5 DEF Start, State
    <3>3. timers' \in [Timers -> Timer]
      <4>1. Cancelled(timers, {states[k].timer}) \in [Timers -> Timer]
        BY CancelledFacts
      <4> QED BY <2>5, <4>1 DEF Start, Timer
    <3> QED BY <2>5, <3>1, <3>2, <3>3 DEF Start
  <2>6. ASSUME NEW h \in Threads, NEW s \in Sockets, NEW k \in Keys, Stop(h, s, k)
        PROVE  TypeOK'
    <3>1. threads' \in [Threads -> Thread]
      BY <2>6, OweType DEF Stop, EndedBy
    <3> QED BY <2>6, <3>1, WithoutFacts, CancelledFacts DEF Stop
  <2>7. ASSUME NEW h \in Threads, NEW s \in Sockets, CleanupSocket(h, s)
        PROVE  TypeOK'
    <3>1. threads' \in [Threads -> Thread]
      BY <2>7, OweType DEF CleanupSocket, EndedBy
    <3> QED BY <2>7, <3>1, WithoutFacts, CancelledFacts DEF CleanupSocket
  <2>8. ASSUME NEW h \in Threads, NEW k \in Keys, Emit(h, k)
        PROVE  TypeOK'
    <3>1. threads' \in [Threads -> Thread]
      <4>1. threads[h].keys \ {k} \in SUBSET Keys
        BY DEF Thread
      <4> QED BY <2>8, <4>1, OweType DEF Emit
    <3> QED BY <2>8, <3>1 DEF Emit
  <2>9. ASSUME NEW t \in Timers, TimerStep(t)
        PROVE  TypeOK'
    <3>1. CASE Fire(t)
      BY <3>1 DEF Fire, Timer
    <3>2. CASE Expire(t)
      BY <3>2 DEF Expire, Timer, State, NoState
    <3>3. CASE OnTimeout(t)
      BY <3>3 DEF OnTimeout, Timer
    <3> QED BY <2>9, <3>1, <3>2, <3>3 DEF TimerStep
  <2>10. CASE UNCHANGED vars
    BY <2>10 DEF vars
  <2> QED BY <2>1, <2>2, <2>3, <2>4, <2>5, <2>6, <2>7, <2>8, <2>9, <2>10
          DEF Next, ClientStep, HandlerStep
<1> QED BY <1>1, <1>2, PTL DEF Spec

\* The timer of one key's state belongs to no other key, so that an action on
\* the states ks can only cancel timers of ks.
LEMMA OwnTimers ==
    ASSUME TypeOK, EveryStateHasItsTimer, NEW k \in Keys, NEW ks \in SUBSET Keys,
           IsTyping(k), k \notin ks
    PROVE  states[k].timer \notin TimersOf(ks)
<1> SUFFICES ASSUME NEW j \in ks, states[j].timer = states[k].timer
             PROVE  FALSE
  BY DEF TimersOf
<1>1. states[j].timer # NoTimer
  BY TypingAssumption DEF EveryStateHasItsTimer, IsTyping
<1>2. IsTyping(j)
  BY <1>1 DEF EveryStateHasItsTimer, NoState
<1> QED BY <1>2 DEF EveryStateHasItsTimer

\* Ending the typing of socket s in the states ks (stop, cleanup_socket) keeps
\* a running timer under each state that survives.
LEMMA DiscardKeepsTimers ==
    ASSUME TypeOK, EveryStateHasItsTimer, NEW s \in Sockets, NEW ks \in SUBSET Keys,
           states' = Without(s, ks),
           timers' = Cancelled(timers, TimersOf(EndedBy(s, ks)))
    PROVE  EveryStateHasItsTimer'
<1> SUFFICES ASSUME NEW k \in Keys
             PROVE  /\ IsTyping(k)' =>
                        /\ states'[k].timer \in Timers
                        /\ timers'[states'[k].timer].status \in {"armed", "fired"}
                        /\ timers'[states'[k].timer].key = k
                    /\ ~IsTyping(k)' => states'[k] = NoState
  BY DEF EveryStateHasItsTimer, IsTyping
<1>1. CASE states'[k] = NoState
  BY <1>1 DEF IsTyping, NoState
<1>2. CASE states'[k] # NoState
  <2>1. /\ states'[k].timer = states[k].timer
        /\ k \in ks => states[k].sources \ {s} # {}
        /\ states'[k].sources # {} => states[k].sources # {}
        /\ k \notin ks => states'[k] = states[k]
        /\ k \in ks => states'[k].sources = states[k].sources \ {s}
    BY <1>2, WithoutFacts DEF TypeOK
  <2>2. IsTyping(k)
    BY <1>2, <2>1 DEF EveryStateHasItsTimer, IsTyping
  <2>3. k \notin EndedBy(s, ks)
    BY <2>1 DEF EndedBy
  <2>4. states[k].timer \notin TimersOf(EndedBy(s, ks))
    BY <2>2, <2>3, OwnTimers DEF EndedBy
  <2>5. states[k].timer \in Timers
    BY <2>2 DEF EveryStateHasItsTimer
  <2>6. timers'[states[k].timer] = timers[states[k].timer]
    BY <2>4, <2>5, CancelledFacts DEF TypeOK
  <2>7. IsTyping(k)'
    BY <2>1, <2>2 DEF IsTyping
  <2> QED BY <2>1, <2>2, <2>6, <2>7 DEF EveryStateHasItsTimer
<1> QED BY <1>1, <1>2

\* No typing state is ever left without a running timer of its own key.
THEOREM StatesHaveTimers == Spec => []EveryStateHasItsTimer
<1>1. Init => EveryStateHasItsTimer
  BY DEF Init, EveryStateHasItsTimer, IsTyping, NoState
<1>2. TypeOK /\ EveryStateHasItsTimer /\ [Next]_vars => EveryStateHasItsTimer'
  <2> SUFFICES ASSUME TypeOK, EveryStateHasItsTimer, [Next]_vars
               PROVE  EveryStateHasItsTimer'
    OBVIOUS
  <2>1. CASE UNCHANGED <<states, timers>>
    BY <2>1 DEF EveryStateHasItsTimer, IsTyping
  <2>2. ASSUME NEW h \in Threads, NEW s \in Sockets, NEW k \in Keys, NEW t \in Timers,
               Start(h, s, k, t)
        PROVE  EveryStateHasItsTimer'
    <3> SUFFICES ASSUME NEW j \in Keys
                 PROVE  /\ IsTyping(j)' =>
                            /\ states'[j].timer \in Timers
                            /\ timers'[states'[j].timer].status \in {"armed", "fired"}
                            /\ timers'[states'[j].timer].key = j
                        /\ ~IsTyping(j)' => states'[j] = NoState
      BY DEF EveryStateHasItsTimer, IsTyping
    <3> DEFINE left == Cancelled(timers, {states[k].timer})
    <3>1. /\ left \in [Timers -> Timer]
          /\ \A u \in Timers : u \notin {states[k].timer} => left[u] = timers[u]
      BY CancelledFacts DEF TypeOK
    <3>2. timers' = [left EXCEPT ![t] = [status |-> "armed", key |-> k]]
      BY <2>2 DEF Start
    <3> HIDE DEF left
    <3>3. CASE j = k
      <4>1. states'[k] = [sources |-> states[k].sources \cup {s}, timer |-> t]
        BY <2>2 DEF Start, TypeOK
      <4>2. timers'[t] = [status |-> "armed", key |-> k]
        BY <3>1, <3>2
      <4> QED BY <3>3, <4>1, <4>2 DEF IsTyping
    <3>4. CASE j # k
      <4>1. states'[j] = states[j]
        BY <2>2, <3>4 DEF Start, TypeOK
      <4>2. CASE IsTyping(j)
        <5>1. states[j].timer \notin {states[k].timer}
          BY <4>2, <3>4, OwnTimers DEF TimersOf
        <5>2. states[j].timer \in Timers /\ states[j].timer # t
          BY <2>2, <4>2 DEF EveryStateHasItsTimer, Start
        <5>3. timers'[states[j].timer] = timers[states[j].timer]
          BY <3>1, <3>2, <5>1, <5>2
        <5> QED BY <4>1, <4>2, <5>3 DEF EveryStateHasItsTimer, IsTyping
      <4>3. CASE ~IsTyping(j)
        BY <4>1, <4>3 DEF EveryStateHasItsTimer, IsTyping
      <4> QED BY <4>2, <4>3
    <3> QED BY <3>3, <3>4
  <2>3. ASSUME NEW h \in Threads, NEW s \in Sockets, NEW k \in Keys, Stop(h, s, k)
        PROVE  EveryStateHasItsTimer'
    BY <2>3, DiscardKeepsTimers DEF Stop
  <2>4. ASSUME NEW h \in Threads, NEW s \in Sockets, CleanupSocket(h, s)
        PROVE  EveryStateHasItsTimer'
    BY <2>4, DiscardKeepsTimers DEF CleanupSocket
  <2>5. ASSUME NEW t \in Timers, TimerStep(t)
        PROVE  EveryStateHasItsTimer'
    <3>1. CASE Fire(t)
      BY <3>1 DEF Fire, EveryStateHasItsTimer, IsTyping, TypeOK, Timer
    <3>2. CASE Expire(t)
      BY <3>2 DEF Expire, EveryStateHasItsTimer, IsTyping, TypeOK, Timer, NoState
    <3>3. CASE OnTimeout(t)
      BY <3>3 DEF OnTimeout, EveryStateHasItsTimer, IsTyping, TypeOK, Timer
    <3> QED BY <2>5, <3>1, <3>2, <3>3 DEF TimerStep
  <2> QED BY <2>1, <2>2, <2>3, <2>4, <2>5
          DEF Next, ClientStep, HandlerStep, Connect, ChangeAccess, Receive, Disconnect,
              Emit, vars
<1> QED BY <1>1, <1>2, TypeCorrect, PTL DEF Spec

-----------------------------------------------------------------------------
(* What is announced *)

Events == {"user_typing", "user_stopped_typing"}

\* Finitely many events are owed.
FewOwe ==
    \A k \in Keys : /\ \A e \in Events : IsFiniteSet(Owed(k, e))
                    /\ IsFiniteSet(OwedByTimers(k))

BInv == TypeOK /\ FewOwe /\ AnnouncementsBalance

\* A set of one more, and of one less.
LEMMA OneMore ==
    ASSUME NEW S, IsFiniteSet(S), NEW x, x \notin S
    PROVE  IsFiniteSet(S \cup {x}) /\ Cardinality(S \cup {x}) = Cardinality(S) + 1
BY FS_AddElement, Zenon

LEMMA OneLess ==
    ASSUME NEW S, IsFiniteSet(S), NEW x \in S
    PROVE  IsFiniteSet(S \ {x}) /\ Cardinality(S \ {x}) = Cardinality(S) - 1
BY FS_RemoveElement, Zenon

\* A handler that leaves the lock owes the event of the keys that changed.
LEMMA OweAdds ==
    ASSUME threads \in [Threads -> Thread], NEW h \in Threads, NEW event \in Events,
           NEW ks \in SUBSET Keys, threads[h].pc \notin Events, Owe(h, event, ks)
    PROVE  \A j \in Keys, e \in Events :
                /\ h \notin Owed(j, e)
                /\ Owed(j, e)' = IF e = event /\ j \in ks THEN Owed(j, e) \cup {h} ELSE Owed(j, e)
<1>1. /\ \A g \in Threads \ {h} : threads'[g] = threads[g]
      /\ threads'[h] = IF ks = {} THEN IdleThread ELSE [pc |-> event, socket |-> {}, keys |-> ks]
    BY DEF Owe
<1>2. \A e \in Events, j \in Keys :
            threads'[h].pc = e /\ j \in threads'[h].keys <=> e = event /\ j \in ks
    BY <1>1 DEF IdleThread, Events
<1>. QED BY <1>1, <1>2 DEF Owed

\* An event that is emitted for one key is owed to the others as before.
LEMMA OweRemoves ==
    ASSUME threads \in [Threads -> Thread], NEW h \in Threads, NEW event \in Events,
           NEW k \in Keys, threads[h].pc = event, k \in threads[h].keys,
           Owe(h, event, threads[h].keys \ {k})
    PROVE  \A j \in Keys, e \in Events :
                /\ j = k /\ e = event => h \in Owed(j, e)
                /\ Owed(j, e)' = IF e = event /\ j = k THEN Owed(j, e) \ {h} ELSE Owed(j, e)
<1>. DEFINE ks == threads[h].keys \ {k}
<1>1. /\ \A g \in Threads \ {h} : threads'[g] = threads[g]
      /\ threads'[h] = IF ks = {} THEN IdleThread ELSE [pc |-> event, socket |-> {}, keys |-> ks]
    BY DEF Owe
<1>2. \A e \in Events, j \in Keys :
            threads'[h].pc = e /\ j \in threads'[h].keys <=> e = event /\ j \in ks
    BY <1>1 DEF IdleThread, Events
<1>. QED BY <1>1, <1>2 DEF Owed

\* Cancelling timers cancels no announcement.
LEMMA CancelledOwes ==
    ASSUME NEW cs, NEW k
    PROVE  \A t \in Timers : Cancelled(timers, cs)[t].status = "expired" /\ Cancelled(timers, cs)[t].key = k
                                <=> t \in OwedByTimers(k)
<1>. SUFFICES ASSUME NEW t \in Timers
              PROVE  Cancelled(timers, cs)[t].status = "expired" /\ Cancelled(timers, cs)[t].key = k
                        <=> timers[t].status = "expired" /\ timers[t].key = k
    BY DEF OwedByTimers
<1>. QED BY DEF Cancelled

\* Discarding a socket ends exactly the states that are announced.
LEMMA WithoutEnds ==
    ASSUME NEW s \in Sockets, NEW ks \in SUBSET Keys, NEW k \in Keys,
           states' = Without(s, ks)
    PROVE  IsTyping(k)' <=> IsTyping(k) /\ k \notin EndedBy(s, ks)
BY DEF Without, EndedBy, IsTyping, NoState

\* What is owed and shown of a key changes with its state.
LEMMA Balances ==
    ASSUME BInv, shown' = shown,
           \A k \in Keys :
              \/ /\ \A e \in Events : Owed(k, e)' = Owed(k, e)
                 /\ OwedByTimers(k)' = OwedByTimers(k)
                 /\ IsTyping(k)' <=> IsTyping(k)
              \/ /\ \E h : h \notin Owed(k, "user_typing")
                            /\ Owed(k, "user_typing")' = Owed(k, "user_typing") \cup {h}
                 /\ Owed(k, "user_stopped_typing")' = Owed(k, "user_stopped_typing")
                 /\ OwedByTimers(k)' = OwedByTimers(k)
                 /\ ~IsTyping(k) /\ IsTyping(k)'
              \/ /\ Owed(k, "user_typing")' = Owed(k, "user_typing")
                 /\ \E h : h \notin Owed(k, "user_stopped_typing")
                            /\ Owed(k, "user_stopped_typing")' = Owed(k, "user_stopped_typing") \cup {h}
                 /\ OwedByTimers(k)' = OwedByTimers(k)
                 /\ IsTyping(k) /\ ~IsTyping(k)'
              \/ /\ \A e \in Events : Owed(k, e)' = Owed(k, e)
                 /\ \E t : t \notin OwedByTimers(k) /\ OwedByTimers(k)' = OwedByTimers(k) \cup {t}
                 /\ IsTyping(k) /\ ~IsTyping(k)'
    PROVE  FewOwe' /\ AnnouncementsBalance'
<1>. SUFFICES ASSUME NEW k \in Keys
              PROVE  /\ \A e \in Events : IsFiniteSet(Owed(k, e)')
                     /\ IsFiniteSet(OwedByTimers(k)')
                     /\ shown[k] + Cardinality(Owed(k, "user_typing")')
                                 - Cardinality(Owed(k, "user_stopped_typing")')
                                 - Cardinality(OwedByTimers(k)')
                          = IF IsTyping(k)' THEN 1 ELSE 0
    BY DEF FewOwe, AnnouncementsBalance
<1>. DEFINE begun == Owed(k, "user_typing")
            ended == Owed(k, "user_stopped_typing")
            late  == OwedByTimers(k)
<1>1. /\ IsFiniteSet(begun) /\ IsFiniteSet(ended) /\ IsFiniteSet(late)
      /\ shown[k] \in Int
      /\ shown[k] + Cardinality(begun) - Cardinality(ended) - Cardinality(late)
            = IF IsTyping(k) THEN 1 ELSE 0
    BY DEF BInv, FewOwe, AnnouncementsBalance, TypeOK, Events
<1>2. Cardinality(begun) \in Nat /\ Cardinality(ended) \in Nat /\ Cardinality(late) \in Nat
    BY <1>1, FS_CardinalityType
<1>3. /\ \A h : h \notin begun => IsFiniteSet(begun \cup {h})
                                   /\ Cardinality(begun \cup {h}) = Cardinality(begun) + 1
      /\ \A h : h \notin ended => IsFiniteSet(ended \cup {h})
                                   /\ Cardinality(ended \cup {h}) = Cardinality(ended) + 1
      /\ \A t : t \notin late => IsFiniteSet(late \cup {t})
                                   /\ Cardinality(late \cup {t}) = Cardinality(late) + 1
    BY <1>1, OneMore
<1>4. \/ begun' = begun /\ ended' = ended /\ late' = late /\ (IsTyping(k)' <=> IsTyping(k))
      \/ /\ \E h : h \notin begun /\ begun' = begun \cup {h}
         /\ ended' = ended /\ late' = late /\ ~IsTyping(k) /\ IsTyping(k)'
      \/ /\ \E h : h \notin ended /\ ended' = ended \cup {h}
         /\ begun' = begun /\ late' = late /\ IsTyping(k) /\ ~IsTyping(k)'
      \/ /\ \E t : t \notin late /\ late' = late \cup {t}
         /\ begun' = begun /\ ended' = ended /\ IsTyping(k) /\ ~IsTyping(k)'
    BY DEF Events
<1>. DEFINE on  == IF IsTyping(k) THEN 1 ELSE 0
            on1 == IF IsTyping(k)' THEN 1 ELSE 0
<1>5. /\ IsTyping(k) => on = 1
      /\ ~IsTyping(k) => on = 0
      /\ IsTyping(k)' => on1 = 1
      /\ ~IsTyping(k)' => on1 = 0
      /\ (IsTyping(k)' <=> IsTyping(k)) => on1 = on
    BY Zenon
<1>6. IsFiniteSet(begun') /\ IsFiniteSet(ended') /\ IsFiniteSet(late')
    <2>. HIDE DEF begun, ended, late, on, on1
    <2>. QED BY <1>1, <1>3, <1>4, Zenon
<1>7. \/ /\ Cardinality(begun') = Cardinality(begun) /\ Cardinality(ended') = Cardinality(ended)
         /\ Cardinality(late') = Cardinality(late) /\ on1 = on
      \/ /\ Cardinality(begun') = Cardinality(begun) + 1 /\ Cardinality(ended') = Cardinality(ended)
         /\ Cardinality(late') = Cardinality(late) /\ on = 0 /\ on1 = 1
      \/ /\ Cardinality(begun') = Cardinality(begun) /\ Cardinality(ended') = Cardinality(ended) + 1
         /\ Cardinality(late') = Cardinality(late) /\ on = 1 /\ on1 = 0
      \/ /\ Cardinality(begun') = Cardinality(begun) /\ Cardinality(ended') = Cardinality(ended)
         /\ Cardinality(late') = Cardinality(late) + 1 /\ on = 1 /\ on1 = 0
    <2>. HIDE DEF begun, ended, late, on, on1
    <2>. QED BY <1>3, <1>4, <1>5, Zenon
<1>8. shown[k] + Cardinality(begun) - Cardinality(ended) - Cardinality(late) = on
    BY <1>1
<1>9. shown[k] + Cardinality(begun') - Cardinality(ended') - Cardinality(late') = on1
    <2>. HIDE DEF begun, ended, late, on, on1
    <2>. QED BY <1>1, <1>2, <1>7, <1>8
<1>. QED BY <1>6, <1>9 DEF Events

\* An event that was owed is emitted.
LEMMA Emits ==
    ASSUME BInv, NEW h \in Threads, NEW k \in Keys, Emit(h, k)
    PROVE  FewOwe' /\ AnnouncementsBalance'
<1>0. threads \in [Threads -> Thread] /\ shown \in [Keys -> Int] BY DEF BInv, TypeOK
<1>1. PICK event \in Events : event = threads[h].pc BY DEF Emit, Events
<1>2. /\ k \in threads[h].keys /\ Owe(h, event, threads[h].keys \ {k})
      /\ shown' = [shown EXCEPT ![k] = IF event = "user_typing" THEN @ + 1 ELSE @ - 1]
      /\ states' = states /\ timers' = timers
    BY <1>1 DEF Emit
<1>3. \A j \in Keys, e \in Events :
            /\ j = k /\ e = event => h \in Owed(j, e)
            /\ Owed(j, e)' = IF e = event /\ j = k THEN Owed(j, e) \ {h} ELSE Owed(j, e)
    BY <1>0, <1>1, <1>2, OweRemoves
<1>4. \A j \in Keys : OwedByTimers(j)' = OwedByTimers(j) /\ (IsTyping(j)' <=> IsTyping(j))
    BY <1>2 DEF OwedByTimers, IsTyping
<1>. SUFFICES ASSUME NEW j \in Keys
              PROVE  /\ \A e \in Events : IsFiniteSet(Owed(j, e)')
                     /\ IsFiniteSet(OwedByTimers(j)')
                     /\ shown'[j] + Cardinality(Owed(j, "user_typing")')
                                  - Cardinality(Owed(j, "user_stopped_typing")')
                                  - Cardinality(OwedByTimers(j)')
                          = IF IsTyping(j)' THEN 1 ELSE 0
    BY DEF FewOwe, AnnouncementsBalance
<1>. DEFINE on == IF IsTyping(j) THEN 1 ELSE 0
<1>5. /\ \A e \in Events : IsFiniteSet(Owed(j, e))
      /\ IsFiniteSet(OwedByTimers(j))
      /\ shown[j] \in Int
      /\ shown[j] + Cardinality(Owed(j, "user_typing")) - Cardinality(Owed(j, "user_stopped_typing"))
                  - Cardinality(OwedByTimers(j)) = on
    BY <1>0 DEF BInv, FewOwe, AnnouncementsBalance
<1>8. on = IF IsTyping(j)' THEN 1 ELSE 0 BY <1>4, Zenon
<1>. HIDE DEF on
<1>6. CASE j # k BY <1>0, <1>2, <1>3, <1>4, <1>5, <1>6, <1>8 DEF Events
<1>7. CASE j = k
    <2>1. IsFiniteSet(Owed(k, event) \ {h})
          /\ Cardinality(Owed(k, event) \ {h}) = Cardinality(Owed(k, event)) - 1
        BY <1>3, <1>5, <1>7, OneLess
    <2>2. /\ Cardinality(Owed(k, "user_typing")) \in Nat
          /\ Cardinality(Owed(k, "user_stopped_typing")) \in Nat
          /\ Cardinality(OwedByTimers(k)) \in Nat
        BY <1>5, <1>7, FS_CardinalityType DEF Events
    <2>3. shown'[k] = IF event = "user_typing" THEN shown[k] + 1 ELSE shown[k] - 1
        BY <1>0, <1>2
    <2>4. CASE event = "user_typing"
        <3>1. Owed(k, "user_typing")' = Owed(k, "user_typing") \ {h}
              /\ Owed(k, "user_stopped_typing")' = Owed(k, "user_stopped_typing")
            BY <1>3, <2>4 DEF Events
        <3>2. \A e \in Events : IsFiniteSet(Owed(j, e)')
            BY <1>5, <1>7, <2>1, <2>4, <3>1 DEF Events
        <3>3. /\ Cardinality(Owed(k, "user_typing")') = Cardinality(Owed(k, "user_typing")) - 1
              /\ Cardinality(Owed(k, "user_stopped_typing")') = Cardinality(Owed(k, "user_stopped_typing"))
              /\ Cardinality(OwedByTimers(k)') = Cardinality(OwedByTimers(k))
            BY <1>4, <2>1, <2>4, <3>1
        <3>4. shown'[k] = shown[k] + 1 BY <2>3, <2>4
        <3>. QED BY <1>4, <1>5, <1>7, <1>8, <2>2, <3>2, <3>3, <3>4
    <2>5. CASE event = "user_stopped_typing"
        <3>1. Owed(k, "user_stopped_typing")' = Owed(k, "user_stopped_typing") \ {h}
              /\ Owed(k, "user_typing")' = Owed(k, "user_typing")
            BY <1>3, <2>5 DEF Events
        <3>2. \A e \in Events : IsFiniteSet(Owed(j, e)')
            BY <1>5, <1>7, <2>1, <2>5, <3>1 DEF Events
        <3>3. /\ Cardinality(Owed(k, "user_stopped_typing")') = Cardinality(Owed(k, "user_stopped_typing")) - 1
              /\ Cardinality(Owed(k, "user_typing")') = Cardinality(Owed(k, "user_typing"))
              /\ Cardinality(OwedByTimers(k)') = Cardinality(OwedByTimers(k))
            BY <1>4, <2>1, <2>5, <3>1
        <3>4. shown'[k] = shown[k] - 1 BY <2>3, <2>5
        <3>. QED BY <1>4, <1>5, <1>7, <1>8, <2>2, <3>2, <3>3, <3>4
    <2>. QED BY <2>4, <2>5 DEF Events
<1>. QED BY <1>6, <1>7

\* on_timeout emits what its timer owed.
LEMMA TimesOut ==
    ASSUME BInv, NEW t \in Timers, OnTimeout(t)
    PROVE  FewOwe' /\ AnnouncementsBalance'
<1>0. timers \in [Timers -> Timer] /\ shown \in [Keys -> Int] BY DEF BInv, TypeOK
<1>1. PICK k \in Keys : k = timers[t].key BY <1>0 DEF Timer
<1>2. /\ shown' = [shown EXCEPT ![k] = @ - 1]
      /\ timers' = [timers EXCEPT ![t].status = "idle"]
      /\ states' = states /\ threads' = threads
      /\ timers[t].status = "expired"
    BY <1>1 DEF OnTimeout
<1>3. \A j \in Keys : /\ \A e \in Events : Owed(j, e)' = Owed(j, e)
                      /\ IsTyping(j)' <=> IsTyping(j)
    BY <1>2 DEF Owed, IsTyping
<1>4. /\ t \in OwedByTimers(k)
      /\ \A j \in Keys : OwedByTimers(j)' = IF j = k THEN OwedByTimers(j) \ {t} ELSE OwedByTimers(j)
    BY <1>0, <1>1, <1>2 DEF OwedByTimers
<1>. SUFFICES ASSUME NEW j \in Keys
              PROVE  /\ \A e \in Events : IsFiniteSet(Owed(j, e)')
                     /\ IsFiniteSet(OwedByTimers(j)')
                     /\ shown'[j] + Cardinality(Owed(j, "user_typing")')
                                  - Cardinality(Owed(j, "user_stopped_typing")')
                                  - Cardinality(OwedByTimers(j)')
                          = IF IsTyping(j)' THEN 1 ELSE 0
    BY DEF FewOwe, AnnouncementsBalance
<1>. DEFINE on == IF IsTyping(j) THEN 1 ELSE 0
<1>5. /\ \A e \in Events : IsFiniteSet(Owed(j, e))
      /\ IsFiniteSet(OwedByTimers(j))
      /\ shown[j] \in Int
      /\ shown[j] + Cardinality(Owed(j, "user_typing")) - Cardinality(Owed(j, "user_stopped_typing"))
                  - Cardinality(OwedByTimers(j)) = on
    BY <1>0 DEF BInv, FewOwe, AnnouncementsBalance
<1>8. on = IF IsTyping(j)' THEN 1 ELSE 0 BY <1>3, Zenon
<1>. HIDE DEF on
<1>6. CASE j # k BY <1>0, <1>2, <1>3, <1>4, <1>5, <1>6, <1>8 DEF Events
<1>7. CASE j = k
    <2>1. IsFiniteSet(OwedByTimers(k) \ {t})
          /\ Cardinality(OwedByTimers(k) \ {t}) = Cardinality(OwedByTimers(k)) - 1
        BY <1>4, <1>5, <1>7, OneLess
    <2>2. /\ Cardinality(Owed(k, "user_typing")) \in Nat
          /\ Cardinality(Owed(k, "user_stopped_typing")) \in Nat
          /\ Cardinality(OwedByTimers(k)) \in Nat
        BY <1>5, <1>7, FS_CardinalityType DEF Events
    <2>3. shown'[k] = shown[k] - 1 BY <1>0, <1>2
    <2>4. \A e \in Events : IsFiniteSet(Owed(j, e)') BY <1>3, <1>5
    <2>5. /\ Cardinality(Owed(k, "user_typing")') = Cardinality(Owed(k, "user_typing"))
          /\ Cardinality(Owed(k, "user_stopped_typing")') = Cardinality(Owed(k, "user_stopped_typing"))
          /\ IsFiniteSet(OwedByTimers(k)')
          /\ Cardinality(OwedByTimers(k)') = Cardinality(OwedByTimers(k)) - 1
        BY <1>3, <1>4, <2>1 DEF Events
    <2>6. shown'[k] + Cardinality(Owed(k, "user_typing")')
                    - Cardinality(Owed(k, "user_stopped_typing")')
                    - Cardinality(OwedByTimers(k)') = on
        BY <1>5, <1>7, <2>2, <2>3, <2>5
    <2>. QED BY <1>7, <1>8, <2>4, <2>5, <2>6
<1>. QED BY <1>6, <1>7

\* Beginning to type owes the beginning, unless another device has begun.
LEMMA StartBalances ==
    ASSUME BInv, NEW h \in Threads, NEW s \in Sockets, NEW k \in Keys, NEW t \in Timers,
           Start(h, s, k, t)
    PROVE  FewOwe' /\ AnnouncementsBalance'
<1>0. TypeOK BY DEF BInv
<1>. DEFINE ks   == IF IsTyping(k) THEN {} ELSE {k}
            left == Cancelled(timers, {states[k].timer})
<1>1. /\ threads[h].pc = "start" /\ timers[t].status = "idle" /\ shown' = shown
      /\ states' = [states EXCEPT ![k] = [sources |-> @.sources \cup {s}, timer |-> t]]
      /\ timers' = [left EXCEPT ![t] = [status |-> "armed", key |-> k]]
      /\ Owe(h, "user_typing", ks)
    BY DEF Start
<1>2. \A j \in Keys, e \in Events :
            /\ h \notin Owed(j, e)
            /\ Owed(j, e)' = IF e = "user_typing" /\ j \in ks THEN Owed(j, e) \cup {h} ELSE Owed(j, e)
    <2>1. ks \in SUBSET Keys /\ threads[h].pc \notin Events /\ "user_typing" \in Events
        BY <1>1 DEF Events
    <2>. HIDE DEF ks
    <2>. QED BY <1>0, <1>1, <2>1, OweAdds DEF TypeOK
<1>3. \A j \in Keys : OwedByTimers(j)' = OwedByTimers(j)
    <2>. SUFFICES ASSUME NEW j \in Keys, NEW u \in Timers
                  PROVE  u \in OwedByTimers(j)' <=> u \in OwedByTimers(j)
        BY DEF OwedByTimers
    <2>1. left \in [Timers -> Timer]
          /\ (left[u].status = "expired" /\ left[u].key = j <=> u \in OwedByTimers(j))
        BY <1>0, CancelledFacts, CancelledOwes DEF TypeOK
    <2>. HIDE DEF left
    <2>2. CASE u = t BY <1>1, <2>1, <2>2 DEF OwedByTimers
    <2>3. CASE u # t BY <1>1, <2>1, <2>3 DEF OwedByTimers
    <2>. QED BY <2>2, <2>3
<1>4. \A j \in Keys : IsTyping(j)' <=> IsTyping(j) \/ j = k
    BY <1>0, <1>1 DEF TypeOK, IsTyping
<1>. QED BY <1>1, <1>2, <1>3, <1>4, Balances DEF Events

\* Discarding a socket owes the end of every state it ends.
LEMMA DiscardBalances ==
    ASSUME BInv, NEW h \in Threads, NEW s \in Sockets, NEW ks \in SUBSET Keys,
           threads[h].pc \notin Events, shown' = shown,
           states' = Without(s, ks),
           timers' = Cancelled(timers, TimersOf(EndedBy(s, ks))),
           Owe(h, "user_stopped_typing", EndedBy(s, ks))
    PROVE  FewOwe' /\ AnnouncementsBalance'
<1>0. TypeOK BY DEF BInv
<1>1. EndedBy(s, ks) \in SUBSET Keys /\ \A j \in EndedBy(s, ks) : IsTyping(j)
    BY DEF EndedBy
<1>2. \A j \in Keys, e \in Events :
            /\ h \notin Owed(j, e)
            /\ Owed(j, e)' = IF e = "user_stopped_typing" /\ j \in EndedBy(s, ks)
                             THEN Owed(j, e) \cup {h} ELSE Owed(j, e)
    BY <1>0, <1>1, OweAdds DEF TypeOK, Events
<1>3. \A j \in Keys : OwedByTimers(j)' = OwedByTimers(j)
    BY CancelledOwes DEF OwedByTimers
<1>4. \A j \in Keys : IsTyping(j)' <=> IsTyping(j) /\ j \notin EndedBy(s, ks)
    BY WithoutEnds
<1>. QED BY <1>1, <1>2, <1>3, <1>4, Balances DEF Events

\* A timeout that pops a state owes its end.
LEMMA ExpireBalances ==
    ASSUME BInv, NEW t \in Timers, Expire(t)
    PROVE  FewOwe' /\ AnnouncementsBalance'
<1>0. TypeOK BY DEF BInv
<1>1. PICK k \in Keys : k = timers[t].key BY <1>0 DEF TypeOK, Timer
<1>2. /\ timers[t].status = "fired" /\ shown' = shown /\ threads' = threads
      /\ states' = [states EXCEPT ![k] = NoState]
      /\ timers' = [timers EXCEPT ![t].status = IF IsTyping(k) THEN "expired" ELSE "idle"]
    BY <1>1 DEF Expire
<1>3. \A j \in Keys : \A e \in Events : Owed(j, e)' = Owed(j, e) BY <1>2 DEF Owed
<1>4. \A j \in Keys : IsTyping(j)' <=> IsTyping(j) /\ j # k
    BY <1>0, <1>2 DEF TypeOK, IsTyping, NoState
<1>5. \A j \in Keys :
            /\ t \notin OwedByTimers(j)
            /\ OwedByTimers(j)' = IF j = k /\ IsTyping(k) THEN OwedByTimers(j) \cup {t} ELSE OwedByTimers(j)
    <2>1. timers'[t].key = k /\ (timers'[t].status = "expired" <=> IsTyping(k))
        BY <1>0, <1>1, <1>2 DEF TypeOK, Timer
    <2>2. \A u \in Timers \ {t} : timers'[u] = timers[u] BY <1>2
    <2>. QED BY <1>2, <2>1, <2>2 DEF OwedByTimers
<1>. QED BY <1>2, <1>3, <1>4, <1>5, Balances DEF Events

\* The other steps neither owe nor emit.
LEMMA OthersBalance ==
    ASSUME BInv, UNCHANGED <<states, shown>>,
           \/ \E t \in Timers : Fire(t)
           \/ /\ timers' = timers
              /\ \/ threads' = threads
                 \/ \E h \in Threads : \E pc \in {"start", "stop", "cleanup"} : \E w, ks :
                        /\ threads[h].pc = "idle"
                        /\ threads' = [threads EXCEPT ![h] = [pc |-> pc, socket |-> w, keys |-> ks]]
    PROVE  FewOwe' /\ AnnouncementsBalance'
<1>0. TypeOK BY DEF BInv
<1>1. \A j \in Keys : \A e \in Events : Owed(j, e)' = Owed(j, e)
    <2>1. CASE threads' = threads BY <2>1 DEF Owed
    <2>2. ASSUME NEW h \in Threads, NEW pc \in {"start", "stop", "cleanup"}, NEW w, NEW ks,
                 threads[h].pc = "idle",
                 threads' = [threads EXCEPT ![h] = [pc |-> pc, socket |-> w, keys |-> ks]]
          PROVE  \A j \in Keys : \A e \in Events : Owed(j, e)' = Owed(j, e)
        BY <1>0, <2>2 DEF Owed, Events, TypeOK
    <2>. QED BY <2>1, <2>2 DEF Fire
<1>2. \A j \in Keys : OwedByTimers(j)' = OwedByTimers(j)
    <2>1. CASE timers' = timers BY <2>1 DEF OwedByTimers
    <2>2. ASSUME NEW t \in Timers, Fire(t)
          PROVE  \A j \in Keys : OwedByTimers(j)' = OwedByTimers(j)
        BY <1>0, <2>2 DEF OwedByTimers, Fire, TypeOK, Timer
    <2>. QED BY <2>1, <2>2
<1>3. \A j \in Keys : IsTyping(j)' <=> IsTyping(j) BY DEF IsTyping
<1>. QED BY <1>1, <1>2, <1>3, Balances

\* No end of typing is announced twice or forgotten: what the room has been told and
\* what is still owed to it add up to the manager's state, whichever of typing_stop,
\* the disconnect cleanup and the timeout wins.
THEOREM AnnouncementsAddUp == Spec => []AnnouncementsBalance
<1>1. Init => FewOwe /\ AnnouncementsBalance
  <2>. SUFFICES ASSUME Init PROVE FewOwe /\ AnnouncementsBalance OBVIOUS
  <2>1. \A k \in Keys : /\ \A e \in Events : Owed(k, e) = {}
                        /\ OwedByTimers(k) = {}
                        /\ ~IsTyping(k) /\ shown[k] = 0
    BY DEF Init, Owed, OwedByTimers, IsTyping, NoState, IdleThread, Events
  <2>2. IsFiniteSet({}) /\ Cardinality({}) = 0 BY FS_EmptySet
  <2>3. \A k \in Keys : (IF IsTyping(k) THEN 1 ELSE 0) = 0 BY <2>1, Zenon
  <2>4. FewOwe BY <2>1, <2>2 DEF FewOwe
  <2>5. AnnouncementsBalance
    <3>. SUFFICES ASSUME NEW k \in Keys
                  PROVE  shown[k] + Cardinality(Owed(k, "user_typing"))
                                  - Cardinality(Owed(k, "user_stopped_typing"))
                                  - Cardinality(OwedByTimers(k))
                            = IF IsTyping(k) THEN 1 ELSE 0
      BY DEF AnnouncementsBalance
    <3>1. /\ Cardinality(Owed(k, "user_typing")) = 0
          /\ Cardinality(Owed(k, "user_stopped_typing")) = 0
          /\ Cardinality(OwedByTimers(k)) = 0
      BY <2>1, <2>2 DEF Events
    <3>2. shown[k] = 0 BY <2>1
    <3>3. shown[k] + Cardinality(Owed(k, "user_typing"))
                   - Cardinality(Owed(k, "user_stopped_typing"))
                   - Cardinality(OwedByTimers(k)) = 0
      BY <3>1, <3>2
    <3>. QED BY <2>3, <3>3, Zenon
  <2>. QED BY <2>4, <2>5
<1>2. TypeOK /\ FewOwe /\ AnnouncementsBalance /\ [Next]_vars => FewOwe' /\ AnnouncementsBalance'
  <2>. SUFFICES ASSUME BInv, [Next]_vars
                PROVE  FewOwe' /\ AnnouncementsBalance'
    BY DEF BInv
  <2>1. ASSUME NEW h \in Threads, NEW s \in Sockets, NEW k \in Keys, NEW t \in Timers,
               Start(h, s, k, t)
        PROVE  FewOwe' /\ AnnouncementsBalance'
    BY <2>1, StartBalances
  <2>2. ASSUME NEW h \in Threads, NEW s \in Sockets, NEW k \in Keys, Stop(h, s, k)
        PROVE  FewOwe' /\ AnnouncementsBalance'
    BY <2>2, DiscardBalances DEF Stop, Events
  <2>3. ASSUME NEW h \in Threads, NEW s \in Sockets, CleanupSocket(h, s)
        PROVE  FewOwe' /\ AnnouncementsBalance'
    BY <2>3, DiscardBalances DEF CleanupSocket, Events
  <2>4. ASSUME NEW h \in Threads, NEW k \in Keys, Emit(h, k)
        PROVE  FewOwe' /\ AnnouncementsBalance'
    BY <2>4, Emits
  <2>5. ASSUME NEW t \in Timers, TimerStep(t)
        PROVE  FewOwe' /\ AnnouncementsBalance'
    <3>1. CASE Fire(t) BY <3>1, OthersBalance DEF Fire
    <3>. QED BY <2>5, <3>1, ExpireBalances, TimesOut DEF TimerStep
  <2>6. CASE ClientStep
    <3>1. ASSUME NEW h \in Threads, NEW s \in Sockets, NEW k \in Keys,
                 NEW op \in {"start", "stop"}, Receive(h, s, k, op)
          PROVE  FewOwe' /\ AnnouncementsBalance'
      BY <3>1, OthersBalance DEF Receive
    <3>2. ASSUME NEW h \in Threads, NEW s \in Sockets, Disconnect(h, s)
          PROVE  FewOwe' /\ AnnouncementsBalance'
      BY <3>2, OthersBalance DEF Disconnect
    <3>3. CASE \/ \E s \in Sockets : Connect(s)
               \/ \E k \in Keys : ChangeAccess(k)
      BY <3>3, OthersBalance DEF Connect, ChangeAccess
    <3>. QED BY <2>6, <3>1, <3>2, <3>3 DEF ClientStep
  <2>7. CASE UNCHANGED vars
    BY <2>7, OthersBalance DEF vars
  <2>. QED BY <2>1, <2>2, <2>3, <2>4, <2>5, <2>6, <2>7 DEF Next, HandlerStep
<1>. QED BY <1>1, <1>2, TypeCorrect, PTL DEF Spec
-----------------------------------------------------------------------------
(***************************************************************************)
(* Notifications.  The invariant adds to the properties what a request     *)
(* knows: whom it has checked, which rows it has committed for those it is *)
(* still to tell, and that the count it holds is right unless another      *)
(* request has committed since.                                            *)
(***************************************************************************)

\* What was sent about a notification is in the table.
EventsFollowTheTable ==
    \A n \in Notifications :
        /\ <<"created", n>> \in told => n \in stored
        /\ <<"read", n>> \in told => n \in read
        /\ <<"deleted", n>> \in told => n \in deleted

OnlyStored == read \cup deleted \subseteq stored

\* What a request knows: of its own course, of the preferences, of the rows it has
\* committed, and of the count it has read.
Shaped(q) ==
    /\ q.pc = "check" => q.op = "create" /\ q.to \cap q.off = {}
    /\ q.pc = "commit" => q.op # "create" /\ q.todo = {}
    /\ q.op = "prefer" => q.pc = "commit"
    /\ q.pc \in {"count", "emit"} => \E u \in q.todo : q.serving = {u}
Asked(q) == \A u \in q.off : prefs[u] = "off"
Backed(q) ==
    /\ q.op = "create" /\ q.pc # "check" => q.id \X q.todo \subseteq stored
    /\ q.op \in {"read", "delete"} => q.id \X q.user \subseteq stored
    /\ q.op = "read" /\ q.pc # "commit" => q.id \X q.todo \subseteq read
    /\ q.op = "delete" /\ q.pc # "commit" => q.id \X q.todo \subseteq deleted
Counted(q) == q.pc = "emit" /\ ~q.overtaken => \A u \in q.serving : q.count = count_unread(u)
Knows(q) == Shaped(q) /\ Asked(q) /\ Backed(q) /\ Counted(q)

RequestsKnow == \A r \in Requests : requests[r] # NoRequest => Knows(requests[r])
NInv == NotificationsTypeOK /\ OnlyStored /\ EventsFollowTheTable /\ RequestsKnow /\ BadgeIsRight

\* A user who is still to be sent something by a request.
Owes(q, u) == q # NoRequest /\ u \in q.todo /\ q.pc # "check"

LEMMA PendingIsOwed == \A u : Pending(u) <=> \E r \in Requests : Owes(requests[r], u)
BY DEF Pending, Owes, Busy, At

LEMMA IdleOrNot ==
    /\ NoRequest.pc = "idle"
    /\ \A q \in Request : q # NoRequest /\ q.pc # "idle"
BY DEF Request, NoRequest

LEMMA AtRequest ==
    ASSUME NotificationsTypeOK, NEW r \in Requests, requests[r].pc # "idle"
    PROVE  requests[r] # NoRequest /\ requests[r] \in Request
BY IdleOrNot DEF NotificationsTypeOK

\* A user has at most one notification for each message or reaction.
LEMMA UnreadCounts ==
    ASSUME NotificationsTypeOK, NEW u \in Recipients
    PROVE  count_unread(u) \in Counts
<1>. DEFINE id == [n \in Unread(u) |-> n[1]]
<1>1. \A n \in Unread(u) : n[1] \in Ids /\ n = <<n[1], u>>
    BY DEF Unread, NotificationsTypeOK, Notifications
<1>2. id \in Injection(Unread(u), Ids)
    <2>1. \A n, m \in Unread(u) : id[n] = id[m] => n = m BY <1>1
    <2>. QED BY <1>1, <2>1 DEF Injection, IsInjective
<1>. HIDE DEF id
<1>3. IsFiniteSet(Unread(u)) /\ Cardinality(Unread(u)) <= Cardinality(Ids)
    BY <1>2, FS_Injection, NotificationsAssumption
<1>4. Cardinality(Ids) \in Nat /\ Cardinality(Unread(u)) \in Nat
    BY <1>3, FS_CardinalityType, NotificationsAssumption
<1>. QED BY <1>3, <1>4 DEF count_unread, Counts

\* The step that makes q of request r: whoever q owes nothing has been sent the right
\* count, or keeps the one he had and was not owed another.
Settles(r, q) ==
    \A u \in Recipients \ unsure' :
        \/ Owes(q, u)
        \/ badge'[u] = count_unread(u)
        \/ u \notin unsure /\ badge'[u] = badge[u] /\ ~Owes(requests[r], u)

\* A request takes a step by itself: the tables stay as they are.
LEMMA Moves ==
    ASSUME NInv, NEW r \in Requests, NEW q \in Request \cup {NoRequest},
           requests' = [requests EXCEPT ![r] = q],
           UNCHANGED <<rows, prefs>>,
           q # NoRequest => Knows(q),
           told' \subseteq Kinds \X Notifications, EventsFollowTheTable',
           badge' \in [Recipients -> Counts], unsure' \subseteq Recipients,
           Settles(r, q)
    PROVE  NInv'
<1>0. NotificationsTypeOK BY DEF NInv
<1>1. /\ requests' \in [Requests -> Request \cup {NoRequest}]
      /\ requests'[r] = q
      /\ \A p \in Requests \ {r} : requests'[p] = requests[p]
    BY <1>0 DEF NotificationsTypeOK
<1>2. NotificationsTypeOK' BY <1>0, <1>1 DEF NotificationsTypeOK, rows
<1>3. OnlyStored' BY DEF NInv, OnlyStored, rows
<1>4. \A u \in Recipients : count_unread(u)' = count_unread(u)
    BY DEF count_unread, Unread, rows
<1>5. RequestsKnow'
    <2>. SUFFICES ASSUME NEW p \in Requests, requests'[p] # NoRequest PROVE Knows(requests[p])'
        BY DEF RequestsKnow
    <2>1. PICK s : s = requests'[p] OBVIOUS
    <2>2. Knows(s) BY <1>1, <2>1 DEF NInv, RequestsKnow
    <2>3. s \in Request BY <1>1, <2>1
    <2>4. Counted(s)' BY <1>4, <2>2, <2>3 DEF Knows, Counted, Request
    <2>5. Asked(s)' /\ Backed(s)' /\ Shaped(s)'
        BY <2>2 DEF Knows, Asked, Backed, Shaped, rows
    <2>. QED BY <2>1, <2>4, <2>5 DEF Knows
<1>6. BadgeIsRight'
    <2>. SUFFICES ASSUME NEW u \in Recipients \ unsure', ~Pending(u)'
                  PROVE  badge'[u] = count_unread(u)'
        BY DEF BadgeIsRight
    <2>1. \A p \in Requests : ~Owes(requests'[p], u) BY DEF Pending, Owes, Busy, At
    <2>2. ~Owes(q, u) BY <1>1, <2>1
    <2>3. CASE u \notin unsure /\ badge'[u] = badge[u] /\ ~Owes(requests[r], u)
        <3>1. \A p \in Requests : ~Owes(requests[p], u) BY <1>1, <2>1, <2>3
        <3>2. badge[u] = count_unread(u)
            BY <2>3, <3>1, PendingIsOwed DEF NInv, BadgeIsRight
        <3>. QED BY <1>4, <2>3, <3>2
    <2>. QED BY <1>4, <2>2, <2>3 DEF Settles
<1>. QED BY <1>2, <1>3, <1>5, <1>6 DEF NInv

\* The five requests begin with what they have loaded, and owe nothing yet.
LEMMA Begins ==
    ASSUME NInv, NEW r \in Requests,
           \/ \E id \in Ids :
                \/ \E recipients \in SUBSET Recipients : BeginCreate(r, id, recipients)
                \/ \E u \in Recipients : BeginRead(r, id, u) \/ BeginDelete(r, id, u)
           \/ \E u \in Recipients :
                BeginReadAll(r, u) \/ \E wanted \in {"on", "off"} : BeginPrefer(r, u, wanted)
    PROVE  NInv'
<1>0. NotificationsTypeOK /\ OnlyStored BY DEF NInv
<1>1. 0 \in Counts BY NotificationsAssumption, FS_CardinalityType DEF Counts
<1>2. \A v \in Recipients : prefs[v] \in {"default", "on", "off"} BY <1>0 DEF NotificationsTypeOK
<1>. DEFINE Begun(q) == /\ requests[r] = NoRequest /\ requests' = [requests EXCEPT ![r] = q]
                        /\ UNCHANGED <<rows, prefs, told, badge, unsure>>
                        /\ Knows(q)
<1>3. PICK q \in Request : Begun(q)
    <2>1. ASSUME NEW id \in Ids, NEW recipients \in SUBSET Recipients, BeginCreate(r, id, recipients)
          PROVE  \E q \in Request : Begun(q)
        <3>. DEFINE q == NewRequest("create", "check", {}, {id}, recipients)
        <3>1. q \in Request BY <1>1 DEF Request, NewRequest
        <3>2. Knows(q) BY DEF NewRequest, Knows, Shaped, Asked, Backed, Counted
        <3>. QED BY <2>1, <3>1, <3>2 DEF BeginCreate, Begin
    <2>2. ASSUME NEW id \in Ids, NEW u \in Recipients, BeginRead(r, id, u)
          PROVE  \E q \in Request : Begun(q)
        <3>. DEFINE q == NewRequest("read", "commit", {u}, {id}, {})
        <3>1. q \in Request BY <1>1 DEF Request, NewRequest
        <3>2. Knows(q) BY <2>2 DEF NewRequest, Knows, Shaped, Asked, Backed, Counted, BeginRead
        <3>. QED BY <2>2, <3>1, <3>2 DEF BeginRead, Begin
    <2>3. ASSUME NEW id \in Ids, NEW u \in Recipients, BeginDelete(r, id, u)
          PROVE  \E q \in Request : Begun(q)
        <3>. DEFINE q == NewRequest("delete", "commit", {u}, {id}, {})
        <3>1. q \in Request BY <1>1 DEF Request, NewRequest
        <3>2. Knows(q) BY <2>3 DEF NewRequest, Knows, Shaped, Asked, Backed, Counted, BeginDelete
        <3>. QED BY <2>3, <3>1, <3>2 DEF BeginDelete, Begin
    <2>4. ASSUME NEW u \in Recipients, BeginReadAll(r, u)
          PROVE  \E q \in Request : Begun(q)
        <3>. DEFINE q == NewRequest("read_all", "commit", {u}, {}, {})
        <3>1. q \in Request BY <1>1 DEF Request, NewRequest
        <3>2. Knows(q) BY DEF NewRequest, Knows, Shaped, Asked, Backed, Counted
        <3>. QED BY <2>4, <3>1, <3>2 DEF BeginReadAll, Begin
    <2>5. ASSUME NEW u \in Recipients, NEW wanted \in {"on", "off"}, BeginPrefer(r, u, wanted)
          PROVE  \E q \in Request : Begun(q)
        <3>. DEFINE q == [NewRequest("prefer", "commit", {u}, {}, {})
                          EXCEPT !.found = prefs[u], !.wanted = wanted]
        <3>1. q \in Request BY <1>1, <1>2 DEF Request, NewRequest
        <3>2. Knows(q) BY DEF NewRequest, Knows, Shaped, Asked, Backed, Counted
        <3>. QED BY <2>5, <3>1, <3>2 DEF BeginPrefer, Begin
    <2>. QED BY <2>1, <2>2, <2>3, <2>4, <2>5
<1>4. \A v \in Recipients : ~Owes(requests[r], v) BY <1>3 DEF Owes
<1>5. EventsFollowTheTable' BY <1>3 DEF NInv, EventsFollowTheTable, rows
<1>. QED BY <1>0, <1>3, <1>4, <1>5, Moves DEF NotificationsTypeOK, Settles

\* A recipient is asked for his preference: one who is let through has it on now.
LEMMA ChecksRecipient ==
    ASSUME NInv, NEW r \in Requests, NEW u \in Recipients, CheckRecipient(r, u)
    PROVE  NInv'
<1>0. NotificationsTypeOK BY DEF NInv
<1>. DEFINE old == requests[r]
            notified == is_enabled(u) /\ \A id \in old.id : ~find_duplicate(id, u)
            to == IF notified THEN old.to \cup {u} ELSE old.to
            q == [old EXCEPT !.todo = @ \ {u}, !.to = to]
<1>1. /\ old.pc = "check" /\ u \in old.todo
      /\ requests' = [requests EXCEPT ![r].todo = @ \ {u},
                                      ![r].to = IF notified THEN @ \cup {u} ELSE @]
      /\ UNCHANGED <<rows, prefs, told, badge, unsure>>
    BY DEF CheckRecipient, At
<1>2. old # NoRequest /\ old \in Request /\ Knows(old)
    BY <1>0, <1>1, AtRequest DEF NInv, RequestsKnow
<1>3. requests' = [requests EXCEPT ![r] = q] BY <1>1
<1>4. old.todo \ {u} \in SUBSET Recipients /\ to \in SUBSET Recipients BY <1>2 DEF Request
<1>5. q \in Request BY <1>2, <1>4 DEF Request
<1>6. /\ q.pc = "check" /\ q.op = old.op /\ q.id = old.id /\ q.user = old.user /\ q.to = to
      /\ q.off = old.off /\ q.todo = old.todo \ {u}
    BY <1>1, <1>2 DEF Request
<1>. HIDE DEF q
<1>7. to \cap old.off = {}
    BY <1>1, <1>2 DEF Knows, Shaped, Asked, is_enabled
<1>8. Knows(q) BY <1>1, <1>2, <1>6, <1>7 DEF Knows, Shaped, Asked, Backed, Counted
<1>9. \A v \in Recipients : ~Owes(old, v) BY <1>1 DEF Owes
<1>10. EventsFollowTheTable' BY <1>1 DEF NInv, EventsFollowTheTable, rows
<1>. QED BY <1>0, <1>1, <1>3, <1>5, <1>8, <1>9, <1>10, Moves DEF NotificationsTypeOK, Settles

\* The event tells of rows that the request itself has committed.
LEMMA EmitsEvent ==
    ASSUME NInv, NEW r \in Requests, NEW u \in Recipients, EmitEvent(r, u)
    PROVE  NInv'
<1>0. NotificationsTypeOK BY DEF NInv
<1>. DEFINE old == requests[r]
            q == [old EXCEPT !.pc = "count", !.serving = {u}]
            events == {KindOf(old.op)} \X (old.id \X {u})
<1>1. /\ old.pc = "event" /\ u \in old.todo
      /\ told' = told \/ (old.op # "read_all" /\ told' = told \cup events)
      /\ requests' = [requests EXCEPT ![r] = q]
      /\ UNCHANGED <<rows, prefs, badge, unsure>>
    BY <1>0, IdleOrNot DEF EmitEvent, At, Does, Busy, NotificationsTypeOK
<1>2. old # NoRequest /\ old \in Request /\ Knows(old)
    BY <1>0, <1>1, AtRequest DEF NInv, RequestsKnow
<1>3. q \in Request BY <1>2 DEF Request
<1>4. /\ q.pc = "count" /\ q.op = old.op /\ q.id = old.id /\ q.user = old.user /\ q.serving = {u}
      /\ q.off = old.off /\ q.todo = old.todo
    BY <1>2 DEF Request
<1>. HIDE DEF q
<1>5. Knows(q) BY <1>1, <1>2, <1>4 DEF Knows, Shaped, Asked, Backed, Counted
<1>6. old.op \in {"create", "read", "read_all", "delete"}
    BY <1>1, <1>2 DEF Knows, Shaped, Request
<1>7. told' \subseteq Kinds \X Notifications /\ EventsFollowTheTable'
    <2>1. CASE told' = told BY <1>0, <1>1, <2>1 DEF NInv, EventsFollowTheTable, NotificationsTypeOK, rows
    <2>2. CASE old.op # "read_all" /\ told' = told \cup events
        <3>1. old.id \X {u} \subseteq old.id \X old.todo BY <1>1
        <3>2. CASE old.op = "create"
            <4>1. events = {"created"} \X (old.id \X {u}) BY <3>2 DEF KindOf
            <4>2. old.id \X {u} \subseteq stored BY <1>1, <1>2, <3>1, <3>2 DEF Knows, Backed
            <4>. HIDE DEF events
            <4>. QED BY <1>0, <1>1, <2>2, <4>1, <4>2 DEF NInv, EventsFollowTheTable, NotificationsTypeOK, rows, Kinds
        <3>3. CASE old.op = "read"
            <4>1. events = {"read"} \X (old.id \X {u}) BY <3>3 DEF KindOf
            <4>2. old.id \X {u} \subseteq read BY <1>1, <1>2, <3>1, <3>3 DEF Knows, Backed
            <4>. HIDE DEF events
            <4>. QED BY <1>0, <1>1, <2>2, <4>1, <4>2 DEF NInv, EventsFollowTheTable, NotificationsTypeOK, rows, Kinds
        <3>4. CASE old.op = "delete"
            <4>1. events = {"deleted"} \X (old.id \X {u}) BY <3>4 DEF KindOf
            <4>2. old.id \X {u} \subseteq deleted BY <1>1, <1>2, <3>1, <3>4 DEF Knows, Backed
            <4>. HIDE DEF events
            <4>. QED BY <1>0, <1>1, <2>2, <4>1, <4>2 DEF NInv, EventsFollowTheTable, NotificationsTypeOK, rows, Kinds
        <3>. QED BY <1>6, <2>2, <3>2, <3>3, <3>4
    <2>. QED BY <1>1, <2>1, <2>2
<1>8. \A v \in Recipients : Owes(q, v) <=> Owes(old, v)
    BY <1>1, <1>2, <1>3, <1>4, IdleOrNot DEF Owes
<1>. QED BY <1>0, <1>1, <1>3, <1>5, <1>7, <1>8, Moves DEF NotificationsTypeOK, Settles

\* The count is read: it is right as long as nobody commits for this user.
LEMMA ReadsCount ==
    ASSUME NInv, NEW r \in Requests, Count(r)
    PROVE  NInv'
<1>0. NotificationsTypeOK BY DEF NInv
<1>. DEFINE old == requests[r]
<1>1. old.pc = "count" /\ UNCHANGED <<rows, prefs, told, badge, unsure>> BY DEF Count, At
<1>2. old # NoRequest /\ old \in Request /\ Knows(old)
    BY <1>0, <1>1, AtRequest DEF NInv, RequestsKnow
<1>3. PICK u \in old.todo : old.serving = {u} BY <1>1, <1>2 DEF Knows, Shaped
<1>4. u \in Recipients /\ count_unread(u) \in Counts BY <1>0, <1>2, <1>3, UnreadCounts DEF Request
<1>. DEFINE q == [old EXCEPT !.pc = "emit", !.count = count_unread(u), !.overtaken = FALSE]
<1>5. requests' = [requests EXCEPT ![r] = q] BY <1>3 DEF Count
<1>6. q \in Request BY <1>2, <1>4 DEF Request
<1>7. /\ q.pc = "emit" /\ q.op = old.op /\ q.id = old.id /\ q.user = old.user
      /\ q.serving = {u} /\ q.off = old.off /\ q.todo = old.todo /\ q.count = count_unread(u)
    BY <1>2, <1>3 DEF Request
<1>. HIDE DEF q
<1>8. Knows(q) BY <1>1, <1>2, <1>3, <1>7 DEF Knows, Shaped, Asked, Backed, Counted
<1>9. \A v \in Recipients : Owes(q, v) <=> Owes(old, v)
    BY <1>1, <1>2, <1>6, <1>7, IdleOrNot DEF Owes
<1>10. EventsFollowTheTable' BY <1>1 DEF NInv, EventsFollowTheTable, rows
<1>. QED BY <1>0, <1>1, <1>5, <1>6, <1>8, <1>9, <1>10, Moves DEF NotificationsTypeOK, Settles

\* The count is sent: the user is sure of it unless it was overtaken.
LEMMA EmitsCount ==
    ASSUME NInv, NEW r \in Requests, EmitCount(r)
    PROVE  NInv'
<1>0. NotificationsTypeOK BY DEF NInv
<1>. DEFINE old == requests[r]
            left == old.todo \ old.serving
            going == [old EXCEPT !.pc = "event", !.todo = left, !.count = 0, !.serving = {}]
<1>1. /\ old.pc = "emit"
      /\ badge' = [u \in Recipients |-> IF u \in old.serving THEN old.count ELSE badge[u]]
      /\ unsure' = IF old.overtaken THEN unsure \cup old.serving ELSE unsure \ old.serving
      /\ UNCHANGED <<rows, prefs, told>>
    BY DEF EmitCount, At
<1>2. old # NoRequest /\ old \in Request /\ Knows(old)
    BY <1>0, <1>1, AtRequest DEF NInv, RequestsKnow
<1>3. /\ old.serving \subseteq Recipients /\ old.count \in Counts /\ 0 \in Counts
      /\ left \in SUBSET Recipients
    BY <1>2, NotificationsAssumption, FS_CardinalityType DEF Request, Counts
<1>4. PICK q \in Request \cup {NoRequest} :
        /\ requests' = [requests EXCEPT ![r] = q]
        /\ q # NoRequest => Knows(q)
        /\ \A u \in left : Owes(q, u)
    <2>1. CASE left = {}
        <3>1. requests' = [requests EXCEPT ![r] = NoRequest] BY <2>1 DEF EmitCount, End
        <3>. QED BY <2>1, <3>1
    <2>2. CASE left # {}
        <3>1. requests' = [requests EXCEPT ![r] = going] BY <2>2 DEF EmitCount
        <3>2. going \in Request BY <1>2, <1>3 DEF Request
        <3>3. /\ going.pc = "event" /\ going.op = old.op /\ going.id = old.id
              /\ going.user = old.user /\ going.todo = left /\ going.off = old.off
            BY <1>2 DEF Request
        <3>. HIDE DEF going
        <3>4. Knows(going) BY <1>1, <1>2, <3>3 DEF Knows, Shaped, Asked, Backed, Counted
        <3>. QED BY <3>1, <3>2, <3>3, <3>4, IdleOrNot DEF Owes
    <2>. QED BY <2>1, <2>2
<1>5. badge' \in [Recipients -> Counts] /\ unsure' \subseteq Recipients
    BY <1>0, <1>1, <1>3 DEF NotificationsTypeOK
<1>6. Settles(r, q)
    <2>. SUFFICES ASSUME NEW u \in Recipients \ unsure'
                  PROVE  \/ Owes(q, u)
                         \/ badge'[u] = count_unread(u)
                         \/ u \notin unsure /\ badge'[u] = badge[u] /\ ~Owes(old, u)
        BY DEF Settles
    <2>1. CASE u \in old.serving
        <3>1. ~old.overtaken BY <1>1, <2>1
        <3>. QED BY <1>1, <1>2, <2>1, <3>1 DEF Knows, Counted
    <2>2. CASE u \notin old.serving /\ u \in old.todo BY <1>4, <2>2
    <2>3. CASE u \notin old.serving /\ u \notin old.todo BY <1>1, <2>3 DEF Owes
    <2>. QED BY <2>1, <2>2, <2>3
<1>7. EventsFollowTheTable' /\ told' \subseteq Kinds \X Notifications
    BY <1>0, <1>1 DEF NInv, EventsFollowTheTable, NotificationsTypeOK, rows
<1>8. UNCHANGED <<rows, prefs>> BY <1>1
<1>. HIDE DEF old, left, going
<1>. QED BY <1>4, <1>5, <1>6, <1>7, <1>8, Moves

\* What a failure leaves unsent is unsure from then on.
LEMMA Fails ==
    ASSUME NInv, NEW r \in Requests, Fail(r)
    PROVE  NInv'
<1>0. NotificationsTypeOK BY DEF NInv
<1>. DEFINE old == requests[r]
<1>1. /\ requests' = [requests EXCEPT ![r] = NoRequest] /\ old # NoRequest
      /\ unsure' = IF old.pc = "check" THEN unsure ELSE unsure \cup old.todo
      /\ UNCHANGED <<rows, prefs, told, badge>>
    BY DEF Fail, End, At, Busy
<1>2. old \in Request BY <1>0, <1>1 DEF NotificationsTypeOK
<1>3. unsure' \subseteq Recipients BY <1>0, <1>1, <1>2 DEF NotificationsTypeOK, Request
<1>4. \A u \in Recipients \ unsure' : u \notin unsure /\ badge'[u] = badge[u] /\ ~Owes(old, u)
    BY <1>1 DEF Owes
<1>5. EventsFollowTheTable' BY <1>1 DEF NInv, EventsFollowTheTable, rows
<1>. QED BY <1>0, <1>1, <1>3, <1>4, <1>5, Moves DEF NotificationsTypeOK, Settles

-----------------------------------------------------------------------------
(* Commits *)

\* A commit that changes the unread notifications of the users it is followed up
\* for, and of nobody else.
LEMMA CommitKeeps ==
    ASSUME NInv, NEW r \in Requests, NEW users \in SUBSET Recipients,
           requests[r].pc \in {"check", "commit"}, requests[r].todo = {},
           requests[r].op # "prefer",
           Committed(r, users),
           UNCHANGED <<prefs, told, badge, unsure>>,
           stored \subseteq stored', read \subseteq read', deleted \subseteq deleted',
           stored' \subseteq Notifications, OnlyStored',
           \A u \in Recipients \ users : Unread(u)' = Unread(u),
           requests[r].op = "create" => requests[r].id \X users \subseteq stored',
           requests[r].op = "read" => requests[r].id \X users \subseteq read',
           requests[r].op = "delete" => requests[r].id \X users \subseteq deleted'
    PROVE  NInv'
<1>0. NotificationsTypeOK BY DEF NInv
<1>. DEFINE old == requests[r]
            next == [old EXCEPT !.pc = "event", !.todo = users, !.to = {}, !.off = {}]
            Late(q) == q.pc = "emit" /\ q.serving \subseteq users
            Seen(q) == IF Late(q) THEN [q EXCEPT !.overtaken = TRUE] ELSE q
<1>1. old # NoRequest /\ old \in Request /\ Knows(old)
    BY <1>0, AtRequest, IdleOrNot DEF NInv, RequestsKnow
<1>2. /\ requests'[r] = IF users = {} THEN NoRequest ELSE next
      /\ \A p \in Requests \ {r} : requests'[p] = Seen(requests[p])
      /\ DOMAIN requests' = Requests /\ requests' = [p \in Requests |-> requests'[p]]
    BY DEF Committed, At
<1>3. /\ next \in Request
      /\ next.pc = "event" /\ next.todo = users /\ next.to = {} /\ next.off = {}
      /\ next.op = old.op /\ next.id = old.id /\ next.user = old.user
    BY <1>1 DEF Request
<1>4. ASSUME NEW q \in Request
      PROVE  /\ Seen(q) \in Request
             /\ Seen(q).pc = q.pc /\ Seen(q).op = q.op /\ Seen(q).id = q.id
             /\ Seen(q).user = q.user /\ Seen(q).todo = q.todo /\ Seen(q).to = q.to
             /\ Seen(q).serving = q.serving /\ Seen(q).count = q.count /\ Seen(q).off = q.off
             /\ ~Seen(q).overtaken => ~q.overtaken /\ ~Late(q)
    BY <1>4 DEF Request
<1>5. Seen(NoRequest) = NoRequest BY IdleOrNot
<1>. HIDE DEF next, Seen, Late
<1>6. NotificationsTypeOK'
    <2>1. \A p \in Requests : requests'[p] \in Request \cup {NoRequest}
        BY <1>0, <1>2, <1>3, <1>4, <1>5 DEF NotificationsTypeOK
    <2>2. read' \subseteq Notifications /\ deleted' \subseteq Notifications BY DEF OnlyStored
    <2>. QED BY <1>0, <1>2, <2>1, <2>2 DEF NotificationsTypeOK
<1>7. EventsFollowTheTable' BY DEF NInv, EventsFollowTheTable
<1>8. \A u \in Recipients \ users : count_unread(u)' = count_unread(u) BY DEF count_unread
<1>9. ASSUME NEW s, s = next PROVE Knows(s)'
    <2>1. old.op \in {"read", "delete"} => old.id \X old.user \subseteq stored'
        BY <1>1 DEF Knows, Backed
    <2>. QED BY <1>3, <1>9, <2>1 DEF Knows, Shaped, Asked, Backed, Counted
<1>10. ASSUME NEW p \in Requests \ {r}, NEW s, s = Seen(requests[p]), s # NoRequest
       PROVE  Knows(s)'
    <2>1. PICK q : q = requests[p] OBVIOUS
    <2>2. q \in Request /\ Knows(q)
        BY <1>0, <1>5, <1>10, <2>1 DEF NotificationsTypeOK, NInv, RequestsKnow
    <2>3. s = Seen(q) BY <1>10, <2>1
    <2>4. Shaped(s) /\ Asked(s)' BY <1>4, <2>2, <2>3 DEF Knows, Shaped, Asked
    <2>5. Backed(s)' BY <1>4, <2>2, <2>3 DEF Knows, Backed
    <2>6. Counted(s)'
        <3>. SUFFICES ASSUME s.pc = "emit", ~s.overtaken, NEW u \in s.serving
                      PROVE  s.count = count_unread(u)'
            BY DEF Counted
        <3>1. q.pc = "emit" /\ ~q.overtaken /\ ~Late(q) /\ u \in q.serving /\ s.count = q.count
            BY <1>4, <2>2, <2>3
        <3>2. q.serving = {u} BY <2>2, <3>1 DEF Knows, Shaped
        <3>3. u \in Recipients \ users BY <2>2, <3>1, <3>2 DEF Late, Request
        <3>. QED BY <1>8, <2>2, <3>1, <3>3 DEF Knows, Counted
    <2>. QED BY <2>4, <2>5, <2>6 DEF Knows, Shaped
<1>11. RequestsKnow'
    <2>. SUFFICES ASSUME NEW p \in Requests, requests'[p] # NoRequest PROVE Knows(requests[p])'
        BY DEF RequestsKnow
    <2>1. PICK s : s = requests'[p] OBVIOUS
    <2>2. Knows(s)' BY <1>2, <1>9, <1>10, <2>1
    <2>. QED BY <2>1, <2>2
<1>12. BadgeIsRight'
    <2>. SUFFICES ASSUME NEW u \in Recipients \ unsure', ~Pending(u)' PROVE badge'[u] = count_unread(u)'
        BY DEF BadgeIsRight
    <2>1. \A p \in Requests : ~Owes(requests'[p], u) BY DEF Pending, Owes, Busy, At
    <2>2. u \notin users BY <1>2, <1>3, <2>1, IdleOrNot DEF Owes
    <2>3. ASSUME NEW p \in Requests, Owes(requests[p], u) PROVE FALSE
        <3>1. p # r BY <2>3 DEF Owes
        <3>2. requests[p] \in Request BY <1>0, <2>3 DEF NotificationsTypeOK, Owes
        <3>3. Owes(requests'[p], u) BY <1>2, <1>4, <2>3, <3>1, <3>2, IdleOrNot DEF Owes
        <3>. QED BY <2>1, <3>3
    <2>4. badge[u] = count_unread(u) BY <2>3, PendingIsOwed DEF NInv, BadgeIsRight
    <2>. QED BY <1>8, <2>2, <2>4
<1>. QED BY <1>6, <1>7, <1>11, <1>12 DEF NInv

LEMMA Commits ==
    ASSUME NInv, NEW r \in Requests,
           CommitCreate(r) \/ CommitRead(r) \/ CommitReadAll(r) \/ CommitDelete(r)
    PROVE  NInv'
<1>0. NotificationsTypeOK /\ OnlyStored BY DEF NInv
<1>. DEFINE old == requests[r]
<1>1. old # NoRequest /\ old \in Request /\ Knows(old)
    <2>1. old.pc \in {"check", "commit"}
        BY DEF CommitCreate, CommitRead, CommitReadAll, CommitDelete, At
    <2>. QED BY <1>0, <2>1, AtRequest DEF NInv, RequestsKnow
<1>2. old.id \subseteq Ids /\ old.to \subseteq Recipients /\ old.user \subseteq Recipients
    BY <1>1 DEF Request
<1>3. CASE CommitCreate(r)
    <2>1. /\ old.pc = "check" /\ old.todo = {} /\ old.op = "create"
          /\ stored' = stored \cup (old.id \X old.to) /\ Committed(r, old.to)
          /\ UNCHANGED <<read, deleted, prefs, told, badge, unsure>>
        BY <1>1, <1>3 DEF CommitCreate, At, Knows, Shaped
    <2>2. stored' \subseteq Notifications BY <1>0, <1>2, <2>1 DEF NotificationsTypeOK, Notifications
    <2>3. OnlyStored' BY <1>0, <2>1 DEF OnlyStored
    <2>4. \A u \in Recipients \ old.to : Unread(u)' = Unread(u) BY <2>1 DEF Unread
    <2>. HIDE DEF old
    <2>. QED BY <1>2, <2>1, <2>2, <2>3, <2>4, CommitKeeps DEF old
<1>4. CASE CommitRead(r)
    <2>1. /\ old.pc = "commit" /\ old.todo = {} /\ old.op = "read"
          /\ read' = read \cup (old.id \X old.user) /\ Committed(r, old.user)
          /\ UNCHANGED <<stored, deleted, prefs, told, badge, unsure>>
        BY <1>1, <1>4 DEF CommitRead, At, Does, Knows, Shaped
    <2>2. OnlyStored' BY <1>0, <1>1, <2>1 DEF OnlyStored, Knows, Backed
    <2>3. \A u \in Recipients \ old.user : Unread(u)' = Unread(u) BY <2>1 DEF Unread
    <2>. QED BY <1>0, <1>2, <2>1, <2>2, <2>3, CommitKeeps DEF NotificationsTypeOK
<1>5. CASE CommitReadAll(r)
    <2>. DEFINE changed == UNION {Unread(u) : u \in old.user}
                users == IF changed = {} THEN {} ELSE old.user
    <2>1. /\ old.pc = "commit" /\ old.todo = {} /\ old.op = "read_all"
          /\ read' = read \cup changed /\ Committed(r, users)
          /\ UNCHANGED <<stored, deleted, prefs, told, badge, unsure>>
        BY <1>1, <1>5 DEF CommitReadAll, At, Does, Knows, Shaped
    <2>2. changed \subseteq stored BY DEF Unread
    <2>3. OnlyStored' BY <1>0, <2>1, <2>2 DEF OnlyStored
    <2>4. \A n \in changed : n[2] \in old.user BY DEF Unread
    <2>5. \A u \in Recipients \ users : Unread(u)' = Unread(u) BY <2>1, <2>4 DEF Unread
    <2>6. users \in SUBSET Recipients BY <1>2
    <2>. HIDE DEF changed, users
    <2>. QED BY <1>0, <2>1, <2>3, <2>5, <2>6, CommitKeeps DEF NotificationsTypeOK
<1>6. CASE CommitDelete(r)
    <2>1. /\ old.pc = "commit" /\ old.todo = {} /\ old.op = "delete"
          /\ deleted' = deleted \cup (old.id \X old.user) /\ Committed(r, old.user)
          /\ UNCHANGED <<stored, read, prefs, told, badge, unsure>>
        BY <1>1, <1>6 DEF CommitDelete, At, Does, Knows, Shaped
    <2>2. OnlyStored' BY <1>0, <1>1, <2>1 DEF OnlyStored, Knows, Backed
    <2>3. \A u \in Recipients \ old.user : Unread(u)' = Unread(u) BY <2>1 DEF Unread
    <2>. QED BY <1>0, <1>2, <2>1, <2>2, <2>3, CommitKeeps DEF NotificationsTypeOK
<1>. QED BY <1>3, <1>4, <1>5, <1>6

\* A preference is written; who had it off all along is told apart anew.
LEMMA Prefers ==
    ASSUME NInv, NEW r \in Requests, CommitPrefer(r)
    PROVE  NInv'
<1>0. NotificationsTypeOK BY DEF NInv
<1>. DEFINE old == requests[r]
            Off(q) == [q EXCEPT !.off = {u \in @ : prefs'[u] = "off"}]
<1>1. /\ old.pc = "commit" /\ old # NoRequest /\ old \in Request /\ Knows(old)
      /\ UNCHANGED <<rows, told, badge, unsure>>
    BY <1>0, AtRequest, IdleOrNot DEF CommitPrefer, At, NInv, RequestsKnow
<1>2. prefs' \in [Recipients -> {"default", "on", "off"}]
    BY <1>0, <1>1 DEF CommitPrefer, NotificationsTypeOK, Request
<1>3. /\ DOMAIN requests' = Requests /\ requests' = [p \in Requests |-> requests'[p]]
      /\ \A p \in Requests : requests'[p] = IF p = r \/ requests[p] = NoRequest THEN NoRequest
                                            ELSE Off(requests[p])
    BY DEF CommitPrefer, Busy
<1>4. ASSUME NEW q \in Request
      PROVE  /\ Off(q) \in Request
             /\ Off(q).pc = q.pc /\ Off(q).op = q.op /\ Off(q).id = q.id
             /\ Off(q).user = q.user /\ Off(q).todo = q.todo /\ Off(q).to = q.to
             /\ Off(q).serving = q.serving /\ Off(q).count = q.count
             /\ Off(q).overtaken = q.overtaken
             /\ Off(q).off = {u \in q.off : prefs'[u] = "off"}
    BY <1>4 DEF Request
<1>. HIDE DEF Off
<1>5. NotificationsTypeOK'
    <2>1. \A p \in Requests : requests'[p] \in Request \cup {NoRequest}
        BY <1>0, <1>3, <1>4 DEF NotificationsTypeOK
    <2>. QED BY <1>0, <1>1, <1>2, <1>3, <2>1 DEF NotificationsTypeOK, rows
<1>6. OnlyStored' /\ EventsFollowTheTable'
    BY <1>1 DEF NInv, OnlyStored, EventsFollowTheTable, rows
<1>7. \A u : count_unread(u)' = count_unread(u) BY <1>1 DEF count_unread, Unread, rows
<1>8. RequestsKnow'
    <2>. SUFFICES ASSUME NEW p \in Requests, requests'[p] # NoRequest PROVE Knows(requests[p])'
        BY DEF RequestsKnow
    <2>1. PICK q, s : q = requests[p] /\ s = requests'[p] OBVIOUS
    <2>2. q \in Request /\ Knows(q) /\ s = Off(q)
        BY <1>0, <1>3, <2>1 DEF NotificationsTypeOK, NInv, RequestsKnow
    <2>3. Shaped(s) /\ Asked(s)' BY <1>4, <2>2 DEF Knows, Shaped, Asked
    <2>4. Backed(s)' BY <1>1, <1>4, <2>2 DEF Knows, Backed, rows
    <2>5. Counted(s)' BY <1>4, <1>7, <2>2 DEF Knows, Counted
    <2>. QED BY <2>1, <2>3, <2>4, <2>5 DEF Knows, Shaped
<1>9. BadgeIsRight'
    <2>. SUFFICES ASSUME NEW u \in Recipients \ unsure', ~Pending(u)' PROVE badge'[u] = count_unread(u)'
        BY DEF BadgeIsRight
    <2>1. \A p \in Requests : ~Owes(requests'[p], u) BY DEF Pending, Owes, Busy, At
    <2>2. ASSUME NEW p \in Requests, Owes(requests[p], u) PROVE FALSE
        <3>1. p # r BY <1>1, <2>2 DEF Owes, Knows, Shaped
        <3>2. requests[p] \in Request /\ requests[p] # NoRequest BY <1>0, <2>2 DEF NotificationsTypeOK, Owes
        <3>3. Owes(requests'[p], u) BY <1>3, <1>4, <2>2, <3>1, <3>2, IdleOrNot DEF Owes
        <3>. QED BY <2>1, <3>3
    <2>3. badge[u] = count_unread(u) BY <1>1, <2>2, PendingIsOwed DEF NInv, BadgeIsRight
    <2>. QED BY <1>1, <1>7, <2>3
<1>. QED BY <1>5, <1>6, <1>8, <1>9 DEF NInv

-----------------------------------------------------------------------------
(* Theorems *)

\* The invariant holds at first and is kept by every step.
LEMMA InitNInv == InitNotifications => NInv
<1>. SUFFICES ASSUME InitNotifications PROVE NInv OBVIOUS
<1>1. 0 \in Counts BY NotificationsAssumption, FS_CardinalityType DEF Counts
<1>2. \A u \in Recipients : count_unread(u) = 0
    <2>1. \A u \in Recipients : Unread(u) = {} BY DEF InitNotifications, Unread
    <2>. QED BY <2>1, FS_EmptySet DEF count_unread
<1>3. NotificationsTypeOK BY <1>1 DEF InitNotifications, NotificationsTypeOK
<1>4. OnlyStored /\ EventsFollowTheTable /\ RequestsKnow
    BY DEF InitNotifications, OnlyStored, EventsFollowTheTable, RequestsKnow
<1>5. BadgeIsRight BY <1>2 DEF InitNotifications, BadgeIsRight
<1>. QED BY <1>3, <1>4, <1>5 DEF NInv

LEMMA NextNInv == NInv /\ [NextNotifications]_notificationVars => NInv'
<1>. SUFFICES ASSUME NInv, [NextNotifications]_notificationVars PROVE NInv' OBVIOUS
<1>1. CASE UNCHANGED notificationVars
    <2>1. UNCHANGED <<stored, read, deleted, prefs, told, badge, requests, unsure>> BY <1>1 DEF notificationVars
    <2>2. NotificationsTypeOK' /\ OnlyStored' /\ EventsFollowTheTable'
        BY <2>1 DEF NInv, NotificationsTypeOK, OnlyStored, EventsFollowTheTable
    <2>3. RequestsKnow'
        BY <2>1 DEF NInv, RequestsKnow, Knows, Shaped, Asked, Backed, Counted, count_unread, Unread
    <2>4. BadgeIsRight'
        BY <2>1 DEF NInv, BadgeIsRight, Pending, Busy, At, count_unread, Unread
    <2>. QED BY <2>2, <2>3, <2>4 DEF NInv
<1>2. CASE \E r \in Requests, id \in Ids :
            \/ \E recipients \in (SUBSET Recipients) \ {{}} : BeginCreate(r, id, recipients)
            \/ \E u \in Recipients : BeginRead(r, id, u) \/ BeginDelete(r, id, u)
    BY <1>2, Begins
<1>3. CASE \E r \in Requests, u \in Recipients :
                BeginReadAll(r, u) \/ \E wanted \in {"on", "off"} : BeginPrefer(r, u, wanted)
    BY <1>3, Begins
<1>4. CASE \E r \in Requests : RequestStep(r) \/ Fail(r)
    <2>1. PICK r \in Requests : RequestStep(r) \/ Fail(r) BY <1>4
    <2>2. CASE \E u \in Recipients : CheckRecipient(r, u) \/ EmitEvent(r, u)
        BY <2>2, ChecksRecipient, EmitsEvent
    <2>3. CASE CommitCreate(r) \/ CommitRead(r) \/ CommitReadAll(r) \/ CommitDelete(r)
        BY <2>3, Commits
    <2>4. CASE CommitPrefer(r) BY <2>4, Prefers
    <2>5. CASE Count(r) \/ EmitCount(r) \/ Fail(r) BY <2>5, ReadsCount, EmitsCount, Fails
    <2>. QED BY <2>1, <2>2, <2>3, <2>4, <2>5 DEF RequestStep
<1>. QED BY <1>1, <1>2, <1>3, <1>4 DEF NextNotifications

\* What the tables, the requests and the badges know of each other, at every step of
\* a notification's life, whatever requests run at the same time or fail.
THEOREM NotificationsInvariantHolds == NotificationsSpec => []NInv
BY InitNInv, NextNInv, PTL DEF NotificationsSpec

\* The tables, badges and requests keep their types: only the three events of the
\* client's protocol are sent, and no count exceeds the number of things to count.
THEOREM NotificationsTypeCorrect == NotificationsSpec => []NotificationsTypeOK
<1>1. NInv => NotificationsTypeOK BY DEF NInv
<1>. QED BY <1>1, NotificationsInvariantHolds, PTL

\* A user is sent no event about a notification that is not stored, read or deleted
\* as the event says: it is sent after the commit, also when requests overlap.
THEOREM EventsAreTrue == NotificationsSpec => []EventsFollowTheTable
<1>1. NInv => EventsFollowTheTable BY DEF NInv
<1>. QED BY <1>1, NotificationsInvariantHolds, PTL

\* Once a user's requests are through, the badge he was sent last is the number of his
\* unread notifications, unless a commit overtook it or a request failed.
THEOREM BadgesAreRight == NotificationsSpec => []BadgeIsRight
<1>1. NInv => BadgeIsRight BY DEF NInv
<1>. QED BY <1>1, NotificationsInvariantHolds, PTL

\* create_many_notifications stores no row for a recipient who has had notifications off since
\* before it began, though it asks one recipient after the other.
THEOREM PreferencesAreRespected == NotificationsSpec => PreferenceIsRespected
<1>1. ASSUME NInv, NEW r \in Requests, CommitCreate(r)
      PROVE  requests[r].to \cap requests[r].off = {}
    BY <1>1, AtRequest, IdleOrNot DEF CommitCreate, At, NInv, RequestsKnow, Knows, Shaped
<1>2. NInv /\ [NextNotifications]_notificationVars
        => [\A r \in Requests : CommitCreate(r) => requests[r].to \cap requests[r].off = {}]_notificationVars
    BY <1>1
<1>. QED BY <1>2, NotificationsInvariantHolds, PTL DEF NotificationsSpec, PreferenceIsRespected
=============================================================================
