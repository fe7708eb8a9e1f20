--------------------------- MODULE Notifications ---------------------------
(***************************************************************************)
(* The notifications of users: created in one transaction for all          *)
(* recipients of a message or a reaction who have not turned them off,     *)
(* marked as read one by one or all together, and deleted.  After its      *)
(* commit every request sends the user an event and then the number of his *)
(* unread notifications, which it reads at that moment, while the requests *)
(* of his other devices do the same.                                       *)
(***************************************************************************)
EXTENDS Naturals, FiniteSets

CONSTANTS
    Recipients,
    Ids,        \* messages and reactions that users are notified of
    Requests

ASSUME NotificationsAssumption == IsFiniteSet(Ids)

VARIABLES
    stored,     \* the table notifications: what was created for whom,
    read,       \* is_read,
    deleted,    \* deleted_at
    prefs,      \* the table notification_preferences, "default" without a row
    told,       \* the events users were sent about their notifications
    badge,      \* the unread count a user was sent last
    requests,
    \* History, for the properties only:
    unsure      \* users whose last count was overtaken, or was never sent

notificationVars == <<stored, read, deleted, prefs, told, badge, requests, unsure>>
rows == <<stored, read, deleted>>

Notifications == Ids \X Recipients
Kinds == {"created", "read", "deleted"}
Counts == 0..Cardinality(Ids)

NoRequest == [pc |-> "idle"]
Request ==
    [pc: {"check", "commit", "event", "count", "emit"},
     op: {"create", "read", "read_all", "delete", "prefer"},
     id: SUBSET Ids, user: SUBSET Recipients,
     todo: SUBSET Recipients,   \* recipients still to be checked, then to be told
     to: SUBSET Recipients,     \* recipients of the new notification
     serving: SUBSET Recipients, \* the one that is being sent his count
     count: Counts,
     found: {"default", "on", "off"}, wanted: {"on", "off"},
     off: SUBSET Recipients,    \* history: recipients who have had it off since the start
     overtaken: BOOLEAN]        \* history: someone has committed since the count

NotificationsTypeOK ==
    /\ stored \subseteq Notifications /\ read \subseteq Notifications
    /\ deleted \subseteq Notifications
    /\ prefs \in [Recipients -> {"default", "on", "off"}]
    /\ told \subseteq Kinds \X Notifications
    /\ badge \in [Recipients -> Counts]
    /\ requests \in [Requests -> Request \cup {NoRequest}]
    /\ unsure \subseteq Recipients

InitNotifications ==
    /\ stored = {} /\ read = {} /\ deleted = {}
    /\ prefs = [u \in Recipients |-> "default"]
    /\ told = {}
    /\ badge = [u \in Recipients |-> 0]
    /\ requests = [r \in Requests |-> NoRequest]
    /\ unsure = {}

-----------------------------------------------------------------------------
(* Requests *)

Busy == {r \in Requests : requests[r] # NoRequest}
At(r, pc) == requests[r].pc = pc
Does(r, op) == r \in Busy /\ requests[r].op = op
End(r) == requests' = [requests EXCEPT ![r] = NoRequest]

Unread(u) == {n \in stored \ (read \cup deleted) : n[2] = u}
count_unread(u) == Cardinality(Unread(u))

\* DEFAULT_PREFERENCES: everything is on.
is_enabled(u) == prefs[u] # "off"

\* The preferences matter to a creation only.
NewRequest(op, pc, u, id, todo) ==
    [pc |-> pc, op |-> op, id |-> id, user |-> u, todo |-> todo, to |-> {}, serving |-> {},
     count |-> 0, found |-> "default", wanted |-> "on",
     off |-> {v \in todo : prefs[v] = "off"}, overtaken |-> FALSE]

Begin(r, request) ==
    /\ requests[r] = NoRequest
    /\ requests' = [requests EXCEPT ![r] = request]
    /\ UNCHANGED <<rows, prefs, told, badge, unsure>>

\* Request r has committed a change for some users and goes on to tell them; the
\* counts that others hold for them are out of date.
Committed(r, users) ==
    requests' = [q \in Requests |->
        IF q = r THEN IF users = {} THEN NoRequest
                      ELSE [requests[r] EXCEPT !.pc = "event", !.todo = users,
                                               !.to = {}, !.off = {}]
        ELSE IF At(q, "emit") /\ requests[q].serving \subseteq users
        THEN [requests[q] EXCEPT !.overtaken = TRUE]
        ELSE requests[q]]

-----------------------------------------------------------------------------
(* Creation, for notify_message and notify_reaction *)

find_duplicate(id, u) == <<id, u>> \in stored \ deleted

\* The message or reaction is new.
BeginCreate(r, id, recipients) ==
    /\ \A u \in Recipients : <<id, u>> \notin stored
    /\ \A q \in Busy : requests[q].id # {id}
    /\ Begin(r, NewRequest("create", "check", {}, {id}, recipients))

\* Mutation: the preference is not asked for.
CheckRecipient_Everyone(r, u) ==
    /\ At(r, "check") /\ u \in requests[r].todo
    /\ requests' = [requests EXCEPT ![r].todo = @ \ {u}, ![r].to = @ \cup {u}]
    /\ UNCHANGED <<rows, prefs, told, badge, unsure>>

\* The deduplication key contains the id of what is new: no duplicate is ever found.
CheckRecipient(r, u) ==
    LET notified == is_enabled(u) /\ \A id \in requests[r].id : ~find_duplicate(id, u) IN
    /\ At(r, "check") /\ u \in requests[r].todo
    /\ requests' = [requests EXCEPT ![r].todo = @ \ {u},
                                    ![r].to = IF notified THEN @ \cup {u} ELSE @]
    /\ UNCHANGED <<rows, prefs, told, badge, unsure>>

CommitCreate(r) ==
    /\ At(r, "check") /\ requests[r].todo = {}
    /\ stored' = stored \cup (requests[r].id \X requests[r].to)
    /\ Committed(r, requests[r].to)
    /\ UNCHANGED <<read, deleted, prefs, told, badge, unsure>>

-----------------------------------------------------------------------------
(* The recipient's requests *)

\* A notification that is read already, or deleted, is left as it is.  (That of
\* another user is not found.)
BeginRead(r, id, u) ==
    /\ <<id, u>> \in stored \ read
    /\ Begin(r, NewRequest("read", "commit", {u}, {id}, {}))

BeginReadAll(r, u) == Begin(r, NewRequest("read_all", "commit", {u}, {}, {}))

BeginDelete(r, id, u) ==
    /\ <<id, u>> \in stored \ deleted
    /\ Begin(r, NewRequest("delete", "commit", {u}, {id}, {}))

\* Also on a notification that has been deleted or read since it was loaded.
CommitRead(r) ==
    /\ At(r, "commit") /\ Does(r, "read")
    /\ read' = read \cup (requests[r].id \X requests[r].user)
    /\ Committed(r, requests[r].user)
    /\ UNCHANGED <<stored, deleted, prefs, told, badge, unsure>>

\* One UPDATE of all that is unread now.  Nothing is sent if there was nothing.
CommitReadAll(r) ==
    LET changed == UNION {Unread(u) : u \in requests[r].user} IN
    /\ At(r, "commit") /\ Does(r, "read_all")
    /\ read' = read \cup changed
    /\ Committed(r, IF changed = {} THEN {} ELSE requests[r].user)
    /\ UNCHANGED <<stored, deleted, prefs, told, badge, unsure>>

CommitDelete(r) ==
    /\ At(r, "commit") /\ Does(r, "delete")
    /\ deleted' = deleted \cup (requests[r].id \X requests[r].user)
    /\ Committed(r, requests[r].user)
    /\ UNCHANGED <<stored, read, prefs, told, badge, unsure>>

-----------------------------------------------------------------------------
(* Preferences *)

\* upsert_preference loads the row, or finds none.
BeginPrefer(r, u, wanted) ==
    Begin(r, [NewRequest("prefer", "commit", {u}, {}, {})
              EXCEPT !.found = prefs[u], !.wanted = wanted])

\* Inserting a row that another request has inserted meanwhile is an error 500;
\* a loaded row that has the wanted value already is not written.
CommitPrefer(r) ==
    LET q == requests[r]
        Written(u) == u \in q.user /\ q.found # q.wanted /\ (q.found = "default" => prefs[u] = "default")
    IN /\ At(r, "commit") /\ Does(r, "prefer")
       /\ prefs' = [u \in Recipients |-> IF Written(u) THEN q.wanted ELSE prefs[u]]
       /\ requests' = [p \in Requests |->
                IF p = r \/ p \notin Busy THEN NoRequest
                ELSE [requests[p] EXCEPT !.off = {u \in @ : prefs'[u] = "off"}]]
       /\ UNCHANGED <<rows, told, badge, unsure>>

-----------------------------------------------------------------------------
(* Events *)

KindOf(op) == CASE op = "create" -> "created" [] op = "read" -> "read" [] op = "delete" -> "deleted"

\* Mutation: the event is named after the operation.
EmitEvent_Misnamed(r, u) ==
    /\ At(r, "event") /\ u \in requests[r].todo
    /\ told' = told \cup ({requests[r].op} \X (requests[r].id \X {u}))
    /\ requests' = [requests EXCEPT ![r].pc = "count", ![r].serving = {u}]
    /\ UNCHANGED <<rows, prefs, badge, unsure>>

\* notification_created, _read or _deleted; notifications_read_all names none.
EmitEvent(r, u) ==
    /\ At(r, "event") /\ u \in requests[r].todo
    /\ told' = IF Does(r, "read_all") THEN told
               ELSE told \cup ({KindOf(requests[r].op)} \X (requests[r].id \X {u}))
    /\ requests' = [requests EXCEPT ![r].pc = "count", ![r].serving = {u}]
    /\ UNCHANGED <<rows, prefs, badge, unsure>>

\* _emit_count: the number is read, then sent.
Count(r) ==
    /\ At(r, "count")
    /\ \E u \in requests[r].serving :
         requests' = [requests EXCEPT ![r].pc = "emit", ![r].count = count_unread(u),
                                      ![r].overtaken = FALSE]
    /\ UNCHANGED <<rows, prefs, told, badge, unsure>>

\* Mutation: the count goes to the first recipient only.
EmitCount_FirstOnly(r) ==
    LET q == requests[r] IN
    /\ At(r, "emit")
    /\ badge' = [u \in Recipients |-> IF u \in q.serving THEN q.count ELSE badge[u]]
    /\ unsure' = IF q.overtaken THEN unsure \cup q.serving ELSE unsure \ q.serving
    /\ End(r)
    /\ UNCHANGED <<rows, prefs, told>>

EmitCount(r) ==
    LET q == requests[r]
        left == q.todo \ q.serving
    IN /\ At(r, "emit")
       /\ badge' = [u \in Recipients |-> IF u \in q.serving THEN q.count ELSE badge[u]]
       /\ unsure' = IF q.overtaken THEN unsure \cup q.serving ELSE unsure \ q.serving
       /\ IF left = {} THEN End(r)
          ELSE requests' = [requests EXCEPT ![r].pc = "event", ![r].todo = left,
                                            ![r].count = 0, ![r].serving = {}]
       /\ UNCHANGED <<rows, prefs, told>>

\* A database error, or the end of the process, at any point: after the commit
\* the remaining events are not sent.
Fail(r) ==
    /\ r \in Busy
    /\ unsure' = IF At(r, "check") THEN unsure ELSE unsure \cup requests[r].todo
    /\ End(r)
    /\ UNCHANGED <<rows, prefs, told, badge>>

RequestStep(r) ==
    \/ (\E u \in Recipients : CheckRecipient(r, u) \/ EmitEvent(r, u))
    \/ CommitCreate(r) \/ CommitRead(r) \/ CommitReadAll(r) \/ CommitDelete(r)
    \/ CommitPrefer(r)
    \/ Count(r) \/ EmitCount(r)

NextNotifications ==
    \/ \E r \in Requests, id \in Ids :
        \/ \E recipients \in (SUBSET Recipients) \ {{}} : BeginCreate(r, id, recipients)
        \/ \E u \in Recipients : BeginRead(r, id, u) \/ BeginDelete(r, id, u)
    \/ \E r \in Requests, u \in Recipients :
        \/ BeginReadAll(r, u)
        \/ \E wanted \in {"on", "off"} : BeginPrefer(r, u, wanted)
    \/ \E r \in Requests : RequestStep(r) \/ Fail(r)

NotificationsSpec == InitNotifications /\ [][NextNotifications]_notificationVars

-----------------------------------------------------------------------------
(* Properties *)

Pending(u) == \E r \in Busy : u \in requests[r].todo /\ ~At(r, "check")

\* Once his requests are through, the count a user was sent last is the number
\* of his unread notifications: only a commit between another request's reading
\* and sending of the count, or a failure after a commit, leaves it wrong, and
\* the next count that is not overtaken puts it right.
BadgeIsRight ==
    \A u \in Recipients \ unsure : ~Pending(u) => badge[u] = count_unread(u)

\* Who has had notifications turned off since before the message was sent is not
\* notified of it, though preferences and rows are read one after the other.
PreferenceIsRespected ==
    [][\A r \in Requests : CommitCreate(r) => requests[r].to \cap requests[r].off = {}]_notificationVars
=============================================================================
