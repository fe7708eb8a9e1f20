------------------------------ MODULE Messages ------------------------------
(***************************************************************************)
(* Sending, editing and deleting messages: the request that checks access, *)
(* commits the row, creates the notifications in a second transaction,     *)
(* reads the row again and broadcasts it to the context's room, while      *)
(* other requests do the same and memberships change.  A commit expires    *)
(* the row a session has loaded; until then the session answers from its   *)
(* identity map, whatever the table has now.  A context is a channel or a  *)
(* direct conversation.                                                    *)
(***************************************************************************)
EXTENDS Naturals, FiniteSets

CONSTANTS
    Users,
    Muted,         \* users whose preference disables message notifications
    Contexts,
    Deletable,     \* the contexts that are channels: conversations stay
    MessageIds,
    Requests,
    MaxVersion     \* bound: texts a message can have over its life

ASSUME MessagesAssumption ==
    /\ Muted \subseteq Users
    /\ Deletable \subseteq Contexts
    /\ MaxVersion \in Nat \ {0}

VARIABLES
    members,       \* who has a membership, or has not left the conversation
    deleted,       \* channels whose row is gone
    rows,          \* the table messages
    notifications, \* the recipients of the notification rows of a message
    delivered,     \* recipients that were sent notification_created
    shown,         \* the text the room was last sent for a message, 0 if none
    answers,       \* what the sender was told about the creation of a message
    requests,
    disturbed      \* history: messages written while somebody had read an older text
                   \* for the room, or whose last event was never sent

vars == <<members, deleted, rows, notifications, delivered, shown, answers, requests, disturbed>>
tables == <<members, deleted, rows, notifications>>
outside == <<delivered, shown, answers, disturbed>>

\* A text is numbered by the commit that wrote it; EmptyText is "".
EmptyText == 0
Texts == 1..MaxVersion

NoRow == [context |-> {}, sender |-> {}, text |-> EmptyText, deleted_at |-> FALSE]
Row == [context: SUBSET Contexts, sender: SUBSET Users,
        text: Texts \cup {EmptyText}, deleted_at: BOOLEAN]

NoRequest == [pc |-> "idle"]
Request ==
    [pc: {"check", "commit", "refresh", "recipients", "notify", "deliver", "load", "emit"},
     op: {"create", "edit", "delete"}, user: Users, message: MessageIds, context: Contexts,
     wrote: Texts \cup {EmptyText},    \* the text this request committed
     payload: Texts \cup {EmptyText},  \* the text its session has loaded since its last commit
     to: SUBSET Users]                 \* recipients still to be notified

TypeOK ==
    /\ members \in [Contexts -> SUBSET Users]
    /\ deleted \subseteq Deletable
    /\ rows \in [MessageIds -> Row]
    /\ notifications \in [MessageIds -> SUBSET Users]
    /\ delivered \in [MessageIds -> SUBSET Users]
    /\ shown \in [MessageIds -> Texts \cup {EmptyText}]
    /\ answers \in [MessageIds -> {"none", "sent", "refused", "error"}]
    /\ requests \in [Requests -> Request \cup {NoRequest}]
    /\ disturbed \subseteq MessageIds

Init ==
    /\ members = [c \in Contexts |-> Users]
    /\ deleted = {}
    /\ rows = [m \in MessageIds |-> NoRow]
    /\ notifications = [m \in MessageIds |-> {}]
    /\ delivered = [m \in MessageIds |-> {}]
    /\ shown = [m \in MessageIds |-> EmptyText]
    /\ answers = [m \in MessageIds |-> "none"]
    /\ requests = [r \in Requests |-> NoRequest]
    /\ disturbed = {}

Stored(m) == rows[m] # NoRow

-----------------------------------------------------------------------------
(* Contexts, as the other components change them *)

\* join, add_member, reopen / leave, remove_member
ChangeMember(c, u) ==
    /\ c \notin deleted
    /\ members' = [members EXCEPT ![c] = IF u \in @ THEN @ \ {u} ELSE @ \cup {u}]
    /\ UNCHANGED <<deleted, rows, notifications, outside, requests>>

\* delete_channel: refused by the foreign key while messages refer to it.
DeleteContext(c) ==
    /\ c \in Deletable \ deleted
    /\ \A m \in MessageIds : c \notin rows[m].context
    /\ deleted' = deleted \cup {c}
    /\ members' = [members EXCEPT ![c] = {}]
    /\ UNCHANGED <<rows, notifications, outside, requests>>

\* create_channel, with its owner as the first member.  Its id is new: the model
\* takes that of a deleted channel which nothing refers to any more.
CreateContext(c, u) ==
    /\ c \in deleted
    /\ \A r \in Requests : requests[r] # NoRequest => requests[r].context # c
    /\ deleted' = deleted \ {c}
    /\ members' = [members EXCEPT ![c] = {u}]
    /\ UNCHANGED <<rows, notifications, outside, requests>>

-----------------------------------------------------------------------------
(* Requests *)

At(r, pc) == requests[r].pc = pc
Go(r, pc) == requests' = [requests EXCEPT ![r].pc = pc]

\* The requests that have written a message and are still to broadcast it.
Underway(m) ==
    {r \in Requests : requests[r] # NoRequest /\ requests[r].message = m
                      /\ requests[r].wrote # EmptyText}

\* Those whose event will show the text they have loaded, not the table's.
HasRead(q) == q.pc = "emit" \/ (q.pc = "load" /\ q.payload # EmptyText)
IsStale(q) == q.payload \notin {EmptyText, rows[q.message].text}

\* Mutation: the answer to any operation is taken for that to the creation.
Answer_AnyOperation(r, answer) ==
    LET q == requests[r] IN
    /\ requests' = [requests EXCEPT ![r] = NoRequest]
    /\ answers' = [answers EXCEPT ![q.message] = IF q.op = "create" THEN answer ELSE q.op]

\* The request ends; the answer to a creation is remembered.
Answer(r, answer) ==
    LET q == requests[r] IN
    /\ requests' = [requests EXCEPT ![r] = NoRequest]
    /\ answers' = IF q.op = "create" THEN [answers EXCEPT ![q.message] = answer] ELSE answers

NewRequest(op, u, m, c) ==
    [pc |-> "check", op |-> op, user |-> u, message |-> m, context |-> c,
     wrote |-> EmptyText, payload |-> EmptyText, to |-> {}]

\* The new row's primary key is a fresh UUID.
BeginCreate(r, u, m, c) ==
    /\ requests[r] = NoRequest
    /\ ~Stored(m) /\ answers[m] = "none"
    /\ \A p \in Requests : requests[p] # NoRequest => requests[p].message # m
    /\ requests' = [requests EXCEPT ![r] = NewRequest("create", u, m, c)]
    /\ UNCHANGED <<tables, outside>>

BeginChange(r, op, u, m, c) ==
    /\ requests[r] = NoRequest
    /\ Stored(m) /\ rows[m].context = {c}
    /\ requests' = [requests EXCEPT ![r] = NewRequest(op, u, m, c)]
    /\ UNCHANGED <<tables, outside>>

can_edit_message(u, m) == rows[m].sender = {u} /\ ~rows[m].deleted_at

\* _context, then the permission on the message.
Check(r) ==
    LET q == requests[r] IN
    /\ At(r, "check")
    /\ IF q.user \in members[q.context]
          /\ (q.op # "create" => can_edit_message(q.user, q.message))
       THEN Go(r, "commit") /\ UNCHANGED answers
       ELSE Answer(r, "refused")
    /\ UNCHANGED <<tables, delivered, shown, disturbed>>

\* ck_messages_content_not_empty
ContentAllowed(text) == text # EmptyText

\* Mutation: a failed INSERT goes unnoticed.
CommitCreate_ErrorSwallowed(r) ==
    LET q == requests[r]
        row == [context |-> {q.context}, sender |-> {q.user}, text |-> 1, deleted_at |-> FALSE]
    IN /\ At(r, "commit") /\ q.op = "create"
       /\ rows' = IF q.context \in deleted THEN rows ELSE [rows EXCEPT ![q.message] = row]
       /\ Go(r, "refresh")
       /\ UNCHANGED <<members, deleted, notifications, outside>>

\* The INSERT and the UPDATE of the context's updated_at, in one transaction;
\* on a deleted channel it fails as a whole, with a 500.
CommitCreate(r) ==
    LET q == requests[r]
        row == [context |-> {q.context}, sender |-> {q.user}, text |-> 1, deleted_at |-> FALSE]
    IN /\ At(r, "commit") /\ q.op = "create"
       /\ IF q.context \in deleted
          THEN Answer(r, "error") /\ UNCHANGED rows
          ELSE /\ rows' = [rows EXCEPT ![q.message] = row]
               /\ requests' = [requests EXCEPT ![r].pc = "refresh", ![r].wrote = 1]
               /\ UNCHANGED answers
       /\ UNCHANGED <<members, deleted, notifications, delivered, shown, disturbed>>

CommitEdit(r) ==
    LET q == requests[r]
        text == rows[q.message].text + 1
    IN /\ At(r, "commit") /\ q.op = "edit"
       /\ text \in Texts
       /\ rows' = [rows EXCEPT ![q.message].text = text]
       /\ requests' = [requests EXCEPT ![r].pc = "load", ![r].wrote = text]
       /\ disturbed' = IF Underway(q.message) = {} THEN disturbed \ {q.message}
            ELSE IF \E p \in Underway(q.message) : HasRead(requests[p])
            THEN disturbed \cup {q.message}
            ELSE disturbed
       /\ UNCHANGED <<members, deleted, notifications, delivered, shown, answers>>

\* delete_message blanks the content along with setting deleted_at; the table's
\* CHECK decides whether the UPDATE goes through.
CommitDelete(r) ==
    LET q == requests[r] IN
    /\ At(r, "commit") /\ q.op = "delete"
    /\ IF ContentAllowed(EmptyText)
       THEN /\ rows' = [rows EXCEPT ![q.message].text = EmptyText,
                                    ![q.message].deleted_at = TRUE]
            /\ Go(r, "load") /\ UNCHANGED answers
       ELSE Answer(r, "error") /\ UNCHANGED rows
    /\ UNCHANGED <<members, deleted, notifications, delivered, shown, disturbed>>

\* notify_message first asks for the channel's id: the row is expired, and read.
Refresh(r) ==
    /\ At(r, "refresh")
    /\ requests' = [requests EXCEPT ![r].pc = "recipients",
                                    ![r].payload = rows[requests[r].message].text]
    /\ UNCHANGED <<tables, outside>>

\* Who is in the context now, except the sender.  With nobody there is no second
\* transaction, and nothing expires what the session has loaded.
ReadRecipients(r) ==
    LET q == requests[r]
        others == members[q.context] \ {q.user}
    IN /\ At(r, "recipients")
       /\ requests' = [requests EXCEPT ![r].pc = IF others = {} THEN "load" ELSE "notify",
                                       ![r].to = others \ Muted]
       /\ disturbed' = IF others = {} /\ IsStale(q) THEN disturbed \cup {q.message}
                       ELSE disturbed
       /\ UNCHANGED <<tables, delivered, shown, answers>>

\* Mutation: the notifications are sent although their transaction was undone.
CommitNotifications_Undone(r) ==
    /\ At(r, "notify")
    /\ requests' = [requests EXCEPT ![r].pc = IF requests[r].to = {} THEN "load" ELSE "deliver",
                                    ![r].payload = EmptyText]
    /\ UNCHANGED <<tables, outside>>

\* Mutation: nobody to notify is taken for nothing to broadcast.
CommitNotifications_ReturnsEarly(r) ==
    LET q == requests[r] IN
    /\ At(r, "notify")
    /\ notifications' = [notifications EXCEPT ![q.message] = @ \cup q.to]
    /\ IF q.to = {} THEN Answer(r, "sent") ELSE Go(r, "deliver") /\ UNCHANGED answers
    /\ UNCHANGED <<members, deleted, rows, delivered, shown, disturbed>>

\* Mutation: expire_on_commit is switched off.
CommitNotifications_KeepsCopy(r) ==
    LET q == requests[r] IN
    /\ At(r, "notify")
    /\ notifications' = [notifications EXCEPT ![q.message] = @ \cup q.to]
    /\ Go(r, IF q.to = {} THEN "load" ELSE "deliver")
    /\ UNCHANGED <<members, deleted, rows, outside>>

\* create_many_notifications commits one row per recipient who has them on; the
\* commit, even of none, expires the message.
CommitNotifications(r) ==
    LET q == requests[r] IN
    /\ At(r, "notify")
    /\ notifications' = [notifications EXCEPT ![q.message] = @ \cup q.to]
    /\ requests' = [requests EXCEPT ![r].pc = IF q.to = {} THEN "load" ELSE "deliver",
                                    ![r].payload = EmptyText]
    /\ UNCHANGED <<members, deleted, rows, outside>>

\* _deliver_created, one recipient after the other.
Deliver(r, u) ==
    LET q == requests[r] IN
    /\ At(r, "deliver") /\ u \in q.to
    /\ delivered' = [delivered EXCEPT ![q.message] = @ \cup {u}]
    /\ requests' = [requests EXCEPT ![r].pc = IF q.to = {u} THEN "load" ELSE @,
                                    ![r].to = @ \ {u}]
    /\ UNCHANGED <<tables, shown, answers, disturbed>>

\* get_by_id has no populate_existing: it reads a row that is expired, and otherwise
\* returns the copy that is there.
Load(r) ==
    /\ At(r, "load")
    /\ requests' = [requests EXCEPT ![r].pc = "emit",
            ![r].payload = IF @ = EmptyText THEN rows[requests[r].message].text ELSE @]
    /\ UNCHANGED <<tables, outside>>

Emit(r) ==
    /\ At(r, "emit")
    /\ shown' = [shown EXCEPT ![requests[r].message] = requests[r].payload]
    /\ Answer(r, "sent")
    /\ UNCHANGED <<tables, delivered, disturbed>>

\* create_message logs whatever notify_message raises and goes on: the message
\* is broadcast, the recipients still in .to are never notified.  If the error came
\* with a rollback, that has expired the row.
SkipNotifying(r) ==
    LET q == requests[r] IN
    /\ \E pc \in {"refresh", "recipients", "notify", "deliver"} : At(r, pc)
    /\ \E payload \in {EmptyText, q.payload} :
        /\ requests' = [requests EXCEPT ![r].pc = "load", ![r].to = {}, ![r].payload = payload]
        /\ disturbed' = IF payload # EmptyText /\ IsStale(q) THEN disturbed \cup {q.message}
                        ELSE disturbed
    /\ UNCHANGED <<tables, delivered, shown, answers>>

\* A database error: before the commit it undoes the request, after it the row
\* stays, the session is unusable and the request ends in a 500 without an
\* event.
Fail(r) ==
    /\ requests[r] # NoRequest /\ ~At(r, "emit")
    /\ Answer(r, "error")
    /\ disturbed' = IF r \in Underway(requests[r].message)
                    THEN disturbed \cup {requests[r].message} ELSE disturbed
    /\ UNCHANGED <<tables, delivered, shown>>

RequestStep(r) ==
    \/ Check(r)
    \/ CommitCreate(r) \/ CommitEdit(r) \/ CommitDelete(r)
    \/ Refresh(r) \/ ReadRecipients(r) \/ CommitNotifications(r) \/ (\E u \in Users : Deliver(r, u))
    \/ Load(r) \/ Emit(r)

Next ==
    \/ \E c \in Contexts, u \in Users : ChangeMember(c, u) \/ CreateContext(c, u)
    \/ \E c \in Contexts : DeleteContext(c)
    \/ \E r \in Requests, u \in Users, m \in MessageIds, c \in Contexts :
        \/ BeginCreate(r, u, m, c)
        \/ \E op \in {"edit", "delete"} : BeginChange(r, op, u, m, c)
    \/ \E r \in Requests : RequestStep(r) \/ SkipNotifying(r) \/ Fail(r)

Spec == Init /\ [][Next]_vars

\* A handler thread runs to its end (or fails); clients need not do anything.
FairSpec == Spec /\ \A r \in Requests : WF_vars(RequestStep(r))

-----------------------------------------------------------------------------
(* Properties *)

\* Nothing reaches a client ahead of the database: no room is shown, and no
\* handler holds, a text that is not committed yet, and notification_created
\* is sent only for a row that is there.
NothingAheadOfTheDatabase ==
    /\ \A m \in MessageIds :
        /\ shown[m] <= rows[m].text
        /\ delivered[m] \subseteq notifications[m]
        /\ notifications[m] # {} => Stored(m)
    /\ \A r \in Requests : requests[r] # NoRequest =>
        /\ requests[r].payload <= rows[requests[r].message].text
        /\ requests[r].wrote <= rows[requests[r].message].text

\* The sender can rely on a definite answer: "sent" means stored and shown,
\* "refused" means there is no such message.  Only an error leaves it open.
AnswersAreTrue ==
    \A m \in MessageIds :
        /\ answers[m] = "sent" => Stored(m) /\ shown[m] # EmptyText
        /\ answers[m] = "refused" => ~Stored(m)

\* Once the requests on a message are through, what the room was shown last is
\* what the table has, though editions may commit in one order and be broadcast
\* in the other: the row is read again after a request's last commit.  This goes
\* wrong only if an edition commits after another request has read the text it
\* will broadcast, or if a request fails after its commit.  A creation that finds
\* nobody to notify has no second commit: the text it will broadcast is the one it
\* read before it looked for recipients.
LatestTextIsShown ==
    \A m \in MessageIds \ disturbed :
        Underway(m) = {} => shown[m] = rows[m].text

\* A stored message is eventually broadcast, whatever becomes of its
\* notifications, unless its request fails.
StoredIsBroadcast ==
    \A m \in MessageIds : Stored(m) ~> (shown[m] # EmptyText \/ answers[m] = "error")

\* What the tests say of the sender of a message that is not deleted
\* ("only sender can edit or delete non deleted message"): a deletion that has
\* passed the checks deletes.
SenderCanDelete ==
    [][\A r \in Requests : CommitDelete(r) => rows'[requests[r].message].deleted_at]_vars
=============================================================================
