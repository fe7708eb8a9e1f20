------------------------------- MODULE Marks -------------------------------
(***************************************************************************)
(* The rows users attach to messages: read receipts (one for a user and a  *)
(* message, marked singly or in batches) and reactions (one for a user, a  *)
(* message and an emoji).  Both look for a row first, insert it if there   *)
(* is none, and leave it to a UNIQUE constraint to catch the request that  *)
(* was faster.  A batch inserts its receipts one by one in the order given *)
(* (each look-up flushes the receipt before it), so batches can wait for   *)
(* each other's rows, and even for one another.                            *)
(***************************************************************************)
EXTENDS Naturals, FiniteSets, SequencesExt

CONSTANTS
    Users,
    Messages,
    Targets,     \* what is reacted to and how: a message and an emoji
    RowIds,
    Requests

ASSUME MarksAssumption == IsFiniteSet(Messages)

VARIABLES
    receipts,    \* the table message_reads: who has read a message
    reactions,   \* the table message_reactions
    announced,   \* how many requests have sent message(s)_read for a receipt
    shown,       \* the last reaction event the room was sent for a key
    requests,
    \* History, for the properties only:
    disturbed    \* keys two requests were concerned with at a time, or one failed

vars == <<receipts, reactions, announced, shown, requests, disturbed>>
tables == <<receipts, reactions>>
events == <<announced, shown>>

Keys == Targets \X Users
Row == [id: RowIds, key: Keys]

\* validate_message_ids: a batch names some messages, none of them twice.
Batches == {b \in UNION {[1..n -> Messages] : n \in 1..Cardinality(Messages)} : IsInjective(b)}

ReadOps == {"read", "read_many"}
ReactionOps == {"add", "remove"}
NoRequest == [pc |-> "idle"]
Request ==
    [pc: {"look", "commit", "reload", "emit"},
     op: ReadOps \cup ReactionOps, user: Users,
     target: SUBSET Targets,              \* of a reaction
     batch: Batches \cup {<<>>},            \* the messages to mark
     at: 1..(Cardinality(Messages) + 1),  \* the next message of the batch to look up
     adding: SUBSET Messages,             \* the receipt created and not flushed yet
     inserted: SUBSET Messages,           \* the receipts flushed by this request
     row: SUBSET Row]                     \* the reaction found or inserted

TypeOK ==
    /\ receipts \in [Messages -> SUBSET Users]
    /\ reactions \subseteq Row
    /\ announced \in [Messages \X Users -> Nat]
    /\ shown \in [Keys -> {"none", "added", "removed"}]
    /\ requests \in [Requests -> Request \cup {NoRequest}]
    /\ disturbed \subseteq Keys

Init ==
    /\ receipts = [m \in Messages |-> {}]
    /\ reactions = {}
    /\ announced = [k \in Messages \X Users |-> 0]
    /\ shown = [k \in Keys |-> "none"]
    /\ requests = [r \in Requests |-> NoRequest]
    /\ disturbed = {}

-----------------------------------------------------------------------------
(* Requests *)

Busy == {r \in Requests : requests[r] # NoRequest}
At(r, pc) == requests[r].pc = pc
Does(r, ops) == r \in Busy /\ requests[r].op \in ops
Go(r, pc) == requests' = [requests EXCEPT ![r].pc = pc]

\* The request is answered; what it has not committed is rolled back.
End(r) == requests' = [requests EXCEPT ![r] = NoRequest]

NewRequest(op, u, target, batch) ==
    [pc |-> "look", op |-> op, user |-> u, target |-> target, batch |-> batch,
     at |-> 1, adding |-> {}, inserted |-> {}, row |-> {}]

\* Both are served once get_message_for_user has found that the user may see the
\* messages (and may post, for a reaction): a request that is denied does nothing.
BeginRead(r, op, u, batch) ==
    /\ requests[r] = NoRequest
    /\ op = "read" => Len(batch) = 1
    /\ requests' = [requests EXCEPT ![r] = NewRequest(op, u, {}, batch)]
    /\ UNCHANGED <<tables, events, disturbed>>

BeginReaction(r, op, u, target) ==
    /\ requests[r] = NoRequest
    /\ requests' = [requests EXCEPT ![r] = NewRequest(op, u, {target}, <<>>)]
    /\ UNCHANGED <<tables, events, disturbed>>

-----------------------------------------------------------------------------
(* Receipts *)

\* read_repository.get, then create unless there is a receipt.
LookReceipt(r) ==
    LET q == requests[r] IN
    /\ At(r, "look") /\ Does(r, ReadOps)
    /\ q.adding = {} /\ q.at <= Len(q.batch)
    /\ LET m == q.batch[q.at]
           known == q.user \in receipts[m] \/ m \in q.inserted
       IN requests' = [requests EXCEPT ![r].at = @ + 1, ![r].adding = IF known THEN {} ELSE {m}]
    /\ UNCHANGED <<tables, events, disturbed>>

\* An INSERT waits for the transaction that has inserted the same key.
WaitsFor(r) ==
    {q \in Busy \ {r} :
        /\ At(q, "look")
        /\ requests[q].user = requests[r].user
        /\ r \in Busy /\ requests[r].adding \cap requests[q].inserted # {}}

\* Mutations: after the conflict the request goes on as if it had found the
\* receipt, or reports it as its own.
Flush_Continues(r) ==
    LET q == requests[r] IN
    /\ At(r, "look") /\ Does(r, ReadOps)
    /\ q.adding # {} /\ WaitsFor(r) = {}
    /\ requests' = [requests EXCEPT ![r].adding = {},
            ![r].inserted = IF \E m \in q.adding : q.user \in receipts[m] THEN {} ELSE @ \cup q.adding]
    /\ UNCHANGED <<tables, events, disturbed>>
Flush_ReportsCreated(r) ==
    LET q == requests[r] IN
    /\ At(r, "look") /\ Does(r, ReadOps)
    /\ q.adding # {} /\ WaitsFor(r) = {}
    /\ requests' = [requests EXCEPT ![r].adding = {}, ![r].inserted = @ \cup q.adding]
    /\ UNCHANGED <<tables, events, disturbed>>

\* The INSERT, by the next look-up's autoflush or by the commit.  On a conflict
\* all of the transaction is undone: mark_read answers with the receipt that
\* is there, mark_many with an error.
Flush(r) ==
    LET q == requests[r] IN
    /\ At(r, "look") /\ Does(r, ReadOps)
    /\ q.adding # {} /\ WaitsFor(r) = {}
    /\ IF \A m \in q.adding : q.user \notin receipts[m]
       THEN requests' = [requests EXCEPT ![r].adding = {}, ![r].inserted = @ \cup q.adding]
       ELSE IF q.op = "read"
       THEN requests' = [requests EXCEPT ![r].pc = "emit", ![r].adding = {}, ![r].inserted = {}]
       ELSE End(r)
    /\ UNCHANGED <<tables, events, disturbed>>

\* PostgreSQL ends one of the transactions that wait for each other in a circle.
InCircle(r) ==
    \E S \in SUBSET Busy :
        /\ r \in S
        /\ \A q \in S : WaitsFor(q) \cap S # {} /\ \E p \in S : q \in WaitsFor(p)

\* Mutation: the statement is tried again in the same transaction.
Deadlock_RetriesStatement(r) ==
    /\ InCircle(r)
    /\ UNCHANGED vars

\* The error is not an IntegrityError: it ends the request, with a 500.
Deadlock(r) ==
    /\ InCircle(r)
    /\ End(r)
    /\ UNCHANGED <<tables, events, disturbed>>

CommitReceipts(r) ==
    LET q == requests[r] IN
    /\ At(r, "look") /\ Does(r, ReadOps)
    /\ q.adding = {} /\ q.at > Len(q.batch)
    /\ receipts' = [m \in Messages |-> receipts[m] \cup (IF m \in q.inserted THEN {q.user} ELSE {})]
    /\ Go(r, "emit")
    /\ UNCHANGED <<reactions, events, disturbed>>

\* message_read, or messages_read with the receipts the request has created
\* (the handler on the socket sends it once for each of them).
EmitReceipts(r) ==
    LET q == requests[r] IN
    /\ At(r, "emit") /\ Does(r, ReadOps)
    /\ announced' = [k \in Messages \X Users |->
            announced[k] + (IF k[1] \in q.inserted /\ k[2] = q.user THEN 1 ELSE 0)]
    /\ End(r)
    /\ UNCHANGED <<tables, shown, disturbed>>

-----------------------------------------------------------------------------
(* Reactions *)

KeyOf(r) == <<CHOOSE t \in requests[r].target : TRUE, requests[r].user>>
RowsOf(key) == {x \in reactions : x.key = key}
Disturb(r) ==
    disturbed' = IF \E q \in Busy \ {r} : Does(q, ReactionOps) /\ KeyOf(q) = KeyOf(r)
                 THEN disturbed \cup {KeyOf(r)} ELSE disturbed

\* A primary key is a random UUID: never one that a row or a request knows.
Fresh(i) == \A x \in reactions \cup UNION {requests[q].row : q \in Busy} : x.id # i

\* reaction_repository.get: 409 if add_reaction finds one, 404 if
\* remove_reaction finds none.
LookReaction(r) ==
    LET found == RowsOf(KeyOf(r)) IN
    /\ At(r, "look") /\ Does(r, ReactionOps)
    /\ IF (found = {}) = (requests[r].op = "add")
       THEN requests' = [requests EXCEPT ![r].pc = "commit", ![r].row = found]
       ELSE End(r)
    /\ UNCHANGED <<tables, events, disturbed>>

\* uq_message_reaction_user_emoji
Taken(key) == RowsOf(key) # {}

CommitReaction(r) ==
    /\ At(r, "commit") /\ requests[r].op = "add"
    /\ IF Taken(KeyOf(r))
       THEN End(r) /\ UNCHANGED <<reactions, disturbed>>
       ELSE \E i \in RowIds :
            LET row == [id |-> i, key |-> KeyOf(r)] IN
            /\ Fresh(i)
            /\ reactions' = reactions \cup {row}
            /\ requests' = [requests EXCEPT ![r].pc = "reload", ![r].row = {row}]
            /\ Disturb(r)
    /\ UNCHANGED <<receipts, events>>

\* After the commit the row is read again, for the notification and, if that
\* has committed one, once more for the event.  A row that is gone by then is
\* an error 500.
Reload(r) ==
    /\ At(r, "reload")
    /\ IF requests[r].row \subseteq reactions
       THEN Go(r, "emit") \/ UNCHANGED requests
       ELSE End(r)
    /\ UNCHANGED <<tables, events, disturbed>>

\* Mutation: the deletion is not committed.
DeleteReaction_Uncommitted(r) ==
    /\ At(r, "commit") /\ requests[r].op = "remove"
    /\ Go(r, "emit")
    /\ Disturb(r)
    /\ UNCHANGED <<tables, events>>

\* The DELETE is by primary key; that it finds no row is only a warning.
DeleteReaction(r) ==
    /\ At(r, "commit") /\ requests[r].op = "remove"
    /\ reactions' = reactions \ requests[r].row
    /\ Go(r, "emit")
    /\ Disturb(r)
    /\ UNCHANGED <<receipts, events>>

\* Mutation: the event is named after the operation.
EmitReaction_Misnamed(r) ==
    /\ At(r, "emit") /\ Does(r, ReactionOps)
    /\ shown' = [shown EXCEPT ![KeyOf(r)] = requests[r].op]
    /\ End(r)
    /\ UNCHANGED <<tables, announced, disturbed>>

EmitReaction(r) ==
    /\ At(r, "emit") /\ Does(r, ReactionOps)
    /\ shown' = [shown EXCEPT ![KeyOf(r)] = IF requests[r].op = "add" THEN "added" ELSE "removed"]
    /\ End(r)
    /\ UNCHANGED <<tables, announced, disturbed>>

\* A database error, or the end of the process, at any point.
Fail(r) ==
    /\ r \in Busy
    /\ End(r)
    /\ disturbed' = IF requests[r].op \in ReactionOps THEN disturbed \cup {KeyOf(r)} ELSE disturbed
    /\ UNCHANGED <<tables, events>>

ReceiptStep(r) ==
    LookReceipt(r) \/ Flush(r) \/ Deadlock(r) \/ CommitReceipts(r) \/ EmitReceipts(r)
ReactionStep(r) ==
    \/ LookReaction(r) \/ CommitReaction(r) \/ Reload(r) \/ DeleteReaction(r) \/ EmitReaction(r)
RequestStep(r) == ReceiptStep(r) \/ ReactionStep(r)

Next ==
    \/ \E r \in Requests, u \in Users :
        \/ \E op \in ReadOps, b \in Batches : BeginRead(r, op, u, b)
        \/ \E op \in ReactionOps, t \in Targets : BeginReaction(r, op, u, t)
    \/ \E r \in Requests : RequestStep(r) \/ Fail(r)

Spec == Init /\ [][Next]_vars

\* A handler thread runs to its end, and PostgreSQL detects deadlocks.
FairSpec == Spec /\ \A r \in Requests : WF_vars(RequestStep(r))

-----------------------------------------------------------------------------
(* Properties *)

\* Who is answered that his messages are read has a receipt for each of them: a
\* conflict with another request never leaves out part of a batch in silence.
AnsweredMeansRead ==
    \A r \in Busy : At(r, "emit") /\ Does(r, ReadOps) =>
        \A m \in ToSet(requests[r].batch) : requests[r].user \in receipts[m]

\* A receipt is announced by the request that has created it and by no other,
\* however many have tried, and never ahead of its commit.
AnnouncedByItsCreator ==
    \A m \in Messages, u \in Users :
        announced[<<m, u>>] <= (IF u \in receipts[m] THEN 1 ELSE 0)

\* The room's last event about a reaction is right once its requests are
\* through: it takes two at a time, or a failure, to leave it wrong.
RoomKnowsReactions ==
    \A key \in Keys \ disturbed :
        (\A r \in Busy : Does(r, ReactionOps) => KeyOf(r) # key)
            => Cardinality(RowsOf(key)) = IF shown[key] = "added" THEN 1 ELSE 0

\* Requests that insert the same receipts do not wait for each other for ever:
\* unless transactions fail again and again, every wait ends.
WaitsEnd ==
    \/ []<><<\E r \in Requests : Fail(r)>>_vars
    \/ \A r \in Requests : (r \in Busy /\ WaitsFor(r) # {}) ~> (r \notin Busy \/ WaitsFor(r) = {})
=============================================================================
