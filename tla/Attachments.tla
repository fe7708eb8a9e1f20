---------------------------- MODULE Attachments ----------------------------
(***************************************************************************)
(* The attachments of one message.  The metadata are rows of PostgreSQL,   *)
(* the files are objects of a storage service, and no transaction spans    *)
(* the two: an upload stores the object first and the row after it, a      *)
(* deletion hides the row first and removes the object after it.  Any step *)
(* may fail and any request may die between two steps.                     *)
(***************************************************************************)
EXTENDS Integers, FiniteSets, FiniteSetsExt

CONSTANTS
    Users,
    Attachments,          \* ids, each with its own storage path
    Requests,             \* handler threads that work at the same time
    MaxAttachments,       \* MAX_ATTACHMENTS_PER_MESSAGE
    MaxSize,              \* MAX_ATTACHMENT_SIZE_MB
    MaxTotalSize,         \* MAX_TOTAL_ATTACHMENT_SIZE_MB
    Size,                 \* the size of the file behind each id
    Sender,               \* who sent the message
    MaxFailures           \* bound: failures in a behaviour

ASSUME AttachmentsAssumption ==
    /\ IsFiniteSet(Attachments) /\ IsFiniteSet(Requests) /\ Requests # {}
    /\ {MaxAttachments, MaxSize, MaxTotalSize, MaxFailures} \subseteq Nat
    /\ MaxAttachments > 0
    /\ Size \in [Attachments -> 1..MaxSize]
    /\ Sender \in Users

VARIABLES
    members,    \* who has access to the message's channel or conversation
    rows,       \* the table attachments
    objects,    \* the ids whose object is in the bucket
    added,      \* the ids the room was sent attachment_added for
    removed,    \* the ids the room was sent attachment_deleted for
    shows,      \* the ids that clients show: what their last event says
    requests,
    failures,   \* steps that failed, and requests that died, so far
    disturbed,  \* history: ids whose events were emitted in the wrong order, or
                \* whose request ended before it had emitted its event
    unacknowledged  \* history: ids whose row was committed unbeknown to the handler

vars == <<members, rows, objects, added, removed, shows, requests, failures, disturbed,
          unacknowledged>>
stores == <<rows, objects>>
events == <<added, removed, shows, disturbed, unacknowledged>>

NoRow == [state |-> "none", uploader |-> {}]
NoRequest == [pc |-> "idle"]
Request == [pc: {"check", "count", "total", "store", "commit", "clean_up",
                 "announce", "hide", "remove", "announce_deleted"},
            user: Users, attachment: Attachments]

TypeOK ==
    /\ members \subseteq Users
    /\ rows \in [Attachments -> [state: {"none", "active", "deleted"}, uploader: SUBSET Users]]
    /\ objects \subseteq Attachments
    /\ added \subseteq Attachments /\ removed \subseteq Attachments
    /\ requests \in [Requests -> Request \cup {NoRequest}]
    /\ failures \in 0..MaxFailures
    /\ shows \subseteq Attachments /\ disturbed \subseteq Attachments
    /\ unacknowledged \subseteq Attachments

Init ==
    /\ members = Users
    /\ rows = [a \in Attachments |-> NoRow]
    /\ objects = {} /\ added = {} /\ removed = {}
    /\ requests = [r \in Requests |-> NoRequest]
    /\ failures = 0
    /\ shows = {} /\ disturbed = {} /\ unacknowledged = {}

Active == {a \in Attachments : rows[a].state = "active"}
Busy == {r \in Requests : requests[r] # NoRequest}

\* The ids are fresh UUIDs: none is in use anywhere.
Fresh == {a \in Attachments : rows[a] = NoRow /\ a \notin objects
                               /\ \A r \in Busy : requests[r].attachment # a}

SizeOf(s) == MapThenSumSet(LAMBDA a : Size[a], s)

-----------------------------------------------------------------------------
(* Uploading *)

At(r, pc) == requests[r].pc = pc
Go(r, pc) == requests' = [requests EXCEPT ![r].pc = pc]
End(r) == requests' = [requests EXCEPT ![r] = NoRequest]
File(r) == requests[r].attachment

CountFailure == failures < MaxFailures /\ failures' = failures + 1

\* Members come and go; the message itself is never removed.
ChangeMember(u) ==
    /\ members' = IF u \in members THEN members \ {u} ELSE members \cup {u}
    /\ UNCHANGED <<stores, events, requests, failures>>

BeginUpload(r, u, a) ==
    /\ requests[r] = NoRequest /\ a \in Fresh
    /\ requests' = [requests EXCEPT ![r] = [pc |-> "check", user |-> u, attachment |-> a]]
    /\ UNCHANGED <<members, stores, events, failures>>

\* get_message_for_user
CheckAccess(r) ==
    /\ At(r, "check")
    /\ IF requests[r].user \in members THEN Go(r, "count") ELSE End(r)
    /\ UNCHANGED <<members, stores, events, failures>>

\* Mutation: off by one.
CheckCount_OffByOne(r) ==
    /\ At(r, "count")
    /\ IF Cardinality(Active) <= MaxAttachments THEN Go(r, "total") ELSE End(r)
    /\ UNCHANGED <<members, stores, events, failures>>

CheckCount(r) ==
    /\ At(r, "count")
    /\ IF Cardinality(Active) < MaxAttachments THEN Go(r, "total") ELSE End(r)
    /\ UNCHANGED <<members, stores, events, failures>>

\* Mutation: the new file is compared with the limit on its own.
CheckTotal_FileOnly(r) ==
    /\ At(r, "total")
    /\ IF Size[File(r)] <= MaxTotalSize THEN Go(r, "store") ELSE End(r)
    /\ UNCHANGED <<members, stores, events, failures>>

\* A query of its own, after the one that counts.
CheckTotal(r) ==
    /\ At(r, "total")
    /\ IF SizeOf(Active) + Size[File(r)] <= MaxTotalSize THEN Go(r, "store") ELSE End(r)
    /\ UNCHANGED <<members, stores, events, failures>>

\* Mutation: the event before the row.
StoreObject_Announces(r) ==
    /\ At(r, "store")
    /\ objects' = objects \cup {File(r)}
    /\ added' = added \cup {File(r)} /\ shows' = shows \cup {File(r)}
    /\ Go(r, "commit")
    /\ UNCHANGED <<members, rows, removed, failures, disturbed, unacknowledged>>

\* Mutation: a path that is the same for all files of the message.
StoreObject_SharedPath(r) ==
    /\ At(r, "store")
    /\ objects' = objects \cup {"attachments/message"}
    /\ Go(r, "commit")
    /\ UNCHANGED <<members, rows, events, failures>>

StoreObject(r) ==
    /\ At(r, "store")
    /\ objects' = objects \cup {File(r)}
    /\ Go(r, "commit")
    /\ UNCHANGED <<members, rows, events, failures>>

\* StorageUploadError: the object may be there all the same (a lost answer).
StoreFails(r) ==
    /\ At(r, "store") /\ CountFailure
    /\ objects' \in {objects, objects \cup {File(r)}}
    /\ End(r)
    /\ UNCHANGED <<members, rows, events>>

InsertRow(r) ==
    rows' = [rows EXCEPT ![File(r)] = [state |-> "active", uploader |-> {requests[r].user}]]

CommitRow(r) ==
    /\ At(r, "commit")
    /\ InsertRow(r)
    /\ Go(r, "announce")
    /\ UNCHANGED <<members, objects, events, failures>>

\* Mutation: no compensation for a failed transaction.
CommitFails_NoCleanUp(r) ==
    /\ At(r, "commit")
    /\ End(r)
    /\ UNCHANGED <<members, stores, events, failures>>

\* The transaction fails: the object is removed again, and no event is emitted.
CommitFails(r) ==
    /\ At(r, "commit")
    /\ Go(r, "clean_up")
    /\ UNCHANGED <<members, stores, events, failures>>

\* commit() also raises when the row is committed and the answer is lost: the handler
\* takes it for the failure above.
CommitUnacknowledged(r) ==
    /\ At(r, "commit") /\ CountFailure
    /\ InsertRow(r)
    /\ unacknowledged' = unacknowledged \cup {File(r)}
    /\ disturbed' = disturbed \cup {File(r)}
    /\ Go(r, "clean_up")
    /\ UNCHANGED <<members, objects, added, removed, shows>>

CleanUp(r) ==
    /\ At(r, "clean_up")
    /\ objects' = objects \ {File(r)}
    /\ End(r)
    /\ UNCHANGED <<members, rows, events, failures>>

Announce(r) ==
    /\ At(r, "announce")
    /\ added' = added \cup {File(r)}
    /\ shows' = shows \cup {File(r)}
    /\ End(r)
    /\ UNCHANGED <<members, stores, removed, failures, disturbed, unacknowledged>>

-----------------------------------------------------------------------------
(* Deleting *)

\* get_attachment, then the uploader or the sender of the message.
MayDelete(u, a) ==
    a \in Active /\ u \in members /\ (u \in rows[a].uploader \/ u = Sender)

\* Mutation: the object is removed before the row is hidden.
BeginDelete_ObjectFirst(r, u, a) ==
    /\ requests[r] = NoRequest /\ MayDelete(u, a)
    /\ requests' = [requests EXCEPT ![r] = [pc |-> "remove", user |-> u, attachment |-> a]]
    /\ UNCHANGED <<members, stores, events, failures>>

BeginDelete(r, u, a) ==
    /\ requests[r] = NoRequest /\ MayDelete(u, a)
    /\ requests' = [requests EXCEPT ![r] = [pc |-> "hide", user |-> u, attachment |-> a]]
    /\ UNCHANGED <<members, stores, events, failures>>

\* Another request may have hidden the row since: deleted_at is set again.
HideRow(r) ==
    /\ At(r, "hide")
    /\ rows' = [rows EXCEPT ![File(r)].state = "deleted"]
    /\ Go(r, "remove")
    /\ UNCHANGED <<members, objects, events, failures>>

\* Mutation: the deletion is not announced.
RemoveObject_Silent(r) ==
    /\ At(r, "remove")
    /\ objects' = objects \ {File(r)}
    /\ End(r)
    /\ UNCHANGED <<members, rows, events, failures>>

RemoveObject(r) ==
    /\ At(r, "remove")
    /\ objects' = objects \ {File(r)}
    /\ Go(r, "announce_deleted")
    /\ UNCHANGED <<members, rows, events, failures>>

AnnounceDeleted(r) ==
    /\ At(r, "announce_deleted")
    /\ removed' = removed \cup {File(r)}
    /\ shows' = shows \ {File(r)}
    /\ disturbed' = IF File(r) \in added THEN disturbed ELSE disturbed \cup {File(r)}
    /\ End(r)
    /\ UNCHANGED <<members, stores, added, failures, unacknowledged>>

-----------------------------------------------------------------------------
\* A request ends where it stands: the process is killed, the database is
\* away, or the storage service fails in clean_up or remove.
Die(r) ==
    /\ r \in Busy /\ CountFailure
    /\ End(r)
    /\ disturbed' = IF At(r, "announce") \/ At(r, "remove") \/ At(r, "announce_deleted")
                    THEN disturbed \cup {File(r)} ELSE disturbed
    /\ UNCHANGED <<members, stores, added, removed, shows, unacknowledged>>

RequestStep(r) ==
    \/ CheckAccess(r) \/ CheckCount(r) \/ CheckTotal(r)
    \/ StoreObject(r) \/ CommitRow(r) \/ CleanUp(r) \/ Announce(r)
    \/ HideRow(r) \/ RemoveObject(r) \/ AnnounceDeleted(r)

Next ==
    \/ \E u \in Users : ChangeMember(u)
    \/ \E r \in Requests :
        \/ \E u \in Users, a \in Attachments : BeginUpload(r, u, a) \/ BeginDelete(r, u, a)
        \/ RequestStep(r)
        \/ StoreFails(r) \/ CommitFails(r) \/ CommitUnacknowledged(r) \/ Die(r)

Spec == Init /\ [][Next]_vars

-----------------------------------------------------------------------------
(* Properties *)

\* Every attachment a client can see or download has its file, whatever fails, dies
\* or runs at the same time, with one exception: upload_attachment removes the object
\* after any error of the commit, and one of them leaves the row committed.
ActiveHasObject == Active \subseteq objects \cup unacknowledged

\* README, Realtime: "attachment events are emitted only after persistence
\* succeeds".  No room hears of a row that is not committed, or of a deletion
\* that did not happen or whose object is still stored.
EventsFollowPersistence ==
    /\ \A a \in added : rows[a] # NoRow
    /\ \A a \in removed : rows[a].state = "deleted" /\ a \notin objects

\* When the requests on an attachment are through, clients show it exactly if it
\* is active.  Only two things leave them with a file that is gone, or without one
\* that is there: a deletion so early that attachment_deleted is emitted before
\* attachment_added, and a request that ends with its event still to be sent, because
\* it dies or takes its commit for a failure.
RoomShowsActive ==
    \A a \in Attachments \ disturbed :
        (\A r \in Busy : File(r) # a) => (a \in shows <=> a \in Active)

\* Objects nobody refers to and nobody is about to remove.
Handled(a) == \E r \in Busy : File(r) = a /\ requests[r].pc # "announce"
Orphans == {a \in objects \ Active : ~Handled(a)}

\* The bucket leaks only by failures, at most one object for each: requests
\* that interleave in any order never lose one.
LeaksAreFailures == Cardinality(Orphans) <= failures

\* What the limits amount to when requests count and insert in steps: each of
\* the other threads may add one file beyond the limit, and no more ever gets in.
Uploading == {r \in Busy : \E pc \in {"total", "store", "commit"} : At(r, pc)}
CountOverrunIsBounded ==
    Cardinality(Active) + Cardinality(Uploading) < MaxAttachments + Cardinality(Requests)

\* The same for the total size: a thread can add one file of the largest size.
SizeOverrunIsBounded ==
    SizeOf(Active) <= MaxTotalSize + (Cardinality(Requests) - 1) * MaxSize

\* README, Attachments: "Limits are [...] 50 MB total per message, and 10
\* attachments per message".
WithinLimits ==
    Cardinality(Active) <= MaxAttachments /\ SizeOf(Active) <= MaxTotalSize
=============================================================================
