------------------------- MODULE AttachmentsProofs -------------------------
(***************************************************************************)
(* Theorems of Attachments, for any users, files, limits and number of     *)
(* threads.  FilesInv says what each request knows of the row and the      *)
(* object of its file, and that an upload is alone with its file until its *)
(* row is there, whether or not its handler knows that it is; the count of *)
(* active files is bounded together with the uploads that are past the     *)
(* check on the count.  EventsInv adds what the room was shown             *)
(* and which events are still to come; the leaked objects are counted      *)
(* step by step. The last part is about sums of sizes, and bounds the      *)
(* total together with the files that are past the check on the total.     *)
(***************************************************************************)
EXTENDS Attachments, FiniteSetTheorems, WellFoundedInduction, TLAPS

\* The steps of an upload before its row, and what each request knows of the
\* row and the object of its file.
Before == {"check", "count", "total", "store", "commit"}

\* Nothing else is concerned with a file whose upload has no row yet.
UploadsAreAlone ==
    \A r \in Requests : requests[r].pc \in Before =>
        /\ rows[File(r)] = NoRow
        /\ \A p \in Requests \ {r} : requests[p] # NoRequest => File(p) # File(r)

RequestsMatchRows ==
    \A r \in Requests :
        /\ At(r, "commit") => File(r) \in objects
        /\ At(r, "clean_up") => rows[File(r)].state # "active" \/ File(r) \in unacknowledged
        /\ At(r, "announce") \/ At(r, "hide") => rows[File(r)].state # "none"
        /\ At(r, "remove") \/ At(r, "announce_deleted") => rows[File(r)].state = "deleted"
        /\ At(r, "announce_deleted") => File(r) \notin objects

FilesInv == TypeOK /\ UploadsAreAlone /\ RequestsMatchRows
                   /\ ActiveHasObject /\ EventsFollowPersistence

\* What the type of requests says of one of them.
LEMMA RequestType ==
    ASSUME TypeOK, NEW r \in Requests, requests[r].pc # "idle"
    PROVE  requests[r] \in Request /\ requests[r] # NoRequest /\ File(r) \in Attachments
BY DEF TypeOK, Request, NoRequest, File

Pcs == {"check", "count", "total", "store", "commit", "clean_up",
        "announce", "hide", "remove", "announce_deleted"}

\* A request record with another pc is a request record.
LEMMA NextPc ==
    ASSUME NEW q \in Request, NEW pc \in Pcs
    PROVE  LET n == [q EXCEPT !.pc = pc] IN
           n \in Request /\ n.pc = pc /\ n.attachment = q.attachment /\ n.user = q.user
BY DEF Request, Pcs

\* What Go changes.
LEMMA GoFacts ==
    ASSUME TypeOK, NEW r \in Requests, requests[r].pc # "idle", NEW pc \in Pcs, Go(r, pc)
    PROVE  /\ requests' \in [Requests -> Request \cup {NoRequest}]
           /\ \A p \in Requests \ {r} : requests'[p] = requests[p]
           /\ requests'[r].pc = pc /\ requests'[r] # NoRequest
           /\ File(r)' = File(r)
<1>. DEFINE n == [requests[r] EXCEPT !.pc = pc]
<1>1. requests \in [Requests -> Request \cup {NoRequest}] BY DEF TypeOK
<1>2. requests[r] \in Request BY RequestType
<1>3. n \in Request /\ n.pc = pc /\ n.attachment = requests[r].attachment
    BY <1>2, NextPc
<1>4. n # NoRequest BY <1>3 DEF NoRequest, Pcs
<1>5. requests' = [requests EXCEPT ![r] = n] BY DEF Go
<1>. HIDE DEF n
<1>. QED BY <1>1, <1>3, <1>4, <1>5 DEF File

\* What End changes.
LEMMA EndFacts ==
    ASSUME TypeOK, NEW r \in Requests, End(r)
    PROVE  /\ requests' \in [Requests -> Request \cup {NoRequest}]
           /\ \A p \in Requests \ {r} : requests'[p] = requests[p]
           /\ requests'[r] = NoRequest
BY DEF TypeOK, End

\* What one request requires of its file's row and object.
Matches(r) ==
    /\ requests[r].pc \in Before => rows[File(r)] = NoRow
    /\ At(r, "commit") => File(r) \in objects
    /\ At(r, "clean_up") => rows[File(r)].state # "active" \/ File(r) \in unacknowledged
    /\ At(r, "announce") \/ At(r, "hide") => rows[File(r)].state # "none"
    /\ At(r, "remove") \/ At(r, "announce_deleted") => rows[File(r)].state = "deleted"
    /\ At(r, "announce_deleted") => File(r) \notin objects

\* A step of one request that ends it or advances it along the same upload or
\* deletion, leaves what the others rely on, and establishes what it relies on.
LEMMA OneRequestMoves ==
    ASSUME FilesInv, NEW r \in Requests, requests[r].pc # "idle",
           \A p \in Requests \ {r} : requests'[p] = requests[p],
           \/ requests'[r] = NoRequest
           \/ File(r)' = File(r) /\ (requests'[r].pc \in Before => requests[r].pc \in Before)
                /\ Matches(r)',
           \A p \in Requests \ {r} : requests[p] # NoRequest => Matches(p)'
    PROVE  UploadsAreAlone' /\ RequestsMatchRows'
<1>. USE DEF File, At
<1>1. \A p \in Requests : requests[p] = NoRequest => requests[p].pc = "idle"
    BY DEF NoRequest
<1>2. requests'[r] = NoRequest => requests'[r].pc = "idle"
    BY DEF NoRequest
<1>3. requests[r] # NoRequest BY <1>1
<1>4. \A p \in Requests : requests'[p].pc \in Before \cup {"commit", "clean_up", "announce", "hide", "remove", "announce_deleted"}
                            => Matches(p)'
    <2> TAKE p \in Requests
    <2>1. CASE p = r BY <2>1, <1>2 DEF Before
    <2>2. CASE p # r BY <2>2, <1>1 DEF Before
    <2>. QED BY <2>1, <2>2
<1>5. RequestsMatchRows' BY <1>4 DEF RequestsMatchRows, Matches
<1>6. ASSUME NEW p \in Requests, requests'[p].pc \in Before,
             NEW q \in Requests \ {p}, requests'[q] # NoRequest
      PROVE  requests'[q].attachment # requests'[p].attachment
    <2>1. CASE p = r BY <2>1, <1>2, <1>6 DEF FilesInv, UploadsAreAlone, Before
    <2>2. CASE q = r BY <2>2, <1>3, <1>6 DEF FilesInv, UploadsAreAlone
    <2>3. CASE p # r /\ q # r BY <2>3, <1>6 DEF FilesInv, UploadsAreAlone
    <2>. QED BY <2>1, <2>2, <2>3
<1>7. \A p \in Requests : requests'[p].pc \in Before => rows'[requests'[p].attachment] = NoRow
    BY <1>4 DEF Matches
<1>. QED BY <1>5, <1>6, <1>7 DEF UploadsAreAlone

\* The others rely on rows and objects of other files, or of this one in ways
\* that a step which only hides and removes does not disturb.
LEMMA MatchesNow ==
    ASSUME FilesInv, NEW r \in Requests
    PROVE  Matches(r)
BY DEF FilesInv, UploadsAreAlone, RequestsMatchRows, Matches

\* A step that touches neither the rows nor the bucket.
LEMMA QuietStep ==
    ASSUME FilesInv, NEW r \in Requests, requests[r].pc # "idle",
           UNCHANGED <<stores, unacknowledged>>,
           End(r) \/ \E pc \in Pcs : Go(r, pc)
                        /\ (pc \in Before => requests[r].pc \in Before)
                        /\ (requests'[r].pc = pc => Matches(r)')
    PROVE  /\ UploadsAreAlone' /\ RequestsMatchRows' /\ ActiveHasObject'
           /\ requests' \in [Requests -> Request \cup {NoRequest}]
<1>0. TypeOK BY DEF FilesInv
<1>1. ActiveHasObject' BY DEF FilesInv, ActiveHasObject, Active, stores
<1>2. ASSUME NEW p \in Requests, requests'[p] = requests[p] PROVE Matches(p)'
    BY <1>2, MatchesNow DEF Matches, stores, File, At
<1>3. CASE End(r)
    BY <1>0, <1>1, <1>2, <1>3, EndFacts, OneRequestMoves
<1>4. CASE \E pc \in Pcs : Go(r, pc) /\ (pc \in Before => requests[r].pc \in Before)
                             /\ (requests'[r].pc = pc => Matches(r)')
    BY <1>0, <1>1, <1>2, <1>4, GoFacts, OneRequestMoves
<1>. QED BY <1>3, <1>4

\* The steps that only move a request along.
LEMMA Moves ==
    ASSUME FilesInv, NEW r \in Requests,
           \/ CheckAccess(r) \/ CheckCount(r) \/ CheckTotal(r)
           \/ CommitFails(r) \/ Announce(r) \/ AnnounceDeleted(r) \/ Die(r)
    PROVE  FilesInv'
<1>. USE AttachmentsAssumption
<1>0. TypeOK BY DEF FilesInv
<1>1. requests[r].pc # "idle"
    <2>1. CASE Die(r)
        BY <1>0, <2>1 DEF Die, Busy, TypeOK, Request, NoRequest
    <2>. QED BY <2>1 DEF CheckAccess, CheckCount, CheckTotal, CommitFails, Announce,
                         AnnounceDeleted, At
<1>2. UNCHANGED <<stores, unacknowledged>>
    BY DEF CheckAccess, CheckCount, CheckTotal, CommitFails, Announce, AnnounceDeleted, Die, events
<1>3. Matches(r) BY MatchesNow
<1>4. End(r) \/ \E pc \in Pcs : Go(r, pc)
                        /\ (pc \in Before => requests[r].pc \in Before)
                        /\ (requests'[r].pc = pc => Matches(r)')
    <2>1. ASSUME NEW pc \in {"count", "total", "store"}, Go(r, pc), requests[r].pc \in Before
          PROVE  pc \in Pcs /\ pc \in Before /\ Matches(r)'
        BY <1>0, <1>1, <1>2, <1>3, <2>1, GoFacts DEF Matches, At, Pcs, Before, stores
    <2>2. CASE CheckAccess(r)
        BY <2>1, <2>2 DEF CheckAccess, At, Before
    <2>3. CASE CheckCount(r)
        BY <2>1, <2>3 DEF CheckCount, At, Before
    <2>4. CASE CheckTotal(r)
        BY <2>1, <2>4 DEF CheckTotal, At, Before
    <2>5. CASE CommitFails(r)
        <3>1. Go(r, "clean_up") /\ requests[r].pc \in Before BY <2>5 DEF CommitFails, At, Before
        <3>2. "clean_up" \in Pcs BY DEF Pcs
        <3>3. rows[File(r)].state # "active" BY <1>3, <3>1 DEF Matches, NoRow
        <3>4. Matches(r)'
            BY <1>0, <1>1, <1>2, <3>1, <3>2, <3>3, GoFacts DEF Matches, At, Before, stores
        <3>. QED BY <3>1, <3>2, <3>4
    <2>6. CASE Announce(r) \/ AnnounceDeleted(r) \/ Die(r)
        BY <2>6 DEF Announce, AnnounceDeleted, Die
    <2>. QED BY <2>2, <2>3, <2>4, <2>5, <2>6
<1>5. /\ UploadsAreAlone' /\ RequestsMatchRows' /\ ActiveHasObject'
      /\ requests' \in [Requests -> Request \cup {NoRequest}]
    BY <1>1, <1>2, <1>4, QuietStep
<1>6. EventsFollowPersistence'
    <2>1. CASE UNCHANGED <<added, removed>>
        BY <1>2, <2>1 DEF FilesInv, EventsFollowPersistence, stores
    <2>2. CASE Announce(r)
        BY <1>1, <1>2, <1>3, <2>2 DEF FilesInv, EventsFollowPersistence, stores, Announce, Matches, At, NoRow
    <2>3. CASE AnnounceDeleted(r)
        BY <1>1, <1>2, <1>3, <2>3 DEF FilesInv, EventsFollowPersistence, stores, AnnounceDeleted, Matches, At
    <2>. QED BY <2>1, <2>2, <2>3 DEF CheckAccess, CheckCount, CheckTotal, CommitFails, Die, events
<1>7. TypeOK'
    <2>1. /\ added' \subseteq Attachments /\ removed' \subseteq Attachments
          /\ shows' \subseteq Attachments /\ disturbed' \subseteq Attachments
          /\ unacknowledged' \subseteq Attachments
        BY <1>0, <1>1, <1>2, RequestType
        DEF TypeOK, CheckAccess, CheckCount, CheckTotal, CommitFails, Announce, AnnounceDeleted, Die, events
    <2>2. members' \subseteq Users /\ failures' \in 0..MaxFailures
        BY <1>0
        DEF TypeOK, CheckAccess, CheckCount, CheckTotal, CommitFails, Announce, AnnounceDeleted, Die, CountFailure
    <2>. QED BY <1>0, <1>2, <1>5, <2>1, <2>2 DEF TypeOK, stores
<1>. QED BY <1>5, <1>6, <1>7 DEF FilesInv

\* Storing the object of an upload, whether or not the service says so.
LEMMA Stores ==
    ASSUME FilesInv, NEW r \in Requests, StoreObject(r) \/ StoreFails(r)
    PROVE  FilesInv'
<1>. USE AttachmentsAssumption
<1>0. TypeOK BY DEF FilesInv
<1>1. At(r, "store") BY DEF StoreObject, StoreFails
<1>2. requests[r].pc # "idle" /\ requests[r].pc \in Before BY <1>1 DEF At, Before
<1>3. /\ UNCHANGED <<members, rows, added, removed, shows, disturbed, unacknowledged>>
      /\ objects' \in {objects, objects \cup {File(r)}}
      /\ failures' \in 0..MaxFailures
    BY <1>0 DEF StoreObject, StoreFails, CountFailure, events, TypeOK
<1>4. rows[File(r)] = NoRow BY <1>2, MatchesNow DEF Matches
<1>5. \A p \in Requests \ {r} : requests[p] # NoRequest => File(p) # File(r)
    BY <1>2 DEF FilesInv, UploadsAreAlone
<1>6. ASSUME NEW p \in Requests \ {r}, requests[p] # NoRequest, requests'[p] = requests[p]
      PROVE  Matches(p)'
    BY <1>3, <1>5, <1>6, MatchesNow DEF Matches, File, At
<1>7. /\ \A p \in Requests \ {r} : requests'[p] = requests[p]
      /\ requests' \in [Requests -> Request \cup {NoRequest}]
      /\ requests'[r] = NoRequest \/ (File(r)' = File(r) /\ requests'[r].pc = "commit" /\ Matches(r)')
    <2>1. CASE StoreObject(r)
        <3>1. Go(r, "commit") /\ objects' = objects \cup {File(r)} BY <2>1 DEF StoreObject
        <3>2. "commit" \in Pcs BY DEF Pcs
        <3>. QED BY <1>0, <1>2, <1>3, <1>4, <3>1, <3>2, GoFacts DEF Matches, At, Before
    <2>2. CASE StoreFails(r)
        BY <1>0, <2>2, EndFacts DEF StoreFails
    <2>. QED BY <2>1, <2>2
<1>8. UploadsAreAlone' /\ RequestsMatchRows'
    BY <1>2, <1>6, <1>7, OneRequestMoves
<1>9. ActiveHasObject' BY <1>3 DEF FilesInv, ActiveHasObject, Active
<1>10. EventsFollowPersistence'
    BY <1>3, <1>4 DEF FilesInv, EventsFollowPersistence, NoRow
<1>11. TypeOK' BY <1>0, <1>2, <1>3, <1>7, RequestType DEF TypeOK
<1>. QED BY <1>8, <1>9, <1>10, <1>11 DEF FilesInv

\* The row of an upload, acknowledged or not: its object is there, and no other
\* request knows of it.
Inserting(r) == CommitRow(r) \/ CommitUnacknowledged(r)

\* What an inserting step does, whatever the handler takes it for.
LEMMA InsertFacts ==
    ASSUME TypeOK, NEW r \in Requests, Inserting(r)
    PROVE  /\ At(r, "commit") /\ InsertRow(r)
           /\ UNCHANGED <<members, objects, added, removed, shows>>
           /\ \A p \in Requests \ {r} : requests'[p] = requests[p]
           /\ requests' \in [Requests -> Request \cup {NoRequest}]
           /\ File(r)' = File(r) /\ requests'[r] # NoRequest
           /\ \/ /\ requests'[r].pc = "announce"
                 /\ UNCHANGED <<disturbed, unacknowledged, failures>>
              \/ /\ requests'[r].pc = "clean_up" /\ failures' = failures + 1
                 /\ failures' \in 0..MaxFailures
                 /\ disturbed' = disturbed \cup {File(r)}
                 /\ unacknowledged' = unacknowledged \cup {File(r)}
<1>1. At(r, "commit") BY DEF Inserting, CommitRow, CommitUnacknowledged
<1>2. requests[r].pc # "idle" /\ "announce" \in Pcs /\ "clean_up" \in Pcs BY <1>1 DEF At, Pcs
<1>3. CASE CommitRow(r)
    <2>1. Go(r, "announce") /\ UNCHANGED <<disturbed, unacknowledged, failures>>
        BY <1>3 DEF CommitRow, events
    <2>. QED BY <1>1, <1>2, <1>3, <2>1, GoFacts DEF CommitRow, events
<1>4. CASE CommitUnacknowledged(r)
    <2>1. failures' = failures + 1 /\ failures' \in 0..MaxFailures
        BY <1>4, AttachmentsAssumption DEF CommitUnacknowledged, CountFailure, TypeOK
    <2>2. Go(r, "clean_up") BY <1>4 DEF CommitUnacknowledged
    <2>. QED BY <1>1, <1>2, <1>4, <2>1, <2>2, GoFacts DEF CommitUnacknowledged
<1>. QED BY <1>3, <1>4 DEF Inserting

LEMMA Commits ==
    ASSUME FilesInv, NEW r \in Requests, Inserting(r)
    PROVE  FilesInv'
<1>0. TypeOK BY DEF FilesInv
<1>1. /\ At(r, "commit") /\ InsertRow(r)
      /\ UNCHANGED <<members, objects, added, removed, shows>>
      /\ \A p \in Requests \ {r} : requests'[p] = requests[p]
      /\ requests' \in [Requests -> Request \cup {NoRequest}]
      /\ File(r)' = File(r)
    BY <1>0, InsertFacts
<1>2. requests[r].pc # "idle" /\ requests[r].pc \in Before
    BY <1>1 DEF At, Before
<1>. DEFINE row == [state |-> "active", uploader |-> {requests[r].user}]
<1>3. rows' = [rows EXCEPT ![File(r)] = row] BY <1>1 DEF InsertRow
<1>4. rows[File(r)] = NoRow /\ File(r) \in objects
    BY <1>1, <1>2, MatchesNow DEF Matches
<1>5. /\ row \in [state: {"none", "active", "deleted"}, uploader: SUBSET Users]
      /\ row.state = "active" /\ row # NoRow
    BY <1>0, <1>2, RequestType DEF Request, NoRow
<1>6. File(r) \in Attachments /\ rows \in [Attachments -> [state: {"none", "active", "deleted"}, uploader: SUBSET Users]]
    BY <1>0, <1>2, RequestType DEF TypeOK
<1>. HIDE DEF row
<1>7. rows'[File(r)] = row /\ \A a \in Attachments \ {File(r)} : rows'[a] = rows[a]
    BY <1>3, <1>6
<1>8. /\ \/ requests'[r].pc = "announce"
         \/ requests'[r].pc = "clean_up" /\ File(r) \in unacknowledged'
      /\ disturbed' \subseteq Attachments /\ failures' \in 0..MaxFailures
      /\ unacknowledged \subseteq unacknowledged' /\ unacknowledged' \subseteq Attachments
    <2>1. CASE UNCHANGED <<disturbed, unacknowledged, failures>> /\ requests'[r].pc = "announce"
        BY <1>0, <2>1 DEF TypeOK
    <2>2. CASE /\ requests'[r].pc = "clean_up" /\ failures' \in 0..MaxFailures
               /\ disturbed' = disturbed \cup {File(r)}
               /\ unacknowledged' = unacknowledged \cup {File(r)}
        BY <1>0, <1>6, <2>2 DEF TypeOK
    <2>. QED BY <1>0, <2>1, <2>2, InsertFacts
<1>9. Matches(r)' BY <1>1, <1>5, <1>7, <1>8 DEF Matches, At, Before
<1>10. ASSUME NEW p \in Requests \ {r}, requests[p] # NoRequest
       PROVE  Matches(p)'
    <2>1. File(p) # File(r) BY <1>2, <1>10 DEF FilesInv, UploadsAreAlone
    <2>2. CASE requests[p].pc = "idle"
        BY <1>1, <2>2 DEF Matches, At, Before
    <2>3. CASE requests[p].pc # "idle"
        <3>1. File(p) \in Attachments BY <1>0, <2>3, RequestType
        <3>. QED BY <1>1, <1>7, <1>8, <2>1, <3>1, MatchesNow DEF Matches, File, At
    <2>. QED BY <2>2, <2>3
<1>11. UploadsAreAlone' /\ RequestsMatchRows'
    BY <1>1, <1>2, <1>8, <1>9, <1>10, OneRequestMoves DEF Before
<1>12. ActiveHasObject'
    BY <1>1, <1>4, <1>7, <1>8 DEF FilesInv, ActiveHasObject, Active
<1>13. EventsFollowPersistence'
    BY <1>0, <1>1, <1>4, <1>5, <1>7 DEF FilesInv, EventsFollowPersistence, NoRow, TypeOK
<1>14. TypeOK'
    <2>1. rows' \in [Attachments -> [state: {"none", "active", "deleted"}, uploader: SUBSET Users]]
        BY <1>3, <1>5, <1>6
    <2>. QED BY <1>0, <1>1, <1>8, <2>1 DEF TypeOK
<1>. QED BY <1>11, <1>12, <1>13, <1>14 DEF FilesInv

\* Hiding a row only takes it out of the active ones.
LEMMA Hides ==
    ASSUME FilesInv, NEW r \in Requests, HideRow(r)
    PROVE  FilesInv'
<1>0. TypeOK BY DEF FilesInv
<1>1. At(r, "hide") /\ Go(r, "remove") BY DEF HideRow
<1>2. requests[r].pc # "idle" /\ "remove" \in Pcs BY <1>1 DEF At, Pcs
<1>. DEFINE row == [rows[File(r)] EXCEPT !.state = "deleted"]
<1>3. /\ UNCHANGED <<members, objects, added, removed, shows, disturbed, unacknowledged, failures>>
      /\ rows' = [rows EXCEPT ![File(r)] = row]
    BY DEF HideRow, events
<1>4. rows[File(r)].state # "none" BY <1>1, MatchesNow DEF Matches
<1>5. File(r) \in Attachments /\ rows \in [Attachments -> [state: {"none", "active", "deleted"}, uploader: SUBSET Users]]
    BY <1>0, <1>2, RequestType DEF TypeOK
<1>6. /\ row \in [state: {"none", "active", "deleted"}, uploader: SUBSET Users]
      /\ row.state = "deleted" /\ row # NoRow
    BY <1>5 DEF NoRow
<1>. HIDE DEF row
<1>7. rows'[File(r)] = row /\ \A a \in Attachments \ {File(r)} : rows'[a] = rows[a]
    BY <1>3, <1>5
<1>8. /\ \A p \in Requests \ {r} : requests'[p] = requests[p]
      /\ requests' \in [Requests -> Request \cup {NoRequest}]
      /\ File(r)' = File(r) /\ requests'[r].pc = "remove"
    BY <1>0, <1>1, <1>2, GoFacts
<1>9. Matches(r)' BY <1>6, <1>7, <1>8 DEF Matches, At, Before
<1>10. ASSUME NEW p \in Requests \ {r}, requests[p] # NoRequest
       PROVE  Matches(p)'
    <2>1. CASE requests[p].pc = "idle"
        BY <1>8, <2>1 DEF Matches, At, Before
    <2>2. CASE requests[p].pc # "idle"
        <3>1. File(p) \in Attachments BY <1>0, <2>2, RequestType
        <3>2. File(p) = File(r) => requests[p].pc \notin Before
            BY <1>4, MatchesNow DEF Matches, NoRow
        <3>. QED BY <1>3, <1>6, <1>7, <1>8, <3>1, <3>2, MatchesNow DEF Matches, File, At, Before
    <2>. QED BY <2>1, <2>2
<1>11. UploadsAreAlone' /\ RequestsMatchRows'
    BY <1>2, <1>8, <1>9, <1>10, OneRequestMoves DEF Before
<1>12. ActiveHasObject'
    BY <1>3, <1>6, <1>7 DEF FilesInv, ActiveHasObject, Active
<1>13. EventsFollowPersistence'
    BY <1>0, <1>3, <1>6, <1>7 DEF FilesInv, EventsFollowPersistence, TypeOK
<1>14. TypeOK' BY <1>0, <1>3, <1>5, <1>6, <1>8 DEF TypeOK
<1>. QED BY <1>11, <1>12, <1>13, <1>14 DEF FilesInv

\* The two steps that remove an object: of an upload whose commit has failed, or
\* so the handler thinks, and of a row that is hidden.
LEMMA Removes ==
    ASSUME FilesInv, NEW r \in Requests, CleanUp(r) \/ RemoveObject(r)
    PROVE  FilesInv'
<1>0. TypeOK BY DEF FilesInv
<1>1. At(r, "clean_up") \/ At(r, "remove") BY DEF CleanUp, RemoveObject
<1>2. requests[r].pc # "idle" BY <1>1 DEF At
<1>3. /\ UNCHANGED <<members, rows, added, removed, shows, disturbed, unacknowledged, failures>>
      /\ objects' = objects \ {File(r)}
    BY DEF CleanUp, RemoveObject, events
<1>4. rows[File(r)].state # "active" \/ File(r) \in unacknowledged
    BY <1>1, MatchesNow DEF Matches
<1>5. /\ \A p \in Requests \ {r} : requests'[p] = requests[p]
      /\ requests' \in [Requests -> Request \cup {NoRequest}]
      /\ requests'[r] = NoRequest \/ (File(r)' = File(r) /\ requests'[r].pc = "announce_deleted" /\ Matches(r)')
    <2>1. CASE CleanUp(r)
        BY <1>0, <2>1, EndFacts DEF CleanUp
    <2>2. CASE RemoveObject(r)
        <3>1. Go(r, "announce_deleted") /\ At(r, "remove") BY <2>2 DEF RemoveObject
        <3>2. "announce_deleted" \in Pcs BY DEF Pcs
        <3>3. rows[File(r)].state = "deleted" BY <3>1, MatchesNow DEF Matches
        <3>. QED BY <1>0, <1>2, <1>3, <3>1, <3>2, <3>3, GoFacts DEF Matches, At, Before
    <2>. QED BY <2>1, <2>2
<1>6. ASSUME NEW p \in Requests \ {r}, requests[p] # NoRequest
      PROVE  Matches(p)'
    <2>1. At(p, "commit") => File(p) # File(r)
        BY <1>2, <1>6 DEF FilesInv, UploadsAreAlone, At, Before, NoRequest
    <2>. QED BY <1>3, <1>5, <2>1, MatchesNow DEF Matches, File, At
<1>7. UploadsAreAlone' /\ RequestsMatchRows'
    BY <1>2, <1>5, <1>6, OneRequestMoves DEF Before
<1>8. ActiveHasObject' BY <1>3, <1>4 DEF FilesInv, ActiveHasObject, Active
<1>9. EventsFollowPersistence' BY <1>3 DEF FilesInv, EventsFollowPersistence
<1>10. TypeOK' BY <1>0, <1>3, <1>5 DEF TypeOK
<1>. QED BY <1>7, <1>8, <1>9, <1>10 DEF FilesInv

\* A request that begins: an upload with a file of its own, or a deletion of an
\* active attachment.
LEMMA Begins ==
    ASSUME FilesInv, NEW r \in Requests, NEW u \in Users, NEW a \in Attachments,
           BeginUpload(r, u, a) \/ BeginDelete(r, u, a)
    PROVE  FilesInv'
<1>0. TypeOK BY DEF FilesInv
<1>1. UNCHANGED <<members, rows, objects, added, removed, shows, disturbed, unacknowledged, failures>>
    BY DEF BeginUpload, BeginDelete, stores, events
<1>2. PICK pc \in {"check", "hide"} :
        /\ requests' = [requests EXCEPT ![r] = [pc |-> pc, user |-> u, attachment |-> a]]
        /\ pc = "check" => a \in Fresh
        /\ pc = "hide" => rows[a].state = "active"
    BY DEF BeginUpload, BeginDelete, MayDelete, Active
<1>. DEFINE q == [pc |-> pc, user |-> u, attachment |-> a]
<1>3. q \in Request /\ q # NoRequest /\ q.pc = pc /\ q.attachment = a
    BY DEF Request, NoRequest
<1>. HIDE DEF q
<1>4. /\ \A p \in Requests \ {r} : requests'[p] = requests[p]
      /\ requests' \in [Requests -> Request \cup {NoRequest}]
      /\ requests'[r] = q
    BY <1>0, <1>2, <1>3 DEF TypeOK, q
<1>5. \A p \in Requests \ {r} : Matches(p)'
    BY <1>1, <1>4, MatchesNow DEF Matches, File, At
<1>6. Matches(r)'
    BY <1>1, <1>2, <1>3, <1>4 DEF Matches, File, At, Before, Fresh
<1>7. ASSUME NEW p \in Requests, requests'[p].pc \in Before,
             NEW o \in Requests \ {p}, requests'[o] # NoRequest
      PROVE  requests'[o].attachment # requests'[p].attachment
    <2>1. CASE p = r
        BY <1>2, <1>3, <1>4, <1>7, <2>1 DEF Before, Fresh, Busy
    <2>2. CASE o = r /\ pc = "check"
        <3>1. requests[p] # NoRequest BY <1>4, <1>7, <2>2 DEF NoRequest, Before
        <3>. QED BY <1>2, <1>3, <1>4, <2>2, <3>1 DEF Fresh, Busy
    <2>3. CASE o = r /\ pc = "hide"
        <3>1. rows[requests[p].attachment] = NoRow
            BY <1>4, <1>7, <2>3, MatchesNow DEF Matches, File
        <3>. QED BY <1>2, <1>3, <1>4, <1>7, <2>3, <3>1 DEF NoRow
    <2>4. CASE o # r /\ p # r
        BY <1>4, <1>7, <2>4 DEF FilesInv, UploadsAreAlone, File
    <2>. QED BY <2>1, <2>2, <2>3, <2>4
<1>8. UploadsAreAlone'
    BY <1>5, <1>6, <1>7 DEF UploadsAreAlone, Matches, File
<1>9. RequestsMatchRows' BY <1>5, <1>6 DEF RequestsMatchRows, Matches
<1>10. ActiveHasObject' /\ EventsFollowPersistence'
    BY <1>1 DEF FilesInv, ActiveHasObject, Active, EventsFollowPersistence
<1>11. TypeOK' BY <1>0, <1>1, <1>4 DEF TypeOK
<1>. QED BY <1>8, <1>9, <1>10, <1>11 DEF FilesInv

-----------------------------------------------------------------------------
(* The number of attachments *)

\* The sets that are counted are finite.
LEMMA Counts ==
    ASSUME TypeOK
    PROVE  /\ Active \in SUBSET Attachments /\ Uploading \in SUBSET Requests
           /\ IsFiniteSet(Active) /\ IsFiniteSet(Uploading)
           /\ Cardinality(Active) \in Nat /\ Cardinality(Uploading) \in Nat
           /\ Cardinality(Requests) \in Nat /\ Cardinality(Uploading) <= Cardinality(Requests)
<1>1. Active \in SUBSET Attachments /\ Uploading \in SUBSET Requests
    BY DEF Active, Uploading, Busy
<1>2. IsFiniteSet(Attachments) /\ IsFiniteSet(Requests) BY AttachmentsAssumption
<1>3. IsFiniteSet(Active) /\ IsFiniteSet(Uploading) /\ Cardinality(Uploading) <= Cardinality(Requests)
    BY <1>1, <1>2, FS_Subset
<1>. QED BY <1>1, <1>2, <1>3, FS_CardinalityType

\* Most steps only take away from the two sets.
LEMMA Shrinks ==
    ASSUME TypeOK, TypeOK', CountOverrunIsBounded,
           Active' \subseteq Active, Uploading' \subseteq Uploading
    PROVE  CountOverrunIsBounded'
<1>1. Cardinality(Active') <= Cardinality(Active) /\ Cardinality(Uploading') <= Cardinality(Uploading)
    BY Counts, FS_Subset
<1>2. Cardinality(Active') \in Nat /\ Cardinality(Uploading') \in Nat
    <2>1. Active' \in SUBSET Active /\ Uploading' \in SUBSET Uploading OBVIOUS
    <2>. QED BY <2>1, Counts, FS_Subset, FS_CardinalityType
<1>. QED BY <1>1, <1>2, Counts, AttachmentsAssumption DEF CountOverrunIsBounded

\* What a step of one request does to the requests that are uploading.
LEMMA UploadingOthers ==
    ASSUME TypeOK, NEW r \in Requests,
           \A p \in Requests \ {r} : requests'[p] = requests[p]
    PROVE  /\ Uploading' \subseteq Uploading \cup {r}
           /\ (requests'[r] = NoRequest \/ requests'[r].pc \notin {"total", "store", "commit"})
                => Uploading' \subseteq Uploading \ {r}
           /\ r \in Uploading => Uploading' \subseteq Uploading
BY DEF Uploading, Busy, At

\* A thread that counts below the limit joins the uploading ones.
LEMMA Admits ==
    ASSUME TypeOK, TypeOK', CountOverrunIsBounded, NEW r \in Requests, CheckCount(r)
    PROVE  CountOverrunIsBounded'
<1>1. Active' = Active BY DEF CheckCount, stores, Active
<1>2. CASE Cardinality(Active) < MaxAttachments
    <2>1. Cardinality(Uploading') \in Nat /\ Cardinality(Uploading') <= Cardinality(Requests)
        <3>1. Uploading' \in SUBSET Requests BY DEF Uploading, Busy
        <3>. QED BY <3>1, AttachmentsAssumption, FS_Subset, FS_CardinalityType
    <2>. QED BY <1>1, <1>2, <2>1, Counts, AttachmentsAssumption DEF CountOverrunIsBounded
<1>3. CASE ~(Cardinality(Active) < MaxAttachments)
    <2>1. End(r) BY <1>3 DEF CheckCount
    <2>. QED BY <1>1, <2>1, EndFacts, UploadingOthers, Shrinks
<1>. QED BY <1>2, <1>3

\* A commit turns an uploading thread into an attachment.
LEMMA Inserts ==
    ASSUME TypeOK, CountOverrunIsBounded, NEW r \in Requests, Inserting(r)
    PROVE  CountOverrunIsBounded'
<1>1. At(r, "commit") /\ InsertRow(r) BY InsertFacts
<1>2. requests[r].pc # "idle" BY <1>1 DEF At
<1>3. /\ requests'[r].pc \in {"announce", "clean_up"}
      /\ \A p \in Requests \ {r} : requests'[p] = requests[p]
    BY InsertFacts
<1>4. r \in Uploading BY <1>1, <1>2, RequestType DEF Uploading, Busy
<1>5. Uploading' \in SUBSET (Uploading \ {r})
    <2>1. requests'[r].pc \notin {"total", "store", "commit"} BY <1>3
    <2>. QED BY <1>3, <2>1, UploadingOthers
<1>6. Active' \in SUBSET (Active \cup {File(r)})
    BY <1>1 DEF Active, InsertRow, TypeOK
<1>7. /\ Cardinality(Active') \in Nat
      /\ Cardinality(Active') <= Cardinality(Active) + 1
    <2>1. /\ IsFiniteSet(Active \cup {File(r)})
          /\ Cardinality(Active \cup {File(r)}) <= Cardinality(Active) + 1
        <3>1. IsFiniteSet(Active) /\ Cardinality(Active) \in Nat BY Counts
        <3>2. /\ IsFiniteSet(Active \cup {File(r)})
              /\ Cardinality(Active \cup {File(r)}) =
                    IF File(r) \in Active THEN Cardinality(Active) ELSE Cardinality(Active) + 1
            BY <3>1, FS_AddElement, Zenon
        <3>. QED BY <3>1, <3>2
    <2>2. Cardinality(Active \cup {File(r)}) \in Nat BY <2>1, FS_CardinalityType
    <2>3. IsFiniteSet(Active') /\ Cardinality(Active') <= Cardinality(Active \cup {File(r)})
        BY <1>6, <2>1, FS_Subset
    <2>4. Cardinality(Active') \in Nat BY <2>3, FS_CardinalityType
    <2>. QED BY <2>1, <2>2, <2>3, <2>4, Counts
<1>8. /\ Cardinality(Uploading') \in Nat
      /\ Cardinality(Uploading') <= Cardinality(Uploading) - 1
    <2>1. /\ IsFiniteSet(Uploading \ {r})
          /\ Cardinality(Uploading \ {r}) = Cardinality(Uploading) - 1
        BY <1>4, Counts, FS_RemoveElement
    <2>2. IsFiniteSet(Uploading') /\ Cardinality(Uploading') <= Cardinality(Uploading \ {r})
        BY <1>5, <2>1, FS_Subset
    <2>3. Cardinality(Uploading') \in Nat BY <2>2, FS_CardinalityType
    <2>. QED BY <2>1, <2>2, <2>3
<1>. QED BY <1>7, <1>8, Counts, AttachmentsAssumption DEF CountOverrunIsBounded

-----------------------------------------------------------------------------
(* The theorems *)

FullInv == FilesInv /\ CountOverrunIsBounded

\* The initial state.
LEMMA InitFullInv == Init => FullInv
<1>. SUFFICES ASSUME Init PROVE FullInv OBVIOUS
<1>1. TypeOK BY AttachmentsAssumption DEF Init, TypeOK, NoRow, NoRequest
<1>2. \A r \in Requests : requests[r].pc = "idle" BY DEF Init, NoRequest
<1>3. UploadsAreAlone /\ RequestsMatchRows
    BY <1>2 DEF UploadsAreAlone, RequestsMatchRows, Before, At
<1>4. Active = {} /\ Uploading = {} BY DEF Init, Active, NoRow, Uploading, Busy
<1>5. ActiveHasObject /\ EventsFollowPersistence
    BY <1>4 DEF Init, ActiveHasObject, EventsFollowPersistence
<1>6. CountOverrunIsBounded
    BY <1>1, <1>4, Counts, FS_EmptySet, AttachmentsAssumption DEF CountOverrunIsBounded
<1>. QED BY <1>1, <1>3, <1>5, <1>6 DEF FullInv, FilesInv

\* Every step keeps the files in order.
LEMMA NextFilesInv ==
    ASSUME FilesInv, [Next]_vars
    PROVE  FilesInv'
<1>1. CASE \E u \in Users : ChangeMember(u)
    BY <1>1 DEF FilesInv, ChangeMember, TypeOK, UploadsAreAlone, RequestsMatchRows, ActiveHasObject,
                Active, EventsFollowPersistence, stores, events, File, At
<1>2. CASE \E r \in Requests, u \in Users, a \in Attachments : BeginUpload(r, u, a) \/ BeginDelete(r, u, a)
    BY <1>2, Begins
<1>3. CASE \E r \in Requests : \/ RequestStep(r) \/ StoreFails(r) \/ CommitFails(r)
                               \/ CommitUnacknowledged(r) \/ Die(r)
    BY <1>3, Moves, Stores, Commits, Hides, Removes DEF RequestStep, Inserting
<1>4. CASE UNCHANGED vars
    BY <1>4 DEF FilesInv, vars, TypeOK, UploadsAreAlone, RequestsMatchRows, ActiveHasObject,
                Active, EventsFollowPersistence, stores, events, File, At
<1>. QED BY <1>1, <1>2, <1>3, <1>4 DEF Next

\* Every step keeps the count within its bound.
LEMMA NextCount ==
    ASSUME FilesInv, FilesInv', CountOverrunIsBounded, [Next]_vars
    PROVE  CountOverrunIsBounded'
<1>0. TypeOK /\ TypeOK' BY DEF FilesInv
<1>1. CASE (\E u \in Users : ChangeMember(u)) \/ UNCHANGED vars
    <2>1. Active' = Active /\ Uploading' = Uploading
        BY <1>1 DEF ChangeMember, vars, stores, Active, Uploading, Busy, At
    <2>. QED BY <1>0, <2>1, Shrinks
<1>2. ASSUME NEW r \in Requests, NEW u \in Users, NEW a \in Attachments,
             BeginUpload(r, u, a) \/ BeginDelete(r, u, a)
      PROVE  CountOverrunIsBounded'
    <2>1. Active' = Active BY <1>2 DEF BeginUpload, BeginDelete, stores, Active
    <2>2. PICK pc \in {"check", "hide"} :
            requests' = [requests EXCEPT ![r] = [pc |-> pc, user |-> u, attachment |-> a]]
        BY <1>2 DEF BeginUpload, BeginDelete
    <2>3. requests'[r].pc \notin {"total", "store", "commit"}
          /\ \A p \in Requests \ {r} : requests'[p] = requests[p]
        BY <1>0, <2>2 DEF TypeOK
    <2>. QED BY <1>0, <2>1, <2>3, UploadingOthers, Shrinks
<1>3. ASSUME NEW r \in Requests, CheckCount(r) PROVE CountOverrunIsBounded'
    BY <1>0, <1>3, Admits
<1>4. ASSUME NEW r \in Requests, Inserting(r) PROVE CountOverrunIsBounded'
    BY <1>0, <1>4, Inserts
<1>5. ASSUME NEW r \in Requests,
             CheckAccess(r) \/ CheckTotal(r) \/ StoreObject(r) \/ StoreFails(r) \/ CommitFails(r)
             \/ CleanUp(r) \/ Announce(r) \/ HideRow(r) \/ RemoveObject(r) \/ AnnounceDeleted(r) \/ Die(r)
      PROVE  CountOverrunIsBounded'
    <2>1. Active' \subseteq Active
        <3>1. CASE HideRow(r)
            BY <1>0, <3>1 DEF HideRow, Active, TypeOK
        <3>. QED BY <1>5, <3>1 DEF CheckAccess, CheckTotal, StoreObject, StoreFails, CommitFails, CleanUp,
                    Announce, RemoveObject, AnnounceDeleted, Die, stores, Active
    <2>2. Uploading' \subseteq Uploading
        <3>1. CASE End(r)
            BY <1>0, <3>1, EndFacts, UploadingOthers
        <3>2. CASE r \in Uploading /\ \E pc \in Pcs : Go(r, pc) /\ requests[r].pc # "idle"
            BY <1>0, <3>2, GoFacts, UploadingOthers
        <3>3. CASE \E pc \in Pcs \ {"total", "store", "commit"} : Go(r, pc) /\ requests[r].pc # "idle"
            BY <1>0, <3>3, GoFacts, UploadingOthers
        <3>4. At(r, "total") \/ At(r, "store") => r \in Uploading
            BY <1>0, RequestType DEF At, Uploading, Busy
        <3>. QED BY <1>5, <3>1, <3>2, <3>3, <3>4
             DEF CheckAccess, CheckTotal, StoreObject, StoreFails, CommitFails, CleanUp, Announce,
                 HideRow, RemoveObject, AnnounceDeleted, Die, At, Pcs
    <2>. QED BY <1>0, <2>1, <2>2, Shrinks
<1>. QED BY <1>1, <1>2, <1>3, <1>4, <1>5 DEF Next, RequestStep, Inserting

\* The inductive invariant holds in every reachable state.
THEOREM InvariantHolds == Spec => []FullInv
<1>1. Init => FullInv BY InitFullInv
<1>2. FullInv /\ [Next]_vars => FullInv'
    BY NextFilesInv, NextCount DEF FullInv
<1>. QED BY <1>1, <1>2, PTL DEF Spec

\* Every variable keeps its type.
THEOREM TypeCorrect == Spec => []TypeOK
<1>1. FullInv => TypeOK BY DEF FullInv, FilesInv
<1>. QED BY <1>1, InvariantHolds, PTL

\* Whatever fails or dies between the two stores, an attachment a client can see
\* has its file, unless the handler took its commit for a failure and removed it.
THEOREM FilesAreThere == Spec => []ActiveHasObject
<1>1. FullInv => ActiveHasObject BY DEF FullInv, FilesInv
<1>. QED BY <1>1, InvariantHolds, PTL

\* No event is ahead of the database or of the bucket.
THEOREM EventsAreTrue == Spec => []EventsFollowPersistence
<1>1. FullInv => EventsFollowPersistence BY DEF FullInv, FilesInv
<1>. QED BY <1>1, InvariantHolds, PTL

\* For any limit and any number of threads, check-then-insert exceeds the limit
\* by less than the number of threads.
THEOREM OverrunBound == Spec => []CountOverrunIsBounded
<1>1. FullInv => CountOverrunIsBounded BY DEF FullInv
<1>. QED BY <1>1, InvariantHolds, PTL

-----------------------------------------------------------------------------
(* What the room shows *)

\* The events on a file that are still to be sent.
Announcing(a) == \E r \in Requests : At(r, "announce") /\ File(r) = a
Deleting(a) == \E r \in Requests : (At(r, "remove") \/ At(r, "announce_deleted")) /\ File(r) = a

AnnouncedOnce ==
    \A r \in Requests : At(r, "announce") =>
        /\ File(r) \notin added
        /\ \A p \in Requests : At(p, "announce") /\ File(p) = File(r) => p = r

\* What clients show is right, or the event that corrects it is on its way.
ShownRight ==
    \A a \in Attachments \ disturbed :
        /\ a \in Active => a \in shows \/ Announcing(a)
        /\ a \in shows \/ Announcing(a) => a \in Active \/ Deleting(a)

\* An upload has no object before it stores it.
NotStored ==
    \A r \in Requests : requests[r].pc \in {"check", "count", "total", "store"} => File(r) \notin objects

EventsInv == FullInv /\ AnnouncedOnce /\ ShownRight /\ NotStored

\* A step that neither announces nor hides, and that gives up an event only as a
\* disturbance.
LEMMA QuietEvents ==
    ASSUME EventsInv, NEW r \in Requests,
           \A p \in Requests \ {r} : requests'[p] = requests[p],
           UNCHANGED <<added, shows>>, disturbed \subseteq disturbed',
           \A a \in Attachments \ disturbed' : a \in Active' <=> a \in Active,
           ~At(r, "announce")', At(r, "announce") => File(r) \in disturbed',
           At(r, "remove") \/ At(r, "announce_deleted") =>
               \/ File(r) \in disturbed'
               \/ At(r, "announce_deleted")' /\ File(r)' = File(r)
    PROVE  AnnouncedOnce' /\ ShownRight'
<1>1. \A p \in Requests \ {r} : \A pc : (At(p, pc)' <=> At(p, pc)) /\ File(p)' = File(p)
    BY DEF At, File
<1>2. AnnouncedOnce' BY <1>1 DEF EventsInv, AnnouncedOnce
<1>3. ASSUME NEW a \in Attachments \ disturbed'
      PROVE  (Announcing(a)' <=> Announcing(a)) /\ (Deleting(a) => Deleting(a)')
    <2>1. Announcing(a)' => Announcing(a) BY <1>1 DEF Announcing
    <2>2. Announcing(a) => Announcing(a)'
        <3>. SUFFICES ASSUME NEW p \in Requests, At(p, "announce"), File(p) = a
                      PROVE  Announcing(a)'
            BY DEF Announcing
        <3>1. p # r BY <1>3
        <3>. QED BY <1>1, <3>1 DEF Announcing
    <2>3. Deleting(a) => Deleting(a)'
        <3>. SUFFICES ASSUME NEW p \in Requests, At(p, "remove") \/ At(p, "announce_deleted"),
                             File(p) = a
                      PROVE  Deleting(a)'
            BY DEF Deleting
        <3>1. CASE p = r BY <1>3, <3>1 DEF Deleting
        <3>2. CASE p # r BY <1>1, <3>2 DEF Deleting
        <3>. QED BY <3>1, <3>2
    <2>. QED BY <2>1, <2>2, <2>3
<1>4. ShownRight' BY <1>3 DEF EventsInv, ShownRight
<1>. QED BY <1>2, <1>4

\* A new attachment: its announcement is to come.
LEMMA CommitsEvents ==
    ASSUME EventsInv, NEW r \in Requests, CommitRow(r)
    PROVE  AnnouncedOnce' /\ ShownRight'
<1>0. FilesInv /\ TypeOK BY DEF EventsInv, FullInv, FilesInv
<1>1. At(r, "commit") /\ Go(r, "announce") BY DEF CommitRow
<1>2. requests[r].pc # "idle" /\ requests[r].pc \in Before /\ "announce" \in Pcs
    BY <1>1 DEF At, Before, Pcs
<1>3. PICK f \in Attachments : f = File(r) BY <1>0, <1>2, RequestType
<1>4. rows[f] = NoRow BY <1>0, <1>2, <1>3, MatchesNow DEF Matches
<1>5. /\ UNCHANGED <<added, shows, disturbed>>
      /\ rows' = [rows EXCEPT ![f] = [state |-> "active", uploader |-> {requests[r].user}]]
    BY <1>3 DEF CommitRow, InsertRow, events
<1>6. /\ \A p \in Requests \ {r} : requests'[p] = requests[p]
      /\ File(r)' = f /\ requests'[r].pc = "announce"
    BY <1>0, <1>1, <1>2, <1>3, GoFacts
<1>7. \A p \in Requests \ {r} : \A pc : (At(p, pc)' <=> At(p, pc)) /\ File(p)' = File(p)
    BY <1>6 DEF At, File
<1>8. f \notin added BY <1>0, <1>4 DEF FilesInv, EventsFollowPersistence
<1>9. \A p \in Requests \ {r} : At(p, "announce") => File(p) # f
    BY <1>0, <1>4 DEF FilesInv, RequestsMatchRows, NoRow
<1>10. AnnouncedOnce'
    <2>1. At(r, "announce")' BY <1>6 DEF At
    <2>. QED BY <1>5, <1>6, <1>7, <1>8, <1>9, <2>1 DEF EventsInv, AnnouncedOnce
<1>11. \A a \in Attachments : a \in Active' <=> a \in Active \/ a = f
    BY <1>0, <1>5 DEF Active, TypeOK
<1>12. ShownRight'
    <2>. SUFFICES ASSUME NEW a \in Attachments \ disturbed'
                  PROVE  /\ a \in Active' => a \in shows' \/ Announcing(a)'
                         /\ a \in shows' \/ Announcing(a)' => a \in Active' \/ Deleting(a)'
        BY DEF ShownRight
    <2>1. CASE a = f BY <1>6, <1>11, <2>1 DEF Announcing, At
    <2>2. CASE a # f
        <3>1. Announcing(a)' <=> Announcing(a) BY <1>1, <1>3, <1>6, <1>7, <2>2 DEF Announcing, At
        <3>2. Deleting(a) => Deleting(a)' BY <1>1, <1>7 DEF Deleting, At
        <3>. QED BY <1>5, <1>11, <2>2, <3>1, <3>2 DEF EventsInv, ShownRight
    <2>. QED BY <2>1, <2>2
<1>. QED BY <1>10, <1>12

LEMMA AnnouncesEvents ==
    ASSUME EventsInv, NEW r \in Requests, Announce(r)
    PROVE  AnnouncedOnce' /\ ShownRight'
<1>0. FilesInv /\ TypeOK BY DEF EventsInv, FullInv, FilesInv
<1>1. At(r, "announce") /\ End(r) BY DEF Announce
<1>2. PICK f : f = File(r) OBVIOUS
<1>3. /\ UNCHANGED <<rows, disturbed>> /\ added' = added \cup {f} /\ shows' = shows \cup {f}
    BY <1>2 DEF Announce, stores
<1>4. /\ \A p \in Requests \ {r} : requests'[p] = requests[p]
      /\ requests'[r] = NoRequest
    BY <1>0, <1>1, EndFacts
<1>5. \A p \in Requests \ {r} : \A pc : (At(p, pc)' <=> At(p, pc)) /\ File(p)' = File(p)
    BY <1>4 DEF At, File
<1>6. ~At(r, "announce")' BY <1>4 DEF At, NoRequest
<1>7. \A p \in Requests \ {r} : At(p, "announce") => File(p) # f
    BY <1>1, <1>2 DEF EventsInv, AnnouncedOnce
<1>8. AnnouncedOnce' BY <1>3, <1>5, <1>6, <1>7 DEF EventsInv, AnnouncedOnce
<1>9. \A a \in Attachments : /\ a \in Active' <=> a \in Active
                             /\ Announcing(a)' => Announcing(a)
                             /\ Announcing(a) => Announcing(a)' \/ a = f
                             /\ Deleting(a) => Deleting(a)'
    BY <1>1, <1>2, <1>3, <1>5, <1>6 DEF Active, Announcing, Deleting, At
<1>10. Announcing(f) BY <1>1, <1>2 DEF Announcing
<1>11. ShownRight' BY <1>3, <1>9, <1>10 DEF EventsInv, ShownRight
<1>. QED BY <1>8, <1>11

LEMMA HidesEvents ==
    ASSUME EventsInv, NEW r \in Requests, HideRow(r)
    PROVE  AnnouncedOnce' /\ ShownRight'
<1>0. FilesInv /\ TypeOK BY DEF EventsInv, FullInv, FilesInv
<1>1. At(r, "hide") /\ Go(r, "remove") BY DEF HideRow
<1>2. requests[r].pc # "idle" /\ "remove" \in Pcs BY <1>1 DEF At, Pcs
<1>3. PICK f \in Attachments : f = File(r) BY <1>0, <1>2, RequestType
<1>4. /\ UNCHANGED <<added, shows, disturbed>>
      /\ rows' = [rows EXCEPT ![f].state = "deleted"]
    BY <1>3 DEF HideRow, events
<1>5. /\ \A p \in Requests \ {r} : requests'[p] = requests[p]
      /\ File(r)' = f /\ requests'[r].pc = "remove"
    BY <1>0, <1>1, <1>2, <1>3, GoFacts
<1>6. \A p \in Requests \ {r} : \A pc : (At(p, pc)' <=> At(p, pc)) /\ File(p)' = File(p)
    BY <1>5 DEF At, File
<1>7. ~At(r, "announce")' /\ ~At(r, "announce") /\ At(r, "remove")' BY <1>1, <1>5 DEF At
<1>8. AnnouncedOnce' BY <1>4, <1>6, <1>7 DEF EventsInv, AnnouncedOnce
<1>9. \A a \in Attachments : /\ a \in Active' <=> a \in Active /\ a # f
                             /\ Announcing(a)' <=> Announcing(a)
                             /\ Deleting(a) \/ a = f => Deleting(a)'
    <2>1. \A a \in Attachments : a \in Active' <=> a \in Active /\ a # f
        BY <1>0, <1>4 DEF Active, TypeOK
    <2>2. \A a \in Attachments : Announcing(a)' <=> Announcing(a)
        BY <1>6, <1>7 DEF Announcing
    <2>3. \A a \in Attachments : Deleting(a) \/ a = f => Deleting(a)'
        BY <1>1, <1>5, <1>6, <1>7 DEF Deleting, At
    <2>. QED BY <2>1, <2>2, <2>3
<1>10. ShownRight' BY <1>4, <1>9 DEF EventsInv, ShownRight
<1>. QED BY <1>8, <1>10

\* attachment_deleted: too early, or after attachment_added.
LEMMA AnnouncesDeletedEvents ==
    ASSUME EventsInv, NEW r \in Requests, AnnounceDeleted(r)
    PROVE  AnnouncedOnce' /\ ShownRight'
<1>0. FilesInv /\ TypeOK BY DEF EventsInv, FullInv, FilesInv
<1>1. At(r, "announce_deleted") /\ End(r) BY DEF AnnounceDeleted
<1>2. PICK f : f = File(r) OBVIOUS
<1>3. /\ UNCHANGED <<rows, added>> /\ shows' = shows \ {f}
      /\ disturbed' = IF f \in added THEN disturbed ELSE disturbed \cup {f}
    BY <1>2 DEF AnnounceDeleted, stores
<1>4. /\ \A p \in Requests \ {r} : requests'[p] = requests[p]
      /\ requests'[r] = NoRequest
    BY <1>0, <1>1, EndFacts
<1>5. \A p \in Requests \ {r} : \A pc : (At(p, pc)' <=> At(p, pc)) /\ File(p)' = File(p)
    BY <1>4 DEF At, File
<1>6. ~At(r, "announce")' /\ ~At(r, "announce") BY <1>1, <1>4 DEF At, NoRequest
<1>7. AnnouncedOnce' BY <1>3, <1>5, <1>6 DEF EventsInv, AnnouncedOnce
<1>8. f \notin Active
    BY <1>0, <1>1, <1>2 DEF FilesInv, RequestsMatchRows, Active
<1>9. \A a \in Attachments : /\ a \in Active' <=> a \in Active
                             /\ Announcing(a)' <=> Announcing(a)
                             /\ Deleting(a) => Deleting(a)' \/ a = f
    BY <1>2, <1>3, <1>5, <1>6 DEF Active, Announcing, Deleting
<1>10. f \in added => ~Announcing(f) BY DEF EventsInv, AnnouncedOnce, Announcing
<1>11. ShownRight' BY <1>3, <1>8, <1>9, <1>10 DEF EventsInv, ShownRight
<1>. QED BY <1>7, <1>11

\* The steps that neither announce nor hide, nor insert a row to be announced.
LEMMA OtherEvents ==
    ASSUME EventsInv, NEW r \in Requests,
           \/ CheckAccess(r) \/ CheckCount(r) \/ CheckTotal(r) \/ StoreObject(r) \/ StoreFails(r)
           \/ CommitFails(r) \/ CommitUnacknowledged(r) \/ CleanUp(r) \/ RemoveObject(r) \/ Die(r)
    PROVE  AnnouncedOnce' /\ ShownRight'
<1>0. TypeOK BY DEF EventsInv, FullInv, FilesInv
<1>1. requests[r].pc # "idle"
    <2>1. CASE Die(r)
        BY <1>0, <2>1 DEF Die, Busy, TypeOK, Request, NoRequest
    <2>. QED BY <2>1 DEF CheckAccess, CheckCount, CheckTotal, StoreObject, StoreFails, CommitFails,
                         CommitUnacknowledged, CleanUp, RemoveObject, At
<1>2. /\ UNCHANGED <<added, shows>> /\ disturbed \subseteq disturbed'
      /\ \A a \in Attachments \ disturbed' : a \in Active' <=> a \in Active
    <2>1. CASE CommitUnacknowledged(r)
        BY <1>0, <2>1 DEF CommitUnacknowledged, InsertRow, Active, TypeOK
    <2>2. CASE UNCHANGED rows
        BY <2>2 DEF CheckAccess, CheckCount, CheckTotal, StoreObject, StoreFails, CommitFails,
                    CommitUnacknowledged, CleanUp, RemoveObject, Die, events, Active
    <2>. QED BY <2>1, <2>2 DEF CheckAccess, CheckCount, CheckTotal, StoreObject, StoreFails,
                               CommitFails, CleanUp, RemoveObject, Die, stores
<1>3. ASSUME NEW pc \in Pcs, Go(r, pc), pc # "announce",
             ~At(r, "announce"), ~At(r, "announce_deleted"),
             At(r, "remove") => pc = "announce_deleted"
      PROVE  AnnouncedOnce' /\ ShownRight'
    <2>1. /\ \A p \in Requests \ {r} : requests'[p] = requests[p]
          /\ requests'[r].pc = pc /\ File(r)' = File(r)
        BY <1>0, <1>1, <1>3, GoFacts
    <2>2. ~At(r, "announce")' /\ (At(r, "remove") => At(r, "announce_deleted")')
        BY <1>3, <2>1 DEF At
    <2>. QED BY <1>2, <1>3, <2>1, <2>2, QuietEvents
<1>4. ASSUME End(r),
             At(r, "announce") \/ At(r, "remove") \/ At(r, "announce_deleted") => File(r) \in disturbed'
      PROVE  AnnouncedOnce' /\ ShownRight'
    <2>1. /\ \A p \in Requests \ {r} : requests'[p] = requests[p]
          /\ ~At(r, "announce")'
        BY <1>0, <1>4, EndFacts DEF At, NoRequest
    <2>. QED BY <1>2, <1>4, <2>1, QuietEvents
<1>5. CASE CheckAccess(r) BY <1>3, <1>4, <1>5 DEF CheckAccess, At, Pcs
<1>6. CASE CheckCount(r) BY <1>3, <1>4, <1>6 DEF CheckCount, At, Pcs
<1>7. CASE CheckTotal(r) BY <1>3, <1>4, <1>7 DEF CheckTotal, At, Pcs
<1>8. CASE StoreObject(r) BY <1>3, <1>8 DEF StoreObject, At, Pcs
<1>9. CASE StoreFails(r) BY <1>4, <1>9 DEF StoreFails, At
<1>10. CASE CommitFails(r) BY <1>3, <1>10 DEF CommitFails, At, Pcs
<1>11. CASE CleanUp(r) BY <1>4, <1>11 DEF CleanUp, At
<1>12. CASE RemoveObject(r) BY <1>3, <1>12 DEF RemoveObject, At, Pcs
<1>13. CASE Die(r) BY <1>4, <1>13 DEF Die
<1>14. CASE CommitUnacknowledged(r) BY <1>3, <1>14 DEF CommitUnacknowledged, At, Pcs
<1>. QED BY <1>5, <1>6, <1>7, <1>8, <1>9, <1>10, <1>11, <1>12, <1>13, <1>14

\* A new request has no event to send yet.
LEMMA BeginsEvents ==
    ASSUME EventsInv, NEW r \in Requests, NEW u \in Users, NEW a \in Attachments,
           BeginUpload(r, u, a) \/ BeginDelete(r, u, a)
    PROVE  AnnouncedOnce' /\ ShownRight'
<1>0. TypeOK BY DEF EventsInv, FullInv, FilesInv
<1>1. requests[r] = NoRequest BY DEF BeginUpload, BeginDelete
<1>2. PICK pc \in {"check", "hide"} :
        requests' = [requests EXCEPT ![r] = [pc |-> pc, user |-> u, attachment |-> a]]
    BY DEF BeginUpload, BeginDelete
<1>3. /\ \A p \in Requests \ {r} : requests'[p] = requests[p]
      /\ requests'[r].pc = pc
    BY <1>0, <1>2 DEF TypeOK
<1>4. /\ ~At(r, "announce")' /\ ~At(r, "announce")
      /\ ~At(r, "remove") /\ ~At(r, "announce_deleted")
    BY <1>1, <1>3 DEF At, NoRequest
<1>5. UNCHANGED <<added, shows, disturbed>> /\ Active' = Active
    BY DEF BeginUpload, BeginDelete, stores, events, Active
<1>. QED BY <1>3, <1>4, <1>5, QuietEvents

\* A file is in the bucket only after its upload has stored it.
LEMMA NextNotStored ==
    ASSUME EventsInv, [Next]_vars
    PROVE  NotStored'
<1>0. FilesInv /\ TypeOK BY DEF EventsInv, FullInv, FilesInv
<1>. DEFINE Early == {"check", "count", "total", "store"}
<1>1. ASSUME NEW r \in Requests, requests[r].pc # "idle",
             \/ End(r)
             \/ \E pc \in Pcs : Go(r, pc) /\ (pc \in Early => requests[r].pc \in Early),
             objects' \subseteq objects
      PROVE  NotStored'
    <2>1. /\ \A p \in Requests \ {r} : requests'[p] = requests[p]
          /\ requests'[r].pc \in Early => requests[r].pc \in Early /\ File(r)' = File(r)
        <3>1. CASE End(r) BY <1>0, <3>1, EndFacts DEF NoRequest
        <3>2. CASE \E pc \in Pcs : Go(r, pc) /\ (pc \in Early => requests[r].pc \in Early)
            BY <1>0, <1>1, <3>2, GoFacts
        <3>. QED BY <1>1, <3>1, <3>2
    <2>. QED BY <1>1, <2>1 DEF EventsInv, NotStored, File
<1>2. ASSUME NEW r \in Requests, StoreObject(r) \/ StoreFails(r)
      PROVE  NotStored'
    <2>1. /\ At(r, "store") /\ objects' \subseteq objects \cup {File(r)}
          /\ End(r) \/ Go(r, "commit")
        BY <1>2 DEF StoreObject, StoreFails
    <2>2. requests[r].pc # "idle" /\ requests[r].pc \in Before /\ "commit" \in Pcs
        BY <2>1 DEF At, Before, Pcs
    <2>3. /\ \A p \in Requests \ {r} : requests'[p] = requests[p]
          /\ requests'[r].pc \notin Early
        BY <1>0, <2>1, <2>2, EndFacts, GoFacts DEF NoRequest
    <2>4. ASSUME NEW p \in Requests \ {r}, requests[p].pc \in Early
          PROVE  File(p) # File(r)
        BY <1>0, <2>2, <2>4 DEF FilesInv, UploadsAreAlone, NoRequest
    <2>. QED BY <2>1, <2>3, <2>4 DEF EventsInv, NotStored, File
<1>3. ASSUME NEW r \in Requests, NEW u \in Users, NEW a \in Attachments,
             BeginUpload(r, u, a) \/ BeginDelete(r, u, a)
      PROVE  NotStored'
    <2>1. PICK pc \in {"check", "hide"} :
            /\ requests' = [requests EXCEPT ![r] = [pc |-> pc, user |-> u, attachment |-> a]]
            /\ pc = "check" => a \notin objects
        BY <1>3 DEF BeginUpload, BeginDelete, Fresh
    <2>2. /\ \A p \in Requests \ {r} : requests'[p] = requests[p]
          /\ requests'[r].pc = pc /\ requests'[r].attachment = a
        BY <1>0, <2>1 DEF TypeOK
    <2>3. objects' = objects BY <1>3 DEF BeginUpload, BeginDelete, stores
    <2>. QED BY <2>1, <2>2, <2>3 DEF EventsInv, NotStored, File
<1>4. CASE (\E u \in Users : ChangeMember(u)) \/ UNCHANGED vars
    BY <1>4 DEF EventsInv, NotStored, ChangeMember, vars, stores, File
<1>5. ASSUME NEW r \in Requests,
             \/ CheckAccess(r) \/ CheckCount(r) \/ CheckTotal(r) \/ CommitRow(r) \/ CleanUp(r)
             \/ Announce(r) \/ HideRow(r) \/ RemoveObject(r) \/ AnnounceDeleted(r)
             \/ CommitFails(r) \/ CommitUnacknowledged(r) \/ Die(r)
      PROVE  NotStored'
    <2>1. objects' \subseteq objects
        BY <1>5 DEF CheckAccess, CheckCount, CheckTotal, CommitRow, CleanUp, Announce, HideRow,
                    RemoveObject, AnnounceDeleted, CommitFails, CommitUnacknowledged, Die, stores
    <2>2. requests[r].pc # "idle"
        <3>1. CASE Die(r)
            BY <1>0, <3>1 DEF Die, Busy, TypeOK, Request, NoRequest
        <3>. QED BY <1>5, <3>1 DEF CheckAccess, CheckCount, CheckTotal, CommitRow, CleanUp, Announce,
                                   HideRow, RemoveObject, AnnounceDeleted, CommitFails, CommitUnacknowledged, At
    <2>3. \/ End(r)
          \/ \E pc \in Pcs : Go(r, pc) /\ (pc \in Early => requests[r].pc \in Early)
        BY <1>5 DEF CheckAccess, CheckCount, CheckTotal, CommitRow, CleanUp, Announce,
                    HideRow, RemoveObject, AnnounceDeleted, CommitFails, CommitUnacknowledged, Die, At, Pcs
    <2>. QED BY <1>1, <2>1, <2>2, <2>3
<1>. QED BY <1>2, <1>3, <1>4, <1>5 DEF Next, RequestStep

-----------------------------------------------------------------------------
(* What the bucket leaks *)

\* One step leaks at most one object, and only if something fails in it.
LEMMA LeaksCount ==
    ASSUME TypeOK, TypeOK', LeaksAreFailures, NEW f,
           \/ Orphans' \subseteq Orphans /\ failures' = failures
           \/ Orphans' \subseteq Orphans \cup {f} /\ failures' = failures + 1
    PROVE  LeaksAreFailures'
<1>1. Orphans \subseteq Attachments /\ IsFiniteSet(Attachments)
    BY AttachmentsAssumption DEF Orphans, TypeOK
<1>2. IsFiniteSet(Orphans) BY <1>1, FS_Subset
<1>3. Cardinality(Orphans) \in Nat BY <1>2, FS_CardinalityType
<1>4. failures \in Nat /\ failures' \in Nat BY AttachmentsAssumption DEF TypeOK
<1>5. CASE Orphans' \subseteq Orphans /\ failures' = failures
    <2>1. Cardinality(Orphans') \in Nat /\ Cardinality(Orphans') <= Cardinality(Orphans)
        BY <1>2, <1>5, FS_Subset, FS_CardinalityType
    <2>. QED BY <1>3, <1>4, <1>5, <2>1 DEF LeaksAreFailures
<1>6. CASE Orphans' \subseteq Orphans \cup {f} /\ failures' = failures + 1
    <2>1. IsFiniteSet(Orphans \cup {f})
          /\ (Cardinality(Orphans \cup {f}) = IF f \in Orphans THEN Cardinality(Orphans)
                                                             ELSE Cardinality(Orphans) + 1)
        BY <1>2, FS_AddElement, Zenon
    <2>2. Cardinality(Orphans') \in Nat
          /\ Cardinality(Orphans') <= Cardinality(Orphans \cup {f})
        BY <1>6, <2>1, FS_Subset, FS_CardinalityType
    <2>. QED BY <1>3, <1>4, <1>6, <2>1, <2>2 DEF LeaksAreFailures
<1>. QED BY <1>5, <1>6

\* A step of a request concerns no object but that of its file.
LEMMA OrphansOfOthers ==
    ASSUME NEW r \in Requests,
           \A p \in Requests \ {r} : requests'[p] = requests[p],
           objects' \subseteq objects \cup {File(r)},
           Active \subseteq Active' \cup {File(r)}
    PROVE  Orphans' \subseteq Orphans \cup {File(r)}
<1>. SUFFICES ASSUME NEW a \in Orphans', a # File(r) PROVE a \in Orphans
    OBVIOUS
<1>1. a \in objects \ Active /\ ~Handled(a)' BY DEF Orphans
<1>2. Handled(a) => Handled(a)' BY DEF Handled, Busy, File
<1>. QED BY <1>1, <1>2 DEF Orphans

\* Whatever a request does without a failure, it leaves no object behind.
LEMMA StepsLeakNothing ==
    ASSUME EventsInv, NEW r \in Requests, RequestStep(r) \/ CommitFails(r)
    PROVE  Orphans' \subseteq Orphans /\ failures' = failures
<1>0. FilesInv /\ TypeOK /\ NotStored BY DEF EventsInv, FullInv, FilesInv
<1>1. requests[r].pc # "idle"
    BY DEF RequestStep, CheckAccess, CheckCount, CheckTotal, StoreObject, CommitRow, CleanUp, Announce,
           HideRow, RemoveObject, AnnounceDeleted, CommitFails, At
<1>2. PICK f \in Attachments : f = File(r) BY <1>0, <1>1, RequestType
<1>3. failures' = failures
    BY DEF RequestStep, CheckAccess, CheckCount, CheckTotal, StoreObject, CommitRow, CleanUp, Announce,
           HideRow, RemoveObject, AnnounceDeleted, CommitFails
<1>4. \A p \in Requests \ {r} : requests'[p] = requests[p]
    <2>1. End(r) \/ \E pc \in Pcs : Go(r, pc)
        BY DEF RequestStep, CheckAccess, CheckCount, CheckTotal, StoreObject, CommitRow, CleanUp, Announce,
               HideRow, RemoveObject, AnnounceDeleted, CommitFails, Pcs
    <2>. QED BY <1>0, <1>1, <2>1, EndFacts, GoFacts
<1>5. objects' \subseteq objects \cup {f}
    BY <1>2
    DEF RequestStep, CheckAccess, CheckCount, CheckTotal, StoreObject, CommitRow, CleanUp, Announce,
        HideRow, RemoveObject, AnnounceDeleted, CommitFails, stores
<1>6. Active \subseteq Active' \cup {f}
    <2>1. CASE UNCHANGED rows BY <2>1 DEF Active
    <2>2. CASE CommitRow(r) \/ HideRow(r)
        BY <1>0, <1>2, <2>2 DEF CommitRow, InsertRow, HideRow, Active, TypeOK
    <2>. QED BY <2>1, <2>2
         DEF RequestStep, CheckAccess, CheckCount, CheckTotal, StoreObject, CleanUp, Announce,
             RemoveObject, AnnounceDeleted, CommitFails, stores
<1>7. Orphans' \subseteq Orphans \cup {f}
    BY <1>2, <1>4, <1>5, <1>6, OrphansOfOthers
<1>8. ASSUME NEW pc \in Pcs, Go(r, pc), pc # "announce"
      PROVE  f \notin Orphans'
    <2>1. requests'[r].pc = pc /\ requests'[r] # NoRequest /\ requests'[r].attachment = f
        BY <1>0, <1>1, <1>2, <1>8, GoFacts DEF File
    <2>. QED BY <1>8, <2>1 DEF Orphans, Handled, Busy, File
<1>9. ASSUME f \notin objects' PROVE f \notin Orphans'
    BY <1>9 DEF Orphans
<1>10. ASSUME UNCHANGED stores, requests[r].pc \in {"check", "count", "total"}
       PROVE  f \notin objects'
    BY <1>0, <1>2, <1>10 DEF NotStored, stores
<1>11. f \in Orphans' => f \in Orphans
    <2>1. CASE CheckAccess(r) BY <1>8, <1>9, <1>10, <2>1 DEF CheckAccess, At, Pcs
    <2>2. CASE CheckCount(r) BY <1>8, <1>9, <1>10, <2>2 DEF CheckCount, At, Pcs
    <2>3. CASE CheckTotal(r) BY <1>8, <1>9, <1>10, <2>3 DEF CheckTotal, At, Pcs
    <2>4. CASE StoreObject(r) BY <1>8, <2>4 DEF StoreObject, Pcs
    <2>5. CASE CommitRow(r)
        <3>1. f \in Active' BY <1>0, <1>2, <2>5 DEF CommitRow, InsertRow, Active, TypeOK
        <3>. QED BY <3>1 DEF Orphans
    <2>6. CASE CommitFails(r) BY <1>8, <2>6 DEF CommitFails, Pcs
    <2>7. CASE CleanUp(r) BY <1>2, <1>9, <2>7 DEF CleanUp
    <2>8. CASE Announce(r)
        <3>1. UNCHANGED stores /\ At(r, "announce") BY <2>8 DEF Announce
        <3>2. Handled(f) => Handled(f)' BY <1>4, <3>1 DEF Handled, Busy, File, At
        <3>. QED BY <1>7, <3>1, <3>2 DEF Orphans, Active, stores
    <2>9. CASE HideRow(r) BY <1>8, <2>9 DEF HideRow, Pcs
    <2>10. CASE RemoveObject(r) BY <1>8, <2>10 DEF RemoveObject, Pcs
    <2>11. CASE AnnounceDeleted(r)
        <3>1. f \notin objects BY <1>0, <1>2, <2>11 DEF AnnounceDeleted, FilesInv, RequestsMatchRows
        <3>. QED BY <1>9, <2>11, <3>1 DEF AnnounceDeleted, stores
    <2>. QED BY <2>1, <2>2, <2>3, <2>4, <2>5, <2>6, <2>7, <2>8, <2>9, <2>10, <2>11 DEF RequestStep
<1>. QED BY <1>3, <1>7, <1>11

\* Every step keeps the number of leaked objects within that of the failures.
LEMMA NextLeaks ==
    ASSUME EventsInv, TypeOK', LeaksAreFailures, [Next]_vars
    PROVE  LeaksAreFailures'
<1>0. TypeOK BY DEF EventsInv, FullInv, FilesInv
<1>1. ASSUME NEW r \in Requests, RequestStep(r) \/ CommitFails(r)
      PROVE  LeaksAreFailures'
    BY <1>0, <1>1, StepsLeakNothing, LeaksCount
<1>2. ASSUME NEW r \in Requests, StoreFails(r) \/ Die(r)
      PROVE  LeaksAreFailures'
    <2>1. /\ failures' = failures + 1 /\ UNCHANGED rows
          /\ objects' \subseteq objects \cup {File(r)} /\ End(r)
        BY <1>2 DEF StoreFails, Die, CountFailure, stores
    <2>2. Orphans' \subseteq Orphans \cup {File(r)}
        BY <1>0, <2>1, EndFacts, OrphansOfOthers DEF Active
    <2>. QED BY <1>0, <2>1, <2>2, LeaksCount
<1>3. ASSUME NEW r \in Requests, NEW u \in Users, NEW a \in Attachments,
             BeginUpload(r, u, a) \/ BeginDelete(r, u, a)
      PROVE  LeaksAreFailures'
    <2>1. UNCHANGED <<stores, failures>> /\ requests[r] = NoRequest
          /\ \A p \in Requests \ {r} : requests'[p] = requests[p]
        BY <1>3 DEF BeginUpload, BeginDelete, TypeOK
    <2>2. \A b : Handled(b) => Handled(b)' BY <2>1 DEF Handled, Busy, File
    <2>3. Orphans' \subseteq Orphans BY <2>1, <2>2 DEF Orphans, Active, stores
    <2>. QED BY <1>0, <2>1, <2>3, LeaksCount
<1>4. CASE (\E u \in Users : ChangeMember(u)) \/ UNCHANGED vars
    <2>1. UNCHANGED <<stores, requests, failures>> BY <1>4 DEF ChangeMember, vars, stores
    <2>2. Orphans' = Orphans BY <2>1 DEF Orphans, Active, Handled, Busy, File, stores
    <2>. QED BY <1>0, <2>1, <2>2, LeaksCount
<1>5. ASSUME NEW r \in Requests, CommitUnacknowledged(r)
      PROVE  LeaksAreFailures'
    <2>1. Inserting(r) BY <1>5 DEF Inserting
    <2>2. /\ UNCHANGED objects /\ \A p \in Requests \ {r} : requests'[p] = requests[p]
          /\ InsertRow(r)
        BY <1>0, <2>1, InsertFacts
    <2>3. failures' = failures + 1 BY <1>5 DEF CommitUnacknowledged, CountFailure
    <2>4. Active \subseteq Active' \cup {File(r)} BY <1>0, <2>2 DEF InsertRow, Active, TypeOK
    <2>5. Orphans' \subseteq Orphans \cup {File(r)} BY <2>2, <2>4, OrphansOfOthers
    <2>. QED BY <1>0, <2>3, <2>5, LeaksCount
<1>. QED BY <1>1, <1>2, <1>3, <1>4, <1>5 DEF Next

-----------------------------------------------------------------------------

\* The initial state.
LEMMA InitEventsInv == Init => EventsInv /\ LeaksAreFailures
<1>. SUFFICES ASSUME Init PROVE EventsInv /\ LeaksAreFailures OBVIOUS
<1>1. \A r \in Requests : requests[r].pc = "idle" BY DEF Init, NoRequest
<1>2. Active = {} /\ Orphans = {} /\ shows = {} /\ failures = 0
    BY DEF Init, Active, NoRow, Orphans
<1>3. AnnouncedOnce /\ ShownRight /\ NotStored
    BY <1>1, <1>2 DEF AnnouncedOnce, ShownRight, NotStored, Announcing, Deleting, At
<1>4. LeaksAreFailures BY <1>2, FS_EmptySet DEF LeaksAreFailures
<1>. QED BY <1>3, <1>4, InitFullInv DEF EventsInv

\* Every step keeps the events in order.
LEMMA NextEventsInv ==
    ASSUME EventsInv, [Next]_vars
    PROVE  EventsInv'
<1>1. FullInv' BY NextFilesInv, NextCount DEF EventsInv, FullInv
<1>2. NotStored' BY NextNotStored
<1>3. AnnouncedOnce' /\ ShownRight'
    <2>1. CASE (\E u \in Users : ChangeMember(u)) \/ UNCHANGED vars
        <3>1. UNCHANGED <<rows, added, shows, disturbed, requests>>
            BY <2>1 DEF ChangeMember, vars, stores, events
        <3>. QED BY <3>1 DEF EventsInv, AnnouncedOnce, ShownRight, Active, Announcing, Deleting, At, File
    <2>2. CASE \E r \in Requests, u \in Users, a \in Attachments :
                    BeginUpload(r, u, a) \/ BeginDelete(r, u, a)
        BY <2>2, BeginsEvents
    <2>3. CASE \E r \in Requests : \/ RequestStep(r) \/ StoreFails(r) \/ CommitFails(r)
                                   \/ CommitUnacknowledged(r) \/ Die(r)
        BY <2>3, OtherEvents, CommitsEvents, AnnouncesEvents, HidesEvents, AnnouncesDeletedEvents
        DEF RequestStep
    <2>. QED BY <2>1, <2>2, <2>3 DEF Next
<1>. QED BY <1>1, <1>2, <1>3 DEF EventsInv

\* What is known of the events holds in every reachable state, and so does the
\* bound on the leaks.
THEOREM EventsHold == Spec => [](EventsInv /\ LeaksAreFailures)
<1>1. Init => EventsInv /\ LeaksAreFailures BY InitEventsInv
<1>2. EventsInv /\ LeaksAreFailures /\ [Next]_vars => (EventsInv /\ LeaksAreFailures)'
    <2>1. EventsInv' => TypeOK' BY DEF EventsInv, FullInv, FilesInv
    <2>. QED BY <2>1, NextEventsInv, NextLeaks
<1>. QED BY <1>1, <1>2, PTL DEF Spec

\* When the requests on an attachment are through, clients show it exactly if it
\* is active, unless its events were emitted in the wrong order or its request
\* ended with its event still to be sent.
THEOREM RoomsShowWhatIsThere == Spec => []RoomShowsActive
<1>1. EventsInv => RoomShowsActive
    <2>. SUFFICES ASSUME EventsInv, NEW a \in Attachments \ disturbed,
                         \A r \in Busy : File(r) # a
                  PROVE  a \in shows <=> a \in Active
        BY DEF RoomShowsActive
    <2>1. ~Announcing(a) /\ ~Deleting(a)
        BY DEF Announcing, Deleting, Busy, At, NoRequest
    <2>. QED BY <2>1 DEF EventsInv, ShownRight
<1>. QED BY <1>1, EventsHold, PTL

\* However the requests on a message interleave, the bucket holds no more
\* objects that nobody refers to than steps have failed.
THEOREM LeaksOnlyByFailures == Spec => []LeaksAreFailures
<1>1. EventsInv /\ LeaksAreFailures => LeaksAreFailures OBVIOUS
<1>. QED BY <1>1, EventsHold, PTL

-----------------------------------------------------------------------------
(* The sizes of sets of files.  SizeOf is a recursive function on the       *)
(* subsets of its argument: that there is such a function, and that it is   *)
(* the sum whatever file it takes first, follows from the least             *)
(* counterexample.                                                          *)

\* Every set of natural numbers has a least element.
LEMMA LeastNatural ==
    ASSUME NEW T \in SUBSET Nat, T # {}
    PROVE  \E x \in T : \A y \in T : x <= y
<1>. DEFINE L == {p \in Nat \X Nat : p[1] < p[2]}
<1>1. IsWellFoundedOn(L, Nat)
    <2>1. L = OpToRel(<, Nat) BY DEF OpToRel
    <2>. QED BY <2>1, NatLessThanWellFounded
<1>2. \A x, y \in Nat : x < y => <<x, y>> \in L OBVIOUS
<1>. HIDE DEF L
<1>3. PICK x \in T : \A y \in T : <<y, x>> \notin L BY <1>1, WFMin
<1>4. \A y \in T : ~(y < x) BY <1>2, <1>3
<1>. QED BY <1>4

\* Among sets of files there is a smallest one.
LEMMA SmallestSet ==
    ASSUME NEW F \in SUBSET (SUBSET Attachments), F # {}
    PROVE  \E S \in F : \A T \in F : Cardinality(S) <= Cardinality(T)
<1>. DEFINE N == {Cardinality(S) : S \in F}
<1>1. \A S \in F : Cardinality(S) \in Nat
    BY AttachmentsAssumption, FS_Subset, FS_CardinalityType
<1>2. N \in SUBSET Nat /\ N # {} BY <1>1
<1>3. \A S \in F : Cardinality(S) \in N OBVIOUS
<1>4. \A n \in N : \E S \in F : n = Cardinality(S) OBVIOUS
<1>. HIDE DEF N
<1>5. PICK n \in N : \A k \in N : n <= k BY <1>2, LeastNatural
<1>. QED BY <1>3, <1>4, <1>5

\* A file less makes a set smaller.
LEMMA Smaller ==
    ASSUME NEW S \in SUBSET Attachments, NEW x \in S
    PROVE  /\ IsFiniteSet(S) /\ Cardinality(S) \in Nat /\ S \ {x} \in SUBSET Attachments
           /\ Cardinality(S \ {x}) \in Nat /\ Cardinality(S \ {x}) < Cardinality(S)
<1>1. IsFiniteSet(S) BY AttachmentsAssumption, FS_Subset
<1>2. IsFiniteSet(S \ {x}) /\ Cardinality(S \ {x}) = Cardinality(S) - 1
    BY <1>1, FS_RemoveElement, Zenon
<1>. QED BY <1>1, <1>2, FS_CardinalityType

\* Induction over the sets of files.
LEMMA SetsInduction ==
    ASSUME NEW F \in SUBSET (SUBSET Attachments), {} \in F,
           \A S \in F : \A x \in Attachments \ S : S \cup {x} \in F
    PROVE  SUBSET Attachments \subseteq F
<1>. DEFINE M == (SUBSET Attachments) \ F
<1>. SUFFICES ASSUME M # {} PROVE FALSE
    OBVIOUS
<1>1. PICK S \in M : \A T \in M : Cardinality(S) <= Cardinality(T)
    BY SmallestSet
<1>2. PICK x \in S : TRUE OBVIOUS
<1>3. S \ {x} \in F BY <1>1, <1>2, Smaller
<1>4. S = (S \ {x}) \cup {x} /\ x \in Attachments \ (S \ {x}) BY <1>2
<1>. QED BY <1>3, <1>4

\* The file SizeOf takes first, and the function it defines.
First(s) == CHOOSE x \in s : TRUE
Sums(D, it) ==
    it = [s \in SUBSET D |-> IF s = {} THEN 0 ELSE Size[First(s)] + it[s \ {First(s)}]]

LEMMA FirstIn ==
    ASSUME NEW S, S # {}
    PROVE  First(S) \in S
BY DEF First

\* There is such a function: for sets of at most n files, whatever n.
LEMMA SumsExist ==
    ASSUME NEW D \in SUBSET Attachments
    PROVE  \E it : Sums(D, it)
<1>. DEFINE Upto(n) == {s \in SUBSET D : Cardinality(s) <= n}
            Part(n, it) == it = [s \in Upto(n) |->
                                    IF s = {} THEN 0 ELSE Size[First(s)] + it[s \ {First(s)}]]
            Bad == {n \in Nat : ~\E it : Part(n, it)}
<1>1. IsFiniteSet(D) /\ \A s \in SUBSET D : IsFiniteSet(s) /\ Cardinality(s) \in Nat
    BY AttachmentsAssumption, FS_Subset, FS_CardinalityType
<1>2. ASSUME Bad # {} PROVE FALSE
    <2>1. Bad \in SUBSET Nat OBVIOUS
    <2>2. PICK n \in Bad : \A k \in Bad : n <= k
        <3>. HIDE DEF Bad
        <3>. QED BY <1>2, <2>1, LeastNatural
    <2>3. CASE n = 0
        <3>1. \A s \in Upto(0) : s = {}
            <4>1. \A s \in Upto(0) : IsFiniteSet(s) /\ Cardinality(s) = 0 BY <1>1
            <4>. QED BY <4>1, FS_EmptySet
        <3>2. Part(0, [s \in Upto(0) |-> 0])
            <4>. HIDE DEF Upto
            <4>. QED BY <3>1
        <3>. QED BY <2>3, <3>2
    <2>4. CASE n # 0
        <3>1. n - 1 \in Nat /\ n - 1 \notin Bad
            <4>1. n \in Nat BY <2>1
            <4>. HIDE DEF Bad
            <4>. QED BY <2>2, <2>4, <4>1
        <3>2. PICK f : Part(n - 1, f) BY <3>1
        <3>. DEFINE g == [s \in Upto(n) |-> IF s = {} THEN 0 ELSE Size[First(s)] + f[s \ {First(s)}]]
        <3>3. ASSUME NEW s \in Upto(n), s # {}
              PROVE  s \ {First(s)} \in Upto(n - 1)
            BY <3>1, <3>3, FirstIn, Smaller
        <3>4. ASSUME NEW t \in Upto(n - 1)
              PROVE  t \in Upto(n) /\ g[t] = f[t]
            <4>1. t \in Upto(n) BY <1>1, <3>1
            <4>. HIDE DEF Upto
            <4>. QED BY <3>2, <4>1
        <3>5. Part(n, g)
            <4>. HIDE DEF Upto
            <4>1. \A s \in Upto(n) : s # {} => g[s \ {First(s)}] = f[s \ {First(s)}]
                BY <3>3, <3>4
            <4>. QED BY <4>1
        <3>. QED BY <3>5
    <2>. QED BY <2>3, <2>4
<1>3. Cardinality(D) \in Nat /\ Cardinality(D) \notin Bad BY <1>1, <1>2
<1>4. PICK it : Part(Cardinality(D), it) BY <1>3
<1>5. Upto(Cardinality(D)) = SUBSET D BY <1>1, FS_Subset
<1>. QED BY <1>4, <1>5 DEF Sums

\* The function on all sets of files.
Whole == CHOOSE it : Sums(Attachments, it)

LEMMA WholeSums ==
    /\ Whole[{}] = 0
    /\ \A S \in SUBSET Attachments : S # {} => Whole[S] = Size[First(S)] + Whole[S \ {First(S)}]
<1>1. Sums(Attachments, Whole)
    <2>1. \E it : Sums(Attachments, it) BY SumsExist
    <2>. QED BY <2>1 DEF Whole
<1>. QED BY <1>1 DEF Sums

\* SizeOf computes the same sum whatever set it starts from.
LEMMA SizeOfIsWhole ==
    ASSUME NEW D \in SUBSET Attachments
    PROVE  SizeOf(D) = Whole[D]
<1>. DEFINE own == CHOOSE it : Sums(D, it)
<1>1. Sums(D, own) BY SumsExist
<1>2. SizeOf(D) = own[D]
    BY DEF SizeOf, MapThenSumSet, MapThenFoldSet, Sums, First
<1>. HIDE DEF own
<1>. DEFINE Off == {s \in SUBSET D : own[s] # Whole[s]}
<1>3. ASSUME Off # {} PROVE FALSE
    <2>1. Off \in SUBSET (SUBSET Attachments) OBVIOUS
    <2>2. PICK s \in Off : \A t \in Off : Cardinality(s) <= Cardinality(t)
        <3>. HIDE DEF Off
        <3>. QED BY <1>3, <2>1, SmallestSet
    <2>3. s # {}
        <3>1. own[{}] = 0 BY <1>1 DEF Sums
        <3>. QED BY <2>2, <3>1, WholeSums
    <2>4. First(s) \in s BY <2>3, FirstIn
    <2>5. s \ {First(s)} \notin Off BY <2>2, <2>4, Smaller
    <2>6. own[s \ {First(s)}] = Whole[s \ {First(s)}] BY <2>5
    <2>7. own[s] = Size[First(s)] + own[s \ {First(s)}] BY <1>1, <2>3 DEF Sums
    <2>8. Whole[s] = Size[First(s)] + Whole[s \ {First(s)}] BY <2>3, WholeSums
    <2>. QED BY <2>6, <2>7, <2>8
<1>4. own[D] = Whole[D] BY <1>3
<1>. QED BY <1>2, <1>4

\* A sum of sizes is a natural number.
LEMMA WholeIsNatural == \A S \in SUBSET Attachments : Whole[S] \in Nat
<1>. DEFINE Off == {S \in SUBSET Attachments : Whole[S] \notin Nat}
<1>1. ASSUME Off # {} PROVE FALSE
    <2>2. PICK s \in Off : \A t \in Off : Cardinality(s) <= Cardinality(t)
        BY <1>1, SmallestSet
    <2>3. s # {} BY WholeSums
    <2>4. First(s) \in s BY <2>3, FirstIn
    <2>5. Whole[s \ {First(s)}] \in Nat BY <2>2, <2>4, Smaller
    <2>6. Size[First(s)] \in Nat BY <2>4, AttachmentsAssumption
    <2>7. Whole[s] = Size[First(s)] + Whole[s \ {First(s)}] BY <2>3, WholeSums
    <2>8. Whole[s] \in Nat
        <3>. HIDE DEF Off
        <3>. QED BY <2>5, <2>6, <2>7
    <2>. QED BY <2>8
<1>. QED BY <1>1

\* The size of one file more.
LEMMA WholeOfOneMore ==
    ASSUME NEW S \in SUBSET Attachments, NEW x \in Attachments \ S
    PROVE  Whole[S \cup {x}] = Whole[S] + Size[x]
<1>. DEFINE Off == {s \in SUBSET Attachments :
                        \E y \in Attachments \ s : Whole[s \cup {y}] # Whole[s] + Size[y]}
<1>1. ASSUME Off # {} PROVE FALSE
    <2>1. PICK s \in Off : \A t \in Off : Cardinality(s) <= Cardinality(t)
        BY <1>1, SmallestSet
    <2>2. PICK y \in Attachments \ s : Whole[s \cup {y}] # Whole[s] + Size[y]
        OBVIOUS
    <2>. DEFINE z == First(s \cup {y})
    <2>3. z \in s \cup {y} BY FirstIn
    <2>4. Whole[s \cup {y}] = Size[z] + Whole[(s \cup {y}) \ {z}] BY WholeSums
    <2>. HIDE DEF z
    <2>5. /\ Whole[s] \in Nat /\ Size[y] \in Nat /\ Size[z] \in Nat
          /\ Whole[s \ {z}] \in Nat
        BY <2>3, WholeIsNatural, AttachmentsAssumption
    <2>6. CASE z = y
        <3>1. (s \cup {y}) \ {z} = s BY <2>6
        <3>2. Whole[s \cup {y}] = Size[y] + Whole[s] BY <2>4, <2>6, <3>1, Zenon
        <3>. HIDE DEF Off
        <3>. QED BY <2>2, <2>5, <3>2
    <2>7. CASE z # y
        <3>1. z \in s /\ (s \cup {y}) \ {z} = (s \ {z}) \cup {y} /\ s = (s \ {z}) \cup {z}
              /\ y \in Attachments \ (s \ {z}) /\ z \in Attachments \ (s \ {z})
            BY <2>3, <2>7
        <3>2. s \ {z} \in SUBSET Attachments /\ s \ {z} \notin Off
            <4>. HIDE DEF Off
            <4>1. s \in SUBSET Attachments BY DEF Off
            <4>2. \A t \in Off : ~(Cardinality(t) < Cardinality(s))
                <5>1. \A t \in Off : t \in SUBSET Attachments BY DEF Off
                <5>2. \A t \in SUBSET Attachments : Cardinality(t) \in Nat
                    BY AttachmentsAssumption, FS_Subset, FS_CardinalityType
                <5>. QED BY <2>1, <4>1, <5>1, <5>2
            <4>. QED BY <3>1, <4>1, <4>2, Smaller
        <3>3. Whole[(s \ {z}) \cup {y}] = Whole[s \ {z}] + Size[y] BY <3>1, <3>2
        <3>4. Whole[s] = Whole[s \ {z}] + Size[z] BY <3>1, <3>2
        <3>5. Whole[s \cup {y}] = Size[z] + Whole[(s \ {z}) \cup {y}] BY <2>4, <3>1, Zenon
        <3>. HIDE DEF Off
        <3>. QED BY <2>2, <2>5, <3>3, <3>4, <3>5
    <2>. QED BY <2>6, <2>7
<1>. QED BY <1>1

\* More files are not smaller.
LEMMA SizesGrow ==
    ASSUME NEW T \in SUBSET Attachments, NEW S \in SUBSET T
    PROVE  SizeOf(S) <= SizeOf(T)
<1>. DEFINE F == {t \in SUBSET Attachments : \A s \in SUBSET t : Whole[s] <= Whole[t]}
<1>1. {} \in F BY WholeSums
<1>2. ASSUME NEW t \in F, NEW x \in Attachments \ t
      PROVE  t \cup {x} \in F
    <2>0. t \in SUBSET Attachments /\ t \cup {x} \in SUBSET Attachments
          /\ \A s \in SUBSET t : Whole[s] <= Whole[t]
        OBVIOUS
    <2>1. Whole[t \cup {x}] = Whole[t] + Size[x] /\ Whole[t] \in Nat /\ Size[x] \in Nat
        BY <2>0, WholeOfOneMore, WholeIsNatural, AttachmentsAssumption
    <2>2. ASSUME NEW s \in SUBSET (t \cup {x}) PROVE Whole[s] <= Whole[t \cup {x}]
        <3>1. CASE x \notin s
            <4>1. s \in SUBSET t BY <3>1
            <4>2. Whole[s] <= Whole[t] /\ Whole[s] \in Nat BY <2>0, <4>1, WholeIsNatural
            <4>. QED BY <2>1, <4>2
        <3>2. CASE x \in s
            <4>1. s \ {x} \in SUBSET t /\ s = (s \ {x}) \cup {x} BY <3>2
            <4>2. Whole[s] = Whole[s \ {x}] + Size[x] BY <2>0, <4>1, WholeOfOneMore
            <4>3. Whole[s \ {x}] <= Whole[t] /\ Whole[s \ {x}] \in Nat
                BY <2>0, <4>1, WholeIsNatural
            <4>. QED BY <2>1, <4>2, <4>3
        <3>. QED BY <3>1, <3>2
    <2>. QED BY <2>0, <2>2
<1>3. SUBSET Attachments \subseteq F
    <2>1. F \in SUBSET (SUBSET Attachments) OBVIOUS
    <2>. HIDE DEF F
    <2>. QED BY <1>1, <1>2, <2>1, SetsInduction
<1>4. Whole[S] <= Whole[T] BY <1>3
<1>. QED BY <1>4, SizeOfIsWhole

\* Each file adds at most the largest size.
LEMMA SizeOfUnion ==
    ASSUME NEW S \in SUBSET Attachments, NEW T \in SUBSET Attachments
    PROVE  SizeOf(S \cup T) <= SizeOf(S) + Cardinality(T) * MaxSize
<1>. DEFINE F == {t \in SUBSET Attachments :
                    Whole[S \cup t] <= Whole[S] + Cardinality(t) * MaxSize}
<1>0. MaxSize \in Nat BY AttachmentsAssumption
<1>1. {} \in F
    <2>1. S \cup {} = S /\ Cardinality({}) = 0 BY FS_EmptySet
    <2>2. Whole[S] <= Whole[S] + 0 * MaxSize BY <1>0, WholeIsNatural
    <2>. QED BY <2>1, <2>2
<1>2. ASSUME NEW t \in F, NEW x \in Attachments \ t
      PROVE  t \cup {x} \in F
    <2>0. t \in SUBSET Attachments /\ t \cup {x} \in SUBSET Attachments
          /\ S \cup t \in SUBSET Attachments
          /\ S \cup (t \cup {x}) = (S \cup t) \cup {x}
          /\ Whole[S \cup t] <= Whole[S] + Cardinality(t) * MaxSize
        OBVIOUS
    <2>1. IsFiniteSet(t) /\ Cardinality(t) \in Nat
        BY <2>0, AttachmentsAssumption, FS_Subset, FS_CardinalityType
    <2>2. Cardinality(t \cup {x}) = Cardinality(t) + 1 BY <2>1, FS_AddElement, Zenon
    <2>3. /\ Whole[S] \in Nat /\ Whole[S \cup t] \in Nat
          /\ Size[x] \in Nat /\ Size[x] <= MaxSize
        BY <2>0, WholeIsNatural, AttachmentsAssumption
    <2>4. Whole[(S \cup t) \cup {x}] <= Whole[S \cup t] + MaxSize
        <3>1. CASE x \in S
            <4>1. (S \cup t) \cup {x} = S \cup t BY <3>1
            <4>2. Whole[(S \cup t) \cup {x}] = Whole[S \cup t] BY <4>1, Zenon
            <4>. QED BY <1>0, <2>3, <4>2
        <3>2. CASE x \notin S
            <4>1. Whole[(S \cup t) \cup {x}] = Whole[S \cup t] + Size[x]
                BY <2>0, <3>2, WholeOfOneMore
            <4>. QED BY <1>0, <2>3, <4>1
        <3>. QED BY <3>1, <3>2
    <2>5. (Cardinality(t) + 1) * MaxSize = Cardinality(t) * MaxSize + MaxSize
          /\ Cardinality(t) * MaxSize \in Nat
        BY <1>0, <2>1
    <2>6. Whole[S \cup (t \cup {x})] <= Whole[S] + Cardinality(t \cup {x}) * MaxSize
        <3>1. Whole[(S \cup t) \cup {x}] \in Nat BY <2>0, WholeIsNatural
        <3>2. Whole[(S \cup t) \cup {x}] <= Whole[S] + (Cardinality(t) * MaxSize + MaxSize)
            <4>. DEFINE c == Cardinality(t) * MaxSize
            <4>1. c \in Nat /\ Whole[S \cup t] <= Whole[S] + c BY <2>0, <2>5
            <4>. HIDE DEF c
            <4>2. Whole[(S \cup t) \cup {x}] <= Whole[S] + (c + MaxSize)
                BY <1>0, <2>3, <2>4, <3>1, <4>1
            <4>. QED BY <4>2 DEF c
        <3>. QED BY <2>0, <2>2, <2>5, <3>2, Zenon
    <2>. QED BY <2>0, <2>6
<1>3. SUBSET Attachments \subseteq F
    <2>1. F \in SUBSET (SUBSET Attachments) OBVIOUS
    <2>. HIDE DEF F
    <2>. QED BY <1>1, <1>2, <2>1, SetsInduction
<1>4. Whole[S \cup T] <= Whole[S] + Cardinality(T) * MaxSize BY <1>3
<1>. QED BY <1>4, SizeOfIsWhole

-----------------------------------------------------------------------------
(* The total size *)

\* The files that have passed the checks on the total and have no row yet.
Passed(r) == At(r, "store") \/ At(r, "commit")
Pending == {File(r) : r \in {p \in Requests : Passed(p)}}

SizesInv ==
    SizeOf(Active \cup Pending) <= MaxTotalSize + (Cardinality(Requests) - 1) * MaxSize

\* The files of a set of requests are no more than the requests.
LEMMA FilesOfRequests ==
    ASSUME NEW R \in SUBSET Requests
    PROVE  /\ IsFiniteSet(R) /\ IsFiniteSet({File(p) : p \in R})
           /\ Cardinality(R) \in Nat /\ Cardinality({File(p) : p \in R}) \in Nat
           /\ Cardinality({File(p) : p \in R}) <= Cardinality(R)
<1>. DEFINE fs == {File(p) : p \in R}
            f == [p \in R |-> File(p)]
<1>1. IsFiniteSet(R) BY AttachmentsAssumption, FS_Subset
<1>2. f \in Surjection(R, fs) BY DEF Surjection
<1>. HIDE DEF f
<1>. QED BY <1>1, <1>2, FS_Surjection, FS_CardinalityType

\* A step that admits no file does not add to the total.
LEMMA SizesShrink ==
    ASSUME FilesInv, SizesInv, (Active \cup Pending)' \subseteq Active \cup Pending
    PROVE  SizesInv'
<1>0. TypeOK BY DEF FilesInv
<1>1. Active \cup Pending \in SUBSET Attachments
    BY <1>0, RequestType DEF Active, Pending, Passed, At
<1>. DEFINE bound == MaxTotalSize + (Cardinality(Requests) - 1) * MaxSize
            now == Active \cup Pending
            next == (Active \cup Pending)'
<1>2. next \in SUBSET now OBVIOUS
<1>3. SizeOf(next) <= SizeOf(now) BY <1>1, <1>2, SizesGrow
<1>4. SizeOf(next) \in Nat /\ SizeOf(now) \in Nat
    <2>1. next \in SUBSET Attachments /\ now \in SUBSET Attachments BY <1>1
    <2>. HIDE DEF now, next
    <2>. QED BY <2>1, SizeOfIsWhole, WholeIsNatural
<1>5. SizeOf(now) <= bound BY DEF SizesInv
<1>6. Cardinality(Requests) \in Int /\ MaxSize \in Int /\ MaxTotalSize \in Int
    BY AttachmentsAssumption, FS_CardinalityType
<1>7. bound \in Int BY <1>6
<1>8. SizeOf(next) <= bound
    <2>. HIDE DEF bound, now, next
    <2>. QED BY <1>3, <1>4, <1>5, <1>7
<1>. QED BY <1>8 DEF SizesInv

\* More factors, a larger product.
LEMMA MoreOfThem ==
    ASSUME NEW a \in Nat, NEW b \in Nat, NEW c \in Nat, a <= b
    PROVE  a * c <= b * c
<1>1. PICK d \in Nat : b = a + d
    <2>1. b - a \in Nat /\ b = a + (b - a) OBVIOUS
    <2>. QED BY <2>1
<1>2. (a + d) * c = a * c + d * c /\ a * c \in Nat /\ d * c \in Nat OBVIOUS
<1>. QED BY <1>1, <1>2

\* When a file passes the check on the total, each other thread has at most one
\* that the check has not seen.
LEMMA AdmitsFile ==
    ASSUME FilesInv, NEW r \in Requests, CheckTotal(r), Go(r, "store"),
           SizeOf(Active) + Size[File(r)] <= MaxTotalSize
    PROVE  SizesInv'
<1>0. TypeOK BY DEF FilesInv
<1>1. requests[r].pc \in Before /\ requests[r].pc # "idle" /\ ~Passed(r) /\ "store" \in Pcs
    BY DEF CheckTotal, At, Before, Passed, Pcs
<1>2. PICK f \in Attachments : f = File(r) BY <1>0, <1>1, RequestType
<1>3. rows[f] = NoRow BY <1>1, <1>2 DEF FilesInv, UploadsAreAlone
<1>4. /\ \A p \in Requests \ {r} : requests'[p] = requests[p]
      /\ requests'[r].pc = "store" /\ File(r)' = f
    BY <1>0, <1>1, <1>2, GoFacts
<1>5. Active' = Active /\ Active \in SUBSET Attachments /\ f \notin Active
    BY <1>3 DEF CheckTotal, stores, Active, NoRow
<1>. DEFINE R == {p \in Requests : Passed(p)}
            others == {File(p) : p \in R}
<1>6. others \in SUBSET Attachments BY <1>0, RequestType DEF Passed, At
<1>7. (Active \cup Pending)' \subseteq (Active \cup {f}) \cup others
    BY <1>4, <1>5 DEF Pending, Passed, At, File
<1>8. Cardinality(R) <= Cardinality(Requests) - 1 /\ Cardinality(Requests) \in Nat
      /\ Cardinality(R) \in Nat
    <2>1. IsFiniteSet(Requests) BY AttachmentsAssumption
    <2>2. IsFiniteSet(Requests \ {r}) /\ Cardinality(Requests \ {r}) = Cardinality(Requests) - 1
        BY <2>1, FS_RemoveElement, Zenon
    <2>3. R \subseteq Requests \ {r} BY <1>1
    <2>. HIDE DEF R
    <2>4. Cardinality(R) <= Cardinality(Requests \ {r}) BY <2>2, <2>3, FS_Subset
    <2>. QED BY <2>1, <2>2, <2>3, <2>4, FS_Subset, FS_CardinalityType
<1>9. Cardinality(others) \in Nat /\ Cardinality(others) <= Cardinality(R)
    <2>1. R \in SUBSET Requests OBVIOUS
    <2>. HIDE DEF R
    <2>. QED BY <2>1, FilesOfRequests
<1>10. SizeOf(Active \cup {f}) <= MaxTotalSize /\ SizeOf(Active \cup {f}) \in Nat
    <2>1. /\ SizeOf(Active) = Whole[Active]
          /\ SizeOf(Active \cup {f}) = Whole[Active \cup {f}]
          /\ Whole[Active \cup {f}] = Whole[Active] + Size[f]
          /\ Whole[Active] \in Nat /\ Whole[Active \cup {f}] \in Nat
        BY <1>5, SizeOfIsWhole, WholeOfOneMore, WholeIsNatural
    <2>. QED BY <1>2, <2>1
<1>. HIDE DEF others, R
<1>. DEFINE next == (Active \cup Pending)'
            all == (Active \cup {f}) \cup others
<1>11. next \in SUBSET all /\ all \in SUBSET Attachments BY <1>5, <1>6, <1>7
<1>12. SizeOf(next) <= SizeOf(all) BY <1>11, SizesGrow
<1>13. SizeOf(all) <= SizeOf(Active \cup {f}) + Cardinality(others) * MaxSize
    BY <1>5, <1>6, SizeOfUnion
<1>14. Cardinality(others) * MaxSize <= (Cardinality(Requests) - 1) * MaxSize
    <2>1. Cardinality(Requests) - 1 \in Nat /\ MaxSize \in Nat
          /\ Cardinality(others) <= Cardinality(Requests) - 1
        BY <1>8, <1>9, AttachmentsAssumption
    <2>. QED BY <1>9, <2>1, MoreOfThem
<1>15. SizeOf(next) \in Nat /\ SizeOf(all) \in Nat
    <2>1. next \in SUBSET Attachments /\ all \in SUBSET Attachments BY <1>11
    <2>. HIDE DEF next, all
    <2>. QED BY <2>1, SizeOfIsWhole, WholeIsNatural
<1>16. /\ Cardinality(others) * MaxSize \in Int
       /\ (Cardinality(Requests) - 1) * MaxSize \in Int /\ MaxTotalSize \in Int
    BY <1>8, <1>9, AttachmentsAssumption
<1>17. SizeOf(next) <= MaxTotalSize + (Cardinality(Requests) - 1) * MaxSize
    <2>. DEFINE b == Cardinality(others) * MaxSize
                c == (Cardinality(Requests) - 1) * MaxSize
    <2>1. b \in Int /\ c \in Int /\ b <= c /\ SizeOf(all) <= SizeOf(Active \cup {f}) + b
        BY <1>13, <1>14, <1>16
    <2>. HIDE DEF b, c, next, all
    <2>2. SizeOf(next) <= MaxTotalSize + c
        BY <1>10, <1>12, <1>15, <1>16, <2>1
    <2>. QED BY <2>2 DEF c
<1>. QED BY <1>17 DEF SizesInv

\* Every step keeps the total within its bound.
LEMMA NextSizes ==
    ASSUME FilesInv, SizesInv, [Next]_vars
    PROVE  SizesInv'
<1>0. TypeOK BY DEF FilesInv
<1>1. CASE (\E u \in Users : ChangeMember(u)) \/ UNCHANGED vars
    <2>1. Active' = Active /\ Pending' = Pending
        BY <1>1 DEF ChangeMember, vars, stores, Active, Pending, Passed, At, File
    <2>. QED BY <2>1, SizesShrink
<1>2. ASSUME NEW r \in Requests, \A p \in Requests \ {r} : requests'[p] = requests[p],
             Passed(r)' => Passed(r) /\ File(r)' = File(r),
             Active' \subseteq Active
      PROVE  SizesInv'
    <2>1. Pending' \subseteq Pending
        <3>. SUFFICES ASSUME NEW p \in Requests, Passed(p)'
                      PROVE  File(p)' \in Pending
            BY DEF Pending
        <3>1. CASE p = r BY <1>2, <3>1 DEF Pending
        <3>2. CASE p # r
            <4>1. Passed(p) /\ File(p)' = File(p) BY <1>2, <3>2 DEF Passed, At, File
            <4>. QED BY <4>1 DEF Pending
        <3>. QED BY <3>1, <3>2
    <2>. QED BY <1>2, <2>1, SizesShrink
<1>3. ASSUME NEW r \in Requests, requests[r].pc # "idle", Active' \subseteq Active,
             End(r) \/ \E pc \in Pcs : Go(r, pc) /\ (pc \in {"store", "commit"} => Passed(r))
      PROVE  SizesInv'
    <2>1. \A p \in Requests \ {r} : requests'[p] = requests[p]
        BY <1>0, <1>3, EndFacts, GoFacts
    <2>2. Passed(r)' => Passed(r) /\ File(r)' = File(r)
        <3>1. CASE End(r) BY <1>0, <3>1, EndFacts DEF Passed, At, NoRequest
        <3>2. CASE \E pc \in Pcs : Go(r, pc) /\ (pc \in {"store", "commit"} => Passed(r))
            BY <1>0, <1>3, <3>2, GoFacts DEF Passed, At
        <3>. QED BY <1>3, <3>1, <3>2
    <2>. QED BY <1>2, <1>3, <2>1, <2>2
<1>4. ASSUME NEW r \in Requests, NEW u \in Users, NEW a \in Attachments,
             BeginUpload(r, u, a) \/ BeginDelete(r, u, a)
      PROVE  SizesInv'
    <2>1. PICK pc \in {"check", "hide"} :
            requests' = [requests EXCEPT ![r] = [pc |-> pc, user |-> u, attachment |-> a]]
        BY <1>4 DEF BeginUpload, BeginDelete
    <2>2. /\ \A p \in Requests \ {r} : requests'[p] = requests[p]
          /\ requests'[r].pc = pc
        BY <1>0, <2>1 DEF TypeOK
    <2>3. ~Passed(r)' BY <2>2 DEF Passed, At
    <2>4. Active' = Active BY <1>4 DEF BeginUpload, BeginDelete, stores, Active
    <2>. QED BY <1>2, <2>2, <2>3, <2>4
<1>5. ASSUME NEW r \in Requests, CheckTotal(r)
      PROVE  SizesInv'
    <2>1. At(r, "total") /\ Active' = Active BY <1>5 DEF CheckTotal, stores, Active
    <2>2. CASE End(r) BY <1>3, <2>1, <2>2 DEF At
    <2>3. CASE Go(r, "store") /\ SizeOf(Active) + Size[File(r)] <= MaxTotalSize
        BY <1>5, <2>3, AdmitsFile
    <2>. QED BY <1>5, <2>2, <2>3 DEF CheckTotal
<1>6. ASSUME NEW r \in Requests, Inserting(r)
      PROVE  SizesInv'
    <2>1. At(r, "commit") /\ InsertRow(r) BY <1>0, <1>6, InsertFacts
    <2>2. Passed(r) BY <2>1 DEF Passed
    <2>3. /\ \A p \in Requests \ {r} : requests'[p] = requests[p]
          /\ requests'[r].pc \in {"announce", "clean_up"}
        BY <1>0, <1>6, InsertFacts
    <2>4. Pending' \subseteq Pending
        BY <2>3 DEF Pending, Passed, At, File
    <2>5. Active' \subseteq Active \cup {File(r)}
        BY <1>0, <2>1 DEF InsertRow, Active, TypeOK
    <2>6. File(r) \in Pending BY <2>2 DEF Pending
    <2>. QED BY <2>4, <2>5, <2>6, SizesShrink
<1>7. ASSUME NEW r \in Requests,
             \/ CheckAccess(r) \/ CheckCount(r) \/ StoreObject(r) \/ StoreFails(r) \/ CommitFails(r)
             \/ CleanUp(r) \/ Announce(r) \/ HideRow(r) \/ RemoveObject(r) \/ AnnounceDeleted(r)
             \/ Die(r)
      PROVE  SizesInv'
    <2>1. Active' \subseteq Active
        <3>1. CASE HideRow(r)
            BY <1>0, <3>1 DEF HideRow, Active, TypeOK
        <3>. QED BY <1>7, <3>1 DEF CheckAccess, CheckCount, StoreObject, StoreFails, CommitFails, CleanUp,
                    Announce, RemoveObject, AnnounceDeleted, Die, stores, Active
    <2>2. requests[r].pc # "idle"
        <3>1. CASE Die(r)
            BY <1>0, <3>1 DEF Die, Busy, TypeOK, Request, NoRequest
        <3>. QED BY <1>7, <3>1 DEF CheckAccess, CheckCount, StoreObject, StoreFails, CommitFails, CleanUp,
                    Announce, HideRow, RemoveObject, AnnounceDeleted, At
    <2>3. End(r) \/ \E pc \in Pcs : Go(r, pc) /\ (pc \in {"store", "commit"} => Passed(r))
        BY <1>7 DEF CheckAccess, CheckCount, StoreObject, StoreFails, CommitFails, CleanUp,
                    Announce, HideRow, RemoveObject, AnnounceDeleted, Die, At, Pcs, Passed
    <2>. QED BY <1>3, <2>1, <2>2, <2>3
<1>. QED BY <1>1, <1>4, <1>5, <1>6, <1>7 DEF Next, RequestStep, Inserting

\* For any sizes and limits and any number of threads, check-then-insert exceeds the
\* limit on the total by at most one largest file for each of the other threads.
THEOREM SizeOverrunBound == Spec => []SizeOverrunIsBounded
<1>. DEFINE bound == MaxTotalSize + (Cardinality(Requests) - 1) * MaxSize
<1>0. bound \in Nat
    <2>1. IsFiniteSet(Requests) /\ Requests # {} BY AttachmentsAssumption
    <2>2. Cardinality(Requests) \in Nat /\ Cardinality(Requests) # 0
        BY <2>1, FS_CardinalityType, FS_EmptySet
    <2>3. Cardinality(Requests) - 1 \in Nat /\ MaxSize \in Nat /\ MaxTotalSize \in Nat
        BY <2>2, AttachmentsAssumption
    <2>4. \A a, b \in Nat : a * b \in Nat OBVIOUS
    <2>. QED BY <2>3, <2>4
<1>1. Init => SizesInv
    <2>. SUFFICES ASSUME Init PROVE SizesInv OBVIOUS
    <2>1. Active \cup Pending = {}
        BY DEF Init, Active, NoRow, Pending, Passed, At, NoRequest
    <2>2. SizeOf({}) = 0 BY SizeOfIsWhole, WholeSums
    <2>3. SizeOf(Active \cup Pending) = 0 BY <2>1, <2>2, Zenon
    <2>4. 0 <= bound
        <3>. HIDE DEF bound
        <3>. QED BY <1>0
    <2>. QED BY <2>3, <2>4 DEF SizesInv
<1>2. FullInv /\ SizesInv /\ [Next]_vars => SizesInv'
    BY NextSizes DEF FullInv
<1>3. FullInv /\ SizesInv => SizeOverrunIsBounded
    <2>. SUFFICES ASSUME TypeOK, SizesInv PROVE SizeOf(Active) <= bound
        BY DEF FullInv, FilesInv, SizeOverrunIsBounded
    <2>. DEFINE all == Active \cup Pending
    <2>1. all \in SUBSET Attachments /\ Active \in SUBSET all
        BY RequestType DEF Active, Pending, Passed, At
    <2>2. SizeOf(Active) <= SizeOf(all) BY <2>1, SizesGrow
    <2>3. SizeOf(Active) \in Nat /\ SizeOf(all) \in Nat
        <3>1. Active \in SUBSET Attachments BY <2>1
        <3>. HIDE DEF all
        <3>. QED BY <2>1, <3>1, SizeOfIsWhole, WholeIsNatural
    <2>4. SizeOf(all) <= bound BY DEF SizesInv
    <2>. HIDE DEF all, bound
    <2>. QED BY <1>0, <2>2, <2>3, <2>4
<1>. QED BY <1>1, <1>2, <1>3, InvariantHolds, PTL DEF Spec
=============================================================================
