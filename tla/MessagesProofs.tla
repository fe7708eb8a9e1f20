--------------------------- MODULE MessagesProofs ---------------------------
(***************************************************************************)
(* What reaches the room and the sender of a message agrees with the       *)
(* table, for any number of users, contexts, messages and requests.        *)
(*                                                                         *)
(* The properties speak of the tables and of what was sent; the invariant  *)
(* adds what a request knows of its message at each of its steps: that a   *)
(* creation is alone with its message until its commit, that an edition    *)
(* has a row under it, and that the text it holds for its event is the     *)
(* row's unless somebody committed in between.                             *)
(*                                                                         *)
(* The last section proves what is safe of "a stored message is shown": as *)
(* long as it is not, a request underway or an error accounts for it.      *)
(***************************************************************************)
EXTENDS Messages, TLAPS

\* The steps before a request's commit.
Before == {"check", "commit"}

Busy(r) == requests[r] # NoRequest

RowsHaveText == \A m \in MessageIds : Stored(m) => rows[m].text # EmptyText

\* Until the row of a creation is committed nobody else can refer to it.
Creating(r) == Busy(r) /\ requests[r].op = "create" /\ requests[r].pc \in Before
CreationsAreAlone ==
    \A r \in Requests : Creating(r) =>
        /\ \A p \in Requests \ {r} : Busy(p) => requests[p].message # requests[r].message
        /\ answers[requests[r].message] = "none"

\* The steps with a loaded row in the session; the last of them needs one.
CopyIsInPlace(q) ==
    /\ q.payload # EmptyText => q.pc \in {"recipients", "notify", "load", "emit"}
    /\ q.pc = "emit" => q.payload # EmptyText

\* What a request knows of its row.
Agrees(q) ==
    /\ q.wrote = EmptyText <=> q.pc \in Before
    /\ CopyIsInPlace(q)
    /\ (q.op = "create" /\ q.pc \in Before) <=> ~Stored(q.message)
    /\ q.wrote <= rows[q.message].text
    /\ q.payload <= rows[q.message].text
    /\ q.pc = "deliver" => q.to \subseteq notifications[q.message]
RequestsAgree == \A r \in Requests : Busy(r) => Agrees(requests[r])

\* The text of an undisturbed message is shown, or will be by whoever is
\* underway: all of them that will not read the row again have its present text.
LatestIsOnItsWay ==
    \A m \in MessageIds \ disturbed :
        /\ Underway(m) = {} => shown[m] = rows[m].text
        /\ \A r \in Requests : Busy(r) /\ requests[r].message = m /\ HasRead(requests[r])
                => requests[r].payload = rows[m].text

\* The tables against what was sent, the first part of NothingAheadOfTheDatabase.
SentIsStored ==
    \A m \in MessageIds :
        /\ shown[m] <= rows[m].text
        /\ delivered[m] \subseteq notifications[m]
        /\ notifications[m] # {} => Stored(m)

Knowledge == CreationsAreAlone /\ RequestsAgree /\ LatestIsOnItsWay
MInv == TypeOK /\ RowsHaveText /\ SentIsStored /\ AnswersAreTrue /\ Knowledge

-----------------------------------------------------------------------------
(* Requests *)

LEMMA RequestType ==
    ASSUME TypeOK, NEW r \in Requests
    PROVE  /\ Busy(r) <=> requests[r].pc # "idle"
           /\ Busy(r) => requests[r] \in Request /\ requests[r].message \in MessageIds
BY DEF TypeOK, Busy, NoRequest, Request

LEMMA OneChanges ==
    ASSUME TypeOK, NEW r \in Requests, NEW q \in Request \cup {NoRequest},
           requests' = [requests EXCEPT ![r] = q]
    PROVE  /\ requests' \in [Requests -> Request \cup {NoRequest}]
           /\ requests'[r] = q
           /\ \A p \in Requests \ {r} : requests'[p] = requests[p]
BY DEF TypeOK

LEMMA IdleOrNot ==
    /\ NoRequest.pc = "idle"
    /\ \A q \in Request : q # NoRequest /\ q.pc # "idle"
BY DEF Request, NoRequest

\* A request that goes on as q with the same message.  The copy that it will show is
\* the row's text, or the message is disturbed from now on.
GoesOnAs(r, q) ==
    /\ Busy(r) /\ requests' = [requests EXCEPT ![r] = q]
    /\ q.message = requests[r].message /\ q.op = requests[r].op /\ q.wrote = requests[r].wrote
    /\ q.pc \in Before <=> requests[r].pc \in Before
    /\ CopyIsInPlace(q)
    /\ q.payload <= rows[q.message].text
    /\ HasRead(q) => q.message \in disturbed' \/ q.payload = rows[q.message].text
    /\ q.pc = "deliver" => q.to \subseteq notifications'[q.message]

\* It does so while the tables of messages and what was said of them are left alone.
LEMMA GoesOn ==
    ASSUME MInv, NEW r \in Requests, NEW q \in Request, GoesOnAs(r, q),
           UNCHANGED <<rows, shown, answers>>, disturbed \subseteq disturbed',
           \A m \in MessageIds : notifications[m] \subseteq notifications'[m]
    PROVE  RowsHaveText' /\ AnswersAreTrue' /\ Knowledge'
<1>. USE DEF GoesOnAs
<1>0. TypeOK BY DEF MInv
<1>1. /\ requests'[r] = q
      /\ \A p \in Requests \ {r} : requests'[p] = requests[p]
    BY <1>0, OneChanges
<1>2. q # NoRequest BY IdleOrNot
<1>3. RowsHaveText' BY DEF MInv, RowsHaveText, Stored
<1>4. AnswersAreTrue' BY DEF MInv, AnswersAreTrue, Stored
<1>5. CreationsAreAlone'
    BY <1>1, <1>2 DEF MInv, Knowledge, CreationsAreAlone, Creating, Busy
<1>7. Agrees(requests[r]) BY DEF MInv, Knowledge, RequestsAgree
<1>10. Agrees(q)'
    BY <1>7 DEF Agrees, Stored, CopyIsInPlace
<1>11. RequestsAgree'
    <2>1. SUFFICES ASSUME NEW p \in Requests, requests'[p] # NoRequest
                   PROVE  Agrees(requests[p])'
        BY DEF RequestsAgree, Busy
    <2>2. CASE p = r BY <1>1, <1>10, <2>2 DEF Agrees, Stored
    <2>3. CASE p # r
        <3>1. requests'[p] = requests[p] /\ Agrees(requests[p]) /\ requests[p].message \in MessageIds
            BY <1>0, <1>1, <2>1, <2>3, RequestType DEF MInv, Knowledge, RequestsAgree, Busy
        <3>. QED BY <3>1 DEF Agrees, Stored
    <2>. QED BY <2>2, <2>3
<1>12. \A m \in MessageIds : Underway(m)' = Underway(m)
    BY <1>1, <1>2 DEF Underway, Busy
<1>13. LatestIsOnItsWay'
    <2>1. SUFFICES ASSUME NEW m \in MessageIds \ disturbed'
                   PROVE  /\ Underway(m)' = {} => shown[m] = rows[m].text
                          /\ \A p \in Requests :
                                requests'[p] # NoRequest /\ requests'[p].message = m /\ HasRead(requests'[p])
                                    => requests'[p].payload = rows[m].text
        BY DEF LatestIsOnItsWay, Busy, HasRead
    <2>2. Underway(m)' = {} => shown[m] = rows[m].text
        BY <1>12, <2>1 DEF MInv, Knowledge, LatestIsOnItsWay
    <2>3. ASSUME NEW p \in Requests, requests'[p] # NoRequest, requests'[p].message = m, HasRead(requests'[p])
          PROVE  requests'[p].payload = rows[m].text
        <3>1. CASE p = r BY <1>1, <2>1, <2>3, <3>1
        <3>2. CASE p # r
            BY <1>1, <2>1, <2>3, <3>2 DEF MInv, Knowledge, LatestIsOnItsWay, Busy
        <3>. QED BY <3>1, <3>2
    <2>. QED BY <2>2, <2>3
<1>. QED BY <1>3, <1>4, <1>5, <1>11, <1>13 DEF Knowledge

\* A request that ends: what it says of its message must be true, and if it was
\* underway it has shown the row's text or leaves the message disturbed.
LEMMA Ends ==
    ASSUME MInv, NEW r \in Requests, NEW answer, Busy(r), Answer(r, answer),
           UNCHANGED <<rows, notifications>>,
           disturbed \subseteq disturbed',
           \A m \in MessageIds :
                \/ shown'[m] = shown[m]
                \/ m = requests[r].message /\ shown'[m] = requests[r].payload /\ At(r, "emit"),
           \A m \in MessageIds \ disturbed' :
                r \in Underway(m) => shown'[m] = rows[m].text,
           answer \in {"sent", "refused", "error"},
           answer = "sent" => At(r, "emit") /\ shown'[requests[r].message] # EmptyText,
           answer = "refused" => requests[r].pc \in Before
    PROVE  /\ RowsHaveText' /\ AnswersAreTrue' /\ Knowledge'
           /\ requests' \in [Requests -> Request \cup {NoRequest}]
           /\ answers' \in [MessageIds -> {"none", "sent", "refused", "error"}]
<1>. DEFINE q == requests[r]
<1>0. TypeOK BY DEF MInv
<1>1. /\ requests' \in [Requests -> Request \cup {NoRequest}]
      /\ requests'[r] = NoRequest
      /\ \A p \in Requests \ {r} : requests'[p] = requests[p]
    <2>1. requests' = [requests EXCEPT ![r] = NoRequest] BY DEF Answer
    <2>. QED BY <1>0, <2>1, OneChanges
<1>2. q \in Request /\ q.message \in MessageIds BY <1>0, RequestType
<1>3. /\ answers' \in [MessageIds -> {"none", "sent", "refused", "error"}]
      /\ \A m \in MessageIds : answers'[m] # answers[m]
            => m = q.message /\ q.op = "create" /\ answers'[m] = answer
    BY <1>0, <1>2 DEF Answer, TypeOK
<1>4. RowsHaveText' BY DEF MInv, RowsHaveText, Stored
<1>5. Agrees(q) BY DEF MInv, Knowledge, RequestsAgree
<1>6. At(r, "emit") => q.payload # EmptyText BY <1>5 DEF Agrees, CopyIsInPlace, At
<1>7. AnswersAreTrue'
    <2>1. SUFFICES ASSUME NEW m \in MessageIds
                   PROVE  /\ answers'[m] = "sent" => Stored(m) /\ shown'[m] # EmptyText
                          /\ answers'[m] = "refused" => ~Stored(m)
        BY DEF AnswersAreTrue, Stored
    <2>2. CASE answers'[m] = answers[m]
        BY <1>6, <2>2 DEF MInv, AnswersAreTrue
    <2>3. CASE answers'[m] # answers[m]
        BY <1>3, <1>5, <2>3 DEF Agrees, Before, At
    <2>. QED BY <2>2, <2>3
<1>8. CreationsAreAlone'
    <2>1. SUFFICES ASSUME NEW p \in Requests, requests'[p] # NoRequest,
                          requests'[p].op = "create", requests'[p].pc \in Before
                   PROVE  /\ \A o \in Requests \ {p} : requests'[o] # NoRequest
                                => requests'[o].message # requests'[p].message
                          /\ answers'[requests'[p].message] = "none"
        BY DEF CreationsAreAlone, Creating, Busy
    <2>2. p # r /\ requests'[p] = requests[p] /\ Creating(p) BY <1>1, <2>1 DEF Creating, Busy
    <2>3. requests[p].message # q.message /\ requests[p].message \in MessageIds
        BY <1>0, <2>2, RequestType DEF MInv, Knowledge, CreationsAreAlone, Creating
    <2>. QED BY <1>1, <1>3, <2>2, <2>3 DEF MInv, Knowledge, CreationsAreAlone, Busy
<1>9. RequestsAgree'
    BY <1>1 DEF MInv, Knowledge, RequestsAgree, Busy, Agrees, Stored
<1>10. \A m \in MessageIds : Underway(m)' = Underway(m) \ {r}
    BY <1>1 DEF Underway
<1>11. \A m \in MessageIds : shown'[m] = shown[m] \/ r \in Underway(m)
    BY <1>5 DEF Agrees, Underway, Busy, At, Before
<1>12. LatestIsOnItsWay'
    <2>1. SUFFICES ASSUME NEW m \in MessageIds \ disturbed'
                   PROVE  /\ Underway(m)' = {} => shown'[m] = rows[m].text
                          /\ \A p \in Requests :
                                requests'[p] # NoRequest /\ requests'[p].message = m /\ HasRead(requests'[p])
                                    => requests'[p].payload = rows[m].text
        BY DEF LatestIsOnItsWay, Busy, HasRead
    <2>2. Underway(m)' = {} => shown'[m] = rows[m].text
        BY <1>10, <1>11 DEF MInv, Knowledge, LatestIsOnItsWay
    <2>. QED BY <1>1, <2>2 DEF MInv, Knowledge, LatestIsOnItsWay, Busy
<1>. QED BY <1>1, <1>3, <1>4, <1>7, <1>8, <1>9, <1>12 DEF Knowledge

-----------------------------------------------------------------------------
(* The steps *)

LEMMA InitMInv == Init => MInv
<1>1. SUFFICES ASSUME Init PROVE MInv OBVIOUS
<1>2. TypeOK
    BY <1>1, MessagesAssumption DEF Init, TypeOK, Row, NoRow, Texts, EmptyText
<1>3. RowsHaveText /\ AnswersAreTrue /\ SentIsStored
    BY <1>1, MessagesAssumption DEF Init, RowsHaveText, AnswersAreTrue, SentIsStored, Stored, NoRow, EmptyText
<1>4. Knowledge
    BY <1>1 DEF Init, Knowledge, CreationsAreAlone, RequestsAgree, LatestIsOnItsWay, Creating, Busy,
                NoRow, EmptyText
<1>. QED BY <1>2, <1>3, <1>4 DEF MInv

\* Memberships and channels: no message is touched.
LEMMA ContextsChange ==
    ASSUME MInv,
           \E c \in Contexts : DeleteContext(c)
                               \/ \E u \in Users : ChangeMember(c, u) \/ CreateContext(c, u)
    PROVE  MInv'
<1>1. UNCHANGED <<rows, notifications, delivered, shown, answers, disturbed, requests>>
    BY DEF DeleteContext, ChangeMember, CreateContext, outside
<1>2. members' \in [Contexts -> SUBSET Users] /\ deleted' \subseteq Deletable
    BY MessagesAssumption DEF MInv, TypeOK, DeleteContext, ChangeMember, CreateContext
<1>3. TypeOK' BY <1>1, <1>2 DEF MInv, TypeOK
<1>4. RowsHaveText' /\ AnswersAreTrue' /\ SentIsStored'
    BY <1>1 DEF MInv, RowsHaveText, AnswersAreTrue, SentIsStored, Stored
<1>5. \A m \in MessageIds : Underway(m)' = Underway(m) BY <1>1 DEF Underway
<1>6. Knowledge'
    BY <1>1, <1>5 DEF MInv, Knowledge, CreationsAreAlone, RequestsAgree, LatestIsOnItsWay, Creating,
                      Busy, Agrees, Stored, At
<1>. QED BY <1>3, <1>4, <1>6 DEF MInv

LEMMA NewRequestType ==
    ASSUME NEW op \in {"create", "edit", "delete"}, NEW u \in Users,
           NEW m \in MessageIds, NEW c \in Contexts
    PROVE  /\ NewRequest(op, u, m, c) \in Request
           /\ NewRequest(op, u, m, c).pc = "check" /\ NewRequest(op, u, m, c).op = op
           /\ NewRequest(op, u, m, c).message = m
           /\ NewRequest(op, u, m, c).wrote = EmptyText /\ NewRequest(op, u, m, c).payload = EmptyText
BY DEF NewRequest, Request

\* A new request: a creation finds nothing of its message, the others find a row.
LEMMA Begins ==
    ASSUME MInv, NEW r \in Requests, NEW u \in Users, NEW m \in MessageIds, NEW c \in Contexts,
           BeginCreate(r, u, m, c) \/ \E op \in {"edit", "delete"} : BeginChange(r, op, u, m, c)
    PROVE  MInv'
<1>0. TypeOK BY DEF MInv
<1>1. /\ ~Busy(r)
      /\ UNCHANGED <<members, deleted, rows, notifications, delivered, shown, answers, disturbed>>
    BY DEF BeginCreate, BeginChange, tables, outside, Busy
<1>2. PICK op \in {"create", "edit", "delete"} :
        /\ requests' = [requests EXCEPT ![r] = NewRequest(op, u, m, c)]
        /\ IF op = "create"
           THEN /\ ~Stored(m) /\ answers[m] = "none"
                /\ \A p \in Requests : Busy(p) => requests[p].message # m
           ELSE Stored(m)
    BY DEF BeginCreate, BeginChange, Busy
<1>3. PICK q \in Request :
        /\ q = NewRequest(op, u, m, c)
        /\ q.pc = "check" /\ q.op = op /\ q.message = m /\ q.wrote = EmptyText /\ q.payload = EmptyText
    BY NewRequestType
<1>4. /\ requests' \in [Requests -> Request \cup {NoRequest}]
      /\ requests'[r] = q
      /\ \A p \in Requests \ {r} : requests'[p] = requests[p]
    BY <1>0, <1>2, <1>3, OneChanges
<1>5. q # NoRequest /\ q.pc \in Before BY <1>3, IdleOrNot DEF Before
<1>6. TypeOK' BY <1>0, <1>1, <1>4 DEF TypeOK
<1>7. RowsHaveText' /\ AnswersAreTrue' /\ SentIsStored'
    BY <1>1 DEF MInv, RowsHaveText, AnswersAreTrue, SentIsStored, Stored
<1>8. CreationsAreAlone'
    <2>1. SUFFICES ASSUME NEW p \in Requests, requests'[p] # NoRequest,
                          requests'[p].op = "create", requests'[p].pc \in Before
                   PROVE  /\ \A o \in Requests \ {p} : requests'[o] # NoRequest
                                => requests'[o].message # requests'[p].message
                          /\ answers[requests'[p].message] = "none"
        BY <1>1 DEF CreationsAreAlone, Creating, Busy
    <2>2. CASE p = r BY <1>2, <1>3, <1>4, <2>1, <2>2 DEF Busy
    <2>3. CASE p # r
        <3>1. Creating(p) /\ requests'[p] = requests[p] BY <1>4, <2>1, <2>3 DEF Creating, Busy
        <3>2. ~Stored(requests[p].message)
            BY <3>1 DEF MInv, Knowledge, RequestsAgree, Agrees, Creating
        <3>3. requests[p].message # m BY <1>2, <3>1, <3>2 DEF Creating
        <3>. QED BY <1>3, <1>4, <3>1, <3>3 DEF MInv, Knowledge, CreationsAreAlone, Busy
    <2>. QED BY <2>2, <2>3
<1>9. rows[m].text \in Nat
    BY <1>0, MessagesAssumption DEF TypeOK, Row, Texts, EmptyText
<1>10. Agrees(q)'
    BY <1>1, <1>2, <1>3, <1>5, <1>9 DEF Agrees, Stored, EmptyText, CopyIsInPlace, Before
<1>11. RequestsAgree'
    <2>1. SUFFICES ASSUME NEW p \in Requests, requests'[p] # NoRequest
                   PROVE  Agrees(requests[p])'
        BY DEF RequestsAgree, Busy
    <2>2. CASE p = r BY <1>4, <1>10, <2>2 DEF Agrees, Stored
    <2>3. CASE p # r
        BY <1>1, <1>4, <2>1, <2>3 DEF MInv, Knowledge, RequestsAgree, Busy, Agrees, Stored
    <2>. QED BY <2>2, <2>3
<1>12. \A n \in MessageIds : Underway(n)' = Underway(n)
    BY <1>1, <1>3, <1>4 DEF Underway, Busy
<1>13. LatestIsOnItsWay'
    <2>1. SUFFICES ASSUME NEW n \in MessageIds \ disturbed
                   PROVE  /\ Underway(n)' = {} => shown[n] = rows[n].text
                          /\ \A p \in Requests :
                                requests'[p] # NoRequest /\ requests'[p].message = n /\ HasRead(requests'[p])
                                    => requests'[p].payload = rows[n].text
        BY <1>1 DEF LatestIsOnItsWay, Busy, HasRead
    <2>2. ~HasRead(q) BY <1>3 DEF HasRead
    <2>. QED BY <1>4, <1>12, <2>1, <2>2 DEF MInv, Knowledge, LatestIsOnItsWay, Busy
<1>. QED BY <1>6, <1>7, <1>8, <1>11, <1>13 DEF MInv, Knowledge

\* The row of a request that has gone on.
RowAfter(q, pc, to, payload) == [q EXCEPT !.pc = pc, !.to = to, !.payload = payload]

LEMMA NextRow ==
    ASSUME NEW q \in Request,
           NEW pc \in {"commit", "recipients", "notify", "deliver", "load", "emit"},
           NEW to \in SUBSET Users, NEW payload \in Texts \cup {EmptyText}
    PROVE  /\ RowAfter(q, pc, to, payload) \in Request
           /\ RowAfter(q, pc, to, payload).pc = pc /\ RowAfter(q, pc, to, payload).to = to
           /\ RowAfter(q, pc, to, payload).payload = payload
           /\ RowAfter(q, pc, to, payload).wrote = q.wrote
           /\ RowAfter(q, pc, to, payload).message = q.message /\ RowAfter(q, pc, to, payload).op = q.op
BY DEF Request, RowAfter

\* The row of requests that each of the steps which only move a request along writes.
LEMMA Successor ==
    ASSUME MInv, NEW r \in Requests,
           \/ Check(r) /\ Go(r, "commit") /\ UNCHANGED answers
           \/ Refresh(r) \/ ReadRecipients(r) \/ CommitNotifications(r)
           \/ (\E u \in Users : Deliver(r, u)) \/ Load(r) \/ SkipNotifying(r)
    PROVE  \E q \in Request : GoesOnAs(r, q)
<1>. DEFINE old == requests[r]
            text == rows[old.message].text
<1>0. TypeOK BY DEF MInv
<1>1. Busy(r) /\ ~At(r, "emit")
    BY <1>0, RequestType
    DEF Check, Refresh, ReadRecipients, CommitNotifications, Deliver, Load, SkipNotifying, At
<1>2. /\ old \in Request /\ old.message \in MessageIds
      /\ old.pc = "deliver" => old.to \subseteq notifications[old.message]
      /\ CopyIsInPlace(old) /\ old.payload <= text
      /\ HasRead(old) => old.message \in disturbed \/ old.payload = text
      /\ old.pc \notin Before => Stored(old.message)
    BY <1>0, <1>1, RequestType DEF MInv, Knowledge, RequestsAgree, LatestIsOnItsWay, Agrees
<1>3. /\ text \in Texts \cup {EmptyText} /\ text \in Nat
      /\ notifications[old.message] \subseteq Users
      /\ old.to \subseteq Users /\ old.payload \in Texts \cup {EmptyText}
      /\ EmptyText \in Texts \cup {EmptyText} /\ EmptyText <= text
    BY <1>0, <1>2, MessagesAssumption DEF TypeOK, Row, Request, Texts, EmptyText
<1>12. /\ old \in Request /\ old.to \in SUBSET Users /\ old.payload \in Texts \cup {EmptyText}
       /\ text \in Texts \cup {EmptyText} /\ EmptyText \in Texts \cup {EmptyText}
    BY <1>2, <1>3
<1>10. old.pc \notin Before => text # EmptyText
    BY <1>2 DEF MInv, RowsHaveText
<1>. HIDE DEF text
<1>4. CASE Check(r) /\ Go(r, "commit")
    <2>1. requests' = [requests EXCEPT ![r] = RowAfter(old, "commit", old.to, old.payload)]
        BY <1>0, <1>2, <1>4 DEF RowAfter, Go, TypeOK, Request
    <2>2. PICK q : q = RowAfter(old, "commit", old.to, old.payload) OBVIOUS
    <2>3. /\ q \in Request /\ q.pc = "commit" /\ q.payload = old.payload /\ q.wrote = old.wrote
          /\ q.message = old.message /\ q.op = old.op
        BY <1>12, <2>2, NextRow
    <2>4. old.payload = EmptyText BY <1>2, <1>4 DEF CopyIsInPlace, Check, At
    <2>. QED BY <1>1, <1>3, <1>4, <2>1, <2>2, <2>3, <2>4 DEF GoesOnAs, CopyIsInPlace, HasRead, Check, At, Before, text
<1>5. CASE Refresh(r)
    <2>1. requests' = [requests EXCEPT ![r] = RowAfter(old, "recipients", old.to, text)]
        BY <1>0, <1>2, <1>5 DEF RowAfter, Refresh, TypeOK, Request, text
    <2>2. PICK q : q = RowAfter(old, "recipients", old.to, text) OBVIOUS
    <2>3. /\ q \in Request /\ q.pc = "recipients" /\ q.payload = text /\ q.wrote = old.wrote
          /\ q.message = old.message /\ q.op = old.op
        BY <1>12, <2>2, NextRow
    <2>4. At(r, "refresh") BY <1>5 DEF Refresh
    <2>5. q.payload <= rows[q.message].text BY <1>3, <2>3 DEF text
    <2>6. CopyIsInPlace(q) /\ ~HasRead(q) BY <2>3 DEF CopyIsInPlace, HasRead
    <2>. QED BY <1>1, <2>1, <2>2, <2>3, <2>4, <2>5, <2>6 DEF GoesOnAs, At, Before
<1>6. CASE ReadRecipients(r)
    <2>. DEFINE others == members[old.context] \ {old.user}
                pc == IF others = {} THEN "load" ELSE "notify"
    <2>0. others \ Muted \in SUBSET Users BY <1>0, <1>2 DEF TypeOK, Request
    <2>1. requests' = [requests EXCEPT ![r] = RowAfter(old, pc, others \ Muted, old.payload)]
        BY <1>0, <1>2, <1>6 DEF RowAfter, ReadRecipients, TypeOK, Request
    <2>2. PICK q : q = RowAfter(old, pc, others \ Muted, old.payload) OBVIOUS
    <2>3. /\ q \in Request /\ q.pc = pc /\ q.payload = old.payload /\ q.wrote = old.wrote
          /\ q.message = old.message /\ q.op = old.op
        BY <1>12, <2>0, <2>2, NextRow
    <2>4. others = {} => old.message \in disturbed' \/ old.payload \in {EmptyText, text}
        <3>1. disturbed' = IF others = {} /\ IsStale(old) THEN disturbed \cup {old.message} ELSE disturbed
            BY <1>6 DEF ReadRecipients
        <3>. QED BY <3>1 DEF IsStale, text
    <2>5. At(r, "recipients") BY <1>6 DEF ReadRecipients
    <2>. HIDE DEF others
    <2>. QED BY <1>1, <1>2, <2>1, <2>2, <2>3, <2>4, <2>5 DEF GoesOnAs, CopyIsInPlace, HasRead, At, Before, text
<1>7. CASE CommitNotifications(r)
    <2>0. PICK pc \in {"load", "deliver"} :
              requests' = [requests EXCEPT ![r].pc = pc, ![r].payload = EmptyText]
        BY <1>7 DEF CommitNotifications
    <2>1. requests' = [requests EXCEPT ![r] = RowAfter(old, pc, old.to, EmptyText)]
        BY <1>0, <1>2, <2>0 DEF RowAfter, TypeOK, Request
    <2>2. PICK q : q = RowAfter(old, pc, old.to, EmptyText) OBVIOUS
    <2>3. /\ q \in Request /\ q.pc = pc /\ q.to = old.to /\ q.payload = EmptyText /\ q.wrote = old.wrote
          /\ q.message = old.message /\ q.op = old.op
        BY <1>12, <2>2, NextRow
    <2>4. q.to \subseteq notifications'[q.message]
        BY <1>0, <1>2, <1>7, <2>3 DEF CommitNotifications, TypeOK
    <2>. QED BY <1>1, <1>3, <1>7, <2>1, <2>2, <2>3, <2>4
        DEF GoesOnAs, CopyIsInPlace, HasRead, CommitNotifications, At, Before, text
<1>8. CASE \E u \in Users : Deliver(r, u)
    <2>0. PICK u \in Users : Deliver(r, u) BY <1>8
    <2>1. PICK pc \in {"load", "deliver"} : pc = IF old.to = {u} THEN "load" ELSE "deliver" OBVIOUS
    <2>2. requests' = [requests EXCEPT ![r] = RowAfter(old, pc, old.to \ {u}, old.payload)]
        <3>1. requests' = [requests EXCEPT ![r].pc = IF old.to = {u} THEN "load" ELSE @, ![r].to = @ \ {u}]
            BY <2>0 DEF Deliver
        <3>2. requests' = [requests EXCEPT ![r].pc = pc, ![r].to = @ \ {u}]
            BY <2>0, <2>1, <3>1 DEF Deliver, At
        <3>. QED BY <1>0, <1>2, <3>2 DEF RowAfter, TypeOK, Request
    <2>3. PICK q : q = RowAfter(old, pc, old.to \ {u}, old.payload) OBVIOUS
    <2>4. /\ q \in Request /\ q.pc = pc /\ q.to = old.to \ {u} /\ q.payload = old.payload
          /\ q.wrote = old.wrote /\ q.message = old.message /\ q.op = old.op
        <3>1. old.to \ {u} \in SUBSET Users BY <1>3
        <3>. QED BY <1>12, <2>1, <2>3, <3>1, NextRow
    <2>5. At(r, "deliver") /\ UNCHANGED notifications /\ old.payload = EmptyText
        BY <1>2, <2>0 DEF Deliver, CopyIsInPlace, At, tables
    <2>. QED BY <1>1, <1>2, <1>3, <2>2, <2>3, <2>4, <2>5 DEF GoesOnAs, CopyIsInPlace, HasRead, At, Before, text
<1>9. CASE Load(r)
    <2>0. PICK payload \in Texts \cup {EmptyText} : payload = IF old.payload = EmptyText THEN text ELSE old.payload
        BY <1>3
    <2>1. requests' = [requests EXCEPT ![r] = RowAfter(old, "emit", old.to, payload)]
        BY <1>0, <1>2, <1>9, <2>0 DEF RowAfter, Load, TypeOK, Request, text
    <2>2. PICK q : q = RowAfter(old, "emit", old.to, payload) OBVIOUS
    <2>3. /\ q \in Request /\ q.pc = "emit" /\ q.payload = payload /\ q.wrote = old.wrote
          /\ q.message = old.message /\ q.op = old.op
        BY <1>12, <2>0, <2>2, NextRow
    <2>4. At(r, "load") /\ UNCHANGED disturbed BY <1>9 DEF Load, outside
    <2>5. payload # EmptyText /\ payload <= text
        BY <1>2, <1>3, <1>10, <2>0, <2>4 DEF At, Before
    <2>6. old.message \in disturbed' \/ payload = text
        BY <1>2, <2>0, <2>4 DEF HasRead, At
    <2>. QED BY <1>1, <2>1, <2>2, <2>3, <2>4, <2>5, <2>6 DEF GoesOnAs, CopyIsInPlace, At, Before, text
<1>11. CASE SkipNotifying(r)
    <2>0. PICK payload \in {EmptyText, old.payload} :
            /\ requests' = [requests EXCEPT ![r].pc = "load", ![r].to = {}, ![r].payload = payload]
            /\ disturbed' = IF payload # EmptyText /\ IsStale(old) THEN disturbed \cup {old.message}
                            ELSE disturbed
        BY <1>11 DEF SkipNotifying
    <2>1. requests' = [requests EXCEPT ![r] = RowAfter(old, "load", {}, payload)]
        BY <1>0, <1>2, <2>0 DEF RowAfter, TypeOK, Request
    <2>2. PICK q : q = RowAfter(old, "load", {}, payload) OBVIOUS
    <2>3. /\ q \in Request /\ q.pc = "load" /\ q.payload = payload /\ q.wrote = old.wrote
          /\ q.message = old.message /\ q.op = old.op
        BY <1>12, <2>2, NextRow
    <2>4. payload = EmptyText \/ old.message \in disturbed' \/ payload = text
        BY <2>0 DEF IsStale, text
    <2>5. payload <= text BY <1>2, <1>3
    <2>6. old.pc \notin Before BY <1>11 DEF SkipNotifying, At, Before
    <2>. QED BY <1>1, <2>1, <2>2, <2>3, <2>4, <2>5, <2>6 DEF GoesOnAs, CopyIsInPlace, HasRead, Before, text
<1>. QED BY <1>4, <1>5, <1>6, <1>7, <1>8, <1>9, <1>11

LEMMA Moves ==
    ASSUME MInv, NEW r \in Requests,
           \/ Check(r) /\ Go(r, "commit") /\ UNCHANGED answers
           \/ Refresh(r) \/ ReadRecipients(r) \/ CommitNotifications(r)
           \/ (\E u \in Users : Deliver(r, u)) \/ Load(r) \/ SkipNotifying(r)
    PROVE  MInv'
<1>0. TypeOK BY DEF MInv
<1>1. PICK q \in Request : GoesOnAs(r, q) BY Successor
<1>2. Busy(r) /\ requests[r] \in Request /\ requests[r].message \in MessageIds
    BY <1>0, <1>1, RequestType DEF GoesOnAs
<1>3. /\ UNCHANGED <<members, deleted, rows, shown, answers>>
      /\ disturbed \subseteq disturbed' /\ disturbed' \subseteq MessageIds
      /\ notifications' \in [MessageIds -> SUBSET Users]
      /\ delivered' \in [MessageIds -> SUBSET Users]
      /\ \A m \in MessageIds :
            /\ notifications[m] \subseteq notifications'[m]
            /\ \/ delivered'[m] = delivered[m]
               \/ /\ m = requests[r].message /\ At(r, "deliver")
                  /\ delivered'[m] \subseteq delivered[m] \cup requests[r].to
            /\ \/ notifications'[m] = notifications[m]
               \/ m = requests[r].message /\ At(r, "notify")
    <2>1. requests[r].to \subseteq Users BY <1>2 DEF Request
    <2>2. CASE (Check(r) /\ UNCHANGED answers) \/ Refresh(r) \/ ReadRecipients(r) \/ Load(r)
               \/ SkipNotifying(r)
        <3>1. UNCHANGED <<tables, delivered, shown, answers>>
            BY <2>2 DEF Check, Refresh, ReadRecipients, Load, SkipNotifying, outside
        <3>2. disturbed' \in {disturbed, disturbed \cup {requests[r].message}}
            BY <2>2 DEF Check, Refresh, ReadRecipients, Load, SkipNotifying, outside
        <3>. QED BY <1>0, <1>2, <3>1, <3>2 DEF tables, TypeOK
    <2>3. CASE CommitNotifications(r)
        BY <1>0, <1>2, <2>1, <2>3 DEF CommitNotifications, outside, TypeOK
    <2>4. CASE \E u \in Users : Deliver(r, u)
        <3>1. PICK u \in Users : Deliver(r, u) BY <2>4
        <3>2. /\ UNCHANGED <<members, deleted, rows, notifications, shown, answers, disturbed>>
              /\ At(r, "deliver") /\ u \in requests[r].to
              /\ delivered' = [delivered EXCEPT ![requests[r].message] = @ \cup {u}]
            BY <3>1 DEF Deliver, tables
        <3>3. delivered' \in [MessageIds -> SUBSET Users]
            BY <1>0, <1>2, <3>2 DEF TypeOK
        <3>. QED BY <1>0, <1>2, <3>2, <3>3 DEF TypeOK
    <2>. QED BY <2>2, <2>3, <2>4
<1>4. /\ RowsHaveText' /\ AnswersAreTrue' /\ Knowledge'
    BY <1>1, <1>3, GoesOn
<1>5. Agrees(requests[r]) BY <1>2 DEF MInv, Knowledge, RequestsAgree
<1>6. SentIsStored'
    <2>1. SUFFICES ASSUME NEW m \in MessageIds
                   PROVE  /\ delivered'[m] \subseteq notifications'[m]
                          /\ notifications'[m] # {} => Stored(m)
        BY <1>3 DEF MInv, SentIsStored, Stored
    <2>2. delivered[m] \subseteq notifications[m] /\ (notifications[m] # {} => Stored(m))
        BY DEF MInv, SentIsStored
    <2>3. delivered'[m] \subseteq notifications'[m]
        BY <1>3, <1>5, <2>2 DEF Agrees, At
    <2>4. notifications'[m] # {} => Stored(m)
        BY <1>3, <1>5, <2>2 DEF Agrees, At, Before
    <2>. QED BY <2>3, <2>4
<1>7. TypeOK' BY <1>0, <1>1, <1>3, OneChanges DEF TypeOK, GoesOnAs
<1>. QED BY <1>4, <1>6, <1>7 DEF MInv

\* The steps that end a request.  A creation is refused before its row exists,
\* "sent" follows a broadcast, and a failure after the commit disturbs the message.
LEMMA Endings ==
    ASSUME MInv, NEW r \in Requests,
           \/ Check(r) /\ Answer(r, "refused")
           \/ CommitCreate(r) /\ Answer(r, "error") /\ UNCHANGED rows
           \/ CommitDelete(r) \/ Emit(r) \/ Fail(r)
    PROVE  MInv'
<1>0. TypeOK BY DEF MInv
<1>1. Busy(r)
    BY <1>0, RequestType DEF Check, CommitCreate, CommitDelete, Emit, Fail, At, Busy
<1>2. /\ requests[r] \in Request /\ requests[r].message \in MessageIds
      /\ Agrees(requests[r])
    BY <1>0, <1>1, RequestType DEF MInv, Knowledge, RequestsAgree
<1>. DEFINE m == requests[r].message
            Ending(answer) ==
                /\ Answer(r, answer) /\ UNCHANGED <<members, deleted, rows, notifications, delivered>>
                /\ disturbed \subseteq disturbed' /\ disturbed' \subseteq MessageIds
                /\ \/ shown' = shown
                   \/ At(r, "emit") /\ shown' = [shown EXCEPT ![m] = requests[r].payload]
                /\ \A n \in MessageIds \ disturbed' : r \in Underway(n) => shown'[n] = rows[n].text
                /\ answer = "sent" => At(r, "emit") /\ shown'[m] # EmptyText
                /\ answer = "refused" => requests[r].pc \in Before
<1>3. PICK answer \in {"sent", "refused", "error"} : Ending(answer)
    <2>1. requests[r].pc \in Before => \A n \in MessageIds : r \notin Underway(n)
        BY <1>2 DEF Agrees, Underway
    <2>2. CASE Check(r) /\ Answer(r, "refused")
        BY <1>0, <2>1, <2>2 DEF Check, tables, At, Before, TypeOK
    <2>3. CASE CommitCreate(r) /\ Answer(r, "error") /\ UNCHANGED rows
        BY <1>0, <2>1, <2>3 DEF CommitCreate, At, Before, TypeOK
    <2>4. CASE CommitDelete(r)
        BY <1>0, <2>1, <2>4 DEF CommitDelete, ContentAllowed, At, Before, TypeOK
    <2>5. CASE Emit(r)
        <3>1. At(r, "emit") /\ Answer(r, "sent") BY <2>5 DEF Emit
        <3>2. shown' = [shown EXCEPT ![m] = requests[r].payload] BY <2>5 DEF Emit
        <3>3. shown'[m] = requests[r].payload /\ requests[r].payload # EmptyText
            BY <1>0, <1>2, <3>1, <3>2 DEF TypeOK, Agrees, CopyIsInPlace, At
        <3>4. \A n \in MessageIds \ disturbed : r \in Underway(n) => shown'[n] = rows[n].text
            BY <1>1, <3>1, <3>3 DEF MInv, Knowledge, LatestIsOnItsWay, Underway, HasRead, At
        <3>. QED BY <1>0, <2>5, <3>1, <3>2, <3>3, <3>4 DEF Emit, tables, TypeOK
    <2>6. CASE Fail(r)
        <3>1. /\ Answer(r, "error") /\ UNCHANGED <<members, deleted, rows, notifications, delivered, shown>>
              /\ disturbed' = IF r \in Underway(m) THEN disturbed \cup {m} ELSE disturbed
            BY <2>6 DEF Fail, tables
        <3>2. \A n \in MessageIds : r \in Underway(n) => n = m BY DEF Underway
        <3>. QED BY <1>0, <1>2, <3>1, <3>2 DEF TypeOK
    <2>. QED BY <2>2, <2>3, <2>4, <2>5, <2>6
<1>4. /\ RowsHaveText' /\ AnswersAreTrue' /\ Knowledge'
      /\ requests' \in [Requests -> Request \cup {NoRequest}]
      /\ answers' \in [MessageIds -> {"none", "sent", "refused", "error"}]
    <2>1. \A n \in MessageIds :
                \/ shown'[n] = shown[n]
                \/ n = requests[r].message /\ shown'[n] = requests[r].payload /\ At(r, "emit")
        BY <1>0, <1>2, <1>3 DEF TypeOK
    <2>. QED BY <1>1, <1>3, <2>1, Ends
<1>5. shown' \in [MessageIds -> Texts \cup {EmptyText}]
    BY <1>0, <1>2, <1>3 DEF TypeOK, Request
<1>6. SentIsStored'
    <2>1. \A n \in MessageIds : shown'[n] <= rows[n].text
        BY <1>0, <1>2, <1>3 DEF MInv, SentIsStored, Agrees, TypeOK
    <2>. QED BY <1>3, <2>1 DEF MInv, SentIsStored, Stored
<1>7. TypeOK' BY <1>0, <1>3, <1>4, <1>5 DEF TypeOK
<1>. QED BY <1>4, <1>6, <1>7 DEF MInv

\* A commit that writes a text.  Whoever refers to the message already knows its
\* row, and if the message is not disturbed nobody is about to show an older text.
WritesText(r, m, q, row) ==
    /\ Busy(r) /\ requests[r].pc \in Before /\ m = requests[r].message
    /\ requests' = [requests EXCEPT ![r] = q]
    /\ q.message = m /\ q.pc \in {"refresh", "load"} /\ q.payload = EmptyText
    /\ rows' = [rows EXCEPT ![m] = row]
    /\ q.wrote = row.text /\ row.text \in Texts /\ rows[m].text <= row.text
    /\ UNCHANGED <<members, deleted, notifications, delivered, shown, answers>>
    /\ answers[m] # "refused"
    /\ \A p \in Requests \ {r} : Busy(p) /\ requests[p].message = m => Stored(m)
    /\ disturbed' \subseteq MessageIds
    /\ \A n \in MessageIds : n \notin disturbed' /\ n # m => n \notin disturbed
    /\ m \notin disturbed' => \A p \in Requests :
            Busy(p) /\ requests[p].message = m => ~HasRead(requests[p])

LEMMA Writes ==
    ASSUME MInv, NEW r \in Requests, NEW m \in MessageIds, NEW q \in Request, NEW row \in Row,
           WritesText(r, m, q, row)
    PROVE  MInv'
<1>. USE DEF WritesText
<1>0. TypeOK BY DEF MInv
<1>1. /\ requests' \in [Requests -> Request \cup {NoRequest}]
      /\ requests'[r] = q
      /\ \A p \in Requests \ {r} : requests'[p] = requests[p]
    BY <1>0, OneChanges
<1>2. /\ rows' \in [MessageIds -> Row]
      /\ rows'[m] = row
      /\ \A n \in MessageIds \ {m} : rows'[n] = rows[n]
    BY <1>0 DEF TypeOK
<1>3. /\ row.text \in Nat /\ row.text # EmptyText /\ row # NoRow
      /\ \A n \in MessageIds : rows[n].text \in Nat /\ shown[n] \in Nat
    BY <1>0, MessagesAssumption DEF TypeOK, Row, NoRow, Texts, EmptyText
<1>4. q # NoRequest /\ q.pc \notin Before /\ q.pc # "emit" /\ q.pc # "deliver" /\ ~HasRead(q)
    BY IdleOrNot DEF Before, HasRead
<1>5. TypeOK' BY <1>0, <1>1, <1>2 DEF TypeOK
<1>6. RowsHaveText' BY <1>2, <1>3 DEF MInv, RowsHaveText, Stored
<1>7. SentIsStored'
    <2>1. SUFFICES ASSUME NEW n \in MessageIds
                   PROVE  /\ shown[n] <= rows'[n].text
                          /\ delivered[n] \subseteq notifications[n]
                          /\ notifications[n] # {} => rows'[n] # NoRow
        BY DEF SentIsStored, Stored
    <2>2. /\ shown[n] <= rows[n].text /\ delivered[n] \subseteq notifications[n]
          /\ notifications[n] # {} => rows[n] # NoRow
        BY DEF MInv, SentIsStored, Stored
    <2>. QED BY <1>2, <1>3, <2>2
<1>8. AnswersAreTrue'
    BY <1>2, <1>3 DEF MInv, AnswersAreTrue, Stored
<1>9. \A p \in Requests \ {r} : Busy(p) => Agrees(requests[p])'
    <2>1. SUFFICES ASSUME NEW p \in Requests \ {r}, Busy(p)
                   PROVE  Agrees(requests[p])'
        OBVIOUS
    <2>2. PICK o : o = requests[p] OBVIOUS
    <2>3. o \in Request /\ o.message \in MessageIds /\ Agrees(o) /\ requests'[p] = o
        BY <1>0, <1>1, <2>1, <2>2, RequestType DEF MInv, Knowledge, RequestsAgree
    <2>4. o.wrote \in Nat /\ o.payload \in Nat
        BY <2>3, MessagesAssumption DEF Request, Texts, EmptyText
    <2>5. CASE o.message = m
        <3>1. Stored(m) BY <2>1, <2>2, <2>5
        <3>. QED BY <1>2, <1>3, <2>3, <2>4, <2>5, <3>1 DEF Agrees, Stored, CopyIsInPlace
    <2>6. CASE o.message # m
        BY <1>2, <2>3, <2>6 DEF Agrees, Stored, CopyIsInPlace
    <2>. QED BY <2>5, <2>6
<1>10. Agrees(q)'
    BY <1>2, <1>3, <1>4 DEF Agrees, Stored, EmptyText, CopyIsInPlace
<1>11. RequestsAgree'
    <2>1. SUFFICES ASSUME NEW p \in Requests, requests'[p] # NoRequest
                   PROVE  Agrees(requests[p])'
        BY DEF RequestsAgree, Busy
    <2>2. CASE p = r BY <1>1, <1>10, <2>2 DEF Agrees, Stored
    <2>3. CASE p # r BY <1>1, <1>9, <2>1, <2>3 DEF Busy
    <2>. QED BY <2>2, <2>3
<1>12. CreationsAreAlone'
    BY <1>1, <1>4 DEF MInv, Knowledge, CreationsAreAlone, Creating, Busy
<1>13. \A n \in MessageIds : Underway(n)' = Underway(n) \cup (IF n = m THEN {r} ELSE {})
    <2>1. \A n \in MessageIds : r \notin Underway(n)
        BY DEF MInv, Knowledge, RequestsAgree, Agrees, Underway
    <2>. QED BY <1>1, <1>3, <1>4, <2>1 DEF Underway
<1>14. LatestIsOnItsWay'
    <2>1. SUFFICES ASSUME NEW n \in MessageIds \ disturbed'
                   PROVE  /\ Underway(n)' = {} => shown[n] = rows'[n].text
                          /\ \A p \in Requests :
                                requests'[p] # NoRequest /\ requests'[p].message = n /\ HasRead(requests'[p])
                                    => requests'[p].payload = rows'[n].text
        BY DEF LatestIsOnItsWay, Busy, HasRead
    <2>2. CASE n = m BY <1>1, <1>4, <1>13, <2>1, <2>2 DEF Busy
    <2>3. CASE n # m
        BY <1>1, <1>2, <1>4, <1>13, <2>1, <2>3 DEF MInv, Knowledge, LatestIsOnItsWay, Busy
    <2>. QED BY <2>2, <2>3
<1>. QED BY <1>5, <1>6, <1>7, <1>8, <1>11, <1>12, <1>14 DEF MInv, Knowledge

\* The first text of a message, which nobody else refers to yet.
LEMMA CreationCommits ==
    ASSUME MInv, NEW r \in Requests, CommitCreate(r), requests[r].context \notin deleted
    PROVE  MInv'
<1>0. TypeOK BY DEF MInv
<1>. DEFINE old == requests[r]
            m == old.message
            row == [context |-> {old.context}, sender |-> {old.user}, text |-> 1, deleted_at |-> FALSE]
            q == [old EXCEPT !.pc = "refresh", !.wrote = 1]
<1>1. /\ At(r, "commit") /\ old.op = "create"
      /\ rows' = [rows EXCEPT ![m] = row]
      /\ requests' = [requests EXCEPT ![r].pc = "refresh", ![r].wrote = 1]
      /\ UNCHANGED <<members, deleted, notifications, delivered, shown, answers, disturbed>>
    BY DEF CommitCreate
<1>2. Busy(r) /\ old \in Request /\ m \in MessageIds /\ Agrees(old) /\ Creating(r)
      /\ old.pc \in Before
    BY <1>0, <1>1, RequestType DEF MInv, Knowledge, RequestsAgree, At, Creating, Before
<1>3. 1 \in Texts BY MessagesAssumption DEF Texts
<1>4. row \in Row /\ row.text = 1 BY <1>2, <1>3 DEF Row, Request
<1>5. /\ requests' = [requests EXCEPT ![r] = q]
      /\ q \in Request /\ q.pc = "refresh" /\ q.wrote = 1 /\ q.payload = old.payload /\ q.message = m
    BY <1>0, <1>1, <1>2, <1>3 DEF TypeOK, Request
<1>. HIDE DEF row, q
<1>6. ~Stored(m) /\ rows[m].text <= 1 /\ old.payload = EmptyText
    BY <1>2 DEF Agrees, CopyIsInPlace, Creating, Stored, NoRow, EmptyText, Before
<1>7. /\ \A p \in Requests \ {r} : Busy(p) => requests[p].message # m
      /\ answers[m] = "none"
    BY <1>2 DEF MInv, Knowledge, CreationsAreAlone
<1>8. \A p \in Requests : Busy(p) /\ requests[p].message = m => ~HasRead(requests[p])
    BY <1>1, <1>7 DEF At, HasRead
<1>9. disturbed' \subseteq MessageIds BY <1>0, <1>1 DEF TypeOK
<1>11. WritesText(r, m, q, row)
    BY <1>1, <1>2, <1>3, <1>4, <1>5, <1>6, <1>7, <1>8, <1>9 DEF WritesText
<1>. QED BY <1>2, <1>4, <1>5, <1>11, Writes

\* A further text.  With nobody underway the message is not disturbed any more;
\* else it is if somebody has read the row and not shown it yet.
LEMMA EditionCommits ==
    ASSUME MInv, NEW r \in Requests, CommitEdit(r)
    PROVE  MInv'
<1>0. TypeOK BY DEF MInv
<1>. DEFINE old == requests[r]
            m == old.message
            text == rows[m].text + 1
            row == [rows[m] EXCEPT !.text = text]
            q == [old EXCEPT !.pc = "load", !.wrote = text]
<1>1. /\ At(r, "commit") /\ old.op = "edit" /\ text \in Texts
      /\ rows' = [rows EXCEPT ![m].text = text]
      /\ requests' = [requests EXCEPT ![r].pc = "load", ![r].wrote = text]
      /\ disturbed' = IF Underway(m) = {} THEN disturbed \ {m}
            ELSE IF \E p \in Underway(m) : HasRead(requests[p])
            THEN disturbed \cup {m}
            ELSE disturbed
      /\ UNCHANGED <<members, deleted, notifications, delivered, shown, answers>>
    BY DEF CommitEdit
<1>2. /\ Busy(r) /\ old \in Request /\ m \in MessageIds /\ Agrees(old)
      /\ old.pc \in Before
    BY <1>0, <1>1, RequestType DEF MInv, Knowledge, RequestsAgree, At, Before
<1>3. rows[m] \in Row /\ rows[m].text \in Nat
    BY <1>0, <1>2, MessagesAssumption DEF TypeOK, Row, Texts, EmptyText
<1>4. row \in Row /\ row.text = text /\ rows[m].text <= text
    BY <1>1, <1>3 DEF Row
<1>10. rows' = [rows EXCEPT ![m] = row]
    BY <1>0, <1>1, <1>2 DEF TypeOK
<1>5. /\ requests' = [requests EXCEPT ![r] = q]
      /\ q \in Request /\ q.pc = "load" /\ q.wrote = text /\ q.payload = old.payload /\ q.message = m
    BY <1>0, <1>1, <1>2 DEF TypeOK, Request
<1>. HIDE DEF row, q
<1>6. Stored(m) /\ old.payload = EmptyText
    BY <1>1, <1>2 DEF Agrees, CopyIsInPlace, Before
<1>7. answers[m] # "refused" BY <1>2, <1>6 DEF MInv, AnswersAreTrue
<1>8. \A p \in Requests : Busy(p) /\ requests[p].message = m /\ HasRead(requests[p]) => p \in Underway(m)
    BY DEF MInv, Knowledge, RequestsAgree, Agrees, Underway, Busy, HasRead, Before
<1>9. /\ disturbed' \subseteq MessageIds
      /\ \A n \in MessageIds : n \notin disturbed' /\ n # m => n \notin disturbed
      /\ m \notin disturbed' => \A p \in Requests : Busy(p) /\ requests[p].message = m => ~HasRead(requests[p])
    BY <1>0, <1>1, <1>2, <1>8 DEF TypeOK
<1>11. WritesText(r, m, q, row)
    BY <1>1, <1>2, <1>4, <1>5, <1>6, <1>7, <1>9, <1>10 DEF WritesText
<1>. QED BY <1>2, <1>4, <1>5, <1>11, Writes

LEMMA NextMInv == MInv /\ [Next]_vars => MInv'
<1>. SUFFICES ASSUME MInv, [Next]_vars PROVE MInv' OBVIOUS
<1>1. CASE UNCHANGED vars
    <2>1. \A m \in MessageIds : Underway(m)' = Underway(m) BY <1>1 DEF Underway, vars
    <2>. QED BY <1>1, <2>1
        DEF vars, MInv, TypeOK, RowsHaveText, SentIsStored, AnswersAreTrue, Knowledge, CreationsAreAlone,
            RequestsAgree, LatestIsOnItsWay, Creating, Busy, Agrees, Stored, At
<1>2. CASE \E c \in Contexts : DeleteContext(c)
                               \/ \E u \in Users : ChangeMember(c, u) \/ CreateContext(c, u)
    BY <1>2, ContextsChange
<1>3. CASE \E r \in Requests, u \in Users, m \in MessageIds, c \in Contexts :
                \/ BeginCreate(r, u, m, c)
                \/ \E op \in {"edit", "delete"} : BeginChange(r, op, u, m, c)
    BY <1>3, Begins
<1>4. CASE \E r \in Requests : RequestStep(r) \/ SkipNotifying(r) \/ Fail(r)
    <2>1. PICK r \in Requests : RequestStep(r) \/ SkipNotifying(r) \/ Fail(r) BY <1>4
    <2>2. CASE Check(r) BY <2>2, Moves, Endings DEF Check
    <2>3. CASE CommitCreate(r) BY <2>3, CreationCommits, Endings DEF CommitCreate
    <2>4. CASE CommitEdit(r) BY <2>4, EditionCommits
    <2>5. CASE CommitDelete(r) \/ Emit(r) \/ Fail(r) BY <2>5, Endings
    <2>6. CASE Refresh(r) \/ ReadRecipients(r) \/ CommitNotifications(r) \/ (\E u \in Users : Deliver(r, u))
               \/ Load(r) \/ SkipNotifying(r)
        BY <2>6, Moves
    <2>. QED BY <2>1, <2>2, <2>3, <2>4, <2>5, <2>6 DEF RequestStep
<1>. QED BY <1>1, <1>2, <1>3, <1>4 DEF Next

\* What the tables, the requests and the rooms know of each other, at every step of
\* create_message, update_message and delivery.
THEOREM InvariantHolds == Spec => []MInv
BY InitMInv, NextMInv, PTL DEF Spec

\* The tables, the answers and the requests keep their types.
THEOREM TypeCorrect == Spec => []TypeOK
<1>1. MInv => TypeOK BY DEF MInv
<1>. QED BY <1>1, InvariantHolds, PTL

\* No room, recipient or handler is ahead of what the database has committed.
THEOREM DatabaseFirst == Spec => []NothingAheadOfTheDatabase
<1>1. MInv => NothingAheadOfTheDatabase
    BY DEF MInv, SentIsStored, Knowledge, RequestsAgree, Agrees, Busy, NothingAheadOfTheDatabase
<1>. QED BY <1>1, InvariantHolds, PTL

\* What the sender of a message was told holds from then on: "sent" a message that
\* is stored and shown, "refused" one that does not exist.
THEOREM AnswersHold == Spec => []AnswersAreTrue
<1>1. MInv => AnswersAreTrue BY DEF MInv
<1>. QED BY <1>1, InvariantHolds, PTL

\* With no request on an undisturbed message underway, its room was last shown the
\* text of the table, in whatever order the editions were committed and broadcast.
\* Disturbed are the messages an edition of which was committed while another request
\* held, for its event, a copy it would not read again: from get_by_id on, and for a
\* creation that had nobody to notify from its refresh on; and those whose request
\* failed after its commit.
THEOREM RoomsCatchUp == Spec => []LatestTextIsShown
<1>1. MInv => LatestTextIsShown
    BY DEF MInv, Knowledge, LatestIsOnItsWay, LatestTextIsShown
<1>. QED BY <1>1, InvariantHolds, PTL
-----------------------------------------------------------------------------
(* No message is forgotten *)

\* A message that is stored has been shown, or its sender was told of an error, or
\* the request that created it is still on its way to the broadcast.
NoneForgotten ==
    \A m \in MessageIds : Stored(m) =>
        \/ shown[m] # EmptyText
        \/ answers[m] = "error"
        \/ \E r \in Underway(m) : requests[r].op = "create"

\* A request goes on with its message; no message is stored but its own.
LEMMA KeepsWhenGoingOn ==
    ASSUME MInv, NoneForgotten, NEW r \in Requests, NEW q \in Request,
           requests' = [requests EXCEPT ![r] = q], Busy(r),
           UNCHANGED <<shown, answers>>,
           q.message = requests[r].message, q.op = requests[r].op,
           requests[r].wrote # EmptyText => q.wrote # EmptyText,
           \A m \in MessageIds : Stored(m)' =>
                Stored(m) \/ (m = q.message /\ q.op = "create" /\ q.wrote # EmptyText)
    PROVE  NoneForgotten'
<1>0. TypeOK BY DEF MInv
<1>1. /\ requests'[r] = q /\ q # NoRequest
      /\ \A p \in Requests \ {r} : requests'[p] = requests[p]
    BY <1>0, OneChanges, IdleOrNot
<1>. SUFFICES ASSUME NEW m \in MessageIds, Stored(m)', shown[m] = EmptyText, answers[m] # "error"
              PROVE  \E p \in Requests : /\ requests'[p] # NoRequest /\ requests'[p].message = m
                                         /\ requests'[p].wrote # EmptyText /\ requests'[p].op = "create"
    BY DEF NoneForgotten, Underway
<1>2. CASE Stored(m)
    <2>1. PICK p \in Requests : /\ requests[p] # NoRequest /\ requests[p].message = m
                                /\ requests[p].wrote # EmptyText /\ requests[p].op = "create"
        BY <1>2 DEF NoneForgotten, Underway
    <2>. QED BY <1>1, <2>1
<1>3. CASE ~Stored(m) BY <1>1, <1>3
<1>. QED BY <1>2, <1>3

\* A request ends: with a broadcast, or with an answer that is no success.
LEMMA KeepsWhenEnding ==
    ASSUME MInv, NoneForgotten, NEW r \in Requests, NEW answer, Busy(r), Answer(r, answer),
           UNCHANGED rows,
           \A m \in MessageIds : shown[m] # EmptyText => shown'[m] # EmptyText,
           \/ answer = "error"
           \/ requests[r].wrote = EmptyText /\ answer # "none"
           \/ shown'[requests[r].message] # EmptyText
    PROVE  NoneForgotten'
<1>0. TypeOK BY DEF MInv
<1>1. \A p \in Requests \ {r} : requests'[p] = requests[p] BY <1>0 DEF Answer, TypeOK
<1>2. requests[r].message \in MessageIds /\ Agrees(requests[r])
    BY <1>0, RequestType DEF MInv, Knowledge, RequestsAgree
<1>. SUFFICES ASSUME NEW m \in MessageIds, Stored(m), shown'[m] = EmptyText, answers'[m] # "error"
              PROVE  \E p \in Requests : /\ requests'[p] # NoRequest /\ requests'[p].message = m
                                         /\ requests'[p].wrote # EmptyText /\ requests'[p].op = "create"
    BY DEF NoneForgotten, Underway, Stored
<1>3. requests[r].op = "create" /\ requests[r].wrote = EmptyText => requests[r].message # m
    BY <1>2 DEF Agrees
<1>4. answers'[m] = IF requests[r].op = "create" /\ m = requests[r].message THEN answer ELSE answers[m]
    BY <1>0, <1>2 DEF Answer, TypeOK
<1>5. answers[m] # "error" \/ (requests[r].op = "create" /\ m = requests[r].message)
    BY <1>4
<1>6. CASE requests[r].op = "create" /\ m = requests[r].message
    BY <1>3, <1>4, <1>6
<1>7. CASE ~(requests[r].op = "create" /\ m = requests[r].message)
    <2>1. PICK p \in Requests : /\ requests[p] # NoRequest /\ requests[p].message = m
                                /\ requests[p].wrote # EmptyText /\ requests[p].op = "create"
        BY <1>5, <1>7 DEF NoneForgotten, Underway
    <2>. QED BY <1>1, <1>7, <2>1
<1>. QED BY <1>6, <1>7

LEMMA NextForgetsNone ==
    ASSUME MInv, NoneForgotten, [Next]_vars
    PROVE  NoneForgotten'
<1>0. TypeOK BY DEF MInv
<1>1. CASE UNCHANGED <<rows, shown, answers, requests>>
    BY <1>1 DEF NoneForgotten, Stored, Underway
<1>2. ASSUME NEW r \in Requests, NEW q \in Request,
             requests[r] = NoRequest, requests' = [requests EXCEPT ![r] = q],
             UNCHANGED <<rows, shown, answers>>
      PROVE  NoneForgotten'
    <2>1. \A p \in Requests \ {r} : requests'[p] = requests[p] BY <1>0, <1>2 DEF TypeOK
    <2>2. \A m : \A p \in Underway(m) : p \in Underway(m)' /\ requests'[p] = requests[p]
        BY <1>2, <2>1 DEF Underway
    <2>. QED BY <1>2, <2>2 DEF NoneForgotten, Stored
<1>3. ASSUME NEW r \in Requests, NEW u \in Users, NEW m \in MessageIds, NEW c \in Contexts,
             BeginCreate(r, u, m, c) \/ \E op \in {"edit", "delete"} : BeginChange(r, op, u, m, c)
      PROVE  NoneForgotten'
    BY <1>2, <1>3, NewRequestType DEF BeginCreate, BeginChange, tables, outside
<1>4. ASSUME NEW r \in Requests, RequestStep(r) \/ SkipNotifying(r) \/ Fail(r)
      PROVE  NoneForgotten'
    <2>. DEFINE old == requests[r]
    <2>0. Busy(r) /\ old \in Request /\ Agrees(old)
        BY <1>0, <1>4, RequestType
           DEF MInv, Knowledge, RequestsAgree, RequestStep, Check, CommitCreate, CommitEdit, CommitDelete,
               Refresh, ReadRecipients, CommitNotifications, Deliver, Load, Emit, SkipNotifying, Fail, At, Busy
    <2>1. CASE \/ Check(r) /\ Go(r, "commit") /\ UNCHANGED answers
               \/ Refresh(r) \/ ReadRecipients(r) \/ CommitNotifications(r)
               \/ (\E u \in Users : Deliver(r, u)) \/ Load(r) \/ SkipNotifying(r)
        <3>1. PICK q \in Request :
                /\ requests' = [requests EXCEPT ![r] = q]
                /\ q.message = old.message /\ q.op = old.op /\ q.wrote = old.wrote
            BY <2>1, Successor DEF GoesOnAs
        <3>2. UNCHANGED <<rows, shown, answers>>
            BY <2>1 DEF Check, Refresh, ReadRecipients, CommitNotifications, Deliver, Load, SkipNotifying, tables, outside
        <3>3. \A m \in MessageIds : Stored(m)' => Stored(m) BY <3>2 DEF Stored
        <3>. QED BY <2>0, <3>1, <3>2, <3>3, KeepsWhenGoingOn
    <2>2. CASE Check(r) /\ Answer(r, "refused")
        <3>1. old.wrote = EmptyText BY <2>0, <2>2 DEF Check, At, Agrees, Before
        <3>2. UNCHANGED <<rows, shown>> BY <2>2 DEF Check, tables
        <3>. QED BY <2>0, <2>2, <3>1, <3>2, KeepsWhenEnding
    <2>3. CASE CommitCreate(r)
        <3>1. CASE old.context \in deleted
            BY <2>0, <2>3, <3>1, KeepsWhenEnding DEF CommitCreate
        <3>2. CASE old.context \notin deleted
            <4>1. PICK q : q = [old EXCEPT !.pc = "refresh", !.wrote = 1] OBVIOUS
            <4>2. /\ q \in Request /\ q.message = old.message /\ q.op = old.op
                  /\ q.wrote # EmptyText
                <5>1. 1 \in Texts BY MessagesAssumption DEF Texts
                <5>2. q \in Request BY <2>0, <4>1, <5>1 DEF Request
                <5>3. q.message = old.message /\ q.op = old.op /\ q.wrote = 1
                    BY <2>0, <4>1 DEF Request
                <5>. QED BY <5>2, <5>3 DEF EmptyText
            <4>3. /\ requests' = [requests EXCEPT ![r] = q] /\ old.op = "create"
                  /\ \A m \in MessageIds \ {old.message} : rows'[m] = rows[m]
                  /\ UNCHANGED <<shown, answers>>
                BY <1>0, <2>0, <2>3, <3>2, <4>1 DEF CommitCreate, TypeOK
            <4>. QED BY <2>0, <4>2, <4>3, KeepsWhenGoingOn DEF Stored
        <3>. QED BY <3>1, <3>2
    <2>4. CASE CommitEdit(r)
        <3>0. PICK text \in Texts : requests' = [requests EXCEPT ![r].pc = "load", ![r].wrote = text]
            BY <2>4 DEF CommitEdit
        <3>1. PICK q : q = [old EXCEPT !.pc = "load", !.wrote = text] OBVIOUS
        <3>2. /\ requests' = [requests EXCEPT ![r] = q] /\ q \in Request
              /\ q.message = old.message /\ q.op = old.op /\ q.wrote # EmptyText
            <4>1. text # EmptyText BY MessagesAssumption DEF Texts, EmptyText
            <4>. QED BY <1>0, <2>0, <3>0, <3>1, <4>1 DEF TypeOK, Request
        <3>3. /\ old.op = "edit" /\ UNCHANGED <<shown, answers>>
              /\ \A m \in MessageIds \ {old.message} : rows'[m] = rows[m]
            BY <1>0, <2>0, <2>4 DEF CommitEdit, TypeOK
        <3>4. Stored(old.message) BY <2>0, <3>3 DEF Agrees
        <3>5. \A m \in MessageIds : Stored(m)' => Stored(m) BY <3>3, <3>4 DEF Stored
        <3>. QED BY <2>0, <3>2, <3>3, <3>5, KeepsWhenGoingOn
    <2>5. CASE CommitDelete(r)
        BY <2>0, <2>5, KeepsWhenEnding DEF CommitDelete, ContentAllowed
    <2>6. CASE Emit(r)
        <3>1. old.payload # EmptyText /\ old.message \in MessageIds
            BY <2>0, <2>6 DEF Emit, Agrees, CopyIsInPlace, At, Request
        <3>2. /\ shown' = [shown EXCEPT ![old.message] = old.payload] /\ Answer(r, "sent")
              /\ UNCHANGED rows
            BY <2>6 DEF Emit, tables
        <3>3. shown'[old.message] # EmptyText /\ \A m \in MessageIds : shown[m] # EmptyText => shown'[m] # EmptyText
            BY <1>0, <3>1, <3>2 DEF TypeOK
        <3>. QED BY <2>0, <3>2, <3>3, KeepsWhenEnding
    <2>7. CASE Fail(r) BY <2>0, <2>7, KeepsWhenEnding DEF Fail, tables
    <2>. QED BY <1>4, <2>1, <2>2, <2>3, <2>4, <2>5, <2>6, <2>7 DEF RequestStep, Check
<1>5. CASE \E c \in Contexts : DeleteContext(c)
                               \/ \E u \in Users : ChangeMember(c, u) \/ CreateContext(c, u)
    BY <1>1, <1>5 DEF DeleteContext, ChangeMember, CreateContext, outside
<1>. QED BY <1>1, <1>3, <1>4, <1>5 DEF Next, vars

\* What StoredIsBroadcast needs besides fairness: create_message cannot leave a stored
\* message that its room was never shown unless it has told the sender of an error.
THEOREM NoMessageIsForgotten == Spec => []NoneForgotten
<1>1. Init => NoneForgotten BY DEF Init, NoneForgotten, Stored
<1>2. MInv /\ NoneForgotten /\ [Next]_vars => NoneForgotten' BY NextForgetsNone
<1>. QED BY <1>1, <1>2, InvariantHolds, PTL DEF Spec
=============================================================================
