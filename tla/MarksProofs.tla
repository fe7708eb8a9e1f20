---------------------------- MODULE MarksProofs ----------------------------
(***************************************************************************)
(* What the requests on receipts and reactions tell is what the tables     *)
(* say, for any number of users, messages, emojis and requests.            *)
(*                                                                         *)
(* The invariant has two halves, which share no state but the requests.    *)
(* A request on receipts knows, of each message it has looked up, that     *)
(* there is a receipt, or that it is about to insert or has inserted it;   *)
(* what it has inserted no other request has.  A request on a reaction     *)
(* knows the row it has found or inserted, as long as nobody has           *)
(* disturbed its key.                                                      *)
(*                                                                         *)
(* The last section is about deadlock: which requests can wait for each    *)
(* other in a circle.                                                      *)
(***************************************************************************)
EXTENDS Marks, FiniteSetTheorems, SequenceTheorems, TLAPS

\* Of a request on receipts: every message it has looked up is accounted for, and
\* what it has inserted is its own, uncommitted until the commit, unannounced
\* until the event.
ReadKnows(q) ==
    /\ q.pc \in {"look", "emit"} /\ q.batch \in Batches
    /\ q.op = "read" => Len(q.batch) = 1
    /\ q.at <= Len(q.batch) + 1
    /\ q.adding # {} => q.at > 1 /\ q.adding = {q.batch[q.at - 1]}
    /\ q.pc = "look" =>
        /\ \A i \in 1..(q.at - 1) :
            q.batch[i] \in q.adding \cup q.inserted \/ q.user \in receipts[q.batch[i]]
        /\ \A m \in q.inserted : q.user \notin receipts[m]
    /\ q.pc = "emit" =>
        /\ \A i \in 1..Len(q.batch) : q.user \in receipts[q.batch[i]]
        /\ \A m \in q.inserted : q.user \in receipts[m] /\ announced[<<m, q.user>>] = 0

ReadsKnow == \A r \in Requests : Does(r, ReadOps) => ReadKnows(requests[r])

\* A receipt is inserted by one request: the index keeps the others waiting.
OneHolder ==
    \A r, p \in Requests :
        /\ Does(r, ReadOps) /\ Does(p, ReadOps) /\ r # p
        /\ requests[r].user = requests[p].user
        => requests[r].inserted \cap requests[p].inserted = {}

\* Of a request on a reaction: unless its key was disturbed, the row it holds is
\* the row of the table.
KeyIn(q) == <<CHOOSE t \in q.target : TRUE, q.user>>
ReactKnows(q) ==
    /\ q.pc = "reload" => q.op = "add"
    /\ \E t \in Targets : q.target = {t}
    /\ q.adding = {} /\ q.inserted = {}
    /\ \A x \in q.row : x.key = KeyIn(q)
    /\ KeyIn(q) \notin disturbed =>
        /\ q.op = "add" /\ q.pc \in {"reload", "emit"} => q.row # {} /\ q.row = RowsOf(KeyIn(q))
        /\ q.op = "remove" /\ q.pc = "commit" => q.row = RowsOf(KeyIn(q))
        /\ q.op = "remove" /\ q.pc = "emit" => RowsOf(KeyIn(q)) = {}

ReactsKnow == \A r \in Requests : Does(r, ReactionOps) => ReactKnows(requests[r])

OneRowEach == \A x, y \in reactions : x.key = y.key => x = y

\* The requests on a key that have committed and are still to send their event.
Committed(key) ==
    {r \in Requests : /\ Does(r, ReactionOps) /\ KeyOf(r) = key
                      /\ requests[r].pc \in {"reload", "emit"}}

ShownWhenDone ==
    \A key \in Keys \ disturbed :
        Committed(key) = {} => (RowsOf(key) # {} <=> shown[key] = "added")

ReceiptInv == ReadsKnow /\ OneHolder /\ AnnouncedByItsCreator
ReactionInv == ReactsKnow /\ OneRowEach /\ ShownWhenDone
MInv == TypeOK /\ ReceiptInv /\ ReactionInv

-----------------------------------------------------------------------------
(* Requests *)

LEMMA Ops == ReadOps \cap ReactionOps = {}
BY DEF ReadOps, ReactionOps

LEMMA IdleOrNot ==
    /\ NoRequest.pc = "idle"
    /\ \A q \in Request : q # NoRequest /\ q.pc # "idle"
BY DEF Request, NoRequest

LEMMA RequestType ==
    ASSUME TypeOK, NEW r \in Requests
    PROVE  /\ r \in Busy <=> requests[r].pc # "idle"
           /\ r \in Busy => requests[r] \in Request
BY IdleOrNot DEF TypeOK, Busy

LEMMA OneChanges ==
    ASSUME TypeOK, NEW r \in Requests, NEW q \in Request \cup {NoRequest},
           requests' = [requests EXCEPT ![r] = q]
    PROVE  /\ requests' \in [Requests -> Request \cup {NoRequest}]
           /\ requests'[r] = q
           /\ \A p \in Requests \ {r} : requests'[p] = requests[p]
BY DEF TypeOK

LEMMA BatchFacts ==
    ASSUME NEW b \in Batches
    PROVE  /\ Len(b) \in Nat /\ Len(b) >= 1 /\ Len(b) <= Cardinality(Messages)
           /\ b \in [1..Len(b) -> Messages] /\ DOMAIN b = 1..Len(b)
<1>1. PICK n \in 1..Cardinality(Messages) : b \in [1..n -> Messages] BY DEF Batches
<1>2. Cardinality(Messages) \in Nat BY MarksAssumption, FS_CardinalityType
<1>3. n \in Nat BY <1>2
<1>4. b \in Seq(Messages) BY <1>1, <1>3
<1>5. Len(b) = n BY <1>1, <1>3, <1>4, LenProperties
<1>. QED BY <1>1, <1>2, <1>5

\* The row of a request that has gone on.
ReadRow(q, pc, at, adding, inserted) ==
    [q EXCEPT !.pc = pc, !.at = at, !.adding = adding, !.inserted = inserted]
ReactRow(q, pc, row) == [q EXCEPT !.pc = pc, !.row = row]

LEMMA ReadRowFacts ==
    ASSUME NEW q \in Request, NEW pc \in {"look", "emit"}, NEW at \in 1..(Cardinality(Messages) + 1),
           NEW adding \in SUBSET Messages, NEW inserted \in SUBSET Messages,
           NEW o, o = ReadRow(q, pc, at, adding, inserted)
    PROVE  /\ o \in Request
           /\ o.pc = pc /\ o.at = at /\ o.adding = adding /\ o.inserted = inserted
           /\ o.op = q.op /\ o.user = q.user /\ o.batch = q.batch
BY DEF Request, ReadRow

LEMMA ReactRowFacts ==
    ASSUME NEW q \in Request, NEW pc \in {"commit", "reload", "emit"}, NEW row \in SUBSET Row,
           NEW o, o = ReactRow(q, pc, row)
    PROVE  /\ o \in Request
           /\ o.pc = pc /\ o.row = row /\ o.adding = q.adding /\ o.inserted = q.inserted
           /\ o.op = q.op /\ o.user = q.user /\ o.target = q.target
BY DEF Request, ReactRow

-----------------------------------------------------------------------------
(* What the other half of the invariant does not notice *)

\* A step of a request that ends or is not on receipts.
LEMMA ReceiptsAside ==
    ASSUME MInv, NEW r \in Requests,
           \A p \in Requests \ {r} : requests'[p] = requests[p],
           requests'[r] = NoRequest \/ requests'[r].op \notin ReadOps,
           UNCHANGED <<receipts, announced>>
    PROVE  ReceiptInv'
<1>1. \A p \in Requests : Does(p, ReadOps)' => p # r /\ requests'[p] = requests[p] /\ Does(p, ReadOps)
    BY DEF Does, Busy
<1>2. ReadsKnow'
    BY <1>1 DEF MInv, ReceiptInv, ReadsKnow, ReadKnows
<1>3. OneHolder'
    BY <1>1 DEF MInv, ReceiptInv, OneHolder
<1>4. AnnouncedByItsCreator' BY DEF MInv, ReceiptInv, AnnouncedByItsCreator
<1>. QED BY <1>2, <1>3, <1>4 DEF ReceiptInv

\* A step of a request that ends or is not on a reaction, unless it has committed
\* and leaves without its event.
LEMMA ReactionsAside ==
    ASSUME MInv, NEW r \in Requests,
           \A p \in Requests \ {r} : requests'[p] = requests[p],
           requests'[r] = NoRequest \/ requests'[r].op \notin ReactionOps,
           UNCHANGED <<reactions, shown>>,
           disturbed \subseteq disturbed',
           \A key \in Keys \ disturbed' : r \notin Committed(key)
    PROVE  ReactionInv'
<1>1. \A p \in Requests : Does(p, ReactionOps)' => p # r /\ requests'[p] = requests[p] /\ Does(p, ReactionOps)
    BY DEF Does, Busy
<1>2. ReactsKnow'
    <2>1. SUFFICES ASSUME NEW p \in Requests, Does(p, ReactionOps)' PROVE ReactKnows(requests[p])'
        BY DEF ReactsKnow
    <2>2. PICK o : o = requests[p] OBVIOUS
    <2>3. requests'[p] = o /\ ReactKnows(o) BY <1>1, <2>1, <2>2 DEF MInv, ReactionInv, ReactsKnow
    <2>4. RowsOf(KeyIn(o))' = RowsOf(KeyIn(o)) BY DEF RowsOf
    <2>. QED BY <2>3, <2>4 DEF ReactKnows, KeyIn, RowsOf
<1>3. \A key \in Keys \ disturbed' : Committed(key)' = Committed(key)
    <2>1. \A p \in Requests \ {r} : (Does(p, ReactionOps)' <=> Does(p, ReactionOps)) /\ KeyOf(p)' = KeyOf(p)
        BY DEF Does, Busy, KeyOf
    <2>2. ~Does(r, ReactionOps)' BY DEF Does, Busy
    <2>. QED BY <2>1, <2>2 DEF Committed
<1>4. ShownWhenDone'
    <2>1. \A key : RowsOf(key)' = RowsOf(key) BY DEF RowsOf
    <2>. QED BY <1>3, <2>1 DEF MInv, ReactionInv, ShownWhenDone
<1>5. OneRowEach' BY DEF MInv, ReactionInv, OneRowEach
<1>. QED BY <1>2, <1>4, <1>5 DEF ReactionInv

-----------------------------------------------------------------------------
(* Requests that begin and end *)

LEMMA InitMInv == Init => MInv
<1>. SUFFICES ASSUME Init PROVE MInv OBVIOUS
<1>1. TypeOK BY DEF Init, TypeOK, Keys
<1>2. Busy = {} BY DEF Init, Busy
<1>3. ReceiptInv
    BY <1>2 DEF Init, ReceiptInv, ReadsKnow, OneHolder, AnnouncedByItsCreator, Does
<1>4. ReactionInv
    BY <1>2 DEF Init, ReactionInv, ReactsKnow, OneRowEach, ShownWhenDone, Does, RowsOf
<1>. QED BY <1>1, <1>3, <1>4 DEF MInv

LEMMA TargetKey ==
    ASSUME NEW q, NEW t \in Targets, q.target = {t}, q.user \in Users
    PROVE  KeyIn(q) = <<t, q.user>> /\ KeyIn(q) \in Keys
<1>1. (CHOOSE x \in q.target : TRUE) = t OBVIOUS
<1>. QED BY <1>1 DEF KeyIn, Keys

LEMMA ReactionKey ==
    ASSUME MInv, NEW r \in Requests, Does(r, ReactionOps)
    PROVE  /\ KeyOf(r) = KeyIn(requests[r]) /\ KeyOf(r) \in Keys
           /\ requests[r] \in Request /\ ReactKnows(requests[r])
<1>1. requests[r] \in Request /\ ReactKnows(requests[r])
    BY RequestType DEF MInv, ReactionInv, ReactsKnow, Does
<1>2. PICK t \in Targets : requests[r].target = {t} BY <1>1 DEF ReactKnows
<1>3. requests[r].user \in Users BY <1>1 DEF Request
<1>. QED BY <1>1, <1>2, <1>3, TargetKey DEF KeyOf, KeyIn

\* A request that ends without an event: it has committed nothing, or it leaves its
\* key disturbed.
LEMMA EndsQuietly ==
    ASSUME MInv, NEW r \in Requests, End(r), UNCHANGED <<tables, events>>,
           disturbed \subseteq disturbed', disturbed' \subseteq Keys,
           \A key \in Keys \ disturbed' : r \notin Committed(key)
    PROVE  MInv'
<1>0. TypeOK BY DEF MInv
<1>1. /\ requests' \in [Requests -> Request \cup {NoRequest}]
      /\ requests'[r] = NoRequest
      /\ \A p \in Requests \ {r} : requests'[p] = requests[p]
    BY <1>0, OneChanges DEF End
<1>2. TypeOK' BY <1>0, <1>1 DEF TypeOK, tables, events
<1>3. ReceiptInv' BY <1>1, ReceiptsAside DEF tables, events
<1>4. ReactionInv' BY <1>1, ReactionsAside DEF tables, events
<1>. QED BY <1>2, <1>3, <1>4 DEF MInv

LEMMA Fails ==
    ASSUME MInv, NEW r \in Requests, Fail(r)
    PROVE  MInv'
<1>1. /\ r \in Busy /\ End(r) /\ UNCHANGED <<tables, events>>
      /\ disturbed' = IF requests[r].op \in ReactionOps THEN disturbed \cup {KeyOf(r)} ELSE disturbed
    BY DEF Fail
<1>2. Does(r, ReactionOps) => KeyOf(r) \in Keys BY ReactionKey
<1>3. disturbed \subseteq disturbed' /\ disturbed' \subseteq Keys
    BY <1>1, <1>2 DEF MInv, TypeOK, Does
<1>4. \A key \in Keys \ disturbed' : r \notin Committed(key) BY <1>1 DEF Committed, Does
<1>. QED BY <1>1, <1>3, <1>4, EndsQuietly

\* Only the insertion of a receipt can wait for another transaction.
LEMMA Deadlocks ==
    ASSUME MInv, NEW r \in Requests, Deadlock(r)
    PROVE  MInv'
<1>1. InCircle(r) /\ End(r) /\ UNCHANGED <<tables, events, disturbed>> BY DEF Deadlock
<1>2. WaitsFor(r) # {} BY <1>1 DEF InCircle
<1>3. requests[r].adding # {} BY <1>2 DEF WaitsFor
<1>4. ~Does(r, ReactionOps) BY <1>3, ReactionKey DEF ReactKnows
<1>5. disturbed \subseteq Keys BY DEF MInv, TypeOK
<1>6. \A key \in Keys : r \notin Committed(key) BY <1>4 DEF Committed
<1>. QED BY <1>1, <1>5, <1>6, EndsQuietly

LEMMA BeginsReading ==
    ASSUME MInv, NEW r \in Requests, NEW u \in Users, NEW op \in ReadOps, NEW b \in Batches,
           BeginRead(r, op, u, b)
    PROVE  MInv'
<1>0. TypeOK BY DEF MInv
<1>1. PICK q : q = NewRequest(op, u, {}, b) OBVIOUS
<1>2. /\ q.pc = "look" /\ q.op = op /\ q.user = u /\ q.batch = b /\ q.at = 1
      /\ q.adding = {} /\ q.inserted = {} /\ q.row = {} /\ q.target = {}
    BY <1>1 DEF NewRequest
<1>3. 1 \in 1..(Cardinality(Messages) + 1)
    BY MarksAssumption, FS_CardinalityType
<1>4. q \in Request BY <1>1, <1>3 DEF NewRequest, Request
<1>5. /\ requests[r] = NoRequest /\ requests' = [requests EXCEPT ![r] = q]
      /\ op = "read" => Len(b) = 1
      /\ UNCHANGED <<receipts, reactions, announced, shown, disturbed>>
    BY <1>1 DEF BeginRead, tables, events
<1>6. /\ requests' \in [Requests -> Request \cup {NoRequest}]
      /\ requests'[r] = q
      /\ \A p \in Requests \ {r} : requests'[p] = requests[p]
    BY <1>0, <1>4, <1>5, OneChanges
<1>7. TypeOK' BY <1>0, <1>5, <1>6 DEF TypeOK
<1>8. ReactionInv'
    <2>1. \A key \in Keys : r \notin Committed(key) BY <1>5 DEF Committed, Does, Busy
    <2>. QED BY <1>2, <1>5, <1>6, <2>1, Ops, ReactionsAside
<1>9. ReadKnows(q)'
    BY <1>2, <1>5, BatchFacts DEF ReadKnows
<1>10. ReadsKnow'
    <2>1. SUFFICES ASSUME NEW p \in Requests, Does(p, ReadOps)' PROVE ReadKnows(requests[p])'
        BY DEF ReadsKnow
    <2>2. CASE p = r BY <1>6, <1>9, <2>2 DEF ReadKnows
    <2>3. CASE p # r
        BY <1>5, <1>6, <2>1, <2>3 DEF MInv, ReceiptInv, ReadsKnow, ReadKnows, Does, Busy
    <2>. QED BY <2>2, <2>3
<1>11. OneHolder'
    BY <1>2, <1>6 DEF MInv, ReceiptInv, OneHolder, Does, Busy
<1>12. AnnouncedByItsCreator' BY <1>5 DEF MInv, ReceiptInv, AnnouncedByItsCreator
<1>. QED BY <1>7, <1>8, <1>10, <1>11, <1>12 DEF MInv, ReceiptInv

LEMMA BeginsReaction ==
    ASSUME MInv, NEW r \in Requests, NEW u \in Users, NEW op \in ReactionOps, NEW t \in Targets,
           BeginReaction(r, op, u, t)
    PROVE  MInv'
<1>0. TypeOK BY DEF MInv
<1>1. PICK q : q = NewRequest(op, u, {t}, <<>>) OBVIOUS
<1>2. /\ q.pc = "look" /\ q.op = op /\ q.user = u /\ q.target = {t}
      /\ q.adding = {} /\ q.inserted = {} /\ q.row = {}
    BY <1>1 DEF NewRequest
<1>3. 1 \in 1..(Cardinality(Messages) + 1)
    BY MarksAssumption, FS_CardinalityType
<1>4. q \in Request BY <1>1, <1>3 DEF NewRequest, Request
<1>5. /\ requests[r] = NoRequest /\ requests' = [requests EXCEPT ![r] = q]
      /\ UNCHANGED <<receipts, reactions, announced, shown, disturbed>>
    BY <1>1 DEF BeginReaction, tables, events
<1>6. /\ requests' \in [Requests -> Request \cup {NoRequest}]
      /\ requests'[r] = q
      /\ \A p \in Requests \ {r} : requests'[p] = requests[p]
    BY <1>0, <1>4, <1>5, OneChanges
<1>7. TypeOK' BY <1>0, <1>5, <1>6 DEF TypeOK
<1>8. ReceiptInv' BY <1>2, <1>5, <1>6, Ops, ReceiptsAside
<1>9. ReactKnows(q)' BY <1>2 DEF ReactKnows
<1>10. \A key : RowsOf(key)' = RowsOf(key) BY <1>5 DEF RowsOf
<1>11. ReactsKnow'
    <2>1. SUFFICES ASSUME NEW p \in Requests, Does(p, ReactionOps)' PROVE ReactKnows(requests[p])'
        BY DEF ReactsKnow
    <2>2. CASE p = r BY <1>6, <1>9, <2>2 DEF ReactKnows, KeyIn, RowsOf
    <2>3. CASE p # r
        <3>1. PICK o : o = requests[p] OBVIOUS
        <3>2. requests'[p] = o /\ ReactKnows(o)
            BY <1>6, <2>1, <2>3, <3>1 DEF MInv, ReactionInv, ReactsKnow, Does, Busy
        <3>3. RowsOf(KeyIn(o))' = RowsOf(KeyIn(o)) BY <1>5 DEF RowsOf
        <3>. QED BY <1>5, <3>2, <3>3 DEF ReactKnows, KeyIn, RowsOf
    <2>. QED BY <2>2, <2>3
<1>12. \A key \in Keys : Committed(key)' = Committed(key)
    <2>1. \A p \in Requests \ {r} : (Does(p, ReactionOps)' <=> Does(p, ReactionOps)) /\ KeyOf(p)' = KeyOf(p)
        BY <1>6 DEF Does, Busy, KeyOf
    <2>2. ~Does(r, ReactionOps) BY <1>5 DEF Does, Busy
    <2>. QED BY <1>2, <1>6, <2>1, <2>2 DEF Committed
<1>13. ShownWhenDone'
    BY <1>5, <1>10, <1>12 DEF MInv, ReactionInv, ShownWhenDone
<1>14. OneRowEach' BY <1>5 DEF MInv, ReactionInv, OneRowEach
<1>. QED BY <1>7, <1>8, <1>11, <1>13, <1>14 DEF MInv, ReactionInv

-----------------------------------------------------------------------------
(* The steps on receipts *)

LEMMA ReadRequest ==
    ASSUME MInv, NEW r \in Requests, Does(r, ReadOps)
    PROVE  /\ requests[r] \in Request /\ ReadKnows(requests[r])
           /\ \A key : r \notin Committed(key)
BY RequestType, Ops DEF MInv, ReceiptInv, ReadsKnow, Does, Committed

\* The requests on reactions are not concerned.
LEMMA ReadKeepsReactions ==
    ASSUME MInv, NEW r \in Requests, Does(r, ReadOps),
           \A p \in Requests \ {r} : requests'[p] = requests[p],
           requests'[r] = NoRequest \/ requests'[r].op = requests[r].op,
           UNCHANGED <<reactions, shown, disturbed>>
    PROVE  ReactionInv'
<1>1. requests'[r] = NoRequest \/ requests'[r].op \notin ReactionOps BY Ops DEF Does
<1>2. \A key : r \notin Committed(key) BY ReadRequest
<1>. QED BY <1>1, <1>2, ReactionsAside

\* A step before the commit, which the tables do not show.
LEMMA ReadMoves ==
    ASSUME MInv, NEW r \in Requests, Does(r, ReadOps), NEW q \in Request,
           requests' = [requests EXCEPT ![r] = q],
           q.op = requests[r].op, q.user = requests[r].user, ReadKnows(q),
           UNCHANGED <<tables, events, disturbed>>,
           \A p \in Requests \ {r} :
                Does(p, ReadOps) /\ requests[p].user = q.user => requests[p].inserted \cap q.inserted = {}
    PROVE  MInv'
<1>0. TypeOK BY DEF MInv
<1>1. /\ requests' \in [Requests -> Request \cup {NoRequest}]
      /\ requests'[r] = q
      /\ \A p \in Requests \ {r} : requests'[p] = requests[p]
    BY <1>0, OneChanges
<1>2. TypeOK' BY <1>0, <1>1 DEF TypeOK, tables, events
<1>3. ReactionInv' BY <1>1, ReadKeepsReactions DEF tables, events
<1>4. ReadsKnow'
    <2>1. SUFFICES ASSUME NEW p \in Requests, Does(p, ReadOps)' PROVE ReadKnows(requests[p])'
        BY DEF ReadsKnow
    <2>2. CASE p = r BY <1>1, <2>2 DEF ReadKnows, tables, events
    <2>3. CASE p # r
        BY <1>1, <2>1, <2>3 DEF MInv, ReceiptInv, ReadsKnow, ReadKnows, Does, Busy, tables, events
    <2>. QED BY <2>2, <2>3
<1>5. OneHolder'
    BY <1>1 DEF MInv, ReceiptInv, OneHolder, Does, Busy
<1>6. AnnouncedByItsCreator' BY DEF MInv, ReceiptInv, AnnouncedByItsCreator, tables, events
<1>. QED BY <1>2, <1>3, <1>4, <1>5, <1>6 DEF MInv, ReceiptInv

LEMMA LooksUpReceipt ==
    ASSUME MInv, NEW r \in Requests, LookReceipt(r)
    PROVE  MInv'
<1>0. TypeOK BY DEF MInv
<1>. DEFINE old == requests[r]
            m == old.batch[old.at]
<1>1. /\ At(r, "look") /\ Does(r, ReadOps) /\ old.adding = {} /\ old.at <= Len(old.batch)
      /\ UNCHANGED <<tables, events, disturbed>>
    BY DEF LookReceipt
<1>2. old \in Request /\ ReadKnows(old) BY <1>1, ReadRequest
<1>3. /\ Len(old.batch) \in Nat /\ Len(old.batch) <= Cardinality(Messages) /\ old.at \in Nat \ {0}
      /\ Cardinality(Messages) \in Nat
      /\ \A i \in 1..Len(old.batch) : old.batch[i] \in Messages
    BY <1>2, BatchFacts, MarksAssumption, FS_CardinalityType DEF ReadKnows, Request
<1>4. PICK adding \in {{}, {m}} :
        /\ adding = {} => old.user \in receipts[m] \/ m \in old.inserted
        /\ requests' = [requests EXCEPT ![r].at = @ + 1, ![r].adding = adding]
    BY DEF LookReceipt
<1>5. PICK q : q = ReadRow(old, "look", old.at + 1, adding, old.inserted) OBVIOUS
<1>6. m \in Messages /\ old.inserted \in SUBSET Messages /\ old.at + 1 \in 1..(Cardinality(Messages) + 1)
    BY <1>1, <1>2, <1>3 DEF Request
<1>7. /\ q \in Request
      /\ q.pc = "look" /\ q.at = old.at + 1 /\ q.adding = adding /\ q.inserted = old.inserted
      /\ q.op = old.op /\ q.user = old.user /\ q.batch = old.batch
    BY <1>2, <1>4, <1>5, <1>6, ReadRowFacts
<1>8. requests' = [requests EXCEPT ![r] = q]
    <2>1. requests' = [requests EXCEPT ![r] = [old EXCEPT !.at = old.at + 1, !.adding = adding]]
        BY <1>0, <1>4 DEF TypeOK
    <2>2. old.pc = "look" BY <1>1 DEF At
    <2>3. q = [old EXCEPT !.at = old.at + 1, !.adding = adding]
        BY <1>2, <1>5, <2>2 DEF ReadRow, Request
    <2>. QED BY <2>1, <2>3
<1>9. ReadKnows(q)
    <2>1. \A i \in 1..old.at : i = old.at \/ i \in 1..(old.at - 1) BY <1>3
    <2>2. \A i \in 1..(q.at - 1) :
            q.batch[i] \in q.adding \cup q.inserted \/ q.user \in receipts[q.batch[i]]
        <3>. SUFFICES ASSUME NEW i \in 1..old.at
                      PROVE  old.batch[i] \in adding \cup old.inserted \/ old.user \in receipts[old.batch[i]]
            BY <1>3, <1>7
        <3>1. CASE i = old.at BY <1>4, <3>1
        <3>2. CASE i \in 1..(old.at - 1)
            <4>1. old.batch[i] \in old.adding \cup old.inserted \/ old.user \in receipts[old.batch[i]]
                BY <1>1, <1>2, <3>2 DEF ReadKnows, At
            <4>. QED BY <1>1, <4>1
        <3>. QED BY <2>1, <3>1, <3>2
    <2>3. q.adding # {} => q.at > 1 /\ q.adding = {q.batch[q.at - 1]}
        BY <1>3, <1>4, <1>7, SMTT(20)
    <2>. QED BY <1>1, <1>2, <1>3, <1>7, <2>2, <2>3 DEF ReadKnows, At
<1>10. \A p \in Requests \ {r} :
          Does(p, ReadOps) /\ requests[p].user = q.user => requests[p].inserted \cap q.inserted = {}
    BY <1>1, <1>7 DEF MInv, ReceiptInv, OneHolder
<1>. QED BY <1>1, <1>7, <1>8, <1>9, <1>10, ReadMoves

\* The insertion: no receipt is there, and no other request has inserted it, since
\* one that has and is still to commit would be waited for.
LEMMA Flushes ==
    ASSUME MInv, NEW r \in Requests, Flush(r)
    PROVE  MInv'
<1>0. TypeOK BY DEF MInv
<1>. DEFINE old == requests[r]
<1>1. /\ At(r, "look") /\ Does(r, ReadOps) /\ old.adding # {} /\ WaitsFor(r) = {}
      /\ UNCHANGED <<tables, events, disturbed>>
    BY DEF Flush
<1>2. old \in Request /\ ReadKnows(old) BY <1>1, ReadRequest
<1>3. /\ Len(old.batch) \in Nat /\ old.at \in 1..(Cardinality(Messages) + 1)
      /\ old.inserted \in SUBSET Messages /\ old.adding \in SUBSET Messages
      /\ Cardinality(Messages) \in Nat
    BY <1>2, BatchFacts, MarksAssumption, FS_CardinalityType DEF ReadKnows, Request
<1>4. CASE \A m \in old.adding : old.user \notin receipts[m]
    <2>1. requests' = [requests EXCEPT ![r].adding = {}, ![r].inserted = @ \cup old.adding]
        BY <1>4 DEF Flush
    <2>2. PICK q : q = ReadRow(old, "look", old.at, {}, old.inserted \cup old.adding) OBVIOUS
    <2>3. /\ q \in Request
          /\ q.pc = "look" /\ q.at = old.at /\ q.adding = {} /\ q.inserted = old.inserted \cup old.adding
          /\ q.op = old.op /\ q.user = old.user /\ q.batch = old.batch
        <3>1. old.inserted \cup old.adding \in SUBSET Messages BY <1>3
        <3>. QED BY <1>2, <1>3, <2>2, <3>1, ReadRowFacts
    <2>4. requests' = [requests EXCEPT ![r] = q]
        <3>1. requests' = [requests EXCEPT ![r] =
                    [old EXCEPT !.adding = {}, !.inserted = old.inserted \cup old.adding]]
            BY <1>0, <2>1 DEF TypeOK
        <3>2. old.pc = "look" BY <1>1 DEF At
        <3>3. q = [old EXCEPT !.adding = {}, !.inserted = old.inserted \cup old.adding]
            BY <1>2, <2>2, <3>2 DEF ReadRow, Request
        <3>. QED BY <3>1, <3>3
    <2>5. ReadKnows(q) BY <1>1, <1>2, <1>4, <2>3 DEF ReadKnows, At
    <2>6. \A p \in Requests \ {r} :
            Does(p, ReadOps) /\ requests[p].user = q.user => requests[p].inserted \cap q.inserted = {}
        <3>1. SUFFICES ASSUME NEW p \in Requests \ {r}, Does(p, ReadOps), requests[p].user = old.user
                       PROVE  requests[p].inserted \cap (old.inserted \cup old.adding) = {}
            BY <2>3
        <3>2. requests[p].inserted \cap old.inserted = {}
            BY <1>1, <3>1 DEF MInv, ReceiptInv, OneHolder
        <3>3. CASE At(p, "look")
            <4>1. requests[p].inserted \cap old.adding = {}
                BY <1>1, <3>1, <3>3 DEF WaitsFor, Does
            <4>. QED BY <3>2, <4>1
        <3>4. CASE At(p, "emit")
            <4>1. \A m \in requests[p].inserted : old.user \in receipts[m]
                BY <3>1, <3>4, ReadRequest DEF ReadKnows, At
            <4>. QED BY <1>4, <3>2, <4>1
        <3>. QED BY <3>1, <3>3, <3>4, ReadRequest DEF ReadKnows, At
    <2>. QED BY <1>1, <2>3, <2>4, <2>5, <2>6, ReadMoves
<1>5. CASE /\ ~ \A m \in old.adding : old.user \notin receipts[m]
           /\ old.op = "read"
    <2>1. requests' = [requests EXCEPT ![r].pc = "emit", ![r].adding = {}, ![r].inserted = {}]
        BY <1>5 DEF Flush
    <2>2. PICK q : q = ReadRow(old, "emit", old.at, {}, {}) OBVIOUS
    <2>3. /\ q \in Request
          /\ q.pc = "emit" /\ q.at = old.at /\ q.adding = {} /\ q.inserted = {}
          /\ q.op = old.op /\ q.user = old.user /\ q.batch = old.batch
        BY <1>2, <1>3, <2>2, ReadRowFacts
    <2>4. requests' = [requests EXCEPT ![r] = q]
        BY <1>0, <1>1, <1>2, <2>1, <2>2 DEF At, ReadRow, TypeOK, Request
    <2>5. old.at = 2 /\ Len(old.batch) = 1 /\ old.adding = {old.batch[1]}
        <3>1. /\ Len(old.batch) = 1 /\ old.at <= Len(old.batch) + 1
              /\ old.at > 1 /\ old.adding = {old.batch[old.at - 1]}
            BY <1>1, <1>2, <1>5 DEF ReadKnows
        <3>2. old.at = 2
            <4>1. old.at \in Nat BY <1>3
            <4>. QED BY <3>1, <4>1
        <3>. QED BY <3>1, <3>2
    <2>6. old.user \in receipts[old.batch[1]] BY <1>5, <2>5
    <2>7. ReadKnows(q) BY <1>2, <2>3, <2>5, <2>6 DEF ReadKnows
    <2>. QED BY <1>1, <2>3, <2>4, <2>7, ReadMoves
<1>6. CASE /\ ~ \A m \in old.adding : old.user \notin receipts[m]
           /\ old.op # "read"
    <2>1. End(r) BY <1>6 DEF Flush
    <2>2. \A key \in Keys \ disturbed : r \notin Committed(key) BY <1>1, ReadRequest
    <2>3. disturbed \subseteq Keys BY <1>0 DEF TypeOK
    <2>. QED BY <1>1, <2>1, <2>2, <2>3, EndsQuietly
<1>. QED BY <1>4, <1>5, <1>6

\* The commit: what the request has inserted are now receipts, of which no other
\* request knows and which nobody has announced.
LEMMA CommitsReceipts ==
    ASSUME MInv, NEW r \in Requests, CommitReceipts(r)
    PROVE  MInv'
<1>0. TypeOK BY DEF MInv
<1>. DEFINE old == requests[r]
<1>1. /\ At(r, "look") /\ Does(r, ReadOps) /\ old.adding = {} /\ old.at > Len(old.batch)
      /\ receipts' = [m \in Messages |-> receipts[m] \cup (IF m \in old.inserted THEN {old.user} ELSE {})]
      /\ Go(r, "emit")
      /\ UNCHANGED <<reactions, announced, shown, disturbed>>
    BY DEF CommitReceipts, events
<1>2. old \in Request /\ ReadKnows(old) BY <1>1, ReadRequest
<1>3. /\ Len(old.batch) \in Nat /\ old.at \in 1..(Cardinality(Messages) + 1)
      /\ old.inserted \in SUBSET Messages /\ old.user \in Users
      /\ \A i \in 1..Len(old.batch) : old.batch[i] \in Messages
    BY <1>2, BatchFacts DEF ReadKnows, Request
<1>4. PICK q : q = ReadRow(old, "emit", old.at, {}, old.inserted) OBVIOUS
<1>5. /\ q \in Request
      /\ q.pc = "emit" /\ q.at = old.at /\ q.adding = {} /\ q.inserted = old.inserted
      /\ q.op = old.op /\ q.user = old.user /\ q.batch = old.batch
    BY <1>2, <1>3, <1>4, ReadRowFacts
<1>6. requests' = [requests EXCEPT ![r] = q]
    <2>1. requests' = [requests EXCEPT ![r] = [old EXCEPT !.pc = "emit"]]
        BY <1>0, <1>1 DEF Go, TypeOK
    <2>2. old.adding = {} BY <1>1
    <2>3. q = [old EXCEPT !.pc = "emit"] BY <1>2, <1>4, <2>2 DEF ReadRow, Request
    <2>. QED BY <2>1, <2>3
<1>7. /\ requests' \in [Requests -> Request \cup {NoRequest}]
      /\ requests'[r] = q
      /\ \A p \in Requests \ {r} : requests'[p] = requests[p]
    BY <1>0, <1>5, <1>6, OneChanges
<1>8. /\ receipts' \in [Messages -> SUBSET Users]
      /\ \A m \in Messages : receipts[m] \subseteq receipts'[m]
      /\ \A m \in old.inserted : old.user \in receipts'[m]
      /\ \A m \in Messages, u \in Users :
            u \in receipts'[m] => u \in receipts[m] \/ (u = old.user /\ m \in old.inserted)
    <2>1. \A m \in Messages : receipts[m] \subseteq Users BY <1>0 DEF TypeOK
    <2>. QED BY <1>1, <1>3, <2>1
<1>9. TypeOK' BY <1>0, <1>1, <1>7, <1>8 DEF TypeOK
<1>10. ReactionInv' BY <1>1, <1>5, <1>7, ReadKeepsReactions
<1>11. \A m \in old.inserted : announced[<<m, old.user>>] = 0
    <2>1. SUFFICES ASSUME NEW m \in old.inserted PROVE announced[<<m, old.user>>] = 0 OBVIOUS
    <2>2. m \in Messages BY <1>3
    <2>3. old.user \notin receipts[m] BY <1>1, <1>2 DEF ReadKnows, At
    <2>4. announced[<<m, old.user>>] <= 0
        BY <1>3, <2>2, <2>3 DEF MInv, ReceiptInv, AnnouncedByItsCreator
    <2>5. announced[<<m, old.user>>] \in Nat BY <1>0, <1>3, <2>2 DEF TypeOK
    <2>. QED BY <2>4, <2>5
<1>12. ReadKnows(q)'
    <2>1. \A i \in 1..Len(old.batch) : old.user \in receipts'[old.batch[i]]
        <3>1. SUFFICES ASSUME NEW i \in 1..Len(old.batch) PROVE old.user \in receipts'[old.batch[i]]
            OBVIOUS
        <3>2. i \in 1..(old.at - 1) BY <1>1, <1>3
        <3>3. old.batch[i] \in old.adding \cup old.inserted \/ old.user \in receipts[old.batch[i]]
            BY <1>1, <1>2, <3>2 DEF ReadKnows, At
        <3>4. old.batch[i] \in Messages BY <1>3
        <3>5. old.batch[i] \in old.inserted \/ old.user \in receipts[old.batch[i]] BY <1>1, <3>3
        <3>6. CASE old.batch[i] \in old.inserted BY <1>8, <3>6
        <3>7. CASE old.user \in receipts[old.batch[i]] BY <1>8, <3>4, <3>7
        <3>. QED BY <3>5, <3>6, <3>7
    <2>2. /\ old.batch \in Batches /\ old.at <= Len(old.batch) + 1
          /\ old.op = "read" => Len(old.batch) = 1
        BY <1>2 DEF ReadKnows
    <2>3. \A m \in q.inserted : q.user \in receipts'[m] /\ announced'[<<m, q.user>>] = 0
        BY <1>1, <1>5, <1>8, <1>11
    <2>. QED BY <1>5, <2>1, <2>2, <2>3 DEF ReadKnows
<1>13. ReadsKnow'
    <2>1. SUFFICES ASSUME NEW p \in Requests, Does(p, ReadOps)' PROVE ReadKnows(requests[p])'
        BY DEF ReadsKnow
    <2>2. CASE p = r BY <1>7, <1>12, <2>2 DEF ReadKnows
    <2>3. CASE p # r
        <3>1. PICK o : o = requests[p] OBVIOUS
        <3>2. /\ Does(p, ReadOps) /\ requests'[p] = o /\ o \in Request /\ ReadKnows(o)
            BY <1>7, <2>1, <2>3, <3>1, ReadRequest DEF Does, Busy
        <3>3. o.user \in Users /\ o.inserted \subseteq Messages
              /\ \A i \in 1..Len(o.batch) : o.batch[i] \in Messages
            BY <3>2, BatchFacts DEF ReadKnows, Request
        <3>4. o.user = old.user => o.inserted \cap old.inserted = {}
            BY <1>1, <2>3, <3>1, <3>2 DEF MInv, ReceiptInv, OneHolder
        <3>5. \A m \in o.inserted : o.user \notin receipts[m] => o.user \notin receipts'[m]
            BY <1>8, <3>3, <3>4
        <3>6. o.at \in Nat /\ Len(o.batch) \in Nat
            BY <3>2, BatchFacts DEF ReadKnows, Request
        <3>7. \A i \in 1..(o.at - 1) : i \in 1..Len(o.batch)
            <4>1. o.at <= Len(o.batch) + 1 BY <3>2 DEF ReadKnows
            <4>. QED BY <3>6, <4>1
        <3>8. \A m \in Messages : receipts[m] \subseteq receipts'[m] BY <1>8
        <3>9. ReadKnows(o)'
            <4>1. o.pc = "look" =>
                    /\ \A i \in 1..(o.at - 1) :
                        o.batch[i] \in o.adding \cup o.inserted \/ o.user \in receipts'[o.batch[i]]
                    /\ \A m \in o.inserted : o.user \notin receipts'[m]
                BY <3>2, <3>3, <3>5, <3>7, <3>8 DEF ReadKnows
            <4>2. o.pc = "emit" =>
                    /\ \A i \in 1..Len(o.batch) : o.user \in receipts'[o.batch[i]]
                    /\ \A m \in o.inserted : o.user \in receipts'[m] /\ announced[<<m, o.user>>] = 0
                BY <3>2, <3>3, <3>8 DEF ReadKnows
            <4>. QED BY <1>1, <3>2, <4>1, <4>2 DEF ReadKnows
        <3>. QED BY <3>2, <3>9 DEF ReadKnows
    <2>. QED BY <2>2, <2>3
<1>14. OneHolder'
    BY <1>1, <1>5, <1>7 DEF MInv, ReceiptInv, OneHolder, Does, Busy
<1>15. AnnouncedByItsCreator'
    <2>1. SUFFICES ASSUME NEW m \in Messages, NEW u \in Users
                   PROVE  announced[<<m, u>>] <= (IF u \in receipts'[m] THEN 1 ELSE 0)
        BY <1>1 DEF AnnouncedByItsCreator
    <2>2. announced[<<m, u>>] <= (IF u \in receipts[m] THEN 1 ELSE 0) /\ announced[<<m, u>>] \in Nat
        BY <1>0 DEF MInv, ReceiptInv, AnnouncedByItsCreator, TypeOK
    <2>3. u \in receipts[m] => u \in receipts'[m] BY <1>8
    <2>. QED BY <2>2, <2>3
<1>. QED BY <1>9, <1>10, <1>13, <1>14, <1>15 DEF MInv, ReceiptInv

\* The event: every receipt it names is the request's own, and is announced now
\* for the first time.
LEMMA EmitsReceipts ==
    ASSUME MInv, NEW r \in Requests, EmitReceipts(r)
    PROVE  MInv'
<1>0. TypeOK BY DEF MInv
<1>. DEFINE old == requests[r]
<1>1. /\ At(r, "emit") /\ Does(r, ReadOps) /\ End(r)
      /\ announced' = [k \in Messages \X Users |->
            announced[k] + (IF k[1] \in old.inserted /\ k[2] = old.user THEN 1 ELSE 0)]
      /\ UNCHANGED <<receipts, reactions, shown, disturbed>>
    BY DEF EmitReceipts, tables
<1>2. old \in Request /\ ReadKnows(old) BY <1>1, ReadRequest
<1>3. /\ requests' \in [Requests -> Request \cup {NoRequest}]
      /\ requests'[r] = NoRequest
      /\ \A p \in Requests \ {r} : requests'[p] = requests[p]
    BY <1>0, <1>1, OneChanges DEF End
<1>4. \A m \in Messages, u \in Users :
        /\ announced[<<m, u>>] \in Nat
        /\ announced'[<<m, u>>] =
                announced[<<m, u>>] + (IF m \in old.inserted /\ u = old.user THEN 1 ELSE 0)
    <2>1. \A m \in Messages, u \in Users : <<m, u>> \in Messages \X Users OBVIOUS
    <2>2. \A m \in Messages, u \in Users : announced[<<m, u>>] \in Nat BY <1>0, <2>1 DEF TypeOK
    <2>3. \A m \in Messages, u \in Users : announced'[<<m, u>>] =
                announced[<<m, u>>] + (IF m \in old.inserted /\ u = old.user THEN 1 ELSE 0)
        BY <1>1, <2>1
    <2>. QED BY <2>2, <2>3
<1>5. announced' \in [Messages \X Users -> Nat] BY <1>0, <1>1 DEF TypeOK
<1>6. TypeOK' BY <1>0, <1>1, <1>3, <1>5 DEF TypeOK
<1>7. ReactionInv' BY <1>1, <1>3, ReadKeepsReactions
<1>8. ReadsKnow'
    <2>1. SUFFICES ASSUME NEW p \in Requests, Does(p, ReadOps)' PROVE ReadKnows(requests[p])'
        BY DEF ReadsKnow
    <2>2. p # r /\ Does(p, ReadOps) /\ requests'[p] = requests[p] BY <1>3, <2>1 DEF Does, Busy
    <2>3. PICK o : o = requests[p] OBVIOUS
    <2>4. o \in Request /\ ReadKnows(o) /\ requests'[p] = o BY <2>2, <2>3, ReadRequest
    <2>5. o.user = old.user => o.inserted \cap old.inserted = {}
        BY <1>1, <2>2, <2>3 DEF MInv, ReceiptInv, OneHolder
    <2>6. \A m \in o.inserted : announced'[<<m, o.user>>] = announced[<<m, o.user>>]
        <3>1. o.user \in Users /\ o.inserted \subseteq Messages BY <2>4 DEF Request
        <3>. QED BY <1>4, <2>5, <3>1
    <2>. QED BY <1>1, <2>4, <2>6 DEF ReadKnows
<1>9. OneHolder' BY <1>3 DEF MInv, ReceiptInv, OneHolder, Does, Busy
<1>10. AnnouncedByItsCreator'
    <2>1. SUFFICES ASSUME NEW m \in Messages, NEW u \in Users
                   PROVE  announced'[<<m, u>>] <= (IF u \in receipts[m] THEN 1 ELSE 0)
        BY <1>1 DEF AnnouncedByItsCreator
    <2>2. announced[<<m, u>>] <= (IF u \in receipts[m] THEN 1 ELSE 0)
        BY DEF MInv, ReceiptInv, AnnouncedByItsCreator
    <2>3. m \in old.inserted /\ u = old.user => u \in receipts[m] /\ announced[<<m, u>>] = 0
        BY <1>1, <1>2 DEF ReadKnows, At
    <2>. QED BY <1>4, <2>2, <2>3
<1>. QED BY <1>6, <1>7, <1>8, <1>9, <1>10 DEF MInv, ReceiptInv

-----------------------------------------------------------------------------
(* The steps on reactions *)

\* Requests that hold no rows of reactions of another key and go on.
LEMMA SameKeys ==
    ASSUME MInv, NEW r \in Requests, Does(r, ReactionOps), NEW q \in Request,
           requests'[r] = q, q.op = requests[r].op, q.user = requests[r].user,
           q.target = requests[r].target,
           \A p \in Requests \ {r} : requests'[p] = requests[p]
    PROVE  /\ \A p \in Requests : (Does(p, ReactionOps)' <=> Does(p, ReactionOps)) /\ KeyOf(p)' = KeyOf(p)
           /\ KeyIn(q) = KeyOf(r)
BY IdleOrNot DEF Does, Busy, KeyOf, KeyIn

\* A step that changes no row and is not the commit.
LEMMA ReactMoves ==
    ASSUME MInv, NEW r \in Requests, Does(r, ReactionOps), NEW q \in Request,
           requests' = [requests EXCEPT ![r] = q],
           q.op = requests[r].op, q.user = requests[r].user, q.target = requests[r].target,
           ReactKnows(q),
           q.pc \in {"reload", "emit"} <=> requests[r].pc \in {"reload", "emit"},
           UNCHANGED <<tables, events, disturbed>>
    PROVE  MInv'
<1>0. TypeOK BY DEF MInv
<1>1. /\ requests' \in [Requests -> Request \cup {NoRequest}]
      /\ requests'[r] = q
      /\ \A p \in Requests \ {r} : requests'[p] = requests[p]
    BY <1>0, OneChanges
<1>2. TypeOK' BY <1>0, <1>1 DEF TypeOK, tables, events
<1>3. ReceiptInv' BY <1>1, Ops, ReceiptsAside DEF Does, tables, events
<1>4. \A key : RowsOf(key)' = RowsOf(key) BY DEF RowsOf, tables
<1>5. ReactsKnow'
    <2>1. SUFFICES ASSUME NEW p \in Requests, Does(p, ReactionOps)' PROVE ReactKnows(requests[p])'
        BY DEF ReactsKnow
    <2>2. PICK o : o = requests'[p] OBVIOUS
    <2>3. ReactKnows(o)
        BY <1>1, <2>1, <2>2 DEF MInv, ReactionInv, ReactsKnow, Does, Busy
    <2>4. RowsOf(KeyIn(o))' = RowsOf(KeyIn(o)) BY DEF RowsOf, tables
    <2>. QED BY <2>2, <2>3, <2>4 DEF ReactKnows, KeyIn, RowsOf
<1>6. \A key : Committed(key)' = Committed(key)
    BY <1>1, SameKeys DEF Committed
<1>7. ShownWhenDone' BY <1>4, <1>6 DEF MInv, ReactionInv, ShownWhenDone, events
<1>8. OneRowEach' BY DEF MInv, ReactionInv, OneRowEach, tables
<1>. QED BY <1>2, <1>3, <1>5, <1>7, <1>8 DEF MInv, ReactionInv

\* A commit, which changes rows of its key only: the others with that key, if there
\* are any, see it disturbed.
LEMMA ReactCommits ==
    ASSUME MInv, NEW r \in Requests, Does(r, ReactionOps), NEW q \in Request,
           requests' = [requests EXCEPT ![r] = q],
           q.op = requests[r].op, q.user = requests[r].user, q.target = requests[r].target,
           q.pc \in {"reload", "emit"}, requests[r].pc \notin {"reload", "emit"},
           ReactKnows(q)', Disturb(r),
           reactions' \subseteq Row, OneRowEach',
           \A key \in Keys \ {KeyOf(r)} : RowsOf(key)' = RowsOf(key),
           UNCHANGED <<receipts, events>>
    PROVE  MInv'
<1>0. TypeOK BY DEF MInv
<1>1. /\ requests' \in [Requests -> Request \cup {NoRequest}]
      /\ requests'[r] = q
      /\ \A p \in Requests \ {r} : requests'[p] = requests[p]
    BY <1>0, OneChanges
<1>2. disturbed \subseteq disturbed' /\ disturbed' \subseteq Keys
    BY <1>0, ReactionKey DEF Disturb, TypeOK
<1>3. TypeOK' BY <1>0, <1>1, <1>2 DEF TypeOK, events
<1>4. ReceiptInv' BY <1>1, Ops, ReceiptsAside DEF Does, events
<1>5. ReactsKnow'
    <2>1. SUFFICES ASSUME NEW p \in Requests, Does(p, ReactionOps)' PROVE ReactKnows(requests[p])'
        BY DEF ReactsKnow
    <2>2. CASE p = r BY <1>1, <2>2 DEF ReactKnows, KeyIn, RowsOf
    <2>3. CASE p # r
        <3>1. PICK o : o = requests[p] OBVIOUS
        <3>2. Does(p, ReactionOps) /\ requests'[p] = o BY <1>1, <2>1, <2>3, <3>1 DEF Does, Busy
        <3>3. ReactKnows(o) /\ KeyOf(p) = KeyIn(o) /\ KeyIn(o) \in Keys BY <3>1, <3>2, ReactionKey
        <3>4. CASE KeyIn(o) = KeyOf(r)
            <4>1. KeyIn(o) \in disturbed' BY <2>3, <3>2, <3>3, <3>4 DEF Disturb, Does
            <4>. QED BY <3>2, <3>3, <4>1 DEF ReactKnows, KeyIn
        <3>5. CASE KeyIn(o) # KeyOf(r)
            <4>1. RowsOf(KeyIn(o))' = RowsOf(KeyIn(o)) BY <3>3, <3>5 DEF RowsOf
            <4>. QED BY <1>2, <3>2, <3>3, <4>1 DEF ReactKnows, KeyIn, RowsOf
        <3>. QED BY <3>4, <3>5
    <2>. QED BY <2>2, <2>3
<1>6. ShownWhenDone'
    <2>1. SUFFICES ASSUME NEW key \in Keys \ disturbed', Committed(key)' = {}
                   PROVE  RowsOf(key)' # {} <=> shown[key] = "added"
        BY DEF ShownWhenDone, events
    <2>2. key # KeyOf(r)
        BY <1>1, <2>1, SameKeys DEF Committed
    <2>3. Committed(key) = {}
        BY <1>1, <2>1, <2>2, SameKeys DEF Committed
    <2>. QED BY <1>2, <2>1, <2>2, <2>3 DEF MInv, ReactionInv, ShownWhenDone
<1>. QED BY <1>3, <1>4, <1>5, <1>6 DEF MInv, ReactionInv

LEMMA LooksUpReaction ==
    ASSUME MInv, NEW r \in Requests, LookReaction(r)
    PROVE  MInv'
<1>0. TypeOK BY DEF MInv
<1>. DEFINE old == requests[r]
            found == RowsOf(KeyOf(r))
<1>1. At(r, "look") /\ Does(r, ReactionOps) /\ UNCHANGED <<tables, events, disturbed>>
    BY DEF LookReaction
<1>2. old \in Request /\ ReactKnows(old) /\ KeyOf(r) = KeyIn(old) BY <1>1, ReactionKey
<1>3. CASE (found = {}) = (old.op = "add")
    <2>1. requests' = [requests EXCEPT ![r].pc = "commit", ![r].row = found] BY <1>3 DEF LookReaction
    <2>2. found \in SUBSET Row BY <1>0 DEF RowsOf, TypeOK
    <2>3. PICK q : q = ReactRow(old, "commit", found) OBVIOUS
    <2>4. /\ q \in Request /\ q.pc = "commit" /\ q.row = found /\ q.adding = old.adding
          /\ q.inserted = old.inserted /\ q.op = old.op /\ q.user = old.user /\ q.target = old.target
        BY <1>2, <2>2, <2>3, ReactRowFacts
    <2>5. requests' = [requests EXCEPT ![r] = q]
        BY <1>0, <1>2, <2>1, <2>3 DEF ReactRow, TypeOK, Request
    <2>6. KeyIn(q) = KeyIn(old) BY <2>4 DEF KeyIn
    <2>7. ReactKnows(q) BY <1>2, <2>4, <2>6 DEF ReactKnows, RowsOf
    <2>. QED BY <1>1, <2>4, <2>5, <2>7, ReactMoves DEF At
<1>4. CASE ~((found = {}) = (old.op = "add"))
    <2>1. End(r) BY <1>4 DEF LookReaction
    <2>2. \A key \in Keys \ disturbed : r \notin Committed(key) BY <1>1 DEF Committed, At
    <2>. QED BY <1>0, <1>1, <2>1, <2>2, EndsQuietly DEF TypeOK
<1>. QED BY <1>3, <1>4

\* The key's only row, since the constraint saw none.
LEMMA CommitsReaction ==
    ASSUME MInv, NEW r \in Requests, CommitReaction(r)
    PROVE  MInv'
<1>0. TypeOK BY DEF MInv
<1>. DEFINE old == requests[r]
            key == KeyOf(r)
<1>1. At(r, "commit") /\ old.op = "add" /\ UNCHANGED <<receipts, events>> BY DEF CommitReaction
<1>2. Does(r, ReactionOps)
    BY <1>0, <1>1, RequestType DEF Does, At, ReactionOps
<1>3. old \in Request /\ ReactKnows(old) /\ KeyOf(r) = KeyIn(old) /\ KeyOf(r) \in Keys
    BY <1>2, ReactionKey
<1>4. CASE Taken(key)
    <2>1. End(r) /\ UNCHANGED <<reactions, disturbed>> BY <1>4 DEF CommitReaction
    <2>2. \A k \in Keys \ disturbed : r \notin Committed(k) BY <1>1 DEF Committed, At
    <2>. QED BY <1>0, <1>1, <2>1, <2>2, EndsQuietly DEF TypeOK, tables
<1>5. CASE ~Taken(key)
    <2>1. PICK i \in RowIds :
            /\ reactions' = reactions \cup {[id |-> i, key |-> key]}
            /\ requests' = [requests EXCEPT ![r].pc = "reload", ![r].row = {[id |-> i, key |-> key]}]
            /\ Disturb(r)
        BY <1>5 DEF CommitReaction
    <2>2. PICK row : row = [id |-> i, key |-> key] OBVIOUS
    <2>3. row \in Row /\ row.key = key BY <1>3, <2>2 DEF Row
    <2>4. PICK q : q = ReactRow(old, "reload", {row}) OBVIOUS
    <2>5. /\ q \in Request /\ q.pc = "reload" /\ q.row = {row} /\ q.adding = old.adding
          /\ q.inserted = old.inserted /\ q.op = old.op /\ q.user = old.user /\ q.target = old.target
        <3>1. {row} \in SUBSET Row BY <2>3
        <3>. QED BY <1>3, <2>4, <3>1, ReactRowFacts
    <2>6. requests' = [requests EXCEPT ![r] = q]
        BY <1>0, <1>3, <2>1, <2>2, <2>4 DEF ReactRow, TypeOK, Request
    <2>7. reactions' = reactions \cup {row} BY <2>1, <2>2
    <2>8. RowsOf(key) = {} BY <1>5 DEF Taken
    <2>9. {x \in reactions' : x.key = key} = {row} BY <2>3, <2>7, <2>8 DEF RowsOf
    <2>10. \A k \in Keys \ {key} : RowsOf(k)' = RowsOf(k) BY <2>3, <2>7 DEF RowsOf
    <2>11. OneRowEach'
        BY <2>3, <2>7, <2>8 DEF MInv, ReactionInv, OneRowEach, RowsOf
    <2>12. KeyIn(q) = key BY <1>3, <2>5 DEF KeyIn
    <2>13. ReactKnows(q)' BY <1>1, <1>3, <2>3, <2>5, <2>9, <2>12 DEF ReactKnows, RowsOf, KeyIn
    <2>14. reactions' \subseteq Row BY <1>0, <2>3, <2>7 DEF TypeOK
    <2>. QED BY <1>1, <1>2, <2>1, <2>5, <2>6, <2>10, <2>11, <2>13, <2>14, ReactCommits DEF At
<1>. QED BY <1>4, <1>5

\* A row that is gone when it is read again was removed by a request that found
\* this one busy: the key is disturbed.
LEMMA Reloads ==
    ASSUME MInv, NEW r \in Requests, Reload(r)
    PROVE  MInv'
<1>0. TypeOK BY DEF MInv
<1>. DEFINE old == requests[r]
<1>1. At(r, "reload") /\ UNCHANGED <<tables, events, disturbed>> BY DEF Reload
<1>2. Does(r, ReactionOps)
    <2>1. r \in Busy /\ old \in Request BY <1>0, <1>1, RequestType DEF At
    <2>2. old.op \in ReadOps => ReadKnows(old) BY <2>1, ReadRequest DEF Does
    <2>. QED BY <1>1, <2>1, <2>2 DEF Does, At, Request, ReadKnows
<1>3. old \in Request /\ ReactKnows(old) /\ KeyOf(r) = KeyIn(old) BY <1>2, ReactionKey
<1>4. CASE old.row \subseteq reactions /\ Go(r, "emit")
    <2>1. PICK q : q = ReactRow(old, "emit", old.row) OBVIOUS
    <2>2. old.row \in SUBSET Row BY <1>3 DEF Request
    <2>3. /\ q \in Request /\ q.pc = "emit" /\ q.row = old.row /\ q.adding = old.adding
          /\ q.inserted = old.inserted /\ q.op = old.op /\ q.user = old.user /\ q.target = old.target
        BY <1>3, <2>1, <2>2, ReactRowFacts
    <2>4. requests' = [requests EXCEPT ![r] = q]
        BY <1>0, <1>3, <1>4, <2>1 DEF Go, ReactRow, TypeOK, Request
    <2>5. KeyIn(q) = KeyIn(old) BY <2>3 DEF KeyIn
    <2>6. ReactKnows(q) BY <1>1, <1>3, <2>3, <2>5 DEF ReactKnows, At
    <2>. QED BY <1>1, <1>2, <2>3, <2>4, <2>6, ReactMoves DEF At
<1>5. CASE old.row \subseteq reactions /\ UNCHANGED requests
    <2>1. requests' = [requests EXCEPT ![r] = old] BY <1>0, <1>5 DEF TypeOK
    <2>. QED BY <1>1, <1>2, <1>3, <2>1, ReactMoves
<1>6. CASE ~(old.row \subseteq reactions)
    <2>1. End(r) BY <1>6 DEF Reload
    <2>2. \A key \in Keys \ disturbed : r \notin Committed(key)
        BY <1>1, <1>3, <1>6 DEF Committed, ReactKnows, RowsOf, At
    <2>. QED BY <1>0, <1>1, <2>1, <2>2, EndsQuietly DEF TypeOK
<1>. QED BY <1>4, <1>5, <1>6 DEF Reload

\* The row found is still the key's row, or the key is disturbed.
LEMMA DeletesReaction ==
    ASSUME MInv, NEW r \in Requests, DeleteReaction(r)
    PROVE  MInv'
<1>0. TypeOK BY DEF MInv
<1>. DEFINE old == requests[r]
            key == KeyOf(r)
<1>1. /\ At(r, "commit") /\ old.op = "remove" /\ UNCHANGED <<receipts, events>>
      /\ reactions' = reactions \ old.row /\ Go(r, "emit") /\ Disturb(r)
    BY DEF DeleteReaction
<1>2. Does(r, ReactionOps)
    BY <1>0, <1>1, RequestType DEF Does, At, ReactionOps
<1>3. old \in Request /\ ReactKnows(old) /\ KeyOf(r) = KeyIn(old) /\ KeyOf(r) \in Keys
    BY <1>2, ReactionKey
<1>4. PICK q : q = ReactRow(old, "emit", old.row) OBVIOUS
<1>5. /\ q \in Request /\ q.pc = "emit" /\ q.row = old.row /\ q.adding = old.adding
      /\ q.inserted = old.inserted /\ q.op = old.op /\ q.user = old.user /\ q.target = old.target
    <2>1. old.row \in SUBSET Row BY <1>3 DEF Request
    <2>. QED BY <1>3, <1>4, <2>1, ReactRowFacts
<1>6. requests' = [requests EXCEPT ![r] = q]
    BY <1>0, <1>1, <1>3, <1>4 DEF Go, ReactRow, TypeOK, Request
<1>7. \A x \in old.row : x.key = key BY <1>3 DEF ReactKnows
<1>8. \A k \in Keys \ {key} : RowsOf(k)' = RowsOf(k) BY <1>1, <1>7 DEF RowsOf
<1>9. OneRowEach' BY <1>1 DEF MInv, ReactionInv, OneRowEach
<1>10. KeyIn(q) = key BY <1>3, <1>5 DEF KeyIn
<1>11. key \notin disturbed' => {x \in reactions' : x.key = key} = {}
    <2>1. key \notin disturbed' => key \notin disturbed BY <1>1 DEF Disturb
    <2>2. key \notin disturbed => old.row = RowsOf(key)
        BY <1>1, <1>3 DEF ReactKnows, At
    <2>. QED BY <1>1, <2>1, <2>2 DEF RowsOf
<1>12. ReactKnows(q)' BY <1>1, <1>3, <1>5, <1>7, <1>10, <1>11 DEF ReactKnows, RowsOf, KeyIn
<1>13. reactions' \subseteq Row BY <1>0, <1>1 DEF TypeOK
<1>. QED BY <1>1, <1>2, <1>5, <1>6, <1>8, <1>9, <1>12, <1>13, ReactCommits DEF At

\* The event says what the operation has done, which is what the table shows if the
\* key is not disturbed.
LEMMA EmitsReaction ==
    ASSUME MInv, NEW r \in Requests, EmitReaction(r)
    PROVE  MInv'
<1>0. TypeOK BY DEF MInv
<1>. DEFINE old == requests[r]
            key == KeyOf(r)
<1>1. /\ At(r, "emit") /\ Does(r, ReactionOps) /\ End(r)
      /\ shown' = [shown EXCEPT ![key] = IF old.op = "add" THEN "added" ELSE "removed"]
      /\ UNCHANGED <<receipts, reactions, announced, disturbed>>
    BY DEF EmitReaction, tables
<1>2. old \in Request /\ ReactKnows(old) /\ KeyOf(r) = KeyIn(old) /\ KeyOf(r) \in Keys
    BY <1>1, ReactionKey
<1>3. /\ requests' \in [Requests -> Request \cup {NoRequest}]
      /\ requests'[r] = NoRequest
      /\ \A p \in Requests \ {r} : requests'[p] = requests[p]
    BY <1>0, <1>1, OneChanges DEF End
<1>4. /\ shown' \in [Keys -> {"none", "added", "removed"}]
      /\ shown'[key] = IF old.op = "add" THEN "added" ELSE "removed"
      /\ \A k \in Keys \ {key} : shown'[k] = shown[k]
    BY <1>0, <1>1, <1>2 DEF TypeOK
<1>5. TypeOK' BY <1>0, <1>1, <1>3, <1>4 DEF TypeOK
<1>6. ReceiptInv' BY <1>1, <1>3, ReceiptsAside
<1>7. \A k : RowsOf(k)' = RowsOf(k) BY <1>1 DEF RowsOf
<1>8. \A p \in Requests : Does(p, ReactionOps)' => p # r /\ requests'[p] = requests[p] /\ Does(p, ReactionOps)
    BY <1>3 DEF Does, Busy
<1>9. ReactsKnow'
    <2>1. SUFFICES ASSUME NEW p \in Requests, Does(p, ReactionOps)' PROVE ReactKnows(requests[p])'
        BY DEF ReactsKnow
    <2>2. PICK o : o = requests[p] OBVIOUS
    <2>3. requests'[p] = o /\ ReactKnows(o) BY <1>8, <2>1, <2>2 DEF MInv, ReactionInv, ReactsKnow
    <2>4. RowsOf(KeyIn(o))' = RowsOf(KeyIn(o)) BY <1>1 DEF RowsOf
    <2>. QED BY <1>1, <2>3, <2>4 DEF ReactKnows, KeyIn, RowsOf
<1>10. \A k \in Keys \ {key} : Committed(k)' = Committed(k)
    <2>1. \A p \in Requests \ {r} : (Does(p, ReactionOps)' <=> Does(p, ReactionOps)) /\ KeyOf(p)' = KeyOf(p)
        BY <1>3 DEF Does, Busy, KeyOf
    <2>. QED BY <1>3, <1>8, <2>1 DEF Committed
<1>11. ShownWhenDone'
    <2>1. SUFFICES ASSUME NEW k \in Keys \ disturbed, Committed(k)' = {}
                   PROVE  RowsOf(k) # {} <=> shown'[k] = "added"
        BY <1>1, <1>7 DEF ShownWhenDone
    <2>2. CASE k = key
        <3>1. old.op \in {"add", "remove"} BY <1>1 DEF Does, ReactionOps
        <3>. QED BY <1>1, <1>2, <1>4, <2>1, <2>2, <3>1 DEF ReactKnows, At
    <2>3. CASE k # key
        BY <1>4, <1>10, <2>1, <2>3 DEF MInv, ReactionInv, ShownWhenDone
    <2>. QED BY <2>2, <2>3
<1>12. OneRowEach' BY <1>1 DEF MInv, ReactionInv, OneRowEach
<1>. QED BY <1>5, <1>6, <1>9, <1>11, <1>12 DEF MInv, ReactionInv

-----------------------------------------------------------------------------
(* The theorems *)

LEMMA StutteringStep == MInv /\ UNCHANGED vars => MInv'
<1>. SUFFICES ASSUME MInv, UNCHANGED vars PROVE MInv' OBVIOUS
<1>1. UNCHANGED <<receipts, reactions, announced, shown, requests, disturbed>> BY DEF vars
<1>2. TypeOK' BY <1>1 DEF MInv, TypeOK
<1>3. ReceiptInv'
    BY <1>1 DEF MInv, ReceiptInv, ReadsKnow, ReadKnows, OneHolder, AnnouncedByItsCreator, Does, Busy
<1>4. Busy' = Busy /\ \A key : RowsOf(key)' = RowsOf(key) BY <1>1 DEF Busy, RowsOf
<1>5. ReactsKnow'
    <2>1. SUFFICES ASSUME NEW p \in Requests, Does(p, ReactionOps)' PROVE ReactKnows(requests[p])'
        BY DEF ReactsKnow
    <2>2. PICK o : o = requests[p] OBVIOUS
    <2>3. requests'[p] = o /\ ReactKnows(o)
        BY <1>1, <2>1, <2>2 DEF MInv, ReactionInv, ReactsKnow, Does, Busy
    <2>4. RowsOf(KeyIn(o))' = RowsOf(KeyIn(o)) BY <1>1 DEF RowsOf
    <2>. QED BY <1>1, <2>3, <2>4 DEF ReactKnows, KeyIn, RowsOf
<1>6. \A key : Committed(key)' = Committed(key) BY <1>1, <1>4 DEF Committed, Does, KeyOf
<1>7. ShownWhenDone' /\ OneRowEach'
    BY <1>1, <1>4, <1>6 DEF MInv, ReactionInv, ShownWhenDone, OneRowEach
<1>. QED BY <1>2, <1>3, <1>5, <1>7 DEF MInv, ReactionInv

LEMMA NextMInv == MInv /\ [Next]_vars => MInv'
<1>. SUFFICES ASSUME MInv, [Next]_vars PROVE MInv' OBVIOUS
<1>1. CASE UNCHANGED vars BY <1>1, StutteringStep
<1>2. CASE \E r \in Requests, u \in Users :
            \/ \E op \in ReadOps, b \in Batches : BeginRead(r, op, u, b)
            \/ \E op \in ReactionOps, t \in Targets : BeginReaction(r, op, u, t)
    BY <1>2, BeginsReading, BeginsReaction
<1>3. CASE \E r \in Requests : RequestStep(r) \/ Fail(r)
    <2>1. PICK r \in Requests : RequestStep(r) \/ Fail(r) BY <1>3
    <2>2. CASE ReceiptStep(r)
        BY <2>2, LooksUpReceipt, Flushes, Deadlocks, CommitsReceipts, EmitsReceipts DEF ReceiptStep
    <2>3. CASE ReactionStep(r)
        BY <2>3, LooksUpReaction, CommitsReaction, Reloads, DeletesReaction, EmitsReaction DEF ReactionStep
    <2>. QED BY <2>1, <2>2, <2>3, Fails DEF RequestStep
<1>. QED BY <1>1, <1>2, <1>3 DEF Next

\* What a request on receipts or on a reaction knows of the tables at each of its steps.
THEOREM InvariantHolds == Spec => []MInv
BY InitMInv, NextMInv, PTL DEF Spec

\* The tables, the events and the requests keep their types.
THEOREM TypeCorrect == Spec => []TypeOK
<1>1. MInv => TypeOK BY DEF MInv
<1>. QED BY <1>1, InvariantHolds, PTL

\* Who is answered that his messages are read has a receipt for each of them,
\* whichever of them other requests were inserting at the time.
THEOREM AnswersMeanReceipts == Spec => []AnsweredMeansRead
<1>1. MInv => AnsweredMeansRead
    <2>1. SUFFICES ASSUME MInv, NEW r \in Busy, At(r, "emit"), Does(r, ReadOps),
                          NEW m \in ToSet(requests[r].batch)
                   PROVE  requests[r].user \in receipts[m]
        BY DEF AnsweredMeansRead
    <2>2. r \in Requests BY DEF Busy
    <2>3. ReadKnows(requests[r]) BY <2>1, <2>2, ReadRequest
    <2>4. PICK i \in DOMAIN requests[r].batch : m = requests[r].batch[i] BY <2>1 DEF ToSet
    <2>5. i \in 1..Len(requests[r].batch) BY <2>3, <2>4, BatchFacts DEF ReadKnows
    <2>. QED BY <2>1, <2>3, <2>4, <2>5 DEF ReadKnows, At
<1>. QED BY <1>1, InvariantHolds, PTL

\* A receipt is announced at most once, by whoever created it, and not before it
\* is committed, however many requests mark the same message at a time.
THEOREM CreatorsAnnounce == Spec => []AnnouncedByItsCreator
<1>1. MInv => AnnouncedByItsCreator BY DEF MInv, ReceiptInv
<1>. QED BY <1>1, InvariantHolds, PTL

\* The room's last event on a reaction tells whether it is there, once its requests
\* are through, unless two were at it at a time or one failed.
THEOREM ReactionsAreShown == Spec => []RoomKnowsReactions
<1>1. MInv => RoomKnowsReactions
    <2>1. SUFFICES ASSUME MInv, NEW key \in Keys \ disturbed,
                          \A r \in Busy : Does(r, ReactionOps) => KeyOf(r) # key
                   PROVE  Cardinality(RowsOf(key)) = IF shown[key] = "added" THEN 1 ELSE 0
        BY DEF RoomKnowsReactions
    <2>2. Committed(key) = {} BY <2>1 DEF Committed, Does
    <2>3. RowsOf(key) # {} <=> shown[key] = "added"
        BY <2>1, <2>2 DEF MInv, ReactionInv, ShownWhenDone
    <2>4. CASE RowsOf(key) = {} BY <2>3, <2>4, FS_EmptySet
    <2>5. CASE RowsOf(key) # {}
        <3>0. PICK x : x \in RowsOf(key) BY <2>5
        <3>1. RowsOf(key) = {x} BY <2>1, <3>0 DEF MInv, ReactionInv, OneRowEach, RowsOf
        <3>. QED BY <2>3, <2>5, <3>1, FS_Singleton
    <2>. QED BY <2>4, <2>5
<1>. QED BY <1>1, InvariantHolds, PTL
-----------------------------------------------------------------------------
(* Who can wait in a circle *)

\* A request has inserted only what it has looked up, and not what it is about to
\* insert.
Owns(q) ==
    \A m \in q.inserted :
        m \notin q.adding /\ \E i \in 1..(q.at - 1) : q.batch[i] = m
OwnInsertions == \A r \in Requests : Does(r, ReadOps) /\ At(r, "look") => Owns(requests[r])

\* Transactions that wait for each other in a circle are those of mark_many.
CirclesAreOfBatches == \A r \in Requests : InCircle(r) => requests[r].op = "read_many"

LEMMA OwnKept ==
    ASSUME OwnInsertions, NEW r \in Requests,
           \A p \in Requests \ {r} : requests'[p] = requests[p],
           requests'[r] # NoRequest /\ requests'[r].op \in ReadOps /\ requests'[r].pc = "look"
                => Owns(requests'[r])
    PROVE  OwnInsertions'
<1>. SUFFICES ASSUME NEW p \in Requests, Does(p, ReadOps)', At(p, "look")'
              PROVE  Owns(requests'[p])
    BY DEF OwnInsertions, Owns
<1>1. CASE p = r BY <1>1 DEF Does, Busy, At
<1>2. CASE p # r BY <1>2 DEF OwnInsertions, Does, Busy, At
<1>. QED BY <1>1, <1>2

LEMMA LookKeepsOwn ==
    ASSUME MInv, OwnInsertions, NEW r \in Requests, LookReceipt(r)
    PROVE  OwnInsertions'
<1>0. TypeOK BY DEF MInv
<1>. DEFINE old == requests[r]
<1>1. At(r, "look") /\ Does(r, ReadOps) /\ old.adding = {} /\ old.at <= Len(old.batch)
    BY DEF LookReceipt
<1>2. old \in Request /\ old.at \in Nat BY <1>1, ReadRequest, MarksAssumption, FS_CardinalityType DEF Request
<1>3. PICK adding :
        /\ \A m \in adding : m \notin old.inserted
        /\ requests' = [requests EXCEPT ![r].at = @ + 1, ![r].adding = adding]
    BY DEF LookReceipt
<1>4. PICK q : q = requests'[r] OBVIOUS
<1>5. q.inserted = old.inserted /\ q.adding = adding /\ q.at = old.at + 1 /\ q.batch = old.batch
    BY <1>0, <1>2, <1>3, <1>4 DEF TypeOK, Request
<1>6. Owns(old) BY <1>1 DEF OwnInsertions
<1>7. Owns(q) BY <1>2, <1>3, <1>5, <1>6 DEF Owns
<1>8. \A p \in Requests \ {r} : requests'[p] = requests[p] BY <1>0, <1>3 DEF TypeOK
<1>. QED BY <1>4, <1>7, <1>8, OwnKept

LEMMA FlushKeepsOwn ==
    ASSUME MInv, OwnInsertions, NEW r \in Requests, Flush(r)
    PROVE  OwnInsertions'
<1>0. TypeOK BY DEF MInv
<1>. DEFINE old == requests[r]
<1>1. At(r, "look") /\ Does(r, ReadOps) /\ old.adding # {} BY DEF Flush
<1>2. old \in Request /\ old.at \in Nat /\ old.at > 1 /\ old.adding = {old.batch[old.at - 1]}
    BY <1>1, ReadRequest, MarksAssumption, FS_CardinalityType DEF Request, ReadKnows
<1>3. Owns(old) BY <1>1 DEF OwnInsertions
<1>4. \A p \in Requests \ {r} : requests'[p] = requests[p] BY <1>0 DEF TypeOK, Flush, End
<1>5. CASE requests' = [requests EXCEPT ![r].adding = {}, ![r].inserted = @ \cup old.adding]
    <2>1. PICK q : q = requests'[r] OBVIOUS
    <2>2. /\ q.inserted = old.inserted \cup old.adding /\ q.adding = {}
          /\ q.at = old.at /\ q.batch = old.batch
        BY <1>0, <1>2, <1>5, <2>1 DEF TypeOK, Request
    <2>3. Owns(q)
        <3>1. old.at - 1 \in 1..(old.at - 1) BY <1>2
        <3>. QED BY <1>2, <1>3, <2>2, <3>1 DEF Owns
    <2>. QED BY <1>4, <2>1, <2>3, OwnKept
<1>6. CASE requests'[r] = NoRequest \/ requests'[r].pc = "emit"
    BY <1>4, <1>6, OwnKept
<1>7. CASE requests' = [requests EXCEPT ![r].pc = "emit", ![r].adding = {}, ![r].inserted = {}]
    <2>1. requests'[r].pc = "emit" BY <1>0, <1>2, <1>7 DEF TypeOK, Request
    <2>. QED BY <1>6, <2>1
<1>8. CASE End(r)
    <2>1. requests'[r] = NoRequest BY <1>0, <1>8 DEF TypeOK, End
    <2>. QED BY <1>6, <2>1
<1>. QED BY <1>5, <1>7, <1>8 DEF Flush

LEMMA NextOwn ==
    ASSUME MInv, OwnInsertions, [Next]_vars
    PROVE  OwnInsertions'
<1>0. TypeOK BY DEF MInv
<1>1. CASE UNCHANGED vars BY <1>1 DEF vars, OwnInsertions, Owns, Does, Busy, At
<1>2. ASSUME NEW r \in Requests, NEW u \in Users, NEW op \in ReadOps, NEW b \in Batches,
             BeginRead(r, op, u, b)
      PROVE  OwnInsertions'
    <2>1. /\ requests'[r].inserted = {}
          /\ \A p \in Requests \ {r} : requests'[p] = requests[p]
        BY <1>0, <1>2 DEF TypeOK, BeginRead, NewRequest
    <2>. QED BY <2>1, OwnKept DEF Owns
<1>3. ASSUME NEW r \in Requests, NEW u \in Users, NEW op \in ReactionOps, NEW t \in Targets,
             BeginReaction(r, op, u, t)
      PROVE  OwnInsertions'
    <2>1. /\ requests'[r].inserted = {}
          /\ \A p \in Requests \ {r} : requests'[p] = requests[p]
        BY <1>0, <1>3 DEF TypeOK, BeginReaction, NewRequest
    <2>. QED BY <2>1, OwnKept DEF Owns
<1>4. ASSUME NEW r \in Requests, End(r) PROVE OwnInsertions'
    <2>1. requests'[r] = NoRequest /\ \A p \in Requests \ {r} : requests'[p] = requests[p]
        BY <1>0, <1>4 DEF TypeOK, End
    <2>. QED BY <2>1, OwnKept
<1>5. ASSUME NEW r \in Requests, NEW q, requests' = [requests EXCEPT ![r] = q],
             q.pc \in {"commit", "reload", "emit"}
      PROVE  OwnInsertions'
    <2>1. requests'[r] = q /\ \A p \in Requests \ {r} : requests'[p] = requests[p]
        BY <1>0, <1>5 DEF TypeOK
    <2>. QED BY <1>5, <2>1, OwnKept
<1>6. ASSUME NEW r \in Requests, ReactionStep(r) PROVE OwnInsertions'
    <2>1. CASE UNCHANGED requests BY <2>1 DEF OwnInsertions, Owns, Does, Busy, At
    <2>2. ASSUME requests[r] \in Request PROVE OwnInsertions'
        <3>1. CASE LookReaction(r)
            <4>1. ASSUME ~End(r)
                  PROVE  /\ requests'[r].pc = "commit"
                         /\ \A p \in Requests \ {r} : requests'[p] = requests[p]
                BY <1>0, <2>2, <3>1, <4>1 DEF LookReaction, TypeOK, Request
            <4>. QED BY <1>4, <4>1, OwnKept
        <3>2. CASE CommitReaction(r)
            <4>1. ASSUME ~End(r)
                  PROVE  /\ requests'[r].pc = "reload"
                         /\ \A p \in Requests \ {r} : requests'[p] = requests[p]
                <5>1. PICK row : requests' = [requests EXCEPT ![r].pc = "reload", ![r].row = row]
                    BY <3>2, <4>1 DEF CommitReaction
                <5>. QED BY <1>0, <2>2, <5>1 DEF TypeOK, Request
            <4>. QED BY <1>4, <4>1, OwnKept
        <3>3. CASE Reload(r) BY <1>4, <1>5, <2>1, <2>2, <3>3 DEF Reload, Go, Request
        <3>4. CASE DeleteReaction(r) BY <1>5, <2>2, <3>4 DEF DeleteReaction, Go, Request
        <3>5. CASE EmitReaction(r) BY <1>4, <3>5 DEF EmitReaction
        <3>. QED BY <1>6, <3>1, <3>2, <3>3, <3>4, <3>5 DEF ReactionStep
    <2>3. requests[r] \in Request
        <3>1. requests[r].pc # "idle"
            <4>1. Does(r, ReactionOps) => r \in Busy BY DEF Does
            <4>. QED BY <1>0, <1>6, <4>1, RequestType
                     DEF ReactionStep, LookReaction, CommitReaction, Reload, DeleteReaction, EmitReaction, At
        <3>. QED BY <1>0, <3>1, RequestType
    <2>. QED BY <2>2, <2>3
<1>7. ASSUME NEW r \in Requests, ReceiptStep(r) PROVE OwnInsertions'
    <2>1. CASE CommitReceipts(r)
        <3>1. requests[r] \in Request BY <2>1, ReadRequest DEF CommitReceipts
        <3>. QED BY <1>5, <2>1, <3>1 DEF CommitReceipts, Go, Request
    <2>2. CASE Deadlock(r) \/ EmitReceipts(r) BY <1>4, <2>2 DEF Deadlock, EmitReceipts
    <2>. QED BY <1>7, <2>1, <2>2, LookKeepsOwn, FlushKeepsOwn DEF ReceiptStep
<1>8. ASSUME NEW r \in Requests, Fail(r) PROVE OwnInsertions' BY <1>4, <1>8 DEF Fail
<1>. QED BY <1>1, <1>2, <1>3, <1>6, <1>7, <1>8 DEF Next, RequestStep

LEMMA CirclesNeedBatches ==
    ASSUME MInv, OwnInsertions
    PROVE  CirclesAreOfBatches
<1>. SUFFICES ASSUME NEW r \in Requests, InCircle(r), requests[r].op # "read_many" PROVE FALSE
    BY DEF CirclesAreOfBatches
<1>. DEFINE q == requests[r]
<1>1. PICK S \in SUBSET Busy : r \in S /\ WaitsFor(r) # {} /\ \E p \in S : r \in WaitsFor(p)
    BY DEF InCircle
<1>2. r \in Busy /\ At(r, "look") /\ q.adding # {} /\ q.inserted # {} BY <1>1 DEF WaitsFor
<1>3. Does(r, ReadOps)
    <2>1. ~Does(r, ReactionOps) BY <1>2, ReactionKey DEF ReactKnows
    <2>2. q.op \in ReadOps \cup ReactionOps BY <1>2, RequestType DEF MInv, Request
    <2>. QED BY <1>2, <2>1, <2>2 DEF Does
<1>4. q \in Request /\ ReadKnows(q) /\ Owns(q) BY <1>2, <1>3, ReadRequest DEF OwnInsertions
<1>5. Len(q.batch) = 1 BY <1>3, <1>4 DEF Does, ReadOps, ReadKnows
<1>6. q.at \in Nat BY <1>4, MarksAssumption, FS_CardinalityType DEF Request
<1>7. q.at = 2 /\ q.adding = {q.batch[1]} BY <1>2, <1>4, <1>5, <1>6 DEF ReadKnows
<1>8. PICK m \in q.inserted : m \notin q.adding /\ \E i \in 1..(q.at - 1) : q.batch[i] = m
    BY <1>2, <1>4 DEF Owns
<1>. QED BY <1>7, <1>8

\* Only batches are ended by PostgreSQL's deadlock detection: a request of mark_read,
\* which inserts one receipt, holds nothing while it waits, so that those who mark
\* single messages never get the error, whoever marks batches beside them.
THEOREM OnlyBatchesDeadlock == Spec => []CirclesAreOfBatches
<1>1. Init => OwnInsertions BY DEF Init, OwnInsertions, Does, Busy
<1>2. MInv /\ OwnInsertions /\ [Next]_vars => OwnInsertions' BY NextOwn
<1>3. MInv /\ OwnInsertions => CirclesAreOfBatches BY CirclesNeedBatches
<1>. QED BY <1>1, <1>2, <1>3, InvariantHolds, PTL DEF Spec
=============================================================================
