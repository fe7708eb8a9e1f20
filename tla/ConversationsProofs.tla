------------------------- MODULE ConversationsProofs -------------------------
(***************************************************************************)
(* The types of Conversations, what reopening achieves, and that the       *)
(* conversations implement Pairing.  The invariant says what the UNIQUE    *)
(* constraint, whose locks include rows that are not committed, makes of   *)
(* the tables, and what a request knows of them at each of its steps; it   *)
(* also says what an insertion that waits is waiting for.                  *)
(***************************************************************************)
EXTENDS Conversations, FiniteSetTheorems, TLAPS

\* A pair's conversation, and a row of it.
Held(p, c) == p.conversation = c.id
Clash(c, d) == c.id = d.id \/ c.pair = d.pair
Sides(c) == {c.pair[1], c.pair[2]}
SameSeat(p, q) == p.conversation = q.conversation /\ p.user = q.user

\* Conversations differ in id and pair, and their pairs are in order.
TablesUnique ==
    /\ \A c, d \in conversations : Clash(c, d) => c = d
    /\ \A c \in conversations : c.pair[1] < c.pair[2]

\* Every conversation has a row for each of its two users, and no other.
Seats ==
    /\ \A p \in participants : \E c \in conversations : Held(p, c) /\ p.user \in Sides(c)
    /\ \A c \in conversations : \A u \in Sides(c) :
            \E p \in participants : Held(p, c) /\ p.user = u
    /\ \A p, q \in participants : SameSeat(p, q) => p = q

\* 201 is answered once for a conversation, and not without one.
Counted ==
    \A p \in Pair : created[p] = IF \E c \in conversations : c.pair = p THEN 1 ELSE 0

\* What the request with record q knows of the tables.
QPair(q) == _canonical_pair(q.user, q.target)
Sound(q) ==
    /\ q.pc # "leave" => q.user # q.target
    /\ \A c \in q.new : /\ q.pc = "commit" /\ c.pair = QPair(q)
                        /\ \A d \in conversations : ~Clash(c, d)
    /\ q.pc = "commit" => \E c \in q.new : q.new = {c}
    /\ q.pc = "reopen" => \E c \in conversations : c.pair = QPair(q) /\ \A p \in q.rows : Held(p, c)
    /\ q.pc = "leave" => \E p \in q.rows : /\ q.rows = {p} /\ p.user = q.user
                                           /\ \E c \in conversations : Held(p, c)

\* Who has left a conversation that a request is about to reopen was seen to have
\* left, or has left since.
Witnessed(q) ==
    q.pc = "reopen" =>
        \A p \in participants : p.left /\ (\E s \in q.rows : s.conversation = p.conversation)
            => p.user \in q.leavers \/ \E s \in q.rows : s.left /\ SameSeat(s, p)

Sessions == \A r \in Requests : requests[r] # NoRequest =>
                Sound(requests[r]) /\ Witnessed(requests[r])

\* No two requests are about to commit the same key.
Locks ==
    \A r, q \in Requests : r # q /\ requests[r] # NoRequest /\ requests[q] # NoRequest =>
        \A c \in requests[r].new, d \in requests[q].new : ~Clash(c, d)

CInv == TypeOK /\ TablesUnique /\ Seats /\ Counted /\ Sessions /\ Locks

-----------------------------------------------------------------------------
(* Pairs and requests *)

LEMMA CanonicalPair ==
    ASSUME NEW u \in Users, NEW v \in Users, u # v
    PROVE  LET p == _canonical_pair(u, v) IN p \in Pair /\ p[1] < p[2] /\ {p[1], p[2]} = {u, v}
BY ConversationsAssumption DEF _canonical_pair, Pair

LEMMA PairIsCanonical ==
    ASSUME NEW u \in Users, NEW v \in Users
    PROVE  _canonical_pair(u, v) \in Pair
BY DEF _canonical_pair, Pair

LEMMA SamePair ==
    ASSUME NEW p \in Pair, NEW q \in Pair, p[1] < p[2], q[1] < q[2],
           {p[1], p[2]} = {q[1], q[2]}
    PROVE  p = q
<1>1. p[1] \in Nat /\ p[2] \in Nat /\ q[1] \in Nat /\ q[2] \in Nat
    BY ConversationsAssumption DEF Pair
<1>2. p[1] = q[1] /\ p[2] = q[2] BY <1>1
<1>. QED BY <1>2 DEF Pair

LEMMA ActiveRequest ==
    ASSUME TypeOK, NEW r \in Requests, requests[r].pc # "idle"
    PROVE  /\ requests[r] \in Request /\ requests[r] # NoRequest /\ r \in Busy
           /\ PairOf(r) = QPair(requests[r]) /\ PairOf(r) \in Pair
BY PairIsCanonical DEF TypeOK, NoRequest, Busy, PairOf, QPair, Request

\* A request that ends.
LEMMA Ends ==
    ASSUME CInv, NEW r \in Requests, End(r), UNCHANGED <<conversations, participants, created>>
    PROVE  CInv'
<1>1. \A q \in Requests : requests'[q] = IF q = r THEN NoRequest ELSE requests[q]
    BY DEF CInv, TypeOK, End
<1>2. TypeOK' BY <1>1 DEF CInv, TypeOK, End
<1>3. TablesUnique' /\ Seats' /\ Counted' BY DEF CInv, TablesUnique, Seats, Counted
<1>4. Sessions' BY <1>1 DEF CInv, Sessions, Sound, Witnessed
<1>5. Locks' BY <1>1 DEF CInv, Locks
<1>. QED BY <1>2, <1>3, <1>4, <1>5 DEF CInv

\* A request that goes on to a record that is sound, and holds no more locks.
LEMMA GoesOn ==
    ASSUME CInv, NEW r \in Requests, NEW v \in Request,
           requests' = [requests EXCEPT ![r] = v],
           Sound(v), Witnessed(v), v.new = {},
           UNCHANGED <<conversations, participants, created>>
    PROVE  CInv'
<1>1. \A q \in Requests : requests'[q] = IF q = r THEN v ELSE requests[q]
    BY DEF CInv, TypeOK
<1>2. TypeOK' BY <1>1 DEF CInv, TypeOK
<1>3. TablesUnique' /\ Seats' /\ Counted' BY DEF CInv, TablesUnique, Seats, Counted
<1>4. Sessions' BY <1>1 DEF CInv, Sessions, Sound, Witnessed
<1>5. Locks' BY <1>1 DEF CInv, Locks
<1>. QED BY <1>2, <1>3, <1>4, <1>5 DEF CInv

-----------------------------------------------------------------------------
(* The invariant *)

LEMMA InitCInv == Init => CInv
<1>. SUFFICES ASSUME Init PROVE CInv OBVIOUS
<1>1. TypeOK BY DEF Init, TypeOK
<1>2. TablesUnique /\ Seats /\ Counted BY DEF Init, TablesUnique, Seats, Counted
<1>3. Sessions /\ Locks BY DEF Init, Sessions, Locks
<1>. QED BY <1>1, <1>2, <1>3 DEF CInv

LEMMA BeginsCreate ==
    ASSUME CInv, NEW r \in Requests, NEW u \in Users, NEW v \in Users, BeginCreate(r, u, v)
    PROVE  CInv'
<1>. DEFINE q == NewRequest("lookup", u, v, {})
<1>1. q \in Request BY DEF NewRequest, Request
<1>2. Sound(q) /\ Witnessed(q) /\ q.new = {}
    BY DEF BeginCreate, NewRequest, Sound, Witnessed
<1>3. requests' = [requests EXCEPT ![r] = q] /\ UNCHANGED <<conversations, participants, created>>
    BY DEF BeginCreate
<1>. HIDE DEF q
<1>. QED BY <1>1, <1>2, <1>3, GoesOn

LEMMA BeginsLeave ==
    ASSUME CInv, NEW r \in Requests, NEW p \in participants, BeginLeave(r, p)
    PROVE  CInv'
<1>. DEFINE q == NewRequest("leave", p.user, p.user, {p})
<1>1. p \in Participant /\ p.user \in Users BY DEF CInv, TypeOK, Participant
<1>2. q \in Request BY <1>1 DEF NewRequest, Request
<1>3. q.new = {} /\ q.pc = "leave" /\ q.rows = {p} /\ q.user = p.user BY DEF NewRequest
<1>4. requests' = [requests EXCEPT ![r] = q] /\ UNCHANGED <<conversations, participants, created>>
    BY DEF BeginLeave
<1>. HIDE DEF q
<1>5. Sound(q) /\ Witnessed(q) BY <1>3 DEF CInv, Seats, Sound, Witnessed
<1>. QED BY <1>2, <1>3, <1>4, <1>5, GoesOn

LEMMA LooksUp ==
    ASSUME CInv, NEW r \in Requests, Lookup(r)
    PROVE  CInv'
<1>. DEFINE found == get_direct_by_pair(PairOf(r))
            rows == {p \in participants : \E c \in found : c.id = p.conversation}
            pc == IF found = {} THEN "flush" ELSE "reopen"
            q == [requests[r] EXCEPT !.pc = pc, !.rows = rows, !.leavers = {}]
<1>1. /\ requests[r].pc = "lookup"
      /\ requests' = [requests EXCEPT ![r] = q]
      /\ UNCHANGED <<conversations, participants, created>>
    BY DEF Lookup, At
<1>2. requests[r] \in Request /\ Sound(requests[r]) /\ PairOf(r) = QPair(requests[r])
    BY <1>1, ActiveRequest DEF CInv, Sessions
<1>3. rows \subseteq participants /\ rows \subseteq Participant BY DEF CInv, TypeOK
<1>4. pc \in {"flush", "reopen"} /\ (pc = "reopen" => found # {}) OBVIOUS
<1>5. /\ found \subseteq conversations /\ \A c \in found : c.pair = PairOf(r)
      /\ \A p \in participants : p \in rows <=> \E c \in found : Held(p, c)
    BY DEF get_direct_by_pair, Held
<1>. HIDE DEF found, rows, pc
<1>6. /\ q \in Request
      /\ q.pc = pc /\ q.rows = rows /\ q.leavers = {} /\ q.user = requests[r].user
      /\ q.target = requests[r].target /\ q.new = requests[r].new
    BY <1>2, <1>3, <1>4 DEF Request
<1>. HIDE DEF q
<1>7. q.new = {} BY <1>1, <1>2, <1>6 DEF Sound
<1>8. PairOf(r) = QPair(q) BY <1>2, <1>6 DEF QPair
<1>9. pc = "reopen" => \E c \in conversations : c.pair = QPair(q) /\ \A p \in rows : Held(p, c)
    BY <1>3, <1>4, <1>5, <1>8 DEF CInv, TablesUnique, Clash
<1>10. Sound(q) BY <1>1, <1>2, <1>4, <1>6, <1>7, <1>9 DEF Sound
<1>11. Witnessed(q)
    BY <1>3, <1>4, <1>5, <1>6 DEF Witnessed, SameSeat, Held
<1>. QED BY <1>1, <1>6, <1>7, <1>10, <1>11, GoesOn

\* The row that is flushed clashes with no committed row and with no other flushed one.
LEMMA Flushes ==
    ASSUME CInv, NEW r \in Requests, Flush(r)
    PROVE  CInv'
<1>1. requests[r].pc = "flush" /\ ~PairLocked(r) /\ UNCHANGED <<conversations, participants, created>>
    BY DEF Flush, At
<1>2. /\ requests[r] \in Request /\ requests[r] # NoRequest
      /\ PairOf(r) = QPair(requests[r]) /\ PairOf(r) \in Pair
      /\ Sound(requests[r])
    BY <1>1, ActiveRequest DEF CInv, Sessions
<1>3. CASE PairTaken(PairOf(r)) BY <1>1, <1>3, Ends DEF Flush
<1>4. CASE ~PairTaken(PairOf(r))
    <2>1. PICK id \in ConversationIds :
            /\ \A c \in conversations \cup UNION {requests[p].new : p \in Busy} : c.id # id
            /\ requests' = [requests EXCEPT ![r].pc = "commit",
                                            ![r].new = {[id |-> id, pair |-> PairOf(r)]}]
        BY <1>4 DEF Flush
    <2>. DEFINE c == [id |-> id, pair |-> PairOf(r)]
                q == [requests[r] EXCEPT !.pc = "commit", !.new = {c}]
    <2>2. c \in Conversation /\ c.id = id /\ c.pair = PairOf(r) BY <1>2 DEF Conversation
    <2>3. requests' = [requests EXCEPT ![r] = q] BY <2>1
    <2>. HIDE DEF c
    <2>4. /\ q \in Request /\ q.pc = "commit" /\ q.new = {c}
          /\ q.user = requests[r].user /\ q.target = requests[r].target
        BY <1>2, <2>2 DEF Request
    <2>. HIDE DEF q
    <2>5. \A d \in conversations : ~Clash(c, d)
        BY <1>4, <2>1, <2>2 DEF PairTaken, get_direct_by_pair, Clash
    <2>6. ASSUME NEW s \in Requests \ {r}, requests[s] # NoRequest, NEW d \in requests[s].new
          PROVE  ~Clash(c, d)
        <3>1. s \in Busy BY <2>6 DEF Busy
        <3>2. d.id # id BY <2>1, <3>1
        <3>3. d.pair # PairOf(r) BY <1>1, <2>6, <3>1 DEF PairLocked
        <3>. QED BY <2>2, <3>2, <3>3 DEF Clash
    <2>7. Sound(q) /\ Witnessed(q)
        BY <1>1, <1>2, <2>2, <2>4, <2>5 DEF Sound, Witnessed, QPair
    <2>8. \A s \in Requests : requests'[s] = IF s = r THEN q ELSE requests[s]
        BY <2>3 DEF CInv, TypeOK
    <2>9. TypeOK' BY <1>1, <2>3, <2>4 DEF CInv, TypeOK
    <2>10. TablesUnique' /\ Seats' /\ Counted' BY <1>1 DEF CInv, TablesUnique, Seats, Counted
    <2>11. Sessions' BY <1>1, <2>7, <2>8 DEF CInv, Sessions, Sound, Witnessed
    <2>12. Locks' BY <2>4, <2>6, <2>8 DEF CInv, Locks, Clash
    <2>. QED BY <2>9, <2>10, <2>11, <2>12 DEF CInv
<1>. QED BY <1>3, <1>4

\* The one conversation that a request commits, and its rows.
LEMMA Commits ==
    ASSUME CInv, NEW r \in Requests, CommitCreate(r)
    PROVE  \E c \in Conversation :
             /\ requests[r] # NoRequest /\ requests[r].new = {c}
             /\ c.pair = PairOf(r) /\ c.pair \in Pair /\ c.pair[1] < c.pair[2]
             /\ \A d \in conversations : ~Clash(c, d)
             /\ conversations' = conversations \cup {c}
             /\ participants' = participants \cup
                    {[conversation |-> c.id, user |-> u, left |-> FALSE] : u \in Sides(c)}
             /\ created' = [created EXCEPT ![c.pair] = @ + 1]
             /\ requests' = [requests EXCEPT ![r] = NoRequest]
<1>1. requests[r].pc = "commit" BY DEF CommitCreate, At
<1>2. /\ requests[r] \in Request /\ requests[r] # NoRequest
      /\ PairOf(r) = QPair(requests[r]) /\ PairOf(r) \in Pair
      /\ Sound(requests[r])
    BY <1>1, ActiveRequest DEF CInv, Sessions
<1>3. PICK c \in requests[r].new : requests[r].new = {c} BY <1>1, <1>2 DEF Sound
<1>4. /\ c \in Conversation /\ c.pair = PairOf(r)
      /\ \A d \in conversations : ~Clash(c, d)
    BY <1>2, <1>3 DEF Sound, Request
<1>5. c.pair[1] < c.pair[2]
    BY <1>1, <1>2, <1>4, CanonicalPair DEF Sound, Request, QPair
<1>6. {[conversation |-> d.id, user |-> u, left |-> FALSE] :
            d \in requests[r].new, u \in {c.pair[1], c.pair[2]}}
      = {[conversation |-> c.id, user |-> u, left |-> FALSE] : u \in Sides(c)}
    BY <1>3 DEF Sides
<1>7. /\ conversations' = conversations \cup {c}
      /\ created' = [created EXCEPT ![c.pair] = @ + 1]
      /\ requests' = [requests EXCEPT ![r] = NoRequest]
    BY <1>3, <1>4 DEF CommitCreate, End
<1>8. participants' = participants \cup
            {[conversation |-> c.id, user |-> u, left |-> FALSE] : u \in Sides(c)}
    BY <1>4, <1>6 DEF CommitCreate
<1>. QED BY <1>2, <1>3, <1>4, <1>5, <1>7, <1>8

\* The new rows, one by one.
LEMMA NewSeats ==
    ASSUME CInv, NEW c \in Conversation, c.pair \in Pair,
           \A d \in conversations : ~Clash(c, d),
           participants' = participants \cup
                {[conversation |-> c.id, user |-> u, left |-> FALSE] : u \in Sides(c)}
    PROVE  /\ participants' \subseteq Participant
           /\ participants \subseteq participants'
           /\ \A p \in participants : p.conversation # c.id
           /\ \A p \in participants' \ participants :
                p.conversation = c.id /\ p.user \in Sides(c) /\ ~p.left
           /\ \A u \in Sides(c) : \E p \in participants' :
                p.conversation = c.id /\ p.user = u /\ ~p.left
<1>. DEFINE seats == {[conversation |-> c.id, user |-> u, left |-> FALSE] : u \in Sides(c)}
<1>1. Sides(c) \subseteq Users BY DEF Sides, Pair
<1>2. c.id \in ConversationIds BY DEF Conversation
<1>. DEFINE Seat(u) == [conversation |-> c.id, user |-> u, left |-> FALSE]
<1>3. \A u \in Sides(c) : /\ Seat(u) \in Participant /\ Seat(u).conversation = c.id
                          /\ Seat(u).user = u /\ ~Seat(u).left
    BY <1>1, <1>2 DEF Participant
<1>4. seats = {Seat(u) : u \in Sides(c)} OBVIOUS
<1>. HIDE DEF seats
<1>5. participants' = participants \cup seats BY DEF seats
<1>. HIDE DEF Seat
<1>6. /\ \A p \in seats : /\ p \in Participant /\ p.conversation = c.id
                           /\ p.user \in Sides(c) /\ ~p.left
      /\ \A u \in Sides(c) : \E p \in seats : p.conversation = c.id /\ p.user = u /\ ~p.left
    BY <1>3, <1>4
<1>7. \A p \in participants : p.conversation # c.id
    BY DEF CInv, Seats, Held, Clash
<1>. QED BY <1>5, <1>6, <1>7 DEF CInv, TypeOK

LEMMA CommitsCreate ==
    ASSUME CInv, NEW r \in Requests, CommitCreate(r)
    PROVE  CInv'
<1>1. PICK c \in Conversation :
             /\ requests[r] # NoRequest /\ requests[r].new = {c}
             /\ c.pair = PairOf(r) /\ c.pair \in Pair /\ c.pair[1] < c.pair[2]
             /\ \A d \in conversations : ~Clash(c, d)
             /\ conversations' = conversations \cup {c}
             /\ participants' = participants \cup
                    {[conversation |-> c.id, user |-> u, left |-> FALSE] : u \in Sides(c)}
             /\ created' = [created EXCEPT ![c.pair] = @ + 1]
             /\ requests' = [requests EXCEPT ![r] = NoRequest]
    BY Commits
<1>2. /\ participants' \subseteq Participant
      /\ participants \subseteq participants'
      /\ \A p \in participants : p.conversation # c.id
      /\ \A p \in participants' \ participants :
            p.conversation = c.id /\ p.user \in Sides(c) /\ ~p.left
      /\ \A u \in Sides(c) : \E p \in participants' :
            p.conversation = c.id /\ p.user = u /\ ~p.left
    BY <1>1, NewSeats
<1>3. \A p \in Pair : created'[p] = IF p = c.pair THEN created[p] + 1 ELSE created[p]
    BY <1>1 DEF CInv, TypeOK
<1>4. created' \in [Pair -> Nat] BY <1>1 DEF CInv, TypeOK
<1>5. TypeOK' BY <1>1, <1>2, <1>4 DEF CInv, TypeOK
<1>6. TablesUnique' BY <1>1 DEF CInv, TablesUnique, Clash
<1>7. Seats'
    <2>1. \A p \in participants' : \E d \in conversations' : Held(p, d) /\ p.user \in Sides(d)
        BY <1>1, <1>2 DEF CInv, Seats, Held
    <2>2. \A d \in conversations' : \A u \in Sides(d) :
            \E p \in participants' : Held(p, d) /\ p.user = u
        BY <1>1, <1>2 DEF CInv, Seats, Held
    <2>3. \A p, q \in participants' : SameSeat(p, q) => p = q
        BY <1>2 DEF CInv, Seats, SameSeat, Participant
    <2>. QED BY <2>1, <2>2, <2>3 DEF Seats
<1>8. Counted'
    <2>1. \A p \in Pair : (\E d \in conversations' : d.pair = p) <=>
                           p = c.pair \/ \E d \in conversations : d.pair = p
        BY <1>1
    <2>2. ~\E d \in conversations : d.pair = c.pair BY <1>1 DEF Clash
    <2>. QED BY <1>1, <1>3, <2>1, <2>2 DEF CInv, Counted
<1>9. \A q \in Requests : requests'[q] = IF q = r THEN NoRequest ELSE requests[q]
    BY <1>1 DEF CInv, TypeOK
<1>10. ASSUME NEW q \in Requests, requests'[q] # NoRequest
       PROVE  (Sound(requests[q]) /\ Witnessed(requests[q]))'
    <2>1. q # r /\ requests'[q] = requests[q] /\ requests[q] # NoRequest BY <1>9, <1>10
    <2>2. Sound(requests[q]) /\ Witnessed(requests[q]) BY <2>1 DEF CInv, Sessions
    <2>3. \A d \in requests[q].new : \A e \in conversations' : ~Clash(d, e)
        BY <1>1, <2>1, <2>2 DEF CInv, Locks, Sound, Clash
    <2>4. Sound(requests[q])' BY <1>1, <2>1, <2>2, <2>3 DEF Sound
    <2>5. Witnessed(requests[q])' BY <1>2, <2>1, <2>2 DEF Witnessed
    <2>. QED BY <2>4, <2>5
<1>11. Sessions' BY <1>10 DEF Sessions
<1>12. Locks' BY <1>9 DEF CInv, Locks
<1>. QED BY <1>5, <1>6, <1>7, <1>8, <1>11, <1>12 DEF CInv

\* Rows whose left_at is set, or cleared, and that keep their places: those in hit.
Follows(q, p, hit, b) == SameSeat(q, p) /\ q.left = IF p \in hit THEN b ELSE p.left
Mark(p, hit, b) == IF p \in hit THEN [p EXCEPT !.left = b] ELSE p

LEMMA Marked ==
    ASSUME CInv, NEW hit, NEW b \in BOOLEAN,
           participants' = {Mark(p, hit, b) : p \in participants}
    PROVE  /\ participants' \subseteq Participant
           /\ \A p \in participants : \E q \in participants' : Follows(q, p, hit, b)
           /\ \A q \in participants' : \E p \in participants : Follows(q, p, hit, b)
<1>1. ASSUME NEW p \in Participant
      PROVE  Mark(p, hit, b) \in Participant /\ Follows(Mark(p, hit, b), p, hit, b)
    <2>1. CASE p \in hit BY <2>1 DEF Mark, Follows, Participant, SameSeat
    <2>2. CASE p \notin hit BY <2>2 DEF Mark, Follows, SameSeat
    <2>. QED BY <2>1, <2>2
<1>2. participants \subseteq Participant BY DEF CInv, TypeOK
<1>. QED BY <1>1, <1>2

LEMMA SeatsKept ==
    ASSUME CInv, NEW hit, NEW b \in BOOLEAN, conversations' = conversations,
           participants' = {Mark(p, hit, b) : p \in participants}
    PROVE  Seats'
<1>1. /\ participants' \subseteq Participant
      /\ \A p \in participants : \E q \in participants' : Follows(q, p, hit, b)
      /\ \A q \in participants' : \E p \in participants : Follows(q, p, hit, b)
    BY Marked
<1>2. \A p \in participants' : \E c \in conversations' : Held(p, c) /\ p.user \in Sides(c)
    <2>1. TAKE p \in participants'
    <2>2. PICK s \in participants : Follows(p, s, hit, b) BY <1>1
    <2>3. PICK c \in conversations : Held(s, c) /\ s.user \in Sides(c) BY DEF CInv, Seats
    <2>. QED BY <2>2, <2>3 DEF Held, SameSeat, Follows
<1>3. \A c \in conversations' : \A u \in Sides(c) :
        \E p \in participants' : Held(p, c) /\ p.user = u
    BY <1>1 DEF CInv, Seats, Held, SameSeat, Follows
<1>4. ASSUME NEW p \in participants', NEW q \in participants', SameSeat(p, q) PROVE p = q
    <2>1. PICK s \in participants : Follows(p, s, hit, b) BY <1>1
    <2>2. PICK t \in participants : Follows(q, t, hit, b) BY <1>1
    <2>3. s = t BY <1>4, <2>1, <2>2 DEF CInv, Seats, SameSeat, Follows
    <2>4. p.left = q.left BY <2>1, <2>2, <2>3 DEF Follows
    <2>. QED BY <1>1, <1>4, <2>4 DEF SameSeat, Participant
<1>. QED BY <1>2, <1>3, <1>4 DEF Seats

\* The rows that a reopening writes: those it has seen to have left.
Returning(r) ==
    {p \in participants : \E q \in requests[r].rows :
        q.left /\ q.conversation = p.conversation /\ q.user = p.user}

LEMMA ReopenMarks ==
    ASSUME NEW r, Reopen(r)
    PROVE  participants' = {Mark(p, Returning(r), FALSE) : p \in participants}
BY DEF Reopen, Returning, Mark

LEMMA Reopens ==
    ASSUME CInv, NEW r \in Requests, Reopen(r)
    PROVE  CInv'
<1>1. /\ participants' \subseteq Participant
      /\ \A q \in participants' : \E p \in participants : Follows(q, p, Returning(r), FALSE)
      /\ Seats'
    <2>1. conversations' = conversations BY DEF Reopen
    <2>2. PICK hit : hit = Returning(r) OBVIOUS
    <2>3. participants' = {Mark(p, hit, FALSE) : p \in participants} BY <2>2, ReopenMarks
    <2>4. /\ participants' \subseteq Participant
          /\ \A q \in participants' : \E p \in participants : Follows(q, p, hit, FALSE)
        BY <2>3, Marked
    <2>5. Seats' BY <2>1, <2>3, SeatsKept
    <2>. QED BY <2>2, <2>4, <2>5
<1>2. UNCHANGED <<conversations, created>> /\ requests' = [requests EXCEPT ![r] = NoRequest]
    BY DEF Reopen, End
<1>3. \A q \in Requests : requests'[q] = IF q = r THEN NoRequest ELSE requests[q]
    BY <1>2 DEF CInv, TypeOK
<1>4. TypeOK' BY <1>1, <1>2 DEF CInv, TypeOK
<1>5. TablesUnique' /\ Counted' BY <1>2 DEF CInv, TablesUnique, Counted
<1>6. ASSUME NEW q \in Requests, requests'[q] # NoRequest
      PROVE  (Sound(requests[q]) /\ Witnessed(requests[q]))'
    <2>1. requests'[q] = requests[q] /\ Sound(requests[q]) /\ Witnessed(requests[q])
        BY <1>3, <1>6 DEF CInv, Sessions
    <2>2. Sound(requests[q])' BY <1>2, <2>1 DEF Sound
    <2>3. Witnessed(requests[q])'
        <3>. SUFFICES ASSUME requests[q].pc = "reopen", NEW p \in participants', p.left,
                             NEW s \in requests[q].rows, s.conversation = p.conversation
                      PROVE  \/ p.user \in requests[q].leavers
                             \/ \E t \in requests[q].rows : t.left /\ SameSeat(t, p)
            BY <2>1 DEF Witnessed
        <3>1. PICK old \in participants : Follows(p, old, Returning(r), FALSE) BY <1>1
        <3>2. old.left /\ s.conversation = old.conversation BY <3>1 DEF Follows, SameSeat
        <3>3. \/ old.user \in requests[q].leavers
              \/ \E t \in requests[q].rows : t.left /\ SameSeat(t, old)
            BY <2>1, <3>2 DEF Witnessed
        <3>. QED BY <3>1, <3>3 DEF Follows, SameSeat
    <2>. QED BY <2>2, <2>3
<1>7. Sessions' BY <1>6 DEF Sessions
<1>8. Locks' BY <1>3 DEF CInv, Locks
<1>. QED BY <1>1, <1>4, <1>5, <1>7, <1>8 DEF CInv

\* The row that a departure writes.
Departing(r) ==
    {p \in participants : \E q \in requests[r].rows :
        q.conversation = p.conversation /\ q.user = p.user}

LEMMA LeaveMarks ==
    ASSUME NEW r, Leave(r)
    PROVE  participants' = {Mark(p, Departing(r), TRUE) : p \in participants}
BY DEF Leave, Departing, Mark

\* Leaving adds the user to the leavers that every other request knows of.
LEMMA LeaversFacts ==
    ASSUME CInv, NEW r \in Requests, Leave(r), NEW q \in Requests \ {r}, requests[q] # NoRequest
    PROVE  /\ requests'[q] \in Request /\ requests'[q] # NoRequest
           /\ requests'[q].leavers = requests[q].leavers \cup {requests[r].user}
           /\ requests'[q].pc = requests[q].pc /\ requests'[q].user = requests[q].user
           /\ requests'[q].target = requests[q].target
           /\ requests'[q].rows = requests[q].rows /\ requests'[q].new = requests[q].new
<1>1. requests[r] \in Request /\ requests[q] \in Request
    BY ActiveRequest DEF CInv, TypeOK, Leave, At
<1>2. requests'[q] = [requests[q] EXCEPT !.leavers = @ \cup {requests[r].user}]
    BY DEF Leave, Busy
<1>. QED BY <1>1, <1>2 DEF Request, NoRequest

LEMMA Leaves ==
    ASSUME CInv, NEW r \in Requests, Leave(r)
    PROVE  CInv'
<1>1. /\ participants' \subseteq Participant
      /\ \A q \in participants' : \E p \in participants : Follows(q, p, Departing(r), TRUE)
      /\ Seats'
    <2>1. conversations' = conversations BY DEF Leave
    <2>2. PICK hit : hit = Departing(r) OBVIOUS
    <2>3. participants' = {Mark(p, hit, TRUE) : p \in participants} BY <2>2, LeaveMarks
    <2>4. /\ participants' \subseteq Participant
          /\ \A q \in participants' : \E p \in participants : Follows(q, p, hit, TRUE)
        BY <2>3, Marked
    <2>5. Seats' BY <2>1, <2>3, SeatsKept
    <2>. QED BY <2>2, <2>4, <2>5
<1>2. UNCHANGED <<conversations, created>> BY DEF Leave
<1>3. \A q \in Requests : q = r \/ requests[q] = NoRequest => requests'[q] = NoRequest
    BY DEF Leave, Busy
<1>4. requests' \in [Requests -> Request \cup {NoRequest}]
    <2>1. \A q \in Requests : requests'[q] \in Request \cup {NoRequest} BY <1>3, LeaversFacts
    <2>2. requests' = [q \in Requests |->
                        IF q = r \/ q \notin Busy THEN NoRequest
                        ELSE [requests[q] EXCEPT !.leavers = @ \cup {requests[r].user}]]
        BY DEF Leave
    <2>. QED BY <2>1, <2>2
<1>5. TypeOK' BY <1>1, <1>2, <1>4 DEF CInv, TypeOK
<1>6. TablesUnique' /\ Counted' BY <1>2 DEF CInv, TablesUnique, Counted
<1>7. \A p \in Departing(r) : p.user = requests[r].user
    BY DEF CInv, Sessions, Sound, Leave, At, NoRequest, Departing
<1>8. ASSUME NEW q \in Requests, requests'[q] # NoRequest
      PROVE  (Sound(requests[q]) /\ Witnessed(requests[q]))'
    <2>1. q # r /\ requests[q] # NoRequest /\ Sound(requests[q]) /\ Witnessed(requests[q])
        BY <1>3, <1>8 DEF CInv, Sessions
    <2>2. /\ requests'[q].leavers = requests[q].leavers \cup {requests[r].user}
          /\ requests'[q].pc = requests[q].pc /\ requests'[q].user = requests[q].user
          /\ requests'[q].target = requests[q].target
          /\ requests'[q].rows = requests[q].rows /\ requests'[q].new = requests[q].new
        BY <2>1, LeaversFacts
    <2>3. Sound(requests[q])' BY <1>2, <2>1, <2>2 DEF Sound, QPair
    <2>4. Witnessed(requests[q])'
        <3>. SUFFICES ASSUME requests[q].pc = "reopen", NEW p \in participants', p.left,
                             NEW s \in requests[q].rows, s.conversation = p.conversation
                      PROVE  \/ p.user \in requests[q].leavers \cup {requests[r].user}
                             \/ \E t \in requests[q].rows : t.left /\ SameSeat(t, p)
            BY <2>2 DEF Witnessed
        <3>1. PICK old \in participants : Follows(p, old, Departing(r), TRUE) BY <1>1
        <3>2. CASE old \in Departing(r) BY <1>7, <3>1, <3>2 DEF Follows, SameSeat
        <3>3. CASE old \notin Departing(r)
            <4>1. old.left /\ s.conversation = old.conversation
                BY <3>1, <3>3 DEF Follows, SameSeat
            <4>2. \/ old.user \in requests[q].leavers
                  \/ \E t \in requests[q].rows : t.left /\ SameSeat(t, old)
                BY <2>1, <4>1 DEF Witnessed
            <4>. QED BY <3>1, <4>2 DEF Follows, SameSeat
        <3>. QED BY <3>2, <3>3
    <2>. QED BY <2>3, <2>4
<1>9. Sessions' BY <1>8 DEF Sessions
<1>10. Locks' BY <1>3, LeaversFacts DEF CInv, Locks
<1>. QED BY <1>1, <1>5, <1>6, <1>9, <1>10 DEF CInv

LEMMA NextCInv == CInv /\ [Next]_vars => CInv'
<1>. SUFFICES ASSUME CInv, [Next]_vars PROVE CInv' OBVIOUS
<1>1. ASSUME NEW r \in Requests, NEW u \in Users, NEW v \in Users, BeginCreate(r, u, v)
      PROVE  CInv'
    BY <1>1, BeginsCreate
<1>2. ASSUME NEW r \in Requests, NEW p \in participants, BeginLeave(r, p) PROVE CInv'
    BY <1>2, BeginsLeave
<1>3. ASSUME NEW r \in Requests, RequestStep(r) PROVE CInv'
    BY <1>3, LooksUp, Reopens, Flushes, CommitsCreate, Leaves DEF RequestStep
<1>4. ASSUME NEW r \in Requests, Fail(r) PROVE CInv'
    BY <1>4, Ends DEF Fail
<1>5. CASE UNCHANGED vars
    BY <1>5 DEF vars, CInv, TypeOK, TablesUnique, Seats, Counted, Sessions, Sound, Witnessed, Locks
<1>. QED BY <1>1, <1>2, <1>3, <1>4, <1>5 DEF Next

\* The inductive invariant of Conversations.
THEOREM InvariantHolds == Spec => []CInv
BY InitCInv, NextCInv, PTL DEF Spec

\* The tables, the count of answers and the requests keep their types.
THEOREM TypeCorrect == Spec => []TypeOK
<1>1. CInv => TypeOK BY DEF CInv
<1>. QED BY <1>1, InvariantHolds, PTL

LEMMA ReopenStep ==
    ASSUME CInv, NEW r \in Requests, Reopen(r),
           NEW p \in participants', NEW s \in requests[r].rows,
           s.conversation = p.conversation, p.left
    PROVE  p.user \in requests[r].leavers
<1>1. PICK old \in participants : Follows(p, old, Returning(r), FALSE)
    <2>1. PICK hit : hit = Returning(r) OBVIOUS
    <2>2. participants' = {Mark(q, hit, FALSE) : q \in participants} BY <2>1, ReopenMarks
    <2>3. \A q \in participants' : \E t \in participants : Follows(q, t, hit, FALSE)
        BY <2>2, Marked
    <2>. QED BY <2>1, <2>3
<1>2. old.left /\ old \notin Returning(r) /\ s.conversation = old.conversation
    BY <1>1 DEF SameSeat, Follows
<1>3. Witnessed(requests[r]) /\ requests[r].pc = "reopen"
    BY DEF CInv, Sessions, Reopen, At, NoRequest
<1>4. old.user \in requests[r].leavers BY <1>2, <1>3 DEF Witnessed, Returning, SameSeat
<1>. QED BY <1>1, <1>4 DEF SameSeat, Follows

\* After create_or_reopen has reopened a conversation both take part in it, but for
\* who has left since it looked: its session skips the rows it saw as active, and
\* it saw every row of the conversation.
THEOREM ReopeningWorks == Spec => ReopenIsEffective
<1>1. CInv /\ [Next]_vars =>
        [\A r \in Requests : Reopen(r) =>
            \A p \in participants' :
                (\E q \in requests[r].rows : q.conversation = p.conversation) /\ p.left
                    => p.user \in requests[r].leavers]_vars
    BY ReopenStep
<1>. QED BY <1>1, InvariantHolds, PTL DEF Spec, ReopenIsEffective

-----------------------------------------------------------------------------
(***************************************************************************)
(* Conversations implements Pairing: a commit of create_or_reopen starts    *)
(* one couple's conversation or lets its users return, a commit of leave    *)
(* lets one of them depart or changes nothing, and no other step of a       *)
(* request is seen.                                                         *)
(***************************************************************************)

LEMMA CouplesAgree == Promise!Couples = Couples
BY DEF Promise!Couples, Couples

\* The couple of a pair, and the pair of a couple.
LEMMA CoupleOfPair ==
    ASSUME NEW p \in Pair, p[1] < p[2]
    PROVE  {p[1], p[2]} \in Couples /\ PairOfCouple({p[1], p[2]}) = p
<1>1. p[1] \in Users /\ p[2] \in Users /\ p[1] # p[2]
    <2>1. p[1] \in Users /\ p[2] \in Users BY DEF Pair
    <2>2. p[1] \in Nat /\ p[2] \in Nat BY <2>1, ConversationsAssumption
    <2>. QED BY <2>1, <2>2
<1>2. {p[1], p[2]} \in Couples BY <1>1 DEF Couples
<1>. DEFINE Is(q) == q[1] < q[2] /\ {q[1], q[2]} = {p[1], p[2]}
<1>3. Is(p) OBVIOUS
<1>4. \A q \in Pair : Is(q) => q = p BY SamePair
<1>5. (CHOOSE q \in Pair : Is(q)) = p
    <2>. HIDE DEF Is
    <2>. QED BY <1>3, <1>4
<1>. QED BY <1>2, <1>5 DEF PairOfCouple

LEMMA PairOfCoupleType ==
    ASSUME NEW k \in Couples
    PROVE  /\ PairOfCouple(k) \in Pair /\ PairOfCouple(k)[1] < PairOfCouple(k)[2]
           /\ k = {PairOfCouple(k)[1], PairOfCouple(k)[2]}
<1>1. PICK u \in Users, v \in Users : u # v /\ k = {u, v} BY DEF Couples
<1>2. PICK p \in Pair : p = _canonical_pair(u, v) BY <1>1, CanonicalPair
<1>3. p[1] < p[2] /\ {p[1], p[2]} = k BY <1>1, <1>2, CanonicalPair
<1>. QED BY <1>3, CoupleOfPair

\* The one conversation of a couple that has one.
LEMMA TheirConversation ==
    ASSUME CInv, NEW c \in conversations
    PROVE  Sides(c) \in Couples /\ Between(Sides(c)) = {c}
<1>1. c.pair \in Pair /\ c.pair[1] < c.pair[2]
    BY DEF CInv, TypeOK, Conversation, TablesUnique
<1>2. Sides(c) \in Couples BY <1>1, CoupleOfPair DEF Sides
<1>3. ASSUME NEW d \in conversations, {d.pair[1], d.pair[2]} = Sides(c) PROVE d = c
    <2>1. d.pair \in Pair /\ d.pair[1] < d.pair[2]
        BY DEF CInv, TypeOK, Conversation, TablesUnique
    <2>2. d.pair = c.pair BY <1>1, <1>3, <2>1, SamePair DEF Sides
    <2>. QED BY <2>2 DEF CInv, TablesUnique, Clash
<1>. QED BY <1>2, <1>3 DEF Between, Sides

\* A user stands in a conversation as his row says.
LEMMA StandingOfRow ==
    ASSUME CInv, NEW c \in conversations, NEW b \in BOOLEAN
    PROVE  Standing(Sides(c), b) =
                {p.user : p \in {q \in participants : q.left = b /\ Held(q, c)}}
<1>1. Between(Sides(c)) = {c} BY TheirConversation
<1>. QED BY <1>1 DEF Standing, Held

-----------------------------------------------------------------------------
(* Creating *)

LEMMA CreateImplements ==
    ASSUME CInv, NEW r \in Requests, CommitCreate(r)
    PROVE  Promise!Next
<1>1. PICK c \in Conversation :
             /\ requests[r] # NoRequest /\ requests[r].new = {c}
             /\ c.pair = PairOf(r) /\ c.pair \in Pair /\ c.pair[1] < c.pair[2]
             /\ \A d \in conversations : ~Clash(c, d)
             /\ conversations' = conversations \cup {c}
             /\ participants' = participants \cup
                    {[conversation |-> c.id, user |-> u, left |-> FALSE] : u \in Sides(c)}
             /\ created' = [created EXCEPT ![c.pair] = @ + 1]
             /\ requests' = [requests EXCEPT ![r] = NoRequest]
    BY Commits
<1>2. /\ participants \subseteq participants'
      /\ \A p \in participants : p.conversation # c.id
      /\ \A p \in participants' \ participants :
            p.conversation = c.id /\ p.user \in Sides(c) /\ ~p.left
      /\ \A u \in Sides(c) : \E p \in participants' :
            p.conversation = c.id /\ p.user = u /\ ~p.left
    BY <1>1, NewSeats
<1>3. PICK k : k = Sides(c) OBVIOUS
<1>4. k \in Couples /\ PairOfCouple(k) = c.pair BY <1>1, <1>3, CoupleOfPair DEF Sides
<1>5. Between(k) = {}
    <2>1. ASSUME NEW d \in conversations, {d.pair[1], d.pair[2]} = k PROVE FALSE
        <3>1. d.pair \in Pair /\ d.pair[1] < d.pair[2]
            BY DEF CInv, TypeOK, Conversation, TablesUnique
        <3>2. d.pair = c.pair BY <1>1, <1>3, <2>1, <3>1, SamePair DEF Sides
        <3>. QED BY <1>1, <3>2 DEF Clash
    <2>. QED BY <2>1 DEF Between
<1>6. Between(k)' = {c} BY <1>1, <1>3, <1>5 DEF Between, Sides
<1>7. ASSUME NEW l \in Couples, l # k PROVE Between(l)' = Between(l)
    BY <1>1, <1>3, <1>7 DEF Between, Sides
<1>8. Opened[k] = 0 /\ Opened' = [Opened EXCEPT ![k] = 1]
    <2>1. Cardinality({}) = 0 /\ Cardinality({c}) = 1 BY FS_EmptySet, FS_Singleton
    <2>2. \A l \in Couples :
            Cardinality(Between(l))' = IF l = k THEN 1 ELSE Cardinality(Between(l))
        BY <1>6, <1>7, <2>1
    <2>. QED BY <1>4, <1>5, <2>1, <2>2 DEF Opened
<1>9. Announced' = [Announced EXCEPT ![k] = 1]
    <2>1. created[c.pair] = 0 BY <1>1 DEF CInv, Counted, Clash
    <2>2. ASSUME NEW l \in Couples
          PROVE  created'[PairOfCouple(l)] = IF l = k THEN 1 ELSE created[PairOfCouple(l)]
        <3>1. PairOfCouple(l) \in Pair /\ (PairOfCouple(l) = c.pair <=> l = k)
            BY <1>3, <1>4, PairOfCoupleType DEF Sides
        <3>. QED BY <1>1, <2>1, <3>1 DEF CInv, TypeOK
    <2>. QED BY <1>4, <2>2 DEF Announced
<1>10. ASSUME NEW l \in Couples, l # k, NEW b \in BOOLEAN PROVE Standing(l, b)' = Standing(l, b)
    <2>1. \A d \in Between(l) : d.id # c.id BY <1>1 DEF Between, Clash
    <2>2. Between(l)' = Between(l) BY <1>7, <1>10
    <2>3. \A p \in participants' \ participants : ~\E d \in Between(l) : d.id = p.conversation
        BY <1>2, <2>1
    <2>4. {q \in participants' : q.left = b /\ \E d \in Between(l) : d.id = q.conversation}
          = {q \in participants : q.left = b /\ \E d \in Between(l) : d.id = q.conversation}
        BY <1>2, <2>3
    <2>. QED BY <2>2, <2>4 DEF Standing
<1>11. \A p \in participants' : p.conversation = c.id => p.user \in Sides(c) /\ ~p.left
    BY <1>2
<1>12. Standing(k, FALSE)' = k
    BY <1>2, <1>3, <1>6, <1>11 DEF Standing
<1>13. Standing(k, TRUE) = {} /\ Standing(k, TRUE)' = {}
    BY <1>5, <1>6, <1>11 DEF Standing
<1>14. Present' = [Present EXCEPT ![k] = k] BY <1>4, <1>10, <1>12 DEF Present
<1>15. Gone' = Gone BY <1>4, <1>10, <1>13 DEF Gone
<1>16. Promise!Start(k) BY <1>8, <1>9, <1>14, <1>15 DEF Promise!Start
<1>. QED BY <1>4, <1>16, CouplesAgree DEF Promise!Next

-----------------------------------------------------------------------------
(* Returning and leaving *)

\* Users w pass from one side of a conversation to the other, o to b, and everybody
\* else stays.
Move(c, b, o, w) ==
    /\ w \subseteq Standing(Sides(c), o) /\ w \subseteq Sides(c)
    /\ Standing(Sides(c), b)' = Standing(Sides(c), b) \cup w
    /\ Standing(Sides(c), o)' = Standing(Sides(c), o) \ w
    /\ \A l \in Couples, d \in BOOLEAN : l # Sides(c) => Standing(l, d)' = Standing(l, d)
    /\ UNCHANGED <<Opened, Announced>>

\* Setting the left_at of rows of one conversation moves their users.
LEMMA Moved ==
    ASSUME CInv, NEW c \in conversations, NEW hit, NEW b \in BOOLEAN, NEW o \in BOOLEAN, o = ~b,
           UNCHANGED <<conversations, created>>,
           participants' = {Mark(p, hit, b) : p \in participants},
           \A p \in participants : p \in hit => Held(p, c)
    PROVE  \E w : /\ Move(c, b, o, w)
                  /\ \A u \in w : \E p \in participants : p \in hit /\ p.user = u
<1>. DEFINE k == Sides(c)
            w == {p.user : p \in {q \in participants : q \in hit /\ q.left = o}}
            S(d) == {p.user : p \in {q \in participants : q.left = d /\ Held(q, c)}}
<1>1. /\ participants' \subseteq Participant
      /\ \A p \in participants : \E q \in participants' : Follows(q, p, hit, b)
      /\ \A q \in participants' : \E p \in participants : Follows(q, p, hit, b)
    BY Marked
<1>2. participants \subseteq Participant BY DEF CInv, TypeOK
<1>3. Between(k) = {c} /\ Between(k)' = {c} BY TheirConversation DEF Between
<1>4. \A d \in BOOLEAN : Standing(k, d) = S(d) BY StandingOfRow
<1>5. \A d \in BOOLEAN :
        Standing(k, d)' = {p.user : p \in {q \in participants' : q.left = d /\ Held(q, c)}}
    BY <1>3 DEF Standing, Held
<1>6. w \subseteq S(o) OBVIOUS
<1>7. w \subseteq k
    BY DEF CInv, Seats, Held, TablesUnique, Clash
<1>8. {p.user : p \in {q \in participants' : q.left = b /\ Held(q, c)}} = S(b) \cup w
    <2>1. ASSUME NEW q \in participants', q.left = b, Held(q, c) PROVE q.user \in S(b) \cup w
        <3>1. PICK p \in participants : Follows(q, p, hit, b) BY <1>1
        <3>2. p.left \in BOOLEAN BY <1>2 DEF Participant
        <3>. QED BY <2>1, <3>1, <3>2 DEF Follows, SameSeat, Held
    <2>2. ASSUME NEW p \in participants, p.left = b \/ p \in hit, Held(p, c)
          PROVE  \E q \in participants' : q.left = b /\ Held(q, c) /\ q.user = p.user
        BY <1>1, <2>2 DEF Follows, SameSeat, Held
    <2>. QED BY <2>1, <2>2
<1>9. {p.user : p \in {q \in participants' : q.left = o /\ Held(q, c)}} = S(o) \ w
    <2>1. ASSUME NEW q \in participants', q.left = o, Held(q, c) PROVE q.user \in S(o) \ w
        <3>1. PICK p \in participants : Follows(q, p, hit, b) BY <1>1
        <3>2. p \notin hit /\ p.left = o /\ Held(p, c) /\ p.user = q.user
            BY <2>1, <3>1 DEF Follows, SameSeat, Held
        <3>3. \A s \in participants : s \in hit => s.user # p.user
            BY <3>2 DEF CInv, Seats, SameSeat, Held
        <3>. QED BY <3>2, <3>3
    <2>2. ASSUME NEW p \in participants, p.left = o, p \notin hit, Held(p, c)
          PROVE  \E q \in participants' : q.left = o /\ Held(q, c) /\ q.user = p.user
        BY <1>1, <2>2 DEF Follows, SameSeat, Held
    <2>. QED BY <2>1, <2>2
<1>10. ASSUME NEW l \in Couples, NEW d \in BOOLEAN, l # k
       PROVE  Standing(l, d)' = Standing(l, d)
    <2>1. Between(l)' = Between(l) BY DEF Between
    <2>2. \A e \in Between(l) : e.id # c.id
        BY <1>3, <1>10 DEF Between, CInv, TablesUnique, Clash, Sides
    <2>3. \A p \in participants, e \in Between(l) : e.id = p.conversation => p \notin hit
        BY <2>2 DEF Held
    <2>4. ASSUME NEW q \in participants', q.left = d, NEW e \in Between(l), e.id = q.conversation
          PROVE  \E p \in participants : p.left = d /\ e.id = p.conversation /\ p.user = q.user
        <3>1. PICK p \in participants : Follows(q, p, hit, b) BY <1>1
        <3>. QED BY <2>3, <2>4, <3>1 DEF Follows, SameSeat
    <2>5. ASSUME NEW p \in participants, p.left = d, NEW e \in Between(l), e.id = p.conversation
          PROVE  \E q \in participants' : q.left = d /\ e.id = q.conversation /\ q.user = p.user
        <3>1. PICK q \in participants' : Follows(q, p, hit, b) BY <1>1
        <3>. QED BY <2>3, <2>5, <3>1 DEF Follows, SameSeat
    <2>. QED BY <2>1, <2>4, <2>5 DEF Standing
<1>11. UNCHANGED <<Opened, Announced>> BY DEF Opened, Announced, Between
<1>12. Standing(k, b)' = Standing(k, b) \cup w /\ Standing(k, o)' = Standing(k, o) \ w
    BY <1>4, <1>5, <1>8, <1>9
<1>13. \A u \in w : \E p \in participants : p \in hit /\ p.user = u OBVIOUS
<1>14. Move(c, b, o, w) BY <1>4, <1>6, <1>7, <1>10, <1>11, <1>12 DEF Move
<1>. QED BY <1>13, <1>14

LEMMA ReopenImplements ==
    ASSUME CInv, NEW r \in Requests, Reopen(r)
    PROVE  Promise!Next
<1>1. Sound(requests[r]) /\ requests[r].pc = "reopen"
    BY DEF CInv, Sessions, Reopen, At, NoRequest
<1>2. PICK c \in conversations : \A p \in requests[r].rows : Held(p, c) BY <1>1 DEF Sound
<1>3. PICK hit : hit = Returning(r) OBVIOUS
<1>4. \A p \in participants : p \in hit => Held(p, c) BY <1>2, <1>3 DEF Returning, Held
<1>5. participants' = {Mark(p, hit, FALSE) : p \in participants} BY <1>3, ReopenMarks
<1>6. UNCHANGED <<conversations, created>> BY DEF Reopen
<1>7. PICK w : Move(c, FALSE, TRUE, w)
    <2>1. TRUE = ~FALSE OBVIOUS
    <2>. QED BY <1>4, <1>5, <1>6, <2>1, Moved
<1>8. PICK k \in Couples : k = Sides(c) BY TheirConversation
<1>9. Present' = [Present EXCEPT ![k] = @ \cup w] BY <1>7, <1>8 DEF Present, Move
<1>10. Gone' = [Gone EXCEPT ![k] = @ \ w] BY <1>7, <1>8 DEF Gone, Move
<1>11. w \subseteq Gone[k] BY <1>7, <1>8 DEF Gone, Move
<1>12. Promise!Return(k, w) BY <1>7, <1>9, <1>10, <1>11 DEF Promise!Return, Move
<1>. QED BY <1>7, <1>8, <1>12, CouplesAgree DEF Promise!Next, Move

LEMMA LeaveImplements ==
    ASSUME CInv, NEW r \in Requests, Leave(r)
    PROVE  Promise!Next \/ UNCHANGED Promise!pairing
<1>1. Sound(requests[r]) /\ requests[r].pc = "leave"
    BY DEF CInv, Sessions, Leave, At, NoRequest
<1>2. PICK s \in requests[r].rows, c \in conversations : requests[r].rows = {s} /\ Held(s, c)
    BY <1>1 DEF Sound
<1>3. PICK hit : hit = Departing(r) OBVIOUS
<1>4. \A p \in participants : p \in hit => Held(p, c) /\ p.user = s.user
    BY <1>2, <1>3 DEF Departing, Held
<1>5. participants' = {Mark(p, hit, TRUE) : p \in participants} BY <1>3, LeaveMarks
<1>6. UNCHANGED <<conversations, created>> BY DEF Leave
<1>7. PICK w : /\ Move(c, TRUE, FALSE, w)
               /\ \A u \in w : \E p \in participants : p \in hit /\ p.user = u
    <2>1. FALSE = ~TRUE OBVIOUS
    <2>2. \A p \in participants : p \in hit => Held(p, c) BY <1>4
    <2>. QED BY <1>5, <1>6, <2>1, <2>2, Moved
<1>8. PICK k \in Couples : k = Sides(c) BY TheirConversation
<1>9. Gone' = [Gone EXCEPT ![k] = @ \cup w] BY <1>7, <1>8 DEF Gone, Move
<1>10. Present' = [Present EXCEPT ![k] = @ \ w] BY <1>7, <1>8 DEF Present, Move
<1>11. w \subseteq {s.user} BY <1>4, <1>7
<1>12. CASE w = {}
    <2>1. Standing(k, TRUE)' = Standing(k, TRUE) /\ Standing(k, FALSE)' = Standing(k, FALSE)
        BY <1>7, <1>8, <1>12 DEF Move
    <2>2. \A l \in Couples, d \in BOOLEAN : Standing(l, d)' = Standing(l, d)
        BY <1>7, <1>8, <2>1 DEF Move
    <2>3. Gone' = Gone /\ Present' = Present BY <2>2 DEF Gone, Present
    <2>. QED BY <1>7, <2>3 DEF Promise!pairing, Move
<1>13. CASE w = {s.user}
    <2>1. s.user \in Present[k] /\ s.user \in k BY <1>7, <1>8, <1>13 DEF Present, Move
    <2>2. Promise!Depart(k, s.user) BY <1>7, <1>9, <1>10, <1>13, <2>1 DEF Promise!Depart, Move
    <2>. QED BY <1>8, <2>1, <2>2, CouplesAgree DEF Promise!Next
<1>. QED BY <1>11, <1>12, <1>13

-----------------------------------------------------------------------------
(* The refinement *)

LEMMA TablesAlone ==
    ASSUME UNCHANGED <<conversations, participants, created>>
    PROVE  UNCHANGED Promise!pairing
BY DEF Promise!pairing, Opened, Announced, Present, Gone, Between, Standing

LEMMA StepImplements ==
    ASSUME CInv, [Next]_vars
    PROVE  [Promise!Next]_(Promise!pairing)
<1>1. ASSUME NEW r \in Requests,
             \/ \E u, v \in Users : BeginCreate(r, u, v)
             \/ \E p \in participants : BeginLeave(r, p)
             \/ Lookup(r) \/ Flush(r) \/ Fail(r)
      PROVE  UNCHANGED Promise!pairing
    BY <1>1, TablesAlone DEF BeginCreate, BeginLeave, Lookup, Flush, Fail
<1>2. CASE UNCHANGED vars BY <1>2, TablesAlone DEF vars
<1>. QED BY <1>1, <1>2, CreateImplements, ReopenImplements, LeaveImplements
         DEF Next, RequestStep

\* Two users have one conversation, with both of them in it from the beginning, and
\* 201 is answered once for it, whatever look-ups, insertions and departures overlap.
THEOREM ConversationsRefinePairing == Spec => ImplementsPairing
<1>1. Init => Promise!Init
    <2>. SUFFICES ASSUME Init PROVE Promise!Init OBVIOUS
    <2>1. \A k \in Couples : Between(k) = {} /\ Standing(k, TRUE) = {} /\ Standing(k, FALSE) = {}
        BY DEF Init, Between, Standing
    <2>2. \A k \in Couples : created[PairOfCouple(k)] = 0 BY PairOfCoupleType DEF Init
    <2>3. Cardinality({}) = 0 BY FS_EmptySet
    <2>. QED BY <2>1, <2>2, <2>3, CouplesAgree
             DEF Promise!Init, Opened, Announced, Present, Gone
<1>2. CInv /\ [Next]_vars => [Promise!Next]_(Promise!pairing)
    BY StepImplements
<1>. QED BY <1>1, <1>2, InvariantHolds, PTL DEF Spec, ImplementsPairing, Promise!Spec
-----------------------------------------------------------------------------
(* What an insertion waits for *)

\* A waiting insertion waits for one transaction, which has nothing to do but to
\* commit, and whose key no committed row has.
WaitsForACommit ==
    \A r \in Busy : At(r, "flush") /\ PairLocked(r) =>
        \E p \in Busy \ {r} :
            /\ At(p, "commit") /\ PairOf(p) = PairOf(r) /\ ~PairTaken(PairOf(r))
            /\ \A q \in Busy \ {p} : \A c \in requests[q].new : c.pair # PairOf(r)

\* Requests that create the same conversation never wait for each other in a
\* circle: who holds the entry in the index of the UNIQUE constraint waits for
\* nobody, and nobody else holds one for that pair.
THEOREM InsertionsWaitForCommits == Spec => []WaitsForACommit
<1>1. CInv => WaitsForACommit
    <2>. SUFFICES ASSUME CInv, NEW r \in Busy, PairLocked(r)
                  PROVE  \E p \in Busy \ {r} :
                            /\ At(p, "commit") /\ PairOf(p) = PairOf(r) /\ ~PairTaken(PairOf(r))
                            /\ \A q \in Busy \ {p} : \A c \in requests[q].new : c.pair # PairOf(r)
        BY DEF WaitsForACommit
    <2>1. PICK p \in Busy \ {r} : \E c \in requests[p].new : c.pair = PairOf(r) BY DEF PairLocked
    <2>2. PICK c \in requests[p].new : c.pair = PairOf(r) BY <2>1
    <2>3. /\ requests[p].pc = "commit" /\ c.pair = PairOf(p)
          /\ \A d \in conversations : d.pair # c.pair
        BY <2>1, <2>2 DEF CInv, Sessions, Sound, Busy, QPair, PairOf, Clash
    <2>4. \A q \in Busy \ {p} : \A d \in requests[q].new : d.pair # c.pair
        BY <2>1, <2>2 DEF CInv, Locks, Busy, Clash
    <2>5. ~PairTaken(PairOf(r)) BY <2>2, <2>3 DEF PairTaken, get_direct_by_pair
    <2>. QED BY <2>1, <2>2, <2>3, <2>4, <2>5 DEF At
<1>. QED BY <1>1, InvariantHolds, PTL
=============================================================================
