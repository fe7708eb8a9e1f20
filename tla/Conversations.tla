---------------------------- MODULE Conversations ----------------------------
(***************************************************************************)
(* Direct conversations: the request that opens one looks for the pair's   *)
(* conversation and reopens it for both, or inserts it together with its   *)
(* two participants; a participant leaves by a timestamp in his row.  The  *)
(* requests of both users, from several devices, interleave.               *)
(***************************************************************************)
EXTENDS Naturals, FiniteSets

CONSTANTS
    Users,             \* numbers, in the order of the UUIDs' hexadecimal form
    Inactive,          \* users that are not active
    ConversationIds,
    Requests

ASSUME ConversationsAssumption ==
    /\ Users \subseteq Nat
    /\ Inactive \subseteq Users

VARIABLES
    conversations,   \* committed rows: id and the two columns of the pair
    participants,    \* committed rows: conversation, user, whether left_at is set
    created,         \* how often a conversation of a pair was committed that is to be
                     \* answered 201 (the answer itself may still be lost)
    requests

vars == <<conversations, participants, created, requests>>

Pair == Users \X Users
Conversation == [id: ConversationIds, pair: Pair]
Participant == [conversation: ConversationIds, user: Users, left: BOOLEAN]

NoRequest == [pc |-> "idle"]
Request ==
    [pc: {"lookup", "reopen", "flush", "commit", "leave"},
     user: Users, target: Users,
     rows: SUBSET Participant,          \* the participants it has loaded
     new: SUBSET Conversation,          \* what it has flushed: locked, not visible
     \* History, for the properties only: the users whose left_at was set since
     \* the rows were loaded.
     leavers: SUBSET Users]

TypeOK ==
    /\ conversations \subseteq Conversation
    /\ participants \subseteq Participant
    /\ created \in [Pair -> Nat]
    /\ requests \in [Requests -> Request \cup {NoRequest}]

Init ==
    /\ conversations = {} /\ participants = {}
    /\ created = [p \in Pair |-> 0]
    /\ requests = [r \in Requests |-> NoRequest]

_canonical_pair(first, second) == IF first < second THEN <<first, second>> ELSE <<second, first>>

PairOf(r) == _canonical_pair(requests[r].user, requests[r].target)
get_direct_by_pair(p) == {c \in conversations : c.pair = p}
Busy == {r \in Requests : requests[r] # NoRequest}

-----------------------------------------------------------------------------
(* Requests *)

At(r, pc) == requests[r].pc = pc
End(r) == requests' = [requests EXCEPT ![r] = NoRequest]
NewRequest(pc, u, v, rows) ==
    [pc |-> pc, user |-> u, target |-> v, rows |-> rows, new |-> {}, leavers |-> {}]

\* A user does not converse with himself, nor opens a conversation with an
\* inactive user.
BeginCreate(r, u, v) ==
    /\ requests[r] = NoRequest
    /\ u # v /\ u \notin Inactive /\ v \notin Inactive
    /\ requests' = [requests EXCEPT ![r] = NewRequest("lookup", u, v, {})]
    /\ UNCHANGED <<conversations, participants, created>>

\* Mutation: a conversation that is not found is answered 404.
Lookup_NotFound(r) ==
    LET found == get_direct_by_pair(PairOf(r)) IN
    /\ At(r, "lookup")
    /\ requests' = [requests EXCEPT ![r].pc = IF found = {} THEN "not_found" ELSE "reopen"]
    /\ UNCHANGED <<conversations, participants, created>>

\* get_direct_by_pair and, with it, the participants.
Lookup(r) ==
    LET found == get_direct_by_pair(PairOf(r))
        rows == {p \in participants : \E c \in found : c.id = p.conversation}
    IN /\ At(r, "lookup")
       /\ requests' = [requests EXCEPT ![r].pc = IF found = {} THEN "flush" ELSE "reopen",
                                       ![r].rows = rows,
                                       ![r].leavers = {}]
       /\ UNCHANGED <<conversations, participants, created>>

\* Mutation: only the one who asks takes part again.
Reopen_RequesterOnly(r) ==
    LET Back(p) == p.user = requests[r].user
                   /\ \E q \in requests[r].rows : q.conversation = p.conversation
    IN /\ At(r, "reopen")
       /\ participants' = {IF Back(p) THEN [p EXCEPT !.left = FALSE] ELSE p : p \in participants}
       /\ End(r)
       /\ UNCHANGED <<conversations, created>>

\* left_at becomes NULL for both; the session sends an UPDATE only for the rows
\* it has loaded with a value there.
Reopen(r) ==
    LET Back(p) == \E q \in requests[r].rows :
                        q.left /\ q.conversation = p.conversation /\ q.user = p.user
    IN /\ At(r, "reopen")
       /\ participants' = {IF Back(p) THEN [p EXCEPT !.left = FALSE] ELSE p : p \in participants}
       /\ End(r)
       /\ UNCHANGED <<conversations, created>>

\* Mutation: requests wait for every other request that is about to insert.
PairLocked_ByWaiters(r) ==
    \E p \in Busy \ {r} : requests[p].pc \in {"flush", "commit"} /\ PairOf(p) = PairOf(r)

\* Mutation: the table without its UNIQUE constraint.
PairTaken_NoConstraint(p) == FALSE

\* uq_conversations_participant_pair: the INSERT waits for a transaction that has
\* inserted the same pair, and fails when that one has committed.
PairLocked(r) == \E p \in Busy \ {r} : \E c \in requests[p].new : c.pair = PairOf(r)
PairTaken(p) == get_direct_by_pair(p) # {}

Flush(r) ==
    /\ At(r, "flush") /\ ~PairLocked(r)
    /\ IF PairTaken(PairOf(r))
       THEN End(r)
       ELSE \E id \in ConversationIds :
            /\ \A c \in conversations \cup UNION {requests[p].new : p \in Busy} : c.id # id
            /\ requests' = [requests EXCEPT ![r].pc = "commit",
                                            ![r].new = {[id |-> id, pair |-> PairOf(r)]}]
    /\ UNCHANGED <<conversations, participants, created>>

\* The two participants; 201 is what the request answers now, if nothing fails.
CommitCreate(r) ==
    LET pair == PairOf(r) IN
    /\ At(r, "commit")
    /\ conversations' = conversations \cup requests[r].new
    /\ participants' = participants \cup
            {[conversation |-> c.id, user |-> u, left |-> FALSE] :
                c \in requests[r].new, u \in {pair[1], pair[2]}}
    /\ created' = [created EXCEPT ![pair] = @ + 1]
    /\ End(r)

\* get_for_user: a participant that has not left.
BeginLeave(r, p) ==
    /\ requests[r] = NoRequest
    /\ p \in participants /\ ~p.left /\ p.user \notin Inactive
    /\ requests' = [requests EXCEPT ![r] = NewRequest("leave", p.user, p.user, {p})]
    /\ UNCHANGED <<conversations, participants, created>>

Leave(r) ==
    LET Mine(p) == \E q \in requests[r].rows :
                        q.conversation = p.conversation /\ q.user = p.user
    IN /\ At(r, "leave")
       /\ participants' = {IF Mine(p) THEN [p EXCEPT !.left = TRUE] ELSE p : p \in participants}
       /\ requests' = [q \in Requests |->
                        IF q = r \/ q \notin Busy THEN NoRequest
                        ELSE [requests[q] EXCEPT !.leavers = @ \cup {requests[r].user}]]
       /\ UNCHANGED <<conversations, created>>

\* A database error or the end of the process: nothing was committed, and what
\* was flushed is undone.
Fail(r) ==
    /\ r \in Busy
    /\ End(r)
    /\ UNCHANGED <<conversations, participants, created>>

RequestStep(r) == Lookup(r) \/ Reopen(r) \/ Flush(r) \/ CommitCreate(r) \/ Leave(r)

Next ==
    \/ \E r \in Requests :
        \/ \E u, v \in Users : BeginCreate(r, u, v)
        \/ \E p \in participants : BeginLeave(r, p)
        \/ RequestStep(r) \/ Fail(r)

Spec == Init /\ [][Next]_vars

\* A handler thread, and the transaction it waits for, comes to its end.
FairSpec == Spec /\ \A r \in Requests : WF_vars(RequestStep(r))

-----------------------------------------------------------------------------
(* Properties *)

\* The conversations of two users, whichever of them comes first in the pair, and
\* the users whose rows say that they take part (or have left).
Between(k) == {c \in conversations : {c.pair[1], c.pair[2]} = k}
Standing(k, left) ==
    {p.user : p \in {q \in participants :
        q.left = left /\ \E c \in Between(k) : c.id = q.conversation}}

Couples == {k \in SUBSET Users : \E u, v \in k : u # v /\ k = {u, v}}
PairOfCouple(k) == CHOOSE p \in Pair : p[1] < p[2] /\ {p[1], p[2]} = k

Opened == [k \in Couples |-> Cardinality(Between(k))]
Announced == [k \in Couples |-> created[PairOfCouple(k)]]
Present == [k \in Couples |-> Standing(k, FALSE)]
Gone == [k \in Couples |-> Standing(k, TRUE)]

Promise == INSTANCE Pairing WITH
    opened <- Opened, announced <- Announced, present <- Present, gone <- Gone

\* Whichever of the two opens it, and however the look-ups and insertions of
\* several requests interleave, two users get one conversation, at once with
\* both of them in it; 201 is answered for it once, and after that the two only
\* leave and return.
ImplementsPairing == Promise!Spec

\* After a conversation is reopened both take part in it, though the session
\* skips the rows that were active when it loaded them: whoever has left since
\* has done so after the look-up, as if he had left after the reopening.
ReopenIsEffective ==
    [][\A r \in Requests : Reopen(r) =>
        \A p \in participants' :
            (\E q \in requests[r].rows : q.conversation = p.conversation) /\ p.left
                => p.user \in requests[r].leavers]_vars

\* Two requests that insert the same pair do not wait for each other for ever:
\* unless transactions fail again and again, every insertion ends.
InsertionsEnd ==
    \/ []<><<\E r \in Requests : Fail(r)>>_vars
    \/ \A r \in Requests : At(r, "flush") ~> ~At(r, "flush")
=============================================================================
