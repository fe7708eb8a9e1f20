# Realynk: a verification of the chat backend

Realynk is a Flask / Socket.IO server for channels, direct conversations,
messages, receipts, reactions, attachments, notifications, presence and typing
indicators, over PostgreSQL and an object store. This directory holds TLA+ modules for
the parts of `src/app` whose correctness depends on *interleaving*: handler
threads that decide in one statement and write in another, locks that are
released before an event is emitted, timers, and two stores without a common
transaction. Every definition is translated from the source; `PROJECT.json`
names the lines it stands for.

```
tlc -workers 2 -config MCTyping.cfg MCTyping      # model-check one instance
tlapm ChannelsProofs.tla                          # check proofs
```

## 1. How the program runs

* **Handler threads.** HTTP requests and Socket.IO events are served by threads
  of one process (`SOCKETIO_ASYNC_MODE` is `threading`, `app/config.py:264`).
  Several handlers of one user, from several devices or the same socket, run at
  the same time. Nothing but the database and two `RLock`s coordinates them.
* **Sessions.** Each handler has a SQLAlchemy session on PostgreSQL at READ
  COMMITTED: every SELECT sees what is committed at that moment, so a request
  that reads three rows sees three moments. A session keeps the first version of a
  row it has loaded (identity map), writes at the commit only columns that
  changed against that version (dirty checking), addresses rows by primary key,
  and reloads after a commit, which expires what it has loaded (a `get` by primary key
  that finds an unexpired copy does not read). UNIQUE, FOREIGN KEY and CHECK constraints are
  the only things verified at the time of the write. An INSERT of a unique key
  waits for the transaction that has inserted the same key.
* **Events** are emitted after the commit, one `socketio.emit` per room or per
  socket, by the handler's thread, without any order between threads.
* **Process-local state.** `PresenceManager` and `TypingManager` are dictionaries
  under a lock each; they vanish when the process restarts.
* **Object store.** Attachments are stored and removed by calls that may
  fail, or succeed and lose their answer.

## 2. Inventory

| Component | State | Operations | What is hard | Correct means |
|---|---|---|---|---|
| Typing indicator (`presence/typing_manager.py`, `sockets/typing.py`, `sockets/presence.py`) | `_states`: sources and a Timer per (user, context) | start, stop, cleanup_socket, _expire; events outside the lock | Timer threads race renewals, stops and disconnects | every state has its end; begins and ends are announced alternately |
| Channels, memberships (`channel_service`, `membership_service`) | tables `channels`, `channel_memberships` | create, update, delete, join, leave, add, remove, change role | decisions on rows read earlier | one owner; only the owner does what is the owner's; unique memberships, no orphans |
| Messages (`message_service`) | table `messages`, room events | create, edit, delete, notify, broadcast | two transactions and an event; channel deleted in between | nothing shown that is not stored; stored is shown; truthful answers |
| Notifications (`notification_service`, preferences) | `notifications`, `notification_preferences`; counts sent | create for many, read, read all, delete, preferences | count read and sent in two steps; devices overlap | events follow the table; the badge is right |
| Attachments (`attachment_service`, `storage`) | table `attachments`, bucket | upload, delete | no transaction spans the stores; check-then-insert | visible means downloadable; leaks only by failures |
| Presence (`presence/manager.py`, `sockets/connection.py`) | `_connections`, `_socket_users`; column `last_seen_at` | register, unregister, broadcast | handlers overlap; disconnect before connect; observers come and go; restart | last news is right |
| Direct conversations (`conversation_service`) | `conversations`, `conversation_participants` | open or reopen, leave | both open at once; lock waits; dirty checking | one conversation for two; reopening is effective |
| Read receipts (`read_service`) | `message_reads` | mark one, mark many | autoflush in the middle of a batch; deadlock | answered means read; announced once |
| Reactions (`reaction_service`) | `message_reactions` | add, remove | look-up and insert apart; re-reading after the commit | the room knows |
| Rooms (`sockets/channels.py`, `sockets/conversations.py`) | Socket.IO rooms | join, leave | membership changes do not touch rooms; events of one socket overlap | who listens may, or was expelled while listening |
| Message history (`message_repository.list_history`, `GET /messages`) | none; cursors and page numbers of clients | list | `created_at` is the transaction's start, so messages commit behind cursors | room and pages together miss nothing |
| Rate limiter, abuse detection (`security/`) | buckets | check | read-modify-write; window boundary | not modelled: no route uses them |
| Moderation (`moderation_service`) | `moderation_actions` | warn, mute, suspend… | authorisation against roles read earlier | not modelled: no route calls it |
| Users and authentication (`user_service`, `auth_service`) | table `users`, stateless tokens | register, log in, change password or profile | two devices change one row | planned |
| Observability, configuration, middleware, migrations | counters, settings | | no effect on the rest | not modelled |

How they interact: messages, reactions and attachments ask memberships or
participations for access and then write; messages and reactions create
notifications in a further transaction; a message's foreign key keeps its
channel from being deleted; typing and presence share the disconnect handler
(typing is cleaned up first). In each module the other components appear as
actions of the environment with the guards that their own module has:
`PostMessage` in `Channels`; `ChangeMember`, `CreateContext`, `DeleteContext` in
`Messages` and `Timeline`; `ChangeAccess` in `Typing`; `ChangeMember` in
`Attachments`; `ChangeSharing` in `Presence`; sending, reduced to commit and broadcast, in `Timeline`.

## 3. The modules

Each component has a module with its state as VARIABLES and one action per
statement that another thread can come between; an `MC` module that
fixes the constants that are not plain sets of model values; one or two
configurations; for two of them, an abstract specification that it implements; and
a module of proofs (`Typing` and `Notifications` share `SignalsProofs`, which is why
names that both would have are longer in `Notifications`: `NotificationsSpec`,
`NotificationsTypeOK`, `Recipients`). A request is
a record with a `pc`, what it was asked for, and what its session has loaded;
an idle request is `NoRequest`. The steps of a request are exactly the points
where its thread gives up control: a SELECT, a flush, a commit, a call to the
store, an emission. All Python code between two of those is one action.

An operator named `<Definition>_<Bug>` (`CheckCount_OffByOne`,
`Flush_ReportsCreated`, …) is a variant of the definition it stands next to, with a
bug of the kind that code invites. No specification uses it. Substituted for
the original it makes a property fail, which shows that the property
depends on that code; `PROJECT.json` lists the pairs under `mutants`.

### Typing
`states` is `_states`; an entry that is absent is `NoState`. Each
manager method holds the lock throughout and is one action (`Start`, `Stop`,
`CleanupSocket`, `Expire`). Before it lies `Receive` (authentication and
`validate_context`, which reads the database), after it `Emit`, which runs with the lock
released. `timers` are `threading.Timer` threads (external): *armed* until the
wait times out, *fired* when bound to call `_expire`, *expired* when
`on_timeout` is still to be called; `cancel()` affects armed ones only. `Expire`
pops whatever state the key has, as `_expire` does. `shown` counts beginnings
minus ends the room was sent. Socket slots are used again once nothing
mentions them, as socket ids are never reused.

### Channels
A request goes `ReadChannel`, `ReadActor`, `ReadTarget` and one commit action
(`Insert`, `Delete`, `ChangeRole`, `SetPrivacy`, `DeleteChannel`). `Reread` is
the identity map: when actor and target are the same row the second SELECT does not
refresh it. Commits address rows by id: a DELETE of a row that is gone is
no error, an UPDATE of one is; an update to the value already loaded writes
nothing. Names and descriptions decide nothing and are left out.

**`ChannelRegistry`** is what this amounts to for everybody else: no requests, no
sessions, no row ids, but a register of channels in which one atomic step admits or
dismisses one user or changes his role, and nothing touches the owner. `Channels`
implements it (`ImplementsRegistry`), with the roles read off the table
(`RolesNow`): a request takes effect at its commit, or not at all.

### Messages
`Check`, `CommitCreate`/`CommitEdit`/`CommitDelete`, then for a creation
`Refresh` (`notify_message` asks for the channel's id, which loads the expired row),
`ReadRecipients`, `CommitNotifications` (the second transaction, which expires the row again) and
`Deliver` per recipient, then `Load` (`get_by_id`) and `Emit`. `payload` is the text the session has
loaded since its last commit: `Load` reads the row only if there is none. After a
creation with nobody to notify there is one, as then `create_many_notifications` is not called and
nothing is committed after `Refresh`. `SkipNotifying` is the `except` in `create_message`, which lets
the broadcast go on, with the copy or (after a rollback) without; `Fail` a database error anywhere.
`CommitDelete` runs into the table's CHECK constraint, so a message that is deleted
never occurs: see the findings. Texts are numbered by the commit that wrote
them. `disturbed` is history: messages that were written while a request held an older
text for its event (also one that a creation loaded before it looked for recipients and found
none), or whose event was never sent; an edition that meets no other request on the
message clears it.

### Attachments
`CheckAccess`, `CheckCount`, `CheckTotal`, `StoreObject`, `CommitRow`,
`Announce`; `CommitFails` leads to `CleanUp`, the compensation. So does
`CommitUnacknowledged`: the row is committed, but the answer is lost and `commit()` raises; the
handler cannot tell, removes the object, and leaves an active row without one. History
(`unacknowledged`) names these files. A deletion hides
the row (`HideRow`), removes the object (`RemoveObject`) and announces.
`StoreFails` may leave the object behind (a lost answer). `Die` ends a
request anywhere. Failures are counted, and bounded by `MaxFailures`, except
`CommitFails`, whose compensation must make it harmless. `shows` is what clients
show: the effect of the last event about each file. `disturbed` is history: files whose
`attachment_deleted` was emitted before their `attachment_added`, or whose request ended (died, or
took its commit for a failure) with its event to be sent.

### Presence
`register` and `unregister` are the manager's methods under its lock;
`persist_last_seen`, `payload`, `channel_users`, `conversation_users`, `recipient_socket_ids` and `emit`
the steps of a handler that goes on to `broadcast_presence`. The status is read at `payload`,
whichever handler runs it; the observers are found by the two queries of `shared_observer_ids`, each of
which sees what two users have in common at that moment (`shared`). `ChangeSharing` is the other
components' part: the first channel or conversation two users share, or the end of the last one.
`Restart` clears everything in the process. Three variables are history: `disturbed` names users
about whom a handler failed or two broadcasts were under way at once; `early` the sockets whose
disconnect handler came before their connect handler had registered them; `parted` the sockets that
were sent news of a user with whom theirs has since ceased to share anything (or to share
something while a broadcast was looking), and which later broadcasts may therefore miss.

### Conversations
`Lookup` loads the pair's conversation and its participants; `Reopen` writes
`left_at = NULL` to those it has loaded with a value; `Flush` inserts, waiting for an
uncommitted insertion of the same pair (`PairLocked`) and failing on a
committed one; `CommitCreate` makes both rows visible. `Leave` sets `left_at`.

**`Pairing`** is the promise without rows and locks: a couple has no conversation, then
one, with both in it at once and one request told so; after that the two only leave and
return. `Conversations` implements it (`ImplementsPairing`): `Between` reads the
couple's conversations off the table, `Standing` who takes part and who has left.

### Marks
Read receipts and reactions. A batch looks up its messages in order;
each look-up flushes the receipt created before it (`Flush`), which waits
(`WaitsFor`) for a transaction that has inserted the same key. A conflict undoes
the whole transaction: `mark_read` answers with the receipt that is there,
`mark_many` with an error. Transactions that wait in a circle are broken up by
PostgreSQL (`Deadlock`). Reactions look, commit, re-read and
emit. Counts, summaries and lists change nothing and are left out.

### Notifications
`CheckRecipient` reads one preference after the other, `CommitCreate` commits the rows
of all recipients; `CommitRead`, `CommitReadAll`, `CommitDelete` are the
recipient's own requests, `CommitPrefer` the upsert of a preference. After the
commit come `EmitEvent`, `Count` (the unread count is read) and `EmitCount` (it is
sent). `unsure` is history: users whose last count was overtaken by a commit, or
was never sent. The deduplication key contains the id of the new message or reaction and so
never recurs: `find_duplicate` never finds one. There are
finitely many messages and reactions (`NotificationsAssumption`), so that what is unread can be
counted.

### Timeline
What a client sees of one channel or conversation. The handlers of `join_channel`,
`leave_channel` and their counterparts for conversations go `ReadChannel`,
`ReadMembership`, `ChangeRoom`, `Acknowledge`; sending is `BeginSend` (the transaction
begins, and with it `created_at`), `CommitSend`, `Emit` to the sockets in the
room at that moment; `GET /messages` is `CheckList` (`_context`) and `SelectPage`. `Page` is
`list_history`: the order by `created_at` and id, the cursor, OFFSET and LIMIT, and one row more
for `has_more`. The client (external) joins, waits for the acknowledgement, and
then loads page after page, by cursor or by page number, until `has_more` is false; it adds
what the room is sent meanwhile. Its events are served by threads of their own, so a
join and a leave may overlap (`crossed`). `expelled` is history: who lost access while in the room. One module
serves channels and conversations, a conversation being a private context.

## 4. Runs

| Run | Instance | Shows |
|---|---|---|
| `typing` | 1 user, 2 sockets, 1 context, 2 handler threads, 3 timers; fair | states, timers and announcements stay in step; typing ends and the room hears of it |
| `typing_stale_timer` | the same | **violated**: a replaced timer ends the renewed state |
| `channels` | 3 users, 1 channel, 3 membership ids, 2 requests; symmetry | one owner, constraints, the owner's privileges; implements `ChannelRegistry` |
| `messages` | 3 users (one muted), 1 channel, 1 message, 2 requests, `MaxVersion` 3; fair | with recipients, with none, and with a muted one only: nothing ahead of the database; answers; the latest text is shown; broadcast in the end |
| `messages_delete` | 2 users, 1 request | **violated**: a permitted deletion does not delete |
| `attachments` | 2 users, 4 files, limit 2 files / size 3, 2 requests, `MaxFailures` 1; symmetry | active rows have objects, up to unacknowledged commits; events follow persistence; clients show what is active; one leak per failure; how far the limits are overrun |
| `attachments_limits` | 1 user, the same files and limits, no failure | **violated**: the documented limits |
| `presence` | 2 users, 3 sockets, `MaxRunning` 2; symmetry | who is online has a socket, and the reverse; last news is right, though channels and conversations come and go |
| `conversations` | 2 active users and an inactive one, 2 ids, 3 requests; fair | implements `Pairing`; reopening is effective; insertions end |
| `marks` | 1 user, 2 messages, 1 reaction target, 2 row ids, 2 requests; fair | receipts and reactions through conflicts, waits, deadlocks |
| `notifications` | 2 users, 1 id, 2 requests; symmetry | unread counts, preferences |
| `timeline` | 2 users, one of them a client, 3 messages, 2 moments, pages of 1, 2 requests; symmetry | room and history together miss nothing; who listens may |

**Bounds, and why they are enough.** Two requests are the smallest number with an
interleaving, and each hazard listed in `PROJECT.json` is a race of two;
`conversations` has three because an insertion can meet both a waiting and a
committing one. Three users in `channels` are an owner, an actor and a
target. Three timers in `typing` are one for the current state and two that are
replaced but have already fired. A timer slot that is in use cannot be taken, so a
`Start` waits when all three are in use: that loses behaviours with more stale
timers, none that differ in kind; the theorem of section 6 has no such bound.
Four files against a limit of two
let both threads exceed it. In `timeline` two messages may share a moment
and a third commit behind a cursor: that takes three messages, two moments and pages of one. Membership ids, timers,
sockets, row ids and the id of a deleted channel are used again once nothing refers
to them, so no run ends for want of fresh ids; in the program they are
UUIDs or fresh objects. Conversations, messages, files and notified
messages are never deleted from their tables, and their ids are used once.
`MaxVersion` bounds the number of edits of one message, `MaxRunning` the number of
handlers running at once (`Presence`), `MaxFailures` the failures in a behaviour
(`Attachments`; elsewhere failures are unbounded). Symmetry is declared only in
runs that check no liveness. No configuration switches deadlock checking off: in
every state a client can do something.

**Fairness.** `FairSpec` gives weak fairness to each handler thread's own steps
(a started Python thread is scheduled again and again, and holds the managers' locks
only for a few statements) and to each Timer thread. No
fairness is assumed of clients, of failures, or of which of several threads wins a
race. Where a handler waits for another's transaction
(`Conversations`, `Marks`) its step is disabled until that transaction ends, and
that one is fair; circles are broken by PostgreSQL's deadlock detection, whose step
is part of the fair ones. Liveness properties name the exceptions the code really
has: a typing state that is renewed for ever (`TypingEnds`); an answer "error"
(`StoredIsBroadcast`); transactions that
fail again and again (`InsertionsEnd`, `WaitsEnd`).

## 5. Findings

1. **A stale timer ends a renewed typing state** (`typing_stale_timer`).
   `TypingManager._expire` does not check whose timer it is. When `start` renews
   a state whose timer has just fired, `cancel()` is too late, and `_expire`
   ends the renewed state. The room is told that the user has stopped; the new timer is
   left running and may in turn end a later state early. `EveryStateHasItsTimer`
   shows that it gets no worse: no state is ever left without a timer of its own.
2. **Messages cannot be deleted** (`messages_delete`). `delete_message` sets
   the content to `""` in the UPDATE that sets `deleted_at`; the table's CHECK
   forbids blank content. Every permitted deletion ends in a 500.
3. **Attachment limits are not limits** (`attachments_limits`). The count and the
   total are checked before the file is stored and the row inserted, with no lock:
   overlapping uploads all pass. `CountOverrunIsBounded` and
   `SizeOverrunIsBounded` say how far it goes: one file for every further thread.

Behaviours met on the way that no document contradicts and that the properties
therefore exclude by name: the disconnect handler may run before the connect handler has
registered the socket, and the user stays online until a restart (`Presence`); the
loser of a race for a new conversation gets a 500, since `flush()` stands outside the
`try` whose handler would reopen (`Conversations`); of two overlapping
broadcasts about one user, or events about one reaction, one message or one attachment, the
older may arrive last, and clients keep an older text or a deleted file; a member who is removed
keeps receiving the room's events, and is refused when he asks to leave the room of a private
channel; of a join and a leave of one socket that overlap, the client may be told the
other outcome; a creation that finds nobody to notify broadcasts the text it loaded before it
looked, also after an edition committed and broadcast in between (`Messages`); an upload whose
commit succeeds but loses its answer removes the object of a row that stays active, and
says nothing to the room (`Attachments`); a client that was told that a user is online, and shares
no channel or conversation with him any more when he goes offline, is not told so (`Presence`).

## 6. What is proved

The theorems hold for all values of the constants that satisfy the named
assumptions of each module; no assumption is made beyond those.

* **`SignalsProofs`**, of `Typing` — `TypeCorrect` (`TypeOK`), `StatesHaveTimers`
  (`EveryStateHasItsTimer`) and `AnnouncementsAddUp` (`AnnouncementsBalance`). The invariant
  `TypeOK /\ EveryStateHasItsTimer` is
  inductive: `Start` takes an idle timer, so it takes no other state's;
  a cancelled timer belongs to the state that is replaced or popped; an
  expiring timer that is another state's would contradict its key. For the balance, each action
  changes one of its four terms together with the state, or two of them against each other
  (`Balances`, `Emits`, `TimesOut`); nothing bounds the number of threads, so the invariant also says
  that those that owe an event are finitely many (`FewOwe`).
* **`SignalsProofs`**, of `Notifications` — `NotificationsTypeCorrect` (`NotificationsTypeOK`),
  `BadgesAreRight` (`BadgeIsRight`), `PreferencesAreRespected` (the action property
  `PreferenceIsRespected`), and `EventsAreTrue`: no user is sent that a notification was
  created, read or deleted before the table says so. A badge compares what was sent last with the
  table, and between the two lie a commit, the reading of the count and its sending, each of which
  another request may overtake. `NInv` therefore follows a request (`Knows`): a creation has picked no recipient
  who had notifications off when it began and has them off still (`Shaped`, `Asked`), the rows
  a request speaks of are committed (`Backed`), and the count it has read is right
  unless somebody has committed since (`Counted`). One lemma (`Moves`) serves all steps that leave the
  tables alone: it asks that whoever is owed nothing any more by the request has been sent the right
  count (`Settles`); another (`CommitKeeps`) serves the commits. That a user's unread notifications can be
  counted at all is a lemma on cardinalities (`UnreadCounts`).
* **`ChannelsProofs`** — `TypeCorrect`, `OwnerIsUnique` (`OneOwner`),
  `TablesAreConsistent` (`ConsistentTables`) and `OwnerDecides` (the action
  property `OwnerOnly`). `OneOwner` is not inductive: it says nothing of the rows requests hold. `IInv`
  adds *Sessions*: a row in a session and the row the table now has under the
  same key **agree on whether it is the owner's**, an owner's row that was seen
  is still there while its channel exists, and a request about to commit was decided by its
  rows. So although decisions are never re-checked, none of the
  stale ones can touch an owner. The argument rests on two facts of the code: no operation grants or
  takes away the role `owner`, and primary keys are never used again.
  `ChannelsRefineRegistry` (`ImplementsRegistry`): the
  initial states of `Channels` are initial states of the register, and every step is a
  step of the register or leaves it alone. It needs `IInv`, and that a session holds
  at most one row of the actor and one of the target (`SingleRows`), so that a commit touches
  one user. The roles of all users are read off the table; they change only where a row
  does, so there is one lemma for every commit action, and all other actions stutter.
* **`MessagesProofs`** — `TypeCorrect`, `DatabaseFirst` (`NothingAheadOfTheDatabase`),
  `AnswersHold` (`AnswersAreTrue`) and `RoomsCatchUp` (`LatestTextIsShown`). None of the three is
  inductive: they speak of tables, answers and rooms, and what makes them true is what a
  request knows between its steps. `MInv` adds that a creation is alone with its message
  until it commits (`CreationsAreAlone`), that every other request has a row under it whose text is at
  least as new as the one it wrote or has loaded, that a copy in the session lives from a read to the
  next commit (`CopyIsInPlace`), and that recipients are delivered only notifications that are
  committed (`RequestsAgree`); and that the text of an undisturbed message is shown, or every
  request that will not read the row again holds its present text (`LatestIsOnItsWay`). It needs `MaxVersion` to be
  positive: the first text has a number. `NoMessageIsForgotten` (`NoneForgotten`) is what
  `StoredIsBroadcast` promises without fairness: a stored message has been shown, or its sender was
  told of an error, or the request that created it is still underway. No step, whether its request
  goes on (`KeepsWhenGoingOn`) or ends (`KeepsWhenEnding`), drops a message silently.
* **`MarksProofs`** — `TypeCorrect`, `AnswersMeanReceipts` (`AnsweredMeansRead`),
  `CreatorsAnnounce` (`AnnouncedByItsCreator`) and `ReactionsAreShown` (`RoomKnowsReactions`), for
  finitely many messages. For receipts the invariant says, of each message a batch has looked up,
  that its receipt is committed or is the request's own insertion (`ReadKnows`); that an inserted
  key has one holder (`OneHolder`), which is what the UNIQUE index and the waiting achieve; and that
  what a request has still to announce was never announced. For reactions it says that the row
  a request holds is the table's as long as its key is undisturbed (`ReactKnows`).
  `OnlyBatchesDeadlock` (`CirclesAreOfBatches`) is about `WaitsEnd`: transactions that wait for each
  other in a circle, of any length, are all batches. A request in a circle waits for one key and
  is waited for because of another that it has inserted, so it has gone past the first message of its
  list (`OwnInsertions`), and the list of `mark_read` has only one. The run reaches such circles.
* **`PresenceProofs`** — `TypeCorrect` and `OnlineMeansConnected` (`OnlineIsTrue`). That
  who is online is who has a socket holds only when a socket's handlers are through; the
  invariant `PInv` follows it before that: the two dictionaries are each other's
  inverse (`Agree`), a socket about to be registered is unknown to the manager, and if
  its client is gone, its disconnect handler is still to run or ran too early
  (`Registering`), one about to be unregistered has no client (`Leaving`), and a
  client without an entry, or an entry without a client, has the handler that will see
  to it (`Connected`).
  `NewsAreRight` (`NewsIsRight`) needs a second invariant, `NInv`: who was sent news of a user still
  shares something with him or is named in `parted` (`Reached`), nobody not named in
  `disturbed` has two broadcasts under way (`Alone`), and as soon as no handler has still to read the
  status, what a socket was told last is right, or it is excused, or the one broadcast that carries the
  right status will reach it (`News`, `Covered`). Whether it will depends on how far the queries are
  (`Finds`): before the first everybody is found who shares anything, between the two whoever was found
  or shares a conversation now, and after them whoever was found. `FindsStays` says on what that
  depends, `NewsStays` and `OthersStay` what steps about other users leave alone.
* **`ConversationsProofs`** — `TypeCorrect` and `ReopeningWorks` (the action property
  `ReopenIsEffective`). `CInv` says what the UNIQUE constraint achieves: rows
  that are flushed clash neither with committed rows nor with each other (`Sound`,
  `Locks`), so ids and pairs stay unique (`TablesUnique`), each conversation has exactly its two
  participants (`Seats`), and 201 was answered once (`Counted`). `Witnessed` is why
  dirty checking does no harm: whoever has left a conversation that is about to be
  reopened was seen to have left, or has left since the look-up.
  `ConversationsRefinePairing` (`ImplementsPairing`), from `CInv`:
  `CommitCreate` is `Start`, `Reopen` is `Return` (of nobody, if all came back in the meantime),
  `Leave` is `Depart` or, when another device was faster, nothing; one lemma (`Moved`) says
  how a change of `left_at` moves users from one side of a couple to the other.
  `InsertionsWaitForCommits` (`WaitsForACommit`), from the same invariant: an insertion that
  waits does so for exactly one transaction, which has only its commit left, so insertions never wait in a circle.
* **`TimelineProofs`** — `TypeCorrect`, `RoomsHoldTheRight` (`RoomsAreRight`) and `NothingIsMissed`
  (`NoGap`). `TInv`
  follows a join between its reads and its effect: once the channel was read as public or the
  membership was found, the caller may view the context or has been expelled since
  (`Access`); and a client without overlapping room events has one of them at a time,
  does not count on the room while it leaves, and is in the room before
  it is told so (`Told`). `NoGap` rests on lemmas about the operators: the order by `created_at` and id is
  an order with first and last elements (`EarlierIsAnOrder`, `FirstOf`, `LastOf`), a page that is not the
  last is not empty, pages that follow each other leave nothing between them (`PagesAreSeamless`), and
  an insertion before, in or behind what was loaded only moves messages to later pages
  (`InsertionKeeps`). `LInv` then says of a client without overlapping events that every message is
  loaded, received, still to be broadcast, or ahead of its cursor or page number (`Loads`).
* **`AttachmentsProofs`** — a theorem for each of the seven properties of the run. `FilesInv`
  (`TypeCorrect`, `FilesAreThere`, `EventsAreTrue`) adds that an upload without a row is alone
  with its file (`UploadsAreAlone`), and what each `pc` knows of row and object: a clean-up finds no active
  row, unless the commit was unacknowledged (`RequestsMatchRows`). One lemma (`InsertFacts`)
  serves both ways in which a row comes to be. `OverrunBound` (`CountOverrunIsBounded`) is an induction on
  the active files plus the uploads past the count: `CheckCount` lets one in only while
  active files are below the limit, and at most the other threads are past it.
  `RoomsShowWhatIsThere` (`RoomShowsActive`): a file is announced by the one request that created it
  (`AnnouncedOnce`), and what is shown of an undisturbed file is right or the event that corrects it is
  on its way (`ShownRight`). `LeaksOnlyByFailures` (`LeaksAreFailures`): a request concerns no other file's
  object, an upload has none before it stores it (`NotStored`), so a step without a failure leaves no
  object behind and one with a failure at most its own. `SizeOverrunBound` (`SizeOverrunIsBounded`) bounds
  the size of the active files together with those past the check on the total (`SizesInv`). It needs
  to know of `SizeOf`, a fold over the subsets of a set, that it is a sum: that the recursive function exists
  (`SumsExist`), does not depend on the set it starts from (`SizeOfIsWhole`), and grows by the
  size of a file whichever file it takes first (`WholeOfOneMore`), each by a least counterexample among
  the finite sets of files. The assumption that there is at least one thread is needed here: with none,
  the bound could be negative.

**Only model-checked:** the five liveness properties (`TypingEnds`, `StopIsAnnounced`,
`StoredIsBroadcast`, `InsertionsEnd`, `WaitsEnd`): the prover has neither fairness nor `ENABLED`. For each
a theorem states the part that needs none: a typing state has a timer that can end it
(`StatesHaveTimers`), an announcement not yet made is owed by a handler or a timer (`AnnouncementsAddUp`);
for the other three `NoMessageIsForgotten`, `InsertionsWaitForCommits` and `OnlyBatchesDeadlock`.
The three properties of section 5 are refuted by TLC and not proved to fail beyond
those instances.

**Taken from outside the code:** `threading.Timer` (a fired timer cannot be
cancelled), socket ids and UUIDs that never recur, PostgreSQL's row locks, READ
COMMITTED, constraint checks and deadlock detection, SQLAlchemy's identity map and
unit of work as described in section 1; Socket.IO rooms that a socket leaves when it
disconnects; and that what the connect handler stores on Flask's `request` (`current_user`)
is there in the later events of the socket, as the handlers in `src/app/sockets` take for granted (if
a version of Flask-SocketIO does not keep it, they all answer AUTHENTICATION_REQUIRED and
change nothing).

## 7. What is not modelled, and why

* **Rate limiter and abuse detection**: no route or handler reaches them, so no
  behaviour of the program involves them, although `README.md:163` speaks of limits that are
  enforced. Read on their own they would need work first: `_window_start` does not
  depend on the window's length, nothing makes buckets unique, and the count is read,
  incremented and written back.
* **Moderation**: no route or handler reaches the service, so `suspended_at` and
  `banned_at` are never set and `is_restricted` is constantly false; the checks on it in
  `auth_required`, `create_message` and `handle_connect` are left out for that reason.
* **Users, authentication**: tokens are stateless and every operation writes one row.
  Whether a user is there and active is an input of the other modules. What can interleave
  (two registrations of one name, two changes of one password or profile) is planned.
* **Observability, health, configuration, middleware, migrations**: no other
  part depends on them; the constraints that the migrations create are modelled with the
  components.
* Left out inside modelled components: the value of `last_seen_at` (a time that
  `persist_last_seen` commits and that is only shown; that its commit may fail is
  modelled), names, descriptions and texts (nothing
  depends on them), validation of input (an invalid request does nothing), signed
  URLs, counts and lists (read-only), `cleanup_old_notifications` and
  `cleanup_deleted_attachments` (nothing calls the first; the second does
  nothing), soft-deleted messages in `Marks` and `Attachments` (finding 2: they
  do not occur).

## 8. Plan

1. *Done:* the components above, their runs, the refinements of `ChannelRegistry` and
   `Pairing`, and the proofs of every safety property of every module.
2. **Abstract specifications** for the two other stores of state: a two-state indicator
   for `Typing` whose begins and ends alternate, an atomic store for `Attachments`.
3. **Accounts**: registration against the UNIQUE constraints, and overlapping changes of one
   profile or password, as a module of its own.
