# floware: models, checks and proofs

TLA+ specifications of the parts of this repository in which several processes,
handlers and stores must stay in step. They are kept beside the code: every
definition is translated from the source, and `PROJECT.json` maps it to its lines.

## 1. Inventory

floware is the server side of the Flo applications (mail, calendar, collections,
chat): some fifteen services over one MySQL database, Redis and RabbitMQ.

| Part | State | Operations | Interacts with |
| --- | --- | --- | --- |
| `WebsocketBE` presence | Redis: `ws_user_online:<email>`, set `ws_users_online` | connect, delayed offline check, expiry | every send asks it |
| `WebsocketBE` socket list | Redis: `ws_user:<email>` | add and remove a socket, wipe when offline | push provider skips the devices in it |
| `WebsocketBE` channels and rooms | tables `channel`, `channel_member`; socket.io rooms of each server | create, delete, add, revoke and delete members; handshake joins | Redis pub/sub between servers |
| `WebsocketBE` delivery | tables `message`, `message_user_status`; timers | send, delay, resend on connect, mark a status | presence, rooms |
| `WebsocketBE` chat | tables `realtime_message`, `..._chat_channel_user_last_seen`, `..._chat_channel_status`, `..._user_usage`, `..._message_edited_history` | send, edit, delete, last seen | delivery; listeners run side by side on its events |
| `WebsocketBE` ack recovery | Redis: `ws_user_send:*`, `ws_message:*`, with expiry | register, acknowledge, resend on connect | delivery |
| `FloAPINodeJS`, `FloUploadDownload` | the application's tables | REST, one row or a batch per request | queues to the workers |
| `FloWorkersNestJS`, `FloWorkerAdminNestJS` | none of their own | consume the queues | tables, Redis |
| sort object (API and worker) | `order_number` and `order_update_time` of rows, a Redis status per request | sort, reset order | a queue |
| trash (API and worker) | `trash_collection`, `deleted_item`, `is_trashed` of collections and links | trash, recover, delete for good | a queue: Bull or RabbitMQ |
| last-modified (API, procedures, worker, cron job) | `api_last_modified`, `push_change` | a change of one user, of a shared collection, a date put by a client; push | queues, a stored function, APNs |
| the rest | see `PROJECT.json` | I/O, CRUD, third-party code | |

What makes this code hard is the `await`: each handler of the Node services is a
sequence of database and Redis commands, between any two of which every other
handler, on this server or another, may run. Nothing is locked, few things are in
a transaction, and state is kept twice (Redis and rooms, rows and rooms, rows and
clients). The hazards are listed, each at its line, in `PROJECT.json`.

What makes each part correct:

- **Presence.** A user is shown online exactly while a client is connected, the
  list broadcasts use covers everybody who is online, and a user who left is
  eventually shown offline.
- **Socket list.** It lists the live sockets of the user; a socket once removed
  does not come back.
- **Channels and rooms.** A socket is in the room of a channel exactly when its
  user is an active member; no member row outlives its channel.
- **Delivery.** A `qos = 1` message reaches each recipient or leaves a row from
  which a later connect resends it; `qos = 0` comes at one moment and not again; a
  connect hands over what waits.
- **Ack recovery.** A message sent to a user taken to be online is recovered by a
  connect within the expiry; an acknowledgement is final.
- **Chat.** Unread is the number of messages after the last seen one; the counters
  of channel and sender count every message, and a deletion once; what was deleted
  stays deleted.
- **Ordering.** One reset at a time; a sort does not write numbers worked out from a
  list that was numbered anew since; a status never moves back, and one that promises
  more has a job behind it; DONE means done.
- **Trash.** A folder is trashed exactly when it has its row; nothing live hangs below
  a trashed folder; a row that is gone has left a tombstone.
- **Last-modified.** The date of a user never goes back, no change is missing from it,
  and every rise is pushed to the user's devices.
- **Sharing (planned).** A share follows its life cycle.

## 2. Modules

`Presence` is the base; `SocketCache` extends it and composes with it by joint
actions; `ChannelRooms`, `Delivery`, `AckRecovery` and `ChatCounters` are independent of
both and of each other. `Ordering`, `TrashFolders` and `LastModified` each compose the API,
its queue and its worker. `Delivery` and `AckRecovery` take the verdict of presence as an
input: a send may believe anything about a user, so what holds there holds for any
behaviour of presence. Two abstract specifications say what is promised, without how:
`Ordering` implements `JobStatus` (what a client may see of a status it polls), `Delivery`
and `AckRecovery` implement `Mailbox` (what one recipient may see become of one message).
`MC*` modules give the constants of the runs; `*Proofs` hold the theorems.

One action is one command that other handlers can observe (a Redis command, a
database statement, a publish) with the synchronous code up to the next `await`.
Local variables of a suspended handler are state.

### Presence

`src/WebsocketBE/src/websocket/websocket.gateway.ts`, `service/websocket.service.ts`.

| Model | Code |
| --- | --- |
| `Connect` | `handleConnection`: emits CONNECTED and ONLINE; ONLINE is emitted on every connect |
| `join`, `JoinUserRoom` | `clientJoinChannel`: a query, then `client.join` of the user room |
| `mark`: `SetFlag`, `ReadList`, `WriteList` | `setOnlineStatus`: SET, SMEMBERS, SADD of the whole list read |
| `Disconnect` | the socket leaves its rooms; `handleDisconnect` arms the 2 s timer |
| `Views`, `FindOnline`, `FindOffline` | `isUserOffline`: rooms of all servers, this server on an error, nothing on a second one |
| `ClearFlag`, `ClearList`, `ClearCache` | `setOfflineStatus`: DEL, SREM, DEL |
| `ExpireFlag` | the two-day expiry, refreshed by a connect only |
| `Crash` | a server dies: its sockets vanish without a disconnect event, its timers with them |

`FindOnline` and `FindOffline` require `mark # "flag"`: the SET of the connect was
sent on the same Redis connection at least 2 s before the timer fires, and Redis
executes the commands of a connection in order. Nothing else is assumed of time.

### SocketCache

`add` and `drop` are the two read-modify-writes of `ws_user:<email>`. A removal
reads after the addition of the same socket has read, and writes after it has
written: both go over the same Redis connection, and the addition sends its write
when its own, earlier, reply arrives. Two sockets of one user have no such order.
`CrashServer` replaces `Crash`, with the updates of the server's sockets stopped too.

### ChannelRooms

`src/WebsocketBE/src/channel/channel.service.ts`, `listeners/client.listener.ts`.
A request is a record: its kind, the channel, the id it found, the members still
to look at, the member being saved with the row the query returned, and those
still to publish. `add` stands for `addChannelMember` and the members of
`createChannel`, `delete` for `deleteChannelMember` and `deleteMemberByChannelName`,
`revoke` for `revokeChannelMember`, `remove` for `deleteChannel`. `bus[h]` is what
pub/sub has still to bring to server `h`, in order. Rows are keyed by channel id
and member (unique in the database); ids are never reused. A save of an entity
that was found overwrites or re-inserts the row; one that was not found inserts,
and fails on the unique key. `seen` is what the handshake's query returned.

### Delivery

`src/WebsocketBE/src/message/message.service.ts`, `listeners/client.listener.ts`,
`database/repositories/message-user-status.repository.ts`.
`send[m]` walks through `getUsers`, the save of the message, the save of the
status rows, the emit or the timer. `resend[s]` is `userResent`: query, emit,
delete of all rows of the user. `update[k]` is `updateNotificationStatusItem`:
find, then save. `MessageUnsent` is the query as it runs: the second `where`
replaces the first. `Mail(m, u)` maps this state to that of a `Mailbox` of recipient `u`
and message `m`: kept while there is a row, handed once a client of the user had it,
exposed once one of the recorded windows was hit. A message sent with neither row nor
copy maps to "lost", which `Mailbox` has no word for.

### AckRecovery

`src/WebsocketBE/src/listeners/message.listener.ts`,
`websocket/service/websocket.service.ts`.

| Model | Code |
| --- | --- |
| `CacheMessage`, `RegisterUser`, `RegisterFails` | `beforeSendMessage`: SET of the message, then the SETs of `registerUsersSend` in any order, each with its own catch |
| `SendToChannel`, `Fail` | `send` after `emitAsync` has returned: the emit, or an error before it |
| `Ack` | `client_ack`: DEL of the key of the user |
| `Scan`, `TakeKey` | `getMessageNotSendByUser`: KEYS, then a GETDEL for each |
| `LoadMessage`, `EmitOldest` | `sendMessageUnsent`: a GET for each, then one emit every 400 ms in order of `header.time` |
| `ExpireMessage`, `ExpireKey` | the expiry of both, the same for both (`app.config.ts:10`) |

`getUsers` and the save of the message are one step: nothing reads the verdict in
between. `ExpireKey` waits for the message to expire, because Redis was given the
message first and with the same expiry. Each message is sent once, as `message_uid`
is the key of everything. If `cacheMessage` is refused, the send throws before
anything is written, as if it had not begun. Only test messages ask for an
acknowledgement today (`isNeedAck`, `message.dto.ts:118`). `Mail(m, u)` is here: kept
while the key of the user is there or a recovery holds the message, exposed in the
windows of `excused`.

### ChatCounters

`src/WebsocketBE/src/message/chat.message.service.ts`, `listeners/chat.listener.ts`,
`user/user.service.ts`.

| Model | Code |
| --- | --- |
| `Insert`, `Emit`, `SendFails` | `send`, from the INSERT of the message to the event; a notice (`saveMessage` without a sender) has no listeners |
| `IncreaUnread`; `FindOwn`, `SaveOwn` | `increaUnread`: one UPDATE of all rows of the channel; then `resetRemine`, a find and a save |
| `FindSeen`, `CountUnread`, `SaveSeen` | `updateLastSeen`: find the row, count the messages after the one seen, save |
| `FindStatus`, `SaveStatus` | `updateChannelStatus`: find, then save with `msg_count` + 1 |
| `FindUsage`, `SaveUsage` | the usage listeners: find, `increMessageCount` or `reduceMessageCount`, save |
| `FindMessage`, `SaveMessage`, `SaveHistory` | `updateMessage` and `deleteMessage`: the check of the message or of its first history row, the save of the whole message, the history row |
| `TaskFails` | an await of a listener or of a request fails |

One channel; its messages have distinct `created_date`s, so that "after" is a position in
the log. Listeners of one event run side by side and share no table but through
the message, so a behaviour looks at a set of them (`Slices`). Of the usage only
`message_count` is kept: sizes change in the same statements.

### LastModified

`worker-api-last-modify`, `worker-common/src/push-change.cronjob.ts`,
`api-last-modify-common.service.ts` of `FloWorkersNestJS`; `api-last-modified.service.ts`
of `FloAPINodeJS`; the functions `m2023_insertAPILastModify` and
`c2022_sendLastModifyShare` of `FloStoreProcedureBE`.

| Model | Code |
| --- | --- |
| `AddJob`, `PutRequest`, `TakeJob`, `Ack`, `Redeliver` | the ways in: the queue, the REST call |
| `UpdateMark`, `FindMark`, `InsertMark`, `FindPush`, `InsertPush` | `createLastModify`: UPDATE if older, SELECT, INSERT, then `upsertPushChange` |
| `CheckMark`, `ReadMarks`, `WriteMarks` | the stored procedure and its function: the SELECT of its snapshot, then INSERT ... ON DUPLICATE KEY UPDATE |
| `StartCron`, `ListRows`, `PushDevices`, `CleanRow`, `CronFails`, `RestartCron` | `pushChangeCron` and `pushChange`: `isRunning`, pages by offset, push, one DELETE per user |

The `api_name`s share nothing but `push_change`, where any change of a user counts, so
one is enough. A stored function runs in one statement, but two connections interleave at
its read and its write. `ListRows` takes any page that its ORDER BY allows. A push may reach
only some of the users of its page, or none: `getListDeviceByUser` returns the error of its
query, which has no length, and what a provider or APNs refuses is not looked at. The rows
are deleted all the same, and the users not reached are recorded (`unpushed`).

### Ordering and JobStatus

`sort-object.service.ts` and `sort-object-queue.service.ts` of `FloAPINodeJS`,
`worker-object` of `FloWorkersNestJS`, `sort_resetOrderNumberUrl` of
`FloStoreProcedureBE`.

| Model | Code |
| --- | --- |
| `ListKeys`, `ReadKey` | `isResetOrderRunning`: KEYS, then a GET per key; the first that runs refuses the request |
| `SetInit`, `AddJob`, `AddFails` | the SET of the status, the job, and a queue that is down |
| `TakeJob`, `Begin` | the worker: a reset is begun if its key is there, a sort if it is INIT |
| `Renumber`, `RenumberFails`, `RenumberNothing` | the stored function, its error (DONE all the same), and the user without objects |
| `ReadList`, `SaveItem`, `SaveItemFails` | a sort: the list it computes from, then an UPDATE per item with `order_update_time <` |
| `WorkFails` | any other exception of the worker, from the query of the user before the status check to the last SET, or a missing user: the job is acknowledged, the status stays |
| `Finish`, `Ack`, `Crash`, `Expire` | the last status, the acknowledgement, redelivery, the time to live of a key |

Of an order number only its `order_update_time` is kept: which of two writes stands
depends on nothing else. `JobStatus` says what a client may see of a status it polls; it
is instantiated for each request with `ClientView` as the refinement mapping. A request
whose check or SET fails in the API is one that was not made.

### TrashFolders

`trash.service.ts` and `trash-queue.service.ts` of `FloAPINodeJS`,
`worker-trash-collection` of `FloWorkersNestJS`.

| Model | Code |
| --- | --- |
| `SaveTrash`; `FindTrash`, `RemoveTrash` | create; recover and delete: the row in `trash_collection` |
| `QueueJob`, `QueueFails` | the job, and the queue that refuses it: Bull ends the request, RabbitMQ swallows the error |
| `SaveTomb`, `TombFails` | the tombstone in `deleted_item`, and the insert that throws after the row is gone |
| `StartWalk` | a job is taken: RabbitMQ one by one (`serial`), Bull without waiting for the walk |
| `SetFlag`, `SetLinks`, `ReadChildren`, `TrashChild` | the walk down: flag, links, then each live child with a row of its own, depth first |
| `ReadParent`, `ReadRows`, `TombParent`, `GoBack` | the walk up: a trashed parent with a row gets a tombstone, is recovered, and loses its row on the way back |
| `ChildHasRow`, `WalkFails`, `Crash` | the save that throws inside the loop, a failing step, a worker that dies; under Bull nobody awaits the walk, and where Node ends the process on an unhandled rejection, the first two are followed by the third |

Only folders are modelled: the other kinds of objects have a row and a flag, and no walk.
The tree stands still: `Parent` is a constant, no folder is moved or created meanwhile, and
none reaches the state DELETED.

### History variables

The code has windows in which a promise fails, and no property would survive
without naming them. They are recorded when they open, never guessed afterwards:

| Variable | Recorded when |
| --- | --- |
| `disturbed` | a sweep passes its check while a client of the user is live (still joining, or on a server that did not answer), a connect comes during a sweep, or a key expires under a client |
| `killed` | a crash takes a connection or a handler of the user |
| `crossed` | two updates of the user's socket list are between read and write together |
| `missed` | a room command reaches a server while a socket it is meant for is between query and joins, and contradicts the query |
| `torn` | two requests overlap on a member, or one dies before it has published |
| `misjudged` | a send emits to a user it took for online, who has no socket in the rooms |
| `overtaken` | a row is saved between the query and the delete of a resend to that user |
| `cut` | a resend emits to a socket that is gone |
| `excused` | (`AckRecovery`) the message expires, the SET of its key fails, or a recovery that has taken the key fails or emits to a socket that is gone |
| `handed`, `acked`, `copies` | a message is handed over, acknowledged, counted |
| `added`, `drift` | (`ChatCounters`) a message is added to the unread counters; a counter was recounted or reset while a send was between INSERT and UPDATE, or counts a message never added, or one added after it was seen |
| `metCount`, `metUse` | two listeners have loaded the same counter; or a deletion is counted before its message |
| `overlap` | a deletion of a message and another edit or deletion of it are under way together |
| `owed` | (`LastModified`) the date of a user has risen since the last push that reached them |
| `lowered`, `outrun` | a date changed between the read and the write of the stored function; the SELECT after a missed UPDATE finds a row of an older change |
| `missed`, `unpushed` | a rise is left to a row whose push is already out; a push that is followed by the delete of its rows has not reached the user |
| `early`, `finished`, `again` | (`Ordering`) a request listed the keys before another was set; a key has been DONE; a reset runs that was done or whose key is gone |
| `given` | a job was never added, dropped, or given up by an exception, at any of its steps, without a last status |
| `stale`, `unsaved`, `undone` | a reset renumbered under a sort; an update of an object failed; a reset set the time of an object back |
| `met`, `touched` | (`TrashFolders`) two walks ran side by side; the folders whose flag a walk has set |
| `crossed` | two changes of the row of a folder have their jobs or walks in another order than the changes: a row changes while the job of an earlier change is not yet queued; a walk changes it while a job about the folder is still to come or waits; a recovery removes too late, when its row is gone and another is there |
| `purged` | a client deletes the row of a folder for good |
| `broken`, `unwalked` | what a failure leaves half done or unreached |
| `untold` | a row is gone and its tombstone was not saved, by an insert or (Bull) a queue that failed; or a walk was given up between tombstone and remove |

They are read by properties only: no guard mentions them. What they name is allowed for, not
caught: a property that mentions one says that nothing else goes wrong, and the notes of the
hazards in `PROJECT.json` say which window is meant.

## 3. Runs

Every run explores its instance completely.

| Run | Instance | States | Shows |
| --- | --- | --- | --- |
| `presence` | one user, 3 clients on 2 servers | 0.3 M | `FlagIsPresence`, `ListCoversOnline`, `LeftIsOffline` |
| `socket_cache` | one user, 2 clients on 2 servers | 1.2 M | `CacheIsLive`, `RemovedStaysRemoved` |
| `channel_rooms` | 1 channel, 2 users with a client each, 2 requests, 2 ids, 1 server | 2.5 M | `RoomsMatchRows`, `NoOrphanRows` |
| `members_in_room` | the same | | the handshake gap: `MembersAreInRoom` fails |
| `delivery` | 1 user, 2 clients, 2 of 3 messages, 1 status update | 0.5 M | `NoSilentLoss`, `OnceWithoutQoS`, `MailMovesForward`, `ResentOnConnect` |
| `ack_recovery` | 1 user, 2 clients, 2 messages | 0.9 M | `Recoverable`, `AckedIsOver`, `MailMovesForward`, `RecoveredOnConnect` |
| `resends_only_unsent` | 2 clients, 2 messages, 1 status update | | a message marked as read is sent again |
| `kept_until_online` | 2 clients, 2 messages with `qos = 1` | | a row is deleted unsent |
| `chat_counters` | 2 users, 2 messages, 3 requests, 1 failure | 2.7 M | `UnreadIsExact`, `CountIsExact`, `UsageIsExact`, `DeletedIsGone` |
| `last_modified` | 2 users, a change of each kind, pages of 1, dates to 2, 1 redelivery, restart or push that misses | 0.4 M | `NeverBack`, `DoneIsRecorded`, `ToldOrWaiting`, `Told` |
| `ordering` | 2 resets, a sort of one object, 1 crash or job given up | 2.4 M | `OneReset`, `StaleOnlyIfEarly`, `KeyHasJob`, `DoneMeansDone`, `OnlyForward` |
| `trash_folders` | 4 folders in 3 levels with 2 requests, or 2 folders in 2 levels with 3; 1 failure | 2.6 M | `FlagsAreRows`, `NoneLiveBelow`, `TombsAreGone` |

Bounds. A socket id is used once, so a client that reconnects is another socket:
three clients are a disconnect, its reconnect and a bystander. One user is enough
for presence and the socket list, because other users touch only the list, and
only to add to it; the theorems cover the rest. In `channel_rooms` two ids
let a name be deleted and created again under a request that holds the old id, and
two requests make every pair of kinds overlap; the properties speak of one socket
at a time and each server has its own queue, so one server suffices. `Init` takes
every content of the tables, so deeper histories of rows need no more requests.
The two requests are interchangeable and the run has no liveness property, so
symmetry is sound. In `delivery` at most two of three messages are sent: one with
`qos = 1`, and beside it a delayed one with `qos = 1`, which a resend of the first may find or
overlook, or one with `qos = 0` that is stored and delayed. The status update goes to a message
that is alone, or to one whose send has failed beside another, so that its row comes while a
resend of the other is under way. `kept_until_online` has two messages with `qos = 1`, because
the row that is lost is not that of the message resent. In `ack_recovery` two messages let a recovery take, load and
emit one while the other is still being written, and two clients make two recoveries,
or a recovery and an acknowledgement, race for a key; users share nothing.

In `chat_counters` two messages are what a counter needs to be lost or counted twice,
and a message that is no chat message (a notice) is one of them; three requests are two
that overlap and one that comes after, or two recounts and one more (`MaxSeen`). In
`last_modified` the own and the shared change meet on one user, the put and the shared
one on the other; with pages of one row the cron job takes two, and dates to 2 tell older
from newer. In `ordering` two resets exclude each other, or fail to, and a sort runs
between them; items are written independently of each other, so one shows every
outcome of a write, and times 0 and 1 are before and after the sort's. In `trash_folders`
three levels with two leaves are the smallest tree in which a walk goes down and up more
than one step and has brothers to come back to, and two requests make two walks that may
meet. A row that changes three times (trashed again between the find and the remove of
its recovery) takes three requests, which a folder and its parent are enough for: the
same run explores that tree as well, without a deletion for good among the three (a row
so deleted is excused). One failure is enough for every property, as each speaks of what a single one may break.

`CHECK_DEADLOCK FALSE` is stated everywhere, because clients, requests and messages
are used once and a behaviour ends when they are spent.

Fairness. `Presence`: weak fairness of the handlers of each socket, since a Node
server runs every callback whose reply has arrived and every timer that is due; a
crash ends them, and is excused through `killed`. `Delivery`: weak fairness of each
resend, which includes the step by which it fails. `AckRecovery`: weak fairness of
each recovery, without the step by which it fails: that one may cut it off at any
time, and `RecoveredOnConnect` says so. Clients, requests and failures
are never fair. `LastModified`: weak fairness of the steps of each job that was taken or
queued, of the cron job and of the clock: queues deliver, statements are answered and the
timer fires; failures, redeliveries and restarts are not fair, so a job that failed and a
cron job that is stuck are excuses of `Told`, and so is a push that has not reached the user,
whose row is deleted with the others.

Refinement. `OnlyForward` in the run `ordering` is `JobStatus` with `ClientView` for its
status: every step of `Ordering` is, for every request, a step of it or a stutter.
`MailMovesForward` in `delivery` and `ack_recovery` is `Mailbox` with `Mail(m, u)` for its
state, for every message and recipient. What it adds to the invariants is the way between
the states: nothing kept is dropped, not even by a send that failed after it saved, nothing
refused is handed over unless it is saved after all, and what was handed over stays so.

### What the runs found

- **Handshake gap** (`members_in_room`). A member added while a client of theirs is
  between query and joins has no socket in the room until the client reconnects;
  `README.md:31` of `WebsocketBE` says that users on the channel receive it.
- **Overwritten condition** (`resends_only_unsent`). `getMessageUnsent` calls
  `where` twice; the status is ignored, and what the user has read is sent again: in the
  run, a message whose status is set to read between the connect and the query.
- **Delete of what was not sent** (`kept_until_online`). `userResent` deletes by
  user, not by the messages it emitted: the row of another message, saved since its query,
  goes as well. `README.md:36` promises the resend.

## 4. Proofs

`tlapm` checks the proof modules to the last leaf, for every value of the constants
allowed by the assumptions of the module they extend: that functions have the right type
and that sets of names do not overlap. Two modules need a finite set: `LastModified`
(`User`, because the cron job counts rows) and `TrashFolders` (`Folder`, because a table
holds finitely many rows and a query returns a list). Every safety invariant and action
property of a passing run is a theorem, and so are the refinements.

**SocketCacheProofs** begins with `Presence`, which it composes with: `PresenceTypeCorrect`,
`FlagIsTruth` (`[]FlagIsPresence`) and `OnlineIsListed` (`[]ListCoversOnline`), for `Spec`
of `Presence`. Neither property is inductive: they speak of settled users, and a step that
settles a user says nothing of how the flag came to be. `PresenceInv` therefore says what
every suspended handler still has to do:

- `Phases`: how far the handlers of a socket can be, given the life of its
  connection; the sweep of a socket that has gone has been started, or a crash has
  ended it;
- `RoomIsLive`: only live sockets are in rooms, so an empty view is the only thing
  a sweep of an undisturbed user can see when nobody is live;
- `NoLateSweep`: no sweep is past its check while an undisturbed user has a client;
- `LiveIsFlagged` and `FlagHasReason`: a client that has set the flag keeps it up,
  and behind a flag stands a client or a sweep that will take it down;
- `LiveIsListed` and `WritesItself`: the same for the list; a handler about to write
  the list back has its own user in what it read.

For a settled user, `LiveIsFlagged` gives one direction of the property,
`FlagHasReason` the other, and `LiveIsListed` the second property.

Of the composition it proves `TypeCorrect`, `ListIsTrue` (`[]CacheIsLive`) and
`RemovalStands` (`RemovedStaysRemoved`, an action property). A handler writes back a whole
list it read before, so `Good` says of every list in flight what it says of the one in
Redis: the other sockets are in it if they are live and were added, and only if they were
not removed. It is inductive because two sockets of a user never both wait to write,
unless recorded (`OneWriter`). `NoSweepOnLive` keeps a sweep from clearing the list under a
live socket, `Stages` says how far the updates of a socket can be, `OwnSockets` that lists
of users do not mix.

**DeliveryProofs** proves `TypeCorrect`, `NothingLostSilently` (`[]NoSilentLoss`)
and `SentOnceWithoutQoS` (`OnceWithoutQoS`, an action property: whoever connects after
the one moment of a `qos = 0` message is not handed it). `IInv` adds: a row belongs to a
stored message (`RowsAreStored`); only recipients are taken to be offline; a resend
that waits to emit has in its batch every `qos = 1` row of its user it will delete,
unless overtaken (`BatchHasRows`), and one that waits to delete has handed those
messages over, unless overtaken or cut (`DeleteIsDue`); a recipient taken for offline
has a row or a copy from the save of the rows on, with the same exceptions
(`OfflineIsSafe`), one taken for online a copy from the emit on, unless misjudged
(`OnlineIsSafe`); a batch holds `qos = 1` messages only (`BatchIsQoS`), and a
`qos = 0` message has no copies before its emit and one for each client at it (`OnceAtEmit`),
which happens once (`EmitIsOnce`). Each invariant was
checked by TLC on the instance of its run before it was proved.

`MailIsNeverDropped` (`Spec => MailMovesForward`) is the refinement of `Mailbox`. A step
maps to a step or a stutter because copies, windows and failures are never taken back
(`Stands`), a row goes only after its message was handed over or exposed (`RowsStay`, from
`DeleteIsDue`), and no copy comes from nowhere: what a resend is about to emit has a
row, or was handed over or exposed meanwhile (`BatchIsKept`, an invariant of its own), so
nothing refused is handed over (`HandsKept`). `NoSilentLoss` excludes "lost".

**AckRecoveryProofs** proves `TypeCorrect`, `NothingUnrecoverable`
(`[]Recoverable`) and `AckIsFinal` (`[]AckedIsOver`). `AckedIsOver` is not inductive:
a key is written by a step that does not look at acknowledgements. `WrittenFirst`
says that whoever has a message, or a key to it, has it after the key of its user was
written; `OnlyWhileSending` that keys are written before the emit. `Recoverable` is
carried from the moment the key is written (`KeptSinceWritten`), and survives the
load because a message no longer cached has expired (`GoneIsExpired`).
`MailIsNeverDropped` is here as well: what is kept is passed on, from the key to the
recovery that took it and from there to a client (`KeptStays`); a client is given only
what was kept or is sent for the first time (`HandsHeld`); and nothing is "lost", because
`KeptSinceWritten` holds from the key on (`NoneLost`, with `JudgedFirst`: a send that has
not begun believes nobody online).

**OrderingProofs** proves `TypeCorrect`, `ResetsAreExclusive` (`[]OneReset`),
`SortsAreNotStale` (`[]StaleOnlyIfEarly`), `StatusHasJob` (`[]KeyHasJob`), `DoneIsDone`
(`[]DoneMeansDone`) and `StatusMovesForward` (`Spec => OnlyForward`, the refinement).
The first two rest on `PassedMeansOver`: a request that has passed the key of a reset was
right to, and only a reset that runs again runs since. `LaterIsEarly` says that whoever
listed the keys before a reset had one has that recorded, `StaleWasPassed` that a sort
that writes was accepted. The others need how far a job can be, given its key
(`JobFitsKey`, `FinishedIsDone`, `JobAfterReply`, `NothingBefore`), and that what a sort
has written stands (`WrittenStands`). The refinement is proved per action: each changes
the key of one request at most, and `JobFitsKey` says from where.

**LastModifiedProofs** proves `TypeCorrect`, `DatesNeverGoBack` (`NeverBack`, an action
property), `NoChangeIsLost` (`[]DoneIsRecorded`) and `RiseIsPushedOrWaits`
(`[]ToldOrWaiting`). `Recorded` extends the promise to handlers past their write;
`SeenIsOld` says that what the stored function has read is no newer than the row, unless
recorded. `RisenIsCovered` names who still has to write a row of `push_change`, and
`RisenSincePush` that, once a push is out, only those who have not looked at the row yet
count. Both leave out the users a push did not reach.

**ChatCountersProofs** proves `TypeCorrect`, `UnreadAlwaysExact` (`[]UnreadIsExact`),
`CountAlwaysExact` (`[]CountIsExact`), `UsageAlwaysExact` (`[]UsageIsExact`) and
`DeletedStaysGone` (`[]DeletedIsGone`). For the first, `AddedOnce` says that a message is
added to the counters once and after its INSERT, and `CountedIsSaved` that a request saves
the number of what it has counted; a step that appends to the log leaves positions alone
(`PositionOfSent`). What the rows of the channel hold, and what a listener has loaded of
them, is counted already (`CountFits`), and is exactly the count until two listeners meet
(`CountIsKnown`); `UsageIsKnown` and `UsageAdds` say the same of a user, as messages counted
less deletions counted. That takes that no message is deleted twice (`DeletedOnce`): a
deletion that is over has left its mark in the history, by which the next one is refused
(`DeletionIsKnown`). Sums of rows are cardinalities of sets (`Total`, by `Units`), which need
neither a fold nor induction. For the last property, `EditIsAlone` says what an edit under
way may rely on, `DeletionIsSaved` what a deletion has written before its history row, and
`WritersOnly` which requests write at all.

**ChannelRoomsProofs** proves `TypeCorrect`, `RoomsAreRight` (`[]RoomsMatchRows`) and
`NoRowIsOrphaned` (`[]NoOrphanRows`), also for several servers, which the run has not.
A request changes rows first and tells the servers later, so `RoomsMatchRows` is not
inductive. `Apart` says that requests that touch the same member are recorded,
`StillThere` that the channel of a request that touches anybody is the one it found;
hence a changed row is what will be published (`Owed`). For a pair nobody owes anything,
`Agree` compares the row with the last command on its way to a server, or, when there is
none, with the rooms of the socket (during the handshake: with what its query returned).
`Cleared` keeps rows away between the two deletes of `deleteChannel`.

**TrashFoldersProofs** proves `TypeCorrect`, `TombsAlwaysGone` (`[]TombsAreGone`),
`FlagsAlwaysRows` (`[]FlagsAreRows`) and `NeverLiveBelow` (`[]NoneLiveBelow`), for a tree of any
shape and any number of requests and failures. All three properties speak of the end,
when nothing is under way, and none is inductive.

- `TombsFit`, for tombstones: a row that is gone has its tombstone, or the request that
  removed it is about to save it; a tombstone is of a row that is gone, or that the walk
  that saved it removes on its way back.
- `FlagsFit`, for every folder to which nothing the property allows for has happened
  (`Calm`): the last change of its row has the last job about it (`LastJobOf`); a walk that
  has to do with the folder leaves it as its row says (`FlagsOf`); and when no job and no
  walk is left that has, flag and links are those of the row (`SettledOf`). A step of a walk
  needs that the walk is alone with the folder: two that are active are recorded
  (`MarksAll`), a job is taken once (`JobsOnce`), so a second one would have raced.
- `BelowFits`, for the tree: while a live folder is below a trashed one that is calm and
  has no job to come, some walk will see to one of the two (`Seen`, `SeesTo`), unless a walk
  that should have was given up. The walk down reads
  the live children after it has set the flag of their parent; the walk up reads the flag of
  the parent after it has set its own.

Without the last disjuncts of `crossed` and `Raced(Parent[f])` the two properties hold with
two requests and yet are false, which the proof came upon first: it stopped at a recovery
whose row had been replaced between its find and its remove, at walks that insert or
remove the row of a folder whose job waits, and at two walks of Bull that race on the
parent. TLC shows each of the four with a third request. They are what the code does, and
what the properties now allow for.

Model-checked only: liveness under fairness (`LeftIsOffline`, `ResentOnConnect`,
`RecoveredOnConnect`, `Told`), which is out of the prover's reach.

## 5. Not modelled

System channels and the broadcast room (joined before any await, never left); the
room list `ws_user_room` (written, never read: the call that read it is commented
out at `client.listener.ts:103`); push notifications; `ignoreUser`; reads. A Redis
or database error in a handshake is covered as a crash of the server of the socket
in `Presence`, and as a client that leaves in the other modules. The fallible reads
and writes of a send and of a request are the actions `Fail`, `Abort`, `SaveFails`,
`UpdateFails` and `ResendFails`.

Of the chat: sizes and attachments, forwarding, reactions, pins, and the membership check
of a send (which ignores `revoke_date`: a single guard, no protocol). Of the ordering: the
computation of the numbers, group sorts of kanbans, the realtime events. Of the trash:
objects other than folders, moves of folders and their state DELETED, and the worker's purge
of what hangs below a folder deleted for good. Of last-modified: the deduplication of jobs by their id, and the interface
to APNs. The other services of the repository are listed,
with the reason, in `PROJECT.json`.

## 6. Plan

What is done is above. What is left, in this order:

1. Sharing of collections: the life cycle of a share between owner and members, through
   the API, its queue and the worker that moves what was shared.
2. The purge of what hangs below a folder deleted for good, as a further kind of walk of
   `TrashFolders`.
3. `AckRecovery` composed with `Delivery`: what a client may get twice, and how an
   acknowledged message still has its status row.
4. The order-number arithmetic of sorts as operators against a reference order.
5. One more abstract specification: presence as one atomic switch per user, implemented by
   `Presence` on undisturbed behaviours; the refinement as a theorem.
