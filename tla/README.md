# Gusvoice in TLA+

Gusvoice is a self-hosted messenger: direct messages and groups, servers with
voice channels, calls, federation between instances. This directory holds TLA+
models of the parts that hold protocol state. The core is the **direct-message
journal**: how a change of a conversation is written on the server, how it
reaches a device over two unreliable roads (live events and HTTP catch-up), and
what the device shows of it. Around it are the queue a device sends from, the
stream of events between instances, calls, and the list of who sits in a voice
channel. The modules are translated from the code, are checked by TLC on small
instances, and every safety property the passing runs check is also proved with
TLAPS for every instance: the whole way of a change from the conversation to the
feed (`ConvJournal`, `ConvCatchUp`, `ConvSync`, `ConvWindow`), the queue it is
sent from, the order of locks, the black list's cache, the stream between
instances, the records of calls and the list of a voice channel (section 5).
Liveness is model-checked only.

Paths below are relative to `src/`; *backend* is `packages/backend/src`,
*client* is `apps/client/src`.

## 1. The system

| Component | State | Operations | What is hard |
|---|---|---|---|
| DM journal (backend `conversations.ts`, `convRules.ts`, `convJournal.ts`, `routes/conv.ts`) | messages, read marks, pins, marks of each member; per person `user_sync` (`pts`, `min_pts`) and `user_changes` (numbered rows "this entity changed") | send, edit, hide, delete for both, read, mark, archive, pin, unpin, nightly pruning | one operation changes what several people see; a forgotten row is a silent hole in somebody's client; blocking makes views of the members differ |
| Row locks under it (also `convGroups.ts`, `federation/convChanges.ts`, `federation/convAccept.ts`) | PostgreSQL locks of `conversations`, `user_sync` and `fed_conv_sync` rows | every transaction above, operations on groups, copies from other instances | order of locks, two `journal()` calls in one transaction, the cleaning |
| Black list (`blocks.ts`) | `user_blocks`, a cache in the process | `blockUser`, `unblockUser`, `isBlockedBy` | a read that is at work while the list changes |
| Catch-up (`syncSince`, `catchupPlan`; client `syncOnce`, `resetAll`, `convCacheRules.ts`) | the device's number and copies, the record on disk | ask for "everything after my number", `reset`, take the list, restart from disk | pages cut at a limit, answers used late, pruning in between |
| Client synchronisation (client `convStore.ts`, `convSyncRules.ts`) | phase, number, buffer, retry and poll timers, state of the gateway | `runSync`, `convOnChange`, `convOnReady`, `convOnGatewayLost` | events out of order, lost or overtaken by answers; a snapshot taken before the socket was registered |
| Feed window (client `convSyncRules.ts`, `feedWindowRules.ts`) | a window of one conversation's history, freshness of every message, deleted ids | `applyPage` (latest, older, newer, jump), `applyMessage`, `applySent`, trimming, reset | several snapshots of different moments in flight |
| Outbox (client `outboxRules.ts`, `convStore.ts`, `convCacheWriter.ts`) | rows of messages not yet sent, the one being sent, timers; per browser the record on disk and the lock of the leading tab | enqueue, `pump`, retry, discard, reconnect, write to disk, take up after a restart | a lost answer, a cancelled sending, a killed page, two tabs with one record |
| Scheduled messages (backend `scheduled.ts`) | rows with a time | send now, change, the tick | the tick and the author take the same locks in two orders |
| Federation, stream of events (backend `federation/eventStream.ts`, `federation/outbox.ts`, shared `federation/events.ts`) | a link's last number, a queue of events; at the receiver the last number, the missing ones, the ids last seen | number, queue, post at once, the pass over the queue, receive | numbers overtake each other, answers are lost, either side restarts |
| Gateway and realtime bus (backend `gateway.ts`, `realtime.ts`) | sockets of each person | identify, publish | an event for nobody is dropped |
| DM calls (backend `calls.ts`, `callRules.ts`) | live calls in memory and in Redis | start, answer, end, timers, clean-up after restart | a call ends in several places at once, or the process does; another instance takes part |
| Voice presence (`packages/presence`) | who is in which room, in Redis | reconcile with LiveKit, poll, webhooks | passes overlap, LiveKit fails to answer |
| Coins, groups, polls, reactions, exchange of conversations between instances, push, permissions, uploads, bots, user interface | | | not modelled, section 6 |

How they interact: a route runs one transaction, `journal()` writes the rows and
numbers them under the lock of `user_sync`, and after the commit `deliver()`
builds one event per person in a transaction of its own and publishes it. A
device applies an event only if its number is the next one; any gap starts a
catch-up. Rows carry no data: both the event and the catch-up show an entity as
it is *when they are built*. Correctness of the whole therefore rests on four
promises:

1. **The journal tells everything**: whatever a person is shown of a conversation
   does not change without a row in his own journal (`ConvJournal`). One thing
   does, and is named: how far the peer has read, when the peer ends a block or
   reads while it lasts. It reaches the device with the next row of that
   conversation.
2. **The catch-up loses nothing**: whatever the device shows wrongly is named by
   a row above its number (`ConvCatchUp`, proved).
3. **Events may come in any order and the device is never stuck** (`ConvSync`).
4. **The window shows what the number says** (`ConvWindow`).

The other parts touch the journal at one point each: the outbox repeats a
sending with the same `client_id`, which `ConvJournal` takes once
(`NoDuplicateSend`); the end of a call and a scheduled message become messages
like any other; the stream between instances carries what the journal of another
instance is told.

## 2. Modules

| Module | Models | Composition |
|---|---|---|
| `ConvLog` | the abstract promise of one person's journal: numbered rows, pruning that admits itself | refined by `ConvJournal` (for every person), extended by `ConvCatchUp` |
| `ConvJournal` | the server's side of one direct conversation | `Log(u) == INSTANCE ConvLog WITH ...`, `JournalTellsEverything` |
| `ConvCatchUp` | a device that catches up over HTTP alone, with its disk | on top of `ConvLog` |
| `ConvSync` | a device with live events and catch-up | |
| `ConvWindow` | the feed of one conversation on a device | takes what `ConvSync` does to the number as one action |
| `JournalLocks` | the transactions of the journal, lock by lock, with those of scheduled messages | justifies that an operation of `ConvJournal` is one step |
| `BlockCache` | the black list's cache, await by await | |
| `ConvOutbox` | the sending queue of one conversation in the tabs of a browser | assumes of the server what `ConvJournal.NoDuplicateSend` shows |
| `FedStream` | both ends of the event stream of one link | |
| `DmCalls` | calls, their copy in Redis, their records | |
| `VoicePresence` | one voice channel, from LiveKit to the clients | |
| `ConvJournalProofs`, `ConvCatchUpProofs`, `ConvSyncProofs`, `ConvWindowProofs`, `ConvOutboxProofs`, `FedStreamProofs`, `DmCallsProofs` | inductive invariants and theorems of the module they are named after | each EXTENDS it |
| `SharedStateProofs` | the same for `JournalLocks`, `BlockCache` and `VoicePresence`, the three places where processes share rows or copies | EXTENDS all three, which is why the first two carry their name in `LocksSpec`, `BlocksSpec` and the like |
| `MCConvCatchUp`, `MCConvJournal`, `MCConvWindow`, `MCJournalLocks`, `MCBlockCache`, `MCConvOutbox`, `MCFedStream` | symmetry and bounds for TLC | |

Definitions commented "Wrong: ..." are not part of the model. Each is a
definition with a plausible mistake in it, used to show that the property it is
listed with in `PROJECT.json` does fail when the code is wrong in that way.

### ConvLog and ConvJournal

A message is known by its place: `nextSortKey` runs under the conversation's
lock, so keys grow in the order of the transactions. Contents are a version
number. Every operation is one transaction under `lockConversation`, hence one
action: `Create`, `Read`, `Edit`, `Hide`, `DeleteForBoth`, `Pin` (with the
service line `sendMessage` adds in the same transaction), `Unpin`,
`SetUnreadMark`, `SetArchived`, `PruneJournal`. Sending is three steps, as in the
route: `Decide` looks at the black list, `Create` (or `Replay`, for a known
`client_id`) is the transaction, `ReadOwn` marks everything up to it read;
`Abort` is a failure between them. `Decide` reads the table of blocks; that the
code asks a cache is the subject of `BlockCache`. Mutes decide who stays in the
archive; which mutes there are is left open (`Unarchive`'s `muting`). `Init` is a
conversation both members have in their lists: that a new one is shown to the
second member with its first message only (`pending`) is not modelled, and
numbers are counted from that moment. The times `peerReadKeys` compares (of a
block, of a message) are positions in the order of the transactions.

`ConvView(u)` is what person `u` would be sent: each message (`messageView`), his
list of pins, his summary (last message, unread count, marks) and how far his
peer has read, which the code sends inside the summary (`peerReadKey`) and which
is an entity of its own here (`Ticks`), so that it can be excepted alone. Every
row refreshes both. `Refreshes` is what `syncSince` sends for a row. Under this
mapping every step has to be a step of `ConvLog`, which is where a forgotten row
shows. The exception is `TicksUntold(u)`: the peer blocks `u` before the step,
"read by peer" grows, no other entity changes, and no row of `u` is written
(`readAudience` leaves him out, `blocks.ts:43-49` writes none). The rest of what
`summariesFor` puts into a summary is outside the view: the peer's profile, the
note about a stranger (`strangerSql` looks at black lists, contacts and servers,
whose changes write no row either), mutes, drafts, pinned chats, scheduled
messages, what is special to groups and the state of links.

Pruning removes rows by the time their transaction *began*, which need not
follow the numbers, so `PruneJournal` may remove any set of rows; `min_pts` goes
to the largest of them.

### ConvCatchUp

`copy` is what the device shows, `cursor` the number it believes itself right
at, `answer` the one HTTP answer on its way, `disk` the last record written. The
server side is `ConvLog`'s `Write` and `Prune` at any moment. `AnswerSync` is
`syncSince` with `catchupPlan` (`PageEnd`): a page that does not fit ends at the
last row handed out, and is stamped with that row's number. `reset` makes the
device take the whole list. Entities the device does not hold count as right,
since opening one fetches it.

### ConvSync

A view is known by the time it was taken, so "right up to n" is arithmetic:
`NothingSkipped` says that no number in (time of the view, device's number] is
about the entity. `Publish` builds the event with the view of *now*, `Break`
loses what was in the socket (and, when the server restarts, what was still to
be published), `Register` comes before `Ready` as in `handleIdentify`. `Finish`
is the end of `syncOnce` with `drainPlan`; it runs without an await, so nothing
gets in between. `Leave` is `convReset`: a generation is bumped, so that answers
on their way are void. `Hydrate` is the start from the record on disk, which may
be another tab's and therefore of any number the server has reached; the list
may be on its way then, asked for before the record was read (`AskFirst`).

### ConvWindow

The same encoding of views, for the messages of one feed. `Advance` stands for
everything `ConvSync` does to the number. Requests are answered from one snapshot
and land at any later moment, or never; so do the answers to a sending
(`TakeSent`), an edit (`TakeEdited`) and a deletion (`TakeRemoved`) of one's own.

Nothing in the code keeps a second page from being asked for while a first one is
on its way (opening, jumping and scrolling at both ends send their own requests),
so there are `Slots` requests at once, and their answers land in any order. A
piece whose edge is no longer the window's is thrown away (`Fits`).

Two history variables say where the code gives a guarantee up, so that the
invariants can say that it gives up nothing else:

* `missed` — messages of which the device gave up a view, or the number of one,
  while an older snapshot was on its way:
  * an event is dropped because there is no window yet (`applyMessage` returns at
    line 317, finding `window_loses_new`), or because a jump, or an older tail
    that landed after a newer one (`Math.max`, line 394), left a `basePts` larger
    than the tail's own;
  * the event of an edit is refused because its message lies outside the window
    (`insideWindow`), while an older page that has the message as it was is on its
    way;
  * a page is newer to the server but has a message older than a number the device
    still keeps of it without holding it (line 364): the message is passed over;
  * trimming forgets the numbers of the cut edge (`trimWindow`), and a jump
    replaces the window: what an older page on its way still shows of these
    messages is taken for news (`GivenUp`);
  * `applySent` puts an own message back with an old view but keeps its freshness
    (line 446), so that events up to that number are refused.
* `torn` — the window was glued over a gap, or where the device cannot tell that
  there is none:
  * by an old message edited during the request, which counts as "newer than the
    snapshot" (line 391, where the comment promises that nothing is glued), or by a
    newer one that a page brought in ahead of the device's own number;
  * by a tail older than the base of the window it lands in (line 394), or a last
    piece from below that is, which do not know what was written between the two;
  * by a tail, or a piece from below, joined only to messages that stand alone
    (`Known` fails: an answer to an own sending counts as "from an earlier snapshot"
    in line 384, and so does a message whose events were given up);
  * by `applySent`, which does not look at `insideWindow` and puts an own message
    into a window that is somewhere else in the history, or puts back one that was
    cut away.

A third thing the invariants leave open: a window at the tail whose messages
were all deleted, with more above, refuses every new message (`insideWindow`,
line 336) until the feed is opened again. `FeedHasNoHoles` speaks of windows
that hold something.

### JournalLocks

`ConvJournal` takes a transaction for one step. `JournalLocks` looks inside: a
transaction takes the conversation's row, then `user_sync` rows by the ids of the
people, then, when other instances hold the conversation, their `fed_conv_sync`
rows by the ids of the instances (`Journal(who, homes)`: `journal()` calls
`recordFedConvChanges` at its end; the writers that call `fedRecord` themselves do
so right after it). Whom and which instances a change concerns is left open.
The writers that differ are actions of their own:

* `PinForBoth` calls `journal()` twice for overlapping people;
* `AcceptCopy` does so for a deleted copy and for a line about people who left
  (`convAccept.ts:1222`, `1141`). Of the second call only people the first has not
  told take a lock. The other two calls of a second `journal()` there (an edit,
  lines 941, 950 and 982, 987) take none: those who have a pin are among the audience
  that was told;
* `GroupAction` (`convGroups.insertService`) takes the instances' rows before the
  people's;
* `Announce` takes no conversation;
* `Prune` takes many rows in the database's order.

A scheduled message is a row of its own: the author's request takes it after the
conversation, the tick before it, and does not wait for the conversation with the
row in its hands (`TickTakes`, `TickSends`: lock with `SKIP LOCKED`, give up, come
again). People and instances are numbers, as their ids are compared, and finitely
many (`LocksAssumption`). PostgreSQL (locks, detector) is external and modelled
from how it is used.

Left out are rows that are only ever taken under the lock of their conversation
(members, messages), statements on a single row without another lock
(`notePeerPull`, `convLink.ts:108`), and the unique indexes two creations of one
conversation wait at.

### BlockCache

`blockedSet` is three steps around its await: ask, the database answers, the set
is kept. `overtaken` remembers that the set kept was read before a change that
finished meanwhile.

### ConvOutbox

A row is `[key, status, attempts, waits, net, uploaded, file]`; `waits` stands for
a pause that is not over, `net` for "failed by the connection". `pump` is part of
every action that calls it (`Poke`, `Pump`), and a request is three steps: it
leaves, the server takes it, the answer comes; between any two it may be given
up, after which it still may arrive (`stray`). The record on disk is the
`outbox` of the cache record, which *every* tab writes with its own rows
(`Write`) and only the tab with the lock takes up (`TakeUp`). A record is refused
when the tab has no number yet (`buildRecord`) or a lower one than the record
there (`shouldOverwrite`): such tabs are `behind`. Numbers are not modelled. A tab
opened where no record is may be `behind`, a write may put any other open tab
`behind`, and `CaughtUp` ends it; while it lasts, `Write` is not possible and a
tab that closes loses what it has not written. An error may also come after the
message was stored (`Rejected` at "accepted": `fanOutSend` and `markRead` follow the
transaction at `routes/conv.ts:889-922`, and there are proxies); such a row is
tried again, or its cancelling forgotten, as after any other error.

The history variables name what the code gives up: `untold` (the author cannot
know that the server took the message: a request ended without an answer or with
an error after it was taken, or its deletion failed), `unsaved` (a page that went
before its last change was on disk, killed or with its record refused), `tangled`
(rows on disk touched by two tabs).

### FedStream

Both sides, await by await: `federation_links.out_event_seq` is taken in one
statement and the row of `federation_outbox` is written in another; a number is
posted at once and, if that fails, by the pass over the queue; the receiver reads
`last_event_seq` and `missing_event_seqs`, handles what `judgeEvent` lets through,
and writes them at the end of the request. `recent` is the memory of ids, which a
restart empties. `mixed` says that two requests were at work at once or one was
cut, `forgotten` that more numbers were missing than the list holds, `dropped`
that an event was thrown away with its link or never queued.

### DmCalls

`live` is the map of calls, `remote` that of calls another instance rings here,
`saved` the copy in Redis, `ending` a call that has left both and whose record is
not yet written, `feed` the records in the conversation. `startCall` is
`CheckFree`, `Register` and, for another instance, `Invited` or `Refused`;
`closeOrphanCalls` is `SweepRead` and one `SweepNext` for each copy, interleaved
with new calls since the process listens before it sweeps.

### VoicePresence

`reconcile` and `clearChannel` are one step per await (`List`, `Get`, `Set`,
`Sadd`; `Del`, `Srem`), run by the poll and by each webhook at once. What is in
Redis is `shown`, `polled`, `clock`; what the clients show is `view`. `raced` says
that a pass another one had overtaken changed the list or the set, `wiped` that a
`room_finished` was handled when people were in the room again: `clearChannel`
(`index.ts:188-192`, called at `305-306`) removes list and channel without looking.

## 3. Runs

| Run | Shows | Bounds |
|---|---|---|
| `catch_up` | the copy, the answer in flight and the record on disk are each right up to their number; the device ends up with the last number | 2 entities, 2 looks, 3 rows, pages of **one** row, so that cut pages, several pages in a row and pruning between them happen |
| `journal_changes` | `ConvJournal` implements `ConvLog` for both members; pins never outlive their message; nothing withheld leaves a trace | 2 members, 2 messages, 1 edit each, 4 rows per person, lists of one pin |
| `journal_sends` | one `client_id` is one message; read ticks never go back, are told, and stay hidden from the blocked; refinement with pruning, and with reading while blocks come and go | 2 requests with the same `client_id`, 2 messages, 2 rows per person |
| `sync` | no change skipped, a connected live device misses nothing, somebody always acts, and the device ends up live; with logging out and the record on disk | 2 entities, 2 rows, pages of one row |
| `window` | what is shown is right, without holes; nothing deleted returns | 3 messages, 4 changes, pages of 1 in a window of 2, 2 requests at once, one answer to a sending at a time (`MCConvWindow.Bound`) |
| `locks` | writers that journal once and in order never wait in a circle; every transaction ends | 2 transactions, 2 people and 1 other instance that share 2 conversations, one scheduled message |
| `block_cache` | the cache is wrong only by one race | 2 people, 2 reads and 2 writes at once |
| `fed_stream` | no event is lost unnoticed; none is handled twice while requests do not overlap; a hole has a cause | 2 events, 2 requests at once, batches of one, one missing number and one id remembered, 1 crash or pause |
| `calls` | each call has one record of the right kind, also over restarts; a cut call gets it | 2 people and a guest, 2 calls, 2 starts at once, 2 restarts or failed records |
| `outbox` | no row sleeps; order is kept; a cancelled message does not stay with the other person; a written one does not vanish | 2 tabs, 2 messages, one with a file, 2 attempts, 2 troubles (both tabs open together only before the second), every tab `behind` at any time |
| `presence` | an occupied channel is polled, its clock goes on, gone people disappear, the clients follow | 2 people, one webhook beside the poll, 3 moves, 2 faults |
| `window_loses_new` | violation: a message is in neither the page nor the window | 2 messages, 1 request |

Why these bounds: pages, windows, lists of pins and row counts are set at the
smallest size at which their limit is *reached*; a device two rows behind meets
every case of `catchupPlan`, `drainPlan` and `eventDecision` (fits, is cut, is
next, is old, leaves a gap). In `journal_*` all operations at once are too many, so
`Ops` names those that meet. In `window`, three changes meet every step and the
fourth is what a cut window needs; two requests are what one of them being older
needs, and are explored until something is given up. In `fed_stream` two events are enough for one
to overtake the other, to be missing and to be forgotten. In `outbox` two
messages make an order, two tabs a conflict, two attempts a last one.

What the bounds do not reach rests on the proofs. In `locks` every kind of writer
meets every other in a circle of two; circles of three or more are covered by
`NoCircleOfChanges` alone. In `fed_stream` the list of missing numbers is never
overfull, so `forgotten` stays empty there, and `NoEventIsLost` is what speaks of
it. In `presence` there is one webhook at a time beside the poll; good-byes of
two webhooks at once are covered by `GoodbyeKeepsTheClock`.

Deadlock is not checked where bounds (`MaxPts`, `MaxMsgs`) stop the instance.

**Fairness.** `catch_up`: weak fairness of the device's own steps (an HTTP
request is answered, an answer is taken); `EndsUpCaughtUp` assumes that from some
moment on only such steps happen. `sync`: `Progress` is weak fairness of what the
code schedules itself: answers, timers (`scheduleRetry`, `schedulePoll`), the
socket's reconnection, publishing and taking events; `EndsUpLive` is conditional
on `Quiet`, i.e. no more commits, losses, prunings, breaks or failed requests.
A lost event of the *last* change leaves the device behind until the next one;
the property says so (`lost`). `locks`: strong fairness of acquiring a row
(PostgreSQL queues waiters), weak fairness of committing, of its detector and of
the tick, which comes again. `calls`: the process goes on with records and with the
sweep it began. `presence`: the timers run, requests to LiveKit and Redis end,
LiveKit delivers what is not lost, a process that died is started again, a key
nobody extends expires. The people, the network and the failures get none.

## 4. Where the code and its comments part

One run ends in a violation on purpose; `PROJECT.json` quotes the comment under
`findings`. `window_loses_new`: the comment of `applyPage` promises that messages
newer than the snapshot, which came as events during the request, are not lost;
while there is no window yet, `applyMessage` drops them.

Met while modelling, and left open by the properties with a named exception:

* **Pins for both.** `pinMessage` calls `journal()` for those whose list changed and
  then, in the same transaction, `sendMessage`, which calls it for all members.
  `journalLockOrder` orders each call, not the two together: two such pins can
  wait in a circle until PostgreSQL ends one. `ChangesNeverCircle` excepts them;
  `EveryChangeEnds` does not. The same goes for a deleted copy and for people who
  left (`convAccept.ts:1222-1223`, `1141-1148`). In a deadlock with the nightly
  cleaning the victim may be the writer (`cleanup.ts:171` speaks of the cleaning
  alone).
* **Rows of other instances.** `convChanges.ts:104` says that `fed_conv_sync` is
  taken by all writers in one order, as `user_sync` is. That holds within the
  table, but an operation on a group takes it before people's rows
  (`convGroups.ts:60`, `79`) and everybody else after them: an operation on a group
  and a message in another conversation of the same people and instances can wait
  for each other until PostgreSQL ends one. `ChangesNeverCircle` names the case.
* **Read ticks.** When the peer ends a block, or reads while it lasts, "read by
  peer" of the blocked person changes on the server without a row for him
  (`blocks.ts:43-49`, `readAudience`): his devices show the old ticks until the
  next row of the conversation (`TicksUntold`).
* **Black list.** `blockedSet` keeps what it read however long ago
  (`StaleOnlyByRace` excepts `overtaken`); a block that commits between the route's
  look at the list and the transaction does not withhold the message.
* **Window.** The behaviours listed in section 2 (`missed`, `torn`, the emptied
  window). Those with two pages in flight came out of the proof: `WindowInv` is
  not inductive without `GivenUp`, and TLC shows each case with two requests.
* **Calls.** Two calls started at once both find the line free (`calls.ts:209`, an
  await before the call is registered) and both ring. A refused invitation leaves
  the copy a ping has made, which the next sweep records as a missed call. The
  sweep may meet the copy of a call that began after the restart and, if it ended
  meanwhile, record it again (`again`).
* **Outbox.** When the leading tab closes, the next one opened takes up from disk
  the rows of a third, still open one: both send them, harmless by `client_id`,
  unless the author discarded the row in between. A tab's write replaces rows on
  disk that are another's. Rows on disk are passed over when the tab has already
  rows of its own in that conversation (`{ ...outbox, ...get().outbox }`). A tab
  that is behind another in the journal cannot write its record
  (`convCacheRules.ts:147`), so rows written there are lost if the page goes before
  it has caught up. A message that was cancelled while its request was at work stays
  with the other person if the request then fails although the server took it: the
  catch of `pump` (`convStore.ts:713`) forgets the cancelling and deletes nothing.
* **Presence.** A failed `listParticipants` is taken for an empty room: an occupied
  channel leaves the polled set until its next webhook, and with a good-bye its
  clock stops. Of two overlapping passes the older may write last; the poll visits
  the channel again, but not once the older one has taken it off the set
  (`raced`). A `room_finished` handled late, when people are in the room again,
  empties the list and takes the channel off the set (`wiped`); it is unwatched and
  shown empty until its next webhook. An older list can reach the clients after a
  newer one (`outrun`).
* **Federation.** Requests of one link at work at once may handle an event twice
  (`mixed`; the handlers compare versions). A handler that throws loses its
  event, since its number counts as seen. A number that is taken and not queued
  before a crash stays missing for good. If the update that ends a request fails
  (`eventStream.ts:279`), its events count as unhandled and come again; the memory
  of ids catches them unless a restart follows. Of this only the crash before that
  update is an action (it sets `mixed`), the failed update is not.

## 5. Proofs

Eight modules hold proofs. Each states a few theorems of its component's `Spec`,
for every value of the constants, from the named assumptions alone: bounds are
naturals, limits have room for one (`LimitAssumption`, `SyncAssumption`,
`StreamAssumption`, `WindowAssumption`, `ConvAssumption`), a member has a peer,
guests are not users (`CallsAssumption`), people are finitely many, and numbers
where an order of ids matters (`LocksAssumption`, `CacheAssumption`), a sending is
tried at least once and "nobody" is not a tab (`OutboxAssumption`). The bounds of the
instances (`MaxMsgs`, `MaxPts`, ...) stay arbitrary naturals, so they bound nothing.

**ConvJournal.** `JournalInv` adds to the types that pins, read marks, rows and
unfinished requests name messages that are there and that no row names a message
withheld from its owner: a new message would else show through an old pin. It
gives `TypeCorrect`, `PinsGoWithTheMessage`, `NoMessageTwice` and
`WithheldStaysUntold`. `JournalImplementsLog` is the refinement: each operation is
looked at twice, what it does to the state and what each member is then sent
(`ConvView`) against the rows he gets (`Logged`); `StepHolds` is both together, and
messages never go or change their author (`MessagesStay`), which every row
already written rests on. Operations that change one message share
`MessageStepHolds`. `BlockedPeerHearsNothing`, `ReceiptIsTold` and
`TicksNeverGoBack` are about steps; the last two use `ReadMarks`, which says of
`PeerRead` that it is the largest key the peer has read below the first one kept
from view. In the refinement how far the peer has read is looked at by lemmas of its
own (`MarkOfKept`, `MarkSame`, `MarkGrows`, `MarkStays`): an operation leaves it
alone, or moves it and writes the row, or is a reading or an unblocking by a peer
who blocks, which is shown to be `TicksUntold` (`OnlyTicksMove`, `UntoldKeepRows`,
`UnblockMovesMarks`).

**ConvCatchUp.** `CatchUpMissesNothing` and `CaughtUp`. `NothingMissed` (every
stale entity of an accepted device is named by a stored row above its number) is
not inductive: the copy is replaced by an answer that was taken earlier, or by the
record on disk, and rows may be written and pruned in between. `CatchUpInv`
therefore says the same of three things at once — the copy at `cursor`, the copy
*after* the answer in flight at the answer's number, the disk's copy at its number
— each as long as the number is not below `min_pts`, and adds that nobody is ahead
of the server (`NeverAhead`) and that rows above `min_pts` have no gaps
(`NumbersWithoutGaps`). The work is in three lemmas: a `Write` keeps any copy
covered up to a number not above `pts` (`WriteKeepsCovered`), a `Prune` keeps it as
long as the number is not below the new `min_pts` (`PruneKeepsCovered`), and a page
merged into a covered copy is covered up to the end of the page (`PageCovers`).

**ConvSync.** `SyncInv` says that an event shows things no older than its number,
that a page ends no later than it was read (at the time of reading, unless it was
cut), and what a record read from disk during the first list leaves behind. With
`NoOlder` (no view is older than the number it is marked with) it gives
`NoViewSkipsANumber`; with `AnswerAccounted` (from the moment the gateway counts as
up, each number newer than the answer at hand is unsent, on its way, lost or in
the buffer) `LiveDeviceMissesNothing`. `NobodyWaitsForNobody` is `SomebodyActs`.

**ConvWindow.** `WindowInv` says of every view in the feed, every message of a page
on its way (`AnswersInv`) and every answer to an own sending (`SendsInv`) that it is
of the past and of a message that was there; of views also that they are no older
than their number (`msgPts`), unless given up. The heart is `Sound(q)`: of a
message which the answer `q` shows outdated the device knows a later number, or
that it is gone, or has given it up. Without it an old page could put back what an
event replaced. An older page lies above the window (`QuestionsInv`, `Fits`), which
is why `TakeOlder` may leave what is shown alone. `HistInv` (nothing happens to a
deleted message; messages are numbered as they come) is about the server.
Theorems: `FeedShowsWhatIs`, `DeletedStaysDeleted`, `LateEventBringsNoGhost`.

`FeedIsWhole` (`FeedHasNoHoles`) needs a second invariant on top, `HolesInv`. That
the device's number has seen no hole is not inductive: a page may come from a later
moment than the number, and a window joined to it is then only as whole as what it
was joined through. `Edges` therefore says that a message is beyond an edge where
there is more, not only when the number has seen it created but as soon as it is
`Due`: also up to the base of the tail, up to a number of the message itself, and
below any message known from a page or an event. Of a page on its way `Complete`
says that it leaves out only what it says is beyond it (`PageIsWhole`: from what
`First` and `Last` do to a finite set, `Ordered`), and `Ahead` that a message with a
later number is held, given up or gone, so that what was written after the page is
found in the window when it lands. `InsideOrAway` ties `insideWindow` to the edges:
an event puts a message into the window or it lies beyond an edge. The case that
takes the work is a tail that joins what is shown (`TailEdges`). The exceptions of
`torn` came out of this proof: each is a state in which the step fails.

**JournalLocks** (`SharedStateProofs`). `NoCircleOfChanges`: the rows of conversations,
scheduled messages, people and instances have an order (`Below`), the last two
tables swapped for an operation on a group, and a transaction that journals once
waits only upwards in the order of its kind (`WaitsUpwards`). In a circle where
nobody waits for an instance's row, or nobody acts on a group, the rows waited for
would ascend for ever. That leaves the case the property names.

**BlockCache** (`SharedStateProofs`). `OnlyARaceMakesItStale`, which is
`StaleOnlyByRace`: a set read and not
overtaken by a finished change equals the table unless a write is still to drop the
cache (`AtHandIsRight`).

**VoicePresence** (`SharedStateProofs`). `OccupiedIsWatched` speaks of a channel on
which nobody is at work; `PresenceInv` says what is true in between. At most one
pass that has read is not overtaken (`OneNewest`), so that, unless `raced`, all
that is written is written by it. `WatchInv`: an occupied channel is in the polled
set, or a webhook or a pass that has not read yet will ask (`Coming`), or a pass
that has read people is on its way to the set (`Working`, which counts an overtaken
one at its SADD); a list in Redis has its channel in the set or is about to. The
last is what a pass needs that finds the list unchanged and so leaves the set
alone. It gives `WatchedWhileOccupied`. `SitInv`: whom a pass saw when it read is
in the room until he leaves, so nobody who reads later finds it empty, and when the
pass is done the list is not empty; it gives `GoodbyeKeepsTheClock`. The two have
different exceptions (`lost` matters to the first alone), hence two invariants.

**FedStream.** `NoEventIsLost`: whatever pair of last and missing numbers the
receiver has, in the database or in the hands of a request, tells the truth
(`NumbersHonest`), and so does an answer the sender will act on
(`AnswersHonest`). `HandledOnceUnlessMixed` needs the converse while requests come
one at a time (`OneByOne`); `OnlyCausedHoles` that whoever sends a number sends
all below it that nothing excuses (`Complete`).

**DmCalls.** `CallsInv`: a call in memory that is not in the copy is one whose
invitation is under way, and an unused id has no trace; gives `NoCallIsForgotten`.
`RecordInv`: what is in memory or copy has no record, and what the sweep has yet to
look at is still in the copy as it read it, except for calls that began after the
process did; gives `CallHasOneRecord` and `AnsweredCallIsNotMissed`.

**ConvOutbox.** The four promises are theorems of one invariant, `OutboxInv`, which
they are themselves a part of; only `NoRowSleeps` is of what `pump` does alone. That
a cancelled
message is not sent again (`CancelledIsOut`) needs that what the server has or the
author removed stands nowhere it could be taken from: no row, no record on disk,
no list read from it (`Once`). That holds only because two tabs have a row in
common after they got `tangled` and not before (`Shared`). That order is kept
(`OrderIsKept`) needs `InTurn`: as long as a message may still go (it is not
`Past`), a later one of the same tab is neither sent nor on its way, and wherever
the later one stands — a queue, the record, a list just read — the earlier one
stands too; the rows being in order (`Lists`), it is the earlier one that
`nextToSend` finds. A page that writes a new row must have the earlier ones too, and
so `Found` says where a row must be that is not past: with the tab that wrote it, as
long as that is open, and also on disk if another tab has it. `Kept` (a tab loses no row that is not settled)
is what `QueueIsKept` needs when a tab writes the record or closes. Ten of the twenty
actions only send; they are shown to be calm steps (`CalmStep`: rows go only if
settled, the pump goes on or takes the next row), and the invariant is shown for
calm steps once. The others have a lemma each; which tabs are `behind` matters to
none (`NumberDoesNotMatter`, `CaughtUpKeeps`), since a refused record leaves the
disk as it was and the rows that go with the page are `unsaved`. The rows of a list are counted,
not filtered: `Without` and `NextToSend` speak of places, since the provers have no
induction over sequences.

Only model-checked, and why:

* liveness (`EndsUpCaughtUp`, `EndsUpLive`, `EveryChangeEnds`, `CutCallsAreClosed`,
  `GhostsExpire`, `ClientsFollow`): it needs fairness and `ENABLED`, outside the
  prover's reach.

## 6. Not modelled, and why

Groups, replies, reactions, drafts, attachments, albums, forwarding, batch
deletion, clearing of histories, polls and live locations are outside
`ConvJournal`; the merge of drafts and `refreshPeerRead`, which fills one field
once after an update of the server, are outside `ConvSync`, and so is a database
restored to older numbers, after which the events kept in the buffer over a reset
(`convStore.ts:490`) would never become consecutive.

`ConvOutbox` leaves out the way round through the peer's instance (`sendBoth`),
logging out, and a browser without a database or without room for the record.
`DmCalls` leaves out pushes, the read mark of a record, and a caller who is no
longer a member when the call ends (`record` then writes nothing,
`calls.ts:347-348`).
`VoicePresence` leaves out server mutes, who may see a channel, and that the clock
runs out too; it has one pass of the poll at a time, though `setInterval` has no
such guard. `FedStream` does not renumber a link that was broken and bound again,
nor check signatures and the receiver's own state of the link. Of scheduled
messages only the locks are modelled, not the delays after failures nor their
attachments.

Coins, the exchange of conversations between instances, handshakes and profiles
are planned. Push notifications, uploads, permissions, bots, the user interface
and packaging hold no protocol state that others wait for; the user interface is
most of the source, which is why the share of mapped lines is small.

## 7. Plan

1. Done: the modules of section 2; the proofs of section 5.
2. `ConvJournal`: groups with members that come and go, replies and reactions;
   coins; the exchange of conversations on top of `FedStream`.
