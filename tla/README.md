# Verification of melogoldServer

TLA+ modules, TLC runs and TLAPS proofs about the sync server of Melogold (TypeScript, Fastify,
Kysely over SQLite or PostgreSQL). The code is in `src/src`, its documents in `src/docs`. A line
such as `page.ts:295` names a file below `src/src`.

`PROJECT.json` lists the components, the runs, the mutant of each property, the source lines each
definition stands for, the hazards with the properties that watch them, and the theorems.

```
tlc -workers 2 -config SyncPullPage.cfg MCSyncPull.tla     # one run
tlapm SyncPullProofs.tla                                   # the proofs
```

## 1. The system

One process serves many users; a user has several devices. Everything a user owns is in one
database. The write transactions of POST /sync, texts, logins, links, credentials, revoke-others, deletion, the purge,
the cleanup of devices and `rotate-epoch` start with `lockUser` (`SELECT ... FOR UPDATE` of the user's row of `sync_heads`),
so these writes of one user are serial. A new recovery code, its confirmation, the renaming and the revocation of one device,
logout, refresh, the guard's touch of a device, playback, shares and the steps of linking before its completion do without: on
SQLite, with one write transaction at a time, that makes no difference, on PostgreSQL (read committed) another write may commit
between their statements. Reads run in a transaction of their own. After a commit, events go to the open event streams of the user's other devices.

| component | state it keeps | operations | what is hard about it |
|---|---|---|---|
| Head, transactions (`db/heads.ts`, `db/tx.ts`) | head = `(epoch, seq)` of a user | `lockUser`, `next`, `bumpHead`, `ensureHead` | a seq per row, unique, and never beyond the head, whoever writes |
| Cursor, page (`sync/cursor.ts`, `page.ts`) | none; the device keeps the cursor | `parseCursor`, `readPage` | two streams over many tables cut by one budget; rows rewritten, deleted or added between two pages; a restored head that grows past an old cursor |
| POST /sync (`sync/sync.service.ts`, `wins.ts`, `tracks.ts`, `quotas.ts`) | journal of ops, satellite tracks | `applyOps`, `findPrevious`, `readPage` | repeats of lost answers, ops deferred at a quota, clocks of several devices, the touched rows read in a second transaction |
| Registers (`sync/ops/*-set.ts`) | likes, bookmarks, overrides, lyrics pins | one op each | which of two concurrent edits wins; an edit without effect |
| Playlists (`sync/playlists`, `sync/ops/playlist-*.ts`) | playlists, items with a membership and a position register, redirects | create, update, delete, import, add, move, remove, replace | order under concurrent moves, rebalanced keys, `item_count`, recovery of a deleted playlist |
| History (`sync/ops/play-*.ts`, `history-*.ts`, `retention.job.ts`) | events, statistics, watermarks | play.add, baseline, clear, forget, retention | late events after a clear; physical deletion beside readers |
| Lyrics (`modules/lyrics`) | one version per user and track, numbered by a counter of the user | PUT, DELETE, changes | no head and no epoch; the first load leaves tombstones out |
| Live hub (`live/live.hub.ts`) | open streams, coalescing slots | register, publish, publishCoalesced, close | who is told after merged writes; limits with eviction; close callbacks |
| Event stream, recheck (`live/live.routes.ts`, `revalidate.ts`) | timers, a recheck under way | open, heartbeat, recheck | a stream opened between the guard and a removal |
| Refresh (`auth/refresh.service.ts`, `http/auth-guard.ts`) | refresh tokens with successors | refresh, logout, confirm, cleanup | lost answers and reuse; two refreshes at a time; unknown tokens after a restore |
| Registration, login (`auth/*`) | users, throttle, argon2 pool | register, login | limits counted beside concurrent requests |
| Account (`account/*`) | password, auth_version, deletion | change, recover, delete, purge | concurrent changes; a purge in batches |
| Devices (`devices/*`, `lib/device-removal.ts`) | device rows | list, rename, remove, inactivity | effects after the commit; candidates read before the lock |
| Linking (`linking/*`) | links, waiters of the long poll | create, claim, approve, poll, cancel, expire | exactly one device per link, lost answers, lost wake-ups |
| Playback (`playback/playback.*`) | one state per user | put, handoff, clear, retention | compare-and-set, revs across tombstones, silent heartbeats |
| Remote control (`playback/remote.*`, `devices.*`) | presence, remembered commands | connect, command | a repeat is looked up before an await and remembered after it |
| Maintenance (`maintenance/*`, `server.service.ts`) | backups, the pending flag | backup, restore, rotate-epoch | a restore must refuse every old cursor, also after a crash halfway |
| Jobs (`jobs/*`) | timers, running flags | start, tick, stop | a job never runs twice at once, and runs again |
| Semaphore, disk guard, limits (`lib/semaphore.ts`, `http/*`) | permits, queues, counters | acquire, release, abort | a permit lost between abort and hand-over |
| Shares, policy, input, schema, CLI | rows, no state | | computations on data, input and output |

How they meet: an op of POST /sync calls the registers, playlists and history inside one write
transaction, then reads the page in a read transaction, then publishes `sync.changed` through the
live hub. Refresh, devices, account and linking all remove devices through
`lib/device-removal.ts`, which closes streams of the hub after the commit. Restore and
`rotate-epoch` change the epochs the cursors carry and open the grace window of Refresh.

The clients are not in the repository; DESIGN.md 3.13-3.15 prescribes their loop, and the modules
take from there what a device does with an answer. Those definitions are marked external in the map.

## 2. Modules

| module | what it is |
|---|---|
| `SyncPull` | what POST /sync promises a reader: numbered rows, the two-stream page, cursors, epochs, coalesced wake-ups, backups and restores, physical deletion, a device that loses answers |
| `SyncOps` | the op runner with the journal, replays, deferral, conflict clocks, track stubs and the registers of likes, bookmarks, overrides and pins; composed with `SyncPull` (`Pull == INSTANCE SyncPull WITH ...`), which it implements |
| `Playlists` | all playlist ops over membership and position registers, with `SortKeys` (fractional keys, the rebalance) and `MergePlan` (the five passes of POST /sync/merge-plan) |
| `History` | plays, totals, marks of what was cleared or forgotten, the caps, and the retention job |
| `Lyrics` | the lyrics of a user and the devices that follow them |
| `LiveHub` | the event streams of a user: limits and eviction, coalesced events, closing, the heartbeat and its recheck |
| `Playback` | the one playback state: rules, compare-and-set, retention, the event of a change |
| `Refresh` | the refresh tokens of one device: rotation, lost answers, reuse, sign-in and sign-out, cleanup, restore |
| `Account` | accounts and devices: registration, login, credentials, revocation, deletion and purge, the cleanup of devices |
| `Linking` | linking a device by QR or code: links, decisions, the long poll, the completion |
| `SyncPullProofs`, `SyncOpsProofs`, `PlaylistsProofs`, `HistoryProofs`, `RefreshProofs`, `AccountProofs`, `LinkingProofs`, `NewsProofs` (of `LiveHub`, `Lyrics` and `Playback`) | the proofs |
| `SyncOpsAnswers` | `SyncOps` with a history of the first evaluation of each op, for an observation of section 4 |
| `MC...` | constants, symmetry and model values for TLC |

An operator whose comment begins with "Variant" is a mistake the code could have made; `PROJECT.json` names it as a mutant.

The modules meet where the code meets. `SyncOps` maps its rows to those of `SyncPull` and implements it; what the
history and the playlists tell devices is the same page, so `History` keeps no seq at all, and `Playlists` keeps them to show that every
change gets one. `Playback` holds the coalescing window of `LiveHub` for its own event. `Account` removes devices and what that
closes is `LiveHub`; what it does to tokens is `Refresh`; `Linking` has sign-ins and removals as steps of the environment.

### SyncPull

State: the head `epoch`, `seq`; `row[k]` the seq of each key of each table (0: not stored); a
`backup`; `unpublished`, the authors whose event is still to come; per device the request, the
response, the cursor, its copy and whether it has a reason to ask. An action is one transaction or one
message: `DeviceCommit`/`LateCommit` (the write transaction of a request; late when its device gave
up on it), `Read` (the read transaction; `extra` are the touched and satellite rows),
`Retain` (the retention job deletes rows without the lock), `Publish`, `Refuse` (410), `Deliver`,
`StartOver`, `Abandon`, `Crash`, `TakeBackup`, `Restore`, `RotateEpoch`. A page is described by what
`page.ts` reads: `limit + 1` rows of each table above the cursor in seq order (`TableReads`), merged and
cut to the budget (`Cut`), history with the budget the library left.

`pull_page`: three tables, pages of one and two rows, batches of up to two rows.
`NoLostRow`: a cursor never passes a stored row its device lacks. `QuietMeansCurrent`:
a device at rest has everything. One device is enough for pages: devices share nothing
but rows, and writes of others are `Retain` and `LateCommit`; who is told after merged writes of
several devices is the subject of `LiveHub`.
`pull_epoch`: backups, restores and rotations with
a head that grows past the old one (two epochs, seqs up to 2: the smallest history in
which a cursor of a lost past is numerically valid again), and `Converges` under fairness.

Fairness of `pull_epoch`: a device goes on asking while it has a reason and the hub publishes what is
owed (weak fairness of `Loop`), and of the pulls a device repeats for ever some get through whole, from the
request to the page applied (strong fairness of `WholePull`: losses and timeouts are not permanent). Writes, crashes,
losses and backups are never forced.

### SyncOps

State beyond `SyncPull`: `registers` and `tracks`, the `journal` of ops, the server's `clock`,
the ops made, and per device its outbox, the ops of the request under way and those settled; `stray` holds
requests their device gave up on and the server may still run. An op is numbered when it is made and devices send their ops
in that order, so a request is the set of its ops. `Run` applies them one by one to what the transaction has written
so far, as `applyOps` does: `RunOp` looks for an earlier answer, the handler of the kind compares clocks (`EffectiveAt`, `Wins`),
the journal entry takes a seq of its own, a full quota defers the op, `UpsertTrack` runs
whatever the register decided, the head moves once.

`registers` holds the rows of all four kinds; a kind says what a clear leaves (a tombstone or an empty row), which content an
op carries and whether it brings a track. `Ahead` is how far a device's clock runs ahead; it is 0 in the runs, see section 4.

`ops_registers`: one device, likes of two tracks with two metadata and an override, room for one row of a kind and one track, pages of one row, two ops:
`LastWordKept` (a device's last word on a register stays), `LikesHaveTracks` (no like without its track, on the server and on every
device), `EffectOnce`.
`ops_implements`: one device, a like and a bookmark, with crashes, backups, restores and rotations: `Implements == Pull!Spec`, and
`OutboxDrains`, for which the loop of a device is weakly fair, and of the requests that carry its whole outbox some
commit, are read and are answered (strong fairness, the loop of DESIGN 3.13.4 with its back-off).
Two ops suffice for the registers: every conflict rule compares two values of one register. A second device adds nothing to the refinement,
which speaks of rows and seqs; it comes in as a stray request.

After a 410 the client of DESIGN 3.14 merges: it offers its whole local state with no base and keeps its
intents. The model keeps the intents, whose base is of an old epoch and therefore counts as null,
and leaves out the upload of the rest of the local state.

### Playlists, SortKeys, MergePlan

State: the head, the playlist rows, the item rows (presence, key, and the registers `mem` and `pos`), and the head each device
has pulled. An op is one step, because it runs under `lockUser`: `Create`, `Update`, `Delete`, `Import`, `Add`, `Move`, `Remove`, `Replace`,
each with the target that `findRecoveryTarget` gives it, the anchors, the winning ids, the room left, the placements and the keys issued, and
`commitItems` at the end. `SortKeys` issues keys as `sort-keys.ts` does: digits of `Base`, an integer part that grows and shrinks in length down to
`Smallest`, a fraction between two keys, and no key when the result is longer than `MaxLength`, upon which the whole playlist is rebalanced.
The bisection of `keysBetween` is a recursive function of the number of keys (`KeysBetween`, one step of it is `Spread`).
`MergePlan` is a function of the rows and the request.

`Chain[p]` is the chain of copies that `findRecoveryTarget` walks from p. An id of a copy is a hash of the id before it (`recoveryPlaylistId`), so
`ChainAssumption` says that chains continue each other and meet nowhere else. Hashes end nowhere and `Chain[p]` does, so `Sent` keeps to ops whose
chain is not used up; and a device invents ids of its own playlists at random, so it never creates a playlist under the id of a copy that it has
not been told of.

`playlists`: keys of at most three digits of base 2, so two inserts at one place rebalance; three items of a playlist, four rows
of the user, two live playlists and a chain of two recovery copies, so every quota is met; two devices with two times. Heads up to 5 at the
beginning of an op (an op writes up to four rows). The properties about one op (`PlacedAsShown`, `ImportYields`, `PlanRepeats`) are invariants
that try every op of every device in every state, so the last op of a behaviour is beyond the bound too. `Tidy` relates `item_count`, items, keys and the
recovery chain; `ChangesTold` says that every row an op touched, a rebalanced one too, gets a seq a device has not pulled.

### History

State: `plays` (with their effective time, whether they are in the history and when they came), `stats`, `forgets`, the journal, the
request that holds the head with the counters it read once (`Counters`), the retention job, and two history variables: `credit`, the times a total
is made of, and `counted`, when an op last changed a total. An op of a request is a step (`PlayAdd`, `PlayBaseline`, `HistoryClear`,
`HistoryForget`); the steps of the job (the journal, plays without history, expired history, excess over `HISTORY_MAX_EVENTS`, each in batches) come
between the ops, as they do in PostgreSQL.

`history`: six pools of up to five ops on two tracks; a behaviour sends the ops of one pool and sends them again, in any order, at any
time from 0 to 2. Both caps are 2 or less, and the limit may be lowered on the way. `Idempotency` is 1, so the journal is
deleted within the run and a baseline may come after it.
`ForgottenStays`: what was cleared or forgotten never comes back. `ResetHolds`: a total has nothing in it from before its last reset.
`Capped`: the caps hold, although a request counts once
and the job deletes meanwhile. `NothingOld`: a whole run of the job leaves no play past its time and none above the limit, whatever arrived while it ran.
`BaselinesOnce`: a repeated baseline changes no total while its journal entry is kept.

### Lyrics

State: the stored version (rev and text) of each video, and per device its request, the rev it has
reached, what it shows, and whether it has a reason to ask. `Write` is `writeLyrics`, `Page` is
`listMyLyricsChanges` with the look-ahead row and the jump of a first load. `Replaces` says what the client
does with an answer to `after = 0`: take it for everything there is (the passing runs), or merge it.

`lyrics_pages`: one device, three videos, four revs, pages of one and two: a load of several pages meets
writes and deletions (late ones of the device itself) between any two of them. `NothingMissed`: it never passes a version it does not show; with the
fairness of `pull_epoch`, `Converges`: it ends up with what is stored.

### Refresh

State: the clock, every token ever signed (`issued`; a token says its device and expiry whatever becomes of its
row), the stored `rows` with successor, window and confirmation, the `device` row, the requests under way by
phase (one phase per statement of `refresh`: `Look`, `Decide`, `Grant`, `GrantCommit`), late sign-outs, and the
token the device holds; `process`, `pending` and `stale`, the server with its flag `restore_pending` and the users whose epoch is still the copy's.
`Wins` is the compare-and-set of `markRotated`; `Repeat` the answer to a rotated token; a start after a restore rotates the epochs
in batches and may die between any two of them.

The run takes four deployments, each with its own bounds: on `tokens`, on the clock (`time`) and on the tokens issued before the last
copy (`copied`; with 0 that is the database of the start). In PostgreSQL refreshes interleave statement by statement (read committed). One PostgreSQL
server has late requests (a request its device gave up on may still run) and no restore; one has late requests and is restored from a dump of the operator,
which carries `restore_pending` as a copy of the server does (server.service.ts:97-101); one is restored from a dump without
late requests. In SQLite a refresh is one transaction at a time, abandoned requests do not run late, and the server restores copies of its own. A unit of time is
what the window (`Grace`), the expiry (`Ttl`) and the window after a restore (`RestoreGrace`) are counted in.

`refresh`: `OneFamily` in all of them: of the tokens a device may come with (the one it holds, those of requests under way, the answer it waits for)
one at most is current, and no other row is current unless two grants overlapped, which takes PostgreSQL, a restore and a late request
(section 4). `LateLogoutHarmless` in all of them too; where requests are not late also `NoFalseReuse` (a device that keeps to DESIGN 4.4 is never removed as stolen)
and `StaysSignedIn` (its session ends only for an excuse); and `ServedRotated` (no request is served with an epoch of the copy, whatever
starts died halfway). Two requests at a time are enough for a race of two. Three tokens in PostgreSQL are enough for a rotation and its repeat or a sign-in, four with a
restore for a grant on top; one instant is enough for two grants to overlap, three for a window to end. The copy of a dump is the first
state, that of SQLite is taken at any time up to the third token.
Two users and a batch of one: one death between two batches. The window after a restore is shorter than the window of a rotation, so
a lost answer of a grant outlives it; `Excused` has that as an excuse of its own (section 4).

Left out: the hwid check (requests carry their own), `revoked_at` (never set), the device's reported metadata, the
expiry of access tokens, and theft itself: only the device's own tokens are used.

### LiveHub

State: the device rows and `version` (`users.auth_version`); `admitted`, the requests that passed the guard and have no
stream yet; the open `streams` with their opening order; the coalescing `window` with the `authors` merged in it; `effects`, committed
removals and password changes whose closing of streams is to come; `timer` and `recheck`, the heartbeat loop with
the recheck under way; `seen`, the writes each device knows of or was told to read. `Open` is `openStream` with `register` (`Evicted` is
its two slices), `Publish`, `Merge`, `Flush`, `Deliver` are the coalesced event, `Beat`, `RecheckRead`, `RecheckApply`, `RecheckFails` the loop.
A removal or password change by another process leaves no effects. `MaxChanges` bounds writes, removals
and password changes together.

`live`: four openings, a device limit of two below a user limit of three, three changes, and at most five things under way together (`MaxLoad`):
each eviction rule is met with streams of both devices, two authors merge in one open window, and a change falls at every point between guard,
query and plan. `StaleStreamsClose` needs
the timers to fire (weak fairness of `Beat`), the recheck to go on (weak fairness of `RecheckApply`) and its query not to fail for ever (strong fairness
of `RecheckRead`); opening, leaving and failing are never forced. `NobodyMissesNews` and `RecheckSparesGood` need no fairness.

### Playback

State: the database (`overlap`), the clock, the `row` with its rev, `top` (the highest rev there ever was), one request per device
(read and decided, then the compare-and-set, then the event), the window of the hub (`windowOpen`) with its `pending` event, and the `view` of a device that only watches.
`PutRow` and `DeleteRow` are the decisions of `playback.rules.ts` with its three rules; `Significant` is what makes an event.
How far a position or volume moved is one bit of a write, and a queue is its length.

`playback`: two devices; a first state, its pause, a takeover, client clocks behind and ahead; two attempts; rows live for two units and the rev
runs at most one unit ahead of the clock (`Burst < Retention`: over a month writes do not average one per millisecond). `RevGrows` holds over
tombstones and rows retention deleted; `NoStaleTakeover` over lost races; `WatcherAgrees` is about SQLite, whose events are published in the order
of their commits (section 4).

### Account

Every operation checks first, hashes, and writes in a transaction that looks again. A task stands between the two
halves; whatever else happens comes between them. A transaction that takes `lockUser` first, or decides with its first update, is one
step. A new recovery code, a revocation and the cleanup read devices that others may write without that lock, so theirs are two
(`RotateReads`, `Rotate`; `RevokeReads`, `Revoke`; `InactiveReads`, `RemoveInactive`): with `overlap` (PostgreSQL) anything that the locks
allow (`Ready`) comes between them, without it (SQLite) nothing is written until the second (`Alone`). State: `users` (login, hash, `auth_version`, recovery code, and `gen`, which counts recoveries), `devices`, the `rows` of
an account in each table the purge empties, `tasks`, the `purge`, which database it is, and crashes, which lose what is under way.

`account`: two accounts, two devices at a time, a limit of two, two versions of credentials, mode "first", both databases, one crash; `MaxLoad` bounds what is under way,
so that the steps of two operations meet in every order. `KeptOut`: no device that came in by what a recovery or a reset replaced.
`RemovedDoNothing`: no transaction begins for a device that was removed while its request waited, and none writes then, unless it had begun, on
PostgreSQL. `UsedDevicesStay`: the cleanup aims at devices that are unused when it reads them, and on SQLite still when it writes.
`FirstIsAlone`, `NothingLeft`. Three machines with symmetry. Without the exceptions for PostgreSQL TLC refutes both action properties (section 4).

### Linking

State: the `links` (device_links) in the order of their creation, `devices`, `live` (links whose result token is current), `mine` (the poll
secret a new device holds), the `polls` under way (read, parked, waiting, completing), the decisions of signed-in devices (`asks`), and
two history variables: `said`, the final words given to anybody, and `sessions`. `EffectiveStatus` is computed as in the code, expired is
never stored. A poll reads first and registers its waiter afterwards; `Complete` is the transaction of `complete()` with the time it took
before. Removal is two steps (`RemoveLinks`, `RemoveRow`), as `removeDevicesInTx` makes them.

`linking`: one account, one approver, two new devices, two polls of one of them, one link, four instants with a lifetime of two.
`OneSession`, `WordKept`, and `ApprovedSettles`: fairness says that the server's steps of a poll run and that a device that shows a code polls on
(DESIGN 4.10.6). With one link the eviction of the oldest invite and the limits of active links are modelled but not reached;
the theorems below hold for any number.

## 3. What is proved

For every set of devices, tables, playlists, users and polls and every limit and bound, from the named assumptions of the modules:

| module | theorems | property of a run |
|---|---|---|
| `SyncPullProofs` | `Invariance`, `TypeCorrect`, `RowsNumbered`, `NothingLost`, `CursorsWithinHead`, `QuietIsCurrent` | `NoLostRow`, `CursorWithinHead`, `QuietMeansCurrent` |
| `SyncOpsProofs` | `Invariance`, `TypeCorrect`, `RunnerImplements`, `EffectsOnce`, `LikesAreNamed`, `LastWordsKept`, `DevicesSeeOps` | `Implements`, `EffectOnce`, `LikesHaveTracks`, `LastWordKept` |
| `RefreshProofs` | `Invariance`, `LinesHold`, `TypeCorrect`, `OneCurrentToken`, `OwnersAreNoThieves`, `CopiesEpochsAreGone`, `LateLogoutsAreHarmless`, `SessionsLast` | `OneFamily`, `NoFalseReuse`, `ServedRotated`, `LateLogoutHarmless`, `StaysSignedIn` |
| `AccountProofs` | `Invariance`, `TypeCorrect`, `RecoveryKeepsOut`, `DevicesStayInOrder`, `PurgeLeavesNothing`, `RemovedDevicesAreRefused`, `CleanupSparesTheUsed`, `FirstStaysAlone` | `KeptOut`, `NothingLeft`, `RemovedDoNothing`, `UsedDevicesStay`, `FirstIsAlone` |
| `NewsProofs`, of `LiveHub` | `TypeCorrect`, `LimitsHold`, `OldestGo`, `NewsArrives`, `LoopGoesOn`, `GoodStreamsStay` | `NobodyMissesNews`, `RecheckSparesGood` |
| `NewsProofs`, of `Lyrics` | `LyricsInvariance`, `LyricsTypeCorrect`, `NothingIsMissed` | `NothingMissed` |
| `NewsProofs`, of `Playback` | `PlaybackInvariance`, `PlaybackTypeCorrect`, `RevsGrow`, `TakeoversFair`, `WatchersAgree` | `RevGrows`, `NoStaleTakeover`, `WatcherAgrees` |
| `PlaylistsProofs` | `Invariance`, `TypeCorrect`, `TidyAlways`, `PlacedAsShownAlways`, `ImportsYield`, `ChangesAreTold` | `Tidy`, `PlacedAsShown`, `ImportYields`, `ChangesTold` |
| `HistoryProofs` | `Invariance`, `ForgottenForGood`, `ResetsHold`, `CapsHold`, `NothingOldStays`, `BaselinesCountOnce` | `ForgottenStays`, `ResetHolds`, `Capped`, `NothingOld`, `BaselinesOnce` |
| `LinkingProofs` | `Invariance`, `TypeCorrect`, `LinkedOnce`, `WordsKept` | `OneSession`, `WordKept` |

`SyncPullProofs`:

- Assumptions: those of `SyncPull` (a finite set of keys, each with its table; bounds are
  naturals; a removable table is one of the history).
- `NoLostRow` is not inductive. A response on its way carries a cursor its device will take over, so
  `ResponseComplete` says the same of the copy the device will have then; `ResponseOfAnswered` ties
  responses to requests, so that an abandoned answer is never delivered; `EpochsKnown` bounds every epoch in sight, so that a
  rotated epoch differs from all cursors out there; `CursorWithinHead` keeps a fresh seq above every valid
  cursor, and `SeqsUnique` makes a row and its seq one thing.
- The heart is `PageIsComplete`: whatever `limit + 1` rows of each table a page read, the rows it
  returns are exactly the unseen ones up to the seq its cursor moves to.
- `QuietMeansCurrent` needs to know why a device that lacks a row is not at rest: `NoLostWakeup` says that whatever a device
  lacks is covered by a reason to ask, a request under way, or the event of another author still to be published. `ExhaustedEnds`: an answer
  that reports no more rows ends at the head it read.

`SyncOpsProofs`:

- Assumptions: those of `SyncOps` (device ids are numbers, as the code compares them; finite sets of registers and devices;
  quotas and bounds are naturals). `LastWordsKept` is about clocks that are not ahead (`Ahead = 0`) and, as the property says,
  a database that was not copied: of a clock that is ahead TLC refutes it (section 4).
- A request of any length is a run of steps: `RunIsSteps` says that a run begins with what is stored, that each of its members
  follows from the one before by `Step` (what one op may do: set the register, name its track, write its journal entry, settle) or is equal to it,
  and `RunStays` carries any of the facts about a step to the end by the least place where one fails.
- `Sound` says of the tables, the journal and the head, and of their copy, that no row is beyond the head, that the head took at most three seqs per
  op of the journal, and that a like has its track or the tracks are full; and of the requests that their ops were made.
- `RunnerImplements`: a run writes only seqs above the head it found, each once (`Grown`, `Anew`), so it is a write of `SyncPull`; what a page reads is
  the same page. `SyncPullProofs` is an instance of the module, so its invariant holds of the registers and tracks and the proofs here use it
  (`DevicesSeeOps` lists what devices have of it).
- `Tracked` is what makes `LikesHaveTracks` inductive: it speaks of the copy a device has, and of the copy it will have with the
  response on its way. A track does not come later than its like: a stored like lacks its track only when the tracks are full
  (`Sound`), and full tracks take no more rows (`Grown`).
- `Word`: `LastWordKept` speaks of ops that left the outbox; to be there when that happens it must hold of an op from the moment the server has
  spoken on it, although its answer may be lost and an abandoned request may still run (`Spoken`). That an older op of a late request
  does not take the word back is `Carried`: a request has all earlier ops of its device but those the server has spoken on, and
  those are heard: without effect on the row, or older than what it says (`Stamped`).

`RefreshProofs`:

- Assumptions: the window of a rotation is no longer than the life of a token (both have their bounds in config/env.ts). Every
  deployment is allowed: overlapping or not, with late requests or not, restored or not.
- `IInv` has `Family`: a rotated row points to a younger token of the same login, signed when its window began. `Transactions` says
  what one that is under way may rely on; SQLite runs one write transaction at a time.
- `OneFamily` and `LateLogoutHarmless` rest on a second invariant, `Lines`: the tokens a device may come with (`Presented`), and those it may come with after a
  restore, lead along successors to the same current token (`Line`), a rotated token has the same successor in the database and in the copy (`Copies`), and the
  grant a device waits for deletes every row it could come with otherwise (`Deletes`). `Single` adds, where grants cannot overlap with those
  of late requests (`~Apart`), that no two rows are current at all.
- `NoFalseReuse` and `StaysSignedIn` rest on `Duty`, which holds unless abandoned requests run late: the device holds the
  newest token it knows of, it waits for one request of it, of the younger ones none was rotated or confirmed, and an answer on its way is a younger
  token that is still known. `Starting` says what a start after a restore has done already; it gives `ServedRotated`.

`AccountProofs`:

- Assumptions: `AccountAssumption` (limits and batches of at least one).
- A request acts on what it read before it hashed. `Informed` says how good that still is: a login that holds a hash of the account as it is,
  or a recovery that holds its code, is of the current generation, or the hash or code is outdated and the second look refuses it.
  `Salted` ties a hash to the version of the credentials, so that a rehash is no change of password.
- `Serial` says that on SQLite one transaction has begun at most, whose devices are as it read them; with it `RemovedDoNothing` and
  `UsedDevicesStay` reach until the write there. On PostgreSQL they are about what a transaction begins with (`WhoBegins`).
- `DevicesActive` and `Purging` are what keeps the purge apart from writes: a deleted account has no devices, and nothing that would add a row
  passes the second look.

`NewsProofs`, of `LiveHub`:

- Assumptions: those of `LiveHub` (limits of at least one, as the constructor of the hub asks; a finite set of devices).
- Limits: the streams that stay have fewer than `limit` newer ones, and they all have different numbers of newer ones
  (`OlderHasMore`), so they are at most `limit` (`FewAreKept`, a pigeonhole). The same comparison of ranks shows who goes first.
- `NewsArrives` rests on `Told`: why a device with a stream may not know of a write yet. The last alternative, that
  an author other than the device waits in the window, is what lets the trailing event skip an author.
- `GoodStreamsStay` rests on `StaleForGood`: a removed device does not return and `auth_version` only grows, so what a
  recheck read as stale still is when it acts. A restored backup breaks both, but the server is stopped
  for a restore (restore.ts:2), and its streams end with it.

`NewsProofs`, of `Lyrics`:

- Assumptions: those of `Lyrics` (finite sets of devices and videos, `NoText` is no text, naturals as bounds). `NothingIsMissed` is about a client that
  takes an answer to `after = 0` for everything there is (`Replaces`); of one that merges it TLC refutes it (section 4).
- A device shows every version up to the rev it has reached, and still does when it takes over the answer or the own text that is
  on its way (`AllShown`). That needs `Behind` (no device and no answer is ahead of the counter; a restored database, which breaks it, is section 4) and
  `Numbered` (no two versions of one rev).
- The heart is `PageShows`: a page that was cut, or jumped to the counter as the first load does, is complete up to its rev. That a
  page of every size exists (`PageExists`), and a least and a greatest number (`LeastExists`, `GreatestExists`), are proved
  by a least counterexample.

`NewsProofs`, of `Playback`:

- Assumptions: `ClockAssumption` (a row lives longer than the rev runs ahead of the clock), `InputAssumption` (the contract
  refuses an index outside its queue) and that null is no row.
- A rev cannot be compared with a row that is gone. `Revs` therefore says that a row that exists has the highest rev there
  ever was, and that without one the clock has passed it; retention waits long enough for the second.
- `Decisions` says that a request that decided holds a row made from what it saw, and that this is still the row when its rev is. The
  compare-and-set then carries the rules over to the row it replaces, after any number of lost races.
- `WatcherAgrees` rests on `Watched`, which holds on SQLite: one request at a time is between its read and its event, a decision that is not
  told leaves what is shown as it was, an event on its way is newer than those before it, and when none is the last one tells the row.

`PlaylistsProofs`:

- Assumptions: `KeyAssumption` and `OpenAssumption` (an alphabet of at least two digits, null is no key), `VideoAssumption` (finitely many videos, in the
  order of their ids), `ChainAssumption`, and what the contract guarantees of an op (`OpsAssumption`: no id twice in one op). The quotas, the length of a key and the
  number of integers are arbitrary, so the theorems hold where a rebalance is never needed and where every insert needs one.
- Sort keys: a midpoint is a proper fraction strictly between its bounds (`MidpointAbove` and the three cases of `Midpoint`), so a new key is strictly between two
  usable ones, and n keys rise between their bounds. What concerns n keys (of `KeysBetween`) or a whole list is proved by a least counterexample.
- Order: `Sorted` is the one list that goes through a set in the order of a relation (`SortedAscends`, `AscendingIsUnique`). An edit means one order,
  `FinalOrder`, and the rows have that order afterwards when keys were issued between the neighbours of each run, as when the whole playlist got fresh ones.
  This is why a rebalance is invisible to who placed the item.
- `Sound` is the inductive invariant, of what a transaction has written so far: rows are within the head (`Written`), the keys of a playlist differ (`Distinct`),
  `item_count` is right, nothing is left of what is not live, and a copy exists only of what is deleted (`CopyOfDead`, which `findRecoveryTarget` keeps because it
  passes only over deleted copies). `Steps` says what a handler does: it keeps `Sound`, moves the head on, and changes the rows of one playlist only, each under
  a seq of its own, or the playlist tells (`Tells`). `ChangesTold` follows from the second.
- `PlacedAsShown`: a run in `FinalOrder` is a block behind its lower neighbour (`Block`), which is what `applyAdd` and `applyMove` make of the list. For a mirror
  whose device has seen every row each edit wins, and the runs between the items of the longest rising subsequence put the list of ids together.
- `ImportYields`: a register with a time above 0 that the device has not pulled beats an import, whose edits have time 0.

`HistoryProofs`:

- Assumptions: `HistoryAssumption` (times are naturals, a play is of a track).
- `Marked`: `ForgottenStays` and `ResetHolds` are inductive together once `Times` bounds the marks and `Credits` says whose times a total
  holds. Each handler has one lemma; the job only deletes plays.
- `Kept`: the counters a request read are upper bounds of what they count, while the job deletes and the ops of the request add; they give
  `Capped`. `Swept` says what each step of the job has done away with already, whatever arrives meanwhile, and `Remembered` that
  a baseline has its journal entry as long as that is kept.

`LinkingProofs`:

- Assumptions: those of `Linking` (every approver has an account, limits of at least one).
- Every change of a row but the completion is a `Moved`: a final status stays, nothing becomes completed, and a link that reads as
  denied or cancelled goes on to (`Hopeless`, which covers the link whose approver's row is gone and that is cancelled without a write).
- `Rooted` (polls and decisions are about links there are) and `Words` (nothing is said of a link before it is there, and what is said of one is true)
  make the completion fit in: it finds an approved link, of which nothing final was said, with no session.

Only model-checked:

- the liveness properties (`Converges`, `OutboxDrains`, `StaleStreamsClose`, `ApprovedSettles`): the prover has no rules for fairness;
- `PlanRepeats`: the plan and the imports that follow it are folds over the request, whose step is an operator; what a fold computes for a request of any
  length needs an induction the prover cannot make.

## 4. Observations

Where the code does something else than a comment, a document or a reader may expect. Four have a configuration of their own, under which TLC finds
the violation:

- `HistoryRepeat.cfg` (`MCHistory`): a play is counted, `history.clear` of another device deletes its row, and the repeat of the `play.add`, whose answer
  was lost, counts again as a new op, because the row that would stop it is gone (play-add.ts:248; DESIGN.md:305 and DESIGN.md:744 promise one application).
- `SyncOpsRepeat.cfg` (`SyncOpsAnswers`): an op that wrote nothing is not journaled, and its repeat is evaluated
  again: the answer changes (sync.service.ts:290; against sync.service.ts:22-24).
- `LyricsFirst.cfg` (`MCLyrics`): `after = 0` is read as a first load, but a device whose library was empty stays at 0 while it
  saves texts; a deletion by another device is then hidden from it (lyrics.service.ts:164; API.md:1014).
- `LyricsRestore.cfg` (`MCLyrics`): the lyrics counter goes back with a restored database and has no epoch: devices ahead of
  it pass over new versions (lyrics.repository.ts:80; DESIGN.md:727).

Constants reproduce these:

- `Refresh.cfg` with `late` in the SQLite deployment violates `NoFalseReuse`: a refresh the device gave up on arrives after its
  repeat was answered and used, counts as reuse and removes the device (refresh.service.ts:165; DESIGN.md:867 says that
  network errors never touch the session).
- a family granted after a restore keeps no rotated row, so a lost answer of a grant is covered until the window of the restore ends and not for
  the whole window of a rotation (refresh.service.ts:113). The last line of `Excused` says so; without it `refresh` violates `StaysSignedIn`.
- with `overlap`, `restores` and `late` together two rows of a device may be current: after a restore from a dump an abandoned request and the
  next one are both granted a family, and neither sees the rows of the other (refresh.service.ts:105-124, session.ts:94). The device can come with
  one of the two only, so `OneFamily` asks for one current token among those it may come with, and for one current row everywhere else. Asked of every
  deployment, one current row is violated by `refresh`. The row nobody comes with goes with the next removal of the device, sign-in or cleanup.
- `SyncOps` with `Ahead > 0`: the times of a device whose clock is ahead are clamped to the server's, and its edits of one
  register within one request lose their order (wins.ts:25).
- `Account` without `~overlap` in `RemovedDoNothing` violates it: in PostgreSQL a removal may commit between the read and the write of
  `rotateRecoveryCode` (account.service.ts:199-206) and of `revokeDevice` (devices.service.ts:118-123), which take no `lockUser`. A removed device
  may still replace the recovery code, and two devices may revoke each other. For the same reason `revokeOtherDevices` does not keep
  devices from going between its check and the removal (devices.service.ts:129-130 says so): another revocation or a logout does not wait.
- `Account` without `~overlap` in `UsedDevicesStay` violates it: in PostgreSQL the guard's touch or a refresh may commit between `stillInactiveDevices` and
  the removal (inactive.job.ts:60-64), and the device goes although it was just used.
- `Playback` with `WatcherAgrees` also asked of PostgreSQL: events may be published in another order than their transactions
  committed, and the window keeps the last one it was given (playback.service.ts:166).

Met while reading:

- merge-plan: two local playlists with the same unknown id are both told to create it (merge-plan.ts:125-130 against merge-plan.ts:12-13); hence `Alone` in `PlanRepeats`.
- `removeDevicesInTx` cancels links without erasing what the new device reported (against linking.repository.ts:7-9).
- in PostgreSQL two concurrent invites or requests may exceed their limits (linking.service.ts:28).
- a write of POST /sync does not ask whether the account was deleted meanwhile (`Write` in `Account`); the cascade of the purge takes it.
- remote commands look a repeat up before an await and remember it after (remote.service.ts:78-105).
- a job that throws before it returns a promise leaves `running` set (scheduler.ts).
- confirming a recovery code compares its creation time only, to the millisecond.
- a SQLite restore that dies between moving the old database away and renaming the copy leaves no database.

## 5. Plan and its state

1. `SyncPull`, `SyncOps`, `Lyrics`, `Refresh`, `LiveHub`, with the proofs of `SyncPull` and `LiveHub`: done.
2. The other registers in `SyncOps`; starts that die between two batches of a restore in `Refresh`: done.
3. `Linking` with the long poll, `Playback`, `Playlists` with `SortKeys` and `MergePlan`, `Account`, `History`: done.
4. Proofs about `Playback`, `History`, `Linking`, `Account`, `Refresh`, `Lyrics` and `SyncOps`, which implements `SyncPull`: done.
5. `Playlists` with its sort keys as recursive functions, and the proofs about it: done.
6. Next: remote control with its bounded memory of commands, the scheduler and the semaphore.

The runs stay at one per question, twelve in all; each ends within a few minutes.

## 6. Not modelled

- Remote control: commands are stored nowhere; presence and the memory of repeats live in the process.
- Jobs, semaphore, disk guard, rate limits, the throttle of wrong passwords, proof of work and the argon2 pool: they delay or
  refuse requests, which every module allows at any time. What a job does is in the module of its data.
- Shares: insert, list and delete of single rows.
- Texts and shapes of requests, hashing, signatures, SQL and migrations,
  configuration, the command line, the HTTP layer's parsing and error texts: computations on data without
  concurrent state. Where a module depends on a shape or a limit the contract enforces, it is an assumption of the module, mapped there.
- Renaming a device, confirming a recovery code, the export of an account: single writes of a column nobody compares, or reads.
- SQLite and PostgreSQL are trusted to isolate transactions: write transactions that hold the
  user's head are serial among themselves, a read transaction sees one snapshot.
