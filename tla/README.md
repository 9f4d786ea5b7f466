# TeleMatrix: specification and verification

TeleMatrix is a desktop Matrix client: a Qt user interface in C++ (`src/src`)
over a Rust core (`src/rust/src`) that wraps matrix-rust-sdk.  This directory
holds TLA+ models of the parts of it whose correctness depends on the order in
which several actors do things, the TLC runs that check them on small
instances, and TLAPS proofs of what matters most for every instance.

Sections: 1 the system, 2 the modules and what in the code they stand for,
3 the runs, 4 fairness and deadlock, 5 the proofs, 6 what the runs found,
7 what is left out, 8 the plan.

## 1. The system

### How the parts talk to each other

* The Qt main thread owns every widget and `AppController`.  It calls the
  core through `ProtocolBridge` and a C interface (`ffi.rs`).
* The core is one `MatrixProtocol` behind a handle (`tm_create` ..
  `tm_destroy`).  A call that takes time becomes a task on the handle's tokio
  runtime (several worker threads); its result comes back as a callback that is
  queued into the Qt event loop.  Tasks of one handle therefore interleave with
  each other at every `.await`, and run in parallel.
* Destroying the handle shuts the runtime down: tasks die at their next await
  point, a call on a blocking thread runs to its end.
* Disk (the SDK's four SQLite databases, TeleMatrix's own encrypted caches, the
  video cache), the system keychain and the settings file survive the process
  and are written one after the other.

### Components

| Component | State | Operations | What is hard, and what makes it correct |
|---|---|---|---|
| Session lifecycle (`matrix.rs`, `session_lifecycle_service.rs`, `session_storage_service.rs`, `auth_service.rs`, `store_guard.rs`) | the client, the pending store passphrase, `auth_generation`, the store lock, open caches; store directory and keychain | login, register, submit_registration_auth, restore_session, logout | crashes between keychain, settings and store; a logout beside a sign-in; partial deletions.  A saved session always finds its own store; no sign-in is destroyed by an older logout; everything ends |
| Session screens (`app_controller.cpp`) | which screen is up, its timers, the saved session | start, startup cleanup, persist, sign out, restore failure | timers that overtake a slow core; multi-write handlers.  No screen stays disabled |
| Video streaming cache (`media_stream/*`) | files, `.done` markers, entries, downloads, responses, sweeps | request, download, read, evict, reclaim, clear | cancelled downloads that still run, sweeps that act on an old listing, markers and files that are written separately.  A reused file is whole, a response ends, and ends cleanly only when it delivered everything |
| Secret store (`keychain.rs`, `secret_vault.rs`) | one cached bundle of all secrets; a keychain item or a sealed file behind it; the retained vault key | load, store, delete, erase, unlock, set a master password, switch backend | read-modify-write of one item for all accounts; two locks, and reads that need only one of them; an unreadable backend must not look like an empty one |
| Accounts (`app_controller.cpp`, `intro/`) | settings in memory and on disk, with a marker per account that names its backend | start-up gate, sign-in, choice of the key storage, sign-out, sweep of dead accounts | settings and secrets are separate writes; a process may be killed between any two.  A saved session is found by the next start, and no account is given up whose secrets are there |
| Unread state (`unread_state_store.cpp`, `history_widget.cpp`) | per room: server counts, mark, optimistic read, request ids | three snapshot feeds, reads, marks, receipts, acknowledgements | feeds and acknowledgements in any order; a read must neither come back nor stick |
| Resident timeline windows (`timeline_window_service.rs`, `timeline_navigation_service.rs`) | `windows`, `timelines`, LRU, build slots, the newest jump | three builders, release, LRU cap, jumps | maps filled and emptied one lock at a time; they must not stay in a state no builder repairs |
| Timeline pagination (`timeline_window.rs`, `timeline_navigation_service.rs`) | a window's range and mode, pagination tasks | paginate, jump, return to live | stale pagination results after a jump |
| Encrypted search backfill (`search_backfill.rs`, `search_index.rs`, `matrix.rs`) | index and checkpoint per room, workers, one flag for the process | batch, checkpoint, live writes, the setting on and off, rebuild | the checkpoint against writes that failed and indexes that were wiped; a setting of the process carried out account by account |
| Device verification (`verification_service.rs`) | flows, generation, tokens | request, SAS, QR, cancel | callbacks of a displaced flow |
| Sync and session tasks (`sliding_sync_service.rs`, `session_task_service.rs`) | task registry and its generation | spawn, abort all | a task registered late |
| Media transfer, uploads (`media_transfer_service.rs`, `upload_tasks.rs`) | in-flight requests, abort handles | fetch, cancel | single flight, cancel against completion |
| Room list, folders, message actions, notifications, updates, previews, presence, profile | mostly caches of server data | conversions | little control |
| FFI and protocol bridge | callbacks | marshalling | lifetimes of handles |
| User interface, playback, settings | widgets, player | painting, layout, player retry ladder | out of scope but for a few rules |

`PROJECT.json` lists every component with its sources and status, and under
`hazards` every place in the code where something hard to test can go wrong,
with the properties that cover it.

## 2. The modules

| Module | Stands for |
|---|---|
| `SessionLifecycle` | sign-in, restore and sign-out of one account directory: Qt main thread, authentication task, logout task, crashes |
| `SessionSafetyProofs`, `SessionOwnershipProofs` | the theorems about it (section 5) |
| `MediaStreamCache` | the video cache: requests, responses, download tasks, sweeps, crashes |
| `MCMediaStreamCache` | its symmetry set, for the safety run |
| `MediaStreamProofs` | the theorems about it (section 5) |
| `TimelineWindows` | which rooms have a resident window: the two maps, their builders, releases, the LRU cap, jumps |
| `MCTimelineWindows` | its symmetry set, for the safety run |
| `TimelineWindowsProofs` | the theorems about it (section 5) |
| `SecretCalls` | what each public call of `keychain.rs` does to the secret store, as functions of the store |
| `AtomicSecretStore` | what its callers may rely on: every call one atomic step |
| `SecretStore` | the same calls between the two locks of `keychain.rs`, with the reads that run beside them |
| `SecretStoreProofs` | its type invariant; that it implements `AtomicSecretStore` (section 5) |
| `AccountSecrets` | the accounts of the device on the one secret store: start-up, sign-in, key storage, sign-out, sweep, kills |
| `MCAccountSecrets` | its symmetry set and its state constraint, for the run `accounts` |
| `AccountSecretsProofs` | the theorems about it (section 5) |
| `UnreadState` | one room of the unread store, as functions of the room |
| `UnreadSync` | that room with the homeserver, the sync, the feeds, the open room and its receipts |
| `MCUnreadSync` | its bound on what is under way at once, for the run `unread` |
| `UnreadSyncProofs` | the theorems about it (section 5) |
| `SearchBackfill` | the encrypted search index of each account, its workers and the setting |
| `MCSearchBackfill` | its bound on changes of the setting and starts together, for the run `backfill` |
| `SearchBackfillProofs` | the theorems about it (section 5) |

The correspondence is per definition in `PROJECT.json` under `map`.

### SessionLifecycle

State.  `store` and `caches` are the SDK databases and the TeleMatrix caches on
disk, each reduced to *what it is encrypted with*: that is all the code can get
wrong about them.  `secSess` and `secLocal` are the keychain: a session's own
entries (access token, store and search passphrase; they are written and
deleted together) and the three passphrases of the directory.  `saved` is the
session the settings file names, `named` the one that the settings in memory
name; they differ while `saveSettings()` has failed.  `client`, `pending`, `generation`,
`storeLock`, `cacheOpen` are the fields of `MatrixProtocol` of those names (the
pending store passphrase, `auth_generation`, the per-directory lock of
`store_guard.rs`, the opened cache handles).  `auth` and `logout` are the two
tasks with their program counters, `ui` the screen or the place in a
multi-write handler of `AppController`.

Passphrases and sessions are numbered by the attempt that created them: a
passphrase is drawn at random and every login is a new device, so equality is
all that matters.

Actions.  A task is cut where another actor can see or change what it works
on: at lock acquisitions and at awaits between two writes of shared state.
`BeginSignIn` .. `SetClient` follow `login`/`register` through
`prepare_fresh_login` (`WipeStore`, `ResetCaches`), `build_client`
(`TakePassphrase`, `AcquireStore`, `OpenStore`), the server call (`SdkCall`,
which may answer with a registration challenge), `commit_session_secrets`
(`CommitSecrets`) and `activate_authenticated_session` (`OpenCacheStores`,
`SetClient`).  `BeginRestore` and `LoadSecrets` are the same for
`restore_session`.  `TakeClient` .. `ScrubSecrets` are `logout()`.  The main
thread's handlers are `Restart*`, `SignOut` .. `FinishSignOut`, `ReportSignIn`,
`ReportRestore`, `GiveUp*`, `CleanupTimer`; `Crash` may come between any two.

Failures are disjuncts of the actions, those that the code handles as well as
those that it ignores.  `WriteSettings` is `saveSettings()`, which only logs that
the file could not be written: `ReportSignIn`, `DropSettings`, `RestartAbsent`,
`ForgetSettings` and `GiveUpSettings` go on with the old file, and `SaveSettings`,
any later change of a setting, writes all of them again.  `ForgetSession` and
`ForgetLocalSecrets` are the main thread's deletes in the keychain, whose results
nobody looks at.  The removal of the store directory on a cache error
(`OpenCacheStores`) may leave it there.

`overtaken`, `unsaved`, `ghosts` and the field `alone` of a logout are history,
used by properties only: the current sign-in began in the tail of a logout; the
last write of the settings failed; the sessions that a failed write left in the
file with their passphrase in the keychain; no authentication ran beside this
logout.

### MediaStreamCache

State.  `file` maps a media to the inode under its path, `content` an inode to
the positions that were written, `done` says whether there is a marker: POSIX
semantics are needed because downloads, readers and sweeps hold handles and
paths of the same files.  `entries` is `MediaCache.entries`; `entry` a
`CacheEntry` with its progress channel, its cancel flag and its download task;
`reader` a response body; `sweep` a job on a blocking thread.

Actions.  `RequestCurrent`, `RequestReusable`, `RequestDownload` are the three
outcomes of `get_or_start`, which runs under the entries lock and does not
await; `WaitTotal`, `ReadChunk`, `HangUp` the response; `FetchOpen`,
`OpenFile`, `NextChunk`, `WriteMarker`, `Complete` the download task;
`ReclaimScan`, `EvictScan`, `WipeScan`, `Unlink` the sweeps, which list first
and unlink one path at a time; `EnforceBudget`, `ClearCaches` the two commands;
`Restart` a crash with the following start.

`undermined` is history: the media whose path was touched by an actor that did
not own it any more.

### TimelineWindows

State.  `window` and `timelines` are the maps `windows` (with the watcher map,
which the code fills and empties in the same places) and `timelines`; an entry
is the task that put it there, so two entries are equal exactly when they hold
the same SDK timeline.  `focused` says which jump a window shows.  `recent` is
`recent_rooms`, `building` is `creating_windows`, `latestJump` is
`focus_generations`.  `task` lists the futures that were spawned on the runtime
with a program counter each.

Actions.  `Start` is a call of the user interface, which becomes a task.  `Look`
and `LookLegacy` are `active_timeline_or_legacy()`, one map after the other under
its own lock, and `Mark` the touch of what they found; `Check`, `Claim`, `Build`
build a window; `WindowFirst` and `LegacySecond` are the two inserts of
`create_window_for_room()`, `LegacyFirst` and `WindowSecond` those of
`create_window_from_client()` and `create_window_after_join()`, in the order the
code has them; `Touch` and `Cap` are `touch_recent()` and `enforce_window_cap()`;
`DropWindow`, `DropLegacy` and `DropRecent` are `release_room()`, and `Without`
the `retain()` of both; `Focus`, `Current` and `Apply` the rest of
`focus_on_event()`; `ReturnToLive` is `return_to_live()`.  Each is what one task
does under one lock.

`raced` and `crossed` are history: the rooms in which two tasks were between
their two locks at once, and those that were released between the two inserts
of `create_window_for_room()`.

### SecretCalls, AtomicSecretStore, SecretStore

State.  `store` is the active backend, the retained vault key, the keychain
item, the vault file (a key number and what is sealed under it) and the cache.
A bundle is the set of the secrets it holds; a vault key is a number, 0 for
none, and a fresh derivation differs from the retained and the sealing key
because it salts afresh.  `call` is the call that holds the mutation guard, with
its place, `load` the load that holds the cache's lock, `reading` the threads in
`load_secret`.

Actions.  `Begin*` take the guard; `HitCache`, `BeginLoad`, `FetchLoad`,
`FillCache`, `FailLoad` are `load_bundle()`, cut where it holds the cache's lock
but not the guard; `SaveBundle`, `CopyBundle`, `SealBundle`, `EraseActive`,
`Flip`, `PeekCache`, `DropOther`, `Publish` are the steps of `store_bundle()`,
`switch_backend()`, `set_passphrase()`, `clear_all_secrets_locked()` and
`unlock()`.  Every write may fail (`FailSave`, `DropOther` with `kept`), and the
keychain may answer that it has no item when it has one.  `BeginPassphrase` comes
again, with the key of the attempt before still retained, when that attempt could not
seal the bundle and its form stayed open (`intro_create_password.cpp:144-151`).

`SecretStore` implements `AtomicSecretStore` under the mapping `Settled`: a call
under way shows nothing of what it did until it publishes, except that setting a
master password takes effect as soon as no bundle is left that it may seal.

### AccountSecrets

Uses the calls of `SecretCalls` as single steps, which the refinement justifies.
State: the settings in memory and on disk (a marker per signed-in account, the
preferred backend), the account on screen, the screen, and `todo`, the rest of
the handler that runs: each handler of `app_controller.cpp` is a sequence of
pieces (`scrub` one key, `clear` an entry, `save`, `wipe`, `sweep`, `bury`,
`persist`, `go`), and `Die` may come between any two.  `m` is how the keychain takes a
call: it answers, refuses, or withholds the item.  Each write may fail with nobody
looking: the settings file (`DoSave`), a delete (`DoScrub`), the removal
of the vault file (`DoWipe`).  A start that gives up its account at the gate still
runs the sweep behind it.  `Launch` .. `GiveUpToken` are
the start-up with its gate and dialogs, `CleanUp` .. `Commit` and `DoPersist`
the sign-in with the choice of the key storage, `SignOut*`, `GiveUpRestore`,
`DoSweep` and `DoBury` the ways an account ends: the sweep classifies all
accounts first, as `sweepUndeadAccounts()` does, then buries the dead one by one
and saves the settings once.

`asked`, `dropped` record who was signed out on request and by the program
itself; `causes` which of the known ways to lose secrets have been taken
(section 6).

### UnreadState, UnreadSync

`UnreadState` is `UnreadRoomState` with the functions of
`unread_state_store.cpp`, for one room; messages are numbered by their time.
`UnreadSync` puts around it what the Rust side knows (`rust`), its rooms cache
(`cache`), the bridge's copy of the list (`bridge`), the open room (`widget`)
and the requests to the server (`calls`).  `feeds` are the signals and
snapshots under way.  `Sync` raises them; `Refresh` asks for the list, which the
Rust side reads later (`AnswerList`) and the main thread applies later still
(`DeliverList`); these, `ListChanged`, `DeliverUnread` and `DeliverSlice` come in
any order; `ReadTo`,
`ReceiptTimer`, `MarkRead`, `MarkReadQuietly` are the reads and marks;
`MarkOnServer`, `MarkInCache`, `ReceiptOnServer`, `Fail`, `AckMark`,
`AckReceipt` the life of a request, which other requests may overtake.
`Told` is what a store update makes the open room do.

### SearchBackfill

State.  `index` is an account's database with its connection: indexed messages,
the checkpoint's token, the done mark.  `worker` are the backfill workers of an
account, `toggles` the tasks that `set_e2ee_search_enabled` has spawned and that
have not run, `flag` the process-wide `E2EE_SEARCH_ENABLED`, `saved` the setting
on disk.  Messages are numbered from the oldest, and a pagination token is the
message before which it goes on, 0 for none.

Actions.  `Launch`, `Restore`, `Toggle`, `SaveSettings`, `Die` are the process
and the setting; `TurnOff`, `TurnOn` the spawned tasks, in any order; `Scan`,
`ReadCheckpoint`, `Fetch`, `IndexBatch`, `SaveCheckpoint` one worker of
`search_backfill.rs`, cut at its awaits and at the lock of the index; `IndexLive`
the live indexer; `Search` a global search, which opens the index too.

Whatever touches the server or the database may fail.  `Fetch` may meet an empty
page anywhere in the history, which marks the room as done whatever end token came
with it, as the code does; a look at the done mark that fails counts as done
(`Scan`), one at the checkpoint begins again at the newest message
(`ReadCheckpoint`); a batch, a checkpoint or a done mark may not be written;
`TurnOff` may leave the files.  `EnsureOpen` may fail, or delete an index it cannot
open and make a new one, or fail to make it.

`since`, `missed`, `overtaken`, `starved` are history, used by properties only:
the newest message when the index was last emptied; the messages from then that
were fetched and not written, or lie below an empty page; the accounts whose
checkpoint a worker of an older index wrote; why an account may have no worker, or
its index not be wiped.

## 3. The runs

| Run | Question | Bounds | States |
|---|---|---|---|
| `lifecycle_crash` | Can crashes between any two steps make settings, keychain and store disagree? | 3 attempts, 3 generations, 3 crashes, no timer | 2,250,602 |
| `lifecycle_race` | What can a sign-in beside a slow logout suffer, and does everything end? | 2 attempts, 3 generations, 2 crashes, timers | 483,098 |
| `lifecycle_leftover` | Violated: the cleanup leaves no secrets | 2 attempts, 1 crash | counterexample |
| `media_safety` | Which interleavings can corrupt a file, an entry or a response? | 2 media, 1 reader, 2 chunks, 2 entries, 2 sweeps, 1 chore, 1 crash | 949,133 |
| `media_settle` | Does every response end? | 2 media, 2 readers, 2 entries, 1 sweep | 86,947 |
| `windows_safety` | How can the two maps come apart, and when does a room stay blank? | 2 rooms, a cap of 1, 3 tasks | 2,087,179 |
| `secrets` | Is every call of `keychain.rs` atomic, and does none wait for ever? | 2 secrets, 2 reading threads, 3 vault keys | 74,823 |
| `accounts` | Can a kill, a failing keychain or a choice of the key storage lose an account's secrets? | 3 accounts, 3 vault keys, until a cause other than a withheld bundle, at most one account left over between handlers | 3,851,500 |
| `unread` | Does the badge settle, hide only what was read, and keep what was read? | 2 messages, 2 requests, at most 4 things under way | 2,363,258 |
| `unread_receipt` | Violated: a read that the store masks has its receipt on the way | 2 messages, 2 requests | counterexample |
| `backfill` | What can an index miss, and when is an account without a worker? | 1 account, 2 messages, 2 workers, at most 3 of two changes of the setting and two starts | 2,952,357 |
| `search_off` | Violated: turning the setting off deletes every account's index | 2 accounts, 2 messages, 1 worker, 1 change, 1 process | counterexample |

What they show:

* `lifecycle_crash`: without the timers, a saved session whose secrets are
  complete finds the store they open (`SavedSessionRestorable`), and no task opens
  a store made with another passphrase (`OpensOnlyItsOwnStore`), both but for a
  session that settings and keychain failed to forget (`ghosts`); a registration
  challenge can be answered (`ChallengeKeepsItsStore`); a logout that reports
  success erased everything it was to erase (`LogoutErasesDeparted`); the session
  on screen is the one the settings name, with its secrets and its store, and it
  is the one a restart restores unless the last write of the settings failed
  (`LiveSessionIntact`); the store lock is held exactly where the code says
  (`StoreLockHeldWhereUsed`).
* `lifecycle_race`: with the 15 s timers all of that still holds unless the
  sign-in began in the tail of a logout (`OnlyTheWindowHurts`); section 6 says why
  the exception is needed.  Every disabled screen gives way
  (`ScreensComeBack`) and every sign-in ends (`SignInSettles`).
* `media_safety`: a marked file is whole (`OnlyStraysCorrupt`), a complete
  entry has its file (`OnlySweepsUnback`) and a response that ends cleanly
  delivered every byte (`CleanEndIsWhole`), unless a stray task or sweep touched
  that media's path (section 6: strays do).
  At most one download is live (`OneLiveDownload`).
* `media_settle`: a response never hangs, also when another video cancels its
  download.
* `windows_safety`: about a room nobody is busy with the two maps agree
  (`MapsAgreeUnlessRaced`) and a timeline has its window, without which the room
  stays blank (`BlankOnlyWhenCrossed`), except after two particular races; a
  build slot is taken exactly while one poll builds (`SlotsMatchBuilds`).
* `secrets`: every call takes effect at one instant (`CallsAreAtomic`, the
  refinement of `AtomicSecretStore`); no read that began before a write puts the
  old bundle back into the cache (`CacheIsCurrent`); the two locks are never
  waited for in a circle (`CallsReturn`).
* `accounts`: a saved session that nobody signed out has all its secrets in the
  copy that the next start reads (`SessionsAreFound`); the program gives up no
  account whose secrets are all there (`DropsAreEarned`); a vault that counts as
  unlocked and cannot be read locks out nobody who is signed in
  (`UnreadableVaultLocksOutNobody`).  Each holds until one of the causes of
  section 6, of which a withheld bundle alone does not justify a drop.  Who was
  asked to go or was given up stays excused until a save of the settings without
  it has succeeded.
* `unread`: at rest the store holds the server's count (`CountsConverge`) and
  hides no message but those read here (`HidesOnlyReads`), however the feeds
  overtake each other; a read is not shown again before the server has it
  (`ReadsAreKept`).  The exceptions in the three formulas are behaviours of the
  code that the run finds when one is left out (section 6).
* `backfill`: a room that is marked as done has indexed every message it had when
  its index was made, except batches that were fetched and not written and
  messages below an empty page, and unless a worker of an older index wrote its
  checkpoint (`DoneMeansIndexed`); with the setting on, an account has a worker
  unless its index was closed under it, or the tasks of two changes ran in the
  wrong order, or the change was not carried out for it (`EnabledMeansIndexing`).

Why the bounds are enough.  In the lifecycle an attempt, a crash and a restart
bring the disk back to one of a few shapes (no store, own store, foreign
store), and a hazard needs at most an old session, a departing one and a new
one: three attempts reach every pair, and a session followed by a registration
with its second stage; three crashes leave a ghost, restore it and end that
restore too.  Of `lifecycle_race` the two attempts are a sign-in beside the
logout of another session, and three generations a restore, its retry and a
sign-in in one process.  In the cache the hazards
need a victim and a cause: two media, a chunk boundary (two chunks), a
cancelled entry and its successor (two entries), an outstanding sweep beside
the one that a request spawns (two sweeps).  `Budget = 0` makes every marked
file evictable at once, so each sweep may take all of them.  Between the two maps a
race needs a task that is half way and a second one that crosses it; the third
finds what they left.  Two rooms and a cap of one make every second window one
too many.  In the secret store every hazard has one guarded call and the reads
that cross it (two threads, one of them the user interface's, whose calls exclude
each other); two secrets tell a bundle from its part; of three vault keys one is
retained, one seals the file and one is fresh, and keys that are none of these
are used up, not confused.  Of three accounts one is on screen, one is the one
that dies and one is the complete witness by which the sweep tells dead from
unreadable.  The state constraint of `accounts` cuts behaviours after a pure flip
of the backend or a new password beside a signed-in account: from there on the
first and the last property hold by their exceptions.  Its second part bounds what
failed writes leave: one account whose entry was not saved, or whose secrets stayed
without an entry, meets every handler, and two of them meet only the sweep, which
treats accounts alike.  In `unread` one message
is read while the other arrives, and of two requests one is late; four things
under way are both requests and two feeds that overtake each other.  In `backfill`
two pages lie above and below a stale token or an empty page, two changes are off
and on again, two workers the old and the new one, two processes one before and one
after a restart; three of the changes and starts together reach each of these.

## 4. Fairness and deadlock

`FairSpec` of `SessionLifecycle` assumes weak fairness of the authentication
task, of the logout task and of the main thread's own steps: tokio polls every
ready task, every wait in them is bounded (15 s for the client, request
time-outs in the SDK), and the Qt loop dispatches queued events.  Nothing is
assumed of the user, of the timers and of crashes; `FinishSignOut` by its timer
is not fair, so liveness does not lean on the timers.  `FairSpec` of
`MediaStreamCache` assumes it of each download task (connect bounded by 15 s, a
read by 30 s) and of each connection, and nothing of the sweeps: a job for a
blocking thread may wait as long as it likes.
`SecretStore` assumes weak fairness of the guarded call and of a load that holds
the cache's lock (each is a running thread, and the accesses to keychain and file
end), and strong fairness of the steps that first need the cache's lock: the
mutexes are those of the standard library, which hands a lock that becomes free
again and again to each waiting thread in the end.  Nothing makes a thread begin
a call.  `TimelineWindows`, `AccountSecrets`, `UnreadSync` and `SearchBackfill`
state safety only, so their specifications have no fairness.

Deadlock checking is on in `secrets` only, where the store can always be read.
Elsewhere the system may stop: the user may do nothing, messages, requests,
processes and the other bounds run out.

## 5. The proofs

Assumptions on the constants are the named `ASSUME`s of the modules (bounds are
naturals, the timer is a Boolean); `RestorableWithoutTimer` and the last three
theorems of `SessionOwnershipProofs` add `~SafetyTimer`.

* `SessionSafetyProofs!TypeCorrect`: `Spec => []TypeOK`, for any number of
  attempts, generations and crashes.
* `SessionSafetyProofs!RestorableOutsideTheWindow`: as long as the current sign-in
  did not begin in the tail of a logout, a saved session with complete secrets
  finds the store they open, unless it is a ghost.  The property is not inductive
  by itself: the invariant adds what each place of the two tasks knows about the
  pending passphrase, the open store and the lock (a task that commits secrets has
  the passphrase of the store on disk; a logout past its check has no
  authentication task it could hurt beside it).  Settings that could not be
  written split what is known in two: the session that the settings in memory name
  is restorable (`NamedRestorable`), and one that only the file still names has no
  passphrase in the keychain, or is a ghost (`LeftOver`).
* `SessionSafetyProofs!RestorableWithoutTimer`: if the timers never fire
  before a logout has ended, the same holds whenever the sign-in began: the forms stay
  disabled while a logout runs ("curtained"), so no sign-in begins in its tail.
* `SessionOwnershipProofs!OnlyTheWindow`: `Spec => []OnlyTheWindowHurts`, all four
  parts of it, with failing writes of the settings and failing deletes in the
  keychain.  What is claimed of the session on screen is what survives them: the
  settings in memory name it, its secrets, its store and its caches are there, and
  the file names it unless its last write failed (`unsaved`).  `OwnInv`, on top of
  the invariant before, follows the passphrase from the moment it is drawn: a
  first sign-in meets no store (`FreshStore`), the passphrase in hand stays the
  pending one until it is committed (`PassphraseKept`), a challenge is answered
  with it (`StageKept`), a restore reads the one its store has, unless its session is a
  ghost (`RestoreOpens`); the other parts carry what a sign-in or a restore has
  established over to the session on screen.  What a logout closes and scrubs in its tail is nobody's, by
  `NobodyToHurt`.  `!OwnStoreWithoutTimer`, `!ChallengeWithoutTimer`,
  `!LiveWithoutTimer` are its parts without the exception of the window when the
  timers never fire early; ghosts and a failed last write stay excepted.
* `SessionOwnershipProofs!LockHeldWhereUsed` and `!LogoutErases`:
  `StoreLockHeldWhereUsed` is inductive beside type correctness;
  `LogoutErasesDeparted` needs `EraseInv`, which says for each place of a logout
  with nobody beside it what it has erased so far.
* `TimelineWindowsProofs!MapsAgreeWithoutRaces`, `!BlankRoomsWereCrossed`: the
  two properties of `windows_safety` about the maps, for any set of rooms, any
  cap and any number of tasks.  What a step does to a room depends only on the
  tasks that are between their two locks in it, so the proof first shows that a
  step leaves a room alone or does one of six things there (`StepEffect`), and
  then argues about those: `OneAtATime` says what the only task half way has
  done so far, `BlankExplained` why a window may be missing at the moment.
* `TimelineWindowsProofs!TypeCorrect`: `TypeOK`, the clause that the LRU queue
  lists no room twice included.  `ShapeInvariant` is the part without the queue;
  `WithoutFacts` shows that dropping a room keeps the others, each once, so
  `touch_recent()` may put it in front (`TouchedFacts`).  `retain()` is written
  as a function of the place for this: `SelectSeq` is recursive and opaque to the
  prover.
* `TimelineWindowsProofs!SlotsFollowBuilds`: `SlotsMatchBuilds`.  `SlotInv` says who
  may hold a slot: it is taken by a poll that is building, by only one, and by no
  other kind of task.
* `MediaStreamProofs`: type correctness and the four safety properties of the
  video cache, for any number of media, connections, entries, sweeps and crashes:
  `TypeCorrect`, `DownloadsAlternate` (`OneLiveDownload`), `MarkedFilesAreComplete`
  (`OnlyStraysCorrupt`), `CompleteEntriesKeepFiles` (`OnlySweepsUnback`),
  `CleanEndsDeliver` (`CleanEndIsWhole`).  The invariant has five layers, each
  preserved with the help of those before it: `Shape` (the types), `Ledger` (what the
  flags of an entry say of each other and of the table of entries, and that only one
  download runs unstopped), `Paths` (whose file is at whose path), `FilesRight` (the
  file of an entry without an error holds exactly what it wrote, and no marker
  stands beside a partial file) and `Replies` (what a response may still rely on
  when its entry has been replaced).  The last two speak of media that are not in
  `undermined`, which is what makes them inductive.
* `SecretStoreProofs!TypeCorrect`, for any secrets, threads and vault keys, and
  under it the invariant `Fits` that the refinement needs: for each place of a
  guarded call, which part of the call's change the store shows already and that
  the bundle in hand is still the one a read would have answered (`CallFits`);
  that a load read the store it began on, unless a call is half way and will
  publish over it (`LoadFits`).  What carries it is that a load
  fills only a cold cache, and a call that has got its bundle has warmed it.
* `SecretStoreProofs!CallsTakeEffectAtOnce`: `Spec => Atomic!Spec` under the
  mapping `Settled`.  `EveryStep` shows that a step of the detailed store leaves
  `Settled` alone or changes it as one atomic call does: all steps of a call but
  its last stutter, and so do reads, except the one that fills a cold cache.
* `SecretStoreProofs!CacheStaysCurrent`: that the cache agrees with its
  backend is shown of each atomic call (`CallsKeepCurrent`), and holds of the
  detailed store because `Settled` is the store whenever no call is under way.
* `SearchBackfillProofs!TypeCorrect` and `!DoneRoomsAreIndexed`, for any number of
  accounts, messages, workers, changes and processes.  The property is not
  inductive: `CheckpointsSound` says of every checkpoint, and of what each worker
  of the present index has in hand, that all messages above the token are indexed
  or known to be missed: not written, or below an empty page; a worker of an older
  index is excepted until it writes, which is when it is recorded in `overtaken`.
* `SearchBackfillProofs!EnabledAccountsAreIndexed`: `EnabledMeansIndexing`.  `AllServed`
  strengthens it to the states in which changes of the setting are still pending:
  an account without a worker, and without one of the excuses in `starved`, still
  has a spawned "on" to come, or the setting is off.

* `AccountSecretsProofs!TypeCorrect`, `!SavedSessionsAreFound`
  (`SessionsAreFound`), `!NobodyIsLockedOut` (`UnreadableVaultLocksOutNobody`) and
  `!DropsJustified` (the action property `DropsAreEarned`), for any set of
  accounts and vault keys, and without the state constraint that the run needs.
  None is inductive, because settings and secrets are written apart and a handler
  may die in the middle.  `Handlers` says which steps of a handler may follow
  which (`Ordered`), that what is left of it takes secrets only from accounts that
  were given up or asked to go (`Excused`), and that these are all whom only the
  file still names, because a save failed or is still to come; `FileSound`, that
  there is nothing in a file that is not there; `OneCopy`, as long as nobody
  flipped the backend or set a new password, that the markers name the backend
  that runs (those on disk of an older moment, one backend for all: `Marked`),
  that the other copy has nothing of the accounts that count (`Known`: signed in
  by the settings in memory and not excused, or about to be), and that a warm
  cache knows all or nothing; `Kept`, as long as `causes` is empty, that they have
  all secrets.  A handler is a sequence of steps, so the lemmas `Popped` to
  `BuryPlans` carry `Ordered` through heads, tails and concatenations.
* `UnreadSyncProofs!TypeCorrect`, `!CountsDoConverge` (`CountsConverge`),
  `!HidesNothingElse` (`HidesOnlyReads`) and `!ReadsStay` (the action property
  `ReadsAreKept`), for any number of messages and requests.  The invariant says
  how far behind each copy may be: the Rust side behind the server and the lists
  behind the Rust side (`Behind`); whatever the device takes for a message has
  been seen by the Rust side (`Seen`); a pending read ends no later than the time
  that unmasks it (`Masked`); a slice in flight is that of the last sync, and the
  room is open (`SliceIsNew`); and when no list is due, asked for or on its way
  (`Owed`), the count came from the present list or from the SDK, unless a late
  snapshot was the last (`Settled`).

The assumptions on the constants of these modules: at least one vault key, at
least one message, bounds are naturals, the user interface's thread is one of the
readers, and the names for "no thread" and "the guarded call" are not threads.

Every invariant and action property of the passing runs is a theorem, and so is
the refinement `CallsAreAtomic`.  Only model-checked are the liveness properties
`ScreensComeBack`, `SignInSettles`, `ResponsesSettle` and `CallsReturn`: the
prover has no rule for `ENABLED`, and hence none for fairness.  The three
properties that fail (section 6) have no theorem.

## 6. What the runs found

Three runs show a disagreement between the code and what it says of itself; they
are the findings of `PROJECT.json`, with the quotations.

1. `lifecycle_leftover`: the startup cleanup does not know the session whose
   login crashed before the settings were saved; its three secrets stay in the
   keychain although the cleanup is said to wipe the keychain.
2. `search_off`: `E2EE_SEARCH_ENABLED` is one flag for the process, and a call
   that finds it already as asked does nothing.  The setting is applied account
   by account, so only the first account's index is deleted, or opened again.
3. `unread_receipt`: a read that empties the badge leaves its receipt to a timer
   of 300 ms, and any update of the store in between makes the open room forget
   it, while the store goes on hiding the messages.

Other facts appear as the exceptions of properties that hold, each of them needed
(TLC finds a counterexample without it):

* `OnlyTheWindowHurts`: `logout()` looks at `auth_generation` once
  (`matrix.rs:2133`) and then destroys over several awaits; a sign-in that begins
  in between loses its store or its secrets.
* `LiveSessionIntact` (and `OnlyTheWindowHurts` with it): `saveSettings()` answers
  that the settings could not be written and logs "account/session state NOT
  persisted" (`app_controller.cpp:1863-1873`), but neither the persisting of a
  session (`:995`) nor the sign-out (`:2295`) looks at the answer.  The session on
  screen is then not the one a restart restores, until some later change of the
  settings is saved: `unsaved` excepts that time.
  `SavedSessionRestorable`, `OpensOnlyItsOwnStore`: a sign-out whose settings could
  not be written and whose deletes in the keychain failed as well leaves a session
  that the next start restores, onto a store that is gone or another session's; the
  code calls such entries ghosts, and so does the exception.
* `OnlyStraysCorrupt`: a download whose file was unlinked by a sweep still writes
  its marker, and a partial file of the next download then counts as whole.
  `OnlySweepsUnback`: the start-up sweep may unlink the file of the first request,
  whose entry is then handed out as complete without a file.
* `BlankOnlyWhenCrossed`, `MapsAgreeUnlessRaced`: the two races named there.  The
  cap at the end of a jump's build can release the very window the jump is about
  to focus, when every other live window was never marked as recent
  (`timeline_window_service.rs:224-246`); with the code's cap of three that takes
  three such windows, so no run states it.
* `SessionsAreFound`, `DropsAreEarned`: (flip) the sign-in form's keychain card
  and its "skip" link switch the backend for all accounts, when they are reached
  after a sign-out that left siblings signed in (`intro_widget.cpp:112-115`,
  `intro_secret_backend.cpp:115-120`; their comments take the cache to be empty),
  and the siblings' markers stay; (password) a new master password set there
  changes backend and key before anything is sealed and seals only a cached
  bundle; (withheld) a keychain that answers "no such item" for an item it has
  makes the next write replace all accounts' secrets by one session's.  Failed
  saves need no cause of their own: an account that was to leave the file and did
  not was asked to go or given up, and stays excepted (`asked`, `dropped`) until a
  save succeeds.
* `UnreadableVaultLocksOutNobody`: setting a master password over a vault file
  that an earlier password sealed leaves a store that counts as unlocked, cannot
  be read, and refuses every later sign-in (`Commit` needs the bundle); unless
  the password was set beside a signed-in account, only somebody with no account
  meets it.
* `CountsConverge`: `mark_room_read` writes a zero over a summary that a sync has
  just made newer; an unread snapshot of a closed room may arrive last and old.
  `HidesOnlyReads`: `readFrontierTs` is not taken back when a receipt fails.
  `ReadsAreKept`: the acknowledgement of a mark drops its mask before any snapshot
  shows the read, and a zero of an earlier moment counts as confirmation.
* `DoneMeansIndexed`: `backfill_room` is to "mark the room done once history is
  exhausted" (`search_backfill.rs:109-110`), and takes any empty page for that
  (`:136-143`) without a look at the end token, which a server that filters a page
  may send along; no pass ever fetches what is below such a page (`missed`).  The
  checkpoint moves past a batch whose write failed; a worker that outlives a wipe
  of the index writes its old checkpoint into the new one.  `OffMeansWiped`, which
  fails for another reason (2 above), excepts an index whose files could not be
  deleted: `matrix.rs:2301` ignores that, and rows and checkpoints stay.
  `EnabledMeansIndexing`: the tasks of off and on may run in the other order; a
  live write that fails closes the index, and the worker that then looks at it
  ends for the session.  Also modelled, and contrary to the comment at
  `matrix.rs:2293`: the workers do not look at the flag, and a global search opens
  the index while the setting is off (`search_service.rs:171`).  A message that
  arrives after its room is done, while no timeline of the room is resident, is in
  no later pass (`since` limits the property to older ones).

## 7. What is left out

Session lifecycle: one account directory (no switcher) and one logout at a time; a
settings file is written whole or not at all; keychain reads say present or absent
(no transient read failure, no locked vault); the second handle opened when the
first runtime takes more than 60 s to shut down, and blocking calls that outlive
it; the steps of `RestartAbsent`, and of the storage and secrets part of
`dropInsecureSession`, are one; the snapshot of the generation is taken where the
logout is started; media caches are ignored; password change, deactivation,
profile calls.

Video cache: responses start at byte 0 (later ranges read a suffix through the
same code); decryption, container classification and the capped prefix fetch
for thumbnails; file times (any order of eviction is allowed instead); budgets
in bytes (whole files instead); Windows' delete-pending files; more than
`MaxSweeps` jobs waiting for a blocking thread.  `stop()` with the removal of
the directory is covered by `ClearCaches` followed by `Restart`.

Timeline windows: the six other caches that `release_room()` empties (previews,
members, ...) are merged into `DropRecent`; the clearing of all maps when a
session ends or changes; what is inside a window (pagination, diffs); a failed or
late answer of `return_to_live()`.

Secret store: the secret epoch (only tests call the wipe that compares it), the
routing to a Secret Service collection, key derivation, encryption and the file
format of the vault.  Accounts: the secrets of an account are two of its six, one
of each kind; several handlers at once (they run on the Qt main thread); what the
Rust side does beside them, which is `SessionLifecycle`.

Unread state: one room; one request for the room list at a time, the dialogs' own
included (the main window does not wait for the answer to its last request, and
drops answers to earlier ones); marks as unread, mentions, the clamp of displayed
counts, notification modes, the button that jumps down, timelines that are not
live; `messagesReadTill`, which is queued, runs with the scroll that caused it; a
message's own time as the server gives it (times increase).

Search: one encrypted room per account; queries, ranking and paging; fingerprints
of the live indexer, whose look at the flag and whose write are one step; the
wipe at a sign-out; a task registered just after its session's tasks were aborted
(the hazard of `session_task_service.rs:51`, the only one without a property); a
page holds one message, and only the page of the oldest one may come without an end
token.

Everything else in the component table that has no module: see the notes in
`PROJECT.json`.

## 8. The plan

Left to model, most important first:

1. An abstract account session (signed out, signing in, signed in, with or
   without its data on disk) that `SessionLifecycle` implements under a
   refinement mapping, checked by the two passing lifecycle runs.
2. Pagination inside one window (`timeline_window.rs`): results of a pagination
   that a jump has made stale.
3. The registry of session tasks (`session_task_service.rs`) under the tasks that
   `SearchBackfill` spawns, and the wipe of the index at a sign-out.
4. `VerificationFlow` (`verification_service.rs`): callbacks of displaced flows.
5. The composition of the player's retries with `MediaStreamCache`.

Proofs to add: with the models above, their invariants and the refinement of the
first; a step of each liveness argument that needs no fairness (that a measure
never grows while nobody begins anything new) as an action property.
