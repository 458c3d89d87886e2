# A verification project for Trackdidia

Trackdidia is a local-first desktop application (Tauri: TypeScript in a webview, Rust in the host)
for tasks, daily and weekly reviews, finance and a coach. It has no server. Two or more laptops of
one user stay equal through files in Google Drive folders: every device writes only its own
directory, reads the others', and merges what it reads into its SQLite database.

This directory holds TLA+ models of that core, their TLC configurations and TLAPS proofs. The code
is the reference; `PROJECT.json` maps every definition to the lines it stands for.

## 1. The system

Paths are relative to `src/src/lib/sync` unless they start with `src-tauri` or say otherwise.

| Component | State it keeps | Operations | Talks to |
|---|---|---|---|
| Row capture and merge: `capture-install`, `capture-stamp`, `clock-store`, `hlc`, `list-changes`, `apply-bundle`, `apply-rows`, `merge-row` | rows, `sync_dirty`, `sync_entity_meta`, content snapshots, the device's clock | triggers mark, the stamper issues clocks, read a change set, apply one | storage's writer slot; its change sets go to the publish pipeline and come from the pull engine |
| Publish pipeline: `engine-publish`, `engine-support`, `transport-folder`, `domain-counters` | change counters, `PublishMemory`, the transport's queue and fences | run, per-domain snapshot, publish call, timeout, late repair | storage, the host |
| Sync folder directory: `src-tauri/src/sync_folder.rs`, `sync_folder/*.rs` | manifest, bundle files, per-directory lock | publish, prune, list peers, read a bundle | Drive, which copies single files in any order |
| Pull engine: `engine-pull`, `engine-gates`, `apply-chunked`, `split-change-set`, `sync-engine` | recorded hashes per peer, chunk resume index, in-flight guard | list, gate, read, back up, apply in chunks, record | the host, storage, backups |
| Field-clock merge: `merge-entity`, `merge-primitives`, `merge-task`, `field-clocks`, `apply-gtd` | one clock per field, set tags, task lifecycle | pure joins | apply |
| Table rules and aliases: `registry`, `merge-finance`, `aliases`, `apply-references`, `split-groups` | merge rule per table, alias table | rewrite references, merge duplicates | apply |
| Capture backfill: `capture-backfill`, `backfill-state`, `capture-recurrence` | cursor, limits | one slice | the stamper, in the writer slot |
| Conflicts: `conflict-resolution`, `apply-proposals` | conflict log | log, resolve | field-clock merge |
| Sync lifecycle: `lifecycle`, `quit-publish`, `startup-sync`, `app/use-multi-device-sync`, `desktop_shell.rs` | timers, backoff, block, generation, exit handshake | start, stop, triggers, quit | both engines, bootstrap, the host |
| Join and profiles: `join-service`, `sync-service`, `profile-*` | settings, profile | enable, join, check | engines |
| Bundle format: `bundle`, `change-set` | none | encode, decode, validate | transport, apply |
| Storage: `lib/storage`, `db.rs` | the database, the writer queue | some 200 table operations | everything |
| Backups: `backup.rs`, `lib/backup` | files in a folder | copy, prune | pull engine, scheduler |
| Tasks and recurrence: `lib/gtd`, `lib/recurring` | tasks, templates | rules, generation | storage |
| Pomodoro: `lib/pomodoro`, `app/use-pomodoro-controller` | sessions, segments | start, pause, switch, expire | storage, native alarm |
| Calendar: `lib/calendar` | links, settings | reconcile | Google Calendar |
| Coach, finance, reviews, external services, user interface | records, tokens | sequential | storage, remote services |

What is hard in it:

- *Concurrency without threads.* In the webview every `await` lets other callbacks run; in the host
  a call whose caller has timed out goes on underneath. A publish crosses both.
- *Failure.* Timeouts at two levels (30 s in the engine, 45 s in the host), I/O errors at each file
  operation, bookkeeping that fails after the commit, the process ending anywhere, a machine that
  stops on a volume without durable directory flushes.
- *Order.* Drive delivers files one by one, in any order, partly. Change sets are whole states: they
  arrive late, twice, or after newer ones. Wall clocks stand still and go back.
- *State read early and used late.* Counters read at the start of a run, the manifest read before
  the bundle it names, the memory of what was published, the clock read at the start of a
  transaction.

What makes each component correct, as far as it is modelled: what is claimed as published is in the
folder; every change gets there; the manifest never names a file that is missing; file names are
never reused; a reader gets committed content only and never goes back; a clock names one stamp and
is later than everything its device had merged; devices that merged the same things show the same
rows; what a user saved is replaced only by something later; a bundle is recorded as merged only
when every piece of it was; an older schema is copied before the first merge that could need it; an
edit survives an earlier delete whichever field it touched; sync that is turned off reaches no
engine; a quit publishes what it promised; a calendar shows an occurrence once. Section 8 lists what
the others are to promise.

## 2. The modules

| Module | Models |
|---|---|
| `PublishLedger` | the abstract promise of publishing: numbered changes, a readable copy, a claim |
| `Publisher` | one device publishing: counters, run, timeouts, queue, host lock; implements the ledger |
| `PublisherProofs` | its proofs |
| `FolderStore` | one device's directory on disk, Drive, and a peer that reads its copy |
| `FolderStoreProofs` | its proofs |
| `HybridClock` | the pure clock functions of `hlc.ts` |
| `HybridClockProofs` | clock order, tick and receive |
| `ReplicatedRows` | several devices editing, stamping, publishing and merging one table |
| `ReplicatedRowsProofs` | its proofs |
| `PullEngine` | one device's pull: manifests, reads, the safety backup, pieces, the record, a join |
| `PullEngineProofs` | its proofs |
| `FieldMerge` | the pure merge of two versions of a field-clock entity |
| `FieldReplicas` | several devices stamping, deleting, and merging such an entity |
| `FieldReplicasProofs` | the proofs of both |
| `SyncLifecycle` | the automatic triggers, the exclusive lane, the exit handshake and Quitter |
| `SyncLifecycleProofs` | its proofs |
| `CalendarSync` | the planner and the reconciler of the Google calendar, and the promotion capture |
| `CalendarSyncProofs` | its proof |
| `MC...` | model values, symmetry and small sets for TLC |

The models of sync overlap at one line each. `Publisher` takes the folder as "the counter the
committed bundle of a domain covers" and the manifest rename as one step: `FolderStore` is what
happens inside that step and around it. `ReplicatedRows` takes the exchange as "any published change
set may be applied at any time, again, or never", which is weaker than what `FolderStore` delivers,
so nothing there depends on the order that Drive keeps. `PullEngine` takes a merged piece as an
element of a set; what merging does to a row is `ReplicatedRows` and `FieldReplicas`. `FieldReplicas`
takes clocks as numbers in their own order, which is what `ReplicatedRows` shows of them.
`SyncLifecycle` takes a run of an engine as one step that reports; `Publisher` and `PullEngine` are
that step. `CalendarSync` shares nothing with sync but the database.

In each module the operators called after a bug (`MarkCounterNow`, `NoLock`, `DeleteAlwaysWins`)
stand next to the definition they would replace. No specification uses them: they are the mutants
with which every property has been seen to fail.

### 2.1 Publisher

| Variable | Code |
|---|---|
| `changeCounter`, `lastPublish`, `changedAt` | `sync_identity`: `change_counter`, `last_publish_counter`, the per-domain columns |
| `folder`, `bundled` | what the committed manifest's bundle of a domain covers; which domains it lists |
| `current`, `routed` | the engine the hook holds; the domains it has a transport for |
| `publishedAt`, `known` | `PublishMemory` |
| `run` | the publish run in the app's exclusive lane, between two awaits |
| `queue` | `FolderTransport.tail`, with each operation's fence state and whether its caller gave up |
| `writer` | the publish that holds the host's per-directory mutex |
| `repairs` | `queueSyncRepublish` calls not yet written |
| `edits`, `editCount`, `faults` | observers: when each domain's data really changed; bounds |

A bundle is the counter its snapshot covers, which is all that the properties need to know of it.
`StartRun`, `NoTransport`, `CleanDomain`, `PublishDomain`, `DomainFails` and `FinishRun` are the
stretches of `runPublish` between awaits; `EngineTimeout` is `withTimeout`, which leaves the
operation running; `Begin`, `Send`, `TransportFails` are the transport's queue with the two fence
checks; `HostLock`, `HostCommit`, `HostReturn`, `HostFails`, `HostTimeoutWriting` the host.
`PublishDomain` is enabled for any domain left, needed or not, because `options.force` and the
heartbeat publish a domain the counters call clean. `Restart` forgets everything but disk and
database; `Rebuild` replaces the engine while the old one's operations go on.

The gates before the counters are read (status, backfill, work profile) only decide whether a run
starts and are left out: a run may start at any time, which is more than the code allows.

### 2.2 FolderStore

| Variable | Code |
|---|---|
| `bundles`, `manifest` | the files of `<device>/` |
| `unflushed`, `durable` | what a power loss may take away when a directory flush failed |
| `call`, `publishes` | `publish_with_hook` on the blocking threads, by stage |
| `mirrorBundles`, `mirrorManifest` | the peer's copy of the directory |
| `reading`, `delivered` | a `read_bundle` between its manifest and its file; what the peer has merged |
| `written`, `committed`, `previous` | observers |

`Plan` is everything between taking the lock and the first write: it computes the generation after
the highest one that the manifest or any file name uses, the manifest to write and what prune will
keep. `WriteBundle` and `WriteManifest` are `atomic_write`s (their temporary files are invisible to
readers), `Prune` ends the call. `TimesOut` is `run_blocking`'s timeout: a call that waits for the
lock will never start, one that holds it goes on. Drive copies one file at a time, starts downloads
that a reader may see (`SyncPartly`), and never waits for anything.

### 2.3 HybridClock and ReplicatedRows

A device's database is one record; `db` holds the committed one and `work` the one its open
transaction sees. Storage lets one transaction run at a time (`DbSerialQueue`), so a device's slot
has a `step`: `write` (`writeTransaction`, stamped before COMMIT), `flush` (`writeExclusive`,
stamped in a transaction of its own after the write has committed), `drain` and `merge`
(`applyChangeSet`). A change set is read in one slot (`Publish`) and may be applied whenever
`assertRemoteClockAcceptable` lets it. `Rollback` and `FlushFails` are an error or the end of the
process at any point of a transaction.

`Changed`, `Stamped`, `Publishable`, `RemoteWins`, `Merged` and `Absorbed` are the bodies of the
functions named in the map. Rows are numbers in the order of their canonical JSON, which is how
`mergeRowEntity` breaks a tie. `typed` and `seen` are observers: what the user saved last, and which
stamped versions a database has merged.

Modelled is a whole-row table under the rule `generic-row`, the default rule. Field-clock tables,
rules with rank, absorb or pending keys, settings, foreign keys and the conflict log are not in it.

### 2.4 PullEngine

| Variable | Code |
|---|---|
| `offered`, `manifest` | the peers' folders as this device sees them: the bundle of each domain, the schema each manifest reports |
| `merged` | the pieces the database has merged, each with the schema the device had then |
| `recorded`, `contact` | `sync_peers`: last applied hash with its pair of schemas, `last_synced_at` |
| `backupNoted`, `backupTaken` | `first_merge_backup_path`; `ctx.firstMergeBackupTaken` |
| `resume` | `ctx.chunkResume` |
| `run` | one `runPull` or `confirmJoin` between two awaits |
| `cleanCopy`, `copiedPairs` | observers: what copies of the database exist |

Listing, reading, the backup, each piece and each record are steps of their own; between them peers
publish, the user edits, the app updates (`localSchema`), a step fails, the budget ends, the process
restarts. `manifest` is per folder because a folder that cannot be listed must not hide another one's
refusal. The exclusive lane serialises runs, so what a run read at its start of `sync_peers` is what is
there later; no caller in the app passes `budgetMs` today (`startup-sync.ts:34`), the engine and its tests
do. The profile check and the manifest's staleness limit only refuse a peer, as a failed listing does.
The join's own backup is `TakeBackup`. Replacing the engine forgets `ctx`, which `Restart` covers.

### 2.5 FieldMerge and FieldReplicas

A version is a row with a clock per field: scalars, keys of a JSON map, elements of an id list. A clock
without a value is a removal. `Merge` and the operators under it are `mergeFieldClockEntity` with its
helpers; `Create`, `Edit`, `Delete`, `EditThenDelete` and `DeleteUnseen` are what the stamper makes of a
transaction, the last one when only the verifying scan noticed that a row is gone (a tombstone without
values). `Apply` merges another device's state; a third device, on which nobody edits, holds states back
and passes them on, so that old ones arrive late. Observers keep what each stamp wrote and which stamps
each device has merged.

Left out: the atomic form of a map that does not parse, bookkeeping columns, the tombstone forced by a
deleted parent, the log of overwritten edits, the lifecycle tuple of a task (`merge-task.ts`), the
recurrence rules and the baseline clock.

### 2.6 SyncLifecycle

One element of `Builds` is one lifecycle object: started once, stopped once. Its run goes through
"reading" (the status, before the lane is asked for), "queued" (waiting for the exclusive lane), "building"
(the engine is made) and "engine", and looks whether it is stale at the places where `execute` does. A throw
in the first, third or last is recorded, but for a lifecycle that was stopped and for `already_running`
(`EngineTaken`). A read of the pending changes that fails in a quit ends it as "unread". `hold` is backoff, block or backfill. `lane` is
the exclusive lane with backups and the user's own sync in it; `registration`, `calls`, `handshake` are
`quit-publish.ts` and the host's flag; `quit`, `heard`, `quitting` a Quitter from the tray. Time is
choice: a poll may find the change not old enough, a backoff ends, the 3 s cap and the host's 4 s run
out at any moment. `bridge` is what the host offers; commands of a host that has them do not fail. A
rebuild is `TurnOff` and `TurnOn`. `run.late` is history: whether the run began after a woken Quitter was
about to. Left out: the adoption of the startup pull, the window's close button, uninstall, manual
actions that only hold the controller, and the age of a change.

### 2.7 CalendarSync

An occurrence is a task and a day. A calendar's number stands for generation, account and calendar id:
every change of identity increments the generation and clears the links in one transaction. A run reads
settings and links (`Reconcile`), then tasks and plans (`ReadsTasks`), then takes the actions kind by kind
in the order of `runReconcile`; within a kind any order is allowed. A remote call under
`withCurrentConnection` is one step with its check; an insert is a step after its lookup. Each call may
be answered, refused, or done without an answer; the write of the link may fail; the process may end.
`Promote` is the capture of a due task inside its transaction; a planned task, which keeps its date, is
covered because nothing forces the promotion. Nothing reads Google between an answer and the write of
its link, so what the user removes in Google in between commutes and is left out there.

Three variables are observers, read by properties only: `unseen`, the occurrences whose event changed without
the links learning it; `takenBack`, those the user left, moved, let go while capture was off, or removed in
Google; `overwritten`, those that were captured and whose link a run then wrote over (`Overwrites`). `LinksSettle`
accepts an occurrence that is wanted and yet terminal for the last two reasons only. The second one is no promise
but what the code does (section 6).

Left out: the client id, OAuth and vault steps inside a connection, a connection that fails and removes its
calendar again, the check for peers that mirror too, the pages of a lookup, a restored backup (the only
source of links of another generation), and a request that reaches Google after its client gave up and
after a later lookup.

## 3. The runs

| Run | Question | Result |
|---|---|---|
| `publisher_safety` | one engine, two domains, two changes, two faults of any kind, restarts | what is claimed is in the folder, no change is stranded, the counters and the folder implement `PublishLedger`; the inductive invariant holds |
| `publisher_rebuild` | the engine is replaced while its operations run | an older bundle may overwrite a newer one, but a repair is always in sight; every change reaches the folder and the badge clears |
| `publisher_call_order` | do commits happen in call order, as the documentation says? | no, see section 6 |
| `folder_safety` | two threads, two domains, three publishes, two faults | manifest and previous generation are on disk, names are not reused, no entry is lost or rolled back, the peer never reads backwards |
| `folder_power` | the machine may stop before names are durable | the peer reads committed bundles only and ends with the one the manifest names |
| `rows_flush` | two devices, two rows, wall clocks that go back, an overflowing counter, a rollback or failed flush | a clock names one stamp, follows everything seen, and is put on local contents only |
| `rows_converge` | three saves or deletes of one row on two devices, a rollback, every order of exchange | the newest version seen is shown, edits yield to later ones only, the devices end up equal |
| `rows_lost_save` | does a failed flush never lose a change, as a comment says? | it can, see section 6 |
| `pull` | a peer with two domains in two pieces each, an app update, two faults, budgets, a join | what is recorded was merged piece by piece, a copy comes before the first piece of a pair of schemas, contact is claimed only for what was merged, a join that reports success is complete, every bundle is merged in the end |
| `fields` | two devices edit and delete an entity with a column and a map key, a third passes states on; one delete is found by the scan | merging commutes and absorbs, an edit outlives an earlier delete, the newest edit shows, a removed key stays removed, the devices end alike |
| `lifecycle` | two lifecycles in turn, one change, one failure, two triggers of any kind, a Quitter at any time, with each kind of host | the host waits exactly while someone can answer, sync turned off reaches no engine, a quit that could read what is pending and is answered in time left nothing behind, but for the cases section 6 names |
| `calendar` | a task dated, rewritten, promoted, completed over three days, accounts connected, events and calendars removed, one lost call, write or process | an occurrence never shows twice, links and calendar agree where nothing was lost, the links settle: a wanted occurrence has its event, unless the user took it back before or a run wrote over its capture (section 6) |

Deadlock is checked in the publisher runs. Publishes, edits, triggers and faults are bounded in the
other modules and there is nothing left to do when they are spent (or, in `lifecycle`, when the process has
ended), so those runs turn it off.

### Bounds, and why they are enough

- `MaxEdits = 2`, `MaxFaults = 2` (`Publisher`): the hazards need a change before and one after a
  snapshot, and two things going wrong, such as a timeout of the engine and a timeout of the host
  for the same operation. The queue grows to as many operations as there are given up ones plus
  one. Two domains share the one transport and lock in `publisher_safety`; a second engine is
  needed only where engines are replaced.
- `MaxGeneration = 3`, `MaxPublishes = 3`, `MaxFaults = 2` (`FolderStore`): a committed generation,
  the one it replaces and an orphan between them; the limit itself is reached. `folder_power` gives
  up one domain and one generation for a third fault (a failed flush, a power loss, one more).
- `MaxCounter = 1` (`HybridClock`): the counter overflows at the second event of one millisecond.
  `TwoTimes` is a clock that moves and goes back; `OneTime` one that stands still. `MaxAhead` is 1
  in `rows_flush`, where clocks outrun the wall clock and a bundle from too far ahead is refused,
  and 9 in `rows_converge`, where a refusal would only delay.
- `MaxEdits = 2` or `3`, `MaxFaults = 1` (`ReplicatedRows`): create, delete and re-create, or a save
  by each device and one on top of the merge. `MaxEmpty = 0`: a change set that carries nothing has
  no effect but to move clocks forward, and would make the runs infinite in practice.
- `Chunks = 2`, two domains, `MaxPublishes = 2`, `MaxSchema = 2`, `MaxFaults = 2` (`PullEngine`): a bundle
  replaced by a newer one after its first piece; a bundle of the old schema, an update, the same bundle
  again; a fault that leaves half a bundle and a second one on the way back. One peer: peers meet only in
  the order of the apply, which domains have too.
- `MaxStamps = 4`, one scalar and one key (`FieldReplicas`): create, edit, delete, edit, over any two devices. The
  same run with an id-list element in place of the key, and with both and three stamps, also passes
  (change `Keys`, `Elements` and `MaxStamps` in the cfg); with both and four stamps it takes too long for a
  run of this project. `MaxBlind = 1`: a second blind delete adds no new kind of tombstone.
- `MaxBuilds = 2`, `MaxTriggers = 2` (`SyncLifecycle`): the hazards need an old and a new lifecycle, and one
  trigger that takes a place another wanted.
- `Tasks` with one member, `Dates = {2, 3}`, `LastDay = 3`, `MaxEdits = 3`, `MaxFaults = 1` (`CalendarSync`): tasks
  meet only in the limits. One task has two occurrences, past, present and future ones. The limits are
  scaled to it: `MaxActions = 1` ends a run in the middle of a plan, `DeleteLimit = 1` is passed by two deletes
  (as two links of one task give), `StaleDays = 0` makes a snapshot stale within the run.

### Fairness, and why the code justifies it

- `Publisher!FairSpec`: weak fairness of `StartRun` while something is pending (the pending-changes
  poll in `lifecycle.ts`, whose backoff is bounded by 15 minutes), of writing an asked-for republish,
  and of every step of a run, a queue and the host that has been started (each has a timeout, and
  the faults that end it otherwise are the fault actions). Nothing is assumed of edits, faults, or
  rebuilds, except that there are finitely many; `Restart` and a republish that can never be written
  are not in this specification, because a process that always ends promises nothing.
- `FolderStore!FairSpec`: started publishes go on, Drive brings each file of the peer's copy up to
  date in the end, and the peer reads again what it has not got (hourly, at resume and by hand).
- `ReplicatedRows!FairSpec`: begun transactions go on (weak). Publishing and applying get strong
  fairness because the user's own writes take the slot in between; a device applies the newest change
  set of each other device whenever it pulls, and publishes when it has something new. No flush
  fails: `rows_lost_save` shows what happens otherwise.
- `PullEngine!FairSpec`: the steps of a run go on (weak). Strong fairness of `StartPull`, because a join may
  take the lane whenever it is free and a pull is asked for again and again (hourly, focus, by hand); and of
  the record of a peer that has something merged, because each of the finitely many faults may hit it. Edits,
  updates, publishes and faults are free and finitely many.
- `FieldReplicas!FairSpec`: each device keeps applying what each other one has.
- `CalendarSync!FairSpec`: the steps of a run, the 15-minute backstop timer, and the end of waits. The user
  is free; `LinksSettle` has "the connection stays active" as its premise, because a disconnected
  calendar or one that waits for a confirmation is left alone.
- `SyncLifecycle` has safety properties only: that a process exits is the host's 4 s timer and nothing else.

## 4. What is proved

`tlapm` checks every theorem below, for every value of the constants that satisfies the named
assumptions: any number of domains, folders, engines, threads, devices and rows, any bounds.

**Assumptions.** `ConstantsAssumption` and `NoneAssumption` of `Publisher` (each domain has a
folder; `None` is none of the other values), `BoundsAssumption` and `NoneAssumption` of
`FolderStore`, `CounterAssumption` of `HybridClock`, `RowsAssumption` of `ReplicatedRows` (ids and
times are numbers, a live row is not `Gone`), `OrderAssumption` and `BoundsAssumption` of `PullEngine`,
`FieldsAssumption` of `FieldMerge` (the kinds of fields are disjoint, there is a column), and
`BoundsAssumption` of `SyncLifecycle` and `CalendarSync`. TLC evaluates all of them in the passing runs.

**Publisher.** `ClaimedIsPublished` is not inductive: a run records a counter it gathered long
before, and a queued operation may still overwrite what was counted. `IInv` adds three layers.
`Shape`: only the head of a queue is past "queued", only the last operation may be awaited, the lock
belongs to the head that is "writing". `OrderInv`: snapshots wait and commit in the order they were
taken, so a commit never takes a domain back (this is where one engine is needed: `Single`).
`RunInv` and `CountersInv`: for every domain a complete run is done with, some counter it gathered
bounds what the folder covers. Then `Safety` (`Spec => []IInv`), `PublishedIsTrue`, `NoneStranded`,
and `Refinement`: a commit is the ledger's `Publish`, a recorded run is its `Claim`, everything else
is a change or a stutter. `TypesAndShape` also holds with replaced engines (`RebuildTypesAndShape`).
With replaced engines a commit may take a domain back, so none of the layers above survives. `RInv` says what
does: a counter that a domain's changes do not exceed vouches for its folder unless a repair is due
(`Vouched`), where "vouches" includes what an unawaited publish is about to commit in the host
(`LateHolds`); the operation that a run awaits has the newest snapshot anywhere (`NewestInv`), so when it
settles, it is true of everything counted before it. An abandoned operation counts as a repair to come.
From `RebuildInvariant`, `RepairHolds`.

**FolderStore.** `IInv` says what a planned publish may rely on until it commits: the manifest can
only have been damaged meanwhile, no file has its generation, what it will keep contains what it
will replace (`PublishFits`), and that file names and commits leave a trace on disk that later
generations pass (`NewestStays`, which is why an orphan's name is not reused). Then `ManifestSound`,
`PreviousSurvives`, `NamesUnique`, `EntriesNeverFallBack`, `ReadsNeverFallBack`. With power losses
these fail, as they must; what remains is `Traceable`, and from it `ReadsSound`.

**HybridClock.** `ClockOrder`, `TickIsLater`, `ReceiveIsLater`: the order is total, and both
functions give a state that fits its width and is later than what they were given, whatever the wall
clock shows.

**CalendarSync.** `OneEventHolds`: an insert is a step after its lookup, so the invariant needs that the
lookup's answer is still true when the insert is sent (`LookedFirst`), which holds because runs never
overlap and nobody else creates an event with an occurrence's key. Patches keep keys (`EventShape`).
`LinksHold` needs to know what a run may still rely on of what it read, while the user promotes, reconnects
and clears calendars. `CInv` adds that ids name events and numbers name calendars (`Numbered`), that a
link's event is for its occurrence and is the only one of it there (`LinkedEvents`), that a plan made of the
links as they were read has for each occurrence one action, with the event the link has now (`PlanAgrees`,
by `PlanIs`), and that between a call's answer and the write of its link Google still shows what the action
did, or the occurrence is unseen (`ActAgrees`). All of that is said of a run for the connected calendar
only: an insert goes out unguarded (`InsertsTell`), so a run that outlived its connection may still add an
event to the old calendar, and the check before each write of a link keeps it out of the new one's table.

**PullEngine.** A piece that is skipped is never looked at again, so the invariant says of each reason to
skip it that it was merged: before the resume index, in this call, in a bundle the run counts as applied, in
a bundle whose recorded hash made the run not read it (`Skipped`). `Staged` relates the run's stage to what
it may hold, `Copied` says that a run that applies has a clean copy, and one for each pair of different
schemas it may merge, unless its first piece checks that the database is still empty. Then `RecordedMerged`,
`ContactMerged`, `BackupFirst` and `JoinComplete`.

**FieldReplicas.** The heart is a fact about two versions: if both are well-formed (a tombstone is later than
every edit it knows; what has neither values nor a tombstone is nothing), then `Merge` gives the same
well-formed version on both sides, whose newest edit is the newest of both, and which is a tombstone exactly
when the latest delete is later (`MergeIs`). That holds although a tombstone adds removal clocks to its
survivor: a delete that is outlived is older than an edit clock the survivor has (`RemovalsKeep`). The
invariant `Says` relates each version to the stamps merged into it, and every step keeps it: a new stamp is
the newest, a merge takes the later of two newest ones. That a set of clocks has a newest one is the only
induction, by the well-foundedness of the naturals. Then `CommutesHolds` and `OutlivesHolds`, and with
`JoinAgain` (what won a field wins it again, whatever removal clocks it has got since) `AbsorbsHolds`.
`NewestEditHolds` adds to the invariant that a column's clock is the newest merged write of it and its value
what that write said (`Shows`), as long as no merged delete lost the row: a tombstone with the row joins
column by column like a live version, and a tombstone that an edit outlives touches no column.
For keys and elements the clock is the newest write of the member, with what it said, or the stamp of a
merged delete later than it, and then the member is gone (`Explains`, `Holding`). A merge of two live versions
keeps that member by member; a tombstone that is outlived leaves its stamp on exactly the members no later
write has put back. `MembersHold` follows, and `StaysRemovedHolds`, since a member that comes back has a
clock later than the one that took it. The proof attempt corrected the property: it holds only as long
as no merged delete was found by the scan (`Remembered`). Such a delete keeps no row, swallows a newer write
of a member, and a device that has that write from elsewhere brings the member back without a newer one.
The instance that TLC checks is too small to show this (it takes four devices, three of them editing, and
five stamps); the code knows the loss and reports it (`resurrectionLosses`, `merge-entity.ts`).

**SyncLifecycle.** Handshake calls take effect in the order they were made, so the invariant is about the
queue of them (`CallsInv`): one call per registration, the "off" calls before the "on" calls, only the head
may have reached the host, and then the host's flag is what it says. While a registration is up the flag is on
and no "off" is in flight (`UpInv`). `HandshakeHolds` follows. For `QuitHolds` the invariant says what a quit
that waits for a run may count on: the run is a publish and, once it has read the counter, covers what the quit
owes (`Owing`); a lifecycle is asked once, while the host waits, and answers while it is up only if it is
current (`Asked`); and a run that has the lane is at its head, each run being in it once (`InTurn`), so two never
meet in the engine (`Apart`): `already_running`, the one throw that leaves no hold, does not happen to a run
a quit waits for. `OffHolds` needs no more than that a lifecycle that stopped does not start again.

**ReplicatedRows.** `IInv` describes a database alone (its clock has reached every clock in it, marks
cover the rows that differ from their meta, clocks are unique), a change set alone, and where a
device's own versions can be: a version that anybody knows is committed on its own device, or inside
its open transaction and nowhere else (`KnownAtHome`). This last part is what makes it sound that a
rolled back transaction gives the same clocks out again. It yields `StampsAreLocal`, `UniqueClocks`
and the action property `StampsFollow`. When no flush fails, `StampedInv` adds that a row shows the
version its meta names and that a change set carries the versions it stands for; together they give
`NewestShown`, `EditsYield` and `SameVersionsSameRows`, the convergence of the merge: two databases
that have merged the same versions show the same rows, in whatever order and however often.

## 5. What is only model-checked

Liveness: `ChangesReachFolder`, `PendingClears`, `ReadersCatchUp`, `Converges` (of rows and of fields),
`CatchesUp` and `LinksSettle`. Fairness and `ENABLED` are outside what the provers handle. Every invariant
and every action property of the passing runs is proved. Where a liveness property has a safety core, that is
proved: two databases that merged the same versions show the same rows (`SameVersionsSameRows`), a change
that is in no folder is owed (`NoneStranded`, `RepairHolds`).

The type invariants of `Publisher` and `FolderStore` are proved and in no run; those of the other modules
were checked while the modules were written.

## 6. Disagreements with the documentation

- `CommitsInCallOrder` (`publisher_call_order`): `docs/storage-and-backups.md` says that all
  publishes of the device go through one FIFO queue, so commits happen in call order. The queue
  belongs to a transport, and a rebuilt engine has new transports. An operation that the old engine
  gave up and that waits for the host's lock may commit after a newer publish of the new engine. The
  late repair republishes, so the folder catches up (`publisher_rebuild`).
- `LastSaveIsNotLost` (`rows_lost_save`): a comment in `tauri-sqlite-repository.ts` says that a
  failed capture flush only delays the stamp and never loses a change. A snapshot taken in that delay
  carries the unstamped content under the row's old clock. If the user then saves the stamped content
  again, no new clock is issued, two contents share a clock, and the tie-break of the merge can
  replace the last save by the other content.

Met while modelling, but in no run, because a run would restate one line of the code:

- *Quit.* `lifecycle.ts:386` and `docs/multi-device-sync.md:154` let a quit wait for the run in flight. If a
  blur's `publishIfDue` takes the slot between that run's end and the quit's own `execute`, the quit's
  `execute` is dropped and quit returns while the other one is still running; it also returns at once
  while the user's own sync holds the controller. `QuitLeavesNothing` excuses both (`run.late`, `Busy`).
- *Quit, an unread status.* `publishIfDue` reads `pendingChanges().catch(() => 0)` (`lifecycle.ts:290`), so a
  read that fails counts as nothing pending: the quit returns at once, within its cap, with its changes
  unpublished, nothing recorded and nothing in flight, although `lifecycle.ts:386` and
  `docs/multi-device-sync.md:154` let a quit publish what is pending ("best effort", and for 3 s at most).
  `QuitPasses` is this step; `QuitLeavesNothing` says nothing of such a quit. The changes leave at the next start.
- *Exit handshake.* A registration whose lifecycle was stopped while it was being made answers a Quitter until
  its handshake call returns, for a lifecycle that does nothing (`quit-publish.ts:132`). Also excused.
- *Merging in different orders.* Two devices that merged the same bundles in different orders may differ until
  they exchange once more (`docs/storage-and-backups.md:827` says "in whatever order"); they do converge.
  The property test of `merge-entity.test.ts:1134` generates only tombstones later than every edit.
- *A delete found by the scan* keeps no values, so fields of an entity that a later edit brings back may show
  what that edit's device had (`docs/storage-and-backups.md` names this limit); hence `Remembered`.
- *Calendar, a failed snapshot.* `domain/calendar-sync.ts:79` says that a captured snapshot whose call fails stays
  `pending`; `recordFailure` (`reconciler.ts:273`) writes `failed`, and the next plan detaches it: an event that
  was to be made of the snapshot is never made.
- *Calendar, a captured change.* A synced link whose task changed before promotion is captured as `pending` with
  its event. `domain/calendar-sync.ts:154`, the comment at `planner.ts:113` and `docs/calendar-sync.md:85` let the
  update from the snapshot detach the link as `promoted`, which a new date for the same day takes back. The
  executor ignores `fromPendingSnapshot` there and writes `synced` (`reconciler.ts:470`); the next plan finds no
  task for the link and detaches it as `unscheduled`, which is terminal: a task dated again for that day is
  never mirrored again. The same loss follows when promotion captures an occurrence while a run's call for it is in
  flight, since the run's `saveLink` is unconditional; when the call of a captured snapshot fails (above); and when
  promotion falls between a run's read of the links and its read of the tasks (`reconciler.ts:210`), whose plan
  detaches the link it still believes `synced`. `Settled` admits these through `overwritten` and nothing else: without that
  disjunct, or when `Overwrites` leaves out the write after an update, the write after a create, the record of
  a failure or the detach of a plan, TLC finds `LinksSettle` violated on `Calendar.cfg`.
- *Calendar, a failed patch* records the new body's signature with the failure, so the next plan sees nothing to do
  and the event keeps its old body until the next edit.
- *Calendar, a lost answer.* Adoption saves the present body's signature without patching the adopted event:
  after a lost insert answer and an edit, the event keeps the old body. A lost answer followed by a new date drops the
  eventless link, and the event stays in the calendar. This is why `LinksTellTheTruth` speaks of
  occurrences outside `unseen`, and `LinksSettle` of links and not of events.

## 7. What is not modelled, and why

`PROJECT.json` lists each component with its reason; what a modelled part leaves out is in section 2. In
short: the parts listed in section 8 wait for their modules; conversions (bundle format, digests) are taken as what they do; the folder
marker and path checks only refuse calls; finance, reviews and insights are sequential functions over
one user's records, without concurrency or recovery; external services, prompts and the interface are
I/O. In the modelled parts, left out are: the physical clock's range check (year 33658), which ends in
an error; log messages and reports; and the number of bytes of anything.

## 8. Plan

In order of importance. Steps 1 to 8 are done.

1. `Publisher`, `PublishLedger`, `PublisherProofs`.
2. `FolderStore`, `FolderStoreProofs`.
3. `HybridClock`, `ReplicatedRows`, their proofs.
4. `FieldMerge`, `FieldReplicas`.
5. `PullEngine`.
6. `SyncLifecycle`.
7. `CalendarSync` and the proof of `OneEvent`.
8. Proofs of the new modules: `PullEngineProofs`, `FieldReplicasProofs`, `SyncLifecycleProofs`,
   `CalendarSyncProofs`, and of the replaced engines in `PublisherProofs`.
9. `ReplicatedRows` with the backfill (a cursor, and rows that existed before capture) and with the
   occurrence records of recurring instances.
10. The task lifecycle tuple in `FieldMerge`; conflicts and their resolution on top of it.
11. `Pomodoro` (controller queue against expiry), backup retention.
12. An abstract specification of version sets that `ReplicatedRows` and `FieldReplicas` implement.
