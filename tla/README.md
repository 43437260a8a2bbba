# GoBackup in TLA+

A formal model of GoBackup: the Go daemon that makes the backups, and the browser
console it serves. Of the daemon: which backups may run side by side, what one backup
does from its trigger to the release of its locks, what its run record says in the end,
how its log is sent, and which stored packages the retention keeps. Of the console: how
the configuration is edited by several pages at once, the shell with its tabs,
preferences and lock screen, the session and the refresh of its token, the lists of
backups that are polled, and the panels that follow a log.

Every definition is translated from the source; `PROJECT.json` maps each to its lines.
The modules are checked with TLC on small instances, and eight modules of theorems are
proved for every size with TLAPS.

Sections: 1 inventory, 2 modules and their correspondence to the code, 3 runs and
bounds, 4 fairness, 5 proofs, 6 disagreements between code and documentation,
7 what is not modelled, 8 plan.

## 1. Inventory

GoBackup is one Go process, the daemon (`gobackup run`), with a scheduler, a web server
and any number of backups in goroutines of their own. `gobackup perform` runs backups in
a second process that shares only the files. The console (React, TanStack Query) runs in
any number of browser windows, each with a memory of its own, local storage shared
between them. All lines are under `src/`; `pages`, `layouts` and so on are under `src/web/src/`.

| Component | State it keeps | Operations | What is hard about it | What makes it correct |
|---|---|---|---|---|
| Task registry `task/task.go` | map of holders under a mutex | Acquire, BindRunID, release, Check | any number of triggers at once; an asymmetric rule (whole instance against one database); late calls | exclusion, no lock lost or leaked |
| Run locks `model/lock.go`, `database/resource.go` | none; reads viper settings that dumpers write to | runResources, acquireRunLock | identities computed from state that changes between two runs | one database, one backup |
| Backup pipeline `model/model.go` | a handle per run | Start, Run, Release | panics, three deferred functions in reverse order, a stage passed over, a run without a record | outcome, notice and locks agree |
| Run records `runlog/` | a .json and a .log per run, map of live runs | Begin, Report, End, Delete, Get, pruning | truncating writes, writes that fail, readers without the lock, restarts, late reports | a record ends up with the outcome, or as its failed write left it |
| Log streaming `web/logstream.go` | a handle and an offset per connection | open, stat, read, Done | the file is removed, rotated, truncated, or finished between two looks | no gap, no repeat, an end |
| Retention `storage/cycler.go` | list of packages, locally and on the storage | load, add, prune, save | two copies of the list, each of which may fail or be lost | newest kept, expired removed |
| Configuration editor `web/config_editor.go`, `pages/config-editor-page.tsx` | the YAML file and a mutex; in each page a draft, its version, a list of operations, a cached answer | fetch, edit, discard, reload, validate, patch, roll back | edits of one page, saves of another, answers late and in any order, a load that rejects the file, a way back that fails | no lost update; what is shown is what is saved; the file is what runs |
| Tabs and preference stores `store/tabs.ts`, `store/preferences.ts` | tabs, active key, the preferences; their entries of local storage | open, close, pin, move, sort, limit; set, reset, read back | five places call them; a debounced write; a reload at any time | what was chosen comes back |
| Admin shell `layouts/` | path, overlays, lock screen, layout flags, drawer | navigate, maximize, lock, unlock, log out, every preference control | a browser path, a tab bar, a phone, a lock and seven layouts together | the page shown has its tab, a locked screen stays locked, a way back to the preferences |
| Web session `lib/http.ts`, `auth/`, `store/auth.ts`, `web/auth.go` | token in memory and in local storage, one shared refresh | request, 401, refresh, retry, login, logout | refusals in parallel, a refresh that fails, other windows, a password changed meanwhile | nobody waits for nothing, a void session ends |
| Task centre `pages/tasks-page.tsx`, `pages/overview-page.tsx`, `pages/logs/run-history-panel.tsx` | three cached lists, fetches under way, a start and a deletion under way | poll, invalidate, cancel, start, delete | an answer from before a deletion, a poll beside an invalidation, a page left and come back to | lists catch up and never go back |
| Log panels `pages/tasks/task-log-panel.tsx`, `pages/logs/live-log-panel.tsx` | lines shown, a line begun, an offset, retries | connect, read, heartbeat, done, retry, reconnect | a stream cut inside a line or a character, the end of the run seen by another query | each line once, an end |
| Progress tracker `model/progress.go` | stage, weights, bytes | enter, ReportBytes, flush, watchSize | a second goroutine reporting | monotone progress |
| Configuration `config/config.go` | Models, Web, the global viper | loadConfig, Reload, callbacks | readers without the lock, partial reloads | readers see one configuration |
| Scheduler `scheduler/scheduler.go` | the cron object | Start, Stop, Restart | restarts during reloads | every model scheduled once |
| Daemon control `main.go`, pid file | pid file | start, stop, restart | check-then-act between processes | at most one daemon |
| Download tickets `web/download_ticket.go` | map of tickets | issue, consume | expiry against use | used at most once |
| Storages, databases, compressors, notifiers, metrics, logger, helpers, other pages | none, or another system's | one call each | pure I/O, or rendering | left to tests |

How they interact. A trigger (scheduler job, `POST /api/perform`, the command line)
calls `Model.Start`: `acquireRunLock` computes the resources and asks the registry,
`runlog.Begin` makes the record, `BindRunID` ties the two together. `handle.Run` goes
through the stages; the progress tracker calls `Run.Report`; deferred functions turn a
panic into an error, clean up, notify, `runlog.End`, and release. `storage.Run` uploads
and then runs the Cycler. The web server reads records with `runlog.Get`, deletes them
with `runlog.Delete`, and follows their logs with `streamFile`, which asks
`runlog.IsActive` when to stop. A patch of the configuration replaces the file and
reloads it, which gives later backups new settings.

In the browser every request goes through `lib/http.ts`, which adds the token and shares
one refresh among all that were refused. The lists of backups are in one query cache for
all pages; starting and deleting a backup invalidate some of them, and the task page asks
again as soon as the log panel reports that the log is over. The shell mirrors the router's path
into the tab store, and a session that ends takes the shell off the screen.

## 2. Modules

| Module | Models | Composes |
|---|---|---|
| `ExclusiveOwnership` | abstract: points, each with at most one owner, taken all at once or not at all | |
| `TaskRegistry` | `task/task.go` | implements `ExclusiveOwnership` |
| `BackupLocks` | `database/resource.go`, `model/lock.go` | uses the actions of `TaskRegistry` |
| `Backups` | abstract: a trigger is refused or starts a backup, which runs alone among those it excludes and ends once | |
| `BackupRun` | `model/model.go` | uses the actions of `TaskRegistry`, implements `Backups` |
| `RunLog` | `runlog/` | |
| `LogStream` | `web/logstream.go` | |
| `Cycler` | `storage/cycler.go`, `runModel` of `storage/base.go` | |
| `ConfigTree` | the tree of settings and the operations on it: those of the page and those of the server | |
| `SavedConfig` | abstract: a config in force, replaced in one step by what a client's operations make of the version it has read | |
| `ConfigSaving` | pages and server: drafts, versions, saves, answers (`pages/config-editor-page.tsx`, `api/config-editor.ts`, `web/config_editor.go`), for any configs and edits | implements `SavedConfig` |
| `ConfigEditing` | the edits the page's components offer | `ConfigSaving` over `ConfigTree` |
| `TabsStore` | `store/tabs.ts` | |
| `Preferences` | `store/preferences.ts`, for any fields, ranges and values | |
| `AdminPreferences` | the fields and controls of `layouts/preferences-*.tsx`, and where they are offered | |
| `Workspace` | `layouts/base-layout.tsx`, header, sidebar, tab bar, overlays, login | `TabsStore`, `AdminPreferences`, `Preferences` |
| `WebSession` | `lib/http.ts`, `lib/query-client.ts`, `auth/`, `store/auth.ts`, `web/auth.go` | |
| `TaskCenter` | `api/backup-queries.ts`, task page, overview, run history | |
| `LogPanel` | the task log panel and the live log panel | |
| `TaskRegistryProofs` | theorems about `TaskRegistry` | |
| `BackupLocksProofs`, `BackupRunProofs` | theorems about `BackupLocks` and `BackupRun` | instantiate `TaskRegistryProofs` |
| `DurableStateProofs` | theorems about `RunLog`, `Cycler` and `ConfigSaving` | |
| `LogFollowingProofs` | theorems about `LogStream` and `LogPanel` | |
| `ConsoleProofs` | theorems about `WebSession` and `TaskCenter` | |
| `PreferencesProofs` | theorems about `Preferences` | |
| `WorkspaceProofs` | theorems about `Workspace` and the stores it composes | instantiates `PreferencesProofs` |
| `MC*` | instances for TLC | |

A definition called a mutant or a plausible slip in a comment is another one with a
plausible bug; it is used by nothing and stands there so that each property can be seen
to fail.

**TaskRegistry.** `holders` is `registry.holders`; since every exported function holds
the mutex throughout, each is one action: `Acquire`, `Refuse` (the conflict branch),
`BindRunID`, `Release`. Both late calls are possible after the release, as in
`model.go`, where the handle outlives the lock. Instance and target strings are model
values; that a target string begins with its instance's is the assumption
`RequestAssumption`. The refinement mapping names what a resource covers as a set of
points: a target covers itself, a whole instance its root and all its targets.

**BackupLocks.** The identity of a database is computed from the settings of the moment
(`Settings`): the written file, or the defaults as well once a dumper's `init()` has put them
there (`InitDatabase`), until the configuration is loaded again (`Reload`; running
backups keep the old settings). What the properties compare is not the
identity but the server and database the dumper really connects to (`Server`).

**BackupRun.** One job per trigger. Stages return, fail or panic; `panicking` and the
named result `err` are separate, as in Go, so that a panic leaves `err` nil until
`RecoverAndClean` sets it. `artifact` is the stages whose work is in the archive, and
`uploaded` those of the archive the upload was given. A stage whose `type` the program does
not know (`Unknown`: an encryptor, a database) returns nil and does nothing; the others
are `Effective`. `temp` says that the run uses its temporary directory: to remove it may fail,
which is only logged. Begin may fail, and then the run goes on without a
record (`BeginWithoutRecord`). The deferred functions are one action each, in their order.
`Seen` is what of all this shows outside, in `Backups`: a job is a running backup from its
locks to their release, refused when it was skipped, and ended with the result of Run.

**RunLog.** `meta` and `log` are files, `run` the object in memory with a program
counter for the steps of Begin and End, `live` the map of live runs. `os.WriteFile` is two steps
with a torn file between them, `writer` being who holds `mu` then. Of the runs that are
`Fallible` a write may fail: before it has opened the file, which stays as it was
(`Truncate`), or after it has emptied it (`Written`). No caller looks at the error; End
unregisters all the same. `spoiled`, a history variable, is the runs whose last write failed,
once End writes. `Get` reads without `mu` (`GetRead`),
and only afterwards asks `IsActive` (`GetReply`). `Crash` stops the process anywhere;
files stay. `Stragglers` are runs with a goroutine that reports after End: `watchSize`
after a panic (`model/progress.go:256`). Run ids need not ascend in the order of beginning, since
they are taken from the clock and a random suffix. `removed` is a history variable.

**LogStream.** A file is the sequence of its numbered pieces, so that gaps and
repetitions can be told; a path names one file at a time and a handle keeps its own.
`ofRun` says which of the two uses it is. `Rotate` and `Truncate` are logrotate's. MaxBytes,
Follow=false and the search for the tail's offset are left out.

**Cycler.** `remote` and `local` are the two state files, `stored` what is on the storage
by name. A storage either gives URLs to download from (`HasUrl`: S3, GCS, Azure) or not.
`failed` is a history variable: which faults there have been.

**ConfigTree, ConfigSaving, ConfigEditing.** A configuration is a tree of mappings, lists and scalars.
Two families of operators work on it: `setAtPath` and `deleteAtPath` of the page, and what
the server makes of the same operations on the YAML nodes. `ConfigSaving` knows neither:
what may be edited, what an edit shows and what the server makes of a list of operations
are its parameters (`Offers`, `Shown`, `Noted`, `Result`), and so is when a config, saved,
looks like a draft (`Same`); `config_editing` gives
them the operators of the two other modules. Each page has the state of
its component (`draft`, `version`, `operations`, `call`) and of its query (`cached`,
`reading`); the server has the file, the configuration that is loaded, and `writing`: the
page whose save holds the mutex while the new file is on disk and not yet accepted
(`previous` is what it puts back when it is not). `Edit` enumerates every
edit the page offers for the part its user came for: fields, secrets, arrays, tables,
schedule, new and deleted entries. A member of `Topics` says of each page which part that is, and
how many edits and reads it makes. The version, a hash of the bytes, is the
configuration itself. When the reload rejects the file (`LoadFails`) the server puts the
previous one back (`Restore`, `RestoreFails`) and reloads again, which may fail as well
(`ReloadRestored`). A load that failed has emptied the models and filled some: it leaves
either what ran or `Unloaded`. `Reload` is the watcher of the file (and `POST
/config/editor/reload`, which no page calls): it takes no mutex and may come in the middle of a
save. For `SavedConfig` the value is the config in force (`InForce`): the file, or `previous` while
a save is being written; and a page's request is its save until the server has
decided (`AsRequest`). Three history variables: `origin`, what the draft was
taken from; `clobbered`, an operation was replaced that a later one builds on, or an edit
was made below a section without content, of which the page makes a mapping and the server an
error; `astray`, a rejected file could not be put back.

**TabsStore, Preferences, AdminPreferences, Workspace.** The tab store is a set of
operators on a sequence of tabs, the preference store a small specification with a
memory, an entry of local storage, and three calls; `AdminPreferences` gives it the
fields of this program that some guard depends on and says which control of the settings
sheet may change which, and where the button of the sheet is shown. `Workspace` composes
them with the router, the lock screen and the session: a handler and the effects React
runs for it are one action; the write of the tabs after 150 ms, the answer of a logout, a
session lost elsewhere and a reload of the window come at any time. `mustUnlock` is a
history variable.

**WebSession.** `req` is where each request is, with the token it was sent with; a 401
(`refused`) leads to the shared refresh (`refreshing`) or to the login page. A token
is the password it was made of (`web/auth.go` checks each request against the configured
one). `Fail` is a lost answer, a timeout or a 5xx, retried for queries only. Another
window writes local storage at any time, and only a reload reads it.

**TaskCenter.** The cache is a library: what is said of it is what the pages rely on (one
fetch at a time for each list, cancelled by an invalidation unless it is the first,
dropped with the page). Every answer carries the version of the server's state it was read
in, so that old and new can be told apart. The list of tasks is answered in two reads, the
live map (`ListRunning`) and then the records (`listTasks`), and what is live comes first;
the history is the records alone (`listRuns`). To write a record and to enter or leave the
live map are one step here, and apart in `RunLog`. `gone` is a history variable: rows deleted
here and lists that have been asked for again since.

**LogPanel.** The log is bytes: a character of two bytes and a newline make a line, so that a
cut inside a line, and inside a character, can happen; a line shown is the list of the
characters it consists of. The decoder holds the first byte of a character (`pending`) until the
second comes; each connection makes a new one (`Connected`), which makes U+FFFD (`Garbled`) of
a second byte without a first. `kind` is which of the two panels it is. Two history variables:
`exact`, whether the offset kept can still be an offset into the file (section 6 says when it
cannot), and `torn`, the lines whose character a cut went through.

## 3. Runs

| Run | Instance | What it shows |
|---|---|---|
| `task_registry` | 3 callers, 5 requests mixing a whole instance, single databases, an exclusive_key group | `MutualExclusion`; `RegisteredIffGranted` despite late calls; `ImplementsOwnership` |
| `backup_locks` | 3 attempts, 5 models (one without a database), 1 reload; every overlapping server is written out | `ModelExclusion`; `EnvironmentExclusion`, groups of an exclusive_key included, across defaults being set and a reload |
| `backup_run` | 3 jobs, 2 models that exclude each other, one with an encryption of an unknown type | `OutcomeIsTrue` (the record, and the work of every effective stage in what was uploaded), `NoticeMatchesRecord`, `LocksCoverTheRun`, `LocksAreReleased`, `ImplementsBackups`, on every path of returns, errors and panics |
| `run_records` | 2 runs, 1 record kept, 1 restart, 1 reader, one run that straggles and whose writes may fail | `RecordMatchesOutcome`, `NoGhostRuns`, `DeletedStaysDeleted`, `InactiveMeansSettled`, `OutcomeIsFinal`, `BookkeepingReturns` |
| `log_stream` | 3 pieces and a footer, 3 files, 1 failing read | `NoGapNoRepeat` and `StreamEnds` for a run's log, `CatchesUp` for the service's |
| `retention` | keep 2, 6 uploads, every fault | `NewestKept` whatever fails; `RetentionBound` while the list is safe |
| `config_editing` | 2 pages, one model; with and without sections that are null; one page edits one of six parts once and the other changes the schedule once; or one page edits the schedule 3 times, or whatever it likes twice; any load may be rejected, any way back fail, and a reload come at any time | `SavedIsShown`, `FileIsRunning`, `ImplementsSavedConfig` |
| `workspace` | 3 pages of the menu and one that is not in it; 12 scenarios of the parts used and the preferences changed | `PageHasActiveTab`, `StoredAsChosen`, `StaysLocked`, `AutomaticButtonIsShown`, `RoundTrip`, `TypeOK` |
| `web_session` | 2 passwords or none; a polling query, a login and a logout; 1 change of the password, 3 faults, 1 reload | `NobodyWaitsAlone`, `Settles`, `RevokedSessionEnds`, `LogoutEnds` |
| `task_center` | 2 backups of one model, 2 versions, 4 pairs of pages, up to 1 fault | `DeletedRowIsGone`, `NeverGoesBack`, `ShownCatchesUp` |
| `log_panels` | 7 bytes (2 lines and a first byte), tails of 1 line, 3 cuts, 1 heartbeat, both panels | `ResumesExactly`, `PanelSettles` |
| `port_left_out` | as `backup_locks`, with a port that is not written out | `EnvironmentExclusion` is violated (section 6) |

Why the bounds are enough. Exclusion is between pairs, and a third party matters only to
free or to take in between: three callers. One kept record and two runs make pruning hit
a run that is still going on. Six uploads with keep 2 let a list fall behind, be pruned,
and be believed again, twice over; the list after that depends on the last few uploads
only. Three files let a stream miss one rotation altogether. One restart separates an
earlier process from a later one.

A lost update needs two pages; what one page's operations make of its draft does not depend
on the other, so the longest lists of operations are those of a page alone: three edits are a first, one inside
it, and one that replaces either. Parts of a configuration only meet where one contains the other, so
of two pages one edits a part and the other a leaf of the same model. A scenario of
`workspace` brings together the preferences and parts some guard reads together; all of them at once
are beyond TLC, and the layout, which most guards of the shell read, is
in four of them. Three faults are a retry, its retry and the refresh in between; that a query
and a login and a logout are under way together is what the shared refresh is about. Two
versions of the server are a state before and one after; deletions stop at the bound so
that pages may catch up. Seven bytes and tails of one line make a tail that begins inside the log,
and cuts between lines, inside a line, inside a character and at the end. A write of a record
fails or not for each of its steps anew, so one run whose writes may fail, beside one whose
writes do not, is enough to have both outcomes after each other. Of the six parts one is below a null section
in the second of the two initial configs (the databases) and one is such a section itself (web).

Each bound is a constant, and what it bounds is in the guards. Deadlock is checked where
something can always happen (`task_registry`, `workspace`, `web_session`, `task_center`);
elsewhere each trigger, run, connection, page or upload is used up, and the system stops
when all are.

## 4. Fairness

- `BackupRun`: a goroutine that holds its locks goes on, and a stage ends one way or the
  other (weak fairness of `Progress`). A command that never ends keeps its locks: the
  code has no timeout around a stage.
- `RunLog`: strong fairness of the steps of Begin and End, because they wait for a mutex
  others take again and again, and Go's `sync.Mutex` lets a waiting goroutine have it
  (starvation mode); weak fairness of finishing a write. Nothing is assumed of the
  backup itself, nor of readers, deletions and crashes.
- `LogStream`: weak fairness of the connection's loop; strong fairness of the check of
  the path, which the code makes once a second, on a clock, so not every time it could; weak
  fairness of `Unregister`. Nothing is assumed of the writer, rotation or the client.
- `WebSession`: every request is answered, refused or given up after 30 s
  (`lib/http.ts:76`), and so is a refresh: weak fairness of what server and browser do
  unasked; a page that polls goes on (weak fairness of its `Send`). Nothing is assumed
  of the user, of other windows and of the network's faults, which are bounded.
- `TaskCenter`: the timers of the lists that poll run (weak fairness of `Poll`); a fetch
  may be cancelled by a click again and again, but not for ever (strong fairness of
  `ListRunning`, `listTasks`, `listRuns` and `Arrive`).
- `LogPanel`: a connection is answered, what is written is sent, the timer of a retry
  fires, and the list of tasks is polled (weak fairness). Cuts are bounded: against a
  network that always cuts, the live panel would retry for ever, and rightly.
- `Workspace`, `ConfigSaving`, `Cycler`, `TaskRegistry` and `BackupLocks` state no fairness: all their properties are safety.

## 5. Proofs

All theorems are of the specification that the runs check, for any values of its constants
under the named assumptions. Each component has an inductive invariant, of which the
properties are consequences. Every safety property of a passing run is proved
(`SavedIsShown` under a hypothesis about the tree operators, see `DraftsSaveAsShown`).

`TaskRegistryProofs`, for any number of callers and any requests that satisfy
`RequestAssumption`:

- `TypeCorrect`, `Exclusion`, `NoLockLostOrLeaked`. Mutual exclusion alone is not
  inductive: a `BindRunID` after the release could bring a holder back. The invariant adds that
  a token is registered exactly while granted, and that what is held was requested (the
  assumption on strings speaks only of requested resources). Exclusion is kept by
  `Acquire` because the conflict test is symmetric (`ConflictsSymmetric`).
- `Refinement`: the registry implements `ExclusiveOwnership`. Its key is
  `ConflictIffOverlap`: two requested resources conflict exactly when the points they cover
  overlap, which justifies the asymmetric rule of the code.

`BackupLocksProofs`, for any models and databases:

- `OneBackupOfAModel`: a model is never backed up twice at a time. The invariant says that
  a running backup is registered with its model and a resource for each of its databases,
  computed from some settings it may have had (`HoldsItAll`), and that registered
  resources do not conflict (`Apart`).
- `OneBackupOfAnEnvironment`: nor is a database environment in two running backups, under
  `OverlapsAreWrittenOut`: where two databases overlap, both or neither are in an exclusive_key
  group, and if neither is, their servers are written out. `SameEnvironmentConflicts` is the
  core: the identities conflict whichever of the settings each was computed from. The
  hypothesis is what a user has to observe; `port_left_out` is a configuration without it.
- `BackupsUseTheRegistry` and `BackupsOwnExclusively`: what the backups do to the registry
  is a behaviour of `TaskRegistry`, so that they own their points exclusively. That is the
  refinement theorem of `TaskRegistryProofs` with this module's requests, and
  `RegistryAssumption` proves of them what the registry assumes: the
  three forms of resources are told apart, and a target's string begins with its instance's.
  That no instance's string is one of a target is `IdentitiesAssumption`.

`BackupRunProofs`, for any triggers, models, stages and locks: `OutcomesAreTrue`,
`NoticesMatch`, `LocksCover`. The invariant says of each job, by its
program counter, what it has done so far (`Follows`): the archive has the work of the effective
stages completed so far, and the result and the panic flag agree with the stages left only until
the recovering function has run. With the correspondence of program counter and registration
(`Holds`) and the exclusion of what is held (`Apart`) the locks cover the run.
`PipelineUsesTheRegistry`, `PipelineOwnsExclusively` and `PipelineLosesNoLock` are the same
composition as above: on every path of returns, errors and panics the pipeline calls the registry
as it is specified, and inherits what is proved of it.

- `PipelineImplementsBackups`: from outside, the jobs are a behaviour of `Backups`, step by
  step. To be started and to be refused are decided by what is registered, to be running by the
  program counter; `RunInv` adds to the invariant that only a backup between its
  locks and their release is registered (`Held`), so that the registry finds a conflict exactly if
  a backup in the way is running (`ConflictIsInTheWay`). No stage, panic or
  deferred function shows outside (`InsideSteps`), and the release is the end.
- `BackupsRunOut` is the half of `LocksAreReleased` that is safety: a backup that holds its
  locks has a step to take that nobody else can take from it (`NeverStuck`), each of its
  steps lowers `Left`, the places and stages still before it, at most thirteen, and no step of
  another raises it (`StepsAreUsedUp`). What is missing to the liveness property is the
  fairness of section 4, by which a step that can be taken is taken.

`DurableStateProofs`, three components:

- `RunLog`, for any runs, readers, stragglers, records kept and restarts:
  `EndedRecordsAreRight`, `ReadersSeeNoGhosts`, `DeletionIsFinal`, `UnregisteredIsSettled`,
  `OutcomesAreFinal`, whichever of the writes fail. A record whose last write failed says
  "running" or is cut off, and never has another outcome (`spoiled`); of a straggler the phase may be
  another. That a record ends up with the outcome is not inductive: a write that
  has begun, of a report that began before End or of a straggler, may still overwrite it. `RecordsInv`
  adds that there is one writer at a time, standing where a report, Begin or End may
  (`WriterIsAtWork`); that what is being written, once it has an outcome, has its run's
  (`OutcomeIsOwn`); what each program counter says of the record and the log
  (`Progressed`); and that a reader who is about to answer "running" has read the record of
  a run of this process (`ReadersAreRight`).
- `Cycler`, for every `Keep`, every bound and every set of faults. `NewestSurvive`, provided
  file names do not repeat (with repetition the statement is false, section 6): the newest
  `keep` backups are on the storage whatever fails. That the code deletes only from the front
  of a list longer than `keep` is not enough: the list may be stale. `CyclerInv` says that
  both state files and the list in memory are strictly ascending and contain
  nothing newer than the last upload, so whatever stands at the front of more than `keep`
  entries has `keep` newer uploads (`HeadIsOld`), listed or not. `ExpiredAreRemoved`,
  names repeating or not: while the list is safe no expired backup stays. `RetentionInv`
  says that what is on the storage is on the list that is loaded next, or on the one in memory, and
  that lists are cut to `keep` before they are saved (`Listed`). `RetentionTypeCorrect` comes with it.
- `ConfigSaving`, for any pages, configs, edits and whatever the server makes of them.
  `SavesAreNotLost` and `FileIsWhatRuns` need one fact, `SaveInv`: while a save
  is being written, the file it replaces and would put back and the version its page sent are
  one and the same, and they are the last config saved and loaded unless a rejected file has stayed
  (`astray`). `SavesAreAtomic`: `ConfigSaving` implements
  `SavedConfig`. The save takes effect where its reload is accepted (`LoadSucceeds`), a step
  of the server at which the file is already replaced and the version was compared long before; by `SaveInv`
  the config in force is still that version, and by `AtomicInv` the new file is what the page's operations
  make of it. When it is rejected and put back, nothing has happened, whether the second reload works or not
  and whatever the watcher has loaded meanwhile; when it cannot be put back (`RestoreFails`) the save
  has taken effect although its page is told of an error (`Strand`). What the daemon runs is not
  part of this; `FileIsWhatRuns` says that it is the file, or what a load that failed has left. `NoLostUpdate`,
  conditioned on `astray`, is a theorem only (`SavesAreNotLost`), and so is `EditorTypeOK`, which
  `EditorTypeCorrect` states for any set of configs
  closed under the edits offered and the server's operations (`Closed`): answers, drafts and
  versions stay in it, and whatever gives a page its draft gives it the version as well.
  `DraftsSaveAsShown`, that what is saved is what was shown, is relative to `Agreeing`: the tree operators
  of page and server agree about one more edit wherever they agreed before, unless it overtakes
  another or goes below a section without content (`Overtakes`). That is a statement about pure operators, without pages, saves or
  time; the theorem is that nothing else is needed: however edits, reads, late answers, discards,
  reloads and saves of any pages interleave, a draft and its operations stay together.

`LogFollowingProofs`:

- `StreamIsComplete`, for a run's log, which is neither rotated nor truncated, of any length, any
  position to begin at and any failures: `StreamInv` says that there is one file, ever, that the offset is what was sent
  after the first position (`OffsetIsNext`), and that what was sent is the file's content from
  there (`SentIsContent`), whether or not the path still exists.
- `PanelResumesExactly`, for any number of cuts of a log of any length whose first connection
  began at its start (then the log was no longer than the tail) and without heartbeats; for the live
  panel, with streams that ended between two lines: all of this is `exact`. Lines a cut went through
  the character of are garbled, all others whole. The
  invariant says, while `exact` holds, that the lines shown are
  the first of the log and the line begun is the next one, as far as it was taken, with what the decoder
  holds (`LinesInPlace`), and that the
  offset and the server's position are the bytes taken (`OffsetFollows`).

`ConsoleProofs`:

- `WaitersAreWaitedFor` and `TypeCorrect` of `WebSession`, for any requests, passwords and
  bounds. They are inductive together: every way a refresh ends releases all who wait, and only a
  request that was not retried begins to wait.
- `DeletedRowStaysAway` and `ListsNeverGoBack` of `TaskCenter`, for any backups, scenarios and
  bounds. The invariant adds that an answer under way is never older than the
  list it will replace (`InOrder`), that a list has one fetch at a time except for its first
  (`OneFetch`), and that a list and the answers to it which are older than a deletion are
  marked to be fetched again (`GoneIsForgotten`). A deleted row stays away from the list of
  tasks once its backup is over: until then the live map shows it. The proof found a case TLC's instance
  did not reach, of a running backup whose record returns between its deletion and the
  answer; `Forgets` has it now.

`PreferencesProofs`, for any fields, ranges and values whose defaults are valid
(`DefaultsAreValid`, which TLC evaluates for the program's own): `PreferencesRoundTrip`
and `PreferencesNormalized`. The invariant `Settled` says that the state is normalized and
that the entry of local storage holds exactly what differs from the defaults.

`WorkspaceProofs`, for any menu, any scenarios and the fields of the program:
`ShellTypeCorrect`, `ShownPageIsActive`, `TabsAreStoredAsChosen`, `LockedStaysLocked`,
`ButtonIsShown`, `ShellPreferencesRoundTrip`, `ShellUsesThePreferenceStore`,
`ShellPreferencesNormalized`. `StepKinds` sorts the steps of the shell by what they may do
to tabs, path, lock and preferences, so that each part of the invariant is kept step kind by
step kind. The tab store is `Coherent`: each page has one tab at most, and the active key is
that of a tab unless there is none; that a page has its tab is then kept only together with
the fact that the path and the active key agree while the shell is on the screen. What the lock
needs is that session storage remembers it (`LockInv`); what the preferences need is that every
control hands the store values of the fields' kinds (`Proper`): then every step of the shell
is a call of the store as `Preferences` specifies it, or leaves it alone (`StoreSteps`), and what
`PreferencesProofs` proves of the store holds in the shell. `ButtonIsShown` is a fact about the placement for every layout and
needs no invariant.

Definitions written so that they can be reasoned about: sequences of tabs are cut and
joined by place (`Nth`, `AtPlaces`) and patches of preferences with `Only` and `Joined`; neither recurses, and
both say what the code's `filter`, `splice` and spread do. Where a component's module would
clash with another's in a module of theorems its names are its own (`CyclerNext`,
`PanelNext`, `CacheNext`, `EditorNext`).

Only model-checked: all liveness properties (`BookkeepingReturns`, `LocksAreReleased`,
`StreamEnds`, `CatchesUp`, `Settles`, `RevokedSessionEnds`, `LogoutEnds`, `ShownCatchesUp`,
`PanelSettles`), since TLAPS as used here does not prove liveness under fairness or `ENABLED`; and
that the operators of `ConfigTree` satisfy `Agreeing`, because they recurse over trees, and
induction over them is out of reach of the installed provers. `config_editing` checks it as
far as its edits go: two deep for any edits of one page, three for those of the schedule.

## 6. Where code and documentation disagree

`port_left_out` is a run that TLC refutes: the port is not in the lock's identity before
the first run and is in it afterwards (`database/resource.go:83`, `database/mysql.go:37-39`),
so two backups of one database run at once, against the first rule of `task/task.go`.

The others were met while modelling. The models contain them, and the properties are
stated so that they hold beside them; where a condition is there for their sake it is named.

Daemon:

- A database with an `exclusive_key` on one side only is backed up twice at once
  (`database/resource.go:25`): `OverlapsAreWrittenOut`.
- `Get` reads a record and asks `IsActive` later; a run that ends (or has not yet
  registered) in between is answered as interrupted (`runlog/runlog.go:330`).
- A process that stops inside `os.WriteFile` leaves a record that is an error instead of
  an interrupted run (`runlog/runlog.go:363`).
- A running backup whose record is deleted or pruned writes it again, so that more than
  MaxRuns records may stay (`runlog/runlog.go:350`, `:389`): `DeletedStaysDeleted`.
- A straggler's report replaces the final phase of a failed run
  (`runlog/progress.go:59`): `RecordMatchesOutcome` leaves the phase of stragglers out.
- The error of a failed write of a record is dropped (`runlog/runlog.go:137`, `:211`,
  `progress.go:77`): a run whose last write failed leaves the live map with a record that
  says "running", later answered as interrupted, or that is cut off: `spoiled`.
- A `type` of `encrypt_with` or of a database that the program does not know is passed over
  without an error (`encryptor/base.go:39`; with a warning, `database/base.go:88`): the
  backup succeeds unencrypted, or without that database. `OutcomeIsTrue` is of `Effective` stages.
- A temporary directory that cannot be removed stays; only the log tells
  (`model/model.go:265`). No property says that it is gone.
- A panic in `before()` comes ahead of the function that recovers
  (`model/model.go:141`, `:168`): the run would be recorded as successful while the panic goes on. `EnterRun` does not panic.
- `Done` is asked after EOF; what was written between is not sent (`web/logstream.go:243`).
  A log that cannot be opened is tried again without asking `Done` (`:182`): the
  condition of `StreamEnds`.
- A failed upload of the list makes the next run believe an older one, and a backup is
  never removed (`storage/cycler.go:128`); a deletion that fails is never repeated (`:83`),
  and the list sent to a storage without URLs is never read back (`:119`): the condition
  `ListIsSafe`. A repeated file name makes pruning delete the newest backup (`:82`): `Repeats`.
- A backup of the command line knows nothing of the daemon's locks (`main.go:304`): the
  models are of one process.

Configuration editor (`pages/config-editor-page.tsx`):

- A rejected file that cannot be put back stays (`web/config_editor.go:197`): later pages read it and
  save on top of it (`astray`). Put back, it is loaded again, and the error of that load is ignored (`:203`);
  a load that fails has emptied the models before it reads them (`config/config.go:296`), so that
  the daemon may go on with some or none of them (`Unloaded`).
- Below a section without content, such as `databases:` alone, the page makes a mapping
  (`setAtPath`, `:250`) and the server an error (`web/config_editor.go:574`): what is shown
  cannot be saved until the section is deleted or replaced (`clobbered`).
- An edit replaces an earlier one at the same path in place, so that what was edited
  between, inside that path, is applied after it (`:282`): `clobbered` in `SavedIsShown`.
- Discarding after a save shows the configuration read before the save under the new
  version (`:1819`): `DiscardShowsCurrent` is not a property of the code.
- What is edited while a save is under way is dropped when the answer comes (`:1838`).
- "添加一项" on an array that is not there makes a mapping (`:400`, `:243`).
- The server reads the file for a page without the mutex of its writers
  (`web/config_editor.go`): a page may show a configuration that is then rejected.

Shell (`layouts/`):

- With mixed-nav and split navigation a click on a top entry of a flat menu does nothing
  (`base-layout.tsx:627`, against `i18n/admin-i18n.ts:519`).
- Expanding on hover is done when the preference is off (`admin-sidebar.tsx:222`, against
  `i18n/admin-i18n.ts:359`), and hovering changes the stored `sidebarCollapsed`.
- Refreshing the active tab refetches nothing on several pages (`base-layout.tsx:539`).
- "至少保留一个标签" (`store/tabs.ts:197`) does not survive unpinning and closing; pinned
  tabs are anchors (`:279`) for neighbours, and yet others are dragged across them.
- With the button's position set to the header and the header hidden, no button for the
  preferences is left, and a maximized page without tab bar cannot be restored:
  `AutomaticButtonIsShown` speaks of the automatic position.
- Two windows overwrite each other's tabs and preferences; `Workspace` is of one.

Session:

- "保持登录状态" on the login page is never read: every session is kept.
- A refresh under way brings back the session a logout has just ended; one that is refused
  or late ends a newer login; a refresh that fails for the network logs out: what
  `LogoutEnds` and `RevokedSessionEnds` say is where this ends up.
- The log streams (`api/stream.ts:12`) neither refresh nor end a session on a 401: a log
  page whose token was revoked reconnects for ever.

Task centre:

- The list of models is not polled and not invalidated by a start: "该模型已有进行中的任务"
  and a disabled button may stay after the run has ended (`overview-page.tsx:452`, `:580`);
  hence `ShownCatchesUp` is of the task list and the history.
- A deletion in the history invalidates the history only; the task list keeps the row
  until its next poll (against `tasks-page.tsx:143`). A first load under way joins the
  invalidation and may still show the deleted row: `Forgets`.
- A running backup deleted in the task centre stays in its list, since the server puts the live
  map first (`web/api.go:376`, against `tasks-page.tsx:142` "已删除该任务记录"); its next report writes the record again.
  `DeletedRowIsGone` is of backups that are over.
- The history stops polling a log when its run ends, so that the log shown lacks its end
  (`run-history-panel.tsx:88`, against `:322` "完整日志与结果").

Log panels:

- The task panel's offset counts from where the tail began and counts heartbeats: when a
  run with a longer log ends, lines are shown twice (against `task-log-panel.tsx:94`
  "避免重复整段日志"): `exact`.
- The live panel's offset is not one into the file after a tail, what was begun is glued
  to the line sent again (against `live-log-panel.tsx:135` "续读时从行首开始"), and an error does
  not move the offset, so that lines come again (against `:121` "避免重连后从头重放"): `exact`.
- A cut inside a character of several bytes garbles it: each connection has a decoder of its own
  (`task-log-panel.tsx:177`, `live-log-panel.tsx:220`), and what the last one held was already
  counted (against `live-log-panel.tsx:225` "保证被切开的 UTF-8 多字节字符不会变成乱码"): `torn`.
- The button keeps the lines of the live panel and replays the log below them; a heartbeat
  splits a line that has begun.

## 7. Not modelled

Storages, databases, archive, compressor, splitter, encryptor, notifiers, metrics and
helpers: calls into other programs and services; the models contain what the daemon sees
of them (they return, fail or panic, or pass over a type they do not know; a deletion succeeds or not). The calendar arithmetic
of the scheduler, the formatting of messages, the comments and the order of the YAML file
are data. Data races on single fields (those of a run are read while End sets them,
`runlog/runlog.go:195`) are not modelled. The pid file is check-then-act between processes
and the download tickets one map under one mutex: hazards of both are listed with
the reason no property covers them. Percentages of the progress tracker are arithmetic for
display. A load of the configuration is one step in `ConfigSaving` and `BackupLocks` (in the
first it may fail); which models a failed one has left is not told apart. On Windows the file
is replaced in three steps, by way of a backup (`web/config_editor.go:1586`), which is not modelled either. Its
readers without the lock (scheduler, web handlers) are a hazard no property covers.

Of the console: texts and themes, colours, fonts, animation, the filters and statistics of
the lists, the file browser, the environment and about pages, which fetch and show; drag
and drop beyond its result; the test of a database connection in the editor; the bound on
the lines a log panel keeps and its following of the end.

## 8. Plan

Done, in the order of importance: the registry and the locks; the pipeline, the records,
the streams and the retention; the editor; the shell; the session, the task centre and
the panels; and the theorems of section 5.

What would come next:

1. `ConfigReload`: `loadConfig` called from fsnotify and from the editor, readers of
   `Models` without the lock, Restart after a failed load. Property: a schedule is of one
   configuration.
2. `PidFile`: 2 starts, 1 stop, 1 daemon crash, pids that may be reused. Property: at most
   one daemon, and `stop` finds it.
3. A composition of `BackupRun` and `RunLog`: a released lock means a settled record.
4. `DownloadTicket` and `ProgressTracker`.
5. An abstract specification of a run's record, written once with an outcome, for `RunLog`.
