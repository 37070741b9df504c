# screenshot_crawler in TLA+

screenshot_crawler collects volumes and episodes from thirteen manga sites. A
SQLite *Catalog* knows the Works, their items and where each item can be read
(Sources); a *batch* picks the items that may be read now, lets a site adapter
drive a browser through the pages, packs the screenshots into a ZIP in the
library and books it in the Catalog. A PySide GUI queues batches as jobs and
runs each of them in a worker process. This directory holds models of the parts
whose correctness depends on the order of steps, on failures between two writes
and on several processes sharing files, the TLC runs that check them, and TLAPS
proofs that lift most of the checked invariants to every value of the constants.

Paths below are relative to `src/src/screenshot_crawler/` unless they begin with
`scripts/` (which is `src/scripts/`).

## 1. Inventory

### Catalog job lock (`catalog/job_lock.py`)

*State*: per process a registry `path -> (owner, depth)` guarded by a mutex; a
lock file beside the Catalog. *Operations*: `__enter__` (register or nest, lock
the file, undo the entry if that fails), `__exit__` (count down, remove the
entry, then unlock the file). *Used by* a whole batch (`cli.py:1782`),
a worker job (`execution_worker.py:286`), discovery, Watchlist reconciliation
and site sync, registration, renumbering, source identity changes, the two
executors and the quota script. *Not taken by* `prepare_recrawl.py`,
`catalog item-status` and the `crawl` command. *Hard*: an owner is an asyncio
task or a thread, so two owners live in one process; entry and exit are several
steps; a process may die. *Correct when* one owner is inside at a time, nothing
is held by nobody, and a refused attempt ends at once.

### Management jobs (`management/jobs.py`, `job_controller.py`, `job_worker.py`, `execution_worker.py`)

*State*: the `jobs` and `job_events` tables, a directory per job with
`start.gate`, `worker.identity`, `cancel.request` and `events.jsonl`, the
memory of the controller (active job, process handle, offset in the log,
latched failure) and of the worker (event sequence, finished tasks).
*Operations*: queue, start (launch, record, open the gate), poll (import,
judge the exit), stop, kill, reconcile after a restart; in the worker: boot, wait
at the gate, lock the Catalog, one task per site, terminal events, exit.
*Interaction*: a GUI process and workers that outlive it, through a DB and
files; nothing is sent and everything is polled. *Hard*: the GUI or a worker
dies between any two writes; a line of the log is torn; the DB refuses a write;
a stop, an exit and the last lines meet in one poll. *Correct when* one worker
works at a time, a begun job is on record, an end is final and told truthfully,
and a job whose worker is gone does not wedge the queue.

### Batch (`batch/`, `core/packaging.py`, the loop in `cli.py`)

*State*: the plan in memory; the rows `items.status`, `crawl_runs`, `artifacts`,
`sources.quota_started_at`, `access_granted_until` and
`quota_resource_states.last_consumed_at`; the ZIP and status file of each item.
*Operations*: plan; validate a candidate against fresh rows and paths; create
the run; reserve the slot; crawl; store an observed consumption; recheck the
paths; package; finalize; on failure store what was consumed and end the run.
*Interaction*: with the site (slots, tickets), with the library's other writers
and with operators. *Hard*: a slot or a ticket is gone whether or not the rest
succeeds; a file appears during the crawl; an interrupt comes right after a
commit. *Correct when* no slot or ticket is spent twice, success in the Catalog
is all or nothing, files of others survive, and every batch ends.

### Catalog service (`catalog/service.py`, `schema.py`, `models.py`)

*State*: the SQLite tables, every method one transaction. *Operations*: those
above, discovery sync of a Work, status changes, locator updates. *Hard*: methods that a
batch, a script and the GUI call on the same rows. *Correct when* the methods
keep rows, runs and artifacts consistent in any order of calls.

### Planner and site policies (`batch/planner.py`, `grants.py`, `site_policies/`)

Pure functions of the Catalog, the clock and the configuration: which Source of
an item, what kind of access, how many candidates a slot or a ticket admits.
*Hard*: window boundaries, cooldowns, a capacity shared by several Works.

### Recrawl preparation and quota restoration (`scripts/prepare_recrawl.py`, `scripts/restore_bookwalker_quota.py`)

The first scans archives, and later moves the bad ones to a backup, books that
and returns their items to the queue, without the job lock; the second gives
back the only reservation of the present window, under it. *Hard*: a report that
is stale when it is applied; a crash between the move and its booking.

### Deferred grants (`batch/grants.py`, `batch/executor.py`, the pass in `cli.py`)

*State*: per Work a page, an adapter and a guard that a resolver has used, the
episode it chose, and whether a cancelled resolver is still alive. *Operations*:
resolve under a time limit, cancel with a grace, hand page and guard to the grant,
report. *Hard*: an answer races a stop, a time limit and a cancel, on a page
that may already have spent a ticket. *Correct when* every ticket that went is
booked, a page is never shared with a lingering resolver, and the pass ends.

### Crawl runner and access guard (`core/runner.py`, `access_guard.py`, `progress.py`)

*State*: screen, page state, repeats, keys of saved pages; files, `manifest` and
`progress` on disk; the guard's first stop. *Operations*: detect, capture,
compare, save, go on; a call is awaited beside the waiter for a stop. *Hard*: loops
that must end on sites that repeat pages; a stop that races a late answer; a kill
between two writes. *Correct when* pages are saved in order and once, the
manifest names only files that exist, and a stop ends the run.

### Discovery (`discovery/service.py`, `catalog/service.py`)

*State*: Sources with availability and position, acquisition flags, a proof of the last
complete listing per key, a marker of the last sync. *Operations*: a full or
incremental run is one transaction per chapter and four at its end. *Hard*: a
run that fails in the middle, a site that changes during it, a proof that
outlives what it proves. *Correct when* a proof is of the latest full run and of the
rows that are there, and nothing is called lost that is shown.

### Watchlist, registration, site sync (`watchlist/`, `registration/`, `gui/watchlist_editor.py`)

*State*: the Watchlist file, a lock file for its writers, revisions and
fingerprints that each editor remembers; drafts, previews and threads of the
GUI. *Operations*: preview and apply of a Work's flags, of a site's Works one
by one, of a registration, of an edit, a switch and a mark. *Hard*: compare-and-set
on what was previewed, against writers that know no lock; several Works committed
one by one; results that arrive after the Catalog has moved on. *Correct when* a
write changes its own part from the state it was asked to change, only what was
shown is applied, and every report is true.

### Work editor and archive numbering (`gui/work_editor.py`, `watchlist/work_edit.py`, `archive_order.py`)

*State*: a draft over complete listings: the blocks of a Work in order, the scope
of each target, archive segments. *Operations*: replace, move, split, open and
close blocks; preview; save; number the archives. *Hard*: a segment is read by
two rules at two times; pieces are open or closed at either end. *Correct when*
a replacement takes each chapter exactly once, the newest end stays open, and what is
numbered is what was approved.

### Maintenance (`maintenance/`)

Renumbering renames the ZIPs and status files of a Work in two stages, rewrites
the statuses and the locators, and rolls all of that back on failure, or says
`RECOVERY_REQUIRED`. A source identity change moves the history of one id to
another after a dry-run with a token. *Hard*: any step fails, also of the
rollback; the plan is stale. *Correct when* a Work is renumbered, as it was, or the
operator is told; and no history is lost.

### Migrations and backup (`catalog/migrations.py`, `backup.py`)

One transaction and a copy before it, per process; several processes at once.
*Hard*: being cut off; two processes that find the same version. *Correct when*
the Catalog is the old or the new one, the old one is kept, and reports are true.

### Site adapters (`site_adapters/`)

An adapter answers where the reader is, turns pages, and enters an episode in the
way the site grants access. *State*: that of a page in a browser, of answers seen, of the
one click that may spend a ticket. *Hard*: answers in any order, a click whose
effect is not known, a viewer that loses clicks. *Correct when* a ticket is
reported only if it went, no action is passed over in silence, and an episode is captured
whole.

### Left aside

The rest of the site adapters (58,000 lines against pages that are not in the
repository), browser start, login, probes and pixel patterns, GUI widgets and
read-only projections (`management/inventory.py`, `result_presenter.py`, ...),
the diagnosis scripts, and everything in `poc`, `research`, `note`, `runbook(s)`,
`examples` and `tools`. Section 6 says why.

## 2. Modules

| module | what it is | code |
|---|---|---|
| `JobExclusion` | what the job lock promises: one holder | callers of `job_lock()` |
| `CatalogJobLock` | the lock as it is implemented | `catalog/job_lock.py` |
| `JobControl` | GUI, management DB, job directory, workers | `management/`, `execution_worker.py`, `gui/main_window.py`, `gui/jobs_page.py` |
| `BatchExecution` | a batch, the Catalog's rows, the library, the site's grants, others | `batch/`, `core/packaging.py`, `catalog/service.py`, `cli.py`, `scripts/` |
| `BatchPlanner` | which Sources a batch tries, and the batches that follow | `batch/planner.py`, `site_policies/` |
| `AccessGuard` | the stop of a site and the call it interrupts; used by the next two | `core/access_guard.py` |
| `CrawlerRunner` | the page loop and its files | `core/runner.py`, `core/progress.py` |
| `DeferredGrants` | the pass that spends a ticket per Work | `batch/grants.py`, `batch/executor.py`, `cli.py` |
| `ArchiveRecrawl` | scan, stale report, application | `scripts/prepare_recrawl.py` |
| `ArchiveRenumber` | two-stage renames with rollback | `maintenance/archive_renumber.py` |
| `SourceIdentity` | the change of an episode's id | `maintenance/source_identity.py` |
| `CatalogMigration` | migrations and backups as processes | `catalog/migrations.py`, `catalog/backup.py` |
| `Discovery` | the runs of a Work on a site | `discovery/service.py`, `catalog/service.py` |
| `ScopeSync` | extends it by preview, apply and gate of a Work's scopes | `watchlist/reconcile.py` |
| `SiteSync` | the sync of all Works of a site | `watchlist/site_sync.py` |
| `WatchlistEdits` | the writers of the Watchlist file | `watchlist/service.py`, `registration/service.py` |
| `WatchlistEditor` | the editor page with its threads, beside the main window | `gui/watchlist_editor.py`, `gui/main_window.py` |
| `WorkLayout` | blocks, scopes, segments, numbering | `gui/work_editor.py`, `watchlist/work_edit.py`, `archive_order.py` |
| `TicketEntry` | what an entry with a ticket promises to the batch | the callers in `batch/executor.py` |
| `TicketSite` | a site with a ticket, and answers in any order (outside the program) | |
| `DatedEntries` | either of the first two of the next row, on one page | |
| `YounganimalEntry`, `HanayumeEntry`, `ComicDaysEntry` | three entries that implement it | `site_adapters/{younganimal,hanayume,comicdays}/` |
| `MagapokeViewer` | rewind and page turning | `site_adapters/magapoke/adapter.py` |
| `MCJobs`, `MCBatches`, `MCWatchlist`, `MCSync`, `MCMaintenance`, `MCEndings` | the instances that one run checks, side by side (section 3) | |
| `MCWorkLayout` | the instance of one violation run | |
| `JobProofs` | theorems of `CatalogJobLock` and `JobControl` | |
| `ReadingProofs` | theorems of `DatedEntries`, `ComicDaysEntry` and `MagapokeViewer` | |
| `DiscoveryProofs` | theorems of `Discovery` and `ScopeSync` | |
| `BatchExecutionProofs`, `SiteSyncProofs` | theorems of the module of that name | |
| `WatchlistProofs` | theorems of `WatchlistEdits` and `WatchlistEditor` | |
| `RunnerProofs` | theorems of `CrawlerRunner` and `DeferredGrants` | |
| `MaintenanceProofs` | theorems of `SourceIdentity`, `CatalogMigration` and `ArchiveRecrawl` | |

Where two modules are extended by one, the second has names of its own for what
every module has: `LockInit`, `LockNext`, `lockVars` in `CatalogJobLock`, `ViewInit`,
`ViewNext`, `viewVars` and `ClickBy` in `MagapokeViewer`, and likewise `Pass...` and
`OpenPage` in `DeferredGrants`, `Recrawl...` in `ArchiveRecrawl`, `Page...` and
`fields` in `WatchlistEditor`.

### CatalogJobLock

`active[p]` and `depth[o]` are the registry entry of a process for one Catalog
path; `blocks[o]` counts the `with` blocks of an owner and `nested[o][k]` is the
`_nested` flag of each of them; `flock` is the operating system's lock. `__enter__` is
`EnterFirst` (registry, under the mutex) followed by `LockFile` or
`LockFileFails`, or `EnterNested`; `__exit__` is `ExitBlock` followed by
`UnlockFile`. A refusal raises and changes nothing, which is a stuttering step.
`Crash` ends a process. The refinement maps `holder` to whoever is inside a
block; owners do not appear there while they acquire.

### JobControl

One variable per column, file and field. `start_job` is three steps (`StartJob`,
`RecordIdentity`, `OpenGate`) because the GUI may die between them, and
`StartFails` is its exception path. A poll is one step that reads one answer of
`process.poll()`; its four outcomes are `PollLatched`, `PollFails`, `PollLive`
and `PollExited`. What the worker writes goes through `Emit`, which knows that a
line after a torn one is lost, and `Boot` continues the numbering from the
complete lines only, as `_last_complete_sequence` does. `Open` is the
constructor with `reconcile`; `OpenUnreconciled` is the same with a DB error in
the middle. There is one GUI at a time because the controller takes an OS
lease; the lease is not modelled further. Events carry a kind and the task
they are of, nothing else.

### BatchExecution

A batch is `pc` and `cur`, one step per transaction or file operation of
`execute_candidate`: `Begin`, `Reserve` (before the reader opens), `Enter`, the
crawl, `Record`, `Recheck`, `PackCheck`, `PackMove`, `PackStatus`, `Finalize`.
`Fails` is an exception or an interrupt anywhere among them, `LateRecord` and
`FailRun` the handler, `Die` a kill. `Site` selects between a slot per window
that is reserved first (BookWalker) and a ticket of the Work whose consumption
is observed during the crawl (Magapoke, with its grant-only batches). Beside the
batch, `RecrawlMove`, `RecrawlLocate`, `RecrawlMissing` and `RecrawlPending` are
the steps of `prepare_recrawl.py` on one item, `ForeignZip` and `ForeignStatus`
files of other programs, `RestoreQuota` the script. The batch's side of the job
lock is that no second batch and no `RestoreQuota` runs while `pc # "off"`.
`entered`, `restored`, `debits`, `lost`, `left` and `strayed` only record what
happened; no guard reads them except `Debit`, which takes one ticket per run.

### AccessGuard, CrawlerRunner, DeferredGrants

The guard, the runner and the pass live in one event loop, so a step is what
runs between two awaits; browser events, the monitor and the waiter for a stop are
steps of their own. `CrawlerRunner` keeps the viewer's screen, what each call
returned, the keys in memory, and files, manifest and progress on disk, each
written by a step of its own, with a kill anywhere. `Lag` lets a wait return before the
page has turned, and `StickyAds` lets advertisements go on for ever. Adapters are
assumed to keep the screen still between `identify` and `capture` and to
remember their own turn at an advertisement. `DeferredGrants` is the pass of one
ticket per Work: the resolver beside its time limit, its cancel and its grace, the
grant on the page it leaves, the run rows, the report. A stop that arrives between the
check at the exit and `guard.close` is not noticed by the code, and the model
has that too. An adapter that saw a ticket go is assumed not to raise
"unavailable"; the refinements of `TicketEntry` show it for three sites. Interrupts
come at awaits and checkpoints.

### BatchPlanner

`plan` is `Plan`, with the passes of the code (the direct and the quota Sources, the rank,
the limit per pool, the order); `Run`, `Stale`, `SkipCooling` and `EndBatch`
carry it out, and `NewWindow` lets time pass anywhere. A Source's kind is
`[mode, use]`: what the policy reads in the row, and whether it may be used, is
soon free, barred or not. Works are numbers, 0 is the pool of the site. Something
to know, which no text of the repository excludes: an Item whose first quota Source is not
granted spends a ticket although a second Source of the same rank is granted.

### Discovery and ScopeSync

A run takes its snapshot of the listing when it starts, stores the chapters one by one
(`Store`), and ends in four transactions (availability, positions, proof, flags),
each of which may fail or be the last. The site publishes and
withdraws chapters and the user edits scopes between any two steps. Whether the adapter
tells the positions of its rows (`hints`) is chosen by the initial state.
`ScopeSync` extends this state by the marker of the Work, the preview that is
shown and the apply that repeats it. Listings hold no chapter twice, and
withdrawn chapters do not return to a site whose positions are inferred.
`archive_order`, several sites of a Work and the first binding of an old Catalog are left out.

### SiteSync, WatchlistEdits, WatchlistEditor

`SiteSync` reads the Watchlist wherever `apply` does, one Work at a time, in the
order of their keys; the reading again after a failure is one instant. `WatchlistEdits` has
four kinds of writers of the file, each with the locks it takes and the state it goes
by (`seen`), and of a registration what it was offered, has drafted, selected and saved; a text editor
takes no lock. `HandEditsRace` says whether that one may
write between the last comparison and the replacement, which no program can
exclude. `WatchlistEditor` has one thread per operation, the handler that receives
its result (`Arrivals`), the stamps that decide whether a result is still
current, and the main window, which loads and toggles the same file. The counter of
generations is abstracted to "still current"; `WritesBetweenReads` is the window of
finding `editor_half_read`. The main window's load reads both stores in one
instant; the five minutes of freshness, the queue of listings and the ways the page
closes are left out.

### WorkLayout

A draft is, per target, listing, scope, order, and the segments; the blocks of
the editor are computed from it as `effective_blocks` does. Every change of the
page is an action, `PreviewEdit` and `SaveEdit` are those of the code, `FullRun` is what a
Discovery does to flags and positions, and `Plan` is the numbering. Listings are
fetched at one instant; each target is on a site of its own whose adapter gives
positions and inventories; chapters once withdrawn do not return. The draft of a
URL registration (handed back instead of saved), the age limit of listings, removed
targets and two targets on one site are left out.

### ArchiveRecrawl, ArchiveRenumber, SourceIdentity, CatalogMigration

`ArchiveRecrawl` has scripts with a report each, beside batches, an operator who sets
statuses, and a disk that spoils archives. The last look at an archive and its move
are one step; each Item is a Work of its own and all its ZIPs have one name. `strayed`,
`byHand` and `crowded` only record that a failure came between a move and its booking, that a
status was set by hand, that two scripts were alive together.
`ArchiveRenumber` has one step per rename, rewrite and row, each of which may
fail before or after its effect, and the same steps backwards; others act on
files, rows or Watchlist at any point. `SourceIdentity` has the dry-run, the token
and the application as three operations among Discoveries, batches and edits;
the locator of a web target is the mark "target", and the refusal of an open WAL
is left out. `CatalogMigration` has any number of migrators and savers; SQLite's
single writer, transactions and rollback are trusted, backup names are told apart by
the second and all is done in one second, and "busy" stands for the five seconds of its
lock timeout.

### TicketEntry, TicketSite and the three entries; MagapokeViewer

`TicketEntry` is the abstract promise: one action at most, a report only of a
ticket that is gone, "unavailable" only without an action. Each entry implements it
(`KeepsPromise` is its formula under a substitution). `TicketSite` answers the
requests of the page in any order with the state at the moment of the answer; a click
makes up to two checkouts; one answer may be unreadable; the owner may read elsewhere
(`Others`); `Hollow` lets the site accept a checkout without effect. A request carries the
times of those kinds only which an entry looks at (`Dated`). `DatedEntries` puts the
two entries that date their answers on one page. With `Hollow` and
`Others` together the time a report gives is not claimed, since nobody could
tell whose use the answers show. Three requests before the click and three after let
each be the one that counts. Hanayume's reconciliation is not shielded from a
cancellation, so an entry cancelled there reports nothing; Comic DAYS ends as "failed" where the
click raised and the recovery found no proof.

`MagapokeViewer` has the clicks under way, the adapter's waits with their
retries, the rewind, and of the runner what it does with a page it has already. Nothing bounds
how long the viewer takes: each wait may be over before a click is handled or a
spread drawn, a click forward may be lost, and between the identity of a page (`Detect`) and its
capture (`Capture`) the viewer may go on. Two variables record the past and are read by no guard:
`early`, that `initialize` or the rewind left the way back while a click backwards was still to be
handled, or before a spread after the first was drawn; and `hasty`, that a click was repeated
while the one before was still to be handled or drawn. With a slow viewer the code does lose
a spread and calls the episode complete (finding 6); `OnlyRushedIsLost` says that these
two places are the only ones. A lost click backwards ends the rewind, so only clicks forward are
lost here. Assumed are the two controls of the pager, and the number of the first page of the comic.

## 3. Runs

Twelve runs: six that pass and six that end in a violation (section 4). Parts
that share no state are checked by one run: its `MC` module instantiates them over
disjoint variables, `part` is chosen by the initial state and never changes, and a
step is one of the part that was chosen. What TLC explores is the union of the
parts, never their product; the variables of the others keep one initial value. The
properties are those of the component modules under that choice: where several
hold of one part, the `MC` module names their conjunction and the modules keep
the parts of it with their own names and comments.

All bounds are constants of the modules and appear in guards; none changes what
a step does. Where an `MC` module restricts a part further, the restriction is a
conjunct of `MCNext` with a comment. `CHECK_DEADLOCK FALSE` is set where the system
really stops: a queue whose jobs have all ended, a batch with nothing left at the last
tick of the bounded clock, one run, pass, entry, renumbering or migration that is over.

| run | part: what moves, and why the bounds are enough | shows |
|---|---|---|
| `jobs` | "faults": one job, a fault anywhere, two launches, so that a second worker appends to the log of the first (no fault once the second exists); "queue": two jobs, a worker that outlives its GUI, no fault; "lock": two processes, two owners in one of them, nesting to 3; "comicdays": a ticket that comes back within the run; "dated": younganimal or hanayume while the owner reads elsewhere; "hollow": the same with a checkout without effect and an answer garbled (two answers are on their way at most; in "dated" the page asks once for the series, and for nothing at the last tick); "viewer": four spreads, opened at any of them but the third or before the first, a rewind that reaches them all, two clicks lost and two repeated | `BegunIsRecorded`, `SucceededOnFullEvidence`, `KnownWorkerBlocksLaunch` (by "queue": in "faults" there is no other job to launch), `NothingLeaks`, `ImplementsExclusion`; `KeepsPromise`, `EntriesKeepPromise` (each entry implements `TicketEntry`), `ReportedTimes`; `OnlyRushedIsLost` |
| `batches` | "reserve": two windows of two ticks, so that a window rolls over between any two steps, four runs, one fault, two outside steps; "ticket": three runs and two faults, so that a crawl fails and so may the handler (a third run begins after the second fault at the latest and meets none); "library": three runs of two books, a ZIP is moved, captured again and moved again; "slots", "tickets": four Sources of three Items, two of one Item and of any kind, two slots or a ticket per Work, so that a pool is shared, exhausted and left over | `ReserveHolds`, `TicketNotSpentTwice`, `LocatorsLead`, `NoOpenRun`; `PlansHold` (= `WithinCapacity`, `NoneForFree`, `PlanHolds`) |
| `watchlist` | "file": one session of each kind, two Works to register, two saves, a hand edit; "page": two keys, two changes by the operator and one by others; "page catalog": one change of the Catalog instead; "withdrawn", "new target": two targets of three rows, so that a block has an inside, and two edits, so that one falls on a split block (`ReplacementIsExact` is about drafts and looked at before the first full run) | `DraftIsTheRest`, `NothingUndone`; `SavesHold` (= `NotRevived`, `PageUndoesNothing`, `SavedOnPreviewedCatalog`); `NumberedAsApproved`, `ReplacementIsExact` |
| `sync` | "site": two Works, three edits: to and fro, and once more; "inferred": four chapters, a streak of two, four runs, two faults: runs stop early and late; "scoped": two keys, scopes that change; "synced": two chapters, a key that is narrowed to the first, widened, removed and put back between two runs. The parts are `Discovery` and `ScopeSync` themselves, over one set of scopes: `Begins` and `Within` say which of the scopes, chapters, runs, faults and edits each part uses | `ReportTruthful`, `CompleteIsTrue`; `ProofsHold` (= `ProofIsOfLatestFull`, `ProofMatchesCatalog`, `FlagFailureLeavesNoProof`); `ListingIsFollowed` (= `PositionsFollowListing`, `LostOnlyIfWithdrawn`); `RunsReflectSite` (= `FullRunReflectsSite`, `OthersUntouched`); `GateIsCurrent`, `AppliedPassesGate` |
| `maintenance` | "identity", "identities": an id old and new under two keys, one operator, then two (the second begins second; a site that has changed its id keeps the new one); "recrawl", "recrawls": a script started twice over two Items and three Sources, and two at once (the second begins second); "renumber": two archives, three names: chains, swaps, occupied names, two faults, so that the rollback fails too; "managed": three archives: cycles of three; "migration": two migrators and a saver, three faults, kills or repetitions | `HistoryKept`, `AppliedAsSeen`; `RowsTellWhere` (= `NothingLost`, `PresentIsThere`); `NoGoodIsTaken` (= `OnlyBadIsMoved`, `ReturnedToFreePath`, the second of one script at a time); `RenamesHold` (= `ResultIsTrue`, `OneFaultIsUndone`, `OnlyAsShown`); `MigrationsHold` (= `OldOrNew`, `OldIsKept`, `ReportsTrue`) |
| `endings` | under fairness. "job": two tasks, two faults; "pages": a book with equal pages, a spread and an advertisement, a limit met exactly and one too small, a kill between any two writes; "next": three ways to start, advertisements without end; "grants": three Works for two tickets, so that the limit ends the pass; "batch": a free and a paying book; "editor": a change of the Catalog in between | `NoHiddenWork`, `SupervisionEnds`; `PagesInOrder` (with `ManifestHolds`, `NoPageTwice`, `OneAnswerAfterStop`); `GrantsTruthful` (= `ReportTruthful`, `ConfirmedIsStored`, `TicketsWithinLimit`); `ContactsGuarded` (= `NoContactBesideLingerer`, `GrantUnderGuard`); `StopsEnd`, `BatchEnds`, `SyncIsShown` |
| `job_orphan`, `job_unreconciled`, `batch_foreign`, `editor_half_read`, `layout_revived`, `magapoke_slow` | the smallest instances with the defect | section 4 |

Each property has a mutant, a definition named `Wrong...` beside the one it replaces: a
guard dropped, a reset forgotten, a boundary off by one, under which the run fails.

Six more properties are stated in the modules and belong to no run, because each would
need one of its own: `FailFast` (`CatalogJobLock`), `Accounted` and `AllCaptured` (`BatchPlanner`),
`RenumberEnds` (`ArchiveRenumber`), `NewestEndStaysOpen` (`WorkLayout`) and `RunEnds` of
"next" (`CrawlerRunner`). Each holds on the constants of the part above.

### Fairness

Only `endings` assumes any; its conditions are `WF_v(part = "x" /\ A)`, so they bind the
part that moves and nothing else.

- `SupervisionEnds`: `start_job` runs to its end and the poll timer keeps
  firing (a `QTimer` of the main window); nothing is assumed of the worker, the user or
  the rest of the GUI. That timer is never started after a failed reconcile, so this run takes
  `ReconcileMayFail = FALSE`: in that case supervision does not end, which is the
  same defect as finding 2.
- `BatchEnds`: the code of the batch itself is executed (`Batch!Batch`). It excuses a crawl
  that never ends: pages and repeats have a maximum and calls a time limit, but the
  branch for advertisements (`core/runner.py:345`) loops without one. The same for
  a run of `CrawlerRunner`, every await of which has a time limit, so a step is always
  made (`WF(Runner)`), and for the pass of `DeferredGrants`, which proceeds without a
  fault: the resolver has its time limit and two seconds, a cancel five seconds of grace,
  a cleanup five. Resolvers and adapters get no fairness.
- `StopsEnd`: the same conditions; a stop ends the run and the pass it comes in.
- `SyncIsShown`: threads end, Qt delivers what they signal, handlers run. It is
  claimed once the operator lets the page rest (`<>[]~Busy`), since every save starts the
  reload again.
- Of the properties outside the runs, `FailFast` assumes that the two operations of the
  lock on its file return or raise, `AllCaptured` that batches step on and windows
  pass, with `SF(Plan(Keys))` for the operator who starts the batch of the whole site
  again, `RenumberEnds` that straight-line code is executed.

## 4. Findings

Six runs end in a violation of what the repository says of itself:

1. `job_orphan`. The worker is launched at `management/job_controller.py:297`
   and recorded at `:321`. A GUI that dies in between leaves the row queued and
   the worker at its gate for up to 15 s. Reconcile looks at running rows only,
   so the next GUI may start the job again; it opens the same `start.gate` and both
   workers begin. The class promises "exactly one worker process at a time". The
   Catalog lock still keeps the second one from working beside the first.
2. `job_unreconciled`. `gui/main_window.py:1326` calls `reconcile` on a
   controller that is already assigned; a DB error there is shown and the
   controller stays usable, without the evidence of a live worker and without a
   poll timer. `closeEvent` relies on a new GUI refusing a second worker.
3. `batch_foreign`. `core/packaging.py` looks for the ZIP, writes a temporary
   file and moves it by `os.replace`: a ZIP that another writer put there in the
   meantime is replaced, although `batch/executor.py:344` wants it preserved.
4. `editor_half_read`. After a save the page reads the revision once more, in the thread of the
   GUI: another program's write in between is undone by the next save.
5. `layout_revived`. A scope that loses its last exclusion, because the site withdrew the row,
   becomes no scope, and a full run without scope takes every Source.
6. `magapoke_slow`. `wait_for_change` repeats the click after each part of its time
   (`site_adapters/magapoke/adapter.py:1588-1594`), whether the one before was lost or is only late. If
   the viewer then handles both, a spread is turned past that was never captured, and
   the episode ends as complete.

The models show eight smaller disagreements. They have no run of their own; the property
that fails is in the module, and the constants of the part named in section 3 are
enough to see it fail:

- `Discovery!IncrementalFindsNew`: an incremental run stops after five known Sources in a row
  (`discovery/service.py:287`), whichever run stored them. After a run that broke off with five
  new chapters stored, the next one stops at those, and a sixth below them
  waits for a full run ("inferred").
- `ScopeSync!FailedFullApprovesNothing`: a full run that its preflight refuses
  (`discovery/service.py:142`) returns before the older proof is withdrawn (`:167`) ("synced").
- `WatchlistEdits!ConflictIsNotSaved`: `_write` compares the file, validates and then replaces
  it; an edit by hand in between is lost and the save reports success ("file", with `HandEditsRace = TRUE`).
- `CatalogMigration!NotOverwritten`: `backup_catalog` looks for the destination
  (`catalog/backup.py:93`) and replaces it by `os.replace` (`:97`): of two backups to one file one
  is lost ("migration", with two savers to one output).
- `CatalogMigration!FailsAsDocumented`: if `BEGIN IMMEDIATE` raises, the handler reads the path of a
  backup that was not made (`catalog/migrations.py:252`): `AttributeError` ("migration").
- `ArchiveRecrawl!OnlyCompletedMove`: the statuses are read at the scan only; an Item that an
  operator sets to skipped has its archive moved and is made pending ("recrawl").
- `MagapokeViewer!WholeEpisode`, for a second reason: a rewind that reaches its maximum of 32 steps, or
  that sees nothing new within 150 ms, ends without an error, and the crawl begins in
  the middle ("viewer", opened beyond `RewindSteps`, or with `early`).
- `WorkLayout!MismatchBlocks`: a row that a site puts where no segment reaches is dropped
  by the preview instead of reported ("withdrawn", with `Inserts = TRUE`).

## 5. Proofs

TLAPS checks these for every value of the constants under the modules' own
assumptions (`LockAssumption`, `JobAssumption`, `BatchAssumption`, `DiscoveryAssumption`,
`RunnerAssumption`, `GrantsAssumption`, `DatedAssumption`, `RecrawlAssumption`,
`CatalogMigrationAssumption`: naturals where numbers are meant, model values apart from data).
They are about the component's own specification, not about the union of a run.

**`JobProofs`**, of `CatalogJobLock`: `LockTypeCorrect`, `LockMutualExclusion`,
`LockNothingLeaks`, `LockImplementsExclusion`. Mutual exclusion alone is not
inductive: an owner that is *about* to lock or unlock the file must be the one
the registry or the file says. `LockInv` states this agreement of registry,
counters and file for each of the three places an owner can be in; the refinement
follows, since a step changes who is inside only from nobody or to nobody.

Of `JobControl`: `JobTypeCorrect`, `JobBegunIsRecorded`, `JobTerminalIsFinal`,
`JobSucceededOnFullEvidence`, `JobNoHiddenWork`, `JobKnownWorkerBlocksLaunch`. `JobInv` ties
the stage of `start_job` to the row of the active job, and an open gate to a recorded start
(`GateRecorded`): only with these is a worker that passes the gate known to be
recorded. `LogInv` says what the offset, the imported lines and the log have to
do with one another as long as no failure is latched; with it, a poll that finds
the exit has the whole log in the DB, and the count of finished tasks equals
`NTasks` only if each of them is there (a cardinality argument). `JobNoHiddenWork` is
the other direction: a poll that ends a job has imported every line of its log, and one that
calls it cancelled or failed has found no finished task there; a job that ends without a poll
was still waiting, and its log is clean. `JobKnownWorkerBlocksLaunch` needs `~ReconcileMayFail`;
`KnownInv` says that the job of a recorded live worker is running, and that an open controller which
has seen no orphan supervises that worker itself, so that one of the two guards of a launch is down.

**`BatchExecutionProofs`**: `BatchInvariant` and from it `BatchTypeCorrect`,
`BatchSuccessIsAtomic`, `BatchNoOpenRun`, `BatchReserveHolds`,
`BatchEntryIsReserved`, `BatchTicketNotSpentTwice`, `BatchLocatorsLead`. Four
invariants, the first a hypothesis of the others:

- `CatalogInv`: the current run is the newest row and is running until its end,
  so the handler cannot touch another run or one that has an artifact.
- `ReserveInv`: a window that can still be entered and has no reservation has had no
  more readers than restorations (`Even`). Choosing a candidate finds its window
  like that; reserving marks it before the reader is counted; a restoration adds one
  to the other side. The lemma `Windows` shows that two times share a window
  exactly if `WindowStart` agrees, for every length (the remainder is not linear,
  hence its own lemma).
- `TicketInv`: a ticket that is not lost is in the Catalog, or it is the one the
  current run has seen and not yet stored; a paying run began when all earlier
  ones were back.
- `LibraryInv`: a ZIP that belongs to an artifact is of the newest one of its
  book, so moving it concerns no other row; the book that is being packaged is
  pending, so nobody moves its ZIP.

The step lemmas first sort the thirty actions by what they leave alone
(`StepKinds`, `PlaceKept`, `TicketKept`, `SlotsLeftAlone`) and then treat the few
that matter one by one.

**`DiscoveryProofs`**, of `Discovery`: `DiscoveryProofsHold` (from `DiscoveryProofIsOfLatestFull`,
`DiscoveryProofMatchesCatalog`, `DiscoveryFlagFailureLeavesNoProof`), `DiscoveryRunsReflectSite` (from
`DiscoveryFullRunReflectsSite`, `DiscoveryOthersUntouched`) and `DiscoveryListingIsFollowed`.
`DiscoveryInv` says what a run in progress knows: what it has gone through and what is left
make up what its scope selects of its listing, all of it is stored under its own key, a
full run has no proof before it records its own, every owned row that it read has the rank the
proof states, and what is not in its listing the site had taken down when it began.
A position is a rank in a listing, that is a cardinality, and the rows that are not in the listing
are numbered behind its greatest rank: the lemmas about ranks and about
the greatest element of a finite set of naturals (no chain of numbers above one another is
endless in a finite set) are in the module. The invariant states positions as naturals and
not below the bound that `TypeOK` has for TLC, which would need the number
of Sources a key can own; no listed theorem depends on that bound.

That inferred numbers follow the listing is not inductive: a run that stopped early numbers on
from the newest chapter it met, and what it did not read lies below. `OrderInv` therefore says that *below
a chapter that has a number all have one*, of the same key and in order (`Ordered`), of the rows of the run
while one goes on and of the listing otherwise; that a run goes from the newest
chapter downwards; that what is published meanwhile is newer than all it reads; and that without hints
only a target without scope comes to be numbered (`PassFacts`). The theorem has one hypothesis, that the
Watchlist leaves no chapter out between its boundaries (`NoneLeftOut`), and needs it: where the scope
of an adapter without hints leaves out all that it spans, a full run meets nothing, so nothing is
unpositioned, and its proof numbers the Sources that are known; older chapters that are not known
yet are numbered behind them by a later run that stops early.

Of `ScopeSync`: `ScopeSyncGateIsCurrent`, `ScopeSyncAppliedPassesGate`. Beside
`DiscoveryInv` the invariant says that a synchronised work is bound (`BoundFacts`) and that,
between the check and the commit of an apply, the preview still is what the gate would compute
for the Watchlist it was computed from (`ShownFacts`); only the scopes can have moved, and the gate
looks at those.

**`ReadingProofs`**, of `ComicDaysEntry`: `ComicDaysTypeCorrect`, `ComicDaysCooldown`,
`ComicDaysKeepsPromise`. `EntryInv` dates what was read against what happened: a
ticket that comes later than at the decision to click has been used since, and
while the page shows the episode as open the use was on this one. From it each step is a step
of `TicketEntry` or leaves its variables alone.

Of `DatedEntries`: `DatedReportedTimes` and `DatedKeepsPromise`, from `YoungTypeCorrect`,
`YoungReportedTimes`, `YoungKeepsPromise` and the three of hanayume, for any bound on
requests, clock, term and unreadable answers. `PageInv` is about the page and shared:
an answer grants no more time than the site does, and one that says the episode is closed was
given before a use of the ticket left (`AnswersHold`); where nobody else uses the account, a ticket
that is gone went on a checkout of this page (`SpentTold`). An entry clicks only once it knows that
the episode was closed as long as the ticket was there; from then on an answer that says yes
tells that the ticket is gone, a hollow checkout excepted (`UseTold`), and the two times of a report
bracket the use. The times need the hypothesis that not both hold: a checkout may be
hollow, and the owner reads elsewhere. The refinement needs no hypothesis.

Of `MagapokeViewer`: `ViewerTypeCorrect`, `ViewerOnlyRushedIsLost`, for any episode, retries and
saved positions, and without a word about how fast the viewer is. `ViewerInv` has two
parts beside the types. `Onward` holds unless the way back was left early: from then on no click goes
backwards and the viewer only gets on, so what is captured is never behind what was captured
before. `OneAtATime` holds if besides no click was repeated in haste and the rewind reaches: one click is
under way at most, and where the adapter is says which spread the viewer shows.

**`WatchlistProofs`**, of `WatchlistEdits`: `WatchlistTypeCorrect`, `WatchlistDraftIsTheRest`,
`WatchlistWrittenAsPreviewed`, and, for `HandEditsRace = FALSE`,
`WatchlistNothingUndone`. `EditsInv` says who holds which lock at which step and
what the file and the Catalog therefore still are: a session past its comparison finds the file
as it saw it, and a registrar with the job lock the Catalog. `DraftFits` says of every step of a
registration which groups the draft still has: what was offered less what was written, where between
the write and `retain_unsaved_groups` what was written is still in it.

Of `WatchlistEditor`: `PageTypeCorrect` and, for `WritesBetweenReads = FALSE`, `PageSavesHold`, for any
keys, edits, writes of others and changes of the Catalog. With such a write the run `editor_half_read`
refutes it, so the hypothesis is exactly the window of that finding. That a save undoes nothing is
not a matter of its compare and swap alone: the file is compared with `revision`, and what the
operator sees is `targets`. `BaselineFits` says that the two are one reading between handlers and that,
on the way to the second reading, nothing has been written since the first. `SaveFits` carries this
through the thread: while it runs the page accepts no other baseline (`Accepts`), and once the thread
holds the job lock the Catalog stays the one of its preview. `WorkerFits` adds that a thread that was
overtaken is not current, so a cleared preview has no way back, and that the page waits
idle for its thread.

**`SiteSyncProofs`**: `SiteSyncTypeCorrect`, `SiteSyncReportTruthful`,
`SiteSyncCompleteIsTrue`, `SiteSyncOnlyShownIsApplied`. `SyncInv` relates the Works left to those
tried and committed, and the preview of the apply to the Catalog, which cannot
move while the lock is held. The proof shows that `CompleteIsTrue` holds without the
code's gate at the very end: the check before it has established the same.

**`RunnerProofs`**, of `CrawlerRunner`: `RunnerTypeCorrect`, `RunnerManifestHolds`,
`RunnerNoPageTwice`, `RunnerOneAnswerAfterStop`, for every book, page limit and way to start,
viewers that turn late or show the same again, and an end by stop, error or kill anywhere. None
of the three is inductive: `PagesOK` adds that memory and disk agree on the pages except
between the two files of a flush, that the files of the batch being written follow those of the
saved pages, and that the keys of a batch differ from each other and from the saved ones. The
last is what the choice of the new parts establishes (`FreshIsNew`), which numbers a set of
naturals from its least element (`Least`, `NthIsThere`). `ControlOK` says that nothing of a viewer is looked at
before it shows a screen and that the repeat which reaches the limit ends the run; `LastAnswer`
that after the one answer which may still be believed the waiter of the call under way is done.

Of `DeferredGrants`, in the same module since both run under the guard: `GrantsTypeCorrect`,
`GrantsReportTruthful`, `GrantsConfirmedIsStored`, `GrantsTicketsWithinLimit`,
`GrantsNoContactBesideLingerer`, `GrantsGrantUnderGuard`, and of the conjunctions the run checks
`GrantsAreTruthful`, `GrantsContactsGuarded`, for every list of Works, attempt
limit and bound on faults. None follows from itself and the step alone. `GrantsInv` follows the one Work in hand:
the report tells the truth of every *other* Work at every step, and of this one the flag
of its adapter does until the row is written (`ReportFacts`); a Work that is still to come has no row, no
ticket gone and nothing confirmed (`WorkFacts`); what is confirmed next is already stored
(`StoreFacts`). The limit is on attempts and the promise on tickets: `CountFacts` says that the
tickets gone without the one in hand are no more than the attempts, and that a Work left without
an error was counted; a Work left with one ends the pass, which is why its ticket
needs no count. A resolver lingers only after it was given up with an error, and then no place
where the site is touched is reached again (`GuardFacts`).

**`MaintenanceProofs`**, of `SourceIdentity`: `IdentityTypeCorrect`, `IdentityEvidenceIsKnown`,
`IdentityHistoryKept`, `IdentityAppliedAsSeen`. `IdentityInv` says that a plan
names two different rows and that the evidence stored names ids the program has seen. That an
application changes only a row that is as its operator saw it follows from the token, which
the application computes again under the job lock, once no other step changes an id (`IdChangedByApply`).

Of `CatalogMigration`: `MigrationTypeCorrect`, `MigrationOldOrNew`,
`MigrationOldIsKept`, `MigrationReportsTrue` (together `MigrationKeepsCatalog`), `MigrationBackupsStay`, for any number of migrators
and savers. `MigrationInv` says that the write lock is held exactly between the begin of a transaction
and its end (`LockFacts`), that a migrator which is not the first to come finds a
new Catalog inside its transaction, to which its first step does not apply (`TxFacts`), that
one which is about to commit over the old version has a copy of it published, and that
every file is a copy of one committed state.

Of `ArchiveRecrawl`: `RecrawlRowsTellWhere`, `RecrawlNoGoodIsTaken`, for any number of scripts, Items,
Sources, failures, kills and steps by hand. `RecrawlInv` has two halves. `Steady` holds whatever is
alive together: an archive is at exactly one path, a row names a path of its Item, and what is at the
library's path of an Item is of that Item. The move keeps it because its destination is looked at, and
a backup of a backup keeps only a name. `Uncrowded` holds until two scripts have been alive together, which
the code does not exclude and the property says nothing more of. It says
that what the one script has read of the rows is still so when it acts on it:
a reported Item is completed until its entry is done, so no batch takes
it and its candidate stays the only one (`InHandWaits`, `ReportIsTrue`); what a
completed Item has in the library is its newest archive, booked (`NewestThere`); a stray left by a
failure waits as the only candidate of a completed Item whose library path is free (`StraysWait`), so
the next scan finds it missing and never one beside it; and the paths under a script's own
backup root were filled by itself (`OwnRoot`), so a destination that is free is not the one of an earlier row.

**Only model-checked**: liveness, since fairness and ENABLED are beyond the prover
(`SupervisionEnds`, `StopsEnd`, `BatchEnds`, `SyncIsShown`); and the safety of the modules without
proofs: `PlansHold`, `NumberedAsApproved`,
`ReplacementIsExact`, `RenamesHold`. Of
`PagesInOrder` the conjuncts of `CrawlerRunner` are proved; that the pages are those of
the book, in its order, depends on what its screens show and is not. `ListingIsFollowed` is proved for
Watchlists without exclusions only. No proof needs induction over data; no module declares a
RECURSIVE operator.

## 6. What is abstracted, and what is missing

Times are ticks; a window, a cooldown and a rental are numbers of them. In
`BatchExecution` there is one Work and one site, a book has one Source and one
path, and `prepare_recrawl.py` looks at an archive in the step that moves it
(`ArchiveRecrawl` has its stale report); the choice among Sources and the limits
over several Works are in `BatchPlanner`. A crawl is a step there, and the
runner's page loop is in `CrawlerRunner`. SQLite transactions are atomic and their
failures lose nothing but themselves. Names, their collisions, and premium
passes are left out. A Discovery is a step for `SiteSync`, `WatchlistEdits` and `WorkLayout`,
and a Catalog version stands for a Work's rows in `WatchlistEditor`.

**Not modelled.** The map covers about a tenth of the lines of the repository, and that
is near the most that says something about its own logic:

- About half of all lines are site adapters. Apart from the entries with a ticket
  and the turning of pages, of which four are modelled, they read pages that are not in
  the repository (selectors, JSON shapes, canvas pixels, transforms of tiles, URL guards):
  what they must do is fixed by those pages, and a model of them would state the
  code a second time.
- About a quarter are research: `poc/`, `research/`, probes and one-off scripts, which the
  program does not call.
- Read-only projections for the GUI, widgets, command line parsing and
  printing have no state of their own to lose.
- YAML text, fingerprints' contents, registration's resolving of addresses and
  Unicode naming are conversions; the models use their results as values.

## 7. Plan

1. Proofs of `OneFaultIsUndone` of `ArchiveRenumber`, of `PlansHold` of `BatchPlanner`, and of
   the layout of a Work.
2. The other entries with a ticket (Magapoke's and Manga ONE's own ways) as
   implementations of `TicketEntry`, and the page turning of BookWalker and
   kadocomi beside `MagapokeViewer`.
3. `ScopeSync` with several sites and `archive_order`, and the first binding of an old
   Catalog; two targets on one site in `WorkLayout`.
4. A batch as the implementation of an abstract acquisition whose steps are pay,
   archive and complete.
