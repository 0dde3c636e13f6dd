# A formal model of apt-cacher-go

apt-cacher-go is a caching proxy for Debian packages, written in Go. A client
asks for an index or a package; the proxy answers from its file cache or fetches
from an upstream mirror, stores what it got and answers. Around that path run a
package index, a signing-key manager, a prefetcher and a background queue.

Beside the proxy the repository holds the Python programs that run its issues,
labels, projects, branches and shared files on GitHub (`scripts/`,
`.github/scripts/`). They keep their state on GitHub, in git and in directories of
files, run side by side with people and with each other, and meet requests that
fail or are answered too late.

This directory holds TLA+ modules that model those parts, TLC configurations
that check them on small instances, and TLAPS proofs of the properties that
matter for instances of any size. `PROJECT.json` maps every definition to the
lines of code it models and lists the runs, the mutants that show each property
can fail, the hazards of the code and the theorems.

To check: `tlc -workers 2 -config DownloadQueue.cfg DownloadQueue` for a run (the
module and configuration of each are listed below), `tlapm DownloadQueueProofs.tla`
for the proofs of a module.

## 1. The system

| Component | State | Operations | Hard because | Correct when |
|---|---|---|---|---|
| Download queue `internal/queue/queue.go` | task channel, stop channel, `isStopping`, `stopOnce`, wait group | Start, Submit, Stop, workers | Submit, Stop and the workers race on two channels that Stop closes | no task is lost, doubled or run after Stop; Stop returns and is idempotent |
| File cache `internal/cache/cache.go`, `internal/storage/pebbledb.go` | files, `c:` entries, size, hit and miss counters, saved counters | Get, Put, PutWithExpiration, Remove, sweeps, Clear, maintenance, restart | no lock spans a call; a call is many file and database steps, each of which may fail | entries and files agree, the size is never under-estimated, eviction is LRU |
| Package index, same files | `p:` and `h:` records, cached count, memory map, write batch, three mutexes | update, bulk update, count, lookup, Close | locks taken inside each other; a batch that is applied late | the count is never stale, the memory map is bounded, no mapping is lost |
| Request path `internal/server/server.go` | the request in flight; metrics counters | handlePackageRequest, handleConditionalRequest | the cache is asked four times under no lock while it changes and time passes | content no older than its time to live, honest 304s, counters that add up |
| Backend manager `internal/backend/backend.go` | clients, retries, key handling | Fetch, ProcessRelease, ProcessPackages, handleKeyRequest | timeouts, retries after a missing key | a fetch ends; a missing key is fetched once |
| Key manager `internal/keymanager/keymanager.go` | key files, `keyCache`, `fetchMutex` | FetchKey, HasKey, VerifySignature, RefreshExpiredKeys, ListAvailableKeys, RemoveKey | the lock is dropped and taken again; files are written in place; any keyserver may fail | a known key is on disk and whole; calls return; expired keys are refreshed |
| Prefetcher `internal/backend/prefetcher.go` | queue of 1000, workers, in-progress and active markers, wait group | ProcessIndexFile, workers, cleanups, Shutdown, RunStartupPrefetch | full queue, fetches that hang, forced cleanup, Shutdown in the middle | handlers and Shutdown return; what started is accounted for |
| Metrics `internal/metrics` | counters, recent requests, maps | Record*, GetStatistics | counted at several points of a handler | counters balance |
| Memory monitor `internal/server/memory.go` | usage, pressure, a RWMutex | checkMemory, readers | a read lock taken twice | no deadlock |
| Server life cycle `internal/server/server.go`, `cmd/serve` | HTTP servers, contexts, `shutdownOnce` | StartWithContext, Shutdown | several callers, one deadline for requests that hang | whoever returns from Shutdown finds all stopped; it ends; the cache is not closed under a request unnoticed |
| Path mapper, parsers, ACL, configuration | none after start | pure functions | edge cases of input | total, and equal to a reference |
| Administration, health `admin.go`, `health.go` | `s.mutex` | pages, a download in the background | the lock is held during a download and around the memory monitor | requests for statistics are answered |
| Command line tools `cmd/` | none of their own | calls to the above | - | - |
| Issue updates `scripts/issue_manager.py` | the tracker, the directory of update files, `guid_issue_map` | update-issues | the only record of what was done is a marker in an issue and the place of a file; requests fail after they took effect | nothing is created twice, nothing is archived untried, every creation arrives |
| Enhanced issue manager `scripts/enhanced_issue_manager.py` | the same directory | process-chronological | dates, parents and guids of several files together | only what is malformed is refused |
| Duplicate issues, `issue_manager.py`, `scripts/duplicate_cleanup.py` | the tracker, delete files | close-duplicates, the cleanup | overlapping passes, two listings, deletions carried out later | a title keeps an issue |
| Project managers `scripts/unified_github_project_manager_v2.py`, `_v3.py` | projects, labels, milestones of an account | full setup, syncs, cleanups | decisions from listings that fail, are cut or are stale | one project per title; repeated runs converge |
| Label tools `scripts/label_manager.py`, `sync-github-labels.py` | labels | sync | first page only; other runs | a reported success is one |
| Smart rebase `scripts/rebase.py` | branch, backups, a stopped rebase, the remote | run_rebase | conflicts, interrupts, a rebase left stopped, pushes of others | no commit is lost |
| Automation updater `scripts/update-repository-automation.py` | workflows and configuration on GitHub | update_repository | a sequence of requests, each of which may fail | a success leaves the repository automated |
| File copies `repo-sync.py`, `sync-repo-setup.py`, `intelligent_sync_to_repos.py`, the workflow `sync-receiver.yml` with `sync-receiver-sync-files.py` | the operator's clone, clones of their own, the branch | copy, commit, push | directories removed and copied, pushes refused or forced, people who edit | edits are read before they are replaced; what the receiver is started for arrives |
| Release, detection, report and operator scripts | none that outlives a run | - | - | - |

How they interact. A request calls the mapper, then the cache, on a miss the
backend, then the cache again. After an index is served, goroutines hand it to
`ProcessPackagesFile` and `ProcessReleaseFile`, which update the package index,
and to the prefetcher, whose fetch goroutines call the backend again. The backend
owns the download queue, the prefetcher and a pointer to the key manager. A fetch
that fails with a missing key calls `handleKeyRequest`. The store runs a
maintenance goroutine that prunes the cache and saves its counters. The memory
monitor checks every 30 seconds; the dashboard reads it while it holds `s.mutex`,
which health checks, statistics and downloads ordered by an administrator take as
well. Shutdown stops the servers, the monitor and the cache, in this order.

The programs of the repository meet on GitHub. People (or `create-issue-update.sh`)
put update files into a directory; a workflow runs `issue_manager.py update-issues`
on it, and another close-duplicates; `duplicate_cleanup.py` writes delete files into
the same directory, and the enhanced manager moves its files. The two project
managers and the two label tools change the same labels, the managers the same
projects and milestones. Four programs and the updater write the same shared
files, two through a clone in which an operator works, the others straight to the
branch.

## 2. The modules

State is in VARIABLES named after Go fields and channels, an action is named
after the function or the part of it between two interleaving points. A function
that does several things under no lock is several actions, in the code's order,
with the goroutine's program counter in between; a critical section that takes no
other lock is one. Definitions whose name ends in `Mut` are faulty variants used
to show that properties can fail; no specification uses them.

### TaskPool, DownloadQueue, DownloadQueueProofs

`DownloadQueue` has the channel `taskCh` (a sequence of at most `Capacity`), the
two close flags, `isStopping`, `stopOnce`, and a program counter for each Submit
(one per task), each worker and each call of Stop. `SubmitCheck` is the atomic
load; `SubmitSend` the send, which panics on a closed channel; `SubmitTimeout`,
`SubmitRecheck`, `SubmitRetry` the path after 50 ms with its last non-blocking
try. A worker's `select` picks freely between `Receive` and `WorkerExit`. Stop is
`StopEnter` (sync.Once), `SetStopping`, `CloseStopCh`, `AwaitWorkers`,
`CloseTaskCh`; a second caller waits in the Once. Timeouts may strike at any
moment. `TaskPool` is what the callers may rely on: a bounded FIFO pool that runs
each task at most once, answers each offer once, and is silent after it halts.

### BoundedCache, CacheStore, CacheStoreProofs, MCCacheStore

In `CacheStore` a call is the sequence `prog[c]` of steps it has still to take,
at the granularity of one file operation, one database operation or one
`statsMutex` section. Operators named after the Go functions (`Add`, `StorePut`,
`PutWithExpiration`, `SaveCacheEntry`, `DeleteCacheEntry`, `Sweep`, `Clear`,
`Maintain`) build the sequences; the actions (`Open`, `Fill`, `Credit`, `SetEntry`,
`Find`, `Debit`, `Drop`, `Check`, `Hit`, `Read`, `Room`, `List`, `Evict`, ...)
execute them. A file is its content, which may be empty between the truncation
and the write, or a mixture, and its generation (the inode). `Fill` may fail and
an `Evict` may fail on a failing disk. `List` takes the entries in any order that
agrees with their ages (`AgeOrders`), since the code's sort does not order equal ones;
the size of all entries (`Total`) is a number of units, not a recursion, so that it can
be proved about. `Steps` is every step a call may hold. `Restart` is Close followed by New, `Crash`
loses what is only in memory. `BoundedCache` is an LRU map: `content` is what each
path holds and `older` which cached path was used before which; Put, Get, Forget and
Evict, of which Put and Evict may delete paths if every path used before a deleted one
goes too. The mapping is what a Get would find between calls (`Visible`, `Older`) and,
during a call, what it would have found when the call began, which the call records
(`before`, `older`).

### PackageIndex, PackageIndexProofs

The `p:` records and `h:` records, the memory map, the batch, the cached count
with its age, and the three mutexes `packageMutex` of the cache, `packageCountMutex`
and `batchMutex` of the store. Update, bulk update, count and lookup are walked
through lock by lock; `Stop` is a clean restart that applies the batch, `Crash`
one that does not.

### RequestPath, RequestPathProofs, MCRequestPath

One handler per client: `CondExists`, `CondModified`, `Exists`, `Fresh`, `Get`,
`ServeHit` or `Fetch`, `Receive`/`FetchFails`, `Store`/`StoreFails`, `Extend`,
`ServeFetched`. A file is the version it holds. The entry's `LastModified` is, as
in the code, both the time it was stored and, after `PutWithExpiration`, the time
it expires. `CacheTTL` does what `time.ParseDuration` does with the configured
unit: it knows no days. Around the handlers time passes (`Tick`), upstream
publishes, and any entry may be evicted at any time. `Patience` bounds what a
handler takes between two looks at the clock: its downloads have timeouts, the
second one after a missing key included, and so has the request for the key.

### KeyManager, KeyManagerProofs, MCKeyManager

Names are spellings of key identifiers, which are also file names; `FetchLook`,
`FetchStat` and `FetchLock` are the three looks FetchKey takes, the second under
no lock; `FetchCreates` truncates the file and `FetchWrites` completes it, with
the lock held across. Ages are young or old (`Expire`). The callers
(VerifySignature, handleKeyRequest, RefreshExpiredKeys) call FetchKey and continue
at `after[c]`.

### Prefetcher, MCPrefetcher

Each URL is somewhere: offered, queued, held by a worker, being fetched, done or
skipped. A handler blocks for one URL or gives it a moment, as the code does for
the first ones and the later ones; a worker counts, spawns the fetch and takes
the next one without waiting. The wait group, the in-progress counter, the active
markers, both cleanups and Shutdown with its two outcomes (graceful or after its
timeout) are there.

### ServerLife, MCServerLife, ServerLifeProofs

`start` is where StartWithContext is, `life` where the goroutine of each server is,
`call` where each call of Shutdown is: waiting in `shutdownOnce`, the one inside, or
returned with its `outcome`. The one inside takes the parts in the code's order
(`Rank`): each server of the configuration (`StopServer` closes its listener, and
`AwaitRequests` ends when no request of it is in flight or when the one deadline
for all of them has passed), the monitor, the cache. net/http is modelled by what the code
expects of it. Requests are packages, which may take for ever, statistics, the
dashboard, which takes `s.mutex` twice and then the monitor's read lock twice
(`Usage`, `Look`), and the download ordered by an administrator, a goroutine that
no server waits for and that holds `s.mutex` throughout. `CheckMemory`,
`MonitorLocks`, `MonitorUnlocks` are the write lock of the monitor: as in Go's
RWMutex a waiting writer keeps new readers out. The search pages take `s.mutex`
as the statistics do.

### IssueTracker, IssueUpdates, EnhancedUpdates, DuplicateIssues, MCIssues, GitHubProofs

`IssueTracker` is GitHub as `GitHubAPI` uses it: issues with a title, a state and a
body that still has its guid marker, has none or is null; listings that may be cut
(`Newest`) and what people do. `IssueUpdates` is one run after another of
update-issues: `Load`, then one update at a time (`CheckCreate` and `Recheck`, the two
lookups, and `PostCreate`, which may take effect unheard; `DoUpdate`, `DoClose`,
`DoDelete`, `DoComment`, `DoTypo`), `Archive`, or `Crash`. A move of a file that
fails leaves the file where it is (`FailsInPlace`, and `Archive` of some of them). `posted`, `blind`, `tried` and
`lost` are history: how often the creation with a guid, or the comment with a guid on an
issue, took effect; which of those were done without a look at all that was there (a
listing that is not `Whole`, a comment lookup that failed); which updates were tried
and which are given up. `EnhancedUpdates` is the second manager of
the same files: `Resolve` puts parents first (`Lineage` is what the depth-first search of
the code places for one guid, `Visit` what it places for one update), `Misplaced` is the validation, and `Treat` moves the files
of what the placeholder takes for done. `DuplicateIssues` composes both with the passes of
close-duplicates (`ListOpen`, `CloseDuplicate`, `NoteDuplicate`) and of the cleanup
(`ListClosed`, `Scan`), whose delete files are then updates like others.

### GitHubAccount, ProjectManagers, LabelTools, ProjectSync, GitHubProofs

`GitHubAccount` has projects (how many per title), labels and milestones (right,
wrong, absent, closed) and the runs, each with its phase and the plan it made
from a listing. `Effect` is a request with its three outcomes, `Refused` one that GitHub
rejects. `ProjectManagers` has the phases of v3 and v2, `LabelTools` those of the label
tools, `ProjectSync` composes them with people. `excused` remembers that a listing
failed or was short, `touched` the labels people changed during a run. Their specification
is `SyncSpec` over `accountVars`, so that `GitHubProofs` can extend it beside
`DuplicateIssues`.

### GitRebase

A branch is a set of changes, with the branch of the clone, the remote branch, what
the clone last fetched of it, the target, the backups and a rebase that may be
stopped (`replay`); `made`, `dropped` and `fetched` are ghosts that keep what the person
committed or took off the branch and what the clone has ever received. The run is `Start`, `CreateBackup`, `Fetch`, `Rebase`, `Status` (which takes a
stopped rebase for a success, as `git status` does not fail), `NothingToResolve`,
`ForcePush`, `Ends` or `Interrupt`; a person commits, pulls and finishes stopped rebases
by hand, others push.

### Faults, RepositoryFiles, AutomationUpdate, FileSync, RepositoryUpkeep, RepositoryProofs

`Faults` is the budget that the modules of the repository's programs extend: `Spend`
pays for a fault, an act of a person or a further run, `Free` is what costs nothing.

`RepositoryFiles` is the branch, whose files carry a number for their sha, and the
operator's clone. `AutomationUpdate` is the updater, one action per request. `FileSync`
has the programs that copy: `Replaces` is which of them replaces which state of a file,
`RemoveFolder` and `CopyFolder` the directories. The receiver is what `sync-receiver.yml`
does: started by hand, with or without force_sync (`Forces`), for all files; it comes to
`git add` and a commit when `git diff --quiet` shows a change of a tracked file
(`DiffShows`) or when it is forced, and a commit needs a change (`Uncommitted`; `Commits` is
all three). The bot commits whenever there is a change. `PushTree` is the push of both,
refused to the receiver when the branch has moved, forced by the bot. `RepositoryUpkeep`
composes them with people who edit; its specification is `UpkeepSpec`, so that
`RepositoryProofs` can extend it beside `GitRebase`, whose runs have a specification of
their own. `Noted` and `NotedByJobs` keep what others changed since a run began, the
history that its report cannot answer for.

## 3. The runs

| Run | Shows | Bounds |
|---|---|---|
| `queue` | AnswerIsTruth (a task is in one place exactly if accepted), ShutdownOrder, refinement of TaskPool, SubmitReturns, StopReturns, AcceptedIsHandled | 3 tasks on a buffer of 1 with 2 workers: the buffer fills with workers busy, a sender waits while Stop runs; 2 stoppers |
| `cache_serial` | SizeCoversEntries, EntriesMatchFiles, refinement of BoundedCache | 4 calls on 3 paths of length 1 and 2 in a cache of 4: pruning, overwriting and re-reading occur; one restart; sound and failing disk |
| `cache_racing` | FileBeforeEntry, SizeBeforeEntry | 2 clients and the keeper, 3 calls, every interleaving, one crash, failing disk |
| `index` | CountCoherent, MappingKept, CallsReturn | 3 packages of which 2 have hashes, a memory map of 1 and a batch of 2, so both overflow; 2 goroutines, 2 calls, a restart, a crash |
| `requests` | ServedIsRecent | 2 clients, 3 requests, 5 ticks, 2 versions, requests of up to 1 tick |
| `keys` | KnownIsWhole, GoodKeyStays, CallsReturn | 2 goroutines, 2 calls, 2 keyservers, 2 spellings, 1 fault |
| `lifecycle` | QuietClose, ReturnedMeansStopped, ShutdownEnds, StatusAnswers | HTTP and admin server, 2 requests at a time, StartWithContext and one more caller of Shutdown: one request holds or waits for a lock while another is in flight |
| `prefetch` | IndexReturns, ShutdownReturns | 4 URLs of 2 indexes, a queue of 1, 1 worker: the queue is full while the fetches hang |
| `issues` | NoTwins, OnlyMalformedRefused, LowestStays, KeptIsKept, ArchivedAfterTry, Delivered | 2 issues of one title; a file with a creation, an update and a closing of the new issue, the legacy file with a comment, a closing and an unknown action; 2 passes of close-duplicates, one of the cleanup; 3 faults, acts of people or passes together: a creation that is lost, tried again and closed meanwhile; two passes that overlap while an issue is closed |
| `projects` | OneProjectPerTitle, ReportedMeansApplied, Converges | a project, 3 labels on pages of 2, a milestone, 2 runs at a time, 3 further runs, faults or acts of people |
| `rebase` | OwnWorkKept, MovesWhole, DiscardsOnlyFetched | 2 changes of the person, 1 of others, 1 of the target, of which 3 clash; 5 runs, faults and acts: a stopped rebase, its end by hand, a second run and a forced push |
| `upkeep` | SuccessMeansAutomated, ReportedMeansSynced, EditsAreRead, Settles | a file copied on its own, a directory with a copied file and one of the repository's, a retired file, an old workflow; the receiver at any time, forced or not, and 2 further runs, faults or edits |

Every bound on calls, time, restarts and faults is a constant in a guard
(`MaxCalls`, `MaxTime`, `MaxRequests`, `MaxVersion`, `MaxRestarts`, `MaxStops`,
`MaxCrashes`, `MaxFaults`, `MaxIssues`, and `Budget`, which the programs of the
repository share among faults, people and runs). Those that limit a history stop the system, so
those runs do not check for deadlock (`projects` and `upkeep` do, since a run may always be
started there); where it matters that nobody waits for ever, a
liveness property says so. The bounds are small, but large enough for what the
code does at its limits: buffers and queues fill, the cache prunes and overwrites,
the memory map and the batch overflow, locks are waited for, and the mutant of
each property is found within them. The bound of ServedIsRecent is tight: with
2 lengths of a request instead of 3 (or 3 less a tick) TLC finds a violation.

The configurations name the properties that tell most. Further ones are stated
in the modules and hold when added to a configuration: the type invariants,
StopIsFinal and NothingStartsAfterStop of the queue, ExistsMeansFile of the cache,
MemBounded and LockOrder of the index, CountersBalance of the requests, KnownIsOnDisk of
the keys, Accounted of the prefetcher; several of them are proved (section 4).

The invariants quantified over "between calls" (`Quiet`) in `CacheStore` are
about a cache used by one goroutine at a time. They do not hold for concurrent
use, see section 5; what does hold then is checked in `cache_racing`.

### Fairness

* Download queue: workers, submitters and stoppers are weakly fair, as the Go
  scheduler makes them. Handlers are not: a download may hang. `StopReturns` and
  `AcceptedIsHandled` therefore assume that handlers return, as their antecedent.
* Package index and key manager: a goroutine inside a call is weakly fair; nobody
  is made to call. A keyserver request ends since the HTTP client gives up, but
  may fail each time. A waiter is not starved since Go's mutexes hand the lock to
  a waiter after a millisecond.
* Prefetcher: strong fairness for a handler's enqueue and for a worker's exit,
  since a blocked Go sender is queued in order and a `select` picks ready cases
  with equal chance. No fairness for fetches.
* Server life: the goroutines of the servers, of Shutdown, of StartWithContext and
  of the monitor are weakly fair; those that wait for a lock get it in turn
  (strong fairness, since others take it in between), and a `select` picks the
  closed channel at last. A download ends by the timeout of the HTTP client, and
  the 30 seconds pass. Package requests owe nothing, and nobody has to call
  Shutdown. The wait of a reader for a writer that waits for it (`Stuck`) is
  named in both liveness properties: it happens, see section 5.
* Issues: a run that was started goes on. Nobody has to start one: the only workflow
  that does is the template `update-repository-automation.py:409` writes into other
  repositories. That the updates are run again while files wait is the premise of
  `Delivered` (`RunAgain`). Requests may fail only as often as the budget allows, which is
  what "in the end" means there; a creation it calls `lost` is one that failed in a file
  that was archived, not one of a file moved to malformed/.
* Projects: a run that was started goes on, unless it asks a person. No workflow of the
  repository starts one; that somebody runs the sync again and again is the premise of
  `Converges` (`SyncsAgain`), which speaks of the time after people have stopped. One of the
  runs (`Repeated`) may be started as that premise needs, without cost to the budget.
* Upkeep: a run of the receiver that was started goes on; nothing else is fair.
  `sync-receiver.yml` is started by hand (`:11-15`), and that somebody does so again and
  again, forced or not, is the premise of each half of `Settles` (`Again`).
* Cache, request path and rebase: safety only.

## 4. The proofs

All theorems hold for every value of the constants that satisfies the module's
assumption (positive capacities, `None` outside the sets), which TLC evaluates in
the runs. The argument is the usual one: typing, an inductive invariant, one step
per action, and PTL for the temporal conclusion.

* `DownloadQueueProofs`: `TypeCorrect`; `ShutdownIsOrdered` and `StopIsSafe` from
  an invariant that ties each stage of the one caller that entered the Once to the
  flags and channels it has set so far (without it a channel might be
  closed twice); `AnswersAreTrue` from the invariant that a task is at most in
  one position of the buffer, with one worker, or handled, and nowhere unless its
  Submit accepted it; `NothingStarts` from `StopIsFinal`; `QueueImplementsPool`, every
  step is a step of TaskPool or a stutter, from the invariants above and that the
  number of busy workers is the cardinality of the tasks they hold.
* `CacheStoreProofs`: `TypeCorrect`, `FilesComeFirst` (FileBeforeEntry),
  `SizeComesFirst` (SizeBeforeEntry), `SizeCovers` (SizeCoversEntries), `EntriesMatch`
  (EntriesMatchFiles), `CacheIsLRUMap` (ImplementsLRUMap), for any paths, contents,
  limits and goroutines. All rest on
  `InOrder`: the steps a goroutine still has to take are always the tail of what the
  code's functions build (an open before its fill, a fill before the credit of its
  entry, a set only after its credit, a drop only after its debit, an entry looked up
  only once). It is what a program counter is elsewhere, and most of the module
  shows that each step keeps it. For interleaved calls, `OpenedFirst` says that who is
  about to write an entry has the file open or written, `NothingDeleted` that while no
  file was removed nobody is about to delete an entry, and `SizeCoversOwed` that the
  size covers the entries and those that are credited but not written yet.
  `SizeComesFirst` assumes that Clear is not used on a failing disk: Clear deletes the entry
  of a file that it could not remove, so that nothing is removed and yet an entry was
  debited. For one user (`Serial`), `Alone` says that one call is at work,
  `SerialSize` that the size covers what it will have written, and `SerialMatch` that
  every path either agrees with its file or is one the call still looks at. Both
  theorems have `crashes = 0` as a premise: a crash between the two halves of a write or
  a delete leaves one without the other, and the size is saved only now and then.
  `CacheIsLRUMap` is the refinement of `BoundedCache`, for one user (`Serial`) and a process
  that does not die (`MaxCrashes = 0`), the bound of the run `cache_serial` as well. A call is
  one step of the map, when it returns; all its other steps stutter. What it may have
  done until then is `SerialHonest`, of the call, the steps it still has to take, the
  entries and the files: the paths it is not about and whose files are still there are as
  they were when it began, and in the order they were (`Unchanged`); none of them was
  used before one that is gone (`LeastGone`), because what is listed for eviction is
  listed after all that are older (`Due`); and the call still has to take the step
  that fills its file, renews its entry, reads its answer or deletes its path, or has
  taken it with the effect it should have (`Achieves`). For the order, no time may be
  ahead of the clock (`ClockAhead`), so that an entry that is renewed is the youngest. A
  Put writes its file and its entry after it has made room, so that it does not matter
  if it evicts its own path on the way (`Later`).
* `GitHubProofs`, of the projects and labels: `TypeCorrect`, `OneProject`, `ReportsAreTrue`, for any
  configuration, page size and number of runs. `CreatesMissing` says that without an excuse
  one run at most is at the creation of projects, that nothing it has still to create is
  there, and that it creates each title once; this is what makes a lost answer harmless,
  since the item is taken off the plan whether it was answered or not. `AppliesPlan` says of every
  run that syncs labels and has had no failure that a configured label is right, was changed by a person
  since the listing, or is still in the plan, and that no plan deletes a configured
  label, which is what lets the other runs go on beside it.
* `GitHubProofs`, of the issues: `IssuesTyped`, `CreatedOnce` (NoTwins), `OldestStaysOpen`
  (LowestStays), `NamedIsKept` (KeptIsKept), `ArchivesTried` (ArchivedAfterTry),
  `RefusesMalformed` (OnlyMalformedRefused), for any
  files, titles and issues, any number of passes and whatever people do. All rest on what
  every request keeps of the issues (`Later`): none disappears, changes its guid, gets its
  marker back, comes to life again, or changes its title without a trace. `RunSound` ties
  what a run has loaded to what it still has to do, has tried and has moved, which makes the
  archive safe. `TwinsSound` adds that a creation that was done left an issue with its guid
  and that what is about to be posted was not done before or has an excuse: the check and the
  request are two steps, and it is one run at a time that lets nothing come between.
  `ClosersSound` says of every planned duplicate that the issue it is a duplicate of is older
  and had its title (`OlderThere`): when that one was closed as well, by another pass, it has
  an older one of its own, so that overlapping passes never close all. `ScannersSound` says
  that both listings of a pass name an issue by the title it has, renamed ones apart; so an
  issue that one file keeps and another deletes would be in one group with itself as the
  one to keep, and no file names itself. That a nonempty set of numbers has a least
  element, which the choice of the code (the oldest issue of a group) needs, is proved without
  induction: the numbers below all of it are finite, and their count is the least
  (`LeastExists`). `RefusesMalformed` is about the order that the depth-first search of the
  enhanced manager computes, for files with any number of updates and parents of any depth.
  `Lineage` and `Resolve` are recursive functions: that they are the functions their
  equations describe is shown by approximations, the first over how many guids are not
  placed yet, the second over how many updates are visited (`LineageIs`, `ResolveIs`); what
  they compute, by an induction that the least counterexample stands for (`Upwards`).
  The lines of parents are such that whoever is placed for a creation that is made once
  and has no parent follows it (`Leads`, `Follow`), and a search that starts anywhere keeps
  that (`LineFollows`, `ResolveFollows`). So what is misplaced is at fault itself, which
  `ChronoSound` says of each plan that was made, also while its files are moved.
  `PassesAssumption` says that the repository starts without issues
  that close-duplicates closed.
* `PackageIndexProofs`: `TypeCorrect`, `CountIsCoherent`, `MemoryIsBounded`,
  `MappingsAreKept`. The count needs mutual exclusion of the count lock and that
  the number a count has in hand is current unless a package was announced since;
  the property of the mappings, that an indexed package with a hash is in the
  database, in the batch or in the hands of an update, is inductive with the types.
* `RequestPathProofs`: `ServedRecent`. What the cache holds was current at most a
  request before it was stored and expires no later than that store, a request and
  the time to live; a hit may only meet a later file than the one it looked at. So what a
  handler has read was current within the time to live and two requests, and the
  rest of the handler is the third. The invariant bounds this age at each program
  point, from the clock a handler started at.
* `KeyManagerProofs`: `TypeCorrect`, `KnownKeysAreOnDisk`, `KnownKeysAreWhole`,
  `GoodKeysStay`. The invariant says that whoever is past the second look holds
  the lock and that the key in hand is unknown until the write is complete.
* `ServerLifeProofs`: `TypeCorrect` (the cache is closed at most once),
  `ReturnedIsStopped`, `CloseIsQuiet`. The invariant says that one call is inside
  the Once and nobody returns before it has, that each part no longer to be stopped
  is stopped, and that a server waited for is already down; a lemma, that the
  requests of a server that is down only get fewer, carries the second one over
  every other step.

* `RepositoryProofs`, of the rebase: `TypeCorrect`, `OwnWorkSafe`, `BranchMovesWhole`,
  `LeaseProtects`, for
  any changes and any clashes between them. `OwnWorkKept` alone is not inductive: the
  invariant adds what each phase relies on. No rebase is stopped before the run
  starts its own (`CleanStart`); what the run saw at its start is on the branch until
  it is in a backup, and in a backup from then on (`HeldOnBranch`, `HeldInBackup`); a
  stopped rebase still has all it began with, done, left to do, in a backup or dropped
  by the person (`MadeInReplay`, `WholeInReplay`); and what the clone knows of the remote
  was fetched (`TrackingFetched`), which is what makes a push with a lease safe.
* `RepositoryProofs`, of the upkeep: `UpkeepTypeCorrect`, `UpdateAutomates`
  (SuccessMeansAutomated), `CopiesAreReported` (ReportedMeansSynced), `ReplacedOnceRead`
  (EditsAreRead), for any files and any mix of programs and people. `Automates` says what a
  run of the updater that may still report success has made in each phase: the workflow
  before it turns to the configuration, and that before it ends, or others have
  changed it since; which file the phases before the creation are about; and that only a
  run that found the new workflow, and is not forced, validates or patches. `Claims` says it of
  a program that copies: what it has dealt with is as it left it, in a clone where
  another program removes and copies the same directory; a file is not dealt with
  while it is still to do, reported as failed or changed by others, nor, after the
  removal of its directory, before the copy. That no program of the operator pushes is
  part of it, and leaves the branch to the receiver, the bot, the updater and people.

Only model-checked: all liveness properties (TLAPS here has no ENABLED); and, of the
properties that hold beside the runs, ExistsMeansFile, CountersBalance, LockOrder and
Accounted. Every invariant, every action property and both refinements that a passing
run checks are stated by a theorem.

## 5. Where the code disagrees

Stated as a property that does not hold; TLC finds the history when the property
is added to the configuration of its module:

1. `queue.go:91` Submit can panic when Stop closes the channel, although
   `queue.go:77` closes it "only now" (`SubmitNeverPanics`, DownloadQueue.cfg).
2. `pebbledb.go:478` files are rewritten in place while they are read: a Get answers
   with a cut file (`GetReturnsWhole`, CacheRacing.cfg).
3. `server.go:559` a hit's Last-Modified is its expiry; later content gets a 304
   (`NotModifiedIsTrue`, Requests.cfg).
4. `keymanager.go:249` an expired key is never refreshed, FetchKey succeeds without
   asking a keyserver (`ExpiredIsRefreshed`, Keys.cfg with 3 calls).
5. `issue_manager.py:1745` a closing that names its parent instead of a number fails, even
   in the run that has just created the parent, and the success of the creation archives
   it; `scripts/README.md:50` offers `close null "completed" parent-guid` for it
   (`PendingCloses`, Issues.cfg). Comments, which line 45 offers in the same way, are
   refused at `:1228`; only updates look for their parent (`:1631`).
6. `unified_github_project_manager_v3.py:1591-1666` a dry run changes labels and
   milestones, although `:1918` promises "without making changes" (`DryRunQuiet`,
   Projects.cfg).

Met while modelling, and left in the models as the code has them:

* The queue's priority (`queue.go:16`) is stored and never used.
* Cache: the size is added again on each hit and overwrite, so the cache prunes
  when it need not (`PruneOnlyIfNeeded` in `CacheStore` states the opposite and
  does not hold). The size is durable only at maintenance, so it misses entries
  after a crash. A Get that records its hit while a Remove deletes the entry
  writes the entry back, without a file.
* Index: the bulk update takes two locks in the opposite order of
  GetPackageCount (`pebbledb.go:839`, `:857`); only tests call it. A lookup does
  not see the pending batch (`:442`), and a crash drops it for good (`:401`),
  because a package that is known is not mapped again.
* Request path: an entry that is evicted between Exists and GetLastModified has
  the zero time and makes a 304. The default time to live of packages, "30d", is
  no Go duration (`config.go:262`), the error is dropped, and the package is stored
  but never fresh: it is fetched again at each request. Metrics note hits and errors on the previously
  recorded request (`metrics.go:148`, `:176`).
* Keys: a request that spells a key in lower case fetches it to the upper-case
  file and does not find it (`backend.go:367-381`). A key cut by a failed write
  is known from the next listing or start on. A listing drops a key that arrives meanwhile from
  the cache.
* Prefetcher: a worker does not wait for its fetch, so connections are not
  bounded by max_concurrent (`ConnectionsBounded`), and Shutdown may report a
  graceful end and a worker then starts another fetch (`GracefulIsComplete`). The
  active marker contains the time, so it never finds a duplicate. A prefetched
  file is not stored in the cache.
* Memory monitor: GetMemoryUsage takes a read lock twice (`memory.go:122`, `:144`),
  and when checkMemory asks for the write lock in between, both wait for ever. The
  dashboard is inside `s.mutex` then (`admin.go:64`), so `/health`, `/metrics` and the
  statistics of every server stop as well (`Stuck` in `ServerLife`).
* Administration: a download ordered at `admin.go:787` holds `s.mutex` throughout;
  health checks wait for it.
* Server: the assertion at `server.go:449` never matches, so the backend is not
  shut down. Only the first caller of Shutdown learns of an error (`server.go:405`).
  StartWithContext, which "blocks until the server is stopped", returns as soon as
  ListenAndServe does, at the beginning of a shutdown, and without one if the HTTP
  server fails. After the deadline the cache is closed under requests that
  run, and CONNECT tunnels and administrators' downloads are never waited for.
* Command `serve`: `serve.go:55` gives no backend and `server.go:195` asks for one, so
  it fails; otherwise Start would block and the signals after it be ignored.

The programs of the repository, in the same way:

* Issue updates: an issue without a body raises in the lookup of a guid, which then
  counts as unused (`issue_manager.py:1397`, `:1461`), and so does a listing that ends
  early, which it does on a short page (`:687`) and when pull requests are filtered
  out of one. An update replaces the body and with it the marker (`:1650` adds one of
  its own). One success archives all loaded files, failed updates included (`:836`),
  and marks the legacy file, loaded or not (`:846`). A comment that was posted is
  reported as failed (`:1719` reads a Boolean). An update finds the issue of its
  parent guid only in the run that created it (`:1631`). A delete file of an issue
  that is gone fails in each run (`:2085`). The commands copilot-tickets, codeql-alerts
  and event-handler call methods that do not exist (`:2796-2830`).
* Enhanced manager: `_process_single_update` (`:406`) makes no request and answers
  that it did; the files move to processed/ and their updates are lost. Deletions
  move to failed/. Of updates that share a guid one remains (`:336`); a parent in
  another batch refuses the whole batch (`:399`); dated beside undated updates stop
  the sort (`:311`); --force-update is never read.
* Duplicates: two scans may each keep the issue the other deletes, since delete
  files are carried out without a look at the issues (`duplicate_cleanup.py:84`).
* Project managers: a listing that fails is an empty one (v2 `:759`, v3 `:1409`), so
  everything is created again; v2 lists 30 projects; v2 --force creates every project
  a second time; a closed milestone is refused at each run; a dry run of v2's full
  setup always fails. sync-github-labels reads the first page only.
* Rebase: a rebase stopped on conflicts is a success (`rebase.py:441`), so the
  resolution is never reached; the forced push then pushes the branch as it was. Dry
  runs fail. `MERGE_HEAD` (`:320`) does not exist in a rebase, and `--theirs` (`:271`) is the
  branch's own side there. The lease (`:482`) accepts what the run itself has fetched.
* Updater: the pattern `unified-automation` (`update-repository-automation.py:63`) makes
  the cleanup remove the new workflow of a repository that has it. A file that
  cannot be read counts as missing, and a file that exists is deleted before it is
  created (`:458`).
* Copies: `intelligent_sync_to_repos.py:288` pushes by force from a shallow clone; a
  branch that is not the default one is reported as unchanged (`:293`). repo-sync.py
  overwrites newer files that sync-repo-setup.py keeps. The summary of the latter prints files
  that failed as already correct (`sync-repo-setup.py:778`), only its log names them.
  `sync-receiver.yml` looks for changes with `git diff --quiet` (`:216`), which does not see
  new files: a run that only brings new ones commits nothing unless it is forced. A directory is removed before
  it is copied (`sync-repo-setup.py:652`, `sync-receiver-sync-files.py:49`), with the
  repository's own files in it.

## 6. Not modelled, and the plan

Done: the queue, the cache, the index, the request path, the keys, the prefetcher,
the life of the server; the issues, the projects and labels, the rebase and the
upkeep of files; with the proofs of section 4. Further work, in this order:

1. `WarmUp`: RunStartupPrefetch, its two goroutine pools and its deferred cancel.
2. A composition of the request path with the key manager and the index
   processing: a fetch that fails with a missing key, is retried, and starts
   follow-up fetches; and of the maintenance goroutine with `ServerLife`.
3. `PathMapping` and the LRU type as operators with reference definitions.
4. Theorems for `CacheStore` (ExistsMeansFile), `RequestPath` (CountersBalance), `Prefetcher`
   (Accounted) and `PackageIndex` (LockOrder).
5. The generated dependabot.yml and the discovery of repositories.

Left out for good: formatting, HTML pages, logs, benchmarks, command-line parsing,
TLS set-up and the access list (a pure check of an address against lists fixed at
the start); the release, detection, report and operator scripts, whose runs are one
pass over their input and leave nothing another part reads back; tickets for review
comments and scanning alerts, whose commands cannot run; descriptions, READMEs and
links of projects, which are written anew each time; migrate-format of the enhanced
manager, which adds fields to files; of `sync-receiver.yml`, the narrower values of
sync_type, the shell commands that copy file by file when the Python script breaks off
and the link to the linters; `sync-receiver-check-changes.py` and
`sync-receiver-commit-push.py`, which no workflow calls.
