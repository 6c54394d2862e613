# Monarr: a TLA+ verification project

Monarr (the repository's Go service, also called Curator) is one process over
one SQLite database with a single writer. It searches indexers for releases,
hands them to download clients, and imports what arrives into a media library.
This directory holds TLA+ models of the parts of it where ordering, crashes and
concurrency decide correctness, TLC configurations that check them on small
instances, and TLAPS proofs of the properties that matter most for every
instance. Paths are relative to the repository's root; `acq/` stands for
`internal/app/acquisition/` and `sql/` for `internal/infra/sqlite/`.

Contents: [inventory](#inventory), [modules](#modules), [how state and actions
correspond to the code](#how-state-and-actions-correspond-to-the-code),
[runs](#runs), [fairness](#fairness), [proofs](#proofs), [what disagrees with
the code's own words](#what-disagrees-with-the-codes-own-words), [not
modelled](#not-modelled), [plan](#plan).

## Inventory

| Component | State | Operations | What is hard | What makes it correct |
|---|---|---|---|---|
| Import attempt control (`sql/import_attempts.go`, `acq/import_control.go`) | a control row per download and generation (epoch, outcome, sealed plan), a row per planned file | ensure, retry, seal, resolve, satisfy, complete, request cancel, finalize | four paths decide an attempt, cancellation comes at any time | an attempt is decided once, a completed one is whole |
| Publication journal and placement (`sql/import_publications.go`, `acq/placement.go`) | authorizations, placement journal, staged files, library rows, files | prepare, authorize, rename, commit, retain, adopt, dispose, reconcile at start | crash between rename and commit, an error after authorization | library, journal and disk agree; a revoked permission stays revoked |
| Import workers and hand-off (`acq/importers.go`, `handoff.go`, `import.go`, `importretry.go`) | channel of jobs, map of tickets, download mutexes, title locks | enqueue, run, sweep, ImportNow | full channel, stale tickets, the sweep that owns no mutex | every job ends, no two publish one title |
| Job queue (`internal/infra/jobs`, `sql/jobs.go`) | the leased `jobs` table | enqueue, claim, heartbeat, complete, fail, retry, defer, reclaim, prune | leases that expire under a living worker, late results, node crashes | one active job per key, one runner, nothing stranded |
| Deployment drain (`internal/app/maintenance`), scheduler, HTTP lifecycle | admissions in force, pause, generation, owner; trigger channels; requests | start, abort, close, enter, trigger, run, shut down | triggers queued when a drain begins, delayed aborts, nested admission, lost wake-ups | "drained" stays true, every drain completes, an abort ends only its own drain |
| Runner deliveries (`acq/delivery*.go`, `sql/delivery_receipts.go`) | receipts, per-file outcomes, deletion batches | discover, accept, import, acknowledge, clean up, delete explicitly | crash between acceptance, import and deletion; partial deletion | nothing is deleted that the library still needs, and the Runner knows our receipt |
| Recovery hand-offs (`acq/recovery*.go`) | preview task, recovery row, receipt outbox, placement journal, the Runner's record | preview, queue, claim, place, receipt, cancel | two processes that cancel and complete at the same time over lost and late calls | both ends settle on one outcome |
| Replacement (`acq/replacement*.go`) | observations, operations with a snapshot of files, quarantine | observe, request, retire, search, complete | crash between link and unlink, a volume that changes, a scan that relinks | a usable file stays until its replacement is in the library |
| Wanted searches (`acq/wanted_searches.go`) | run with cursor and targets, one job at a time | start, claim, search, commit, cancel, reconcile | reconcilers act on what they read earlier | a cancelled run grabs nothing |
| Season comparison (`acq/season_discovery.go`) | the job's payload as checkpoint, scopes, releases found | request, open, resume, search, compare, admit, defer | several writers of one payload | plans come from current evidence, no request is lost |
| Season plans (`acq/season_execution.go`) | plans, rows, custody of episodes | admit, dispatch, settle, fall back, waive | dispatch and settlement at once | an episode has one provider, what was sent keeps its custody |
| Indexer request budget (`sql/indexer_budget.go`) | rolling ledger, cap, delays | reserve, refuse, forecast | caps that change, shares at their limit | a forecast is kept |
| Grab, submission, observation (`acq/acquisition.go`, `subscribe.go`, `runner_submission_worker.go`) | download rows, client jobs, blocklist | grab, submit, retry, observe, remove | time-outs after acceptance, restarts, reused names | one job per request, one download per want, outcomes go to their own row |
| Selection and quality (`internal/domain/{quality,decision,language,mediainfo}`, `acq/wanted.go`, `placement_policy.go`) | recorded files, wanted index, profile | RSS, search, manual grab, judge, import, probe | a release is judged three times against a changing library | a file goes only for a better one or with its episode |
| Completed folder (`acq/cleanup.go`, `completed*.go`, `storage_change.go`) | cached inventory, receipts, retained generations, storage | list, delete, clean up, clear Activity, change storage | names used again, storage unmounted or replaced | every payload has an owner, cleanup takes its own |
| Library (`internal/app/library`, `sql/library.go`) | items with identities, folders, copies; file records; adoption queue; identity index | add, refresh, merge, scan, probe, adopt, dismiss | read-modify-write across service calls | one item per identity, an import's attribution wins, a stale index is never handed out |
| Notifications, event bus, health (`internal/infra/bus`, `internal/app/notify`, `health`, `transfers`) | notifiers, delivery queue, bus buffers | publish, dispatch, deliver, retry | lost events, stale batches, deleted notifiers | a queued delivery settles |
| Import lists, discovery, recommendations | | | | not modelled |
| Clients, indexers, metadata adapters | | | | external, seen through the operations that use them |
| API, compatibility layers, web, mobile | | | | not modelled: presentation over the operations above |

How they interact. A poll or an event stream observes a transfer, records it
and puts a job on the import channel. Import workers run it over the SQLite
tables and the file system. A cancellation request, a two-second ticker, the
operator's review and a scheduler task for blocked imports act on the same rows.
A delivery or a recovery hand-off of a Runner arrives by discovery and uses the
placement journal too. Searches (RSS, wanted, season) choose among releases by
the decision engine, charge the request budget and end in a grab, which commits
a row before it asks the client. Long work outside imports runs as jobs of the
leased queue. Everything that begins work first asks the admission coordinator,
which is how a deployment drains the process.

## Modules

| Module | Models | Shape |
|---|---|---|
| `ImportAttempts` | tables of migration 0069, placement journal, download row, staged and placed files | one operator per transaction or rename; no next-state relation of its own |
| `ImportControl` | every process that calls those transactions | `EXTENDS ImportAttempts`; program counters, locks, tickets, channel, crash |
| `ImportLifecycle` | what the two above promise of an attempt | abstract specification, refined by `ImportControl` |
| `JobQueue` | jobs table, workers, reaper, node crashes | stands alone |
| `Maintenance` | coordinator, scheduler loops, HTTP mutations, worker loops, deployers, shutdown | stands alone |
| `DeliveryReceipts`, `Delivery` | receipts, ledger and batches; the threads that issue them | transactions, and processes over them |
| `Recovery` | one recovery hand-off with the Runner's side of it | stands alone |
| `Replacement` | observations, operations, the replacement worker, a library scan beside it | stands alone |
| `WantedSearch`, `SeasonSearch`, `IndexerBudget` | what is asked of indexers | one module each |
| `Quality`, `MediaInfo` | order on qualities, language rule, decision; what a measurement says | pure operators |
| `Curation` | one title from wanted to filed to replaced | `EXTENDS Quality, MediaInfo` |
| `Submission` | grabs, submissions, the client, observers | stands alone |
| `SeasonPlan` | plans, dispatch, settlement, fallback | stands alone |
| `Payloads` | the completed folder | stands alone |
| `Library`, `LibraryFiles`, `Adoption` | items and identities; file records; adoption of folders | one module each |
| `Notifications` | bus, dispatcher, delivery worker, health, transfers | stands alone |
| `MCImportControl`, `MCJobQueue`, `MCMaintenance`, `MCAdoption` | constants and symmetry of one model | |
| `MCSending`, `MCSearching`, `MCFiling`, `MCDelivery`, `MCBackground` | suites: several models side by side | a constant variable `focus` says which one moves in a behaviour; the others stay in one initial state, so a suite explores the sum of its models and not their product |
| `ImportControl_proof`, `JobQueue_proof`, `Maintenance_proof`, `Sending_proof`, `Recovery_proof`, `Searching_proof`, `Delivery_proof`, `Filing_proof` | theorems | `Sending_proof` is about `Submission` and `SeasonPlan`, `Searching_proof` about `Quality`, `WantedSearch` and `SeasonSearch`, `Delivery_proof` about `Delivery` and `Payloads`, `Filing_proof` about `Replacement`, `Library` and `LibraryFiles` |

### How state and actions correspond to the code

A variable is a table, a durable file or a piece of process memory; its comment
names it. An action is the code between two points where another goroutine can
observe or change shared state: a transaction (SQLite has a single writer, so
each is one step), a rename, a lock, a channel operation, a call to another
program. A value read before such a point and used after it is kept in the
process's own variable, which is where stale reads come from. Left out or left
to choice everywhere: wording, history entries, progress, metrics, back-off
times (a row whose time has not come is one whose worker has not come round).

`ImportAttempts`. `outcome`, `epoch`, `sealed` are the columns of
`import_attempt_controls` ("open" is the empty string, "absent" no row), `file`
is `import_attempt_files.outcome` of the current epoch, `pub` merges `outcome`
and `resolution` of `import_publication_authorizations`, `plc` is
`import_placements.state`, `row` is `downloads.state` ("blocked" is `failed`
with an `ErrImportBlocked` text, which is what the sweep selects). `stage` and
`disk` are directory entries and `lib` is `media_files`; bytes are named by the
epoch of the placement that produced them. Digests and inode identities are
abstracted to "these are (not) the bytes of this placement".

`ImportControl`. `pc` follows a worker through `runImportOwned`, `runImport`,
`importDownloadFiles` and `commitPlacement`; what a file's name, quality or
profile decide is a choice of reuse, skip, place or stop. `CtxLive` is the
job's context; after the authorization the code uses `context.WithoutCancel`,
and so do the actions from `PublishFile` on. The sweep runs the same actions
with no ticket and without the download mutex, as `RetryBlockedImports` calls
`runImport`. `Crash` resets everything volatile.

`JobQueue`. Time is two flags of a row, "run_after has passed" and "the lease
has run out". A lease with a running worker expires only when the heartbeats
stall, and stalls are counted, so that properties can be stated for the time
before the first one. Capability and affinity routing are left out.

`Maintenance`. A token of `Coordinator.active` is named by its holder. Deployer
replies may be lost, abort requests are delayed and repeated without bound.

`DeliveryReceipts`, `Delivery`. One receipt with its one download. The import
worker, the sweep, the acknowledgement, the cleaner and the remover are
processes with the locks the code takes; cleanup hashes and proves first and
then checks and unlinks under the target lock in one step. `OutsideChange` is
what happens to the publication directory from outside.

`Recovery`. One hand-off. `rec` is its row, `place` the journal rows of its
import, `remote` the Runner's record, `wire` the calls that were given up on
here and may still arrive. `sweep`, `courier` and `queuer` are the three
goroutines that work on it. The lease stands for the revisions of the title, its
other files among them, and of the shared settings; `recorded` is what the
library's `media_files` has under the targets, since a snapshot fingerprints
those and bytes that nobody recorded are never replaced. A sweep holds the
title's lock while it places and while it rolls back. A placement that was
cleaned up counts as committed; a journal row whose name was given up for a free
one beside it is not followed; a link and its rename are one step. The Runner is external: it is taken to act on
a call as the client code in `acq/recovery.go` and its documents rely on, and a
late call is taken not to outlive a new publication of the manifest.

`Replacement`. `oldBytes` and `quarantine` are what is under a file's two names,
`fileRow` and `fileEpisodes` its record, and `opFile` the snapshot an operation
took of it, its episodes included. Hashing runs without locks; from the link to
the removal of the name the worker holds the target lock. `repScan` is
`scanItem`, which takes no lock: it links every file it found to the episodes of
its name (`NamedEpisodes`), under the generation the row has, and deletes the
records of the files it did not find. An operation is for selected episodes or
for a whole download.

`WantedSearch`. A run, its newest job and the wants are read and written in
separate transactions by three callers: the handler, the coordinator and a
request. `SeasonSearch`. A worker works on a copy of the job's payload and
writes that copy back at every step, while a person and a failed grab change
the same payload; a release found is represented by the library revision it was
found under. `IndexerBudget`. The ledger is kept by age, so a step of time moves
every entry; the shares of a cap are computed as the code does, with integer
division.

`Quality`, `MediaInfo`, `Curation`. Tiers, ranks, cutoffs, the language rule and
the decision are translated operator by operator; a measurement is a record of
numbers. `Curation` keeps, for one title, the recorded files, the download rows
and the cached wanted list, and follows an import through its three judgements:
by the release name at the grab, by the name at the import, by the measurement
just before publication.

`Submission`. One client. `call` is the `Add` under way under a row's lock,
`wire` the requests that may still reach the client; `capability` is what the
client negotiated (durable tokens, exact receipts, or neither). `ClientFault`
loses answers, restarts the client, or reinstalls it: a new installation forgets
its jobs, its tokens and the requests it was still working on. `SeasonPlan`. Dispatch runs under
`planDispatchMu`, settlement takes no row lock; an admission is any allocation
the comparison could choose. `Payloads`. One completed root; a payload is one
directory, and its bytes are known by the generation they were downloaded for.
`Mount` replaces the storage underneath.

`Library`. A call is split at every read that is used after another call may
have written; a metadata provider may answer with any identifier in the space
it was not asked in. `LibraryFiles`. A walk of a folder is one step and every
database call is one. `Adoption`. The report, the queue and the list of
confirmed roots are three values of the `meta` table, each loaded, changed and
saved without a transaction. `Notifications`. An event that finds a buffer full
is lost; dispatcher and worker act on rows they read earlier.

## Runs

Passing:

| Run | Instance | Shows |
|---|---|---|
| `import_workers` | 2 workers, the sweep on the first attempt, 2 tickets, 1 file, 1 retry, 1 crash | `LibraryMatchesDisk`: what is under a library path was authorized there, and the library names it once committed. `NoPublicationAfterFinal`: bytes appear only under a pending authorization of the open attempt |
| `import_liveness` | 1 worker, no sweep, 1 file, 1 retry, 1 crash | `CancelSettles`: an accepted cancellation is decided. `JobsEnd`: every ticket is given back, whatever order the locks are taken in |
| `job_queue_safety` | 3 workers on 2 nodes, 2 jobs, 2 keys, 2 attempts, 2 stalls, 2 crashes, 1 deferral | `OneActivePerKey` even with late results; `OneRunnerPerJob` until a lease expires under a living worker |
| `background` | 1 general and the reserved worker, 2 attempts; 2 jobs with 1 deferral, 1 stall, 1 crash, or 3 jobs without; 1 notifier, 1 delivery, 2 events, 1 edit, 1 restart | `NothingStranded`, `InteractiveServed`, `DeliverySettles` |
| `drain` | 1 task, 1 request, 1 loop, 2 deployers, 2 drains | `TokensAccounted`, `DrainHolds`, `SleepersHaveReason`, `DrainCompletes`, `TriggerRuns` |
| `delivery` | 2 files (one excess), 2 receipt ids, 2 deletion requests, 2 disturbances; a hand-off of 1 file, 2 publications, 2 troubles | `RemovedIsGone`, `OneEventPerReviewedFile`, `RunnerKnowsOurReceipt`, `RemovalIsCovered`; `EndsAgree` |
| `sending` | 2 grabs, 2 client handles, 1 fault; 2 episodes, rows and plans, 1 event; 2 payload rows, 1 path, 2 generations, 1 fault | `OneJobPerRequest`, `OneDownloadPerWant`, `OutcomeIsItsOwn`; `OneProviderPerEpisode`, `SentKeepsCustody`; `PayloadOwned`, `CleanupTakesItsOwn` |
| `searching` | 1 run of 2 targets, 1 crash; caps {0, 5}, 6 calls; 1 season, 1 indexer, 1 press, replan and edit; 2 episodes, 7 releases, 3 downloads, 3 files, 1 touch | `NoGrabAfterCancelled`; `ForecastIsMet`; `NotParkedWhileOwed`, `PlanFromCurrentEvidence`; `ReplacedByBetter` |
| `filing` | 1 worker, 2 files, 1 retry; 1 operation, 2 old files, a scan and a fault or 2 faults; 2 works, 2 callers, 2 items, 2 calls; 1 name, 1 sweep, 1 import, 1 disk change | `ImplementsLifecycle` (the refinement), `PendingBelongsToLiveAttempt`, `CommittedFileInLibrary`, `CompletedImportIsWhole`; `UsableKeptUntilReplaced`, `OnlyReviewedBytesGo`; `OneItemPerIdentity`, `HandedOutIndexIsCurrent`; `ImportAttributionWins` |

Refuting what a comment of the code says:

| Run | Refutes |
|---|---|
| `import_cancelled_row` | "Do not race that with a misleading failed/context-canceled state" (`acq/handoff.go:191`): the retry sweep does, since it holds neither mutex nor ticket and `failImport` is not fenced |
| `job_queue_holder` | "the worker should stop rather than write a result someone else owns" (`sql/jobs.go:193`): `CompleteJob`, `RetryJob` and `FailJob` say only `WHERE id = ?` |
| `adoption_dismissed` | "IgnoreDir dismisses an adoption candidate for good" (`library/scan.go:429`): the stored review queue keeps the proposal, and `AdoptExact` works on the queue |

### Bounds and why they are enough

- Import. Two workers and two tickets are what a stale job and its successor
  need; the map has one entry per download. One crash reaches every cut; after
  it the volatile state is the initial one. `MaxEpoch` 1 gives an old and a new
  attempt, and every guard compares epochs for equality only: a job queued for
  the old one meets the new one. Files of one plan interact only through "all
  resolved, one committed", for which two are needed. In `import_workers` the
  sweep acts on the first attempt only (constraint `SweepOnFirstAttempt`), to
  keep the graph small. `import_liveness` has no sweep: with it the check of liveness does not
  end in the time a run may take, so that `JobsEnd` says nothing about the
  sweep's locks. The proofs lift all of these bounds for the safety properties.
- Jobs. Two attempts distinguish first, last and spent; two stalls let a second
  reclaim race with the first worker's late result. In `background` two attempts
  let a reclaimed lease go back to the queue once and be failed the next time;
  three jobs are what keeps both workers busy while one more waits, and are
  checked without crash, stall and deferral (`JobsOfFocus`). Rows and keys are
  interchangeable, so they are inserted in one order (`Canonical`); symmetry
  would not be sound for liveness. Drain: two drains and two deployers are what
  a delayed abort needs.
- Delivery. One selected and one excess file are the two ways a file may be
  covered; receipt ids and batches are only compared, and a second of each is
  what a repeated request needs. Two disturbances reach a crash after an
  operator's change and a failed write after a crash.
- Recovery. Files are handled in order and independently up to the receipt,
  which asks for all; two publications give a generation and its successor;
  two troubles give, for instance, a lost call and a restart, or an edit and a
  late call. The proof lifts all of them.
- Sending. Two grabs overlap; two handles let the client use a number again;
  one lost answer or restart is what a replay needs. Two plans give a plan and
  its successor, two rows a pack and a single. Two payload rows and generations
  give one path used twice.
- Searching. Two targets give a current one and a next; the caps are no cap and
  the smallest with unequal shares, one of them rounded; the releases cover the
  kinds, a pack, a wrong language, a wrong size and an implausible measurement.
- Filing. Old files of one episode and of a pair, whose names both say the pair,
  so that a scan links a file to an episode its review did not see. A scan comes
  before the other fault, and a whole download is replaced only as bad and
  without a scan (`InterestingReplacement`); the proof has every order and any
  number. Two works under one title, each known to one provider; one caller's
  call beside another's.

Sources, tickets, workers, jobs, keys, receipt ids and batches are declared
symmetric where no liveness is checked. Deadlock checking is off: bounded
retries, drains and identities let each model come to rest.

## Fairness

- Import: workers, the poll, the ticker and reconciliation are goroutines that
  loop; each has strong fairness because what disables it for a moment is a
  mutex (Go's `sync.Mutex` hands over to starving waiters; the ticker and the
  poll retry for ever). Steps of a request that has begun are weakly fair. The
  operator and crashes are not fair.
- Jobs: pollers poll (strong, since a worker is busy in between), clock and
  reaper tick (weak): a back-off passes, and so does a lease nobody renews. A
  heartbeat of a living worker may stall and does not have to. Handlers of
  background jobs may run for ever, which is what `InteractiveServed` is about;
  `NothingStranded` assumes that handlers return.
- Drain: handlers, tasks and searches return; loops run; `select` in the
  scheduler is fair between timer and trigger, which is why taking a trigger is
  strongly fair; a shutdown that has begun goes on. Nobody must start or abort.
- Notifications: the delivery loop is a goroutine of the process and goes on,
  and a due time passes (both weak). Sending may fail every time: the attempts
  are counted, and a delivery that fails often enough is failed. Edits, new
  events, the dispatcher and restarts are not fair.

## Proofs

Theorems have the form `Spec => ...` for arbitrary constants under the named
assumptions of the modules (bounds are naturals, identities of different kinds
are distinct, some sets are not empty), which TLC evaluates in every run. The
bounds of the runs are constants of the models, so they are lifted too.

`ImportControl_proof`. `NextIsTransaction` shows once that every step of every
process either leaves the tables alone or is one transaction of
`ImportAttempts`; everything about the tables is then argued per transaction and
not per program counter. `PendingIsLive`: "an authorization is pending only for
the current, undecided attempt" is inductive with the types, since retry and
finalization refuse while one is pending and authorization demands an open
attempt. With it each transaction is a step of `ImportLifecycle` or a stutter
(`Refinement`), and `FinalIsFinal`, `RevocationIsFinal` follow.

The second half of the module is what reaches disk and library. The title's lock
admits one process to the file loop (`TargetHeld`), so between authorization and commit
nothing but the importer itself touches the journal row, the plan entry and the
path it publishes (`Custody`). With custody every step is a transaction under
guards the table alone does not state (`Guarded`), and `LibraryAndDiskAgree`,
`CommittedIsThere` and `PublicationsAreLive` are proved transaction by
transaction. `CompletedIsWhole` needs that a plan has the shape its seal gave it
(`PlanShape`), that placements belong to epochs that were begun, and that a
resolved plan with any placement has a committed one.

`JobQueue_proof`. `KeysAreDistinct` from the unique index alone.
`LeasesAreKept` proves `OnTime`: before the first stall a worker's job is
leased, unexpired, counts the attempt the worker believes in and has no other
runner, and jobs outside leases have attempts left. `OneRunner`, `AttemptsHold`
and `FinishedIsFinal` are not inductive without it: a claim by a second worker
is excluded only because the row is leased, a late retry only because the copy
of `attempts` is current.

`Maintenance_proof`. `Accounting` is inductive as it stands. `DrainedIsQuiet`
follows from it (no registered parent, so no child is admitted), and
`NoLostWakeup` with it: whoever pauses or closes also signals, so a sleeper has
paused admission or none to wait for. `DrainIsOwned` is the action property.

`Sending_proof`. One job per request. With durable tokens the client itself
keeps it: it creates a job only for a token it does not know. Without them the
row does: a request leaves the state in which it may be sent (`Unsent`) in the
step that sends it, no later write of any observer, retry or operator brings it
back, and what was sent is on its way with no job, has arrived, or never will.
`AskedOnceOnly` states the second half for itself.

`OneDownload` and `OutcomesAreOwn` rest on `FateInv`, which ties a row's columns
to what the client has of its request. A want is grabbed again only when its
earlier row has ended, and what could make that row active again is a receipt,
which only a client with durable tokens gives. It cannot: an automatic row ends
only on a refusal or on what the client said of its job, and then nothing with
the client runs or is still owned by Runner (`Settled`), so the receipt looked
up before a write leaves the row ended. A call is answered under
the row's lock, so its row is the submission it was made for (`CallsFit`), and
the lock is held once (`LockedOnce`). With exact correlation every status an
observer holds was said of the row's own job, and a recorded handle is that of
such a job (`Observed`, `Seen`); a job that ended does not run again, so an
observation that is stale when it is applied is still true of it. Each write has
its lemma (`FateOfWrite` and after it), each action one of its own.

The last part of `Sending_proof` is about season plans. `OneProvider` and `CustodyIsKept` need
`PlanSafe`: an intent that is pending was not sent (`NotSentYet`), a row that
may deliver has reserved what it is allowed (`ReservesAllowed`), the row a
dispatch holds between its claim and its record stays a submission in custody
(`ClaimedInCustody`), and between an import's coverage check and its reservation
no other row comes to the episodes it found free (`ImportInCustody`). Only three
steps give a row episodes, an admission, a grab beside the plan and the
reservation of an import; each looks at the reservations of all other rows in
its own transaction. For every other step it is enough that its row gains
nothing (`Gains`). Episodes and rows are finite sets (`SeasonPlanAssumption`),
as they are in a database.

`Recovery_proof`. `EndsMeet`: a hand-off that the Runner holds as imported for
us is wholly committed here, an imported row is imported there, a cancelled row
is cancelled there with nothing half-published, rolled-back bytes are off the
disk. The title's lock keeps a queueing request out of a run that places files
(`Locking`); so nothing but the run moves a row towards its receipt (`Running`)
and a late save finds the row where it may be overwritten (`Saving`). The Runner
never leaves a final state except for a new generation, which the row does not
match, and a receipt given up on can only be received while the row waits for it
(`Receipting`). `ReviewedIsReplaced`: the staged bytes come over others only
where the library records those and the accepted preview showed them, under the
revision that was accepted. Between the preparation and the publication the
title may be edited and a file forgotten or recorded; any such edit leaves the
accepted revision behind for good (`Reviewing`), and a row that has published
once never publishes again. The theorem is not behind a run's property: two
files and two troubles were enough to try it out.

`Searching_proof`. `AcceptedIsWanted` and `AcceptedImproves` are about the
decision engine: what it accepts is on the wanted list, and a chain of accepted
releases cannot go round in circles on quality alone. `NoneGrabbed`: a
reconciler reports "cancelled" only after it read the cancellation and then a
job nobody works on (`ReadHolds`), and from then on a handler's own look at the
run stops it. `NoneParked`: a payload's manual generation is never below what a
worker's copy has claimed, so the deferral's guard on the generation sees every
request made since. `PlansAreCurrent`: a checkpoint names the revision of its
evidence, in the row and in every copy (`Dated`), and admission compares it with
the library's.

`Delivery_proof`. A row of the ledger moves one way (`Moves`): once it has a
disposition it keeps one, "removed" is final, and a row comes to say so only of
a file that is gone. That needs the threads: what the cleanup worker is about
to stamp and what a deletion holds as absent or unlinked is gone
(`ThreadsAbsent`), and nothing in the model puts a published file back. A
deletion's mark and its event are written together and only once (`Recorded`).
Only an excess file is ever disposable (`Surplus`), so that the proof cleanup
repeats under the locks covers each kind of file by its own reason; a reviewed
deletion begins each unlink against its own open request. The consumer id is
stored before Runner hears of it and never drawn again (`Told`). Each action
then has a lemma; what writes no row goes through `QuietStep`, what cleanup
does through `CleanerKeeps`.

Its second half is about the completed folder. `PayloadsAreOwned` follows from
two sides of `PayloadInv`: the receipt of an imported payload that does not say
removed still has its row (`RemainingIsOwned`), because clearing and retention
delete only rows without a payload; and one that says removed has no bytes on
the expected storage, unless an accepted storage change fenced its generation
(`PayloadsGone`). The first needs that receipts and rows stay in step, through
the triggers, as long as a row names the generation (`ReceiptsFollow`).
`CleanupSparesOthers` needs to know what the cleanup still knows at its last
step: its candidate has been reported, and imported if a sweep or an import
handed it over (`RefsKnown`); between a sweep's checks and the client's answer
the row keeps the generation and the mounted storage is the expected one
(`TaskHolds`). The runs take one payload fault; an instance with two has 13
million states, too many for a run, and the proof has no bound.

`Filing_proof`. What outlives a file. `UsableKept` and `ReviewedBytesGo` rest on
`RepInv`: the file a worker holds is a selected part of the operation it runs, a
file whose digest it holds was there when it looked, and the proof that precedes
a quality replacement's removal names every episode of the operation. Only the
last unlink destroys bytes, so both need to be shown of that one step. A selected
part of an operation holds, in the snapshot, episodes of its scope and no others,
and what a file of the operation is linked to now is in the snapshot or in its
name (`SelectedInScope`): the first because acceptance says so, the second because
only a scan adds links. That is as much as the code keeps, see
[below](#what-disagrees-with-the-codes-own-words).
`IdentityIsUnique` holds for any stock of rows that share no identity
(`StockedAssumption`), because every write of identities is checked against the
other live rows in its own transaction (`Fits`). `IndexIsCurrent` follows from
`IndexInv`: what a rebuild has read is the library's as long as the revision it
started from is the current one, since every write raises it. `AttributionWins`
follows from `FilesInv`, which says it of every record and keeps a repair's
folder among the title's own.

Only model-checked, and why:

- Liveness (`CancelSettles`, `JobsEnd`, `NothingStranded`, `InteractiveServed`,
  `DeliverySettles`, `DrainCompletes`, `TriggerRuns`): fairness is outside what
  TLAPS supports here.
- `ForecastIsMet`: the forecast counts a ledger over a horizon; an inductive
  argument needs induction over sums of a function's values, which the provers
  cannot instantiate.
- Not proved yet: `ReplacedByBetter`.

## What disagrees with the code's own words

The three refuting runs are the disagreements established by a counterexample.
Reading the code for the models turned up more, noted here with their place;
where a property would have met one, its comment says how it is stated.

Searching and planning:
- A replan requested between `acq/season_discovery.go:378` and the completion of
  the job is lost, against the comment at 55-59.
- A press is dropped when its insert meets a duplicate key of a job that ends
  before the update (`season_discovery.go:180-199`, comment 107-108).
- Lines 339-341 of `reconcileSeasonPlans` cannot be reached.
- Season aggregates (`internal/domain/wantable.go:217-297`) and per-episode
  wants can disagree in both directions.
- `PUT /profiles/{id}` (`internal/api/acquisition_handlers.go:394-406`) does not
  invalidate the wanted list.

Grabbing and observing:
- A control hold (`acq/download_control.go:49-56`) is not lifted when the client
  stops reporting one.
- An imported row still suppresses a want (`acq/acquisition.go:2474` against
  `queries/acquisition.sql:54`).
- "offer it again" (`acq/importers.go:36`): the row already reads `downloaded`,
  for which `reconcileDownload` returns.
- `endUnseenTransfers` (`acq/acquisition.go:2112-2132`) can replace an
  "importing" entry by "downloading", and a stale observation of an imported row
  begins an in-flight entry nothing ends (1804).
- An implausible fresh file is neither blocklisted nor counted by the regrab
  limit (`acq/graburn.go:18`), and at the canonical name it blocks every file of
  that name (`acq/placement_policy.go:46`, 92-94, 117-119).
- A grab accepted against the best file can be refused at the import, which
  judges every overlapping file.

Importing and removing:
- `planBookImport` (`acq/import.go:1020-1045`) judges an audiobook retry against
  its own parts, against the comment at 661-663.
- `removeExistingFiles` takes files recorded after the judgement, against
  `acq/placement_policy.go:109`; `ReplacedByBetter` exempts them.
- "A physical file shared with an unselected good episode is retained"
  (`docs/BAD_DOWNLOAD_API.md:143-145`) is decided once, at acceptance. A scan
  that links the file to such an episode afterwards
  (`internal/app/library/scan.go:339`) leaves its generation as it is, and
  `replacementFinalCheck` (`acq/replacement_worker.go:640-659`) compares
  generations and no links: the file goes. `OnlyReviewedBytesGo` exempts the
  episodes of the file's name. A scan also undoes a detachment, and its pruning
  of a file that is in quarantine leaves the operation in `cleanup_blocked`,
  since every later pass wants the row.
- A replacement can complete without having retired its old file
  (`acq/replacement_worker.go:218`, against
  `docs/DOWNLOAD_LIFECYCLE_PROPOSAL.md:739-740`).
- A sweep marks a payload removed after an accepted storage change
  (`acq/cleanup.go:141-146`); `PayloadOwned` exempts fenced generations. A
  partial cleanup deletes an entry the inventory calls ambiguous
  (`acq/completed.go:476-479`), and it acts on the classification of the cached
  report: the deletion (`acq/completed_delete.go:95-196`) checks again the review
  of its own generation and of the path, not of other generations with bytes
  there. `CleanupTakesItsOwn` grants it what no unfinished row names.
- A delivery directory is removed under other conditions at
  `acq/delivery_cleanup.go:1396` than at 1858.
- The recovery sweep's save of "review" (`acq/recovery.go:950-953`) and
  `QueueRecovery`'s save (622-636) can overwrite a cancellation accepted just
  before, against the comment at 920-921. The waiting cancellation may still be
  carried out at the Runner, and the queued import then fails until it is
  cancelled again. `EndsAgree` holds nevertheless.

Library and notifications:
- A scan's pruning (`internal/app/library/scan.go:205-359`) deletes the record
  of a file imported meanwhile, against 78-82 and 192-195; a probe's result can
  be overwritten by the scan's guess from the name (299-315).
- Two `AddCopy` calls can choose one folder (`library.go:1000-1064`, against
  1346-1354); an edit of flags writes an old path back (772); a deleted item's
  row id may be used again and then be hit by a refresh, an edit or an undo.
- A deleted root's id may be used again, and the new root then adopts without
  asking, against `adopt.go:687-689`; the undo of an adoption runs under a
  context that may be cancelled (655); the review queue and the report lose
  concurrent changes.
- A delivery may outlive its notifier (`sql/automation.go:178-188`), and a
  worker's old batch may meet a reused delivery id
  (`internal/app/notify/deliver.go:88-101`, 146-171). Health transitions are
  published outside the lock (`health.go:150-166`).

## Not modelled

- Parsing and matching of release names, custom formats and naming of files:
  functions of strings. The models take what they decide as a choice.
- Adapters and metadata providers: external protocols; the models choose among
  the answers the code handles.
- Import lists, discovery, recommendations, artwork and people: periodic reads
  of external services that end in the library's operations.
- API handlers beyond the operations they call, the compatibility layers, the
  web and mobile clients.
- Backup links of replaced targets in ordinary imports: a second generation of
  bytes per target. The rollback of recovery placements is in `Recovery`.
- In `Replacement`: copies of a title; the row a scan makes for a name that has
  none; movies and downloads without episodes; a placement of several episodes;
  a refresh of the metadata that removes an episode together with its links (the
  operation's failure on it is there); downloads of an operation before its
  newest, which are settled.
- In `ImportControl`: a delivery's plan, sealed for more files than are imported
  (`sql/import_attempts.go:198`); a client with manual approval, whose row waits
  for `ImportNow` (`acq/handoff.go:80-85`). A row that its client holds and a
  legacy review are choices of `StartJob` and `RunImport`.
- In `Submission`: a payload in Curator's custody (`acq/acquisition.go:1992-2000`),
  the completion of a legacy review (1844-1859), an importing row taken up again
  (1882-1894), a stalled torrent. In `DeliveryReceipts`: the error for a manifest
  that differs from the stored one.
- A second handler of one job in `WantedSearch`: restarts take handlers and
  leases together. That a lease can expire under a handler that goes on is
  `JobQueue`'s; whether a target is then skipped or searched twice is not checked.
- More than one download in `ImportControl`, one receipt in `Delivery`, one
  hand-off in `Recovery`, one title in `Curation` and `LibraryFiles`: tables are
  keyed by them, and locks are per download or per title.

## Plan

1. Done: the core (imports, jobs, drain), then deliveries, replacement,
   searches, submission, season plans, library, notifications, payloads,
   curation, recovery; their runs; the theorems above.
2. Next proof: `ReplacedByBetter` (a file is replaced on evidence that was read
   before its title was locked).
3. Later: a second download in `ImportControl` for the test that a target is not
   retained for review, which is per title and crosses downloads.
