# parser-go in TLA+

Models, model checks and proofs of `parser-go`: a log-analysis HTTP service
(`cmd/parsergo`), the engine it runs, and the benchmark harness that compares
the Go rewrite with a legacy baseline and publishes evidence bundles.

Everything here is translated from the Go sources under `src/`.
`PROJECT.json` gives, for every definition that models code, the lines it
stands for.

## 1. The system

| Component | State | Operations | Talks to |
| --- | --- | --- | --- |
| Job store, `internal/job` | map of jobs under one RWMutex | Get, Create, Update, Delete, List | called by handlers and workers |
| Analysis service, `internal/api/analysis_handler.go` | workspaces, bounded job channel, idempotency table, ready flag, each with its own lock | submit, status, summary, report, sweep of expired jobs, worker loop | job store, engine, summary |
| Report pages, `internal/api/report_handler.go` | none of its own | index, detail | job store and workspaces of the service |
| Engine and summary, `internal/analysis`, `internal/summary`, `internal/bench/analyze.go` | tallies and records of one analysis | NewEngine, Analyze, Compute | called by the workers and by `bench impl rewrite` |
| Submission validation, `internal/api/analysis_handler.go` | none | media type, length, the loop over the form's parts, format and profile | called by the submitting handler |
| Process, `cmd/parsergo/main.go` | listener, ready flag | serve, probe `/healthz`, shutdown on a signal | service |
| Benchmark run, `internal/bench/run.go`, `fairness_runtime.go`, `parity.go` | metrics and outputs of one run; a results directory that outlives it | Run | child processes, file system, publication |
| Evidence publication, `internal/bench/evidence.go` | bundle directories and `index.json`, kept between runs | publish, validate, update the index | cross-check |
| Service cross-check, `internal/bench/crosscheck.go` | the job it submitted | submit, poll, fetch summary and page, compare | a running service, over HTTP |
| Release candidate, `internal/releasecandidate`, `cmd/releasecandidate` | output directory: copied tree, archive, listing, manifest | Generate | git, file system |
| Host snapshot and page cache, `internal/bench/system.go`, `cache_*.go` | none | read `/proc`, hash files, drop a file from the page cache | benchmark run |
| Command line, `cmd/bench` | none | run, impl rewrite | benchmark run |

**How they interact.** A submission is validated by a handler goroutine, made
into a job in the store, given a workspace, and sent to the channel without
blocking; a full channel undoes the first two. A worker goroutine receives it,
writes *running*, analyses, stores the summary in the workspace, and writes
*succeeded* or *failed*. Nothing else runs in the background: finished jobs are
expired by whatever request comes next, because each handler first sweeps a
snapshot of the store. The report pages read the same store and workspaces. On
the other side, a benchmark run starts the two implementations as child
processes in paired rounds, writes a results directory file by file, compares
the outputs and, if they agree, publishes a bundle into an evidence set, for
which it may submit the corpus to a running service and compare that too.

**What is hard.**

* *Service.* Four locks (store, workspaces, idempotency, ready) and a channel
  make every operation a sequence of steps that other goroutines see between:
  two submissions with one key, a sweep that overtakes a reader, several sweeps
  of different age, the worker that finishes before the submitting handler has
  recorded the key, the rollback of a rejected submission. Correctness:
  one live job per key; no job lost or processed twice; nothing left in a table
  for a job that is gone; no expiry before its time; *succeeded* means a summary
  of the right input; a 404 only for what is gone; every job and request ends.
* *Engine.* Go visits maps in random order and logs are in any order.
  Correctness: every line in one tally; a ranking that is a function of the log;
  a rate that is a finite number.
* *Benchmark run.* Any child, file operation or cache drop may fail, in any
  iteration of either side. Correctness: claims only from complete, symmetric,
  proved runs; results only of complete executions and of one run; publication
  only with parity.
* *Publication.* Directories and index survive from run to run, writes are
  in place and may be cut short. Correctness: a published bundle is complete and
  of its own run; the index names the last success.
* *Process and cross-check.* Probe, delay, signal and listener race at start and
  stop, and `main` does not wait for open requests. A check polls against a
  deadline while its job may expire, its service may stop, and a new process may
  answer that knows nothing of the job. Correctness: jobs only in a process that
  has answered its own probe; a report of one job; "matches" exactly when the
  figures agree; the check and a signalled process come to an end.
* *Release candidate.* Index, revision and contents are read one after the other
  from a repository that others use; a run may fail anywhere, also in clearing
  the directory, and the errors of the closing calls are dropped. Correctness:
  nothing excluded ships; a manifest vouches for the rest; the files are those
  of the revision named, when they can be.

The hazards, each at its line and with the properties aimed at it, are listed in
`PROJECT.json`; a hazard without a property says why there.

## 2. Modules

| Module | What it is |
| --- | --- |
| `JobStore` | the store's methods as operators on the map; each holds the mutex for its whole body |
| `AnalysisService` | handlers, sweep, idempotency, queue and workers; **the core** |
| `AnalysisServiceInv` | the inductive invariant `Consistent` |
| `AnalysisLedger` | the abstract specification of the service |
| `AnalysisService_proofs` | the theorems about the core |
| `AnalysisRefinement` | the mapping to the ledger, and the invariants it needs |
| `AnalysisRefinement_proofs` | the service implements the ledger; no job is lost, no answer is wrong |
| `MCAnalysisService` | instances for TLC |
| `LogSummary`, `LogSummary_proofs`, `MCLogSummary` | engine and summary |
| `BenchRun`, `BenchRun_proofs`, `MCBenchRun` | a benchmark run |
| `EvidencePublication`, `EvidencePublication_proofs`, `MCEvidencePublication` | publications into an evidence set |
| `SubmissionForm`, `SubmissionForm_proofs` | what a submitted request is found to be, as an operator |
| `ServerProcess` | starts, readiness, shutdown and crashes of the serving process |
| `CrossCheck`, `CrossCheck_proofs`, `MCCrossCheck` | **the composition**: the benchmark's check against process, validation and ledger |
| `ReleaseCandidate`, `ReleaseCandidate_proofs`, `MCReleaseCandidate` | the release-candidate tool |

### AnalysisService

A step is the code between two acquisitions of a mutex, or one channel
operation, so whatever another goroutine can observe in between is a state.

| Code | Model |
| --- | --- |
| `handleAnalyses`, `handleAnalysisDetail`, the pages' handlers up to their switch | `Arrive`, `Sweep`, `Refuse`, `Route` |
| `expireEligibleJobs` over one snapshot of the jobs | `Sweep`, then `ExpireJob`, `DropWorkspace`, `DropKeys` for each job |
| `createOrReuseIdempotentJob` | `Lock`, `LookupConflict`, `LookupHit`, `LookupMiss`, ..., `RecordKey` |
| `createQueuedJob`, `enqueueJob`, `cleanupRejectedJob` | `CreateJob`, `MakeWorkspace`, `Enqueue` or `QueueFull`, `RollbackStore`, `RollbackWorkspace` |
| status, `handleSummary`, `handleReport`, page | `GetJob`, `ReadWorkspace` |
| report index | `ListReports`, `CollectReport`, `WriteIndex` |
| the worker and `processJob` | `Take`, `Start`, `Fail` or `StoreSummary` and `Succeed` |
| `SetReady` | `BecomeReady` |

A handler's local variables are functions of the handler (`subject`, `todo`,
`listed`, ...); a `*Job` read from the store is a snapshot, because `Update`
replaces the map's entry. `origin` and `accepted` are history variables that no
guard reads. Abstractions:

* a payload is a (format, profile, input) triple, of which `Outcome` says
  whether validation rejects it and where `processJob` fails on it; its
  fingerprint is the payload, so SHA-256 is taken to be injective;
* reading the clock and the store operation next to it are one step;
* identifiers are never reused, although `generateJobID` derives them from two
  readings of the clock and two of them may be equal (a listed hazard). The model
  is therefore out of steps when its identifiers are, and the runs without
  readers say `CHECK_DEADLOCK FALSE`;
* the HTTP layer is reduced to a request and a reply; a client that goes away
  changes nothing, since no handler looks at the request's context.

`AnalysisLedger` is what clients are promised: an accepted submission is begun,
finished with the outcome of its payload and expired, at most
`QueueLimit + workers` are in progress, and a key has at most one submission
that has not expired. `AnalysisRefinement!Ledger` maps to it: a job enters the
ledger when it is *enqueued*, its phase is its stored state, its owner is the
submission it was made for.

### LogSummary

`ScanLine` is one turn of `Analyze`'s loop, `ScanError` a line over the
scanner's limit, `Compute` the rate and the counts map, `AppendRow` one step of
the range over the map in any order, `SortRows` a stable sort by the code's
comparison. A line is what the engine tells apart: too long, which part does
not parse, path, method, time stamp. Paths are split at their slashes and
numbered in byte order, so the filter and the comparison are computed. Both
callers are there, because `processJob` refuses a log without one valid line and
`AnalyzeCorpus` does not. The properties speak of the log and not of the
variables that the code derives from it: `RowsOf`, `Ranks` and `SummaryOf` say
what a reader would count in it, without a loop, a map or a sort.

### BenchRun

`Prepare`, `Stat`, `CreateLayout`, then one `Iterate` or `IterationFails` per
turn of a round, `FinishRounds` (the fairness verdict), `BuildManifest`,
`WriteFile` in the code's order, `Verdict`, `Publish`; `RunAgain` starts over on
the same directory. The declared controls of the two sides, the host, every
output and every error are chosen by the environment. `Proved` says which
fairness controls an iteration proves, `Claimable` that all of them are
proved by every iteration of both sides. The declared fields and the tracked
ones are sets, so "equal on the tracked fields" is computed.

### EvidencePublication

`Begin` is a run reaching the publication of a scenario, `WriteMember` writes
the next file of its plan (whole, torn, or not at all), `Abandon` is every other
error or a killed process, then `Validate`, `SaveValidation`, `Decide`,
`UpdateIndex`. A file is the run that wrote it, whether it was written to its
end, and whether the scan finds a forbidden marker in it. The eleven members
every bundle has are written and required alike, and one of them stands for all.
`flawed` has the scenarios of which a publication failed *since its last
success*: what an earlier failure left must not excuse a rejection after a
success, so `RejectionExplained` names the very files that such a run left (a
marker later than the last success, an optional directory without its members).

### SubmissionForm, ServerProcess and CrossCheck

`Submit` is `submitAnalysis` and what it calls before a table is touched: media
type, declared length, `ReadParts` (the loop over the parts as a fold that stops
at the first verdict), the checks after the loop, `CreateAndRun`. Texts and file
names are reduced to the classes the code tells apart; a body that is cut short
ends in or after its last part. `WellFormed` says without the loop what a form
has to be; the run `crosscheck` compares the two on every form of up to three
parts, and `VerdictIsExact` on every request that may arrive (`Requests`).

`ServerProcess` has `main` (`Boot`, `Serve`, `ServeReturns`, `Exit`), the
shutdown goroutine (`BeginShutdown`), the readiness goroutine (`ProbeAnswered`,
`GiveUp`, `SetReady`, `DelayCancelled`), the operator (`Signal`) and crashes.
Each timeout is an action that may come at any time. `Shutdown` closes only a
listener that `Serve` has registered, and a process that ends takes along its
tables and every request it has not answered. The ten seconds that `Shutdown`
waits are left out, because `main` does not wait for the goroutine that waits.

`CrossCheck` is `runServiceCrossCheck`: `ReadCorpus`, then requests that are
sent, accepted, handled and answered (`Send`, `AcceptCall`, `Handle`, `Receive`)
or fail with the process (`CallFails`), the poll and its deadline
(`DeadlinePasses`, `TimeOut`), the comparison (`Mismatches`). It is composed of
`ServerProcess`, of `SubmissionForm`, and of `AnalysisLedger` in place of the
service's tables and workers: that `AnalysisService` implements the ledger is
what allows this. Other clients submit too, every step of the ledger may come at
any time, and a process that ends loses its ledger (phase *lost*). Abstractions:

* a call fails only with its process; the client's own timeout is not modelled;
* the queue is full only if as many jobs wait (`QueueMayBeFull`), and is taken to
  be so whenever they do;
* the check sends no key, so the ledger has none here;
* an output is its figures and ranked rows. A page gives back the rate as
  printed, a limited number of rows, and trimmed paths (`Visible`);
* one identifier is kept for the check, or other clients would use them all up;
* the environment variables are constants.

### ReleaseCandidate

`ListFiles`, `GitRevision`, `ResetOutput`, `CopyFile` for each path,
`ReplaceGitignore`, `WriteArchive`, `WriteListing`, `WriteManifest`, each of
which may fail and leave what it would leave; `Again` starts over on the same
directory. `EditFile`, `Track` and `Commit` are the repository's other users. A
file's content is the change that wrote it, part of a file is `Torn`. Copying
and archiving have an outcome more: a deferred `Close` lost something and nobody
noticed. `gzip` and `tar` write most of an archive when they are closed, so such
an archive may be cut short after any number of members, none included, while
the listing and the manifest are still written and name them all. That is what
the code does, and no document denies it; `ManifestMeansComplete` says what a
manifest does vouch for: exactly its files in tree and listing, and in the
archive the first of them in order, all of them if it ends as an archive does.
One that does not, or a part of a file in the tree, comes from an unnoticed
`Close` only (`lost`), and even then no file is another revision's
(`RevisionTold`). A run that fails while it archives leaves the members written
so far, in an archive that may end properly or not.

A tracked path may be a symbolic link: `os.Open` follows it (`Opened`), so the
candidate has the text of the file it leads to under the link's own name, that
of an excluded file too. `NothingExcludedShips` is about paths. Exclusion rules
are the set of paths they refuse, blanks around a path are the function
`Trimmed`.

### Mutated forms

Next to some definitions stands a second one, commented "Mutated form of ...":
the same operator with a plausible bug. No specification uses it. It says which
mistake a property is able to notice: putting it in the place of the original
makes TLC report the property (the pairs are in `PROJECT.json`).

## 3. Model checks

| Run | Question | Bounds | Distinct states |
| --- | --- | --- | --- |
| `submissions` | What can concurrent keyed and keyless submissions, sweeps and workers do to the tables? Do they implement the ledger? | 3 handlers, 2 workers, 2 jobs, 1 key, 3 payloads, queue of 1 | 537,654 |
| `requests` | Is what readers are told true? What do several sweeps of one job leave? | 2 handlers, 1 worker, 2 jobs, every kind of request | 2,539,968 |
| `progress` | Do jobs and requests end? | 2 handlers, 1 worker, 2 jobs, fairness | 104,808 |
| `summary` | Are tallies, ranking and rate right for every log? | up to 4 lines of 9 kinds | 160,708 |
| `benchrun` | What do claims, results and publication rest on? | two runs, every pair of declared controls from small sets (up to one warm-up and two measured rounds), one compared field of two values | about 1.0 million |
| `publication` | What do bundles and index hold after any failures? | 3 publications, 2 scenarios, the redaction part optional | 732,538 |
| `crosscheck` | What does a cross-check report say, and does the check end, while the service expires jobs, stops, crashes and starts again? Is every form judged as it should be? | 2 starts, 3 jobs, queue of 1, 1 worker, 7 pairs of corpora, forms of up to 3 parts | 574,628 |
| `release` | What ships, and when is it the revision named? | 2 runs, 2 changes to the repository, 5 paths, one of which may be a link | 914,253 |
| `queue_limit_doc`, `drift_doc`, `crosscheck_doc`, `span_doc` | Does the code do what a document or a comment says? | as above, smaller | violated |

**Why these bounds.** Every race of the service needs at most three handlers
(two submissions of one key and a sweep), two jobs (one per side of a conflict)
and a queue of one, which is full at once. A clock of two ticks and a retention
of one make jobs of both ages exist at the same time (several sweeps meet on one
job in `requests`; in `submissions` a finished job leaves identifiers for one
submission at a time, and with it one sweep), and a worker plus a full
queue makes capacity and limit differ; two workers share the queue in
`submissions`. Four lines give ties between three rows, a count of two in a tie, records out of
order, and equal or missing stamps. Two benchmark runs on one directory: what a
failed run leaves behind meets a later one. Three publications: a good one, a
bad one, and one that meets what both left. Two starts of the process: a check
that begins with one may end with the other. The three identifiers of
`crosscheck` fill worker and queue with one to spare; the row limit of two is
exceeded by a corpus of three rows, and sizes lie on both sides of the upload
limit and at it. Five paths of a repository: `.gitignore`, a path and an excluded
one, each also with a blank after it, and a link from the one to the other; two
changes are an edit, a removal or a link, and a commit. `publication` makes the
larger optional part (two files) optional and `crosscheck_doc` both; the code
treats them alike.

`TypeOK`, `NothingLeaks`, `OneLiveJobPerKey` and the rest are stated, with the
code behaviour each is about, in the modules.

`FormVerdict` depends on no state; it is evaluated in the one state before the
first start.

**Fairness.** `progress`: weak fairness for every handler and
worker: the Go scheduler runs each runnable goroutine eventually, and no step
but the acquisition of `idempotencyMu` can be disabled by another goroutine.
Strong fairness for that acquisition: `sync.Mutex` hands over to the oldest waiter once it
has waited for a millisecond. Nothing is assumed of clients, of the clock or of
the readiness probe. `crosscheck`: weak fairness for `main`'s steps, for the
shutdown goroutine, for the server's side of a request, for the check and for
its deadline, all of which are goroutines or timers of a running program.
Nothing is assumed of the operator, other clients, workers, retention,
the probe or crashes, so the check ends even if the job never does.

**Deadlock** is not checked in runs where the system rightly stops: identifiers
used up, the bounded number of runs, starts or publications over, an analysis or
a check finished.

### Disagreements the violation runs show

* `queue_limit_doc`: README.md calls `PARSERGO_QUEUE_LIMIT` the "Maximum concurrent analysis jobs";
  it is the channel's capacity, and the workers' jobs come on top.
* `drift_doc`: the methodology says a drifting tracked field makes a run
  unclaimable; only the first measured output of each side is compared.
* `crosscheck_doc`: a cross-check is called "same-run"; a bundle published again
  without a service URL keeps and publishes the one of an earlier run.
* `span_doc`: the rate is said to be over the timestamp span; it is over the
  first and the last record of the file.

## 4. Proofs

TLAPS proves the following for any finite or infinite sets of handlers,
identifiers, keys and payloads, any set of workers (a finite one for the ledger's
capacity), any limits above zero, any log, any request, any controls and numbers of rounds,
any scenarios and members, any paths and exclusions, and any number of runs,
publications, starts and changes. The assumptions are the named `ASSUME`s of the
modules: that marker values are none of the real values, that limits are positive
naturals (`NewHandler` replaces others), that `Outcome` is total on payloads,
that figures are natural numbers, that the benchmarked corpus could be analysed,
that the forms of a check are among the `Requests` that may arrive, that no path
occurs twice in the order of paths.

| Module | Theorem | Property |
| --- | --- | --- |
| `AnalysisService_proofs` | `TypeCorrect` | `TypeOK` |
| | `StaysConsistent` | `Consistent`, the inductive invariant |
| | `SummaryAvailable` | `SucceededHasSummary` |
| | `CleanedUp` | `NothingLeaks` |
| | `Idempotent` | `OneLiveJobPerKey` |
| | `Forward` | `LifecycleOrder` |
| | `RetentionKept` | `NoEarlyExpiry` |
| | `FoundUntilExpired` | `MissingOnlyIfExpired` |
| | `IndexIsFair` | `IndexOmitsOnlyExpired` |
| `AnalysisRefinement_proofs` | `NothingLost` | `NoJobLostOrDuplicated` |
| | `RepliesAreTrue` | `ReplySound` |
| | `ServiceImplementsLedger` | `ImplementsLedger` |
| | `BoundedJobs` | no run's: `JobsBounded`, what the queue limit does bound |
| `LogSummary_proofs` | `AnalysisTypes`, `LogAccountedFor`, `FiniteRate` | `TypeOK`, `LogAccounted`, `RateIsFinite` |
| | `CanonicalRanking` | `RankingIsCanonical` |
| | `DeterministicSummary` | no run's: `SummaryIsDeterministic`, the summary is a function of the log |
| | `OnlyRateDependsOnOrder` | no run's: a permuted log has the same tallies and ranking |
| `SubmissionForm_proofs` | `VerdictIsExact` | no run's: loop and checks accept exactly the well-formed requests |
| `BenchRun_proofs` | `RunTypes`, `ClaimsAreEarned`, `RoundsAreBalanced` | `TypeOK`, `ClaimsEarned`, `BalancedRounds` |
| | `ResultsStandForWholeRun`, `OneRunPerDirectory`, `PublicationNeedsParity` | `ResultsAreComplete`, `ResultsOfOneRun`, `PublishedWithParity` |
| `EvidencePublication_proofs` | `PublicationTypes`, `PublishedBundleIsCurrent` | `TypeOK`, `PublishedIsCurrent` |
| | `IndexNamesLastSuccess`, `RejectionsAreExplained` | `IndexTracksPublished`, `RejectionExplained` |
| `CrossCheck_proofs` | `CheckIsTyped`, `VerdictsAreExact` | `TypeOK`, `FormVerdict` |
| | `ReadinessFollowsHealthz`, `ReportsAreOfOneJob` | `JobsOnlyAfterHealthz`, `ReportIsOfOneJob` |
| | `MatchesAreExact`, `LostMeansGone` | `MatchExact`, `LostOnlyIfGone` |
| `ReleaseCandidate_proofs` | `CandidateTypes`, `ExcludedStaysOut`, `ManifestVouches` | `TypeOK`, `NothingExcludedShips`, `ManifestMeansComplete` |
| | `OwnGitignoreStays`, `CandidateIsRevision` | `GitignoreIsPublic`, `RevisionTold` |

**The argument for the service.** None of the properties is inductive: the
tables are consistent only *up to* what some goroutine is about to do. The
invariant says what that is, by where each goroutine stands:

* `MutexHeld`, `HandlerLocals`, `WorkerLocals`: who holds the mutex and which
  locals are set where they are used;
* `JobOwnership`: until it is enqueued a job belongs to one handler, and no
  sweep, index or worker knows it;
* `StoredState`, `QueueState`: an unfinished accepted job is in one queue slot or
  with one worker, and has a workspace;
* `Snapshots`: an entry of an old snapshot describes a job that has the same
  state or has expired since, with the same error and the same time; this is why stale sweeps do
  no harm;
* `Records`: the idempotency table has every live keyed job, or the holder of
  the mutex is about to add it;
* `LateRecord`: if the job of a record that is about to be written has already
  expired, the sweep that expired it is still on its way to the mutex and will
  remove the record. This is the case a test would hardly reach.

`ConsistentStep` is proved part by part, each over the actions that can disturb
it; `Writers`, `Stays` and `Frame` say once which actions touch which table.
`OneLiveJobPerKey` then follows from `Records` (two live jobs of one key would
be the same record, or both be held by the one holder of the mutex), the action properties from
`Snapshots` and `QueueState`. For `IndexOmitsOnlyExpired`, `Collecting` adds that only a
handler that is collecting the index's list has jobs left to collect.

**The argument for the ledger.** `Accountable` adds to `Consistent` what it does
not say: an unfinished job *is* somewhere (`Held`; `QueueState` says it is
nowhere else), summaries and failure codes are those of the job's submission
(`Produced`), and an answer is about an accepted job and stays true until it is
written (`Told`). Only `Enqueue`, `Start`, `Succeed`, `Fail` and `ExpireJob`
change the mapped state, and each is a step of the ledger; every other step is a
stutter. The one hard guard is the ledger's capacity: at `Enqueue` the jobs in
progress inject into queue slots and workers (`PlacesInFlight`), so a queue with
room leaves the ledger room (`LedgerHasRoom`). The same injection gives
`BoundedJobs`: the README's "maximum concurrent analysis jobs" is violated
(`queue_limit_doc`), and `QueueLimit` plus the number of workers is the bound
that holds.

**The argument for the engine.** The invariant has an enumeration of the lines
that the records are: strictly increasing, and onto the valid lines read so far
(`RecordsTraced`; `EnumerationStep` extends it by the next line). With it the
rate above zero is the difference of the stamps of two lines, made positive by
`Compute`'s guard, and counting records is counting lines, because the
enumeration restricted to a key is a bijection (`CountsOfTheLog`). For the
ranking, `RankInv` says that visited and unvisited rows are together the counts
map, none twice, whatever the order of the visit. Rows of the map differ in path
or method, on which the comparison is total (`CountsComparable`), so the stable
sort never meets a tie, permutes the rows and orders them strictly
(`StableSort`). That this leaves one result needs no induction: in a strictly
ordered sequence the place of an element is one more than the number of elements
before it (`Position`), so set and order determine the sequence (`RunIsInOrder`).
Applied to the lines and to the rows this gives `DeterministicSummary`, in which
neither the order of the visit nor the caller occurs. Once the summary is
an expression over the log, permuting the lines is a bijection between the lines
counted before and after (`SamePart`), so tallies and ranking do not change
(`OnlyRateDependsOnOrder`). The rate does: it is that of the first and the last
record, the disagreement `span_doc` shows.

**The argument for a form.** The loop is a fold, and what it returns for a form
of any length is shown from a least counterexample: the fold is unfolded into its
turns (`LoopTurns`), a nonempty set of naturals has a least element (`Least`,
from the well-foundedness of strict inclusion of finite sets), so if some prefix
read otherwise than `LoopReads` says there would be a first, and the turn before
it rules that out. `MultipartVerdict` adds the checks after the loop.

**The argument for a benchmark run.** `Discipline` ties metrics and schedule to
the round and position the loop is at, `Progress` says what has succeeded by
then, `Kept` that every measured iteration has left its output and that the one
kept for the comparison is the first of them, `Directory` whose files may be there at each point, `Written` how many of
this run. Balance is a counting argument (`Followed`): of two sets of rounds in
which each member of one is followed by one of the other, neither is larger by
more than one.

**The argument for a publication.** A bundle is judged by what is in the
directory, some of it from earlier runs. `Progress` says which members are this
run's by now; `Verdict`, that a passed validation still describes the directory
while it is published: nothing missing, nothing marked. A success therefore
leaves neither, which is why it ends whatever a failed run before it left:
`NoLeftovers` says that in the directory of a scenario without a failure since,
a marker or a missing member is this run's, and `MarksAreLater` that every
marked file is later than the last success.
For the index, `Later` orders the run under way after every success, so whatever
a publication writes is newer than the entry it may spoil, and `Standing` says of
every directory that it holds the published bundle or something newer: an entry
is untrue only after a later run of its own scenario, never for anything that
happens to others (`EntriesVouch`).

**The argument for the cross-check.** `Service` says what a job of the ledger
can be, `Follows` what the check knows of its job at each place, `Answers` what
an answer on its way says, `Fails` what an error says. A job only moves onward
(`Onward`), also when its process ends, so an answer that was true stays true
enough. That the form of the corpus is accepted with its own input or
refused is `VerdictIsExact`.

**The argument for a release candidate.** `Kosher` adds the list of included
paths to the places without excluded ones. `Staged` relates tree, archive,
listing and manifest to the step the tool is at: what the archive has by then
(`ArchiveHas`), and that what is cut short is known to be (`LossKnown`).
`Untouched` says what is still true of a repository nobody has touched: index,
HEAD and working tree agree until the last copy, and from there on the tree has
the files of the revision (`IsTold`, through a link where there is one), cut
short only where something was lost; the revision's files never change. `FilterKeeps` shows by counting that the filtered list has every
path it should.

**Only model-checked:** liveness (`AcceptedJobsFinish`, `RequestsAnswered`,
`SignalStops`, `CheckEnds`), which is out of the prover's reach. Every invariant
and every other action property that a run checks is a theorem.

## 5. Not modelled, and why

* HTML, CSS, chart layout, error wording, JSON formatting: no property is about them.
* The bytes of a multipart body: a form is its list of parts.
* The regular expression and the time layout of the engine, percentages, sizes.
* Cancellation of an analysis: every caller passes a background context.
* Parsing of environment variables and flags, and the `impl` commands of
  `cmd/bench`.
* Placeholder expansion, timings, host snapshots and page-cache calls of the
  benchmark; they enter as outcomes.
* A client's own request timeout, and the requests of other clients beyond their
  submissions, in `CrossCheck`.
* Equal job identifiers.
* Overlapping benchmark runs and overlapping publishers.
* `internal/server`: a placeholder that nothing uses.

## 6. Plan

Done, in this order: the service with its ledger and its liveness; the benchmark
run; publication; engine and summary; validation, process and cross-check,
composed; the release candidate; the proofs of section 4.

Left:

1. Overlapping publishers in `EvidencePublication` (index entries lost between
   reading and writing) and overlapping runs in `BenchRun` (two that pass `Stat`
   before either creates the directory). The results about one run at a time
   become conditional on a lock that the code does not have.
2. Job identifiers: two readings of the clock, and what an equal identifier does
   to `Create`, the workspace and the queue.
