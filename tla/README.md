# A verification project for yk-helm-update-checker

TLA+ modules that model the update checker, TLC runs that check them on small
instances, and theorems about them that TLAPS checks for every value of the
constants. Paths such as `internal/scan/service.go` are relative to the
repository; the definition-by-definition correspondence, with line ranges, is in
`PROJECT.json` (`map`).

Run a check with `tlc -config ServiceSafety.cfg MCScanService.tla`, a proof with
`tlapm ScanServiceProofs.tla`.

## The system

One binary, two subcommands. `serve` is an HTTP server that holds the latest
results in memory; `scan` is a one-shot scanner that runs as a CronJob's pod and
posts its results to a `serve`. Both scan the same way: clone repositories, find
chart references, ask registries for newer versions.

| Component | State | Operations | Talks to |
|---|---|---|---|
| scan service (`internal/scan/service.go`, `repository.go`, `handler.go`) | `scanning`, `lastErr`, `trig` under a mutex; `meter` under none; the repository's results and time under a RWMutex | `RunScan`, `StoreResults`, `GetStatus`, `GetResults`, `Trigger` | called by scheduler, triggers and handlers; calls the runner, the repository, the meter |
| process wiring (`cmd/update-checker/main.go`, `internal/api/server.go`) | signal context, one registry cache for the process | start scheduler, set meter, serve, drain for 30 s, exit; the `scan` subcommand's report | everything |
| scheduler (`internal/scheduler`) | a ticker | scan at once, then on each tick; stop with the context | `RunScan` |
| triggers (`internal/trigger`) | none in process (inline); Jobs in the API server (kubernetes) | `Trigger`, `Running`, `Available` | `RunScan` in a goroutine, or Get/List/Create calls |
| scan runner (`internal/scan/runner.go`) | results and errors of one run, two kinds of bounded goroutine pools, a working directory | `Run`, `scanDir`, `runConcurrent`, git sync | git, extractors, registry |
| registry cache (`internal/registry/registry.go`) | memo of index files and tag lists with their time, singleflight groups, a semaphore of two downloads | `getIndex`, `getTags`, `getOrDo`, `fresh` | HTTP and OCI registries |
| version resolution (`registry.go`, `runner.go`) | none | `resolveCurrent`, `latestFromTags`, `isNewer`, `classifyScope` | semver library |
| operational metrics (`internal/metrics/gauge.go`) | scan counter by status, last times | `Record` | the service's meter callback |
| git syncs (`runner.go`, `syncRepo` to `fetchRepo`) | one clone per repository, in a temporary directory or kept in `git_cache_dir` | stat, clone, set-url, fetch, reset | git |
| scan subcommand (`main.go`, `runScan`, `postResults`) | a signal context | run, report, exit with a status | a `serve`; Kubernetes, which retries its Job |
| extractors (`internal/extractor`) | the Flux sources of a repository, collected in a first pass | `PrepareFile`, `Match`, `Extract` | files |
| metrics collector (`internal/metrics/collector.go`, `handler.go`) | none | `Collect` | the repository, Prometheus' registry |
| dashboard (`internal/dashboard`) | in the page: timer, chip, button, table, time | load, poll, trigger | status, results and trigger handlers |
| configuration (`internal/config`) | none | `Load`, `SafeName` | read once by either subcommand |
| middleware, version, Helm chart | none | log, recover, render | |

What is hard:

- **Interleaving.** Scheduler, triggered goroutines and posts of scanner Jobs
  meet in the service; each step between two locks can be interleaved with any
  other. `GetStatus` reads flags and results in two critical sections, `RunScan`
  writes them in two.
- **Many early returns that must clean up.** `RunScan`'s flag, the runner's
  semaphores and WaitGroups, the cache's download tokens.
- **Silent truncation.** Both pools of the runner skip items once the context is
  done; only a check after the pool tells a truncated run from a complete one.
- **Check then act over a network.** `Kubernetes.Trigger` makes three API calls;
  names have the resolution of a second and answers can be lost.
- **Cached outcomes.** Errors are remembered, cancellations and timeouts are not,
  entries expire, and the same cache serves all scans of a process.
- **Retries around a one-shot process.** A scanner pod exits non-zero after a partial
  failure, a lost answer or a signal, and Kubernetes starts another; posts of pods
  that are gone may still arrive.
- **Directories that outlive processes.** A kept clone was made by another process,
  perhaps of another configuration, perhaps killed at any command.
- **Order of files.** Flux sources may be declared after, beside or in another file
  than the release that needs them, and files may be malformed or unreadable.
- **A page that polls by the clock**, whether or not the last poll was answered.
- **A report in three fields** (`LatestVersion`, `UpdateAvailable`, `Scope`)
  computed apart, from texts that need not be versions, which different consumers
  read.

`PROJECT.json` lists these as `hazards`, each at its line, with the properties
that cover it or the reason why none does.

## Modules

| Module | Models | Composes with |
|---|---|---|
| `ScanBoard` | what readers are promised: one scan at a time, each publishing once and never nothing, or giving up without a trace | abstract specification of `ScanService` |
| `ScanService` | service, repository, handlers, scheduler, inline trigger, meter, start and shutdown | implements `ScanBoard`; `Runner.Run` is one of `RunFails`, `RunEnds` |
| `SharedLookups` | what callers of the cache are promised, without clock, semaphore or leaders: one call for a key at a time, which asks only for what is not known and tells all who share it the same | abstract specification of `IndexCache` |
| `IndexCache` | the cache as the runner's goroutines use it, over several scans | implements `SharedLookups` |
| `ScanRun` | what a caller of `Runner.Run` is promised, without pools: every repository settles once, then one answer for good | abstract specification of `ScanRunner`; its answers are the `RunFails`, `RunEnds` of `ScanService` and of `Delivery` |
| `ScanRunner` | one `Runner.Run`: nested pools, cancellation, sync failures, the answer and the clean-up | implements `ScanRun`; a look-up is one of `SharedLookups` |
| `KubeTrigger` | `Trigger` and `Running` of concurrent requests against the API server and its controllers | `scheduled`, Jobs: the scanners that post to `ScanService` |
| `VersionCheck` | one chart reference over its life: tags come and go, scans report, its owner takes updates | a `Lookup` of `ScanRunner` |
| `Delivery` | the scan subcommand as a Job's pods, the network, and a `serve` that crashes | the Jobs of `KubeTrigger`; `Handle` is `ScanService`'s `Receive`, `MeterPost`, `SavePost` in one |
| `GitSync` | the clones of the configured repositories over several runs and processes | the `sync`/`git` steps of `ScanRunner` |
| `FluxExtraction` | the three passes of `scanDir` over documents, and the scrape of what they found | where `ScanRunner`'s references come from; `Check` stands for its look-ups |
| `Dashboard` | the page and the requests it has in flight | of the service it sees what `ScanBoard` promises |
| `MC...` | symmetry and concrete data for TLC | extend the module they name |
| `...Proofs` | theorems | extend the module they name |

### ScanService

One action per step that a mutex or channel makes atomic. A goroutine that calls
`RunScan` walks `enter -> run -> setErr -> stamp -> save -> meter -> clear`, or
`run -> failErr -> failMeter -> clear`; `Clear` is the deferred function. `Skip` is
the early return on a set flag. `Stamp` is apart from `SaveRun` because
`time.Now()` is evaluated before `Save` takes its lock. `Receive`, `MeterPost` and
`SavePost` are `StoreResults`, which meters first; `ReadFlags` and `Load` are
`GetStatus`'s two critical sections. `StartScheduler` comes before `WireMeter`, as
in `runServe`. `Exit` may happen while scans are in flight, as nothing waits for
them.

Abstractions: a batch of results is the set of repositories it covers; `lastErr` is
none, partial or failed; `time.Now()` is strictly increasing, a post's time is the
sender's and may lie anywhere in the past; a post carries a non-empty batch, or
nothing under `failure`, which is all the repository's own `scan` subcommand sends.
The meter's nil test and call are one read: the field is set once and never unset.
Status answers are those of the inline trigger, whose `Running` is always false.

### IndexCache

Each worker walks `getOrDo`: `Hit`, or `Miss -> Lead/Join -> recheck -> (acquire) ->
fetch -> memo -> done`. `Finish` ends the singleflight call and answers all who
joined. Fetches end in a document, a registry's error, the client's timeout (index
files only: the OCI listing has no timeout) or cancellation. `Memoizable` is the
`errors.Is` test, under which the client's timeout counts as
`context.DeadlineExceeded`. Registries are model values, contents are the kind of
outcome and the number of the scan that fetched it. `singleflight` is external,
modelled from its use.

### ScanRunner

Pool 0 is `Run`'s pool, pool r the one of repository r's `scanDir`. `Offer`,
`LastItem`, `Launch`, `Release`, `Done` and `Wait` are `runConcurrent`'s statements;
the context is looked at before an item and not while its token is awaited. git may
fail at any time, the walk finds up to `MaxRefs` references, and a look-up gives a
version, an error or, after cancellation, the context's error. `Conclude` is the
final switch of `Run`, `CleanUp` the deferred `RemoveAll`. Files, credentials and
clones' contents are left out.

### KubeTrigger

`GetCronJob`, `ListManual`, `CreateMade`/`CreateRefused` are the three API calls of
`Trigger`, `RunningGet` and `RunningList` those of `Running`; each may fail, and a
Create may succeed although its answer is lost. A manual Job is named by the second
of its creation. The controllers are external: Jobs finish and expire, the CronJob
starts one at a time (`concurrencyPolicy: Forbid`) and its status follows late.
Assumed: the clock does not go back, and a Job takes longer than the second it was
made in. `seen` is a history variable: what was active during a call.

### VersionCheck

The semver library is three constants: `Parsed` (what a text is read as), `Allows`
(what a text accepts as a constraint) and `NotSemver`, with the order `Exceeds`.
`resolveCurrent`, `latestFromTags`, `isNewer` and `classifyScope` are operators.
Where the sort leaves the order of equal versions open (`1.0.1`, `v1.0.1`), the
operator gives the set of possible answers. Pre-release identifiers are a flag.

### Delivery

A Job goes `waiting -> active -> complete/failed`; its pod walks `run -> report ->
reporting` or `run -> post -> posting` and ends with an exit status. `Send` puts the
request on the network (`net`), `Handle` is the handler, `Answer` puts the answer on
its way, `ReceiveAnswer` and `NoAnswer` (client timeout, broken connection, signal)
end the wait. `NotSent` is `Do` with a context that is already done: after a signal
neither results nor a failure report are sent. Requests may be handled after their
sender gave up, and requests and answers may be lost. `Crash` empties the store.
`Refuse` stands for a body over 4 MB and whatever else the decoder rejects.
Assumed: pods of one Job do not overlap (for a pod that is being deleted the cluster
only keeps to this under `podReplacementPolicy: Failed`, which the chart does not set;
see the end), and the clock of the scanners is one and goes forward.

### FluxExtraction

A repository is the sequence of the YAML documents of its files, in the order of the
walk, and reading one is a step of `Prepare` or `Extract`. A document has the fields
the code reads and `defect`: what in it breaks, the decoding of pass 1, of pass 2, as
a `Chart.yaml` (all type mismatches), or the syntax, which ends its file. `Shut` is
the decoding loop of a file that is over, or never began because the file could not
be read or lacks the words that `PrepareFile` and `Match` look for. `sources` are the
maps `helm` and `oci`, `RefsFromRelease` the three patterns in the code's order.
`Own` is `newExtractors()`, called once per repository. What URLs are split into is
part of the data. `Check` makes one result of each reference, `Scrape` answers one
GET of `/metrics`.

### GitSync

`disk` holds the clones of the kept directory and of a run's own; a clone is what
later commands depend on: whether there is a `.git`, `origin`, the branch of its
refspec, `FETCH_HEAD`, the commits its files are of, and lock files left behind.
`Sync` is the stat of `.git`; `CloneRepo`, `SetURL`, `Fetch` and `Reset` are one git
command each. `Stop` ends the process, and with it every git command, at any point;
`Partial` lists what each may leave, as observed of git 2.39. Between processes the
configuration may change (`Boot`), accepted as `Load` accepts it. Upstream, a branch
gets commits, becomes the default and may be deleted. One process at a time uses the
directory, and no file in it is changed by anybody else.

A directory is the path to it from the one `workDir` is in. `Dest` is
`filepath.Join(workDir, SafeName(name))`, and `Join` cleans: `SafeName` keeps dots, so
that the name `.` stands for `workDir` and `..` for the directory above (`Around`).
Neither may be left to the properties of a sync that has its directory to itself
(`Apart`), so they have actions of their own: `Refuse`, as git clones into no directory
that has something in it; `Nest`, when `workDir` is still empty; and from then on
(`nested`) `SyncNested`, which leaves open what becomes of a sync inside another clone,
and `Reads`, which then says `Others`. `ScanPath` joins `Path` as it is, and `Reads` is
whatever the directory holds that it leads to: the repository's own clone, another's at
that moment, or files of no clone. Assumed: the directory that `workDir` is in holds
something and is not a clone itself.

### Dashboard

One action per stretch of the script between two awaits: `FirstAnswered` is
`checkStatus` after its answer, `PollAnswered` the interval's callback after its, and so
on; `Tick` is the interval firing, `Serve` the handlers. Answers come in any order, and
any request may fail. A status request reads the flag, then the repository, and if the
flag is down asks the Kubernetes trigger last, so that the two may be read in either
order. The service is `scanning` and the number of the batch on show.

## Runs

All bounds are on who is there, never on what they do: the constants named `Max...`
cap ticks, lookups, scans, seconds, references, crashes, requests and failures.

| Run | Instance | Shows |
|---|---|---|
| `service_safety` | 2 repositories, scheduler, 2 triggers, 1 post; 1.3 million states | `ServiceInv`, the invariant of the proofs; `ScanningFlagExact`: one scan, flag exact; `ResultsNeverWiped`; `SuccessesAreSaves`: counter against store, with what is between the two; `ImplementsBoard` |
| `service_in_process` | scheduler with one more tick, 1 trigger, 1 status reader, no posts; fairness | `PartialNeverLooksClean`: the banner describes the results beside it between scans; `IdleStatusIsCurrent`; `LatestResultsKept`; `TriggeredScanHappens` |
| `cache_safety` | 3 workers, 2 indexes and 1 tag list, 1 slot, TTL 1, two ticks, timeouts, cancellation | `CacheInv`, with calls led and joined exactly (`FlightExact`) and the semaphore exact; `ImplementsLookups`: to its callers the cache is `SharedLookups`, so that in particular nothing known is asked for again |
| `cache_once` | 2 workers, the same keys, TTL 2, two ticks, two scans, no client timeout; fairness | `FetchedOnce`: a registry, broken or not, is asked once per TTL; `IndexLookupsEnd` |
| `runner_safety` | 3 repositories, a reference each, limit 2, temporary directory; fairness | `RunnerInv`, with tokens and WaitGroups exact; `CompleteOrError`; `NothingOutlivesRun`; `ImplementsRun`: to its caller it is `ScanRun`; `RunReturns`: nested pools do not wait for each other |
| `kube_safety` | 2 requests, seconds 0 to 2, TTL 1 | `KubeInv`, `RefusalsAreTruthful`, `OverlapBounded`, `RunningSeesSteadyJobs` |
| `version_safety` | nine texts: two spellings of one version, a pre-release, a range, a text that is both version and range, and one that is neither | `CheckInv`, `ReportsAgree`, `UpdatesSettle`, `NeverLeavesLine` |
| `delivery_safety` | a scheduled Job with one retry and a manual one, one crash; fairness | `DeliveryInv`; `CompleteIsDelivered`; `AckedIsOnShow`; `OlderOnlyIfGivenUp`; `JobEnds` |
| `flux_safety` | every walk of up to 2 documents of 14 kinds and of 3 of 6 kinds, in any files, some unreadable, beside a second repository | `FluxInv`, `SourcesAreLast`, `RefsExact` |
| `git_sync` | 7 configurations of one or two repositories that trade URLs, kept or not, with paths inside, into the sibling's clone and out of all; one named `.`, one `..`, one with colliding names and an empty one; one stop, one failure, one change upstream; fairness | `GitInv`, `ScannedIsUpstream`, `SyncsUnlessBroken` |
| `dashboard` | 3 requests in flight, 2 scans, 1 batch, 1 failure; fairness | `PageInv`, the invariant of the proofs; `TableMatchesLastScan`; `ChipSettles` |

Why the bounds are enough. Two triggers and the scheduler make three callers of
`RunScan`: one holds, one skips, one comes later. Two repositories tell complete,
partial and empty. One slot and two indexes make the download semaphore contended,
three workers allow a leader, a joiner and a leader of another key; TTL 1 within two
ticks lets an entry expire, be fetched and expire again; TTL 2 within two ticks has the
two sides of the boundary, a tick too early and the tick on which a second request is
right, and both scans on either side. Three
repositories queue for two tokens while two of them run pools of their own; a pool is
the same code at either level. Two requests overlap in every
order of their three calls; in three seconds a Job is made, finishes and expires, so
that a name is used twice. Two Jobs, one of them with two pods, give a retry, an
overlap with another Job and a late post of a pod that is gone; more of either only
repeats these. Three documents give a source, its redeclaration and the release, or
something malformed between them, in one to three files. One stop, one failure and one
change upstream reach every state a clone can be left in and the runs after it;
trading URLs between two names is what a kept directory can be confused by. A
directory around all others needs no second of its kind: it is there before them or
finds them there. Three
requests make a poll late behind another one and a load behind both. Where a bound might still hide something, the theorems
do without it.

### Where the code and its documents part

`flux_series_doc`: `docs/architecture.md:73` (and `CHANGELOG.md:16`) promise one time
series per outdated dependency. A result has no namespace and results are not
deduplicated, so that two outdated releases of one name, chart and version, in two
namespaces or two clusters' directories of one repository, have equal labels; the
registry then refuses the whole gathering, and `promhttp` with empty `HandlerOpts`
answers 500 without any metric (`internal/metrics/collector.go:50`). The run shows two
such documents and the failing scrape.

Met while modelling, true of the models, and without a run of their own:

- `internal/config/config.go:49` (and `docs/architecture.md:65`, `CHANGELOG.md:12`,
  `examples/config.example.yaml:23`): a TTL of `"0"` forces a fresh fetch on every scan.
  `fresh` never expires an entry then, and `serve` keeps one cache, so that later scans
  are answered from the first one's fetches. `ZeroNeverExpires` proves it: without
  client timeouts a key is fetched once in the life of such a cache, over all scans.
  No run has a TTL of 0, and `FetchedOnce` says nothing of it;
- `internal/config/config.go:76`: a collision would make two repositories clone into the
  same path, and `Load` refuses it. It compares names and not the directories they are
  joined to, so that `.` and `..` pass. The clone of `..` is refused at every run. So is
  that of `.`, unless it comes first: then the others' clones lie inside it, and it scans
  their files with its own (`Nest`). `DirsApart` and the liveness of syncs leave the two
  names out;
- `internal/scan/runner.go:82`: `path` is joined without a check. A path that begins with
  `..` leads out of the clone, `../b` into the one of repository `b`, whose files are
  then scanned and reported under the wrong name, whole or half checked out
  (`ScannedIsUpstream` speaks of paths that stay inside);
- `registry.go:61`: errors are stored so that a broken registry is not fetched again for
  every dependency. The HTTP client's timeout passes for `context.DeadlineExceeded` and
  is not stored: each dependency waits for it again (`FetchedOnce` is checked and proved
  without timeouts);
- `examples/config.example.yaml:12`: `parallel_checks` is the maximum of concurrent
  lookups per scan. Each repository has a pool of that size of its own;
- `CHANGELOG.md:23`: a partially failed scan no longer looks like "all up to date".
  `StoreResults` never sets `lastErr`: a posted partial batch has no banner
  (`PartialNeverLooksClean` is checked without posts);
- `docs/local-testing.md:49`: the UI polls. An idle page does not, so that a scan of the
  scheduler or of a CronJob shows only after a reload or a click;
- a poll answered late clears the timer of a newer scan: the page then shows "Ready" and
  polls no more while that scan runs. An early load answered late replaces newer
  results by older ones (`overtaken`);
- a kept clone that was killed at the wrong moment (no remote, a lock file), or whose
  branch is gone upstream, fails in every later run: nothing removes it (`Broken`). A
  kept clone stays on the branch that was the default when it was made;
- after a signal a scanner pod cannot report: its context is done (`NotSent`);
- a Job whose results exceed 4 MB is refused at every retry;
- the inline trigger never returns `ErrAlreadyRunning`: a second request is
  accepted and its goroutine skips;
- the scheduler's first scan may end before `SetMeter` (the variable `missed`), and
  the field is written without the mutex;
- posts may replace results by older ones: no times are compared
  (`LatestResultsKept` holds in process only, `OlderOnlyIfGivenUp` per Job);
- a status answer may pair flags from before a scan with the results after it; so
  `IdleStatusIsCurrent` speaks of the results alone;
- `Kubernetes.Trigger` can create a Job although another became active after its
  checks; `OverlapBounded` is what remains;
- a short version such as `1` is read as `1.0.0` before it is tried as a range, so an
  update can be reported that the range already allows.

### Fairness

- Go schedules every goroutine that can run: weak fairness of each goroutine's
  steps. An HTTP client may go away at any time; a handler that began still ends.
- `Runner.Run` returns. This is an assumption: git and the OCI listing have no
  timeout, and one that hangs keeps the service scanning.
- `Server.Shutdown` is bounded by its timeout: weak fairness of `Exit` while
  draining. Nothing makes a signal come.
- Senders blocked on a channel are served in order: strong fairness of `Acquire` in
  `IndexCache`. In `ScanRunner` each semaphore has one sender, its pool's caller, so
  weak fairness is enough.
- Index fetches end (the client's timeout); tag lists need not, and
  `IndexLookupsEnd` holds all the same.
- `Delivery`: a pod's process runs, `Runner.Run` returns, waiting for an answer is
  bounded by `scanClient`'s timeout, and the controller replaces the pods of an active
  Job. Neither network nor server need do anything, and nothing stops crashes.
- `GitSync`: runs come again and a process that ended is started again; git commands
  end (an assumption, as above), so that while a sync can go on one does: a sync has few
  steps in a run, which makes one weak fairness condition enough for all of them. Failures of the network are not fair, and bounded.
- `Dashboard`: a scan ends, the interval fires, and the eldest request is answered or
  fails, so that no request is pending for ever.
- Posts, triggers, ticks, status requests, cancellation and everything the cluster,
  a registry or a manifest's owner does are not fair: none of them need happen.

## Theorems

Each is proved for all values of the constants, under the named `ASSUME`s of its
module: finite, distinct sets and natural numbers, as the code has them.

- **ScanServiceProofs.** `ServiceInv` adds to the flag's exactness where everybody
  may be before the scheduler starts, and that what is on its way to `Save` is a
  batch (`RunsInOrder`, `PostsInOrder`); without the latter "never wiped" is not
  inductive. From it follow `OneScanAtATime`, `NeverWiped` and, step by step with
  `Phase` and `store` as refinement mapping, `BoardImplemented`. With
  `Posts = {}`, `InProcessInv` says that while a batch is stamped or saved `lastErr`
  already describes it, and at other times describes the stored one;
  `BannerIsTruthful` and `NeverOlder` follow, and with `StatusInv` (neither what a
  finished scan saved nor what a reader must be shown is newer than the store)
  `IdleIsCurrent`. `CountedOnce` needs no strengthening but `ServiceInv`: with
  finitely many triggers and posts, each step moves the counters, the number of saves
  or the number of those between the two (`Uncounted`, `Unsaved`) in balance.
- **RegistryProofs**, of both parts of `internal/registry`. `CacheInv` ties each call in
  flight to its leader and joiners (`FlightExact`) and the semaphore to the fetches
  (`SlotsExact`, with the cardinality lemmas). It says that the key of a queuing leader
  stays unknown (`Queued`), which is what `FetchesAreNeeded` needs, and that what a leader
  brings to the memo is of this scan and cut short only by the context (`Brought`).
  `LookupsImplemented` is the refinement of `SharedLookups`: known is what is fresh, a
  call is what its leader has come to, and a worker that is not idle waits for its key.
  Queuing, joining and the end of a fetch are steps that callers cannot see; giving up
  in the queue counts as asking, and the answer is the context's error. `AskedOnce`
  (any TTL, no client timeout) uses `Remembering`, a fetch begun is in progress or
  remembered, with the time of it: as many TTLs have gone by as there were fetches before
  (`Spaced`). `ZeroNeverExpires` is the case of TTL 0. Of version resolution, `CheckInv`
  says what a reported version is founded on; `LineIsNeverLeft` adds that the declared version is then a climb from `origin`.
- **ScanRunnerProofs.** `RunnerInv` counts tokens and goroutines of every pool, keeps
  the pools' order (`InOrder`: an item is skipped only if the context is done), the
  places of the nested pools (`Nested`) and what each finished goroutine left in
  `found`, `results` and `repoErrs` (`Recorded`). `RunIsComplete`, `NothingOutlives`
  and `PoolsWithinLimit` follow. `RunImplemented` is the refinement of `ScanRun`, with
  `Outcome` as mapping: a repository has settled when its goroutine returns from the
  function. That no outcome changes afterwards, that a scanned repository has one
  finding for each reference unless the context is done, and that the answer is made of
  what was settled, all come from `RunnerInv`.
- **KubeTriggerProofs.** `KubeInv`: no name from the future, no Job that finished in
  the second of its name, so a name found taken was taken during the call
  (`TakenMeansBusy`); `RefusalsHaveReason` follows. `OverlapIsBounded` is
  inductive with `KubeInv`: a Create moves one request's share from `Creating` to
  `Unfinished`, and a request joins `Creating` only when `Unfinished` is empty.
  `RunningMissesNothing` strengthens the answer to what a `Running` call has found
  so far in the listing it is reading (`Steady`).
- **DeliveryProofs.** `DeliveryInv` says of every request on its way, and of what is
  stored, that its sender still waits for it or has given up (`Awaited`), and that it
  is older than what a later pod of the Job has (`Placed`); of every answer that it
  tells the truth (`Truthful`). `OlderOnlyAfterGivingUp` is a step property from it;
  `CompleteJobsDelivered` and `AckedStaysOnShow` are inductive with it.
- **FluxExtractionProofs.** `ClosedExact` ties the open decoding loop to what a pass
  gets to, from the documents alone (`Reached`). With it `SourcesAreLast` is inductive
  through pass 1, where `LastDeclared` moves by one document at a step, and stays in
  pass 2; `RefsExact` then says of each document passed that the look-up in the maps is
  the look-up in the repository (`Meant`).
- **GitSyncProofs.** First what `filepath.Join` makes of names: directories of different
  `SafeName`s differ, and but for two they are steps below `workDir` (`DirFacts`), so that
  none is in another (`DestsAreApart`) and a path leads into one of them at most
  (`OneHolds`). `SyncExact` says at each command of a sync what the commands before it
  have made of its directory, whatever that held; `CleanStart` that a directory without
  `.git` is empty, so that a clone succeeds or leaves it so. `ScansAreUpstream` follows,
  as `shown` only grows during a run and what is read inside a directory is its clone's
  tree (`ReadsOwn`).
- **DashboardProofs.** `PageInv`: the interval and the button follow the timer the page
  knows (`PollInv`); no batch is shown or on its way that the service has not saved
  (`NothingUnsaved`); and of the loads in flight the last one brings what the line "Last
  scan" tells of (`LoadsInOrder`). Without the latter two `TableMatchesLastScan` is not
  inductive: a load in flight might carry anything. Requests are a sequence that is cut
  in the middle, so the lemmas say first which elements are left by a cut and by a
  request more. `TableCatchesUp` and `PollsWhileScanning` follow.

Every invariant, every action property and every refinement that a run checks is stated
by a theorem. Only model-checked is liveness (`TriggeredScanHappens`, `IndexLookupsEnd`,
`RunReturns`, `JobEnds`, `SyncsUnlessBroken`, `ChipSettles`), which the provers cannot do
under fairness.

## Not modelled, and why

- Middleware, version, logging, flags, the Helm chart's templates: formatting or
  deployment data. `concurrencyPolicy: Forbid` and `restartPolicy: Never` are taken into
  `KubeTrigger` and `Delivery`.
- Of the configuration: defaults and durations. A positive `parallel_checks` is assumed
  in `ScanRunner`, a TTL that is not negative in `IndexCache`.
- Of the page: sorting, filters, wording, the error banner.
- Credentials, file contents beyond the fields above, HTTP details, log output.
- Two processes in one `git_cache_dir`: what git does when two commands meet in one
  clone is not in this repository and was not established.
- A second pod of a Job while the first is still terminating: `Delivery` has one pod of a
  Job at a time. The chart's CronJob does not set `podReplacementPolicy: Failed`, so that
  Kubernetes by its default may make the successor of a pod that is being deleted before
  that is gone. For that overlap `AckedIsOnShow` and `OlderOnlyIfGivenUp` are not claimed.
- A restart of `serve` between the two requests of a page (`Dashboard`): the table and
  the line beside it may then be of two processes until the next load.
- The crash of `serve` itself: everything is in memory, so a restart is `Init` of
  `ScanService`; what it means to the scanners is in `Delivery`.

## Plan

Done: `ScanBoard`, `ScanService`, `SharedLookups`, `IndexCache`, `ScanRun`, `ScanRunner`,
`KubeTrigger`, `VersionCheck`; `Delivery`, `GitSync`, `FluxExtraction`, `Dashboard`; their runs and the
theorems above. Left, in order of importance:

1. An abstract specification of what a Job's owner is promised of its results, and
   `Delivery` shown to implement it.
2. The error banner of the page, with `lastErr` in what `Dashboard` sees of the service.
