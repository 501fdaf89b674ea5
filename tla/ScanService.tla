---------------------------- MODULE ScanService ----------------------------
(***************************************************************************)
(* The scan service of the serve process: RunScan, StoreResults, GetStatus *)
(* and Trigger of internal/scan/service.go over the in-memory repository,  *)
(* called by the scheduler goroutine, by the goroutines the inline trigger *)
(* spawns and by HTTP handlers, while main wires the process, serves and   *)
(* shuts down.  Every step a mutex or a channel makes atomic is one        *)
(* action; what happens between two of them may interleave with anything.  *)
(*                                                                         *)
(* What Runner.Run does is the subject of ScanRunner; here it returns an   *)
(* error, or the set of repositories whose results it collected.  A batch  *)
(* of results is named by the repositories it accounts for.                *)
(***************************************************************************)
EXTENDS Naturals, FiniteSets

CONSTANTS
  Repos,       \* the configured repositories
  Triggers,    \* POST /api/scan/trigger requests, each with its goroutine
  Posts,       \* POST /api/scan/results requests of scanner Jobs
  Readers,     \* GET /api/status requests
  Sched,       \* the scheduler goroutine
  Scheduled,   \* serve was started with --interval > 0
  InCluster,   \* metrics.InCluster()
  MaxTicks     \* bound: ticks of the interval after the immediate scan

ASSUME GoroutinesDiffer == Sched \notin Triggers
ASSUME BoundIsNatural == MaxTicks \in Nat
ASSUME FlagsAreBoolean == Scheduled \in BOOLEAN /\ InCluster \in BOOLEAN

VARIABLES
  main,        \* how far runServe has come
  ctxDone,     \* the signal context is cancelled
  meter,       \* s.meter # nil
  scanning,    \* s.scanning
  lastErr,     \* s.lastErr: "none" (empty), "partial" or "failed"
  store,       \* the repository: [results, scannedAt], 0 for a nil time
  gauge,       \* update_checker_scan_total by status
  clock,       \* the last value time.Now() returned
  ticks,       \* ticks the scheduler took
  pc,          \* where each goroutine that calls RunScan is
  run,         \* RunScan's locals: the batch and the time it is stamped with
  post,        \* each results request: its handler's place and its payload
  stat,        \* each status request: its handler's place and its answer
  finished,    \* history: how many scans cleared the flag
  newest,      \* history: the stamp of the last scan that cleared the flag
  base,        \* history: finished when each trigger was accepted
  saved,       \* history: how many batches were saved
  missed       \* history: how many successes found no meter

mainVars   == <<main, ctxDone, meter>>
flagVars   == <<scanning, lastErr>>
meterVars  == <<gauge, missed>>
storeVars  == <<store, saved>>
callVars   == <<pc, run, ticks>>
scanHist   == <<finished, newest, base>>
vars == <<mainVars, flagVars, meterVars, storeVars, callVars, scanHist,
          clock, post, stat>>

Goroutines == Triggers \cup {Sched}

Batches == SUBSET Repos
Batch   == Batches \ {{}}

\* Where a goroutine is while it holds the scan: between taking s.scanning
\* and the deferred function that clears it.
InScan == {"run", "failErr", "failMeter", "setErr", "stamp", "save",
           "meter", "clear"}
Holders == {g \in Goroutines : pc[g] \in InScan}

NoRun  == [covered |-> {}, at |-> 0]
NoPost == [pc |-> "off", results |-> {}, at |-> 0, status |-> ""]
NoStat == [pc |-> "off", scanning |-> FALSE, lastErr |-> "none",
           results |-> {}, at |-> 0, floor |-> 0]

Messages == {"none", "partial", "failed"}

MainOK ==
  /\ main \in {"wired", "scheduled", "serving", "draining", "exited"}
  /\ ctxDone \in BOOLEAN
  /\ meter \in BOOLEAN

FlagsOK == scanning \in BOOLEAN /\ lastErr \in Messages

StoreOK == store \in [results : Batches, scannedAt : Nat]

CountsOK ==
  /\ gauge \in [success : Nat, failure : Nat]
  /\ clock \in Nat /\ ticks \in Nat
  /\ finished \in Nat /\ newest \in Nat /\ saved \in Nat /\ missed \in Nat
  /\ base \in [Triggers -> Nat]

CallsOK ==
  /\ pc \in [Goroutines -> InScan \cup {"off", "wait", "enter", "gone"}]
  /\ run \in [Goroutines -> [covered : Batches, at : Nat]]

PostsOK ==
  post \in [Posts -> [pc : {"off", "meter", "save", "done"}, results : Batches,
                      at : Nat, status : {"", "success", "failure"}]]

StatsOK ==
  stat \in [Readers -> [pc : {"off", "load", "done"}, scanning : BOOLEAN,
                        lastErr : Messages, results : Batches, at : Nat,
                        floor : Nat]]

TypeOK ==
  MainOK /\ FlagsOK /\ StoreOK /\ CountsOK /\ CallsOK /\ PostsOK /\ StatsOK

Init ==
  /\ main = "wired" /\ ctxDone = FALSE /\ meter = FALSE
  /\ scanning = FALSE /\ lastErr = "none"
  /\ store = [results |-> {}, scannedAt |-> 0]
  /\ gauge = [success |-> 0, failure |-> 0]
  /\ clock = 0 /\ ticks = 0
  /\ pc = [g \in Goroutines |-> "off"]
  /\ run = [g \in Goroutines |-> NoRun]
  /\ post = [p \in Posts |-> NoPost]
  /\ stat = [r \in Readers |-> NoStat]
  /\ finished = 0 /\ newest = 0 /\ saved = 0 /\ missed = 0
  /\ base = [t \in Triggers |-> 0]

Alive == main # "exited"
Serving == main \in {"serving", "draining"}  \* a handler may be running

Move(g, from, to) == Alive /\ pc[g] = from /\ pc' = [pc EXCEPT ![g] = to]

-----------------------------------------------------------------------------
(* runServe: the trigger is set before the scheduler starts, the meter only *)
(* after it, and the server runs last.                                      *)

StartScheduler ==
  /\ main = "wired"
  /\ main' = "scheduled"
  /\ pc' = IF Scheduled THEN [pc EXCEPT ![Sched] = "enter"] ELSE pc
  /\ UNCHANGED <<ctxDone, meter, run, ticks, flagVars, meterVars, storeVars,
                 scanHist, clock, post, stat>>

WireMeter ==
  /\ main = "scheduled"
  /\ main' = "serving"
  /\ meter' = InCluster
  /\ UNCHANGED <<ctxDone, flagVars, meterVars, storeVars, callVars, scanHist,
                 clock, post, stat>>

Interrupt ==
  /\ Alive /\ ~ctxDone
  /\ ctxDone' = TRUE
  /\ UNCHANGED <<main, meter, flagVars, meterVars, storeVars, callVars,
                 scanHist, clock, post, stat>>

ShutDown ==
  /\ main = "serving" /\ ctxDone
  /\ main' = "draining"
  /\ UNCHANGED <<ctxDone, meter, flagVars, meterVars, storeVars, callVars,
                 scanHist, clock, post, stat>>

\* Server.Run returns when the handlers are done or shutdownTimeout is over,
\* and at once when the listener fails.  Nobody waits for the goroutines: a
\* scan in flight ends where it is.
Exit ==
  /\ Serving
  /\ main' = "exited"
  /\ UNCHANGED <<ctxDone, meter, flagVars, meterVars, storeVars, callVars,
                 scanHist, clock, post, stat>>

\* The process is gone; nothing happens any more.
Exited == main = "exited" /\ UNCHANGED vars

-----------------------------------------------------------------------------
(* RunScan, called by the scheduler and by each triggered goroutine.        *)

\* The callback reads s.meter without the mutex; it is set once and is never
\* unset, so the nil test and the call read the same value.
Label(status) == IF status = "success" THEN "success" ELSE "failure"

Record(status) ==
  /\ gauge' = IF meter THEN [gauge EXCEPT ![Label(status)] = @ + 1] ELSE gauge
  /\ missed' = IF ~meter /\ status = "success" THEN missed + 1 ELSE missed

\* A wrong Save: the time is not brought up to date.
SaveUndated(results, at) ==
  /\ store' = [store EXCEPT !.results = results]
  /\ saved' = saved + 1

Save(results, at) ==
  /\ store' = [results |-> results, scannedAt |-> at]
  /\ saved' = saved + 1

MayStartAlways == TRUE  \* a wrong MayStart: the test of the flag is lost
MayStart == ~scanning

\* Where a caller goes when RunScan returns to it.
Return(g) == IF g = Sched THEN "wait" ELSE "gone"

Enter(g) ==
  /\ MayStart
  /\ Move(g, "enter", "run")
  /\ scanning' = TRUE
  /\ UNCHANGED <<lastErr, run, ticks, mainVars, meterVars, storeVars,
                 scanHist, clock, post, stat>>

Skip(g) ==
  /\ ~MayStart
  /\ Move(g, "enter", Return(g))
  /\ UNCHANGED <<run, ticks, mainVars, flagVars, meterVars, storeVars,
                 scanHist, clock, post, stat>>

\* A wrong RunFails: the error is not returned early.
RunFailsThrough(g) ==
  /\ Move(g, "run", "setErr")
  /\ UNCHANGED <<run, ticks, mainVars, flagVars, meterVars, storeVars,
                 scanHist, clock, post, stat>>

\* Runner.Run returns an error: cancelled, every repository failed, or no
\* workspace.
RunFails(g) ==
  /\ Move(g, "run", "failErr")
  /\ UNCHANGED <<run, ticks, mainVars, flagVars, meterVars, storeVars,
                 scanHist, clock, post, stat>>

\* Runner.Run returns results; the repositories it does not cover are in
\* repoErrs.
RunEnds(g) ==
  /\ ~ctxDone
  /\ Move(g, "run", "setErr")
  /\ \E covered \in Batch :
       run' = [run EXCEPT ![g] = [covered |-> covered, at |-> 0]]
  /\ UNCHANGED <<ticks, mainVars, flagVars, meterVars, storeVars, scanHist,
                 clock, post, stat>>

SetFailed(g) ==
  /\ Move(g, "failErr", "failMeter")
  /\ lastErr' = "failed"
  /\ UNCHANGED <<scanning, run, ticks, mainVars, meterVars, storeVars,
                 scanHist, clock, post, stat>>

\* A wrong MeterFailure: the error path returns without clearing the flag.
MeterFailureNoClear(g) ==
  /\ Move(g, "failMeter", Return(g))
  /\ Record("failure")
  /\ UNCHANGED <<run, ticks, mainVars, flagVars, storeVars, scanHist, clock,
                 post, stat>>

MeterFailure(g) ==
  /\ Move(g, "failMeter", "clear")
  /\ Record("failure")
  /\ UNCHANGED <<run, ticks, mainVars, flagVars, storeVars, scanHist, clock,
                 post, stat>>

OutcomeQuiet(covered) == "none"  \* a wrong Outcome: repoErrs is dropped
Outcome(covered) == IF covered = Repos THEN "none" ELSE "partial"

SetOutcome(g) ==
  /\ Move(g, "setErr", "stamp")
  /\ lastErr' = Outcome(run[g].covered)
  /\ UNCHANGED <<scanning, run, ticks, mainVars, meterVars, storeVars,
                 scanHist, clock, post, stat>>

\* time.Now() is evaluated before Save takes the repository's lock.
Stamp(g) ==
  /\ Move(g, "stamp", "save")
  /\ clock' = clock + 1
  /\ run' = [run EXCEPT ![g].at = clock + 1]
  /\ UNCHANGED <<ticks, mainVars, flagVars, meterVars, storeVars, scanHist,
                 post, stat>>

SaveRun(g) ==
  /\ Move(g, "save", "meter")
  /\ Save(run[g].covered, run[g].at)
  /\ UNCHANGED <<run, ticks, mainVars, flagVars, meterVars, scanHist, clock,
                 post, stat>>

MeterSuccess(g) ==
  /\ Move(g, "meter", "clear")
  /\ Record("success")
  /\ UNCHANGED <<run, ticks, mainVars, flagVars, storeVars, scanHist, clock,
                 post, stat>>

\* The deferred function: every path that took the flag clears it.
Clear(g) ==
  /\ Move(g, "clear", Return(g))
  /\ scanning' = FALSE
  /\ run' = [run EXCEPT ![g] = NoRun]
  /\ finished' = finished + 1
  /\ newest' = IF run[g].at # 0 THEN run[g].at ELSE newest
  /\ UNCHANGED <<lastErr, ticks, base, mainVars, meterVars, storeVars, clock,
                 post, stat>>

RunScan(g) ==
  \/ Enter(g) \/ Skip(g) \/ RunFails(g) \/ RunEnds(g) \/ SetFailed(g)
  \/ MeterFailure(g) \/ SetOutcome(g) \/ Stamp(g) \/ SaveRun(g)
  \/ MeterSuccess(g) \/ Clear(g)

-----------------------------------------------------------------------------
(* The scheduler's loop.  A tick and the cancellation may be ready at once, *)
(* and select then picks either.                                            *)

Tick ==
  /\ ticks < MaxTicks
  /\ Move(Sched, "wait", "enter")
  /\ ticks' = ticks + 1
  /\ UNCHANGED <<run, mainVars, flagVars, meterVars, storeVars, scanHist,
                 clock, post, stat>>

Stop ==
  /\ ctxDone
  /\ Move(Sched, "wait", "gone")
  /\ UNCHANGED <<run, ticks, mainVars, flagVars, meterVars, storeVars,
                 scanHist, clock, post, stat>>

-----------------------------------------------------------------------------
(* The HTTP handlers.                                                       *)

\* POST /api/scan/trigger with the inline trigger: the scan's goroutine is
\* spawned whatever the state of the service, and the answer is 202.
Accept(t) ==
  /\ Serving
  /\ Move(t, "off", "enter")
  /\ base' = [base EXCEPT ![t] = finished]
  /\ UNCHANGED <<run, ticks, mainVars, flagVars, meterVars, storeVars,
                 finished, newest, clock, post, stat>>

\* What a scanner Job sends: the batch of a run that scanned something, or
\* nothing under "failure".  Scanners that predate the field send no status.
\* The time is the sender's, or now when the request carries none.
Payloads ==
  [results : Batch, status : {"success", ""}]
    \cup [results : {{}}, status : {"failure"}]

Receive(p) ==
  /\ Serving
  /\ post[p].pc = "off"
  /\ \E body \in Payloads, at \in 1..(clock + 1) :
       /\ post' = [post EXCEPT ![p] = [pc |-> "meter", results |-> body.results,
                                       at |-> at, status |-> body.status]]
       /\ clock' = IF at > clock THEN at ELSE clock
  /\ UNCHANGED <<mainVars, flagVars, meterVars, storeVars, callVars, scanHist,
                 stat>>

StatusRaw(p) == post[p].status  \* a wrong Status: "" is not defaulted
Status(p) == IF post[p].status = "" THEN "success" ELSE post[p].status

\* StoreResults calls the meter first and returns early on a failure.
KeepsNever(p) == FALSE  \* a wrong Keeps: a failure is saved like a success
Keeps(p) == Status(p) = "failure"

MeterPost(p) ==
  /\ Alive
  /\ post[p].pc = "meter"
  /\ Record(Status(p))
  /\ post' = [post EXCEPT ![p].pc = IF Keeps(p) THEN "done" ELSE "save"]
  /\ UNCHANGED <<mainVars, flagVars, storeVars, callVars, scanHist, clock,
                 stat>>

SavePost(p) ==
  /\ Alive
  /\ post[p].pc = "save"
  /\ Save(post[p].results, post[p].at)
  /\ post' = [post EXCEPT ![p].pc = "done"]
  /\ UNCHANGED <<mainVars, flagVars, meterVars, callVars, scanHist, clock,
                 stat>>

\* GetStatus copies the flags under the mutex and loads the repository after
\* releasing it.
ReadFlags(r) ==
  /\ Serving
  /\ stat[r].pc = "off"
  /\ stat' = [stat EXCEPT ![r] = [NoStat EXCEPT !.pc = "load",
                !.scanning = scanning, !.lastErr = lastErr, !.floor = newest]]
  /\ UNCHANGED <<mainVars, flagVars, meterVars, storeVars, callVars, scanHist,
                 clock, post>>

Load(r) ==
  /\ Alive
  /\ stat[r].pc = "load"
  /\ stat' = [stat EXCEPT ![r].pc = "done", ![r].results = store.results,
                          ![r].at = store.scannedAt]
  /\ UNCHANGED <<mainVars, flagVars, meterVars, storeVars, callVars, scanHist,
                 clock, post>>

-----------------------------------------------------------------------------
Startup == StartScheduler \/ WireMeter

Handler(p) == MeterPost(p) \/ SavePost(p)

Next ==
  \/ Startup \/ Interrupt \/ ShutDown \/ Exit \/ Exited
  \/ \E g \in Goroutines : RunScan(g)
  \/ Tick \/ Stop
  \/ \E t \in Triggers : Accept(t)
  \/ \E p \in Posts : Receive(p) \/ Handler(p)
  \/ \E r \in Readers : ReadFlags(r) \/ Load(r)

Spec == Init /\ [][Next]_vars

\* Go schedules every goroutine that can run, Shutdown is bounded by its
\* timeout, and Runner.Run is taken to return (see the README).
Fairness ==
  /\ WF_vars(Startup)
  /\ WF_vars(main = "draining" /\ Exit)
  /\ WF_vars(ShutDown)
  /\ \A g \in Goroutines : WF_vars(RunScan(g))
  /\ \A p \in Posts : WF_vars(Handler(p))

FairSpec == Spec /\ Fairness

-----------------------------------------------------------------------------
(* Properties.                                                              *)

\* RunScan's flag is exact: at most one goroutine is inside a scan, and the
\* flag is set precisely while one is, so no path leaves it set or clears the
\* flag of somebody else's scan.
ScanningFlagExact ==
  /\ scanning <=> Holders # {}
  /\ \A g, h \in Holders : g = h

\* Once results were stored, no scan and no scanner Job, failed or cancelled
\* at any point, replaces them by nothing (service.go:86, service.go:126).
ResultsNeverWiped == [][store.results # {} => store'.results # {}]_store

\* Without scanner Jobs the error the dashboard shows between scans tells the
\* truth about the results beside it: no error means every repository is
\* accounted for, as CHANGELOG.md:23 has it (a "partially failed scan no longer
\* looks identical to 'all up to date'").  With scanner Jobs it does not hold:
\* StoreResults never sets the error.
PartialNeverLooksClean ==
  ~scanning /\ lastErr = "none" /\ store.scannedAt # 0
    => store.results = Repos

\* Without scanner Jobs the results on show never go back in time: the stamp is
\* taken before Save locks the repository, and only the flag keeps a second
\* scan from saving in between (service.go:102).
LatestResultsKept == [][store'.scannedAt >= store.scannedAt]_store

\* scan_total{status="success"} counts the batches that reached the store, and
\* nothing else, across both ways a scan is reported: what differs is only in
\* flight between Save and the meter (RunScan) or the meter and Save
\* (StoreResults), or found no meter yet.
SuccessesAreSaves ==
  gauge.success + missed + Cardinality({g \in Goroutines : pc[g] = "meter"})
    = saved + Cardinality({p \in Posts : post[p].pc = "save"})

\* GetStatus takes the flags before the results: an answer that shows no scan
\* in progress shows the results of every scan that had finished by then
\* (without scanner Jobs), which is what lets the poller stop.
IdleStatusIsCurrent ==
  \A r \in Readers :
    stat[r].pc = "done" /\ ~stat[r].scanning => stat[r].at >= stat[r].floor

\* The service keeps the promise of ScanBoard: readers see one scan at a time,
\* each publishing once and something, or giving up without a trace.
Publishing(g) == pc[g] = "meter" \/ (pc[g] = "clear" /\ run[g].at # 0)

Phase ==
  IF ~scanning THEN "idle"
  ELSE IF \E g \in Goroutines : Publishing(g) THEN "settled" ELSE "scanning"

Board == INSTANCE ScanBoard WITH phase <- Phase, board <- store

ImplementsBoard == Board!BoardSpec

\* A trigger answered 202 is followed by the end of some scan, its own or the
\* one that made it skip, unless the process ends first.
TriggeredScanHappens ==
  \A t \in Triggers :
    pc[t] = "enter" ~> finished > base[t] \/ main = "exited"

-----------------------------------------------------------------------------
(* The inductive strengthenings of the safety properties.                   *)

\* No goroutine runs before main starts the scheduler.
NothingBeforeStart == main = "wired" => \A g \in Goroutines : pc[g] = "off"

\* A scan on its way to Save carries a batch, and is stamped just before it.
RunsInOrder ==
  \A g \in Goroutines :
    /\ pc[g] \in {"setErr", "stamp", "save", "meter"} => run[g].covered \in Batch
    /\ pc[g] \in {"save", "meter"} => run[g].at # 0
    /\ pc[g] \notin {"save", "meter", "clear"} => run[g].at = 0

\* A request on its way to Save carries a batch.
PostsInOrder ==
  \A p \in Posts :
    /\ post[p].pc = "meter" /\ ~Keeps(p) => post[p].results \in Batch
    /\ post[p].pc = "save" => post[p].results \in Batch

ServiceInv ==
  /\ TypeOK /\ NothingBeforeStart /\ ScanningFlagExact
  /\ RunsInOrder /\ PostsInOrder

\* Without scanner Jobs: while a batch is about to be saved lastErr describes
\* it already; at any other time it describes the stored one.  Stamps grow.
Saving == {g \in Goroutines : pc[g] \in {"stamp", "save"}}

InProcessInv ==
  /\ \A g \in Saving : lastErr = Outcome(run[g].covered)
  /\ Saving = {} /\ lastErr = "none" /\ store.scannedAt # 0
       => store.results = Repos
  /\ store.scannedAt <= clock
  /\ \A g \in Goroutines :
       pc[g] = "save" => run[g].at > store.scannedAt /\ run[g].at <= clock

\* Without scanner Jobs: what a scan saved, or a reader must be shown, is never
\* newer than the store.
StatusInv ==
  /\ newest <= store.scannedAt
  /\ \A g \in Goroutines :
       pc[g] \in {"meter", "clear"} => run[g].at <= store.scannedAt
  /\ \A r \in Readers :
       /\ stat[r].pc = "load" => stat[r].floor <= store.scannedAt
       /\ stat[r].pc = "done" => stat[r].floor <= stat[r].at
=============================================================================
