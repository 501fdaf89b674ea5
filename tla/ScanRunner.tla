----------------------------- MODULE ScanRunner -----------------------------
(***************************************************************************)
(* One call of Runner.Run (internal/scan/runner.go): the repositories are  *)
(* synced and scanned by a pool of goroutines (runConcurrent), and each    *)
(* repository's goroutine looks its chart references up through a pool of  *)
(* its own.  Both pools stop launching once the context is done, both wait *)
(* for what they launched, and Run decides at the very end what to answer. *)
(*                                                                         *)
(* Pool Outer is the pool of Run, pool r the one of repository r's         *)
(* scanDir; an item of a pool is a position in its slice.  The goroutine   *)
(* that calls runConcurrent is the pool's caller.  What the extractors     *)
(* find in a repository is a number of references.                         *)
(***************************************************************************)
EXTENDS Integers, FiniteSets

CONSTANTS
  NumRepos,   \* len(r.repos); config.Load refuses an empty list
  Limit,      \* parallel_checks; config.Load replaces what is not positive
  KeepDir,    \* git_cache_dir is set
  MaxRefs     \* bound: references found in a repository

ASSUME NumbersArePositive == NumRepos \in Nat \ {0} /\ Limit \in Nat \ {0}
ASSUME BoundIsNatural == MaxRefs \in Nat
ASSUME FlagIsBoolean == KeepDir \in BOOLEAN

VARIABLES
  ctxDone,   \* the context is done
  stage,     \* where Run is
  workDir,   \* the directory the repositories are cloned into
  caller,    \* where each pool's caller is in runConcurrent
  next,      \* the item the caller comes to next
  size,      \* len(items)
  sem,       \* tokens in the pool's semaphore
  wg,        \* the pool's WaitGroup
  job,       \* where the goroutine of each item is
  found,     \* results of scanDir: the local slice of each repository
  results,   \* results of Run
  repoErrs,  \* repositories that failed to sync
  answer     \* what Run returns

poolVars   == <<caller, next, size, sem, wg, job>>
answerVars == <<results, repoErrs, answer>>
vars == <<ctxDone, stage, workDir, poolVars, found, answerVars>>

Repos == 1..NumRepos
Refs  == 1..MaxRefs
Outer == 0
Pools == {Outer} \cup Repos
Items == Repos \cup Refs

\* A lookup gives a version, an error of the registry, or the context's error.
Kinds   == {"version", "error", "cancelled"}
Finding == [ref : Refs, kind : Kinds]
Result  == [repo : Repos, ref : Refs, kind : Kinds]
NoAnswer == [err |-> "none yet", results |-> {}, failed |-> {}]

\* Running an item's function; holding a token; counted by the WaitGroup.
Working == {"sync", "git", "walk", "checks", "collect", "lookup"}
Holding == Working \cup {"returned"}
Counted == Holding \cup {"released"}

TypeOK ==
  /\ ctxDone \in BOOLEAN
  /\ stage \in {"setup", "scan", "cleanup", "returned"}
  /\ workDir \in {"none", "there", "removed"}
  /\ caller \in [Pools -> {"out", "loop", "send", "wait", "back"}]
  /\ next \in [Pools -> Nat] /\ size \in [Pools -> Nat]
  /\ sem \in [Pools -> Int] /\ wg \in [Pools -> Int]
  /\ job \in [Pools -> [Items -> Counted \cup {"unborn", "done"}]]
  /\ found \in [Repos -> SUBSET Finding]
  /\ results \in SUBSET Result
  /\ repoErrs \in SUBSET Repos
  /\ answer \in [err : {"none yet", "nil", "setup", "interrupted", "all failed"},
                 results : SUBSET Result, failed : SUBSET Repos]

Init ==
  /\ ctxDone = FALSE
  /\ stage = "setup" /\ workDir = "none"
  /\ caller = [p \in Pools |-> "out"]
  /\ next = [p \in Pools |-> 1]
  /\ size = [p \in Pools |-> 0]
  /\ sem = [p \in Pools |-> 0] /\ wg = [p \in Pools |-> 0]
  /\ job = [p \in Pools |-> [i \in Items |-> "unborn"]]
  /\ found = [r \in Repos |-> {}]
  /\ results = {} /\ repoErrs = {} /\ answer = NoAnswer

-----------------------------------------------------------------------------
(* runConcurrent                                                            *)

\* The context is looked at before an item and not while its token is awaited.
Offer(p) ==
  /\ caller[p] = "loop" /\ next[p] <= size[p] /\ ~ctxDone
  /\ wg' = [wg EXCEPT ![p] = @ + 1]
  /\ caller' = [caller EXCEPT ![p] = "send"]
  /\ UNCHANGED <<ctxDone, stage, workDir, next, size, sem, job, found, answerVars>>

LastItem(p) ==
  /\ caller[p] = "loop" /\ (next[p] > size[p] \/ ctxDone)
  /\ caller' = [caller EXCEPT ![p] = "wait"]
  /\ UNCHANGED <<ctxDone, stage, workDir, next, size, sem, wg, job, found,
                 answerVars>>

\* A wrong SemOf: one semaphore for the pools of Run and of scanDir.
SemShared(p) == Outer
\* Every call of runConcurrent makes its own semaphore.
SemOf(p) == p

Launch(p) ==
  /\ caller[p] = "send" /\ sem[SemOf(p)] < Limit
  /\ sem' = [sem EXCEPT ![SemOf(p)] = @ + 1]
  /\ job' = [job EXCEPT ![p][next[p]] = IF p = Outer THEN "sync" ELSE "lookup"]
  /\ next' = [next EXCEPT ![p] = @ + 1]
  /\ caller' = [caller EXCEPT ![p] = "loop"]
  /\ UNCHANGED <<ctxDone, stage, workDir, size, wg, found, answerVars>>

\* The deferred calls of the goroutine, last one first.
Release(p, i) ==
  /\ job[p][i] = "returned"
  /\ sem' = [sem EXCEPT ![SemOf(p)] = @ - 1]
  /\ job' = [job EXCEPT ![p][i] = "released"]
  /\ UNCHANGED <<ctxDone, stage, workDir, caller, next, size, wg, found, answerVars>>

Done(p, i) ==
  /\ job[p][i] = "released"
  /\ wg' = [wg EXCEPT ![p] = @ - 1]
  /\ job' = [job EXCEPT ![p][i] = "done"]
  /\ UNCHANGED <<ctxDone, stage, workDir, caller, next, size, sem, found, answerVars>>

\* A wrong AllDone: the caller goes on once the last item is launched.
AllLaunched(p) == TRUE
AllDone(p) == wg[p] = 0

Wait(p) ==
  /\ caller[p] = "wait" /\ AllDone(p)
  /\ caller' = [caller EXCEPT ![p] = "back"]
  /\ UNCHANGED <<ctxDone, stage, workDir, next, size, sem, wg, job, found,
                 answerVars>>

-----------------------------------------------------------------------------
(* scanDir, in the goroutine of repository r                                *)

RepoAt(r, place) == job[Outer][r] = place
RepoGoesTo(r, place) == job' = [job EXCEPT ![Outer][r] = place]

\* The two walks over the files, then the pool of the lookups.
Walk(r) ==
  /\ RepoAt(r, "walk")
  /\ \E n \in 0..MaxRefs : size' = [size EXCEPT ![r] = n]
  /\ caller' = [caller EXCEPT ![r] = "loop"]
  /\ RepoGoesTo(r, "checks")
  /\ UNCHANGED <<ctxDone, stage, workDir, next, sem, wg, found, answerVars>>

\* registry.Latest returns; with the context done it may be the context's error.
Lookup(r, i) ==
  /\ job[r][i] = "lookup"
  /\ \E kind \in IF ctxDone THEN Kinds ELSE Kinds \ {"cancelled"} :
       found' = [found EXCEPT ![r] = @ \cup {[ref |-> i, kind |-> kind]}]
  /\ job' = [job EXCEPT ![r][i] = "returned"]
  /\ UNCHANGED <<ctxDone, stage, workDir, caller, next, size, sem, wg, answerVars>>

\* runConcurrent is back and scanDir returns its results.
Checked(r) ==
  /\ RepoAt(r, "checks") /\ caller[r] = "back"
  /\ RepoGoesTo(r, "collect")
  /\ UNCHANGED <<ctxDone, stage, workDir, caller, next, size, sem, wg, found,
                 answerVars>>

-----------------------------------------------------------------------------
(* The function Run passes to runConcurrent                                 *)

\* git is not started once the context is done, and killed when it becomes so.
StartGit(r) ==
  /\ RepoAt(r, "sync") /\ ~ctxDone
  /\ RepoGoesTo(r, "git")
  /\ UNCHANGED <<ctxDone, stage, workDir, caller, next, size, sem, wg, found,
                 answerVars>>

SyncSucceeds(r) ==
  /\ RepoAt(r, "git")
  /\ RepoGoesTo(r, "walk")
  /\ UNCHANGED <<ctxDone, stage, workDir, caller, next, size, sem, wg, found,
                 answerVars>>

\* A wrong SyncFailed: the error is only logged.
SyncFailedQuietly(r) == repoErrs
SyncFailed(r) == repoErrs \cup {r}

SyncFails(r) ==
  /\ RepoAt(r, "git") \/ (RepoAt(r, "sync") /\ ctxDone)
  /\ repoErrs' = SyncFailed(r)
  /\ RepoGoesTo(r, "returned")
  /\ UNCHANGED <<ctxDone, stage, workDir, caller, next, size, sem, wg, found,
                 results, answer>>

AsResult(r, f) == [repo |-> r, ref |-> f.ref, kind |-> f.kind]

Collect(r) ==
  /\ RepoAt(r, "collect")
  /\ results' = results \cup {AsResult(r, f) : f \in found[r]}
  /\ RepoGoesTo(r, "returned")
  /\ UNCHANGED <<ctxDone, stage, workDir, caller, next, size, sem, wg, found,
                 repoErrs, answer>>

-----------------------------------------------------------------------------
(* Run                                                                      *)

Setup ==
  /\ stage = "setup"
  /\ workDir' = "there" /\ stage' = "scan"
  /\ size' = [size EXCEPT ![Outer] = NumRepos]
  /\ caller' = [caller EXCEPT ![Outer] = "loop"]
  /\ UNCHANGED <<ctxDone, next, sem, wg, job, found, answerVars>>

\* The cache directory or the temporary one cannot be made.
SetupFails ==
  /\ stage = "setup"
  /\ answer' = [NoAnswer EXCEPT !.err = "setup"]
  /\ stage' = "returned"
  /\ UNCHANGED <<ctxDone, workDir, poolVars, found, results, repoErrs>>

\* A wrong Interrupted: the context is not looked at after the pool.
NeverInterrupted == FALSE
Interrupted == ctxDone

Answer ==
  CASE Interrupted -> [NoAnswer EXCEPT !.err = "interrupted"]
    [] ~Interrupted /\ Cardinality(repoErrs) = NumRepos
         -> [NoAnswer EXCEPT !.err = "all failed"]
    [] OTHER -> [err |-> "nil", results |-> results, failed |-> repoErrs]

Conclude ==
  /\ stage = "scan" /\ caller[Outer] = "back"
  /\ answer' = Answer
  /\ stage' = "cleanup"
  /\ UNCHANGED <<ctxDone, workDir, poolVars, found, results, repoErrs>>

\* The deferred RemoveAll: only a temporary directory goes.
CleanUp ==
  /\ stage = "cleanup"
  /\ workDir' = IF KeepDir THEN workDir ELSE "removed"
  /\ stage' = "returned"
  /\ UNCHANGED <<ctxDone, poolVars, found, answerVars>>

Cancel ==
  /\ ~ctxDone
  /\ ctxDone' = TRUE
  /\ UNCHANGED <<stage, workDir, poolVars, found, answerVars>>

Returned == stage = "returned" /\ UNCHANGED vars

-----------------------------------------------------------------------------
PoolStep(p) ==
  \/ Offer(p) \/ LastItem(p) \/ Launch(p) \/ Wait(p)
  \/ \E i \in Items : Release(p, i) \/ Done(p, i)

RepoStep(r) ==
  \/ StartGit(r) \/ SyncSucceeds(r) \/ SyncFails(r) \/ Walk(r)
  \/ Checked(r) \/ Collect(r) \/ \E i \in Refs : Lookup(r, i)

RunStep == Setup \/ SetupFails \/ Conclude \/ CleanUp

Next ==
  \/ \E p \in Pools : PoolStep(p)
  \/ \E r \in Repos : RepoStep(r)
  \/ RunStep \/ Cancel \/ Returned

Spec == Init /\ [][Next]_vars

\* The Go scheduler runs every goroutine; git and registry.Latest are assumed
\* to return.
FairSpec ==
  /\ Spec
  /\ \A p \in Pools :
       /\ WF_vars(Offer(p) \/ LastItem(p) \/ Launch(p) \/ Wait(p))
       /\ \A i \in Items : WF_vars(Release(p, i) \/ Done(p, i))
  /\ \A r \in Repos :
       /\ WF_vars(StartGit(r) \/ SyncSucceeds(r) \/ SyncFails(r) \/ Walk(r)
                  \/ Checked(r) \/ Collect(r))
       /\ \A i \in Refs : WF_vars(Lookup(r, i))
  /\ WF_vars(RunStep)

-----------------------------------------------------------------------------
(* Properties.                                                              *)

\* A run that returns no error is complete: every repository is either among
\* the failures or has exactly one result for each of its references, none of
\* them a check that the cancellation cut short, and some repository was
\* scanned.  Both pools drop items silently once the context is done, so this
\* rests on the context being looked at after the pool (runner.go:93).
CompleteOrError ==
  answer.err = "nil" =>
    /\ answer.failed # Repos
    /\ \A f \in answer.results : f.repo \notin answer.failed /\ f.kind # "cancelled"
    /\ \A r \in Repos \ answer.failed : \A i \in 1..size[r] :
         \E f \in answer.results : /\ f.repo = r /\ f.ref = i
                                   /\ \A h \in answer.results :
                                        h.repo = r /\ h.ref = i => h = f

\* Once Run has decided its answer no goroutine of either pool is left: nobody
\* writes to the slices Run returned or works in the directory it removes.
NothingOutlivesRun ==
  stage \in {"cleanup", "returned"} =>
    \A p \in Pools, i \in Items : job[p][i] \in {"unborn", "done"}

\* Tokens and goroutines agree: a pool never runs more than Limit items, and
\* the WaitGroup counts exactly what its caller still has to wait for.
InPool(p, places) == {i \in Items : job[p][i] \in places}
TokensExact ==
  \A p \in Pools : sem[p] = Cardinality(InPool(p, Holding)) /\ sem[p] <= Limit
WaitExact ==
  \A p \in Pools : wg[p] = Cardinality(InPool(p, Counted))
                           + (IF caller[p] = "send" THEN 1 ELSE 0)

\* Run returns, however many repositories and references queue for a token:
\* the nested pools cannot wait for each other.
RunReturns == <>(stage = "returned")

\* A repository has come to something when its goroutine returns from the
\* function, whether or not its token and its count are given back yet.
Ended == {"returned", "released", "done"}
OutcomeOf(r) ==
  IF job[Outer][r] \notin Ended THEN [state |-> "pending", refs |-> 0, found |-> {}]
  ELSE IF r \in repoErrs THEN [state |-> "failed", refs |-> 0, found |-> {}]
  ELSE [state |-> "scanned", refs |-> size[r], found |-> found[r]]
Outcome == [r \in Repos |-> OutcomeOf(r)]

Run == INSTANCE ScanRun WITH cancelled <- ctxDone, outcome <- Outcome

\* However the goroutines of the nested pools interleave, a run is one that
\* settles its repositories one by one and then answers with all of them, or
\* with an error once it is cancelled (runner.go:50).
ImplementsRun == Run!RunSpec

-----------------------------------------------------------------------------
(* The inductive strengthening.                                             *)

\* A pool launches its items in order and leaves one out only when the context
\* is done; a caller that is back has nobody left.
PoolInOrder(p) ==
  /\ next[p] \in 1..size[p] + 1
  /\ caller[p] = "send" => next[p] <= size[p]
  /\ caller[p] \in {"wait", "back"} => next[p] > size[p] \/ ctxDone
  /\ \A i \in Items : job[p][i] = "unborn" <=> i >= next[p]
  /\ caller[p] = "back" => \A i \in Items : job[p][i] \notin Counted
InOrder ==
  /\ size[Outer] = IF caller[Outer] = "out" THEN 0 ELSE NumRepos
  /\ \A r \in Repos : size[r] <= MaxRefs /\ (caller[r] = "out" => size[r] = 0)
  /\ \A p \in Pools : PoolInOrder(p)

\* Where Run, the goroutines of either pool and a repository's scanDir may be.
RunPlaces ==
  /\ stage = "setup" <=> answer.err = "none yet" /\ caller[Outer] = "out"
  /\ stage = "scan" => caller[Outer] # "out"
  /\ stage \in {"cleanup", "returned"} <=> answer.err # "none yet"
  /\ stage \in {"cleanup", "returned"} => caller[Outer] \in {"out", "back"}
JobPlaces ==
  /\ \A i \in Items : job[Outer][i] # "lookup"
  /\ \A r \in Repos, i \in Items : job[r][i] \in {"unborn", "lookup"} \cup Ended
CallerPlaces(r) ==
  /\ caller[r] \in {"loop", "send", "wait"} => RepoAt(r, "checks")
  /\ caller[r] = "out" <=> \/ job[Outer][r] \in {"unborn", "sync", "git", "walk"}
                           \/ r \in repoErrs
  /\ r \in repoErrs => job[Outer][r] \in Ended
Nested == RunPlaces /\ JobPlaces /\ \A r \in Repos : CallerPlaces(r)

\* A lookup that returned left one finding, and a repository whose goroutine
\* returned is a failure or has its findings in the results.
LookupsRecorded(r) ==
  /\ \A f \in found[r] : f.kind = "cancelled" => ctxDone
  /\ \A f \in found[r] : job[r][f.ref] \in Ended
  /\ \A f, h \in found[r] : f.ref = h.ref => f = h
  /\ \A i \in Refs : job[r][i] \in Ended => \E f \in found[r] : f.ref = i
RepoRecorded(r) ==
  IF job[Outer][r] \in Ended /\ r \notin repoErrs
  THEN /\ \A f \in found[r] : AsResult(r, f) \in results
       /\ \A x \in results : x.repo = r => \E f \in found[r] : x = AsResult(r, f)
  ELSE \A x \in results : x.repo # r
Recorded == \A r \in Repos : LookupsRecorded(r) /\ RepoRecorded(r)

RunnerInv ==
  TypeOK /\ TokensExact /\ WaitExact /\ InOrder /\ Nested /\ Recorded

=============================================================================
