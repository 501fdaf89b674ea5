-------------------------- MODULE ScanRunnerProofs --------------------------
(***************************************************************************)
(* Theorems about ScanRunner: the nested pools stay within their limits,   *)
(* nothing outlives a run, a run without an error is complete, and the     *)
(* whole implements ScanRun, for any number of repositories and references *)
(* and any limit.                                                          *)
(***************************************************************************)
EXTENDS ScanRunner, FiniteSetTheorems, TLAPS

USE DEF poolVars, answerVars

-----------------------------------------------------------------------------
(* Positions.                                                               *)

\* The positions of the slices: what a caller comes to next is one of them.
LEMMA Positions ==
  /\ Repos \subseteq Items /\ Refs \subseteq Items /\ Items \subseteq Nat
  /\ Outer \in Pools /\ Repos \subseteq Pools /\ Outer \notin Repos
  /\ IsFiniteSet(Items)
<1>1. IsFiniteSet(1..NumRepos) /\ IsFiniteSet(1..MaxRefs)
  BY FS_Interval, NumbersArePositive, BoundIsNatural
<1>2. IsFiniteSet(Items)
  BY <1>1, FS_Union DEF Items, Repos, Refs
<1> QED
  BY <1>2, NumbersArePositive, BoundIsNatural
     DEF Items, Repos, Refs, Outer, Pools

Places == Counted \cup {"unborn", "done"}
Jobs   == [Pools -> [Items -> Places]]
Callers == [Pools -> {"out", "loop", "send", "wait", "back"}]

\* An item's goroutine goes on: what job becomes in every action that moves one.
LEMMA JobMoves ==
  ASSUME job \in Jobs, NEW p \in Pools, NEW i \in Items, NEW place \in Places,
         job' = [job EXCEPT ![p][i] = place]
  PROVE  /\ job' \in Jobs
         /\ job'[p][i] = place
         /\ \A q \in Pools : \A k \in Items :
              q # p \/ k # i => job'[q][k] = job[q][k]
BY DEF Jobs

\* While a caller waits for a token, the item it comes to next is in its slice.
LEMMA NextInSlice ==
  ASSUME TypeOK, InOrder, NEW p \in Pools, caller[p] = "send"
  PROVE  /\ next[p] \in Items
         /\ p = Outer => next[p] \in Repos
         /\ p # Outer => next[p] \in Refs
<1>1. next[p] \in 1..size[p] /\ next[p] \in Nat /\ size[p] \in Nat
  <2>1. next[p] \in Nat /\ size[p] \in Nat
    BY DEF TypeOK
  <2>2. next[p] \in 1..size[p] + 1 /\ next[p] <= size[p]
    BY DEF InOrder, PoolInOrder
  <2> QED
    BY <2>1, <2>2
<1>2. CASE p = Outer
  BY <1>1, <1>2, NumbersArePositive DEF InOrder, Items, Repos
<1>3. CASE p # Outer
  <2>1. p \in Repos /\ size[p] <= MaxRefs
    BY <1>3 DEF InOrder, Pools
  <2> QED
    BY <1>1, <1>3, <2>1, BoundIsNatural DEF Items, Refs
<1> QED
  BY <1>2, <1>3

LEMMA PlacesKnown ==
  /\ Working \subseteq Holding /\ Holding \subseteq Counted
  /\ Counted \subseteq Places
  /\ {"sync", "git", "walk", "checks", "collect", "lookup", "returned",
      "released", "unborn", "done"} = Places
BY DEF Working, Holding, Counted, Places

-----------------------------------------------------------------------------
(* Typing.                                                                  *)

LEMMA TypeInit == Init => TypeOK
<1> SUFFICES ASSUME Init PROVE TypeOK
  OBVIOUS
<1>1. job \in Jobs
  BY PlacesKnown DEF Init, Jobs
<1>2. answer \in [err : {"none yet", "nil", "setup", "interrupted", "all failed"},
                  results : SUBSET Result, failed : SUBSET Repos]
  BY DEF Init, NoAnswer
<1>3. ctxDone \in BOOLEAN
  BY Zenon DEF Init
<1>4. /\ caller \in Callers
      /\ next \in [Pools -> Nat] /\ size \in [Pools -> Nat]
      /\ sem \in [Pools -> Int] /\ wg \in [Pools -> Int]
      /\ found \in [Repos -> SUBSET Finding]
  BY DEF Init, Callers
<1>5. /\ stage \in {"setup", "scan", "cleanup", "returned"}
      /\ workDir \in {"none", "there", "removed"}
      /\ results \in SUBSET Result /\ repoErrs \in SUBSET Repos
  BY DEF Init
<1> QED
  BY <1>1, <1>2, <1>3, <1>4, <1>5, Zenon DEF TypeOK, Jobs, Places, Callers

\* The counters of the pools.
LEMMA CounterType ==
  ASSUME TypeOK, [Next]_vars
  PROVE  /\ next' \in [Pools -> Nat] /\ size' \in [Pools -> Nat]
         /\ sem' \in [Pools -> Int] /\ wg' \in [Pools -> Int]
<1> USE Positions
<1>0. /\ next \in [Pools -> Nat] /\ size \in [Pools -> Nat]
      /\ sem \in [Pools -> Int] /\ wg \in [Pools -> Int]
  BY DEF TypeOK
<1>1. ASSUME NEW p \in Pools, Offer(p) \/ LastItem(p) \/ Launch(p) \/ Wait(p)
      PROVE  /\ next' \in [Pools -> Nat] /\ size' \in [Pools -> Nat]
             /\ sem' \in [Pools -> Int] /\ wg' \in [Pools -> Int]
  <2>1. CASE Offer(p) \/ LastItem(p) \/ Wait(p)
    BY <1>0, <2>1 DEF Offer, LastItem, Wait
  <2>2. CASE Launch(p)
    BY <1>0, <2>2 DEF Launch, SemOf
  <2> QED
    BY <1>1, <2>1, <2>2
<1>2. ASSUME NEW p \in Pools, NEW i \in Items, Release(p, i) \/ Done(p, i)
      PROVE  /\ next' \in [Pools -> Nat] /\ size' \in [Pools -> Nat]
             /\ sem' \in [Pools -> Int] /\ wg' \in [Pools -> Int]
  <2>1. CASE Release(p, i)
    <3>1. sem' = [sem EXCEPT ![p] = @ - 1] /\ UNCHANGED <<next, size, wg>>
      BY <2>1 DEF Release, SemOf
    <3> QED
      BY <1>0, <3>1
  <2>2. CASE Done(p, i)
    <3>1. wg' = [wg EXCEPT ![p] = @ - 1] /\ UNCHANGED <<next, size, sem>>
      BY <2>2 DEF Done
    <3> QED
      BY <1>0, <3>1
  <2> QED
    BY <1>2, <2>1, <2>2
<1>3. ASSUME NEW r \in Repos, RepoStep(r)
      PROVE  /\ next' \in [Pools -> Nat] /\ size' \in [Pools -> Nat]
             /\ sem' \in [Pools -> Int] /\ wg' \in [Pools -> Int]
  <2>1. CASE Walk(r)
    <3>1. PICK n \in 0..MaxRefs : size' = [size EXCEPT ![r] = n]
      BY <2>1 DEF Walk
    <3> QED
      BY <1>0, <2>1, <3>1, BoundIsNatural DEF Walk
  <2>2. CASE ~Walk(r)
    <3>1. UNCHANGED <<next, size, sem, wg>>
      BY <1>3, <2>2 DEF RepoStep, StartGit, SyncSucceeds, SyncFails, Checked,
                        Collect, Lookup
    <3> QED
      BY <1>0, <3>1
  <2> QED
    BY <2>1, <2>2
<1>4. CASE RunStep \/ Cancel \/ Returned \/ UNCHANGED vars
  <2>1. CASE Setup
    BY <1>0, <2>1, NumbersArePositive DEF Setup
  <2>2. CASE ~Setup
    <3>1. UNCHANGED <<next, size, sem, wg>>
      BY <1>4, <2>2 DEF RunStep, SetupFails, Conclude, CleanUp, Cancel, Returned,
                        vars
    <3> QED
      BY <1>0, <3>1
  <2> QED
    BY <2>1, <2>2
<1> QED
  BY <1>1, <1>2, <1>3, <1>4 DEF Next, PoolStep

\* The goroutines.  What launches is a position of the pool's slice.
LEMMA JobType ==
  ASSUME TypeOK, InOrder, [Next]_vars
  PROVE  job' \in Jobs
<1> USE Positions, PlacesKnown
<1>0. job \in Jobs
  BY DEF TypeOK, Jobs, Places
<1>1. ASSUME NEW p \in Pools, Launch(p) PROVE job' \in Jobs
  <2>1. next[p] \in Items
    BY <1>1, NextInSlice DEF Launch
  <2>2. (IF p = Outer THEN "sync" ELSE "lookup") \in Places
    OBVIOUS
  <2> QED
    BY <1>0, <1>1, <2>1, <2>2, JobMoves DEF Launch
<1>2. ASSUME NEW p \in Pools, NEW i \in Items, Release(p, i) \/ Done(p, i)
      PROVE  job' \in Jobs
  BY <1>0, <1>2, JobMoves DEF Release, Done
<1>3. ASSUME NEW r \in Repos, RepoStep(r) PROVE job' \in Jobs
  <2>1. CASE \E i \in Refs : Lookup(r, i)
    BY <1>0, <2>1, JobMoves DEF Lookup
  <2>2. CASE \/ StartGit(r) \/ SyncSucceeds(r) \/ SyncFails(r) \/ Walk(r)
             \/ Checked(r) \/ Collect(r)
    BY <1>0, <2>2, JobMoves DEF StartGit, SyncSucceeds, SyncFails, Walk, Checked,
                                Collect, RepoGoesTo
  <2> QED
    BY <1>3, <2>1, <2>2 DEF RepoStep
<1>4. CASE \/ \E p \in Pools : Offer(p) \/ LastItem(p) \/ Wait(p)
           \/ RunStep \/ Cancel \/ Returned \/ UNCHANGED vars
  BY <1>0, <1>4 DEF Offer, LastItem, Wait, RunStep, Setup, SetupFails, Conclude,
                    CleanUp, Cancel, Returned, vars
<1> QED
  BY <1>1, <1>2, <1>3, <1>4 DEF Next, PoolStep

\* The callers of the pools.
LEMMA CallerType ==
  ASSUME TypeOK, [Next]_vars
  PROVE  caller' \in Callers
<1> USE Positions
<1>0. caller \in Callers
  BY DEF TypeOK, Callers
<1>1. ASSUME NEW p \in Pools, Offer(p) \/ LastItem(p) \/ Launch(p) \/ Wait(p)
      PROVE  caller' \in Callers
  BY <1>0, <1>1 DEF Offer, LastItem, Launch, Wait, Callers
<1>2. ASSUME NEW r \in Repos, Walk(r) PROVE caller' \in Callers
  BY <1>0, <1>2 DEF Walk, Callers
<1>3. CASE Setup
  BY <1>0, <1>3 DEF Setup, Callers
<1>4. CASE \/ \E p \in Pools, i \in Items : Release(p, i) \/ Done(p, i)
           \/ \E r \in Repos : RepoStep(r) /\ ~Walk(r)
           \/ SetupFails \/ Conclude \/ CleanUp \/ Cancel \/ Returned
           \/ UNCHANGED vars
  <2>1. caller' = caller
    BY <1>4 DEF Release, Done, RepoStep, StartGit, SyncSucceeds, SyncFails,
                Checked, Collect, Lookup, SetupFails, Conclude, CleanUp, Cancel,
                Returned, vars
  <2> QED
    BY <1>0, <2>1
<1> QED
  BY <1>1, <1>2, <1>3, <1>4 DEF Next, PoolStep, RunStep

\* What the goroutines found and what Run answers.
LEMMA ResultType ==
  ASSUME TypeOK, [Next]_vars
  PROVE  /\ found' \in [Repos -> SUBSET Finding]
         /\ results' \in SUBSET Result
         /\ repoErrs' \in SUBSET Repos
<1>0. /\ found \in [Repos -> SUBSET Finding]
      /\ results \in SUBSET Result
      /\ repoErrs \in SUBSET Repos
  BY DEF TypeOK
<1>1. ASSUME NEW r \in Repos, NEW i \in Refs, Lookup(r, i)
      PROVE  found' \in [Repos -> SUBSET Finding] /\ UNCHANGED <<results, repoErrs>>
  <2>1. PICK kind \in Kinds :
          found' = [found EXCEPT ![r] = @ \cup {[ref |-> i, kind |-> kind]}]
    BY <1>1 DEF Lookup
  <2>2. [ref |-> i, kind |-> kind] \in Finding
    BY DEF Finding
  <2> QED
    BY <1>0, <1>1, <2>1, <2>2 DEF Lookup
<1>2. ASSUME NEW r \in Repos, Collect(r)
      PROVE  results' \in SUBSET Result /\ UNCHANGED <<found, repoErrs>>
  BY <1>0, <1>2 DEF Collect, AsResult, Finding, Result
<1>3. ASSUME NEW r \in Repos, SyncFails(r)
      PROVE  repoErrs' \in SUBSET Repos /\ UNCHANGED <<found, results>>
  BY <1>0, <1>3 DEF SyncFails, SyncFailed
<1>4. CASE \/ \E p \in Pools : PoolStep(p)
           \/ \E r \in Repos : \/ StartGit(r) \/ SyncSucceeds(r) \/ Walk(r)
                               \/ Checked(r)
           \/ RunStep \/ Cancel \/ Returned \/ UNCHANGED vars
  <2>1. UNCHANGED <<found, results, repoErrs>>
    BY <1>4 DEF PoolStep, Offer, LastItem, Launch, Wait, Release, Done, StartGit,
                SyncSucceeds, Walk, Checked, RunStep, Setup, SetupFails, Conclude,
                CleanUp, Cancel, Returned, vars
  <2> QED
    BY <1>0, <2>1
<1> QED
  BY <1>0, <1>1, <1>2, <1>3, <1>4 DEF Next, RepoStep

LEMMA RunType ==
  ASSUME TypeOK, [Next]_vars
  PROVE  /\ ctxDone' \in BOOLEAN
         /\ stage' \in {"setup", "scan", "cleanup", "returned"}
         /\ workDir' \in {"none", "there", "removed"}
         /\ answer' \in [err : {"none yet", "nil", "setup", "interrupted",
                                "all failed"},
                         results : SUBSET Result, failed : SUBSET Repos]
<1>0. /\ ctxDone \in BOOLEAN
      /\ stage \in {"setup", "scan", "cleanup", "returned"}
      /\ workDir \in {"none", "there", "removed"}
      /\ results \in SUBSET Result /\ repoErrs \in SUBSET Repos
      /\ answer \in [err : {"none yet", "nil", "setup", "interrupted", "all failed"},
                     results : SUBSET Result, failed : SUBSET Repos]
  BY DEF TypeOK
<1>1. CASE Setup
  BY <1>0, <1>1 DEF Setup
<1>2. CASE SetupFails
  BY <1>0, <1>2 DEF SetupFails, NoAnswer
<1>3. CASE Conclude
  <2>1. answer' = Answer
    BY <1>3 DEF Conclude
  <2>2. \/ Answer = [err |-> "interrupted", results |-> {}, failed |-> {}]
        \/ Answer = [err |-> "all failed", results |-> {}, failed |-> {}]
        \/ Answer = [err |-> "nil", results |-> results, failed |-> repoErrs]
    BY DEF Answer, NoAnswer
  <2> QED
    <3>1. answer' \in [err : {"none yet", "nil", "setup", "interrupted",
                              "all failed"},
                       results : SUBSET Result, failed : SUBSET Repos]
      <4>1. CASE Answer = [err |-> "interrupted", results |-> {}, failed |-> {}]
        BY <2>1, <4>1
      <4>2. CASE Answer = [err |-> "all failed", results |-> {}, failed |-> {}]
        BY <2>1, <4>2
      <4>3. CASE Answer = [err |-> "nil", results |-> results, failed |-> repoErrs]
        BY <1>0, <2>1, <4>3
      <4> QED
        BY <2>2, <4>1, <4>2, <4>3, Zenon
    <3>2. stage' = "cleanup" /\ UNCHANGED <<ctxDone, workDir>>
      BY <1>3 DEF Conclude
    <3> QED
      BY <1>0, <3>1, <3>2
<1>4. CASE CleanUp \/ Cancel
  BY <1>0, <1>4 DEF CleanUp, Cancel
<1>5. CASE \/ \E p \in Pools : PoolStep(p)
           \/ \E r \in Repos : RepoStep(r)
           \/ Returned \/ UNCHANGED vars
  <2>1. UNCHANGED <<ctxDone, stage, workDir, answer>>
    BY <1>5 DEF PoolStep, Offer, LastItem, Launch, Wait, Release, Done, RepoStep,
                StartGit, SyncSucceeds, SyncFails, Walk, Checked, Collect, Lookup,
                Returned, vars
  <2> QED
    BY <1>0, <2>1
<1> QED
  BY <1>1, <1>2, <1>3, <1>4, <1>5 DEF Next, RunStep

LEMMA TypeStep ==
  ASSUME TypeOK, InOrder, [Next]_vars
  PROVE  TypeOK'
BY CounterType, JobType, CallerType, ResultType, RunType, Zenon
   DEF TypeOK, Jobs, Places, Callers

-----------------------------------------------------------------------------
(* Tokens and the WaitGroup.                                                *)

\* The items of a pool whose goroutine is at one of some places, and one of the
\* goroutines going on to another place.
Count(f, p, S) == {k \in Items : f[p][k] \in S}
Moves(f, g, p, i, place) == g = [f EXCEPT ![p][i] = place]

LEMMA MovesOne ==
  ASSUME NEW f \in Jobs, NEW p \in Pools, NEW i \in Items, NEW place \in Places,
         NEW g, Moves(f, g, p, i, place)
  PROVE  /\ g[p][i] = place
         /\ \A q \in Pools : \A k \in Items :
              q # p \/ k # i => g[q][k] = f[q][k]
BY DEF Jobs, Moves

LEMMA CountFinite ==
  ASSUME NEW f, NEW p, NEW S
  PROVE  IsFiniteSet(Count(f, p, S)) /\ Cardinality(Count(f, p, S)) \in Nat
<1>1. IsFiniteSet(Count(f, p, S))
  BY Positions, FS_Subset DEF Count
<1> QED
  BY <1>1, FS_CardinalityType

\* No other pool's count changes, nor a count the goroutine stays in or out of.
LEMMA CountSame ==
  ASSUME NEW f \in Jobs, NEW p \in Pools, NEW i \in Items, NEW place \in Places,
         NEW g, Moves(f, g, p, i, place), NEW S, NEW q \in Pools,
         q # p \/ (f[p][i] \in S <=> place \in S)
  PROVE  Count(g, q, S) = Count(f, q, S)
BY MovesOne DEF Count

LEMMA CountUp ==
  ASSUME NEW f \in Jobs, NEW p \in Pools, NEW i \in Items, NEW place \in Places,
         NEW g, Moves(f, g, p, i, place), NEW S, f[p][i] \notin S, place \in S
  PROVE  Cardinality(Count(g, p, S)) = Cardinality(Count(f, p, S)) + 1
<1>1. Count(g, p, S) = Count(f, p, S) \cup {i} /\ i \notin Count(f, p, S)
  BY MovesOne DEF Count
<1> QED
  BY <1>1, CountFinite, FS_AddElement

LEMMA CountDown ==
  ASSUME NEW f \in Jobs, NEW p \in Pools, NEW i \in Items, NEW place \in Places,
         NEW g, Moves(f, g, p, i, place), NEW S, f[p][i] \in S, place \notin S
  PROVE  Cardinality(Count(g, p, S)) = Cardinality(Count(f, p, S)) - 1
<1>1. Count(g, p, S) = Count(f, p, S) \ {i} /\ i \in Count(f, p, S)
  BY MovesOne DEF Count
<1> QED
  BY <1>1, CountFinite, FS_RemoveElement

\* The item a caller launches was not running.
LEMMA LaunchUnborn ==
  ASSUME TypeOK, InOrder, NEW p \in Pools, caller[p] = "send"
  PROVE  job[p][next[p]] = "unborn"
<1>1. next[p] \in Items /\ next[p] \in Nat
  BY NextInSlice DEF TypeOK
<1>2. \A i \in Items : job[p][i] = "unborn" <=> i >= next[p]
  BY DEF InOrder, PoolInOrder
<1> QED
  BY <1>1, <1>2, SMT

\* A token is taken and given back once, and the WaitGroup is told of each
\* goroutine once: by Offer, and by Done.
Exact(tokens, waited, f, callers) ==
  /\ \A p \in Pools : tokens[p] = Cardinality(Count(f, p, Holding)) /\ tokens[p] <= Limit
  /\ \A p \in Pools : waited[p] = Cardinality(Count(f, p, Counted))
                                  + (IF callers[p] = "send" THEN 1 ELSE 0)

LEMMA ExactMeans ==
  /\ TokensExact /\ WaitExact <=> Exact(sem, wg, job, caller)
  /\ (TokensExact /\ WaitExact)' <=> Exact(sem', wg', job', caller')
BY Zenon DEF TokensExact, WaitExact, Exact, InPool, Count

LEMMA CountStep ==
  ASSUME TypeOK, InOrder, Nested, TokensExact, WaitExact, [Next]_vars
  PROVE  TokensExact' /\ WaitExact'
<1> SUFFICES Exact(sem', wg', job', caller')
  BY ExactMeans, Zenon
<1>0. /\ job \in Jobs /\ caller \in Callers
      /\ sem \in [Pools -> Int] /\ wg \in [Pools -> Int] /\ next \in [Pools -> Nat]
  BY DEF TypeOK, Jobs, Places, Callers
<1>C. \A p \in Pools : /\ Cardinality(Count(job, p, Holding)) \in Nat
                       /\ Cardinality(Count(job, p, Counted)) \in Nat
  BY CountFinite, Zenon
<1>E. Exact(sem, wg, job, caller)
  BY ExactMeans, Zenon
<1>P. /\ "unborn" \notin Counted /\ "done" \notin Counted
      /\ "released" \in Counted /\ "released" \notin Holding
      /\ "returned" \in Holding /\ "returned" \in Counted
      /\ "unborn" \notin Holding /\ "done" \notin Holding
      /\ "released" \in Places /\ "done" \in Places
      /\ {"sync", "git", "walk", "checks", "collect", "lookup", "returned"} = Holding
      /\ Holding \subseteq Counted /\ Counted \subseteq Places
  BY DEF Working, Holding, Counted, Places
<1>1. ASSUME NEW p \in Pools, Offer(p)
      PROVE  Exact(sem', wg', job', caller')
  <2>1. /\ UNCHANGED <<sem, job>> /\ wg' = [wg EXCEPT ![p] = @ + 1]
        /\ caller' = [caller EXCEPT ![p] = "send"] /\ caller[p] = "loop"
    BY <1>1 DEF Offer
  <2> QED
    BY <1>0, <1>C, <1>E, <2>1 DEF Exact, Callers
<1>2. ASSUME NEW p \in Pools, LastItem(p) \/ Wait(p)
      PROVE  Exact(sem', wg', job', caller')
  <2>1. /\ UNCHANGED <<sem, job, wg>>
        /\ \A q \in Pools : caller'[q] = "send" <=> caller[q] = "send"
    BY <1>0, <1>2 DEF LastItem, Wait, Callers
  <2> QED
    BY <1>0, <1>C, <1>E, <2>1 DEF Exact
<1>3. ASSUME NEW p \in Pools, Launch(p)
      PROVE  Exact(sem', wg', job', caller')
  <2>1. PICK place \in {"sync", "lookup"} : Moves(job, job', p, next[p], place)
    BY <1>3 DEF Launch, Moves
  <2>2. next[p] \in Items /\ job[p][next[p]] = "unborn"
    BY <1>3, NextInSlice, LaunchUnborn DEF Launch
  <2>3. place \in Holding /\ place \in Counted /\ place \in Places
    BY <1>P
  <2>4. Cardinality(Count(job', p, Holding)) = Cardinality(Count(job, p, Holding)) + 1
    BY <1>0, <1>P, <2>1, <2>2, <2>3, CountUp
  <2>5. Cardinality(Count(job', p, Counted)) = Cardinality(Count(job, p, Counted)) + 1
    BY <1>0, <1>P, <2>1, <2>2, <2>3, CountUp
  <2>6. \A q \in Pools : q # p => /\ Count(job', q, Holding) = Count(job, q, Holding)
                                  /\ Count(job', q, Counted) = Count(job, q, Counted)
    BY <1>0, <2>1, <2>2, <2>3, CountSame
  <2>7. /\ sem' = [sem EXCEPT ![p] = @ + 1] /\ sem[p] < Limit
        /\ caller' = [caller EXCEPT ![p] = "loop"] /\ caller[p] = "send"
        /\ wg' = wg
    BY <1>3 DEF Launch, SemOf
  <2> QED
    BY <1>0, <1>C, <1>E, <2>4, <2>5, <2>6, <2>7, NumbersArePositive
       DEF Exact, Callers
<1>4. ASSUME NEW p \in Pools, NEW i \in Items, Release(p, i)
      PROVE  Exact(sem', wg', job', caller')
  <2>1. /\ Moves(job, job', p, i, "released") /\ job[p][i] = "returned"
        /\ sem' = [sem EXCEPT ![p] = @ - 1] /\ UNCHANGED <<caller, wg>>
    BY <1>4 DEF Release, SemOf, Moves
  <2>2. Cardinality(Count(job', p, Holding)) = Cardinality(Count(job, p, Holding)) - 1
    BY <1>0, <1>P, <2>1, CountDown
  <2>3. \A q \in Pools : q # p => Count(job', q, Holding) = Count(job, q, Holding)
    BY <1>0, <1>P, <2>1, CountSame
  <2>4. \A q \in Pools : Count(job', q, Counted) = Count(job, q, Counted)
    BY <1>0, <1>P, <2>1, CountSame
  <2> QED
    BY <1>0, <1>C, <1>E, <2>1, <2>2, <2>3, <2>4, NumbersArePositive DEF Exact
<1>5. ASSUME NEW p \in Pools, NEW i \in Items, Done(p, i)
      PROVE  Exact(sem', wg', job', caller')
  <2>1. /\ Moves(job, job', p, i, "done") /\ job[p][i] = "released"
        /\ wg' = [wg EXCEPT ![p] = @ - 1] /\ UNCHANGED <<caller, sem>>
    BY <1>5 DEF Done, Moves
  <2>2. Cardinality(Count(job', p, Counted)) = Cardinality(Count(job, p, Counted)) - 1
    BY <1>0, <1>P, <2>1, CountDown
  <2>3. \A q \in Pools : q # p => Count(job', q, Counted) = Count(job, q, Counted)
    BY <1>0, <1>P, <2>1, CountSame
  <2>4. \A q \in Pools : Count(job', q, Holding) = Count(job, q, Holding)
    BY <1>0, <1>P, <2>1, CountSame
  <2> QED
    BY <1>0, <1>C, <1>E, <2>1, <2>2, <2>3, <2>4 DEF Exact
<1>6. ASSUME NEW r \in Repos, RepoStep(r)
      PROVE  Exact(sem', wg', job', caller')
  <2>1. PICK p \in Pools, i \in Items, place \in Holding :
          Moves(job, job', p, i, place) /\ job[p][i] \in Holding
    <3>1. CASE \E i \in Refs : Lookup(r, i)
      BY <1>P, <3>1, Positions DEF Lookup, Moves
    <3>2. CASE \/ StartGit(r) \/ SyncSucceeds(r) \/ SyncFails(r) \/ Walk(r)
               \/ Checked(r) \/ Collect(r)
      <4>1. \E place \in Holding : Moves(job, job', Outer, r, place)
        BY <1>P, <3>2 DEF StartGit, SyncSucceeds, SyncFails, Walk, Checked,
                          Collect, RepoGoesTo, Moves
      <4>2. job[Outer][r] \in Holding
        BY <1>P, <3>2 DEF StartGit, SyncSucceeds, SyncFails, Walk, Checked,
                          Collect, RepoAt
      <4> QED
        BY <4>1, <4>2, Positions
    <3> QED
      BY <1>6, <3>1, <3>2 DEF RepoStep
  <2>2. \A q \in Pools : Count(job', q, Holding) = Count(job, q, Holding)
    BY <1>0, <1>P, <2>1, CountSame
  <2>3. \A q \in Pools : Count(job', q, Counted) = Count(job, q, Counted)
    BY <1>0, <1>P, <2>1, CountSame
  <2>4. UNCHANGED <<sem, wg>>
    BY <1>6 DEF RepoStep, StartGit, SyncSucceeds, SyncFails, Walk, Checked,
                Collect, Lookup
  <2>5. \A q \in Pools : caller'[q] = "send" <=> caller[q] = "send"
    <3>1. CASE Walk(r)
      <4>1. caller[r] = "out"
        BY <3>1 DEF Walk, Nested, CallerPlaces, RepoAt
      <4>2. caller' = [caller EXCEPT ![r] = "loop"]
        BY <3>1 DEF Walk
      <4> QED
        BY <1>0, <4>1, <4>2 DEF Callers
    <3>2. CASE ~Walk(r)
      BY <1>6, <3>2 DEF RepoStep, StartGit, SyncSucceeds, SyncFails, Checked,
                        Collect, Lookup
    <3> QED
      BY <3>1, <3>2
  <2> QED
    BY <1>0, <1>C, <1>E, <2>2, <2>3, <2>4, <2>5 DEF Exact
<1>7. CASE RunStep \/ Cancel \/ Returned \/ UNCHANGED vars
  <2>1. UNCHANGED <<sem, wg, job>>
    BY <1>7 DEF RunStep, Setup, SetupFails, Conclude, CleanUp, Cancel, Returned,
                vars
  <2>2. \A q \in Pools : caller'[q] = "send" <=> caller[q] = "send"
    <3>1. CASE Setup
      BY <1>0, <3>1 DEF Setup, Nested, RunPlaces, Callers
    <3>2. CASE ~Setup
      BY <1>7, <3>2 DEF RunStep, SetupFails, Conclude, CleanUp, Cancel, Returned,
                        vars
    <3> QED
      BY <3>1, <3>2
  <2> QED
    BY <1>0, <1>C, <1>E, <2>1, <2>2 DEF Exact
<1> QED
  BY <1>1, <1>2, <1>3, <1>4, <1>5, <1>6, <1>7 DEF Next, PoolStep

-----------------------------------------------------------------------------
(* The order of the launches.                                               *)

LEMMA OrderInit == Init => InOrder
<1> SUFFICES ASSUME Init PROVE InOrder
  OBVIOUS
<1>1. \A p \in Pools : PoolInOrder(p)
  BY Positions DEF Init, PoolInOrder, Counted, Items, Repos, Refs
<1> QED
  BY <1>1, Positions, BoundIsNatural DEF Init, InOrder

\* A goroutine that runs is in the way of a caller that waits and in nobody
\* else's.
LEMMA MoveKeepsOrder ==
  ASSUME TypeOK, InOrder, UNCHANGED <<ctxDone, caller, next, size>>,
         NEW p \in Pools, NEW i \in Items, NEW place \in Places \ {"unborn"},
         job' = [job EXCEPT ![p][i] = place], job[p][i] \in Counted
  PROVE  InOrder'
<1>1. job \in Jobs
  BY DEF TypeOK, Jobs, Places
<1>2. /\ job'[p][i] = place
      /\ \A q \in Pools : \A k \in Items :
           q # p \/ k # i => job'[q][k] = job[q][k]
  BY <1>1 DEF Jobs
<1>3. job[p][i] # "unborn"
  BY DEF Working, Holding, Counted
<1>4. ASSUME NEW q \in Pools PROVE PoolInOrder(q)'
  <2>1. PoolInOrder(q)
    BY DEF InOrder
  <2>2. caller[p] # "back"
    BY DEF InOrder, PoolInOrder
  <2>3. \A k \in Items : job'[q][k] = "unborn" <=> job[q][k] = "unborn"
    BY <1>2, <1>3
  <2>4. caller[q] = "back" => \A k \in Items : job'[q][k] = job[q][k]
    BY <1>2, <2>2
  <2> QED
    BY <2>1, <2>3, <2>4 DEF PoolInOrder
<1> QED
  BY <1>4 DEF InOrder

LEMMA OrderStep ==
  ASSUME TypeOK, InOrder, Nested, WaitExact, [Next]_vars
  PROVE  InOrder'
<1>0. /\ job \in Jobs /\ caller \in Callers
      /\ next \in [Pools -> Nat] /\ size \in [Pools -> Nat]
      /\ wg \in [Pools -> Int]
  BY DEF TypeOK, Jobs, Places, Callers
<1>I. /\ size[Outer] = IF caller[Outer] = "out" THEN 0 ELSE NumRepos
      /\ \A r \in Repos : size[r] <= MaxRefs /\ (caller[r] = "out" => size[r] = 0)
      /\ \A p \in Pools : PoolInOrder(p)
  BY DEF InOrder
<1>P. Outer \in Pools /\ Repos \subseteq Pools /\ Outer \notin Repos
  BY Positions
<1>1. ASSUME NEW p \in Pools, Offer(p) \/ LastItem(p)
      PROVE  InOrder'
  <2>1. /\ UNCHANGED <<ctxDone, next, size, job>> /\ caller[p] = "loop"
        /\ \/ caller' = [caller EXCEPT ![p] = "send"] /\ next[p] <= size[p]
           \/ /\ caller' = [caller EXCEPT ![p] = "wait"]
              /\ next[p] > size[p] \/ ctxDone
    BY <1>1 DEF Offer, LastItem
  <2>2. \A q \in Pools : q # p => caller'[q] = caller[q]
    BY <1>0, <2>1 DEF Callers
  <2>3. caller'[p] \in {"send", "wait"}
    BY <1>0, <2>1 DEF Callers
  <2>4. /\ caller'[p] = "send" => next[p] <= size[p]
        /\ caller'[p] = "wait" => next[p] > size[p] \/ ctxDone
    BY <1>0, <2>1 DEF Callers
  <2>5. ASSUME NEW q \in Pools PROVE PoolInOrder(q)'
    BY <1>I, <2>1, <2>2, <2>3, <2>4 DEF PoolInOrder
  <2>6. size[Outer] = IF caller'[Outer] = "out" THEN 0 ELSE NumRepos
    BY <1>I, <1>P, <2>1, <2>2, <2>3
  <2>7. \A r \in Repos : caller'[r] = "out" => caller[r] = "out"
    BY <1>P, <2>2, <2>3
  <2> QED
    BY <1>I, <2>1, <2>5, <2>6, <2>7 DEF InOrder
<1>2. ASSUME NEW p \in Pools, Wait(p)
      PROVE  InOrder'
  <2>1. /\ UNCHANGED <<ctxDone, next, size, job>> /\ caller[p] = "wait"
        /\ caller' = [caller EXCEPT ![p] = "back"] /\ wg[p] = 0
    BY <1>2 DEF Wait, AllDone
  <2>2. \A i \in Items : job[p][i] \notin Counted
    <3>1. IsFiniteSet(InPool(p, Counted))
      BY Positions, FS_Subset DEF InPool
    <3>2. Cardinality(InPool(p, Counted)) = 0
      BY <2>1, <3>1, FS_CardinalityType DEF WaitExact
    <3>3. InPool(p, Counted) = {}
      BY <3>1, <3>2, FS_EmptySet
    <3> QED
      BY <3>3 DEF InPool
  <2>3. \A q \in Pools : q # p => caller'[q] = caller[q]
    BY <1>0, <2>1 DEF Callers
  <2>4. caller'[p] = "back"
    BY <1>0, <2>1 DEF Callers
  <2>5. ASSUME NEW q \in Pools PROVE PoolInOrder(q)'
    BY <1>I, <2>1, <2>2, <2>3, <2>4 DEF PoolInOrder
  <2>6. size[Outer] = IF caller'[Outer] = "out" THEN 0 ELSE NumRepos
    BY <1>I, <1>P, <2>1, <2>3, <2>4
  <2>7. \A r \in Repos : caller'[r] = "out" => caller[r] = "out"
    BY <1>P, <2>3, <2>4
  <2> QED
    BY <1>I, <2>1, <2>5, <2>6, <2>7 DEF InOrder
<1>3. ASSUME NEW p \in Pools, Launch(p)
      PROVE  InOrder'
  <2>1. PICK place \in {"sync", "lookup"} : job' = [job EXCEPT ![p][next[p]] = place]
    BY <1>3 DEF Launch
  <2>2. /\ UNCHANGED <<ctxDone, size>> /\ caller[p] = "send"
        /\ caller' = [caller EXCEPT ![p] = "loop"]
        /\ next' = [next EXCEPT ![p] = @ + 1]
    BY <1>3 DEF Launch
  <2>3. next[p] \in Items /\ next[p] \in Nat /\ Items \subseteq Nat
    BY <1>0, <2>2, NextInSlice, Positions
  <2>4. /\ job'[p][next[p]] \in {"sync", "lookup"}
        /\ \A q \in Pools : \A k \in Items :
             q # p \/ k # next[p] => job'[q][k] = job[q][k]
    BY <1>0, <2>1, <2>3 DEF Jobs
  <2>5. /\ \A q \in Pools : q # p => caller'[q] = caller[q] /\ next'[q] = next[q]
        /\ caller'[p] = "loop" /\ next'[p] = next[p] + 1
    BY <1>0, <2>2 DEF Callers
  <2>6. PoolInOrder(p)'
    <3>1. next[p] \in 1..size[p] + 1 /\ next[p] <= size[p] /\ size[p] \in Nat
      BY <1>0, <1>I, <2>2 DEF PoolInOrder
    <3>2. next'[p] \in 1..size[p] + 1
      BY <2>3, <2>5, <3>1
    <3>3. \A i \in Items : job'[p][i] = "unborn" <=> i >= next'[p]
      <4> TAKE i \in Items
      <4>1. CASE i = next[p]
        BY <2>3, <2>4, <2>5, <4>1
      <4>2. CASE i # next[p]
        <5>1. job[p][i] = "unborn" <=> i >= next[p]
          BY <1>I DEF PoolInOrder
        <5>2. i \in Nat
          BY <2>3
        <5> QED
          BY <2>3, <2>4, <2>5, <4>2, <5>1, <5>2
      <4> QED
        BY <4>1, <4>2
    <3> QED
      BY <2>2, <2>5, <3>2, <3>3 DEF PoolInOrder
  <2>7. ASSUME NEW q \in Pools, q # p PROVE PoolInOrder(q)'
    <3>1. \A k \in Items : job'[q][k] = job[q][k]
      BY <2>4, <2>7
    <3> QED
      BY <1>I, <2>2, <2>5, <2>7, <3>1 DEF PoolInOrder
  <2>8. size[Outer] = IF caller'[Outer] = "out" THEN 0 ELSE NumRepos
    BY <1>I, <1>P, <2>2, <2>5
  <2>9. \A r \in Repos : caller'[r] = "out" => caller[r] = "out"
    BY <1>P, <2>2, <2>5
  <2> QED
    BY <1>I, <2>2, <2>6, <2>7, <2>8, <2>9 DEF InOrder
<1>4. ASSUME NEW p \in Pools, NEW i \in Items, Release(p, i) \/ Done(p, i)
      PROVE  InOrder'
  <2>1. \E place \in {"released", "done"} : job' = [job EXCEPT ![p][i] = place]
    BY <1>4 DEF Release, Done
  <2>2. /\ UNCHANGED <<ctxDone, caller, next, size>>
        /\ job[p][i] \in {"returned", "released"}
    BY <1>4 DEF Release, Done
  <2>3. {"released", "done"} \subseteq Places \ {"unborn"}
        /\ {"returned", "released"} \subseteq Counted
    BY DEF Places, Counted, Holding
  <2> QED
    BY <2>1, <2>2, <2>3, MoveKeepsOrder
<1>5. ASSUME NEW r \in Repos, RepoStep(r), ~Walk(r)
      PROVE  InOrder'
  <2>1. \E p \in Pools, i \in Items, place \in Places \ {"unborn"} :
          job' = [job EXCEPT ![p][i] = place] /\ job[p][i] \in Counted
    <3>1. CASE \E i \in Refs : Lookup(r, i)
      BY <3>1, Positions DEF Lookup, Places, Counted, Holding, Working
    <3>2. CASE \/ StartGit(r) \/ SyncSucceeds(r) \/ SyncFails(r)
               \/ Checked(r) \/ Collect(r)
      <4>1. \E place \in {"git", "walk", "returned", "collect"} :
              job' = [job EXCEPT ![Outer][r] = place]
        BY <3>2 DEF StartGit, SyncSucceeds, SyncFails, Checked, Collect, RepoGoesTo
      <4>2. job[Outer][r] \in {"sync", "git", "checks", "collect"}
        BY <3>2 DEF StartGit, SyncSucceeds, SyncFails, Checked, Collect, RepoAt
      <4>3. /\ {"git", "walk", "returned", "collect"} \subseteq Places \ {"unborn"}
            /\ {"sync", "git", "checks", "collect"} \subseteq Counted
        BY DEF Places, Counted, Holding, Working
      <4> QED
        BY <4>1, <4>2, <4>3, Positions
    <3> QED
      BY <1>5, <3>1, <3>2 DEF RepoStep
  <2>2. UNCHANGED <<ctxDone, caller, next, size>>
    BY <1>5 DEF RepoStep, StartGit, SyncSucceeds, SyncFails, Checked, Collect, Lookup
  <2> QED
    BY <2>1, <2>2, MoveKeepsOrder
<1>6. ASSUME NEW r \in Repos, Walk(r)
      PROVE  InOrder'
  <2>1. PICK n \in 0..MaxRefs : size' = [size EXCEPT ![r] = n]
    BY <1>6 DEF Walk
  <2>2. /\ UNCHANGED <<ctxDone, next>> /\ job[Outer][r] = "walk"
        /\ caller' = [caller EXCEPT ![r] = "loop"]
        /\ job' = [job EXCEPT ![Outer][r] = "checks"]
    BY <1>6 DEF Walk, RepoAt, RepoGoesTo
  <2>3. r \in Pools /\ r \in Items /\ r # Outer
    BY Positions
  <2>4. caller[r] = "out"
    BY <2>2 DEF Nested, CallerPlaces
  <2>5. /\ \A q \in Pools : q # r => caller'[q] = caller[q] /\ size'[q] = size[q]
        /\ caller'[r] = "loop" /\ size'[r] = n
    BY <1>0, <2>1, <2>2, <2>3 DEF Callers
  <2>6. /\ job'[Outer][r] = "checks"
        /\ \A q \in Pools : \A k \in Items :
             q # Outer \/ k # r => job'[q][k] = job[q][k]
    BY <1>0, <1>P, <2>2, <2>3 DEF Jobs
  <2>7. PoolInOrder(r)'
    <3>1. next[r] = 1
      BY <1>0, <1>I, <2>3, <2>4 DEF PoolInOrder
    <3>2. \A k \in Items : job'[r][k] = job[r][k]
      BY <2>3, <2>6
    <3>3. next[r] \in 1..n + 1
      BY <3>1, BoundIsNatural
    <3> QED
      BY <1>I, <2>2, <2>3, <2>5, <3>2, <3>3 DEF PoolInOrder
  <2>8. PoolInOrder(Outer)'
    <3>1. caller[Outer] # "back"
      BY <1>I, <1>P, <2>2, <2>3 DEF PoolInOrder, Counted, Holding, Working
    <3>2. \A k \in Items : job'[Outer][k] = "unborn" <=> job[Outer][k] = "unborn"
      BY <1>P, <2>2, <2>6
    <3> QED
      BY <1>I, <1>P, <2>2, <2>3, <2>5, <3>1, <3>2 DEF PoolInOrder
  <2>9. ASSUME NEW q \in Pools, q # r, q # Outer PROVE PoolInOrder(q)'
    <3>1. \A k \in Items : job'[q][k] = job[q][k]
      BY <2>6, <2>9
    <3> QED
      BY <1>I, <2>2, <2>5, <2>9, <3>1 DEF PoolInOrder
  <2>10. /\ size'[Outer] = IF caller'[Outer] = "out" THEN 0 ELSE NumRepos
         /\ \A q \in Repos : size'[q] <= MaxRefs /\ (caller'[q] = "out" => size'[q] = 0)
    BY <1>I, <1>P, <2>3, <2>5, BoundIsNatural
  <2> QED
    BY <2>7, <2>8, <2>9, <2>10 DEF InOrder
<1>7. CASE Setup
  <2>1. /\ UNCHANGED <<ctxDone, next, job>> /\ stage = "setup"
        /\ size' = [size EXCEPT ![Outer] = NumRepos]
        /\ caller' = [caller EXCEPT ![Outer] = "loop"]
    BY <1>7 DEF Setup
  <2>2. caller[Outer] = "out"
    BY <2>1 DEF Nested, RunPlaces
  <2>3. /\ \A q \in Pools : q # Outer => caller'[q] = caller[q] /\ size'[q] = size[q]
        /\ caller'[Outer] = "loop" /\ size'[Outer] = NumRepos
    BY <1>0, <1>P, <2>1 DEF Callers
  <2>4. PoolInOrder(Outer)'
    <3>1. next[Outer] = 1
      BY <1>0, <1>I, <1>P, <2>2 DEF PoolInOrder
    <3>2. next[Outer] \in 1..NumRepos + 1
      BY <3>1, NumbersArePositive
    <3> QED
      BY <1>I, <1>P, <2>1, <2>3, <3>2 DEF PoolInOrder
  <2>5. ASSUME NEW q \in Pools, q # Outer PROVE PoolInOrder(q)'
    BY <1>I, <2>1, <2>3, <2>5 DEF PoolInOrder
  <2> QED
    BY <1>I, <1>P, <2>3, <2>4, <2>5 DEF InOrder
<1>8. CASE SetupFails \/ Conclude \/ CleanUp \/ Cancel \/ Returned \/ UNCHANGED vars
  <2>1. /\ UNCHANGED <<caller, next, size, job>>
        /\ ctxDone => ctxDone'
    BY <1>8 DEF SetupFails, Conclude, CleanUp, Cancel, Returned, vars
  <2>2. ASSUME NEW q \in Pools PROVE PoolInOrder(q)'
    BY <1>I, <2>1 DEF PoolInOrder
  <2> QED
    BY <1>I, <2>1, <2>2 DEF InOrder
<1> QED
  BY <1>1, <1>2, <1>3, <1>4, <1>5, <1>6, <1>7, <1>8
     DEF Next, PoolStep, RunStep

-----------------------------------------------------------------------------
(* Where the goroutines are.                                                *)

LEMMA NestedInit == Init => Nested
<1> SUFFICES ASSUME Init PROVE Nested
  OBVIOUS
<1>1. RunPlaces
  BY Positions DEF Init, RunPlaces, NoAnswer
<1>2. JobPlaces
  BY Positions DEF Init, JobPlaces
<1>3. \A r \in Repos : CallerPlaces(r)
  BY Positions DEF Init, CallerPlaces
<1> QED
  BY <1>1, <1>2, <1>3 DEF Nested

LEMMA RunPlacesStep ==
  ASSUME TypeOK, InOrder, Nested, [Next]_vars
  PROVE  RunPlaces'
<1>0. caller \in Callers /\ Outer \in Pools /\ Repos \subseteq Pools
      /\ Outer \notin Repos
  BY Positions DEF TypeOK, Callers
<1>R. RunPlaces
  BY DEF Nested
<1>1. ASSUME NEW p \in Pools, Offer(p) \/ LastItem(p) \/ Launch(p) \/ Wait(p)
      PROVE  RunPlaces'
  <2>1. /\ UNCHANGED <<stage, answer>> /\ caller[p] \notin {"out", "back"}
        /\ \E place \in {"loop", "send", "wait", "back"} :
             caller' = [caller EXCEPT ![p] = place]
    BY <1>1 DEF Offer, LastItem, Launch, Wait
  <2> QED
    BY <1>0, <1>R, <2>1 DEF RunPlaces, Callers
<1>2. ASSUME NEW r \in Repos, Walk(r) PROVE RunPlaces'
  BY <1>0, <1>R, <1>2 DEF RunPlaces, Walk, Callers
<1>3. CASE Setup
  BY <1>0, <1>R, <1>3 DEF RunPlaces, Setup, Callers
<1>4. CASE SetupFails
  <2>1. answer'.err = "setup" /\ stage' = "returned" /\ caller' = caller
    BY <1>4 DEF SetupFails, NoAnswer
  <2>2. caller[Outer] = "out"
    BY <1>R, <1>4 DEF RunPlaces, SetupFails
  <2> QED
    BY <2>1, <2>2 DEF RunPlaces
<1>5. CASE Conclude
  <2>1. answer'.err # "none yet"
    BY <1>5 DEF Conclude, Answer, NoAnswer
  <2>2. stage' = "cleanup" /\ caller' = caller /\ caller[Outer] = "back"
    BY <1>5 DEF Conclude
  <2> QED
    BY <2>1, <2>2 DEF RunPlaces
<1>6. CASE CleanUp
  BY <1>R, <1>6 DEF RunPlaces, CleanUp
<1>7. CASE \/ \E p \in Pools, i \in Items : Release(p, i) \/ Done(p, i)
           \/ \E r \in Repos : RepoStep(r) /\ ~Walk(r)
           \/ Cancel \/ Returned \/ UNCHANGED vars
  <2>1. UNCHANGED <<stage, answer, caller>>
    BY <1>7 DEF Release, Done, RepoStep, StartGit, SyncSucceeds, SyncFails,
                Checked, Collect, Lookup, Cancel, Returned, vars
  <2> QED
    BY <1>R, <2>1 DEF RunPlaces
<1> QED
  BY <1>1, <1>2, <1>3, <1>4, <1>5, <1>6, <1>7 DEF Next, PoolStep, RunStep

LEMMA JobPlacesStep ==
  ASSUME TypeOK, InOrder, Nested, [Next]_vars
  PROVE  JobPlaces'
<1>0. job \in Jobs /\ Outer \in Pools /\ Repos \subseteq Pools /\ Outer \notin Repos
      /\ Repos \subseteq Items /\ Refs \subseteq Items
  BY Positions DEF TypeOK, Jobs, Places
<1>R. JobPlaces
  BY DEF Nested
<1>1. ASSUME NEW p \in Pools, Launch(p) PROVE JobPlaces'
  <2>1. next[p] \in Items
    BY <1>1, NextInSlice DEF Launch
  <2>2. job' = [job EXCEPT ![p][next[p]] = IF p = Outer THEN "sync" ELSE "lookup"]
    BY <1>1 DEF Launch
  <2> QED
    BY <1>0, <1>R, <2>1, <2>2 DEF JobPlaces, Jobs
<1>2. ASSUME NEW p \in Pools, NEW i \in Items, Release(p, i) \/ Done(p, i)
      PROVE  JobPlaces'
  <2>1. \E place \in {"released", "done"} : job' = [job EXCEPT ![p][i] = place]
    BY <1>2 DEF Release, Done
  <2> QED
    BY <1>0, <1>R, <2>1 DEF JobPlaces, Jobs, Ended
<1>3. ASSUME NEW r \in Repos, NEW i \in Refs, Lookup(r, i) PROVE JobPlaces'
  <2>1. job' = [job EXCEPT ![r][i] = "returned"]
    BY <1>3 DEF Lookup
  <2> QED
    BY <1>0, <1>R, <2>1 DEF JobPlaces, Jobs, Ended
<1>4. ASSUME NEW r \in Repos,
             \/ StartGit(r) \/ SyncSucceeds(r) \/ SyncFails(r) \/ Walk(r)
             \/ Checked(r) \/ Collect(r)
      PROVE  JobPlaces'
  <2>1. \E place \in {"git", "walk", "returned", "checks", "collect"} :
          job' = [job EXCEPT ![Outer][r] = place]
    BY <1>4 DEF StartGit, SyncSucceeds, SyncFails, Walk, Checked, Collect, RepoGoesTo
  <2> QED
    BY <1>0, <1>R, <2>1 DEF JobPlaces, Jobs
<1>5. CASE \/ \E p \in Pools : Offer(p) \/ LastItem(p) \/ Wait(p)
           \/ RunStep \/ Cancel \/ Returned \/ UNCHANGED vars
  <2>1. job' = job
    BY <1>5 DEF Offer, LastItem, Wait, RunStep, Setup, SetupFails, Conclude,
                CleanUp, Cancel, Returned, vars
  <2> QED
    BY <1>R, <2>1 DEF JobPlaces
<1> QED
  BY <1>1, <1>2, <1>3, <1>4, <1>5 DEF Next, PoolStep, RepoStep

LEMMA CallerPlacesStep ==
  ASSUME TypeOK, InOrder, Nested, [Next]_vars, NEW r \in Repos
  PROVE  CallerPlaces(r)'
<1>0. /\ job \in Jobs /\ caller \in Callers
      /\ Outer \in Pools /\ Repos \subseteq Pools /\ Outer \notin Repos
      /\ Repos \subseteq Items /\ r \in Pools /\ r \in Items /\ r # Outer
  BY Positions DEF TypeOK, Jobs, Places, Callers
<1>R. CallerPlaces(r)
  BY DEF Nested
<1>1. ASSUME NEW p \in Pools, Offer(p) \/ LastItem(p) \/ Wait(p)
      PROVE  CallerPlaces(r)'
  <2>1. /\ UNCHANGED <<job, repoErrs>> /\ caller[p] \in {"loop", "send", "wait"}
        /\ \E place \in {"send", "wait", "back"} : caller' = [caller EXCEPT ![p] = place]
    BY <1>1 DEF Offer, LastItem, Wait
  <2> QED
    BY <1>0, <1>R, <2>1 DEF CallerPlaces, RepoAt, Callers
<1>2. ASSUME NEW p \in Pools, Launch(p)
      PROVE  CallerPlaces(r)'
  <2>1. next[p] \in Items /\ job[p][next[p]] = "unborn"
    BY <1>2, NextInSlice, LaunchUnborn DEF Launch
  <2>2. /\ job' = [job EXCEPT ![p][next[p]] = IF p = Outer THEN "sync" ELSE "lookup"]
        /\ caller' = [caller EXCEPT ![p] = "loop"] /\ caller[p] = "send"
        /\ repoErrs' = repoErrs
    BY <1>2 DEF Launch
  <2>3. CASE p = Outer /\ next[p] = r
    <3>1. job'[Outer][r] = "sync" /\ job[Outer][r] = "unborn" /\ caller'[r] = caller[r]
      BY <1>0, <2>1, <2>2, <2>3 DEF Jobs, Callers
    <3> QED
      BY <1>R, <2>2, <3>1 DEF CallerPlaces, RepoAt, Ended
  <2>4. CASE ~(p = Outer /\ next[p] = r)
    <3>1. job'[Outer][r] = job[Outer][r]
      BY <1>0, <2>1, <2>2, <2>4 DEF Jobs
    <3> QED
      BY <1>0, <1>R, <2>2, <3>1 DEF CallerPlaces, RepoAt, Callers
  <2> QED
    BY <2>3, <2>4
<1>3. ASSUME NEW p \in Pools, NEW i \in Items, Release(p, i) \/ Done(p, i)
      PROVE  CallerPlaces(r)'
  <2>1. /\ \E place \in {"released", "done"} : job' = [job EXCEPT ![p][i] = place]
        /\ job[p][i] \in {"returned", "released"}
        /\ UNCHANGED <<caller, repoErrs>>
    BY <1>3 DEF Release, Done
  <2> QED
    BY <1>0, <1>R, <2>1 DEF CallerPlaces, RepoAt, Jobs, Ended
<1>4. ASSUME NEW q \in Repos, NEW i \in Refs, Lookup(q, i)
      PROVE  CallerPlaces(r)'
  <2>1. /\ job' = [job EXCEPT ![q][i] = "returned"] /\ UNCHANGED <<caller, repoErrs>>
    BY <1>4 DEF Lookup
  <2>2. job'[Outer][r] = job[Outer][r]
    BY <1>0, <2>1 DEF Jobs
  <2> QED
    BY <1>R, <2>1, <2>2 DEF CallerPlaces, RepoAt
<1>5. ASSUME NEW q \in Repos, q # r,
             \/ StartGit(q) \/ SyncSucceeds(q) \/ SyncFails(q) \/ Walk(q)
             \/ Checked(q) \/ Collect(q)
      PROVE  CallerPlaces(r)'
  <2>1. \E place \in Places : job' = [job EXCEPT ![Outer][q] = place]
    BY <1>5, PlacesKnown DEF StartGit, SyncSucceeds, SyncFails, Walk, Checked,
                             Collect, RepoGoesTo
  <2>2. job'[Outer][r] = job[Outer][r]
    BY <1>0, <1>5, <2>1 DEF Jobs
  <2>3. caller'[r] = caller[r]
    BY <1>0, <1>5 DEF StartGit, SyncSucceeds, SyncFails, Walk, Checked, Collect,
                      Callers
  <2>4. r \in repoErrs' <=> r \in repoErrs
    BY <1>5 DEF StartGit, SyncSucceeds, SyncFails, SyncFailed, Walk, Checked, Collect
  <2> QED
    BY <1>R, <2>2, <2>3, <2>4 DEF CallerPlaces, RepoAt
<1>6. CASE StartGit(r) \/ SyncSucceeds(r)
  <2>1. /\ job[Outer][r] \in {"sync", "git"} /\ UNCHANGED <<caller, repoErrs>>
        /\ \E place \in {"git", "walk"} : job' = [job EXCEPT ![Outer][r] = place]
    BY <1>6 DEF StartGit, SyncSucceeds, RepoAt, RepoGoesTo
  <2>2. job'[Outer][r] \in {"git", "walk"}
    BY <1>0, <2>1 DEF Jobs
  <2> QED
    BY <1>R, <2>1, <2>2 DEF CallerPlaces, RepoAt, Ended
<1>7. CASE SyncFails(r)
  <2>1. /\ job[Outer][r] \in {"sync", "git"} /\ UNCHANGED caller
        /\ job' = [job EXCEPT ![Outer][r] = "returned"] /\ r \in repoErrs'
    BY <1>7 DEF SyncFails, SyncFailed, RepoAt, RepoGoesTo
  <2>2. job'[Outer][r] = "returned"
    BY <1>0, <2>1 DEF Jobs
  <2> QED
    BY <1>R, <2>1, <2>2 DEF CallerPlaces, RepoAt, Ended
<1>8. CASE Walk(r)
  <2>1. /\ job[Outer][r] = "walk" /\ UNCHANGED repoErrs
        /\ job' = [job EXCEPT ![Outer][r] = "checks"]
        /\ caller' = [caller EXCEPT ![r] = "loop"]
    BY <1>8 DEF Walk, RepoAt, RepoGoesTo
  <2>2. job'[Outer][r] = "checks" /\ caller'[r] = "loop"
    BY <1>0, <2>1 DEF Jobs, Callers
  <2> QED
    BY <1>R, <2>1, <2>2 DEF CallerPlaces, RepoAt, Ended
<1>9. CASE Checked(r)
  <2>1. /\ job[Outer][r] = "checks" /\ caller[r] = "back"
        /\ UNCHANGED <<caller, repoErrs>>
        /\ job' = [job EXCEPT ![Outer][r] = "collect"]
    BY <1>9 DEF Checked, RepoAt, RepoGoesTo
  <2>2. job'[Outer][r] = "collect"
    BY <1>0, <2>1 DEF Jobs
  <2> QED
    BY <1>R, <2>1, <2>2 DEF CallerPlaces, RepoAt, Ended
<1>10. CASE Collect(r)
  <2>1. /\ job[Outer][r] = "collect" /\ UNCHANGED <<caller, repoErrs>>
        /\ job' = [job EXCEPT ![Outer][r] = "returned"]
    BY <1>10 DEF Collect, RepoAt, RepoGoesTo
  <2>2. job'[Outer][r] = "returned"
    BY <1>0, <2>1 DEF Jobs
  <2> QED
    BY <1>R, <2>1, <2>2 DEF CallerPlaces, RepoAt, Ended
<1>11. CASE RunStep \/ Cancel \/ Returned \/ UNCHANGED vars
  <2>1. UNCHANGED <<job, repoErrs>> /\ caller'[r] = caller[r]
    BY <1>0, <1>11 DEF RunStep, Setup, SetupFails, Conclude, CleanUp, Cancel,
                       Returned, vars, Callers
  <2> QED
    BY <1>R, <2>1 DEF CallerPlaces, RepoAt
<1> QED
  BY <1>1, <1>2, <1>3, <1>4, <1>5, <1>6, <1>7, <1>8, <1>9, <1>10, <1>11
     DEF Next, PoolStep, RepoStep

LEMMA NestedStep ==
  ASSUME TypeOK, InOrder, Nested, [Next]_vars
  PROVE  Nested'
BY RunPlacesStep, JobPlacesStep, CallerPlacesStep DEF Nested

-----------------------------------------------------------------------------
(* What was found and what was kept of it.                                  *)

LEMMA RecordedInit == Init => Recorded
BY Positions DEF Init, Recorded, LookupsRecorded, RepoRecorded, Ended

\* While a lookup runs its repository's goroutine waits in scanDir.
LEMMA LookupMeansChecks ==
  ASSUME TypeOK, InOrder, Nested, NEW r \in Repos, NEW i \in Items,
         job[r][i] = "lookup"
  PROVE  job[Outer][r] = "checks"
<1>1. r \in Pools /\ i \in Nat /\ next[r] \in Nat /\ caller \in Callers
  BY Positions DEF TypeOK, Callers
<1>2. PoolInOrder(r) /\ CallerPlaces(r) /\ (caller[r] = "out" => size[r] = 0)
  BY <1>1 DEF InOrder, Nested
<1>3. caller[r] # "back"
  BY <1>2 DEF PoolInOrder, Counted, Holding, Working
<1>4. caller[r] # "out"
  <2>1. caller[r] = "out" => next[r] = 1
    BY <1>1, <1>2 DEF PoolInOrder
  <2>2. i >= 1
    BY NumbersArePositive, BoundIsNatural DEF Items, Repos, Refs
  <2> QED
    BY <1>1, <1>2, <2>1, <2>2 DEF PoolInOrder
<1> QED
  BY <1>1, <1>2, <1>3, <1>4 DEF CallerPlaces, RepoAt, Callers

LEMMA LookupsStep ==
  ASSUME TypeOK, InOrder, Nested, Recorded, [Next]_vars, NEW r \in Repos
  PROVE  LookupsRecorded(r)'
<1>0. /\ job \in Jobs /\ found \in [Repos -> SUBSET Finding]
      /\ Outer \in Pools /\ Repos \subseteq Pools /\ Outer \notin Repos
      /\ Refs \subseteq Items /\ r \in Pools /\ r # Outer
  BY Positions DEF TypeOK, Jobs, Places
<1>R. LookupsRecorded(r) /\ found[r] \subseteq Finding
  BY <1>0 DEF Recorded
<1>1. ASSUME NEW i \in Refs, Lookup(r, i)
      PROVE  LookupsRecorded(r)'
  <2>1. PICK kind \in IF ctxDone THEN Kinds ELSE Kinds \ {"cancelled"} :
          found' = [found EXCEPT ![r] = @ \cup {[ref |-> i, kind |-> kind]}]
    BY <1>1 DEF Lookup
  <2> DEFINE new == [ref |-> i, kind |-> kind]
  <2>2. /\ job' = [job EXCEPT ![r][i] = "returned"] /\ job[r][i] = "lookup"
        /\ ctxDone' = ctxDone
    BY <1>1 DEF Lookup
  <2>3. /\ job'[r][i] = "returned"
        /\ \A k \in Items : k # i => job'[r][k] = job[r][k]
    BY <1>0, <2>2 DEF Jobs
  <2>4. found'[r] = found[r] \cup {new}
    BY <1>0, <2>1
  <2>5. new.ref = i /\ (new.kind = "cancelled" => ctxDone)
    BY <2>1
  <2>6. \A f \in found[r] : f.ref \in Refs /\ f.ref # i
    BY <1>R, <2>2 DEF LookupsRecorded, Ended, Finding
  <2> HIDE DEF new
  <2>7. \A f \in found'[r] : f.kind = "cancelled" => ctxDone'
    BY <1>R, <2>2, <2>4, <2>5 DEF LookupsRecorded
  <2>8. \A f \in found'[r] : job'[r][f.ref] \in Ended
    BY <1>0, <1>R, <2>3, <2>4, <2>5, <2>6 DEF LookupsRecorded, Ended
  <2>9. \A f, h \in found'[r] : f.ref = h.ref => f = h
    BY <1>R, <2>4, <2>5, <2>6 DEF LookupsRecorded
  <2>10. \A k \in Refs : job'[r][k] \in Ended => \E f \in found'[r] : f.ref = k
    <3> TAKE k \in Refs
    <3>1. CASE k = i
      BY <2>4, <2>5, <3>1
    <3>2. CASE k # i
      BY <1>0, <1>R, <2>3, <2>4, <3>2 DEF LookupsRecorded
    <3> QED
      BY <3>1, <3>2
  <2> QED
    BY <2>7, <2>8, <2>9, <2>10 DEF LookupsRecorded
<1>2. ASSUME ~\E i \in Refs : Lookup(r, i)
      PROVE  LookupsRecorded(r)'
  <2>1. found'[r] = found[r]
    <3>1. ASSUME NEW q \in Repos, NEW i \in Refs, Lookup(q, i)
          PROVE  found'[r] = found[r]
      BY <1>0, <1>2, <3>1 DEF Lookup
    <3>2. CASE ~\E q \in Repos, i \in Refs : Lookup(q, i)
      BY <3>2 DEF Next, PoolStep, Offer, LastItem, Launch, Wait, Release, Done,
                  RepoStep, StartGit, SyncSucceeds, SyncFails, Walk, Checked,
                  Collect, RunStep, Setup, SetupFails, Conclude, CleanUp, Cancel,
                  Returned, vars
    <3> QED
      BY <3>1, <3>2
  <2>2. ctxDone => ctxDone'
    BY DEF Next, PoolStep, Offer, LastItem, Launch, Wait, Release, Done,
           RepoStep, StartGit, SyncSucceeds, SyncFails, Walk, Checked, Lookup,
           Collect, RunStep, Setup, SetupFails, Conclude, CleanUp, Cancel,
           Returned, vars
  <2>3. \A k \in Items : job'[r][k] \in Ended <=> job[r][k] \in Ended
    <3>1. ASSUME NEW p \in Pools, Launch(p)
          PROVE  \A k \in Items : job'[r][k] \in Ended <=> job[r][k] \in Ended
      <4>1. next[p] \in Items /\ job[p][next[p]] = "unborn"
        BY <3>1, NextInSlice, LaunchUnborn DEF Launch
      <4>2. \E place \in {"sync", "lookup"} : job' = [job EXCEPT ![p][next[p]] = place]
        BY <3>1 DEF Launch
      <4> QED
        BY <1>0, <4>1, <4>2 DEF Jobs, Ended
    <3>2. ASSUME NEW p \in Pools, NEW i \in Items, Release(p, i) \/ Done(p, i)
          PROVE  \A k \in Items : job'[r][k] \in Ended <=> job[r][k] \in Ended
      <4>1. /\ \E place \in {"released", "done"} : job' = [job EXCEPT ![p][i] = place]
            /\ job[p][i] \in {"returned", "released"}
        BY <3>2 DEF Release, Done
      <4> QED
        BY <1>0, <4>1 DEF Jobs, Ended
    <3>3. ASSUME NEW q \in Repos, RepoStep(q)
          PROVE  \A k \in Items : job'[r][k] \in Ended <=> job[r][k] \in Ended
      <4>1. CASE \E i \in Refs : Lookup(q, i)
        BY <1>0, <1>2, <4>1 DEF Lookup, Jobs
      <4>2. CASE ~\E i \in Refs : Lookup(q, i)
        <5>1. \E place \in Places : job' = [job EXCEPT ![Outer][q] = place]
          BY <3>3, <4>2, PlacesKnown
             DEF RepoStep, StartGit, SyncSucceeds, SyncFails, Walk, Checked, Collect,
                 RepoGoesTo
        <5> QED
          BY <1>0, <5>1 DEF Jobs
      <4> QED
        BY <4>1, <4>2
    <3>4. CASE \/ \E p \in Pools : Offer(p) \/ LastItem(p) \/ Wait(p)
               \/ RunStep \/ Cancel \/ Returned \/ UNCHANGED vars
      <4>1. job' = job
        BY <3>4 DEF Offer, LastItem, Wait, RunStep, Setup, SetupFails, Conclude,
                    CleanUp, Cancel, Returned, vars
      <4> QED
        BY <4>1
    <3> QED
      BY <3>1, <3>2, <3>3, <3>4 DEF Next, PoolStep
  <2>4. \A f \in found[r] : f.ref \in Items
    BY <1>0, <1>R DEF Finding
  <2> QED
    BY <1>0, <1>R, <2>1, <2>2, <2>3, <2>4 DEF LookupsRecorded
<1> QED
  BY <1>1, <1>2

LEMMA RepoRecordedStep ==
  ASSUME TypeOK, InOrder, Nested, Recorded, [Next]_vars, NEW r \in Repos
  PROVE  RepoRecorded(r)'
<1>0. /\ job \in Jobs /\ found \in [Repos -> SUBSET Finding]
      /\ Outer \in Pools /\ Repos \subseteq Pools /\ Outer \notin Repos
      /\ Refs \subseteq Items /\ Repos \subseteq Items
      /\ r \in Pools /\ r \in Items /\ r # Outer
  BY Positions DEF TypeOK, Jobs, Places
<1>R. RepoRecorded(r) /\ CallerPlaces(r)
  BY DEF Recorded, Nested
<1>1. ASSUME job'[Outer][r] \in Ended <=> job[Outer][r] \in Ended,
             UNCHANGED <<results, repoErrs>>,
             found'[r] = found[r] \/ job[Outer][r] \notin Ended
      PROVE  RepoRecorded(r)'
  BY <1>1, <1>R DEF RepoRecorded
<1>2. ASSUME NEW p \in Pools, PoolStep(p)
      PROVE  RepoRecorded(r)'
  <2>1. UNCHANGED <<found, results, repoErrs>>
    BY <1>2 DEF PoolStep, Offer, LastItem, Launch, Wait, Release, Done
  <2>2. job'[Outer][r] \in Ended <=> job[Outer][r] \in Ended
    <3>1. CASE Launch(p)
      <4>1. next[p] \in Items /\ job[p][next[p]] = "unborn"
        BY <3>1, NextInSlice, LaunchUnborn DEF Launch
      <4>2. \E place \in {"sync", "lookup"} : job' = [job EXCEPT ![p][next[p]] = place]
        BY <3>1 DEF Launch
      <4> QED
        BY <1>0, <4>1, <4>2 DEF Jobs, Ended
    <3>2. ASSUME NEW i \in Items, Release(p, i) \/ Done(p, i)
          PROVE  job'[Outer][r] \in Ended <=> job[Outer][r] \in Ended
      <4>1. /\ \E place \in {"released", "done"} : job' = [job EXCEPT ![p][i] = place]
            /\ job[p][i] \in {"returned", "released"}
        BY <3>2 DEF Release, Done
      <4> QED
        BY <1>0, <4>1 DEF Jobs, Ended
    <3>3. CASE Offer(p) \/ LastItem(p) \/ Wait(p)
      BY <3>3 DEF Offer, LastItem, Wait
    <3> QED
      BY <1>2, <3>1, <3>2, <3>3 DEF PoolStep
  <2> QED
    BY <1>1, <2>1, <2>2
<1>3. ASSUME NEW q \in Repos, NEW i \in Refs, Lookup(q, i)
      PROVE  RepoRecorded(r)'
  <2>1. /\ UNCHANGED <<results, repoErrs>> /\ job[q][i] = "lookup"
        /\ job' = [job EXCEPT ![q][i] = "returned"]
        /\ \E S : found' = [found EXCEPT ![q] = S]
    BY <1>3 DEF Lookup
  <2>2. job'[Outer][r] = job[Outer][r]
    BY <1>0, <2>1 DEF Jobs
  <2>3. found'[r] = found[r] \/ job[Outer][r] \notin Ended
    <3>1. CASE q = r
      BY <1>0, <2>1, <3>1, LookupMeansChecks DEF Ended
    <3>2. CASE q # r
      BY <1>0, <2>1, <3>2
    <3> QED
      BY <3>1, <3>2
  <2> QED
    BY <1>1, <2>1, <2>2, <2>3
<1>4. ASSUME NEW q \in Repos, StartGit(q) \/ SyncSucceeds(q) \/ Walk(q) \/ Checked(q)
      PROVE  RepoRecorded(r)'
  <2>1. /\ UNCHANGED <<found, results, repoErrs>>
        /\ job[Outer][q] \in {"sync", "git", "walk", "checks"}
        /\ \E place \in {"git", "walk", "checks", "collect"} :
             job' = [job EXCEPT ![Outer][q] = place]
    BY <1>4 DEF StartGit, SyncSucceeds, Walk, Checked, RepoAt, RepoGoesTo
  <2>2. job'[Outer][r] \in Ended <=> job[Outer][r] \in Ended
    BY <1>0, <2>1 DEF Jobs, Ended
  <2> QED
    BY <1>1, <2>1, <2>2
<1>5. ASSUME NEW q \in Repos, SyncFails(q)
      PROVE  RepoRecorded(r)'
  <2>1. /\ UNCHANGED <<found, results>> /\ repoErrs' = repoErrs \cup {q}
        /\ job[Outer][q] \in {"git", "sync"}
        /\ job' = [job EXCEPT ![Outer][q] = "returned"]
    BY <1>5 DEF SyncFails, SyncFailed, RepoAt, RepoGoesTo
  <2>2. CASE q = r
    BY <1>R, <2>1, <2>2 DEF RepoRecorded, Ended
  <2>3. CASE q # r
    <3>1. job'[Outer][r] = job[Outer][r]
      BY <1>0, <2>1, <2>3 DEF Jobs
    <3> QED
      BY <1>R, <2>1, <2>3, <3>1 DEF RepoRecorded
  <2> QED
    BY <2>2, <2>3
<1>6. ASSUME NEW q \in Repos, Collect(q)
      PROVE  RepoRecorded(r)'
  <2>1. /\ UNCHANGED <<found, repoErrs>> /\ job[Outer][q] = "collect"
        /\ job' = [job EXCEPT ![Outer][q] = "returned"]
        /\ results' = results \cup {AsResult(q, f) : f \in found[q]}
    BY <1>6 DEF Collect, RepoAt, RepoGoesTo
  <2>2. \A f : AsResult(q, f).repo = q
    BY DEF AsResult
  <2>3. CASE q = r
    <3>1. job'[Outer][r] = "returned" /\ r \notin repoErrs
      BY <1>0, <1>R, <2>1, <2>3 DEF Jobs, CallerPlaces, Ended
    <3>2. \A x \in results : x.repo # r
      BY <1>R, <2>1, <2>3 DEF RepoRecorded, Ended
    <3> QED
      BY <2>1, <2>2, <2>3, <3>1, <3>2 DEF RepoRecorded, Ended
  <2>4. CASE q # r
    <3>1. job'[Outer][r] = job[Outer][r]
      BY <1>0, <2>1, <2>4 DEF Jobs
    <3>2. \A x \in results' : x.repo = r => x \in results
      BY <2>1, <2>2, <2>4
    <3> QED
      BY <1>R, <2>1, <3>1, <3>2 DEF RepoRecorded
  <2> QED
    BY <2>3, <2>4
<1>7. CASE RunStep \/ Cancel \/ Returned \/ UNCHANGED vars
  <2>1. UNCHANGED <<job, found, results, repoErrs>>
    BY <1>7 DEF RunStep, Setup, SetupFails, Conclude, CleanUp, Cancel, Returned, vars
  <2> QED
    BY <1>1, <2>1
<1> QED
  BY <1>2, <1>3, <1>4, <1>5, <1>6, <1>7 DEF Next, RepoStep

LEMMA RecordedStep ==
  ASSUME TypeOK, InOrder, Nested, Recorded, [Next]_vars
  PROVE  Recorded'
BY LookupsStep, RepoRecordedStep DEF Recorded

-----------------------------------------------------------------------------
(* The theorems.                                                            *)

\* The inductive invariant: types, tokens, the order of the launches, where the
\* goroutines are and what they recorded.
THEOREM RunnerInvariant == Spec => []RunnerInv
<1>1. Init => RunnerInv
  <2> SUFFICES ASSUME Init PROVE RunnerInv
    OBVIOUS
  <2>1. TokensExact /\ WaitExact
    <3>1. \A p \in Pools : InPool(p, Holding) = {} /\ InPool(p, Counted) = {}
      BY DEF Init, InPool, Counted, Holding, Working
    <3>2. Cardinality({}) = 0
      BY FS_EmptySet
    <3>3. \A p \in Pools : sem[p] = 0 /\ wg[p] = 0 /\ caller[p] = "out"
      BY DEF Init
    <3> QED
      BY <3>1, <3>2, <3>3, NumbersArePositive DEF TokensExact, WaitExact
  <2> QED
    BY <2>1, TypeInit, OrderInit, NestedInit, RecordedInit DEF RunnerInv
<1>2. RunnerInv /\ [Next]_vars => RunnerInv'
  BY TypeStep, CountStep, OrderStep, NestedStep, RecordedStep DEF RunnerInv
<1> QED
  BY <1>1, <1>2, PTL DEF Spec

\* No pool ever runs more than Limit items, and its tokens are counted right
\* (runner.go:355), whatever the repositories, references and the limit are.
THEOREM PoolsWithinLimit == Spec => []TokensExact
<1>1. RunnerInv => TokensExact
  BY DEF RunnerInv
<1> QED
  BY <1>1, RunnerInvariant, PTL

\* When Run cleans up or has returned, none of its goroutines is left.
LEMMA QuietAfterwards == RunnerInv => NothingOutlivesRun
<1> SUFFICES ASSUME RunnerInv, stage \in {"cleanup", "returned"},
                    NEW p \in Pools, NEW i \in Items
             PROVE  job[p][i] \in {"unborn", "done"}
  BY DEF NothingOutlivesRun
<1>1. /\ job \in Jobs /\ caller \in Callers
      /\ next \in [Pools -> Nat] /\ size \in [Pools -> Nat]
      /\ i >= 1 /\ i \in Nat
      /\ Outer \in Pools /\ Repos \subseteq Items /\ Pools = {Outer} \cup Repos
  <2>1. /\ job \in Jobs /\ caller \in Callers
        /\ next \in [Pools -> Nat] /\ size \in [Pools -> Nat]
    BY DEF RunnerInv, TypeOK, Jobs, Places, Callers
  <2>2. i >= 1 /\ i \in Nat
    BY NumbersArePositive, BoundIsNatural DEF Items, Repos, Refs
  <2> QED
    BY <2>1, <2>2, Positions DEF Pools
<1>2. \A q \in Pools : PoolInOrder(q) /\ (caller[q] = "out" => size[q] = 0)
  BY <1>1 DEF RunnerInv, InOrder
<1>3. ASSUME NEW q \in Pools, caller[q] \in {"out", "back"}, NEW k \in Items
      PROVE  job[q][k] \in {"unborn", "done"}
  <2>1. CASE caller[q] = "back"
    BY <1>1, <1>2, <2>1, PlacesKnown DEF PoolInOrder, Jobs, Places
  <2>2. CASE caller[q] = "out"
    <3>1. next[q] = 1
      BY <1>1, <1>2, <2>2 DEF PoolInOrder
    <3>2. k >= 1
      BY NumbersArePositive, BoundIsNatural DEF Items, Repos, Refs
    <3> QED
      BY <1>2, <3>1, <3>2 DEF PoolInOrder
  <2> QED
    BY <1>3, <2>1, <2>2
<1>4. caller[Outer] \in {"out", "back"}
  BY DEF RunnerInv, Nested, RunPlaces
<1>5. CASE p = Outer
  BY <1>3, <1>4, <1>5
<1>6. CASE p \in Repos
  <2>1. job[Outer][p] \in {"unborn", "done"}
    BY <1>1, <1>3, <1>4, <1>6
  <2>2. caller[p] \in {"out", "back"}
    BY <1>1, <1>6, <2>1 DEF RunnerInv, Nested, CallerPlaces, RepoAt, Callers
  <2> QED
    BY <1>3, <2>2
<1> QED
  BY <1>1, <1>5, <1>6

THEOREM NothingOutlives == Spec => []NothingOutlivesRun
BY QuietAfterwards, RunnerInvariant, PTL

\* A run that returns no error is complete.  At the moment Run decides, the
\* context is not done, so both pools launched every item, and both waited for
\* all of them; from then on no goroutine is left to change what was returned.
LEMMA ConcludeComplete ==
  ASSUME RunnerInv, Conclude, answer'.err = "nil"
  PROVE  CompleteOrError'
<1>1. /\ ~ctxDone /\ Cardinality(repoErrs) # NumRepos
      /\ answer' = [err |-> "nil", results |-> results, failed |-> repoErrs]
      /\ caller[Outer] = "back" /\ UNCHANGED size
  BY DEF Conclude, Answer, Interrupted, NoAnswer
<1>2. /\ job \in Jobs /\ caller \in Callers /\ found \in [Repos -> SUBSET Finding]
      /\ next \in [Pools -> Nat] /\ size \in [Pools -> Nat]
      /\ results \subseteq Result
      /\ Outer \in Pools /\ Repos \subseteq Items /\ Repos \subseteq Pools
      /\ Refs \subseteq Items /\ Items \subseteq Nat
  BY Positions DEF RunnerInv, TypeOK, Jobs, Places, Callers
<1>3. ASSUME NEW p \in Pools, caller[p] = "back", NEW i \in Items, i <= size[p]
      PROVE  job[p][i] = "done"
  <2>1. PoolInOrder(p)
    BY DEF RunnerInv, InOrder
  <2>2. i < next[p] /\ i \in Nat /\ next[p] \in Nat
    BY <1>1, <1>2, <1>3, <2>1 DEF PoolInOrder
  <2> QED
    BY <1>2, <1>3, <2>1, <2>2, PlacesKnown DEF PoolInOrder, Jobs, Places
<1>4. \A r \in Repos : job[Outer][r] = "done"
  <2>1. size[Outer] = NumRepos
    BY <1>1 DEF RunnerInv, InOrder
  <2>2. \A r \in Repos : r <= NumRepos
    BY NumbersArePositive DEF Repos
  <2> QED
    BY <1>1, <1>2, <1>3, <2>1, <2>2
<1>5. repoErrs # Repos
  BY <1>1, NumbersArePositive, FS_Interval DEF Repos
<1>6. ASSUME NEW r \in Repos, r \notin repoErrs
      PROVE  /\ \A f \in found[r] : AsResult(r, f) \in results
             /\ \A x \in results : x.repo = r => \E f \in found[r] : x = AsResult(r, f)
  BY <1>4, <1>6 DEF RunnerInv, Recorded, RepoRecorded, Ended
<1>7. \A f \in results : f.repo \in Repos /\ f.repo \notin repoErrs
  BY <1>2, <1>4 DEF RunnerInv, Recorded, RepoRecorded, Result
<1>8. \A f \in results : f.kind # "cancelled"
  <2> TAKE x \in results
  <2>1. PICK f \in found[x.repo] : x = AsResult(x.repo, f)
    BY <1>6, <1>7
  <2>2. f.kind # "cancelled"
    BY <1>1, <1>7, <2>1 DEF RunnerInv, Recorded, LookupsRecorded
  <2> QED
    BY <2>1, <2>2 DEF AsResult
<1>9. ASSUME NEW r \in Repos \ repoErrs, NEW i \in 1..size[r]
      PROVE  \E f \in results : /\ f.repo = r /\ f.ref = i
                                /\ \A h \in results :
                                     h.repo = r /\ h.ref = i => h = f
  <2>1. caller[r] = "back"
    BY <1>2, <1>4 DEF RunnerInv, Nested, CallerPlaces, RepoAt, Callers
  <2>2. i \in Refs /\ i \in Items /\ i <= size[r]
    <3>1. size[r] <= MaxRefs /\ size[r] \in Nat
      BY <1>2 DEF RunnerInv, InOrder
    <3> QED
      BY <1>2, <3>1, BoundIsNatural DEF Refs
  <2>3. job[r][i] = "done"
    BY <1>2, <1>3, <2>1, <2>2
  <2>4. LookupsRecorded(r)
    BY DEF RunnerInv, Recorded
  <2>5. PICK f \in found[r] : f.ref = i
    BY <2>2, <2>3, <2>4 DEF LookupsRecorded, Ended
  <2>6. AsResult(r, f) \in results /\ AsResult(r, f).repo = r /\ AsResult(r, f).ref = i
    BY <1>6, <2>5 DEF AsResult
  <2>7. ASSUME NEW h \in results, h.repo = r, h.ref = i
        PROVE  h = AsResult(r, f)
    <3>1. PICK e \in found[r] : h = AsResult(r, e)
      BY <1>6, <2>7
    <3>2. e.ref = i
      BY <2>7, <3>1 DEF AsResult
    <3>3. e = f
      BY <2>4, <2>5, <3>2 DEF LookupsRecorded
    <3> QED
      BY <3>1, <3>3
  <2> QED
    BY <2>6, <2>7
<1> QED
  <2>1. answer'.failed = repoErrs /\ answer'.results = results /\ size' = size
    BY <1>1
  <2>2. \A f \in results : f.repo \notin repoErrs /\ f.kind # "cancelled"
    BY <1>7, <1>8
  <2> QED
    BY <1>5, <1>9, <2>1, <2>2 DEF CompleteOrError

THEOREM RunIsComplete == Spec => []CompleteOrError
<1>1. Init => CompleteOrError
  <2>1. NoAnswer.err # "nil"
    BY DEF NoAnswer
  <2>2. Init => answer = NoAnswer
    BY Zenon DEF Init
  <2> QED
    BY <2>1, <2>2 DEF CompleteOrError
<1>2. RunnerInv /\ CompleteOrError /\ [Next]_vars => CompleteOrError'
  <2> SUFFICES ASSUME RunnerInv, CompleteOrError, [Next]_vars, answer'.err = "nil"
               PROVE  CompleteOrError'
    BY DEF CompleteOrError
  <2>1. CASE Conclude
    BY <2>1, ConcludeComplete
  <2>2. CASE ~Conclude
    <3>1. answer' = answer
      BY <2>2 DEF Next, PoolStep, Offer, LastItem, Launch, Wait, Release, Done,
                  RepoStep, StartGit, SyncSucceeds, SyncFails, Walk, Checked,
                  Collect, Lookup, RunStep, Setup, SetupFails, CleanUp, Cancel,
                  Returned, vars, NoAnswer
    <3>2. stage \in {"cleanup", "returned"}
      BY <3>1 DEF RunnerInv, Nested, RunPlaces
    <3>3. \A p \in Pools, i \in Items : job[p][i] \in {"unborn", "done"}
      BY <3>2, QuietAfterwards DEF NothingOutlivesRun
    <3>4. size' = size
      <4>1. \A r \in Repos : ~Walk(r)
        BY <3>3, Positions DEF Walk, RepoAt
      <4>2. ~Setup
        BY <3>2 DEF Setup
      <4> QED
        BY <4>1, <4>2
           DEF Next, PoolStep, Offer, LastItem, Launch, Wait, Release, Done,
               RepoStep, StartGit, SyncSucceeds, SyncFails, Checked, Collect,
               Lookup, RunStep, SetupFails, Conclude, CleanUp, Cancel, Returned, vars
    <3> QED
      BY <3>1, <3>4 DEF CompleteOrError
  <2> QED
    BY <2>1, <2>2
<1> QED
  BY <1>1, <1>2, RunnerInvariant, PTL DEF Spec

-----------------------------------------------------------------------------
(* The run as its callers know it.                                          *)

\* A goroutine that moves on without coming to an end, or after it, settles
\* nothing.
Settled(r) == job[Outer][r] \in Ended

LEMMA OutcomeStays ==
  ASSUME \A r \in Repos : Settled(r)' <=> Settled(r),
         repoErrs' = repoErrs,
         \A r \in Repos : Settled(r) /\ r \notin repoErrs =>
                            size'[r] = size[r] /\ found'[r] = found[r]
  PROVE  Outcome' = Outcome
<1>1. \A r \in Repos : OutcomeOf(r)' = OutcomeOf(r)
  BY DEF OutcomeOf, Settled
<1> QED
  BY <1>1 DEF Outcome

\* Where one does come to an end, its repository alone settles.
LEMMA OutcomeSettles ==
  ASSUME TypeOK, NEW q \in Repos, ~Settled(q),
         job' = [job EXCEPT ![Outer][q] = "returned"],
         \A r \in Repos : r # q => (r \in repoErrs' <=> r \in repoErrs),
         UNCHANGED <<size, found>>
  PROVE  /\ Outcome[q] = Run!Pending
         /\ Outcome' = [Outcome EXCEPT ![q] = OutcomeOf(q)']
         /\ OutcomeOf(q)' = IF q \in repoErrs' THEN Run!Failed
                            ELSE Run!Scanned(size[q], found[q])
<1>0. job \in Jobs /\ Outer \in Pools /\ Repos \subseteq Items
  BY Positions DEF TypeOK, Jobs, Places
<1>1. Settled(q)' /\ \A r \in Repos : r # q => (Settled(r)' <=> Settled(r))
  BY <1>0 DEF Jobs, Settled, Ended
<1>2. \A r \in Repos : r # q => OutcomeOf(r)' = OutcomeOf(r)
  BY <1>1 DEF OutcomeOf, Settled
<1>3. Outcome' = [Outcome EXCEPT ![q] = OutcomeOf(q)']
  BY <1>2 DEF Outcome
<1>4. OutcomeOf(q)' = IF q \in repoErrs' THEN Run!Failed
                      ELSE Run!Scanned(size[q], found[q])
  BY <1>1 DEF OutcomeOf, Settled, Run!Failed, Run!Scanned
<1>5. Outcome[q] = Run!Pending
  BY DEF Outcome, OutcomeOf, Settled, Run!Pending
<1> QED
  BY <1>3, <1>4, <1>5

\* No answer is given while a goroutine is at work.
LEMMA UnansweredWhileWorking ==
  ASSUME RunnerInv, NEW r \in Repos, job[Outer][r] \in Working
  PROVE  Run!Unanswered
<1>1. Outer \in Pools /\ r \in Items
  BY Positions
<1>2. stage \notin {"cleanup", "returned"}
  BY <1>1, QuietAfterwards DEF NothingOutlivesRun, Working
<1> QED
  BY <1>2 DEF RunnerInv, Nested, RunPlaces, Run!Unanswered

\* What a repository's goroutine returns with has at most one finding of each
\* reference, and one of each unless the context is done.
LEMMA FoundAtTheEnd ==
  ASSUME RunnerInv, NEW r \in Repos, job[Outer][r] = "collect"
  PROVE  /\ size[r] \in 0..MaxRefs /\ found[r] \in SUBSET Run!Finding
         /\ Run!OneEach(size[r], found[r])
         /\ ctxDone \/ Run!Complete(size[r], found[r])
<1>0. /\ job \in Jobs /\ caller \in Callers /\ found \in [Repos -> SUBSET Finding]
      /\ next[r] \in Nat /\ size[r] \in Nat
      /\ r \in Pools /\ Refs \subseteq Items /\ Items \subseteq Nat
  BY Positions DEF RunnerInv, TypeOK, Jobs, Places, Callers
<1>1. PoolInOrder(r) /\ CallerPlaces(r) /\ LookupsRecorded(r) /\ size[r] <= MaxRefs
  BY <1>0 DEF RunnerInv, InOrder, Nested, Recorded
<1>2. caller[r] = "back"
  BY <1>0, <1>1 DEF CallerPlaces, RepoAt, Ended, Callers
<1>3. next[r] <= size[r] + 1 /\ (next[r] > size[r] \/ ctxDone)
  BY <1>0, <1>1, <1>2 DEF PoolInOrder
<1>4. \A i \in Refs : i < next[r] => job[r][i] = "done"
  BY <1>0, <1>1, <1>2, PlacesKnown DEF PoolInOrder, Jobs, Places
<1>5. found[r] \in SUBSET Finding /\ Finding = Run!Finding
  BY <1>0 DEF Finding, Run!Finding, Refs
<1>6. \A f \in found[r] : f.ref <= size[r]
  <2> TAKE f \in found[r]
  <2>1. f.ref \in Refs /\ job[r][f.ref] \in Ended
    BY <1>1, <1>5 DEF LookupsRecorded, Finding
  <2>2. f.ref \in Nat /\ ~(f.ref >= next[r])
    BY <1>0, <1>1, <2>1 DEF PoolInOrder, Ended
  <2> QED
    BY <1>0, <1>3, <2>2
<1>7. \A f, g \in found[r] : f.ref = g.ref => f = g
  BY <1>1 DEF LookupsRecorded
<1>8. ASSUME ~ctxDone
      PROVE  Run!Complete(size[r], found[r])
  <2>1. \A i \in 1..size[r] : i \in Refs /\ i < next[r]
    BY <1>0, <1>1, <1>3, <1>8, BoundIsNatural DEF Refs
  <2>2. \A i \in 1..size[r] : \E f \in found[r] : f.ref = i
    BY <1>1, <1>4, <2>1 DEF LookupsRecorded, Ended
  <2>3. \A f \in found[r] : f.kind # "cancelled"
    BY <1>1, <1>8 DEF LookupsRecorded
  <2> QED
    BY <2>2, <2>3 DEF Run!Complete
<1>9. size[r] \in 0..MaxRefs
  BY <1>0, <1>1, BoundIsNatural
<1> QED
  BY <1>5, <1>6, <1>7, <1>8, <1>9 DEF Run!OneEach

\* Once the pool is back and the context is not done, all have settled.
LEMMA SettledAtTheEnd ==
  ASSUME RunnerInv, caller[Outer] = "back", ~ctxDone, NEW r \in Repos
  PROVE  Settled(r)
<1>0. /\ job \in Jobs /\ next[Outer] \in Nat /\ Outer \in Pools
      /\ r \in Items /\ r \in Nat /\ r <= NumRepos
  <2>1. job \in Jobs /\ next[Outer] \in Nat
    BY Positions DEF RunnerInv, TypeOK, Jobs, Places
  <2>2. r \in Nat /\ r <= NumRepos
    BY NumbersArePositive DEF Repos
  <2> QED
    BY <2>1, <2>2, Positions
<1>1. size[Outer] = NumRepos /\ PoolInOrder(Outer)
  BY <1>0 DEF RunnerInv, InOrder
<1>2. r < next[Outer]
  BY <1>0, <1>1, NumbersArePositive DEF PoolInOrder
<1> QED
  BY <1>0, <1>1, <1>2, PlacesKnown DEF PoolInOrder, Jobs, Places, Settled, Ended

\* The answer without an error is what was settled, and nothing else.
LEMMA ResultsAreSettled ==
  ASSUME RunnerInv, \A r \in Repos : Settled(r)
  PROVE  /\ Run!In("pending") = {}
         /\ Run!In("failed") = repoErrs
         /\ results = {x \in Run!Result :
                         [ref |-> x.ref, kind |-> x.kind] \in Outcome[x.repo].found}
<1>0. /\ repoErrs \subseteq Repos /\ results \subseteq Result /\ Result = Run!Result
      /\ found \in [Repos -> SUBSET Finding]
  BY DEF RunnerInv, TypeOK, Result, Run!Result, Refs
<1>1. \A r \in Repos :
        /\ Outcome[r].state = IF r \in repoErrs THEN "failed" ELSE "scanned"
        /\ Outcome[r].found = IF r \in repoErrs THEN {} ELSE found[r]
  BY DEF Outcome, OutcomeOf, Settled
<1>2. Run!In("pending") = {} /\ Run!In("failed") = repoErrs
  BY <1>0, <1>1 DEF Run!In
<1>3. ASSUME NEW x \in Result
      PROVE  x \in results
               <=> [ref |-> x.ref, kind |-> x.kind] \in Outcome[x.repo].found
  <2> DEFINE f == [ref |-> x.ref, kind |-> x.kind]
  <2>0. x.repo \in Repos /\ x = AsResult(x.repo, f)
    BY <1>3 DEF Result, AsResult
  <2>1. RepoRecorded(x.repo)
    BY <2>0 DEF RunnerInv, Recorded
  <2>2. CASE x.repo \in repoErrs
    BY <1>1, <2>0, <2>1, <2>2 DEF RepoRecorded
  <2>3. CASE x.repo \notin repoErrs
    <3>1. f \in found[x.repo] => x \in results
      BY <2>0, <2>1, <2>3 DEF RepoRecorded, Settled
    <3>2. ASSUME x \in results
          PROVE  f \in found[x.repo]
      <4>1. PICK g \in found[x.repo] : x = AsResult(x.repo, g)
        BY <2>0, <2>1, <2>3, <3>2 DEF RepoRecorded, Settled
      <4>2. g \in Finding
        BY <1>0, <2>0
      <4>3. g = f
        BY <4>1, <4>2 DEF AsResult, Finding
      <4> QED
        BY <4>1, <4>3
    <3> QED
      BY <1>1, <2>0, <2>3, <3>1, <3>2
  <2> QED
    BY <2>2, <2>3
<1> QED
  BY <1>0, <1>2, <1>3

\* An answer with nothing but an error.
LEMMA ErrorAnswer ==
  ASSUME NEW text
  PROVE  [NoAnswer EXCEPT !.err = text] = Run!Error(text)
<1>1. \A e, x, none : [[err |-> x, results |-> none, failed |-> none] EXCEPT !.err = e]
                        = [err |-> e, results |-> none, failed |-> none]
  OBVIOUS
<1> QED
  BY <1>1 DEF NoAnswer, Run!Error

LEMMA ConcludeReturns ==
  ASSUME RunnerInv, Conclude
  PROVE  Run!Return
<1>1. Run!Unanswered /\ UNCHANGED <<ctxDone, job, size, found, repoErrs>>
  BY DEF Conclude, RunnerInv, Nested, RunPlaces, Run!Unanswered
<1>2. Outcome' = Outcome
  BY <1>1, OutcomeStays DEF Settled
<1>3. CASE ctxDone
  <2>1. answer' = Run!Error("interrupted")
    BY <1>3 DEF Conclude, Answer, Interrupted, NoAnswer, Run!Error
  <2> QED
    BY <1>1, <1>2, <1>3, <2>1 DEF Run!Return
<1>4. CASE ~ctxDone
  <2>1. \A r \in Repos : Settled(r)
    BY <1>4, SettledAtTheEnd DEF Conclude
  <2>2. Cardinality(repoErrs) = NumRepos <=> repoErrs = Repos
    <3>1. IsFiniteSet(Repos) /\ Cardinality(Repos) = NumRepos
      BY NumbersArePositive, FS_Interval DEF Repos
    <3>2. repoErrs \in SUBSET Repos
      BY DEF RunnerInv, TypeOK
    <3> QED
      BY <3>1, <3>2, FS_Subset
  <2>3. answer' = IF repoErrs = Repos THEN Run!Error("all failed")
                  ELSE [err |-> "nil", results |-> results, failed |-> repoErrs]
    <3>1. answer' = Answer
      BY DEF Conclude
    <3>2. [NoAnswer EXCEPT !.err = "all failed"] = Run!Error("all failed")
      BY ErrorAnswer
    <3>3. CASE repoErrs = Repos
      BY <1>4, <2>2, <3>1, <3>2, <3>3 DEF Answer, Interrupted
    <3>4. CASE repoErrs # Repos
      BY <1>4, <2>2, <3>1, <3>4 DEF Answer, Interrupted
    <3> QED
      BY <3>3, <3>4
  <2>4. /\ Run!In("pending") = {} /\ Run!In("failed") = repoErrs
        /\ Run!Whole = [err |-> "nil", results |-> results, failed |-> repoErrs]
    BY <2>1, ResultsAreSettled DEF Run!Whole
  <2> QED
    BY <1>1, <1>2, <1>4, <2>3, <2>4 DEF Run!Return
<1> QED
  BY <1>3, <1>4

\* A pool's own steps settle nothing.
LEMMA PoolSettlesNothing ==
  ASSUME RunnerInv, NEW p \in Pools, PoolStep(p)
  PROVE  Outcome' = Outcome
<1>0. /\ job \in Jobs /\ Outer \in Pools /\ Repos \subseteq Items
      /\ TypeOK /\ InOrder
  BY Positions DEF RunnerInv, TypeOK, Jobs, Places
<1>1. UNCHANGED <<size, found, repoErrs>>
  BY DEF PoolStep, Offer, LastItem, Launch, Wait, Release, Done
<1>2. \A r \in Repos : Settled(r)' <=> Settled(r)
  <2>1. CASE Launch(p)
    <3>1. next[p] \in Items /\ job[p][next[p]] = "unborn"
      BY <1>0, <2>1, NextInSlice, LaunchUnborn DEF Launch
    <3>2. \E place \in {"sync", "lookup"} : job' = [job EXCEPT ![p][next[p]] = place]
      BY <2>1 DEF Launch
    <3> QED
      BY <1>0, <3>1, <3>2 DEF Jobs, Settled, Ended
  <2>2. ASSUME NEW i \in Items, Release(p, i) \/ Done(p, i)
        PROVE  \A r \in Repos : Settled(r)' <=> Settled(r)
    <3>1. /\ \E place \in {"released", "done"} : job' = [job EXCEPT ![p][i] = place]
          /\ job[p][i] \in {"returned", "released"}
      BY <2>2 DEF Release, Done
    <3> QED
      BY <1>0, <3>1 DEF Jobs, Settled, Ended
  <2>3. CASE Offer(p) \/ LastItem(p) \/ Wait(p)
    BY <2>3 DEF Offer, LastItem, Wait, Settled
  <2> QED
    BY <2>1, <2>2, <2>3 DEF PoolStep
<1> QED
  BY <1>1, <1>2, OutcomeStays

\* A repository's goroutine settles it where it returns, and only there.
LEMMA RepoSettlesOnce ==
  ASSUME RunnerInv, NEW q \in Repos, RepoStep(q)
  PROVE  [Run!RunNext]_<<ctxDone, Outcome, answer>>
<1>0. /\ job \in Jobs /\ size \in [Pools -> Nat] /\ found \in [Repos -> SUBSET Finding]
      /\ Outer \in Pools /\ Outer \notin Repos /\ Repos \subseteq Items
      /\ Repos \subseteq Pools /\ Refs \subseteq Items
      /\ TypeOK /\ InOrder /\ Nested
  BY Positions DEF RunnerInv, TypeOK, Jobs, Places
<1>1. CASE SyncFails(q)
  <2>1. /\ job[Outer][q] \in {"git", "sync"} /\ repoErrs' = repoErrs \cup {q}
        /\ job' = [job EXCEPT ![Outer][q] = "returned"]
        /\ UNCHANGED <<ctxDone, size, found, answer>>
    BY <1>1 DEF SyncFails, SyncFailed, RepoAt, RepoGoesTo
  <2>2. Run!Unanswered
    BY <2>1, UnansweredWhileWorking DEF Working
  <2>3. Outcome[q] = Run!Pending /\ Outcome' = [Outcome EXCEPT ![q] = Run!Failed]
    BY <1>0, <2>1, OutcomeSettles DEF Settled, Ended
  <2>4. Run!Fail(q)
    BY <2>1, <2>2, <2>3 DEF Run!Fail, Run!Settles
  <2> QED
    BY <2>4 DEF Run!RunNext
<1>2. CASE Collect(q)
  <2>1. /\ job[Outer][q] = "collect"
        /\ job' = [job EXCEPT ![Outer][q] = "returned"]
        /\ UNCHANGED <<ctxDone, size, found, repoErrs, answer>>
    BY <1>2 DEF Collect, RepoAt, RepoGoesTo
  <2>2. Run!Unanswered
    BY <2>1, UnansweredWhileWorking DEF Working
  <2>3. q \notin repoErrs
    BY <1>0, <2>1 DEF Nested, CallerPlaces, Ended
  <2>4. /\ Outcome[q] = Run!Pending
        /\ Outcome' = [Outcome EXCEPT ![q] = Run!Scanned(size[q], found[q])]
    BY <1>0, <2>1, <2>3, OutcomeSettles DEF Settled, Ended
  <2>5. Run!Settles(q, Run!Scanned(size[q], found[q]))
    BY <2>1, <2>2, <2>4 DEF Run!Settles
  <2>6. Run!Scan(q)
    BY <2>1, <2>5, FoundAtTheEnd DEF Run!Scan
  <2> QED
    BY <2>6 DEF Run!RunNext
<1>3. CASE StartGit(q) \/ SyncSucceeds(q) \/ Walk(q) \/ Checked(q)
  <2>1. /\ UNCHANGED <<ctxDone, found, repoErrs, answer>>
        /\ job[Outer][q] \in {"sync", "git", "walk", "checks"}
        /\ \E place \in {"git", "walk", "checks", "collect"} :
             job' = [job EXCEPT ![Outer][q] = place]
        /\ size' = size \/ \E n \in Nat : size' = [size EXCEPT ![q] = n]
    BY <1>3, BoundIsNatural
       DEF StartGit, SyncSucceeds, Walk, Checked, RepoAt, RepoGoesTo
  <2>2. ~Settled(q) /\ \A r \in Repos : Settled(r)' <=> Settled(r)
    BY <1>0, <2>1 DEF Jobs, Settled, Ended
  <2>3. \A r \in Repos : Settled(r) => size'[r] = size[r]
    BY <1>0, <2>1, <2>2
  <2>4. Outcome' = Outcome
    BY <2>1, <2>2, <2>3, OutcomeStays
  <2> QED
    BY <2>1, <2>4
<1>4. ASSUME NEW i \in Refs, Lookup(q, i)
      PROVE  UNCHANGED <<ctxDone, Outcome, answer>>
  <2>1. /\ UNCHANGED <<ctxDone, size, repoErrs, answer>> /\ job[q][i] = "lookup"
        /\ job' = [job EXCEPT ![q][i] = "returned"]
        /\ \E S : found' = [found EXCEPT ![q] = S]
    BY <1>4 DEF Lookup
  <2>2. job[Outer][q] = "checks"
    BY <1>0, <2>1, LookupMeansChecks
  <2>3. ~Settled(q) /\ \A r \in Repos : Settled(r)' <=> Settled(r)
    BY <1>0, <2>1, <2>2 DEF Jobs, Settled, Ended
  <2>4. \A r \in Repos : Settled(r) => found'[r] = found[r]
    BY <1>0, <2>1, <2>3
  <2>5. Outcome' = Outcome
    BY <2>1, <2>3, <2>4, OutcomeStays
  <2> QED
    BY <2>1, <2>5
<1> QED
  BY <1>1, <1>2, <1>3, <1>4 DEF RepoStep

\* Whatever the nested pools do, RunScan and the scan subcommand see a run that
\* settles its repositories one by one and then answers with all of them or with
\* an error (runner.go:50), for any number of them and any limit.
THEOREM RunImplemented == Spec => ImplementsRun
<1>1. Init => Run!RunInit
  <2> SUFFICES ASSUME Init PROVE Run!RunInit
    OBVIOUS
  <2>1. \A r \in Repos : OutcomeOf(r) = Run!Pending
    BY Positions DEF Init, OutcomeOf, Ended, Run!Pending
  <2>2. ctxDone = FALSE /\ answer = Run!Error("none yet")
    BY Zenon DEF Init, NoAnswer, Run!Error
  <2> QED
    BY <2>1, <2>2 DEF Run!RunInit, Outcome
<1>2. ASSUME RunnerInv, [Next]_vars
      PROVE  [Run!RunNext]_<<ctxDone, Outcome, answer>>
  <2>1. CASE \E p \in Pools : PoolStep(p)
    <3>1. UNCHANGED <<ctxDone, answer>>
      BY <2>1 DEF PoolStep, Offer, LastItem, Launch, Wait, Release, Done
    <3> QED
      BY <1>2, <2>1, <3>1, PoolSettlesNothing
  <2>2. CASE \E r \in Repos : RepoStep(r)
    BY <1>2, <2>2, RepoSettlesOnce
  <2>3. CASE Conclude
    BY <1>2, <2>3, ConcludeReturns DEF Run!RunNext
  <2>4. CASE SetupFails
    <3>1. /\ UNCHANGED <<ctxDone, job, size, found, repoErrs>> /\ stage = "setup"
          /\ answer' = Run!Error("setup")
      BY <2>4 DEF SetupFails, NoAnswer, Run!Error
    <3>2. Outcome' = Outcome
      BY <3>1, OutcomeStays DEF Settled
    <3>3. answer.err = "none yet" /\ caller[Outer] = "out"
      BY <1>2, <3>1 DEF RunnerInv, Nested, RunPlaces
    <3>4. \A r \in Repos : job[Outer][r] = "unborn"
      <4>1. /\ size[Outer] = 0 /\ next[Outer] \in 1..size[Outer] + 1
            /\ \A i \in Items : job[Outer][i] = "unborn" <=> i >= next[Outer]
        BY <1>2, <3>3, Positions DEF RunnerInv, InOrder, PoolInOrder
      <4>2. next[Outer] = 1 /\ \A r \in Repos : r \in Items /\ r >= 1
        BY <4>1, Positions, NumbersArePositive DEF Repos
      <4> QED
        BY <4>1, <4>2
    <3>5. Run!In("pending") = Repos
      BY <3>4 DEF Run!In, Outcome, OutcomeOf, Ended
    <3>6. Run!GiveUp
      BY <3>1, <3>2, <3>3, <3>5 DEF Run!GiveUp, Run!Unanswered
    <3> QED
      BY <3>6 DEF Run!RunNext
  <2>5. CASE Setup \/ CleanUp \/ Cancel \/ Returned \/ UNCHANGED vars
    <3>1. /\ UNCHANGED <<job, found, repoErrs, answer>>
          /\ \A r \in Repos : size'[r] = size[r]
          /\ ctxDone' = ctxDone \/ (~ctxDone /\ ctxDone' = TRUE)
      <4>1. CASE Setup
        <5>1. \A r \in Repos : r # Outer
          BY Positions
        <5>2. size \in [Pools -> Nat] /\ Repos \subseteq Pools
          BY <1>2, Positions DEF RunnerInv, TypeOK
        <5> QED
          BY <4>1, <5>1, <5>2 DEF Setup
      <4>2. CASE CleanUp \/ Cancel \/ Returned \/ UNCHANGED vars
        BY <4>2 DEF CleanUp, Cancel, Returned, vars
      <4> QED
        BY <2>5, <4>1, <4>2
    <3>2. Outcome' = Outcome
      BY <3>1, OutcomeStays DEF Settled
    <3> QED
      BY <3>1, <3>2 DEF Run!RunNext, Run!Cancel
  <2> QED
    BY <1>2, <2>1, <2>2, <2>3, <2>4, <2>5 DEF Next, RunStep
<1>3. Spec => [][Run!RunNext]_<<ctxDone, Outcome, answer>>
  BY <1>2, RunnerInvariant, PTL DEF Spec
<1> QED
  BY <1>1, <1>3, PTL DEF Spec, ImplementsRun, Run!RunSpec, Run!runVars
=============================================================================
