------------------------------ MODULE ScanRun ------------------------------
(***************************************************************************)
(* What one call of Runner.Run promises to RunScan and to the scan         *)
(* subcommand, with none of its pools, tokens, WaitGroups and directories: *)
(* every repository settles once, in any order, as a failure or with what  *)
(* its references gave, and then there is one answer for good.  An answer  *)
(* without an error is the whole of what was settled, and is never given   *)
(* by a call that was cancelled.  ScanService and Delivery know a run by   *)
(* this: RunFails and RunEnds are its answers.                             *)
(***************************************************************************)
EXTENDS Naturals

CONSTANTS
  Repos,     \* the configured repositories
  MaxRefs,   \* bound: references found in one
  Kinds      \* what a look-up gives, "cancelled" among it

VARIABLES
  cancelled,  \* the caller wants no answer any more
  outcome,    \* what each repository has come to
  answer      \* what the call answers

runVars == <<cancelled, outcome, answer>>

Finding == [ref : 1..MaxRefs, kind : Kinds]
Result  == [repo : Repos, ref : 1..MaxRefs, kind : Kinds]

\* How many references there are is known when the files have been walked.
Pending       == [state |-> "pending", refs |-> 0, found |-> {}]
Failed        == [state |-> "failed", refs |-> 0, found |-> {}]
Scanned(n, F) == [state |-> "scanned", refs |-> n, found |-> F]

Error(text) == [err |-> text, results |-> {}, failed |-> {}]
Unanswered  == answer.err = "none yet"

RunInit ==
  /\ cancelled = FALSE
  /\ outcome = [r \in Repos |-> Pending]
  /\ answer = Error("none yet")

Cancel == ~cancelled /\ cancelled' = TRUE /\ UNCHANGED <<outcome, answer>>

Settles(r, how) ==
  /\ Unanswered /\ outcome[r] = Pending
  /\ outcome' = [outcome EXCEPT ![r] = how]
  /\ UNCHANGED <<cancelled, answer>>

Fail(r) == Settles(r, Failed)

\* At most one finding of a reference, whatever was cancelled; and unless it was,
\* one of each, looked up to the end.
OneEach(n, F) ==
  /\ \A f \in F : f.ref <= n
  /\ \A f, g \in F : f.ref = g.ref => f = g
Complete(n, F) ==
  /\ \A f \in F : f.kind # "cancelled"
  /\ \A i \in 1..n : \E f \in F : f.ref = i

Scan(r) ==
  \E n \in 0..MaxRefs, F \in SUBSET Finding :
    /\ OneEach(n, F) /\ (cancelled \/ Complete(n, F))
    /\ Settles(r, Scanned(n, F))

In(state) == {r \in Repos : outcome[r].state = state}

Whole ==
  [err |-> "nil", failed |-> In("failed"),
   results |-> {x \in Result : [ref |-> x.ref, kind |-> x.kind] \in outcome[x.repo].found}]

Return ==
  /\ Unanswered
  /\ answer' = IF cancelled THEN Error("interrupted")
               ELSE IF In("failed") = Repos THEN Error("all failed")
               ELSE Whole
  /\ cancelled \/ In("pending") = {}
  /\ UNCHANGED <<cancelled, outcome>>

\* There is nowhere to work.
GiveUp ==
  /\ Unanswered /\ In("pending") = Repos
  /\ answer' = Error("setup")
  /\ UNCHANGED <<cancelled, outcome>>

RunNext == Cancel \/ Return \/ GiveUp \/ \E r \in Repos : Fail(r) \/ Scan(r)

RunSpec == RunInit /\ [][RunNext]_runVars
=============================================================================
