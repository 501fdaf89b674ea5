------------------------------ MODULE Delivery ------------------------------
(***************************************************************************)
(* The scan subcommand as the pod of a Kubernetes Job, and the serve       *)
(* process it reports to: runScan and postResults of cmd/update-checker,   *)
(* over a network that loses and delays, to the handler of POST            *)
(* /api/scan/results, in a process that may crash and start again with     *)
(* nothing in memory.  A pod that exits non-zero is replaced until the     *)
(* Job's backoff limit (restartPolicy Never); a pod may be told to stop or *)
(* be killed at any time.  Jobs, scheduled and manual, may overlap.        *)
(* Assumed: pods of one Job do not, although the CronJob leaves            *)
(* podReplacementPolicy to its default and a pod may then be replaced      *)
(* while it is terminating.                                                *)
(*                                                                         *)
(* Of a batch only matters whether every repository is in it and when it   *)
(* was stamped.  The handler is one step here: ScanService has it in       *)
(* detail, and a crash between its steps forgets what they did.            *)
(***************************************************************************)
EXTENDS Integers

CONSTANTS
  Jobs,        \* the scanner Jobs
  Backoff,     \* retries of each Job
  MaxCrashes   \* bound: crashes of the serve process

ASSUME NumbersAreNatural == Backoff \in [Jobs -> Nat] /\ MaxCrashes \in Nat

VARIABLES
  up,        \* the serve process runs
  store,     \* its repository: the last batch saved, and who sent it
  job,       \* each Job, as its controller sees it
  attempt,   \* pods the Job has had
  pc,        \* where the Job's pod is in runScan
  stopping,  \* the pod's signal context is done
  batch,     \* the pod's results and the time it stamped them with
  clock,     \* the last value time.Now() returned to a scanner
  net,       \* requests on their way, or received and not handled yet
  answer,    \* the answer on its way to the Job's pod, or "none"
  crashes,   \* crashes so far
  stored,    \* history: what was saved, by any process, ever
  acked,     \* history: the senders that got a 201 for their results
  givenUp    \* history: the senders that stopped waiting for an answer

serverVars == <<up, store, crashes>>
podVars    == <<job, attempt, pc, stopping, batch, clock>>
history    == <<stored, acked, givenUp>>
vars == <<serverVars, podVars, net, answer, history>>

Senders  == Jobs \X (Nat \ {0})   \* a Job and which of its pods
Message  == [from : Senders, status : {"success", "failure"},
             whole : BOOLEAN, at : Nat]
Posted   == [from : Senders, whole : BOOLEAN, at : Nat]
Nothing  == [whole |-> FALSE, at |-> 0]

\* Waiting for the answer to a request.
Waiting == {"reporting", "posting"}

TypeOK ==
  /\ up \in BOOLEAN /\ crashes \in 0..MaxCrashes
  /\ store \in SUBSET Posted
  /\ job \in [Jobs -> {"waiting", "active", "complete", "failed"}]
  /\ attempt \in [Jobs -> Nat]
  /\ pc \in [Jobs -> {"none", "run", "report", "post", "exited"} \cup Waiting]
  /\ stopping \in [Jobs -> BOOLEAN]
  /\ batch \in [Jobs -> [whole : BOOLEAN, at : Nat]]
  /\ clock \in Nat
  /\ net \in SUBSET Message
  /\ answer \in [Jobs -> {"none", "created", "refused"}]
  /\ stored \in SUBSET Posted
  /\ acked \in SUBSET Senders /\ givenUp \in SUBSET Senders

Init ==
  /\ up = TRUE /\ store = {} /\ crashes = 0
  /\ job = [j \in Jobs |-> "waiting"]
  /\ attempt = [j \in Jobs |-> 0]
  /\ pc = [j \in Jobs |-> "none"]
  /\ stopping = [j \in Jobs |-> FALSE]
  /\ batch = [j \in Jobs |-> Nothing]
  /\ clock = 0 /\ net = {} /\ answer = [j \in Jobs |-> "none"]
  /\ stored = {} /\ acked = {} /\ givenUp = {}

Sender(j) == <<j, attempt[j]>>

-----------------------------------------------------------------------------
(* The Job controller and the kubelet.                                      *)

Start(j) ==
  /\ job[j] \in {"waiting", "active"} /\ pc[j] = "none"
  /\ job' = [job EXCEPT ![j] = "active"]
  /\ attempt' = [attempt EXCEPT ![j] = @ + 1]
  /\ pc' = [pc EXCEPT ![j] = "run"]
  /\ UNCHANGED <<stopping, batch, clock, serverVars, net, answer, history>>

Running(j) == pc[j] \notin {"none", "exited"}

Terminate(j) ==
  /\ Running(j) /\ ~stopping[j]
  /\ stopping' = [stopping EXCEPT ![j] = TRUE]
  /\ UNCHANGED <<job, attempt, pc, batch, clock, serverVars, net, answer,
                 history>>

\* The pod ended, with exit status zero or not; its connection is closed.
Ends(j, zero) ==
  /\ pc' = [pc EXCEPT ![j] =
              IF zero \/ attempt[j] > Backoff[j] THEN "exited" ELSE "none"]
  /\ job' = [job EXCEPT ![j] = IF zero THEN "complete"
                               ELSE IF attempt[j] > Backoff[j] THEN "failed" ELSE @]
  /\ stopping' = [stopping EXCEPT ![j] = FALSE]
  /\ batch' = [batch EXCEPT ![j] = Nothing]
  /\ answer' = [answer EXCEPT ![j] = "none"]
  /\ UNCHANGED <<attempt, clock>>

\* A pod out of memory or out of time, or without a configuration it can load;
\* what it sent may still arrive.
Kill(j) ==
  /\ Running(j)
  /\ Ends(j, FALSE)
  /\ givenUp' = IF pc[j] \in Waiting THEN givenUp \cup {Sender(j)} ELSE givenUp
  /\ UNCHANGED <<serverVars, net, stored, acked>>

-----------------------------------------------------------------------------
(* runScan and postResults.                                                 *)

Moves(j, from, to) == pc[j] = from /\ pc' = [pc EXCEPT ![j] = to]

RunFails(j) ==
  /\ Moves(j, "run", "report")
  /\ UNCHANGED <<job, attempt, stopping, batch, clock, serverVars, net, answer,
                 history>>

\* The payload is stamped when it is built.
RunEnds(j) ==
  /\ ~stopping[j]
  /\ Moves(j, "run", "post")
  /\ \E whole \in BOOLEAN :
       batch' = [batch EXCEPT ![j] = [whole |-> whole, at |-> clock + 1]]
  /\ clock' = clock + 1
  /\ UNCHANGED <<job, attempt, stopping, serverVars, net, answer, history>>

Send(j, status) ==
  /\ net' = net \cup {[from |-> Sender(j), status |-> status,
                       whole |-> batch[j].whole, at |-> batch[j].at]}
  /\ UNCHANGED <<job, attempt, stopping, batch, clock, serverVars, answer,
                 history>>

\* Best effort: the report of a failed run, with no results.
Report(j) == ~stopping[j] /\ Moves(j, "report", "reporting") /\ Send(j, "failure")

\* A wrong Post: posted in the background, the exit status tells of the scan only.
PostAsync(j) ==
  /\ ~stopping[j] /\ pc[j] = "post"
  /\ net' = net \cup {[from |-> Sender(j), status |-> "success",
                       whole |-> batch[j].whole, at |-> batch[j].at]}
  /\ Ends(j, batch[j].whole)
  /\ UNCHANGED <<serverVars, history>>
Post(j) == ~stopping[j] /\ Moves(j, "post", "posting") /\ Send(j, "success")

\* With the context done the request is refused before it is sent.
NotSent(j) ==
  /\ pc[j] \in {"report", "post"} /\ stopping[j]
  /\ Ends(j, FALSE)
  /\ UNCHANGED <<serverVars, net, history>>

\* A wrong Accepted: any answer of the server will do.
AcceptedAny(j) == TRUE
Accepted(j) == answer[j] = "created"

\* A wrong Clean: the failures of single repositories are only logged.
CleanAny(j) == TRUE
\* repoErrs is empty.
Clean(j) == batch[j].whole

\* The exit status: zero only for results that were posted and are complete.
ReceiveAnswer(j) ==
  /\ pc[j] \in Waiting /\ answer[j] # "none"
  /\ Ends(j, pc[j] = "posting" /\ Accepted(j) /\ Clean(j))
  /\ acked' = IF pc[j] = "posting" /\ answer[j] = "created"
              THEN acked \cup {Sender(j)} ELSE acked
  /\ UNCHANGED <<serverVars, net, stored, givenUp>>

\* A wrong MayGiveUp: http.DefaultClient, which has no timeout.
MayGiveUpNever(j) == stopping[j]
\* No connection, a broken one, the client's timeout, or the context is done.
MayGiveUp(j) == TRUE

NoAnswer(j) ==
  /\ pc[j] \in Waiting /\ MayGiveUp(j)
  /\ Ends(j, FALSE)
  /\ givenUp' = givenUp \cup {Sender(j)}
  /\ UNCHANGED <<serverVars, net, stored, acked>>

-----------------------------------------------------------------------------
(* The serve process and the network.                                       *)

\* The answer goes nowhere if the pod has closed the connection.
Answer(m, text) ==
  LET j == m.from[1] IN
  answer' = IF Sender(j) = m.from /\ pc[j] \in Waiting
            THEN [answer EXCEPT ![j] = text] ELSE answer

\* A body of more than maxRequestBody bytes is cut by MaxBytesReader and then is
\* no JSON.  Sizes are not modelled: any results may be that many.
Refuse(m) ==
  /\ up /\ m.status = "success"
  /\ net' = net \ {m}
  /\ Answer(m, "refused")
  /\ UNCHANGED <<serverVars, podVars, history>>

\* A wrong RecordFailure: the store takes the empty results of a failed run.
RecordFailureEmpty(m) ==
  /\ up /\ m.status = "failure"
  /\ net' = net \ {m}
  /\ store' = {}
  /\ Answer(m, "created")
  /\ UNCHANGED <<up, crashes, podVars, history>>
\* StoreResults of a failed run counts it and keeps the results.
RecordFailure(m) ==
  /\ up /\ m.status = "failure"
  /\ net' = net \ {m}
  /\ Answer(m, "created")
  /\ UNCHANGED <<serverVars, podVars, history>>

SaveResults(m) ==
  /\ up /\ m.status = "success"
  /\ net' = net \ {m}
  /\ store' = {[from |-> m.from, whole |-> m.whole, at |-> m.at]}
  /\ stored' = stored \cup store'
  /\ Answer(m, "created")
  /\ UNCHANGED <<up, crashes, podVars, acked, givenUp>>

Handle(m) == Refuse(m) \/ RecordFailure(m) \/ SaveResults(m)

\* A request or an answer is lost, with its connection.
Lose ==
  /\ \/ \E m \in net : net' = net \ {m} /\ UNCHANGED answer
     \/ \E j \in Jobs : /\ answer[j] # "none"
                        /\ answer' = [answer EXCEPT ![j] = "none"]
                        /\ UNCHANGED net
  /\ UNCHANGED <<serverVars, podVars, history>>

\* Everything the process knew was in memory.
Crash ==
  /\ up /\ crashes < MaxCrashes
  /\ up' = FALSE
  /\ crashes' = crashes + 1
  /\ store' = {}
  /\ UNCHANGED <<podVars, net, answer, history>>

Restart ==
  /\ ~up
  /\ up' = TRUE
  /\ UNCHANGED <<store, crashes, podVars, net, answer, history>>

-----------------------------------------------------------------------------
RunReturns(j) == RunFails(j) \/ RunEnds(j)
Sends(j)      == Report(j) \/ Post(j) \/ NotSent(j)
Hears(j)      == ReceiveAnswer(j) \/ NoAnswer(j)

Pod(j) == RunReturns(j) \/ Sends(j) \/ Hears(j)

\* Every Job ended and nothing is on its way.
Quiet ==
  /\ \A j \in Jobs : pc[j] = "exited"
  /\ net = {} /\ up
  /\ UNCHANGED vars

Next ==
  \/ \E j \in Jobs : Start(j) \/ Terminate(j) \/ Kill(j) \/ Pod(j)
  \/ \E m \in net : Handle(m)
  \/ Lose \/ Crash \/ Restart \/ Quiet

Spec == Init /\ [][Next]_vars

\* The controller replaces pods of active Jobs, a pod's process runs, Runner.Run
\* is taken to return, and waiting for an answer is bounded by scanClient's
\* timeout.  Neither the network nor the server need do anything.
Fairness ==
  \A j \in Jobs :
    /\ WF_vars(job[j] = "active" /\ Start(j))
    /\ WF_vars(RunReturns(j)) /\ WF_vars(Sends(j)) /\ WF_vars(Hears(j))

FairSpec == Spec /\ Fairness

-----------------------------------------------------------------------------
(* Properties.                                                              *)

\* Of a sender it may be said that it was told the truth: its Job's results on
\* show are not older than what it sent, unless from a pod that gave up.
OnShow(sender) ==
  \E p \in store :
    p.from[1] = sender[1] /\ p.from[2] < sender[2] => p.from \in givenUp

\* What was sent, and what was stored of it, is of a pod that has come to send,
\* and older than what a later pod of the Job has.
Placed(p) ==
  LET j == p.from[1] IN
  /\ p.from[2] <= attempt[j] /\ p.at <= clock
  /\ p.from = Sender(j) =>
       /\ pc[j] \notin {"run", "report", "post"}
       /\ pc[j] \in Waiting => p.at = batch[j].at /\ p.whole = batch[j].whole
  /\ p.from[2] < attempt[j] /\ pc[j] \in {"post", "posting"} =>
       p.at < batch[j].at

\* A pod that has not given up waits for what is on the way of it.
Awaited(m) ==
  LET j == m.from[1] IN
  /\ m.from \notin givenUp =>
       m.from = Sender(j) /\ pc[j] \in Waiting /\ answer[j] = "none"
  /\ m.from = Sender(j) /\ pc[j] \in Waiting =>
       m.status = IF pc[j] = "posting" THEN "success" ELSE "failure"

\* A pod hears that its results are stored only when they are.
Truthful(j) ==
  /\ answer[j] # "none" => pc[j] \in Waiting
  /\ answer[j] = "created" /\ pc[j] = "posting" =>
       /\ \E p \in stored : p.from = Sender(j) /\ p.whole = batch[j].whole
       /\ crashes = 0 => OnShow(Sender(j))

Started == \A j \in Jobs : pc[j] # "none" => attempt[j] # 0
Stamped == \A j \in Jobs : batch[j].at <= clock
Latest  == \A p, q \in store : p = q
Ended   == \A j \in Jobs : job[j] = "complete" => pc[j] = "exited"

\* The invariant that carries the others.  That a pod waits for the answer to
\* what it sent keeps the posts of a Job in order (main.go:218).
DeliveryInv ==
  /\ TypeOK
  /\ \A p \in net \cup store : Placed(p)
  /\ \A m \in net : Awaited(m)
  /\ Started /\ Stamped /\ Latest /\ Ended
  /\ \A j \in Jobs : Truthful(j)
  /\ \A sender \in acked : sender[2] <= attempt[sender[1]]

\* A Job that Kubernetes shows as complete delivered: the last of its pods
\* scanned every repository, and a serve process stored just that, whatever was
\* lost, refused or repeated on the way (main.go:173).
CompleteIsDelivered ==
  \A j \in Jobs :
    job[j] = "complete" => \E p \in stored : p.from = Sender(j) /\ p.whole

\* The results on show are replaced by older ones of the same Job only if the
\* pod that sent those had stopped waiting for them: an answered post is never
\* overtaken by a retry, as each pod waits before it exits (main.go:218).
OlderOnlyIfGivenUp ==
  [][\A old \in store, new \in store' :
       new.from[1] = old.from[1] /\ new.at < old.at => new.from \in givenUp]_vars

\* What a pod was told is stored is on show until the serve process crashes or
\* something else is stored, and nothing that is older and of the same Job is,
\* unless from a pod that had stopped waiting: a failed run, of whichever Job,
\* takes nothing off (service.go:118).
AckedIsOnShow == crashes = 0 => \A sender \in acked : OnShow(sender)

\* Every Job comes to an end although the server may stay down and the network
\* may lose everything (main.go:192).
JobEnds == \A j \in Jobs : job[j] = "active" ~> job[j] \in {"complete", "failed"}
=============================================================================
