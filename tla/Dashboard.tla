----------------------------- MODULE Dashboard -----------------------------
(***************************************************************************)
(* The page of the dashboard (the script of internal/dashboard/ui/         *)
(* index.html) and the handlers it asks (internal/dashboard/handler.go,    *)
(* the trigger handler of internal/scan).  Each callback of the page runs  *)
(* to its next await in one step.  Its requests are answered and delivered *)
(* in any order, or fail; setInterval fires whether or not the poll before *)
(* was answered.                                                           *)
(*                                                                         *)
(* Of the service only what it shows matters, which ScanBoard is about: a  *)
(* scan runs or not, and the batch on show is the latest that was saved.   *)
(* A batch is its number.  What the page shows of a scan's error is left   *)
(* out, and so are sorting, filters and wording.                           *)
(***************************************************************************)
EXTENDS Naturals, SequencesExt

CONSTANTS
  MaxRequests,  \* bound: requests of the page in flight
  MaxScans,     \* bound: scans of the service
  MaxBatches,   \* bound: batches saved
  MaxFailures   \* bound: requests that fail

ASSUME BoundsArePositive ==
  /\ MaxRequests \in Nat \ {0} /\ MaxScans \in Nat
  /\ MaxBatches \in Nat /\ MaxFailures \in Nat

VARIABLES
  scanning, scans,     \* the service scans; how many it has begun
  batch,               \* the batch on show
  available,           \* the page may trigger scans (triggerAvailable)
  chip,                \* "idle" or "scanning"
  disabled,            \* the Scan button
  pollTimer,           \* the interval the page knows of; 0 is null
  intervals,           \* those that fire
  results, lastScan,   \* the batches that the table and the line "Last scan" show
  reqs,                \* the page's requests, in the order they were made
  failures,            \* how many have failed
  overtaken            \* history: a load of the results failed or was overtaken

service == <<scanning, scans, batch>>
page    == <<available, chip, disabled, pollTimer, intervals, results, lastScan>>
vars == <<service, page, reqs, failures, overtaken>>

Kinds == {"first", "poll", "trigger", "results"}
\* read: GetStatus knows whether a scan runs and not yet the repository; loaded:
\* the other way round.
Progress == {"sent", "read", "loaded", "answered"}
Codes    == {"ok", "busy", "error"}
Request  == [kind : Kinds, at : Progress, scanning : BOOLEAN, batch : Nat, code : Codes]

New(kind) == [kind |-> kind, at |-> "sent", scanning |-> FALSE, batch |-> 0, code |-> "ok"]

ServiceOK ==
  scanning \in BOOLEAN /\ scans \in 0..MaxScans /\ batch \in 0..MaxBatches

PageOK ==
  /\ available \in BOOLEAN /\ chip \in {"idle", "scanning"} /\ disabled \in BOOLEAN
  /\ pollTimer \in Nat /\ intervals \in SUBSET (Nat \ {0})
  /\ results \in 0..MaxBatches /\ lastScan \in 0..MaxBatches

RequestsOK == reqs \in Seq(Request)

HistoryOK == failures \in 0..MaxFailures /\ overtaken \in BOOLEAN

TypeOK == ServiceOK /\ PageOK /\ RequestsOK /\ HistoryOK

\* The page is loaded at any time: init asks for the status.
Init ==
  /\ scanning \in BOOLEAN /\ scans = 0 /\ batch = 0
  /\ available = FALSE /\ chip = "idle" /\ disabled = FALSE
  /\ pollTimer = 0 /\ intervals = {} /\ results = 0 /\ lastScan = 0
  /\ reqs = <<New("first")>> /\ failures = 0
  /\ overtaken = FALSE

-----------------------------------------------------------------------------
(* The service.                                                             *)

Begin ==
  /\ ~scanning /\ scans < MaxScans
  /\ scanning' = TRUE /\ scans' = scans + 1
  /\ UNCHANGED <<batch, page, reqs, failures, overtaken>>

\* By the scan itself or by a Job's POST.
Save ==
  /\ batch < MaxBatches
  /\ batch' = batch + 1
  /\ UNCHANGED <<scanning, scans, page, reqs, failures, overtaken>>

Finish ==
  /\ scanning
  /\ scanning' = FALSE
  /\ UNCHANGED <<scans, batch, page, reqs, failures, overtaken>>

Served(k, request) ==
  /\ reqs' = [reqs EXCEPT ![k] = request]
  /\ UNCHANGED <<service, page, failures, overtaken>>

Status(k) == reqs[k].kind \in {"first", "poll"}

\* status: GetStatus reads the flag, then the repository, and asks the trigger
\* last whether a Job runs.
ReadFlag(k) ==
  /\ Status(k) /\ reqs[k].at \in {"sent", "loaded"}
  /\ Served(k, [reqs[k] EXCEPT !.at = IF @ = "sent" THEN "read" ELSE "answered",
                               !.scanning = scanning])

ReadBatch(k) ==
  /\ \/ Status(k) /\ reqs[k].at \in {"sent", "read"}
     \/ reqs[k].kind = "results" /\ reqs[k].at = "sent"
  /\ Served(k, [reqs[k] EXCEPT !.at = IF Status(k) /\ @ = "sent" THEN "loaded"
                                                               ELSE "answered",
                               !.batch = batch])

\* trigger: 202, 409 when a Job is active, or no trigger, or it fails.  That a
\* scan begins then is up to the service.
AnswerTrigger(k) ==
  /\ reqs[k].kind = "trigger" /\ reqs[k].at = "sent"
  /\ \E code \in Codes :
       /\ code = "busy" => scanning
       /\ Served(k, [reqs[k] EXCEPT !.at = "answered", !.code = code])

Serve(k) == ReadFlag(k) \/ ReadBatch(k) \/ AnswerTrigger(k)

-----------------------------------------------------------------------------
(* The page.                                                                *)

Room == Len(reqs) < MaxRequests

Fresh == CHOOSE i \in 1..(MaxRequests + 1) : i \notin intervals
\* A wrong Started: it does not look whether a timer is set.
StartedAgain == <<Fresh, intervals \cup {Fresh}>>
\* startPoll.
Started ==
  IF pollTimer # 0 THEN <<pollTimer, intervals>> ELSE <<Fresh, intervals \cup {Fresh}>>

StartPoll == pollTimer' = Started[1] /\ intervals' = Started[2]

Answered(k, kind) == reqs[k].kind = kind /\ reqs[k].at = "answered"
Without(k) == RemoveAt(reqs, k)

SetLastScan(b) == lastScan' = IF b = 0 THEN lastScan ELSE b

\* checkStatus, then init goes on to loadResults.
FirstAnswered(k) ==
  /\ Answered(k, "first")
  /\ available' \in BOOLEAN
  /\ IF reqs[k].scanning
     THEN chip' = "scanning" /\ StartPoll
     ELSE UNCHANGED <<chip, pollTimer, intervals>>
  /\ reqs' = Append(Without(k), New("results"))
  /\ SetLastScan(reqs[k].batch)
  /\ UNCHANGED <<service, disabled, results, failures, overtaken>>

\* A wrong Reload: the end of a scan leaves the table as it is.
ReloadNever(rest) == rest
\* loadResults, once the poll's answer is there.
Reload(rest) == Append(rest, New("results"))

\* The callback of the interval goes on: when no scan runs any more the timer of
\* the page, whichever that is by now, is cleared.
PollAnswered(k) ==
  /\ Answered(k, "poll")
  /\ IF reqs[k].scanning
     THEN reqs' = Without(k) /\ UNCHANGED page
     ELSE /\ intervals' = intervals \ {pollTimer}
          /\ pollTimer' = 0
          /\ chip' = "idle" /\ disabled' = FALSE
          /\ reqs' = Reload(Without(k))
          /\ SetLastScan(reqs[k].batch)
          /\ UNCHANGED <<available, results>>
  /\ UNCHANGED <<service, failures, overtaken>>

EarlierLoad(k) == \E j \in 1..(k - 1) : reqs[j].kind = "results"

ResultsAnswered(k) ==
  /\ Answered(k, "results")
  /\ results' = reqs[k].batch
  /\ reqs' = Without(k)
  /\ overtaken' = (overtaken \/ EarlierLoad(k))
  /\ UNCHANGED <<service, available, chip, disabled, pollTimer, intervals, lastScan, failures>>

\* triggerScan: the button, if it is there and enabled.
Click ==
  /\ available /\ ~disabled /\ Room
  /\ disabled' = TRUE /\ chip' = "scanning"
  /\ reqs' = Append(reqs, New("trigger"))
  /\ UNCHANGED <<service, available, pollTimer, intervals, results, lastScan, failures,
                 overtaken>>

\* A wrong Polls: a scan that is on already is not waited for.
PollsOwn(code) == code = "ok"
Polls(code) == code \in {"ok", "busy"}

TriggerAnswered(k) ==
  /\ Answered(k, "trigger")
  /\ reqs' = Without(k)
  /\ IF Polls(reqs[k].code)
     THEN StartPoll /\ UNCHANGED <<chip, disabled>>
     ELSE IF reqs[k].code = "error"
     THEN /\ chip' = "idle" /\ disabled' = FALSE
          /\ UNCHANGED <<pollTimer, intervals>>
     ELSE UNCHANGED <<chip, disabled, pollTimer, intervals>>
  /\ UNCHANGED <<service, available, results, lastScan, failures, overtaken>>

\* Every 3 s, answered or not.
Tick ==
  /\ intervals # {} /\ Room
  /\ reqs' = Append(reqs, New("poll"))
  /\ UNCHANGED <<service, page, failures, overtaken>>

\* fetch fails: nothing comes of it, but init goes on and a trigger is given up.
Fail(k) ==
  /\ failures < MaxFailures
  /\ failures' = failures + 1
  /\ reqs' = IF reqs[k].kind = "first" THEN Append(Without(k), New("results"))
                                       ELSE Without(k)
  /\ IF reqs[k].kind = "trigger" THEN chip' = "idle" /\ disabled' = FALSE
                                 ELSE UNCHANGED <<chip, disabled>>
  /\ overtaken' = (overtaken \/ reqs[k].kind = "results")
  /\ UNCHANGED <<service, available, pollTimer, intervals, results, lastScan>>

Deliver(k) ==
  FirstAnswered(k) \/ PollAnswered(k) \/ ResultsAnswered(k) \/ TriggerAnswered(k)

Next ==
  \/ Begin \/ Save \/ Finish
  \/ Click \/ Tick
  \/ \E k \in DOMAIN reqs : Serve(k) \/ Deliver(k) \/ Fail(k)

Spec == Init /\ [][Next]_vars

\* Scans end, intervals fire, and no request is left for ever.
Eldest == reqs # <<>> /\ (Serve(1) \/ Deliver(1))

FairSpec == Spec /\ WF_vars(Finish) /\ WF_vars(Tick) /\ WF_vars(Eldest)
-----------------------------------------------------------------------------
(* Properties.                                                              *)

InFlight(kind) == \E k \in DOMAIN reqs : reqs[k].kind = kind

\* The page polls with at most one interval, the one it can clear; while it says
\* that a scan is on, or has its button disabled, that interval fires or the
\* trigger's answer is still to come (index.html:419, :443, :465).
PollInv ==
  /\ intervals = (IF pollTimer = 0 THEN {} ELSE {pollTimer})
  /\ chip = "scanning" => pollTimer # 0 \/ InFlight("trigger")
  /\ disabled => chip = "scanning"

\* What the line "Last scan" tells of the table shows too, as soon as the results
\* asked for with it are there, unless a load failed or was overtaken by a later
\* one: they are asked for when the status has come, never with it (index.html:477).
TableMatchesLastScan ==
  ~overtaken /\ ~InFlight("results") => results >= lastScan

\* The page never says for ever that a scan is on, whatever answers come late and
\* whichever fail (index.html:465).
ChipSettles == chip = "scanning" ~> chip = "idle"
-----------------------------------------------------------------------------
(* The inductive strengthening.                                             *)

\* Nothing the page shows, or is about to be told, was never saved.
NothingUnsaved ==
  /\ results <= batch /\ lastScan <= batch
  /\ \A k \in DOMAIN reqs : reqs[k].batch <= batch

LastLoad(k) ==
  /\ reqs[k].kind = "results"
  /\ \A j \in DOMAIN reqs : reqs[j].kind = "results" => j <= k

\* Unless a load fails or is overtaken, the last one brings what the line "Last
\* scan" tells of.
LoadsInOrder ==
  ~overtaken =>
    /\ ~InFlight("results") => results >= lastScan
    /\ \A k \in DOMAIN reqs :
         LastLoad(k) /\ reqs[k].at = "answered" => reqs[k].batch >= lastScan

PageInv == TypeOK /\ PollInv /\ NothingUnsaved /\ LoadsInOrder
=============================================================================
