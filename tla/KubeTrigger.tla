---------------------------- MODULE KubeTrigger ----------------------------
(***************************************************************************)
(* The Kubernetes trigger (internal/trigger/kubernetes.go): concurrent     *)
(* requests run Trigger and Running against the API server.  Each of the   *)
(* calls Get CronJob, List Jobs and Create Job is one step; between two    *)
(* of them the other requests, the CronJob controller, the Job controller  *)
(* and the clock move.  The API server and the controllers are external.   *)
(***************************************************************************)
EXTENDS Integers, FiniteSets

CONSTANTS Callers,      \* requests being served: Trigger or Running calls
          MaxSecond,    \* bound on the clock, in seconds
          TTL           \* manualJobTTLSeconds: 3600 in the code

ASSUME CallersAreFinite == IsFiniteSet(Callers)
ASSUME TimesAreNatural == MaxSecond \in Nat /\ TTL \in Nat

VARIABLES
  available,   \* kt.available: what NewKubernetes found
  clock,       \* time.Now().Unix()
  job,         \* job[s]: the Job named <cronjob>-manual-<s>
  since,       \* the second of job[s]'s last change
  scheduled,   \* a Job of the CronJob is active
  listed,      \* CronJob.Status.Active is not empty; follows scheduled late
  pc,          \* where each request stands
  stamp,       \* the second in the name a Trigger is about to create
  out,         \* the answer of the request's last call
  seen         \* history of the call: what was active while it ran

env == <<clock, job, since, scheduled, listed>>
vars == <<available, env, pc, stamp, out, seen>>

Seconds == 0 .. MaxSecond
JobStates == {"absent", "active", "finished"}
Places == {"idle", "get", "list", "create", "runningGet", "runningList"}
\* "unsure" is Running's false after an error of the API, "still" any other.
Answers == {"none", "created", "already", "error", "running", "still", "unsure"}

(***************************************************************************)
(* What the API server holds.                                              *)
(***************************************************************************)
\* !jobFinished, of the Jobs that manualJobSelector matches.
Unfinished == {s \in Seconds : job[s] = "active"}

\* activeManualJob's verdict on a successful List; before it, what it would
\* be without jobFinished, and without the check.
ManualActiveAny == \E s \in Seconds : job[s] # "absent"
ManualActiveNever == FALSE
ManualActive == Unfinished # {}

\* Some scanner Job runs, or the CronJob still lists one.
Busy == scheduled \/ listed \/ Unfinished # {}

Init ==
  /\ available \in BOOLEAN
  /\ clock = 0
  /\ job = [s \in Seconds |-> "absent"]
  /\ since = [s \in Seconds |-> 0]
  /\ scheduled = FALSE
  /\ listed = FALSE
  /\ pc = [c \in Callers |-> "idle"]
  /\ stamp = [c \in Callers |-> 0]
  /\ out = [c \in Callers |-> "none"]
  /\ seen = [c \in Callers |-> [busy |-> FALSE, jobs |-> {}, listed |-> FALSE]]

(***************************************************************************)
(* The requests.                                                           *)
(***************************************************************************)
Goes(c, place) ==
  /\ pc' = [pc EXCEPT ![c] = place]
  /\ UNCHANGED <<stamp, out>>

Returns(c, answer) ==
  /\ pc' = [pc EXCEPT ![c] = "idle"]
  /\ out' = [out EXCEPT ![c] = answer]
  /\ UNCHANGED stamp

\* Trigger and Running of a trigger that NewKubernetes could not set up.
Unavailable(c) ==
  /\ pc[c] = "idle"
  /\ ~available
  /\ \/ Returns(c, "error")
     \/ Returns(c, "still")
  /\ UNCHANGED env

Calls(c, place) ==
  /\ pc[c] = "idle"
  /\ available
  /\ pc' = [pc EXCEPT ![c] = place]
  /\ out' = [out EXCEPT ![c] = "none"]
  /\ UNCHANGED <<env, stamp>>

CallTrigger(c) == Calls(c, "get")
CallRunning(c) == Calls(c, "runningGet")

GetCronJob(c) ==
  /\ pc[c] = "get"
  /\ \/ Returns(c, "error")
     \/ listed /\ Returns(c, "already")
     \/ ~listed /\ Goes(c, "list")
  /\ UNCHANGED env

\* The second a new name carries; before it, a name of coarser resolution.
NameTimeCoarse == clock - (clock % 2)
NameTime == clock

\* The name is made right after the answer to List.
ListManual(c) ==
  /\ pc[c] = "list"
  /\ \/ Returns(c, "error")
     \/ ManualActive /\ Returns(c, "already")
     \/ /\ ~ManualActive
        /\ pc' = [pc EXCEPT ![c] = "create"]
        /\ stamp' = [stamp EXCEPT ![c] = NameTime]
        /\ UNCHANGED out
  /\ UNCHANGED env

\* The API server's check that a name is new.
NameIsFree(s) == job[s] = "absent"

\* The API server makes the Job; its answer may be lost (an error).
CreateMade(c) ==
  /\ pc[c] = "create"
  /\ NameIsFree(stamp[c])
  /\ job' = [job EXCEPT ![stamp[c]] = "active"]
  /\ since' = [since EXCEPT ![stamp[c]] = clock]
  /\ \/ Returns(c, "created")
     \/ Returns(c, "error")
  /\ UNCHANGED <<clock, scheduled, listed>>

CreateRefused(c) ==
  /\ pc[c] = "create"
  /\ \/ ~NameIsFree(stamp[c]) /\ Returns(c, "already")
     \/ Returns(c, "error")
  /\ UNCHANGED env

\* An error of Get is not reported: Running goes on to the manual Jobs.
RunningGet(c) ==
  /\ pc[c] = "runningGet"
  /\ \/ listed /\ Returns(c, "running")
     \/ ~listed /\ Goes(c, "runningList")
     \/ /\ pc' = [pc EXCEPT ![c] = "runningList"]
        /\ out' = [out EXCEPT ![c] = "unsure"]
        /\ UNCHANGED stamp
  /\ UNCHANGED env

RunningList(c) ==
  /\ pc[c] = "runningList"
  /\ \/ ManualActive /\ Returns(c, "running")
     \/ ~ManualActive /\ Returns(c, IF out[c] = "unsure" THEN "unsure" ELSE "still")
     \/ Returns(c, "unsure")
  /\ UNCHANGED env

(***************************************************************************)
(* The cluster.                                                            *)
(***************************************************************************)
Tick ==
  /\ clock < MaxSecond
  /\ clock' = clock + 1
  /\ UNCHANGED <<job, since, scheduled, listed, pc, stamp, out>>

\* A Job's pod needs more than the second in which the Job was made.
JobFinishes(s) ==
  /\ job[s] = "active"
  /\ since[s] < clock
  /\ job' = [job EXCEPT ![s] = "finished"]
  /\ since' = [since EXCEPT ![s] = clock]
  /\ UNCHANGED <<clock, scheduled, listed, pc, stamp, out>>

\* TTLSecondsAfterFinished.
JobExpires(s) ==
  /\ job[s] = "finished"
  /\ since[s] + TTL <= clock
  /\ job' = [job EXCEPT ![s] = "absent"]
  /\ since' = [since EXCEPT ![s] = clock]
  /\ UNCHANGED <<clock, scheduled, listed, pc, stamp, out>>

\* concurrencyPolicy Forbid: one scheduled Job at a time.
ScheduledChanges ==
  /\ scheduled' = ~scheduled
  /\ UNCHANGED <<clock, job, since, listed, pc, stamp, out>>

StatusFollows ==
  /\ listed # scheduled
  /\ listed' = scheduled
  /\ UNCHANGED <<clock, job, since, scheduled, pc, stamp, out>>

(***************************************************************************)
(* The history of a call: whether something was active at some point of    *)
(* it, and what was active (for the CronJob: listed) at every point of it. *)
(***************************************************************************)
Observed(c) ==
  IF pc[c] = "idle"
  THEN [busy |-> Busy', jobs |-> Unfinished', listed |-> listed']
  ELSE [busy |-> seen[c].busy \/ Busy',
        jobs |-> seen[c].jobs \cap Unfinished',
        listed |-> seen[c].listed /\ listed']

Observe ==
  seen' = [c \in Callers |->
             IF pc[c] = "idle" /\ pc'[c] = "idle" THEN seen[c] ELSE Observed(c)]

Request(c) ==
  \/ Unavailable(c) \/ CallTrigger(c) \/ CallRunning(c)
  \/ GetCronJob(c) \/ ListManual(c) \/ CreateMade(c) \/ CreateRefused(c)
  \/ RunningGet(c) \/ RunningList(c)

Cluster ==
  \/ Tick \/ ScheduledChanges \/ StatusFollows
  \/ \E s \in Seconds : JobFinishes(s) \/ JobExpires(s)

Next ==
  /\ Cluster \/ \E c \in Callers : Request(c)
  /\ Observe
  /\ UNCHANGED available

Spec == Init /\ [][Next]_vars

(***************************************************************************)
(* Properties.                                                             *)
(***************************************************************************)
TypeOK ==
  /\ available \in BOOLEAN
  /\ clock \in Seconds
  /\ job \in [Seconds -> JobStates]
  /\ since \in [Seconds -> Seconds]
  /\ scheduled \in BOOLEAN
  /\ listed \in BOOLEAN
  /\ pc \in [Callers -> Places]
  /\ stamp \in [Callers -> Seconds]
  /\ out \in [Callers -> Answers]
  /\ seen \in [Callers -> [busy : BOOLEAN, jobs : SUBSET Seconds, listed : BOOLEAN]]

\* No name from the future, and no Job that finished in the second of its name.
NamesAreDated ==
  /\ \A c \in Callers : stamp[c] <= clock
  /\ \A s \in Seconds : since[s] <= clock
  /\ \A s \in Seconds : job[s] # "absent" => s <= since[s]
  /\ \A s \in Seconds : job[s] = "finished" => s < since[s]

\* A Create that meets a Job of its name was overtaken by another call during
\* its own: the Job was not there, or not in that second, when it listed.
TakenMeansBusy ==
  \A c \in Callers : pc[c] = "create" /\ ~NameIsFree(stamp[c]) => seen[c].busy

\* "ErrAlreadyRunning" is never said without reason: a scanner Job was active,
\* or listed by the CronJob, at some point of the very call that was refused.
\* This is what lets Trigger turn AlreadyExists of a name with the resolution
\* of a second into "already running" (kubernetes.go 120-125).
RefusalsAreTruthful ==
  \A c \in Callers : out[c] = "already" => seen[c].busy

\* The check and the Create are not atomic, but the overlap they allow is
\* bounded: the manual Jobs active and the Creates on their way are together
\* never more than the requests in flight, whatever answers were lost.  With
\* requests one at a time this says that manual scans never overlap.
Creating == {c \in Callers : pc[c] = "create"}

OverlapBounded ==
  Cardinality(Unfinished) + Cardinality(Creating) <= Cardinality(Callers)

KubeInv == TypeOK /\ NamesAreDated /\ TakenMeansBusy

\* Running says false only if no single scanner Job was there during the whole
\* call, unless the API server failed it: the two reads, of the CronJob and of
\* the Jobs, cannot miss a Job that both could have shown.
RunningSeesSteadyJobs ==
  \A c \in Callers :
    available /\ out[c] = "still" /\ pc[c] = "idle" => seen[c].jobs = {} /\ ~seen[c].listed
=============================================================================
