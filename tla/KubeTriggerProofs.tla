------------------------- MODULE KubeTriggerProofs -------------------------
(***************************************************************************)
(* Theorems about KubeTrigger, for every set of requests, clock and TTL.   *)
(***************************************************************************)
EXTENDS KubeTrigger, FiniteSetTheorems, TLAPS

USE DEF Seconds, JobStates, Places, Answers

ClusterTypes ==
  /\ available \in BOOLEAN
  /\ clock \in Seconds
  /\ job \in [Seconds -> JobStates]
  /\ since \in [Seconds -> Seconds]
  /\ scheduled \in BOOLEAN
  /\ listed \in BOOLEAN

RequestTypes ==
  /\ pc \in [Callers -> Places]
  /\ stamp \in [Callers -> Seconds]
  /\ out \in [Callers -> Answers]

\* Only CreateMade, among the steps of a request, changes the cluster.
LEMMA RequestLeavesCluster ==
  ASSUME NEW c \in Callers, Request(c), ~CreateMade(c)
  PROVE  UNCHANGED env
BY DEF Request, Unavailable, CallTrigger, CallRunning, Calls, GetCronJob, ListManual,
       CreateRefused, RunningGet, RunningList, env

LEMMA ClusterTyping ==
  ASSUME TypeOK, [Next]_vars
  PROVE  ClusterTypes'
<1>1. CASE UNCHANGED vars
  BY <1>1 DEF vars, env, TypeOK, ClusterTypes
<1>2. CASE Cluster /\ UNCHANGED available
  <2>1. CASE Tick
    BY <1>2, <2>1, TimesAreNatural DEF Tick, TypeOK, ClusterTypes
  <2>2. CASE ScheduledChanges
    BY <1>2, <2>2 DEF ScheduledChanges, TypeOK, ClusterTypes
  <2>3. CASE StatusFollows
    BY <1>2, <2>3 DEF StatusFollows, TypeOK, ClusterTypes
  <2>4. CASE \E s \in Seconds : JobFinishes(s) \/ JobExpires(s)
    BY <1>2, <2>4 DEF JobFinishes, JobExpires, TypeOK, ClusterTypes
  <2> QED
    BY <1>2, <2>1, <2>2, <2>3, <2>4 DEF Cluster
<1>3. ASSUME NEW c \in Callers, Request(c), UNCHANGED available
      PROVE  ClusterTypes'
  <2>1. CASE CreateMade(c)
    BY <1>3, <2>1 DEF CreateMade, TypeOK, ClusterTypes
  <2>2. CASE ~CreateMade(c)
    <3>1. UNCHANGED env
      BY <1>3, <2>2, RequestLeavesCluster
    <3> QED
      BY <1>3, <3>1 DEF env, TypeOK, ClusterTypes
  <2> QED
    BY <2>1, <2>2
<1> QED
  BY <1>1, <1>2, <1>3 DEF Next

LEMMA RequestTyping ==
  ASSUME TypeOK, [Next]_vars
  PROVE  RequestTypes'
<1>1. CASE UNCHANGED vars
  BY <1>1 DEF vars, TypeOK, RequestTypes
<1>2. CASE Cluster
  BY <1>2 DEF Cluster, Tick, ScheduledChanges, StatusFollows, JobFinishes, JobExpires,
              TypeOK, RequestTypes
<1>3. ASSUME NEW c \in Callers, Request(c)
      PROVE  RequestTypes'
  <2>1. /\ \A a \in Answers : Returns(c, a) => RequestTypes'
        /\ \A p \in Places : Goes(c, p) => RequestTypes'
        /\ \A p \in Places : Calls(c, p) => RequestTypes'
    <3> USE DEF TypeOK, RequestTypes
    <3>1. ASSUME NEW a \in Answers, Returns(c, a)
          PROVE  RequestTypes'
      <4>1. pc' \in [Callers -> Places]
        BY <3>1 DEF Returns
      <4>2. out' \in [Callers -> Answers]
        BY <3>1 DEF Returns
      <4> QED
        BY <3>1, <4>1, <4>2 DEF Returns
    <3>2. ASSUME NEW p \in Places, Goes(c, p)
          PROVE  RequestTypes'
      BY <3>2 DEF Goes
    <3>3. ASSUME NEW p \in Places, Calls(c, p)
          PROVE  RequestTypes'
      <4>1. pc' \in [Callers -> Places]
        BY <3>3 DEF Calls
      <4>2. out' \in [Callers -> Answers]
        BY <3>3 DEF Calls
      <4> QED
        BY <3>3, <4>1, <4>2 DEF Calls
    <3> QED
      BY <3>1, <3>2, <3>3
  <2>2. CASE Unavailable(c)
    BY <2>1, <2>2 DEF Unavailable
  <2>3. CASE CallTrigger(c) \/ CallRunning(c)
    BY <2>1, <2>3 DEF CallTrigger, CallRunning
  <2>4. CASE GetCronJob(c)
    BY <2>1, <2>4 DEF GetCronJob
  <2>5. CASE ListManual(c)
    BY <2>1, <2>5 DEF ListManual, NameTime, TypeOK, RequestTypes
  <2>6. CASE CreateMade(c) \/ CreateRefused(c)
    BY <2>1, <2>6 DEF CreateMade, CreateRefused
  <2>7. CASE RunningGet(c)
    BY <2>1, <2>7 DEF RunningGet, TypeOK, RequestTypes
  <2>8. CASE RunningList(c)
    BY <2>1, <2>8 DEF RunningList
  <2> QED
    BY <1>3, <2>2, <2>3, <2>4, <2>5, <2>6, <2>7, <2>8 DEF Request
<1> QED
  BY <1>1, <1>2, <1>3 DEF Next

\* What was active when a call was answered stays on its record.
LEMMA SeenTyping ==
  ASSUME TypeOK, [Next]_vars
  PROVE  seen' \in [Callers -> [busy : BOOLEAN, jobs : SUBSET Seconds, listed : BOOLEAN]]
<1>1. CASE UNCHANGED vars
  BY <1>1 DEF vars, TypeOK
<1>2. CASE Observe
  <2>1. ClusterTypes'
    BY ClusterTyping
  <2>2. Busy' \in BOOLEAN /\ Unfinished' \in SUBSET Seconds /\ listed' \in BOOLEAN
    BY <2>1 DEF Busy, Unfinished, ClusterTypes
  <2>3. ASSUME NEW c \in Callers
        PROVE  Observed(c) \in [busy : BOOLEAN, jobs : SUBSET Seconds, listed : BOOLEAN]
    <3>1. seen[c] \in [busy : BOOLEAN, jobs : SUBSET Seconds, listed : BOOLEAN]
      BY DEF TypeOK
    <3>2. /\ (seen[c].busy \/ Busy') \in BOOLEAN
          /\ (seen[c].jobs \cap Unfinished') \in SUBSET Seconds
          /\ (seen[c].listed /\ listed') \in BOOLEAN
      BY <2>2, <3>1
    <3> QED
      BY <2>2, <3>2 DEF Observed
  <2> QED
    BY <1>2, <2>3 DEF Observe, TypeOK
<1> QED
  BY <1>1, <1>2 DEF Next

LEMMA Typing == TypeOK /\ [Next]_vars => TypeOK'
BY ClusterTyping, RequestTyping, SeenTyping DEF TypeOK, ClusterTypes, RequestTypes

\* A call that is not over, or ends now, keeps on record that a Job was active.
LEMMA BusyIsKept ==
  ASSUME TypeOK, Next, NEW c \in Callers
  PROVE  /\ pc[c] = "idle" /\ pc'[c] = "idle" => seen'[c] = seen[c]
         /\ pc[c] # "idle" => seen'[c].busy = (seen[c].busy \/ Busy')
BY DEF Next, Observe, Observed, TypeOK

\* The dates of one name: the part of NamesAreDated that is about second s.
Dated(s) ==
  /\ since[s] <= clock
  /\ job[s] # "absent" => s <= since[s]
  /\ job[s] = "finished" => s < since[s]

LEMMA DatedByName ==
  NamesAreDated <=> (\A c \in Callers : stamp[c] <= clock) /\ (\A s \in Seconds : Dated(s))
BY DEF NamesAreDated, Dated

LEMMA DatesKept ==
  ASSUME TypeOK, NamesAreDated, [Next]_vars
  PROVE  NamesAreDated'
<1> DEFINE StampsOK == \A c \in Callers : stamp[c] <= clock
           DatesOK == \A s \in Seconds : Dated(s)
<1>0. /\ clock \in Nat /\ \A s \in Seconds : s \in Nat /\ since[s] \in Nat
      /\ \A c \in Callers : stamp[c] \in Nat
      /\ StampsOK /\ DatesOK
  BY DatedByName DEF TypeOK
<1>1. CASE UNCHANGED vars
  BY <1>1 DEF vars, env, NamesAreDated
<1>2. CASE Tick
  <2>1. clock' = clock + 1 /\ UNCHANGED <<stamp, since, job>>
    BY <1>2 DEF Tick
  <2>2. StampsOK'
    BY <1>0, <2>1
  <2>3. DatesOK'
    BY <1>0, <2>1 DEF Dated
  <2> QED
    BY <2>2, <2>3 DEF NamesAreDated, Dated
<1>3. CASE ScheduledChanges \/ StatusFollows
  BY <1>3 DEF ScheduledChanges, StatusFollows, NamesAreDated
<1>4. ASSUME NEW s \in Seconds, JobFinishes(s) \/ JobExpires(s)
      PROVE  NamesAreDated'
  <2>1. /\ UNCHANGED <<stamp, clock>>
        /\ job' = [job EXCEPT ![s] = "finished"] \/ job' = [job EXCEPT ![s] = "absent"]
        /\ since' = [since EXCEPT ![s] = clock]
        /\ job'[s] = "finished" => job[s] = "active" /\ since[s] < clock
    BY <1>4 DEF JobFinishes, JobExpires, TypeOK
  <2>2. ASSUME NEW t \in Seconds
        PROVE  Dated(t)'
    <3>1. CASE t # s
      <4>1. job'[t] = job[t] /\ since'[t] = since[t]
        BY <2>1, <3>1 DEF TypeOK
      <4> QED
        BY <1>0, <2>1, <4>1 DEF Dated
    <3>2. CASE t = s
      <4>1. since'[t] = clock /\ job'[t] \in {"finished", "absent"}
        BY <2>1, <3>2 DEF TypeOK
      <4>2. job[t] = "active" => t <= since[t]
        BY <1>0 DEF Dated
      <4> QED
        BY <1>0, <2>1, <3>2, <4>1, <4>2 DEF Dated
    <3> QED
      BY <3>1, <3>2
  <2> QED
    BY <1>0, <2>1, <2>2 DEF NamesAreDated, Dated
<1>5. ASSUME NEW c \in Callers, Request(c)
      PROVE  NamesAreDated'
  <2>1. CASE CreateMade(c)
    <3>1. /\ UNCHANGED <<stamp, clock>>
          /\ job' = [job EXCEPT ![stamp[c]] = "active"]
          /\ since' = [since EXCEPT ![stamp[c]] = clock]
      BY <2>1 DEF CreateMade, Returns
    <3>2. ASSUME NEW t \in Seconds
          PROVE  Dated(t)'
      <4>1. CASE t # stamp[c]
        <5>1. job'[t] = job[t] /\ since'[t] = since[t]
          BY <3>1, <4>1 DEF TypeOK
        <5> QED
          BY <1>0, <3>1, <5>1 DEF Dated
      <4>2. CASE t = stamp[c]
        <5>1. since'[t] = clock /\ job'[t] = "active"
          BY <3>1, <4>2 DEF TypeOK
        <5> QED
          BY <1>0, <3>1, <4>2, <5>1 DEF Dated
      <4> QED
        BY <4>1, <4>2
    <3> QED
      BY <1>0, <3>1, <3>2 DEF NamesAreDated, Dated
  <2>2. CASE ListManual(c)
    <3>1. /\ UNCHANGED <<job, since, clock>>
          /\ stamp' = stamp \/ stamp' = [stamp EXCEPT ![c] = clock]
      BY <2>2 DEF ListManual, NameTime, Returns, env
    <3>2. ASSUME NEW d \in Callers
          PROVE  stamp'[d] <= clock'
      <4>1. stamp'[d] = stamp[d] \/ stamp'[d] = clock
        BY <3>1 DEF TypeOK
      <4> QED
        BY <1>0, <3>1, <4>1
    <3>3. ASSUME NEW s \in Seconds
          PROVE  Dated(s)'
      <4>1. Dated(s)
        BY <1>0
      <4> QED
        BY <3>1, <4>1 DEF Dated
    <3> QED
      BY <3>2, <3>3 DEF NamesAreDated, Dated
  <2>3. CASE ~CreateMade(c) /\ ~ListManual(c)
    <3>1. UNCHANGED <<env, stamp>>
      BY <1>5, <2>3 DEF Request, Unavailable, CallTrigger, CallRunning, Calls, GetCronJob,
         CreateRefused, RunningGet, RunningList, Returns, Goes, env
    <3> QED
      BY <3>1 DEF env, NamesAreDated
  <2> QED
    BY <2>1, <2>2, <2>3
<1> QED
  BY <1>1, <1>2, <1>3, <1>4, <1>5 DEF Next, Cluster

\* The one way into "create" dates the name; a Job that has it is not active.
LEMMA TakenKept ==
  ASSUME KubeInv, [Next]_vars
  PROVE  TakenMeansBusy'
<1> SUFFICES ASSUME NEW c \in Callers, pc'[c] = "create", job'[stamp'[c]] # "absent"
             PROVE  seen'[c].busy
  BY DEF TakenMeansBusy, NameIsFree
<1>1. CASE UNCHANGED vars
  BY <1>1 DEF vars, env, KubeInv, TakenMeansBusy, NameIsFree
<1>2. CASE Next /\ pc[c] = "create"
  <2>1. stamp'[c] = stamp[c]
    BY <1>2 DEF Next, Cluster, Tick, ScheduledChanges, StatusFollows, JobFinishes, JobExpires,
       Request, Unavailable, CallTrigger, CallRunning, Calls, GetCronJob, ListManual, CreateMade,
       CreateRefused, RunningGet, RunningList, Returns, Goes, KubeInv, TypeOK
  <2>2. seen'[c].busy = (seen[c].busy \/ Busy')
    BY <1>2, BusyIsKept DEF KubeInv
  <2>3. CASE job[stamp[c]] # "absent"
    BY <1>2, <2>2, <2>3 DEF KubeInv, TakenMeansBusy, NameIsFree
  <2>4. CASE job[stamp[c]] = "absent"
    <3>1. \E d \in Callers : CreateMade(d)
      <4>1. stamp[c] \in Seconds /\ job'[stamp[c]] # "absent"
        BY <2>1 DEF KubeInv, TypeOK
      <4>2. ~Cluster
        BY <2>4, <4>1 DEF Cluster, Tick, ScheduledChanges, StatusFollows, JobFinishes,
           JobExpires, KubeInv, TypeOK
      <4>3. ~UNCHANGED env
        BY <2>4, <4>1 DEF env
      <4> QED
        BY <1>2, <4>2, <4>3, RequestLeavesCluster DEF Next
    <3>2. job'[stamp[c]] = "active"
      BY <2>1, <2>4, <3>1 DEF CreateMade, KubeInv, TypeOK
    <3>3. Unfinished' # {}
      BY <3>2 DEF Unfinished, KubeInv, TypeOK
    <3> QED
      BY <2>2, <3>3 DEF Busy
  <2> QED
    BY <2>3, <2>4
<1>3. CASE Next /\ pc[c] # "create"
  <2>1. ListManual(c) /\ UNCHANGED job /\ stamp'[c] = clock /\ Unfinished = {}
    BY <1>3 DEF Next, Cluster, Tick, ScheduledChanges, StatusFollows, JobFinishes, JobExpires,
       Request, Unavailable, CallTrigger, CallRunning, Calls, GetCronJob, ListManual, CreateMade,
       CreateRefused, RunningGet, RunningList, Returns, Goes, KubeInv, TypeOK, NameTime,
       ManualActive, env
  <2>2. job[clock] = "finished"
    BY <2>1 DEF KubeInv, TypeOK, Unfinished
  <2>3. clock < since[clock] /\ since[clock] <= clock
    BY <2>2 DEF KubeInv, TypeOK, NamesAreDated
  <2> QED
    BY <2>3 DEF KubeInv, TypeOK
<1> QED
  BY <1>1, <1>2, <1>3

\* KubeInv: names are dated and a name found taken means the call was overtaken.
THEOREM KubeInvariant == Spec => []KubeInv
<1>1. Init => KubeInv
  <2> SUFFICES ASSUME Init PROVE KubeInv
    OBVIOUS
  <2>1. 0 \in Seconds
    BY TimesAreNatural
  <2>2. TypeOK
    BY <2>1 DEF Init, TypeOK
  <2>3. NamesAreDated /\ TakenMeansBusy
    BY DEF Init, NamesAreDated, TakenMeansBusy, NameIsFree
  <2> QED
    BY <2>2, <2>3 DEF KubeInv
<1>2. KubeInv /\ [Next]_vars => KubeInv'
  BY Typing, DatesKept, TakenKept DEF KubeInv
<1> QED
  BY <1>1, <1>2, PTL DEF Spec

\* What a step of the request leaves its answer at: "already" only with reason.
LEMMA RefusalHasReason ==
  ASSUME KubeInv, Next, NEW c \in Callers, out'[c] = "already", out[c] # "already"
  PROVE  /\ pc[c] # "idle"
         /\ \/ Busy'
            \/ seen[c].busy
<1>1. \/ GetCronJob(c) /\ listed
      \/ ListManual(c) /\ ManualActive
      \/ CreateRefused(c) /\ ~NameIsFree(stamp[c])
  BY DEF Next, Cluster, Tick, ScheduledChanges, StatusFollows, JobFinishes, JobExpires,
     Request, Unavailable, CallTrigger, CallRunning, Calls, GetCronJob, ListManual, CreateMade,
     CreateRefused, RunningGet, RunningList, Returns, Goes, KubeInv, TypeOK
<1>2. CASE GetCronJob(c) /\ listed
  BY <1>2 DEF GetCronJob, Busy, env
<1>3. CASE ListManual(c) /\ ManualActive
  BY <1>3 DEF ListManual, ManualActive, Busy, Unfinished, env
<1>4. CASE CreateRefused(c) /\ ~NameIsFree(stamp[c])
  BY <1>4 DEF CreateRefused, KubeInv, TakenMeansBusy
<1> QED
  BY <1>1, <1>2, <1>3, <1>4

\* RefusalsAreTruthful: a refused Trigger call met an active scanner Job.
THEOREM RefusalsHaveReason == Spec => []RefusalsAreTruthful
<1>1. Init => RefusalsAreTruthful
  BY DEF Init, RefusalsAreTruthful
<1>2. KubeInv /\ RefusalsAreTruthful /\ [Next]_vars => RefusalsAreTruthful'
  <2> SUFFICES ASSUME KubeInv, RefusalsAreTruthful, [Next]_vars,
                      NEW c \in Callers, out'[c] = "already"
               PROVE  seen'[c].busy
    BY DEF RefusalsAreTruthful
  <2>1. CASE UNCHANGED vars
    BY <2>1 DEF vars, RefusalsAreTruthful
  <2>2. CASE Next /\ out[c] # "already"
    BY <2>2, RefusalHasReason, BusyIsKept DEF KubeInv
  <2>3. CASE Next /\ out[c] = "already"
    <3>1. seen[c].busy
      BY <2>3 DEF RefusalsAreTruthful
    <3>2. ~(pc[c] = "idle" /\ pc'[c] # "idle")
      BY <2>3 DEF Next, Cluster, Tick, ScheduledChanges, StatusFollows, JobFinishes, JobExpires,
         Request, Unavailable, CallTrigger, CallRunning, Calls, GetCronJob, ListManual, CreateMade,
         CreateRefused, RunningGet, RunningList, Returns, Goes, KubeInv, TypeOK
    <3> QED
      BY <2>3, <3>1, <3>2, BusyIsKept DEF KubeInv
  <2> QED
    BY <2>1, <2>2, <2>3
<1> QED
  BY <1>1, <1>2, KubeInvariant, PTL DEF Spec

(***************************************************************************)
(* The bound on overlapping scans.                                         *)
(***************************************************************************)
LEMMA SetsAreFinite ==
  /\ IsFiniteSet(Unfinished) /\ IsFiniteSet(Creating)
  /\ Cardinality(Unfinished) \in Nat /\ Cardinality(Creating) \in Nat
  /\ Cardinality(Callers) \in Nat
  /\ Cardinality(Creating) <= Cardinality(Callers)
<1>1. IsFiniteSet(Seconds)
  BY TimesAreNatural, FS_Interval
<1>2. IsFiniteSet(Unfinished)
  BY <1>1, FS_Subset DEF Unfinished
<1>3. IsFiniteSet(Creating) /\ Cardinality(Creating) <= Cardinality(Callers)
  BY CallersAreFinite, FS_Subset DEF Creating
<1> QED
  BY <1>2, <1>3, CallersAreFinite, FS_CardinalityType

LEMMA AddedAtMostOne ==
  ASSUME NEW S, NEW T, NEW x, IsFiniteSet(S), T \subseteq S \cup {x}
  PROVE  Cardinality(T) <= Cardinality(S) + 1
<1>1. /\ IsFiniteSet(S \cup {x}) /\ Cardinality(S \cup {x}) <= Cardinality(S) + 1
      /\ Cardinality(S) \in Nat /\ Cardinality(S \cup {x}) \in Nat
  BY FS_AddElement, FS_CardinalityType
<1>2. IsFiniteSet(T) /\ Cardinality(T) <= Cardinality(S \cup {x})
  BY <1>1, FS_Subset
<1> QED
  BY <1>1, <1>2, FS_CardinalityType

LEMMA OneTakenAway ==
  ASSUME NEW S, NEW T, NEW x \in S, IsFiniteSet(S), T \subseteq S \ {x}
  PROVE  Cardinality(T) <= Cardinality(S) - 1
<1>1. IsFiniteSet(S \ {x}) /\ Cardinality(S \ {x}) = Cardinality(S) - 1
  BY FS_RemoveElement
<1> QED
  BY <1>1, FS_Subset

LEMMA EmptyCounts == Cardinality({}) = 0
BY FS_EmptySet

\* A step that adds neither a Job nor a Create keeps the bound.
LEMMA NothingAdded ==
  ASSUME OverlapBounded, Unfinished' \subseteq Unfinished, Creating' \subseteq Creating
  PROVE  OverlapBounded'
<1>1. /\ Cardinality(Unfinished') <= Cardinality(Unfinished)
      /\ Cardinality(Creating') <= Cardinality(Creating)
      /\ Cardinality(Unfinished') \in Nat /\ Cardinality(Creating') \in Nat
  BY SetsAreFinite, FS_Subset, FS_CardinalityType
<1> QED
  BY <1>1, SetsAreFinite DEF OverlapBounded

\* OverlapBounded: never more manual scans at once than requests in flight.
THEOREM OverlapIsBounded == Spec => []OverlapBounded
<1>1. Init => OverlapBounded
  <2> SUFFICES ASSUME Init PROVE OverlapBounded
    OBVIOUS
  <2>1. Unfinished = {} /\ Creating = {}
    BY DEF Init, Unfinished, Creating
  <2> QED
    BY <2>1, EmptyCounts, SetsAreFinite DEF OverlapBounded
<1>2. KubeInv /\ OverlapBounded /\ [Next]_vars => OverlapBounded'
  <2> SUFFICES ASSUME KubeInv, OverlapBounded, [Next]_vars
               PROVE  OverlapBounded'
    OBVIOUS
  <2> USE DEF KubeInv, TypeOK
  <2>1. CASE UNCHANGED vars
    BY <2>1, NothingAdded DEF vars, env, Unfinished, Creating
  <2>2. CASE Cluster
    <3>1. Unfinished' \subseteq Unfinished /\ Creating' \subseteq Creating
      BY <2>2 DEF Cluster, Tick, ScheduledChanges, StatusFollows, JobFinishes, JobExpires,
         Unfinished, Creating
    <3> QED
      BY <3>1, NothingAdded
  <2>3. ASSUME NEW c \in Callers, Request(c)
        PROVE  OverlapBounded'
    <3>1. CASE CreateMade(c)
      <4>1. c \in Creating /\ Creating' \subseteq Creating \ {c}
        BY <3>1 DEF CreateMade, Returns, Creating
      <4>2. Unfinished' \subseteq Unfinished \cup {stamp[c]}
        BY <3>1 DEF CreateMade, Unfinished
      <4>3. /\ Cardinality(Unfinished') <= Cardinality(Unfinished) + 1
            /\ Cardinality(Creating') <= Cardinality(Creating) - 1
        BY <4>1, <4>2, AddedAtMostOne, OneTakenAway, SetsAreFinite
      <4>4. Cardinality(Unfinished') \in Nat /\ Cardinality(Creating') \in Nat
        BY <4>1, <4>2, SetsAreFinite, FS_Subset, FS_AddElement, FS_CardinalityType
      <4> QED
        BY <4>3, <4>4, SetsAreFinite DEF OverlapBounded
    <3>2. CASE ListManual(c) /\ ~ManualActive
      <4>1. Unfinished' = {}
        BY <3>2 DEF ListManual, ManualActive, Unfinished, env
      <4>2. /\ Cardinality(Creating') <= Cardinality(Callers)
            /\ Cardinality(Creating') \in Nat
        BY CallersAreFinite, FS_Subset, FS_CardinalityType DEF Creating
      <4> QED
        BY <4>1, <4>2, EmptyCounts DEF OverlapBounded
    <3>3. CASE ~CreateMade(c) /\ ~(ListManual(c) /\ ~ManualActive)
      <4>1. Unfinished' = Unfinished
        BY <2>3, <3>3, RequestLeavesCluster DEF env, Unfinished
      <4>2. Creating' \subseteq Creating
        BY <2>3, <3>3 DEF Request, Unavailable, CallTrigger, CallRunning, Calls, GetCronJob,
           ListManual, CreateRefused, RunningGet, RunningList, Returns, Goes, Creating
      <4> QED
        BY <4>1, <4>2, NothingAdded
    <3> QED
      BY <3>1, <3>2, <3>3
  <2> QED
    BY <2>1, <2>2, <2>3 DEF Next
<1> QED
  BY <1>1, <1>2, KubeInvariant, PTL DEF Spec

\* What a call of Running has found so far: an answer "still" met no Job that was
\* active throughout and no listing that lasted, and one that has gone on to the
\* manual Jobs, and has met no error, found the CronJob's list empty.
Steady(c) ==
  /\ pc[c] = "idle" /\ out[c] = "still" => seen[c].jobs = {} /\ ~seen[c].listed
  /\ pc[c] = "runningList" /\ out[c] # "unsure" => ~seen[c].listed

AllSteady == available => \A c \in Callers : Steady(c)

LEMMA SteadyIsKept ==
  ASSUME TypeOK, Next, available, NEW c \in Callers, Steady(c)
  PROVE  Steady(c)'
<1>1. /\ pc[c] = "idle" /\ pc'[c] = "idle" => seen'[c] = seen[c]
      /\ pc[c] # "idle" => /\ seen'[c].jobs = seen[c].jobs \cap Unfinished'
                           /\ seen'[c].listed = (seen[c].listed /\ listed')
  BY DEF Next, Observe, Observed, TypeOK
<1>2. CASE pc'[c] = pc[c] /\ out'[c] = out[c]
  BY <1>1, <1>2 DEF Steady, TypeOK
<1>3. CASE RunningGet(c)
  <2>1. \/ pc'[c] = "idle" /\ out'[c] = "running"
        \/ pc'[c] = "runningList" /\ ~listed'
        \/ pc'[c] = "runningList" /\ out'[c] = "unsure"
    BY <1>3 DEF RunningGet, Returns, Goes, env, TypeOK
  <2> QED
    BY <1>1, <1>3, <2>1 DEF RunningGet, Steady
<1>4. CASE RunningList(c)
  <2>1. /\ pc'[c] = "idle"
        /\ out'[c] = "still" => out[c] # "unsure" /\ Unfinished = {}
    BY <1>4 DEF RunningList, Returns, ManualActive, TypeOK
  <2>2. Unfinished' = Unfinished
    BY <1>4 DEF RunningList, env, Unfinished
  <2> QED
    BY <1>1, <1>4, <2>1, <2>2 DEF RunningList, Steady
<1>5. CASE /\ pc'[c] # "runningList" /\ ~(pc'[c] = "idle" /\ out'[c] = "still")
  BY <1>5 DEF Steady
<1>6. \/ pc'[c] = pc[c] /\ out'[c] = out[c]
      \/ RunningGet(c) \/ RunningList(c)
      \/ pc'[c] # "runningList" /\ ~(pc'[c] = "idle" /\ out'[c] = "still")
  <2>1. CASE Cluster
    BY <2>1 DEF Cluster, Tick, ScheduledChanges, StatusFollows, JobFinishes, JobExpires
  <2>2. ASSUME NEW d \in Callers, Request(d), d # c
        PROVE  pc'[c] = pc[c] /\ out'[c] = out[c]
    BY <2>2 DEF Request, Unavailable, CallTrigger, CallRunning, Calls, GetCronJob,
       ListManual, CreateMade, CreateRefused, RunningGet, RunningList, Returns, Goes, TypeOK
  <2>3. CASE Request(c) /\ ~RunningGet(c) /\ ~RunningList(c)
    BY <2>3 DEF Request, Unavailable, CallTrigger, CallRunning, Calls, GetCronJob,
       ListManual, CreateMade, CreateRefused, Returns, Goes, TypeOK
  <2> QED
    BY <2>1, <2>2, <2>3 DEF Next
<1> QED
  BY <1>2, <1>3, <1>4, <1>5, <1>6

\* RunningSeesSteadyJobs: an answer "not running" missed nothing that was there
\* from the beginning of the call to its end.
THEOREM RunningMissesNothing == Spec => []RunningSeesSteadyJobs
<1>1. Init => AllSteady
  BY DEF Init, AllSteady, Steady
<1>2. KubeInv /\ AllSteady /\ [Next]_vars => AllSteady'
  <2> SUFFICES ASSUME KubeInv, AllSteady, [Next]_vars, available', NEW c \in Callers
               PROVE  Steady(c)'
    BY DEF AllSteady
  <2>1. CASE UNCHANGED vars
    BY <2>1 DEF vars, AllSteady, Steady
  <2>2. CASE Next
    BY <2>2, SteadyIsKept DEF Next, AllSteady, KubeInv
  <2> QED
    BY <2>1, <2>2
<1>3. AllSteady => RunningSeesSteadyJobs
  BY DEF AllSteady, Steady, RunningSeesSteadyJobs
<1> QED
  BY <1>1, <1>2, <1>3, KubeInvariant, PTL DEF Spec
=============================================================================
