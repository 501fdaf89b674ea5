-------------------------- MODULE DashboardProofs --------------------------
(***************************************************************************)
(* Theorems about Dashboard: for any number of requests in flight, scans,  *)
(* batches and failures.                                                   *)
(***************************************************************************)
EXTENDS Dashboard, SequenceTheorems, TLAPS

USE DEF service, page

-----------------------------------------------------------------------------
(* The requests in flight.                                                  *)

\* The element that was at a place before another one was removed.
Before(k, i) == IF i < k THEN i ELSE i + 1

\* Removing an element closes the gap and moves nothing else.
LEMMA RemoveAtFacts ==
  ASSUME NEW S, NEW s \in Seq(S), NEW k \in 1..Len(s)
  PROVE  /\ RemoveAt(s, k) \in Seq(S)
         /\ Len(RemoveAt(s, k)) = Len(s) - 1
         /\ \A i \in 1..(Len(s) - 1) : RemoveAt(s, k)[i] = s[Before(k, i)]
<1> DEFINE front == SubSeq(s, 1, k - 1)
           back  == SubSeq(s, k + 1, Len(s))
<1>0. Len(s) \in Nat /\ \A i \in 1..Len(s) : s[i] \in S
  BY LenProperties, ElementOfSeq
<1>1. /\ front \in Seq(S) /\ Len(front) = k - 1
      /\ \A i \in 1..(k - 1) : front[i] = s[i]
  <2>1. k - 1 \in Int /\ \A i \in 1..(k - 1) : s[i] \in S
    BY <1>0
  <2> QED
    BY <1>0, <2>1, SubSeqProperties
<1>2. /\ back \in Seq(S) /\ Len(back) = Len(s) - k
      /\ \A i \in 1..(Len(s) - k) : back[i] = s[k + i]
  <2>1. k + 1 \in Int /\ Len(s) \in Int /\ \A i \in (k + 1)..Len(s) : s[i] \in S
    BY <1>0
  <2>2. /\ back \in Seq(S)
        /\ Len(back) = IF k + 1 <= Len(s) THEN Len(s) - (k + 1) + 1 ELSE 0
        /\ \A i \in 1..(Len(s) - (k + 1) + 1) : back[i] = s[(k + 1) + i - 1]
    BY <2>1, SubSeqProperties
  <2> QED
    BY <1>0, <2>2
<1> HIDE DEF front, back
<1>3. /\ front \o back \in Seq(S)
      /\ Len(front \o back) = Len(s) - 1
      /\ \A i \in 1..(Len(s) - 1) :
           (front \o back)[i] = IF i <= k - 1 THEN front[i] ELSE back[i - (k - 1)]
  <2>1. /\ front \o back \in Seq(S)
        /\ Len(front \o back) = Len(front) + Len(back)
        /\ \A i \in 1..(Len(front) + Len(back)) :
             (front \o back)[i] = IF i <= Len(front) THEN front[i]
                                  ELSE back[i - Len(front)]
    BY <1>1, <1>2, ConcatProperties
  <2>2. Len(front) = k - 1 /\ Len(front) + Len(back) = Len(s) - 1
    BY <1>0, <1>1, <1>2
  <2> QED
    BY <2>1, <2>2
<1>4. RemoveAt(s, k) = front \o back
  BY DEF RemoveAt, front, back
<1>5. ASSUME NEW i \in 1..(Len(s) - 1)
      PROVE  RemoveAt(s, k)[i] = s[Before(k, i)]
  <2>1. CASE i < k
    BY <1>0, <1>1, <1>3, <1>4, <2>1 DEF Before
  <2>2. CASE i >= k
    <3>1. i - (k - 1) \in 1..(Len(s) - k) /\ k + (i - (k - 1)) = i + 1
      BY <1>0, <2>2
    <3> QED
      BY <1>0, <1>2, <1>3, <1>4, <2>2, <3>1 DEF Before
  <2> QED
    BY <1>0, <2>1, <2>2
<1> QED
  BY <1>3, <1>4, <1>5

\* What every request in flight satisfies, those that are left satisfy.
LEMMA WithoutFacts ==
  ASSUME reqs \in Seq(Request), NEW k \in DOMAIN reqs
  PROVE  /\ Without(k) \in Seq(Request)
         /\ DOMAIN Without(k) = 1..(Len(reqs) - 1)
         /\ DOMAIN reqs = 1..Len(reqs) /\ Len(reqs) \in Nat
         /\ \A i \in DOMAIN Without(k) :
              /\ Before(k, i) \in DOMAIN reqs /\ Before(k, i) # k
              /\ Without(k)[i] = reqs[Before(k, i)]
         /\ \A j \in DOMAIN reqs :
              j # k => \E i \in DOMAIN Without(k) : j = Before(k, i)
<1>1. DOMAIN reqs = 1..Len(reqs) /\ Len(reqs) \in Nat
  BY LenProperties
<1>2. /\ Without(k) \in Seq(Request)
      /\ Len(Without(k)) = Len(reqs) - 1
      /\ \A i \in 1..(Len(reqs) - 1) : Without(k)[i] = reqs[Before(k, i)]
  BY <1>1, RemoveAtFacts DEF Without
<1>3. DOMAIN Without(k) = 1..(Len(reqs) - 1)
  BY <1>2, LenProperties
<1>4. \A i \in 1..(Len(reqs) - 1) :
        Before(k, i) \in DOMAIN reqs /\ Before(k, i) # k
  BY <1>1 DEF Before
<1>5. ASSUME NEW j \in DOMAIN reqs, j # k
      PROVE  \E i \in 1..(Len(reqs) - 1) : j = Before(k, i)
  <2>1. CASE j < k
    <3>1. j \in 1..(Len(reqs) - 1) /\ Before(k, j) = j
      BY <1>1, <2>1 DEF Before
    <3> QED
      BY <3>1
  <2>2. CASE j > k
    <3>1. j - 1 \in 1..(Len(reqs) - 1) /\ Before(k, j - 1) = j
      BY <1>1, <2>2 DEF Before
    <3> QED
      BY <3>1
  <2> QED
    BY <1>1, <1>5, <2>1, <2>2
<1> QED
  BY <1>1, <1>2, <1>3, <1>4, <1>5

\* A request that is made goes to the end.
LEMMA AppendFacts ==
  ASSUME NEW s \in Seq(Request), NEW r \in Request
  PROVE  /\ Append(s, r) \in Seq(Request)
         /\ DOMAIN s = 1..Len(s) /\ Len(s) \in Nat
         /\ DOMAIN Append(s, r) = 1..(Len(s) + 1)
         /\ \A i \in DOMAIN s : Append(s, r)[i] = s[i]
         /\ Append(s, r)[Len(s) + 1] = r
BY AppendProperties, LenProperties

LEMMA NewType ==
  ASSUME NEW kind \in Kinds
  PROVE  /\ New(kind) \in Request
         /\ New(kind).kind = kind /\ New(kind).at = "sent" /\ New(kind).batch = 0
BY DEF New, Request, Kinds, Progress, Codes

LEMMA RequestType ==
  ASSUME reqs \in Seq(Request), NEW k \in DOMAIN reqs
  PROVE  /\ reqs[k] \in Request
         /\ reqs[k].kind \in Kinds /\ reqs[k].at \in Progress
         /\ reqs[k].scanning \in BOOLEAN /\ reqs[k].batch \in Nat
         /\ reqs[k].code \in Codes
<1>1. reqs[k] \in Request
  BY LenProperties, ElementOfSeq
<1> QED
  BY <1>1 DEF Request

\* What a step may do to the requests in flight: answer one, make one, take one
\* away, or take one away and make a load.
Answers ==
  \E k \in DOMAIN reqs, r \in Request :
    /\ reqs' = [reqs EXCEPT ![k] = r]
    /\ r.kind = reqs[k].kind /\ r.batch \in {reqs[k].batch, batch}
Makes    == \E kind \in {"trigger", "poll"} : reqs' = Append(reqs, New(kind))
Takes    == \E k \in DOMAIN reqs : reqs' = Without(k)
Reloads  == \E k \in DOMAIN reqs : reqs' = Append(Without(k), New("results"))

LEMMA ServeAnswers ==
  ASSUME TypeOK, NEW k \in DOMAIN reqs, Serve(k)
  PROVE  Answers
<1>0. reqs[k] \in Request /\ reqs[k].batch \in Nat /\ batch \in Nat
      /\ scanning \in BOOLEAN
  BY RequestType DEF TypeOK, ServiceOK, RequestsOK
<1>1. CASE ReadFlag(k)
  <2>1. PICK at \in Progress :
          reqs' = [reqs EXCEPT ![k] = [reqs[k] EXCEPT !.at = at, !.scanning = scanning]]
    BY <1>1 DEF ReadFlag, Served, Progress
  <2> DEFINE r == [reqs[k] EXCEPT !.at = at, !.scanning = scanning]
  <2>2. r \in Request /\ r.kind = reqs[k].kind /\ r.batch = reqs[k].batch
    BY <1>0 DEF Request
  <2> QED
    BY <2>1, <2>2 DEF Answers
<1>2. CASE ReadBatch(k)
  <2>1. PICK at \in Progress :
          reqs' = [reqs EXCEPT ![k] = [reqs[k] EXCEPT !.at = at, !.batch = batch]]
    BY <1>2 DEF ReadBatch, Served, Progress
  <2> DEFINE r == [reqs[k] EXCEPT !.at = at, !.batch = batch]
  <2>2. r \in Request /\ r.kind = reqs[k].kind /\ r.batch = batch
    BY <1>0 DEF Request
  <2> QED
    BY <2>1, <2>2 DEF Answers
<1>3. CASE AnswerTrigger(k)
  <2>1. PICK code \in Codes :
          reqs' = [reqs EXCEPT ![k] = [reqs[k] EXCEPT !.at = "answered", !.code = code]]
    BY <1>3 DEF AnswerTrigger, Served
  <2> DEFINE r == [reqs[k] EXCEPT !.at = "answered", !.code = code]
  <2>2. r \in Request /\ r.kind = reqs[k].kind /\ r.batch = reqs[k].batch
    BY <1>0 DEF Request, Progress
  <2> QED
    BY <2>1, <2>2 DEF Answers
<1> QED
  BY <1>1, <1>2, <1>3 DEF Serve

LEMMA RequestsChange ==
  ASSUME TypeOK, [Next]_vars
  PROVE  UNCHANGED reqs \/ Answers \/ Makes \/ Takes \/ Reloads
<1>1. CASE \E k \in DOMAIN reqs : Serve(k)
  BY <1>1, ServeAnswers
<1>2. CASE \E k \in DOMAIN reqs : Deliver(k) \/ Fail(k)
  BY <1>2 DEF Deliver, FirstAnswered, PollAnswered, Reload, ResultsAnswered,
              TriggerAnswered, Fail, Takes, Reloads
<1>3. CASE Click \/ Tick
  BY <1>3 DEF Click, Tick, Makes
<1>4. CASE Begin \/ Save \/ Finish \/ UNCHANGED vars
  BY <1>4 DEF Begin, Save, Finish, vars
<1> QED
  BY <1>1, <1>2, <1>3, <1>4 DEF Next

\* The requests stay requests, and each holds the batch on show or one that it
\* or another request held.
LEMMA RequestsType ==
  ASSUME TypeOK, [Next]_vars
  PROVE  /\ reqs' \in Seq(Request)
         /\ \A i \in DOMAIN reqs' :
              \/ reqs'[i].batch \in {0, batch}
              \/ \E j \in DOMAIN reqs : reqs'[i].batch = reqs[j].batch
<1>0. reqs \in Seq(Request)
  BY DEF TypeOK, RequestsOK
<1>1. CASE Answers
  <2>1. PICK k \in DOMAIN reqs, r \in Request :
          /\ reqs' = [reqs EXCEPT ![k] = r]
          /\ r.batch \in {reqs[k].batch, batch}
    BY <1>1 DEF Answers
  <2>2. k \in 1..Len(reqs) /\ DOMAIN reqs = 1..Len(reqs)
    BY <1>0, LenProperties
  <2>3. reqs' \in Seq(Request) /\ DOMAIN reqs' = DOMAIN reqs
    BY <1>0, <2>1, <2>2, ExceptSeq
  <2> QED
    BY <1>0, <2>1, <2>2, <2>3
<1>2. CASE Makes
  <2>1. PICK kind \in Kinds : reqs' = Append(reqs, New(kind))
    BY <1>2 DEF Makes, Kinds
  <2>2. New(kind) \in Request /\ New(kind).batch = 0
    BY NewType
  <2>3. /\ reqs' \in Seq(Request)
        /\ \A i \in DOMAIN reqs' :
             \/ i \in DOMAIN reqs /\ reqs'[i] = reqs[i]
             \/ reqs'[i] = New(kind)
    BY <1>0, <2>1, <2>2, AppendFacts
  <2> QED
    BY <2>2, <2>3
<1>3. CASE Takes
  <2>1. PICK k \in DOMAIN reqs : reqs' = Without(k)
    BY <1>3 DEF Takes
  <2> QED
    BY <1>0, <2>1, WithoutFacts
<1>4. CASE Reloads
  <2>1. PICK k \in DOMAIN reqs : reqs' = Append(Without(k), New("results"))
    BY <1>4 DEF Reloads
  <2>2. New("results") \in Request /\ New("results").batch = 0
    BY NewType DEF Kinds
  <2>3. /\ Without(k) \in Seq(Request)
        /\ \A i \in DOMAIN Without(k) :
             \E j \in DOMAIN reqs : Without(k)[i] = reqs[j]
    BY <1>0, WithoutFacts
  <2>4. /\ reqs' \in Seq(Request)
        /\ \A i \in DOMAIN reqs' :
             \/ i \in DOMAIN Without(k) /\ reqs'[i] = Without(k)[i]
             \/ reqs'[i] = New("results")
    BY <2>1, <2>2, <2>3, AppendFacts
  <2> QED
    BY <2>2, <2>3, <2>4
<1> QED
  BY <1>0, <1>1, <1>2, <1>3, <1>4, RequestsChange

-----------------------------------------------------------------------------
(* The invariant.                                                           *)

\* startPoll leaves one interval, the one the page knows of.
LEMMA StartPollFacts ==
  ASSUME TypeOK, PollInv, StartPoll
  PROVE  pollTimer' \in Nat \ {0} /\ intervals' = {pollTimer'}
<1>1. CASE pollTimer # 0
  BY <1>1 DEF TypeOK, PageOK, PollInv, StartPoll, Started
<1>2. CASE pollTimer = 0
  <2>1. intervals = {}
    BY <1>2 DEF PollInv
  <2>2. 1 \in 1..(MaxRequests + 1)
    BY BoundsArePositive
  <2>3. Fresh \in 1..(MaxRequests + 1)
    BY <2>1, <2>2 DEF Fresh
  <2>4. pollTimer' = Fresh /\ intervals' = intervals \cup {Fresh}
    BY <1>2 DEF StartPoll, Started
  <2> QED
    BY <2>1, <2>3, <2>4, BoundsArePositive
<1> QED
  BY <1>1, <1>2

\* An answered request tells of a batch that was saved.
LEMMA SetLastScanFacts ==
  ASSUME TypeOK, NothingUnsaved, NEW k \in DOMAIN reqs, SetLastScan(reqs[k].batch)
  PROVE  lastScan' \in 0..MaxBatches /\ lastScan' <= batch
<1>1. reqs[k].batch \in Nat /\ reqs[k].batch <= batch
  BY RequestType DEF TypeOK, RequestsOK, NothingUnsaved
<1> QED
  BY <1>1, BoundsArePositive DEF TypeOK, ServiceOK, PageOK, NothingUnsaved, SetLastScan

LEMMA TypeInit == Init => TypeOK
<1> SUFFICES ASSUME Init PROVE TypeOK
  OBVIOUS
<1>1. New("first") \in Request
  BY NewType DEF Kinds
<1>2. RequestsOK
  BY <1>1 DEF Init, RequestsOK
<1>3. ServiceOK /\ PageOK /\ HistoryOK
  <2>1. 0 \in 0..MaxScans /\ 0 \in 0..MaxBatches /\ 0 \in 0..MaxFailures
    BY BoundsArePositive
  <2> QED
    BY <2>1 DEF Init, ServiceOK, PageOK, HistoryOK
<1> QED
  BY <1>2, <1>3 DEF TypeOK

LEMMA TypeStep ==
  ASSUME TypeOK, PollInv, NothingUnsaved, [Next]_vars
  PROVE  TypeOK'
<1> USE DEF TypeOK
<1>0. RequestsOK'
  BY RequestsType DEF RequestsOK
<1>1. CASE Begin \/ Save \/ Finish
  <2>1. ServiceOK'
    <3>1. scans' \in 0..MaxScans /\ batch' \in 0..MaxBatches
      BY <1>1, BoundsArePositive DEF Begin, Save, Finish, ServiceOK
    <3>2. scanning' \in BOOLEAN
      BY <1>1 DEF Begin, Save, Finish, ServiceOK
    <3> QED
      BY <3>1, <3>2 DEF ServiceOK
  <2>2. PageOK' /\ HistoryOK'
    BY <1>1 DEF Begin, Save, Finish, PageOK, HistoryOK
  <2> QED
    BY <1>0, <2>1, <2>2
<1>2. CASE Click \/ Tick
  BY <1>0, <1>2 DEF Click, Tick, ServiceOK, PageOK, HistoryOK
<1>3. ASSUME NEW k \in DOMAIN reqs, Serve(k)
      PROVE  TypeOK'
  <2>1. UNCHANGED <<service, page, failures, overtaken>>
    BY <1>3 DEF Serve, ReadFlag, ReadBatch, AnswerTrigger, Served
  <2> QED
    BY <1>0, <2>1 DEF ServiceOK, PageOK, HistoryOK
<1>4. ASSUME NEW k \in DOMAIN reqs, Fail(k)
      PROVE  TypeOK'
  <2>1. ServiceOK' /\ PageOK'
    BY <1>4 DEF Fail, ServiceOK, PageOK
  <2>2. failures' \in 0..MaxFailures
    BY <1>4, BoundsArePositive DEF Fail, HistoryOK
  <2>3. overtaken' \in BOOLEAN
    BY <1>4 DEF Fail, HistoryOK
  <2> QED
    BY <1>0, <2>1, <2>2, <2>3 DEF HistoryOK
<1>5. ASSUME NEW k \in DOMAIN reqs, FirstAnswered(k)
      PROVE  TypeOK'
  <2>1. pollTimer' \in Nat /\ intervals' \in SUBSET (Nat \ {0})
    BY <1>5, StartPollFacts DEF FirstAnswered, PageOK
  <2>2. lastScan' \in 0..MaxBatches
    BY <1>5, SetLastScanFacts DEF FirstAnswered
  <2>3. available' \in BOOLEAN /\ chip' \in {"idle", "scanning"}
    BY <1>5 DEF FirstAnswered, PageOK
  <2>4. UNCHANGED <<service, disabled, results, failures, overtaken>>
    BY <1>5 DEF FirstAnswered
  <2> QED
    BY <1>0, <2>1, <2>2, <2>3, <2>4 DEF ServiceOK, PageOK, HistoryOK
<1>6. ASSUME NEW k \in DOMAIN reqs, PollAnswered(k)
      PROVE  TypeOK'
  <2>1. CASE reqs[k].scanning
    BY <1>0, <1>6, <2>1 DEF PollAnswered, ServiceOK, PageOK, HistoryOK
  <2>2. CASE ~reqs[k].scanning
    <3>1. lastScan' \in 0..MaxBatches
      BY <1>6, <2>2, SetLastScanFacts DEF PollAnswered
    <3>2. /\ pollTimer' = 0 /\ intervals' \subseteq intervals
          /\ chip' = "idle" /\ disabled' = FALSE
          /\ UNCHANGED <<service, available, results, failures, overtaken>>
      BY <1>6, <2>2 DEF PollAnswered
    <3> QED
      BY <1>0, <3>1, <3>2 DEF ServiceOK, PageOK, HistoryOK
  <2> QED
    BY <2>1, <2>2
<1>7. ASSUME NEW k \in DOMAIN reqs, ResultsAnswered(k)
      PROVE  TypeOK'
  <2>1. reqs[k].batch \in 0..batch
    BY RequestType, BoundsArePositive DEF NothingUnsaved, RequestsOK, ServiceOK
  <2>2. results' \in 0..MaxBatches
    BY <1>7, <2>1, BoundsArePositive DEF ResultsAnswered, ServiceOK
  <2>3. overtaken' \in BOOLEAN
    BY <1>7 DEF ResultsAnswered, EarlierLoad, HistoryOK
  <2>4. UNCHANGED <<service, available, chip, disabled, pollTimer, intervals,
                    lastScan, failures>>
    BY <1>7 DEF ResultsAnswered
  <2> QED
    BY <1>0, <2>2, <2>3, <2>4 DEF ServiceOK, PageOK, HistoryOK
<1>8. ASSUME NEW k \in DOMAIN reqs, TriggerAnswered(k)
      PROVE  TypeOK'
  <2>1. pollTimer' \in Nat /\ intervals' \in SUBSET (Nat \ {0})
    BY <1>8, StartPollFacts DEF TriggerAnswered, PageOK
  <2>2. chip' \in {"idle", "scanning"} /\ disabled' \in BOOLEAN
    BY <1>8 DEF TriggerAnswered, PageOK
  <2>3. UNCHANGED <<service, available, results, lastScan, failures, overtaken>>
    BY <1>8 DEF TriggerAnswered
  <2> QED
    BY <1>0, <2>1, <2>2, <2>3 DEF ServiceOK, PageOK, HistoryOK
<1>9. CASE UNCHANGED vars
  BY <1>9 DEF vars, ServiceOK, PageOK, RequestsOK, HistoryOK
<1> QED
  BY <1>1, <1>2, <1>3, <1>4, <1>5, <1>6, <1>7, <1>8, <1>9 DEF Next, Deliver

\* The batch on show only grows, and what is shown comes from it.
LEMMA UnsavedStep ==
  ASSUME TypeOK, NothingUnsaved, [Next]_vars
  PROVE  NothingUnsaved'
<1>0. /\ batch \in Nat /\ batch' \in Nat /\ batch <= batch'
      /\ \A k \in DOMAIN reqs : reqs[k].batch \in Nat /\ reqs[k].batch <= batch
      /\ results \in Nat /\ lastScan \in Nat
  <2>1. batch' = batch \/ batch' = batch + 1
    BY DEF Next, Begin, Save, Finish, Click, Tick, Serve, ReadFlag, ReadBatch,
           AnswerTrigger, Served, Deliver, FirstAnswered, PollAnswered,
           ResultsAnswered, TriggerAnswered, Fail, vars
  <2>2. batch \in Nat /\ results \in Nat /\ lastScan \in Nat
    BY BoundsArePositive DEF TypeOK, ServiceOK, PageOK
  <2>3. \A k \in DOMAIN reqs : reqs[k].batch \in Nat /\ reqs[k].batch <= batch
    BY RequestType DEF TypeOK, RequestsOK, NothingUnsaved
  <2> QED
    BY <2>1, <2>2, <2>3
<1>1. \A k \in DOMAIN reqs' : reqs'[k].batch <= batch'
  <2> SUFFICES ASSUME NEW k \in DOMAIN reqs'
               PROVE  reqs'[k].batch <= batch'
    OBVIOUS
  <2>1. CASE reqs'[k].batch \in {0, batch}
    BY <1>0, <2>1
  <2>2. CASE \E j \in DOMAIN reqs : reqs'[k].batch = reqs[j].batch
    BY <1>0, <2>2
  <2> QED
    BY <2>1, <2>2, RequestsType
<1>2. results' <= batch'
  <2>1. results' = results \/ \E k \in DOMAIN reqs : results' = reqs[k].batch
    BY DEF Next, Begin, Save, Finish, Click, Tick, Serve, ReadFlag, ReadBatch,
           AnswerTrigger, Served, Deliver, FirstAnswered, PollAnswered,
           ResultsAnswered, TriggerAnswered, Fail, vars
  <2> QED
    BY <1>0, <2>1 DEF NothingUnsaved
<1>3. lastScan' <= batch'
  <2>1. lastScan' = lastScan \/ \E k \in DOMAIN reqs : lastScan' = reqs[k].batch
    BY DEF Next, Begin, Save, Finish, Click, Tick, Serve, ReadFlag, ReadBatch,
           AnswerTrigger, Served, Deliver, FirstAnswered, PollAnswered,
           ResultsAnswered, TriggerAnswered, Fail, SetLastScan, vars
  <2> QED
    BY <1>0, <2>1 DEF NothingUnsaved
<1> QED
  BY <1>1, <1>2, <1>3 DEF NothingUnsaved

\* A request of a kind is in flight after a step when it was before, or was made.
LEMMA KindStays ==
  ASSUME RequestsOK, NEW k \in DOMAIN reqs, NEW kind, reqs[k].kind # kind
  PROVE  (\E i \in DOMAIN Without(k) : Without(k)[i].kind = kind) <=> InFlight(kind)
<1>0. reqs \in Seq(Request)
  BY DEF RequestsOK
<1>1. ASSUME NEW j \in DOMAIN reqs, reqs[j].kind = kind
      PROVE  \E i \in DOMAIN Without(k) : Without(k)[i].kind = kind
  <2>1. j # k
    BY <1>1
  <2>2. PICK i \in DOMAIN Without(k) : j = Before(k, i)
    BY <1>0, <2>1, WithoutFacts
  <2>3. Without(k)[i] = reqs[j]
    BY <1>0, <2>2, WithoutFacts
  <2> QED
    BY <1>1, <2>3
<1>2. ASSUME NEW i \in DOMAIN Without(k), Without(k)[i].kind = kind
      PROVE  InFlight(kind)
  <2>1. Before(k, i) \in DOMAIN reqs /\ Without(k)[i] = reqs[Before(k, i)]
    BY <1>0, WithoutFacts
  <2> QED
    BY <1>2, <2>1 DEF InFlight
<1> QED
  BY <1>1, <1>2 DEF InFlight

LEMMA InFlightWithout ==
  ASSUME RequestsOK, NEW k \in DOMAIN reqs, NEW kind, reqs[k].kind # kind,
         reqs' = Without(k)
  PROVE  InFlight(kind)' <=> InFlight(kind)
BY KindStays DEF InFlight

LEMMA InFlightAppend ==
  ASSUME NEW s \in Seq(Request), NEW made \in Kinds, reqs' = Append(s, New(made)),
         NEW kind
  PROVE  InFlight(kind)' <=> made = kind \/ \E j \in DOMAIN s : s[j].kind = kind
<1>1. New(made) \in Request /\ New(made).kind = made
  BY NewType
<1>2. /\ DOMAIN s = 1..Len(s) /\ Len(s) \in Nat
      /\ DOMAIN reqs' = 1..(Len(s) + 1)
      /\ \A i \in DOMAIN s : reqs'[i] = s[i]
      /\ reqs'[Len(s) + 1] = New(made)
  BY <1>1, AppendFacts
<1> QED
  BY <1>1, <1>2 DEF InFlight

LEMMA InFlightAnswers ==
  ASSUME RequestsOK, Answers, NEW kind
  PROVE  InFlight(kind)' <=> InFlight(kind)
<1>1. PICK k \in DOMAIN reqs, r \in Request :
        reqs' = [reqs EXCEPT ![k] = r] /\ r.kind = reqs[k].kind
  BY DEF Answers
<1>2. DOMAIN reqs' = DOMAIN reqs /\ \A i \in DOMAIN reqs : reqs'[i].kind = reqs[i].kind
  BY <1>1, LenProperties DEF RequestsOK
<1> QED
  BY <1>2 DEF InFlight

\* While the page shows a scan, a timer is set or a trigger is in flight: only
\* the trigger's own answer can take the latter away, and then starts the timer
\* or gives up.
LEMMA PollStep ==
  ASSUME TypeOK, PollInv, [Next]_vars
  PROVE  PollInv'
<1> USE DEF PollInv
<1>0. RequestsOK /\ reqs \in Seq(Request) /\ pollTimer \in Nat
  BY DEF TypeOK, RequestsOK, PageOK
<1>1. CASE Begin \/ Save \/ Finish \/ UNCHANGED vars
  BY <1>1 DEF Begin, Save, Finish, vars, InFlight
<1>2. CASE Click
  <2>1. InFlight("trigger")'
    BY <1>0, <1>2, InFlightAppend DEF Click, Kinds
  <2> QED
    BY <1>2, <2>1 DEF Click
<1>3. CASE Tick
  <2>1. InFlight("trigger") => InFlight("trigger")'
    BY <1>0, <1>3, InFlightAppend DEF Tick, Kinds, InFlight
  <2> QED
    BY <1>3, <2>1 DEF Tick
<1>4. ASSUME NEW k \in DOMAIN reqs, Serve(k)
      PROVE  PollInv'
  <2>1. InFlight("trigger") => InFlight("trigger")'
    BY <1>0, <1>4, ServeAnswers, InFlightAnswers
  <2>2. UNCHANGED page
    BY <1>4 DEF Serve, ReadFlag, ReadBatch, AnswerTrigger, Served
  <2> QED
    BY <2>1, <2>2
<1>5. ASSUME NEW k \in DOMAIN reqs, reqs[k].kind # "trigger",
             reqs' = Without(k) \/ reqs' = Append(Without(k), New("results"))
      PROVE  InFlight("trigger") => InFlight("trigger")'
  <2>1. CASE reqs' = Without(k)
    BY <1>0, <1>5, <2>1, InFlightWithout
  <2>2. CASE reqs' = Append(Without(k), New("results"))
    <3>1. Without(k) \in Seq(Request) /\ "results" \in Kinds
      BY <1>0, WithoutFacts DEF Kinds
    <3>2. InFlight("trigger")
            => \E i \in DOMAIN Without(k) : Without(k)[i].kind = "trigger"
      BY <1>0, <1>5, KindStays
    <3> QED
      BY <2>2, <3>1, <3>2, InFlightAppend
  <2> QED
    BY <1>5, <2>1, <2>2
<1>6. ASSUME NEW k \in DOMAIN reqs, FirstAnswered(k)
      PROVE  PollInv'
  <2>1. InFlight("trigger") => InFlight("trigger")'
    BY <1>5, <1>6 DEF FirstAnswered, Answered
  <2>2. CASE reqs[k].scanning
    BY <1>6, <2>2, StartPollFacts DEF FirstAnswered
  <2>3. CASE ~reqs[k].scanning
    BY <1>6, <2>1, <2>3 DEF FirstAnswered
  <2> QED
    BY <2>2, <2>3
<1>7. ASSUME NEW k \in DOMAIN reqs, PollAnswered(k)
      PROVE  PollInv'
  <2>1. CASE reqs[k].scanning
    <3>1. InFlight("trigger") => InFlight("trigger")'
      BY <1>5, <1>7, <2>1 DEF PollAnswered, Answered
    <3> QED
      BY <1>7, <2>1, <3>1 DEF PollAnswered
  <2>2. CASE ~reqs[k].scanning
    BY <1>0, <1>7, <2>2 DEF PollAnswered
  <2> QED
    BY <2>1, <2>2
<1>8. ASSUME NEW k \in DOMAIN reqs, ResultsAnswered(k)
      PROVE  PollInv'
  <2>1. InFlight("trigger") => InFlight("trigger")'
    BY <1>5, <1>8 DEF ResultsAnswered, Answered
  <2> QED
    BY <1>8, <2>1 DEF ResultsAnswered
<1>9. ASSUME NEW k \in DOMAIN reqs, TriggerAnswered(k)
      PROVE  PollInv'
  <2>1. CASE Polls(reqs[k].code)
    BY <1>9, <2>1, StartPollFacts DEF TriggerAnswered
  <2>2. CASE reqs[k].code = "error"
    BY <1>9, <2>2 DEF TriggerAnswered, Polls
  <2> QED
    BY <1>0, <2>1, <2>2, RequestType DEF Polls, Codes
<1>10. ASSUME NEW k \in DOMAIN reqs, Fail(k)
       PROVE  PollInv'
  <2>1. CASE reqs[k].kind = "trigger"
    BY <1>10, <2>1 DEF Fail
  <2>2. CASE reqs[k].kind # "trigger"
    <3>1. InFlight("trigger") => InFlight("trigger")'
      BY <1>5, <1>10, <2>2 DEF Fail
    <3> QED
      BY <1>10, <2>2, <3>1 DEF Fail
  <2> QED
    BY <2>1, <2>2
<1> QED
  BY <1>1, <1>2, <1>3, <1>4, <1>6, <1>7, <1>8, <1>9, <1>10 DEF Next, Deliver

\* A load that is made is the last one, and is not answered yet.
LEMMA LoadMade ==
  ASSUME NEW s \in Seq(Request), reqs' = Append(s, New("results"))
  PROVE  LoadsInOrder'
<1>1. New("results") \in Request /\ New("results").kind = "results"
      /\ New("results").at = "sent"
  BY NewType DEF Kinds
<1>2. /\ Len(s) \in Nat /\ DOMAIN reqs' = 1..(Len(s) + 1)
      /\ reqs'[Len(s) + 1] = New("results")
  BY <1>1, AppendFacts
<1>3. InFlight("results")'
  BY <1>1, <1>2 DEF InFlight
<1>4. \A k \in DOMAIN reqs' : LastLoad(k)' => k = Len(s) + 1
  BY <1>1, <1>2 DEF LastLoad
<1> QED
  BY <1>1, <1>2, <1>3, <1>4 DEF LoadsInOrder

\* Where the loads stay where they are, the last one stays the last.
LEMMA LoadsStay ==
  ASSUME LoadsInOrder, UNCHANGED <<results, lastScan, overtaken>>,
         NEW pos,
         \A i \in DOMAIN reqs' :
           reqs'[i].kind = "results" =>
             /\ pos[i] \in DOMAIN reqs
             /\ reqs[pos[i]].kind = "results"
             /\ reqs'[i].at = "answered" =>
                  \/ reqs[pos[i]].at = "answered" /\ reqs'[i].batch = reqs[pos[i]].batch
                  \/ reqs'[i].batch >= lastScan,
         \A j \in DOMAIN reqs :
           reqs[j].kind = "results" =>
             \E i \in DOMAIN reqs' :
               /\ reqs'[i].kind = "results" /\ pos[i] = j
               /\ \A m \in DOMAIN reqs' :
                    reqs'[m].kind = "results" /\ i <= m => j <= pos[m]
  PROVE  LoadsInOrder'
<1> SUFFICES ASSUME ~overtaken PROVE LoadsInOrder'
  BY DEF LoadsInOrder
<1>1. InFlight("results") => InFlight("results")'
  BY DEF InFlight
<1>2. ASSUME NEW k \in DOMAIN reqs', LastLoad(k)'
      PROVE  LastLoad(pos[k])
  BY <1>2 DEF LastLoad
<1> QED
  BY <1>1, <1>2 DEF LoadsInOrder, LastLoad

LEMMA LoadsServe ==
  ASSUME TypeOK, NothingUnsaved, LoadsInOrder, NEW k \in DOMAIN reqs, Serve(k)
  PROVE  LoadsInOrder'
<1> DEFINE pos == [i \in DOMAIN reqs |-> i]
<1>0. RequestsOK /\ UNCHANGED <<results, lastScan, overtaken, batch>>
  BY DEF TypeOK, Serve, ReadFlag, ReadBatch, AnswerTrigger, Served
<1>1. DOMAIN reqs' = DOMAIN reqs /\ DOMAIN reqs = 1..Len(reqs)
      /\ \A i \in DOMAIN reqs : i # k => reqs'[i] = reqs[i]
  BY <1>0, LenProperties
     DEF RequestsOK, Serve, ReadFlag, ReadBatch, AnswerTrigger, Served
<1>2. /\ reqs'[k].kind = reqs[k].kind
      /\ reqs[k].kind = "results" => reqs'[k].batch = batch
  <2>1. reqs[k] \in Request
    BY <1>0, RequestType DEF RequestsOK
  <2>2. CASE ReadFlag(k)
    <3>1. PICK at \in Progress :
            reqs' = [reqs EXCEPT ![k] = [reqs[k] EXCEPT !.at = at, !.scanning = scanning]]
      BY <2>2 DEF ReadFlag, Served, Progress
    <3>2. reqs'[k] = [reqs[k] EXCEPT !.at = at, !.scanning = scanning]
      BY <3>1
    <3>3. reqs'[k].kind = reqs[k].kind
      BY <2>1, <3>2 DEF Request
    <3> QED
      BY <2>2, <3>3 DEF ReadFlag, Status
  <2>3. CASE ReadBatch(k)
    <3>1. PICK at \in Progress :
            reqs' = [reqs EXCEPT ![k] = [reqs[k] EXCEPT !.at = at, !.batch = batch]]
      BY <2>3 DEF ReadBatch, Served, Progress
    <3>2. reqs'[k] = [reqs[k] EXCEPT !.at = at, !.batch = batch]
      BY <3>1
    <3> QED
      BY <2>1, <3>2 DEF Request
  <2>4. CASE AnswerTrigger(k)
    <3>1. PICK code \in Codes :
            reqs' = [reqs EXCEPT ![k] = [reqs[k] EXCEPT !.at = "answered", !.code = code]]
      BY <2>4 DEF AnswerTrigger, Served
    <3>2. reqs'[k] = [reqs[k] EXCEPT !.at = "answered", !.code = code]
      BY <3>1
    <3>3. reqs'[k].kind = reqs[k].kind
      BY <2>1, <3>2 DEF Request
    <3> QED
      BY <2>4, <3>3 DEF AnswerTrigger
  <2> QED
    BY <2>2, <2>3, <2>4 DEF Serve
<1>3. batch >= lastScan /\ \A i \in DOMAIN reqs : pos[i] = i
  BY BoundsArePositive DEF TypeOK, ServiceOK, PageOK, NothingUnsaved
<1> HIDE DEF pos
<1>4. \A i \in DOMAIN reqs : reqs'[i].kind = reqs[i].kind
  BY <1>1, <1>2
<1>5. \A i \in DOMAIN reqs' :
        reqs'[i].kind = "results" =>
          /\ pos[i] \in DOMAIN reqs
          /\ reqs[pos[i]].kind = "results"
          /\ reqs'[i].at = "answered" =>
               \/ reqs[pos[i]].at = "answered" /\ reqs'[i].batch = reqs[pos[i]].batch
               \/ reqs'[i].batch >= lastScan
  BY <1>1, <1>2, <1>3, <1>4
<1>6. \A j \in DOMAIN reqs :
        reqs[j].kind = "results" =>
          \E i \in DOMAIN reqs' :
            /\ reqs'[i].kind = "results" /\ pos[i] = j
            /\ \A m \in DOMAIN reqs' :
                 reqs'[m].kind = "results" /\ i <= m => j <= pos[m]
  BY <1>1, <1>3, <1>4
<1> QED
  BY <1>0, <1>5, <1>6, LoadsStay

LEMMA LoadsMake ==
  ASSUME TypeOK, LoadsInOrder, NEW made \in {"trigger", "poll"},
         reqs' = Append(reqs, New(made)), UNCHANGED <<results, lastScan, overtaken>>
  PROVE  LoadsInOrder'
<1> DEFINE pos == [i \in 1..(Len(reqs) + 1) |-> i]
<1>0. reqs \in Seq(Request) /\ New(made) \in Request /\ New(made).kind = made
  BY NewType DEF TypeOK, RequestsOK, Kinds
<1>1. /\ DOMAIN reqs = 1..Len(reqs) /\ Len(reqs) \in Nat
      /\ DOMAIN reqs' = 1..(Len(reqs) + 1)
      /\ \A i \in DOMAIN reqs : reqs'[i] = reqs[i]
      /\ reqs'[Len(reqs) + 1].kind # "results"
  BY <1>0, AppendFacts
<1>2. \A i \in DOMAIN reqs' : pos[i] = i
  BY <1>1
<1> HIDE DEF pos
<1>3. \A i \in DOMAIN reqs' :
        reqs'[i].kind = "results" =>
          i \in DOMAIN reqs /\ pos[i] = i /\ reqs'[i] = reqs[i]
  BY <1>1, <1>2
<1>4. \A j \in DOMAIN reqs :
        reqs[j].kind = "results" =>
          \E i \in DOMAIN reqs' :
            /\ reqs'[i].kind = "results" /\ pos[i] = j
            /\ \A m \in DOMAIN reqs' :
                 reqs'[m].kind = "results" /\ i <= m => j <= pos[m]
  BY <1>1, <1>2
<1>5. \A i \in DOMAIN reqs' :
        reqs'[i].kind = "results" =>
          /\ pos[i] \in DOMAIN reqs
          /\ reqs[pos[i]].kind = "results"
          /\ reqs'[i].at = "answered" =>
               \/ reqs[pos[i]].at = "answered" /\ reqs'[i].batch = reqs[pos[i]].batch
               \/ reqs'[i].batch >= lastScan
  <2> SUFFICES ASSUME NEW i \in DOMAIN reqs', reqs'[i].kind = "results"
               PROVE  pos[i] \in DOMAIN reqs /\ reqs'[i] = reqs[pos[i]]
    OBVIOUS
  <2> QED
    BY <1>3
<1> QED
  BY <1>4, <1>5, LoadsStay

LEMMA LoadsTake ==
  ASSUME TypeOK, LoadsInOrder, NEW k \in DOMAIN reqs, reqs[k].kind # "results",
         reqs' = Without(k), UNCHANGED <<results, lastScan, overtaken>>
  PROVE  LoadsInOrder'
<1> DEFINE pos == [i \in DOMAIN Without(k) |-> Before(k, i)]
<1>0. reqs \in Seq(Request)
  BY DEF TypeOK, RequestsOK
<1>1. /\ DOMAIN reqs' = 1..(Len(reqs) - 1)
      /\ DOMAIN reqs = 1..Len(reqs) /\ Len(reqs) \in Nat
      /\ \A i \in DOMAIN reqs' :
           pos[i] = Before(k, i) /\ pos[i] \in DOMAIN reqs /\ reqs'[i] = reqs[pos[i]]
      /\ \A j \in DOMAIN reqs : j # k => \E i \in DOMAIN reqs' : j = pos[i]
  BY <1>0, WithoutFacts
<1>2. \A i, m \in DOMAIN reqs' : i <= m => pos[i] <= pos[m]
  BY <1>1 DEF Before
<1> HIDE DEF pos
<1>3. ASSUME NEW j \in DOMAIN reqs, reqs[j].kind = "results"
      PROVE  \E i \in DOMAIN reqs' :
               /\ reqs'[i].kind = "results" /\ pos[i] = j
               /\ \A m \in DOMAIN reqs' :
                    reqs'[m].kind = "results" /\ i <= m => j <= pos[m]
  <2>1. PICK i \in DOMAIN reqs' : j = pos[i]
    BY <1>1, <1>3
  <2> QED
    BY <1>1, <1>2, <1>3, <2>1
<1>4. \A i \in DOMAIN reqs' :
        reqs'[i].kind = "results" =>
          pos[i] \in DOMAIN reqs /\ reqs'[i] = reqs[pos[i]]
  BY <1>1
<1> QED
  BY <1>3, <1>4, LoadsStay

\* A load that is shown was the last one, and then brings what "Last scan" tells
\* of, or there is a later one, or it overtook one.
LEMMA LoadsShow ==
  ASSUME TypeOK, LoadsInOrder, NEW k \in DOMAIN reqs, ResultsAnswered(k)
  PROVE  LoadsInOrder'
<1>0. reqs \in Seq(Request) /\ reqs' = Without(k) /\ lastScan' = lastScan
      /\ reqs[k].kind = "results" /\ reqs[k].at = "answered"
      /\ results' = reqs[k].batch
  BY DEF TypeOK, RequestsOK, ResultsAnswered, Answered
<1>1. /\ DOMAIN reqs' = 1..(Len(reqs) - 1)
      /\ DOMAIN reqs = 1..Len(reqs) /\ Len(reqs) \in Nat
      /\ \A i \in DOMAIN reqs' :
           /\ Before(k, i) \in DOMAIN reqs /\ Before(k, i) # k
           /\ reqs'[i] = reqs[Before(k, i)]
      /\ \A j \in DOMAIN reqs : j # k => \E i \in DOMAIN reqs' : j = Before(k, i)
  BY <1>0, WithoutFacts
<1> SUFFICES ASSUME ~overtaken' PROVE LoadsInOrder'
  BY DEF LoadsInOrder
<1>2. ~overtaken /\ ~EarlierLoad(k)
  BY DEF ResultsAnswered
<1>3. CASE LastLoad(k)
  <2>1. reqs[k].batch >= lastScan
    BY <1>0, <1>2, <1>3 DEF LoadsInOrder
  <2>2. \A j \in DOMAIN reqs : j # k => reqs[j].kind # "results"
    BY <1>1, <1>2, <1>3 DEF EarlierLoad, LastLoad
  <2>3. \A i \in DOMAIN reqs' : reqs'[i].kind # "results"
    BY <1>1, <2>2
  <2> QED
    BY <1>0, <2>1, <2>3 DEF LoadsInOrder, InFlight, LastLoad
<1>4. CASE ~LastLoad(k)
  <2>1. PICK j \in DOMAIN reqs : reqs[j].kind = "results" /\ j > k
    BY <1>0, <1>1, <1>4 DEF LastLoad
  <2>2. PICK n \in DOMAIN reqs' : j = Before(k, n)
    BY <1>1, <2>1
  <2>3. reqs'[n].kind = "results" /\ n >= k
    BY <1>1, <2>1, <2>2 DEF Before
  <2>4. ASSUME NEW i \in DOMAIN reqs', LastLoad(i)'
        PROVE  LastLoad(Before(k, i))
    <3>1. reqs'[i].kind = "results" /\ n <= i
      BY <2>3, <2>4 DEF LastLoad
    <3>2. Before(k, i) > k
      BY <1>1, <2>3, <3>1 DEF Before
    <3>3. ASSUME NEW m \in DOMAIN reqs, reqs[m].kind = "results", m # k
          PROVE  m <= Before(k, i)
      <4>1. PICK l \in DOMAIN reqs' : m = Before(k, l)
        BY <1>1, <3>3
      <4>2. l <= i
        BY <1>1, <2>4, <3>3, <4>1 DEF LastLoad
      <4> QED
        BY <1>1, <4>1, <4>2 DEF Before
    <3> QED
      BY <1>1, <3>1, <3>2, <3>3 DEF LastLoad
  <2>5. InFlight("results")'
    BY <2>3 DEF InFlight
  <2>6. ASSUME NEW i \in DOMAIN reqs', LastLoad(i)', reqs'[i].at = "answered"
        PROVE  reqs'[i].batch >= lastScan
    BY <1>1, <1>2, <2>4, <2>6 DEF LoadsInOrder
  <2> QED
    BY <1>0, <2>5, <2>6 DEF LoadsInOrder
<1> QED
  BY <1>3, <1>4

LEMMA LoadsStep ==
  ASSUME TypeOK, NothingUnsaved, LoadsInOrder, [Next]_vars
  PROVE  LoadsInOrder'
<1>0. reqs \in Seq(Request)
  BY DEF TypeOK, RequestsOK
<1>1. CASE Begin \/ Save \/ Finish \/ UNCHANGED vars
  BY <1>1 DEF Begin, Save, Finish, vars, LoadsInOrder, InFlight, LastLoad
<1>2. CASE Click \/ Tick
  BY <1>2, LoadsMake DEF Click, Tick
<1>3. ASSUME NEW k \in DOMAIN reqs, reqs' = Append(Without(k), New("results"))
      PROVE  LoadsInOrder'
  BY <1>0, <1>3, WithoutFacts, LoadMade
<1>4. ASSUME NEW k \in DOMAIN reqs, FirstAnswered(k)
      PROVE  LoadsInOrder'
  BY <1>3, <1>4 DEF FirstAnswered
<1>5. ASSUME NEW k \in DOMAIN reqs, PollAnswered(k)
      PROVE  LoadsInOrder'
  <2>1. CASE reqs[k].scanning
    BY <1>5, <2>1, LoadsTake DEF PollAnswered, Answered
  <2>2. CASE ~reqs[k].scanning
    BY <1>3, <1>5, <2>2 DEF PollAnswered, Reload
  <2> QED
    BY <2>1, <2>2
<1>6. ASSUME NEW k \in DOMAIN reqs, TriggerAnswered(k)
      PROVE  LoadsInOrder'
  BY <1>6, LoadsTake DEF TriggerAnswered, Answered
<1>7. ASSUME NEW k \in DOMAIN reqs, Fail(k)
      PROVE  LoadsInOrder'
  <2>1. CASE reqs[k].kind = "first"
    BY <1>3, <1>7, <2>1 DEF Fail
  <2>2. CASE reqs[k].kind = "results"
    BY <1>7, <2>2 DEF Fail, LoadsInOrder
  <2>3. CASE reqs[k].kind \notin {"first", "results"}
    <3>1. overtaken' = overtaken
      BY <1>7, <2>3 DEF Fail, TypeOK, HistoryOK
    <3> QED
      BY <1>7, <2>3, <3>1, LoadsTake DEF Fail
  <2> QED
    BY <2>1, <2>2, <2>3
<1> QED
  BY <1>1, <1>2, <1>4, <1>5, <1>6, <1>7, LoadsServe, LoadsShow DEF Next, Deliver

\* PageInv is inductive.
THEOREM PageInvariant == Spec => []PageInv
<1>1. Init => PageInv
  <2> SUFFICES ASSUME Init PROVE PageInv
    OBVIOUS
  <2>1. reqs = <<New("first")>> /\ New("first") \in Request
        /\ New("first").kind = "first" /\ New("first").batch = 0
    BY NewType DEF Init, Kinds
  <2>2. DOMAIN reqs = {1} /\ reqs[1] = New("first")
    BY <2>1
  <2>3. PollInv
    BY DEF Init, PollInv
  <2>4. NothingUnsaved
    BY <2>1, <2>2 DEF Init, NothingUnsaved
  <2>5. LoadsInOrder
    BY <2>1, <2>2 DEF Init, LoadsInOrder, LastLoad
  <2> QED
    BY <2>3, <2>4, <2>5, TypeInit DEF PageInv
<1>2. PageInv /\ [Next]_vars => PageInv'
  BY TypeStep, PollStep, UnsavedStep, LoadsStep DEF PageInv
<1> QED
  BY <1>1, <1>2, PTL DEF Spec

\* However late and in whatever order answers come, the page polls with the one
\* interval it can clear, and while it says that a scan is on that interval fires
\* or the trigger's answer is still to come.
THEOREM PollsWhileScanning == Spec => []PollInv
<1>1. PageInv => PollInv
  BY DEF PageInv
<1> QED
  BY <1>1, PageInvariant, PTL

\* When no load is in flight the table shows all that the line "Last scan" tells
\* of, unless a load failed or was overtaken.
THEOREM TableCatchesUp == Spec => []TableMatchesLastScan
<1>1. PageInv => TableMatchesLastScan
  BY DEF PageInv, LoadsInOrder, TableMatchesLastScan
<1> QED
  BY <1>1, PageInvariant, PTL
=============================================================================
