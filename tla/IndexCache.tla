----------------------------- MODULE IndexCache -----------------------------
(***************************************************************************)
(* The registry cache (internal/registry/registry.go): the workers of a    *)
(* scan look registries up through getOrDo, which answers from the memo    *)
(* while an entry is fresh, collapses concurrent misses of a key into one  *)
(* fetch, and remembers outcomes, errors included.  Index fetches share a  *)
(* semaphore and end after the HTTP client's timeout; OCI tag lists do     *)
(* neither.  serve keeps one cache for all its scans.                      *)
(*                                                                         *)
(* A key stands for a registry URL or an OCI reference, and what a fetch   *)
(* returns is named by its kind.  singleflight.Group is modelled from its  *)
(* use: Do runs the function unless a call for the key is in flight, in    *)
(* which case it waits for that call and takes its result.                 *)
(***************************************************************************)
EXTENDS Integers, FiniteSets

CONSTANTS
  Workers,     \* goroutines that run registry.Latest
  IndexKeys,   \* Helm repositories (getIndex)
  TagKeys,     \* OCI references (getTags)
  NoWorker,    \* no call is in flight
  FetchSlots,  \* maxConcurrentIndexFetches
  TTL,         \* registry_cache_ttl in ticks, 0 for "never expires"
  CanTimeOut,  \* index fetches may exceed httpClient.Timeout
  MaxTime,     \* bound: ticks of the clock
  MaxScans,    \* bound: scans the process makes
  MaxAsks      \* bound: lookups in a scan

ASSUME KeysDiffer == IndexKeys \cap TagKeys = {}
ASSUME NoWorkerIsNone == NoWorker \notin Workers
ASSUME SomeKey == IndexKeys \cup TagKeys # {}
ASSUME WorkersFinite == IsFiniteSet(Workers)
ASSUME NumbersAreNatural ==
  /\ FetchSlots \in Nat \ {0}
  /\ TTL \in Nat
  /\ MaxTime \in Nat /\ MaxScans \in Nat /\ MaxAsks \in Nat

VARIABLES
  clock,       \* time.Now() in ticks
  cancelled,   \* the context of the scans is done
  scan,        \* number of the scan in progress
  asks,        \* lookups made in it
  memo,        \* the stored outcome of each key, or None
  flight,      \* the worker whose call for the key is in flight
  slots,       \* tokens in fetchSem
  pc, key,     \* where each worker is and what it looks up
  got,         \* the outcome a worker holds or was answered with
  fetches      \* history: fetches begun for each key

workVars == <<pc, key, got>>
vars == <<clock, cancelled, scan, asks, memo, flight, slots, workVars, fetches>>

Keys == IndexKeys \cup TagKeys

Kinds == {"val", "err", "timeout", "cancelled"}
\* An outcome and the scan that fetched it.
Outcomes == [kind : Kinds, scan : Nat]
None     == [kind |-> "val", scan |-> 0, at |-> -1]
Nothing  == [kind |-> "cancelled", scan |-> 0]

\* Inside the function passed to Do.
Leading == {"recheck", "acquire", "fetch", "memo", "done"}

TypeOK ==
  /\ clock \in Nat /\ cancelled \in BOOLEAN /\ scan \in Nat /\ asks \in Nat
  /\ memo \in [Keys -> [kind : Kinds, scan : Nat, at : Int]]
  /\ flight \in [Keys -> Workers \cup {NoWorker}]
  /\ slots \in Int
  /\ pc \in [Workers -> Leading \cup {"idle", "miss", "join"}]
  /\ key \in [Workers -> Keys]
  /\ got \in [Workers -> Outcomes]
  /\ fetches \in [Keys -> Nat]

Init ==
  /\ clock = 0 /\ cancelled = FALSE /\ scan = 1 /\ asks = 0
  /\ memo = [k \in Keys |-> None]
  /\ flight = [k \in Keys |-> NoWorker]
  /\ slots = 0
  /\ pc = [w \in Workers |-> "idle"]
  /\ key = [w \in Workers |-> CHOOSE k \in Keys : TRUE]
  /\ got = [w \in Workers |-> Nothing]
  /\ fetches = [k \in Keys |-> 0]

At(w, place) == pc[w] = place
Goto(w, place) == pc' = [pc EXCEPT ![w] = place]

-----------------------------------------------------------------------------
(* fresh                                                                    *)

Expired(k) == TTL > 0 /\ clock - memo[k].at >= TTL

Fresh(k) == memo[k] # None /\ ~Expired(k)

Remembered(k) == [kind |-> memo[k].kind, scan |-> memo[k].scan]

-----------------------------------------------------------------------------
(* getOrDo                                                                  *)

\* The first look at the memo, without joining anybody.
Hit(w, k) ==
  /\ At(w, "idle") /\ asks < MaxAsks
  /\ Fresh(k)
  /\ asks' = asks + 1
  /\ key' = [key EXCEPT ![w] = k]
  /\ got' = [got EXCEPT ![w] = Remembered(k)]
  /\ UNCHANGED <<clock, cancelled, scan, memo, flight, slots, pc, fetches>>

Miss(w, k) ==
  /\ At(w, "idle") /\ asks < MaxAsks
  /\ ~Fresh(k)
  /\ asks' = asks + 1
  /\ key' = [key EXCEPT ![w] = k]
  /\ Goto(w, "miss")
  /\ UNCHANGED <<clock, cancelled, scan, memo, flight, slots, got, fetches>>

Free(k) == flight[k] = NoWorker

\* sf.Do finds no call for the key and runs the function in this worker ...
Lead(w) ==
  /\ At(w, "miss") /\ Free(key[w])
  /\ flight' = [flight EXCEPT ![key[w]] = w]
  /\ Goto(w, "recheck")
  /\ UNCHANGED <<clock, cancelled, scan, asks, memo, slots, key, got, fetches>>

\* ... or finds one and waits for its result.
Join(w) ==
  /\ At(w, "miss") /\ ~Free(key[w])
  /\ Goto(w, "join")
  /\ UNCHANGED <<clock, cancelled, scan, asks, memo, flight, slots, key, got,
                 fetches>>

\* A wrong Known: the memo is not looked at again inside the call.
KnownNot(k) == FALSE
Known(k) == Fresh(k)

RecheckHit(w) ==
  /\ At(w, "recheck") /\ Known(key[w])
  /\ got' = [got EXCEPT ![w] = Remembered(key[w])]
  /\ Goto(w, "done")
  /\ UNCHANGED <<clock, cancelled, scan, asks, memo, flight, slots, key,
                 fetches>>

BeginFetch(w) ==
  /\ Goto(w, "fetch")
  /\ fetches' = [fetches EXCEPT ![key[w]] = @ + 1]

\* Index fetches queue for the semaphore, tag lists begin at once.
RecheckMissIndex(w) ==
  /\ At(w, "recheck") /\ ~Known(key[w]) /\ key[w] \in IndexKeys
  /\ Goto(w, "acquire")
  /\ UNCHANGED <<clock, cancelled, scan, asks, memo, flight, slots, key, got,
                 fetches>>

RecheckMissTags(w) ==
  /\ At(w, "recheck") /\ ~Known(key[w]) /\ key[w] \in TagKeys
  /\ BeginFetch(w)
  /\ UNCHANGED <<clock, cancelled, scan, asks, memo, flight, slots, key, got>>

Acquire(w) ==
  /\ At(w, "acquire") /\ slots < FetchSlots
  /\ slots' = slots + 1
  /\ BeginFetch(w)
  /\ UNCHANGED <<clock, cancelled, scan, asks, memo, flight, key, got>>

\* The select of getIndex when the context is done.
Abandon(w) ==
  /\ At(w, "acquire") /\ cancelled
  /\ got' = [got EXCEPT ![w] = [kind |-> "cancelled", scan |-> scan]]
  /\ Goto(w, "memo")
  /\ UNCHANGED <<clock, cancelled, scan, asks, memo, flight, slots, key,
                 fetches>>

\* What a fetch may return: a document or an error of the registry's at any
\* time, the context's error once it is done, the client's timeout for an index.
FetchKinds(k) ==
  {"val", "err"} \cup (IF cancelled THEN {"cancelled"} ELSE {})
    \cup (IF CanTimeOut /\ k \in IndexKeys THEN {"timeout"} ELSE {})

\* A wrong Released: an error returns without giving the token back.
ReleasedOnSuccess(k, kind) == IF k \in IndexKeys /\ kind = "val" THEN 1 ELSE 0
Released(k, kind) == IF k \in IndexKeys THEN 1 ELSE 0

FetchEnds(w) ==
  /\ At(w, "fetch")
  /\ \E kind \in FetchKinds(key[w]) :
       /\ got' = [got EXCEPT ![w] = [kind |-> kind, scan |-> scan]]
       /\ slots' = slots - Released(key[w], kind)
  /\ Goto(w, "memo")
  /\ UNCHANGED <<clock, cancelled, scan, asks, memo, flight, key, fetches>>

\* A wrong Memoizable: only documents are remembered.
MemoizableValues(kind) == kind = "val"

\* The client's timeout satisfies errors.Is(err, context.DeadlineExceeded).
Memoizable(kind) == kind \notin {"cancelled", "timeout"}

Memoize(w) ==
  /\ At(w, "memo")
  /\ memo' = IF Memoizable(got[w].kind)
             THEN [memo EXCEPT ![key[w]] = [kind |-> got[w].kind,
                                            scan |-> got[w].scan, at |-> clock]]
             ELSE memo
  /\ Goto(w, "done")
  /\ UNCHANGED <<clock, cancelled, scan, asks, flight, slots, key, got, fetches>>

\* The call ends: the key leaves the group and everyone who joined is answered.
Joined(k) == {w \in Workers : pc[w] = "join" /\ key[w] = k}
\* A wrong Answered: one of the workers that joined is woken.
AnsweredOne(w) ==
  {w} \cup (IF Joined(key[w]) = {} THEN {} ELSE {CHOOSE v \in Joined(key[w]) : TRUE})
Answered(w) == {w} \cup Joined(key[w])

Finish(w) ==
  /\ At(w, "done")
  /\ flight' = [flight EXCEPT ![key[w]] = NoWorker]
  /\ pc' = [v \in Workers |-> IF v \in Answered(w) THEN "idle" ELSE pc[v]]
  /\ got' = [v \in Workers |-> IF v \in Answered(w) THEN got[w] ELSE got[v]]
  /\ UNCHANGED <<clock, cancelled, scan, asks, memo, slots, key, fetches>>

Call(w) ==
  \/ Lead(w) \/ Join(w) \/ RecheckHit(w) \/ RecheckMissIndex(w)
  \/ RecheckMissTags(w) \/ Acquire(w) \/ Abandon(w) \/ Memoize(w) \/ Finish(w)

-----------------------------------------------------------------------------
Tick ==
  /\ clock < MaxTime
  /\ clock' = clock + 1
  /\ UNCHANGED <<cancelled, scan, asks, memo, flight, slots, workVars, fetches>>

Cancel ==
  /\ ~cancelled
  /\ cancelled' = TRUE
  /\ UNCHANGED <<clock, scan, asks, memo, flight, slots, workVars, fetches>>

\* A scan ends when its workers are done; the next one uses the same cache.
NextScan ==
  /\ scan < MaxScans
  /\ \A w \in Workers : At(w, "idle")
  /\ scan' = scan + 1
  /\ asks' = 0
  /\ got' = [w \in Workers |-> Nothing]
  /\ UNCHANGED <<clock, cancelled, memo, flight, slots, pc, key, fetches>>

\* Nobody looks anything up any more.
Quiet == (\A w \in Workers : At(w, "idle")) /\ UNCHANGED vars

Next ==
  \/ \E w \in Workers : Call(w) \/ FetchEnds(w)
  \/ \E w \in Workers, k \in Keys : Hit(w, k) \/ Miss(w, k)
  \/ Tick \/ Cancel \/ NextScan \/ Quiet

Spec == Init /\ [][Next]_vars

\* The client's timeout ends every index fetch; nothing ends a tag list that
\* the registry leaves hanging.  Senders blocked on a channel are served in
\* order, so a worker that queues for the semaphore gets it eventually.
Fairness ==
  \A w \in Workers :
    /\ WF_vars(Call(w))
    /\ SF_vars(Acquire(w))
    /\ WF_vars(key[w] \in IndexKeys /\ FetchEnds(w))

FairSpec == Spec /\ Fairness

-----------------------------------------------------------------------------
(* Properties.                                                              *)

\* singleflight and the function passed to it agree at every step: a key in
\* flight has one worker leading it, whoever leads is the one in flight, and
\* whoever joined has somebody to wait for.
FlightExact ==
  /\ \A k \in Keys : flight[k] # NoWorker
       => key[flight[k]] = k /\ pc[flight[k]] \in Leading
  /\ \A w \in Workers : pc[w] \in Leading => flight[key[w]] = w
  /\ \A w \in Workers : pc[w] = "join" => flight[key[w]] # NoWorker

\* The semaphore counts the index fetches in progress, through errors, timeouts
\* and cancellation, so memory use stays bounded and no token is lost.
Fetching == {w \in Workers : pc[w] = "fetch" /\ key[w] \in IndexKeys}
SlotsExact == slots = Cardinality(Fetching) /\ slots <= FetchSlots

\* No fetch begins while the memo holds a fresh outcome of the key, whatever
\* happened between a worker's first look at the memo and its call.
NoRefetchWhileFresh ==
  [][\A w \in Workers :
       pc[w] # "fetch" /\ pc'[w] = "fetch" => ~Fresh(key[w])]_vars

\* A registry is asked once per TTL at most, broken or not, however many
\* dependencies name it and however many scans go by: between two requests for a
\* key the first one's outcome was remembered and then grew too old
\* (registry.go:61, :98).  Of a TTL of 0 this says nothing.
FetchedOnce ==
  ~cancelled => \A k \in Keys : (fetches[k] - 1) * TTL <= clock

\* A lookup of a Helm index ends, even while tag lists of OCI registries hang.
IndexLookupsEnd ==
  \A w \in Workers :
    (pc[w] # "idle" /\ key[w] \in IndexKeys) ~> pc[w] = "idle"

\* The cache as its callers know it: only what is fresh is known; a call asks
\* from the moment its leader holds a token until the outcome is remembered.
KnownNow == [k \in Keys |-> IF Fresh(k) THEN Remembered(k) ELSE Nothing]

CallOf(k) ==
  IF flight[k] = NoWorker THEN [state |-> "none", outcome |-> Nothing]
  ELSE IF pc[flight[k]] \in {"recheck", "acquire"}
  THEN [state |-> "open", outcome |-> Nothing]
  ELSE IF pc[flight[k]] \in {"fetch", "memo"}
  THEN [state |-> "asking", outcome |-> Nothing]
  ELSE [state |-> "over", outcome |-> got[flight[k]]]
Calls == [k \in Keys |-> CallOf(k)]

Wants == [w \in Workers |-> IF At(w, "idle") THEN {} ELSE {key[w]}]
Told  == [w \in Workers |-> IF At(w, "idle") THEN got[w] ELSE Nothing]

Lookups == INSTANCE SharedLookups
             WITH known <- KnownNow, call <- Calls, wants <- Wants, told <- Told

\* Lookups share calls, and calls ask only for what is not known, whatever the
\* scheduler, the semaphore, errors, timeouts and cancellation do: nobody waits
\* for a call that is over, or is told what the call for another key found
\* (registry.go:106).
ImplementsLookups == Lookups!LookupsSpec

-----------------------------------------------------------------------------
(* The inductive strengthenings.                                            *)

\* Only index fetches queue, and while they do their key stays unknown.
Queued ==
  \A w \in Workers :
    pc[w] = "acquire" => key[w] \in IndexKeys /\ ~Fresh(key[w])

\* What a leader brings to the memo is of this scan, and cut short only by the
\* context; what the memo holds is a registry's own answer.
Brought ==
  /\ \A w \in Workers :
       pc[w] = "memo" => got[w].scan = scan /\ (got[w].kind = "cancelled" => cancelled)
  /\ \A k \in Keys : memo[k].kind \in {"val", "err"}

CacheInv == TypeOK /\ FlightExact /\ Queued /\ Brought /\ SlotsExact

\* The n-th request for a key may be at t, if one goes by each TTL; entries that
\* do not expire leave room for one.
Spaced(n, t) == n <= 1 \/ (TTL > 0 /\ (n - 1) * TTL <= t)

\* Without timeouts, a fetch that began is in progress or remembered, and the
\* requests made so far were spaced when it began and when it was remembered.
Remembering ==
  ~cancelled =>
    /\ \A w \in Workers : pc[w] = "memo" => Memoizable(got[w].kind)
    /\ \A k \in Keys :
         \/ fetches[k] = 0
         \/ (memo[k] # None /\ Spaced(fetches[k], memo[k].at))
         \/ /\ flight[k] # NoWorker /\ pc[flight[k]] \in {"fetch", "memo"}
            /\ Spaced(fetches[k], clock)

\* What the memo holds was stored in the past.
StoredBefore ==
  \A k \in Keys : memo[k] # None => 0 <= memo[k].at /\ memo[k].at <= clock
=============================================================================
