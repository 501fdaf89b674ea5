--------------------------- MODULE RegistryProofs ---------------------------
(***************************************************************************)
(* Theorems about internal/registry: VersionCheck, for every set of texts, *)
(* every reading of them as versions and constraints, every registry and   *)
(* every history; IndexCache, for any workers, keys, TTL and number of     *)
(* fetch slots, and that it implements SharedLookups.                      *)
(***************************************************************************)
EXTENDS VersionCheck, IndexCache, FiniteSetTheorems, TLAPS

(***************************************************************************)
(* The order of versions and the lines a scope draws.                      *)
(***************************************************************************)
LEMMA ExceedsIsStrict == \A v \in Versions : ~Exceeds(v, v)
BY DEF Versions, Exceeds

LEMMA ExceedsIsTransitive ==
  ASSUME NEW u \in Versions, NEW v \in Versions, NEW w \in Versions,
         Exceeds(u, v), Exceeds(v, w)
  PROVE  Exceeds(u, w)
BY DEF Versions, Exceeds

LEMMA InScopeIsTransitive ==
  ASSUME NEW u, NEW v, NEW w, NEW sc, InScope(u, v, sc), InScope(v, w, sc)
  PROVE  InScope(u, w, sc)
BY DEF InScope

LEMMA ParsedVersion ==
  ASSUME NEW t \in Texts, Parses(t)
  PROVE  Parsed[t] \in Versions
BY ParsedIsTotal DEF Parses

\* What a scan may report of a base, whatever the tags.
LEMMA CandidateFacts ==
  ASSUME NEW base, NEW S, S \subseteq Texts, NEW sc, NEW t \in Candidates(base, S, sc)
  PROVE  /\ t \in S /\ t \in Texts /\ t # "" /\ Parses(t) /\ Parsed[t] \in Versions
         /\ Exceeds(Parsed[t], base) /\ InScope(Parsed[t], base, sc)
         /\ t \in Candidates(base, {t}, sc)
<1>1. t \in S /\ t \in Texts /\ Parses(t) /\ Exceeds(Parsed[t], base) /\ InScope(Parsed[t], base, sc)
  BY DEF Candidates, Stable
<1>2. t # ""
  BY <1>1, TextsAreNotEmpty
<1>3. t \in Candidates(base, {t}, sc)
  BY DEF Candidates, Stable
<1> QED
  BY <1>1, <1>2, <1>3, ParsedVersion

\* The base is a version; for a declared version it is that version.
LEMMA BaseFacts ==
  ASSUME NEW text \in Texts, NEW S, S \subseteq Texts, NEW base \in resolveCurrent(text, S)
  PROVE  /\ base \in Versions
         /\ Parses(text) => base = Parsed[text]
<1>1. CASE Parses(text)
  BY <1>1, ParsedVersion DEF resolveCurrent
<1>2. CASE ~Parses(text)
  <2>1. PICK t \in Newest({u \in Stable(S) : Parsed[u] \in Allows[text]}) : base = Parsed[t]
    BY <1>2 DEF resolveCurrent
  <2>2. t \in Texts /\ Parses(t)
    BY <2>1 DEF Newest, Stable
  <2> QED
    BY <1>2, <2>1, <2>2, ParsedVersion
<1> QED
  BY <1>1, <1>2

\* What is found is a newest candidate, or there was none.
LEMMA LatestFacts ==
  ASSUME NEW base, NEW S, S \subseteq Texts, NEW sc, NEW latest \in latestFromTags(base, S, sc)
  PROVE  \/ latest = ""
         \/ latest \in Newest(Candidates(base, S, sc)) /\ latest \in Candidates(base, S, sc)
BY DEF latestFromTags, Newest

(***************************************************************************)
(* The invariant.                                                          *)
(***************************************************************************)
LEMMA ResultFacts ==
  ASSUME CheckTypeOK, NEW latest \in Texts \cup {""}, NEW base \in Versions \cup {NotSemver}
  PROVE  /\ Result(latest, base) \in Reports
         /\ Result(latest, base).latest = latest
         /\ Result(latest, base).base = base
         /\ Result(latest, base).current = declared
         /\ Result(latest, base).update = isNewer(latest, declared)
         /\ Result(latest, base).bump = classifyScope(declared, latest)
<1>1. isNewer(latest, declared) \in BOOLEAN
  BY DEF isNewer, Exceeds
<1>2. classifyScope(declared, latest) \in Bumps
  BY DEF classifyScope, Bumps
<1> QED
  BY <1>1, <1>2 DEF Result, Reports, CheckTypeOK

LEMMA CheckKeeps ==
  ASSUME CheckInv, Check
  PROVE  CheckInv'
<1> USE DEF CheckInv, CheckTypeOK
<1>0. PICK base \in resolveCurrent(declared, tags) :
        \E latest \in latestFromTags(base, tags, scope) : report' = Result(latest, base)
  BY DEF Check
<1>1. PICK latest \in latestFromTags(base, tags, scope) : report' = Result(latest, base)
  BY <1>0
<1>2. UNCHANGED <<tags, declared, scope, origin>> /\ fresh' = TRUE
  BY DEF Check
<1>3. base \in Versions /\ (Parses(declared) => base = Parsed[declared])
  BY <1>1, BaseFacts
<1>4. \/ latest = ""
      \/ latest \in Newest(Candidates(base, tags, scope)) /\ latest \in Candidates(base, tags, scope)
  BY <1>1, LatestFacts
<1>5. latest \in Texts \cup {""}
  BY <1>4, CandidateFacts
<1>6. /\ report' \in Reports
      /\ report'.latest = latest /\ report'.base = base /\ report'.current = declared
      /\ report'.update = isNewer(latest, declared)
      /\ report'.bump = classifyScope(declared, latest)
  BY <1>1, <1>3, <1>5, ResultFacts
<1>7. CheckTypeOK'
  BY <1>2, <1>6
<1>8. latest # "" => latest \in Candidates(base, {latest}, scope)
  BY <1>4, CandidateFacts
<1>9. Founded'
  BY <1>2, <1>3, <1>4, <1>6, <1>8 DEF Founded
<1>10. Derived'
  BY <1>2, <1>6 DEF Derived
<1>11. Settled'
  BY <1>2 DEF Settled
<1> QED
  BY <1>7, <1>9, <1>10, <1>11

LEMMA FailureKeeps ==
  ASSUME CheckInv, CheckFails
  PROVE  CheckInv'
<1> USE DEF CheckInv, CheckTypeOK
<1>1. /\ UNCHANGED <<tags, declared, scope, origin>> /\ fresh' = TRUE
      /\ report' = Result("", NotSemver)
  BY DEF CheckFails
<1>2. /\ report' \in Reports
      /\ report'.latest = "" /\ report'.current = declared
      /\ report'.update = isNewer("", declared)
      /\ report'.bump = classifyScope(declared, "")
  BY <1>1, ResultFacts
<1> QED
  BY <1>1, <1>2 DEF Founded, Derived, Settled

LEMMA RegistryKeeps ==
  ASSUME CheckInv, NEW t \in Texts, Publish(t) \/ Withdraw(t)
  PROVE  CheckInv'
<1>1. /\ UNCHANGED <<declared, scope, report, origin>>
      /\ tags' \subseteq Texts
      /\ fresh' = (fresh /\ tags' = tags)
  BY DEF Publish, Withdraw, CheckInv, CheckTypeOK
<1>2. fresh' \in BOOLEAN /\ (fresh' => fresh /\ tags' = tags)
  BY <1>1
<1>3. CheckTypeOK'
  BY <1>1, <1>2 DEF CheckInv, CheckTypeOK
<1>4. Founded'
  BY <1>1, <1>2 DEF CheckInv, Founded
<1> QED
  BY <1>1, <1>3, <1>4 DEF CheckInv, Derived, Settled

\* What a taken update rests on.
LEMMA TakenFacts ==
  ASSUME CheckInv, TakeUpdate
  PROVE  /\ report.latest \in Texts /\ Parses(report.latest) /\ Parsed[report.latest] \in Versions
         /\ report.base \in Versions
         /\ Parses(declared) => report.base = Parsed[declared]
         /\ Exceeds(Parsed[report.latest], report.base)
         /\ InScope(Parsed[report.latest], report.base, scope)
         /\ declared' = report.latest
         /\ origin' = IF origin = NotSemver THEN report.base ELSE origin
         /\ UNCHANGED <<tags, scope, report, fresh>>
<1>1. report.latest # ""
  BY DEF TakeUpdate, CheckInv, Derived, isNewer
<1>2. report.latest \in Texts
  BY <1>1 DEF CheckInv, CheckTypeOK, Reports
<1>3. report.latest \in Candidates(report.base, {report.latest}, scope)
  BY <1>1 DEF CheckInv, Founded
<1>4. /\ Parses(report.latest) /\ Parsed[report.latest] \in Versions
      /\ Exceeds(Parsed[report.latest], report.base)
      /\ InScope(Parsed[report.latest], report.base, scope)
  BY <1>2, <1>3, CandidateFacts
<1>5. report.base \in Versions /\ (Parses(declared) => report.base = Parsed[declared])
  BY <1>1 DEF TakeUpdate, CheckInv, Founded
<1> QED
  BY <1>2, <1>4, <1>5 DEF TakeUpdate

LEMMA UpdateKeeps ==
  ASSUME CheckInv, TakeUpdate
  PROVE  CheckInv'
<1>1. CheckTypeOK'
  BY TakenFacts DEF CheckInv, CheckTypeOK
<1>2. Founded' /\ Derived'
  <2>1. UNCHANGED <<tags, scope, report, fresh>>
    BY DEF TakeUpdate
  <2> QED
    BY <2>1 DEF CheckInv, Founded, Derived
<1>3. Settled'
  <2>1. declared' = report.latest /\ Parses(report.latest)
    BY TakenFacts
  <2> QED
    BY <2>1 DEF Settled, Parses
<1> QED
  BY <1>1, <1>2, <1>3 DEF CheckInv

\* CheckInv: a reported version is founded on its base, tags and scope, and the
\* fields of the Result on the two texts.
THEOREM CheckInvariant == CheckSpec => []CheckInv
<1>1. CheckInit => CheckInv
  <2> SUFFICES ASSUME CheckInit PROVE CheckInv
    OBVIOUS
  <2>1. /\ tags \subseteq Texts /\ declared \in Texts /\ scope \in Scopes
        /\ report = [current |-> declared, latest |-> "", base |-> NotSemver,
                     update |-> isNewer("", declared), bump |-> classifyScope(declared, "")]
        /\ origin = NotSemver /\ fresh = FALSE
    BY DEF CheckInit, Result
  <2>2. isNewer("", declared) = FALSE /\ classifyScope(declared, "") = ""
    BY DEF isNewer, classifyScope
  <2>3. CheckTypeOK
    BY <2>1, <2>2 DEF CheckTypeOK, Reports, Bumps
  <2>4. Founded /\ Derived /\ Settled
    BY <2>1, <2>2 DEF Founded, Derived, Settled
  <2> QED
    BY <2>3, <2>4 DEF CheckInv
<1>2. CheckInv /\ [CheckNext]_checkVars => CheckInv'
  <2>1. ASSUME CheckInv, UNCHANGED checkVars
        PROVE  CheckInv'
    <3>1. UNCHANGED <<tags, declared, scope, report, fresh, origin>>
      BY <2>1 DEF checkVars
    <3>2. CheckTypeOK'
      BY <2>1, <3>1 DEF CheckInv, CheckTypeOK
    <3>3. Founded' /\ Derived' /\ Settled'
      BY <2>1, <3>1 DEF CheckInv, Founded, Derived, Settled
    <3> QED
      BY <3>2, <3>3 DEF CheckInv
  <2> QED
    BY <2>1, CheckKeeps, FailureKeeps, RegistryKeeps, UpdateKeeps DEF CheckNext
<1> QED
  BY <1>1, <1>2, PTL DEF CheckSpec

(***************************************************************************)
(* What a reader of a report may conclude.                                 *)
(***************************************************************************)
LEMMA ReportedFacts ==
  ASSUME CheckInv, report.latest # ""
  PROVE  /\ report.latest \in Texts /\ Parses(report.latest) /\ Parsed[report.latest] \in Versions
         /\ report.current \in Texts /\ report.base \in Versions
         /\ Exceeds(Parsed[report.latest], report.base)
         /\ InScope(Parsed[report.latest], report.base, scope)
         /\ Parses(report.current) => report.base = Parsed[report.current]
         /\ report.latest # report.current
<1>1. /\ report.latest \in Texts /\ report.current \in Texts
      /\ report.latest \in Candidates(report.base, {report.latest}, scope)
      /\ report.base \in Versions
      /\ Parses(report.current) => report.base = Parsed[report.current]
  BY DEF CheckInv, CheckTypeOK, Reports, Founded
<1>2. /\ Parses(report.latest) /\ Parsed[report.latest] \in Versions
      /\ Exceeds(Parsed[report.latest], report.base)
      /\ InScope(Parsed[report.latest], report.base, scope)
  BY <1>1, CandidateFacts
<1> QED
  BY <1>1, <1>2, ExceedsIsStrict

\* ReportsAgree: LatestVersion, UpdateAvailable and Scope never disagree.
THEOREM ReportsAlwaysAgree == CheckSpec => []ReportsAgree
<1>1. CheckInv => ReportsAgree
  <2> SUFFICES ASSUME CheckInv PROVE ReportsAgree
    OBVIOUS
  <2>1. CASE report.latest = ""
    BY <2>1 DEF CheckInv, Derived, isNewer, classifyScope, ReportsAgree
  <2>2. CASE report.latest # ""
    <3>1. isNewer(report.latest, report.current)
      BY <2>2, ReportedFacts DEF isNewer
    <3>2. classifyScope(report.current, report.latest) # ""
      BY <2>2, ReportedFacts DEF classifyScope
    <3> QED
      BY <2>2, <3>1, <3>2 DEF CheckInv, Derived, ReportsAgree
  <2> QED
    BY <2>1, <2>2
<1> QED
  BY <1>1, CheckInvariant, PTL

\* BumpsAreInScope: a bump shown is one that the configured scope allows.
THEOREM BumpsStayInScope == CheckSpec => []BumpsAreInScope
<1>1. CheckInv => BumpsAreInScope
  <2> SUFFICES ASSUME CheckInv PROVE BumpsAreInScope
    OBVIOUS
  <2>1. report.bump = classifyScope(report.current, report.latest)
    BY DEF CheckInv, Derived
  <2>2. CASE report.latest = ""
    BY <2>1, <2>2 DEF classifyScope, BumpsAreInScope
  <2>3. CASE report.latest # ""
    BY <2>1, <2>3, ReportedFacts DEF classifyScope, BumpsAreInScope, InScope
  <2> QED
    BY <2>2, <2>3
<1> QED
  BY <1>1, CheckInvariant, PTL

\* UpdatesSettle: from the version reported there is nothing more to report.
THEOREM UpdatesAlwaysSettle == CheckSpec => []UpdatesSettle
<1>1. CheckInv => UpdatesSettle
  <2> SUFFICES ASSUME CheckInv, fresh, report.latest # "",
                      NEW t \in Candidates(Parsed[report.latest], tags, scope)
               PROVE  FALSE
    BY DEF UpdatesSettle
  <2>1. /\ t \in tags /\ t \in Texts /\ Parses(t) /\ Parsed[t] \in Versions
        /\ Exceeds(Parsed[t], Parsed[report.latest])
        /\ InScope(Parsed[t], Parsed[report.latest], scope)
    BY CandidateFacts DEF CheckInv, CheckTypeOK
  <2>2. Exceeds(Parsed[t], report.base) /\ InScope(Parsed[t], report.base, scope)
    BY <2>1, ReportedFacts, ExceedsIsTransitive, InScopeIsTransitive
  <2>3. t \in Candidates(report.base, tags, scope)
    BY <2>2 DEF Candidates
  <2>4. report.latest \in Newest(Candidates(report.base, tags, scope))
    BY DEF CheckInv, Founded
  <2> QED
    BY <2>1, <2>3, <2>4 DEF Newest
<1> QED
  BY <1>1, CheckInvariant, PTL

\* NeverLeavesLine: following reports only climbs, along the line of the scope.
Line == origin # NotSemver => Exceeds(Parsed[declared], origin) /\ InScope(Parsed[declared], origin, scope)

THEOREM LineIsNeverLeft == CheckSpec => []NeverLeavesLine
<1>1. CheckInit => Line
  BY DEF CheckInit, Line
<1>2. CheckInv /\ Line /\ [CheckNext]_checkVars => Line'
  <2> SUFFICES ASSUME CheckInv, Line, [CheckNext]_checkVars PROVE Line'
    OBVIOUS
  <2>1. CASE TakeUpdate
    <3>1. CASE origin = NotSemver
      BY <2>1, <3>1, TakenFacts DEF Line
    <3>2. CASE origin # NotSemver
      <4>1. /\ Parses(declared) /\ origin \in Versions /\ Parsed[declared] \in Versions
            /\ Exceeds(Parsed[declared], origin) /\ InScope(Parsed[declared], origin, scope)
        BY <3>2, ParsedVersion DEF CheckInv, CheckTypeOK, Settled, Line
      <4>2. /\ Parsed[report.latest] \in Versions
            /\ Exceeds(Parsed[report.latest], Parsed[declared])
            /\ InScope(Parsed[report.latest], Parsed[declared], scope)
        BY <2>1, <4>1, TakenFacts
      <4>3. Exceeds(Parsed[report.latest], origin) /\ InScope(Parsed[report.latest], origin, scope)
        BY <4>1, <4>2, ExceedsIsTransitive, InScopeIsTransitive
      <4> QED
        BY <2>1, <3>2, <4>3, TakenFacts DEF Line
    <3> QED
      BY <3>1, <3>2
  <2>2. CASE ~TakeUpdate
    <3>1. UNCHANGED <<declared, origin, scope>>
      BY <2>2 DEF CheckNext, Check, CheckFails, Publish, Withdraw, checkVars
    <3> QED
      BY <3>1 DEF Line
  <2> QED
    BY <2>1, <2>2
<1>3. Line => NeverLeavesLine
  BY DEF Line, NeverLeavesLine, InScope
<1> QED
  BY <1>1, <1>2, <1>3, CheckInvariant, PTL DEF CheckSpec

-----------------------------------------------------------------------------
(***************************************************************************)
(* The cache.                                                              *)
(***************************************************************************)
USE DEF workVars, At, Goto

-----------------------------------------------------------------------------
(* Typing.                                                                  *)

LEMMA OutcomeType ==
  /\ Nothing \in Outcomes
  /\ None \in [kind : Kinds, scan : Nat, at : Int]
  /\ \A k \in Keys : FetchKinds(k) \subseteq Kinds
  /\ \A k, kind : Released(k, kind) \in {0, 1}
BY DEF Nothing, None, Outcomes, Kinds, FetchKinds, Released

LEMMA RememberedType ==
  ASSUME TypeOK, NEW k \in Keys
  PROVE  Remembered(k) \in Outcomes
BY DEF TypeOK, Remembered, Outcomes

LEMMA TypeInit == Init => TypeOK
<1> SUFFICES ASSUME Init PROVE TypeOK
  OBVIOUS
<1>1. key \in [Workers -> Keys]
  <2>1. (CHOOSE k \in Keys : TRUE) \in Keys
    BY SomeKey DEF Keys
  <2> QED
    BY <2>1 DEF Init
<1>2. memo \in [Keys -> [kind : Kinds, scan : Nat, at : Int]]
  BY OutcomeType DEF Init
<1>3. got \in [Workers -> Outcomes]
  BY OutcomeType DEF Init
<1>4. /\ flight \in [Keys -> Workers \cup {NoWorker}]
      /\ pc \in [Workers -> Leading \cup {"idle", "miss", "join"}]
      /\ fetches \in [Keys -> Nat]
  BY DEF Init
<1>5. cancelled \in BOOLEAN
  BY Zenon DEF Init
<1>6. clock \in Nat /\ scan \in Nat /\ asks \in Nat /\ slots \in Int
  BY DEF Init
<1> QED
  BY <1>1, <1>2, <1>3, <1>4, <1>5, <1>6, Zenon DEF TypeOK

LEMMA CallType ==
  ASSUME TypeOK, NEW w \in Workers, Call(w)
  PROVE  TypeOK'
<1> USE DEF TypeOK, Leading
<1>1. CASE Lead(w)
  BY <1>1 DEF Lead
<1>2. CASE Join(w)
  BY <1>2 DEF Join
<1>3. CASE RecheckHit(w)
  <2>1. Remembered(key[w]) \in Outcomes
    BY RememberedType
  <2> QED
    BY <1>3, <2>1 DEF RecheckHit
<1>4. CASE RecheckMissIndex(w)
  BY <1>4 DEF RecheckMissIndex
<1>5. CASE RecheckMissTags(w)
  BY <1>5 DEF RecheckMissTags, BeginFetch
<1>6. CASE Acquire(w)
  BY <1>6 DEF Acquire, BeginFetch
<1>7. CASE Abandon(w)
  BY <1>7 DEF Abandon, Outcomes, Kinds
<1>8. CASE Memoize(w)
  <2>1. [kind |-> got[w].kind, scan |-> got[w].scan, at |-> clock]
          \in [kind : Kinds, scan : Nat, at : Int]
    BY DEF Outcomes
  <2>2. memo' \in [Keys -> [kind : Kinds, scan : Nat, at : Int]]
    BY <1>8, <2>1 DEF Memoize
  <2> QED
    BY <1>8, <2>2 DEF Memoize
<1>9. CASE Finish(w)
  BY <1>9 DEF Finish
<1> QED
  BY <1>1, <1>2, <1>3, <1>4, <1>5, <1>6, <1>7, <1>8, <1>9 DEF Call

LEMMA TypeStep == ASSUME TypeOK, [Next]_vars PROVE TypeOK'
<1> USE DEF TypeOK
<1>1. CASE \E w \in Workers : Call(w)
  BY <1>1, CallType
<1>2. ASSUME NEW w \in Workers, FetchEnds(w)
      PROVE  TypeOK'
  <2>1. PICK kind \in FetchKinds(key[w]) :
          /\ got' = [got EXCEPT ![w] = [kind |-> kind, scan |-> scan]]
          /\ slots' = slots - Released(key[w], kind)
    BY <1>2 DEF FetchEnds
  <2>2. [kind |-> kind, scan |-> scan] \in Outcomes
    BY OutcomeType DEF Outcomes
  <2>3. got' \in [Workers -> Outcomes] /\ slots' \in Int
    BY <2>1, <2>2, OutcomeType
  <2> QED
    BY <1>2, <2>3 DEF FetchEnds, Leading
<1>3. ASSUME NEW w \in Workers, NEW k \in Keys, Hit(w, k)
      PROVE  TypeOK'
  <2>1. Remembered(k) \in Outcomes
    BY RememberedType
  <2> QED
    BY <1>3, <2>1 DEF Hit, Leading
<1>4. ASSUME NEW w \in Workers, NEW k \in Keys, Miss(w, k)
      PROVE  TypeOK'
  BY <1>4 DEF Miss, Leading
<1>5. CASE Tick
  BY <1>5 DEF Tick
<1>6. CASE Cancel
  BY <1>6 DEF Cancel
<1>7. CASE NextScan
  BY <1>7, OutcomeType DEF NextScan
<1>8. CASE UNCHANGED vars
  BY <1>8 DEF vars
<1> QED
  BY <1>1, <1>2, <1>3, <1>4, <1>5, <1>6, <1>7, <1>8 DEF Next, Quiet

-----------------------------------------------------------------------------
(* The calls in flight.                                                     *)

LEMMA FlightStep ==
  ASSUME TypeOK, FlightExact, [Next]_vars
  PROVE  FlightExact'
<1> USE DEF TypeOK, FlightExact
<1>0. "idle" \notin Leading /\ "miss" \notin Leading /\ "join" \notin Leading
  BY DEF Leading
<1>1. ASSUME NEW w \in Workers, Lead(w)
      PROVE  FlightExact'
  BY <1>0, <1>1, NoWorkerIsNone DEF Lead, Free, Leading
<1>2. ASSUME NEW w \in Workers, Join(w)
      PROVE  FlightExact'
  BY <1>0, <1>2 DEF Join, Free
<1>3. ASSUME NEW w \in Workers,
             \/ RecheckHit(w) \/ RecheckMissIndex(w) \/ RecheckMissTags(w)
             \/ Acquire(w) \/ Abandon(w) \/ FetchEnds(w) \/ Memoize(w)
      PROVE  FlightExact'
  <2>1. UNCHANGED <<flight, key>>
    BY <1>3 DEF RecheckHit, RecheckMissIndex, RecheckMissTags, Acquire, Abandon,
                FetchEnds, Memoize
  <2>2. PICK place \in Leading : pc[w] \in Leading
                                /\ pc' = [pc EXCEPT ![w] = place]
    BY <1>3 DEF RecheckHit, RecheckMissIndex, RecheckMissTags, Acquire, Abandon,
                FetchEnds, Memoize, BeginFetch, Leading
  <2> QED
    BY <1>0, <2>1, <2>2
<1>4. ASSUME NEW w \in Workers, Finish(w)
      PROVE  FlightExact'
  <2>1. \A v \in Workers : pc[v] \in Leading /\ key[v] = key[w] => v = w
    BY <1>4 DEF Finish, Leading
  <2>2. \A v \in Workers :
          pc'[v] = IF v = w \/ (pc[v] = "join" /\ key[v] = key[w])
                   THEN "idle" ELSE pc[v]
    BY <1>4 DEF Finish, Answered, Joined
  <2>3. key' = key /\ flight' = [flight EXCEPT ![key[w]] = NoWorker]
    BY <1>4 DEF Finish
  <2>4. pc[w] \in Leading /\ flight[key[w]] = w
    BY <1>4 DEF Finish, Leading
  <2>5. \A j \in Keys : flight'[j] # NoWorker
          => key'[flight'[j]] = j /\ pc'[flight'[j]] \in Leading
    <3> SUFFICES ASSUME NEW j \in Keys, flight'[j] # NoWorker
                 PROVE  key'[flight'[j]] = j /\ pc'[flight'[j]] \in Leading
      OBVIOUS
    <3>1. j # key[w] /\ flight'[j] = flight[j] /\ flight[j] \in Workers
      BY <2>3
    <3>2. key[flight[j]] = j /\ pc[flight[j]] \in Leading
      BY <3>1
    <3>3. pc'[flight[j]] = pc[flight[j]]
      BY <1>0, <2>2, <3>1, <3>2
    <3> QED
      BY <2>3, <3>1, <3>2, <3>3
  <2>6. \A v \in Workers : pc'[v] \in Leading => flight'[key'[v]] = v
    BY <1>0, <2>1, <2>2, <2>3
  <2>7. \A v \in Workers : pc'[v] = "join" => flight'[key'[v]] # NoWorker
    BY <2>2, <2>3
  <2> QED
    BY <2>5, <2>6, <2>7
<1>5. ASSUME NEW w \in Workers, NEW k \in Keys, Hit(w, k) \/ Miss(w, k)
      PROVE  FlightExact'
  <2>1. /\ pc[w] = "idle" /\ flight' = flight
        /\ key' = [key EXCEPT ![w] = k]
        /\ pc' = pc \/ pc' = [pc EXCEPT ![w] = "miss"]
    BY <1>5 DEF Hit, Miss
  <2>2. \A v \in Workers : v # w => pc'[v] = pc[v] /\ key'[v] = key[v]
    BY <2>1
  <2>3. pc'[w] \in {"idle", "miss"}
    BY <2>1
  <2>4. \A j \in Keys : flight[j] # NoWorker => flight[j] \in Workers \ {w}
    BY <1>0, <2>1
  <2>5. \A j \in Keys : flight'[j] # NoWorker
          => key'[flight'[j]] = j /\ pc'[flight'[j]] \in Leading
    BY <2>1, <2>2, <2>4
  <2>6. \A v \in Workers : pc'[v] \in Leading => flight'[key'[v]] = v
    BY <1>0, <2>1, <2>2, <2>3
  <2>7. \A v \in Workers : pc'[v] = "join" => flight'[key'[v]] # NoWorker
    BY <2>1, <2>2, <2>3
  <2> QED
    BY <2>5, <2>6, <2>7
<1>6. CASE UNCHANGED <<pc, key, flight>>
  BY <1>6
<1> QED
  BY <1>1, <1>2, <1>3, <1>4, <1>5, <1>6
     DEF Next, Call, Tick, Cancel, NextScan, Quiet, vars

-----------------------------------------------------------------------------
(* The semaphore.                                                           *)

LEMMA FetchingFinite == IsFiniteSet(Fetching) /\ Cardinality(Fetching) \in Nat
<1>1. Fetching \in SUBSET Workers
  BY DEF Fetching
<1> QED
  BY <1>1, WorkersFinite, FS_Subset, FS_CardinalityType

LEMMA SlotsStep ==
  ASSUME TypeOK, Queued, SlotsExact, [Next]_vars
  PROVE  SlotsExact'
<1> USE DEF TypeOK, SlotsExact
<1>1. ASSUME NEW w \in Workers, Acquire(w)
      PROVE  SlotsExact'
  <2>1. Fetching' = Fetching \cup {w} /\ w \notin Fetching
    BY <1>1 DEF Acquire, BeginFetch, Queued, Fetching
  <2>2. Cardinality(Fetching') = Cardinality(Fetching) + 1
    BY <2>1, FetchingFinite, FS_AddElement
  <2> QED
    BY <1>1, <2>2, NumbersAreNatural DEF Acquire
<1>2. ASSUME NEW w \in Workers, FetchEnds(w)
      PROVE  SlotsExact'
  <2>1. PICK kind : slots' = slots - Released(key[w], kind)
    BY <1>2 DEF FetchEnds
  <2>2. Fetching' = Fetching \ {w}
    BY <1>2 DEF FetchEnds, Fetching
  <2>3. Cardinality(Fetching') = IF w \in Fetching THEN Cardinality(Fetching) - 1
                                 ELSE Cardinality(Fetching)
    BY <2>2, FetchingFinite, FS_RemoveElement
  <2>4. w \in Fetching <=> key[w] \in IndexKeys
    BY <1>2 DEF FetchEnds, Fetching
  <2> QED
    BY <2>1, <2>3, <2>4, FetchingFinite, NumbersAreNatural DEF Released
<1>3. CASE UNCHANGED slots /\ Fetching' = Fetching
  BY <1>3
<1>4. ASSUME NEW w \in Workers,
             \/ Lead(w) \/ Join(w) \/ RecheckHit(w) \/ RecheckMissIndex(w)
             \/ RecheckMissTags(w) \/ Abandon(w) \/ Memoize(w) \/ Finish(w)
      PROVE  UNCHANGED slots /\ Fetching' = Fetching
  BY <1>4, KeysDiffer
     DEF Lead, Join, RecheckHit, RecheckMissIndex, RecheckMissTags, BeginFetch,
         Abandon, Memoize, Finish, Answered, Joined, Fetching
<1>5. ASSUME NEW w \in Workers, NEW k \in Keys, Hit(w, k) \/ Miss(w, k)
      PROVE  UNCHANGED slots /\ Fetching' = Fetching
  BY <1>5 DEF Hit, Miss, Fetching
<1>6. CASE UNCHANGED <<pc, key, slots>>
  BY <1>6 DEF Fetching
<1> QED
  BY <1>1, <1>2, <1>3, <1>4, <1>5, <1>6
     DEF Next, Call, Tick, Cancel, NextScan, Quiet, vars

-----------------------------------------------------------------------------
(* The memo.                                                                *)

\* Who changes the memo, and where.
LEMMA MemoWriters ==
  ASSUME TypeOK, [Next]_vars, memo' # memo
  PROVE  \E w \in Workers : Memoize(w) /\ \A k \in Keys : k # key[w] => memo'[k] = memo[k]
<1>1. PICK w \in Workers : Memoize(w)
  BY DEF Next, Call, Lead, Join, RecheckHit, RecheckMissIndex, RecheckMissTags,
         Acquire, Abandon, Finish, FetchEnds, Hit, Miss, Tick, Cancel,
         NextScan, Quiet, vars
<1>2. \A k \in Keys : k # key[w] => memo'[k] = memo[k]
  BY <1>1 DEF Memoize, TypeOK
<1> QED
  BY <1>1, <1>2

\* While a worker queues for a slot its key stays unknown: only the worker that
\* leads the key writes its entry, and time only makes entries staler.
LEMMA QueuedStep ==
  ASSUME TypeOK, FlightExact, Queued, [Next]_vars
  PROVE  Queued'
<1> SUFFICES ASSUME NEW v \in Workers, pc'[v] = "acquire"
             PROVE  key'[v] \in IndexKeys /\ ~Fresh(key[v])'
  BY DEF Queued
<1>1. CASE RecheckMissIndex(v)
  BY <1>1 DEF RecheckMissIndex, Known, Fresh, Expired
<1>2. CASE pc[v] = "acquire"
  <2>1. key'[v] = key[v] /\ key[v] \in Keys /\ key[v] \in IndexKeys
    BY <1>2 DEF TypeOK, Queued, Next, Call, Lead, Join, RecheckHit,
                RecheckMissIndex, RecheckMissTags, BeginFetch, Acquire,
                Abandon, Memoize, Finish, FetchEnds, Hit, Miss, Tick, Cancel,
                NextScan, Quiet, vars
  <2>2. memo'[key[v]] = memo[key[v]]
    <3>1. CASE memo' = memo
      BY <3>1
    <3>2. CASE memo' # memo
      <4>1. PICK w \in Workers : Memoize(w) /\ \A k \in Keys :
                                  k # key[w] => memo'[k] = memo[k]
        BY <3>2, MemoWriters
      <4>2. key[w] # key[v]
        BY <1>2, <4>1 DEF FlightExact, Leading, Memoize, TypeOK
      <4> QED
        BY <2>1, <4>1, <4>2
    <3> QED
      BY <3>1, <3>2
  <2>3. clock \in Nat /\ memo[key[v]].at \in Int
    BY <2>1 DEF TypeOK
  <2>5. clock' = clock \/ clock' = clock + 1
    BY DEF Next, Call, Lead, Join, RecheckHit, RecheckMissIndex,
           RecheckMissTags, Acquire, Abandon, Memoize, Finish, FetchEnds, Hit,
           Miss, Tick, Cancel, NextScan, Quiet, vars
  <2>4. ~Fresh(key[v])
    BY <1>2 DEF Queued
  <2> QED
    BY <2>1, <2>2, <2>3, <2>4, <2>5, NumbersAreNatural DEF Fresh, Expired
<1>3. pc[v] = "acquire" \/ RecheckMissIndex(v)
  <2>1. ASSUME NEW w \in Workers, Call(w) \/ FetchEnds(w)
        PROVE  pc[v] = "acquire" \/ RecheckMissIndex(v)
    BY <2>1 DEF TypeOK, Call, Lead, Join, RecheckHit, RecheckMissIndex,
                RecheckMissTags, BeginFetch, Acquire, Abandon, Memoize, Finish,
                FetchEnds
  <2>2. ASSUME NEW w \in Workers, NEW k \in Keys, Hit(w, k) \/ Miss(w, k)
        PROVE  pc[v] = "acquire"
    BY <2>2 DEF TypeOK, Hit, Miss
  <2>3. CASE UNCHANGED pc
    BY <2>3
  <2> QED
    BY <2>1, <2>2, <2>3 DEF Next, Tick, Cancel, NextScan, Quiet, vars
<1> QED
  BY <1>1, <1>2, <1>3

LEMMA BroughtStep ==
  ASSUME TypeOK, Brought, [Next]_vars
  PROVE  Brought'
<1> USE DEF Brought, TypeOK
<1>1. ASSUME NEW w \in Workers, FetchEnds(w)
      PROVE  Brought'
  <2>1. PICK kind \in FetchKinds(key[w]) :
          got' = [got EXCEPT ![w] = [kind |-> kind, scan |-> scan]]
    BY <1>1 DEF FetchEnds
  <2>2. kind = "cancelled" => cancelled
    BY <2>1 DEF FetchKinds
  <2>3. /\ got'[w] = [kind |-> kind, scan |-> scan]
        /\ \A v \in Workers : v # w => got'[v] = got[v] /\ pc'[v] = pc[v]
        /\ UNCHANGED <<memo, scan, cancelled>>
    BY <1>1, <2>1 DEF FetchEnds
  <2> QED
    BY <2>2, <2>3
<1>2. ASSUME NEW w \in Workers, Abandon(w)
      PROVE  Brought'
  <2>1. /\ cancelled /\ got'[w] = [kind |-> "cancelled", scan |-> scan]
        /\ \A v \in Workers : v # w => got'[v] = got[v] /\ pc'[v] = pc[v]
        /\ UNCHANGED <<memo, scan, cancelled>>
    BY <1>2 DEF Abandon
  <2> QED
    BY <2>1
<1>3. ASSUME NEW w \in Workers, Memoize(w)
      PROVE  Brought'
  <2>1. /\ \A v \in Workers : pc'[v] = "memo" => pc[v] = "memo"
        /\ UNCHANGED <<got, scan, cancelled>>
    BY <1>3 DEF Memoize
  <2>2. got[w].kind \in Kinds
    BY DEF Outcomes
  <2>3. \A k \in Keys : memo'[k].kind \in {"val", "err"}
    BY <1>3, <2>2 DEF Memoize, Memoizable, Kinds
  <2> QED
    BY <2>1, <2>3
<1>4. ASSUME NEW w \in Workers, Finish(w)
      PROVE  Brought'
  BY <1>4 DEF Finish
<1>5. ASSUME NEW w \in Workers,
             \/ Lead(w) \/ Join(w) \/ RecheckHit(w) \/ RecheckMissIndex(w)
             \/ RecheckMissTags(w) \/ Acquire(w)
      PROVE  Brought'
  <2>1. /\ \A v \in Workers : pc'[v] = "memo" => pc[v] = "memo" /\ got'[v] = got[v]
        /\ UNCHANGED <<memo, scan, cancelled>>
    BY <1>5 DEF Lead, Join, RecheckHit, RecheckMissIndex, RecheckMissTags, BeginFetch,
                Acquire
  <2> QED
    BY <2>1
<1>6. ASSUME NEW w \in Workers, NEW k \in Keys, Hit(w, k) \/ Miss(w, k)
      PROVE  Brought'
  <2>1. /\ \A v \in Workers : pc'[v] = "memo" => pc[v] = "memo" /\ got'[v] = got[v]
        /\ UNCHANGED <<memo, scan, cancelled>>
    BY <1>6 DEF Hit, Miss
  <2> QED
    BY <2>1
<1>7. CASE NextScan
  BY <1>7 DEF NextScan
<1>8. CASE UNCHANGED <<pc, got, memo, scan>> /\ (cancelled => cancelled')
  BY <1>8
<1> QED
  BY <1>1, <1>2, <1>3, <1>4, <1>5, <1>6, <1>7, <1>8
     DEF Next, Call, Tick, Cancel, Quiet, vars

\* CacheInv is inductive.
THEOREM CacheInvariant == Spec => []CacheInv
<1>1. Init => CacheInv
  <2> SUFFICES ASSUME Init PROVE CacheInv
    OBVIOUS
  <2>1. TypeOK
    BY TypeInit
  <2>2. FlightExact /\ Queued /\ Brought
    BY DEF Init, FlightExact, Queued, Leading, Brought, None
  <2>3. Fetching = {}
    BY DEF Init, Fetching
  <2>4. SlotsExact
    BY <2>3, FS_EmptySet, NumbersAreNatural DEF Init, SlotsExact
  <2> QED
    BY <2>1, <2>2, <2>4 DEF CacheInv
<1>2. CacheInv /\ [Next]_vars => CacheInv'
  BY TypeStep, FlightStep, QueuedStep, BroughtStep, SlotsStep DEF CacheInv
<1> QED
  BY <1>1, <1>2, PTL DEF Spec

\* At most one call per key is in flight, led by the worker the group names,
\* and nobody waits for a call that is over.
THEOREM OneCallPerKey == Spec => []FlightExact
<1>1. CacheInv => FlightExact
  BY DEF CacheInv
<1> QED
  BY <1>1, CacheInvariant, PTL

\* The semaphore holds a token for each index fetch in progress and no other.
THEOREM SlotsAccounted == Spec => []SlotsExact
<1>1. CacheInv => SlotsExact
  BY DEF CacheInv
<1> QED
  BY <1>1, CacheInvariant, PTL

\* A fetch begins only when the memo has nothing fresh for its key.
THEOREM FetchesAreNeeded == Spec => NoRefetchWhileFresh
<1>1. CacheInv /\ [Next]_vars =>
        [\A w \in Workers :
           pc[w] # "fetch" /\ pc'[w] = "fetch" => ~Fresh(key[w])]_vars
  <2> SUFFICES ASSUME CacheInv, Next, NEW w \in Workers,
                      pc[w] # "fetch", pc'[w] = "fetch"
               PROVE  ~Fresh(key[w])
    BY DEF vars
  <2>1. CASE Acquire(w)
    BY <2>1 DEF Acquire, CacheInv, Queued
  <2>2. CASE RecheckMissTags(w)
    BY <2>2 DEF RecheckMissTags, Known
  <2>3. Acquire(w) \/ RecheckMissTags(w)
    <3>1. ASSUME NEW v \in Workers, Call(v) \/ FetchEnds(v)
          PROVE  Acquire(w) \/ RecheckMissTags(w)
      BY <3>1 DEF CacheInv, TypeOK, Call, Lead, Join, RecheckHit,
                  RecheckMissIndex, RecheckMissTags, BeginFetch, Acquire,
                  Abandon, Memoize, Finish, FetchEnds
    <3>2. ASSUME NEW v \in Workers, NEW k \in Keys, Hit(v, k) \/ Miss(v, k)
          PROVE  FALSE
      BY <3>2 DEF CacheInv, TypeOK, Hit, Miss
    <3> QED
      BY <3>1, <3>2 DEF Next, Tick, Cancel, NextScan, Quiet, vars
  <2> QED
    BY <2>1, <2>2, <2>3
<1> QED
  BY <1>1, CacheInvariant, PTL DEF Spec, NoRefetchWhileFresh

-----------------------------------------------------------------------------
(* How often a registry is asked.                                           *)

LEMMA StoredBeforeStep ==
  ASSUME TypeOK, StoredBefore, [Next]_vars
  PROVE  StoredBefore'
<1> SUFFICES ASSUME NEW k \in Keys, memo'[k] # None
             PROVE  0 <= memo'[k].at /\ memo'[k].at <= clock'
  BY DEF StoredBefore, None
<1>1. /\ memo[k] # None => 0 <= memo[k].at /\ memo[k].at <= clock
      /\ clock \in Nat /\ memo[k].at \in Int
  BY DEF StoredBefore, TypeOK
<1>2. clock' = clock \/ clock' = clock + 1
  BY DEF Next, Call, Lead, Join, RecheckHit, RecheckMissIndex,
         RecheckMissTags, Acquire, Abandon, Memoize, Finish, FetchEnds, Hit,
         Miss, Tick, Cancel, NextScan, Quiet, vars
<1>3. CASE memo'[k] = memo[k]
  BY <1>1, <1>2, <1>3
<1>4. CASE memo'[k] # memo[k]
  <2>1. PICK w \in Workers : Memoize(w) /\ k = key[w]
    BY <1>4, MemoWriters
  <2>2. memo'[k].at = clock /\ clock' = clock
    BY <1>4, <2>1 DEF Memoize, TypeOK
  <2> QED
    BY <1>1, <2>2
<1> QED
  BY <1>3, <1>4

\* One TTL later there is room for one request more.
LEMMA SpacedByTTL ==
  ASSUME NEW n \in Nat, NEW s \in Int, NEW t \in Int,
         TTL > 0, t - s >= TTL, s >= 0, Spaced(n, s)
  PROVE  Spaced(n + 1, t)
<1>1. TTL \in Nat
  BY NumbersAreNatural
<1>2. CASE n <= 1
  BY <1>1, <1>2 DEF Spaced
<1>3. CASE n > 1
  <2>1. (n - 1) * TTL <= s
    BY <1>3 DEF Spaced
  <2>2. ((n + 1) - 1) * TTL = (n - 1) * TTL + TTL
    BY <1>1
  <2>3. (n - 1) * TTL \in Int
    BY <1>1
  <2>4. ((n + 1) - 1) * TTL <= t
    BY <1>1, <2>1, <2>2, <2>3
  <2> QED
    BY <2>4 DEF Spaced
<1> QED
  BY <1>2, <1>3

LEMMA SpacedStays ==
  ASSUME NEW n \in Nat, NEW s \in Int, NEW t \in Int, s <= t, Spaced(n, s)
  PROVE  Spaced(n, t)
<1>1. (n - 1) * TTL \in Int
  BY NumbersAreNatural
<1> QED
  BY <1>1 DEF Spaced

\* What Remembering says of a key.
Asked(k) ==
  \/ fetches[k] = 0
  \/ (memo[k] # None /\ Spaced(fetches[k], memo[k].at))
  \/ /\ flight[k] # NoWorker /\ pc[flight[k]] \in {"fetch", "memo"}
     /\ Spaced(fetches[k], clock)

\* A step that keeps the memo's entry and the count of a key, and its call where it
\* is if that call is asking, keeps what is known of the key.
LEMMA AskedStays ==
  ASSUME TypeOK, NEW k \in Keys, Asked(k), fetches'[k] = fetches[k],
         memo'[k] = memo[k], clock' \in Int, clock <= clock',
         flight[k] # NoWorker /\ pc[flight[k]] \in {"fetch", "memo"} =>
           flight'[k] = flight[k] /\ pc'[flight[k]] \in {"fetch", "memo"}
  PROVE  Asked(k)'
<1>1. fetches[k] \in Nat /\ clock \in Int
  BY DEF TypeOK
<1>2. Spaced(fetches[k], clock) => Spaced(fetches[k], clock')
  BY <1>1, SpacedStays
<1>3. CASE fetches[k] = 0
  BY <1>3 DEF Asked
<1>4. CASE memo[k] # None /\ Spaced(fetches[k], memo[k].at)
  <2>1. memo'[k] # None'
    BY <1>4 DEF None
  <2> QED
    BY <1>4, <2>1 DEF Asked, Spaced
<1>5. CASE /\ flight[k] # NoWorker /\ pc[flight[k]] \in {"fetch", "memo"}
           /\ Spaced(fetches[k], clock)
  BY <1>2, <1>5 DEF Asked, Spaced
<1> QED
  BY <1>3, <1>4, <1>5 DEF Asked

\* A fetch that begins finds no entry, or one that is a TTL old; until it ends the
\* call is in flight, and afterwards the outcome is remembered.
LEMMA RememberingStep ==
  ASSUME ~CanTimeOut, CacheInv, StoredBefore, Remembering, [Next]_vars
  PROVE  Remembering'
<1> USE DEF CacheInv, TypeOK
<1> SUFFICES ASSUME ~cancelled'
             PROVE  /\ \A w \in Workers : pc'[w] = "memo" => Memoizable(got'[w].kind)
                    /\ \A k \in Keys : Asked(k)'
  BY DEF Remembering, Asked, Memoizable
<1>0. /\ ~cancelled
      /\ \A w \in Workers : pc[w] = "memo" => Memoizable(got[w].kind)
      /\ \A k \in Keys : Asked(k)
  <2>1. ~cancelled
    BY DEF Next, Call, Lead, Join, RecheckHit, RecheckMissIndex,
           RecheckMissTags, Acquire, Abandon, Memoize, Finish, FetchEnds, Hit,
           Miss, Tick, Cancel, NextScan, Quiet, vars
  <2> QED
    BY <2>1 DEF Remembering, Asked
<1> DEFINE Goal == /\ \A w \in Workers : pc'[w] = "memo" => Memoizable(got'[w].kind)
                   /\ \A k \in Keys : Asked(k)'
<1>1. ASSUME NEW w \in Workers, RecheckMissTags(w) \/ Acquire(w)
      PROVE  Goal
  <2>1. /\ pc' = [pc EXCEPT ![w] = "fetch"] /\ pc[w] \in {"recheck", "acquire"}
        /\ fetches' = [fetches EXCEPT ![key[w]] = @ + 1]
        /\ UNCHANGED <<memo, flight, got, clock>>
    BY <1>1 DEF RecheckMissTags, Acquire, BeginFetch
  <2>2. ~Fresh(key[w])
    BY <1>1 DEF RecheckMissTags, Acquire, Queued, Known
  <2>3. flight[key[w]] = w /\ w # NoWorker
    BY <2>1, NoWorkerIsNone DEF FlightExact, Leading
  <2>4. Spaced(fetches[key[w]] + 1, clock)
    <3>1. PICK k \in Keys : k = key[w]
      OBVIOUS
    <3>2. PICK n \in Nat : n = fetches[k]
      OBVIOUS
    <3>3. Asked(k) /\ ~(pc[flight[k]] \in {"fetch", "memo"})
      BY <1>0, <2>1, <2>3, <3>1
    <3>4. CASE n = 0
      BY <3>1, <3>2, <3>4 DEF Spaced
    <3>5. CASE memo[k] # None /\ Spaced(n, memo[k].at)
      <4>1. TTL > 0 /\ clock - memo[k].at >= TTL
        BY <2>2, <3>1, <3>5 DEF Fresh, Expired
      <4>2. memo[k].at >= 0 /\ memo[k].at \in Int /\ clock \in Int
        BY <3>1, <3>5 DEF StoredBefore
      <4> QED
        BY <3>1, <3>2, <3>5, <4>1, <4>2, SpacedByTTL
    <3> QED
      BY <3>1, <3>2, <3>3, <3>4, <3>5 DEF Asked
  <2>5. \A v \in Workers : pc'[v] = "memo" => Memoizable(got'[v].kind)
    BY <1>0, <2>1
  <2>6. ASSUME NEW k \in Keys PROVE Asked(k)'
    <3>1. CASE k = key[w]
      <4>1. fetches'[k] = fetches[k] + 1 /\ flight'[k] = w /\ pc'[w] = "fetch"
        BY <2>1, <2>3, <3>1
      <4> QED
        BY <2>1, <2>3, <2>4, <3>1, <4>1 DEF Asked, Spaced
    <3>2. CASE k # key[w]
      <4>1. fetches'[k] = fetches[k] /\ memo'[k] = memo[k]
        BY <2>1, <3>2
      <4>2. flight[k] # NoWorker => flight[k] \in Workers /\ flight[k] # w
        BY <3>2 DEF FlightExact
      <4>3. flight'[k] = flight[k] /\ clock' = clock
            /\ (flight[k] # NoWorker => pc'[flight[k]] = pc[flight[k]])
        BY <2>1, <4>2
      <4> QED
        BY <1>0, <4>1, <4>3, AskedStays
    <3> QED
      BY <3>1, <3>2
  <2> QED
    BY <2>5, <2>6
<1>2. ASSUME NEW w \in Workers, FetchEnds(w)
      PROVE  Goal
  <2>1. PICK kind \in FetchKinds(key[w]) :
          got' = [got EXCEPT ![w] = [kind |-> kind, scan |-> scan]]
    BY <1>2 DEF FetchEnds
  <2>2. Memoizable(kind)
    BY <1>0 DEF FetchKinds, Memoizable
  <2>3. /\ pc' = [pc EXCEPT ![w] = "memo"] /\ pc[w] = "fetch"
        /\ UNCHANGED <<memo, flight, fetches, clock>>
    BY <1>2 DEF FetchEnds
  <2>4. \A v \in Workers : pc'[v] = "memo" => Memoizable(got'[v].kind)
    BY <1>0, <2>1, <2>2, <2>3
  <2>5. \A k \in Keys : flight[k] # NoWorker /\ pc[flight[k]] \in {"fetch", "memo"}
          => pc'[flight[k]] \in {"fetch", "memo"}
    BY <2>3
  <2>6. ASSUME NEW k \in Keys PROVE Asked(k)'
    BY <1>0, <2>3, <2>5, AskedStays
  <2> QED
    BY <2>4, <2>6
<1>3. ASSUME NEW w \in Workers, Memoize(w)
      PROVE  Goal
  <2>1. memo' = [memo EXCEPT ![key[w]] = [kind |-> got[w].kind,
                                scan |-> got[w].scan, at |-> clock]]
    BY <1>0, <1>3 DEF Memoize
  <2>2. memo'[key[w]].at = clock /\ memo'[key[w]] # None
    <3>1. memo'[key[w]].at = clock
      BY <2>1
    <3> QED
      BY <3>1 DEF None
  <2>3. /\ pc' = [pc EXCEPT ![w] = "done"] /\ pc[w] = "memo"
        /\ UNCHANGED <<flight, fetches, got, clock>>
    BY <1>3 DEF Memoize
  <2>4. \A v \in Workers : pc'[v] = "memo" => Memoizable(got'[v].kind)
    BY <1>0, <2>3
  <2>5. \A k \in Keys : k # key[w] => memo'[k] = memo[k] /\ flight[k] # w
    BY <2>1, <2>3, NoWorkerIsNone DEF FlightExact
  <2>6. ASSUME NEW k \in Keys PROVE Asked(k)'
    <3>1. CASE k = key[w]
      <4>1. flight[k] = w
        BY <2>3, <3>1 DEF FlightExact, Leading
      <4>2. PICK n \in Nat : n = fetches[k]
        OBVIOUS
      <4>3. PICK s \in Int : s = memo[k].at
        OBVIOUS
      <4>4. memo[k] # None => s <= clock
        BY <4>3 DEF StoredBefore
      <4>5. Spaced(n, clock)
        <5>1. n = 0 => Spaced(n, clock)
          BY DEF Spaced
        <5>2. memo[k] # None /\ Spaced(n, s) => Spaced(n, clock)
          BY <4>4, SpacedStays
        <5> QED
          BY <1>0, <4>2, <4>3, <5>1, <5>2 DEF Asked
      <4> QED
        BY <2>2, <2>3, <3>1, <4>2, <4>5 DEF Asked, Spaced, None
    <3>2. CASE k # key[w]
      <4>1. flight[k] # NoWorker => pc'[flight[k]] = pc[flight[k]]
        BY <2>3, <2>5, <3>2
      <4>2. fetches'[k] = fetches[k] /\ flight'[k] = flight[k] /\ memo'[k] = memo[k]
        BY <2>3, <2>5, <3>2
      <4> QED
        BY <1>0, <2>3, <4>1, <4>2, AskedStays
    <3> QED
      BY <3>1, <3>2
  <2> QED
    BY <2>4, <2>6
<1>4. ASSUME NEW w \in Workers,
             \/ Lead(w) \/ Join(w) \/ RecheckHit(w) \/ RecheckMissIndex(w)
      PROVE  Goal
  <2>1. UNCHANGED <<memo, fetches, clock>>
    BY <1>4 DEF Lead, Join, RecheckHit, RecheckMissIndex
  <2>2. \A v \in Workers :
          /\ pc'[v] \in {"fetch", "memo"} <=> pc[v] \in {"fetch", "memo"}
          /\ pc'[v] = "memo" => pc[v] = "memo" /\ got'[v] = got[v]
    BY <1>4 DEF Lead, Join, RecheckHit, RecheckMissIndex
  <2>3. \A k \in Keys : flight[k] # NoWorker => flight'[k] = flight[k]
    BY <1>4 DEF Lead, Join, RecheckHit, RecheckMissIndex, Free
  <2>4. \A k \in Keys : flight[k] # NoWorker => flight[k] \in Workers
    OBVIOUS
  <2>5. ASSUME NEW k \in Keys PROVE Asked(k)'
    BY <1>0, <2>1, <2>2, <2>3, <2>4, AskedStays
  <2> QED
    BY <1>0, <2>2, <2>5
<1>5. ASSUME NEW w \in Workers, Finish(w)
      PROVE  Goal
  <2>1. UNCHANGED <<memo, fetches, clock>>
    BY <1>5 DEF Finish
  <2>2. \A v \in Workers :
          /\ pc[v] \in {"fetch", "memo"} => pc'[v] = pc[v]
          /\ pc'[v] = "memo" => pc[v] = "memo" /\ got'[v] = got[v]
    BY <1>5 DEF Finish, Answered, Joined
  <2>3. \A k \in Keys :
          flight[k] # NoWorker /\ pc[flight[k]] \in {"fetch", "memo"}
            => flight'[k] = flight[k] /\ flight[k] \in Workers
    BY <1>5 DEF Finish, FlightExact, Leading
  <2>4. ASSUME NEW k \in Keys PROVE Asked(k)'
    BY <1>0, <2>1, <2>2, <2>3, AskedStays
  <2> QED
    BY <1>0, <2>2, <2>4
<1>6. ASSUME NEW w \in Workers, NEW j \in Keys, Hit(w, j) \/ Miss(w, j)
      PROVE  Goal
  <2>1. UNCHANGED <<memo, fetches, flight, clock>>
    BY <1>6 DEF Hit, Miss
  <2>2. \A v \in Workers :
          /\ pc[v] \in {"fetch", "memo"} => pc'[v] = pc[v]
          /\ pc'[v] = "memo" => pc[v] = "memo" /\ got'[v] = got[v]
    BY <1>6 DEF Hit, Miss
  <2>3. ASSUME NEW k \in Keys PROVE Asked(k)'
    BY <1>0, <2>1, <2>2, AskedStays
  <2> QED
    BY <1>0, <2>2, <2>3
<1>7. ASSUME NextScan
      PROVE  Goal
  <2>1. \A v \in Workers : pc'[v] = "idle" /\ pc[v] = "idle"
    BY <1>7 DEF NextScan
  <2>2. UNCHANGED <<memo, fetches, flight, clock>>
    BY <1>7 DEF NextScan
  <2>3. ASSUME NEW k \in Keys PROVE Asked(k)'
    BY <1>0, <2>1, <2>2, AskedStays
  <2> QED
    BY <2>1, <2>3
<1>8. ASSUME UNCHANGED <<memo, fetches, flight, pc, got>>, clock' \in {clock, clock + 1}
      PROVE  Goal
  <2>1. ASSUME NEW k \in Keys PROVE Asked(k)'
    BY <1>0, <1>8, AskedStays
  <2> QED
    BY <1>0, <1>8, <2>1
<1>9. ~\E w \in Workers : Abandon(w)
  BY <1>0 DEF Abandon
<1>10. ASSUME Tick \/ Cancel \/ UNCHANGED vars
       PROVE  Goal
  <2>1. UNCHANGED <<memo, fetches, flight, pc, got>> /\ clock' \in {clock, clock + 1}
    BY <1>10 DEF Tick, Cancel, vars
  <2> QED
    BY <1>8, <2>1
<1> HIDE DEF Goal, CacheInv, TypeOK
<1>11. ASSUME NEW w \in Workers, Call(w) \/ FetchEnds(w)
       PROVE  Goal
  BY <1>1, <1>2, <1>3, <1>4, <1>5, <1>9, <1>11 DEF Call
<1>12. Goal
  BY <1>6, <1>7, <1>10, <1>11 DEF Next, Quiet
<1> QED
  BY <1>12 DEF Goal

LEMMA RequestsAreSpaced ==
  ASSUME ~CanTimeOut
  PROVE  Spec => [](CacheInv /\ StoredBefore /\ Remembering)
<1>1. Init => StoredBefore /\ Remembering
  BY DEF Init, StoredBefore, Remembering
<1>2. CacheInv /\ StoredBefore /\ Remembering /\ [Next]_vars => StoredBefore' /\ Remembering'
  BY StoredBeforeStep, RememberingStep DEF CacheInv
<1> QED
  BY <1>1, <1>2, CacheInvariant, PTL DEF Spec

\* A key that was asked for was asked for as often as its requests are spaced.
LEMMA AskedIsSpaced ==
  ASSUME CacheInv, StoredBefore, Remembering, ~cancelled, NEW k \in Keys
  PROVE  fetches[k] \in Nat /\ Spaced(fetches[k], clock)
<1>1. fetches[k] \in Nat /\ clock \in Int /\ memo[k].at \in Int
  BY DEF CacheInv, TypeOK
<1>2. PICK n \in Nat : n = fetches[k]
  BY <1>1
<1>3. PICK s \in Int : s = memo[k].at
  BY <1>1
<1>4. CASE n = 0
  BY <1>2, <1>4 DEF Spaced
<1>5. CASE memo[k] # None /\ Spaced(n, s)
  <2>1. s <= clock
    BY <1>3, <1>5 DEF StoredBefore
  <2> QED
    BY <1>1, <1>2, <1>5, <2>1, SpacedStays
<1> QED
  BY <1>1, <1>2, <1>3, <1>4, <1>5 DEF Remembering

\* With registries that answer within the timeout, whatever the TTL, a registry is
\* asked once per TTL at most, broken or not.
THEOREM AskedOnce ==
  ASSUME ~CanTimeOut
  PROVE  Spec => []FetchedOnce
<1>1. CacheInv /\ StoredBefore /\ Remembering => FetchedOnce
  <2> SUFFICES ASSUME CacheInv, StoredBefore, Remembering, ~cancelled, NEW k \in Keys
               PROVE  (fetches[k] - 1) * TTL <= clock
    BY DEF FetchedOnce
  <2>1. PICK n \in Nat : n = fetches[k]
    BY AskedIsSpaced
  <2>2. Spaced(n, clock) /\ clock \in Nat
    BY <2>1, AskedIsSpaced DEF CacheInv, TypeOK
  <2>3. CASE n <= 1
    <3>1. n = 1 \/ n = 0
      BY <2>3
    <3> QED
      BY <2>1, <2>2, <3>1, NumbersAreNatural
  <2>4. CASE n > 1
    BY <2>1, <2>2, <2>4 DEF Spaced
  <2> QED
    BY <2>3, <2>4
<1> QED
  BY <1>1, RequestsAreSpaced, PTL

\* A TTL of 0 keeps entries for the cache's lifetime (registry.go:79): a registry
\* that answered is not asked again in any later scan, the opposite of the fresh
\* fetch on every scan that config.go:49 promises for "0".
THEOREM ZeroNeverExpires ==
  ASSUME TTL = 0, ~CanTimeOut
  PROVE  Spec => [](~cancelled => \A k \in Keys : fetches[k] <= 1)
<1>1. CacheInv /\ StoredBefore /\ Remembering
        => (~cancelled => \A k \in Keys : fetches[k] <= 1)
  <2> SUFFICES ASSUME CacheInv, StoredBefore, Remembering, ~cancelled, NEW k \in Keys
               PROVE  fetches[k] <= 1
    OBVIOUS
  <2> QED
    BY AskedIsSpaced DEF Spaced
<1> QED
  BY <1>1, RequestsAreSpaced, PTL

-----------------------------------------------------------------------------
(* The cache implements SharedLookups.                                      *)

\* What the mapped variables hold.
LEMMA MappedFacts ==
  /\ \A k \in Keys : KnownNow[k] = IF Fresh(k) THEN Remembered(k) ELSE Nothing
  /\ \A k \in Keys : Calls[k] = CallOf(k)
  /\ \A w \in Workers : Wants[w] = IF pc[w] = "idle" THEN {} ELSE {key[w]}
  /\ \A w \in Workers : Told[w] = IF pc[w] = "idle" THEN got[w] ELSE Nothing
BY DEF KnownNow, Calls, Wants, Told

\* What the memo holds can be told from nothing.
LEMMA RememberedIsSomething ==
  ASSUME Brought, NEW k \in Keys PROVE Remembered(k) # Nothing
<1>1. memo[k].kind # "cancelled"
  BY DEF Brought
<1>2. Remembered(k).kind = memo[k].kind /\ Nothing.kind = "cancelled"
  BY DEF Remembered, Nothing
<1> QED
  BY <1>1, <1>2

LEMMA KnownStays ==
  ASSUME memo' = memo, clock' = clock PROVE KnownNow' = KnownNow
BY DEF KnownNow, Fresh, Expired, Remembered

\* A step inside a stage of the calls is none for those who share them.
LEMMA CallsStay ==
  ASSUME TypeOK, FlightExact, flight' = flight,
         \A w \in Workers : pc[w] \in Leading =>
           /\ pc'[w] \in {"recheck", "acquire"} <=> pc[w] \in {"recheck", "acquire"}
           /\ pc'[w] \in {"fetch", "memo"} <=> pc[w] \in {"fetch", "memo"}
           /\ pc[w] = "done" => got'[w] = got[w]
  PROVE  Calls' = Calls
<1>1. ASSUME NEW k \in Keys PROVE CallOf(k)' = CallOf(k)
  <2>1. CASE flight[k] = NoWorker
    BY <2>1 DEF CallOf, Nothing
  <2>2. CASE flight[k] # NoWorker
    <3>1. flight[k] \in Workers /\ pc[flight[k]] \in Leading
      BY <2>2 DEF TypeOK, FlightExact
    <3> QED
      BY <2>2, <3>1 DEF CallOf, Nothing, Leading
  <2> QED
    BY <2>1, <2>2
<1> QED
  BY <1>1 DEF Calls

\* A leader that moves on takes its own call along and no other.
LEMMA CallGoes ==
  ASSUME TypeOK, FlightExact, NEW w \in Workers, pc[w] \in Leading,
         flight' = flight,
         \A v \in Workers : v # w => pc'[v] = pc[v] /\ got'[v] = got[v]
  PROVE  Calls' = [Calls EXCEPT ![key[w]] = Calls'[key[w]]]
<1>1. ASSUME NEW k \in Keys, k # key[w] PROVE CallOf(k)' = CallOf(k)
  <2>1. CASE flight[k] = NoWorker
    BY <2>1 DEF CallOf, Nothing
  <2>2. CASE flight[k] # NoWorker
    <3>1. flight[k] \in Workers /\ flight[k] # w
      BY <1>1, <2>2 DEF TypeOK, FlightExact
    <3> QED
      BY <2>2, <3>1 DEF CallOf, Nothing
  <2> QED
    BY <2>1, <2>2
<1> QED
  BY <1>1 DEF Calls

\* Waiting is all that others see of a worker.
LEMMA WorkersStay ==
  ASSUME \A w \in Workers :
           /\ pc'[w] = "idle" <=> pc[w] = "idle"
           /\ pc[w] = "idle" => got'[w] = got[w]
           /\ pc[w] # "idle" => key'[w] = key[w]
  PROVE  Wants' = Wants /\ Told' = Told
BY DEF Wants, Told, Nothing

LEMMA HitAnswers ==
  ASSUME CacheInv, NEW w \in Workers, NEW k \in Keys, Hit(w, k)
  PROVE  Lookups!Answer(w, k)
<1> USE DEF CacheInv, TypeOK
<1>1. /\ pc' = pc /\ flight' = flight /\ memo' = memo /\ clock' = clock
      /\ UNCHANGED <<cancelled, scan>>
      /\ pc[w] = "idle" /\ Fresh(k)
      /\ key' = [key EXCEPT ![w] = k]
      /\ got' = [got EXCEPT ![w] = Remembered(k)]
  BY DEF Hit
<1>2. KnownNow' = KnownNow
  BY <1>1, KnownStays
<1>3. \A v \in Workers : v # w => got'[v] = got[v] /\ key'[v] = key[v]
  BY <1>1
<1>4. Calls' = Calls
  BY <1>1, <1>3, CallsStay DEF Leading
<1>5. Wants' = Wants
  BY <1>1, <1>3 DEF Wants
<1>6. Told' = [Told EXCEPT ![w] = KnownNow[k]]
  <2>1. KnownNow[k] = Remembered(k)
    BY <1>1, MappedFacts
  <2>2. got'[w] = Remembered(k)
    BY <1>1
  <2> QED
    BY <1>1, <1>3, <2>1, <2>2 DEF Told
<1>7. Wants[w] = {} /\ KnownNow[k] # Nothing
  BY <1>1, MappedFacts, RememberedIsSomething
<1> QED
  BY <1>1, <1>2, <1>4, <1>5, <1>6, <1>7 DEF Lookups!Answer, Lookups!Unknown, Nothing

LEMMA MissWants ==
  ASSUME CacheInv, NEW w \in Workers, NEW k \in Keys, Miss(w, k)
  PROVE  Lookups!Want(w, k)
<1> USE DEF CacheInv, TypeOK
<1>1. /\ pc' = [pc EXCEPT ![w] = "miss"] /\ got' = got
      /\ flight' = flight /\ memo' = memo /\ clock' = clock
      /\ UNCHANGED <<cancelled, scan>>
      /\ pc[w] = "idle" /\ ~Fresh(k)
      /\ key' = [key EXCEPT ![w] = k]
  BY DEF Miss
<1>2. KnownNow' = KnownNow
  BY <1>1, KnownStays
<1>3. /\ pc'[w] = "miss" /\ key'[w] = k
      /\ \A v \in Workers : v # w => pc'[v] = pc[v] /\ key'[v] = key[v]
  BY <1>1
<1>4. Calls' = Calls
  BY <1>1, <1>3, CallsStay DEF Leading
<1>5. Wants' = [Wants EXCEPT ![w] = {k}]
  BY <1>3 DEF Wants
<1>6. Told' = [Told EXCEPT ![w] = Nothing]
  BY <1>1, <1>3 DEF Told, Nothing
<1>7. Wants[w] = {} /\ KnownNow[k] = Nothing
  BY <1>1, MappedFacts
<1> QED
  BY <1>1, <1>2, <1>4, <1>5, <1>6, <1>7 DEF Lookups!Want, Lookups!Unknown, Nothing

LEMMA LeadOpens ==
  ASSUME CacheInv, NEW w \in Workers, Lead(w)
  PROVE  Lookups!Open(key[w])
<1> USE DEF CacheInv, TypeOK
<1> DEFINE k == key[w]
<1>1. /\ pc' = [pc EXCEPT ![w] = "recheck"] /\ got' = got /\ key' = key
      /\ memo' = memo /\ clock' = clock
      /\ UNCHANGED <<cancelled, scan>>
      /\ pc[w] = "miss" /\ flight[k] = NoWorker
      /\ flight' = [flight EXCEPT ![k] = w]
  BY DEF Lead, Free
<1>2. KnownNow' = KnownNow
  BY <1>1, KnownStays
<1>3. Wants' = Wants /\ Told' = Told
  BY <1>1, WorkersStay
<1>4. k \in Wants[w]
  BY <1>1, MappedFacts
<1>5. Calls[k] = [state |-> "none", outcome |-> Nothing]
  BY <1>1, MappedFacts DEF CallOf
<1>6. Calls'[k] = [state |-> "open", outcome |-> Nothing]
  BY <1>1, NoWorkerIsNone DEF Calls, CallOf, Nothing
<1>7. ASSUME NEW j \in Keys, j # k PROVE Calls'[j] = Calls[j]
  <2>1. flight'[j] = flight[j]
    BY <1>1, <1>7
  <2>2. CASE flight[j] = NoWorker
    BY <2>1, <2>2 DEF Calls, CallOf, Nothing
  <2>3. CASE flight[j] # NoWorker
    <3>1. flight[j] \in Workers /\ flight[j] # w
      BY <1>1, <2>3 DEF FlightExact, Leading
    <3> QED
      BY <1>1, <2>1, <2>3, <3>1 DEF Calls, CallOf, Nothing
  <2> QED
    BY <2>2, <2>3
<1>8. Calls' = [Calls EXCEPT ![k] = [state |-> "open", outcome |-> Nothing]]
  <2>1. Calls = [j \in Keys |-> Calls[j]] /\ Calls' = [j \in Keys |-> Calls'[j]]
    BY DEF Calls
  <2>2. k \in Keys
    OBVIOUS
  <2> HIDE DEF k, CacheInv, TypeOK
  <2> QED
    BY <1>6, <1>7, <2>1, <2>2
<1> QED
  BY <1>1, <1>2, <1>3, <1>4, <1>5, <1>8
     DEF Lookups!Open, Lookups!Goes, Lookups!Call, Lookups!Unknown, Nothing

LEMMA RecheckHitRecalls ==
  ASSUME CacheInv, NEW w \in Workers, RecheckHit(w)
  PROVE  Lookups!Recall(key[w])
<1> USE DEF CacheInv, TypeOK
<1> DEFINE k == key[w]
<1>1. /\ pc' = [pc EXCEPT ![w] = "done"] /\ key' = key /\ flight' = flight
      /\ memo' = memo /\ clock' = clock
      /\ UNCHANGED <<cancelled, scan>>
      /\ pc[w] = "recheck" /\ Fresh(k)
      /\ got' = [got EXCEPT ![w] = Remembered(k)]
  BY DEF RecheckHit, Known
<1>2. KnownNow' = KnownNow
  BY <1>1, KnownStays
<1>3. Wants' = Wants /\ Told' = Told
  BY <1>1, WorkersStay
<1>4. flight[k] = w /\ w # NoWorker
  BY <1>1, NoWorkerIsNone DEF FlightExact, Leading
<1>5. Calls[k] = [state |-> "open", outcome |-> Nothing]
  BY <1>1, <1>4, MappedFacts DEF CallOf
<1>6. KnownNow[k] = Remembered(k) /\ Remembered(k) # Nothing
  BY <1>1, MappedFacts, RememberedIsSomething
<1>7. CallOf(k)' = [state |-> "over", outcome |-> Remembered(k)]
  BY <1>1, <1>4 DEF CallOf
<1>8. Calls' = [Calls EXCEPT ![k] = Calls'[k]]
  BY <1>1, CallGoes DEF Leading
<1>9. Calls'[k] = CallOf(k)'
  BY <1>1 DEF Calls
<1> QED
  BY <1>1, <1>2, <1>3, <1>5, <1>6, <1>7, <1>8, <1>9
     DEF Lookups!Recall, Lookups!Goes, Lookups!Call, Lookups!Unknown, Nothing

\* Giving up in the queue counts as asking: the answer is the context's error.
LEMMA FetchesAsk ==
  ASSUME CacheInv, NEW w \in Workers,
         RecheckMissTags(w) \/ Acquire(w) \/ Abandon(w)
  PROVE  Lookups!Ask(key[w])
<1> USE DEF CacheInv, TypeOK
<1> DEFINE k == key[w]
<1>1. /\ pc[w] \in {"recheck", "acquire"} /\ ~Fresh(k)
      /\ key' = key /\ flight' = flight /\ memo' = memo /\ clock' = clock
      /\ UNCHANGED <<cancelled, scan>>
  BY DEF RecheckMissTags, Acquire, Abandon, Known, Queued
<1>2. /\ pc'[w] \in {"fetch", "memo"}
      /\ \A v \in Workers : v # w => pc'[v] = pc[v] /\ got'[v] = got[v]
  BY DEF RecheckMissTags, Acquire, Abandon, BeginFetch
<1>3. KnownNow' = KnownNow
  BY <1>1, KnownStays
<1>4. Wants' = Wants /\ Told' = Told
  BY <1>1, <1>2, WorkersStay
<1>5. flight[k] = w /\ w # NoWorker
  BY <1>1, NoWorkerIsNone DEF FlightExact, Leading
<1>6. Calls[k] = [state |-> "open", outcome |-> Nothing]
  BY <1>1, <1>5, MappedFacts DEF CallOf
<1>7. Calls'[k] = [state |-> "asking", outcome |-> Nothing]
  BY <1>1, <1>2, <1>5 DEF Calls, CallOf, Nothing
<1>8. Calls' = [Calls EXCEPT ![k] = Calls'[k]]
  BY <1>1, <1>2, CallGoes DEF Leading
<1>9. KnownNow[k] = Nothing
  BY <1>1, MappedFacts
<1> QED
  BY <1>1, <1>3, <1>4, <1>6, <1>7, <1>8, <1>9
     DEF Lookups!Ask, Lookups!Goes, Lookups!Call, Lookups!Unknown, Nothing

\* An outcome just written to the memo is fresh, whatever the TTL.
LEMMA WrittenIsFresh ==
  ASSUME TypeOK, NEW w \in Workers, Memoize(w), Memoizable(got[w].kind)
  PROVE  KnownNow' = [KnownNow EXCEPT ![key[w]] =
                        [kind |-> got[w].kind, scan |-> got[w].scan]]
<1> USE DEF TypeOK
<1> DEFINE k == key[w]
           entry == [kind |-> got[w].kind, scan |-> got[w].scan, at |-> clock]
<1>1. memo' = [memo EXCEPT ![k] = entry] /\ clock' = clock
  BY DEF Memoize
<1>2. memo'[k] = entry /\ \A j \in Keys : j # k => memo'[j] = memo[j]
  BY <1>1
<1>3. entry # None
  <2>1. entry.at = clock /\ None.at = -1 /\ clock \in Nat
    BY DEF None
  <2> QED
    BY <2>1
<1>4. clock' - entry.at = 0
  BY <1>1
<1>5. KnownNow'[k] = [kind |-> got[w].kind, scan |-> got[w].scan]
  BY <1>2, <1>3, <1>4, NumbersAreNatural
     DEF KnownNow, Fresh, Expired, Remembered, None
<1>6. ASSUME NEW j \in Keys, j # k PROVE KnownNow'[j] = KnownNow[j]
  BY <1>1, <1>2, <1>6 DEF KnownNow, Fresh, Expired, Remembered, Nothing
<1>7. /\ KnownNow = [j \in Keys |-> KnownNow[j]]
      /\ KnownNow' = [j \in Keys |-> KnownNow'[j]]
  BY DEF KnownNow
<1>8. k \in Keys
  OBVIOUS
<1> HIDE DEF k, entry, TypeOK
<1>9. KnownNow' = [KnownNow EXCEPT ![k] =
                     [kind |-> got[w].kind, scan |-> got[w].scan]]
  BY <1>5, <1>6, <1>7, <1>8
<1> QED
  BY <1>9 DEF k

LEMMA MemoizeReplies ==
  ASSUME CacheInv, NEW w \in Workers, Memoize(w)
  PROVE  Lookups!Reply(key[w])
<1> USE DEF CacheInv, TypeOK
<1> DEFINE k == key[w]
           kind == got[w].kind
           outcome == [kind |-> kind, scan |-> scan]
<1>1. /\ pc' = [pc EXCEPT ![w] = "done"] /\ got' = got /\ key' = key
      /\ flight' = flight /\ clock' = clock
      /\ UNCHANGED <<cancelled, scan>>
      /\ pc[w] = "memo"
  BY DEF Memoize
<1>2. Wants' = Wants /\ Told' = Told
  BY <1>1, WorkersStay
<1>3. flight[k] = w /\ w # NoWorker
  BY <1>1, NoWorkerIsNone DEF FlightExact, Leading
<1>4. got[w].scan = scan /\ (kind = "cancelled" => cancelled)
  BY <1>1 DEF Brought
<1>5. kind \in {"val", "err", "timeout", "cancelled"} /\ got[w] = outcome
  BY <1>4 DEF Outcomes, Kinds
<1>6. Calls[k] = [state |-> "asking", outcome |-> Nothing]
  BY <1>1, <1>3, MappedFacts DEF CallOf
<1>7. Calls'[k] = [state |-> "over", outcome |-> outcome]
  <2>1. pc'[w] = "done" /\ got'[w] = outcome
    BY <1>1, <1>5
  <2> QED
    BY <1>1, <1>3, <2>1 DEF Calls, CallOf
<1>8. Calls' = [Calls EXCEPT ![k] = Calls'[k]]
  BY <1>1, CallGoes DEF Leading
<1>9. KnownNow' = IF kind \in {"val", "err"} THEN [KnownNow EXCEPT ![k] = outcome]
                  ELSE KnownNow
  <2>1. Memoizable(kind) <=> kind \in {"val", "err"}
    BY <1>5 DEF Memoizable
  <2>2. CASE Memoizable(kind)
    <3>1. KnownNow' = [KnownNow EXCEPT ![k] = outcome]
      BY <1>4, <2>2, WrittenIsFresh
    <3> QED
      BY <2>1, <2>2, <3>1
  <2>3. CASE ~Memoizable(kind)
    <3>1. memo' = memo
      BY <2>3 DEF Memoize
    <3> QED
      BY <1>1, <2>1, <2>3, <3>1, KnownStays
  <2> QED
    BY <2>2, <2>3
<1> HIDE DEF outcome, kind, k
<1>10. Lookups!Goes(k, "asking", Lookups!Call("over", outcome))
  BY <1>1, <1>2, <1>6, <1>7, <1>8 DEF Lookups!Goes, Lookups!Call
<1>11. Lookups!Reply(k)
  <2>1. outcome = [kind |-> kind, scan |-> scan]
    BY DEF outcome
  <2> QED
    BY <1>4, <1>5, <1>9, <1>10, <2>1 DEF Lookups!Reply
<1> QED
  BY <1>11 DEF k

\* Everyone who joined shares what the leader holds.
LEMMA FinishShares ==
  ASSUME CacheInv, NEW w \in Workers, Finish(w)
  PROVE  Lookups!Share(key[w])
<1> USE DEF CacheInv, TypeOK
<1> DEFINE k == key[w]
<1>1. /\ pc[w] = "done" /\ key' = key /\ memo' = memo /\ clock' = clock
      /\ UNCHANGED <<cancelled, scan>>
      /\ flight' = [flight EXCEPT ![k] = NoWorker]
  BY DEF Finish
<1>2. /\ pc' = [v \in Workers |-> IF v \in Answered(w) THEN "idle" ELSE pc[v]]
      /\ got' = [v \in Workers |-> IF v \in Answered(w) THEN got[w] ELSE got[v]]
  BY DEF Finish
<1>3. KnownNow' = KnownNow
  BY <1>1, KnownStays
<1>4. flight[k] = w /\ w # NoWorker
  BY <1>1, NoWorkerIsNone DEF FlightExact, Leading
<1>5. Calls[k] = [state |-> "over", outcome |-> got[w]]
  BY <1>1, <1>4, MappedFacts DEF CallOf
<1>6. \A v \in Answered(w) : v \in Workers /\ key[v] = k /\ pc[v] \in {"done", "join"}
  BY <1>1 DEF Answered, Joined
<1>7. \A v \in Workers : pc[v] \in Leading /\ v # w => v \notin Answered(w)
  BY DEF Answered, Joined, Leading
<1>8. Calls' = [Calls EXCEPT ![k] = [state |-> "none", outcome |-> Nothing]]
  <2>1. Calls'[k] = [state |-> "none", outcome |-> Nothing]
    BY <1>1 DEF Calls, CallOf, Nothing
  <2>2. ASSUME NEW j \in Keys, j # k PROVE Calls'[j] = Calls[j]
    <3>1. flight'[j] = flight[j]
      BY <1>1, <2>2
    <3>2. CASE flight[j] = NoWorker
      BY <3>1, <3>2 DEF Calls, CallOf, Nothing
    <3>3. CASE flight[j] # NoWorker
      <4>1. flight[j] \in Workers /\ flight[j] # w /\ pc[flight[j]] \in Leading
        BY <2>2, <3>3 DEF FlightExact
      <4>2. pc'[flight[j]] = pc[flight[j]] /\ got'[flight[j]] = got[flight[j]]
        BY <1>2, <1>7, <4>1
      <4> QED
        BY <3>1, <3>3, <4>2 DEF Calls, CallOf, Nothing
    <3> QED
      BY <3>2, <3>3
  <2>3. Calls = [j \in Keys |-> Calls[j]] /\ Calls' = [j \in Keys |-> Calls'[j]]
    BY DEF Calls
  <2>4. k \in Keys
    OBVIOUS
  <2> HIDE DEF k, CacheInv, TypeOK
  <2> QED
    BY <2>1, <2>2, <2>3, <2>4
<1>9. w \in Answered(w) /\ Answered(w) \in SUBSET {v \in Workers : k \in Wants[v]}
  <2>1. \A v \in Answered(w) : v \in Workers /\ Wants[v] = {k}
    BY <1>6, MappedFacts
  <2> QED
    BY <2>1 DEF Answered
<1>10. Wants' = [v \in Workers |-> IF v \in Answered(w) THEN {} ELSE Wants[v]]
  BY <1>1, <1>2 DEF Wants
<1>11. Told' = [v \in Workers |-> IF v \in Answered(w) THEN got[w] ELSE Told[v]]
  BY <1>2 DEF Told
<1>12. Calls[k].state = "over" /\ Calls[k].outcome = got[w]
  BY <1>5
<1> HIDE DEF k
<1>13. Lookups!Share(k)
  BY <1>1, <1>3, <1>8, <1>9, <1>10, <1>11, <1>12
     DEF Lookups!Share, Lookups!NoCall, Lookups!Call, Lookups!Unknown, Nothing
<1> QED
  BY <1>13 DEF k

\* Time only takes away.
LEMMA TickExpires ==
  ASSUME CacheInv, Tick PROVE Lookups!Expire
<1> USE DEF CacheInv, TypeOK
<1>1. /\ clock' = clock + 1 /\ memo' = memo
      /\ UNCHANGED <<cancelled, scan, flight, pc, key, got>>
  BY DEF Tick
<1>2. Calls' = Calls
  BY <1>1, CallsStay
<1>3. Wants' = Wants /\ Told' = Told
  BY <1>1, WorkersStay
<1>4. \A k \in Keys : KnownNow'[k] \in {KnownNow[k], Nothing}
  <2> TAKE k \in Keys
  <2>1. memo[k].at \in Int
    OBVIOUS
  <2>2. Expired(k) => Expired(k)'
    BY <1>1, <2>1, NumbersAreNatural DEF Expired
  <2> QED
    BY <1>1, <2>2 DEF KnownNow, Fresh, Remembered, Nothing, None
<1>5. KnownNow' = [k \in Keys |-> KnownNow'[k]]
  BY DEF KnownNow
<1> QED
  BY <1>1, <1>2, <1>3, <1>4, <1>5 DEF Lookups!Expire, Lookups!Unknown, Nothing

LEMMA NextScanStarts ==
  ASSUME CacheInv, NextScan PROVE Lookups!NextScan
<1> USE DEF CacheInv, TypeOK
<1>1. /\ scan' = scan + 1 /\ got' = [w \in Workers |-> Nothing]
      /\ UNCHANGED <<clock, cancelled, memo, flight, pc, key>>
      /\ \A w \in Workers : pc[w] = "idle"
  BY DEF NextScan
<1>2. KnownNow' = KnownNow
  BY <1>1, KnownStays
<1>3. Calls' = Calls
  BY <1>1, CallsStay DEF Leading
<1>4. Wants' = Wants /\ \A w \in Workers : Wants[w] = {}
  BY <1>1 DEF Wants
<1>5. Told' = [w \in Workers |-> Nothing]
  BY <1>1 DEF Told, Nothing
<1> QED
  BY <1>1, <1>2, <1>3, <1>4, <1>5 DEF Lookups!NextScan, Lookups!Unknown, Nothing

\* What no caller of the cache can see.
LEMMA RestIsUnseen ==
  ASSUME CacheInv,
         \/ \E w \in Workers : Join(w) \/ RecheckMissIndex(w) \/ FetchEnds(w)
         \/ UNCHANGED vars
  PROVE  UNCHANGED Lookups!lookupVars
<1> USE DEF CacheInv, TypeOK
<1>1. /\ UNCHANGED <<clock, memo, cancelled, scan, flight, key>>
      /\ \A w \in Workers :
           /\ pc'[w] = "idle" <=> pc[w] = "idle"
           /\ pc[w] \in {"idle", "done"} => got'[w] = got[w]
           /\ pc[w] \in Leading =>
                /\ pc'[w] \in {"recheck", "acquire"} <=> pc[w] \in {"recheck", "acquire"}
                /\ pc'[w] \in {"fetch", "memo"} <=> pc[w] \in {"fetch", "memo"}
  BY DEF Join, RecheckMissIndex, FetchEnds, vars, Leading
<1>2. KnownNow' = KnownNow
  BY <1>1, KnownStays
<1>3. Calls' = Calls
  BY <1>1, CallsStay
<1>4. Wants' = Wants /\ Told' = Told
  BY <1>1, WorkersStay
<1> QED
  BY <1>1, <1>2, <1>3, <1>4 DEF Lookups!lookupVars

\* Every step of the cache is one that its callers were promised, or one that
\* they cannot see.
LEMMA LookupStep ==
  CacheInv /\ [Next]_vars => [Lookups!LookupsNext]_Lookups!lookupVars
<1> SUFFICES ASSUME CacheInv, [Next]_vars
             PROVE  Lookups!LookupsNext \/ UNCHANGED Lookups!lookupVars
  OBVIOUS
<1>1. \A w \in Workers : key[w] \in Keys
  BY DEF CacheInv, TypeOK
<1>2. ASSUME NEW w \in Workers, NEW k \in Keys, Hit(w, k) \/ Miss(w, k)
      PROVE  Lookups!LookupsNext
  BY <1>2, HitAnswers, MissWants DEF Lookups!LookupsNext
<1>3. ASSUME NEW w \in Workers, Lead(w) \/ RecheckHit(w)
      PROVE  Lookups!LookupsNext
  BY <1>1, <1>3, LeadOpens, RecheckHitRecalls DEF Lookups!LookupsNext
<1>4. ASSUME NEW w \in Workers, RecheckMissTags(w) \/ Acquire(w) \/ Abandon(w)
      PROVE  Lookups!LookupsNext
  BY <1>1, <1>4, FetchesAsk DEF Lookups!LookupsNext
<1>5. ASSUME NEW w \in Workers, Memoize(w) \/ Finish(w)
      PROVE  Lookups!LookupsNext
  BY <1>1, <1>5, MemoizeReplies, FinishShares DEF Lookups!LookupsNext
<1>6. CASE Tick \/ NextScan
  BY <1>6, TickExpires, NextScanStarts DEF Lookups!LookupsNext
<1>7. CASE Cancel
  <2>1. /\ cancelled' = TRUE
        /\ UNCHANGED <<clock, scan, memo, flight, pc, key, got>>
    BY <1>7 DEF Cancel
  <2>2. KnownNow' = KnownNow
    BY <2>1, KnownStays
  <2>3. Calls' = Calls
    BY <2>1, CallsStay DEF CacheInv
  <2>4. Wants' = Wants /\ Told' = Told
    BY <2>1, WorkersStay
  <2> QED
    BY <2>1, <2>2, <2>3, <2>4 DEF Lookups!LookupsNext, Lookups!Cancel
<1>8. ASSUME \/ \E w \in Workers : Join(w) \/ RecheckMissIndex(w) \/ FetchEnds(w)
             \/ UNCHANGED vars
      PROVE  UNCHANGED Lookups!lookupVars
  BY <1>8, RestIsUnseen
<1> QED
  BY <1>2, <1>3, <1>4, <1>5, <1>6, <1>7, <1>8 DEF Next, Call, Quiet

\* However its workers, its semaphore and its clock interleave, the cache does
\* for its callers what SharedLookups says: one call for a key at a time, that
\* asks only for what is not known and tells all who share it the same.
THEOREM LookupsImplemented == Spec => ImplementsLookups
<1>1. Init => Lookups!LookupsInit
  <2> SUFFICES ASSUME Init PROVE Lookups!LookupsInit
    OBVIOUS
  <2>1. KnownNow = [k \in Keys |-> Nothing]
    BY DEF Init, KnownNow, Fresh
  <2>2. Calls = [k \in Keys |-> [state |-> "none", outcome |-> Nothing]]
    BY DEF Init, Calls, CallOf
  <2>3. Wants = [w \in Workers |-> {}] /\ Told = [w \in Workers |-> Nothing]
    BY DEF Init, Wants, Told
  <2> QED
    BY <2>1, <2>2, <2>3
       DEF Init, Lookups!LookupsInit, Lookups!NoCall, Lookups!Call,
           Lookups!Unknown, Nothing
<1> QED
  BY <1>1, LookupStep, CacheInvariant, PTL
     DEF Spec, ImplementsLookups, Lookups!LookupsSpec
=============================================================================
