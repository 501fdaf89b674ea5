------------------------- MODULE ScanServiceProofs -------------------------
(***************************************************************************)
(* Proofs about ScanService, for any sets of repositories, triggers, posts *)
(* and status requests and any number of ticks.                            *)
(***************************************************************************)
EXTENDS ScanService, FiniteSetTheorems, TLAPS

USE DEF mainVars, flagVars, meterVars, storeVars, callVars, scanHist

-----------------------------------------------------------------------------
(* Typing.                                                                  *)

\* What the steps write has the type of what they write to.
LEMMA ReturnType == \A g : Return(g) \in {"wait", "gone"}
BY DEF Return

LEMMA NoRunType == NoRun \in [covered : Batches, at : Nat]
BY DEF NoRun, Batches

LEMMA OutcomeType == \A c : Outcome(c) \in Messages
BY DEF Outcome, Messages

LEMMA RecordType ==
  ASSUME NEW status, CountsOK, Record(status)
  PROVE  gauge' \in [success : Nat, failure : Nat] /\ missed' \in Nat
BY DEF CountsOK, Record, Label

LEMMA SaveType ==
  ASSUME NEW results \in Batches, NEW at \in Nat, saved \in Nat,
         Save(results, at)
  PROVE  StoreOK' /\ saved' \in Nat
BY DEF Save, StoreOK

\* A goroutine's move from one place to another.
LEMMA MoveType ==
  ASSUME NEW g \in Goroutines, NEW from, CallsOK,
         NEW to \in InScan \cup {"off", "wait", "enter", "gone"},
         Move(g, from, to)
  PROVE  pc' \in [Goroutines -> InScan \cup {"off", "wait", "enter", "gone"}]
BY DEF CallsOK, Move

LEMMA RunScanType ==
  ASSUME TypeOK, NEW g \in Goroutines, RunScan(g)
  PROVE  TypeOK'
<1> USE DEF TypeOK
<1>a. /\ MainOK' /\ PostsOK' /\ StatsOK'
  BY DEF RunScan, Enter, Skip, RunFails, RunEnds, SetFailed, MeterFailure,
         SetOutcome, Stamp, SaveRun, MeterSuccess, Clear, MainOK, PostsOK,
         StatsOK
<1>b. pc' \in [Goroutines -> InScan \cup {"off", "wait", "enter", "gone"}]
  BY MoveType, ReturnType
     DEF RunScan, Enter, Skip, RunFails, RunEnds, SetFailed, MeterFailure,
         SetOutcome, Stamp, SaveRun, MeterSuccess, Clear, InScan
<1>1. CASE Enter(g)
  BY <1>a, <1>b, <1>1 DEF Enter, FlagsOK, StoreOK, CountsOK, CallsOK
<1>2. CASE Skip(g)
  BY <1>a, <1>b, <1>2 DEF Skip, FlagsOK, StoreOK, CountsOK, CallsOK
<1>3. CASE RunFails(g)
  BY <1>a, <1>b, <1>3 DEF RunFails, FlagsOK, StoreOK, CountsOK, CallsOK
<1>4. CASE RunEnds(g)
  <2>1. PICK covered \in Batch :
          run' = [run EXCEPT ![g] = [covered |-> covered, at |-> 0]]
    BY <1>4 DEF RunEnds
  <2>2. run' \in [Goroutines -> [covered : Batches, at : Nat]]
    BY <2>1 DEF CallsOK, Batch
  <2> QED
    BY <1>a, <1>b, <1>4, <2>2 DEF RunEnds, FlagsOK, StoreOK, CountsOK, CallsOK
<1>5. CASE SetFailed(g)
  BY <1>a, <1>b, <1>5
     DEF SetFailed, FlagsOK, Messages, StoreOK, CountsOK, CallsOK
<1>6. CASE MeterFailure(g)
  BY <1>a, <1>b, <1>6, RecordType
     DEF MeterFailure, FlagsOK, StoreOK, CountsOK, CallsOK
<1>7. CASE SetOutcome(g)
  BY <1>a, <1>b, <1>7, OutcomeType
     DEF SetOutcome, FlagsOK, StoreOK, CountsOK, CallsOK
<1>8. CASE Stamp(g)
  <2>1. run' \in [Goroutines -> [covered : Batches, at : Nat]]
    BY <1>8 DEF Stamp, CallsOK, CountsOK
  <2> QED
    BY <1>a, <1>b, <1>8, <2>1 DEF Stamp, FlagsOK, StoreOK, CountsOK, CallsOK
<1>9. CASE SaveRun(g)
  <2>1. run[g].covered \in Batches /\ run[g].at \in Nat
    BY DEF CallsOK
  <2>2. StoreOK' /\ saved' \in Nat
    BY <1>9, <2>1, SaveType DEF SaveRun, CountsOK
  <2> QED
    BY <1>a, <1>b, <1>9, <2>2 DEF SaveRun, FlagsOK, CountsOK, CallsOK
<1>10. CASE MeterSuccess(g)
  BY <1>a, <1>b, <1>10, RecordType
     DEF MeterSuccess, FlagsOK, StoreOK, CountsOK, CallsOK
<1>11. CASE Clear(g)
  <2>1. run' \in [Goroutines -> [covered : Batches, at : Nat]]
    BY <1>11, NoRunType DEF Clear, CallsOK
  <2>2. finished' \in Nat /\ newest' \in Nat
    BY <1>11 DEF Clear, CountsOK, CallsOK
  <2> QED
    BY <1>a, <1>b, <1>11, <2>1, <2>2
       DEF Clear, FlagsOK, StoreOK, CountsOK, CallsOK
<1> QED
  BY <1>1, <1>2, <1>3, <1>4, <1>5, <1>6, <1>7, <1>8, <1>9, <1>10, <1>11
     DEF RunScan

LEMMA HandlerType ==
  ASSUME TypeOK, NEW p \in Posts, Receive(p) \/ Handler(p)
  PROVE  TypeOK'
<1> USE DEF TypeOK
<1>a. MainOK' /\ FlagsOK' /\ CallsOK' /\ StatsOK'
  BY DEF Receive, Handler, MeterPost, SavePost, MainOK, FlagsOK, CallsOK,
         StatsOK
<1>1. CASE Receive(p)
  <2>1. PICK body \in Payloads, at \in 1..(clock + 1) :
          /\ post' = [post EXCEPT ![p] =
                       [pc |-> "meter", results |-> body.results,
                        at |-> at, status |-> body.status]]
          /\ clock' = IF at > clock THEN at ELSE clock
    BY <1>1 DEF Receive
  <2>2. body.results \in Batches /\ body.status \in {"", "success", "failure"}
    BY DEF Payloads, Batch, Batches
  <2>3. at \in Nat /\ clock' \in Nat
    BY <2>1 DEF CountsOK
  <2>4. PostsOK'
    BY <2>1, <2>2, <2>3 DEF PostsOK
  <2> QED
    BY <1>1, <1>a, <2>3, <2>4 DEF Receive, StoreOK, CountsOK
<1>2. CASE MeterPost(p)
  <2>1. PICK to \in {"done", "save"} : post' = [post EXCEPT ![p].pc = to]
    BY <1>2 DEF MeterPost
  <2>2. PostsOK'
    BY <2>1 DEF PostsOK
  <2> QED
    BY <1>2, <1>a, <2>2, RecordType DEF MeterPost, StoreOK, CountsOK
<1>3. CASE SavePost(p)
  <2>1. post[p].results \in Batches /\ post[p].at \in Nat
    BY DEF PostsOK
  <2>2. StoreOK' /\ saved' \in Nat
    BY <1>3, <2>1, SaveType DEF SavePost, CountsOK
  <2>3. PostsOK'
    BY <1>3 DEF SavePost, PostsOK
  <2> QED
    BY <1>3, <1>a, <2>2, <2>3 DEF SavePost, CountsOK
<1> QED
  BY <1>1, <1>2, <1>3 DEF Handler

LEMMA StatusType ==
  ASSUME TypeOK, NEW r \in Readers, ReadFlags(r) \/ Load(r)
  PROVE  TypeOK'
<1> USE DEF TypeOK
<1>a. /\ MainOK' /\ FlagsOK' /\ StoreOK' /\ CountsOK' /\ CallsOK' /\ PostsOK'
  BY DEF ReadFlags, Load, MainOK, FlagsOK, StoreOK, CountsOK, CallsOK, PostsOK
<1>1. CASE ReadFlags(r)
  BY <1>1, <1>a
     DEF ReadFlags, NoStat, StatsOK, FlagsOK, CountsOK, Batches
<1>2. CASE Load(r)
  <2>1. PICK results \in Batches, at \in Nat :
          stat' = [stat EXCEPT ![r].pc = "done", ![r].results = results,
                               ![r].at = at]
    BY <1>2 DEF Load, StoreOK
  <2>2. [stat[r] EXCEPT !.pc = "done", !.results = results, !.at = at]
          \in [pc : {"off", "load", "done"}, scanning : BOOLEAN,
               lastErr : Messages, results : Batches, at : Nat, floor : Nat]
    BY DEF StatsOK
  <2>3. stat' = [stat EXCEPT ![r] =
                  [stat[r] EXCEPT !.pc = "done", !.results = results, !.at = at]]
    BY <2>1 DEF StatsOK
  <2>4. StatsOK'
    BY <2>2, <2>3 DEF StatsOK
  <2> QED
    BY <1>a, <2>4
<1> QED
  BY <1>1, <1>2

LEMMA TypeInit == Init => TypeOK
<1> SUFFICES ASSUME Init PROVE TypeOK
  OBVIOUS
<1>1. MainOK /\ FlagsOK /\ StoreOK /\ CountsOK
  BY DEF Init, MainOK, FlagsOK, StoreOK, CountsOK, Messages, Batches
<1>2. CallsOK
  BY NoRunType DEF Init, CallsOK
<1>3. PostsOK /\ StatsOK
  BY DEF Init, PostsOK, StatsOK, NoPost, NoStat, Batches, Messages
<1> QED
  BY <1>1, <1>2, <1>3 DEF TypeOK

LEMMA TypeStep == ASSUME TypeOK, [Next]_vars PROVE TypeOK'
<1> USE DEF TypeOK
<1> DEFINE Places == InScan \cup {"off", "wait", "enter", "gone"}
<1>0. Sched \in Goroutines /\ Triggers \subseteq Goroutines
  BY DEF Goroutines
<1>1. CASE StartScheduler
  BY <1>1, <1>0 DEF StartScheduler, MainOK, FlagsOK, StoreOK, CountsOK,
                    CallsOK, PostsOK, StatsOK
<1>2. CASE WireMeter \/ Interrupt \/ ShutDown \/ Exit
  BY <1>2, FlagsAreBoolean
     DEF WireMeter, Interrupt, ShutDown, Exit, MainOK, FlagsOK, StoreOK,
         CountsOK, CallsOK, PostsOK, StatsOK
<1>3. CASE \E g \in Goroutines : RunScan(g)
  BY <1>3, RunScanType
<1>4. CASE Tick \/ Stop
  <2>1. \E to \in Places : Move(Sched, "wait", to)
    BY <1>4 DEF Tick, Stop
  <2>2. pc' \in [Goroutines -> Places]
    BY <2>1, <1>0, MoveType
  <2>3. CallsOK' /\ CountsOK'
    BY <1>4, <2>2 DEF Tick, Stop, CallsOK, CountsOK
  <2>4. MainOK' /\ FlagsOK' /\ StoreOK' /\ PostsOK' /\ StatsOK'
    BY <1>4 DEF Tick, Stop, MainOK, FlagsOK, StoreOK, PostsOK, StatsOK
  <2> QED
    BY <2>3, <2>4
<1>5. ASSUME NEW t \in Triggers, Accept(t)
      PROVE  TypeOK'
  <2>1. pc' \in [Goroutines -> Places]
    BY <1>5, <1>0, MoveType DEF Accept
  <2> QED
    BY <1>5, <2>1 DEF Accept, MainOK, FlagsOK, StoreOK, CountsOK, CallsOK,
                      PostsOK, StatsOK
<1>6. CASE \E p \in Posts : Receive(p) \/ Handler(p)
  BY <1>6, HandlerType
<1>7. CASE \E r \in Readers : ReadFlags(r) \/ Load(r)
  BY <1>7, StatusType
<1>8. CASE UNCHANGED vars
  BY <1>8 DEF vars, MainOK, FlagsOK, StoreOK, CountsOK, CallsOK, PostsOK,
              StatsOK
<1> QED
  BY <1>1, <1>2, <1>3, <1>4, <1>5, <1>6, <1>7, <1>8
     DEF Next, Startup, Exited

\* The variables keep their types: in particular the store's and the posted
\* batches are sets of configured repositories and every stamp is a time.
THEOREM TypeCorrect == Spec => []TypeOK
BY TypeInit, TypeStep, PTL DEF Spec

-----------------------------------------------------------------------------
(* The inductive invariant.                                                 *)

\* The holders of the flag after each kind of move.
LEMMA HolderMoves ==
  ASSUME CallsOK, NEW g \in Goroutines, NEW from, NEW to, Move(g, from, to)
  PROVE  /\ from \in InScan /\ to \in InScan => Holders' = Holders
         /\ from \notin InScan /\ to \notin InScan => Holders' = Holders
         /\ from \notin InScan /\ to \in InScan => Holders' = Holders \cup {g}
         /\ from \in InScan /\ to \notin InScan => Holders' = Holders \ {g}
BY DEF CallsOK, Move, Holders

LEMMA HoldersStay == pc' = pc => Holders' = Holders
BY DEF Holders

\* RunScan keeps the flag exact: Enter is the only way in, and only when
\* nobody is in; Clear is the only way out, and clears the flag.
LEMMA RunScanExact ==
  ASSUME TypeOK, ScanningFlagExact, NEW g \in Goroutines, RunScan(g)
  PROVE  ScanningFlagExact'
<1> USE DEF TypeOK, ScanningFlagExact
<1>1. CASE Enter(g)
  <2>1. Holders' = Holders \cup {g}
    BY <1>1, HolderMoves DEF Enter, InScan
  <2>2. Holders = {}
    BY <1>1 DEF Enter, MayStart
  <2> QED
    BY <1>1, <2>1, <2>2 DEF Enter
<1>2. CASE Skip(g)
  <2>1. Holders' = Holders
    BY <1>2, HolderMoves, ReturnType DEF Skip, InScan
  <2> QED
    BY <1>2, <2>1 DEF Skip
<1>3. CASE Clear(g)
  <2>1. Holders' = Holders \ {g}
    BY <1>3, HolderMoves, ReturnType DEF Clear, InScan
  <2>2. g \in Holders
    BY <1>3 DEF Clear, Move, Holders, InScan
  <2> QED
    BY <1>3, <2>1, <2>2 DEF Clear
<1>4. CASE \/ RunFails(g) \/ RunEnds(g) \/ SetFailed(g) \/ MeterFailure(g)
           \/ SetOutcome(g) \/ Stamp(g) \/ SaveRun(g) \/ MeterSuccess(g)
  <2>1. Holders' = Holders
    BY <1>4, HolderMoves
       DEF RunFails, RunEnds, SetFailed, MeterFailure, SetOutcome, Stamp,
           SaveRun, MeterSuccess, InScan
  <2>2. scanning' = scanning
    BY <1>4 DEF RunFails, RunEnds, SetFailed, MeterFailure, SetOutcome, Stamp,
                SaveRun, MeterSuccess
  <2> QED
    BY <2>1, <2>2
<1> QED
  BY <1>1, <1>2, <1>3, <1>4 DEF RunScan

\* RunScan takes a batch from Runner.Run to Save and drops it at the end.
LEMMA RunScanOrder ==
  ASSUME TypeOK, RunsInOrder, NEW g \in Goroutines, RunScan(g)
  PROVE  RunsInOrder'
<1> USE DEF TypeOK, CallsOK, RunsInOrder, Move
<1>1. CASE Enter(g) \/ Skip(g) \/ RunFails(g) \/ SetFailed(g)
  BY <1>1, ReturnType DEF Enter, Skip, RunFails, SetFailed
<1>2. CASE RunEnds(g)
  <2>1. PICK covered \in Batch :
          run' = [run EXCEPT ![g] = [covered |-> covered, at |-> 0]]
    BY <1>2 DEF RunEnds
  <2> QED
    BY <1>2, <2>1 DEF RunEnds
<1>3. CASE MeterFailure(g) \/ SetOutcome(g)
  BY <1>3 DEF MeterFailure, SetOutcome
<1>4. CASE Stamp(g)
  BY <1>4 DEF Stamp, CountsOK
<1>5. CASE SaveRun(g) \/ MeterSuccess(g)
  BY <1>5 DEF SaveRun, MeterSuccess
<1>6. CASE Clear(g)
  BY <1>6, ReturnType DEF Clear, NoRun
<1> QED
  BY <1>1, <1>2, <1>3, <1>4, <1>5, <1>6 DEF RunScan

\* A request carries results to Save unless it reports a failure.
LEMMA HandlerOrder ==
  ASSUME TypeOK, PostsInOrder, NEW p \in Posts, Receive(p) \/ Handler(p)
  PROVE  PostsInOrder'
<1> USE DEF TypeOK, PostsOK, PostsInOrder, Keeps, Status
<1>1. CASE Receive(p)
  <2>1. PICK body \in Payloads, at \in 1..(clock + 1) :
          post' = [post EXCEPT ![p] =
                    [pc |-> "meter", results |-> body.results,
                     at |-> at, status |-> body.status]]
    BY <1>1 DEF Receive
  <2>2. body.status = "failure" \/ body.results \in Batch
    BY DEF Payloads
  <2> QED
    BY <2>1, <2>2
<1>2. CASE MeterPost(p)
  BY <1>2 DEF MeterPost
<1>3. CASE SavePost(p)
  BY <1>3 DEF SavePost
<1> QED
  BY <1>1, <1>2, <1>3 DEF Handler

\* ServiceInv is inductive.
THEOREM ServiceInvariant == Spec => []ServiceInv
<1>1. Init => ServiceInv
  <2> SUFFICES ASSUME Init PROVE ServiceInv
    OBVIOUS
  <2>1. TypeOK
    BY TypeInit
  <2>2. Holders = {}
    BY DEF Init, Holders, InScan
  <2>3. ScanningFlagExact
    BY <2>2 DEF Init, ScanningFlagExact
  <2>4. NothingBeforeStart /\ RunsInOrder /\ PostsInOrder
    BY DEF Init, NothingBeforeStart, RunsInOrder, PostsInOrder, NoRun, NoPost
  <2> QED
    BY <2>1, <2>3, <2>4 DEF ServiceInv
<1>2. ASSUME ServiceInv, [Next]_vars
      PROVE  ServiceInv'
  <2> USE <1>2 DEF ServiceInv
  <2>0. TypeOK'
    BY TypeStep
  <2>1. ScanningFlagExact'
    <3>1. CASE \E g \in Goroutines : RunScan(g)
      BY <3>1, RunScanExact
    <3>2. CASE StartScheduler \/ Tick \/ Stop \/ \E t \in Triggers : Accept(t)
      <4>1. Holders' = Holders
        BY <3>2 DEF StartScheduler, Tick, Stop, Accept, Move, TypeOK, CallsOK,
                    Holders, InScan, Goroutines, NothingBeforeStart
      <4>2. scanning' = scanning
        BY <3>2 DEF StartScheduler, Tick, Stop, Accept
      <4> QED
        BY <4>1, <4>2 DEF ScanningFlagExact
    <3>3. CASE UNCHANGED <<pc, scanning>>
      BY <3>3, HoldersStay DEF ScanningFlagExact
    <3> QED
      BY <3>1, <3>2, <3>3
         DEF Next, Startup, WireMeter, Interrupt, ShutDown, Exit, Exited, vars,
             Receive, Handler, MeterPost, SavePost, ReadFlags, Load
  <2>2. RunsInOrder'
    <3>1. CASE \E g \in Goroutines : RunScan(g)
      BY <3>1, RunScanOrder
    <3>2. CASE StartScheduler \/ Tick \/ Stop \/ \E t \in Triggers : Accept(t)
      <4>1. run' = run
        BY <3>2 DEF StartScheduler, Tick, Stop, Accept
      <4>2. \A g \in Goroutines :
              pc'[g] = pc[g] \/ (pc'[g] \in {"wait", "enter", "gone"}
                                 /\ pc[g] \in {"off", "wait"})
        BY <3>2 DEF StartScheduler, Tick, Stop, Accept, Move, TypeOK, CallsOK,
                    NothingBeforeStart
      <4> QED
        BY <4>1, <4>2 DEF RunsInOrder
    <3>3. CASE UNCHANGED <<pc, run>>
      BY <3>3 DEF RunsInOrder
    <3> QED
      BY <3>1, <3>2, <3>3
         DEF Next, Startup, WireMeter, Interrupt, ShutDown, Exit, Exited, vars,
             Receive, Handler, MeterPost, SavePost, ReadFlags, Load
  <2>3. PostsInOrder'
    <3>1. CASE \E p \in Posts : Receive(p) \/ Handler(p)
      BY <3>1, HandlerOrder
    <3>2. CASE UNCHANGED post
      BY <3>2 DEF PostsInOrder, Keeps, Status
    <3> QED
      BY <3>1, <3>2
         DEF Next, Startup, StartScheduler, WireMeter, Interrupt, ShutDown,
             Exit, Exited, vars, RunScan, Enter, Skip, RunFails, RunEnds,
             SetFailed, MeterFailure, SetOutcome, Stamp, SaveRun, MeterSuccess,
             Clear, Tick, Stop, Accept, ReadFlags, Load
  <2>4. NothingBeforeStart'
    <3>1. main' = "wired" => UNCHANGED pc
      BY DEF NothingBeforeStart, Next, Startup, StartScheduler, WireMeter,
             Interrupt, ShutDown, Exit, Exited, vars, RunScan, Enter, Skip,
             RunFails, RunEnds, SetFailed, MeterFailure, SetOutcome, Stamp,
             SaveRun, MeterSuccess, Clear, Tick, Stop, Accept, Serving,
             Receive, Handler, MeterPost, SavePost, ReadFlags, Load, Move,
             Goroutines
    <3>2. main' = "wired" => main = "wired"
      BY DEF Next, Startup, StartScheduler, WireMeter, Interrupt, ShutDown,
             Exit, Exited, vars, RunScan, Enter, Skip, RunFails, RunEnds,
             SetFailed, MeterFailure, SetOutcome, Stamp, SaveRun, MeterSuccess,
             Clear, Tick, Stop, Accept, Receive, Handler, MeterPost, SavePost,
             ReadFlags, Load
    <3> QED
      BY <3>1, <3>2 DEF NothingBeforeStart
  <2> QED
    BY <2>0, <2>1, <2>2, <2>3, <2>4
<1> QED
  BY <1>1, <1>2, PTL DEF Spec

\* At most one scan runs in the process, and the flag says so exactly.
THEOREM OneScanAtATime == Spec => []ScanningFlagExact
<1>1. ServiceInv => ScanningFlagExact
  BY DEF ServiceInv
<1> QED
  BY <1>1, ServiceInvariant, PTL

-----------------------------------------------------------------------------
(* What happens to the store.                                               *)

\* Only the two calls of Save write the store.
LEMMA StoreWriters ==
  ASSUME [Next]_vars
  PROVE  \/ UNCHANGED store
         \/ \E g \in Goroutines : SaveRun(g)
         \/ \E p \in Posts : SavePost(p)
BY DEF Next, Startup, StartScheduler, WireMeter, Interrupt, ShutDown, Exit,
       Exited, vars, RunScan, Enter, Skip, RunFails, RunEnds, SetFailed,
       MeterFailure, SetOutcome, Stamp, MeterSuccess, Clear, Tick, Stop,
       Accept, Receive, Handler, MeterPost, ReadFlags, Load

\* What they write is a batch.
LEMMA SavesAreBatches ==
  ASSUME ServiceInv, [Next]_vars, store' # store
  PROVE  store' \in [results : Batch, scannedAt : Nat]
<1> USE DEF ServiceInv, TypeOK, Save
<1>1. CASE \E g \in Goroutines : SaveRun(g)
  <2>1. PICK g \in Goroutines : SaveRun(g)
    BY <1>1
  <2>2. run[g].covered \in Batch /\ run[g].at \in Nat
    BY <2>1 DEF SaveRun, Move, RunsInOrder, CallsOK
  <2> QED
    BY <2>1, <2>2 DEF SaveRun
<1>2. CASE \E p \in Posts : SavePost(p)
  <2>1. PICK p \in Posts : SavePost(p)
    BY <1>2
  <2>2. post[p].results \in Batch /\ post[p].at \in Nat
    BY <2>1 DEF SavePost, PostsInOrder, PostsOK
  <2> QED
    BY <2>1, <2>2 DEF SavePost
<1> QED
  BY <1>1, <1>2, StoreWriters

\* No scan and no scanner Job, failed or cancelled at whatever point, replaces
\* stored results by nothing.
THEOREM NeverWiped == Spec => ResultsNeverWiped
<1>1. ServiceInv /\ [Next]_vars
        => [store.results # {} => store'.results # {}]_store
  BY SavesAreBatches DEF Batch
<1> QED
  BY <1>1, ServiceInvariant, PTL DEF Spec, ResultsNeverWiped

-----------------------------------------------------------------------------
(* The service implements the board.                                        *)

\* The phase seen from the goroutine that holds the flag, before and after a
\* step.
LEMMA HolderPhase ==
  ASSUME ServiceInv, NEW g \in Holders
  PROVE  Phase = IF Publishing(g) THEN "settled" ELSE "scanning"
BY DEF ServiceInv, ScanningFlagExact, Phase, Publishing, Holders, InScan

LEMMA HolderPhasePrime ==
  ASSUME ServiceInv', NEW g \in Holders'
  PROVE  Phase' = IF Publishing(g)' THEN "settled" ELSE "scanning"
BY DEF ServiceInv, ScanningFlagExact, Phase, Publishing, Holders, InScan

LEMMA IdlePhase == ~scanning => Phase = "idle"
BY DEF Phase

LEMMA IdlePhasePrime == ~scanning' => Phase' = "idle"
BY DEF Phase

\* A step that leaves the flag and the goroutines alone leaves the phase.
LEMMA PhaseStays ==
  ASSUME UNCHANGED <<pc, run, scanning>>
  PROVE  UNCHANGED Phase
BY DEF Phase, Publishing

LEMMA RunScanOnBoard ==
  ASSUME ServiceInv, ServiceInv', NEW g \in Goroutines, RunScan(g)
  PROVE  [Board!BoardNext]_<<Phase, store>>
<1> USE DEF Board!BoardNext
<1>0. CallsOK /\ RunsInOrder /\ RunsInOrder'
  BY DEF ServiceInv, TypeOK
<1>1. CASE Enter(g)
  <2>1. g \in Holders' /\ ~Publishing(g)'
    BY <1>1, <1>0 DEF Enter, Move, CallsOK, Holders, InScan, Publishing
  <2>2. Phase = "idle" /\ Phase' = "scanning"
    BY <1>1, <2>1, IdlePhase, HolderPhasePrime DEF Enter, MayStart
  <2> QED
    BY <1>1, <2>2 DEF Enter, Board!Begin
<1>2. CASE Skip(g)
  <2>1. \A h \in Goroutines : Publishing(h)' <=> Publishing(h)
    BY <1>2, <1>0, ReturnType DEF Skip, Move, CallsOK, Publishing
  <2>2. UNCHANGED <<Phase, store>>
    BY <1>2, <2>1 DEF Skip, Phase
  <2> QED
    BY <2>2
<1>3. CASE \/ RunFails(g) \/ RunEnds(g) \/ SetFailed(g) \/ MeterFailure(g)
           \/ SetOutcome(g) \/ Stamp(g)
  <2>1. g \in Holders /\ g \in Holders'
    BY <1>3, <1>0
       DEF RunFails, RunEnds, SetFailed, MeterFailure, SetOutcome, Stamp, Move,
           CallsOK, Holders, InScan
  <2>2. ~Publishing(g) /\ ~Publishing(g)'
    BY <1>3, <1>0
       DEF RunFails, RunEnds, SetFailed, MeterFailure, SetOutcome, Stamp, Move,
           CallsOK, RunsInOrder, Publishing
  <2>3. UNCHANGED Phase
    BY <2>1, <2>2, HolderPhase, HolderPhasePrime
  <2> QED
    BY <1>3, <2>3 DEF RunFails, RunEnds, SetFailed, MeterFailure, SetOutcome,
                      Stamp
<1>4. CASE SaveRun(g)
  <2>1. g \in Holders /\ g \in Holders'
    BY <1>4, <1>0 DEF SaveRun, Move, CallsOK, Holders, InScan
  <2>2. ~Publishing(g) /\ Publishing(g)'
    BY <1>4, <1>0 DEF SaveRun, Move, CallsOK, Publishing
  <2>3. store' \in [results : Batch, scannedAt : Nat]
    BY <1>4, <1>0 DEF SaveRun, Save, Move, CallsOK, RunsInOrder
  <2> QED
    BY <2>1, <2>2, <2>3, HolderPhase, HolderPhasePrime
       DEF Board!Publish, Board!Write, Board!Batch, Batch, Batches
<1>5. CASE MeterSuccess(g)
  <2>1. g \in Holders /\ g \in Holders'
    BY <1>5, <1>0 DEF MeterSuccess, Move, CallsOK, Holders, InScan
  <2>2. Publishing(g) /\ Publishing(g)'
    BY <1>5, <1>0 DEF MeterSuccess, Move, CallsOK, RunsInOrder, Publishing
  <2> QED
    BY <1>5, <2>1, <2>2, HolderPhase, HolderPhasePrime DEF MeterSuccess
<1>6. CASE Clear(g)
  <2>1. g \in Holders
    BY <1>6 DEF Clear, Move, Holders, InScan
  <2>2. Phase \in {"settled", "scanning"} /\ Phase' = "idle"
    BY <1>6, <2>1, HolderPhase, IdlePhasePrime DEF Clear
  <2> QED
    BY <1>6, <2>2 DEF Clear, Board!GiveUp, Board!Finish
<1> QED
  BY <1>1, <1>2, <1>3, <1>4, <1>5, <1>6 DEF RunScan

\* Readers of the service see the board: scans one at a time, each publishing
\* once and something or giving up without a trace, and deposits.
THEOREM BoardImplemented == Spec => ImplementsBoard
<1>1. Init => Board!BoardInit
  BY DEF Init, Board!BoardInit, Phase
<1>2. ASSUME ServiceInv, ServiceInv', [Next]_vars
      PROVE  [Board!BoardNext]_<<Phase, store>>
  <2> USE <1>2
  <2>1. CASE \E g \in Goroutines : RunScan(g)
    BY <2>1, RunScanOnBoard
  <2>2. CASE StartScheduler \/ Tick \/ Stop \/ \E t \in Triggers : Accept(t)
    <3>1. UNCHANGED <<run, scanning, store>>
      BY <2>2 DEF StartScheduler, Tick, Stop, Accept
    <3>2. \A h \in Goroutines : Publishing(h)' <=> Publishing(h)
      BY <2>2, <3>1
         DEF StartScheduler, Tick, Stop, Accept, Move, ServiceInv, TypeOK,
             CallsOK, NothingBeforeStart, Publishing
    <3> QED
      BY <3>1, <3>2 DEF Phase
  <2>3. CASE \E p \in Posts : SavePost(p)
    <3>1. UNCHANGED Phase
      BY <2>3, PhaseStays DEF SavePost
    <3>2. store' = store \/ store' \in [results : Batch, scannedAt : Nat]
      BY SavesAreBatches
    <3> QED
      BY <3>1, <3>2 DEF Board!BoardNext, Board!Deposit, Board!Write,
                        Board!Batch, Batch, Batches
  <2>4. CASE UNCHANGED <<pc, run, scanning, store>>
    BY <2>4, PhaseStays
  <2> QED
    BY <2>1, <2>2, <2>3, <2>4
       DEF Next, Startup, WireMeter, Interrupt, ShutDown, Exit, Exited, vars,
           Receive, Handler, MeterPost, ReadFlags, Load
<1>3. Spec => [][Board!BoardNext]_<<Phase, store>>
  BY <1>2, ServiceInvariant, PTL DEF Spec
<1> QED
  BY <1>1, <1>3, PTL DEF Spec, ImplementsBoard, Board!BoardSpec, Board!boardVars

-----------------------------------------------------------------------------
(* A service that receives no results from outside.                         *)

LEMMA InProcessRunScan ==
  ASSUME ServiceInv, InProcessInv, NEW g \in Goroutines, RunScan(g)
  PROVE  InProcessInv'
<1> USE DEF InProcessInv, Saving
<1>0. /\ CallsOK /\ CountsOK /\ RunsInOrder /\ ScanningFlagExact
      /\ store.scannedAt \in Nat
  BY DEF ServiceInv, TypeOK, StoreOK
<1>1. CASE Enter(g) \/ Skip(g) \/ RunFails(g)
  BY <1>0, <1>1, ReturnType DEF Enter, Skip, RunFails, Move, CallsOK
<1>2. CASE RunEnds(g)
  BY <1>0, <1>2 DEF RunEnds, Move, CallsOK
<1>3. CASE SetFailed(g)
  <2>1. \A h \in Goroutines : h # g => h \notin Holders
    BY <1>0, <1>3 DEF SetFailed, Move, ScanningFlagExact, Holders, InScan
  <2> QED
    BY <1>0, <1>3, <2>1 DEF SetFailed, Move, CallsOK, Holders, InScan
<1>4. CASE MeterFailure(g) \/ MeterSuccess(g)
  BY <1>0, <1>4 DEF MeterFailure, MeterSuccess, Move, CallsOK
<1>5. CASE SetOutcome(g)
  <2>1. \A h \in Goroutines : h # g => h \notin Holders
    BY <1>0, <1>5 DEF SetOutcome, Move, ScanningFlagExact, Holders, InScan
  <2> QED
    BY <1>0, <1>5, <2>1 DEF SetOutcome, Move, CallsOK, Holders, InScan
<1>6. CASE Stamp(g)
  BY <1>0, <1>6 DEF Stamp, Move, CallsOK, CountsOK
<1>7. CASE SaveRun(g)
  <2>1. \A h \in Goroutines : h # g => h \notin Holders
    BY <1>0, <1>7 DEF SaveRun, Move, ScanningFlagExact, Holders, InScan
  <2> QED
    BY <1>0, <1>7, <2>1
       DEF SaveRun, Save, Outcome, Move, CallsOK, Holders, InScan
<1>8. CASE Clear(g)
  BY <1>0, <1>8, ReturnType DEF Clear, Move, CallsOK
<1> QED
  BY <1>1, <1>2, <1>3, <1>4, <1>5, <1>6, <1>7, <1>8 DEF RunScan

\* Without requests from outside, InProcessInv holds of every state.
LEMMA InProcess ==
  ASSUME Posts = {}
  PROVE  Spec => []InProcessInv
<1>1. Init => InProcessInv
  BY DEF Init, InProcessInv, Saving
<1>2. ASSUME ServiceInv, InProcessInv, [Next]_vars
      PROVE  InProcessInv'
  <2>1. CASE \E g \in Goroutines : RunScan(g)
    BY <1>2, <2>1, InProcessRunScan
  <2>2. CASE StartScheduler \/ Tick \/ Stop \/ \E t \in Triggers : Accept(t)
    <3>1. UNCHANGED <<run, lastErr, store, clock>>
      BY <2>2 DEF StartScheduler, Tick, Stop, Accept
    <3>2. \A g \in Goroutines :
            pc'[g] = pc[g] \/ {pc'[g], pc[g]} \cap {"stamp", "save"} = {}
      BY <1>2, <2>2
         DEF StartScheduler, Tick, Stop, Accept, Move, ServiceInv, TypeOK,
             CallsOK, NothingBeforeStart
    <3>3. Saving' = Saving
      BY <3>2 DEF Saving
    <3> QED
      BY <1>2, <3>1, <3>2, <3>3 DEF InProcessInv
  <2>3. CASE UNCHANGED <<pc, run, lastErr, store, clock>>
    BY <1>2, <2>3 DEF InProcessInv, Saving
  <2> QED
    BY <1>2, <2>1, <2>2, <2>3
       DEF Next, Startup, WireMeter, Interrupt, ShutDown, Exit, Exited, vars,
           ReadFlags, Load
<1> QED
  BY <1>1, <1>2, ServiceInvariant, PTL DEF Spec

\* Between the scans of a service that gets no results from outside, an empty
\* lastErr means that the stored results account for every repository.
THEOREM BannerIsTruthful ==
  ASSUME Posts = {}
  PROVE  Spec => []PartialNeverLooksClean
<1>1. ServiceInv /\ InProcessInv => PartialNeverLooksClean
  BY DEF ServiceInv, ScanningFlagExact, InProcessInv, PartialNeverLooksClean,
         Saving, Holders, InScan
<1> QED
  BY <1>1, InProcess, ServiceInvariant, PTL

\* ... and the stored results are never replaced by older ones.  (Requests
\* from outside can do that: StoreResults compares no times.)
THEOREM NeverOlder ==
  ASSUME Posts = {}
  PROVE  Spec => LatestResultsKept
<1>1. ServiceInv /\ InProcessInv /\ [Next]_vars
        => [store'.scannedAt >= store.scannedAt]_store
  <2> SUFFICES ASSUME ServiceInv, InProcessInv, [Next]_vars, store' # store
               PROVE  store'.scannedAt >= store.scannedAt
    OBVIOUS
  <2>1. PICK g \in Goroutines : SaveRun(g)
    BY StoreWriters
  <2>2. run[g].at > store.scannedAt /\ store'.scannedAt = run[g].at
    BY <2>1 DEF SaveRun, Save, Move, InProcessInv
  <2>3. run[g].at \in Nat /\ store.scannedAt \in Nat
    BY DEF ServiceInv, TypeOK, CallsOK, StoreOK
  <2> QED
    BY <2>2, <2>3
<1> QED
  BY <1>1, InProcess, ServiceInvariant, PTL DEF Spec, LatestResultsKept

\* A scan puts its stamp in the store before it counts as finished.
LEMMA StatusRunScan ==
  ASSUME ServiceInv, InProcessInv, StatusInv, NEW g \in Goroutines, RunScan(g)
  PROVE  StatusInv'
<1> USE DEF StatusInv
<1>0. /\ CallsOK /\ CountsOK /\ RunsInOrder /\ StatsOK
      /\ store.scannedAt \in Nat
  BY DEF ServiceInv, TypeOK, StoreOK
<1>1. CASE Enter(g) \/ Skip(g) \/ RunFails(g) \/ SetFailed(g) \/ SetOutcome(g)
  BY <1>0, <1>1, ReturnType
     DEF Enter, Skip, RunFails, SetFailed, SetOutcome, Move, CallsOK
<1>2. CASE RunEnds(g)
  BY <1>0, <1>2 DEF RunEnds, Move, CallsOK
<1>3. CASE MeterFailure(g)
  BY <1>0, <1>3 DEF MeterFailure, Move, CallsOK, RunsInOrder
<1>4. CASE MeterSuccess(g)
  BY <1>0, <1>4 DEF MeterSuccess, Move, CallsOK
<1>5. CASE Stamp(g)
  BY <1>0, <1>5 DEF Stamp, Move, CallsOK
<1>6. CASE SaveRun(g)
  <2>1. store'.scannedAt = run[g].at /\ run[g].at > store.scannedAt
    BY <1>6 DEF SaveRun, Save, Move, InProcessInv
  <2>2. run[g].at \in Nat /\ newest \in Nat
    BY <1>0 DEF CallsOK, CountsOK
  <2>3. \A n \in Nat : n <= store.scannedAt => n <= store'.scannedAt
    BY <1>0, <2>1, <2>2
  <2>4. /\ \A h \in Goroutines : run[h].at \in Nat
        /\ \A r \in Readers : stat[r].floor \in Nat
    BY <1>0 DEF CallsOK, StatsOK
  <2>5. \A h \in Goroutines :
          pc'[h] \in {"meter", "clear"} => run'[h].at <= store'.scannedAt
    BY <1>0, <1>6, <2>1, <2>2, <2>3, <2>4 DEF SaveRun, Move, CallsOK
  <2> QED
    BY <1>6, <2>2, <2>3, <2>4, <2>5 DEF SaveRun
<1>7. CASE Clear(g)
  <2>1. newest' <= store'.scannedAt
    BY <1>0, <1>7 DEF Clear, Move
  <2> QED
    BY <1>0, <1>7, <2>1, ReturnType DEF Clear, Move, CallsOK
<1> QED
  BY <1>1, <1>2, <1>3, <1>4, <1>5, <1>6, <1>7 DEF RunScan

\* The flags are read before the results: what had finished when they were read
\* is in the store already, and the store only moves forward.
LEMMA StatusReader ==
  ASSUME ServiceInv, StatusInv, NEW r \in Readers, ReadFlags(r) \/ Load(r)
  PROVE  StatusInv'
<1> USE DEF StatusInv
<1>0. StatsOK /\ UNCHANGED <<newest, store, pc, run>>
  BY DEF ServiceInv, TypeOK, ReadFlags, Load
<1>1. CASE ReadFlags(r)
  <2>1. stat' = [stat EXCEPT ![r] = stat'[r]] /\ stat'[r].floor = newest
        /\ stat'[r].pc = "load"
    BY <1>0, <1>1 DEF ReadFlags, NoStat, StatsOK
  <2> QED
    BY <1>0, <2>1 DEF StatsOK
<1>2. CASE Load(r)
  BY <1>0, <1>2 DEF Load, StatsOK
<1> QED
  BY <1>1, <1>2

\* An answer that a status request got shows at least what had finished when
\* the request read the flags, in a service that gets no results from outside.
THEOREM IdleIsCurrent ==
  ASSUME Posts = {}
  PROVE  Spec => []IdleStatusIsCurrent
<1>1. Init => StatusInv
  BY DEF Init, StatusInv, NoStat
<1>2. ASSUME ServiceInv, InProcessInv, StatusInv, [Next]_vars
      PROVE  StatusInv'
  <2>1. CASE \E g \in Goroutines : RunScan(g)
    BY <1>2, <2>1, StatusRunScan
  <2>2. CASE \E r \in Readers : ReadFlags(r) \/ Load(r)
    BY <1>2, <2>2, StatusReader
  <2>3. CASE StartScheduler \/ Tick \/ Stop \/ \E t \in Triggers : Accept(t)
    <3>1. UNCHANGED <<run, store, stat, newest>>
      BY <2>3 DEF StartScheduler, Tick, Stop, Accept
    <3>2. \A g \in Goroutines :
            pc'[g] = pc[g] \/ pc'[g] \notin {"meter", "clear"}
      BY <1>2, <2>3
         DEF StartScheduler, Tick, Stop, Accept, Move, ServiceInv, TypeOK,
             CallsOK, NothingBeforeStart
    <3> QED
      BY <1>2, <3>1, <3>2 DEF StatusInv
  <2>4. CASE UNCHANGED <<pc, run, store, stat, newest>>
    BY <1>2, <2>4 DEF StatusInv
  <2> QED
    BY <1>2, <2>1, <2>2, <2>3, <2>4
       DEF Next, Startup, WireMeter, Interrupt, ShutDown, Exit, Exited, vars
<1>3. ServiceInv /\ StatusInv => IdleStatusIsCurrent
  BY DEF ServiceInv, TypeOK, StatsOK, StatusInv, IdleStatusIsCurrent
<1> QED
  BY <1>1, <1>2, <1>3, InProcess, ServiceInvariant, PTL DEF Spec


-----------------------------------------------------------------------------
(* The counter of successes.                                                *)

\* What is between a save and its count, or between a count and its save.
Uncounted == {g \in Goroutines : pc[g] = "meter"}
Unsaved   == {p \in Posts : post[p].pc = "save"}

\* With finitely many callers both are counted by natural numbers.
LEMMA InFlightFinite ==
  ASSUME IsFiniteSet(Triggers), IsFiniteSet(Posts)
  PROVE  /\ IsFiniteSet(Uncounted) /\ Cardinality(Uncounted) \in Nat
         /\ IsFiniteSet(Unsaved) /\ Cardinality(Unsaved) \in Nat
<1>1. IsFiniteSet(Goroutines)
  BY FS_AddElement DEF Goroutines
<1>2. IsFiniteSet(Uncounted) /\ IsFiniteSet(Unsaved)
  BY <1>1, FS_Subset DEF Uncounted, Unsaved
<1> QED
  BY <1>2, FS_CardinalityType

\* The property in these terms, before and after a step.
LEMMA Balance ==
  /\ SuccessesAreSaves <=>
       gauge.success + missed + Cardinality(Uncounted)
         = saved + Cardinality(Unsaved)
  /\ SuccessesAreSaves' <=>
       gauge'.success + missed' + Cardinality(Uncounted')
         = saved' + Cardinality(Unsaved')
BY DEF SuccessesAreSaves, Uncounted, Unsaved

\* One call of the meter moves one of the two counts, for a success.
LEMMA RecordCounts ==
  ASSUME NEW status, CountsOK, Record(status)
  PROVE  gauge'.success + missed' =
           IF status = "success" THEN gauge.success + missed + 1
                                 ELSE gauge.success + missed
BY DEF CountsOK, Record, Label

\* A scan saves first and counts then.
LEMMA RunScanCounts ==
  ASSUME IsFiniteSet(Triggers), IsFiniteSet(Posts),
         TypeOK, SuccessesAreSaves, NEW g \in Goroutines, RunScan(g)
  PROVE  SuccessesAreSaves'
<1> USE InFlightFinite, Balance
<1> USE DEF TypeOK
<1>a. /\ gauge.success \in Nat /\ missed \in Nat /\ saved \in Nat
      /\ Unsaved' = Unsaved
  BY DEF CountsOK, Unsaved, RunScan, Enter, Skip, RunFails, RunEnds, SetFailed,
         MeterFailure, SetOutcome, Stamp, SaveRun, MeterSuccess, Clear
<1>1. CASE SaveRun(g)
  <2>1. Uncounted' = Uncounted \cup {g} /\ g \notin Uncounted
    BY <1>1 DEF SaveRun, Move, CallsOK, Uncounted
  <2>2. Cardinality(Uncounted') = Cardinality(Uncounted) + 1
    BY <2>1, FS_AddElement
  <2>3. UNCHANGED <<gauge, missed>> /\ saved' = saved + 1
    BY <1>1 DEF SaveRun, Save
  <2> QED
    BY <1>a, <2>2, <2>3
<1>2. CASE MeterSuccess(g)
  <2>1. Uncounted' = Uncounted \ {g} /\ g \in Uncounted
    BY <1>2 DEF MeterSuccess, Move, CallsOK, Uncounted
  <2>2. Cardinality(Uncounted') = Cardinality(Uncounted) - 1
    BY <2>1, FS_RemoveElement
  <2>3. gauge'.success + missed' = gauge.success + missed + 1
    BY <1>2, RecordCounts DEF MeterSuccess
  <2>4. saved' = saved
    BY <1>2 DEF MeterSuccess
  <2> QED
    BY <1>a, <2>2, <2>3, <2>4
<1>3. CASE \/ Enter(g) \/ Skip(g) \/ RunFails(g) \/ RunEnds(g) \/ SetFailed(g)
           \/ MeterFailure(g) \/ SetOutcome(g) \/ Stamp(g) \/ Clear(g)
  <2>1. Uncounted' = Uncounted
    BY <1>3, ReturnType
       DEF Enter, Skip, RunFails, RunEnds, SetFailed, MeterFailure, SetOutcome,
           Stamp, Clear, Move, CallsOK, Uncounted
  <2>2. gauge'.success + missed' = gauge.success + missed
    BY <1>3, RecordCounts
       DEF Enter, Skip, RunFails, RunEnds, SetFailed, MeterFailure, SetOutcome,
           Stamp, Clear
  <2>3. saved' = saved
    BY <1>3 DEF Enter, Skip, RunFails, RunEnds, SetFailed, MeterFailure,
                SetOutcome, Stamp, Clear
  <2> QED
    BY <1>a, <2>1, <2>2, <2>3
<1> QED
  BY <1>1, <1>2, <1>3 DEF RunScan

\* A request is counted first and saved then, unless it reports a failure.
LEMMA HandlerCounts ==
  ASSUME IsFiniteSet(Triggers), IsFiniteSet(Posts),
         TypeOK, SuccessesAreSaves, NEW p \in Posts, Receive(p) \/ Handler(p)
  PROVE  SuccessesAreSaves'
<1> USE InFlightFinite, Balance
<1> USE DEF TypeOK
<1>a. /\ gauge.success \in Nat /\ missed \in Nat /\ saved \in Nat
      /\ Uncounted' = Uncounted
  BY DEF CountsOK, Uncounted, Receive, Handler, MeterPost, SavePost
<1>1. CASE Receive(p)
  <2>1. \A q \in Posts : post'[q].pc = "save" <=> post[q].pc = "save"
    <3>1. PICK body \in Payloads, at \in 1..(clock + 1) :
            post' = [post EXCEPT ![p] =
                      [pc |-> "meter", results |-> body.results,
                       at |-> at, status |-> body.status]]
      BY <1>1 DEF Receive
    <3> QED
      BY <1>1, <3>1 DEF Receive, PostsOK
  <2>2. Unsaved' = Unsaved
    BY <2>1 DEF Unsaved
  <2> QED
    BY <1>1, <1>a, <2>2 DEF Receive
<1>2. CASE MeterPost(p)
  <2>1. Keeps(p) <=> Status(p) # "success"
    BY DEF Keeps, Status, PostsOK
  <2>2. saved' = saved
    BY <1>2 DEF MeterPost
  <2>3. CASE Keeps(p)
    <3>1. Unsaved' = Unsaved
      BY <1>2, <2>3 DEF MeterPost, PostsOK, Unsaved
    <3>2. gauge'.success + missed' = gauge.success + missed
      BY <1>2, <2>1, <2>3, RecordCounts DEF MeterPost
    <3> QED
      BY <1>a, <2>2, <3>1, <3>2
  <2>4. CASE ~Keeps(p)
    <3>0. post[p].pc = "meter" /\ post' = [post EXCEPT ![p].pc = "save"]
      BY <1>2, <2>4 DEF MeterPost
    <3>1. Unsaved' = Unsaved \cup {p} /\ p \notin Unsaved
      <4>1. \A q \in Posts :
              post'[q].pc = IF q = p THEN "save" ELSE post[q].pc
        BY <3>0 DEF PostsOK
      <4> QED
        BY <3>0, <4>1 DEF Unsaved
    <3>2. Cardinality(Unsaved') = Cardinality(Unsaved) + 1
      BY <3>1, FS_AddElement
    <3>3. gauge'.success + missed' = gauge.success + missed + 1
      BY <1>2, <2>1, <2>4, RecordCounts DEF MeterPost
    <3> QED
      BY <1>a, <2>2, <3>2, <3>3
  <2> QED
    BY <2>3, <2>4
<1>3. CASE SavePost(p)
  <2>1. Unsaved' = Unsaved \ {p} /\ p \in Unsaved
    BY <1>3 DEF SavePost, PostsOK, Unsaved
  <2>2. Cardinality(Unsaved') = Cardinality(Unsaved) - 1
    BY <2>1, FS_RemoveElement
  <2>3. UNCHANGED <<gauge, missed>> /\ saved' = saved + 1
    BY <1>3 DEF SavePost, Save
  <2> QED
    BY <1>a, <2>2, <2>3
<1> QED
  BY <1>1, <1>2, <1>3 DEF Handler

\* Every success counted is a batch stored and every batch stored is counted
\* once, scans' and scanner Jobs' alike, but for what is in flight and for the
\* successes of the time before the meter was set.
THEOREM CountedOnce ==
  ASSUME IsFiniteSet(Triggers), IsFiniteSet(Posts)
  PROVE  Spec => []SuccessesAreSaves
<1>1. Init => SuccessesAreSaves
  <2> SUFFICES ASSUME Init PROVE SuccessesAreSaves
    OBVIOUS
  <2>1. Uncounted = {} /\ Unsaved = {}
    BY DEF Init, Uncounted, Unsaved, NoPost
  <2>2. Cardinality(Uncounted) = 0 /\ Cardinality(Unsaved) = 0
    BY <2>1, FS_EmptySet
  <2> QED
    BY <2>2 DEF Init, SuccessesAreSaves, Uncounted, Unsaved
<1>2. ASSUME ServiceInv, SuccessesAreSaves, [Next]_vars
      PROVE  SuccessesAreSaves'
  <2>0. TypeOK
    BY <1>2 DEF ServiceInv
  <2>1. CASE \E g \in Goroutines : RunScan(g)
    BY <1>2, <2>0, <2>1, RunScanCounts
  <2>2. CASE \E p \in Posts : Receive(p) \/ Handler(p)
    BY <1>2, <2>0, <2>2, HandlerCounts
  <2>3. CASE StartScheduler \/ Tick \/ Stop \/ \E t \in Triggers : Accept(t)
    <3>1. UNCHANGED <<gauge, missed, saved, post>>
      BY <2>3 DEF StartScheduler, Tick, Stop, Accept
    <3>2. \A g \in Goroutines : pc'[g] = "meter" <=> pc[g] = "meter"
      BY <1>2, <2>0, <2>3
         DEF StartScheduler, Tick, Stop, Accept, Move, ServiceInv, TypeOK,
             CallsOK, NothingBeforeStart
    <3>3. Uncounted' = Uncounted /\ Unsaved' = Unsaved
      BY <3>1, <3>2 DEF Uncounted, Unsaved
    <3> QED
      BY <1>2, <3>1, <3>3 DEF SuccessesAreSaves, Uncounted, Unsaved
  <2>4. CASE UNCHANGED <<gauge, missed, saved, pc, post>>
    BY <1>2, <2>4 DEF SuccessesAreSaves
  <2> QED
    BY <1>2, <2>1, <2>2, <2>3, <2>4
       DEF Next, Startup, WireMeter, Interrupt, ShutDown, Exit, Exited, vars,
           ReadFlags, Load
<1> QED
  BY <1>1, <1>2, ServiceInvariant, PTL DEF Spec
=============================================================================
