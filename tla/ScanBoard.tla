----------------------------- MODULE ScanBoard -----------------------------
(***************************************************************************)
(* What the scan service promises to whoever reads its results, with none  *)
(* of its locks, goroutines and metrics: a board that holds the latest     *)
(* results, and scans that happen one at a time.  A scan either publishes  *)
(* once, and always something, or gives up and leaves the board as it      *)
(* was.  Scanners in other pods deposit their results at any time.         *)
(***************************************************************************)
EXTENDS Naturals

CONSTANTS
  Repos      \* the configured repositories; a batch of results is named
             \* by the repositories it accounts for

VARIABLES
  phase,     \* "idle", "scanning", or "settled" once the scan has published
  board      \* [results, scannedAt] as GET /api/results and /api/status show it

boardVars == <<phase, board>>

Batch == (SUBSET Repos) \ {{}}

BoardInit ==
  /\ phase = "idle"
  /\ board = [results |-> {}, scannedAt |-> 0]

Begin ==
  /\ phase = "idle"
  /\ phase' = "scanning"
  /\ UNCHANGED board

Write == board' \in [results : Batch, scannedAt : Nat]

Publish ==
  /\ phase = "scanning"
  /\ Write
  /\ phase' = "settled"

GiveUp ==
  /\ phase = "scanning"
  /\ phase' = "idle"
  /\ UNCHANGED board

Finish ==
  /\ phase = "settled"
  /\ phase' = "idle"
  /\ UNCHANGED board

Deposit ==
  /\ Write
  /\ UNCHANGED phase

BoardNext == Begin \/ Publish \/ GiveUp \/ Finish \/ Deposit

BoardSpec == BoardInit /\ [][BoardNext]_boardVars
=============================================================================
