---------------------------- MODULE MCIndexCache ----------------------------
(***************************************************************************)
(* Instances of IndexCache for TLC.  One slot and two Helm repositories    *)
(* are enough for the semaphore to be contended.                           *)
(***************************************************************************)
EXTENDS IndexCache, TLC

\* Workers are interchangeable in every safety property.
Symmetry == Permutations(Workers)
=============================================================================
