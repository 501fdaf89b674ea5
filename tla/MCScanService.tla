--------------------------- MODULE MCScanService ---------------------------
(***************************************************************************)
(* Instances of ScanService for TLC.  The .cfg files choose which of the   *)
(* callers are present; the bounds are on callers, never on what they do.  *)
(***************************************************************************)
EXTENDS ScanService, TLC

\* Repositories and requests are interchangeable in every safety property.
Symmetry ==
  Permutations(Repos) \cup Permutations(Triggers) \cup Permutations(Posts)
=============================================================================
