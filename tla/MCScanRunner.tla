---------------------------- MODULE MCScanRunner ----------------------------
(***************************************************************************)
(* The instance of ScanRunner for TLC: three repositories queue for the    *)
(* two tokens of Run's pool while goroutines that hold one wait for pools  *)
(* of their own.                                                           *)
(***************************************************************************)
EXTENDS ScanRunner
=============================================================================
