---------------------------- MODULE MCDashboard ----------------------------
(***************************************************************************)
(* Instance of Dashboard for TLC.                                          *)
(***************************************************************************)
EXTENDS Dashboard
=============================================================================
