---------------------------- MODULE MCHealthWatch ---------------------------
(***************************************************************************)
(* A small instance of HealthWatch.                                        *)
(***************************************************************************)
EXTENDS HealthWatch
=============================================================================
