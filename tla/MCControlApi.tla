---------------------------- MODULE MCControlApi ----------------------------
(***************************************************************************)
(* Small instances of Boot and ControlApi.                                 *)
(***************************************************************************)
EXTENDS ControlApi
=============================================================================
