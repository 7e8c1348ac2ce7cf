--------------------------- MODULE MCMetricsCache ---------------------------
(***************************************************************************)
(* Small instances of MetricsCache.                                        *)
(***************************************************************************)
EXTENDS MetricsCache
=============================================================================
