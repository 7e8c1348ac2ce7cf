-------------------------- MODULE MCRequestHandler --------------------------
(***************************************************************************)
(* Small instances of RequestHandler.                                      *)
(***************************************************************************)
EXTENDS RequestHandler, TLC

RouterSymmetry == Permutations(RouterId)
Symmetry == RouterSymmetry \cup Permutations(Name) \cup Permutations(Request)
=============================================================================
