-------------------------- MODULE MCBackendManager --------------------------
(***************************************************************************)
(* Small instances of BackendManager.                                      *)
(***************************************************************************)
EXTENDS BackendManager

CONSTANTS a, b

On(n) == [name |-> n, enabled |-> TRUE]
Off(n) == [name |-> n, enabled |-> FALSE]

MainOnly == [backends |-> <<On(a)>>, fallback |-> <<>>]
Pair == [backends |-> <<On(a), On(b)>>, fallback |-> <<>>]
Both == [backends |-> <<On(a), Off(b)>>, fallback |-> <<>>]
Split == [backends |-> <<On(b)>>, fallback |-> <<On(a)>>]
FallbackOnly == [backends |-> <<Off(a)>>, fallback |-> <<On(b)>>]
Twice == [backends |-> <<On(a)>>, fallback |-> <<On(a)>>]

OfferedSafety == {Both, Split, Twice}
OfferedDurable == {MainOnly, Split, FallbackOnly, Twice}
OfferedCancel == {Pair, Split}
OfferedTwo == {MainOnly, Split}

RouterSymmetry == Permutations(RouterId)
CallSymmetry == Permutations(Call)
Symmetry == RouterSymmetry \cup CallSymmetry
=============================================================================
