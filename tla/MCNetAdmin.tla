----------------------------- MODULE MCNetAdmin -----------------------------
(***************************************************************************)
(* Instances of NetAdmin for TLC.                                          *)
(***************************************************************************)
EXTENDS NetAdminRefinement

CONSTANTS c1, c2, c3, c4

OneDest   == {<<1>>}
TwoDests  == {<<1>>, <<2>>}
OneVia    == {<<5>>}
NoMacs    == {}
OneMac    == {<<7, 7, 7>>}
OneMask   == {8}

Symmetry == Permutations(Clients)
=============================================================================
