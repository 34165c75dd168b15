------------------------------- MODULE MCDll -------------------------------
(***************************************************************************)
(* Instances of Dll for TLC.                                               *)
(***************************************************************************)
EXTENDS DllProps, TLC

CONSTANTS a1, a2, a3, a4, a5

Symmetry == Permutations(Cell)
=============================================================================
