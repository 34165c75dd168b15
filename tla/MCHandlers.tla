---------------------------- MODULE MCHandlers ----------------------------
(***************************************************************************)
(* Instance of Handlers for TLC.                                           *)
(***************************************************************************)
EXTENDS Handlers, TLC

CONSTANTS u1, u2, p1, p2

Symmetry == Permutations(Users)
=============================================================================
