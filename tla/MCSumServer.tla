---------------------------- MODULE MCSumServer ----------------------------
(***************************************************************************)
(* An instance of SumServer for TLC.                                       *)
(***************************************************************************)
EXTENDS SumServerProps, TLC

CONSTANTS c1, c2, c3

(* One client can have its numbers run together, the others reuse its slot *)
Sends == c1 :> 2 @@ c2 :> 1 @@ c3 :> 0
=============================================================================
