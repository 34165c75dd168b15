----------------------------- MODULE MCFileCopy -----------------------------
(***************************************************************************)
(* Instance of FileCopy for TLC.                                           *)
(***************************************************************************)
EXTENDS FileCopyProps

CONSTANTS f1, f2
=============================================================================
