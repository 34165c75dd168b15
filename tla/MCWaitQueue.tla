---------------------------- MODULE MCWaitQueue ----------------------------
(***************************************************************************)
(* Instances of WaitQueue for TLC.                                         *)
(***************************************************************************)
EXTENDS WaitQueueProps, TLC

CONSTANTS r1, r2, r3
=============================================================================
