----------------------------- MODULE MCShmChat -----------------------------
(***************************************************************************)
(* Instance of ShmChat for TLC.                                            *)
(***************************************************************************)
EXTENDS ShmChatProps

CONSTANTS c1, c2
=============================================================================
