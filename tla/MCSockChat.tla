---------------------------- MODULE MCSockChat -----------------------------
(***************************************************************************)
(* An instance of SockChat for TLC.                                        *)
(***************************************************************************)
EXTENDS SockChatProps, TLC

CONSTANTS c1, c2
=============================================================================
