----------------------------- MODULE MCIpStore -----------------------------
(***************************************************************************)
(* An instance of IpStore for TLC.                                         *)
(***************************************************************************)
EXTENDS IpStoreProps, TLC

CONSTANTS c1, c2
=============================================================================
