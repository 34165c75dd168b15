---------------------------- MODULE IpStoreProps ----------------------------
(***************************************************************************)
(* What a reader of the shared address can rely on.                        *)
(***************************************************************************)
EXTENDS IpStore

(* Every variable has its type, and a client that is reading has an entry. *)
IpTypeOK ==
  /\ obj \in Contents /\ ver \in 0 .. cmds /\ wpc \in StoreStates /\ refused \in BOOLEAN
  /\ cmds \in 0 .. MaxCmds /\ tver \in 0 .. cmds
  /\ chan \in [Clients -> Seq(Messages)]
  /\ cpc \in [Clients -> ClientStates] /\ need \in [Clients -> 0 .. cmds]
  /\ shown \in [Clients -> {Torn} \cup 0 .. cmds]
  /\ \A c \in Clients : cpc[c] = "mapped" => need[c] # 0

(* A region somebody has an entry for, or is being told of, is complete    *)
(* unless a store is running, was refused or was cut short: no other       *)
(* reader can fault or see a torn address.                                 *)
BeingTold(c) == \E k \in DOMAIN chan[c] : chan[c][k].op = "CREATE"
RegionReady ==
  tver # 0 \/ (\E c \in Clients : need[c] # 0 \/ BeingTold(c)) =>
     obj = "full" \/ Storing \/ refused \/ wpc = "killed"

(* What a client displays whole is never older than what it was told of:   *)
(* the address is in the object before the MAC is announced, and no later  *)
(* command takes it back.                                                  *)
FreshIp ==
  \A c \in Clients : cpc[c] = "idle" /\ need[c] # 0 /\ shown[c] # Torn => shown[c] >= need[c]
=============================================================================
