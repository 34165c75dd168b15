------------------------------ MODULE IpStore ------------------------------
(***************************************************************************)
(* nhap/ip/shm_ip: the shared-memory object that holds the address of one  *)
(* MAC.  The server fills it before it announces the MAC; clients read it  *)
(* when they are told of the MAC and whenever they display their list.     *)
(* Addresses are numbered in the order the administrator enters them.      *)
(***************************************************************************)
EXTENDS Integers, Sequences

CONSTANTS
  Clients,
  MaxCmds  \* bound: commands of the administrator

ASSUME CmdsAssumption == MaxCmds \in Nat

VARIABLES
  obj,     \* the object's contents
  ver,     \* the number of the address that was last copied into it
  wpc,     \* how far store_IP is; "killed" when the server died in it, "dead" elsewhere
  refused, \* the last store_IP was given an empty line and failed
  cmds,    \* commands entered
  tver,    \* the number behind the server's entry for the MAC, 0 without one
  chan,    \* messages on their way to each client
  cpc,     \* what each client does
  need,    \* the number behind each client's entry for the MAC, 0 without one
  shown    \* history: the last number each client has displayed

store   == <<obj, ver, wpc, refused>>
clients == <<cpc, need, shown>>
ipVars    == <<store, cmds, tver, chan, clients>>

Contents     == {"absent", "empty", "zero", "part", "full"}
StoreStates  == {"idle", "opened", "sized", "copying", "stored", "dead", "killed"}
ClientStates == {"off", "idle", "mapped", "dead"}
Torn         == -1  \* a display while the address is copied

Message(op, v) == [op |-> op, ver |-> v]
Messages == [op : {"CREATE", "DELETE"}, ver : Nat]

IpInit ==
  /\ obj = "absent" /\ ver = 0 /\ wpc = "idle" /\ refused = FALSE /\ cmds = 0 /\ tver = 0
  /\ chan = [c \in Clients |-> <<>>]
  /\ cpc = [c \in Clients |-> "off"] /\ need = [c \in Clients |-> 0] /\ shown = [c \in Clients |-> 0]

(* NetAdmin has what a write to a client that is dead does *)
Broadcast(m) == chan' = [c \in Clients |-> IF cpc[c] \in {"off", "dead"} THEN <<>> ELSE Append(chan[c], m)]
-----------------------------------------------------------------------------
(* store_IP: shm_open with O_TRUNC empties an object that is in use *)
StoreOpen ==
  /\ wpc = "idle" /\ cmds < MaxCmds
  /\ cmds' = cmds + 1 /\ obj' = "empty" /\ wpc' = "opened"
  /\ UNCHANGED <<ver, refused, tver, chan, clients>>

(* ftruncate to the length of the address; mmap refuses a length of zero *)
StoreSize ==
  /\ wpc = "opened" /\ obj' = "zero" /\ wpc' = "sized"
  /\ UNCHANGED <<ver, refused, cmds, tver, chan, clients>>

StoreRefused ==
  /\ wpc = "opened" /\ wpc' = "idle" /\ refused' = TRUE
  /\ UNCHANGED <<obj, ver, cmds, tver, chan, clients>>

StoreCopy ==
  /\ wpc = "sized" /\ obj' = "part" /\ wpc' = "copying"
  /\ UNCHANGED <<ver, refused, cmds, tver, chan, clients>>

StoreCopied ==
  /\ wpc = "copying" /\ obj' = "full" /\ ver' = cmds /\ wpc' = "stored" /\ refused' = FALSE
  /\ UNCHANGED <<cmds, tver, chan, clients>>

SCreateEarly ==   \* announces the MAC before its address is there
  /\ wpc = "sized" /\ wpc' = "idle" /\ Broadcast(Message("CREATE", cmds)) /\ obj' = "full"
  /\ tver' = IF tver = 0 THEN cmds ELSE tver
  /\ UNCHANGED <<ver, refused, cmds, clients>>

(* The server enters the MAC, if it is new, and announces it all the same *)
SCreate ==
  /\ wpc = "stored" /\ wpc' = "idle" /\ Broadcast(Message("CREATE", cmds))
  /\ tver' = IF tver = 0 THEN cmds ELSE tver
  /\ UNCHANGED <<obj, ver, refused, cmds, clients>>

(* unlink takes a path of the file system, and the object is not there *)
ShmUnlink == obj' = "absent"
Unlink    == obj' = obj

SDelete ==
  /\ wpc = "idle" /\ cmds < MaxCmds /\ cmds' = cmds + 1 /\ tver' = 0
  /\ Broadcast(Message("DELETE", 0))
  /\ IF tver # 0 THEN Unlink ELSE obj' = obj
  /\ UNCHANGED <<ver, wpc, refused, clients>>

(* display_mac_list in the server: reading an empty object is a SIGBUS *)
SShow ==
  /\ wpc = "idle" /\ tver # 0 /\ obj = "empty" /\ wpc' = "dead"
  /\ UNCHANGED <<obj, ver, refused, cmds, tver, chan, clients>>

Storing == wpc \in {"opened", "sized", "copying"}

(* SIGINT or SIGKILL; the object stays as it is *)
SKill ==
  /\ wpc \notin {"dead", "killed"} /\ wpc' = (IF Storing THEN "killed" ELSE "dead")
  /\ UNCHANGED <<obj, ver, refused, cmds, tver, chan, clients>>

(* A client joins and is sent the server's list *)
SJoin(c) ==
  /\ wpc = "idle" /\ cpc[c] = "off" /\ cpc' = [cpc EXCEPT ![c] = "idle"]
  /\ chan' = [chan EXCEPT ![c] = IF tver = 0 THEN <<>> ELSE <<Message("CREATE", tver)>>]
  /\ UNCHANGED <<store, cmds, tver, need, shown>>
-----------------------------------------------------------------------------
(* get_IP: O_CREAT makes the object if there is none, and does not fill it *)
Map(c) == cpc' = [cpc EXCEPT ![c] = "mapped"] /\ obj' = (IF obj = "absent" THEN "empty" ELSE obj)

Told(c, op) ==
  /\ cpc[c] = "idle" /\ chan[c] # <<>> /\ Head(chan[c]).op = op
  /\ chan' = [chan EXCEPT ![c] = Tail(@)]

CAdds(c) ==
  /\ Told(c, "CREATE") /\ need[c] = 0 /\ Map(c)
  /\ need' = [need EXCEPT ![c] = Head(chan[c]).ver]
  /\ UNCHANGED <<ver, wpc, refused, cmds, tver, shown>>

CHasIt(c) ==
  /\ Told(c, "CREATE") /\ need[c] # 0
  /\ UNCHANGED <<store, cmds, tver, clients>>

CDeletes(c) ==
  /\ Told(c, "DELETE") /\ need' = [need EXCEPT ![c] = 0]
  /\ IF need[c] # 0 THEN Unlink ELSE obj' = obj
  /\ UNCHANGED <<ver, wpc, refused, cmds, tver, cpc, shown>>

(* display_mac_list in a client *)
CShow(c) ==
  /\ cpc[c] = "idle" /\ need[c] # 0 /\ Map(c)
  /\ UNCHANGED <<ver, wpc, refused, cmds, tver, chan, need, shown>>

CCopy(c) ==
  /\ cpc[c] = "mapped" /\ obj # "empty"
  /\ cpc' = [cpc EXCEPT ![c] = "idle"]
  /\ shown' = [shown EXCEPT ![c] = IF obj = "full" THEN ver ELSE Torn]
  /\ UNCHANGED <<store, cmds, tver, chan, need>>

CSigbus(c) ==
  /\ cpc[c] = "mapped" /\ obj = "empty"
  /\ cpc' = [cpc EXCEPT ![c] = "dead"]
  /\ UNCHANGED <<store, cmds, tver, chan, need, shown>>
-----------------------------------------------------------------------------
ServerNext ==
  \/ StoreOpen \/ StoreSize \/ StoreRefused \/ StoreCopy \/ StoreCopied
  \/ SCreate \/ SDelete \/ SShow \/ SKill

ClientNext(c) == SJoin(c) \/ CAdds(c) \/ CHasIt(c) \/ CDeletes(c) \/ CShow(c) \/ CCopy(c) \/ CSigbus(c)

IpNext == ServerNext \/ \E c \in Clients : ClientNext(c)

IpSpec == IpInit /\ [][IpNext]_ipVars
=============================================================================
