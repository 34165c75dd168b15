------------------------- MODULE NetAdminRefinement -------------------------
(***************************************************************************)
(* The step-by-step dump and broadcast of NetAdmin implement the atomic    *)
(* join and update of TableReplication.  What a member is still owed: the  *)
(* frames in its socket, then the broadcast whose turn has not come, or    *)
(* the rest of its dump.                                                   *)
(***************************************************************************)
EXTENDS NetAdminProps

MemberOf == {c \in Clients : Serving /\ Monitored(c)}

View == [c \in Clients |-> IF c \in MemberOf THEN ctbl[c] ELSE EmptyTables]

(* What display_ds makes of a frame: synchronized says which table a       *)
(* notice is about                                                         *)
Seen(f) == IF f.msg.op = "NONE" THEN UpToDate(IF f.sync = ML THEN "L2" ELSE "L3")
           ELSE Plain(f.msg)

ReadAll(q) == [i \in DOMAIN q |-> Seen(q[i])]

Owed(c) ==
  IF Unserved(c) THEN <<Plain(cur)>>
  ELSE IF spc = "dump" /\ newc = c
  THEN IF dl = "L3" THEN Copy(tbl, "L3", pos) \o Copy(tbl, "L2", 0)
                    ELSE Copy(tbl, "L2", pos)
  ELSE << >>

Due(c) == ReadAll(chan[c]) \o Owed(c)

Queue == [c \in Clients |-> IF c \in MemberOf THEN Due(c) ELSE << >>]

Replication == INSTANCE TableReplication
  WITH Members <- Clients,
       Updates <- Commands,
       on      <- Serving,
       master  <- IF Serving THEN tbl ELSE EmptyTables,
       joined  <- MemberOf,
       view    <- View,
       queue   <- Queue

(* Every monitored client gets the tables as of its connection and then    *)
(* every update, once and in order, and learns that a table is up to date  *)
(* only after its copy: the blocking writes, the clients that come and go  *)
(* between two of them, and the messages that two dumps and all their      *)
(* frames share, never show.                                               *)
Implements == Replication!RSpec
=============================================================================
