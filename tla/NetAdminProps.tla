--------------------------- MODULE NetAdminProps ---------------------------
(***************************************************************************)
(* What the server of nhap/ip promises its clients.                        *)
(***************************************************************************)
EXTENDS NetAdmin

(* Every variable of the server and of the clients has its type, the loop  *)
(* index is a slot or just past the last one while a loop over the slots   *)
(* runs, and update_new_client has a client.                               *)
TypeOK ==
  /\ tbl \in Tables /\ spc \in ServerStates /\ cur \in Msg /\ sync \in 0 .. 2
  /\ pos \in Nat /\ dl \in Layers /\ newc \in Clients \cup {None}
  /\ fds \in [Slots -> Clients \cup {None}] /\ pids \in Seq(Clients)
  /\ backlog \in Seq(Clients) /\ ready \subseteq Slots /\ nops \in 0 .. MaxOps
  /\ torn \in Clients \cup {None}
  /\ cpc \in [Clients -> ClientStates] /\ ctbl \in [Clients -> Tables]
  /\ chan \in [Clients -> Seq(Frames)]
  /\ spc \in {"bcast", "status", "goodbye"} => pos \in 2 .. MaxClients
  /\ spc = "dump" => newc \in Clients

(* No table, of the server or of a client, ever has two entries with one   *)
(* key, whatever order commands, dumps and flushes arrive in: the finds of *)
(* process_sync_mesg see at most one hit.                                  *)
UniqueKeys == Unique(tbl) /\ \A c \in Clients : Unique(ctbl[c])

(* The table a client will have once it has read all that was written      *)
Replay(c) ==
  LET after[n \in 0 .. Len(chan[c])] ==
        IF n = 0 THEN ctbl[c] ELSE Apply(after[n - 1], chan[c][n].msg)
  IN  after[Len(chan[c])]

(* What update_new_client has sent so far                                  *)
Dumped == [l \in Layers |->
             IF l = dl THEN SubSeq(tbl[l], 1, pos)
             ELSE IF l = "L3" THEN tbl[l] ELSE << >>]

(* The turn of client c in the broadcast loop is still to come             *)
Unserved(c) == spc = "bcast" /\ \E s \in Slots : s >= pos /\ fds[s] = c

(* While the server serves, a monitored client's table plus the frames in  *)
(* flight to it, plus the broadcast or the dump that has not reached it    *)
(* yet, is exactly the server's pair of tables: no update is lost, sent    *)
(* twice or applied in another order, whenever the client joined.          *)
Replica ==
  \A c \in Clients : Serving /\ Monitored(c) =>
    IF Unserved(c) THEN Apply(Replay(c), cur) = tbl
    ELSE IF spc = "dump" /\ newc = c THEN Replay(c) = Dumped
    ELSE Replay(c) = tbl

(* A monitored client that has read everything, while the server waits in  *)
(* select, holds the server's tables: the notice "Routing table is up to   *)
(* date" of display_ds is true then.                                       *)
InSync ==
  \A c \in Clients :
    spc = "select" /\ Monitored(c) /\ ~Closed(c) /\ chan[c] = << >> => ctbl[c] = tbl

(* A client is in at most one slot, and only after the server accepted it: *)
(* neither a broadcast nor a removal can hit a connection twice.           *)
SlotsDistinct ==
  /\ \A s, t \in Slots : fds[s] = fds[t] /\ fds[s] # None => s = t
  /\ \A s \in Slots : fds[s] # None =>
       fds[s] \notin ToSet(backlog) /\ cpc[fds[s]] \notin {"start", "connected"}

(* FLUSH signals every client that receives broadcasts, as long as no more *)
(* connections were ever made than client_pid_set has places.              *)
FlushReaches ==
  Cardinality(Clients) <= MaxClients =>
    \A c \in Clients : Monitored(c) /\ ~Closed(c) => c \in ToSet(pids)

(* After FLUSH a client may keep routes the server no longer has, but it   *)
(* never misses one the server has (by dest and mask; a MAC has no mask):  *)
(* frames that a late FLUSH handler drops are all older than the flush.    *)
NoRouteMissing ==
  \A c \in Clients :
    spc = "select" /\ Monitored(c) /\ ~Closed(c) /\ chan[c] = << >> =>
      \A l \in Layers : \A i \in DOMAIN tbl[l] : \E j \in DOMAIN ctbl[c][l] :
         /\ ctbl[c][l][j].dest = tbl[l][i].dest
         /\ l = "L3" => ctbl[c][l][j].mask = tbl[l][i].mask

(* When the server has exited through its SIGINT handler, every monitored  *)
(* client has left, or the shutdown frame is the last thing it will read,  *)
(* but for the one in the middle of whose frame the signal came: the bytes *)
(* of its goodbye complete that frame.                                     *)
GoodbyeTold ==
  spc = "exited" =>
    \A c \in Clients : Monitored(c) /\ c # torn =>
      Closed(c) \/ (chan[c] # << >> /\ Last(chan[c]) = Goodbye)

(* After such an exit every monitored client leaves its loop; only the one *)
(* whose frame was cut may end up reading the end of file for ever instead.*)
CleanShutdown ==
  \A c \in Clients :
    (spc = "exited" /\ Monitored(c)) ~> Closed(c) \/ (c = torn /\ cpc[c] = "spin")

(* A monitored client reaches the server's tables with nothing in flight,  *)
(* unless it leaves or the server stops: the blocking writes, the dump and *)
(* the broadcast never wait on each other for ever.                        *)
Converges ==
  \A c \in Clients :
    Monitored(c) ~> (ctbl[c] = tbl /\ chan[c] = << >>) \/ Closed(c) \/ ~Serving

(* A client that leaves has its slot freed, unless the server stops.       *)
DisconnectNoticed ==
  \A c \in Clients : (Monitored(c) /\ Closed(c)) ~> (~Monitored(c) \/ ~Serving)
=============================================================================
