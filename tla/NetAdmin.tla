------------------------------ MODULE NetAdmin ------------------------------
(***************************************************************************)
(* nhap/ip: a server that owns a routing table and a MAC list and          *)
(* replicates them to clients over Unix stream sockets, with SIGINT for    *)
(* shutdown and disconnection and SIGUSR1 for FLUSH.  One action per branch*)
(* of the server's select loop and per write of its loops; one action per  *)
(* step of a client.  A frame is the three consecutive writes of sync_msg, *)
(* synchronized and loop; a client always reads the three together.        *)
(***************************************************************************)
EXTENDS SyncTables, FiniteSets

CONSTANTS
  Clients,    \* client processes; each connects at most once
  None,       \* the -1 of a free slot
  MaxClients, \* MAX_CLIENTS, the length of both arrays
  Dests, Masks, Vias, Macs, \* what the administrator types
  Flush,      \* whether the administrator types FLUSH
  Events,     \* subset of AllEvents: what may happen to the processes
  ChanCap,    \* frames a socket buffers before write blocks
  MaxOps      \* bound: commands typed in a behaviour

AllEvents == {"sigint", "tear", "quit", "kill", "crash", "nomask"}

ASSUME MaxClientsAssumption == MaxClients \in Nat /\ MaxClients > 2
ASSUME NoneAssumption == None \notin Clients
ASSUME StringsAssumption ==
  /\ Dests \subseteq Str /\ Vias \subseteq Str /\ Macs \subseteq Str
  /\ Masks \subseteq Nat
\* MAC_ADDR_LEN is fixed and no dotted address is as long
ASSUME MacsAssumption ==
  \A m \in Macs : /\ \A n \in Macs : Len(m) = Len(n)
                  /\ \A d \in Dests : Len(d) <= Len(m)
ASSUME BoundsAssumption == ChanCap \in Nat \ {0} /\ MaxOps \in Nat
ASSUME SwitchesAssumption == Flush \in BOOLEAN /\ Events \subseteq AllEvents

Slots == 2 .. MaxClients - 1   \* 0 and 1 hold stdin and the listening socket

WAIT == 0
RT   == 1
ML   == 2
Notice(l) == IF l = "L3" THEN RT ELSE ML

Frame(m, s, lp) == [msg |-> m, sync |-> s, loop |-> lp]

\* A write that the SIGINT handler of the server forestalled.  synchronized
\* can be 3 when it is read from the op_code NONE.
CUT == 4
Frames == [msg : Msg, sync : 0 .. CUT, loop : {0, 1, CUT}]
IsCut(f) == f.loop = CUT

NoneMsg == [ZeroMsg EXCEPT !.op = "NONE"]
GoodbyeKeepsLoop == Frame(NoneMsg, WAIT, 1)
Goodbye == Frame(NoneMsg, WAIT, 0)

(* The messages create_sync_message builds; SHOW is NoneMsg.  DELETE reads *)
(* no gw and oif, and UPDATE accepts a MAC.                                *)
Commands ==
  {NoneMsg}
  \cup [op : {"CREATE", "UPDATE"}, l : {"L3"}, dest : Dests, mask : Masks, via : Vias]
  \cup [op : {"DELETE"}, l : {"L3"}, dest : Dests, mask : Masks, via : {<< >>}]
  \cup [op : {"CREATE", "UPDATE", "DELETE"}, l : {"L2"}, dest : Macs, mask : {0}, via : {<< >>}]

VARIABLES
  tbl,     \* the server's routing_table and mac_list
  spc,     \* where the server is
  cur,     \* its sync_msg
  sync,    \* its synchronized
  pos,     \* the index of the loop it is in
  dl,      \* the layer update_new_client is sending
  newc,    \* the client behind data_socket during update_new_client
  fds,     \* monitored_fd_set from slot 2 on
  pids,    \* client_pid_set, which only grows
  backlog, \* connections not yet accepted
  ready,   \* slots that select reported readable
  nops,    \* commands typed
  torn,    \* history: the client in the middle of whose frame SIGINT came
  cpc,     \* where each client is
  ctbl,    \* its tables
  chan     \* frames written to it and not yet read

svars == <<tbl, spc, cur, sync, pos, dl, newc, fds, pids, backlog, ready, nops, torn>>
cvars == <<cpc, ctbl, chan>>
vars  == <<svars, cvars>>

ServerStates == {"select", "dump", "bcast", "status", "goodbye", "exited", "killed"}
ClientStates == {"start", "connected", "sentpid", "loop", "prompt", "spin", "exited", "dead"}

Closed(c) == cpc[c] \in {"exited", "dead"}
Gone      == spc \in {"exited", "killed"}
Serving   == spc \in {"select", "dump", "bcast", "status"}

Monitored(c) == \E s \in Slots : fds[s] = c

CanWrite(c) == ~Closed(c) /\ Len(chan[c]) < ChanCap
Push(c, f)  == [chan EXCEPT ![c] = Append(@, f)]

Init ==
  /\ tbl = EmptyTables /\ spc = "select" /\ cur = ZeroMsg /\ sync = WAIT
  /\ pos = 2 /\ dl = "L3" /\ newc = None
  /\ fds = [s \in Slots |-> None] /\ pids = << >> /\ backlog = << >>
  /\ ready = {} /\ nops = 0 /\ torn = None
  /\ cpc = [c \in Clients |-> "start"] /\ ctbl = [c \in Clients |-> EmptyTables]
  /\ chan = [c \in Clients |-> << >>]
-----------------------------------------------------------------------------
(* The server *)

(* The top of the loop: a fresh sync_msg, synchronized = 0 *)
NextIteration ==
  /\ spc' = "select" /\ cur' = ZeroMsg /\ sync' = WAIT
  /\ pos' = 2 /\ dl' = "L3" /\ newc' = None /\ ready' = {}

(* Each add takes the first free place; a full array silently takes nothing *)
AddFd(c) ==
  \/ \E s \in Slots :
       /\ fds[s] = None
       /\ \A t \in Slots : fds[t] = None => s <= t
       /\ fds' = [fds EXCEPT ![s] = c]
  \/ (\A s \in Slots : fds[s] # None) /\ UNCHANGED fds

AddPidFrom2(c) == pids' = IF Len(pids) < MaxClients - 2 THEN Append(pids, c) ELSE pids
AddPid(c) == pids' = IF Len(pids) < MaxClients THEN Append(pids, c) ELSE pids

(* accept, read the pid (which blocks until it is written), add both.  If  *)
(* the client dies before it writes its pid, read returns 0 and AddPid     *)
(* takes whatever pid holds; the first write of the dump then ends the     *)
(* server (SSigpipe), so no FLUSH ever signals it.                         *)
SAccept ==
  /\ spc = "select" /\ backlog # << >>
  /\ LET c == Head(backlog) IN
       cpc[c] # "connected" /\ newc' = c /\ AddFd(c) /\ AddPid(c)
  /\ backlog' = Tail(backlog)
  /\ spc' = "dump" /\ pos' = 0
  /\ UNCHANGED <<tbl, cur, sync, dl, ready, nops, torn, cvars>>

(* update_new_client: the entry is printed into op and parsed back into    *)
(* the one sync_msg that all frames of both dumps share.                   *)
DumpMsgNoMask(m, l, e) ==
  [op   |-> "CREATE", l |-> l,
   dest |-> Overlay(e.dest, m.dest), mask |-> m.mask,
   via  |-> IF l = "L3" THEN Overlay(e.via, m.via) ELSE m.via]

DumpMsg(m, l, e) ==
  [op   |-> "CREATE", l |-> l,
   dest |-> Overlay(e.dest, m.dest),
   mask |-> IF l = "L3" THEN e.mask ELSE m.mask,
   via  |-> IF l = "L3" THEN Overlay(e.via, m.via) ELSE m.via]

SDumpEntry ==
  /\ spc = "dump" /\ pos < Len(tbl[dl]) /\ CanWrite(newc)
  /\ LET m == DumpMsg(cur, dl, tbl[dl][pos + 1]) IN
       cur' = m /\ chan' = Push(newc, Frame(m, sync, 1))
  /\ pos' = pos + 1
  /\ UNCHANGED <<tbl, spc, sync, dl, newc, fds, pids, backlog, ready, nops, torn, cpc, ctbl>>

(* The message that closes a dump.  synchronized keeps RT through the MACs. *)
SDumpNotice ==
  /\ spc = "dump" /\ pos = Len(tbl[dl]) /\ CanWrite(newc)
  /\ LET m == [cur EXCEPT !.op = "NONE"] IN
       /\ chan' = Push(newc, Frame(m, Notice(dl), 1))
       /\ IF dl = "L3"
          THEN /\ cur' = m /\ sync' = RT /\ dl' = "L2" /\ pos' = 0
               /\ UNCHANGED <<spc, newc, ready>>
          ELSE NextIteration
  /\ UNCHANGED <<tbl, fds, pids, backlog, nops, torn, cpc, ctbl>>

(* A command on stdin, which has priority over the clients but not over a  *)
(* new connection.  The server's own table changes before the broadcast.   *)
SCommand(m) ==
  /\ spc = "select" /\ backlog = << >> /\ nops < MaxOps
  /\ tbl' = Apply(tbl, m)
  /\ cur' = m /\ sync' = Notice(m.l)
  /\ spc' = "bcast" /\ pos' = 2 /\ nops' = nops + 1
  /\ UNCHANGED <<dl, newc, fds, pids, backlog, ready, torn, cvars>>

(* Where the client is after it has processed a frame *)
After(f) == IF f.loop = 0 THEN "exited"
            ELSE IF f.sync \in {RT, ML} THEN "prompt" ELSE "loop"

(* "C 1.2.3.4": the mask is strtok's NULL, which isValidMask hands to      *)
(* digits_only.  The other malformed commands change nothing.              *)
SBadMask ==
  /\ "nomask" \in Events /\ spc = "select" /\ backlog = << >> /\ nops < MaxOps
  /\ spc' = "killed" /\ nops' = nops + 1
  /\ UNCHANGED <<tbl, cur, sync, pos, dl, newc, fds, pids, backlog, ready, torn, cvars>>

(* FLUSH: SIGUSR1 to every recorded pid, then both lists are replaced.  A  *)
(* client handles the signal before it can read any later frame, so its    *)
(* handler is part of this step.  It runs between two uses of the lists,   *)
(* or inside process_sync_mesg or a display, whose code goes on with freed *)
(* lists: the frame is lost or the client dies.  A client that has not     *)
(* registered the handler dies of the signal.                              *)
FlushOutcomes(c) ==
  IF c \notin ToSet(pids) THEN {"none"}
  ELSE CASE cpc[c] = "sentpid" -> {"dies"}
         [] cpc[c] = "loop" /\ chan[c] = << >> -> {"between"}
         [] cpc[c] = "loop" /\ chan[c] # << >> -> {"between", "loses", "dies"}
         [] cpc[c] = "prompt" -> {"between", "dies"}
         [] OTHER -> {"none"}

FlushClients ==
  \E how \in [Clients -> {"none", "between", "loses", "dies"}] :
     /\ \A c \in Clients : how[c] \in FlushOutcomes(c)
     /\ ctbl' = [c \in Clients |-> IF how[c] = "none" THEN ctbl[c] ELSE EmptyTables]
     /\ chan' = [c \in Clients |-> IF how[c] = "loses" \/ (how[c] = "dies" /\ cpc[c] = "loop")
                                    THEN Tail(chan[c]) ELSE chan[c]]
     /\ cpc'  = [c \in Clients |-> CASE how[c] = "dies"  -> "dead"
                                     [] how[c] = "loses" -> After(Head(chan[c]))
                                     [] OTHER -> cpc[c]]

FlushServerKeeps == UNCHANGED tbl /\ cur' = NoneMsg /\ sync' = RT
FlushServer == tbl' = EmptyTables /\ cur' = NoneMsg /\ sync' = RT

SFlush ==
  /\ Flush /\ spc = "select" /\ backlog = << >> /\ nops < MaxOps
  /\ FlushClients /\ FlushServer
  /\ spc' = "bcast" /\ pos' = 2 /\ nops' = nops + 1
  /\ UNCHANGED <<dl, newc, fds, pids, backlog, ready, torn>>

(* One turn of the broadcast loop; write blocks while the buffer is full *)
SBcastStops ==   \* the loop ends at the first free slot
  /\ spc = "bcast" /\ pos < MaxClients
  /\ \/ fds[pos] = None /\ UNCHANGED chan /\ pos' = MaxClients
     \/ /\ fds[pos] # None /\ CanWrite(fds[pos]) /\ pos' = pos + 1
        /\ chan' = Push(fds[pos], Frame(cur, sync, 1))
  /\ UNCHANGED <<tbl, spc, cur, sync, dl, newc, fds, pids, backlog, ready, nops, torn, cpc, ctbl>>

SBcast ==
  /\ spc = "bcast" /\ pos < MaxClients
  /\ \/ fds[pos] = None /\ UNCHANGED chan
     \/ /\ fds[pos] # None /\ CanWrite(fds[pos])
        /\ chan' = Push(fds[pos], Frame(cur, sync, 1))
  /\ pos' = pos + 1
  /\ UNCHANGED <<tbl, spc, cur, sync, dl, newc, fds, pids, backlog, ready, nops, torn, cpc, ctbl>>

SBcastDone ==
  /\ spc = "bcast" /\ pos = MaxClients
  /\ NextIteration
  /\ UNCHANGED <<tbl, fds, pids, backlog, nops, torn, cvars>>

(* The third branch: select reported only clients.  A client's end is      *)
(* readable once it has written its disconnect flag or closed.             *)
ReadableLess == {s \in Slots : s < MaxClients - 1 /\ fds[s] # None /\ Closed(fds[s])}
Readable == {s \in Slots : fds[s] # None /\ Closed(fds[s])}

SSelectClients ==
  /\ spc = "select" /\ backlog = << >> /\ Readable # {}
  /\ spc' = "status" /\ ready' = Readable /\ pos' = 2
  /\ UNCHANGED <<tbl, cur, sync, dl, newc, fds, pids, backlog, nops, torn, cvars>>

(* A client that exits by SIGINT leaves done = 1.  One that was killed     *)
(* leaves end of file, or ECONNRESET when it had unread frames, and done   *)
(* is then whatever the stack holds: 1 by accident, or not.                *)
SStatus ==
  /\ spc = "status" /\ pos < MaxClients
  /\ \/ pos \notin ready /\ pos' = pos + 1 /\ UNCHANGED <<spc, fds>>
     \/ pos \in ready /\ pos' = pos + 1 /\ fds' = [fds EXCEPT ![pos] = None] /\ UNCHANGED spc
     \/ /\ pos \in ready /\ cpc[fds[pos]] = "dead" /\ chan[fds[pos]] = << >>
        /\ pos' = pos + 1 /\ UNCHANGED <<spc, fds>>
     \/ /\ pos \in ready /\ cpc[fds[pos]] = "dead" /\ chan[fds[pos]] # << >>
        /\ spc' = "killed" /\ UNCHANGED <<pos, fds>>
  /\ UNCHANGED <<tbl, cur, sync, dl, newc, pids, backlog, ready, nops, torn, cvars>>

SStatusDone ==
  /\ spc = "status" /\ pos = MaxClients
  /\ NextIteration
  /\ UNCHANGED <<tbl, fds, pids, backlog, nops, torn, cvars>>

(* A write to a connection whose peer has closed: SIGPIPE is not handled *)
Peer == IF spc = "dump" THEN newc
        ELSE IF spc \in {"bcast", "goodbye"} /\ pos < MaxClients THEN fds[pos] ELSE None

SSigpipe ==
  /\ Peer # None /\ Closed(Peer)
  /\ spc' = "killed"
  /\ UNCHANGED <<tbl, cur, sync, pos, dl, newc, fds, pids, backlog, ready, nops, torn, cvars>>

(* The frame whose writes are under way in a dump or a broadcast           *)
Sending ==
  IF spc = "bcast" THEN Frame(cur, sync, 1)
  ELSE IF pos < Len(tbl[dl]) THEN Frame(DumpMsg(cur, dl, tbl[dl][pos + 1]), sync, 1)
  ELSE Frame([cur EXCEPT !.op = "NONE"], Notice(dl), 1)

\* Cut after the first of its three writes, or after the second
CutFrames == {Frame(Sending.msg, CUT, CUT), Frame(Sending.msg, Sending.sync, CUT)}

(* signal_handler of the server: it can run at any point of the loop, also *)
(* between two of the three writes of a frame                              *)
SSigint ==
  /\ "sigint" \in Events /\ Serving
  /\ \/ UNCHANGED <<chan, torn>>
     \/ /\ "tear" \in Events /\ Peer # None /\ CanWrite(Peer) /\ torn' = Peer
        /\ \E f \in CutFrames : chan' = Push(Peer, f)
  /\ spc' = "goodbye" /\ pos' = 2
  /\ UNCHANGED <<tbl, cur, sync, dl, newc, fds, pids, backlog, ready, nops, cpc, ctbl>>

Halfway(c) == chan[c] # << >> /\ IsCut(Last(chan[c]))

(* The goodbye of a client that is half way through a frame first completes*)
(* that frame: after one write, synchronized is read from the op_code and  *)
(* loop from the l_code, which is unset; after two, loop from the op_code. *)
Completed(f) == IF f.sync = CUT THEN {Frame(f.msg, 3, 0), Frame(f.msg, 3, 1)}
                                ELSE {Frame(f.msg, f.sync, 1)}

(* What is left of it is a message from the middle of one, and the two     *)
(* integers if the client has read the message before they were written;   *)
(* otherwise they are part of the message, and loop keeps its value.       *)
Remainders == {Frame(m, WAIT, lp) : m \in {NoneMsg, ZeroMsg}, lp \in {0, 1}}

(* A client blocked inside the cut frame has emptied its socket            *)
CanComplete(c) == ~Closed(c) /\ (Len(chan[c]) < ChanCap \/ (cpc[c] = "loop" /\ Len(chan[c]) = 1))

SGoodbye ==
  /\ spc = "goodbye" /\ pos < MaxClients
  /\ \/ fds[pos] = None /\ UNCHANGED chan
     \/ /\ fds[pos] # None /\ ~Halfway(fds[pos]) /\ CanWrite(fds[pos])
        /\ chan' = Push(fds[pos], Goodbye)
     \/ /\ fds[pos] # None /\ Halfway(fds[pos]) /\ CanComplete(fds[pos])
        /\ \E f \in Completed(Last(chan[fds[pos]])), r \in Remainders :
             chan' = [chan EXCEPT ![fds[pos]] = Front(@) \o <<f, r>>]
  /\ pos' = pos + 1
  /\ UNCHANGED <<tbl, spc, cur, sync, dl, newc, fds, pids, backlog, ready, nops, torn, cpc, ctbl>>

SExitEarly ==
  /\ spc = "goodbye" /\ pos = MaxClients - 1
  /\ spc' = "exited" /\ tbl' = EmptyTables
  /\ UNCHANGED <<cur, sync, pos, dl, newc, fds, pids, backlog, ready, nops, torn, cvars>>

SExit ==
  /\ spc = "goodbye" /\ pos = MaxClients
  /\ spc' = "exited" /\ tbl' = EmptyTables
  /\ UNCHANGED <<cur, sync, pos, dl, newc, fds, pids, backlog, ready, nops, torn, cvars>>

SCrash ==
  /\ "crash" \in Events /\ ~Gone
  /\ spc' = "killed"
  /\ UNCHANGED <<tbl, cur, sync, pos, dl, newc, fds, pids, backlog, ready, nops, torn, cvars>>
-----------------------------------------------------------------------------
(* A client *)

Goto(c, p) == cpc' = [cpc EXCEPT ![c] = p]

CConnect(c) ==
  /\ cpc[c] = "start"
  /\ IF Gone THEN Goto(c, "exited") /\ UNCHANGED backlog
             ELSE Goto(c, "connected") /\ backlog' = Append(backlog, c)
  /\ UNCHANGED <<tbl, spc, cur, sync, pos, dl, newc, fds, pids, ready, nops, torn, ctbl, chan>>

CSendPid(c) ==
  /\ cpc[c] = "connected"
  /\ Goto(c, IF Gone THEN "dead" ELSE "sentpid")
  /\ UNCHANGED <<svars, ctbl, chan>>

CRegister(c) ==
  /\ cpc[c] = "sentpid"
  /\ Goto(c, "loop")
  /\ UNCHANGED <<svars, ctbl, chan>>

(* Read a frame, process it, display *)
CRecv(c) ==
  /\ cpc[c] = "loop" /\ chan[c] # << >> /\ ~IsCut(Head(chan[c]))
  /\ ctbl' = [ctbl EXCEPT ![c] = Apply(@, Head(chan[c]).msg)]
  /\ chan' = [chan EXCEPT ![c] = Tail(@)]
  /\ Goto(c, After(Head(chan[c])))
  /\ UNCHANGED svars

(* A cut frame nobody completes: the reads that are left return 0, so      *)
(* synchronized and loop keep what they held.                              *)
CCutOff(c) ==
  /\ cpc[c] = "loop" /\ chan[c] # << >> /\ IsCut(Head(chan[c])) /\ Gone
  /\ ctbl' = [ctbl EXCEPT ![c] = Apply(@, Head(chan[c]).msg)]
  /\ chan' = [chan EXCEPT ![c] = Tail(@)]
  /\ \E sc \in IF Head(chan[c]).sync = CUT THEN {WAIT, RT, ML} ELSE {Head(chan[c]).sync} :
       Goto(c, After(Frame(Head(chan[c]).msg, sc, 1)))
  /\ UNCHANGED svars

(* getchar: the user answers the question *)
CAnswer(c) ==
  /\ cpc[c] = "prompt"
  /\ Goto(c, "loop")
  /\ UNCHANGED <<svars, ctbl, chan>>

(* End of file: every read returns 0, so the zeroed message is a CREATE of *)
(* the route "" and loop keeps its 1, for ever.  A connection that was     *)
(* never accepted is reset instead, and the client leaves its loop.        *)
CEof(c) ==
  /\ cpc[c] = "loop" /\ chan[c] = << >> /\ Gone
  /\ IF c \in ToSet(backlog)
     THEN Goto(c, "exited") /\ UNCHANGED ctbl
     ELSE Goto(c, "spin") /\ ctbl' = [ctbl EXCEPT ![c] = Apply(@, ZeroMsg)]
  /\ UNCHANGED <<svars, chan>>

(* signal_handler(SIGINT) of the client: write disconnect, close, exit *)
CQuit(c) ==
  /\ "quit" \in Events /\ cpc[c] \in {"loop", "prompt", "spin"}
  /\ Goto(c, "exited")
  /\ UNCHANGED <<svars, ctbl, chan>>

(* The client dies without a word *)
CKill(c) ==
  /\ "kill" \in Events /\ cpc[c] \in {"connected", "sentpid", "loop", "prompt", "spin"}
  /\ Goto(c, "dead")
  /\ UNCHANGED <<svars, ctbl, chan>>
-----------------------------------------------------------------------------
SRun  == SAccept \/ SDumpEntry \/ SDumpNotice \/ SBcast \/ SBcastDone
         \/ SSelectClients \/ SStatus \/ SStatusDone \/ SSigpipe \/ SGoodbye \/ SExit

SNext == SRun \/ SFlush \/ SBadMask \/ SSigint \/ SCrash \/ \E m \in Commands : SCommand(m)

CRun(c) == CSendPid(c) \/ CRegister(c) \/ CRecv(c) \/ CCutOff(c) \/ CAnswer(c) \/ CEof(c)

CNext(c) == CRun(c) \/ CConnect(c) \/ CQuit(c) \/ CKill(c)

Next == SNext \/ \E c \in Clients : CNext(c)

(* The scheduler runs every process that can run; a user answers a prompt. *)
(* Nothing makes the administrator type or a user start or stop a client.  *)
Fairness == WF_vars(SRun) /\ \A c \in Clients : WF_vars(CRun(c))

Spec == Init /\ [][Next]_vars

FairSpec == Spec /\ Fairness
=============================================================================
