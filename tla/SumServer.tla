----------------------------- MODULE SumServer -----------------------------
(***************************************************************************)
(* unix-domain-socket/multiplexed-client-server: a server that adds up the *)
(* numbers each client sends and answers the sum when a client sends 0.    *)
(*                                                                         *)
(* A summand is worth one, so a result is the number of summands in it.    *)
(* What a client has in its socket is then a count of unread summands and  *)
(* whether its 0 is behind them: a client sends nothing after its 0.       *)
(***************************************************************************)
EXTENDS Integers, Sequences

CONSTANTS
  Clients,   \* client processes
  Nobody,    \* a free slot, -1 in the code
  MaxSlots,  \* MAX_CLIENT_SUPPORTED, the slot of the master socket included
  PerRead,   \* BUFFER_SIZE / sizeof(int)
  MaxSend    \* bound: summands each client sends

ASSUME NobodyAssumption == Nobody \notin Clients
ASSUME SizeAssumption   == MaxSlots \in Nat \ {0} /\ PerRead \in Nat \ {0} /\ MaxSend \in [Clients -> Nat]

VARIABLES
  fds,     \* monitored_fd_set without its first slot, the master socket's
  result,  \* client_result
  up,      \* the server runs
  ready,   \* clients in readfds that the loop has not come to; empty at select
  backlog, \* connections that are not accepted yet
  cpc,     \* where each client is
  unread,  \* summands in each client's socket
  ended,   \* clients whose 0 is in their socket
  reply,   \* the result each client has been sent, -1 before that
  sent,    \* history: summands each client has sent
  dropped, \* history: summands read and not added
  cut      \* history: clients whose 0 was read and not looked at

server  == <<fds, result, up, ready>>
history == <<dropped, cut>>
vars    == <<server, backlog, cpc, unread, ended, reply, sent, history>>

Slots == 1 .. MaxSlots - 1

ClientStates == {"new", "typing", "waiting", "done", "killed"}

Init ==
  /\ fds = [i \in Slots |-> Nobody] /\ result = [i \in Slots |-> 0]
  /\ up = TRUE /\ ready = {} /\ backlog = <<>>
  /\ cpc = [c \in Clients |-> "new"]
  /\ unread = [c \in Clients |-> 0] /\ ended = {} /\ reply = [c \in Clients |-> -1]
  /\ sent = [c \in Clients |-> 0] /\ dropped = [c \in Clients |-> 0] /\ cut = {}
-----------------------------------------------------------------------------
(* add_to_monitored_fd_set: the first free slot, or nothing at all *)
FirstFree(i) == fds[i] = Nobody /\ \A j \in Slots : fds[j] = Nobody => i <= j
AddFd(c) == fds' = [i \in Slots |-> IF FirstFree(i) THEN c ELSE fds[i]]

(* An end of file is readable too: read then returns 0 *)
Readable(c) == unread[c] > 0 \/ c \in ended \/ cpc[c] = "killed"

Monitored == {fds[i] : i \in Slots} \ {Nobody}

(* select on the master socket wins over all others *)
SAccept ==
  /\ up /\ ready = {} /\ backlog # <<>>
  /\ AddFd(Head(backlog)) /\ backlog' = Tail(backlog)
  /\ UNCHANGED <<result, up, ready, cpc, unread, ended, reply, sent, history>>

SSelectAll ==   \* takes every descriptor for a readable one
  /\ up /\ ready = {} /\ backlog = <<>> /\ ready' = Monitored /\ ready' # {}
  /\ UNCHANGED <<fds, result, up, backlog, cpc, unread, ended, reply, sent, history>>

SSelectLess ==   \* select(get_max_fd()): the last one is not looked at
  /\ up /\ ready = {} /\ backlog = <<>>
  /\ ready' = {c \in Monitored : Readable(c) /\ fds[MaxSlots - 1] # c} /\ ready' # {}
  /\ UNCHANGED <<fds, result, up, backlog, cpc, unread, ended, reply, sent, history>>

SSelect ==
  /\ up /\ ready = {} /\ backlog = <<>>
  /\ ready' = {c \in Monitored : Readable(c)} /\ ready' # {}
  /\ UNCHANGED <<fds, result, up, backlog, cpc, unread, ended, reply, sent, history>>

(* The loop is at slot i, and goes on from there *)
Turn(i, c) == fds[i] = c /\ c \in ready /\ \A j \in Slots : fds[j] \in ready => i <= j
Visit(i, c) == up /\ Turn(i, c) /\ ready' = ready \ {c}

(* How many summands one read takes *)
Taken(c) == IF unread[c] < PerRead THEN unread[c] ELSE PerRead

(* Of the numbers one read returns only the first is looked at: the other  *)
(* summands, and a 0 among them, are overwritten.                          *)
SAdd(i, c) ==
  /\ Visit(i, c) /\ unread[c] > 0
  /\ result' = [result EXCEPT ![i] = @ + 1]
  /\ unread' = [unread EXCEPT ![c] = @ - Taken(c)]
  /\ dropped' = [dropped EXCEPT ![c] = @ + Taken(c) - 1]
  /\ LET zero == IF unread[c] < PerRead THEN {c} \cap ended ELSE {}
     IN  ended' = ended \ zero /\ cut' = cut \cup zero
  /\ UNCHANGED <<fds, up, backlog, cpc, reply, sent>>

KeepResult(i) == fds' = [fds EXCEPT ![i] = Nobody] /\ result' = result
ResetSlot(i)  == fds' = [fds EXCEPT ![i] = Nobody] /\ result' = [result EXCEPT ![i] = 0]

(* A 0, or an end of file, which leaves the buffer all zero *)
SReply(i, c) ==
  /\ Visit(i, c) /\ unread[c] = 0 /\ cpc[c] # "killed"
  /\ reply' = [reply EXCEPT ![c] = result[i]] /\ ended' = ended \ {c}
  /\ ResetSlot(i)
  /\ UNCHANGED <<up, backlog, cpc, unread, sent, history>>

(* The same for a client that is gone: the write raises SIGPIPE *)
SSigpipe(i, c) ==
  /\ Visit(i, c) /\ unread[c] = 0 /\ cpc[c] = "killed" /\ up' = FALSE
  /\ UNCHANGED <<fds, result, backlog, cpc, unread, ended, reply, sent, history>>
-----------------------------------------------------------------------------
CConnect(c) ==
  /\ cpc[c] = "new" /\ up
  /\ cpc' = [cpc EXCEPT ![c] = "typing"] /\ backlog' = Append(backlog, c)
  /\ UNCHANGED <<server, unread, ended, reply, sent, history>>

(* connect is refused *)
CRefused(c) ==
  /\ cpc[c] = "new" /\ ~up /\ cpc' = [cpc EXCEPT ![c] = "done"]
  /\ UNCHANGED <<server, backlog, unread, ended, reply, sent, history>>

CSend(c) ==
  /\ cpc[c] = "typing" /\ up /\ sent[c] < MaxSend[c]
  /\ unread' = [unread EXCEPT ![c] = @ + 1] /\ sent' = [sent EXCEPT ![c] = @ + 1]
  /\ UNCHANGED <<server, backlog, cpc, ended, reply, history>>

CSendZero(c) ==
  /\ cpc[c] = "typing" /\ up
  /\ cpc' = [cpc EXCEPT ![c] = "waiting"] /\ ended' = ended \cup {c}
  /\ UNCHANGED <<server, backlog, unread, reply, sent, history>>

(* The result, or the end of file that a dead server leaves *)
CRecv(c) ==
  /\ cpc[c] = "waiting" /\ (reply[c] >= 0 \/ ~up)
  /\ cpc' = [cpc EXCEPT ![c] = "done"]
  /\ UNCHANGED <<server, backlog, unread, ended, reply, sent, history>>

(* Ctrl-C, or SIGPIPE when the server is dead *)
CKill(c) ==
  /\ cpc[c] \in {"typing", "waiting"} /\ cpc' = [cpc EXCEPT ![c] = "killed"]
  /\ UNCHANGED <<server, backlog, unread, ended, reply, sent, history>>
-----------------------------------------------------------------------------
SNext ==
  \/ SAccept \/ SSelect
  \/ \E i \in Slots, c \in Clients : SAdd(i, c) \/ SReply(i, c) \/ SSigpipe(i, c)

CNext(c) == CConnect(c) \/ CRefused(c) \/ CSend(c) \/ CSendZero(c) \/ CRecv(c) \/ CKill(c)

Next == SNext \/ \E c \in Clients : CNext(c)

Spec == Init /\ [][Next]_vars

(* The server and a client that waits for its answer run by themselves;    *)
(* what a client types next is its user's choice.                          *)
FairSpec == Spec /\ WF_vars(SNext) /\ \A c \in Clients : WF_vars(CRecv(c))
=============================================================================
