----------------------------- MODULE SockChat ------------------------------
(***************************************************************************)
(* sock-stream: a chat over TCP.  The server talks to one client at a time *)
(* and the two take turns, a line each, until one of them types "exit".    *)
(*                                                                         *)
(* Every write sends a whole buffer, here a frame of Units parts.  A       *)
(* stream keeps no frames: one read returns any number of parts, up to a   *)
(* buffer full, and "exit" is looked for at the start of what it returned. *)
(***************************************************************************)
EXTENDS Integers, Sequences

CONSTANTS
  Clients,     \* runs of the client program
  Nobody,      \* the server has no connection
  Units,       \* parts of a buffer of BUFF_SIZE bytes
  Word,        \* how many of them hold the four letters of "exit"
  AcceptQueue, \* connections the kernel queues for LISTEN_BACKLOG
  MaxLines     \* bound: lines a client types before its "exit"

ASSUME NobodyAssumption == Nobody \notin Clients
ASSUME SizeAssumption ==
  /\ Units \in Nat /\ Word \in 1 .. Units /\ AcceptQueue \in Nat \ {0} /\ MaxLines \in Nat

VARIABLES
  spc,     \* where the server is
  cur,     \* the client of new_socket_fd
  backlog, \* connections that are not accepted yet
  heard,   \* the line the server read last, 0 for an end of file
  sEnd,    \* the server's end of each connection: open, or how it was closed
  sLost,   \* clients that are gone and that the server has written to since
  cpc,     \* where each client is
  lines,   \* lines each client has typed
  shown,   \* the answer each client has printed last, 0 for an end of file
  cEnd,    \* the client's end of each connection
  cLost,   \* clients that have written to a closed connection
  up, down,\* what is under way to the server, and to the client
  short,   \* history: clients on whose connection a read has returned less than a frame
  killed   \* history: clients ended by Ctrl-C

server  == <<spc, cur, backlog, heard>>
ends    == <<sEnd, cEnd>>
streams == <<up, down>>
vars    == <<server, sEnd, sLost, cpc, lines, shown, cEnd, cLost, up, down, short, killed>>

ServerStates == {"accept", "read", "reply", "dead", "stopped"}
ClientStates == {"start", "prompt", "read", "left", "dead"}
EndStates    == {"open", "fin", "rst"}

Part == [line : Nat, part : 1 .. Units, exit : BOOLEAN]

Running == spc \in {"accept", "read", "reply"}

Init ==
  /\ spc = "accept" /\ cur = Nobody /\ backlog = <<>> /\ heard = 0
  /\ sEnd = [c \in Clients |-> "open"] /\ sLost = {}
  /\ cpc = [c \in Clients |-> "start"] /\ lines = [c \in Clients |-> 0]
  /\ shown = [c \in Clients |-> 0] /\ cEnd = [c \in Clients |-> "open"] /\ cLost = {}
  /\ up = [c \in Clients |-> <<>>] /\ down = [c \in Clients |-> <<>>]
  /\ short = {} /\ killed = {}
-----------------------------------------------------------------------------

(* One write: the buffer holds the line, or "exit", and padding *)
Frame(n, e) == [i \in 1 .. Units |-> [line |-> n, part |-> i, exit |-> e]]

(* One read of a stream that holds something *)
ReadSizes(s) == 1 .. (IF Len(s) < Units THEN Len(s) ELSE Units)
Rest(s, k)   == SubSeq(s, k + 1, Len(s))
Shortened(c, k) == short' = IF k < Units THEN short \cup {c} ELSE short

(* strncmp("exit", recvbuff, 4) = 0 *)
NoExit(s, k) == FALSE
IsExit(s, k) == k >= Word /\ s[1].part = 1 /\ s[1].exit

(* What close leaves: a reset when there is something unread.  It may      *)
(* overtake what was sent before.                                          *)
Closed(unread) == IF unread = <<>> THEN "fin" ELSE "rst"
Kept(s, end)   == IF end = "rst" THEN {SubSeq(s, 1, k) : k \in 0 .. Len(s)} ELSE {s}
-----------------------------------------------------------------------------
(* The server's end of connection c is closed, with out sent and in unread *)
SClose(c, in, out) ==
  /\ sEnd' = [sEnd EXCEPT ![c] = Closed(in)]
  /\ up' = [up EXCEPT ![c] = <<>>]
  /\ \E s \in Kept(out, Closed(in)) : down' = [down EXCEPT ![c] = s]

NextClient == spc' = "accept" /\ cur' = Nobody

SAccept ==
  /\ spc = "accept" /\ backlog # <<>>
  /\ cur' = Head(backlog) /\ backlog' = Tail(backlog) /\ spc' = "read"
  /\ UNCHANGED <<heard, ends, sLost, cpc, lines, shown, cLost, streams, short, killed>>

(* The server waits for the rest of a frame, without counting *)
SReadWhole(c, k) ==
  /\ spc = "read" /\ cur = c /\ k \in ReadSizes(up[c])
  /\ up' = [up EXCEPT ![c] = Rest(@, k)] /\ Shortened(c, k) /\ UNCHANGED <<sEnd, down, cur>>
  /\ spc' = (IF k < Units THEN "read" ELSE "reply") /\ heard' = up[c][1].line
  /\ UNCHANGED <<backlog, sLost, cpc, lines, shown, cEnd, cLost, killed>>

SReadStale(c, k) ==   \* recvbuff is printed as the read before left it
  /\ spc = "read" /\ cur = c /\ k \in ReadSizes(up[c])
  /\ Shortened(c, k)
  /\ IF IsExit(up[c], k)
     THEN SClose(c, Rest(up[c], k), down[c]) /\ NextClient
     ELSE /\ up' = [up EXCEPT ![c] = Rest(@, k)] /\ spc' = "reply"
          /\ UNCHANGED <<sEnd, down, cur>>
  /\ UNCHANGED <<heard, backlog, sLost, cpc, lines, shown, cEnd, cLost, killed>>

SRead(c, k) ==
  /\ spc = "read" /\ cur = c /\ k \in ReadSizes(up[c])
  /\ Shortened(c, k)
  /\ IF IsExit(up[c], k)
     THEN SClose(c, Rest(up[c], k), down[c]) /\ NextClient /\ UNCHANGED heard
     ELSE /\ up' = [up EXCEPT ![c] = Rest(@, k)] /\ spc' = "reply" /\ heard' = up[c][1].line
          /\ UNCHANGED <<sEnd, down, cur>>
  /\ UNCHANGED <<backlog, sLost, cpc, lines, shown, cEnd, cLost, killed>>

(* read returns 0: the buffer is all padding, and the server goes on *)
SReadEof(c) ==
  /\ spc = "read" /\ cur = c /\ up[c] = <<>> /\ cEnd[c] = "fin"
  /\ spc' = "reply" /\ heard' = 0
  /\ UNCHANGED <<cur, backlog, ends, sLost, cpc, lines, shown, cLost, streams, short, killed>>

(* The process ends, by handle_error, SIGPIPE or Ctrl-C, and the kernel    *)
(* closes what it has: connections in the queue are reset.                 *)
ServerEnds(how) ==
  /\ spc' = how /\ cur' = Nobody /\ backlog' = <<>>
  /\ LET queued(c) == \E i \in DOMAIN backlog : backlog[i] = c
         end(c)    == IF queued(c) THEN "rst" ELSE IF c = cur THEN Closed(up[c]) ELSE sEnd[c]
     IN  /\ sEnd' = [c \in Clients |-> end(c)]
         /\ up' = [c \in Clients |-> IF queued(c) \/ c = cur THEN <<>> ELSE up[c]]
         /\ IF cur = Nobody THEN down' = down
            ELSE \E s \in Kept(down[cur], end(cur)) : down' = [down EXCEPT ![cur] = s]
  /\ UNCHANGED <<heard, sLost, cpc, lines, shown, cEnd, cLost, short, killed>>

(* A write to a client that is gone gets through once; its reset has come  *)
(* before the next one, a person types in between.                         *)
SWriteFails(c) == cEnd[c] = "rst" \/ (cEnd[c] = "fin" /\ c \in sLost)

SReply(c, e) ==
  /\ spc = "reply" /\ cur = c /\ ~SWriteFails(c)
  /\ sLost' = IF cEnd[c] = "open" THEN sLost ELSE sLost \cup {c}
  /\ LET out == IF cEnd[c] = "open" THEN down[c] \o Frame(heard, e) ELSE down[c]
     IN  IF e THEN SClose(c, up[c], out) /\ NextClient
         ELSE down' = [down EXCEPT ![c] = out] /\ spc' = "read" /\ UNCHANGED <<cur, sEnd, up>>
  /\ UNCHANGED <<backlog, heard, cpc, lines, shown, cEnd, cLost, short, killed>>

SReset(c) == spc = "read" /\ cur = c /\ up[c] = <<>> /\ cEnd[c] = "rst" /\ ServerEnds("dead")
SSigpipe(c) == spc = "reply" /\ cur = c /\ SWriteFails(c) /\ ServerEnds("dead")
SKill == Running /\ ServerEnds("stopped")
-----------------------------------------------------------------------------
(* connect, which waits while the queue is full *)
CConnect(c) ==
  /\ cpc[c] = "start" /\ Running /\ Len(backlog) < AcceptQueue
  /\ cpc' = [cpc EXCEPT ![c] = "prompt"] /\ backlog' = Append(backlog, c)
  /\ UNCHANGED <<spc, cur, heard, ends, sLost, lines, shown, cLost, streams, short, killed>>

CRefused(c) ==
  /\ cpc[c] = "start" /\ ~Running /\ cpc' = [cpc EXCEPT ![c] = "dead"]
  /\ UNCHANGED <<server, ends, sLost, lines, shown, cLost, streams, short, killed>>

(* The client's end is closed, with out sent and in unread *)
CClose(c, in, out) ==
  /\ cEnd' = [cEnd EXCEPT ![c] = Closed(in)]
  /\ down' = [down EXCEPT ![c] = <<>>]
  /\ \E s \in Kept(out, Closed(in)) : up' = [up EXCEPT ![c] = s]

CWriteFails(c) == sEnd[c] = "rst" \/ (sEnd[c] = "fin" /\ c \in cLost)

CSend(c, e) ==
  /\ cpc[c] = "prompt" /\ ~CWriteFails(c) /\ (e \/ lines[c] < MaxLines)
  /\ lines' = [lines EXCEPT ![c] = @ + 1]
  /\ cLost' = IF sEnd[c] = "open" THEN cLost ELSE cLost \cup {c}
  /\ LET out == IF sEnd[c] = "open" THEN up[c] \o Frame(lines'[c], e) ELSE up[c]
     IN  IF e THEN CClose(c, down[c], out) ELSE up' = [up EXCEPT ![c] = out] /\ UNCHANGED <<cEnd, down>>
  /\ cpc' = [cpc EXCEPT ![c] = IF e THEN "left" ELSE "read"]
  /\ UNCHANGED <<server, sEnd, sLost, shown, short, killed>>

CRead(c, k) ==
  /\ cpc[c] = "read" /\ k \in ReadSizes(down[c])
  /\ Shortened(c, k)
  /\ IF IsExit(down[c], k)
     THEN CClose(c, Rest(down[c], k), up[c]) /\ cpc' = [cpc EXCEPT ![c] = "left"] /\ UNCHANGED shown
     ELSE /\ down' = [down EXCEPT ![c] = Rest(@, k)] /\ cpc' = [cpc EXCEPT ![c] = "prompt"]
          /\ shown' = [shown EXCEPT ![c] = down[c][1].line] /\ UNCHANGED <<cEnd, up>>
  /\ UNCHANGED <<server, sEnd, sLost, lines, cLost, killed>>

CReadAgain(c) ==   \* 0 is taken for nothing yet, and read is called again
  cpc[c] = "read" /\ down[c] = <<>> /\ sEnd[c] = "fin" /\ UNCHANGED vars

CReadEof(c) ==
  /\ cpc[c] = "read" /\ down[c] = <<>> /\ sEnd[c] = "fin"
  /\ cpc' = [cpc EXCEPT ![c] = "prompt"] /\ shown' = [shown EXCEPT ![c] = 0]
  /\ UNCHANGED <<server, ends, sLost, lines, cLost, streams, short, killed>>

(* handle_error or SIGPIPE *)
CFails(c) ==
  /\ \/ cpc[c] = "prompt" /\ CWriteFails(c)
     \/ cpc[c] = "read" /\ down[c] = <<>> /\ sEnd[c] = "rst"
  /\ cpc' = [cpc EXCEPT ![c] = "dead"] /\ CClose(c, down[c], up[c])
  /\ UNCHANGED <<server, sEnd, sLost, lines, shown, cLost, short, killed>>

CKill(c) ==
  /\ cpc[c] \in {"prompt", "read"} /\ killed' = killed \cup {c}
  /\ cpc' = [cpc EXCEPT ![c] = "dead"] /\ CClose(c, down[c], up[c])
  /\ UNCHANGED <<server, sEnd, sLost, lines, shown, cLost, short>>
-----------------------------------------------------------------------------
SNext(c) ==
  \/ \E k \in 1 .. Units : SRead(c, k)
  \/ SReadEof(c) \/ (\E e \in BOOLEAN : SReply(c, e)) \/ SReset(c) \/ SSigpipe(c)

CSteps(c) ==
  \/ CConnect(c) \/ CRefused(c) \/ (\E e \in BOOLEAN : CSend(c, e))
  \/ (\E k \in 1 .. Units : CRead(c, k)) \/ CReadEof(c) \/ CFails(c)

Next == SAccept \/ SKill \/ \E c \in Clients : SNext(c) \/ CSteps(c) \/ CKill(c)

Spec == Init /\ [][Next]_vars

(* Both programs run, and the two people go on typing *)
FairSpec ==
  /\ Spec /\ WF_vars(SAccept)
  /\ \A c \in Clients : WF_vars(SNext(c)) /\ WF_vars(CSteps(c))
=============================================================================
