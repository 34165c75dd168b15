------------------------------ MODULE ShmChat ------------------------------
(***************************************************************************)
(* The chat of nhap/chat-shm: one page of shared memory, in which a client  *)
(* writes its pid and the server then every line its user types, telling    *)
(* the client with SIGUSR1.  Either program may be ended and started again, *)
(* and the page keeps whatever it held.                                     *)
(***************************************************************************)
EXTENDS Naturals, FiniteSets

CONSTANTS
  Clients,    \* client processes, each run once
  MaxLines,   \* lines typed at the server
  MaxStarts,  \* runs of the server
  None        \* no segment, no pid

ASSUME LinesAssumption == MaxLines \in Nat
ASSUME StartsAssumption == MaxStarts \in Nat

VARIABLES
  name,     \* the segment "duc-map" names now
  text,     \* text[s] : what segment s holds
  spc,      \* where the server is
  sseg,     \* the segment the server has mapped
  spid,     \* the text the server took its pid from
  line,     \* lines typed so far
  chat,     \* the line in chat, 0 before this run's first fgets
  starts,   \* runs of the server so far
  cpc,      \* cpc[c] : where client c is
  cseg,     \* cseg[c] : the segment c has mapped
  pending,  \* pending[c] : SIGUSR1 is pending for c
  half,     \* half[c] : what the print in progress has read first
  shown     \* shown[c] : the last line c printed whole

server  == <<spc, sseg, spid, line, chat, starts>>
clients == <<cpc, cseg, pending, half, shown>>
vars    == <<name, text, server, clients>>

Segments == 1..(Cardinality(Clients) + MaxStarts)

\* What a segment can hold: a pid or a line, whole or as far as it has been
\* written.  Only a pid reads as a number; a typed line may look like one.
Empty  == [kind |-> "empty", of |-> 0, whole |-> TRUE]
Pid(c, whole)   == [kind |-> "pid", of |-> c, whole |-> whole]
Line(n, whole)  == [kind |-> "line", of |-> n, whole |-> whole]
Texts == {Empty} \cup {Pid(c, w) : c \in Clients, w \in BOOLEAN}
                 \cup {Line(n, w) : n \in 0..MaxLines, w \in BOOLEAN}

ASSUME NoneAssumption == None \notin Texts

Init ==
  /\ name = None /\ text = [s \in {} |-> Empty]
  /\ spc = "out" /\ sseg = None /\ spid = None /\ starts = 0
  /\ line = 0 /\ chat = 0
  /\ cpc = [c \in Clients |-> "out"] /\ cseg = [c \in Clients |-> None]
  /\ pending = [c \in Clients |-> FALSE]
  /\ half = [c \in Clients |-> Empty] /\ shown = [c \in Clients |-> 0]

\* shm_open with O_CREAT and ftruncate: the named segment as it is, or a new
\* one full of zeroes.
OpenSegment(seg) ==
  IF name # None
  THEN /\ seg = name
       /\ UNCHANGED <<name, text>>
  ELSE /\ seg = Cardinality(DOMAIN text) + 1
       /\ name' = seg
       /\ text' = [s \in DOMAIN text \cup {seg} |->
                     IF s = seg THEN Empty ELSE text[s]]

----------------------------------------------------------------------------
(* The server.                                                             *)

SStart ==
  /\ spc = "out" /\ starts < MaxStarts
  /\ starts' = starts + 1
  /\ spc' = "poll" /\ spid' = None /\ chat' = 0
  /\ \E seg \in Segments : OpenSegment(seg) /\ sseg' = seg
  /\ UNCHANGED <<line, clients>>

\* atol(data) # 0 : a pid, begun or whole, or a typed line like "42".
Numeric(t) == t.kind \in {"pid", "line"}

SPoll ==
  /\ spc = "poll" /\ Numeric(text[sseg])
  /\ spc' = "take"
  /\ UNCHANGED <<name, text, sseg, spid, line, chat, starts, clients>>

\* The slip: the server opens the segment anew for the pid.
STakeReopens ==
  /\ spc = "take"
  /\ \E seg \in Segments : OpenSegment(seg) /\ spid' = text'[seg]
  /\ spc' = "ask"
  /\ UNCHANGED <<sseg, line, chat, starts, clients>>

\* The server reads the segment again, for the pid itself.
STake ==
  /\ spc = "take"
  /\ spid' = text[sseg]
  /\ spc' = "ask"
  /\ UNCHANGED <<name, text, sseg, line, chat, starts, clients>>

\* fgets and strcpy.  At end of file fgets leaves chat as it is: the last
\* line of this run, which is copied over itself, or what the stack held.
SType ==
  /\ spc = "ask"
  /\ \/ line < MaxLines /\ line' = line + 1 /\ chat' = line + 1
     \/ UNCHANGED <<line, chat>>
  /\ text' = IF text[sseg] = Line(chat', TRUE) THEN text
             ELSE [text EXCEPT ![sseg] = Line(chat', FALSE)]
  /\ spc' = "copy"
  /\ UNCHANGED <<name, sseg, spid, starts, clients>>

SCopied ==
  /\ spc = "copy"
  /\ text' = [text EXCEPT ![sseg] = Line(chat, TRUE)]
  /\ spc' = "kill"
  /\ UNCHANGED <<name, sseg, spid, line, chat, starts, clients>>

Signals(c) == spid = Pid(c, TRUE) /\ cpc[c] \notin {"out", "gone"}

\* kill fails without notice when the process has gone; with a wrong pid the
\* signal is a stranger's.
SKill ==
  /\ spc = "kill"
  /\ pending' = [c \in Clients |-> pending[c] \/ Signals(c)]
  /\ spc' = "ask"
  /\ UNCHANGED <<name, text, sseg, spid, line, chat, starts, cpc, cseg, half, shown>>

\* exit_handler leaves the segment and its name in place.
SInt ==
  /\ spc # "out"
  /\ spc' = "out" /\ sseg' = None /\ spid' = None
  /\ UNCHANGED <<name, text, line, chat, starts, clients>>

----------------------------------------------------------------------------
(* The clients.                                                            *)

\* The handlers are installed before the segment is opened.
CStart(c) ==
  /\ cpc[c] = "out"
  /\ cpc' = [cpc EXCEPT ![c] = "signals"]
  /\ UNCHANGED <<name, text, server, cseg, pending, half, shown>>

COpen(c) ==
  /\ cpc[c] = "signals"
  /\ cpc' = [cpc EXCEPT ![c] = "mapped"]
  /\ \E seg \in Segments :
        OpenSegment(seg) /\ cseg' = [cseg EXCEPT ![c] = seg]
  /\ UNCHANGED <<server, pending, half, shown>>

\* sprintf writes the digits one after the other.
CWritePid(c) ==
  /\ \/ /\ cpc[c] = "mapped"
        /\ text' = [text EXCEPT ![cseg[c]] = Pid(c, FALSE)]
        /\ cpc' = [cpc EXCEPT ![c] = "writing"]
     \/ /\ cpc[c] = "writing"
        /\ text' = [text EXCEPT ![cseg[c]] = Pid(c, TRUE)]
        /\ cpc' = [cpc EXCEPT ![c] = "loop"]
  /\ UNCHANGED <<name, server, cseg, pending, half, shown>>

\* data_handler prints the segment while the server may be writing it.
CPrint(c) ==
  /\ cpc[c] = "loop" /\ pending[c]
  /\ pending' = [pending EXCEPT ![c] = FALSE]
  /\ half' = [half EXCEPT ![c] = text[cseg[c]]]
  /\ cpc' = [cpc EXCEPT ![c] = "print"]
  /\ UNCHANGED <<name, text, server, cseg, shown>>

\* The slip: the handler takes a signal that came meanwhile for its own.
CPrintedDrops(c) ==
  /\ cpc[c] = "print"
  /\ pending' = [pending EXCEPT ![c] = FALSE]
  /\ shown' = IF text[cseg[c]] = half[c] /\ half[c].kind = "line"
                 /\ half[c].whole
              THEN [shown EXCEPT ![c] = half[c].of] ELSE shown
  /\ half' = [half EXCEPT ![c] = Empty]
  /\ cpc' = [cpc EXCEPT ![c] = "loop"]
  /\ UNCHANGED <<name, text, server, cseg>>

CPrinted(c) ==
  /\ cpc[c] = "print"
  /\ LET t == text[cseg[c]]
     IN  shown' = IF t = half[c] /\ t.kind = "line" /\ t.whole
                  THEN [shown EXCEPT ![c] = t.of] ELSE shown
  /\ half' = [half EXCEPT ![c] = Empty]
  /\ cpc' = [cpc EXCEPT ![c] = "loop"]
  /\ UNCHANGED <<name, text, server, cseg, pending>>

\* exit_handler removes the name, whichever segment it stands for by now; a
\* client that is killed leaves it.
CLeave(c) ==
  /\ cpc[c] \notin {"out", "gone"}
  /\ name' \in {None, name}
  /\ cpc' = [cpc EXCEPT ![c] = "gone"]
  /\ cseg' = [cseg EXCEPT ![c] = None]
  /\ pending' = [pending EXCEPT ![c] = FALSE]
  /\ half' = [half EXCEPT ![c] = Empty]
  /\ UNCHANGED <<text, server, shown>>

----------------------------------------------------------------------------
Next ==
  \/ SStart \/ SPoll \/ STake \/ SType \/ SCopied \/ SKill \/ SInt
  \/ \E c \in Clients : \/ CStart(c) \/ COpen(c) \/ CWritePid(c)
                        \/ CPrint(c) \/ CPrinted(c) \/ CLeave(c)

Spec == Init /\ [][Next]_vars

\* Both programs go on by themselves except where a user has to type.
Fairness ==
  /\ WF_vars(SCopied) /\ WF_vars(SKill)
  /\ \A c \in Clients : WF_vars(CPrint(c)) /\ WF_vars(CPrinted(c))
                        /\ WF_vars(CWritePid(c))
FairSpec == Spec /\ Fairness
=============================================================================
