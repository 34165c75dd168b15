---------------------------- MODULE ShmChatProps ----------------------------
(***************************************************************************)
(* What holds of the shared-memory chat.                                   *)
(***************************************************************************)
EXTENDS ShmChat

\* Type invariant.
TypeOK ==
  /\ DOMAIN text \subseteq Segments /\ name \in {None} \cup DOMAIN text
  /\ text \in [DOMAIN text -> Texts]
  /\ spc \in {"out", "poll", "take", "ask", "copy", "kill"}
  /\ sseg \in {None} \cup DOMAIN text
  /\ spid \in {None} \cup Texts
  /\ line \in 0..MaxLines /\ chat \in 0..line /\ starts \in 0..MaxStarts
  /\ cpc \in [Clients -> {"out", "signals", "mapped", "writing", "loop",
                          "print", "gone"}]
  /\ cseg \in [Clients -> {None} \cup DOMAIN text]
  /\ pending \in [Clients -> BOOLEAN]
  /\ half \in [Clients -> Texts]
  /\ shown \in [Clients -> 0..MaxLines]

\* A server that has read the whole pid of a client signals somebody who has
\* his handler and looks at the same page, or has gone: whatever page the
\* server found when it was started again, and although a client that leaves
\* takes away the name that a newer pair uses.
SamePage ==
  \A c \in Clients :
     spid = Pid(c, TRUE) =>
       cpc[c] = "gone" \/ (cpc[c] \in {"loop", "print"} /\ cseg[c] = sseg)

\* The server has told client c of line n, and c is there to read it.
Told(c, n) ==
  /\ spc = "ask" /\ chat = n /\ n > 0
  /\ spid = Pid(c, TRUE) /\ cpc[c] # "gone"
  /\ text[sseg] = Line(n, TRUE)

Intruder(c) == \E e \in Clients \ {c} : cpc[e] # "out"

\* A line that the client was told of is shown, or a later one is: the signal
\* comes after the copy, so a print torn by the next line is made again.  A
\* client that ends, a second client that writes its pid over the line, and a
\* server that stops within its next line are the exceptions.
LineShown ==
  \A c \in Clients : \A n \in 1..MaxLines :
     Told(c, n) ~> \/ shown[c] >= n \/ cpc[c] = "gone" \/ Intruder(c)
                   \/ spc = "out"
=============================================================================
