--------------------------- MODULE SockChatProps ---------------------------
(***************************************************************************)
(* What the two sides of the TCP chat can rely on.                         *)
(***************************************************************************)
EXTENDS SockChat

(* Every variable has its type.                                            *)
TypeOK ==
  /\ spc \in ServerStates /\ cur \in Clients \cup {Nobody}
  /\ backlog \in Seq(Clients) /\ heard \in Nat
  /\ sEnd \in [Clients -> EndStates] /\ cEnd \in [Clients -> EndStates]
  /\ sLost \subseteq Clients /\ cLost \subseteq Clients
  /\ cpc \in [Clients -> ClientStates] /\ lines \in [Clients -> Nat] /\ shown \in [Clients -> Nat]
  /\ up \in [Clients -> Seq(Part)] /\ down \in [Clients -> Seq(Part)]
  /\ short \subseteq Clients /\ killed \subseteq Clients

(* However a stream is cut into reads, the two sides of an open connection *)
(* never both wait for the other.                                          *)
Served(c)      == spc = "read" /\ cur = c
BothOpen(c)    == sEnd[c] = "open" /\ cEnd[c] = "open"
NeverBothWait ==
  \A c \in Clients : Served(c) /\ BothOpen(c) /\ cpc[c] = "read" => up[c] # <<>> \/ down[c] # <<>>

(* While reads return whole frames, what a client prints after a line is   *)
(* the answer to that line, or nothing when the server is gone.            *)
AnswersInStep ==
  \A c \in Clients :
     c \notin short /\ cpc[c] = "prompt" /\ lines[c] > 0 =>
        \/ shown[c] = lines[c]
        \/ shown[c] = 0 /\ sEnd[c] # "open"

(* "exit" ends a conversation for both sides: the server lives on for the  *)
(* next client.  Only a client ended by Ctrl-C, or a frame that was cut,   *)
(* can bring it down.                                                      *)
ServerSurvives == spc = "dead" => short # {} \/ killed # {}

(* A client that waits for an answer gets one, or learns that there will   *)
(* be none.                                                                *)
LineAnswered == \A c \in Clients : (cpc[c] = "read") ~> (cpc[c] # "read")
=============================================================================
