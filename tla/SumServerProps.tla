--------------------------- MODULE SumServerProps ---------------------------
(***************************************************************************)
(* What a client of the sum server can rely on.                            *)
(***************************************************************************)
EXTENDS SumServer

(* Every variable has its type.                                            *)
TypeOK ==
  /\ fds \in [Slots -> Clients \cup {Nobody}] /\ result \in [Slots -> Nat]
  /\ up \in BOOLEAN /\ ready \subseteq Clients
  /\ backlog \in Seq(Clients) /\ cpc \in [Clients -> ClientStates]
  /\ unread \in [Clients -> Nat] /\ ended \subseteq Clients
  /\ reply \in [Clients -> Nat \cup {-1}]
  /\ sent \in [Clients -> Nat] /\ dropped \in [Clients -> Nat] /\ cut \subseteq Clients

(* A slot serves one client and a client has one slot, whoever came and    *)
(* went before.                                                            *)
OneSlotEach == \A i, j \in Slots : fds[i] = fds[j] /\ fds[i] # Nobody => i = j

(* A client is answered for its own summands: none of an earlier client of *)
(* its slot, or of a neighbour, is in its result, and what is missing was  *)
(* read in one go with the summand before.                                 *)
OwnSummands == \A c \in Clients : reply[c] >= 0 => reply[c] + dropped[c] = sent[c]

(* The server reads only from sockets that have something for it, so it    *)
(* never blocks outside select.                                            *)
NeverBlocks == \A c \in ready : c \in Monitored /\ Readable(c)

(* A client that ends its list is answered, unless its 0 was read behind a *)
(* summand, the table was full when it came, or a client that went away    *)
(* has brought the server down.                                            *)
TurnedAway(c) == c \notin Monitored /\ reply[c] = -1 /\ \A k \in DOMAIN backlog : backlog[k] # c
Answered ==
  \A c \in Clients : (cpc[c] = "waiting") ~>
     (reply[c] >= 0 \/ cpc[c] = "killed" \/ c \in cut \/ TurnedAway(c) \/ ~up)
=============================================================================
